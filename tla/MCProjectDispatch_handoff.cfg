SPECIFICATION FairSpec
CONSTANTS
  None = None
  Before = Before
  o1 = o1
  o2 = o2
  o3 = o3
  a1 = a1
  a2 = a2
  r1 = r1
  r2 = r2
  Ops = {o1}
  Agents = {a1, a2}
  Commands <- AllCommands
  InitialViews <- RestingViews
  MaxFaults = 0
  MaxForeign = 0
  MaxInputs = 1
  MaxAttempts = 2
PROPERTY HandoffSettles
\* The commands are finitely many: a project whose commands are over may rest.
CHECK_DEADLOCK FALSE
