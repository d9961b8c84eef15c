SPECIFICATION FairSpec
CONSTANTS
  None = None
  Before = Before
  o1 = o1
  o2 = o2
  o3 = o3
  a1 = a1
  a2 = a2
  r1 = r1
  r2 = r2
  Ops = {o1}
  Agents = {a1, a2}
  Commands <- AllCommands
  InitialViews <- RestingViews
  MaxFaults = 2
  MaxForeign = 1
  MaxInputs = 1
  MaxAttempts = 2
INVARIANT TruthfulEnds
INVARIANT CompensationFits
PROPERTY KeepsContract
PROPERTY EveryCommandSettles
\* The commands are finitely many: a project whose commands are over may rest.
CHECK_DEADLOCK FALSE
