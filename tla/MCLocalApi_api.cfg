SPECIFICATION Spec
CONSTANTS
  mutation = mutation
  project = project
  handoff = handoff
  session = session
  retirement = retirement
  query = query
  snapshot = snapshot
  all = all
  chat = chat
  Commands = {mutation, project, handoff, session, retirement, query, snapshot}
  Kind <- KindOf
  Selections = {all, chat}
  NoSelection = all
  MaxGenerations = 2
  WriteCapacity = 2
  EventCapacity = 2
  SessionCapacity = 2
  HubCapacity = 1
  SocketCapacity = 1
  CompletedCapacity = 1
  Scenarios <- Frontends
INVARIANTS
  OneResponseAtATime
  NoStrandedNotice
  StaleViewHasNews
  RegistrationsAreOwned
  EveryFrameFits
  ToldIsTrue
  EffectsAreRemembered
CHECK_DEADLOCK FALSE
