SPECIFICATION FairSpec
CONSTANTS
  mutation = mutation
  project = project
  handoff = handoff
  session = session
  retirement = retirement
  query = query
  snapshot = snapshot
  all = all
  chat = chat
  Commands = {mutation, project, handoff, session, retirement, query, snapshot}
  Kind <- KindOf
  Selections = {all, chat}
  NoSelection = all
  MaxGenerations = 3
  WriteCapacity = 2
  EventCapacity = 2
  SessionCapacity = 1
  HubCapacity = 2
  SocketCapacity = 1
  CompletedCapacity = 1
  Scenarios <- FewObservers
PROPERTIES
  ObserverCatchesUp
  PromptsAreSeen
CHECK_DEADLOCK FALSE
