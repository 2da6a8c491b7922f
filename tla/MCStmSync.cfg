CONSTANTS
  main = main
  outer1 = outer1
  outer2 = outer2
  inner1 = inner1
  inner2 = inner2
  Worker = {w1, w2}
  Client = client
  Main = main
  Task <- SyncTask
  Parent <- SyncParent
  Joins = {main}
  BackgroundTask <- SyncBackground
SPECIFICATION Spec
INVARIANTS TypeOK NothingLeftBehind
PROPERTIES ImplementsTaskPool QueuedTasksFinish DestructorFinishes
