CONSTANTS
  main = main
  outer1 = outer1
  outer2 = outer2
  inner1 = inner1
  inner2 = inner2
  Worker = {w1, w2}
  Client = client
  Main = main
  Task <- TestTask
  Parent <- TestParent
  Joins = {}
  BackgroundTask = {}
SPECIFICATION SafeSpec
INVARIANT WaitMeansDone
