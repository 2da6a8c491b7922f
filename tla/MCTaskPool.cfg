CONSTANTS
  main = main
  r1 = r1
  r2 = r2
  t1 = t1
  t2 = t2
  i1 = i1
  i2 = i2
  d1 = d1
  Worker = {w1, w2, w3}
  Client = client
  Main = main
  Task <- MCTask
  Parent <- MCParent
  Joins <- MCJoins
  BackgroundTask <- MCBackground
SPECIFICATION Spec
INVARIANTS TypeOK QueuesHoldWhatIsQueued IdleCountsIdleWorkers NeverAllStuck
PROPERTY ImplementsExecutor
