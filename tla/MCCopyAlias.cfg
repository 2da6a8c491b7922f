CONSTANTS
  g1 = g1
  g2 = g2
  i1 = i1
  i2 = i2
  a = a
  b = b
  c1 = c1
  c2 = c2
  Worker = {w1, w2, w3}
  Client = client
  Main = main
  Tag = {g1, g2}
  Image = {i1, i2}
  Digest = {a, b, c1, c2}
  TagOf <- AliasTagOf
  LayersOf <- AliasLayers
  ConfigOf <- AliasConfig
  InitialBlob = {}
  DirDestination = TRUE
  MaxFaults = 0
SPECIFICATION SafeSpec
INVARIANT CompletedMeansWritten
