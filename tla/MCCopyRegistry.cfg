CONSTANTS
  g1 = g1
  g2 = g2
  i1 = i1
  i2 = i2
  a = a
  b = b
  c1 = c1
  c2 = c2
  Worker = {w1, w2, w3}
  Client = client
  Main = main
  Tag = {g1}
  Image = {i1, i2}
  Digest = {a, b, c1, c2}
  TagOf <- ArchTagOf
  LayersOf <- ArchLayers
  ConfigOf <- ArchConfig
  InitialBlob = {b, c2}
  DirDestination = FALSE
  MaxFaults = 2
SPECIFICATION SafeSpec
SYMMETRY WorkerSymmetry
INVARIANTS LayersStoredBeforeManifest MissingLayerDownloadedOnce
