CONSTANTS
  a = a
  b = b
  l = l
  m = m
  c = c
  v1 = v1
  v2 = v2
  Image = {a, b}
  Digest = {l, m, c}
  Version = {v1, v2}
  LayersOf <- PairLayers
  ConfigOf <- PairConfig
  ImagesIn <- PairLists
  Follows <- Forward
  Size = 2
  MaxRuns = 3
  MaxDrops = 1
  MaxAccidents = 1
SPECIFICATION Spec
INVARIANTS TypeOK BlobsVerified ListHasManifests UndisturbedRunMirrors
PROPERTIES ImplementsContentStore RunEnds
