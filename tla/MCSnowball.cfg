CONSTANTS
  Nodes = {1, 2, 3, 4, 5}
  Targets = {0, 1, 3, 4, 6, 11}
SPECIFICATION Spec
INVARIANTS
  TypeOK
  EdgesCounted
  SampleIsTight
  WholeComponents
PROPERTIES
  GrowsAlongEdges
  SamplerReturns
