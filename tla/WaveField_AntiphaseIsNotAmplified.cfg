SPECIFICATION Spec
CONSTANTS
  Keys = {k1, k2}
  Nodes = {self, peer}
  Self = self
  NoOne = nobody
  Shapes <- MCShapes
  MaxWaves = 2
  LifeRejected = 1
  LifeNew = 2
  LifePartial = 3
  LifeValidated = 4
  MaxBatch = 1
  MaxDelay = 0
  MaxNow = 1
PROPERTY
  AntiphaseIsNotAmplified
