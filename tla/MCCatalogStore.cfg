\* Two writers, two products, three calls, one read and one lost connection.
CONSTANTS
  Writers = {w1, w2}
  Skus = {a, b}
  Bad = Bad
  NoOne = NoOne
  Batches <- MCBatches
  MaxCalls = 3
  MaxReads = 1
  MaxLosses = 1
SYMMETRY Interchangeable
SPECIFICATION Spec
INVARIANTS
  NoMixture
  StoreInv
PROPERTIES
  IdIsStable
  ImplementsCatalog
