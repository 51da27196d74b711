\* Two writers and three products, a walk in pages of one and a loader; in
\* turns, with failures, a read and a lost connection.
CONSTANTS
  Writers = {w1, w2}
  Skus = {a, b, c}
  Bad = Bad
  NoOne = NoOne
  Batches <- MCBatches
  MaxCalls = 3
  MaxReads = 1
  MaxLosses = 1
  PageLimit = 1
SYMMETRY Interchangeable
SPECIFICATION MCSpec
INVARIANTS
  WalkIsStable
  NothingReloaded
  SerialLoaderIsCurrent
