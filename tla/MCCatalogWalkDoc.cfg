\* What the docstring of page says of a walk, beside two writers.
CONSTANTS
  Writers = {w1, w2}
  Skus = {a, b}
  Bad = Bad
  NoOne = NoOne
  Batches <- MCBatches
  MaxCalls = 2
  MaxReads = 0
  MaxLosses = 0
  PageLimit = 1

SPECIFICATION MCSpec
INVARIANTS
  WalkHasNoGaps
