\* Three workers compete for three rows in batches of two while two
\* sessions are lost.
CONSTANTS
  Workers = {w1, w2, w3}
  Rows <- ThreeRows
  BatchSize = 2
  NoOne = NoOne
  MaxLosses = 2
SPECIFICATION FairSpec
INVARIANTS
  NoDuplicateClaims
  WaitsInIdOrder
  RepeatedCallsArePaid
  ReportIsSound
  DrainInv
PROPERTIES
  ImplementsContract
  EventuallyDrained
