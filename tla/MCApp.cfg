\* The server: three connections, whose handlers may hang for ever.
\* The queue: one producer of three items, two consumers, one lost call or
\* crash beside one restart of the broker, so that a loss and an outage can
\* overlap.
CONSTANTS
  Requests = {r1, r2, r3}
  Producers = {p1}
  Consumers = {c1, c2}
  MaxItems = 3
  MaxFaults = 1
  MaxRestarts = 1
SPECIFICATION AppSpec
INVARIANTS
  DrainThreadWaits
  ServerInv
  AtMostOnce
  Conservation
  LossIsBounded
  InOrder
PROPERTIES
  TermEndsTheApp
  QueueIsDrained
  DepthsSettle
  ImplementsDelivery
