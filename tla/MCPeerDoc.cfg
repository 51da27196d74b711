CONSTANTS
  Requests = {r1, r2, r3, r4}
  MaxConcurrency = 2
  Rate = 1
  Window = 2
  PeerTicks = 4
SPECIFICATION PeerSpec
PROPERTY RejectedLeavesPeak
