CONSTANTS
  Clients = {c1}
  Paths = {p1, p2}
  FailFirst <- MCFailFirst
  MaxRequests = 2
  c1 = c1
  c2 = c2
  p1 = p1
  p2 = p2
SPECIFICATION FixtureSpec
INVARIANT PeakIsWorkers
