\* Fixture server: two workers, two routes, one of which drops one request.
\* Repository: two writers, two products, two calls.
\* Cache: three threads, two upserts, one failing call.
\* Ingest worker: two consumers, so that six records and two Nones fill the
\* queue of four.
\* Mock peer: four requests, two at a time, two in two ticks.
\* Hostile target: a bucket of two tokens that takes two ticks for one.
\* Connectors: the validators that look before they drop the slot or roll back
\* before they retry, and task 01's, which registers before its try, with two
\* failing calls, failed deletions or killed runs.
\* Event stream: two shops, two tiers and categories, four lines.
\* Cached answers: two validators, one regeneration, one killed process.
CONSTANTS
  Clients = {c1, c2}
  Paths = {p1, p2}
  MaxRequests = 3
  FailFirst <- MCFailFirst
  p1 = p1
  p2 = p2
  Writers = {w1, w2}
  Skus = {a, b}
  Bad = Bad
  NoOne = NoOne
  MaxCalls = 2
  Threads = {t1, t2, t3}
  MaxUpserts = 2
  MaxFailures = 1
  Consumers = {i1, i2}
  MaxRecords = 6
  Requests = {r1, r2, r3, r4}
  MaxConcurrency = 2
  Rate = 2
  Window = 2
  PeerTicks = 3
  TargetTicks = 3
  Capacity = 4
  Refill = 1
  Token = 2
  BanAfter = 2
  TargetRequests = 6
  MaxResets = 1
  Styles = {"wait", "retry", "early"}
  Attempts = 3
  LongSleeps = {"early"}
  MaxFaults = 2
  Shops = {s1, s2}
  Tiers = {"gold", "silver"}
  Categories = {"toys", "tools"}
  FirstTier = "gold"
  FirstCategory = "toys"
  MaxDelay = 2
  LastTime = 8
  MaxLines = 4
  Validators = {v1, v2}
  MaxGenerations = 2
  MaxKills = 1
SPECIFICATION PartsSpec
INVARIANTS
  ExactlyTheFirstFail
  AllAccounted
  GateHolds
  WindowHolds
  ServedWithinBudget
  ResetIsClean
  OwnSnapshotFirst
  OrphanIsExcused
  RowsFollowSemantics
  AnswersAreCurrent
PROPERTIES
  DropReturns
  CallsEnd
  StalenessEnds
  IngestEnds
  PinnedWalIsReleased
