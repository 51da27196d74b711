# Verification of learning-sandbox

learning-sandbox is a course: twenty modules of exercises on data, backend,
testing and infrastructure, most of whose task code is a stub for the learner.
What this directory verifies are the parts that are finished programs with
state, concurrency and failures: the worker claim queue with its drain harness,
the fixture app that runs on Kubernetes, the scrape-to-serve catalogue, and the
services and harnesses the exercises are graded by: the Rust fixture server, the
mock peer, the ingest worker, the hostile scraping target, the CDC validators'
connector lifecycle, and the bitemporal event stream with its reference answers.
The modules here are TLA+ models of that code, TLC instances that check them, and
TLAPS proofs of the properties that matter most.

- [Inventory](#inventory)
- [Modules](#modules)
- [Runs](#runs)
- [Bounds](#bounds)
- [Fairness](#fairness)
- [Proofs](#proofs)
- [Disagreements with the documentation](#disagreements-with-the-documentation)
- [What is not modelled](#what-is-not-modelled)
- [Plan](#plan)

Paths below are relative to the repository's root. `PROJECT.json` lists the
lines each definition stands for, the hazards of the code and the property that
guards against each, and for every checked property a plausible bug of the code
(an operator next to the mapped one, named for the bug) under which it fails.

## Inventory

### Worker claim queue

`02-sql-optimization/12-worker-lock-queue/src/claim.sql` and `harness.py`.

*State.* The arena table (`status`, `claimed_by` per row), the row locks and
snapshots of open transactions, each worker thread's local `ids` and
`claimed_ids`, the `results` dictionary, the monitor's high-water mark.

*Operations.* `drain` starts worker threads and a monitor and joins them. A
worker connects, then loops: execute the claim (`UPDATE ... WHERE id IN (SELECT
... ORDER BY id LIMIT n FOR UPDATE) RETURNING id`), leave on an empty result,
call the provider (a sleep) *inside the transaction*, commit, record the ids.
`coverage_counts` reads the table afterwards.

*Interaction.* Workers meet only in the database: a claim waits for the rows
another transaction has locked and re-checks them when that one ends.

*Hard.* Snapshots older than the locks; commits and rollbacks between the two;
sessions lost during the provider call; a commit whose answer is lost; threads
that die silently; the lock order of statements that hold several rows.

*Correct means.* No row in two committed claims; a worker stops only when
nothing is left; what a worker reports is what the table says; claims never wait
in a circle; the drain ends; its report is sound even after losses.

### Kubernetes fixture app

`20-kubernetes/app/app.py`, one program with three modes.

*Server life.* State: the main thread's progress, the SIGTERM disposition,
`shutting_down`, `inflight` under its lock, the drain thread. Operations: boot,
bind, install the handler, `serve_forever`, one daemon thread per connection,
SIGTERM, `httpd.shutdown` from a third thread, `os._exit`. Hard: signals before
the handler exists, the interpreter's exit against daemon threads, a count that
must survive every way a handler can end, `shutdown` waiting for the thread that
runs the signal handler. Correct means: the count is exact, the drain waits for
what was in flight, SIGTERM ends the process.

*Producer and consumer.* State: the broker's list or queue, each client's
connection, `processed_count`, `queue_depth`. Operations: connect with back-off,
push, pop, count, process, refresh the depth. Both back ends forget an item when
they hand it out; they differ in the push. Redis answers it; RabbitMQ does not,
because the channel has no publisher confirms, so pushes on a dead connection
return as if nothing were wrong until the client is told. Hard: calls whose
answer is lost or never asked for, broker and consumer restarts. Correct means:
at-most-once delivery in each producer's order, every item accounted for, losses
bounded by what goes wrong, both loops and the gauges recover.

### Scrape-to-serve catalogue

`16-testing-engineering/07-capstone-scrape-to-serve-test-suite/src/impl.py`.

*Repository.* State: the `products` table with its `BIGSERIAL` id and
`updated_at`, open transactions of the connections given to `CatalogRepo`.
Operations: `upsert_products` (one `INSERT ... ON CONFLICT DO UPDATE` per record,
one commit), `page`, `load_incremental`, `get_by_sku`. Hard: ids are drawn per
statement and published per call; `now()` is the start of a transaction that an
earlier read may have opened; a call may raise half-way and leave its
transaction open; two calls may deadlock. Correct means: ids are unique and
never change, calls that returned are durable and not mixed, walks and loads
return nothing twice and lose nothing they promised.

*API and cache.* `GET /products` walks pages; `GET /products/{sku}` reads
through a Redis cache with an expiry, which upserts do not invalidate. The app
and the writer are given one repository and so one connection. Hard: a slow
request writes an old row over a newer entry; a request reads, and caches, rows
of a call that raised half-way, which may be rolled back. Correct means: whatever
is wrong in the cache does not stay there.

### Rust fixture server

`18-rust-track/harness/src/fixture_server.rs`.

*State.* The accept loop, its shutdown flag, one detached thread per connection,
`current_concurrency` and the largest value any handler saw of it, totals per
path, the failures each route still owes.

*Operations.* Accept without blocking, check the flag, spawn a handler; count in,
answer or drop the connection, count out; `Drop` sets the flag, wakes the loop
and joins it.

*Hard.* Counters that several handlers read and write while clients go on as
soon as the connection closes. *Correct means.* Exactly the first
`fail_first_n` connections of a route fail; `Drop` returns.

### Mock peer

`11-python-concurrency/harness/peer.py`, one aiohttp handler on an event loop.

*State.* Requests in flight, their observed peak, arrival times of the last
second. *Operations.* Gate by concurrency, gate by rate, sleep, answer or be
cancelled. *Hard.* Cancellation in the sleep, the ends of the window. *Correct
means.* The gate counts those that sleep and nobody else; no second lets through
more than the rate.

### Ingest worker

`11-python-concurrency/08-profiling-py-spy/src/app.py`.

*State.* A bounded queue, a producer, consumers, statistics, the TaskGroup that
holds them. *Operations.* Put records, then one `None` per consumer; take,
process, count; cancel. *Hard.* The queue is full and the producer suspended when
consumers leave; a `None` overtaken or missing. *Correct means.* Every record is
counted exactly once and the run returns.

### Hostile scraping target: client defences

`13-scraping-at-scale/docker/target/app.py`.

*State.* Per client: tokens and the time of their refill, violations, header
rejections, trap hits, the ban. *Operations.* The middleware (ban, headers,
honeypots, bucket) on the event loop; a debug reset in the server's thread pool.
*Hard.* The reset replaces a record the middleware already holds; lazy refill.
*Correct means.* A client is served what its bucket pays for; after a reset the
counters stand for later requests only.

### CDC connector lifecycle

`08-cdc-debezium/harness/common.py` and the `tests/validate.py` of its tasks.

*State.* Where the validator's run is, the transaction of its source connection,
the connector and its task in Kafka Connect, stored offsets, replication slot,
publication, topics. *Operations.* `delete_connector` (stop, reset the offsets,
delete), `drop_slot`, `drop_publication`, `reset_topics`, `register_connector`,
`wait_for_connector_running`, run after run. *Hard.* Connect answers before it
acts; the slot stays active after the connector is gone; a run is killed
half-way; a failed statement poisons its transaction; a topic that cannot be
deleted is passed over; task 01 registers before the `try` whose `finally` cleans
up. *Correct means.* A task starts with its own snapshot, whatever the last run
left, and finds older events only where their deletion failed; only a run with an
excuse leaves a slot behind, and it is dropped in the end.

### Event stream, replay and reference answers

`03-data-modeling/harness/events.py` and `ground_truth.py`.

*State.* The lines of the event stream in the order of arrival; the three files
the generator writes one after the other; the cache of the answers. *Operations.*
Emit events late, twice and in the order shops find things out; `parse_events`
and `finalize` replay them to the state that held when a price was observed;
`load_or_compute` reads the meta file, takes the cache or computes and writes it.
*Hard.* Two times per event; the generator rewrites files under a reader; a
process killed between two writes. *Correct means.* Every observation is joined
with what held at its event time; a validator is given the answers of the files it
has.

### Other finished code

Kept out, with the reason for each in `PROJECT.json`: the load runner
(`12-api-engineering/harness`), `TTLCache`, `PriceRepo` and the Redis
`RateLimiter` and `DedupFilter` (`16-testing-engineering/02` to `04`), the async
Rust server and the TypeScript mock server, the CI tools (`ci-meta`), parsers,
data generators and validators.

## Modules

| Module | Stands for |
|---|---|
| `ClaimContract` | What a drain promises its operator: non-empty batches of free rows, final owners, nobody retires while rows are left. |
| `ClaimQueue` | `claim.sql` and `harness.py`; implements `ClaimContract`. |
| `ClaimQueueProofs` | Proofs about `ClaimQueue`. |
| `AppServer`, `AppServerProofs` | `app.py` from boot to exit, and proofs. |
| `DeliveryContract` | What the queue promises: a made item waits until it is counted once, behind no later one, or is lost for good. |
| `AppQueue`, `AppQueueProofs` | `app.py` in producer and consumer mode, with its broker; implements `DeliveryContract`; and proofs. |
| `CatalogContract` | What the table of products promises its readers: a call publishes all its rows at once, ids are unique and final, a call that has returned writes no more. |
| `CatalogStore`, `CatalogStoreProofs` | `CatalogRepo.upsert_products` on several connections; implements `CatalogContract`; and proofs. |
| `CatalogReaders`, `CatalogReadersProofs` | Extends `CatalogStore` with a client that walks pages and a loader with a watermark, and proofs. |
| `CatalogCache` | `GET /products/{sku}` with its cache, beside upserts on the same connection. |
| `FixtureServer` | The blocking fixture server and its one-request-at-a-time clients. |
| `Peer` | The mock peer's handler. |
| `IngestWorker`, `IngestWorkerProofs` | `run_workload` of the ingest worker, and proofs. |
| `HostileTarget` | The hostile target's record of one client. |
| `ConnectorLifecycle` | A connector under its task's validator, run after run. |
| `GroundTruth` | The event stream and its replay. |
| `GroundTruthCache` | `load_or_compute` beside the generator and killed processes. |
| `ServicesProofs` | Proofs about `Peer`, `HostileTarget` and `FixtureServer`. |
| `HarnessProofs` | Proofs about `ConnectorLifecycle`, `GroundTruthCache` and `GroundTruth`. |
| `MCApp` | Extends `AppServer` and `AppQueue`: one image, `mode` says which it runs as. |
| `MCServices` | Extends the parts that stand alone, with an instance of `CatalogStore`; `part` says which part a behaviour runs. |
| `MCCatalogReaders` | The readers beside two writers, or (`serial`) beside two that take turns. |
| Other `MC...` | Small instances of the module named. |

**ClaimQueue.** One action per step of `_worker` that another actor can see:
`Connect`, `Execute` (the snapshot), `LockRow` and `SkipClaimedRow` (one row of
the locking scan each), `ReturnClaim`, `CallProvider`, `CommitBatch`,
`CommitEmpty`, `Raise`. `NextRow` is where the scan stands; `Takes` and `Drops`
are the re-check under READ COMMITTED, and neither holds while another
transaction has the row: that is the wait. A lost session (`LoseSession`) rolls
back at the server at once and is noticed by the thread at its next database
call; `CommitUnacknowledged` is a commit whose answer is lost. `MonitorPoll` is
the monitor thread, `Join` the statistics. The refinement maps `owner` to
`claimedBy` and a worker's life to its program counter.

**AppServer.** `main` follows the main thread; `MainStep` actions are its
statements. `Count`, `Answer`, `Abandon` and `Leave` are a handler between its
two updates of `inflight`, the response written or the client gone. A handled
SIGTERM starts the drain thread; `StopServing` and `MainExits` are
`serve_forever` returning into `main` and the interpreter going away with its
daemon threads, in a race with `DrainExits`. `owed` remembers what was in flight
at SIGTERM; the code does not read it.

**AppQueue.** A queue, clients whose connection may be dead without their
knowing (`stale`), and the two loops; `backend` says which broker it is.
`PushUnconfirmed` and `PopAnswerLost` are calls that took effect and raise all the
same. `ConnectionDies` is a RabbitMQ connection that is half open or blocked, and
`PushLost` a push on it, which returns normally; only when the heartbeat or the
blocked-connection timeout closes the connection does a push raise (`PushFails`),
and until then one fault takes any number of items. `LossIsBounded` therefore
counts single items on Redis and unbroken runs of a producer's items on RabbitMQ
(`Losses`). `log`, `dropped` and `wiped` are
bookkeeping for the properties. The refinement maps an item that waits to one on
the broker or in the hand of the consumer that took it off, and a lost one to one
that was dropped or wiped.

**CatalogStore.** A call is `Upsert`, then for each record `Draw` (the statement
begins: VALUES and `nextval` are evaluated) and `Place` (it gets the lock and
writes the row it finds), then `Commit`. Between `Draw` and `Place` the
statement may wait for another transaction (`WaitsFor`). `RaiseOnRecord` is an
exception in Python before the statement is sent (a missing key, a price that is
no decimal): the transaction stays open with the earlier records in it.
`RejectRecord` is an error of the server, `DeadlockDetected` its detector,
`LoseConnection` and `CommitUnacknowledged` the network. `OwnerResets` is the
connection's owner, whose job the docstring says it is. A row keeps its id, its
`updated_at` and `by`, the number of the call that wrote it, which stands for
the data columns. `table`, `made` and `acked` are what `CatalogContract` speaks
of; statements, locks and connections are hidden from it.

**CatalogReaders.** `ListProducts` is one request for a page, `LoadIncremental`
one call by a loader that passes back the largest `updated_at` it got. Each is
one statement and so one atomic read of the committed rows. `Ordered` is ORDER BY:
every sequence that lists a set once and in the given order. `overlapped` is
bookkeeping: two transactions of writers have been open at the same time.

**CatalogCache.** A request is `CacheGet`, `GetBySku`, `CacheSet`, on any number
of threads; product versions are numbered by upsert. `open` is what the shared
connection's transaction has written and not committed, so `GetBySku` reads it
(`Seen`) and `CacheSet` caches it; `RollBack` may take it back, and a refused
statement makes the transaction `aborted`, so that requests are refused too. That
uncommitted rows are cached is the code's behaviour, so no property denies it;
`StalenessEnds` says that such an entry, like an outdated one, does not stay.

**FixtureServer.** `CheckFlag` and the accept that follows it are two steps, so
that the flag can be set between them. A handler counts in, asks its route
whether it is to fail, answers, shuts its connection down and only then counts
out; `mine` is the value of the counter it raises the maximum with. Clients are
the workers the exercises write: one request at a time each.

**Peer.** A handler runs to its sleep without an `await`, so admission is one
step; `Wake` is the `finally`, whichever way the sleep ends.

**IngestWorker.** The queue is first in first out, so two counts (`put`, `got`)
and the number of records describe it. `CheckRecords` is the loop's test and
`PutRecord` the `put` that follows, which may have to wait for room in between.

**HostileTarget.** `LookUp` finds the client's record; what follows works on that
record, unless `Reset` has replaced it meanwhile, in which case its effect is lost
to the client.

**ConnectorLifecycle.** `phase` and `step` are the validator's place in
`validate.py` and in the helper it calls; `connector`, `task` and `slot` move by
actions of Connect, Debezium and PostgreSQL. `style` is how the task's validator
tries and drops the slot: it waits until it is free (02), polls and retries (06,
and 01, where `InTry` leaves the registration and the wait out of the try), rolls
back and retries (04, 05), or retries in the same transaction (03). `ResetTopics`
leaves what it cannot delete and remembers that in `kept`; an event's `own` says
that the present run's task has published it.

**GroundTruth.** The generator's guarantees (an administrative event arrives at
most `MaxDelay` late, changes of one shop are further apart than that) are the
guards of its actions. The replay is a set of operators over the file:
`parse_events` collects the *places* of the lines of a type, `ByTime` is the
stable sort by event time (a line's rank is the number of lines not behind it),
`AsOf` the look-up by `searchsorted`, and
`RowsFollowSemantics` compares its rows with a definition of what held at an
event's time that does not mention arrival.

**GroundTruthCache.** A file's content is the generation it belongs to, 0 while
it is written or when its writer was killed. A call is `LoadMeta`,
`ReturnCached` or `Compute`, `ParseEvents`, `ParseClients`, `Stamp`,
`OpenCache`, `CloseCache`. `alone` is bookkeeping: no generator ran since the
call began.

## Runs

| Run | Shows |
|---|---|
| `claim_queue` | Three workers, three rows, batches of two, two lost sessions, under fairness: no duplicate claims, waiting in id order, calls repeated only after a loss, a sound report, an implementation of `ClaimContract` (in which a worker that stops leaves nothing pending), and a drain that ends. |
| `app` | *Server:* exact count, a drain thread that waits, a process that ends after a handled SIGTERM although handlers may hang. *Queue*, on Redis and on RabbitMQ: at-most-once, in order, everything accounted for, bounded loss, an implementation of `DeliveryContract`; the queue drains after faults and an outage, and the consumers' gauges settle. |
| `app_server_doc` | *Violation*: in-flight requests are cut at SIGTERM. |
| `app_queue_doc` | *Violation*: a producer's depth gauge stays -1. |
| `catalog_store_safety` | Two writers, three calls over two products: unique and stable ids, unmixed acknowledged calls, an implementation of `CatalogContract` (by which they are durable). |
| `catalog_readers` | A walk and a loader beside two writers: nothing twice, nothing that was there at the start is missed. Beside two writers whose transactions do not overlap, failures included, the loader's watermark loses nothing. |
| `catalog_walk_doc` | *Violation*: beside two writers a walk has gaps. |
| `services` | Nine parts, one per behaviour: the fixture server drops exactly the first requests and its `Drop` returns; every call of `upsert_products` returns or raises; no wrong cache entry stays; the ingest worker accounts for every record and returns; the peer's gate and window hold; the target serves within the budget and a reset is clean; a connector's task starts with its own snapshot and beside older events only after a failed deletion, orphaned slots have an excuse and are dropped in the end; the replay follows its semantics; a validator's answers are those of its files. |
| `fixture_doc` | *Violation*: a client that sends one request at a time is counted twice at once. |
| `peer_doc` | *Violation*: a request rejected by rate moves the observed peak. |
| `cdc_doc` | *Violation*: task 03's clean-up leaves an orphaned slot in a run nothing went wrong in. |
| `truth_doc` | *Violation*: answers are cached under the sha of other files. |

The inductive invariants `DrainInv`, `ServerInv` and `StoreInv` are checked by
these runs as they stand. They contain the type invariants of their modules and
properties such as `IdsAreUnique`, `AckedIsDurable`, `EmptyMeansDrained` or
`InflightIsExact`, which are therefore not listed as properties of a run. The other inductive invariants (see
[Proofs](#proofs)) were checked on the same instances while they were written
and are proved now; the runs keep the properties that follow from them.

Deadlock is checked everywhere: `Returned`, `Gone` and `Quiet` are the states in
which the system has come to rest.

## Bounds

- `MaxLosses`, `MaxFaults`, `MaxRestarts`, `MaxFailures` cap disturbances: one
  lost session lets a batch be taken over, a second one lets the batch that took
  over be lost as well, or a commit and a rollback fail in one run. One fault and
  one restart let a loss overlap an outage.
- Three rows in batches of two give a full batch, a partial one and an empty
  claim, divided among three workers in every way: one waits for a second, which
  waits for a third.
- Three connections let one be in flight at SIGTERM, one arrive in the accept
  loop's last round and one be refused.
- One producer of three items and two consumers: order within a producer and
  interleaving between consumers that split its items.
- `MaxCalls` = 3 and lists of up to two different records over two products: two
  writers in opposite orders and a third call on top, which is what publishes the
  records that a call which raised has left in its open transaction. `MaxReads`
  lets one read open a writer's transaction early. Readers get three products, so
  that a walk in pages of one has a middle. In a `serial` behaviour two writers
  take turns, over at most two of the products, with malformed records, one early
  read and one lost connection; nobody walks there, and nothing fails where
  somebody does. That a walk is stable whatever fails is what `StableWalk` proves.
- `MaxUpserts` = 2 suffices for an old and a new version in the cache, or a
  committed and an uncommitted one, and three threads for one that is slow while
  two others fill it; one failing call aborts a transaction.
- Fixture server: two clients meet on two routes, one of which drops a request;
  a third request can overlap the count-out of the first.
- Ingest worker: two consumers have a queue of four, and six records fill it, so
  that the producer is suspended in both of its loops.
- Peer: four requests against a cap of two and a rate of two in two ticks: one
  can leave the window, one be throttled by either gate.
- Target: a bucket of two tokens that regains one in two ticks, six requests, a
  ban after two violations, one reset.
- Connectors: two faults, so that a killed run can be followed by a run whose
  clean-up or deletion of topics fails. The number of runs is not bounded. Styles
  `"wait"`, `"retry"` and `"early"`; `"poll"` is `"early"` with everything inside
  the try, and is covered by the theorems.
- Event stream: two shops, two tiers and two categories, delays up to two ticks
  and four lines after the registrations: a discovery by either shop, a change
  and an observation, in every order of their arrival. `LastTime` = 8 lets a
  listing end (from 4 on) and begin again (from 7 on); prices after that are
  covered by the theorem.
- Cached answers: two validators, one regeneration, one killed process.

Writers and products are symmetric in the runs of the catalogue that check safety
only (the contract's quantifiers are over all products, so its refinement is
among them); the other runs use no symmetry.

## Fairness

Each liveness property rests on weak fairness of steps the program or its
runtime takes by itself, and on no more:

- threads run and the server executes a statement that can go on
  (`Work`, `Join`, `MainThread`, `DrainThread`, `ProducerStep`, `ConsumerStep`,
  `Statement`, `Serve`, and a push that is lost or raises like one that arrives):
  operating system threads are preemptive and none of
  these loops has a condition outside the model;
- the blocking accept loop polls (`AcceptLoop`) and is joined (`Join`); handlers
  and clients of the fixture server need none for `DropReturns`;
- an event loop runs every task that is ready (`Produce`, `Return`,
  `Get \/ Process`), since asyncio's ready queue is served in order;
- a validator is a sequential program that is run again and again (`BeginRun`,
  `Main`, `TearDown`), Connect acts on a stop it has accepted (`Stopped`) and
  PostgreSQL notices a closed replication connection (`ConnectionCloses`);
- signal handlers run when the main thread can take them (`HandleTerm`);
- time passes (`Deadline` within `DrainThread`, `PollDepth`, `Expire`);
- PostgreSQL breaks circles (`DeadlockDetected`, after `deadlock_timeout`) and a
  transaction that ends is ended by its owner (`OwnerResets`, `Commit \/
  RollBack`): the docstring of `CatalogRepo` gives the connection's lifecycle to
  the caller. Without it a call that raised blocks others for ever, and what it
  wrote may be cached again and again;
- a broker that went down comes back (`BrokerUp`): the loops retry for ever, so
  that is the only assumption under which they can promise anything.

No fairness is assumed for losses, crashes, clients, the kubelet, the end of a
handler or new requests to the cache; the peer, the target, the replay and the
cached answers are checked for safety only.

## Proofs

`tlapm` checks all proofs; no theorem depends on the bounds of the runs. A
theorem says of every value of the constants what a run says of one instance.

**Assumptions.** Those of the modules, and as weak as the code allows: the sets
of workers, rows, connections, writers, products, producers, consumers, clients
and requests are finite (producers and consumers are disjoint, there is at least
one ingest consumer, `NoOne` is outside the sets it marks the absence of);
`LIMIT` in the claim (`BatchSize`) and in a page (`PageLimit`) is positive, and so
are the target's `BanAfter` and the validators' number of `Attempts`; the peer's
cap, rate and window, the bucket's capacity, refill and price and the failures a
route owes are natural numbers; what a validator's style may be is listed
(`StylesAssumption`); the event stream's shops are finite, what they and the
product begin with is a tier and a category (`ValuesAssumption`), and its delays
and bounds are natural numbers. One theorem has a hypothesis of its own,
`OrphansAreExcused`; it is explained below, and holds in the run's instance.

Hardly any of the safety properties is inductive as it stands. What each proof
adds, and why:

**ClaimQueue.** `IndInv` is about single claims. That a claim never takes a
claimed row needs `LocksAreLive` (only live transactions between claim and commit
hold locks, and only on pending rows); that an empty claim proves the queue
drained needs `NothingPassedOver` (what is pending is still ahead of the scan or
locked by it, also when others roll back) with `WithinLimit`; that calls precede
claims needs `CalledIsCalled`; that waiting follows ids needs `LockedInOrder`.
`DrainInv` is about a whole drain. A provider call is repeated only after a loss,
but a lost worker calls *after* it was lost: `CallsArePaid` counts the calls that
are still to come for a row (`Late`) and lets one call go unpaid while a claim is
in force (`InForce`). What the report says of the workers needs that a worker
which has not died has recorded what is committed under it (`ClaimedIsRecorded`),
that at any moment one worker does not wait (`SomeoneRuns`, from the order of
locks: the waiter for the largest id waits for somebody who runs), and that
nothing happens after the report (`ReportIsLast`). Proved: `TypeCorrect`,
`Invariance`, `DrainInvariance`, `NoDuplicates`, `Recorded`, `EmptyIsDrained`,
`Held`, `CalledBeforeClaimed`, `NoWaitingCycle`, `RepeatedCalls`, `SoundReport`,
the action property `ClaimsAreFinal`, and `Refinement`: initial states map to
initial states of `ClaimContract`, each step to a `Claim`, `Retire`, `Fail` or a
stutter. `ClaimContractSuffices` says what the contract is worth: from
`ImplementsContract` alone, whatever program it is that implements it, a committed
claim is final and nobody finds the queue empty while a row is pending.

**AppServer.** `ServerInv` adds `OwedIsTracked`: what is owed is in its handler
or through with it, and once the drain has seen `inflight` at zero it is through.
Proved: `ServerInvariance`, `ServerTypes`, `InflightExact`, `DrainWaits`.

**AppQueue.** Three invariants, each on top of the one before. `QueueInv`: that
an item is counted once and in order needs that items are numbered by their
producer (`Numbered`), that those of one producer stand on the broker in the
order of their numbers (`QueueIsOrdered`), that what was taken is older than what
is left (`TakenIsOlder`), and that an item in a hand has been counted by nobody
(`HandIsNew`). `PlaceInv`: the broker, the hands, the logs, the dropped and the
wiped items partition what was made; their cardinalities then add up. `LossInv`:
a push over a connection that has died fails, or is lost, without a fault of its
own, so the bound needs the producers whose next push may begin a new loss in this
way (`Loose`): losses plus loose producers stay below the faults plus one per
producer and restart. A RabbitMQ producer that has begun to lose items is not
loose any more, because the next one it loses prolongs the run. Proved:
`DeliveryIsAtMostOnce`, `DeliveryIsInOrder`, `NothingVanishes`, `LossesAreBounded`.
`DeliveryRefinement` maps the queue to `DeliveryContract`. Under `QueueInv` and
`PlaceInv` what waits in the contract is what is on the broker or in a hand
(`WaitingItems`), so a consumer counts a waiting item, and every failure takes
from the waiting items only, or the item just made. Conversely
`DeliveryContractSuffices` gets `AtMostOnce` and `InOrder` back from
`ImplementsDelivery` alone.

**CatalogStore.** `StoreInv` adds to the properties: calls are numbered and a
number belongs to one call (`CallsAreNumbered`); what a call has to write is
still to do or written and locked (`CallIsUnderWay`); a row that is not committed
keeps the product's id and belongs to a call that has not returned
(`StagedIsOwned`); a drawn id is nobody else's (`DrawnIsFresh`). `NoMixture` then
follows at a commit because the committing call holds *all* its rows. The step
lemmas are `UpsertStep`, `DrawStep`, `PlaceStep`, `PublishStep` (both commits)
and `AbandonStep` (whatever ends a call or a transaction without publishing).
Proved: `StoreTypes`, `StoreInvariance`, `UniqueIds`, `NoMixtures`, `Durability`
and the action property `StableIds`. `CatalogRefinement` maps the repository to
`CatalogContract`: only the two commits change the table, and there `StoreInv`
says that every row they change is one the committing connection wrote for a call
that has not returned, under the product's id or one nobody has
(`PublishIsPublish`). `CatalogContractSuffices` gets `AckedIsDurable`, `NoMixture`
and `IdIsStable` from `ImplementsCatalog` alone, with an invariant of its own
(`PublishedInv`: a row is one its call was made with).

**CatalogReaders.** All three proofs stand on `StoreInv`. `WalkInv`: what was
there at the start is there still and, up to the cursor, has been returned. The
work is in a page: `FirstOf` is a prefix of the ids above the cursor, it is
everything above the cursor exactly when it is shorter than the limit, and its
largest id is the next cursor (lemmas about cardinalities of initial segments).
`LoadInv`: the watermark is past everything that was loaded, and a load is
ordered. `SerialInv`, as long as no two transactions have overlapped: an open
transaction began after every commit there has been, hence after the watermark,
so whatever it publishes is newer than the watermark, and up to the watermark the
loader has every row as it is. It speaks of any number of connections and of
whatever fails on them; `StampsInv` supplies that rows carry the start of their
transaction. The only condition is in the property itself, `~overlapped`: when two
transactions do overlap the claim is false. Proved: `StableWalk`, `NoReload`,
`SerialWritersAreLoaded`.

**IngestWorker.** `WorkerInv` adds `ItemsInOrder` (what the producer has put,
where it stands), `TakenIsCounted` (items taken are counted, being worked on, or
the `None` of a consumer that has ended) and `ReturnedIsOver`. The arithmetic is
about cardinalities of the sets of consumers working and ended, which a step
changes by one. Proved: `WorkerInvariance`, `EveryRecordAccounted`.

**Peer.** That no window lets through more than the rate speaks of windows in the
past; the gate looks at the last one only. `LetAreRecent` connects them: whoever
was let through less than a window ago is still among the arrivals the gate
counts, so a window that contains a new arrival is covered by that count, and any
other has not changed. Proved: `PeerGate`, `PeerWindow`.

**HostileTarget.** `PaidFor` is `ServedWithinBudget` with the bucket's present
contents on the left: the pages since the `i`-th and what is left now were paid
for by a full bucket and the time up to the last refill. `LookedUpSince` says
that a request which still works on the current record was counted after the
last reset. Proved: `TargetBudget`, `TargetReset`.

**FixtureServer.** Failures done, being done and still owed add up to
`fail_first_n`, per route; a step moves one client from one summand to the next.
`GaugeIsExact` (`FixtureGauge`) is the invariant behind the counter in
`handle_connection`: every handler counts itself out once. Proved:
`FixtureFailures`, `FixtureGauge`.

**ConnectorLifecycle.** `SlateInv`: a connector that was deleted has neither a
task nor an offset (`DeletedIsGone`), so the run's own task starts without an
offset and beside no events but those whose deletion has failed in this run
(`SlateIsClean`), and what it publishes is one snapshot with the changes after it
(`SnapshotThenChanges`). It holds for every style and every number of faults.
`SlotInv` holds under `DropsWhenIdle`, the hypothesis of
`OrphansAreExcused`: no validator is of the style `"once"`, whose second attempt
runs in the transaction the first has failed (that is the disagreement `cdc_doc`
shows), and one that polls sleeps long enough for a closed replication connection
to be noticed. Under it every attempt that fails without a fault fails because
the slot is in use. What counts as an excuse is listed at `excuse`; one of them is
a limit of task 01, whose wait for the connector may time out before its try.
Proved: `OwnSnapshot`, `OrphansAreExcused`.

**GroundTruthCache.** Why an answer is right although validators overlap and are
killed: a call beside which no generator ran finds the files as they were when
it began (`StillSettled`), has read what it saw then (`ReadIsKnown`), and a cache
written by such a call carries the sha of the files it was computed from
(`CacheIsKeyed`). Together they are `AnswersInv`. Proved: `AnswersCurrent`.

**GroundTruth.** `StreamInv` is what the generator keeps to and the replay relies
on: lines stand in the order of their arrival (`ArrivalsAscend`, so that the first
of two equal prices is the first that arrived); a shop has a tier from time 0 and
one change at a time (`TiersAreApart`); every discovery carries what the product
began with, one is older than each price and than the single change
(`DiscoveredFirst`); a listing ends once and may begin again once
(`ListingIsSequential`). That the replay computes what its definition says needs no
induction over the file, because the sort is given by ranks: a rank is the
cardinality of a downward closed set, two different places have different ranks
and every rank is taken (`DownwardClosed`, `Sorting`), so `ByTime` lists the places
once each in the order of their times; `BisectRight` counts an initial segment of
them, and its last element is the last event up to a time (`AsOfFindsLast`). With
these `TierFollows`, `CategoryFollows`, `DedupKeepsFirst` and `ActiveIsRight` are
the columns of a row. Proved, for files and delays of any length:
`ReplayFollowsSemantics`.

**Model-checked only.**

- Liveness: `EventuallyDrained`, `TermEndsTheApp`, `QueueIsDrained`,
  `DepthsSettle`, `DropReturns`, `CallsEnd`, `StalenessEnds`, `IngestEnds`,
  `PinnedWalIsReleased`. It needs ENABLED and fairness, out of the prover's reach.
  Of `ImplementsContract`, `ImplementsDelivery` and `ImplementsCatalog` the proofs
  cover all there is, since the contracts promise safety only.
- The properties of the `..._doc` runs, which are false.

Nothing in the modules is recursive: what the code computes in loops over a list is
defined by sets, ranks or cardinalities, so no proof needs an induction over data.

## Disagreements with the documentation

- `20-kubernetes/.authoring/design.md:121`: the app waits for in-flight requests
  on SIGTERM, up to `TERM_GRACE_S`. It does not: `serve_forever` returns into
  `main` (`app.py:475`), which returns, and only daemon threads are left.
- `20-kubernetes/.authoring/design.md:115`: `app_queue_depth` is exposed in
  producer mode. It is, but stays at -1: `producer_loop` never asks for a depth.
- `impl.py:230` of the catalogue: walking `page` shows every row with no gaps.
  That holds for what was there when the walk began (`WalkIsStable`), but not for
  rows of concurrent writers, whose ids can become visible below the cursor.

- `18-rust-track/04-url-health-checker/tests/concurrency_cap.rs:84`: one worker
  means an observed concurrency of one. The server shuts a connection down
  (`fixture_server.rs:264`) before it counts the handler out
  (`fixture_server.rs:175`), so the worker's next request may be counted first.
- `11-python-concurrency/harness/peer.py:54`: a request rejected with 429 never
  increments in-flight. One rejected by rate does, and moves the peak.
- `08-cdc-debezium/03-updates-and-deletes-downstream/tests/validate.py:67` and
  `:241`: dropping the slot is retried, and no failed run leaves it behind. The
  retry runs in the transaction its first attempt has failed, and always raises.
- `08-cdc-debezium/01-connector-setup-snapshot-vs-streaming/tests/validate.py:7`:
  the validator cleans up its connector and slot before and after. Not when the
  registration or the wait (`:171`) raises, which is before its `try` (`:174`);
  the next run's clean-up does it (`PinnedWalIsReleased`). It has no run of its
  own: in the model this is one of the excuses of `OrphanIsExcused`.
- `03-data-modeling/harness/ground_truth.py:4`: answers are keyed by the sha of
  their files. The sha is read again after the computation (`:583`), from
  whatever meta file is there by then.

Limits of the code that no sentence of the documentation denies: with several
writing connections `load_incremental`'s watermark can
pass a row that commits late (`SerialLoaderIsCurrent` is proved for transactions
that do not overlap);
two requests in a row may see a newer and then an older cached version, or one of
a call that raised and was rolled back, because the app reads on the writer's
connection; a RabbitMQ producer loses every item it pushes on a dead connection
until it is told; `reset_topics` (`common.py:276`) goes on beside topics it could
not delete, so a validator may count an earlier run's events; the
claim queue's arena is UNLOGGED and does not outlive a crash of the server; a torn
cache of reference answers makes every later validator raise until it is run with
`--refresh`.

## What is not modelled

- Timings, logging, printed statistics, payload columns, response bodies and
  headers: no property is about them.
- `app.py`'s fault knobs for memory, CPU and DNS, and its routes' answers: they
  touch no state the modules relate.
- A crash of the database server under the claim queue: the arena is UNLOGGED and
  lives for one drain only.
- `ProductCache.invalidate`: nothing in the program calls it.
- `create_schema` run against a table that exists: it changes nothing.
- `parse_price` and `normalize_record`: pure functions; their failures appear in
  `CatalogStore` as the malformed record.
- What a blocked RabbitMQ connection has buffered and delivers late: a pushed item
  reaches the broker before the push returns, or is lost.
- The checkpoints of `08-cdc-debezium/08-capstone-converge`, which clean up on
  their own ways out only, and a topic whose deletion is reported as failed and
  takes place later.
- The moment between the monitor's look at the claim queue's sessions and its use:
  `MonitorPoll` is one step.
- Latencies of the peer, pages of the target, and what `process_one` computes.
- The async Rust server takes the steps of the blocking one per connection; its
  `Drop` sends one message and does not wait.
- Prices in the event stream, and the SQL-like aggregation of the rows once they
  are joined.
- Stubs, mutated copies, data generators, write-ups and notebooks, which are most
  of the repository's lines: a body that raises NotImplementedError, a copy with a
  planted bug, or a single sequential pass has no behaviour to check. This is why
  the modules stand for a small share of all lines although nearly every finished
  concurrent program is modelled.

## Plan

Done, in this order: the claim queue (the richest concurrent program here) with
its contract and proofs; the app's server life and its queue modes; the catalogue;
the services and harnesses (fixture server, peer, ingest worker, target,
connectors, event stream and its cached answers); proofs of every safety property
and action property of a passing run; contracts of the queue and of the table of
products, with proofs that the detailed modules implement them and that what
implements them has the properties.

Next, most important first:

1. `TtlLru`: `TTLCache` against the abstract semantics of its docstring, as a
   refinement that can be proved.
2. `RedisLimits`: `RateLimiter` and `DedupFilter` with expiry and lost answers,
   against an abstract fixed window they implement.
3. `PriceRepo` beside `CatalogStore`, and the TypeScript mock server's
   idempotency keys.
4. Contracts of the services that are graded by their promises: a peer's gate and
   a target's budget, as abstract limiters.

Runs are to stay few: new components join `services` as another part.
