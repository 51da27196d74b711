----------------------------- MODULE ClaimQueue -----------------------------
(***************************************************************************)
(* The worker claim queue of 02-sql-optimization/12-worker-lock-queue:     *)
(* src/claim.sql run by the worker threads of src/harness.py against the   *)
(* arena table, under PostgreSQL's READ COMMITTED rules.  A claim          *)
(* statement takes a snapshot of the pending rows, locks them in id order, *)
(* waits for a row another transaction holds, re-checks the row when the   *)
(* holder ends, and keeps its locks across the provider call until commit. *)
(* A session can be lost at any moment: the server then rolls the          *)
(* transaction back at once, the client finds out at its next database     *)
(* call.                                                                   *)
(***************************************************************************)
EXTENDS Naturals, FiniteSets, Sequences

CONSTANTS Workers,     \* the worker threads started by drain
          Rows,        \* primary keys of the arena table
          BatchSize,   \* LIMIT %(batch_size)s
          NoOne,       \* claimed_by IS NULL, and no holder of a row lock
          MaxLosses    \* bound: sessions lost during one drain

ASSUME RowsAssumption      == Rows \subseteq Nat /\ IsFiniteSet(Rows)
ASSUME WorkersAssumption   == IsFiniteSet(Workers) /\ NoOne \notin Workers
ASSUME BatchSizeAssumption == BatchSize \in Nat \ {0}
ASSUME LossesAssumption    == MaxLosses \in Nat

VARIABLES
  pc,          \* pc[w]: where worker w is in _worker
  session,     \* session[w]: "none", "open", "broken" or "closed"
  claimedBy,   \* committed claimed_by of a row (NoOne: status = 'pending')
  lock,        \* lock[r]: worker whose open transaction locked r, or NoOne
  scan,        \* scan[w]: rows of the statement's snapshot not yet visited
  ids,         \* ids[w]: the ids returned by w's claim, its local variable
  claimedIds,  \* claimedIds[w]: the batches w added to claimed_ids
  calls,       \* calls[r]: provider calls made for row r
  losses,      \* sessions lost so far
  maxWaiters,  \* max_holder["value"] of the monitor thread
  report       \* what drain and coverage_counts return, or NoReport

client == <<pc, ids, claimedIds>>
server == <<claimedBy, lock, scan>>
vars   == <<pc, session, claimedBy, lock, scan, ids, claimedIds, calls,
            losses, maxWaiters, report>>

NoReport == [state |-> "running"]

Steps == {"start", "loop", "locking", "calling", "called", "empty",
          "done", "failed"}

Pending   == {r \in Rows : claimedBy[r] = NoOne}
Locked(w) == {r \in Rows : lock[r] = w}
FullNever(w) == FALSE    \* mutant: no LIMIT
Full(w)   == Cardinality(Locked(w)) = BatchSize

(* Mutant: ORDER BY id is dropped, each statement visits rows at will.     *)
NextRowAnyOrder(w, r) == /\ pc[w] = "locking"
                         /\ session[w] = "open"
                         /\ ~Full(w)
                         /\ r \in scan[w]

(* The row an executing claim visits next: LockRows sits below LIMIT and   *)
(* above the scan in id order.                                             *)
NextRow(w, r) == /\ pc[w] = "locking"
                 /\ session[w] = "open"
                 /\ ~Full(w)
                 /\ r \in scan[w]
                 /\ \A s \in scan[w] : r <= s

(* Mutants: no re-check; no row lock; FOR UPDATE SKIP LOCKED.              *)
TakesUnchecked(r) == lock[r] = NoOne
TakesShared(r)    == claimedBy[r] = NoOne
DropsLocked(r)    == lock[r] # NoOne \/ claimedBy[r] # NoOne

(* FOR UPDATE takes a row nobody holds if its newest version is pending,   *)
(* and the re-check drops it if a commit after the snapshot claimed it.    *)
(* A held row is neither: the statement waits.                             *)
Takes(r) == lock[r] = NoOne /\ claimedBy[r] = NoOne
Drops(r) == lock[r] = NoOne /\ claimedBy[r] # NoOne

(* w waits for v: v's transaction holds the row w must visit next.         *)
WaitsFor(w, v) == \E r \in Rows : NextRow(w, r) /\ lock[r] = v /\ v # w

Waiting(w) == \E v \in Workers : WaitsFor(w, v)

Ended(w) == pc[w] \in {"done", "failed"}

-----------------------------------------------------------------------------
(* setup_arena has committed N pending rows; drain has created the threads *)
Init ==
    /\ pc         = [w \in Workers |-> "start"]
    /\ session    = [w \in Workers |-> "none"]
    /\ claimedBy  = [r \in Rows |-> NoOne]
    /\ lock       = [r \in Rows |-> NoOne]
    /\ scan       = [w \in Workers |-> {}]
    /\ ids        = [w \in Workers |-> {}]
    /\ claimedIds = [w \in Workers |-> <<>>]
    /\ calls      = [r \in Rows |-> 0]
    /\ losses     = 0
    /\ maxWaiters = 0
    /\ report     = NoReport

Goto(w, step) == pc' = [pc EXCEPT ![w] = step]

(* End of w's transaction at the server: its row locks go.                 *)
Release(w) == lock' = [r \in Rows |-> IF lock[r] = w THEN NoOne ELSE lock[r]]

(* psycopg.connect                                                         *)
Connect(w) ==
    /\ pc[w] = "start"
    /\ Goto(w, "loop")
    /\ session' = [session EXCEPT ![w] = "open"]
    /\ UNCHANGED <<server, ids, claimedIds, calls, losses, maxWaiters, report>>

ConnectFails(w) ==
    /\ pc[w] = "start"
    /\ losses < MaxLosses
    /\ losses' = losses + 1
    /\ Goto(w, "failed")
    /\ UNCHANGED <<session, server, ids, claimedIds, calls, maxWaiters, report>>

(* cur.execute(claim_sql): the statement's snapshot of pending rows.       *)
(* Uncommitted claims of others are not in it, so their rows are pending.  *)
Execute(w) ==
    /\ pc[w] = "loop"
    /\ session[w] = "open"
    /\ Goto(w, "locking")
    /\ scan' = [scan EXCEPT ![w] = Pending]
    /\ UNCHANGED <<session, claimedBy, lock, ids, claimedIds, calls, losses,
                   maxWaiters, report>>

LockRow(w) == \E r \in Rows :
    /\ NextRow(w, r)
    /\ Takes(r)
    /\ lock' = [lock EXCEPT ![r] = w]
    /\ scan' = [scan EXCEPT ![w] = @ \ {r}]
    /\ UNCHANGED <<client, session, claimedBy, calls, losses, maxWaiters, report>>

SkipClaimedRow(w) == \E r \in Rows :
    /\ NextRow(w, r)
    /\ Drops(r)
    /\ scan' = [scan EXCEPT ![w] = @ \ {r}]
    /\ UNCHANGED <<client, session, claimedBy, lock, calls, losses, maxWaiters,
                   report>>

(* The statement ends: LIMIT reached or snapshot exhausted; fetchall gives *)
(* the ids, and an empty result leaves the loop.                           *)
ReturnClaim(w) ==
    /\ pc[w] = "locking"
    /\ session[w] = "open"
    /\ Full(w) \/ scan[w] = {}
    /\ ids'  = [ids EXCEPT ![w] = Locked(w)]
    /\ scan' = [scan EXCEPT ![w] = {}]
    /\ Goto(w, IF Locked(w) = {} THEN "empty" ELSE "calling")
    /\ UNCHANGED <<session, claimedBy, lock, claimedIds, calls, losses,
                   maxWaiters, report>>

(* time.sleep(sleep_s): the simulated provider call, inside the            *)
(* transaction.  It does not touch the connection.                         *)
CallProvider(w) ==
    /\ pc[w] = "calling"
    /\ Goto(w, "called")
    /\ calls' = [r \in Rows |-> IF r \in ids[w] THEN calls[r] + 1 ELSE calls[r]]
    /\ UNCHANGED <<session, server, ids, claimedIds, losses, maxWaiters, report>>

(* The loop body comes to conn.commit() with the session alive.            *)
AtCommit(w) == pc[w] = "called" /\ session[w] = "open"

(* Mutants: no finally, the connection is leaked; the exception is         *)
(* swallowed and the results are recorded.                                 *)
DieLeaking(w)  == /\ session' = [session EXCEPT ![w] = "leaked"]
                  /\ Goto(w, "failed")
DieRecorded(w) == /\ session' = [session EXCEPT ![w] = "closed"]
                  /\ Goto(w, "done")

(* An exception leaves the loop: finally closes the connection, and        *)
(* results[worker_id] is never assigned.                                   *)
Die(w) == /\ session' = [session EXCEPT ![w] = "closed"]
          /\ Goto(w, "failed")

(* What COMMIT does at the server.                                         *)
CommitClaim(w) ==
    /\ claimedBy' = [r \in Rows |-> IF lock[r] = w THEN w ELSE claimedBy[r]]
    /\ Release(w)

(* conn.commit(); claimed_ids.extend(ids)                                  *)
CommitBatch(w) ==
    /\ AtCommit(w)
    /\ CommitClaim(w)
    /\ claimedIds' = [claimedIds EXCEPT ![w] = Append(@, ids[w])]
    /\ ids' = [ids EXCEPT ![w] = {}]
    /\ Goto(w, "loop")
    /\ UNCHANGED <<session, scan, calls, losses, maxWaiters, report>>

(* The commit took effect but its answer was lost: conn.commit() raises    *)
(* before claimed_ids hears of the batch.                                  *)
CommitUnacknowledged(w) ==
    /\ AtCommit(w)
    /\ losses < MaxLosses
    /\ losses' = losses + 1
    /\ CommitClaim(w)
    /\ Die(w)
    /\ UNCHANGED <<scan, ids, claimedIds, calls, maxWaiters, report>>

(* The commit after an empty claim, conn.close() and results[worker_id].   *)
CommitEmpty(w) ==
    /\ pc[w] = "empty"
    /\ session[w] = "open"
    /\ session' = [session EXCEPT ![w] = "closed"]
    /\ Goto(w, "done")
    /\ UNCHANGED <<server, ids, claimedIds, calls, losses, maxWaiters, report>>

(* The server loses w's session (backend terminated, connection reset):    *)
(* the open transaction is rolled back, whatever w is doing.               *)
LoseSession(w) ==
    /\ session[w] = "open"
    /\ losses < MaxLosses
    /\ losses' = losses + 1
    /\ session' = [session EXCEPT ![w] = "broken"]
    /\ Release(w)
    /\ scan' = [scan EXCEPT ![w] = {}]
    /\ UNCHANGED <<client, claimedBy, calls, maxWaiters, report>>

(* The next database call of w raises.                                     *)
Raise(w) ==
    /\ pc[w] \in {"loop", "locking", "called", "empty"}
    /\ session[w] = "broken"
    /\ Die(w)
    /\ UNCHANGED <<server, ids, claimedIds, calls, losses, maxWaiters, report>>

Work(w) == \/ Connect(w) \/ Execute(w) \/ LockRow(w) \/ SkipClaimedRow(w)
           \/ ReturnClaim(w) \/ CallProvider(w) \/ CommitBatch(w)
           \/ CommitEmpty(w) \/ Raise(w)

Disturb(w) == ConnectFails(w) \/ CommitUnacknowledged(w) \/ LoseSession(w)

-----------------------------------------------------------------------------
(* _monitor_lock_waiters: the high-water mark of sessions waiting on locks *)
MonitorPoll ==
    /\ report = NoReport
    /\ LET n == Cardinality({w \in Workers : Waiting(w)})
       IN  /\ n > maxWaiters
           /\ maxWaiters' = n
    /\ UNCHANGED <<client, session, server, calls, losses, report>>

(* How often drain sees row r in the results of the workers that finished. *)
Seen(r) == {b \in UNION {{w} \X DOMAIN claimedIds[w] : w \in Workers} :
               pc[b[1]] = "done" /\ r \in claimedIds[b[1]][b[2]]}

(* All threads joined: drain's statistics and coverage_counts.             *)
Join ==
    /\ report = NoReport
    /\ \A w \in Workers : Ended(w)
    /\ report' = [state      |-> "joined",
                  duplicates |-> {r \in Rows : Cardinality(Seen(r)) > 1},
                  unique     |-> {r \in Rows : Seen(r) # {}},
                  pending    |-> Pending]
    /\ UNCHANGED <<client, session, server, calls, losses, maxWaiters>>

(* drain has returned: nothing happens any more.                           *)
Returned == report # NoReport /\ UNCHANGED vars

Next == \/ \E w \in Workers : Work(w) \/ Disturb(w)
        \/ MonitorPoll
        \/ Join
        \/ Returned

Spec == Init /\ [][Next]_vars

(* Threads are scheduled preemptively and the server answers or fails      *)
(* every statement it can run; losing sessions is never required.          *)
FairSpec == Spec /\ (\A w \in Workers : WF_vars(Work(w))) /\ WF_vars(Join)

-----------------------------------------------------------------------------
(* Types of the variables.                                                 *)
TypeOK ==
    /\ pc \in [Workers -> Steps]
    /\ session \in [Workers -> {"none", "open", "broken", "closed"}]
    /\ claimedBy \in [Rows -> Workers \cup {NoOne}]
    /\ lock \in [Rows -> Workers \cup {NoOne}]
    /\ scan \in [Workers -> SUBSET Rows]
    /\ ids \in [Workers -> SUBSET Rows]
    /\ claimedIds \in [Workers -> Seq(SUBSET Rows)]
    /\ calls \in [Rows -> Nat]
    /\ losses \in 0 .. MaxLosses
    /\ maxWaiters \in Nat
    /\ report = NoReport \/ report \in
         [state : {"joined"}, duplicates : SUBSET Rows, unique : SUBSET Rows,
          pending : SUBSET Rows]

(* Gate 1 of check.py: no row is returned by more than one committed claim, *)
(* of two workers or of one worker twice, even when sessions are lost while *)
(* their rows are being processed and other workers take those rows over.  *)
NoDuplicateClaims ==
    \A w, v \in Workers :
      \A i \in DOMAIN claimedIds[w], j \in DOMAIN claimedIds[v] :
        \A r \in claimedIds[w][i] \cap claimedIds[v][j] : w = v /\ i = j

(* What a worker believes it has claimed is what the table says: a batch   *)
(* enters claimed_ids only if its rows are committed under that worker.    *)
RecordedIsCommitted ==
    \A w \in Workers : \A i \in DOMAIN claimedIds[w] :
      \A r \in claimedIds[w][i] : claimedBy[r] = w

(* A worker that leaves its loop on an empty claim leaves no pending row   *)
(* behind, although other transactions were open when its snapshot was     *)
(* taken and any of them may have been rolled back since.                  *)
EmptyMeansDrained ==
    \A w \in Workers : pc[w] \in {"empty", "done"} => Pending = {}

(* While a worker's session lives, the ids it is calling the provider for  *)
(* are exactly the rows its transaction still holds, none of them claimed. *)
HeldWhileCalling ==
    \A w \in Workers :
      (pc[w] \in {"calling", "called"} /\ session[w] = "open")
        => /\ ids[w] = Locked(w)
           /\ ids[w] \subseteq Pending

(* Rows are locked in id order, so waiting never closes a cycle: a worker  *)
(* that waits for one that waits itself is at a smaller row.               *)
WaitsInIdOrder ==
    \A w, v \in Workers : \A r, s \in Rows :
      (NextRow(w, r) /\ lock[r] = v /\ NextRow(v, s)) => r < s

(* No committed claim without a provider call: the sleep stands between    *)
(* the claim and its commit (README, point 4).                             *)
CallsAtLeastOnce == \A r \in Rows : claimedBy[r] # NoOne => calls[r] >= 1

(* A provider call is repeated only for a lost session: a row is called    *)
(* for at most once more than sessions were lost.                          *)
RepeatedCallsArePaid == \A r \in Rows : calls[r] <= 1 + losses

(* The report drain and coverage_counts return: no duplicates; nothing     *)
(* pending unless every worker died; every row accounted for in the        *)
(* workers' results unless one of them died; never all of them seen        *)
(* waiting, since one holds what the others wait for.                      *)
ReportIsSound ==
    report # NoReport =>
      /\ report.duplicates = {}
      /\ report.unique \subseteq Rows \ report.pending
      /\ report.pending # {} => \A w \in Workers : pc[w] = "failed"
      /\ Workers # {} => /\ (\A w \in Workers : pc[w] = "done") => report.unique = Rows
                         /\ maxWaiters < Cardinality(Workers)

(* A committed claim is final: no later claim or rollback takes it away.   *)
ClaimIsFinal ==
    [][\A r \in Rows : claimedBy[r] # NoOne => claimedBy'[r] = claimedBy[r]]_vars

(* drain returns, with every row claimed unless all workers died.          *)
EventuallyDrained ==
    <>(/\ report # NoReport
       /\ report.pending = {} \/ \A w \in Workers : pc[w] = "failed")

-----------------------------------------------------------------------------
(* The inductive invariant behind the safety properties.                   *)

(* Only a live transaction between its claim and its commit holds row      *)
(* locks, and only on pending rows.                                        *)
LocksAreLive ==
    \A r \in Rows, w \in Workers :
      lock[r] = w => /\ session[w] = "open"
                     /\ pc[w] \in {"locking", "calling", "called"}
                     /\ claimedBy[r] = NoOne

(* A claim has not passed over a row that is still pending.                *)
NothingPassedOver ==
    \A w \in Workers :
      (pc[w] = "locking" /\ session[w] = "open")
        => Pending \subseteq scan[w] \cup Locked(w)

(* A claim locks rows in id order.                                         *)
LockedInOrder ==
    \A w \in Workers : \A r, s \in Rows :
      (pc[w] = "locking" /\ lock[r] = w /\ s \in scan[w]) => r < s

(* A transaction holds no more rows than LIMIT.                            *)
WithinLimit == \A w \in Workers : Cardinality(Locked(w)) <= BatchSize

(* The call is made before the commit is tried.                            *)
CalledIsCalled ==
    \A w \in Workers : pc[w] = "called" => \A r \in ids[w] : calls[r] >= 1

IndInv == /\ TypeOK
          /\ LocksAreLive
          /\ NothingPassedOver
          /\ LockedInOrder
          /\ WithinLimit
          /\ CalledIsCalled
          /\ HeldWhileCalling
          /\ EmptyMeansDrained
          /\ RecordedIsCommitted
          /\ NoDuplicateClaims
          /\ CallsAtLeastOnce

(* Between connecting and ending a worker has a session, lost or not.      *)
SessionWhileWorking ==
    \A w \in Workers :
      pc[w] \in {"loop", "locking", "calling", "called", "empty"}
        => session[w] \in {"open", "broken"}

(* Workers that will call the provider for r although they lost it.        *)
Late(r) == {w \in Workers :
              session[w] = "broken" /\ pc[w] = "calling" /\ r \in ids[w]}

(* r's claim is committed, or its holder has called and may commit.        *)
InForce(r) == \/ claimedBy[r] # NoOne
              \/ \E w \in Workers : lock[r] = w /\ pc[w] = "called"

(* Every call past or to come but the one in force is paid by a loss.      *)
CallsArePaid ==
    \A r \in Rows :
      calls[r] + Cardinality(Late(r)) <= losses + IF InForce(r) THEN 1 ELSE 0

(* A worker has in its list what is committed under it, unless it died     *)
(* before it heard of the commit.                                          *)
ClaimedIsRecorded ==
    \A w \in Workers : \A r \in Rows :
      (claimedBy[r] = w /\ pc[w] # "failed")
        => \E i \in DOMAIN claimedIds[w] : r \in claimedIds[w][i]

(* The monitor has never seen all workers wait at once.                    *)
SomeoneRuns == Workers # {} => maxWaiters < Cardinality(Workers)

(* There is no report before the last worker has ended.                    *)
ReportIsLast == report # NoReport => \A w \in Workers : Ended(w)

DrainInv == /\ IndInv /\ SessionWhileWorking
            /\ CallsArePaid /\ ClaimedIsRecorded
            /\ SomeoneRuns /\ ReportIsLast /\ ReportIsSound

-----------------------------------------------------------------------------
(* The queue implements the contract of ClaimContract: a row is owned from *)
(* the commit on, a worker retires when its claim comes back empty.        *)
Life(w) == CASE pc[w] \in {"empty", "done"} -> "retired"
             [] pc[w] = "failed"            -> "failed"
             [] OTHER                       -> "working"

Contract == INSTANCE ClaimContract
              WITH Batches <- {B \in SUBSET Rows : Cardinality(B) <= BatchSize},
                   owner   <- claimedBy,
                   life    <- [w \in Workers |-> Life(w)]

(* Every step of the queue is a step of the contract or changes nothing in *)
(* it.                                                                     *)
ImplementsContract == Contract!Spec

=============================================================================
