----------------------------- MODULE CatalogStore -----------------------------
(***************************************************************************)
(* CatalogRepo.upsert_products of the scrape-to-serve stack,               *)
(* 16-testing-engineering/07-capstone-scrape-to-serve-test-suite/src/      *)
(* impl.py, run by several writers over connections of their own.  A call  *)
(* upserts its records one statement at a time and commits at the end.  A  *)
(* statement draws a surrogate id before it knows whether it will insert,  *)
(* waits for another transaction that holds its sku, and stamps the row    *)
(* with the start time of its transaction.  A connection opens its         *)
(* transaction at the first statement, also at one that only reads, and    *)
(* only upsert_products ends it: a call that raises leaves it open or      *)
(* failed until the connection's owner sees to it.                         *)
(***************************************************************************)
EXTENDS Naturals, FiniteSets, Sequences, SequencesExt

CONSTANTS Writers,   \* connections that run upsert_products
          Skus,      \* business keys
          Bad,       \* a malformed record
          NoOne,     \* nobody holds the key
          Batches,   \* the record lists calls are made with
          MaxCalls,  \* bound: calls of upsert_products
          MaxReads,  \* bound: reads on a writer's connection
          MaxLosses  \* bound: connections lost

ASSUME WritersAssumption == IsFiniteSet(Writers) /\ NoOne \notin Writers
ASSUME SkusAssumption    == IsFiniteSet(Skus) /\ Bad \notin Skus
ASSUME BatchesAssumption == Batches \subseteq Seq(Skus \cup {Bad}) \ {<<>>}
ASSUME BoundsAssumption  == {MaxCalls, MaxReads, MaxLosses} \subseteq Nat

VARIABLES
  conn,    \* conn[w]: "idle", "open" (in a transaction) or "failed"
  began,   \* began[w]: now() of w's open transaction
  call,    \* call[w]: number of the call w is in, 0 outside of one
  todo,    \* todo[w]: records of the call still to be executed
  drawn,   \* drawn[w]: id drawn by w's running statement, or 0
  lock,    \* lock[s]: writer whose open transaction wrote sku s, or NoOne
  staged,  \* staged[s]: the row the holder of s has written
  table,   \* table[s]: the committed row of s
  nextId,  \* the BIGSERIAL sequence
  clock,   \* now() of the youngest transaction
  made,    \* made[n]: the skus of call n
  acked,   \* calls that returned without an exception
  reads, losses

session == <<conn, began>>
work    == <<call, todo, drawn>>
store   == <<lock, staged, table, nextId>>
bounds  == <<reads, losses>>
vars    == <<session, work, store, clock, made, acked, bounds>>

NoRow == [id |-> 0, at |-> 0, by |-> 0]
Row   == [id : Nat, at : Nat, by : Nat]

Current(w, s) == IF lock[s] = w THEN staged[s] ELSE table[s]
Present(s)    == table[s].id # 0
Calls         == Len(made)

Init ==
    /\ conn   = [w \in Writers |-> "idle"]
    /\ began  = [w \in Writers |-> 0]
    /\ call   = [w \in Writers |-> 0]
    /\ todo   = [w \in Writers |-> <<>>]
    /\ drawn  = [w \in Writers |-> 0]
    /\ lock   = [s \in Skus |-> NoOne]
    /\ staged = [s \in Skus |-> NoRow]
    /\ table  = [s \in Skus |-> NoRow]
    /\ nextId = 1
    /\ clock  = 0
    /\ made   = <<>>
    /\ acked  = {}
    /\ reads  = 0
    /\ losses = 0

-----------------------------------------------------------------------------
(* The first statement on an idle connection begins a transaction, and     *)
(* now() is that moment for all of it.                                     *)
InTransaction(w) ==
    IF conn[w] = "idle"
    THEN /\ conn'  = [conn EXCEPT ![w] = "open"]
         /\ clock' = clock + 1
         /\ began' = [began EXCEPT ![w] = clock + 1]
    ELSE conn[w] = "open" /\ UNCHANGED <<session, clock>>

(* page, get_by_sku or load_incremental on a writer's connection: they     *)
(* begin a transaction if need be and never end it.                        *)
Read(w) ==
    /\ call[w] = 0 /\ conn[w] = "idle" /\ reads < MaxReads
    /\ reads' = reads + 1
    /\ InTransaction(w)
    /\ UNCHANGED <<work, store, made, acked, losses>>

(* upsert_products(records), records # []                                  *)
Upsert(w, b) ==
    /\ call[w] = 0 /\ conn[w] # "failed" /\ Calls < MaxCalls
    /\ call' = [call EXCEPT ![w] = Calls + 1]
    /\ made' = Append(made, ToSet(b) \ {Bad})
    /\ todo' = [todo EXCEPT ![w] = b]
    /\ UNCHANGED <<session, drawn, store, clock, acked, bounds>>

(* Mutant: the id is MAX(id) + 1 of the rows the transaction sees.         *)
DrawMaxPlusOne(w) ==
    /\ call[w] # 0 /\ todo[w] # <<>> /\ drawn[w] = 0
    /\ Head(todo[w]) # Bad
    /\ InTransaction(w)
    /\ drawn' = [drawn EXCEPT ![w] = 1 + Max({Current(w, s).id : s \in Skus})]
    /\ UNCHANGED <<call, todo, lock, staged, table, nextId, made, acked, bounds>>

(* The statement of the next record begins: VALUES and the column defaults *)
(* are evaluated, nextval included.                                        *)
Draw(w) ==
    /\ call[w] # 0 /\ todo[w] # <<>> /\ drawn[w] = 0
    /\ Head(todo[w]) # Bad
    /\ InTransaction(w)
    /\ drawn' = [drawn EXCEPT ![w] = nextId]
    /\ nextId' = nextId + 1
    /\ UNCHANGED <<call, todo, lock, staged, table, made, acked, bounds>>

(* Mutants of the row a statement writes: a new id for an updated row      *)
(* (DELETE and INSERT); updated_at left alone on conflict.                 *)
WrittenAnew(w, s) == [id |-> drawn[w], at |-> began[w], by |-> call[w]]
WrittenUnstamped(w, s) ==
    LET old == Current(w, s)
    IN  IF old.id = 0
        THEN [id |-> drawn[w], at |-> began[w], by |-> call[w]]
        ELSE [id |-> old.id, at |-> old.at, by |-> call[w]]

(* The row INSERT ... ON CONFLICT (sku) DO UPDATE leaves: a new row takes  *)
(* the drawn id, an old one keeps its own and the drawn id is lost.        *)
Written(w, s) ==
    LET old == Current(w, s)
    IN  [id |-> IF old.id = 0 THEN drawn[w] ELSE old.id,
         at |-> began[w], by |-> call[w]]

(* w's statement waits for the transaction of v, which holds its sku.      *)
WaitsFor(w, v) == /\ drawn[w] # 0 /\ v # w
                  /\ lock[Head(todo[w])] = v

(* Mutant: each record is committed as it is written.                      *)
PlaceAndCommit(w) ==
    /\ todo[w] # <<>> /\ drawn[w] # 0
    /\ LET s == Head(todo[w])
       IN  /\ lock[s] \in {w, NoOne}
           /\ table' = [table EXCEPT ![s] = Written(w, s)]
    /\ todo' = [todo EXCEPT ![w] = Tail(@)]
    /\ drawn' = [drawn EXCEPT ![w] = 0]
    /\ UNCHANGED <<session, call, lock, staged, nextId, clock, made, acked, bounds>>

(* Nobody else holds the sku: the statement writes the row and keeps it    *)
(* locked.                                                                 *)
Place(w) ==
    /\ todo[w] # <<>> /\ drawn[w] # 0
    /\ LET s == Head(todo[w])
       IN  /\ lock[s] \in {w, NoOne}
           /\ lock' = [lock EXCEPT ![s] = w]
           /\ staged' = [staged EXCEPT ![s] = Written(w, s)]
    /\ todo' = [todo EXCEPT ![w] = Tail(@)]
    /\ drawn' = [drawn EXCEPT ![w] = 0]
    /\ UNCHANGED <<session, call, table, nextId, clock, made, acked, bounds>>

-----------------------------------------------------------------------------
(* What COMMIT and ROLLBACK of w's transaction do at the server.           *)
Unlock(w)   == lock' = [s \in Skus |-> IF lock[s] = w THEN NoOne ELSE lock[s]]
Publish(w)  == table' = [s \in Skus |-> Current(w, s)]
Rollback(w) == Unlock(w) /\ UNCHANGED table

(* The call of w is over.                                                  *)
Leave(w) == /\ call'  = [call EXCEPT ![w] = 0]
            /\ todo'  = [todo EXCEPT ![w] = <<>>]
            /\ drawn' = [drawn EXCEPT ![w] = 0]

(* Every record has been executed (or, with Bad, has raised before).       *)
AtCommit(w) == call[w] # 0 /\ todo[w] = <<>>

(* Mutants: the commit is forgotten; it is put off, in a loop, while       *)
(* another call runs.                                                      *)
CommitForgotten(w) ==
    /\ AtCommit(w)
    /\ acked' = acked \cup {call[w]}
    /\ Leave(w)
    /\ UNCHANGED <<session, store, clock, made, bounds>>

CommitPutOff(w) ==
    /\ AtCommit(w)
    /\ IF \E v \in Writers \ {w} : call[v] # 0
       THEN UNCHANGED vars
       ELSE /\ Publish(w) /\ Unlock(w)
            /\ conn' = [conn EXCEPT ![w] = "idle"]
            /\ acked' = acked \cup {call[w]}
            /\ Leave(w)
            /\ UNCHANGED <<began, staged, nextId, clock, made, bounds>>

(* self._conn.commit() and the return of upsert_products.                  *)
Commit(w) ==
    /\ AtCommit(w)
    /\ Publish(w) /\ Unlock(w)
    /\ conn' = [conn EXCEPT ![w] = "idle"]
    /\ acked' = acked \cup {call[w]}
    /\ Leave(w)
    /\ UNCHANGED <<began, staged, nextId, clock, made, bounds>>

(* A malformed record (a missing key, a price that is no decimal) raises   *)
(* before its statement is sent: the records before it stay written in the *)
(* open transaction.                                                       *)
RaiseOnRecord(w) ==
    /\ call[w] # 0 /\ todo[w] # <<>> /\ Head(todo[w]) = Bad
    /\ Leave(w)
    /\ UNCHANGED <<session, store, clock, made, acked, bounds>>

(* The server refuses a malformed record (a NULL, a NUL byte), after it    *)
(* has drawn an id for it: the transaction is rolled back.                 *)
RejectRecord(w) ==
    /\ call[w] # 0 /\ todo[w] # <<>> /\ Head(todo[w]) = Bad
    /\ nextId' = nextId + 1
    /\ Rollback(w)
    /\ conn' = [conn EXCEPT ![w] = "failed"]
    /\ Leave(w)
    /\ UNCHANGED <<began, staged, clock, made, acked, bounds>>

(* Writers that wait for each other in a circle.                           *)
InCycle(w) == \E S \in SUBSET Writers :
    /\ w \in S
    /\ \A v \in S : (\E u \in S : WaitsFor(v, u)) /\ (\E u \in S : WaitsFor(u, v))

(* The server's deadlock detector cancels one of them: the statement       *)
(* raises, and the connection refuses statements until it is rolled back.  *)
DeadlockDetected(w) ==
    /\ InCycle(w)
    /\ Rollback(w)
    /\ conn' = [conn EXCEPT ![w] = "failed"]
    /\ Leave(w)
    /\ UNCHANGED <<began, staged, nextId, clock, made, acked, bounds>>

(* The connection is lost, whatever w is doing.                            *)
LoseConnection(w) ==
    /\ conn[w] # "failed" /\ losses < MaxLosses
    /\ losses' = losses + 1
    /\ Rollback(w)
    /\ conn' = [conn EXCEPT ![w] = "failed"]
    /\ Leave(w)
    /\ UNCHANGED <<began, staged, nextId, clock, made, acked, reads>>

(* The commit took effect, but its answer was lost and commit() raises.    *)
CommitUnacknowledged(w) ==
    /\ AtCommit(w) /\ losses < MaxLosses
    /\ losses' = losses + 1
    /\ Publish(w) /\ Unlock(w)
    /\ conn' = [conn EXCEPT ![w] = "failed"]
    /\ Leave(w)
    /\ UNCHANGED <<began, staged, nextId, clock, made, acked, reads>>

(* The owner of the connection rolls back or connects anew.                *)
OwnerResets(w) ==
    /\ call[w] = 0 /\ conn[w] # "idle"
    /\ Rollback(w)
    /\ conn' = [conn EXCEPT ![w] = "idle"]
    /\ UNCHANGED <<began, work, staged, nextId, clock, made, acked, bounds>>

(* Every call has been made and has ended.                                 *)
Quiet == /\ Calls = MaxCalls /\ \A w \in Writers : call[w] = 0
         /\ UNCHANGED vars

-----------------------------------------------------------------------------
Statement(w) == \/ Draw(w) \/ Place(w) \/ Commit(w)
                \/ RaiseOnRecord(w) \/ RejectRecord(w)

Write(w) == \/ \E b \in Batches : Upsert(w, b)
            \/ Statement(w) \/ Read(w) \/ OwnerResets(w)
            \/ DeadlockDetected(w) \/ LoseConnection(w) \/ CommitUnacknowledged(w)

Next == (\E w \in Writers : Write(w)) \/ Quiet

Spec == Init /\ [][Next]_vars

(* The server executes what it can and breaks circles; the owner of a      *)
(* connection looks after it once a call has raised.                       *)
FairSpec == /\ Spec
            /\ \A w \in Writers : /\ WF_vars(Statement(w))
                                  /\ WF_vars(DeadlockDetected(w))
                                  /\ WF_vars(OwnerResets(w))

-----------------------------------------------------------------------------
(* Types of the variables.                                                 *)
TypeOK ==
    /\ conn \in [Writers -> {"idle", "open", "failed"}]
    /\ began \in [Writers -> Nat]
    /\ call \in [Writers -> Nat]
    /\ todo \in [Writers -> Seq(Skus \cup {Bad})]
    /\ drawn \in [Writers -> Nat]
    /\ lock \in [Skus -> Writers \cup {NoOne}]
    /\ staged \in [Skus -> Row]
    /\ table \in [Skus -> Row]
    /\ nextId \in Nat \ {0}
    /\ clock \in Nat
    /\ made \in Seq(SUBSET Skus)
    /\ acked \subseteq Nat
    /\ reads \in 0 .. MaxReads /\ losses \in 0 .. MaxLosses

(* The surrogate id is a key: no two products share one, committed or      *)
(* about to be, although ids are drawn long before they are committed.     *)
IdsAreUnique ==
    \A s, t \in Skus : s # t =>
      /\ Present(s) => table[s].id # table[t].id
      /\ (lock[s] # NoOne /\ lock[t] # NoOne) => staged[s].id # staged[t].id
      /\ (lock[s] # NoOne /\ Present(t)) => staged[s].id # table[t].id

(* An upsert keeps the id of a product for good: pagination cursors stay   *)
(* valid while records are written over.                                   *)
IdIsStable ==
    [][\A s \in Skus : Present(s) => table'[s].id = table[s].id]_vars

(* Two calls that returned and wrote the same two products never leave a   *)
(* mixture: one of them has the last word on both.                         *)
NoMixture ==
    \A s, t \in Skus :
      LET m == table[s].by
          n == table[t].by
      IN  ({m, n} \subseteq acked /\ {s, t} \subseteq made[m] /\ {s, t} \subseteq made[n])
            => m = n

(* What a call that returned has written is in the table, unless a later   *)
(* commit wrote over it: a product named in an acknowledged call exists.   *)
AckedIsDurable ==
    \A n \in acked : \A s \in made[n] :
      Present(s) /\ (table[s].by # n => \E m \in 1 .. Calls : m # n /\ s \in made[m])

(* Every call ends, by returning or raising: circles of waiting writers    *)
(* are broken and nobody's open transaction blocks the others for ever.    *)
CallsEnd == \A w \in Writers : call[w] # 0 ~> call[w] = 0

-----------------------------------------------------------------------------
(* The inductive invariant behind the safety properties.                   *)

(* Calls are numbered as they are made, and a number belongs to one call.  *)
CallsAreNumbered ==
    /\ acked \subseteq 1 .. Calls
    /\ \A w \in Writers : /\ call[w] \in 0 .. Calls
                          /\ call[w] \notin acked
                          /\ \A v \in Writers : (call[w] # 0 /\ v # w)
                                                   => call[v] # call[w]

(* What a call has to write is still to do, or written and locked.         *)
CallIsUnderWay ==
    \A w \in Writers :
      /\ call[w] = 0 => todo[w] = <<>> /\ drawn[w] = 0
      /\ drawn[w] # 0 => todo[w] # <<>> /\ Head(todo[w]) \in Skus
      /\ call[w] # 0 =>
           /\ ToSet(todo[w]) \ {Bad} \subseteq made[call[w]]
           /\ \A s \in made[call[w]] \ ToSet(todo[w]) :
                lock[s] = w /\ staged[s].by = call[w]

(* A row that is not committed keeps the product's id, and was written by  *)
(* a call that has not returned: the holder's, or one that raised.         *)
StagedIsOwned ==
    \A s \in Skus : lock[s] # NoOne =>
      /\ staged[s].id \in 1 .. nextId - 1
      /\ Present(s) => staged[s].id = table[s].id
      /\ staged[s].by \in (1 .. Calls) \ acked
      /\ s \in made[staged[s].by]
      /\ \A w \in Writers : call[w] = staged[s].by => lock[s] = w

TableIsMade ==
    \A s \in Skus : Present(s) =>
      /\ table[s].id < nextId
      /\ table[s].by \in 1 .. Calls
      /\ s \in made[table[s].by]

(* Nobody else has the id a running statement has drawn.                   *)
DrawnIsFresh ==
    \A w \in Writers : drawn[w] # 0 =>
      /\ drawn[w] < nextId
      /\ \A v \in Writers : v # w => drawn[v] # drawn[w]
      /\ \A s \in Skus : /\ table[s].id # drawn[w]
                         /\ lock[s] # NoOne => staged[s].id # drawn[w]

StoreInv == /\ TypeOK
            /\ CallsAreNumbered
            /\ CallIsUnderWay
            /\ StagedIsOwned
            /\ TableIsMade
            /\ DrawnIsFresh
            /\ IdsAreUnique
            /\ NoMixture
            /\ AckedIsDurable

-----------------------------------------------------------------------------
(* The repository implements the contract of CatalogContract.              *)
Catalog == INSTANCE CatalogContract

(* Every step of a writer is a step of the contract or changes nothing in  *)
(* it: a commit publishes what the transaction has written as a whole, and *)
(* with it all that the call was made with, once only.                     *)
ImplementsCatalog == Catalog!Spec

=============================================================================
