-------------------------- MODULE CatalogStoreProofs --------------------------
(***************************************************************************)
(* Proofs about CatalogStore, for any finite sets of writers and skus and  *)
(* any record lists: the inductive invariant StoreInv, and from it that    *)
(* ids are unique and stable, that acknowledged calls are durable and that *)
(* they never leave a mixture, and that the repository implements          *)
(* CatalogContract, which alone implies all this.                          *)
(***************************************************************************)
EXTENDS CatalogStore, TLAPS

(* A sequence is its head and its tail.                                    *)
LEMMA HeadAndTail ==
  ASSUME NEW S, NEW q \in Seq(S), q # <<>>
  PROVE  /\ Head(q) \in S
         /\ Tail(q) \in Seq(S)
         /\ ToSet(q) = {Head(q)} \cup ToSet(Tail(q))
<1>1. Head(q) \in S /\ Tail(q) \in Seq(S)
  OBVIOUS
<1>2. ASSUME NEW x \in ToSet(q) PROVE x = Head(q) \/ x \in ToSet(Tail(q))
  <2>1. PICK i \in 1 .. Len(q) : x = q[i]
    BY <1>2 DEF ToSet
  <2>2. CASE i = 1
    BY <2>1, <2>2
  <2>3. CASE i # 1
    <3>1. i - 1 \in 1 .. Len(Tail(q)) /\ Tail(q)[i - 1] = q[i]
      BY <2>1, <2>3
    <3>2. i - 1 \in DOMAIN Tail(q)
      BY <1>1, <3>1
    <3>3. QED
      BY <2>1, <3>1, <3>2 DEF ToSet
  <2>4. QED
    BY <2>2, <2>3
<1>3. Head(q) \in ToSet(q)
  BY DEF ToSet
<1>4. ASSUME NEW x \in ToSet(Tail(q)) PROVE x \in ToSet(q)
  <2>1. PICK i \in 1 .. Len(Tail(q)) : x = Tail(q)[i]
    BY <1>4 DEF ToSet
  <2>2. i + 1 \in 1 .. Len(q) /\ q[i + 1] = x
    BY <2>1
  <2>3. QED
    BY <2>2 DEF ToSet
<1>5. QED
  BY <1>1, <1>2, <1>3, <1>4

(* The members of a sequence over S are in S.                              *)
LEMMA ToSetIn ==
  ASSUME NEW S, NEW q \in Seq(S)
  PROVE  ToSet(q) \subseteq S
BY DEF ToSet

(* An empty sequence has no members.                                       *)
LEMMA ToSetEmpty == ToSet(<<>>) = {}
BY DEF ToSet

-----------------------------------------------------------------------------
(* The row a statement writes is a row.                                    *)
LEMMA WrittenType ==
  ASSUME TypeOK, NEW w \in Writers, NEW s \in Skus
  PROVE  /\ Written(w, s) \in Row
         /\ Current(w, s) \in Row
BY DEF TypeOK, Written, Current, Row

(* Opening a transaction keeps the types.                                  *)
LEMMA InTransactionTypes ==
  ASSUME TypeOK, NEW w \in Writers, InTransaction(w)
  PROVE  /\ conn' \in [Writers -> {"idle", "open", "failed"}]
         /\ began' \in [Writers -> Nat]
         /\ clock' \in Nat
<1>1. CASE conn[w] = "idle"
  <2>1. /\ conn'  = [conn EXCEPT ![w] = "open"]
        /\ began' = [began EXCEPT ![w] = clock + 1]
        /\ clock' = clock + 1
    BY <1>1 DEF InTransaction
  <2>2. QED
    BY <2>1 DEF TypeOK
<1>2. CASE conn[w] # "idle"
  <2>1. conn' = conn /\ began' = began /\ clock' = clock
    BY <1>2 DEF InTransaction, session
  <2>2. QED
    BY <2>1 DEF TypeOK
<1>3. QED
  BY <1>1, <1>2

(* Initially the variables have their types.                               *)
LEMMA InitTypeOK == Init => TypeOK
BY BoundsAssumption DEF Init, TypeOK, NoRow, Row

(* Every step keeps the types.                                             *)
LEMMA NextTypeOK == TypeOK /\ [Next]_vars => TypeOK'
<1> SUFFICES ASSUME TypeOK, [Next]_vars PROVE TypeOK'
  OBVIOUS
<1>0. MaxCalls \in Nat /\ MaxReads \in Nat /\ MaxLosses \in Nat
  BY BoundsAssumption
<1>1. ASSUME NEW w \in Writers, Read(w) PROVE TypeOK'
  <2>1. /\ conn' \in [Writers -> {"idle", "open", "failed"}]
        /\ began' \in [Writers -> Nat]
        /\ clock' \in Nat
    BY <1>1, InTransactionTypes DEF Read
  <2>2. QED
    BY SMTT(20), <1>0, <1>1, <2>1 DEF TypeOK, Read, work, store
<1>2. ASSUME NEW w \in Writers, NEW b \in Batches, Upsert(w, b) PROVE TypeOK'
  <2>1. b \in Seq(Skus \cup {Bad}) /\ ToSet(b) \ {Bad} \in SUBSET Skus
    BY BatchesAssumption, ToSetIn
  <2>2. Calls + 1 \in Nat
    BY DEF TypeOK, Calls
  <2>3. QED
    BY SMTT(20), <1>2, <2>1, <2>2 DEF TypeOK, Upsert, session, store, bounds
<1>3. ASSUME NEW w \in Writers, Draw(w) PROVE TypeOK'
  <2>1. /\ conn' \in [Writers -> {"idle", "open", "failed"}]
        /\ began' \in [Writers -> Nat]
        /\ clock' \in Nat
    BY <1>3, InTransactionTypes DEF Draw
  <2>2. /\ drawn' \in [Writers -> Nat]
        /\ nextId' \in Nat \ {0}
    BY <1>3 DEF TypeOK, Draw
  <2>3. QED
    BY <1>3, <2>1, <2>2 DEF TypeOK, Draw, bounds
<1>4. ASSUME NEW w \in Writers, Place(w) PROVE TypeOK'
  <2>1. Tail(todo[w]) \in Seq(Skus \cup {Bad})
    BY <1>4, HeadAndTail DEF TypeOK, Place
  <2>2. lock' \in [Skus -> Writers \cup {NoOne}]
    BY <1>4 DEF TypeOK, Place
  <2>3. staged' \in [Skus -> Row]
    BY <1>4, WrittenType DEF TypeOK, Place
  <2>4. QED
    BY <1>4, <2>1, <2>2, <2>3 DEF TypeOK, Place, session, bounds
<1>5. ASSUME NEW w \in Writers, Leave(w)
      PROVE  /\ call' \in [Writers -> Nat]
             /\ todo' \in [Writers -> Seq(Skus \cup {Bad})]
             /\ drawn' \in [Writers -> Nat]
  BY <1>5 DEF TypeOK, Leave
<1>6. ASSUME NEW w \in Writers, Unlock(w)
      PROVE  lock' \in [Skus -> Writers \cup {NoOne}]
  BY <1>6 DEF TypeOK, Unlock
<1>7. ASSUME NEW w \in Writers, Publish(w) PROVE table' \in [Skus -> Row]
  BY <1>7, WrittenType DEF TypeOK, Publish
<1>7a. ASSUME NEW w \in Writers, Leave(w),
              UNCHANGED <<began, clock, made, staged>>,
              conn' \in [Writers -> {"idle", "open", "failed"}],
              lock' \in [Skus -> Writers \cup {NoOne}],
              table' \in [Skus -> Row],
              nextId' \in Nat \ {0},
              acked' \subseteq Nat,
              reads' \in 0 .. MaxReads, losses' \in 0 .. MaxLosses
       PROVE  TypeOK'
  BY <1>5, <1>7a DEF TypeOK
<1>7b. ASSUME NEW w \in Writers
       PROVE  /\ call[w] \in Nat /\ acked \cup {call[w]} \subseteq Nat
              /\ nextId + 1 \in Nat \ {0}
              /\ [conn EXCEPT ![w] = "idle"] \in [Writers -> {"idle", "open", "failed"}]
              /\ [conn EXCEPT ![w] = "failed"] \in [Writers -> {"idle", "open", "failed"}]
  <2>1. /\ call[w] \in Nat /\ acked \subseteq Nat /\ nextId \in Nat
        /\ conn \in [Writers -> {"idle", "open", "failed"}]
    BY DEF TypeOK
  <2>2. /\ [conn EXCEPT ![w] = "idle"] \in [Writers -> {"idle", "open", "failed"}]
        /\ [conn EXCEPT ![w] = "failed"] \in [Writers -> {"idle", "open", "failed"}]
    BY <2>1
  <2>3. acked \cup {call[w]} \subseteq Nat
    BY <2>1
  <2>4. nextId + 1 \in Nat /\ nextId + 1 # 0
    BY <2>1
  <2>5. QED
    BY <2>1, <2>2, <2>3, <2>4
<1>7c. losses < MaxLosses => losses + 1 \in 0 .. MaxLosses
  BY <1>0 DEF TypeOK
<1>8. ASSUME NEW w \in Writers, Commit(w) PROVE TypeOK'
  <2>1. UNCHANGED <<began, staged, nextId, clock, made, reads, losses>>
    BY <1>8 DEF Commit, bounds
  <2>2. QED
    BY <1>6, <1>7, <1>7a, <1>7b, <1>8, <2>1 DEF TypeOK, Commit
<1>9. ASSUME NEW w \in Writers, RaiseOnRecord(w) PROVE TypeOK'
  BY <1>5, <1>9 DEF TypeOK, RaiseOnRecord, session, store, bounds
<1>10. ASSUME NEW w \in Writers, RejectRecord(w) PROVE TypeOK'
  <2>1. UNCHANGED <<began, staged, table, clock, made, acked, reads, losses>>
    BY <1>10 DEF RejectRecord, Rollback, bounds
  <2>2. /\ conn' = [conn EXCEPT ![w] = "failed"] /\ nextId' = nextId + 1
        /\ Unlock(w) /\ Leave(w)
    BY <1>10 DEF RejectRecord, Rollback
  <2>3. QED
    BY <1>6, <1>7a, <1>7b, <2>1, <2>2 DEF TypeOK
<1>11. ASSUME NEW w \in Writers, DeadlockDetected(w) PROVE TypeOK'
  <2>1. UNCHANGED <<began, staged, table, nextId, clock, made, acked, reads, losses>>
    BY <1>11 DEF DeadlockDetected, Rollback, bounds
  <2>2. conn' = [conn EXCEPT ![w] = "failed"] /\ Unlock(w) /\ Leave(w)
    BY <1>11 DEF DeadlockDetected, Rollback
  <2>3. QED
    BY <1>6, <1>7a, <1>7b, <2>1, <2>2 DEF TypeOK
<1>12. ASSUME NEW w \in Writers, LoseConnection(w) PROVE TypeOK'
  <2>1. UNCHANGED <<began, staged, table, nextId, clock, made, acked, reads>>
    BY <1>12 DEF LoseConnection, Rollback
  <2>2. /\ conn' = [conn EXCEPT ![w] = "failed"] /\ Unlock(w) /\ Leave(w)
        /\ losses < MaxLosses /\ losses' = losses + 1
    BY <1>12 DEF LoseConnection, Rollback
  <2>3. QED
    BY <1>6, <1>7a, <1>7b, <1>7c, <2>1, <2>2 DEF TypeOK
<1>13. ASSUME NEW w \in Writers, CommitUnacknowledged(w) PROVE TypeOK'
  <2>1. UNCHANGED <<began, staged, nextId, clock, made, acked, reads>>
    BY <1>13 DEF CommitUnacknowledged
  <2>2. /\ conn' = [conn EXCEPT ![w] = "failed"]
        /\ Publish(w) /\ Unlock(w) /\ Leave(w)
        /\ losses < MaxLosses /\ losses' = losses + 1
    BY <1>13 DEF CommitUnacknowledged
  <2>3. QED
    BY <1>6, <1>7, <1>7a, <1>7b, <1>7c, <2>1, <2>2 DEF TypeOK
<1>14. ASSUME NEW w \in Writers, OwnerResets(w) PROVE TypeOK'
  <2>1. /\ UNCHANGED <<began, call, todo, drawn, staged, table, nextId, clock, made, acked>>
        /\ UNCHANGED <<reads, losses>>
    BY <1>14 DEF OwnerResets, Rollback, work, bounds
  <2>2. conn' = [conn EXCEPT ![w] = "idle"] /\ Unlock(w)
    BY <1>14 DEF OwnerResets, Rollback
  <2>3. QED
    BY <1>6, <1>7b, <2>1, <2>2 DEF TypeOK
<1>15. CASE UNCHANGED vars
  BY <1>15 DEF TypeOK, vars, session, work, store, bounds
<1>16. QED
  BY <1>1, <1>2, <1>3, <1>4, <1>8, <1>9, <1>10, <1>11, <1>12, <1>13, <1>14, <1>15
     DEF Next, Write, Statement, Quiet

(* The variables of the repository keep their types.                       *)
THEOREM StoreTypes == Spec => []TypeOK
BY InitTypeOK, NextTypeOK, PTL DEF Spec

-----------------------------------------------------------------------------
(* The records of a call are products.                                     *)
LEMMA MadeOfSkus ==
  ASSUME StoreInv, NEW n \in 1 .. Calls
  PROVE  made[n] \subseteq Skus
<1>1. made \in Seq(SUBSET Skus) /\ n \in 1 .. Len(made)
  BY DEF StoreInv, TypeOK, Calls
<1>2. made[n] \in SUBSET Skus
  BY <1>1
<1>3. QED
  BY <1>2

(* A call under way has a number.                                          *)
LEMMA CallHasNumber ==
  ASSUME StoreInv, NEW w \in Writers, call[w] # 0
  PROVE  call[w] \in 1 .. Calls /\ call[w] \notin acked
<1>1. call[w] \in 0 .. Calls /\ call[w] \notin acked /\ Calls \in Nat
  BY DEF StoreInv, TypeOK, CallsAreNumbered, Calls
<1>2. QED
  BY <1>1

(* Initially nothing has happened.                                         *)
LEMMA InitStoreInv == Init => StoreInv
<1> SUFFICES ASSUME Init PROVE StoreInv
  OBVIOUS
<1>1. TypeOK
  BY InitTypeOK
<1>2. Calls = 0
  BY DEF Init, Calls
<1>3. CallsAreNumbered /\ CallIsUnderWay /\ AckedIsDurable /\ NoMixture
  BY <1>2 DEF Init, CallsAreNumbered, CallIsUnderWay, AckedIsDurable, NoMixture
<1>4. StagedIsOwned /\ TableIsMade /\ DrawnIsFresh /\ IdsAreUnique
  BY DEF Init, StagedIsOwned, TableIsMade, DrawnIsFresh, IdsAreUnique, Present, NoRow
<1>5. QED
  BY <1>1, <1>3, <1>4 DEF StoreInv

(* A new call takes the next number and disturbs nothing.                  *)
LEMMA UpsertStep ==
  ASSUME StoreInv, TypeOK', NEW w \in Writers, NEW b \in Batches, Upsert(w, b)
  PROVE  StoreInv'
<1> DEFINE c == Calls + 1
<1> USE DEF StoreInv
<1>1. /\ Calls \in Nat /\ c = Calls + 1 /\ c \notin 1 .. Calls /\ c # 0 /\ Calls' = c
      /\ 1 .. Calls \subseteq 1 .. c
      /\ made'[c] = ToSet(b) \ {Bad}
      /\ \A n \in 1 .. Calls : made'[n] = made[n]
  BY DEF Upsert, Calls, TypeOK
<1>2. /\ call[w] = 0 /\ call'[w] = c /\ todo'[w] = b
      /\ \A v \in Writers : v # w => call'[v] = call[v] /\ todo'[v] = todo[v]
      /\ UNCHANGED <<drawn, lock, staged, table, nextId, acked>>
  BY DEF Upsert, TypeOK, Calls, store
<1>3. acked \subseteq 1 .. Calls /\ \A v \in Writers : call[v] \in 0 .. Calls
  BY DEF CallsAreNumbered
<1> HIDE DEF c
<1>4. CallsAreNumbered'
  <2>1. acked' \subseteq 1 .. Calls' /\ c \notin acked /\ 0 \notin acked
    BY <1>1, <1>2, <1>3
  <2>2. ASSUME NEW v \in Writers
        PROVE  /\ call'[v] \in 0 .. Calls'
               /\ call'[v] \notin acked'
    <3>1. call[v] \in 0 .. Calls' /\ c \in 0 .. Calls' /\ call[v] \notin acked
      BY <1>1, <1>3 DEF CallsAreNumbered
    <3>2. call'[v] = c \/ call'[v] = call[v]
      BY <1>2
    <3>3. QED
      BY <1>2, <2>1, <3>1, <3>2
  <2>3. ASSUME NEW v \in Writers, NEW u \in Writers, call'[v] # 0, u # v
        PROVE  call'[u] # call'[v]
    <3>1. call[v] # c /\ call[u] # c
      BY <1>1, <1>3
    <3>2. QED
      BY <1>2, <2>3, <3>1 DEF CallsAreNumbered
  <2>4. QED
    BY <2>1, <2>2, <2>3 DEF CallsAreNumbered
<1>5. CallIsUnderWay'
  <2> SUFFICES ASSUME NEW v \in Writers
               PROVE  /\ call'[v] = 0 => todo'[v] = <<>> /\ drawn[v] = 0
                      /\ drawn[v] # 0 => todo'[v] # <<>> /\ Head(todo'[v]) \in Skus
                      /\ call'[v] # 0 =>
                           /\ ToSet(todo'[v]) \ {Bad} \subseteq made'[call'[v]]
                           /\ \A s \in made'[call'[v]] \ ToSet(todo'[v]) :
                                lock[s] = v /\ staged[s].by = call'[v]
    BY <1>2 DEF CallIsUnderWay
  <2>1. CASE v = w
    BY <1>1, <1>2, <2>1 DEF CallIsUnderWay
  <2>2. CASE v # w
    <3>1. call[v] # 0 => made'[call[v]] = made[call[v]]
      BY <1>1, <1>3
    <3>2. QED
      BY <1>2, <2>2, <3>1 DEF CallIsUnderWay
  <2>3. QED
    BY <2>1, <2>2
<1>6. StagedIsOwned'
  BY <1>1, <1>2 DEF StagedIsOwned, Present
<1>7. TableIsMade'
  BY <1>1, <1>2 DEF TableIsMade, Present
<1>8. DrawnIsFresh' /\ IdsAreUnique'
  BY <1>2 DEF DrawnIsFresh, IdsAreUnique, Present
<1>9. NoMixture'
  <2>1. acked' = acked /\ table' = table /\ \A n \in acked : made'[n] = made[n]
    BY <1>1, <1>2, <1>3
  <2>2. QED
    BY <2>1 DEF NoMixture
<1>10. AckedIsDurable'
  BY <1>1, <1>2, <1>3 DEF AckedIsDurable, Present
<1>11. QED
  BY <1>4, <1>5, <1>6, <1>7, <1>8, <1>9, <1>10

(* A drawn id is above all ids in use.                                     *)
LEMMA DrawStep ==
  ASSUME StoreInv, TypeOK', NEW w \in Writers, Draw(w)
  PROVE  StoreInv'
<1> USE DEF StoreInv
<1>1. /\ call[w] # 0 /\ todo[w] # <<>> /\ drawn[w] = 0
      /\ drawn'[w] = nextId /\ nextId' = nextId + 1
      /\ \A v \in Writers : v # w => drawn'[v] = drawn[v]
      /\ UNCHANGED <<call, todo, lock, staged, table, made, acked>>
      /\ nextId \in Nat \ {0}
      /\ \A v \in Writers : drawn[v] \in Nat
      /\ \A s \in Skus : table[s].id \in Nat
  BY DEF Draw, TypeOK, Row
<1>2. Head(todo[w]) \in Skus
  <2>1. todo[w] \in Seq(Skus \cup {Bad}) /\ Head(todo[w]) # Bad
    BY DEF Draw, TypeOK
  <2>2. QED
    BY <1>1, <2>1, HeadAndTail
<1>3. Calls' = Calls
  BY <1>1 DEF Calls
<1>4. CallsAreNumbered' /\ NoMixture' /\ AckedIsDurable'
  BY <1>1, <1>3 DEF CallsAreNumbered, NoMixture, AckedIsDurable, Present
<1>5. CallIsUnderWay'
  BY <1>1, <1>2 DEF CallIsUnderWay
<1>6. StagedIsOwned' /\ TableIsMade'
  BY <1>1, <1>3 DEF StagedIsOwned, TableIsMade, Present
<1>7. DrawnIsFresh'
  <2>1. \A v \in Writers : drawn[v] # 0 => drawn[v] < nextId
    BY DEF DrawnIsFresh
  <2>2. \A s \in Skus : /\ table[s].id # nextId
                        /\ lock[s] # NoOne => staged[s].id # nextId
    BY <1>1 DEF TableIsMade, StagedIsOwned, Present
  <2>3. SUFFICES ASSUME NEW v \in Writers, drawn'[v] # 0
                PROVE  /\ drawn'[v] < nextId'
                       /\ \A u \in Writers : u # v => drawn'[u] # drawn'[v]
                       /\ \A s \in Skus : /\ table[s].id # drawn'[v]
                                          /\ lock[s] # NoOne => staged[s].id # drawn'[v]
    BY <1>1 DEF DrawnIsFresh
  <2>4. CASE v = w
    <3>1. \A u \in Writers : drawn[u] # nextId
      BY <1>1, <2>1
    <3>2. drawn'[v] = nextId /\ nextId < nextId'
      BY <1>1, <2>4
    <3>3. \A u \in Writers : u # v => drawn'[u] # nextId
      BY <1>1, <2>4, <3>1
    <3>4. QED
      BY <2>2, <3>2, <3>3
  <2>5. CASE v # w
    <3>1. drawn'[v] = drawn[v] /\ drawn[v] < nextId /\ drawn[v] \in Nat
      BY <1>1, <2>1, <2>3, <2>5
    <3>2. drawn[v] < nextId' /\ drawn[v] # nextId
      BY <1>1, <3>1
    <3>3. \A u \in Writers : u # v => drawn'[u] # drawn[v]
      BY <1>1, <2>3, <3>1, <3>2 DEF DrawnIsFresh
    <3>4. QED
      BY <2>3, <3>1, <3>2, <3>3 DEF DrawnIsFresh
  <2>6. QED
    BY <2>4, <2>5
<1>8. IdsAreUnique'
  BY <1>1 DEF IdsAreUnique, Present
<1>9. QED
  BY <1>4, <1>5, <1>6, <1>7, <1>8

(* The row a statement writes has an id that nobody else has, and that of  *)
(* the product if it has one.                                              *)
LEMMA WrittenIsOwn ==
  ASSUME StoreInv, NEW w \in Writers, NEW s \in Skus,
         drawn[w] # 0, lock[s] \in {w, NoOne}
  PROVE  /\ Written(w, s).by = call[w]
         /\ Written(w, s).id \in 1 .. nextId - 1
         /\ Present(s) => Written(w, s).id = table[s].id
         /\ \A t \in Skus : t # s =>
              /\ lock[t] # NoOne => staged[t].id # Written(w, s).id
              /\ Present(t) => table[t].id # Written(w, s).id
         /\ \A v \in Writers : (v # w /\ drawn[v] # 0) => drawn[v] # Written(w, s).id
<1> USE DEF StoreInv
<1>1. /\ drawn[w] \in Nat /\ nextId \in Nat /\ drawn[w] < nextId
      /\ table[s].id \in Nat /\ staged[s].id \in Nat
      /\ w # NoOne
  BY WritersAssumption DEF TypeOK, Row, DrawnIsFresh
<1>2. Written(w, s).by = call[w]
  BY DEF Written
<1>3. CASE lock[s] = w
  <2>1. staged[s].id \in 1 .. nextId - 1 /\ (Present(s) => staged[s].id = table[s].id)
    BY <1>1, <1>3 DEF StagedIsOwned
  <2>2. Written(w, s).id = staged[s].id
    BY <1>1, <1>3, <2>1 DEF Written, Current
  <2>3. \A t \in Skus : t # s =>
          /\ lock[t] # NoOne => staged[t].id # staged[s].id
          /\ Present(t) => table[t].id # staged[s].id
    BY <1>1, <1>3 DEF IdsAreUnique
  <2>4. \A v \in Writers : (v # w /\ drawn[v] # 0) => drawn[v] # staged[s].id
    BY <1>1, <1>3 DEF DrawnIsFresh
  <2>5. QED
    BY <1>2, <2>1, <2>2, <2>3, <2>4
<1>4. CASE lock[s] # w /\ Present(s)
  <2>1. Written(w, s).id = table[s].id
    BY <1>4 DEF Written, Current, Present
  <2>2. table[s].id \in 1 .. nextId - 1
    BY <1>1, <1>4 DEF TableIsMade, Present
  <2>3. \A t \in Skus : t # s =>
          /\ lock[t] # NoOne => staged[t].id # table[s].id
          /\ Present(t) => table[t].id # table[s].id
    BY <1>4 DEF IdsAreUnique
  <2>4. \A v \in Writers : (v # w /\ drawn[v] # 0) => drawn[v] # table[s].id
    BY DEF DrawnIsFresh
  <2>5. QED
    BY <1>2, <2>1, <2>2, <2>3, <2>4
<1>5. CASE lock[s] # w /\ ~Present(s)
  <2>1. Written(w, s).id = drawn[w]
    BY <1>5 DEF Written, Current, Present
  <2>2. /\ \A t \in Skus : /\ lock[t] # NoOne => staged[t].id # drawn[w]
                           /\ table[t].id # drawn[w]
        /\ \A v \in Writers : v # w => drawn[v] # drawn[w]
    BY DEF DrawnIsFresh
  <2>3. QED
    BY <1>1, <1>2, <1>5, <2>1, <2>2
<1>6. QED
  BY <1>3, <1>4, <1>5

(* A statement that writes its row keeps the invariant: the row is the     *)
(* call's own, and so is the lock.                                         *)
LEMMA PlaceStep ==
  ASSUME StoreInv, TypeOK', NEW w \in Writers, Place(w)
  PROVE  StoreInv'
<1> DEFINE s == Head(todo[w])
           n == Written(w, s)
<1> USE DEF StoreInv
<1>1. /\ todo[w] \in Seq(Skus \cup {Bad}) /\ todo[w] # <<>> /\ drawn[w] # 0
      /\ s \in Skus /\ call[w] # 0 /\ w # NoOne /\ s # Bad
  BY WritersAssumption, SkusAssumption DEF Place, TypeOK, CallIsUnderWay
<1>2. ToSet(todo[w]) = {s} \cup ToSet(Tail(todo[w]))
  BY <1>1, HeadAndTail
<1>3. /\ lock[s] \in {w, NoOne}
      /\ lock' = [lock EXCEPT ![s] = w]
      /\ staged' = [staged EXCEPT ![s] = n]
      /\ todo' = [todo EXCEPT ![w] = Tail(todo[w])]
      /\ drawn' = [drawn EXCEPT ![w] = 0]
      /\ UNCHANGED <<call, table, nextId, made, acked>>
  BY DEF Place
<1>4. /\ n.by = call[w]
      /\ n.id \in 1 .. nextId - 1
      /\ Present(s) => n.id = table[s].id
      /\ \A t \in Skus : t # s =>
           /\ lock[t] # NoOne => staged[t].id # n.id
           /\ Present(t) => table[t].id # n.id
      /\ \A v \in Writers : (v # w /\ drawn[v] # 0) => drawn[v] # n.id
  BY <1>1, <1>3, WrittenIsOwn
<1> HIDE DEF s, n
<1>5. /\ lock'[s] = w /\ staged'[s] = n
      /\ \A t \in Skus : t # s => lock'[t] = lock[t] /\ staged'[t] = staged[t]
      /\ todo'[w] = Tail(todo[w]) /\ drawn'[w] = 0
      /\ \A v \in Writers : v # w => todo'[v] = todo[v] /\ drawn'[v] = drawn[v]
  BY <1>1, <1>3 DEF TypeOK
<1>6. Calls' = Calls
  BY <1>3 DEF Calls
<1>7. CallsAreNumbered' /\ NoMixture' /\ AckedIsDurable' /\ TableIsMade'
  BY <1>3, <1>6 DEF CallsAreNumbered, NoMixture, AckedIsDurable, TableIsMade, Present
<1>8. CallIsUnderWay'
  <2> SUFFICES ASSUME NEW v \in Writers
               PROVE  /\ call[v] = 0 => todo'[v] = <<>> /\ drawn'[v] = 0
                      /\ drawn'[v] # 0 => todo'[v] # <<>> /\ Head(todo'[v]) \in Skus
                      /\ call[v] # 0 =>
                           /\ ToSet(todo'[v]) \ {Bad} \subseteq made[call[v]]
                           /\ \A t \in made[call[v]] \ ToSet(todo'[v]) :
                                lock'[t] = v /\ staged'[t].by = call[v]
    BY SMTT(20), <1>3 DEF CallIsUnderWay
  <2>1. CASE v = w
    <3>1. /\ ToSet(todo[w]) \ {Bad} \subseteq made[call[w]]
          /\ \A t \in made[call[w]] \ ToSet(todo[w]) :
               lock[t] = w /\ staged[t].by = call[w]
      BY <1>1 DEF CallIsUnderWay
    <3>2. made[call[w]] \subseteq Skus
      BY <1>1, MadeOfSkus, CallHasNumber
    <3>3. QED
      BY <1>1, <1>2, <1>4, <1>5, <2>1, <3>1, <3>2
  <2>2. CASE v # w
    <3>1. \A t \in Skus : lock[t] = v => t # s
      BY <1>3, <2>2, WritersAssumption
    <3>2. call[v] # 0 => made[call[v]] \subseteq Skus
      BY MadeOfSkus, CallHasNumber
    <3>3. QED
      BY <1>5, <2>2, <3>1, <3>2 DEF CallIsUnderWay
  <2>3. QED
    BY <2>1, <2>2
<1>9. StagedIsOwned'
  <2> SUFFICES ASSUME NEW t \in Skus, lock'[t] # NoOne
               PROVE  /\ staged'[t].id \in 1 .. nextId - 1
                      /\ Present(t) => staged'[t].id = table[t].id
                      /\ staged'[t].by \in (1 .. Calls) \ acked
                      /\ t \in made[staged'[t].by]
                      /\ \A v \in Writers : call[v] = staged'[t].by => lock'[t] = v
    BY <1>3, <1>6 DEF StagedIsOwned, Present
  <2>1. CASE t = s
    <3>1. call[w] \in (1 .. Calls) \ acked
      BY <1>1, CallHasNumber
    <3>2. s \in made[call[w]]
      <4>1. ToSet(todo[w]) \ {Bad} \subseteq made[call[w]]
        BY <1>1 DEF CallIsUnderWay
      <4>2. QED
        BY <1>1, <1>2, <4>1
    <3>3. \A v \in Writers : call[v] = call[w] => v = w
      BY <1>1 DEF CallsAreNumbered
    <3>4. QED
      BY <1>4, <1>5, <2>1, <3>1, <3>2, <3>3
  <2>2. CASE t # s
    BY <1>5, <2>2 DEF StagedIsOwned
  <2>3. QED
    BY <2>1, <2>2
<1>10. DrawnIsFresh'
  <2> SUFFICES ASSUME NEW v \in Writers, v # w, drawn[v] # 0
               PROVE  /\ drawn[v] < nextId
                      /\ \A u \in Writers : u # v => drawn'[u] # drawn[v]
                      /\ \A t \in Skus : /\ table[t].id # drawn[v]
                                         /\ lock'[t] # NoOne => staged'[t].id # drawn[v]
    BY <1>3, <1>5 DEF DrawnIsFresh
  <2>1. \A t \in Skus : lock'[t] # NoOne => staged'[t].id # drawn[v]
    BY <1>1, <1>4, <1>5 DEF DrawnIsFresh
  <2>2. \A u \in Writers : u # v => drawn'[u] # drawn[v]
    BY <1>5 DEF DrawnIsFresh
  <2>3. QED
    BY <2>1, <2>2 DEF DrawnIsFresh
<1>11. IdsAreUnique'
  <2> SUFFICES ASSUME NEW t \in Skus, NEW u \in Skus, t # u
               PROVE  /\ Present(t) => table[t].id # table[u].id
                      /\ (lock'[t] # NoOne /\ lock'[u] # NoOne) => staged'[t].id # staged'[u].id
                      /\ (lock'[t] # NoOne /\ Present(u)) => staged'[t].id # table[u].id
    BY <1>3 DEF IdsAreUnique, Present
  <2>1. CASE t = s
    BY <1>4, <1>5, <2>1 DEF IdsAreUnique
  <2>2. CASE u = s
    BY <1>4, <1>5, <2>2 DEF IdsAreUnique
  <2>3. CASE t # s /\ u # s
    BY <1>5, <2>3 DEF IdsAreUnique
  <2>4. QED
    BY <2>1, <2>2, <2>3
<1>12. QED
  BY <1>7, <1>8, <1>9, <1>10, <1>11

(* A commit, acknowledged or not, makes what the call has written public   *)
(* all at once.                                                            *)
LEMMA PublishStep ==
  ASSUME StoreInv, TypeOK', NEW w \in Writers,
         AtCommit(w), Publish(w), Unlock(w), Leave(w),
         acked' \in {acked, acked \cup {call[w]}},
         UNCHANGED <<staged, nextId, made>>
  PROVE  StoreInv'
<1> DEFINE c == call[w]
<1> USE DEF StoreInv
<1>1. /\ c # 0 /\ todo[w] = <<>> /\ w # NoOne
      /\ c \in 1 .. Calls /\ c \notin acked
  BY WritersAssumption, CallHasNumber DEF AtCommit
<1>2. /\ call'[w] = 0 /\ todo'[w] = <<>> /\ drawn'[w] = 0
      /\ \A v \in Writers : v # w => /\ call'[v] = call[v]
                                     /\ todo'[v] = todo[v]
                                     /\ drawn'[v] = drawn[v]
  BY DEF Leave, TypeOK
<1>3. \A s \in Skus :
        /\ lock[s] = w => lock'[s] = NoOne /\ table'[s] = staged[s]
        /\ lock[s] # w => lock'[s] = lock[s] /\ table'[s] = table[s]
  BY DEF Unlock, Publish, Current
<1>4. made' = made /\ Calls' = Calls /\ staged' = staged /\ nextId' = nextId
  BY DEF Calls
<1>5. \A s \in made[c] : s \in Skus /\ lock[s] = w /\ staged[s].by = c
  <2>1. \A s \in made[c] \ ToSet(todo[w]) : lock[s] = w /\ staged[s].by = c
    BY <1>1 DEF CallIsUnderWay
  <2>2. QED
    BY <1>1, <2>1, ToSetEmpty, MadeOfSkus
<1>6. \A s \in Skus : lock[s] # NoOne =>
        /\ staged[s].id \in 1 .. nextId - 1
        /\ staged[s].by \in (1 .. Calls) \ acked
        /\ s \in made[staged[s].by]
        /\ \A v \in Writers : call[v] = staged[s].by => lock[s] = v
  BY DEF StagedIsOwned
<1>7. acked' \subseteq acked \cup {c} /\ acked \subseteq 1 .. Calls
  BY DEF CallsAreNumbered
<1>8. \A v \in Writers : v # w => call[v] # c
  BY <1>1 DEF CallsAreNumbered
<1> HIDE DEF c
<1>9. CallsAreNumbered'
  <2>1. \A v \in Writers : call'[v] \in 0 .. Calls /\ call'[v] \notin acked'
    <3>1. ASSUME NEW v \in Writers PROVE call'[v] \in 0 .. Calls /\ call'[v] \notin acked'
      <4>1. CASE v = w
        <5>1. call'[v] = 0
          BY <1>2, <4>1
        <5>2. 0 \in 0 .. Calls /\ 0 \notin acked'
          BY <1>1, <1>7 DEF TypeOK, Calls
        <5>3. QED
          BY <5>1, <5>2
      <4>2. CASE v # w
        BY <1>2, <1>7, <1>8, <4>2 DEF CallsAreNumbered
      <4>3. QED
        BY <4>1, <4>2
    <3>2. QED
      BY <3>1
  <2>2. ASSUME NEW v \in Writers, NEW u \in Writers, call'[v] # 0, u # v
        PROVE  call'[u] # call'[v]
    BY <1>2, <2>2 DEF CallsAreNumbered
  <2>3. acked' \subseteq 1 .. Calls
    BY <1>1, <1>7
  <2>4. QED
    BY <1>4, <2>1, <2>2, <2>3 DEF CallsAreNumbered
<1>10. CallIsUnderWay'
  <2> SUFFICES ASSUME NEW v \in Writers
               PROVE  /\ call'[v] = 0 => todo'[v] = <<>> /\ drawn'[v] = 0
                      /\ drawn'[v] # 0 => todo'[v] # <<>> /\ Head(todo'[v]) \in Skus
                      /\ call'[v] # 0 =>
                           /\ ToSet(todo'[v]) \ {Bad} \subseteq made[call'[v]]
                           /\ \A s \in made[call'[v]] \ ToSet(todo'[v]) :
                                lock'[s] = v /\ staged[s].by = call'[v]
    BY <1>4 DEF CallIsUnderWay
  <2>1. CASE v = w
    BY <1>2, <2>1
  <2>2. CASE v # w
    <3>1. call[v] # 0 => made[call[v]] \subseteq Skus
      BY MadeOfSkus, CallHasNumber
    <3>2. \A s \in Skus : lock[s] = v => lock'[s] = v
      BY <1>3, <2>2
    <3>3. QED
      BY <1>2, <2>2, <3>1, <3>2 DEF CallIsUnderWay
  <2>3. QED
    BY <2>1, <2>2
<1>11. StagedIsOwned'
  <2> SUFFICES ASSUME NEW s \in Skus, lock'[s] # NoOne
               PROVE  /\ staged[s].id \in 1 .. nextId - 1
                      /\ table'[s].id # 0 => staged[s].id = table'[s].id
                      /\ staged[s].by \in (1 .. Calls) \ acked'
                      /\ s \in made[staged[s].by]
                      /\ \A v \in Writers : call'[v] = staged[s].by => lock'[s] = v
    BY <1>4 DEF StagedIsOwned, Present
  <2>1. lock[s] # w /\ lock[s] # NoOne /\ lock'[s] = lock[s] /\ table'[s] = table[s]
    BY <1>3
  <2>2. staged[s].by # c
    BY <1>6, <2>1 DEF c
  <2>3. \A v \in Writers : call'[v] = staged[s].by => lock'[s] = v
    <3>1. staged[s].by # 0
      BY <1>6, <2>1
    <3>2. QED
      BY <1>2, <1>6, <2>1, <3>1
  <2>4. table[s].id # 0 => staged[s].id = table[s].id
    BY <2>1 DEF StagedIsOwned, Present
  <2>5. QED
    BY <1>6, <1>7, <2>1, <2>2, <2>3, <2>4
<1>12. TableIsMade'
  <2> SUFFICES ASSUME NEW s \in Skus, table'[s].id # 0
               PROVE  /\ table'[s].id < nextId
                      /\ table'[s].by \in 1 .. Calls
                      /\ s \in made[table'[s].by]
    BY <1>4 DEF TableIsMade, Present
  <2>1. CASE lock[s] = w
    <3>1. staged[s].id < nextId
      BY SMTT(20), <1>1, <1>6, <2>1 DEF TypeOK
    <3>2. QED
      BY <1>1, <1>3, <1>6, <2>1, <3>1
  <2>2. CASE lock[s] # w
    BY <1>3, <2>2 DEF TableIsMade, Present
  <2>3. QED
    BY <2>1, <2>2
<1>13. DrawnIsFresh'
  <2> SUFFICES ASSUME NEW v \in Writers, drawn'[v] # 0
               PROVE  /\ drawn'[v] < nextId
                      /\ \A u \in Writers : u # v => drawn'[u] # drawn'[v]
                      /\ \A s \in Skus : /\ table'[s].id # drawn'[v]
                                         /\ lock'[s] # NoOne => staged[s].id # drawn'[v]
    BY <1>4 DEF DrawnIsFresh
  <2>1. v # w /\ drawn'[v] = drawn[v]
    BY <1>2
  <2>2. \A u \in Writers : u # v => drawn'[u] # drawn[v]
    BY <1>2, <2>1 DEF DrawnIsFresh
  <2>3. \A s \in Skus : /\ table'[s].id # drawn[v]
                        /\ lock'[s] # NoOne => staged[s].id # drawn[v]
    BY <1>1, <1>3, <2>1 DEF DrawnIsFresh
  <2>4. QED
    BY <2>1, <2>2, <2>3 DEF DrawnIsFresh
<1>14. IdsAreUnique'
  <2> SUFFICES ASSUME NEW s \in Skus, NEW t \in Skus, s # t
               PROVE  /\ table'[s].id # 0 => table'[s].id # table'[t].id
                      /\ (lock'[s] # NoOne /\ lock'[t] # NoOne) => staged[s].id # staged[t].id
                      /\ (lock'[s] # NoOne /\ table'[t].id # 0) => staged[s].id # table'[t].id
    BY <1>4 DEF IdsAreUnique, Present
  <2>1. lock[s] # NoOne => staged[s].id # 0
    BY <1>6
  <2>2. /\ Present(s) => table[s].id # table[t].id
        /\ (lock[s] # NoOne /\ lock[t] # NoOne) => staged[s].id # staged[t].id
        /\ (lock[s] # NoOne /\ Present(t)) => staged[s].id # table[t].id
        /\ (lock[t] # NoOne /\ Present(s)) => staged[t].id # table[s].id
    BY DEF IdsAreUnique
  <2>3. QED
    BY <1>1, <1>3, <2>1, <2>2 DEF Present
<1>15. NoMixture'
  <2> SUFFICES ASSUME NEW s \in Skus, NEW t \in Skus,
                      {table'[s].by, table'[t].by} \subseteq acked',
                      {s, t} \subseteq made[table'[s].by],
                      {s, t} \subseteq made[table'[t].by]
               PROVE  table'[s].by = table'[t].by
    BY <1>4 DEF NoMixture
  <2>1. \A r \in Skus : lock[r] = w => staged[r].by \notin acked
    BY <1>1, <1>6
  <2>2. CASE lock[s] = w
    <3>1. table'[s].by = c
      BY <1>3, <1>7, <2>1, <2>2
    <3>2. lock[t] = w /\ staged[t].by = c
      BY <1>5, <3>1
    <3>3. QED
      BY <1>3, <3>1, <3>2
  <2>3. CASE lock[t] = w
    <3>1. table'[t].by = c
      BY <1>3, <1>7, <2>1, <2>3
    <3>2. lock[s] = w /\ staged[s].by = c
      BY <1>5, <3>1
    <3>3. QED
      BY <1>3, <3>1, <3>2
  <2>4. CASE lock[s] # w /\ lock[t] # w
    <3>1. table'[s].by # c /\ table'[t].by # c
      BY <1>5, <2>4
    <3>2. {table[s].by, table[t].by} \subseteq acked
      BY <1>3, <1>7, <2>4, <3>1
    <3>3. QED
      BY <1>3, <2>4, <3>2 DEF NoMixture
  <2>5. QED
    BY <2>2, <2>3, <2>4
<1>16. AckedIsDurable'
  <2> SUFFICES ASSUME NEW n \in acked', NEW s \in made[n]
               PROVE  /\ table'[s].id # 0
                      /\ table'[s].by # n => \E m \in 1 .. Calls : m # n /\ s \in made[m]
    BY <1>4 DEF AckedIsDurable, Present
  <2>1. CASE n = c
    <3>1. s \in Skus /\ lock[s] = w /\ staged[s].by = c
      BY <1>5, <2>1
    <3>2. table'[s] = staged[s] /\ staged[s].id # 0
      BY <1>1, <1>3, <1>6, <3>1
    <3>3. QED
      BY <2>1, <3>1, <3>2
  <2>2. CASE n # c
    <3>1. n \in acked /\ s \in Skus
      BY <1>7, <2>2, MadeOfSkus
    <3>2. CASE lock[s] = w
      <4>1. table'[s] = staged[s]
        BY <1>3, <3>1, <3>2
      <4>2. staged[s].id # 0 /\ staged[s].by \in (1 .. Calls) \ acked /\ s \in made[staged[s].by]
        BY <1>1, <1>6, <3>1, <3>2
      <4>3. QED
        BY <3>1, <4>1, <4>2
    <3>3. CASE lock[s] # w
      BY <1>3, <3>1, <3>3 DEF AckedIsDurable, Present
    <3>4. QED
      BY <3>2, <3>3
  <2>3. QED
    BY <2>1, <2>2
<1>17. QED
  BY <1>9, <1>10, <1>11, <1>12, <1>13, <1>14, <1>15, <1>16

(* What is below an id is below a later one.                               *)
LEMMA Later ==
  ASSUME NEW i \in Nat, NEW j \in Nat, i <= j
  PROVE  /\ \A k \in Nat : k < i => k < j
         /\ 1 .. i - 1 \subseteq 1 .. j - 1
OBVIOUS

(* A call that raises, a lost connection and a rollback publish nothing:   *)
(* rows and ids of the writer are let go, or stay its connection's.        *)
LEMMA AbandonStep ==
  ASSUME StoreInv, TypeOK', NEW w \in Writers,
         call'[w] = 0, todo'[w] = <<>>, drawn'[w] = 0,
         \A v \in Writers : v # w => /\ call'[v] = call[v]
                                     /\ todo'[v] = todo[v]
                                     /\ drawn'[v] = drawn[v],
         \A s \in Skus : \/ lock'[s] = lock[s]
                         \/ lock[s] = w /\ lock'[s] = NoOne,
         UNCHANGED <<staged, table, made, acked>>,
         nextId <= nextId'
  PROVE  StoreInv'
<1> USE DEF StoreInv
<1>1. /\ Calls' = Calls /\ acked \subseteq 1 .. Calls
      /\ \A i \in Nat : i < nextId => i < nextId'
      /\ 1 .. nextId - 1 \subseteq 1 .. nextId' - 1
  <2>1. Calls' = Calls /\ acked \subseteq 1 .. Calls
    BY DEF Calls, CallsAreNumbered
  <2>2. nextId \in Nat /\ nextId' \in Nat
    BY DEF TypeOK
  <2>3. QED
    BY <2>1, <2>2, Later
<1>2. CallsAreNumbered'
  <2>1. \A v \in Writers : call'[v] \in 0 .. Calls /\ call'[v] \notin acked
    <3>1. 0 \in 0 .. Calls /\ 0 \notin acked
      BY <1>1 DEF Calls, TypeOK
    <3>2. QED
      BY <3>1 DEF CallsAreNumbered
  <2>2. ASSUME NEW v \in Writers, NEW u \in Writers, call'[v] # 0, u # v
        PROVE  call'[u] # call'[v]
    BY <2>2 DEF CallsAreNumbered
  <2>3. QED
    BY <1>1, <2>1, <2>2 DEF CallsAreNumbered
<1>3. CallIsUnderWay'
  <2> SUFFICES ASSUME NEW v \in Writers, v # w
               PROVE  /\ call[v] = 0 => todo[v] = <<>> /\ drawn[v] = 0
                      /\ drawn[v] # 0 => todo[v] # <<>> /\ Head(todo[v]) \in Skus
                      /\ call[v] # 0 =>
                           /\ ToSet(todo[v]) \ {Bad} \subseteq made[call[v]]
                           /\ \A s \in made[call[v]] \ ToSet(todo[v]) :
                                lock'[s] = v /\ staged[s].by = call[v]
    BY DEF CallIsUnderWay
  <2>1. call[v] # 0 => made[call[v]] \subseteq Skus
    BY MadeOfSkus, CallHasNumber
  <2>2. \A s \in Skus : lock[s] = v => lock'[s] = v
    OBVIOUS
  <2>3. QED
    BY <2>1, <2>2 DEF CallIsUnderWay
<1>4. StagedIsOwned'
  <2> SUFFICES ASSUME NEW s \in Skus, lock'[s] # NoOne
               PROVE  /\ staged[s].id \in 1 .. nextId' - 1
                      /\ Present(s) => staged[s].id = table[s].id
                      /\ staged[s].by \in (1 .. Calls) \ acked
                      /\ s \in made[staged[s].by]
                      /\ \A v \in Writers : call'[v] = staged[s].by => lock'[s] = v
    BY <1>1 DEF StagedIsOwned, Present
  <2>1. lock'[s] = lock[s] /\ lock[s] # NoOne
    OBVIOUS
  <2>2. staged[s].by # 0
    BY <2>1 DEF StagedIsOwned
  <2>3. \A v \in Writers : call'[v] = staged[s].by => lock'[s] = v
    BY <2>1, <2>2 DEF StagedIsOwned
  <2>4. QED
    BY <1>1, <2>1, <2>3 DEF StagedIsOwned
<1>5. TableIsMade'
  <2>1. \A s \in Skus : table[s].id \in Nat
    BY DEF TypeOK, Row
  <2>2. QED
    BY <1>1, <2>1 DEF TableIsMade, Present
<1>6. DrawnIsFresh'
  <2> SUFFICES ASSUME NEW v \in Writers, drawn'[v] # 0
               PROVE  /\ drawn'[v] < nextId'
                      /\ \A u \in Writers : u # v => drawn'[u] # drawn'[v]
                      /\ \A s \in Skus : /\ table[s].id # drawn'[v]
                                         /\ lock'[s] # NoOne => staged[s].id # drawn'[v]
    BY DEF DrawnIsFresh
  <2>1. v # w /\ drawn'[v] = drawn[v] /\ drawn[v] \in Nat /\ drawn[v] < nextId
    BY DEF DrawnIsFresh, TypeOK
  <2>2. drawn[v] < nextId'
    BY <1>1, <2>1
  <2>3. \A u \in Writers : u # v => drawn'[u] # drawn[v]
    BY <2>1 DEF DrawnIsFresh
  <2>4. QED
    BY <2>1, <2>2, <2>3 DEF DrawnIsFresh
<1>7. IdsAreUnique'
  <2>1. \A s \in Skus : lock'[s] # NoOne => lock[s] # NoOne
    OBVIOUS
  <2>2. QED
    BY <2>1 DEF IdsAreUnique, Present
<1>8. NoMixture' /\ AckedIsDurable'
  BY <1>1 DEF NoMixture, AckedIsDurable, Present
<1>9. QED
  BY <1>2, <1>3, <1>4, <1>5, <1>6, <1>7, <1>8

(* Leave changes the work of one writer only.                              *)
LEMMA LeavePointwise ==
  ASSUME TypeOK, NEW w \in Writers, Leave(w)
  PROVE  /\ call'[w] = 0 /\ todo'[w] = <<>> /\ drawn'[w] = 0
         /\ \A v \in Writers : v # w => /\ call'[v] = call[v]
                                        /\ todo'[v] = todo[v]
                                        /\ drawn'[v] = drawn[v]
BY DEF Leave, TypeOK

(* Unlock lets go of one writer's locks only.                              *)
LEMMA UnlockPointwise ==
  ASSUME NEW w \in Writers, Unlock(w)
  PROVE  \A s \in Skus : \/ lock'[s] = lock[s]
                         \/ lock[s] = w /\ lock'[s] = NoOne
BY DEF Unlock

(* Every step keeps the invariant.                                         *)
LEMMA NextStoreInv == StoreInv /\ [Next]_vars => StoreInv'
<1> SUFFICES ASSUME StoreInv, [Next]_vars PROVE StoreInv'
  OBVIOUS
<1>1. TypeOK /\ TypeOK' /\ nextId \in Nat /\ nextId <= nextId + 1
  <2>1. TypeOK /\ TypeOK'
    BY NextTypeOK DEF StoreInv
  <2>2. nextId \in Nat
    BY <2>1 DEF TypeOK
  <2>3. QED
    BY <2>1, <2>2
<1>2. ASSUME UNCHANGED <<work, store, made, acked>> PROVE StoreInv'
  <2>1. UNCHANGED <<call, todo, drawn, lock, staged, table, nextId, made, acked>>
    BY <1>2 DEF work, store
  <2>2. CallsAreNumbered' /\ CallIsUnderWay' /\ StagedIsOwned' /\ TableIsMade'
    BY <2>1 DEF StoreInv, CallsAreNumbered, CallIsUnderWay, StagedIsOwned, TableIsMade,
                Present, Calls
  <2>3. DrawnIsFresh' /\ IdsAreUnique' /\ NoMixture' /\ AckedIsDurable'
    BY <2>1 DEF StoreInv, DrawnIsFresh, IdsAreUnique, NoMixture, AckedIsDurable,
                Present, Calls
  <2>4. QED
    BY <1>1, <2>2, <2>3 DEF StoreInv
<1>3. ASSUME NEW w \in Writers, Read(w) PROVE StoreInv'
  BY <1>2, <1>3 DEF Read
<1>4. ASSUME NEW w \in Writers, NEW b \in Batches, Upsert(w, b) PROVE StoreInv'
  BY <1>1, <1>4, UpsertStep
<1>5. ASSUME NEW w \in Writers, Draw(w) PROVE StoreInv'
  BY <1>1, <1>5, DrawStep
<1>6. ASSUME NEW w \in Writers, Place(w) PROVE StoreInv'
  BY <1>1, <1>6, PlaceStep
<1>7. ASSUME NEW w \in Writers, Commit(w) PROVE StoreInv'
  BY <1>1, <1>7, PublishStep DEF Commit
<1>8. ASSUME NEW w \in Writers, CommitUnacknowledged(w) PROVE StoreInv'
  BY <1>1, <1>8, PublishStep DEF CommitUnacknowledged
<1>9. ASSUME NEW w \in Writers, RaiseOnRecord(w) PROVE StoreInv'
  <2>1. UNCHANGED <<lock, staged, table, nextId, made, acked>> /\ Leave(w)
    BY <1>9 DEF RaiseOnRecord, store
  <2>2. nextId <= nextId' /\ \A s \in Skus : lock'[s] = lock[s]
    BY <1>1, <2>1
  <2>3. QED
    BY <1>1, <2>1, <2>2, LeavePointwise, AbandonStep
<1>10. ASSUME NEW w \in Writers, RejectRecord(w) PROVE StoreInv'
  <2>1. /\ UNCHANGED <<staged, table, made, acked>> /\ nextId <= nextId'
        /\ Leave(w) /\ Unlock(w)
    BY <1>1, <1>10 DEF RejectRecord, Rollback
  <2>2. QED
    BY <1>1, <2>1, LeavePointwise, UnlockPointwise, AbandonStep
<1>11. ASSUME NEW w \in Writers, DeadlockDetected(w) \/ LoseConnection(w)
       PROVE  StoreInv'
  <2>1. /\ UNCHANGED <<staged, table, nextId, made, acked>>
        /\ Leave(w) /\ Unlock(w)
    BY <1>11 DEF DeadlockDetected, LoseConnection, Rollback
  <2>2. nextId <= nextId'
    BY <1>1, <2>1
  <2>3. QED
    BY <1>1, <2>1, <2>2, LeavePointwise, UnlockPointwise, AbandonStep
<1>12. ASSUME NEW w \in Writers, OwnerResets(w) PROVE StoreInv'
  <2>1. /\ UNCHANGED <<call, todo, drawn, staged, table, nextId, made, acked>>
        /\ call[w] = 0 /\ Unlock(w)
    BY <1>12 DEF OwnerResets, Rollback, work
  <2>2. todo[w] = <<>> /\ drawn[w] = 0 /\ nextId <= nextId'
    BY <1>1, <2>1 DEF StoreInv, CallIsUnderWay
  <2>3. QED
    BY <1>1, <2>1, <2>2, UnlockPointwise, AbandonStep
<1>13. CASE UNCHANGED vars
  BY <1>2, <1>13 DEF vars
<1>14. QED
  BY <1>3, <1>4, <1>5, <1>6, <1>7, <1>8, <1>9, <1>10, <1>11, <1>12, <1>13
     DEF Next, Write, Statement, Quiet

-----------------------------------------------------------------------------
(* The invariant holds of every behaviour of the repository.               *)
THEOREM StoreInvariance == Spec => []StoreInv
BY InitStoreInv, NextStoreInv, PTL DEF Spec

(* No two products ever share an id, committed or about to be.             *)
THEOREM UniqueIds == Spec => []IdsAreUnique
<1>1. StoreInv => IdsAreUnique
  BY DEF StoreInv
<1>2. QED
  BY <1>1, StoreInvariance, PTL

(* Acknowledged calls never leave a mixture of their rows.                 *)
THEOREM NoMixtures == Spec => []NoMixture
<1>1. StoreInv => NoMixture
  BY DEF StoreInv
<1>2. QED
  BY <1>1, StoreInvariance, PTL

(* What an acknowledged call has written is there.                         *)
THEOREM Durability == Spec => []AckedIsDurable
<1>1. StoreInv => AckedIsDurable
  BY DEF StoreInv
<1>2. QED
  BY <1>1, StoreInvariance, PTL

(* No step changes the id of a product that exists.                        *)
LEMMA StepKeepsIds ==
  StoreInv /\ [Next]_vars =>
    [\A s \in Skus : Present(s) => table'[s].id = table[s].id]_vars
<1> SUFFICES ASSUME StoreInv, [Next]_vars, NEW s \in Skus, Present(s)
             PROVE  table'[s].id = table[s].id
  OBVIOUS
<1>1. ASSUME NEW w \in Writers, Publish(w) PROVE table'[s].id = table[s].id
  BY <1>1, WritersAssumption DEF Publish, Current, StoreInv, StagedIsOwned
<1>2. CASE table' = table
  BY <1>2
<1>3. QED
  BY <1>1, <1>2
     DEF Next, Write, Statement, Quiet, vars, store, Read, Upsert, Draw, Place, Commit,
         RaiseOnRecord, RejectRecord, DeadlockDetected, LoseConnection,
         CommitUnacknowledged, OwnerResets, Rollback

(* An upsert keeps the id of a product for good.                           *)
THEOREM StableIds == Spec => IdIsStable
BY StoreInvariance, StepKeepsIds, PTL DEF Spec, IdIsStable

-----------------------------------------------------------------------------
(* What a commit of w makes of the table.                                  *)
LEMMA PublishIsPublish ==
  ASSUME StoreInv, StoreInv', NEW w \in Writers, AtCommit(w), Publish(w),
         UNCHANGED made, acked' \in {acked, acked \cup {call[w]}}
  PROVE  Catalog!Publish
<1>1. TypeOK /\ TypeOK'
  BY DEF StoreInv
<1>2. \A s \in Skus : table'[s] = IF lock[s] = w THEN staged[s] ELSE table[s]
  BY DEF Publish, Current
<1>3. table' \in [Skus -> Catalog!Row]
  BY <1>1 DEF TypeOK, Row, Catalog!Row
<1>4. DOMAIN made = 1 .. Calls
  BY <1>1 DEF TypeOK, Calls
<1>5. ASSUME NEW s \in Skus, lock[s] = w PROVE Catalog!WritesRow(s)
  <2>1. table'[s] = staged[s] /\ lock[s] # NoOne
    BY <1>2, <1>5, WritersAssumption
  <2>2. /\ staged[s].by \in (1 .. Calls) \ acked
        /\ s \in made[staged[s].by]
        /\ staged[s].id # 0
        /\ Present(s) => staged[s].id = table[s].id
    <3>1. /\ staged[s].id \in 1 .. nextId - 1
          /\ staged[s].by \in (1 .. Calls) \ acked
          /\ s \in made[staged[s].by]
          /\ Present(s) => staged[s].id = table[s].id
      BY <2>1 DEF StoreInv, StagedIsOwned
    <3>2. nextId \in Nat
      BY <1>1 DEF TypeOK
    <3> QED BY <3>1, <3>2
  <2>3. table'[s].by \in Catalog!Pending /\ s \in made[table'[s].by]
    BY <1>4, <2>1, <2>2 DEF Catalog!Pending
  <2>4. \A t \in Skus \ {s} : table'[t].id # table'[s].id
    BY <2>1, <2>2 DEF StoreInv, IdsAreUnique, Present
  <2> QED BY <2>1, <2>2, <2>3, <2>4 DEF Catalog!WritesRow, Present
<1>6. call[w] \in Catalog!Pending /\ \A s \in made[call[w]] : table'[s].by = call[w]
  <2>1. call[w] # 0 /\ todo[w] = <<>>
    BY DEF AtCommit
  <2>2. call[w] \in 1 .. Calls /\ call[w] \notin acked
    BY <1>1, <2>1 DEF StoreInv, CallsAreNumbered, TypeOK, Calls
  <2>3. \A s \in made[call[w]] : s \in Skus /\ lock[s] = w /\ staged[s].by = call[w]
    <3>1. ToSet(todo[w]) = {}
      BY <2>1 DEF ToSet
    <3>2. made[call[w]] \in SUBSET Skus
      <4>1. made \in Seq(SUBSET Skus) /\ call[w] \in DOMAIN made
        BY <1>1, <1>4, <2>2 DEF TypeOK
      <4> QED BY <4>1
    <3> QED BY <2>1, <3>1, <3>2 DEF StoreInv, CallIsUnderWay
  <2> QED BY <1>2, <1>4, <2>2, <2>3 DEF Catalog!Pending
<1> QED BY <1>2, <1>3, <1>5, <1>6 DEF Catalog!Publish

(* Every step of a writer is a step or a stutter of the contract.          *)
LEMMA CatalogStep ==
  ASSUME StoreInv, StoreInv', [Next]_vars
  PROVE  [Catalog!Next]_(Catalog!contractVars)
<1>1. UNCHANGED <<table, made, acked>> => UNCHANGED Catalog!contractVars
  BY DEF Catalog!contractVars
<1>2. ASSUME NEW w \in Writers, NEW b \in Batches, Upsert(w, b) PROVE Catalog!Call
  <2>1. ToSet(b) \ {Bad} \in SUBSET Skus
    <3>1. b \in Seq(Skus \cup {Bad})
      BY BatchesAssumption
    <3> QED BY <3>1 DEF ToSet
  <2>2. made' = Append(made, ToSet(b) \ {Bad}) /\ UNCHANGED <<table, acked>>
    BY <1>2 DEF Upsert, store
  <2> QED BY <2>1, <2>2 DEF Catalog!Call
<1>3. ASSUME NEW w \in Writers, Commit(w) \/ CommitUnacknowledged(w)
      PROVE  Catalog!Publish
  <2>1. /\ AtCommit(w) /\ Publish(w) /\ UNCHANGED made
        /\ acked' \in {acked, acked \cup {call[w]}}
    BY <1>3 DEF Commit, CommitUnacknowledged
  <2> QED BY <2>1, PublishIsPublish
<1>4. ASSUME NEW w \in Writers,
             \/ Draw(w) \/ Place(w) \/ RaiseOnRecord(w) \/ RejectRecord(w) \/ Read(w)
             \/ OwnerResets(w) \/ DeadlockDetected(w) \/ LoseConnection(w)
      PROVE  UNCHANGED <<table, made, acked>>
  BY <1>4 DEF Draw, Place, RaiseOnRecord, RejectRecord, Read, OwnerResets,
              DeadlockDetected, LoseConnection, Rollback, store
<1>5. Quiet \/ UNCHANGED vars => UNCHANGED <<table, made, acked>>
  BY DEF Quiet, vars, store
<1>6. ASSUME NEW w \in Writers, Write(w) PROVE [Catalog!Next]_(Catalog!contractVars)
  BY <1>1, <1>2, <1>3, <1>4, <1>6 DEF Write, Statement, Catalog!Next
<1> QED BY <1>1, <1>5, <1>6 DEF Next

(* The repository implements the contract of its table, for any number of  *)
(* writers and products and whatever fails: commits publish calls as a     *)
(* whole, ids stay, and a call that has returned writes no more.           *)
THEOREM CatalogRefinement == Spec => ImplementsCatalog
<1>1. Init => Catalog!Init
  BY DEF Init, Catalog!Init, NoRow
<1> QED BY <1>1, CatalogStep, StoreInvariance, PTL DEF Spec, ImplementsCatalog, Catalog!Spec

-----------------------------------------------------------------------------
(* What the contract says is all it takes.  Rows are of calls that name    *)
(* them.                                                                   *)
RowsAreMade ==
    /\ made \in Seq(SUBSET Skus) /\ acked \subseteq DOMAIN made
    /\ \A s \in Skus : table[s].by \in DOMAIN made \cup {0}
    /\ \A s \in Skus : table[s].by # 0 => Present(s) /\ s \in made[table[s].by]

PublishedInv == RowsAreMade /\ AckedIsDurable /\ NoMixture

(* A call is made: the others keep their number.                           *)
LEMMA CallKeeps == ASSUME PublishedInv, Catalog!Call PROVE PublishedInv'
<1>1. /\ made \in Seq(SUBSET Skus) /\ acked \subseteq DOMAIN made
      /\ \A s \in Skus : table[s].by \in DOMAIN made \cup {0}
      /\ UNCHANGED <<table, acked>>
  BY DEF PublishedInv, RowsAreMade, Catalog!Call
<1>2. /\ made' \in Seq(SUBSET Skus) /\ DOMAIN made \subseteq DOMAIN made'
      /\ DOMAIN made = 1 .. Calls /\ DOMAIN made' = 1 .. Calls'
      /\ \A n \in DOMAIN made : made'[n] = made[n]
  <2>1. PICK products \in SUBSET Skus : made' = Append(made, products)
    BY DEF Catalog!Call
  <2> QED BY <1>1, <2>1 DEF Calls
<1>3. RowsAreMade'
  BY <1>1, <1>2 DEF PublishedInv, RowsAreMade, Present
<1>4. AckedIsDurable'
  <2> SUFFICES ASSUME NEW n \in acked', NEW s \in made'[n]
               PROVE  /\ Present(s)'
                      /\ table'[s].by # n => \E m \in 1 .. Calls' : m # n /\ s \in made'[m]
    BY DEF AckedIsDurable
  <2>1. n \in acked /\ n \in DOMAIN made /\ s \in made[n]
    BY <1>1, <1>2
  <2>2. /\ Present(s)
        /\ table[s].by # n => \E m \in 1 .. Calls : m # n /\ s \in made[m]
    BY <2>1 DEF PublishedInv, AckedIsDurable
  <2> QED BY <1>1, <1>2, <2>2 DEF Present
<1>5. NoMixture'
  <2> SUFFICES ASSUME NEW s \in Skus, NEW t \in Skus,
                      {table[s].by, table[t].by} \subseteq acked,
                      {s, t} \subseteq made'[table[s].by], {s, t} \subseteq made'[table[t].by]
               PROVE  table[s].by = table[t].by
    BY <1>1 DEF NoMixture
  <2>1. table[s].by \in DOMAIN made /\ table[t].by \in DOMAIN made
    BY <1>1
  <2> QED BY <1>2, <2>1 DEF PublishedInv, NoMixture
<1> QED BY <1>3, <1>4, <1>5 DEF PublishedInv

(* Rows are published: those of a call that returns are all its own.       *)
LEMMA PublishKeeps == ASSUME PublishedInv, Catalog!Publish PROVE PublishedInv'
<1>1. /\ made \in Seq(SUBSET Skus) /\ acked \subseteq DOMAIN made
      /\ DOMAIN made = 1 .. Calls /\ 0 \notin DOMAIN made /\ made' = made
      /\ \A n \in DOMAIN made : made[n] \subseteq Skus
  <2>1. made \in Seq(SUBSET Skus) /\ acked \subseteq DOMAIN made /\ made' = made
    BY DEF PublishedInv, RowsAreMade, Catalog!Publish
  <2>2. DOMAIN made = 1 .. Calls /\ \A n \in DOMAIN made : made[n] \in SUBSET Skus
    BY <2>1 DEF Calls
  <2> QED BY <2>1, <2>2
<1>2. ASSUME NEW s \in Skus
      PROVE  \/ table'[s] = table[s]
             \/ /\ table'[s].by \in DOMAIN made \ acked /\ s \in made[table'[s].by]
                /\ table'[s].id # 0
  BY DEF Catalog!Publish, Catalog!WritesRow, Catalog!Pending
<1>3. \/ acked' = acked
      \/ \E n \in DOMAIN made \ acked : /\ acked' = acked \cup {n}
                                       /\ \A s \in made[n] : table'[s].by = n
  BY DEF Catalog!Publish, Catalog!Pending
<1>4. RowsAreMade'
  <2>1. acked' \subseteq DOMAIN made
    BY <1>1, <1>3
  <2>2. ASSUME NEW s \in Skus
        PROVE  /\ table'[s].by \in DOMAIN made \cup {0}
               /\ table'[s].by # 0 => table'[s].id # 0 /\ s \in made[table'[s].by]
    BY <1>2 DEF PublishedInv, RowsAreMade, Present
  <2> QED BY <1>1, <2>1, <2>2 DEF RowsAreMade, Present
<1>5. AckedIsDurable'
  <2> SUFFICES ASSUME NEW n \in acked', NEW s \in made[n]
               PROVE  /\ table'[s].id # 0
                      /\ table'[s].by # n => \E m \in 1 .. Calls : m # n /\ s \in made[m]
    BY <1>1 DEF AckedIsDurable, Present, Calls
  <2>1. n \in DOMAIN made /\ s \in Skus
    BY <1>1, <1>3
  <2>2. CASE n \in acked
    <3>1. /\ table[s].id # 0
          /\ table[s].by # n => \E m \in 1 .. Calls : m # n /\ s \in made[m]
      BY <2>2 DEF PublishedInv, AckedIsDurable, Present
    <3>2. CASE table'[s] = table[s]
      BY <3>1, <3>2
    <3>3. CASE /\ table'[s].by \in DOMAIN made \ acked /\ s \in made[table'[s].by]
               /\ table'[s].id # 0
      BY <1>1, <2>2, <3>3
    <3> QED BY <1>2, <2>1, <3>2, <3>3
  <2>3. CASE n \notin acked
    <3>1. table'[s].by = n
      BY <1>3, <2>3
    <3>2. n # 0
      BY <1>1, <2>1
    <3> QED BY <1>4, <2>1, <3>1, <3>2 DEF RowsAreMade, Present
  <2> QED BY <2>2, <2>3
<1>6. NoMixture'
  <2> SUFFICES ASSUME NEW s \in Skus, NEW t \in Skus, NEW m, NEW n,
                      m = table'[s].by, n = table'[t].by, m \in acked', n \in acked',
                      s \in made[m], t \in made[m], s \in made[n], t \in made[n]
               PROVE  m = n
    BY <1>1 DEF NoMixture
  <2>1. CASE m \in acked /\ n \in acked
    <3>1. table'[s] = table[s] /\ table'[t] = table[t]
      BY <1>2, <2>1
    <3> QED BY <2>1, <3>1 DEF PublishedInv, NoMixture
  <2>2. CASE m \notin acked
    BY <1>3, <2>2
  <2>3. CASE n \notin acked
    BY <1>3, <2>3
  <2> QED BY <2>1, <2>2, <2>3
<1> QED BY <1>4, <1>5, <1>6 DEF PublishedInv

(* Whoever keeps to the contract keeps acknowledged calls, never leaves a  *)
(* mixture of two of them and never changes an id.                         *)
THEOREM CatalogContractSuffices ==
  ImplementsCatalog => []AckedIsDurable /\ []NoMixture /\ IdIsStable
<1>1. Catalog!Init => PublishedInv
  <2> SUFFICES ASSUME Catalog!Init PROVE PublishedInv
    OBVIOUS
  <2>1. /\ made = <<>> /\ acked = {} /\ DOMAIN made = {}
        /\ \A s \in Skus : table[s].by = 0
    BY DEF Catalog!Init
  <2> QED BY <2>1 DEF PublishedInv, RowsAreMade, AckedIsDurable, NoMixture
<1>2. PublishedInv /\ [Catalog!Next]_(Catalog!contractVars) => PublishedInv'
  <2>1. PublishedInv /\ UNCHANGED Catalog!contractVars => PublishedInv'
    BY DEF Catalog!contractVars, PublishedInv, RowsAreMade, AckedIsDurable, NoMixture,
           Present, Calls
  <2> QED BY <2>1, CallKeeps, PublishKeeps DEF Catalog!Next
<1>3. PublishedInv => AckedIsDurable /\ NoMixture
  BY DEF PublishedInv
<1>4. [Catalog!Next]_(Catalog!contractVars)
        => [\A s \in Skus : Present(s) => table'[s].id = table[s].id]_vars
  <2>1. Catalog!Publish => \A s \in Skus : Present(s) => table'[s].id = table[s].id
    BY DEF Catalog!Publish, Catalog!WritesRow, Present
  <2>2. Catalog!Call \/ UNCHANGED Catalog!contractVars => UNCHANGED table
    BY DEF Catalog!Call, Catalog!contractVars
  <2> QED BY <2>1, <2>2 DEF Catalog!Next
<1> QED BY <1>1, <1>2, <1>3, <1>4, PTL DEF ImplementsCatalog, Catalog!Spec, IdIsStable

=============================================================================
