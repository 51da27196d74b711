-------------------------- MODULE ClaimQueueProofs --------------------------
(***************************************************************************)
(* Proofs about ClaimQueue for every finite set of workers, every finite   *)
(* set of row ids, every batch size and every number of lost sessions.     *)
(***************************************************************************)
EXTENDS ClaimQueue, FiniteSetTheorems, WellFoundedInduction, TLAPS

(* The rows are finitely many, so a transaction holds a finite set.        *)
LEMMA LockedFinite ==
  ASSUME NEW w \in Workers
  PROVE  IsFiniteSet(Locked(w)) /\ Cardinality(Locked(w)) \in Nat
  <1>1. Locked(w) \in SUBSET Rows
    BY DEF Locked
  <1>2. IsFiniteSet(Locked(w))
    BY <1>1, FS_Subset, RowsAssumption
  <1> QED
    BY <1>2, FS_CardinalityType

(* LIMIT is positive: a claim that has reached it holds a row.             *)
LEMMA FullIsNotEmpty ==
  ASSUME NEW w \in Workers, Full(w)
  PROVE  Locked(w) # {}
  BY FS_EmptySet, BatchSizeAssumption DEF Full

(* Types hold initially and every step of the queue preserves them.        *)
LEMMA TypeInit == Init => TypeOK
  BY LossesAssumption DEF Init, TypeOK, Steps, NoReport

LEMMA TypeStep == TypeOK /\ [Next]_vars => TypeOK'
  <1> SUFFICES ASSUME TypeOK, [Next]_vars PROVE TypeOK'
    OBVIOUS
  <1> USE DEF TypeOK, Steps
  <1>1. ASSUME NEW w \in Workers, Work(w) PROVE TypeOK'
    <2>1. CASE Connect(w)
      BY <2>1 DEF Connect, Goto, server
    <2>2. CASE Execute(w)
      BY <2>2 DEF Execute, Goto, Pending
    <2>3. CASE LockRow(w)
      BY <2>3 DEF LockRow, Takes, client
    <2>4. CASE SkipClaimedRow(w)
      BY <2>4 DEF SkipClaimedRow, client
    <2>5. CASE ReturnClaim(w)
      BY <2>5 DEF ReturnClaim, Goto, Locked
    <2>6. CASE CallProvider(w)
      BY <2>6 DEF CallProvider, Goto, server
    <2>7. CASE CommitBatch(w)
      <3>1. Append(claimedIds[w], ids[w]) \in Seq(SUBSET Rows)
        OBVIOUS
      <3>2. claimedIds' \in [Workers -> Seq(SUBSET Rows)]
        BY <2>7, <3>1 DEF CommitBatch
      <3> QED
        BY <2>7, <3>2 DEF CommitBatch, CommitClaim, Release, Goto
    <2>8. CASE CommitEmpty(w)
      BY <2>8 DEF CommitEmpty, Goto, server
    <2>9. CASE Raise(w)
      BY <2>9 DEF Raise, Die, Goto, server
    <2> QED
      BY <1>1, <2>1, <2>2, <2>3, <2>4, <2>5, <2>6, <2>7, <2>8, <2>9 DEF Work
  <1>2. ASSUME NEW w \in Workers, Disturb(w) PROVE TypeOK'
    <2>1. CASE ConnectFails(w)
      BY <2>1, LossesAssumption DEF ConnectFails, Goto, server
    <2>2. CASE CommitUnacknowledged(w)
      BY <2>2, LossesAssumption
      DEF CommitUnacknowledged, CommitClaim, Release, Die, Goto
    <2>3. CASE LoseSession(w)
      BY <2>3, LossesAssumption DEF LoseSession, Release, client
    <2> QED
      BY <1>2, <2>1, <2>2, <2>3 DEF Disturb
  <1>3. CASE MonitorPoll
    <2>1. Cardinality({w \in Workers : Waiting(w)}) \in Nat
      BY WorkersAssumption, FS_Subset, FS_CardinalityType
    <2> QED
      BY <1>3, <2>1 DEF MonitorPoll, client, server
  <1>4. CASE Join
    BY <1>4 DEF Join, Pending, client, server
  <1>5. CASE UNCHANGED vars
    BY <1>5 DEF vars
  <1> QED
    BY <1>1, <1>2, <1>3, <1>4, <1>5 DEF Next, Returned

(* The variables of the queue always have their types.                     *)
THEOREM TypeCorrect == Spec => []TypeOK
  BY TypeInit, TypeStep, PTL DEF Spec

-----------------------------------------------------------------------------
(* The inductive invariant holds when drain starts its threads.            *)
LEMMA IndInvInit == Init => IndInv
  <1> SUFFICES ASSUME Init PROVE IndInv
    OBVIOUS
  <1>1. TypeOK
    BY TypeInit
  <1>2. LocksAreLive /\ NothingPassedOver /\ LockedInOrder
    BY WorkersAssumption DEF Init, LocksAreLive, NothingPassedOver, LockedInOrder
  <1>3. WithinLimit
    <2> SUFFICES ASSUME NEW w \in Workers PROVE Cardinality(Locked(w)) <= BatchSize
      BY DEF WithinLimit
    <2>1. Locked(w) = {}
      BY WorkersAssumption DEF Init, Locked
    <2> QED
      BY <2>1, FS_EmptySet, BatchSizeAssumption
  <1>4. CalledIsCalled /\ HeldWhileCalling /\ EmptyMeansDrained
    BY DEF Init, CalledIsCalled, HeldWhileCalling, EmptyMeansDrained
  <1>5. RecordedIsCommitted /\ NoDuplicateClaims /\ CallsAtLeastOnce
    BY DEF Init, RecordedIsCommitted, NoDuplicateClaims, CallsAtLeastOnce
  <1> QED
    BY <1>1, <1>2, <1>3, <1>4, <1>5 DEF IndInv

(* The steps that touch neither rows, locks nor batches: connecting, the   *)
(* end of a worker, the monitor and the report.                            *)
LEMMA QuietStep ==
  ASSUME IndInv, TypeOK',
         UNCHANGED <<server, ids, claimedIds, calls>>,
         \A w \in Workers :
            \/ pc'[w] = pc[w] /\ session'[w] = session[w]
            \/ pc[w] = "start" /\ pc'[w] \in {"loop", "failed"}
            \/ session[w] = "broken" /\ pc'[w] = "failed"
            \/ pc[w] = "empty" /\ pc'[w] \in {"done", "failed"}
  PROVE  IndInv'
  <1> USE DEF IndInv
  <1>1. LocksAreLive' /\ LockedInOrder'
    BY DEF LocksAreLive, LockedInOrder, server
  <1>2. NothingPassedOver' /\ EmptyMeansDrained' /\ HeldWhileCalling'
    BY DEF NothingPassedOver, EmptyMeansDrained, HeldWhileCalling, Pending,
           Locked, server
  <1>3. WithinLimit' /\ CalledIsCalled' /\ CallsAtLeastOnce'
    BY DEF WithinLimit, CalledIsCalled, CallsAtLeastOnce, Locked, server
  <1>4. RecordedIsCommitted' /\ NoDuplicateClaims'
    BY DEF RecordedIsCommitted, NoDuplicateClaims, server
  <1> QED
    BY <1>1, <1>2, <1>3, <1>4

(* A commit at the server: the rows of w's transaction become w's, its     *)
(* locks go, and w leaves the calling steps.                               *)
LEMMA CommitStep ==
  ASSUME IndInv, TypeOK',
         NEW w \in Workers, pc[w] = "called", session[w] = "open",
         CommitClaim(w),
         UNCHANGED <<scan, calls>>,
         \A v \in Workers \ {w} : /\ pc'[v] = pc[v]
                                  /\ session'[v] = session[v]
                                  /\ ids'[v] = ids[v],
         pc'[w] \in {"loop", "failed"}
  PROVE  /\ LocksAreLive' /\ NothingPassedOver' /\ LockedInOrder' /\ WithinLimit'
         /\ CalledIsCalled' /\ HeldWhileCalling' /\ EmptyMeansDrained'
         /\ CallsAtLeastOnce'
         /\ \A r \in Rows : claimedBy[r] # NoOne => claimedBy'[r] = claimedBy[r]
  <1> USE DEF IndInv
  <1>1. \A r \in Rows : lock'[r] = IF lock[r] = w THEN NoOne ELSE lock[r]
    BY DEF CommitClaim, Release
  <1>2. \A r \in Rows : claimedBy'[r] = IF lock[r] = w THEN w ELSE claimedBy[r]
    BY DEF CommitClaim
  <1>3. Pending' \subseteq Pending
    BY <1>2, WorkersAssumption DEF Pending
  <1>4. \A v \in Workers \ {w} : Locked(v)' = Locked(v)
    BY <1>1, WorkersAssumption DEF Locked
  <1>5. Locked(w)' = {}
    BY <1>1, WorkersAssumption DEF Locked
  <1>6. \A r \in Rows : claimedBy[r] # NoOne => claimedBy'[r] = claimedBy[r]
    BY <1>2 DEF LocksAreLive
  <1>7. LocksAreLive'
    BY <1>1, <1>2, WorkersAssumption DEF LocksAreLive
  <1>8. NothingPassedOver'
    BY <1>3, <1>4 DEF NothingPassedOver
  <1>9. LockedInOrder'
    BY <1>1, WorkersAssumption DEF LockedInOrder
  <1>10. WithinLimit'
    BY <1>4, <1>5, FS_EmptySet, BatchSizeAssumption DEF WithinLimit
  <1>11. CalledIsCalled'
    BY DEF CalledIsCalled
  <1>12. HeldWhileCalling'
    <2> SUFFICES ASSUME NEW v \in Workers,
                        pc'[v] \in {"calling", "called"}, session'[v] = "open"
                 PROVE  ids'[v] = Locked(v)' /\ ids'[v] \subseteq Pending'
      BY DEF HeldWhileCalling
    <2>1. v # w
      OBVIOUS
    <2>2. ids'[v] = Locked(v)' /\ ids[v] \subseteq Pending
      BY <2>1, <1>4 DEF HeldWhileCalling
    <2>3. \A r \in ids[v] : lock[r] = v
      BY <2>1 DEF HeldWhileCalling, Locked
    <2> QED
      BY <2>1, <2>2, <2>3, <1>2 DEF Pending
  <1>13. EmptyMeansDrained'
    BY <1>3 DEF EmptyMeansDrained
  <1>14. CallsAtLeastOnce'
    <2> SUFFICES ASSUME NEW r \in Rows, claimedBy'[r] # NoOne PROVE calls[r] >= 1
      BY DEF CallsAtLeastOnce
    <2>1. CASE lock[r] = w
      BY <2>1 DEF CalledIsCalled, HeldWhileCalling, Locked
    <2>2. CASE lock[r] # w
      BY <2>2, <1>2 DEF CallsAtLeastOnce
    <2> QED
      BY <2>1, <2>2
  <1> QED
    BY <1>6, <1>7, <1>8, <1>9, <1>10, <1>11, <1>12, <1>13, <1>14

-----------------------------------------------------------------------------
(* Every step of a worker's own code preserves the invariant.              *)
LEMMA WorkStep ==
  ASSUME IndInv, TypeOK', NEW w \in Workers, Work(w)
  PROVE  IndInv'
  <1> USE DEF IndInv
  <1>1. CASE Connect(w)
    BY <1>1, QuietStep DEF Connect, Goto, TypeOK
  <1>2. CASE Execute(w)
    <2> USE <1>2 DEF Execute, Goto, TypeOK
    <2>1. LocksAreLive'
      BY DEF LocksAreLive
    <2>2. NothingPassedOver'
      BY DEF NothingPassedOver, Pending, Locked
    <2>3. LockedInOrder'
      <3>1. \A r \in Rows : lock[r] # w
        BY DEF LocksAreLive
      <3>2. \A v \in Workers \ {w} : pc'[v] = pc[v] /\ scan'[v] = scan[v]
        OBVIOUS
      <3> QED
        BY <3>1, <3>2 DEF LockedInOrder
    <2>4. WithinLimit' /\ CalledIsCalled' /\ CallsAtLeastOnce'
      BY DEF WithinLimit, CalledIsCalled, CallsAtLeastOnce, Locked
    <2>5. HeldWhileCalling' /\ EmptyMeansDrained'
      BY DEF HeldWhileCalling, EmptyMeansDrained, Pending, Locked
    <2>6. RecordedIsCommitted' /\ NoDuplicateClaims'
      BY DEF RecordedIsCommitted, NoDuplicateClaims
    <2> QED
      BY <2>1, <2>2, <2>3, <2>4, <2>5, <2>6
  <1>3. CASE LockRow(w)
    <2> PICK r \in Rows : /\ NextRow(w, r)
                          /\ lock[r] = NoOne
                          /\ claimedBy[r] = NoOne
                          /\ lock' = [lock EXCEPT ![r] = w]
                          /\ scan' = [scan EXCEPT ![w] = @ \ {r}]
                          /\ UNCHANGED <<client, session, claimedBy, calls>>
      BY <1>3 DEF LockRow, Takes
    <2> USE DEF client, TypeOK
    <2>1. Locked(w)' = Locked(w) \cup {r}
      BY DEF Locked
    <2>2. \A v \in Workers \ {w} : Locked(v)' = Locked(v)
      BY WorkersAssumption DEF Locked
    <2>3. LocksAreLive'
      BY DEF LocksAreLive, NextRow
    <2>4. NothingPassedOver'
      BY <2>1, <2>2 DEF NothingPassedOver, Pending
    <2>5. LockedInOrder'
      BY RowsAssumption DEF LockedInOrder, NextRow
    <2>6. WithinLimit'
      <3>1. Cardinality(Locked(w)) <= BatchSize /\ Cardinality(Locked(w)) # BatchSize
        BY DEF WithinLimit, NextRow, Full
      <3>2. IsFiniteSet(Locked(w)) /\ Cardinality(Locked(w)) \in Nat
        BY LockedFinite
      <3>3. Cardinality(Locked(w) \cup {r})
              = IF r \in Locked(w) THEN Cardinality(Locked(w))
                                   ELSE Cardinality(Locked(w)) + 1
        BY <3>2, FS_AddElement
      <3>4. Cardinality(Locked(w)') <= BatchSize
        BY <3>1, <3>2, <3>3, <2>1, BatchSizeAssumption
      <3> QED
        BY <3>4, <2>2 DEF WithinLimit
    <2>7. CalledIsCalled' /\ CallsAtLeastOnce' /\ EmptyMeansDrained'
      BY DEF CalledIsCalled, CallsAtLeastOnce, EmptyMeansDrained, Pending
    <2>8. HeldWhileCalling'
      BY <2>2 DEF HeldWhileCalling, NextRow, Pending
    <2>9. RecordedIsCommitted' /\ NoDuplicateClaims'
      BY DEF RecordedIsCommitted, NoDuplicateClaims
    <2> QED
      BY <2>3, <2>4, <2>5, <2>6, <2>7, <2>8, <2>9
  <1>4. CASE SkipClaimedRow(w)
    <2> PICK r \in Rows : /\ claimedBy[r] # NoOne
                          /\ scan' = [scan EXCEPT ![w] = @ \ {r}]
                          /\ UNCHANGED <<client, session, claimedBy, lock, calls>>
      BY <1>4 DEF SkipClaimedRow, Drops
    <2> USE DEF client, TypeOK
    <2>1. LocksAreLive' /\ LockedInOrder'
      BY DEF LocksAreLive, LockedInOrder
    <2>2. NothingPassedOver'
      BY DEF NothingPassedOver, Pending, Locked
    <2>3. WithinLimit' /\ CalledIsCalled' /\ CallsAtLeastOnce'
      BY DEF WithinLimit, CalledIsCalled, CallsAtLeastOnce, Locked
    <2>4. HeldWhileCalling' /\ EmptyMeansDrained'
      BY DEF HeldWhileCalling, EmptyMeansDrained, Pending, Locked
    <2>5. RecordedIsCommitted' /\ NoDuplicateClaims'
      BY DEF RecordedIsCommitted, NoDuplicateClaims
    <2> QED
      BY <2>1, <2>2, <2>3, <2>4, <2>5
  <1>5. CASE ReturnClaim(w)
    <2> USE <1>5 DEF ReturnClaim, Goto, TypeOK
    <2>1. Locked(w) = {} => Pending = {}
      BY FullIsNotEmpty DEF NothingPassedOver
    <2>2. LocksAreLive'
      BY DEF LocksAreLive, Locked
    <2>3. NothingPassedOver' /\ EmptyMeansDrained'
      BY <2>1 DEF NothingPassedOver, EmptyMeansDrained, Pending, Locked
    <2>4. LockedInOrder'
      BY DEF LockedInOrder
    <2>5. WithinLimit' /\ CalledIsCalled' /\ CallsAtLeastOnce'
      BY DEF WithinLimit, CalledIsCalled, CallsAtLeastOnce, Locked
    <2>6. HeldWhileCalling'
      BY DEF HeldWhileCalling, LocksAreLive, Pending, Locked
    <2>7. RecordedIsCommitted' /\ NoDuplicateClaims'
      BY DEF RecordedIsCommitted, NoDuplicateClaims
    <2> QED
      BY <2>2, <2>3, <2>4, <2>5, <2>6, <2>7
  <1>6. CASE CallProvider(w)
    <2> USE <1>6 DEF CallProvider, Goto, TypeOK, server
    <2>1. LocksAreLive' /\ LockedInOrder'
      BY DEF LocksAreLive, LockedInOrder
    <2>2. NothingPassedOver' /\ EmptyMeansDrained' /\ HeldWhileCalling'
      BY DEF NothingPassedOver, EmptyMeansDrained, HeldWhileCalling, Pending, Locked
    <2>3. WithinLimit'
      BY DEF WithinLimit, Locked
    <2>4. CalledIsCalled' /\ CallsAtLeastOnce'
      BY DEF CalledIsCalled, CallsAtLeastOnce
    <2>5. RecordedIsCommitted' /\ NoDuplicateClaims'
      BY DEF RecordedIsCommitted, NoDuplicateClaims
    <2> QED
      BY <2>1, <2>2, <2>3, <2>4, <2>5
  <1>7. CASE CommitBatch(w)
    <2>1. /\ LocksAreLive' /\ NothingPassedOver' /\ LockedInOrder' /\ WithinLimit'
          /\ CalledIsCalled' /\ HeldWhileCalling' /\ EmptyMeansDrained'
          /\ CallsAtLeastOnce'
          /\ \A r \in Rows : claimedBy[r] # NoOne => claimedBy'[r] = claimedBy[r]
      BY <1>7, CommitStep DEF CommitBatch, AtCommit, Goto, TypeOK
    <2>2. claimedIds' = [claimedIds EXCEPT ![w] = Append(@, ids[w])]
      BY <1>7 DEF CommitBatch
    <2>3. \A r \in ids[w] : claimedBy[r] = NoOne /\ claimedBy'[r] = w
      BY <1>7 DEF CommitBatch, AtCommit, CommitClaim, HeldWhileCalling, Pending, Locked, TypeOK
    <2>4. \A v \in Workers : claimedIds[v] \in Seq(SUBSET Rows)
      BY DEF TypeOK
    <2>5. ASSUME NEW v \in Workers, NEW i \in DOMAIN claimedIds'[v]
          PROVE  \/ v = w /\ i = Len(claimedIds[w]) + 1 /\ claimedIds'[v][i] = ids[w]
                 \/ i \in DOMAIN claimedIds[v] /\ claimedIds'[v][i] = claimedIds[v][i]
      <3>1. CASE v = w
        BY <3>1, <2>2, <2>4, <2>5 DEF TypeOK
      <3>2. CASE v # w
        BY <3>2, <2>2, <2>5 DEF TypeOK
      <3> QED
        BY <3>1, <3>2
    <2>6. \A v \in Workers : \A i \in DOMAIN claimedIds[v] :
             \A r \in claimedIds[v][i] : r \in Rows /\ claimedBy[r] = v
      BY <2>4 DEF RecordedIsCommitted
    <2>7. RecordedIsCommitted'
      <3> SUFFICES ASSUME NEW v \in Workers, NEW i \in DOMAIN claimedIds'[v],
                          NEW r \in claimedIds'[v][i]
                   PROVE  claimedBy'[r] = v
        BY DEF RecordedIsCommitted
      <3> QED
        BY <2>1, <2>3, <2>5, <2>6, WorkersAssumption
    <2>8. NoDuplicateClaims'
      <3> SUFFICES ASSUME NEW v \in Workers, NEW u \in Workers,
                          NEW i \in DOMAIN claimedIds'[v],
                          NEW j \in DOMAIN claimedIds'[u],
                          NEW r \in claimedIds'[v][i] \cap claimedIds'[u][j]
                   PROVE  v = u /\ i = j
        BY DEF NoDuplicateClaims
      <3>1. CASE i \in DOMAIN claimedIds[v] /\ claimedIds'[v][i] = claimedIds[v][i]
        <4>1. claimedBy[r] # NoOne
          BY <3>1, <2>6, WorkersAssumption
        <4>2. j \in DOMAIN claimedIds[u] /\ claimedIds'[u][j] = claimedIds[u][j]
          BY <4>1, <2>3, <2>5
        <4> QED
          BY <3>1, <4>2 DEF NoDuplicateClaims
      <3>2. CASE /\ v = w /\ i = Len(claimedIds[w]) + 1
                 /\ claimedIds'[v][i] = ids[w]
        <4>1. claimedBy[r] = NoOne
          BY <3>2, <2>3
        <4>2. u = w /\ j = Len(claimedIds[w]) + 1
          BY <4>1, <2>5, <2>6, WorkersAssumption
        <4> QED
          BY <3>2, <4>2
      <3> QED
        BY <3>1, <3>2, <2>5
    <2> QED
      BY <2>1, <2>7, <2>8
  <1>8. CASE CommitEmpty(w)
    BY <1>8, QuietStep DEF CommitEmpty, Goto, TypeOK
  <1>9. CASE Raise(w)
    BY <1>9, QuietStep DEF Raise, Die, Goto, TypeOK
  <1> QED
    BY <1>1, <1>2, <1>3, <1>4, <1>5, <1>6, <1>7, <1>8, <1>9 DEF Work

(* Losing a session, the answer of a commit or a connection attempt        *)
(* preserves the invariant.                                                *)
LEMMA DisturbStep ==
  ASSUME IndInv, TypeOK', NEW w \in Workers, Disturb(w)
  PROVE  IndInv'
  <1> USE DEF IndInv
  <1>1. CASE ConnectFails(w)
    BY <1>1, QuietStep DEF ConnectFails, Goto, TypeOK
  <1>2. CASE CommitUnacknowledged(w)
    <2>1. /\ LocksAreLive' /\ NothingPassedOver' /\ LockedInOrder' /\ WithinLimit'
          /\ CalledIsCalled' /\ HeldWhileCalling' /\ EmptyMeansDrained'
          /\ CallsAtLeastOnce'
          /\ \A r \in Rows : claimedBy[r] # NoOne => claimedBy'[r] = claimedBy[r]
      BY <1>2, CommitStep DEF CommitUnacknowledged, AtCommit, Die, Goto, TypeOK
    <2>2. claimedIds' = claimedIds
      BY <1>2 DEF CommitUnacknowledged
    <2>3. \A v \in Workers : claimedIds[v] \in Seq(SUBSET Rows)
      BY DEF TypeOK
    <2>4. RecordedIsCommitted' /\ NoDuplicateClaims'
      BY <2>1, <2>2, <2>3, WorkersAssumption
      DEF RecordedIsCommitted, NoDuplicateClaims
    <2> QED
      BY <2>1, <2>4
  <1>3. CASE LoseSession(w)
    <2> USE <1>3 DEF LoseSession, Release, client, TypeOK
    <2>1. \A v \in Workers \ {w} : Locked(v)' = Locked(v)
      BY WorkersAssumption DEF Locked
    <2>2. Locked(w)' = {}
      BY WorkersAssumption DEF Locked
    <2>3. LocksAreLive'
      BY WorkersAssumption DEF LocksAreLive
    <2>4. NothingPassedOver'
      BY <2>1 DEF NothingPassedOver, Pending
    <2>5. LockedInOrder'
      BY WorkersAssumption DEF LockedInOrder
    <2>6. WithinLimit'
      <3>1. Cardinality(Locked(w)') <= BatchSize
        BY <2>2, FS_EmptySet, BatchSizeAssumption
      <3>2. \A v \in Workers \ {w} : Cardinality(Locked(v)') <= BatchSize
        BY <2>1 DEF WithinLimit
      <3> QED
        BY <3>1, <3>2 DEF WithinLimit
    <2>7. CalledIsCalled' /\ CallsAtLeastOnce' /\ EmptyMeansDrained'
      BY DEF CalledIsCalled, CallsAtLeastOnce, EmptyMeansDrained, Pending
    <2>8. HeldWhileCalling'
      BY <2>1 DEF HeldWhileCalling, Pending
    <2>9. RecordedIsCommitted' /\ NoDuplicateClaims'
      BY DEF RecordedIsCommitted, NoDuplicateClaims
    <2> QED
      BY <2>3, <2>4, <2>5, <2>6, <2>7, <2>8, <2>9
  <1> QED
    BY <1>1, <1>2, <1>3 DEF Disturb

LEMMA IndInvStep == IndInv /\ [Next]_vars => IndInv'
  <1> SUFFICES ASSUME IndInv, [Next]_vars PROVE IndInv'
    OBVIOUS
  <1>1. TypeOK'
    BY TypeStep DEF IndInv
  <1>2. ASSUME NEW w \in Workers, Work(w) PROVE IndInv'
    BY <1>1, <1>2, WorkStep
  <1>3. ASSUME NEW w \in Workers, Disturb(w) PROVE IndInv'
    BY <1>1, <1>3, DisturbStep
  <1>4. CASE MonitorPoll
    BY <1>1, <1>4, QuietStep DEF MonitorPoll, client
  <1>5. CASE Join
    BY <1>1, <1>5, QuietStep DEF Join, client
  <1>6. CASE UNCHANGED vars
    BY <1>1, <1>6, QuietStep DEF vars, server
  <1> QED
    BY <1>2, <1>3, <1>4, <1>5, <1>6 DEF Next, Returned

(* The inductive invariant holds in every reachable state.                 *)
THEOREM Invariance == Spec => []IndInv
  BY IndInvInit, IndInvStep, PTL DEF Spec

-----------------------------------------------------------------------------
(* No row is returned by two committed claims of the workers, whatever     *)
(* sessions are lost (gate 1 of check.py).                                 *)
THEOREM NoDuplicates == Spec => []NoDuplicateClaims
  BY Invariance, PTL DEF IndInv

(* What a worker records is committed under its name.                      *)
THEOREM Recorded == Spec => []RecordedIsCommitted
  BY Invariance, PTL DEF IndInv

(* A worker that stops on an empty claim leaves nothing pending.           *)
THEOREM EmptyIsDrained == Spec => []EmptyMeansDrained
  BY Invariance, PTL DEF IndInv

(* The ids a live worker processes are the rows it has locked.             *)
THEOREM Held == Spec => []HeldWhileCalling
  BY Invariance, PTL DEF IndInv

(* Every committed claim was preceded by a provider call.                  *)
THEOREM CalledBeforeClaimed == Spec => []CallsAtLeastOnce
  BY Invariance, PTL DEF IndInv

(* Workers wait for one another in increasing id order only: row locks     *)
(* cannot close a cycle of waiting transactions.                           *)
THEOREM NoWaitingCycle == Spec => []WaitsInIdOrder
  <1>1. IndInv => WaitsInIdOrder
    BY DEF IndInv, LockedInOrder, WaitsInIdOrder, NextRow
  <1> QED
    BY <1>1, Invariance, PTL

(* Each step leaves the rows committed so far with their owners.           *)
LEMMA ClaimsStay ==
  ASSUME IndInv, [Next]_vars
  PROVE  \A r \in Rows : claimedBy[r] # NoOne => claimedBy'[r] = claimedBy[r]
  <1> USE DEF IndInv
  <1>1. ASSUME NEW w \in Workers, CommitClaim(w)
        PROVE  \A r \in Rows : claimedBy[r] # NoOne => claimedBy'[r] = claimedBy[r]
    BY <1>1 DEF CommitClaim, LocksAreLive
  <1>2. ASSUME NEW w \in Workers, Work(w), ~CommitBatch(w)
        PROVE  claimedBy' = claimedBy
    BY <1>2 DEF Work, Connect, Execute, LockRow, SkipClaimedRow, ReturnClaim,
       CallProvider, CommitEmpty, Raise, server
  <1>3. ASSUME NEW w \in Workers, Disturb(w), ~CommitUnacknowledged(w)
        PROVE  claimedBy' = claimedBy
    BY <1>3 DEF Disturb, ConnectFails, LoseSession, server
  <1> QED
    BY <1>1, <1>2, <1>3
    DEF Next, Returned, MonitorPoll, Join, vars, server, CommitBatch,
        CommitUnacknowledged

(* A committed claim is never taken away.                                  *)
THEOREM ClaimsAreFinal == Spec => ClaimIsFinal
  <1>1. IndInv /\ [Next]_vars =>
          [\A r \in Rows : claimedBy[r] # NoOne => claimedBy'[r] = claimedBy[r]]_vars
    BY ClaimsStay
  <1> QED
    BY <1>1, Invariance, PTL DEF Spec, ClaimIsFinal

-----------------------------------------------------------------------------
(* What is proved on top of IndInv: what repeated calls cost, and what the *)
(* report says.                                                            *)

(* A proper subset is below its superset in the library's ordering.        *)
LEMMA StrictlyBelow ==
  ASSUME NEW X, NEW S \in SUBSET X, NEW U \in SUBSET X, S \subseteq U, S # U
  PROVE  <<S, U>> \in StrictSubsetOrdering(X)
<1>1. <<S, U>> \in (SUBSET X) \X (SUBSET X)
  OBVIOUS
<1>2. <<S, U>>[1] = S /\ <<S, U>>[2] = U
  OBVIOUS
<1> QED BY <1>1, <1>2 DEF StrictSubsetOrdering

(* Of all rows that are next for somebody, one has no such row above it.   *)
LEMMA HighestNextRow ==
  ASSUME NEW R \in SUBSET Rows, R # {}
  PROVE  \E r \in R : \A s \in R : ~(r < s)
<1> DEFINE Above(r) == {s \in Rows : r < s}
           T == {Above(r) : r \in R}
<1>1. T \subseteq FiniteSubsetsOf(Rows) /\ T # {}
  <2>1. \A r \in R : Above(r) \in SUBSET Rows
    OBVIOUS
  <2>2. \A S \in SUBSET Rows : S \in FiniteSubsetsOf(Rows)
    BY RowsAssumption, FS_Subset DEF FiniteSubsetsOf
  <2> QED BY <2>1, <2>2
<1>2. IsWellFoundedOn(StrictSubsetOrdering(Rows), FiniteSubsetsOf(Rows))
  BY FS_StrictSubsetOrderingWellFounded
<1>3. \E x \in T : \A y \in T : ~(<<y, x>> \in StrictSubsetOrdering(Rows))
  BY <1>1, <1>2, WFMin
<1>4. PICK r \in R : \A s \in R : ~(<<Above(s), Above(r)>> \in StrictSubsetOrdering(Rows))
  BY <1>3
<1>5. ASSUME NEW s \in R, r < s PROVE FALSE
  <2>0. r \in Nat /\ s \in Nat /\ \A q \in Rows : q \in Nat
    BY RowsAssumption
  <2>1. Above(s) \subseteq Above(r)
    <3>1. \A q \in Rows : s < q => r < q
      BY <1>5, <2>0
    <3> QED BY <3>1
  <2>2. s \in Above(r) /\ s \notin Above(s)
    BY <1>5, <2>0
  <2>3. Above(s) \in SUBSET Rows /\ Above(r) \in SUBSET Rows /\ Above(s) # Above(r)
    BY <2>2
  <2> HIDE DEF Above
  <2>4. <<Above(s), Above(r)>> \in StrictSubsetOrdering(Rows)
    BY <2>1, <2>3, StrictlyBelow
  <2> QED BY <1>4, <2>4
<1> QED BY <1>5

(* The worker whose next row is the highest does not wait: it would wait   *)
(* for one whose next row is higher still.                                 *)
LEMMA NotAllWait ==
  ASSUME IndInv, Workers # {}
  PROVE  Cardinality({w \in Workers : Waiting(w)}) < Cardinality(Workers)
<1> DEFINE R == {r \in Rows : \E w \in Workers : NextRow(w, r)}
<1>1. \E w \in Workers : ~Waiting(w)
  <2> SUFFICES ASSUME \A w \in Workers : Waiting(w) PROVE FALSE
    OBVIOUS
  <2>1. \A w \in Workers : \E v \in Workers : \E r \in Rows :
          NextRow(w, r) /\ lock[r] = v
    BY DEF Waiting, WaitsFor
  <2>2. R # {}
    BY <2>1
  <2>3. PICK r \in R : \A s \in R : ~(r < s)
    BY <2>2, HighestNextRow
  <2>4. PICK w \in Workers : NextRow(w, r)
    OBVIOUS
  <2>5. PICK v \in Workers, q \in Rows : NextRow(w, q) /\ lock[q] = v
    BY <2>1
  <2>6. q = r
    BY <2>4, <2>5, RowsAssumption DEF NextRow
  <2>7. PICK s \in Rows : NextRow(v, s)
    BY <2>1
  <2>8. r < s
    BY <2>4, <2>5, <2>6, <2>7 DEF IndInv, LockedInOrder, NextRow
  <2> QED BY <2>3, <2>7, <2>8
<1>2. /\ {w \in Workers : Waiting(w)} \in SUBSET Workers
      /\ {w \in Workers : Waiting(w)} # Workers
  BY <1>1
<1>3. IsFiniteSet(Workers)
  BY WorkersAssumption
<1> HIDE DEF R
<1> DEFINE W == {w \in Workers : Waiting(w)}
<1>4. W \in SUBSET Workers /\ W # Workers
  BY <1>2
<1> HIDE DEF W
<1>5. /\ Cardinality(W) <= Cardinality(Workers) /\ Cardinality(W) # Cardinality(Workers)
      /\ Cardinality(W) \in Nat /\ Cardinality(Workers) \in Nat
  BY <1>3, <1>4, FS_Subset, FS_CardinalityType
<1>6. Cardinality(W) < Cardinality(Workers)
  BY <1>5
<1> QED BY <1>6 DEF W

LEMMA LateFinite ==
  ASSUME NEW r \in Rows
  PROVE  IsFiniteSet(Late(r)) /\ Cardinality(Late(r)) \in Nat
<1>1. Late(r) \in SUBSET Workers
  BY DEF Late
<1> QED BY <1>1, WorkersAssumption, FS_Subset, FS_CardinalityType

(* A step that does not call for r, makes nobody late for it and does not  *)
(* end a claim on it leaves the account of r in order.                     *)
LEMMA PaidForRow ==
  ASSUME CallsArePaid, TypeOK, TypeOK', losses <= losses',
         NEW r \in Rows, calls'[r] = calls[r],
         Late(r)' \subseteq Late(r), InForce(r) => InForce(r)'
  PROVE  calls'[r] + Cardinality(Late(r)') <= losses' + IF InForce(r)' THEN 1 ELSE 0
<1>1. Cardinality(Late(r)') <= Cardinality(Late(r)) /\ Cardinality(Late(r)') \in Nat
  BY LateFinite, FS_Subset, FS_CardinalityType
<1>2. /\ calls[r] \in Nat /\ losses \in Nat /\ losses' \in Nat
      /\ Cardinality(Late(r)) \in Nat
  BY LateFinite, LossesAssumption DEF TypeOK
<1>3. calls[r] + Cardinality(Late(r)) <= losses + IF InForce(r) THEN 1 ELSE 0
  BY DEF CallsArePaid
<1>4. CASE InForce(r)
  BY <1>1, <1>2, <1>3, <1>4
<1>5. CASE ~InForce(r)
  BY <1>1, <1>2, <1>3, <1>5
<1> QED BY <1>4, <1>5

(* The same for a step that does so for no row.                            *)
LEMMA PaidStays ==
  ASSUME CallsArePaid, TypeOK, TypeOK', calls' = calls, losses <= losses',
         \A r \in Rows : Late(r)' \subseteq Late(r) /\ (InForce(r) => InForce(r)')
  PROVE  CallsArePaid'
BY PaidForRow DEF CallsArePaid

(* A call is paid for by the loss of the worker's session if the row is    *)
(* no longer the worker's, and is the one in force otherwise.              *)
LEMMA CallIsPaid ==
  ASSUME IndInv, TypeOK', SessionWhileWorking, CallsArePaid,
         NEW w \in Workers, CallProvider(w)
  PROVE  CallsArePaid'
<1> USE DEF IndInv
<1>1. /\ pc[w] = "calling" /\ pc' = [pc EXCEPT ![w] = "called"]
      /\ UNCHANGED <<session, claimedBy, lock, ids, losses>>
      /\ \A r \in Rows : calls'[r] = IF r \in ids[w] THEN calls[r] + 1 ELSE calls[r]
  BY DEF CallProvider, Goto, server
<1>2. pc'[w] = "called" /\ \A v \in Workers \ {w} : pc'[v] = pc[v]
  BY <1>1 DEF TypeOK
<1>3. ASSUME NEW r \in Rows
      PROVE  /\ Late(r)' \subseteq Late(r) \ {w}
             /\ InForce(r) => InForce(r)'
  <2>1. Late(r)' \subseteq Late(r) \ {w}
    BY <1>1, <1>2 DEF Late
  <2>2. InForce(r) => InForce(r)'
    BY <1>1, <1>2 DEF InForce
  <2> QED BY <2>1, <2>2
<1> SUFFICES ASSUME NEW r \in Rows
             PROVE  calls'[r] + Cardinality(Late(r)')
                      <= losses' + IF InForce(r)' THEN 1 ELSE 0
  BY DEF CallsArePaid
<1>4. CASE r \notin ids[w]
  <2>1. calls'[r] = calls[r] /\ losses <= losses'
    BY <1>1, <1>4, LossesAssumption DEF TypeOK
  <2> QED BY <1>3, <2>1, PaidForRow
<1>5. /\ calls[r] \in Nat /\ losses \in Nat /\ losses' = losses
      /\ IsFiniteSet(Late(r)) /\ Cardinality(Late(r)) \in Nat
  BY <1>1, LateFinite, LossesAssumption DEF TypeOK
<1>6. IsFiniteSet(Late(r) \ {w}) /\ Cardinality(Late(r)') \in Nat
      /\ Cardinality(Late(r)') <= Cardinality(Late(r) \ {w})
      /\ Cardinality(Late(r) \ {w}) \in Nat
  <2>1. IsFiniteSet(Late(r) \ {w})
    BY <1>5, FS_Subset
  <2>2. IsFiniteSet(Late(r)') /\ Cardinality(Late(r)') <= Cardinality(Late(r) \ {w})
    BY <1>3, <2>1, FS_Subset
  <2> QED BY <2>1, <2>2, FS_CardinalityType
<1>7. calls[r] + Cardinality(Late(r)) <= losses + IF InForce(r) THEN 1 ELSE 0
  BY DEF CallsArePaid
<1>8. CASE r \in ids[w] /\ session[w] = "open"
  <2>1. lock[r] = w /\ claimedBy[r] = NoOne
    BY <1>1, <1>8 DEF HeldWhileCalling, Locked, Pending
  <2>2. ~InForce(r)
    BY <1>1, <2>1 DEF InForce
  <2>3. InForce(r)'
    BY <1>1, <1>2, <2>1 DEF InForce
  <2>4. Cardinality(Late(r) \ {w}) <= Cardinality(Late(r))
    BY <1>5, FS_Subset
  <2>5. calls'[r] = calls[r] + 1
    BY <1>1, <1>8
  <2> HIDE DEF IndInv
  <2> QED BY <2>2, <2>3, <2>4, <2>5, <1>5, <1>6, <1>7
<1>9. CASE r \in ids[w] /\ session[w] = "broken"
  <2>1. w \in Late(r)
    BY <1>1, <1>9 DEF Late
  <2>2. Cardinality(Late(r) \ {w}) = Cardinality(Late(r)) - 1
    BY <2>1, <1>5, FS_RemoveElement
  <2>3. calls'[r] = calls[r] + 1
    BY <1>1, <1>9
  <2>4. (IF InForce(r) THEN 1 ELSE 0) <= IF InForce(r)' THEN 1 ELSE 0
    BY <1>3
  <2> HIDE DEF IndInv
  <2> QED BY <2>2, <2>3, <2>4, <1>5, <1>6, <1>7
<1> QED BY <1>1, <1>4, <1>8, <1>9 DEF SessionWhileWorking

(* A lost session pays for the call that its worker has made or will make. *)
LEMMA LossPays ==
  ASSUME IndInv, TypeOK', CallsArePaid, NEW w \in Workers, LoseSession(w)
  PROVE  CallsArePaid'
<1> USE DEF IndInv
<1>1. /\ session[w] = "open" /\ losses' = losses + 1
      /\ session' = [session EXCEPT ![w] = "broken"]
      /\ UNCHANGED <<pc, ids, claimedBy, calls>>
      /\ \A r \in Rows : lock'[r] = IF lock[r] = w THEN NoOne ELSE lock[r]
  BY DEF LoseSession, Release, client
<1> SUFFICES ASSUME NEW r \in Rows
             PROVE  calls'[r] + Cardinality(Late(r)')
                      <= losses' + IF InForce(r)' THEN 1 ELSE 0
  BY DEF CallsArePaid
<1>2. /\ calls[r] \in Nat /\ losses \in Nat /\ calls'[r] = calls[r]
      /\ IsFiniteSet(Late(r)) /\ Cardinality(Late(r)) \in Nat
  BY <1>1, LateFinite, LossesAssumption DEF TypeOK
<1>3. Late(r)' \subseteq Late(r) \cup {w}
  BY <1>1 DEF Late, TypeOK
<1>4. calls[r] + Cardinality(Late(r)) <= losses + IF InForce(r) THEN 1 ELSE 0
  BY DEF CallsArePaid
<1>5. CASE lock[r] = w /\ pc[w] = "called"
  <2>1. Late(r)' \subseteq Late(r)
    BY <1>1, <1>3, <1>5 DEF Late
  <2>2. Cardinality(Late(r)') <= Cardinality(Late(r)) /\ Cardinality(Late(r)') \in Nat
    BY <1>2, <2>1, FS_Subset, FS_CardinalityType
  <2> HIDE DEF IndInv
  <2> QED BY <1>1, <1>2, <1>4, <2>2
<1>6. CASE ~(lock[r] = w /\ pc[w] = "called")
  <2>1. InForce(r) => InForce(r)'
    BY <1>1, <1>6 DEF InForce
  <2>2. Cardinality(Late(r) \cup {w}) \in {Cardinality(Late(r)), Cardinality(Late(r)) + 1}
        /\ IsFiniteSet(Late(r) \cup {w})
    BY <1>2, FS_AddElement
  <2>3. IsFiniteSet(Late(r)') /\ Cardinality(Late(r)') <= Cardinality(Late(r) \cup {w})
    BY <1>3, <2>2, FS_Subset
  <2>4. Cardinality(Late(r)') \in Nat
    BY <2>3, FS_CardinalityType
  <2>5. (IF InForce(r) THEN 1 ELSE 0) <= IF InForce(r)' THEN 1 ELSE 0
    BY <2>1
  <2> HIDE DEF IndInv
  <2> QED BY <1>1, <1>2, <1>4, <2>2, <2>3, <2>4, <2>5
<1> QED BY <1>5, <1>6

(* Every other step leaves the account as it is or lowers it.              *)
LEMMA PaidStep ==
  ASSUME IndInv, TypeOK', SessionWhileWorking, CallsArePaid, [Next]_vars
  PROVE  CallsArePaid'
<1> USE DEF IndInv
<1>1. losses <= losses + 1 /\ losses <= losses
  BY LossesAssumption DEF TypeOK
<1>2. ASSUME NEW w \in Workers, Work(w)
      PROVE  CallsArePaid'
  <2>1. CASE Connect(w) \/ CommitEmpty(w)
    <3>1. \A v \in Workers : pc'[v] \in {"calling", "called"} =>
            pc'[v] = pc[v] /\ session'[v] = session[v]
      BY <2>1 DEF Connect, CommitEmpty, Goto, TypeOK
    <3>2. \A v \in Workers : pc[v] = "called" => pc'[v] = "called"
      BY <2>1 DEF Connect, CommitEmpty, Goto, TypeOK
    <3>3. UNCHANGED <<server, ids, calls, losses>>
      BY <2>1 DEF Connect, CommitEmpty
    <3>4. \A r \in Rows : Late(r)' \subseteq Late(r) /\ (InForce(r) => InForce(r)')
      BY <3>1, <3>2, <3>3 DEF Late, InForce, server
    <3> HIDE DEF IndInv
    <3> QED BY <3>3, <3>4, <1>1, PaidStays DEF IndInv
  <2>2. CASE Execute(w) \/ ReturnClaim(w)
    <3>1. \A v \in Workers : pc'[v] \in {"calling", "called"} =>
            \/ v = w /\ session'[v] = "open"
            \/ pc'[v] = pc[v] /\ session'[v] = session[v] /\ ids'[v] = ids[v]
      BY <2>2 DEF Execute, ReturnClaim, Goto, TypeOK
    <3>2. \A v \in Workers : pc[v] = "called" => pc'[v] = "called"
      BY <2>2 DEF Execute, ReturnClaim, Goto, TypeOK
    <3>3. UNCHANGED <<claimedBy, lock, calls, losses>>
      BY <2>2 DEF Execute, ReturnClaim
    <3>4. \A r \in Rows : Late(r)' \subseteq Late(r) /\ (InForce(r) => InForce(r)')
      BY <3>1, <3>2, <3>3 DEF Late, InForce
    <3> HIDE DEF IndInv
    <3> QED BY <3>3, <3>4, <1>1, PaidStays DEF IndInv
  <2>3. CASE LockRow(w) \/ SkipClaimedRow(w)
    <3>1. UNCHANGED <<client, session, claimedBy, calls, losses>>
      BY <2>3 DEF LockRow, SkipClaimedRow
    <3>2. \A r \in Rows : lock[r] \in Workers => lock'[r] = lock[r]
      BY <2>3, WorkersAssumption DEF LockRow, SkipClaimedRow, Takes, TypeOK
    <3>3. \A r \in Rows : Late(r)' \subseteq Late(r) /\ (InForce(r) => InForce(r)')
      BY <3>1, <3>2 DEF Late, InForce, client
    <3> HIDE DEF IndInv
    <3> QED BY <3>1, <3>3, <1>1, PaidStays DEF IndInv
  <2>4. CASE CallProvider(w)
    BY <2>4, CallIsPaid
  <2>5. CASE CommitBatch(w)
    <3>1. \A r \in Rows : claimedBy'[r] = IF lock[r] = w THEN w ELSE claimedBy[r]
      BY <2>5 DEF CommitBatch, CommitClaim
    <3>2. \A r \in Rows : lock'[r] = IF lock[r] = w THEN NoOne ELSE lock[r]
      BY <2>5 DEF CommitBatch, CommitClaim, Release
    <3>3. \A v \in Workers : v = w \/ /\ pc'[v] = pc[v] /\ session'[v] = session[v]
                                      /\ ids'[v] = ids[v]
      BY <2>5 DEF CommitBatch, Goto, TypeOK
    <3>4. pc'[w] = "loop" /\ UNCHANGED <<calls, losses>>
      BY <2>5 DEF CommitBatch, Goto, TypeOK
    <3>5. \A r \in Rows : Late(r)' \subseteq Late(r)
      BY <3>3, <3>4 DEF Late
    <3>6. ASSUME NEW r \in Rows, InForce(r) PROVE InForce(r)'
      <4>1. CASE claimedBy[r] # NoOne \/ lock[r] = w
        BY <3>1, <4>1, WorkersAssumption DEF InForce
      <4>2. CASE \E v \in Workers : lock[r] = v /\ pc[v] = "called" /\ v # w
        BY <3>2, <3>3, <4>2 DEF InForce
      <4> QED BY <3>6, <4>1, <4>2 DEF InForce
    <3> HIDE DEF IndInv
    <3> QED BY <3>4, <3>5, <3>6, <1>1, PaidStays DEF IndInv
  <2>6. CASE Raise(w)
    <3>1. /\ session[w] = "broken" /\ pc'[w] = "failed"
          /\ UNCHANGED <<server, ids, calls, losses>>
      BY <2>6 DEF Raise, Die, Goto, TypeOK
    <3>2. \A v \in Workers : v # w => pc'[v] = pc[v] /\ session'[v] = session[v]
      BY ONLY Raise(w), TypeOK DEF Raise, Die, Goto, TypeOK
    <3>3. \A r \in Rows : Late(r)' \subseteq Late(r)
      BY <3>1, <3>2 DEF Late
    <3>4. \A r \in Rows : InForce(r) => InForce(r)'
      BY <3>1, <3>2 DEF InForce, LocksAreLive, server
    <3> HIDE DEF IndInv
    <3> QED BY <3>1, <3>3, <3>4, <1>1, PaidStays DEF IndInv
  <2> QED BY <1>2, <2>1, <2>2, <2>3, <2>4, <2>5, <2>6 DEF Work
<1>3. ASSUME NEW w \in Workers, Disturb(w)
      PROVE  CallsArePaid'
  <2>1. CASE ConnectFails(w)
    <3>1. /\ pc[w] = "start" /\ pc'[w] = "failed" /\ losses' = losses + 1
          /\ UNCHANGED <<session, server, ids, calls>>
      BY <2>1 DEF ConnectFails, Goto, TypeOK
    <3>2. \A v \in Workers : v = w \/ pc'[v] = pc[v]
      BY <2>1 DEF ConnectFails, Goto, TypeOK
    <3>3. \A r \in Rows : Late(r)' \subseteq Late(r) /\ (InForce(r) => InForce(r)')
      BY <3>1, <3>2 DEF Late, InForce, server
    <3> HIDE DEF IndInv
    <3> QED BY <3>1, <3>3, <1>1, PaidStays DEF IndInv
  <2>2. CASE CommitUnacknowledged(w)
    <3>1. \A r \in Rows : claimedBy'[r] = IF lock[r] = w THEN w ELSE claimedBy[r]
      BY <2>2 DEF CommitUnacknowledged, CommitClaim
    <3>2. \A r \in Rows : lock'[r] = IF lock[r] = w THEN NoOne ELSE lock[r]
      BY <2>2 DEF CommitUnacknowledged, CommitClaim, Release
    <3>3. \A v \in Workers : v # w => pc'[v] = pc[v] /\ session'[v] = session[v]
      BY ONLY CommitUnacknowledged(w), TypeOK DEF CommitUnacknowledged, Die, Goto, TypeOK
    <3>4. pc'[w] = "failed" /\ losses' = losses + 1 /\ UNCHANGED <<ids, calls>>
      BY <2>2 DEF CommitUnacknowledged, Die, Goto, TypeOK
    <3>5. \A r \in Rows : Late(r)' \subseteq Late(r)
      BY <3>3, <3>4 DEF Late
    <3>6. ASSUME NEW r \in Rows, InForce(r) PROVE InForce(r)'
      <4>1. CASE claimedBy[r] # NoOne \/ lock[r] = w
        BY <3>1, <4>1, WorkersAssumption DEF InForce
      <4>2. CASE \E v \in Workers : lock[r] = v /\ pc[v] = "called" /\ v # w
        BY <3>2, <3>3, <4>2 DEF InForce
      <4> QED BY <3>6, <4>1, <4>2 DEF InForce
    <3> HIDE DEF IndInv
    <3> QED BY <3>4, <3>5, <3>6, <1>1, PaidStays DEF IndInv
  <2>3. CASE LoseSession(w)
    BY <2>3, LossPays
  <2> QED BY <1>3, <2>1, <2>2, <2>3 DEF Disturb
<1>4. CASE MonitorPoll \/ Join \/ UNCHANGED vars
  <2>1. UNCHANGED <<pc, session, claimedBy, lock, ids, calls, losses>>
    BY <1>4 DEF MonitorPoll, Join, vars, client, server
  <2>2. \A r \in Rows : Late(r)' \subseteq Late(r) /\ (InForce(r) => InForce(r)')
    BY <2>1 DEF Late, InForce
  <2> HIDE DEF IndInv
  <2> QED BY <2>1, <2>2, <1>1, PaidStays DEF IndInv
<1> QED BY <1>2, <1>3, <1>4 DEF Next, Returned

(* A worker has a session from connecting to its end.                      *)
LEMMA SessionStep ==
  ASSUME TypeOK, SessionWhileWorking, [Next]_vars
  PROVE  SessionWhileWorking'
<1> USE DEF TypeOK, SessionWhileWorking
<1>1. ASSUME NEW w \in Workers, Work(w)
      PROVE  SessionWhileWorking'
  <2>1. CASE Connect(w) \/ CommitEmpty(w)
    BY <2>1 DEF Connect, CommitEmpty, Goto
  <2>2. CASE Execute(w) \/ ReturnClaim(w)
    BY <2>2 DEF Execute, ReturnClaim, Goto
  <2>3. CASE LockRow(w) \/ SkipClaimedRow(w)
    BY <2>3 DEF LockRow, SkipClaimedRow, client
  <2>4. CASE CallProvider(w) \/ CommitBatch(w)
    BY <2>4 DEF CallProvider, CommitBatch, AtCommit, Goto
  <2>5. CASE Raise(w)
    BY <2>5 DEF Raise, Die, Goto
  <2> QED BY <1>1, <2>1, <2>2, <2>3, <2>4, <2>5 DEF Work
<1>2. ASSUME NEW w \in Workers, Disturb(w)
      PROVE  SessionWhileWorking'
  <2>1. CASE ConnectFails(w) \/ CommitUnacknowledged(w)
    BY <2>1 DEF ConnectFails, CommitUnacknowledged, Die, Goto
  <2>2. CASE LoseSession(w)
    BY <2>2 DEF LoseSession, client
  <2> QED BY <1>2, <2>1, <2>2 DEF Disturb
<1>3. CASE MonitorPoll \/ Join \/ UNCHANGED vars
  BY <1>3 DEF MonitorPoll, Join, vars, client
<1> QED BY <1>1, <1>2, <1>3 DEF Next, Returned

(* A commit enters what it claims into the worker's list, unless the       *)
(* worker dies with it.                                                    *)
LEMMA RecordedStep ==
  ASSUME IndInv, ClaimedIsRecorded, [Next]_vars
  PROVE  ClaimedIsRecorded'
<1>1. TypeOK /\ HeldWhileCalling /\ WorkersAssumption
  BY WorkersAssumption DEF IndInv, WorkersAssumption
<1>2. ASSUME UNCHANGED <<claimedBy, claimedIds>>,
             \A w \in Workers : pc[w] = "failed" => pc'[w] = "failed"
      PROVE  ClaimedIsRecorded'
  BY <1>2 DEF ClaimedIsRecorded
<1>3. ASSUME NEW w \in Workers, Work(w)
      PROVE  ClaimedIsRecorded'
  <2>1. CASE Connect(w) \/ Execute(w) \/ ReturnClaim(w)
    BY <1>1, <1>2, <2>1 DEF Connect, Execute, ReturnClaim, Goto, TypeOK, server
  <2>2. CASE LockRow(w) \/ SkipClaimedRow(w)
    BY <1>2, <2>2 DEF LockRow, SkipClaimedRow, client
  <2>3. CASE CallProvider(w) \/ CommitEmpty(w)
    BY <1>1, <1>2, <2>3 DEF CallProvider, CommitEmpty, Goto, TypeOK, server
  <2>4. CASE Raise(w)
    BY <1>1, <1>2, <2>4 DEF Raise, Die, Goto, TypeOK, server
  <2>5. CASE CommitBatch(w)
    <3>1. \A r \in Rows : claimedBy'[r] = IF lock[r] = w THEN w ELSE claimedBy[r]
      BY <2>5 DEF CommitBatch, CommitClaim
    <3>2. \A v \in Workers : v # w => pc'[v] = pc[v] /\ claimedIds'[v] = claimedIds[v]
      BY <1>1, <2>5 DEF CommitBatch, Goto, TypeOK
    <3>3. pc[w] = "called" /\ claimedIds'[w] = Append(claimedIds[w], ids[w])
          /\ ids[w] = Locked(w)
      BY <1>1, <2>5 DEF CommitBatch, AtCommit, TypeOK, HeldWhileCalling
    <3>4. claimedIds[w] \in Seq(SUBSET Rows) /\ ids[w] \in SUBSET Rows
      BY <1>1 DEF TypeOK
    <3>5. /\ Len(claimedIds[w]) + 1 \in DOMAIN claimedIds'[w]
          /\ claimedIds'[w][Len(claimedIds[w]) + 1] = ids[w]
          /\ \A i \in DOMAIN claimedIds[w] :
                i \in DOMAIN claimedIds'[w] /\ claimedIds'[w][i] = claimedIds[w][i]
      BY <3>3, <3>4
    <3> SUFFICES ASSUME NEW v \in Workers, NEW r \in Rows,
                        claimedBy'[r] = v, pc'[v] # "failed"
                 PROVE  \E i \in DOMAIN claimedIds'[v] : r \in claimedIds'[v][i]
      BY DEF ClaimedIsRecorded
    <3>6. CASE lock[r] = w
      <4>1. v = w /\ r \in ids[w]
        BY <3>1, <3>3, <3>6 DEF Locked
      <4> QED BY <3>5, <4>1
    <3>7. CASE lock[r] # w
      <4>1. claimedBy[r] = v /\ pc[v] # "failed"
        BY <3>1, <3>2, <3>3, <3>7
      <4>2. PICK i \in DOMAIN claimedIds[v] : r \in claimedIds[v][i]
        BY <4>1 DEF ClaimedIsRecorded
      <4> QED BY <3>2, <3>5, <4>2
    <3> QED BY <3>6, <3>7
  <2> QED BY <1>3, <2>1, <2>2, <2>3, <2>4, <2>5 DEF Work
<1>4. ASSUME NEW w \in Workers, Disturb(w)
      PROVE  ClaimedIsRecorded'
  <2>1. CASE ConnectFails(w)
    BY <1>1, <1>2, <2>1 DEF ConnectFails, Goto, TypeOK, server
  <2>2. CASE LoseSession(w)
    BY <1>2, <2>2 DEF LoseSession, client
  <2>3. CASE CommitUnacknowledged(w)
    <3>1. \A r \in Rows : claimedBy'[r] = IF lock[r] = w THEN w ELSE claimedBy[r]
      BY <2>3 DEF CommitUnacknowledged, CommitClaim
    <3>2. /\ pc'[w] = "failed" /\ claimedIds' = claimedIds
          /\ \A v \in Workers : v # w => pc'[v] = pc[v]
      BY <1>1, <2>3 DEF CommitUnacknowledged, Die, Goto, TypeOK
    <3> QED BY <3>1, <3>2 DEF ClaimedIsRecorded
  <2> QED BY <1>4, <2>1, <2>2, <2>3 DEF Disturb
<1>5. CASE MonitorPoll \/ Join \/ UNCHANGED vars
  BY <1>2, <1>5 DEF MonitorPoll, Join, vars, client, server
<1> QED BY <1>3, <1>4, <1>5 DEF Next, Returned

(* Nothing a worker does concerns the monitor or the report, and a worker  *)
(* that has ended stays where it is.                                       *)
LEMMA WorkersEnd ==
  ASSUME TypeOK, [Next]_vars
  PROVE  /\ \A w \in Workers : Ended(w) => pc'[w] = pc[w]
         /\ MonitorPoll \/ Join \/ UNCHANGED <<maxWaiters, report>>
<1> USE DEF TypeOK, Ended
<1>1. ASSUME NEW w \in Workers, Work(w)
      PROVE  /\ \A v \in Workers : Ended(v) => pc'[v] = pc[v]
             /\ UNCHANGED <<maxWaiters, report>>
  BY <1>1 DEF Work, Connect, Execute, LockRow, SkipClaimedRow, ReturnClaim,
     CallProvider, CommitBatch, AtCommit, CommitEmpty, Raise, Die, Goto, client
<1>2. ASSUME NEW w \in Workers, Disturb(w)
      PROVE  /\ \A v \in Workers : Ended(v) => pc'[v] = pc[v]
             /\ UNCHANGED <<maxWaiters, report>>
  BY <1>2 DEF Disturb, ConnectFails, CommitUnacknowledged, AtCommit, LoseSession,
     Die, Goto, client
<1>3. CASE MonitorPoll \/ Join \/ UNCHANGED vars
  BY <1>3 DEF MonitorPoll, Join, vars, client
<1> QED BY <1>1, <1>2, <1>3 DEF Next, Returned

(* The monitor cannot count all workers.                                   *)
LEMMA MonitorStep ==
  ASSUME IndInv, SomeoneRuns, [Next]_vars
  PROVE  SomeoneRuns'
<1>1. CASE MonitorPoll
  BY <1>1, NotAllWait DEF MonitorPoll, SomeoneRuns
<1>2. CASE Join
  BY <1>2 DEF Join, SomeoneRuns
<1> QED BY <1>1, <1>2, WorkersEnd DEF IndInv, SomeoneRuns

(* The batches in which drain sees a row all belong to one claim.          *)
LEMMA SeenOnce ==
  ASSUME NoDuplicateClaims, NEW r \in Rows
  PROVE  ~(Cardinality(Seen(r)) > 1)
<1>1. \A b, c \in Seen(r) : b = c
  <2> SUFFICES ASSUME NEW b \in Seen(r), NEW c \in Seen(r) PROVE b = c
    OBVIOUS
  <2>1. PICK w \in Workers : b \in {w} \X DOMAIN claimedIds[w] /\ r \in claimedIds[b[1]][b[2]]
    BY DEF Seen
  <2>2. PICK v \in Workers : c \in {v} \X DOMAIN claimedIds[v] /\ r \in claimedIds[c[1]][c[2]]
    BY DEF Seen
  <2>3. b = <<b[1], b[2]>> /\ b[1] = w /\ b[2] \in DOMAIN claimedIds[w]
    BY <2>1
  <2>4. c = <<c[1], c[2]>> /\ c[1] = v /\ c[2] \in DOMAIN claimedIds[v]
    BY <2>2
  <2>5. b[1] = c[1] /\ b[2] = c[2]
    BY <2>1, <2>2, <2>3, <2>4 DEF NoDuplicateClaims
  <2> QED BY <2>3, <2>4, <2>5
<1>2. CASE Seen(r) = {}
  BY <1>2, FS_EmptySet
<1>3. CASE Seen(r) # {}
  <2>1. PICK b \in Seen(r) : TRUE
    BY <1>3
  <2>2. Seen(r) = {b}
    BY <1>1, <2>1
  <2>3. Cardinality({b}) = 1
    BY FS_Singleton
  <2> QED BY <2>2, <2>3
<1> QED BY <1>2, <1>3

(* The report is sound when it is made, and stays so.                      *)
LEMMA ReportStep ==
  ASSUME IndInv, ClaimedIsRecorded, SomeoneRuns', ReportIsLast, ReportIsSound, [Next]_vars
  PROVE  ReportIsLast' /\ ReportIsSound'
<1> USE DEF IndInv
<1>1. CASE Join
  <2>1. /\ UNCHANGED <<pc, claimedBy, claimedIds, maxWaiters>>
        /\ \A w \in Workers : Ended(w)
    BY <1>1 DEF Join, client, server
  <2>2. /\ report'.duplicates = {r \in Rows : Cardinality(Seen(r)) > 1}
        /\ report'.unique = {r \in Rows : Seen(r) # {}}
        /\ report'.pending = Pending
    BY <1>1 DEF Join
  <2>3. report'.duplicates = {}
    BY <2>2, SeenOnce
  <2>4. report'.unique \subseteq Rows \ report'.pending
    <3> SUFFICES ASSUME NEW r \in Rows, Seen(r) # {} PROVE claimedBy[r] # NoOne
      BY <2>2 DEF Pending
    <3>1. PICK w \in Workers : \E i \in DOMAIN claimedIds[w] : r \in claimedIds[w][i]
      <4>1. PICK b \in Seen(r) : TRUE
        OBVIOUS
      <4>2. PICK w \in Workers : b \in {w} \X DOMAIN claimedIds[w] /\ r \in claimedIds[b[1]][b[2]]
        BY <4>1 DEF Seen
      <4> QED BY <4>2
    <3> QED BY <3>1, WorkersAssumption DEF RecordedIsCommitted
  <2>5. report'.pending # {} => \A w \in Workers : pc'[w] = "failed"
    BY <2>1, <2>2 DEF EmptyMeansDrained, Ended
  <2>6. ASSUME Workers # {}, \A w \in Workers : pc'[w] = "done"
        PROVE  report'.unique = Rows
    <3>1. Pending = {} /\ \A w \in Workers : pc[w] = "done"
      BY <2>1, <2>6 DEF EmptyMeansDrained
    <3> SUFFICES ASSUME NEW r \in Rows PROVE Seen(r) # {}
      BY <2>2
    <3>2. PICK w \in Workers : claimedBy[r] = w
      BY <3>1 DEF Pending, TypeOK
    <3>3. PICK i \in DOMAIN claimedIds[w] : r \in claimedIds[w][i]
      BY <3>1, <3>2 DEF ClaimedIsRecorded
    <3>4. <<w, i>> \in UNION {{v} \X DOMAIN claimedIds[v] : v \in Workers}
      BY <3>3
    <3>5. <<w, i>> \in Seen(r)
      BY <3>1, <3>3, <3>4 DEF Seen
    <3> QED BY <3>5
  <2>7. ReportIsSound'
    BY <2>3, <2>4, <2>5, <2>6 DEF ReportIsSound, SomeoneRuns
  <2> QED BY <2>1, <2>7 DEF ReportIsLast, Ended
<1>2. CASE MonitorPoll
  BY <1>2 DEF MonitorPoll, ReportIsLast, ReportIsSound
<1>3. CASE ~Join /\ ~MonitorPoll
  <2>1. UNCHANGED <<maxWaiters, report>>
        /\ \A w \in Workers : Ended(w) => pc'[w] = pc[w]
    BY <1>3, WorkersEnd
  <2>2. ReportIsLast'
    BY <2>1 DEF ReportIsLast, Ended
  <2>3. ReportIsSound'
    BY <2>1 DEF ReportIsLast, ReportIsSound
  <2> QED BY <2>2, <2>3
<1> QED BY <1>1, <1>2, <1>3

(* The invariant of the whole drain holds initially.                       *)
LEMMA DrainInvInit == Init => DrainInv
<1> SUFFICES ASSUME Init PROVE DrainInv
  OBVIOUS
<1>1. IndInv
  BY IndInvInit
<1>2. SessionWhileWorking /\ ClaimedIsRecorded /\ ReportIsLast /\ ReportIsSound
  BY WorkersAssumption
  DEF Init, SessionWhileWorking, ClaimedIsRecorded, ReportIsLast, ReportIsSound
<1>3. CallsArePaid
  <2> SUFFICES ASSUME NEW r \in Rows
               PROVE  calls[r] + Cardinality(Late(r)) <= losses + IF InForce(r) THEN 1 ELSE 0
    BY DEF CallsArePaid
  <2>1. Late(r) = {} /\ ~InForce(r) /\ calls[r] = 0 /\ losses = 0
    BY DEF Init, Late, InForce
  <2> QED BY <2>1, FS_EmptySet
<1>4. SomeoneRuns
  <2> SUFFICES ASSUME Workers # {} PROVE 0 < Cardinality(Workers)
    BY DEF Init, SomeoneRuns
  <2> QED BY WorkersAssumption, FS_EmptySet, FS_CardinalityType
<1> QED BY <1>1, <1>2, <1>3, <1>4 DEF DrainInv

(* Each step of the drain preserves it.                                    *)
LEMMA DrainInvStep == DrainInv /\ [Next]_vars => DrainInv'
<1> SUFFICES ASSUME DrainInv, [Next]_vars PROVE DrainInv'
  OBVIOUS
<1> USE DEF DrainInv
<1>1. IndInv' /\ TypeOK /\ TypeOK'
  BY IndInvStep DEF IndInv
<1>2. SessionWhileWorking'
  BY <1>1, SessionStep
<1>3. CallsArePaid'
  BY <1>1, PaidStep
<1>4. ClaimedIsRecorded'
  BY RecordedStep
<1>5. SomeoneRuns'
  BY MonitorStep
<1>6. ReportIsLast' /\ ReportIsSound'
  BY <1>5, ReportStep
<1> QED BY <1>1, <1>2, <1>3, <1>4, <1>5, <1>6

(* The invariant of the drain: sessions, what calls cost, what is          *)
(* recorded, and the report.                                               *)
THEOREM DrainInvariance == Spec => []DrainInv
  BY DrainInvInit, DrainInvStep, PTL DEF Spec

(* A provider call for a row is repeated only for a session that was lost. *)
THEOREM RepeatedCalls == Spec => []RepeatedCallsArePaid
<1>1. DrainInv => RepeatedCallsArePaid
  <2> SUFFICES ASSUME DrainInv, NEW r \in Rows PROVE calls[r] <= 1 + losses
    BY DEF RepeatedCallsArePaid
  <2>1. calls[r] + Cardinality(Late(r)) <= losses + IF InForce(r) THEN 1 ELSE 0
    BY DEF DrainInv, CallsArePaid
  <2>2. calls[r] \in Nat /\ losses \in Nat /\ Cardinality(Late(r)) \in Nat
    BY LateFinite, LossesAssumption DEF DrainInv, IndInv, TypeOK
  <2> QED BY <2>1, <2>2
<1> QED BY <1>1, DrainInvariance, PTL

(* What drain and coverage_counts return is true of the table and of the   *)
(* workers, whatever sessions were lost.                                   *)
THEOREM SoundReport == Spec => []ReportIsSound
<1>1. DrainInv => ReportIsSound
  BY DEF DrainInv
<1> QED BY <1>1, DrainInvariance, PTL

-----------------------------------------------------------------------------
(* Only the steps named here change what the contract sees of a worker.    *)
LEMMA LifeOfOthers ==
  ASSUME TypeOK, NEW w \in Workers, NEW step \in Steps, Goto(w, step)
  PROVE  /\ \A v \in Workers : pc'[v] = IF v = w THEN step ELSE pc[v]
         /\ [v \in Workers |-> Life(v)]' =
              [v \in Workers |-> IF v = w
                                 THEN CASE step \in {"empty", "done"} -> "retired"
                                        [] step = "failed"            -> "failed"
                                        [] OTHER                      -> "working"
                                 ELSE Life(v)]
  <1>1. \A v \in Workers : pc'[v] = IF v = w THEN step ELSE pc[v]
    BY DEF Goto, TypeOK
  <1> QED
    BY <1>1 DEF Life

LEMMA LifeAtEnd ==
  ASSUME TypeOK, NEW w \in Workers, NEW step \in {"empty", "failed"}, Goto(w, step)
  PROVE  [v \in Workers |-> Life(v)]' =
           [[v \in Workers |-> Life(v)] EXCEPT
              ![w] = IF step = "empty" THEN "retired" ELSE "failed"]
  <1>1. step \in Steps
    BY DEF Steps
  <1>2. [v \in Workers |-> Life(v)]' =
          [v \in Workers |-> IF v = w THEN IF step = "empty" THEN "retired" ELSE "failed"
                                      ELSE Life(v)]
    BY ONLY TypeOK, w \in Workers, step \in {"empty", "failed"}, Goto(w, step), <1>1,
            LifeOfOthers
  <1> QED
    BY <1>2

(* Going on to a step of the same life changes nothing the contract sees.  *)
LEMMA LifeGoesOn ==
  ASSUME TypeOK, NEW w \in Workers, NEW step \in Steps, Goto(w, step),
         \/ /\ Life(w) = "working"
            /\ step \in {"loop", "locking", "calling", "called"}
         \/ Life(w) = "retired" /\ step = "done"
  PROVE  [v \in Workers |-> Life(v)]' = [v \in Workers |-> Life(v)]
  <1>1. [v \in Workers |-> Life(v)]' =
          [v \in Workers |-> IF v = w THEN IF step = "done" THEN "retired" ELSE "working"
                                      ELSE Life(v)]
    BY LifeOfOthers
  <1> QED
    BY ONLY <1>1, \/ /\ Life(w) = "working"
                     /\ step \in {"loop", "locking", "calling", "called"}
                  \/ Life(w) = "retired" /\ step = "done"

(* Going on to a step of the same phase is a stutter of the contract, and  *)
(* dying is a failure in it.                                               *)
LEMMA GotoSamePhase ==
  ASSUME TypeOK, NEW w \in Workers, claimedBy' = claimedBy,
         \/ pc[w] \in {"start", "loop", "locking", "calling", "called"}
            /\ \E step \in {"loop", "locking", "calling", "called"} : Goto(w, step)
         \/ pc[w] = "empty" /\ Goto(w, "done")
         \/ pc[w] # "failed" /\ Goto(w, "failed")
  PROVE  [Contract!Next]_(Contract!avars)
  <1> DEFINE life == [v \in Workers |-> Life(v)]
  <1>1. CASE \/ pc[w] \in {"start", "loop", "locking", "calling", "called"}
                /\ \E step \in {"loop", "locking", "calling", "called"} : Goto(w, step)
             \/ pc[w] = "empty" /\ Goto(w, "done")
    <2>1. PICK step \in Steps : Goto(w, step) /\
            \/ pc[w] \in {"start", "loop", "locking", "calling", "called"}
               /\ step \in {"loop", "locking", "calling", "called"}
            \/ pc[w] = "empty" /\ step = "done"
      BY <1>1 DEF Steps
    <2>2. life' = life
      BY <2>1, LifeGoesOn DEF Life
    <2> QED
      BY <2>2 DEF Contract!avars
  <1>2. CASE pc[w] # "failed" /\ Goto(w, "failed")
    <2>1. life' = [life EXCEPT ![w] = "failed"]
      BY ONLY TypeOK, w \in Workers, <1>2, LifeAtEnd
    <2>2. life[w] # "failed"
      BY <1>2 DEF Life
    <2>3. Contract!Fail(w)
      BY <2>1, <2>2 DEF Contract!Fail
    <2> QED
      BY <2>3 DEF Contract!Next
  <1> QED
    BY <1>1, <1>2

(* A commit claims in the contract the rows the transaction holds.         *)
LEMMA CommitIsClaim ==
  ASSUME IndInv, NEW w \in Workers, pc[w] = "called", session[w] = "open",
         CommitClaim(w), Goto(w, "loop") \/ Goto(w, "failed")
  PROVE  [Contract!Next]_(Contract!avars)
  <1> DEFINE life == [v \in Workers |-> Life(v)]
  <1> USE DEF IndInv
  <1>1. life[w] = "working"
    BY DEF Life
  <1>2. life' = life \/ life' = [life EXCEPT ![w] = "failed"]
    <2>1. CASE Goto(w, "loop")
      BY <1>1, <2>1, LifeGoesOn DEF Steps
    <2>2. CASE Goto(w, "failed")
      BY ONLY TypeOK, w \in Workers, <2>2, LifeAtEnd
    <2> QED
      BY <2>1, <2>2
  <1>3. claimedBy' = [r \in Rows |-> IF r \in Locked(w) THEN w ELSE claimedBy[r]]
    BY DEF CommitClaim, Locked
  <1>4. CASE Locked(w) = {}
    <2>1. claimedBy' = claimedBy
      BY <1>3, <1>4 DEF TypeOK
    <2> QED
      BY <2>1, GotoSamePhase
  <1>5. CASE Locked(w) # {}
    <2>1. Locked(w) \subseteq Contract!Unowned /\ Locked(w) \in SUBSET Rows
      BY DEF Contract!Unowned, LocksAreLive, Locked
    <2>2. Cardinality(Locked(w)) <= BatchSize
      BY DEF WithinLimit
    <2>3. Contract!Claim(w)
      BY <1>1, <1>2, <1>3, <1>5, <2>1, <2>2 DEF Contract!Claim
    <2> QED
      BY <2>3 DEF Contract!Next
  <1> QED
    BY <1>4, <1>5

(* An empty claim is the retirement of its worker.                         *)
LEMMA ReturnIsRetire ==
  ASSUME IndInv, NEW w \in Workers, ReturnClaim(w)
  PROVE  [Contract!Next]_(Contract!avars)
  <1> DEFINE life == [v \in Workers |-> Life(v)]
  <1> USE DEF IndInv
  <1>1. CASE Locked(w) # {}
    BY <1>1, GotoSamePhase DEF ReturnClaim
  <1>2. CASE Locked(w) = {}
    <2>1. Contract!Unowned = {}
      BY <1>2, FullIsNotEmpty
      DEF NothingPassedOver, Pending, Contract!Unowned, ReturnClaim
    <2>2. Goto(w, "empty") /\ UNCHANGED claimedBy
      BY <1>2 DEF ReturnClaim
    <2>3. life' = [life EXCEPT ![w] = "retired"]
      BY ONLY TypeOK, <2>2, w \in Workers, LifeAtEnd
    <2>4. life[w] = "working"
      BY DEF Life, ReturnClaim
    <2>5. Contract!Retire(w)
      BY <2>1, <2>2, <2>3, <2>4 DEF Contract!Retire
    <2> QED
      BY <2>5 DEF Contract!Next
  <1> QED
    BY <1>1, <1>2

(* Every step of the queue is a step or a stutter of the contract.         *)
LEMMA RefinementStep ==
  ASSUME IndInv, [Next]_vars
  PROVE  [Contract!Next]_(Contract!avars)
  <1> USE DEF IndInv
  <1>1. ASSUME UNCHANGED <<pc, claimedBy>>
        PROVE  [Contract!Next]_(Contract!avars)
    BY <1>1 DEF Contract!avars, Life
  <1>2. ASSUME NEW w \in Workers, Work(w)
        PROVE  [Contract!Next]_(Contract!avars)
    <2>1. CASE Connect(w) \/ Execute(w) \/ CallProvider(w)
      BY <2>1, GotoSamePhase DEF Connect, Execute, CallProvider, server
    <2>2. CASE LockRow(w) \/ SkipClaimedRow(w)
      BY <2>2, <1>1 DEF LockRow, SkipClaimedRow, client
    <2>3. CASE ReturnClaim(w)
      BY <2>3, ReturnIsRetire
    <2>4. CASE CommitBatch(w)
      BY <2>4, CommitIsClaim DEF CommitBatch, AtCommit
    <2>5. CASE CommitEmpty(w)
      BY <2>5, GotoSamePhase DEF CommitEmpty, server
    <2>6. CASE Raise(w)
      BY <2>6, GotoSamePhase DEF Raise, Die, server
    <2> QED
      BY <1>2, <2>1, <2>2, <2>3, <2>4, <2>5, <2>6 DEF Work
  <1>3. ASSUME NEW w \in Workers, Disturb(w)
        PROVE  [Contract!Next]_(Contract!avars)
    <2>1. CASE ConnectFails(w)
      BY <2>1, GotoSamePhase DEF ConnectFails, server
    <2>2. CASE CommitUnacknowledged(w)
      BY <2>2, CommitIsClaim DEF CommitUnacknowledged, AtCommit, Die
    <2>3. CASE LoseSession(w)
      BY <2>3, <1>1 DEF LoseSession, client
    <2> QED
      BY <1>3, <2>1, <2>2, <2>3 DEF Disturb
  <1>4. CASE MonitorPoll \/ Join \/ UNCHANGED vars
    BY <1>4, <1>1 DEF MonitorPoll, Join, vars, client, server
  <1> QED
    BY <1>2, <1>3, <1>4 DEF Next, Returned

(* The claim queue implements its contract: whatever interleaving of       *)
(* snapshots, lock waits, commits and lost sessions, an operator sees      *)
(* batches of free rows being claimed for good, and workers retiring when  *)
(* no row is left.                                                         *)
THEOREM Refinement == Spec => ImplementsContract
  <1>1. Init => Contract!Init
    BY DEF Init, Contract!Init, Life
  <1>2. IndInv /\ [Next]_vars => [Contract!Next]_(Contract!avars)
    BY RefinementStep
  <1> QED
    BY <1>1, <1>2, Invariance, PTL DEF Spec, ImplementsContract, Contract!Spec

(* The contract gives what the operator relies on: a claim is final, and   *)
(* workers that have retired leave nothing behind.                         *)
THEOREM ClaimContractSuffices ==
  ImplementsContract => ClaimIsFinal /\ []EmptyMeansDrained
  <1> DEFINE Settled == \A w \in Workers : Life(w) = "retired" => Contract!Unowned = {}
  <1>1. Contract!Unowned = Pending
    BY DEF Contract!Unowned, Pending
  <1>2. Settled => EmptyMeansDrained
    BY <1>1 DEF EmptyMeansDrained, Life
  <1>3. Contract!Init => Settled
    <2>1. ASSUME Contract!Init, NEW w \in Workers PROVE Life(w) = "working"
      <3>1. [v \in Workers |-> Life(v)][w] = [v \in Workers |-> "working"][w]
        BY <2>1 DEF Contract!Init
      <3> QED BY <3>1
    <2> QED BY <2>1
  <1>4. ASSUME [Contract!Next]_(Contract!avars)
        PROVE  \A r \in Rows : claimedBy[r] # NoOne => claimedBy'[r] = claimedBy[r]
    <2>1. CASE UNCHANGED Contract!avars
      BY <2>1 DEF Contract!avars
    <2>2. ASSUME NEW w \in Workers, Contract!Claim(w)
          PROVE  \A r \in Rows : claimedBy[r] # NoOne => claimedBy'[r] = claimedBy[r]
      BY <2>2 DEF Contract!Claim, Contract!Unowned
    <2>3. ASSUME NEW w \in Workers, Contract!Retire(w) \/ Contract!Fail(w)
          PROVE  UNCHANGED claimedBy
      BY <2>3 DEF Contract!Retire, Contract!Fail
    <2> QED BY <1>4, <2>1, <2>2, <2>3 DEF Contract!Next
  <1>5. Settled /\ [Contract!Next]_(Contract!avars) => Settled'
    <2> SUFFICES ASSUME Settled, [Contract!Next]_(Contract!avars),
                        NEW v \in Workers, Life(v)' = "retired"
                 PROVE  (Contract!Unowned)' = {}
      OBVIOUS
    <2>1. (Contract!Unowned)' \subseteq Contract!Unowned
      BY <1>4 DEF Contract!Unowned
    <2>2. Life(v) = "retired" \/ Contract!Unowned = {}
      <3> DEFINE life == [w \in Workers |-> Life(w)]
      <3>1. life[v] = Life(v) /\ life'[v] = "retired"
        OBVIOUS
      <3>2. CASE UNCHANGED Contract!avars
        BY <3>1, <3>2 DEF Contract!avars
      <3>3. ASSUME NEW w \in Workers, Contract!Claim(w) \/ Contract!Fail(w)
            PROVE  Life(v) = "retired"
        <4>1. life' = life \/ life' = [life EXCEPT ![w] = "failed"]
          BY <3>3 DEF Contract!Claim, Contract!Fail
        <4> HIDE DEF life
        <4> QED BY <3>1, <4>1 DEF life
      <3>4. ASSUME NEW w \in Workers, Contract!Retire(w) PROVE Contract!Unowned = {}
        BY <3>4 DEF Contract!Retire
      <3> QED BY <3>2, <3>3, <3>4 DEF Contract!Next
    <2> QED BY <2>1, <2>2
  <1> HIDE DEF Settled
  <1>6. [Contract!Next]_(Contract!avars)
          => [\A r \in Rows : claimedBy[r] # NoOne => claimedBy'[r] = claimedBy[r]]_vars
    BY <1>4
  <1> QED
    BY <1>2, <1>3, <1>5, <1>6, PTL DEF ImplementsContract, Contract!Spec, ClaimIsFinal

=============================================================================
