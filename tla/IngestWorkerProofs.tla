-------------------------- MODULE IngestWorkerProofs ---------------------------
(* Proofs about IngestWorker: the statistics account for every record, for *)
(* any number of consumers and any number of records.                      *)
EXTENDS IngestWorker, FiniteSetTheorems, TLAPS

LEMMA SubsetsAreFinite ==
  /\ IsFiniteSet(Working) /\ Cardinality(Working) \in Nat
  /\ IsFiniteSet(Ended) /\ Cardinality(Ended) \in Nat
  /\ Concurrency \in Nat \ {0}
<1>1. Working \subseteq Consumers /\ Ended \subseteq Consumers
  BY DEF Working, Ended
<1>2. IsFiniteSet(Working) /\ IsFiniteSet(Ended)
  BY <1>1, FS_Subset, ConsumersAssumption
<1>3. Concurrency # 0
  BY FS_EmptySet, ConsumersAssumption DEF Concurrency
<1> QED BY <1>2, <1>3, FS_CardinalityType, ConsumersAssumption DEF Concurrency

LEMMA WorkerInit == ASSUME Init PROVE WorkerInv
<1>1. Working = {} /\ Ended = {}
  BY DEF Init, Working, Ended
<1>2. Cardinality({}) = 0
  BY FS_EmptySet
<1> QED BY <1>1, <1>2, SubsetsAreFinite DEF Init, WorkerInv, TypeOK, NoneCancelled, ItemsInOrder,
       TakenIsCounted, ReturnedIsOver, AllAccounted

LEMMA NumbersAreNumbers ==
  ASSUME WorkerInv
  PROVE  /\ made \in Nat /\ put \in Nat /\ got \in Nat
         /\ processed \in Nat /\ errors \in Nat /\ TakenIsCounted
         /\ Cardinality(Working) \in Nat /\ Cardinality(Ended) \in Nat
BY SubsetsAreFinite DEF WorkerInv, TypeOK

-----------------------------------------------------------------------------
(* A step on one consumer moves it into a set, out of it, or neither.      *)
LEMMA Joins ==
  ASSUME NEW S, IsFiniteSet(S), NEW c, c \notin S
  PROVE  Cardinality(S \cup {c}) = Cardinality(S) + 1
BY FS_AddElement

LEMMA Leaves ==
  ASSUME NEW S, IsFiniteSet(S), NEW c \in S
  PROVE  Cardinality(S \ {c}) = Cardinality(S) - 1
BY FS_RemoveElement

(* The producer's steps: a record is only made while got <= made.          *)
LEMMA ProduceStep ==
  ASSUME WorkerInv, Produce
  PROVE  WorkerInv'
<1> USE SubsetsAreFinite DEF WorkerInv, TypeOK, Produce, Room, QueueSize
<1>1. Working' = Working /\ Ended' = Ended
  BY DEF PutRecord, CheckRecords, PutSentinel, Working, Ended
<1>2. CASE PutRecord
  BY <1>1, <1>2 DEF PutRecord, NoneCancelled, ItemsInOrder, TakenIsCounted,
       ReturnedIsOver, AllAccounted
<1>3. CASE CheckRecords
  BY <1>1, <1>3 DEF CheckRecords, NoneCancelled, ItemsInOrder, TakenIsCounted,
       ReturnedIsOver, AllAccounted
<1>4. CASE PutSentinel
  BY <1>1, <1>4 DEF PutSentinel, NoneCancelled, ItemsInOrder, TakenIsCounted,
       ReturnedIsOver, AllAccounted
<1> QED BY <1>2, <1>3, <1>4

(* Get: a record adds to the consumers that work, a None to those that     *)
(* have ended.                                                             *)
LEMMA GetStep ==
  ASSUME WorkerInv, NEW c \in Consumers, Get(c)
  PROVE  WorkerInv'
<1>1. outcome = "running" \/ outcome = "cancelled"
  BY DEF WorkerInv, TypeOK, ReturnedIsOver, Ended, Get
<1>2. c \notin Working /\ c \notin Ended
  BY DEF Get, Working, Ended
<1>3. TypeOK' /\ NoneCancelled' /\ ItemsInOrder' /\ ReturnedIsOver' /\ AllAccounted'
  BY <1>1 DEF WorkerInv, TypeOK, Get, NoneCancelled, ItemsInOrder, ReturnedIsOver, AllAccounted
<1>4. /\ got' = got + 1 /\ made' = made /\ outcome' = outcome
      /\ processed' = processed /\ errors' = errors
  BY DEF Get
<1>5. CASE got + 1 <= made
  <2>1. Working' = Working \cup {c} /\ Ended' = Ended
    BY <1>5, <1>2 DEF WorkerInv, TypeOK, Get, Working, Ended
  <2>2. Cardinality(Working') = Cardinality(Working) + 1
    BY <2>1, <1>2, Joins, SubsetsAreFinite
  <2>3. Cardinality({}) = 0
    BY FS_EmptySet
  <2>4. ASSUME outcome # "cancelled" PROVE TakenIsCounted'
    <3>1. processed + errors + Cardinality(Working) = got /\ Ended = {}
      BY <1>5, <2>4, NumbersAreNumbers DEF TakenIsCounted
    <3>2. /\ processed' + errors' + Cardinality(Working') = got'
          /\ Ended' = {} /\ Cardinality(Ended') = 0
      BY <1>4, <2>1, <2>2, <2>3, <3>1, NumbersAreNumbers
    <3> QED BY <1>4, <1>5, <3>2, NumbersAreNumbers DEF TakenIsCounted
  <2>5. TakenIsCounted'
    BY <1>4, <2>4 DEF TakenIsCounted
  <2> QED BY <1>3, <2>5 DEF WorkerInv
<1>6. CASE ~(got + 1 <= made)
  <2>1. Working' = Working /\ Ended' = Ended \cup {c}
    BY <1>6, <1>2 DEF WorkerInv, TypeOK, Get, Working, Ended
  <2>2. Cardinality(Ended') = Cardinality(Ended) + 1
    BY <2>1, <1>2, Joins, SubsetsAreFinite
  <2>3. got >= made /\ got' > made
    BY <1>6, NumbersAreNumbers DEF Get
  <2>4. TakenIsCounted'
    BY <1>4, <2>1, <2>2, <2>3, NumbersAreNumbers DEF TakenIsCounted
  <2> QED BY <1>3, <2>4 DEF WorkerInv
<1> QED BY <1>5, <1>6

(* A record that is through is counted, as processed or as an error.       *)
LEMMA ProcessStep ==
  ASSUME WorkerInv, NEW c \in Consumers, Process(c)
  PROVE  WorkerInv'
<1>1. outcome = "running" \/ outcome = "cancelled"
  BY DEF WorkerInv, TypeOK, ReturnedIsOver, Ended, Process
<1>2. Working' = Working \ {c} /\ Ended' = Ended /\ c \in Working
  BY DEF WorkerInv, TypeOK, Process, Working, Ended
<1>3. Cardinality(Working') = Cardinality(Working) - 1
  BY <1>2, Leaves, SubsetsAreFinite
<1>4. TypeOK' /\ NoneCancelled' /\ ItemsInOrder' /\ ReturnedIsOver' /\ AllAccounted'
  BY <1>1 DEF WorkerInv, TypeOK, Process, NoneCancelled, ItemsInOrder, ReturnedIsOver, AllAccounted
<1>5. /\ processed' + errors' = processed + errors + 1
      /\ processed' \in Nat /\ errors' \in Nat
      /\ got' = got /\ made' = made /\ outcome' = outcome
  BY NumbersAreNumbers DEF Process
<1>6. processed' + errors' + Cardinality(Working') = processed + errors + Cardinality(Working)
  BY <1>3, <1>5, NumbersAreNumbers
<1>7. Ended' = Ended
  BY <1>2
<1>8. TakenIsCounted'
  <2>1. SUFFICES ASSUME outcome # "cancelled"
        PROVE  /\ got <= made => /\ processed + errors + Cardinality(Working) = got
                                 /\ Ended = {}
               /\ got >= made => /\ processed + errors + Cardinality(Working) = made
                                 /\ Cardinality(Ended) = got - made
    BY <1>5, <1>6, <1>7 DEF TakenIsCounted
  <2> QED BY <2>1, NumbersAreNumbers DEF TakenIsCounted
<1> QED BY <1>4, <1>8 DEF WorkerInv

(* run_workload returns once everybody has ended: then every None has been *)
(* taken, and before them every record.                                    *)
LEMMA ReturnStep ==
  ASSUME WorkerInv, Return
  PROVE  WorkerInv'
<1> USE SubsetsAreFinite DEF WorkerInv, TypeOK
<1>1. Ended = Consumers /\ Working = {} /\ Ended' = Ended /\ Working' = Working
  BY DEF Return, Ended, Working
<1>2. Cardinality(Ended) = Concurrency /\ Cardinality(Working) = 0 /\ Ended # {}
  BY <1>1, FS_EmptySet, ConsumersAssumption DEF Concurrency
<1>3. outcome = "running" /\ put = made + Concurrency
  BY DEF Return, ItemsInOrder
<1>4. got - made = Concurrency /\ processed + errors = made
  BY <1>2, <1>3 DEF TakenIsCounted
<1>5. put = got
  BY <1>3, <1>4
<1> QED BY <1>1, <1>3, <1>4, <1>5 DEF Return, NoneCancelled, ItemsInOrder, TakenIsCounted,
       ReturnedIsOver, AllAccounted

LEMMA CancelStep ==
  ASSUME WorkerInv, Cancel
  PROVE  WorkerInv'
BY DEF Cancel, WorkerInv, TypeOK, NoneCancelled, ItemsInOrder, TakenIsCounted,
       ReturnedIsOver, AllAccounted

LEMMA WorkerNext ==
  ASSUME WorkerInv, [Next]_vars
  PROVE  WorkerInv'
<1>1. CASE UNCHANGED vars
  BY <1>1 DEF vars, WorkerInv, TypeOK, NoneCancelled, ItemsInOrder, TakenIsCounted,
       ReturnedIsOver, AllAccounted, Working, Ended
<1> QED BY <1>1, ProduceStep, GetStep, ProcessStep, ReturnStep, CancelStep
           DEF Next, Heartbeat

-----------------------------------------------------------------------------
(* The inductive invariant of run_workload.                                *)
THEOREM WorkerInvariance == Spec => []WorkerInv
<1>1. Init => WorkerInv
  BY WorkerInit
<1>2. WorkerInv /\ [Next]_vars => WorkerInv'
  BY WorkerNext
<1> QED BY <1>1, <1>2, PTL DEF Spec

(* What run_workload returns accounts for every record it has made, however *)
(* many consumers share the queue and whenever the producer stops.         *)
THEOREM EveryRecordAccounted == Spec => []AllAccounted
<1>1. WorkerInv => AllAccounted
  BY DEF WorkerInv
<1> QED BY <1>1, WorkerInvariance, PTL

=============================================================================
