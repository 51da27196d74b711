--------------------------- MODULE AppServerProofs ---------------------------
(***************************************************************************)
(* Proofs about AppServer for every finite set of connections.             *)
(***************************************************************************)
EXTENDS AppServer, FiniteSetTheorems, TLAPS

(* Types hold initially and every step of the app preserves them, inflight *)
(* being positive where a handler decrements it.                           *)
LEMMA HandlersFinite ==
  /\ IsFiniteSet(InHandler)
  /\ Cardinality(InHandler) \in Nat
  <1>1. InHandler \in SUBSET Requests
    BY DEF InHandler
  <1>2. IsFiniteSet(InHandler)
    BY <1>1, FS_Subset, RequestsAssumption
  <1> QED
    BY <1>2, FS_CardinalityType

LEMMA OneInHandler ==
  ASSUME NEW r \in InHandler
  PROVE  Cardinality(InHandler) >= 1 /\
         Cardinality(InHandler \ {r}) = Cardinality(InHandler) - 1
  <1>1. InHandler # {}
    OBVIOUS
  <1>2. Cardinality(InHandler) # 0
    BY <1>1, HandlersFinite, FS_EmptySet
  <1>3. Cardinality(InHandler \ {r}) = Cardinality(InHandler) - 1
    BY HandlersFinite, FS_RemoveElement
  <1> QED
    BY <1>2, <1>3, HandlersFinite

LEMMA ServerInvInit == Init => ServerInv
  <1> SUFFICES ASSUME Init PROVE ServerInv
    OBVIOUS
  <1>1. TypeOK
    BY DEF Init, TypeOK
  <1>2. InHandler = {}
    BY DEF Init, InHandler
  <1>3. InflightIsExact
    BY <1>2, FS_EmptySet DEF Init, InflightIsExact
  <1>4. OwedIsTracked /\ DrainThreadWaits
    BY DEF Init, OwedIsTracked, DrainThreadWaits, Up
  <1> QED
    BY <1>1, <1>3, <1>4 DEF ServerInv

(* Steps that leave the connections and the drain alone.                   *)
LEMMA QuietStep ==
  ASSUME ServerInv, TypeOK',
         UNCHANGED <<conns, drain, late, owed, exitBy>>
  PROVE  ServerInv'
  <1> USE DEF ServerInv, conns
  <1>1. InflightIsExact'
    BY DEF InflightIsExact, InHandler, Up
  <1>2. OwedIsTracked' /\ DrainThreadWaits'
    BY DEF OwedIsTracked, DrainThreadWaits, Up
  <1> QED
    BY <1>1, <1>2

(* A step of one connection that keeps it, or puts it, among the states an *)
(* owed request may be in.                                                 *)
LEMMA ConnStep ==
  ASSUME ServerInv, TypeOK', NEW r \in Requests,
         NEW to, req' = [req EXCEPT ![r] = to],
         \/ Up /\ to \in {"answered", "abandoned", "finished"}
         \/ req[r] \in {"new", "backlog", "accepted"} /\ to # "cut",
         UNCHANGED <<drain, late, owed, exitBy>>
  PROVE  OwedIsTracked' /\ DrainThreadWaits'
  BY DEF ServerInv, TypeOK, OwedIsTracked, DrainThreadWaits, Up

(* The end of the process.                                                 *)
LEMMA ExitStep ==
  ASSUME ServerInv, NEW cause \in {"boot", "main", "drain", "crash", "kill"},
         Exit(cause), cause = "drain" => drain = "leaving"
  PROVE  ServerInv'
  <1> USE DEF ServerInv, Exit, stop, term
  <1>1. TypeOK'
    BY DEF TypeOK
  <1>2. InflightIsExact'
    BY DEF InflightIsExact, Up
  <1>3. OwedIsTracked'
    BY DEF OwedIsTracked, TypeOK, Up
  <1>4. DrainThreadWaits'
    BY DEF DrainThreadWaits, OwedIsTracked, TypeOK, Up
  <1> QED
    BY <1>1, <1>2, <1>3, <1>4

(* The steps of a handler thread and of its client.                        *)
LEMMA HandlerPreserves ==
  ASSUME ServerInv, NEW r \in Requests, Arrive(r) \/ Handler(r)
  PROVE  ServerInv'
  <1> USE DEF ServerInv, stop, term, HandlerStep
  <1>1. CASE Arrive(r)
    <2>1. TypeOK'
      BY <1>1 DEF Arrive, TypeOK
    <2>2. InHandler' = InHandler
      BY <1>1 DEF Arrive, InHandler, TypeOK
    <2>3. InflightIsExact'
      BY <1>1, <2>2 DEF InflightIsExact, Arrive, Up
    <2>4. OwedIsTracked' /\ DrainThreadWaits'
      BY <1>1, <2>1, ConnStep DEF Arrive
    <2> QED
      BY <2>1, <2>3, <2>4
  <1>2. CASE Count(r)
    <2>1. TypeOK'
      BY <1>2 DEF Count, TypeOK
    <2>2. InHandler' = InHandler \cup {r} /\ r \notin InHandler
      BY <1>2 DEF Count, InHandler, TypeOK
    <2>3. Cardinality(InHandler') = Cardinality(InHandler) + 1
      BY <2>2, HandlersFinite, FS_AddElement
    <2>4. InflightIsExact'
      BY <1>2, <2>3 DEF InflightIsExact, Count, Up
    <2>5. OwedIsTracked' /\ DrainThreadWaits'
      BY <1>2, <2>1, ConnStep DEF Count
    <2> QED
      BY <2>1, <2>4, <2>5
  <1>3. CASE Answer(r)
    <2>1. TypeOK'
      BY <1>3 DEF Answer, TypeOK
    <2>2. InHandler' = InHandler
      BY <1>3 DEF Answer, InHandler, TypeOK
    <2>3. InflightIsExact'
      BY <1>3, <2>2 DEF InflightIsExact, Answer, Up
    <2>4. OwedIsTracked' /\ DrainThreadWaits'
      BY <1>3, <2>1, ConnStep DEF Answer
    <2> QED
      BY <2>1, <2>3, <2>4
  <1>4. CASE Abandon(r) \/ Leave(r)
    <2>1. r \in InHandler /\ inflight = Cardinality(InHandler)
      BY <1>4 DEF Abandon, Leave, InHandler, InflightIsExact
    <2>2. inflight' = inflight - 1 /\ inflight >= 1
      BY <1>4, <2>1, OneInHandler DEF Abandon, Leave
    <2>3. TypeOK'
      BY <1>4, <2>2 DEF Abandon, Leave, TypeOK
    <2>4. InHandler' = InHandler \ {r}
      BY <1>4 DEF Abandon, Leave, InHandler, TypeOK
    <2>5. InflightIsExact'
      BY <2>1, <2>2, <2>4, OneInHandler DEF InflightIsExact
    <2>6. OwedIsTracked' /\ DrainThreadWaits'
      BY <1>4, <2>3, ConnStep DEF Abandon, Leave
    <2> QED
      BY <2>3, <2>5, <2>6
  <1> QED
    BY <1>1, <1>2, <1>3, <1>4 DEF Handler

(* The steps of the main thread.                                           *)
LEMMA MainPreserves ==
  ASSUME ServerInv, MainThread
  PROVE  ServerInv'
  <1> USE DEF ServerInv, stop, term
  <1>1. CASE Bind \/ Arm \/ Serve \/ SelectReady \/ StopServing
    <2>1. TypeOK'
      BY <1>1 DEF Bind, Arm, Serve, SelectReady, StopServing, MainStep, TypeOK, conns
    <2> QED
      BY <1>1, <2>1, QuietStep
      DEF Bind, Arm, Serve, SelectReady, StopServing, MainStep
  <1>2. CASE Accept
    <2> PICK r \in Requests : /\ Up /\ req[r] = "backlog"
                              /\ main' = "serving"
                              /\ req' = [req EXCEPT ![r] = "accepted"]
                              /\ UNCHANGED <<term, stop, inflight, exitBy>>
      BY <1>2 DEF Accept
    <2>1. TypeOK'
      BY DEF TypeOK
    <2>2. InHandler' = InHandler
      BY DEF InHandler, TypeOK
    <2>3. InflightIsExact'
      BY <2>2 DEF InflightIsExact, Up
    <2>4. OwedIsTracked' /\ DrainThreadWaits'
      BY <2>1, ConnStep
    <2> QED
      BY <2>1, <2>3, <2>4
  <1>3. CASE MainExits
    BY <1>3, ExitStep DEF MainExits
  <1> QED
    BY <1>1, <1>2, <1>3 DEF MainThread

(* The steps of the drain thread.                                          *)
LEMMA DrainPreserves ==
  ASSUME ServerInv, DrainThread
  PROVE  ServerInv'
  <1> USE DEF ServerInv, term, conns
  <1>1. CASE RequestStop \/ Deadline \/ DrainDone
    <2>1. TypeOK'
      BY <1>1 DEF RequestStop, Deadline, DrainDone, TypeOK
    <2>2. InHandler' = InHandler
      BY <1>1 DEF RequestStop, Deadline, DrainDone, InHandler
    <2>3. InflightIsExact'
      BY <1>1, <2>2 DEF RequestStop, Deadline, DrainDone, InflightIsExact, Up
    <2>4. DrainThreadWaits'
      BY <1>1 DEF RequestStop, Deadline, DrainDone, DrainThreadWaits, Up
    <2>5. OwedIsTracked'
      <3>1. CASE RequestStop \/ Deadline
        BY <1>1, <3>1 DEF RequestStop, Deadline, OwedIsTracked, Up
      <3>2. CASE DrainDone
        <4>1. ~late => InHandler = {}
          BY <3>2, HandlersFinite, FS_EmptySet
          DEF DrainDone, Drained, InflightIsExact, TypeOK
        <4>2. ~late => \A r \in owed : req[r] \in {"answered", "abandoned", "finished"}
          BY <3>2, <4>1 DEF DrainDone, OwedIsTracked, InHandler, TypeOK
        <4> QED
          BY <3>2, <4>2 DEF DrainDone, OwedIsTracked, Up
      <3> QED
        BY <1>1, <3>1, <3>2
    <2> QED
      BY <2>1, <2>3, <2>4, <2>5
  <1>2. CASE DrainExits
    BY <1>2, ExitStep DEF DrainExits
  <1> QED
    BY <1>1, <1>2 DEF DrainThread

(* Sending and handling SIGTERM: the handler records what is owed.         *)
LEMMA TermPreserves ==
  ASSUME ServerInv, SendTerm \/ IgnoreTerm \/ HandleTerm
  PROVE  ServerInv'
  <1> USE DEF ServerInv, stop
  <1>1. CASE SendTerm \/ IgnoreTerm
    <2>1. TypeOK'
      BY <1>1 DEF SendTerm, IgnoreTerm, TypeOK, conns
    <2> QED
      BY <1>1, <2>1, QuietStep DEF SendTerm, IgnoreTerm
  <1>2. CASE HandleTerm
    <2> USE <1>2 DEF HandleTerm, TakesSignal, conns
    <2>1. TypeOK'
      BY DEF TypeOK, InHandler
    <2>2. InflightIsExact'
      BY DEF InflightIsExact, InHandler, Up
    <2>3. OwedIsTracked' /\ DrainThreadWaits'
      BY DEF OwedIsTracked, DrainThreadWaits, InHandler, Up
    <2> QED
      BY <2>1, <2>2, <2>3
  <1> QED
    BY <1>1, <1>2

LEMMA ServerInvStep == ServerInv /\ [Next]_vars => ServerInv'
  <1> SUFFICES ASSUME ServerInv, [Next]_vars PROVE ServerInv'
    OBVIOUS
  <1>1. CASE BootFails \/ CrashExits \/ Kill
    BY <1>1, ExitStep DEF BootFails, CrashExits, Kill
  <1>2. CASE UNCHANGED vars
    <2>1. TypeOK'
      BY <1>2 DEF ServerInv, TypeOK, vars, term, stop, conns
    <2> QED
      BY <1>2, <2>1, QuietStep DEF vars, term, stop
  <1> QED
    BY <1>1, <1>2, MainPreserves, DrainPreserves, HandlerPreserves, TermPreserves
    DEF Next, Gone

(* The inductive invariant holds in every reachable state.                 *)
THEOREM ServerInvariance == Spec => []ServerInv
  BY ServerInvInit, ServerInvStep, PTL DEF Spec

(* The variables of the app always have their types.                       *)
THEOREM ServerTypes == Spec => []TypeOK
  BY ServerInvInit, ServerInvStep, PTL DEF Spec, ServerInv

(* inflight is the number of handlers between its two updates.             *)
THEOREM InflightExact == Spec => []InflightIsExact
  BY ServerInvInit, ServerInvStep, PTL DEF Spec, ServerInv

(* When the drain thread ends the process in time, nothing that was in     *)
(* flight at SIGTERM is cut.                                               *)
THEOREM DrainWaits == Spec => []DrainThreadWaits
  BY ServerInvInit, ServerInvStep, PTL DEF Spec, ServerInv

=============================================================================
