----------------------------- MODULE HarnessProofs -----------------------------
(***************************************************************************)
(* Proofs about the exercises' harnesses.  ConnectorLifecycle: a task that *)
(* streams has begun with its run's own snapshot, and no run leaves a slot *)
(* behind without an excuse, for any number of faults and attempts.        *)
(* GroundTruthCache: a validator that no generator has disturbed is given  *)
(* the answers of its files, for any number of validators, generations and *)
(* killed processes.  GroundTruth: the replay of an event stream follows   *)
(* its semantics, for streams of every length and delays of every size.    *)
(***************************************************************************)
EXTENDS ConnectorLifecycle, GroundTruthCache, GroundTruth, FiniteSetTheorems,
        SequenceTheorems, TLAPS

(* The connector's life keeps its types.                                   *)
LEMMA NextCdcTypeOK ==
  ASSUME CdcTypeOK, [CdcNext]_cdcVars PROVE CdcTypeOK'
<1> USE DEF validator, connect, source, stream, Goto
<1>0. /\ 0 \in 0 .. Attempts + 2 /\ 0 \in 0 .. 1 /\ 1 \in 0 .. 1
      /\ style \in {"retry", "poll", "early", "once", "wait"}
      /\ tries \in Nat /\ lsn \in 0 .. 1 /\ Attempts \in Nat
  BY StylesAssumption, DropAssumption DEF CdcTypeOK
<1>r. ASSUME NEW e \in BOOLEAN, RaiseTo(e)
      PROVE  /\ style' \in Styles /\ phase' = "cleanup" /\ step' \in {"status", "over"}
             /\ tx' = "none" /\ tries' = 0 /\ excuse' \in BOOLEAN
  BY <1>r DEF RaiseTo, CdcTypeOK
<1>1. CASE UNCHANGED cdcVars
  BY <1>1 DEF cdcVars, CdcTypeOK
<1>2. CASE BeginRun
  <2>1. topic' = {[e EXCEPT !.own = FALSE] : e \in topic}
    BY <1>2 DEF BeginRun
  <2>2. \A e \in topic : [e EXCEPT !.own = FALSE] \in Event
    BY DEF CdcTypeOK, Event
  <2>3. topic' \subseteq Event
    BY <2>1, <2>2
  <2>4. /\ phase' = "clean" /\ step' = "status" /\ tx' = "none" /\ tries' = 0
        /\ excuse' = FALSE /\ lsn' = 0 /\ published' = 0
        /\ kept' = FALSE
        /\ UNCHANGED <<style, connector, task, offsets, slot, pub, faults>>
    BY <1>2 DEF BeginRun
  <2> QED BY <1>0, <2>3, <2>4 DEF CdcTypeOK
<1>3. CASE GetStatus \/ PutStop \/ DeleteConnector \/ Sleep \/ PollSlot
  BY <1>3 DEF GetStatus, PutStop, DeleteConnector, Sleep, PollSlot, CdcTypeOK
<1>4. CASE ResetOffsets
  <2>1. CASE connector = "stopped"
    BY <1>4, <2>1 DEF ResetOffsets, CdcTypeOK
  <2>2. CASE connector # "stopped"
    <3>1. /\ RaiseTo(TRUE)
          /\ UNCHANGED <<connector, task, offsets, slot, pub, lsn, topic, published, kept, faults>>
      BY <1>4, <2>2 DEF ResetOffsets
    <3> QED BY <1>0, <1>r, <3>1 DEF CdcTypeOK
  <2> QED BY <2>1, <2>2
<1>5. CASE DropSlot \/ DropPublication
  BY <1>5 DEF DropSlot, DropPublication, CdcTypeOK
<1>6. CASE ResetTopics
  <2>1. /\ topic' \subseteq topic /\ kept' \in BOOLEAN
        /\ faults' = faults \/ Fault
    BY <1>6 DEF ResetTopics, CdcTypeOK
  <2>2. faults' \in 0 .. MaxFaults
    BY <2>1, FaultsAssumption DEF Fault, CdcTypeOK
  <2> QED BY <1>0, <1>6, <2>1, <2>2 DEF ResetTopics, EnterPhase, CdcTypeOK
<1>7. CASE DropSlotRaises
  <2>1. CASE Retries
    <3>1. tries + 1 \in 0 .. Attempts + 2
      <4>1. CASE style = "retry"
        BY <1>0, <2>1, <4>1 DEF Retries
      <4>2. CASE style \in {"poll", "early"}
        <5>1. style # "retry" /\ style # "once" /\ style # "wait"
          BY <4>2
        <5>2. tries < 2
          BY <2>1, <4>2, <5>1 DEF Retries
        <5> QED BY <1>0, <5>2
      <4>3. CASE style = "once"
        BY <1>0, <2>1, <4>3 DEF Retries
      <4>4. CASE style = "wait"
        BY <1>0, <2>1, <4>4 DEF Retries
      <4> QED BY <1>0, <4>1, <4>2, <4>3, <4>4
    <3> QED BY <1>7, <2>1, <3>1 DEF DropSlotRaises, CdcTypeOK
  <2>2. CASE ~Retries
    <3>1. /\ RaiseTo(slot = "active")
          /\ UNCHANGED <<connector, task, offsets, slot, pub, lsn, topic, published, kept, faults>>
      BY <1>7, <2>2 DEF DropSlotRaises
    <3> QED BY <1>0, <1>r, <3>1 DEF CdcTypeOK
  <2> QED BY <2>1, <2>2
<1>8. CASE Main
  <2>1. CASE EndMain /\ ~InTry
    <3>1. RaiseTo(TRUE) /\ UNCHANGED <<connect, source, stream, faults>>
      BY <2>1 DEF EndMain
    <3> QED BY <1>0, <1>r, <3>1 DEF CdcTypeOK
  <2>2. CASE EndMain /\ InTry
    BY <1>0, <2>2 DEF EndMain, EnterPhase, CdcTypeOK
  <2>3. CASE RegisterConnector \/ WaitForRunning \/ CountSnapshot \/ ApplyBurst
    BY <1>0, <2>3
       DEF RegisterConnector, WaitForRunning, CountSnapshot, ApplyBurst, CdcTypeOK
  <2> QED BY <1>8, <2>1, <2>2, <2>3 DEF Main
<1>9. CASE CallFails \/ DeleteUnanswered \/ RegisterUnanswered \/ Killed
  <2>1. faults' \in 0 .. MaxFaults
    <3>1. Fault
      BY <1>9 DEF CallFails, DeleteUnanswered, RegisterUnanswered, Killed
    <3>2. faults \in 0 .. MaxFaults
      BY DEF CdcTypeOK
    <3> QED BY <3>1, <3>2, FaultsAssumption DEF Fault
  <2>2. CASE CallFails \/ DeleteUnanswered \/ RegisterUnanswered
    <3>1. /\ RaiseTo(TRUE) /\ connector' \in {connector, "absent", "up"}
          /\ task' \in {task, "created"}
          /\ UNCHANGED <<offsets, slot, pub, lsn, topic, published, kept>>
      BY <2>2 DEF CallFails, DeleteUnanswered, RegisterUnanswered
    <3> QED BY <1>0, <1>r, <2>1, <3>1 DEF CdcTypeOK
  <2>3. CASE Killed
    BY <2>1, <2>3 DEF Killed, CdcTypeOK
  <2> QED BY <1>9, <2>2, <2>3
<1>10. CASE TaskSnapshots \/ TaskStreams
  <2>1. topic' \subseteq topic \cup {[own |-> phase = "main", op |-> "r", at |-> lsn],
                                   [own |-> phase = "main", op |-> "c", at |-> lsn]}
    BY <1>10 DEF TaskSnapshots, TaskStreams
  <2>2. /\ (phase = "main") \in BOOLEAN
        /\ \A b \in BOOLEAN : /\ [own |-> b, op |-> "r", at |-> lsn] \in Event
                             /\ [own |-> b, op |-> "c", at |-> lsn] \in Event
    BY <1>0 DEF Event
  <2>3. topic' \subseteq Event
    BY <2>1, <2>2 DEF CdcTypeOK
  <2> QED BY <1>0, <1>10, <2>3 DEF TaskSnapshots, TaskStreams, CdcTypeOK
<1>11. CASE TaskRuns \/ FlushOffsets \/ Stopped \/ ConnectionCloses
  BY <1>11 DEF TaskRuns, FlushOffsets, Stopped, ConnectionCloses, CdcTypeOK
<1> QED BY <1>1, <1>2, <1>3, <1>4, <1>5, <1>6, <1>7, <1>8, <1>9, <1>10, <1>11
        DEF CdcNext, TearDown, KafkaConnect

(* The steps of main are taken in main.                                    *)
LEMMA NextStepsOfPhase ==
  ASSUME StepsOfPhase, [CdcNext]_cdcVars PROVE StepsOfPhase'
<1> USE DEF validator, connect, source, stream, Goto, StepsOfPhase, MainSteps
<1>1. CASE UNCHANGED cdcVars
  BY <1>1 DEF cdcVars
<1>2. CASE BeginRun
  BY <1>2 DEF BeginRun
<1>3. CASE GetStatus \/ PutStop \/ ResetOffsets \/ DeleteConnector
  BY <1>3 DEF GetStatus, PutStop, ResetOffsets, DeleteConnector, RaiseTo
<1>4. CASE PollSlot \/ DropSlot \/ DropSlotRaises \/ Sleep
  BY <1>4 DEF PollSlot, DropSlot, DropSlotRaises, Sleep, RaiseTo
<1>5. CASE DropPublication \/ ResetTopics
  BY <1>5 DEF DropPublication, ResetTopics, EnterPhase
<1>6. CASE Main
  BY <1>6
     DEF Main, RegisterConnector, WaitForRunning, CountSnapshot, ApplyBurst, EndMain,
         EnterPhase, RaiseTo
<1>7. CASE CallFails \/ DeleteUnanswered \/ RegisterUnanswered \/ Killed
  BY <1>7 DEF CallFails, DeleteUnanswered, RegisterUnanswered, Killed, RaiseTo
<1>8. CASE KafkaConnect
  BY <1>8
     DEF KafkaConnect, TaskRuns, TaskSnapshots, TaskStreams, FlushOffsets, Stopped,
         ConnectionCloses
<1> QED BY <1>1, <1>2, <1>3, <1>4, <1>5, <1>6, <1>7, <1>8
        DEF CdcNext, TearDown

(* What is deleted has stopped and forgotten its offset.                   *)
LEMMA NextDeletedIsGone ==
  ASSUME DeletedIsGone, StepsOfPhase, [CdcNext]_cdcVars PROVE DeletedIsGone'
<1> USE
   DEF validator, connect, source, stream, Goto, DeletedIsGone, StepsOfPhase, MainSteps,
       AfterDelete
<1>1. CASE UNCHANGED cdcVars
  BY <1>1 DEF cdcVars
<1>2. CASE BeginRun
  BY <1>2 DEF BeginRun
<1>3. CASE GetStatus \/ PutStop \/ ResetOffsets \/ DeleteConnector
  BY <1>3 DEF GetStatus, PutStop, ResetOffsets, DeleteConnector, RaiseTo
<1>4. CASE PollSlot \/ DropSlot \/ DropSlotRaises \/ Sleep
  BY <1>4 DEF PollSlot, DropSlot, DropSlotRaises, Sleep, RaiseTo
<1>5. CASE DropPublication \/ ResetTopics
  BY <1>5 DEF DropPublication, ResetTopics, EnterPhase
<1>6. CASE Main
  BY <1>6
     DEF Main, RegisterConnector, WaitForRunning, CountSnapshot, ApplyBurst, EndMain,
         EnterPhase, RaiseTo
<1>7. CASE CallFails \/ DeleteUnanswered \/ RegisterUnanswered \/ Killed
  BY <1>7 DEF CallFails, DeleteUnanswered, RegisterUnanswered, Killed, RaiseTo
<1>8. CASE KafkaConnect
  BY <1>8
     DEF KafkaConnect, TaskRuns, TaskSnapshots, TaskStreams, FlushOffsets, Stopped,
         ConnectionCloses
<1> QED BY <1>1, <1>2, <1>3, <1>4, <1>5, <1>6, <1>7, <1>8
        DEF CdcNext, TearDown

(* Nothing of an earlier run reaches main, and nothing of this one is      *)
(* published before its task streams.                                      *)
LEMMA NextSlateIsClean ==
  ASSUME CdcTypeOK, DeletedIsGone, StepsOfPhase, SlateIsClean, [CdcNext]_cdcVars
  PROVE  SlateIsClean'
<1> USE
   DEF validator, connect, source, stream, Goto, SlateIsClean, DeletedIsGone, StepsOfPhase,
       MainSteps, AfterDelete, CdcTypeOK
<1> DEFINE Same == topic' = topic
<1>0. Same => Own' = Own
  BY DEF Own
<1>1. CASE UNCHANGED cdcVars
  BY <1>0, <1>1 DEF cdcVars
<1>2. CASE BeginRun
  <2>1. topic' = {[e EXCEPT !.own = FALSE] : e \in topic}
    BY <1>2 DEF BeginRun
  <2>2. \A e \in topic' : ~e.own
    BY <2>1 DEF Event
  <2>3. Own' = {}
    BY <2>2 DEF Own
  <2>4. phase' = "clean" /\ step' = "status" /\ lsn' = 0 /\ published' = 0
    BY <1>2 DEF BeginRun
  <2> QED BY <2>3, <2>4
<1>3. CASE GetStatus \/ PutStop \/ ResetOffsets \/ DeleteConnector
  BY <1>0, <1>3 DEF GetStatus, PutStop, ResetOffsets, DeleteConnector, RaiseTo
<1>4. CASE PollSlot \/ DropSlot \/ DropSlotRaises \/ Sleep
  BY <1>0, <1>4 DEF PollSlot, DropSlot, DropSlotRaises, Sleep, RaiseTo
<1>5. CASE DropPublication \/ ResetTopics
  <2>1. CASE DropPublication
    BY <1>0, <2>1 DEF DropPublication
  <2>2. CASE ResetTopics
    <3>1. topic' \subseteq topic /\ (topic' = {} \/ kept') /\ step = "topics"
      BY <2>2 DEF ResetTopics
    <3>2. Own' \subseteq Own /\ (topic' = {} => Own' = {})
      BY <3>1 DEF Own
    <3>3. CASE phase = "clean"
      <4>1. /\ phase' = "main" /\ step' = "register" /\ Own' = {}
            /\ lsn' = 0 /\ published' = 0 /\ ~offsets'
        BY <2>2, <3>1, <3>2, <3>3 DEF ResetTopics, EnterPhase
      <4> QED BY <3>1, <3>2, <4>1
    <3>4. CASE phase # "clean"
      <4>1. phase' = phase /\ step' = "over"
        BY <2>2, <3>4 DEF ResetTopics
      <4> QED BY <3>1, <3>4, <4>1
    <3> QED BY <3>3, <3>4
  <2> QED BY <1>5, <2>1, <2>2
<1>6. CASE Main
  BY <1>0, <1>6
     DEF Main, RegisterConnector, WaitForRunning, CountSnapshot, ApplyBurst, EndMain,
         EnterPhase, RaiseTo
<1>7. CASE CallFails \/ DeleteUnanswered \/ RegisterUnanswered \/ Killed
  BY <1>0, <1>7 DEF CallFails, DeleteUnanswered, RegisterUnanswered, Killed, RaiseTo
<1>8. CASE KafkaConnect
  <2>1. lsn \in 0 .. 1 /\ published \in 0 .. 1
    OBVIOUS
  <2>2. CASE TaskSnapshots
    <3>1. PICK e \in Event : /\ topic' = topic \/ topic' = topic \cup {e}
                             /\ e.own = (phase = "main")
      <4> DEFINE e == [own |-> phase = "main", op |-> "r", at |-> lsn]
      <4>1. e \in Event /\ e.own = (phase = "main")
        BY <2>1 DEF Event
      <4>2. topic' = topic \/ topic' = topic \cup {e}
        BY <2>2 DEF TaskSnapshots
      <4> QED BY <4>1, <4>2
    <3>2. /\ phase # "main" => Own' = Own
          /\ topic # Own \/ topic' = Own' \/ phase # "main"
      <4>1. CASE phase = "main"
        <5>1. e.own
          BY <3>1, <4>1
        <5>2. CASE topic' = topic
          BY <4>1, <5>2 DEF Own
        <5>3. CASE topic' = topic \cup {e}
          BY <4>1, <5>1, <5>3 DEF Own
        <5> QED BY <3>1, <5>2, <5>3
      <4>2. CASE phase # "main"
        <5>1. ~e.own
          BY <3>1, <4>2
        <5> QED BY <3>1, <4>2, <5>1 DEF Own
      <4> QED BY <4>1, <4>2
    <3>3. /\ UNCHANGED <<phase, step, lsn, kept>> /\ task' = "streaming"
          /\ published' = lsn
      BY <2>2 DEF TaskSnapshots
    <3> QED BY <3>2, <3>3
  <2>3. CASE TaskStreams
    <3>1. lsn # 0
      BY <2>1, <2>3 DEF TaskStreams
    <3>2. CASE phase = "main"
      <4> DEFINE e == [own |-> TRUE, op |-> "c", at |-> lsn]
      <4>1. (phase = "main") = TRUE
        BY <3>2
      <4>2. topic' = topic \cup {e} /\ e.own
        BY <2>3, <4>1 DEF TaskStreams
      <4>3. topic # Own \/ topic' = Own'
        BY <4>2 DEF Own
      <4> QED BY <2>3, <3>1, <3>2, <4>3 DEF TaskStreams
    <3>3. CASE phase # "main"
      <4>1. phase # "clean"
        BY <2>1, <2>3, <3>1
      <4> QED BY <2>3, <3>1, <3>3, <4>1 DEF TaskStreams
    <3> QED BY <3>2, <3>3
  <2>4. CASE TaskRuns \/ FlushOffsets \/ Stopped \/ ConnectionCloses
    BY <1>0, <2>4 DEF TaskRuns, FlushOffsets, Stopped, ConnectionCloses
  <2> QED BY <1>8, <2>2, <2>3, <2>4 DEF KafkaConnect
<1> QED BY <1>1, <1>2, <1>3, <1>4, <1>5, <1>6, <1>7, <1>8
        DEF CdcNext, TearDown

(* A dropped slot stays dropped, a connection is never left failed, and    *)
(* only a slot in use is not dropped.                                      *)
LEMMA NextSlotInv ==
  ASSUME DropsWhenIdle, CdcTypeOK, DeletedIsGone, StepsOfPhase, SlotInv,
         [CdcNext]_cdcVars
  PROVE  SlotInv'
<1> USE
   DEF validator, connect, source, stream, Goto, SlotInv, DeletedIsGone, StepsOfPhase,
       MainSteps, AfterDelete, CdcTypeOK, DropsWhenIdle, Polls, InUse, Raises, Retries
<1>1. CASE UNCHANGED cdcVars
  BY <1>1 DEF cdcVars
<1>2. CASE BeginRun
  BY <1>2 DEF BeginRun
<1>3. CASE GetStatus \/ PutStop \/ ResetOffsets \/ DeleteConnector
  BY <1>3 DEF GetStatus, PutStop, ResetOffsets, DeleteConnector, RaiseTo
<1>4. CASE PollSlot \/ DropSlot \/ DropSlotRaises \/ Sleep
  <2>1. /\ style \in {"retry", "poll", "early", "wait"}
        /\ style \in {"early", "poll"} => SleepIsLong
    BY StylesAssumption DEF SleepIsLong
  <2>2. CASE PollSlot
    BY <2>1, <2>2 DEF PollSlot
  <2>3. CASE DropSlot
    BY <2>1, <2>3 DEF DropSlot
  <2>4. CASE DropSlotRaises
    <3>1. slot = "active" /\ InUse /\ step = "drop"
      BY <2>4 DEF DropSlotRaises
    <3>2. style \notin {"early", "poll"}
      BY <2>4, <3>1 DEF DropSlotRaises
    <3>3. CASE Retries
      <4>1. style = "retry"
        BY <2>1, <3>2, <3>3
      <4> QED BY <2>4, <3>1, <3>3, <4>1 DEF DropSlotRaises
    <3>4. CASE ~Retries
      BY <2>4, <3>1, <3>4 DEF DropSlotRaises, RaiseTo
    <3> QED BY <3>3, <3>4
  <2>5. CASE Sleep
    BY <2>1, <2>5 DEF Sleep
  <2> QED BY <1>4, <2>2, <2>3, <2>4, <2>5
<1>5. CASE DropPublication \/ ResetTopics
  BY <1>5 DEF DropPublication, ResetTopics, EnterPhase
<1>6. CASE Main
  BY <1>6
     DEF Main, RegisterConnector, WaitForRunning, CountSnapshot, ApplyBurst, EndMain,
         EnterPhase, RaiseTo
<1>7. CASE CallFails \/ DeleteUnanswered \/ RegisterUnanswered \/ Killed
  BY <1>7 DEF CallFails, DeleteUnanswered, RegisterUnanswered, Killed, RaiseTo
<1>8. CASE KafkaConnect
  BY <1>8
     DEF KafkaConnect, TaskRuns, TaskSnapshots, TaskStreams, FlushOffsets, Stopped,
         ConnectionCloses
<1> QED BY <1>1, <1>2, <1>3, <1>4, <1>5, <1>6, <1>7, <1>8
        DEF CdcNext, TearDown

(* A streaming task has published its snapshot and the changes after it.   *)
LEMMA NextSnapshotThenChanges ==
  ASSUME CdcTypeOK, StepsOfPhase, DeletedIsGone, SlateIsClean, SnapshotThenChanges,
         [CdcNext]_cdcVars
  PROVE  SnapshotThenChanges'
<1> USE DEF validator, connect, source, stream
<1> DEFINE Same == /\ UNCHANGED <<topic, published>>
                   /\ (task' = "streaming" => task = "streaming")
                   /\ (phase' = "main" /\ task = "streaming" => phase = "main")
<1>1. CASE Same
  BY <1>1 DEF SnapshotThenChanges, Own
<1>2. CASE TaskSnapshots
  <2>1. CASE phase = "main"
    <3>0. /\ Own = {} /\ published' = lsn /\ lsn \in 0 .. 1
          /\ topic' = topic \cup {[own |-> TRUE, op |-> "r", at |-> lsn]}
      <4>1. (phase = "main") = TRUE
        BY <2>1
      <4> QED BY <1>2, <2>1, <4>1 DEF TaskSnapshots, SlateIsClean, CdcTypeOK
    <3>1. Own' = {[own |-> TRUE, op |-> "r", at |-> lsn]} /\ published' = lsn /\ lsn \in 0 .. 1
      BY <3>0 DEF Own
    <3>2. {[own |-> TRUE, op |-> "c", at |-> n] : n \in lsn + 1 .. lsn} = {} /\ lsn \in 0 .. lsn
      BY <3>1
    <3> QED BY <3>1, <3>2 DEF SnapshotThenChanges
  <2>2. CASE phase # "main"
    BY <1>2, <2>2 DEF TaskSnapshots, SnapshotThenChanges
  <2> QED BY <2>1, <2>2
<1>3. CASE TaskStreams
  <2>1. CASE phase = "main"
    <3>1. lsn = 1 /\ published = 0 /\ published' = 1
          /\ Own' = Own \cup {[own |-> TRUE, op |-> "c", at |-> 1]}
      <4>1. lsn \in 0 .. 1 /\ published \in 0 .. 1 /\ published < lsn
        BY <1>3 DEF TaskStreams, CdcTypeOK
      <4>2. lsn = 1 /\ published = 0
        BY <4>1
      <4>3. (phase = "main") = TRUE
        BY <2>1
      <4>4. topic' = topic \cup {[own |-> TRUE, op |-> "c", at |-> 1]} /\ published' = 1
        BY <1>3, <4>2, <4>3 DEF TaskStreams
      <4> QED BY <4>2, <4>4 DEF Own
    <3>2. PICK s \in 0 .. 0 :
            Own = {[own |-> TRUE, op |-> "r", at |-> s]}
                    \cup {[own |-> TRUE, op |-> "c", at |-> n] : n \in s + 1 .. 0}
      BY <1>3, <2>1, <3>1 DEF TaskStreams, SnapshotThenChanges
    <3>3. s = 0 /\ s + 1 .. 0 = {} /\ s + 1 .. 1 = {1} /\ s \in 0 .. 1
      BY <3>2
    <3>4. Own' = {[own |-> TRUE, op |-> "r", at |-> s]}
                   \cup {[own |-> TRUE, op |-> "c", at |-> n] : n \in s + 1 .. 1}
      BY <3>1, <3>2, <3>3
    <3> QED BY <3>1, <3>3, <3>4 DEF SnapshotThenChanges
  <2>2. CASE phase # "main"
    BY <1>3, <2>2 DEF TaskStreams, SnapshotThenChanges
  <2> QED BY <2>1, <2>2
<1>4. CASE BeginRun
  BY <1>4 DEF BeginRun, SnapshotThenChanges
<1>5. CASE ResetTopics
  <2>1. task = "none" /\ task' = task
    BY <1>5 DEF ResetTopics, DeletedIsGone, AfterDelete
  <2> QED BY <2>1 DEF SnapshotThenChanges
<1>6. CASE UNCHANGED cdcVars
  BY <1>1, <1>6 DEF cdcVars
<1>7. CASE GetStatus \/ PutStop \/ ResetOffsets \/ DeleteConnector
  BY <1>1, <1>7 DEF GetStatus, PutStop, ResetOffsets, DeleteConnector, Goto, RaiseTo
<1>8. CASE PollSlot \/ DropSlot \/ DropSlotRaises \/ Sleep \/ DropPublication
  BY <1>1, <1>8
     DEF PollSlot, DropSlot, DropSlotRaises, Sleep, DropPublication, Goto, RaiseTo
<1>9. CASE Main
  <2>1. EndMain => phase' # "main"
    BY DEF EndMain, EnterPhase, RaiseTo
  <2>2. CASE EndMain
    BY <2>1, <2>2 DEF SnapshotThenChanges
  <2>3. CASE RegisterConnector \/ WaitForRunning \/ CountSnapshot \/ ApplyBurst
    BY <1>1, <2>3 DEF RegisterConnector, WaitForRunning, CountSnapshot, ApplyBurst, Goto
  <2> QED BY <1>9, <2>2, <2>3 DEF Main
<1>10. CASE CallFails \/ DeleteUnanswered \/ RegisterUnanswered \/ Killed
  BY <1>1, <1>10 DEF CallFails, DeleteUnanswered, RegisterUnanswered, Killed, RaiseTo
<1>11. CASE TaskRuns \/ FlushOffsets \/ Stopped \/ ConnectionCloses
  BY <1>1, <1>11 DEF TaskRuns, FlushOffsets, Stopped, ConnectionCloses
<1> QED BY <1>2, <1>3, <1>4, <1>5, <1>6, <1>7, <1>8, <1>9, <1>10, <1>11
        DEF CdcNext, TearDown, KafkaConnect

(* Initially nothing runs and nothing is left.                             *)
LEMMA CdcInitFacts == ASSUME CdcInit PROVE CdcTypeOK /\ StepsOfPhase /\ DeletedIsGone
<1>1. 0 \in 0 .. Attempts + 2 /\ 0 \in 0 .. MaxFaults /\ 0 \in 0 .. 1
  BY DropAssumption, FaultsAssumption
<1>2. CdcTypeOK
  BY <1>1 DEF CdcInit, CdcTypeOK
<1>3. StepsOfPhase /\ DeletedIsGone
  BY DEF CdcInit, StepsOfPhase, DeletedIsGone, MainSteps, AfterDelete
<1> QED BY <1>2, <1>3

(* A task that streams has begun with a snapshot of its own and published  *)
(* every change after it, and its topic holds events of earlier runs only  *)
(* if their deletion has failed in this run: a run that is killed, or      *)
(* whose clean-up fails, leaves nothing else that reaches the next one.    *)
THEOREM OwnSnapshot == CdcSpec => []OwnSnapshotFirst
<1>1. CdcInit => SlateInv
  <2> SUFFICES ASSUME CdcInit PROVE SlateInv
    OBVIOUS
  <2>1. CdcTypeOK /\ StepsOfPhase /\ DeletedIsGone
    BY CdcInitFacts
  <2> QED BY <2>1 DEF CdcInit, SlateInv, SlateIsClean, SnapshotThenChanges, MainSteps, Own
<1>2. SlateInv /\ [CdcNext]_cdcVars => SlateInv'
  BY NextCdcTypeOK, NextStepsOfPhase, NextDeletedIsGone, NextSlateIsClean,
     NextSnapshotThenChanges DEF SlateInv
<1>3. SlateInv => OwnSnapshotFirst
  <2> DEFINE Changes(s) == {[own |-> TRUE, op |-> "c", at |-> n] : n \in s + 1 .. published}
  <2> SUFFICES ASSUME SlateInv, phase = "main", task = "streaming"
               PROVE  /\ \E s \in 0 .. 1 :
                           Own = {[own |-> TRUE, op |-> "r", at |-> s]} \cup Changes(s)
                      /\ topic # Own => kept
    BY DEF OwnSnapshotFirst
  <2>1. published \in 0 .. 1
    BY DEF SlateInv, CdcTypeOK
  <2>2. PICK s \in 0 .. published :
          Own = {[own |-> TRUE, op |-> "r", at |-> s]} \cup Changes(s)
    BY DEF SlateInv, SnapshotThenChanges
  <2>3. s \in 0 .. 1
    BY <2>1, <2>2
  <2>4. topic # Own => kept
    BY DEF SlateInv, SlateIsClean
  <2> QED BY <2>2, <2>3, <2>4
<1> QED BY <1>1, <1>2, <1>3, PTL DEF CdcSpec

(* Only a killed run, one with a failing call, one that gave up on a slot  *)
(* in use and one of task 01 whose wait timed out before its try leave a   *)
(* slot behind, if no validator tries again on a connection whose          *)
(* transaction has failed.                                                 *)
THEOREM OrphansAreExcused ==
  ASSUME DropsWhenIdle PROVE CdcSpec => []OrphanIsExcused
<1> DEFINE I == CdcTypeOK /\ StepsOfPhase /\ DeletedIsGone /\ SlotInv
<1>1. CdcInit => I
  <2> SUFFICES ASSUME CdcInit PROVE I
    OBVIOUS
  <2>1. CdcTypeOK /\ StepsOfPhase /\ DeletedIsGone
    BY CdcInitFacts
  <2> QED BY <2>1 DEF CdcInit, SlotInv
<1>2. I /\ [CdcNext]_cdcVars => I'
  BY NextCdcTypeOK, NextStepsOfPhase, NextDeletedIsGone, NextSlotInv
<1>3. I => OrphanIsExcused
  BY DEF SlotInv, OrphanIsExcused
<1> QED BY <1>1, <1>2, <1>3, PTL DEF CdcSpec

-----------------------------------------------------------------------------
(* The types, without the bounds of an instance.                           *)
Pairs   == Nat \X Nat
Answers == [of : Pairs, alone : BOOLEAN]
Caches  == [state : {"absent", "torn", "whole"}, stamp : Nat, of : Pairs, alone : BOOLEAN]
Steps   == {"idle", "checking", "parsing", "clients", "stamping", "opening", "writing"}

FileTypes == /\ version \in Nat /\ events \in Nat /\ clients \in Nat /\ meta \in Nat
             /\ cache \in Caches
CallTypes == /\ pc \in [Validators -> Steps]
             /\ known \in [Validators -> Nat] /\ stamp \in [Validators -> Nat]
             /\ read \in [Validators -> Pairs]
             /\ alone \in [Validators -> BOOLEAN]
             /\ answer \in [Validators -> Answers]
Types == FileTypes /\ CallTypes

(* While it still reads, an undisturbed call finds the files as they were  *)
(* when it began.                                                          *)
StillSettled ==
    \A v \in Validators :
      (alone[v] /\ pc[v] \notin {"opening", "writing"}) =>
        Settled /\ known[v] = version

(* What such a call has read by then is what it began with.                *)
ReadIsKnown ==
    \A v \in Validators : alone[v] =>
      /\ pc[v] \in {"clients", "stamping", "opening", "writing"}
           => read[v][1] = known[v]
      /\ pc[v] \in {"stamping", "opening", "writing"} => read[v][2] = known[v]
      /\ pc[v] \in {"opening", "writing"} => stamp[v] = known[v]

(* A cache it has written answers for the sha in it.                       *)
CacheIsKeyed ==
    (cache.state = "whole" /\ cache.alone) =>
      cache.of = <<cache.stamp, cache.stamp>>

AnswersInv == Types /\ StillSettled /\ ReadIsKnown /\ CacheIsKeyed /\ AnswersAreCurrent

-----------------------------------------------------------------------------
LEMMA Values ==
  /\ Nothing \in Answers /\ ~Nothing.alone
  /\ Absent \in Caches /\ Absent.state = "absent"
  /\ Torn \in Caches /\ Torn.state = "torn"
<1>1. Nothing \in Answers /\ ~Nothing.alone
  BY DEF Nothing, Answers, Pairs
<1>2. Absent \in Caches /\ Absent.state = "absent"
  BY DEF Absent, Caches, Pairs
<1>3. Torn \in Caches /\ Torn.state = "torn"
  BY <1>2 DEF Torn, Caches
<1> QED BY <1>1, <1>2, <1>3

LEMMA InitInv == ASSUME AnswersInit PROVE AnswersInv
<1>1. FileTypes
  BY Values DEF AnswersInit, FileTypes
<1>2. CallTypes
  BY Values DEF AnswersInit, CallTypes, Steps, Pairs
<1>3. \A v \in Validators : ~alone[v] /\ answer[v] = Nothing
  BY DEF AnswersInit
<1>4. cache.state # "whole"
  BY Values DEF AnswersInit
<1> QED BY <1>1, <1>2, <1>3, <1>4, Values DEF AnswersInv, Types, StillSettled,
           ReadIsKnown, CacheIsKeyed, AnswersAreCurrent

-----------------------------------------------------------------------------
(* A step of the generator disturbs every call that still reads, and none  *)
(* can be undisturbed while it runs.                                       *)
LEMMA GenerateStep == ASSUME AnswersInv, Generate PROVE AnswersInv'
<1>1. UNCHANGED <<cache, pc, known, read, stamp, answer>>
  BY DEF Generate
<1>2. Types'
  BY <1>1 DEF AnswersInv, Types, FileTypes, CallTypes, Generate
<1>3. \A v \in Validators :
        alone'[v] = (alone[v] /\ pc[v] \in {"opening", "writing"})
  BY DEF Generate
<1>4. StillSettled'
  BY <1>1, <1>3 DEF StillSettled
<1>5. ReadIsKnown' /\ CacheIsKeyed' /\ AnswersAreCurrent'
  BY <1>1, <1>3 DEF AnswersInv, ReadIsKnown, CacheIsKeyed, AnswersAreCurrent
<1> QED BY <1>2, <1>4, <1>5 DEF AnswersInv

LEMMA GeneratorStep ==
  ASSUME AnswersInv, WriteEvents \/ WriteClients \/ WriteMeta \/ KillGenerator
  PROVE  AnswersInv'
<1>1. gen # "idle" /\ UNCHANGED <<cache, calls>>
  BY DEF WriteEvents, WriteClients, WriteMeta, KillGenerator
<1>2. UNCHANGED <<cache, pc, known, read, stamp, alone, answer>>
  BY <1>1 DEF calls
<1>3. Types'
  BY <1>2 DEF AnswersInv, Types, FileTypes, CallTypes, WriteEvents, WriteClients,
              WriteMeta, KillGenerator
<1>4. \A v \in Validators : alone[v] => pc[v] \in {"opening", "writing"}
  BY <1>1 DEF AnswersInv, StillSettled, Settled
<1> QED BY <1>2, <1>3, <1>4 DEF AnswersInv, StillSettled, ReadIsKnown,
                                CacheIsKeyed, AnswersAreCurrent

-----------------------------------------------------------------------------
(* A step of one call leaves the files and the other calls alone.          *)
Same(u) == /\ pc'[u] = pc[u] /\ known'[u] = known[u] /\ read'[u] = read[u]
           /\ stamp'[u] = stamp[u] /\ alone'[u] = alone[u] /\ answer'[u] = answer[u]

LEMMA CallStep ==
  ASSUME AnswersInv, NEW v \in Validators, UNCHANGED files,
         CallTypes', cache' \in Caches, CacheIsKeyed',
         \A u \in Validators : u # v => Same(u),
         (alone'[v] /\ pc'[v] \notin {"opening", "writing"})
            => Settled /\ known'[v] = version,
         alone'[v] =>
           /\ pc'[v] \in {"clients", "stamping", "opening", "writing"}
                => read'[v][1] = known'[v]
           /\ pc'[v] \in {"stamping", "opening", "writing"} => read'[v][2] = known'[v]
           /\ pc'[v] \in {"opening", "writing"} => stamp'[v] = known'[v],
         answer'[v].alone => answer'[v].of = <<known'[v], known'[v]>>
  PROVE  AnswersInv'
<1>1. UNCHANGED <<version, events, clients, meta, gen>>
  BY DEF files
<1>2. Types'
  BY <1>1 DEF AnswersInv, Types, FileTypes
<1>3. Settled' <=> Settled
  BY <1>1 DEF Settled
<1>4. StillSettled'
  BY <1>1, <1>3 DEF AnswersInv, StillSettled, Same
<1>5. ReadIsKnown'
  BY DEF AnswersInv, ReadIsKnown, Same
<1>6. AnswersAreCurrent'
  BY DEF AnswersInv, AnswersAreCurrent, Same
<1> QED BY <1>2, <1>4, <1>5, <1>6 DEF AnswersInv

(* A call that is over.                                                    *)
LEMMA LeaveStep ==
  ASSUME AnswersInv, NEW v \in Validators, Leave(v), UNCHANGED files,
         cache' \in Caches, CacheIsKeyed',
         NEW a \in Answers, answer' = [answer EXCEPT ![v] = a],
         a.alone => a.of = <<known[v], known[v]>>
  PROVE  AnswersInv'
<1>1. CallTypes
  BY DEF AnswersInv, Types
<1>2. CallTypes'
  BY <1>1 DEF CallTypes, Leave, MoveTo, Steps, Pairs
<1>3. \A u \in Validators : u # v => Same(u)
  BY <1>1 DEF CallTypes, Leave, MoveTo, Same
<1>4. ~alone'[v] /\ answer'[v] = a /\ known'[v] = known[v]
  BY <1>1 DEF CallTypes, Leave
<1> QED BY <1>2, <1>3, <1>4, CallStep

LEMMA RaiseStep == ASSUME AnswersInv, NEW v \in Validators, Raise(v) PROVE AnswersInv'
<1>1. cache' \in Caches /\ CacheIsKeyed'
  BY DEF AnswersInv, Types, FileTypes, CacheIsKeyed, Raise
<1> QED BY <1>1, Values, LeaveStep DEF Raise

LEMMA ReturnCachedStep ==
  ASSUME AnswersInv, NEW v \in Validators, ReturnCached(v) PROVE AnswersInv'
<1> DEFINE a == [of |-> cache.of, alone |-> alone[v] /\ cache.alone]
<1>1. cache \in Caches /\ cache' \in Caches /\ CacheIsKeyed'
  BY DEF AnswersInv, Types, FileTypes, CacheIsKeyed, ReturnCached
<1>2. a \in Answers
  BY <1>1 DEF AnswersInv, Types, CallTypes, Caches, Answers
<1>3. a.alone => a.of = <<known[v], known[v]>>
  BY DEF AnswersInv, CacheIsKeyed, ReturnCached, Hit
<1>4. answer' = [answer EXCEPT ![v] = a] /\ Leave(v) /\ UNCHANGED files
  BY DEF ReturnCached
<1> QED BY <1>1, <1>2, <1>3, <1>4, LeaveStep

LEMMA KillValidatorStep ==
  ASSUME AnswersInv, NEW v \in Validators, KillValidator(v) PROVE AnswersInv'
<1>1. cache' \in Caches /\ CacheIsKeyed'
  BY DEF AnswersInv, Types, FileTypes, CacheIsKeyed, KillValidator
<1>2. answer' = [answer EXCEPT ![v] = answer[v]] /\ answer[v] \in Answers
  BY DEF AnswersInv, Types, CallTypes, KillValidator
<1>3. answer[v].alone => answer[v].of = <<known[v], known[v]>>
  BY DEF AnswersInv, AnswersAreCurrent
<1> QED BY <1>1, <1>2, <1>3, LeaveStep DEF KillValidator

LEMMA CloseCacheStep ==
  ASSUME AnswersInv, NEW v \in Validators, CloseCache(v) PROVE AnswersInv'
<1> DEFINE a == [of |-> read[v], alone |-> alone[v]]
           c == [state |-> "whole", stamp |-> stamp[v], of |-> read[v],
                 alone |-> alone[v]]
<1>1. read[v] \in Pairs /\ a \in Answers /\ c \in Caches
  BY DEF AnswersInv, Types, CallTypes, Answers, Caches
<1>2. alone[v] => read[v] = <<known[v], known[v]>> /\ stamp[v] = known[v]
  BY <1>1 DEF AnswersInv, ReadIsKnown, CloseCache, Pairs
<1>3. cache' \in {c, Torn}
  BY DEF CloseCache
<1>4. cache' \in Caches /\ CacheIsKeyed'
  BY <1>1, <1>2, <1>3, Values DEF CacheIsKeyed
<1>5. answer' = [answer EXCEPT ![v] = a] /\ Leave(v) /\ UNCHANGED files
  BY DEF CloseCache
<1> QED BY <1>1, <1>2, <1>4, <1>5, LeaveStep

-----------------------------------------------------------------------------
(* A call that goes on.                                                    *)
LEMMA LoadMetaStep == ASSUME AnswersInv, NEW v \in Validators, LoadMeta(v) PROVE AnswersInv'
<1>1. CallTypes /\ meta \in Nat
  BY DEF AnswersInv, Types, FileTypes
<1>2. cache' \in Caches /\ CacheIsKeyed' /\ UNCHANGED files
  BY DEF AnswersInv, Types, FileTypes, CacheIsKeyed, LoadMeta
<1>3. CallTypes'
  BY <1>1, Values DEF CallTypes, LoadMeta, MoveTo, Steps, Settled
<1>4. \A u \in Validators : u # v => Same(u)
  BY <1>1 DEF CallTypes, LoadMeta, MoveTo, Same
<1>5. /\ pc'[v] = "checking" /\ known'[v] = meta /\ alone'[v] = Settled
      /\ answer'[v] = Nothing
  BY <1>1 DEF CallTypes, LoadMeta, MoveTo
<1>6. (alone'[v] /\ pc'[v] \notin {"opening", "writing"})
         => Settled /\ known'[v] = version
  BY <1>5 DEF Settled
<1> QED BY <1>2, <1>3, <1>4, <1>5, <1>6, Values, CallStep

LEMMA OnwardStep ==
  ASSUME AnswersInv, NEW v \in Validators, UNCHANGED <<files, known, alone, answer>>,
         cache' \in Caches, CacheIsKeyed',
         pc'[v] \in Steps, pc' = [pc EXCEPT ![v] = pc'[v]],
         read'[v] \in Pairs, read' = [read EXCEPT ![v] = read'[v]],
         stamp'[v] \in Nat, stamp' = [stamp EXCEPT ![v] = stamp'[v]],
         pc'[v] \notin {"opening", "writing"} => pc[v] \notin {"opening", "writing"},
         alone[v] =>
           /\ pc'[v] \in {"clients", "stamping", "opening", "writing"}
                => read'[v][1] = known[v]
           /\ pc'[v] \in {"stamping", "opening", "writing"} => read'[v][2] = known[v]
           /\ pc'[v] \in {"opening", "writing"} => stamp'[v] = known[v]
  PROVE  AnswersInv'
<1>1. CallTypes
  BY DEF AnswersInv, Types
<1>2. CallTypes'
  <2>1. pc' \in [Validators -> Steps]
    BY <1>1 DEF CallTypes
  <2>2. read' \in [Validators -> Pairs] /\ stamp' \in [Validators -> Nat]
    BY <1>1 DEF CallTypes
  <2> QED BY <1>1, <2>1, <2>2 DEF CallTypes
<1>3. \A u \in Validators : u # v => Same(u)
  <2>1. ASSUME NEW u \in Validators, u # v
        PROVE  pc'[u] = pc[u] /\ read'[u] = read[u] /\ stamp'[u] = stamp[u]
    BY <1>1, <2>1 DEF CallTypes
  <2> QED BY <2>1 DEF Same
<1>4. (alone'[v] /\ pc'[v] \notin {"opening", "writing"})
         => Settled /\ known'[v] = version
  BY DEF AnswersInv, StillSettled
<1>5. answer'[v].alone => answer'[v].of = <<known'[v], known'[v]>>
  BY DEF AnswersInv, AnswersAreCurrent
<1> QED BY <1>2, <1>3, <1>4, <1>5, CallStep

LEMMA OnwardFacts ==
  ASSUME AnswersInv, NEW v \in Validators
  PROVE  /\ read[v] \in Pairs /\ stamp[v] \in Nat
         /\ UNCHANGED read => read' = [read EXCEPT ![v] = read'[v]] /\ read'[v] = read[v]
         /\ UNCHANGED stamp => stamp' = [stamp EXCEPT ![v] = stamp'[v]] /\ stamp'[v] = stamp[v]
         /\ UNCHANGED cache => cache' \in Caches /\ CacheIsKeyed'
         /\ events \in Nat /\ clients \in Nat /\ meta \in Nat
         /\ (alone[v] /\ pc[v] \notin {"opening", "writing"}) =>
               events = known[v] /\ clients = known[v] /\ meta = known[v]
BY DEF AnswersInv, Types, FileTypes, CallTypes, CacheIsKeyed, StillSettled, Settled

LEMMA MoveToFacts ==
  ASSUME AnswersInv, NEW v \in Validators, NEW l \in Steps, MoveTo(v, l)
  PROVE  pc'[v] = l /\ pc' = [pc EXCEPT ![v] = pc'[v]]
BY DEF AnswersInv, Types, CallTypes, MoveTo

LEMMA ComputeStep == ASSUME AnswersInv, NEW v \in Validators, Compute(v) PROVE AnswersInv'
<1>1. pc'[v] = "parsing" /\ pc' = [pc EXCEPT ![v] = pc'[v]] /\ pc[v] = "checking"
  BY MoveToFacts DEF Compute, Steps
<1>2. UNCHANGED <<files, cache, known, read, stamp, alone, answer>>
  BY DEF Compute
<1> QED BY <1>1, <1>2, OnwardFacts, OnwardStep DEF Steps

LEMMA ParseEventsStep ==
  ASSUME AnswersInv, NEW v \in Validators, ParseEvents(v) PROVE AnswersInv'
<1>1. CASE events = 0 /\ Raise(v)
  BY <1>1, RaiseStep
<1>2. CASE /\ read' = [read EXCEPT ![v] = <<events, @[2]>>]
           /\ MoveTo(v, "clients")
           /\ UNCHANGED <<files, cache, known, stamp, alone, answer, kills>>
  <2>1. read'[v] = <<events, read[v][2]>> /\ read' = [read EXCEPT ![v] = read'[v]]
    BY <1>2 DEF AnswersInv, Types, CallTypes
  <2>2. read'[v] \in Pairs /\ read'[v][1] = events
    BY <2>1, OnwardFacts DEF Pairs
  <2>3. pc'[v] = "clients" /\ pc' = [pc EXCEPT ![v] = pc'[v]] /\ pc[v] = "parsing"
    BY <1>2, MoveToFacts DEF ParseEvents, Steps
  <2> QED BY <1>2, <2>1, <2>2, <2>3, OnwardFacts, OnwardStep DEF Steps
<1> QED BY <1>1, <1>2 DEF ParseEvents

LEMMA ParseClientsStep ==
  ASSUME AnswersInv, NEW v \in Validators, ParseClients(v) PROVE AnswersInv'
<1>1. CASE clients = 0 /\ Raise(v)
  BY <1>1, RaiseStep
<1>2. CASE /\ read' = [read EXCEPT ![v] = <<@[1], clients>>]
           /\ MoveTo(v, "stamping")
           /\ UNCHANGED <<files, cache, known, stamp, alone, answer, kills>>
  <2>1. read'[v] = <<read[v][1], clients>> /\ read' = [read EXCEPT ![v] = read'[v]]
    BY <1>2 DEF AnswersInv, Types, CallTypes
  <2>2. read'[v] \in Pairs /\ read'[v][1] = read[v][1] /\ read'[v][2] = clients
    BY <2>1, OnwardFacts DEF Pairs
  <2>3. pc'[v] = "stamping" /\ pc' = [pc EXCEPT ![v] = pc'[v]] /\ pc[v] = "clients"
    BY <1>2, MoveToFacts DEF ParseClients, Steps
  <2>4. alone[v] => read[v][1] = known[v]
    BY <2>3 DEF AnswersInv, ReadIsKnown
  <2> QED BY <1>2, <2>1, <2>2, <2>3, <2>4, OnwardFacts, OnwardStep DEF Steps
<1> QED BY <1>1, <1>2 DEF ParseClients

LEMMA StampStep == ASSUME AnswersInv, NEW v \in Validators, Stamp(v) PROVE AnswersInv'
<1>1. CASE meta = 0 /\ Raise(v)
  BY <1>1, RaiseStep
<1>2. CASE /\ meta # 0
           /\ stamp' = [stamp EXCEPT ![v] = meta]
           /\ MoveTo(v, "opening")
           /\ UNCHANGED <<files, cache, known, read, alone, answer, kills>>
  <2>1. pc'[v] = "opening" /\ pc' = [pc EXCEPT ![v] = pc'[v]] /\ pc[v] = "stamping"
    BY <1>2, MoveToFacts DEF Stamp, Steps
  <2>2. alone[v] => read[v][1] = known[v] /\ read[v][2] = known[v]
    BY <2>1 DEF AnswersInv, ReadIsKnown
  <2>3. stamp'[v] = meta /\ stamp' = [stamp EXCEPT ![v] = stamp'[v]]
    BY <1>2 DEF AnswersInv, Types, CallTypes
  <2> QED BY <1>2, <2>1, <2>2, <2>3, OnwardFacts, OnwardStep DEF Steps
<1> QED BY <1>1, <1>2 DEF Stamp

LEMMA OpenCacheStep == ASSUME AnswersInv, NEW v \in Validators, OpenCache(v) PROVE AnswersInv'
<1>1. cache' \in Caches /\ CacheIsKeyed'
  BY Values DEF OpenCache, CacheIsKeyed
<1>2. pc'[v] = "writing" /\ pc' = [pc EXCEPT ![v] = pc'[v]] /\ pc[v] = "opening"
  BY MoveToFacts DEF OpenCache, Steps
<1>3. alone[v] => /\ read[v][1] = known[v] /\ read[v][2] = known[v]
                  /\ stamp[v] = known[v]
  BY <1>2 DEF AnswersInv, ReadIsKnown
<1>4. UNCHANGED <<files, known, read, stamp, alone, answer>>
  BY DEF OpenCache
<1> QED BY <1>1, <1>2, <1>3, <1>4, OnwardFacts, OnwardStep DEF Steps

-----------------------------------------------------------------------------
LEMMA NextInv == ASSUME AnswersInv, [AnswersNext]_answerVars PROVE AnswersInv'
<1>1. CASE Generator \/ KillGenerator
  BY <1>1, GenerateStep, GeneratorStep DEF Generator
<1>2. CASE \E v \in Validators : Validator(v) \/ KillValidator(v)
  <2>1. PICK v \in Validators : Validator(v) \/ KillValidator(v)
    BY <1>2
  <2> QED BY <2>1, LoadMetaStep, RaiseStep, ReturnCachedStep, ComputeStep,
             ParseEventsStep, ParseClientsStep, StampStep, OpenCacheStep,
             CloseCacheStep, KillValidatorStep DEF Validator, MetaIsTorn, CacheIsTorn
<1>3. CASE UNCHANGED answerVars
  <2>1. UNCHANGED <<version, events, clients, meta, gen, cache, pc, known, read,
                    stamp, alone, answer>>
    BY <1>3 DEF answerVars, files, calls
  <2> QED BY <2>1 DEF AnswersInv, Types, FileTypes, CallTypes, StillSettled,
                      ReadIsKnown, CacheIsKeyed, AnswersAreCurrent, Settled
<1> QED BY <1>1, <1>2, <1>3 DEF AnswersNext

(* Validators that overlap, are killed or leave a torn cache never make    *)
(* load_or_compute answer for other files than those a call began with.    *)
THEOREM AnswersCurrent == AnswersSpec => []AnswersAreCurrent
<1>1. AnswersInv => AnswersAreCurrent
  BY DEF AnswersInv
<1> QED BY <1>1, InitInv, NextInv, PTL DEF AnswersSpec

-----------------------------------------------------------------------------
(* What the type of the file says of its lines.                            *)
LEMMA FileFacts ==
  ASSUME StreamTypeOK
  PROVE  /\ today \in Nat /\ Len(file) \in Nat /\ DOMAIN file = 1 .. Len(file)
         /\ \A i \in DOMAIN file :
              /\ i \in Nat
              /\ file[i] \in [type : LineTypes, shop : Shops, t : Nat, ing : Nat,
                              val : LineValues]
              /\ file[i].t \in Nat /\ file[i].ing \in Nat
<1> DEFINE R == [type : LineTypes, shop : Shops, t : Nat, ing : Nat, val : LineValues]
<1>1. today \in Nat /\ file \in Seq(R)
  BY DEF StreamTypeOK
<1>2. \A r \in R : r.t \in Nat /\ r.ing \in Nat
  OBVIOUS
<1> HIDE DEF R
<1>3. Len(file) \in Nat /\ DOMAIN file = 1 .. Len(file) /\ \A i \in DOMAIN file : file[i] \in R
  BY <1>1
<1> QED BY <1>1, <1>2, <1>3 DEF R

(* A set of places that has every place before one it has.                 *)
LEMMA DownwardClosed ==
  ASSUME NEW n \in Nat, NEW B \in SUBSET (1 .. n),
         \A j \in B : \A i \in 1 .. j : i \in B
  PROVE  Cardinality(B) \in 0 .. n /\ B = 1 .. Cardinality(B)
<1>1. IsFiniteSet(1 .. n) /\ Cardinality(1 .. n) = n
  BY FS_Interval
<1>2. IsFiniteSet(B) /\ Cardinality(B) \in Nat /\ Cardinality(B) <= n
  <2>1. IsFiniteSet(B) /\ Cardinality(B) <= Cardinality(1 .. n)
    BY <1>1, FS_Subset
  <2>2. Cardinality(B) \in Nat
    BY <2>1, FS_CardinalityType
  <2> QED BY <1>1, <2>1, <2>2
<1>3. \A m \in Nat : IsFiniteSet(1 .. m) /\ Cardinality(1 .. m) = m
  BY FS_Interval
<1>4. ASSUME NEW j \in B PROVE j <= Cardinality(B)
  <2>1. j \in Nat /\ (1 .. j) \in SUBSET B
    OBVIOUS
  <2> QED BY <1>2, <1>3, <2>1, FS_Subset
<1>5. B \in SUBSET (1 .. Cardinality(B))
  BY <1>2, <1>4
<1>6. Cardinality(1 .. Cardinality(B)) = Cardinality(B)
  BY <1>2, <1>3
<1>7. B = 1 .. Cardinality(B)
  BY <1>2, <1>3, <1>5, <1>6, FS_Subset
<1> QED BY <1>2, <1>7

(* Sorting keeps the lines and puts each where its rank says.              *)
LEMMA Sorting ==
  ASSUME StreamTypeOK, NEW P \in SUBSET DOMAIN file
  PROVE  /\ IsFiniteSet(P) /\ Cardinality(P) \in Nat
         /\ \E f \in [1 .. Cardinality(P) -> P] :
              /\ ByTime(P) = [k \in 1 .. Cardinality(P) |-> file[f[k]]]
              /\ \A i \in P : \E k \in 1 .. Cardinality(P) : f[k] = i
              /\ \A j, k \in 1 .. Cardinality(P) :
                   j < k => Sooner(f[j], f[k]) /\ f[j] # f[k]
<1> DEFINE n == Cardinality(P)
           Upto(i) == {j \in P : Sooner(j, i)}
           rank == [i \in P |-> Rank(P, i)]
           f == [k \in 1 .. n |-> CHOOSE i \in P : Rank(P, i) = k]
<1>1. IsFiniteSet(P) /\ n \in Nat
  <2>1. IsFiniteSet(1 .. Len(file))
    BY FileFacts, FS_Interval
  <2> QED BY <2>1, FileFacts, FS_Subset, FS_CardinalityType
<1>2. \A i \in P : i \in Nat /\ file[i].t \in Nat
  BY FileFacts
<1>3. \A i, j, k \in P : /\ Sooner(i, i)
                         /\ Sooner(i, j) \/ Sooner(j, i)
                         /\ (Sooner(i, j) /\ Sooner(j, i)) => i = j
                         /\ (Sooner(i, j) /\ Sooner(j, k)) => Sooner(i, k)
  BY <1>2 DEF Sooner
<1>4. \A i \in P : Upto(i) \in SUBSET P /\ i \in Upto(i) /\ Rank(P, i) = Cardinality(Upto(i))
  BY <1>3 DEF Rank
<1>5. \A i, j \in P : j \in Upto(i) <=> Sooner(j, i)
  OBVIOUS
<1> HIDE DEF Upto
<1>6. \A i \in P : /\ IsFiniteSet(Upto(i)) /\ Cardinality(Upto(i)) \in Nat
                   /\ Cardinality(Upto(i)) <= n
  BY <1>1, <1>4, FS_Subset, FS_CardinalityType
<1>7. \A i \in P : Rank(P, i) \in 1 .. n
  <2> SUFFICES ASSUME NEW i \in P PROVE Cardinality(Upto(i)) # 0
    BY <1>1, <1>4, <1>6
  <2> QED BY <1>4, <1>6, FS_EmptySet
<1>8. ASSUME NEW i \in P, NEW j \in P, i # j, Sooner(i, j)
      PROVE  Rank(P, i) < Rank(P, j)
  <2>1. Upto(i) \in SUBSET Upto(j)
    BY <1>3, <1>4, <1>5, <1>8
  <2>2. j \in Upto(j) /\ j \notin Upto(i)
    BY <1>3, <1>4, <1>5, <1>8
  <2>3. /\ Cardinality(Upto(i)) <= Cardinality(Upto(j))
        /\ Cardinality(Upto(j)) = Cardinality(Upto(i)) => Upto(j) = Upto(i)
    BY <1>6, <2>1, FS_Subset
  <2> QED BY <1>4, <1>6, <2>2, <2>3
<1>9. rank \in Injection(P, 1 .. n)
  <2>1. \A i, j \in P : Rank(P, i) = Rank(P, j) => i = j
    BY <1>3, <1>7, <1>8
  <2> QED BY <1>7, <2>1 DEF Injection, IsInjective
<1>10. \A k \in 1 .. n : \E i \in P : Rank(P, i) = k
  <2>1. IsFiniteSet(1 .. n) /\ Cardinality(1 .. n) = n
    BY <1>1, FS_Interval
  <2>2. rank \in Surjection(P, 1 .. n)
    <3> HIDE DEF rank
    <3> QED BY <1>9, <2>1, FS_Injection
  <2> QED BY <2>2 DEF Surjection
<1>11. \A k \in 1 .. n : f[k] \in P /\ Rank(P, f[k]) = k
  BY <1>10
<1>12. ByTime(P) = [k \in 1 .. n |-> file[f[k]]]
  BY DEF ByTime
<1> HIDE DEF f
<1>13. \A i \in P : \E k \in 1 .. n : f[k] = i
  <2> SUFFICES ASSUME NEW i \in P PROVE f[Rank(P, i)] = i
    BY <1>7
  <2>1. f[Rank(P, i)] \in P /\ Rank(P, f[Rank(P, i)]) = Rank(P, i)
    BY <1>7, <1>11
  <2> QED BY <1>3, <1>7, <1>8, <2>1
<1>14. ASSUME NEW j \in 1 .. n, NEW k \in 1 .. n, j < k
       PROVE  Sooner(f[j], f[k]) /\ f[j] # f[k]
  <2>1. f[j] # f[k]
    BY <1>11, <1>14
  <2>2. ~Sooner(f[k], f[j])
    <3> SUFFICES ASSUME Sooner(f[k], f[j]) PROVE FALSE
      OBVIOUS
    <3>1. Rank(P, f[k]) < Rank(P, f[j])
      BY <1>8, <1>11, <2>1
    <3> QED BY <1>11, <1>14, <3>1
  <2> QED BY <1>3, <1>11, <2>1, <2>2
<1>15. f \in [1 .. n -> P]
  BY <1>11 DEF f
<1> QED BY <1>1, <1>12, <1>13, <1>14, <1>15

(* Places are places of the file, and lines are what stands there.         *)
LEMMA PlacesFacts ==
  ASSUME NEW types, NEW s
  PROVE  /\ PlacesOf(types, s) \in SUBSET DOMAIN file
         /\ Places(types) \in SUBSET DOMAIN file
         /\ Lines(types) = {file[i] : i \in Places(types)}
         /\ LinesOf(types, s) = {file[i] : i \in PlacesOf(types, s)}
BY DEF Places, PlacesOf, Lines, LinesOf, ToSet

(* Breakpoints in the order of their times, one of them no later than t.   *)
Breakpoints(bp, n, t) ==
    /\ n \in Nat /\ t \in Nat /\ DOMAIN bp = 1 .. n
    /\ \A i \in 1 .. n : bp[i].t \in Nat
    /\ \A i, j \in 1 .. n : i < j => bp[i].t <= bp[j].t
    /\ \E i \in 1 .. n : bp[i].t <= t

(* m is the last of the breakpoints up to t.                               *)
LastUpTo(bp, n, t, m) ==
    bp[m].t <= t /\ \A i \in 1 .. n : bp[i].t <= t => bp[i].t <= bp[m].t

(* Looking up a time in breakpoints finds the last one up to it.           *)
LEMMA AsOfFindsLast ==
  ASSUME NEW n, NEW bp, NEW t, Breakpoints(bp, n, t)
  PROVE  \E m \in 1 .. n : AsOf(bp, t) = bp[m].val /\ LastUpTo(bp, n, t, m)
<1> USE DEF Breakpoints
<1> DEFINE B == {i \in DOMAIN bp : bp[i].t <= t}
           m == Cardinality(B)
<1>1. B \in SUBSET (1 .. n) /\ B # {}
  OBVIOUS
<1>2. \A j \in B : \A i \in 1 .. j : i \in B
  <2> SUFFICES ASSUME NEW j \in B, NEW i \in 1 .. j PROVE i \in B
    OBVIOUS
  <2>1. i \in 1 .. n /\ j \in 1 .. n /\ bp[j].t <= t /\ (i = j \/ i < j)
    OBVIOUS
  <2>2. bp[i].t <= bp[j].t /\ bp[i].t \in Nat /\ bp[j].t \in Nat
    BY <2>1
  <2> QED BY <2>1, <2>2
<1>3. BisectRight(bp, t) = m
  BY DEF BisectRight
<1>4. \A i \in 1 .. n : i \in B <=> bp[i].t <= t
  OBVIOUS
<1> HIDE DEF B
<1>5. m \in 0 .. n /\ B = 1 .. m
  BY <1>1, <1>2, DownwardClosed
<1>6. m \in 1 .. n /\ m \in B
  BY <1>1, <1>5
<1>7. AsOf(bp, t) = bp[m].val
  BY <1>3, <1>6 DEF AsOf
<1>8. \A i \in 1 .. n : bp[i].t <= t => i = m \/ i < m
  BY <1>4, <1>5, <1>6
<1>9. \A i \in 1 .. n : bp[i].t <= t => bp[i].t <= bp[m].t
  BY <1>6, <1>8
<1> QED BY <1>4, <1>6, <1>7, <1>9 DEF LastUpTo

(* The tier the replay finds is the one the fold over events does.         *)
LEMMA TierFollows ==
  ASSUME StreamInv, NEW s \in Shops, NEW t \in Nat
  PROVE  AsOf(TierBreakpoints(s), t) = Fold(LinesOf(Tier, s), t, "none")
<1> DEFINE P == PlacesOf(Tier, s)
           n == Cardinality(P)
           bp == TierBreakpoints(s)
           past == {l \in LinesOf(Tier, s) : l.t <= t}
<1>1. /\ StreamTypeOK /\ P \in SUBSET DOMAIN file /\ \A i \in P : file[i].t \in Nat
      /\ LinesOf(Tier, s) = {file[i] : i \in P}
  BY FileFacts, PlacesFacts DEF StreamInv
<1>2. /\ \E i \in P : file[i].t = 0
      /\ \A i, j \in P : file[i].t = file[j].t => i = j
  BY DEF StreamInv, TiersAreApart
<1> HIDE DEF P
<1>3. n \in Nat
  BY <1>1, Sorting
<1>4. PICK f \in [1 .. n -> P] :
        /\ ByTime(P) = [k \in 1 .. n |-> file[f[k]]]
        /\ \A i \in P : \E k \in 1 .. n : f[k] = i
        /\ \A j, k \in 1 .. n : j < k => Sooner(f[j], f[k]) /\ f[j] # f[k]
  BY <1>1, Sorting
<1>5. bp = [k \in 1 .. n |-> file[f[k]]]
  BY <1>4 DEF TierBreakpoints, P
<1> HIDE DEF n
<1>6. PICK m \in 1 .. n : AsOf(bp, t) = bp[m].val /\ LastUpTo(bp, n, t, m)
  <2>1. DOMAIN bp = 1 .. n /\ \A i \in 1 .. n : bp[i] = file[f[i]] /\ f[i] \in P
    BY <1>5
  <2>2. \A i \in 1 .. n : bp[i].t \in Nat
    BY <1>1, <2>1
  <2>3. \A i, j \in 1 .. n : i < j => bp[i].t <= bp[j].t
    BY <1>1, <1>4, <2>1 DEF Sooner
  <2>4. \E i \in 1 .. n : bp[i].t <= t
    BY <1>2, <1>4, <2>1
  <2> HIDE DEF bp
  <2>5. Breakpoints(bp, n, t)
    BY <1>3, <2>1, <2>2, <2>3, <2>4 DEF Breakpoints
  <2> QED BY <2>5, AsOfFindsLast
<1>7. bp[m] \in past /\ \A l \in past : l.t <= bp[m].t
  BY <1>1, <1>4, <1>5, <1>6 DEF LastUpTo
<1>8. \A l \in past : (\A k \in past : k.t <= l.t) => l = bp[m]
  <2> SUFFICES ASSUME NEW l \in past, \A k \in past : k.t <= l.t PROVE l = bp[m]
    OBVIOUS
  <2>1. PICK i \in P : l = file[i]
    BY <1>1
  <2>2. bp[m] = file[f[m]] /\ f[m] \in P
    BY <1>4, <1>5
  <2>3. l.t <= bp[m].t /\ bp[m].t <= l.t
    BY <1>7
  <2>4. file[i].t = file[f[m]].t
    BY <1>1, <2>1, <2>2, <2>3
  <2> QED BY <1>2, <2>1, <2>2, <2>4
<1>9. (CHOOSE l \in past : \A k \in past : k.t <= l.t) = bp[m]
  BY <1>7, <1>8
<1> QED BY <1>6, <1>7, <1>9 DEF Fold

(* The category the replay finds is the one the fold over events does, if  *)
(* a shop had discovered the product by then.                              *)
LEMMA CategoryFollows ==
  ASSUME StreamInv, NEW t \in Nat, \E j \in Places(Discover) : file[j].t <= t
  PROVE  AsOf(CategoryBreakpoints, t) = Fold(Lines(Change), t, FirstCategory)
<1> DEFINE P == Places(Discover)
           Q == Places(Change)
           n == Cardinality(P)
           m == Cardinality(Q)
           d == ByTime(P)[1]
           q == ByTime(Q)
           bp == CategoryBreakpoints
           past == {l \in Lines(Change) : l.t <= t}
           R == [type : LineTypes, shop : Shops, t : Nat, ing : Nat, val : LineValues]
<1>1. /\ StreamTypeOK /\ P \in SUBSET DOMAIN file /\ Q \in SUBSET DOMAIN file
      /\ \A i \in P \cup Q : file[i].t \in Nat /\ file[i] \in R
      /\ Lines(Change) = {file[i] : i \in Q}
  BY FileFacts, PlacesFacts DEF StreamInv
<1>2. /\ \A i \in P : file[i].val = FirstCategory
      /\ \A i \in Q : \E j \in P : file[j].t < file[i].t
      /\ \A i, j \in Q : i = j
      /\ \E j \in P : file[j].t <= t
  BY DEF StreamInv, DiscoveredFirst
<1>3. bp = <<d>> \o q
  BY DEF CategoryBreakpoints
<1> HIDE DEF P, Q, R
<1>4. n \in Nat /\ m \in Nat
  BY <1>1, Sorting
<1>5. PICK f \in [1 .. n -> P] :
        /\ ByTime(P) = [k \in 1 .. n |-> file[f[k]]]
        /\ \A i \in P : \E k \in 1 .. n : f[k] = i
        /\ \A j, k \in 1 .. n : j < k => Sooner(f[j], f[k]) /\ f[j] # f[k]
  BY <1>1, Sorting
<1>6. PICK g \in [1 .. m -> Q] :
        /\ q = [k \in 1 .. m |-> file[g[k]]]
        /\ \A i \in Q : \E k \in 1 .. m : g[k] = i
        /\ \A j, k \in 1 .. m : j < k => Sooner(g[j], g[k]) /\ g[j] # g[k]
  BY <1>1, Sorting
<1> HIDE DEF n, m, q
<1>7. 1 \in 1 .. n /\ f[1] \in P /\ d = file[f[1]]
  BY <1>2, <1>4, <1>5
<1>8. /\ d \in R /\ d.t \in Nat /\ d.val = FirstCategory
      /\ \A j \in P : d.t <= file[j].t
  <2>1. ASSUME NEW j \in P PROVE d.t <= file[j].t
    <3>1. PICK k \in 1 .. n : f[k] = j
      BY <1>5
    <3>2. k = 1 \/ 1 < k
      BY <1>4
    <3> QED BY <1>1, <1>5, <1>7, <3>1, <3>2 DEF Sooner
  <2> QED BY <1>1, <1>2, <1>7, <2>1
<1>9. d.t <= t /\ \A i \in Q : d.t < file[i].t
  BY <1>1, <1>2, <1>8
<1>10. m \in {0, 1} /\ \A k \in 1 .. m : g[k] \in Q /\ q[k] = file[g[k]]
  BY <1>2, <1>4, <1>6
<1>11. /\ Len(<<d>>) = 1 /\ <<d>>[1] = d /\ <<d>> \in Seq(R)
       /\ q \in Seq(R) /\ Len(q) = m
  BY <1>1, <1>4, <1>6, <1>8, <1>10
<1>12. /\ DOMAIN bp = 1 .. 1 + m /\ bp[1] = d
       /\ \A k \in 1 .. m : bp[k + 1] = q[k]
  <2>1. /\ <<d>> \o q \in Seq(R) /\ Len(<<d>> \o q) = 1 + m
        /\ \A i \in 1 .. 1 + m : (<<d>> \o q)[i] = IF i <= 1 THEN <<d>>[i] ELSE q[i - 1]
    BY <1>11, ConcatProperties
  <2> QED BY <1>3, <1>4, <1>11, <2>1
<1> HIDE DEF d, bp
<1>13. PICK k \in 1 .. 1 + m : AsOf(bp, t) = bp[k].val /\ LastUpTo(bp, 1 + m, t, k)
  <2>1. Breakpoints(bp, 1 + m, t)
    BY <1>1, <1>8, <1>9, <1>10, <1>12 DEF Breakpoints
  <2> QED BY <2>1, AsOfFindsLast
<1>14. CASE past = {}
  <2>1. k = 1
    <3> SUFFICES ASSUME k # 1 PROVE FALSE
      OBVIOUS
    <3>1. k - 1 \in 1 .. m /\ bp[k] = file[g[k - 1]] /\ g[k - 1] \in Q
      BY <1>4, <1>10, <1>12
    <3> QED BY <1>1, <1>13, <1>14, <3>1 DEF LastUpTo
  <2> QED BY <1>8, <1>12, <1>13, <1>14, <2>1 DEF Fold, bp
<1>15. CASE past # {}
  <2>1. PICK i \in Q : file[i] \in past
    BY <1>1, <1>15
  <2>2. past = {file[i]}
    BY <1>1, <1>2, <2>1
  <2>3. m = 1 /\ bp[2] = file[i]
    BY <1>2, <1>6, <1>10, <1>12, <2>1
  <2>4. bp[k].val = file[i].val
    <3> SUFFICES ASSUME k = 1 PROVE bp[k].val = file[i].val
      BY <2>3
    <3>1. file[i].t <= d.t
      BY <1>12, <1>13, <2>1, <2>3 DEF LastUpTo
    <3> QED BY <1>1, <1>8, <1>9, <3>1
  <2>5. (CHOOSE l \in past : \A h \in past : h.t <= l.t) = file[i]
    BY <1>1, <2>1, <2>2
  <2> QED BY <1>13, <1>15, <2>4, <2>5 DEF Fold, bp
<1> QED BY <1>14, <1>15

(* The places of s where a price is observed for the first time.           *)
FirstSeen(s) == {i \in PlacesOf(Observe, s) :
                   \A j \in PlacesOf(Observe, s) : file[j].t = file[i].t => i <= j}

(* Dropping equals of a neighbour after the sort keeps each price's first  *)
(* arrival.                                                                *)
LEMMA DedupKeepsFirst ==
  ASSUME StreamInv, NEW s \in Shops
  PROVE  /\ Dedup(s) = {file[i] : i \in FirstSeen(s)}
         /\ \A i \in PlacesOf(Observe, s) : \E j \in FirstSeen(s) : file[j].t = file[i].t
<1> DEFINE P == PlacesOf(Observe, s)
           n == Cardinality(P)
           obs == ByTime(P)
           F == FirstSeen(s)
           New == {j \in DOMAIN obs : j = 1 \/ obs[j].t # obs[j - 1].t}
<1>1. StreamTypeOK /\ P \in SUBSET DOMAIN file /\ \A i \in P : file[i].t \in Nat /\ i \in Nat
  BY FileFacts, PlacesFacts DEF StreamInv
<1>2. \A i \in P : i \in F <=> \A j \in P : file[j].t = file[i].t => i <= j
  BY DEF FirstSeen
<1>3. F \subseteq P /\ Dedup(s) = {obs[i] : i \in New}
  BY DEF FirstSeen, Dedup
<1> HIDE DEF P, F
<1>4. n \in Nat
  BY <1>1, Sorting
<1>5. PICK f \in [1 .. n -> P] :
        /\ ByTime(P) = [k \in 1 .. n |-> file[f[k]]]
        /\ \A i \in P : \E k \in 1 .. n : f[k] = i
        /\ \A j, k \in 1 .. n : j < k => Sooner(f[j], f[k]) /\ f[j] # f[k]
  BY <1>1, Sorting
<1>6. /\ DOMAIN obs = 1 .. n
      /\ \A k \in 1 .. n : f[k] \in P /\ obs[k] = file[f[k]] /\ obs[k].t \in Nat
  BY <1>1, <1>5
<1>7. \A j, k \in 1 .. n : j < k => obs[j].t <= obs[k].t /\ (obs[j].t = obs[k].t => f[j] <= f[k])
  BY <1>1, <1>5, <1>6 DEF Sooner
<1> HIDE DEF n, obs
<1>8. ASSUME NEW k \in New PROVE k \in 1 .. n /\ f[k] \in F /\ obs[k] = file[f[k]]
  <2>1. k \in 1 .. n /\ (k = 1 \/ obs[k].t # obs[k - 1].t)
    BY <1>6
  <2>2. ASSUME NEW i \in P, file[i].t = file[f[k]].t PROVE f[k] <= i
    <3>1. PICK j \in 1 .. n : f[j] = i
      BY <1>5
    <3>2. obs[j].t = obs[k].t
      BY <1>6, <2>1, <2>2, <3>1
    <3>3. CASE j < k
      <4>1. k - 1 \in 1 .. n /\ k - 1 < k /\ (j = k - 1 \/ j < k - 1)
        BY <1>4, <2>1, <3>3
      <4>2. obs[j].t <= obs[k - 1].t /\ obs[k - 1].t <= obs[k].t
        BY <1>6, <1>7, <2>1, <4>1
      <4>3. obs[k - 1].t = obs[k].t
        BY <1>6, <2>1, <3>2, <4>1, <4>2
      <4> QED BY <2>1, <3>3, <4>3
    <3>4. CASE j = k
      BY <1>1, <1>6, <3>1, <3>4
    <3>5. CASE k < j
      BY <1>7, <2>1, <3>1, <3>2, <3>5
    <3> QED BY <2>1, <3>3, <3>4, <3>5
  <2> QED BY <1>2, <1>6, <2>1, <2>2
<1>9. ASSUME NEW i \in P
      PROVE  \E k \in New : file[f[k]].t = file[i].t
  <2> DEFINE B == {j \in 1 .. n : obs[j].t < file[i].t}
             k == Cardinality(B) + 1
  <2>1. PICK h \in 1 .. n : f[h] = i
    BY <1>5
  <2>2. obs[h].t = file[i].t /\ file[i].t \in Nat
    BY <1>1, <1>6, <2>1
  <2>3. B \in SUBSET (1 .. n) /\ \A j \in B : \A l \in 1 .. j : l \in B
    <3> SUFFICES ASSUME NEW j \in B, NEW l \in 1 .. j PROVE l \in B
      OBVIOUS
    <3>1. j \in 1 .. n /\ l \in 1 .. n /\ (l = j \/ l < j) /\ obs[j].t < file[i].t
      BY <1>4
    <3>2. obs[l].t <= obs[j].t /\ obs[l].t \in Nat /\ obs[j].t \in Nat
      BY <1>6, <1>7, <3>1
    <3> QED BY <2>2, <3>1, <3>2
  <2>4. \A j \in 1 .. n : j \in B <=> obs[j].t < file[i].t
    OBVIOUS
  <2> HIDE DEF B
  <2>5. Cardinality(B) \in 0 .. n /\ B = 1 .. Cardinality(B)
    BY <1>4, <2>3, DownwardClosed
  <2>6. h \notin B
    BY <2>2, <2>4
  <2>7. k \in 1 .. n /\ (k = h \/ k < h) /\ k \notin B
    BY <1>4, <2>5, <2>6
  <2>8. obs[k].t = file[i].t
    <3>1. obs[k].t <= obs[h].t
      BY <1>6, <1>7, <2>7
    <3>2. ~(obs[k].t < file[i].t)
      BY <2>4, <2>7
    <3> QED BY <1>6, <2>2, <2>7, <3>1, <3>2
  <2>9. k = 1 \/ obs[k - 1].t # obs[k].t
    <3> SUFFICES ASSUME k # 1 PROVE obs[k - 1].t < file[i].t
      BY <1>6, <2>2, <2>5, <2>7, <2>8
    <3>1. k - 1 \in B /\ k - 1 \in 1 .. n
      BY <1>4, <2>5, <2>7
    <3> QED BY <2>4, <3>1
  <2>10. k \in New
    BY <1>6, <2>7, <2>9
  <2> QED BY <1>6, <2>7, <2>8, <2>10
<1>10. ASSUME NEW i \in F PROVE \E k \in New : obs[k] = file[i]
  <2>1. PICK k \in New : file[f[k]].t = file[i].t
    BY <1>3, <1>9
  <2>2. f[k] \in F /\ obs[k] = file[f[k]]
    BY <1>8
  <2>3. f[k] <= i /\ i <= f[k]
    BY <1>2, <1>3, <2>1, <2>2
  <2>4. f[k] = i
    BY <1>1, <1>3, <2>2, <2>3
  <2> QED BY <2>2, <2>4
<1>11. Dedup(s) = {file[i] : i \in F}
  <2> HIDE DEF New
  <2> QED BY <1>3, <1>8, <1>10
<1>12. \A i \in P : \E j \in F : file[j].t = file[i].t
  <2> HIDE DEF New
  <2> QED BY <1>8, <1>9
<1> QED BY <1>11, <1>12 DEF P, F

(* The row the semantics asks for.                                         *)
RowAt(s, t) ==
  [t |-> t,
   ing |-> CHOOSE i \in 0 .. today :
             /\ \E l \in LinesOf(Observe, s) : l.t = t /\ l.ing = i
             /\ \A l \in LinesOf(Observe, s) : l.t = t => i <= l.ing,
   tier |-> Fold(LinesOf(Tier, s), t, "none"),
   category |-> Fold(Lines(Change), t, FirstCategory)]

(* The row the replay makes of the line at place o.                        *)
RowOf(s, o) ==
  [t |-> o.t, ing |-> o.ing, tier |-> AsOf(TierBreakpoints(s), o.t),
   category |-> AsOf(CategoryBreakpoints, o.t)]

(* They are the same row.                                                  *)
LEMMA RowIsRight ==
  ASSUME StreamInv, NEW s \in Shops, NEW i \in FirstSeen(s)
  PROVE  RowOf(s, file[i]) = RowAt(s, file[i].t)
<1> DEFINE P == PlacesOf(Observe, s)
           t == file[i].t
           Is(g) == /\ \E l \in LinesOf(Observe, s) : l.t = t /\ l.ing = g
                    /\ \A l \in LinesOf(Observe, s) : l.t = t => g <= l.ing
<1>1. /\ StreamTypeOK /\ P \in SUBSET DOMAIN file /\ LinesOf(Observe, s) = {file[j] : j \in P}
      /\ \A j \in P : file[j].t \in Nat /\ file[j].ing \in Nat /\ j \in Nat
      /\ today \in Nat
  BY FileFacts, PlacesFacts DEF StreamInv
<1>2. i \in P /\ \A j \in P : file[j].t = t => i <= j
  BY DEF FirstSeen
<1>3. \A j \in P : i <= j => file[i].ing <= file[j].ing /\ file[j].ing <= today
  BY <1>1, <1>2 DEF StreamInv, ArrivalsAscend
<1>4. P \subseteq Places(Observe)
  BY DEF PlacesOf
<1>5. \E j \in Places(Discover) : file[j].t <= t
  <2>1. PICK j \in Places(Discover) : file[j].t < t
    BY <1>2, <1>4 DEF StreamInv, DiscoveredFirst
  <2>2. file[j].t \in Nat /\ t \in Nat
    BY <1>1, <1>2, FileFacts DEF Places
  <2> QED BY <2>1, <2>2
<1> HIDE DEF P
<1>6. (CHOOSE g \in 0 .. today : Is(g)) = file[i].ing
  <2>1. file[i].ing \in 0 .. today
    BY <1>1, <1>2, <1>3
  <2>2. Is(file[i].ing)
    BY <1>1, <1>2, <1>3
  <2>3. ASSUME NEW g \in 0 .. today, Is(g) PROVE g = file[i].ing
    <3>1. PICK j \in P : file[j].t = t /\ file[j].ing = g
      BY <1>1, <2>3
    <3>2. g <= file[i].ing
      BY <1>1, <1>2, <2>3
    <3>3. file[i].ing <= g
      BY <1>2, <1>3, <3>1
    <3> QED BY <1>1, <1>2, <3>2, <3>3
  <2> HIDE DEF Is
  <2> QED BY <2>1, <2>2, <2>3
<1>7. AsOf(TierBreakpoints(s), t) = Fold(LinesOf(Tier, s), t, "none")
  BY <1>1, <1>2, TierFollows
<1>8. AsOf(CategoryBreakpoints, t) = Fold(Lines(Change), t, FirstCategory)
  BY <1>1, <1>2, <1>5, CategoryFollows
<1> QED BY <1>6, <1>7, <1>8 DEF RowOf, RowAt

(* One row for every time at which the shop's price was observed.          *)
LEMMA EnrichedIsRight ==
  ASSUME StreamInv, NEW s \in Shops
  PROVE  Enriched(s) = {RowAt(s, t) : t \in {l.t : l \in LinesOf(Observe, s)}}
<1> DEFINE F == FirstSeen(s)
           P == PlacesOf(Observe, s)
<1>1. Enriched(s) = {RowOf(s, o) : o \in Dedup(s)}
  BY DEF Enriched, RowOf
<1>2. Dedup(s) = {file[i] : i \in F} /\ \A i \in P : \E j \in F : file[j].t = file[i].t
  BY DedupKeepsFirst
<1>3. LinesOf(Observe, s) = {file[j] : j \in P} /\ F \subseteq P
  BY PlacesFacts DEF FirstSeen
<1>4. \A i \in F : RowOf(s, file[i]) = RowAt(s, file[i].t)
  BY RowIsRight
<1> HIDE DEF F, P
<1>5. ASSUME NEW r \in Enriched(s)
      PROVE  r \in {RowAt(s, t) : t \in {l.t : l \in LinesOf(Observe, s)}}
  <2>1. PICK i \in F : r = RowOf(s, file[i])
    BY <1>1, <1>2
  <2>2. r = RowAt(s, file[i].t) /\ file[i] \in LinesOf(Observe, s)
    BY <1>3, <1>4, <2>1
  <2> QED BY <2>2
<1>6. ASSUME NEW t \in {l.t : l \in LinesOf(Observe, s)} PROVE RowAt(s, t) \in Enriched(s)
  <2>1. PICK j \in P : t = file[j].t
    BY <1>3
  <2>2. PICK i \in F : file[i].t = t
    BY <1>2, <2>1
  <2>3. RowAt(s, t) = RowOf(s, file[i]) /\ file[i] \in Dedup(s)
    BY <1>2, <1>4, <2>2
  <2> QED BY <1>1, <2>3
<1> QED BY <1>5, <1>6

(* The last of a listing's events, in the order of their times, is a       *)
(* relisting exactly if every delisting was followed by one.               *)
LEMMA ActiveIsRight ==
  ASSUME StreamInv, NEW s \in Shops
  PROVE  Active(s) <=> /\ LinesOf(Discover, s) # {}
                       /\ \A d \in LinesOf(Delist, s) : \E r \in LinesOf(Relist, s) : r.t > d.t
<1> DEFINE P == PlacesOf(Delist \cup Relist, s)
           D == PlacesOf(Delist, s)
           E == PlacesOf(Relist, s)
           n == Cardinality(P)
           seq == ByTime(P)
<1>1. /\ StreamTypeOK /\ P \in SUBSET DOMAIN file
      /\ LinesOf(Delist, s) = {file[j] : j \in D} /\ LinesOf(Relist, s) = {file[j] : j \in E}
      /\ LinesOf(Discover, s) = {file[j] : j \in PlacesOf(Discover, s)}
      /\ \A j \in P : file[j].t \in Nat
  BY FileFacts, PlacesFacts DEF StreamInv
<1>2. /\ P = D \cup E
      /\ \A i \in E : file[i].type \in Relist
      /\ \A i \in D : file[i].type \notin Relist
  BY DEF PlacesOf, Places, Delist, Relist
<1>3. /\ \A i, j \in D : i = j
      /\ \A i, j \in E : i = j
      /\ \A i \in E : \E j \in D : file[j].t < file[i].t
  BY DEF StreamInv, ListingIsSequential
<1>4. Active(s) <=> /\ PlacesOf(Discover, s) # {}
                    /\ seq # <<>> => seq[Len(seq)].type \in Relist
  BY DEF Active
<1>5. LinesOf(Discover, s) # {} <=> PlacesOf(Discover, s) # {}
  BY <1>1
<1> HIDE DEF P, D, E
<1>6. n \in Nat
  BY <1>1, Sorting
<1>7. PICK f \in [1 .. n -> P] :
        /\ ByTime(P) = [k \in 1 .. n |-> file[f[k]]]
        /\ \A i \in P : \E k \in 1 .. n : f[k] = i
        /\ \A j, k \in 1 .. n : j < k => Sooner(f[j], f[k]) /\ f[j] # f[k]
  BY <1>1, Sorting
<1> HIDE DEF n
<1>8. Len(seq) = n /\ (seq # <<>> <=> n # 0)
  BY <1>6, <1>7
<1>9. CASE n = 0
  <2>1. P = {}
    BY <1>7, <1>9
  <2> QED BY <1>1, <1>2, <1>4, <1>5, <1>8, <1>9, <2>1
<1>10. CASE n # 0
  <2>1. n \in 1 .. n /\ f[n] \in P /\ seq[n] = file[f[n]]
    BY <1>6, <1>7, <1>10
  <2>2. \A i \in P : file[i].t <= file[f[n]].t
    <3> SUFFICES ASSUME NEW i \in P PROVE file[i].t <= file[f[n]].t
      OBVIOUS
    <3>1. PICK k \in 1 .. n : f[k] = i
      BY <1>7
    <3>2. k = n \/ k < n
      BY <1>6
    <3> QED BY <1>1, <1>7, <2>1, <3>1, <3>2 DEF Sooner
  <2>3. f[n] \in E <=> E # {}
    <3> SUFFICES ASSUME NEW i \in E, f[n] \in D PROVE FALSE
      BY <1>2, <2>1
    <3>1. file[f[n]].t < file[i].t /\ file[i].t <= file[f[n]].t
      BY <1>2, <1>3, <2>2
    <3> QED BY <1>1, <1>2, <2>1, <3>1
  <2>4. seq[n].type \in Relist <=> E # {}
    BY <1>2, <2>1, <2>3
  <2>5. D # {}
    BY <1>2, <1>3, <2>1
  <2>6. (\A d \in LinesOf(Delist, s) : \E r \in LinesOf(Relist, s) : r.t > d.t) <=> E # {}
    <3>1. ASSUME E # {}, NEW d \in D PROVE \E r \in E : file[r].t > file[d].t
      <4>1. PICK r \in E : TRUE
        BY <3>1
      <4>2. PICK j \in D : file[j].t < file[r].t
        BY <1>3
      <4>3. file[d].t < file[r].t /\ file[d].t \in Nat /\ file[r].t \in Nat
        BY <1>1, <1>2, <1>3, <3>1, <4>2
      <4> QED BY <4>3
    <3> QED BY <1>1, <2>5, <3>1
  <2> QED BY <1>4, <1>5, <1>8, <1>10, <2>4, <2>6
<1> QED BY <1>9, <1>10

(* The replay of a file that the generator may write is right.             *)
LEMMA RowsAreRight == ASSUME StreamInv PROVE RowsFollowSemantics
<1> SUFFICES ASSUME NEW s \in Shops
             PROVE  /\ Enriched(s) = {RowAt(s, t) : t \in {l.t : l \in LinesOf(Observe, s)}}
                    /\ Active(s) <=> /\ LinesOf(Discover, s) # {}
                                     /\ \A d \in LinesOf(Delist, s) :
                                          \E r \in LinesOf(Relist, s) : r.t > d.t
  BY DEF RowsFollowSemantics, RowAt
<1> QED BY EnrichedIsRight, ActiveIsRight

-----------------------------------------------------------------------------
(* The registrations, in whatever order.                                   *)
LEMMA StreamInvInit == ASSUME StreamInit PROVE StreamInv
<1> DEFINE Reg(s) == [type |-> "shop_registered", shop |-> s, t |-> 0, ing |-> 1,
                      val |-> FirstTier]
           R == Registrations
           n == Cardinality(R)
           T == [type : LineTypes, shop : Shops, t : Nat, ing : Nat, val : LineValues]
           g == [s \in Shops |-> Reg(s)]
<1>1. R = {Reg(s) : s \in Shops} /\ \A s \in Shops : Reg(s).shop = s
  BY DEF Registrations
<1>2. \A s \in Shops : Reg(s) \in T
  BY ValuesAssumption DEF LineTypes, LineValues, Tier
<1>3. IsFiniteSet(R) /\ n \in Nat
  <2>1. g \in Surjection(Shops, R)
    BY <1>1 DEF Surjection
  <2> HIDE DEF g
  <2>2. IsFiniteSet(R)
    BY <2>1, ShopsAssumption, FS_Surjection
  <2> QED BY <2>2, FS_CardinalityType
<1>4. file \in [1 .. n -> R] /\ IsInjective(file)
  <2>1. PICK h \in [1 .. n -> R] : IsInjective(h)
    <3>1. ExistsBijection(1 .. n, R)
      BY <1>3, FS_CardinalityType
    <3> QED BY <3>1 DEF ExistsBijection, Bijection, Injection
  <2>2. file = CHOOSE k \in [1 .. n -> R] : IsInjective(k)
    BY DEF StreamInit, SetToSeq
  <2> QED BY <2>1, <2>2
<1>5. \A r \in R : \E i \in 1 .. n : file[i] = r
  <2>1. file \in Injection(1 .. n, R)
    BY <1>4 DEF Injection
  <2>2. IsFiniteSet(1 .. n) /\ Cardinality(1 .. n) = n
    BY <1>3, FS_Interval
  <2>3. file \in Surjection(1 .. n, R)
    BY <1>3, <2>1, <2>2, FS_Injection
  <2> QED BY <2>3 DEF Surjection
<1> HIDE DEF R, n, T
<1>6. /\ DOMAIN file = 1 .. n
      /\ \A i \in 1 .. n : \E s \in Shops : file[i] = Reg(s)
      /\ \A s \in Shops : \E i \in 1 .. n : file[i] = Reg(s)
      /\ \A i, j \in 1 .. n : file[i] = file[j] => i = j
  BY <1>1, <1>4, <1>5 DEF IsInjective
<1>7. file \in Seq(T) /\ today = 1
  <2>1. \A i \in 1 .. n : file[i] \in T
    BY <1>2, <1>6
  <2>2. file \in [1 .. n -> T]
    BY <1>4, <2>1
  <2> QED BY <1>3, <2>2 DEF StreamInit
<1>8. StreamTypeOK
  BY <1>7 DEF StreamTypeOK, T
<1>9. ArrivalsAscend
  BY <1>6, <1>7 DEF ArrivalsAscend
<1>10. \A i \in DOMAIN file : file[i].type = "shop_registered" /\ file[i].t = 0
  BY <1>6
<1>11. TiersAreApart
  <2> SUFFICES ASSUME NEW s \in Shops
               PROVE  /\ \E i \in PlacesOf(Tier, s) : file[i].t = 0
                      /\ \A i, j \in PlacesOf(Tier, s) : i = j
    BY DEF TiersAreApart
  <2>1. PlacesOf(Tier, s) = {i \in 1 .. n : file[i] = Reg(s)}
    BY <1>6 DEF PlacesOf, Places, Tier
  <2> QED BY <1>6, <2>1
<1>12. DiscoveredFirst
  BY <1>10 DEF DiscoveredFirst, Places, Discover, Change, Observe
<1>13. ListingIsSequential
  BY <1>10 DEF ListingIsSequential, PlacesOf, Places, Delist, Relist
<1> QED BY <1>8, <1>9, <1>11, <1>12, <1>13 DEF StreamInv

(* A line that keeps to what the generator keeps to may be written.        *)
LEMMA EmitStep ==
  ASSUME StreamInv, NEW type \in LineTypes, NEW s \in Shops, NEW t \in Nat,
         NEW v \in LineValues, Emit(type, s, t, v),
         type \in Tier => \A i \in PlacesOf(Tier, s) : file[i].t # t,
         type \in Discover => v = FirstCategory,
         type \in Change \cup Observe => \E j \in Places(Discover) : file[j].t < t,
         type \in Change => Places(Change) = {},
         type \in Delist => PlacesOf(Delist, s) = {},
         type \in Relist => /\ PlacesOf(Relist, s) = {}
                            /\ \E j \in PlacesOf(Delist, s) : file[j].t < t
  PROVE  StreamInv'
<1> DEFINE l == Line(type, s, t, v)
           n == Len(file) + 1
           R == [type : LineTypes, shop : Shops, t : Nat, ing : Nat, val : LineValues]
<1>1. /\ StreamTypeOK /\ ArrivalsAscend /\ TiersAreApart
      /\ DiscoveredFirst /\ ListingIsSequential
  BY DEF StreamInv
<1>2. today \in Nat /\ file \in Seq(R) /\ Len(file) \in Nat /\ DOMAIN file = 1 .. Len(file)
  BY <1>1 DEF StreamTypeOK
<1>3. l \in R /\ file' = Append(file, l) /\ today' = today
  BY <1>2 DEF Emit, Line
<1>4. /\ l.type = type /\ l.shop = s /\ l.t = t /\ l.val = v /\ l.ing = today
  BY DEF Line
<1> HIDE DEF l, R
<1>5. /\ file' \in Seq(R) /\ DOMAIN file' = DOMAIN file \cup {n} /\ n \notin DOMAIN file
      /\ file'[n] = l /\ \A i \in DOMAIN file : file'[i] = file[i] /\ i < n /\ i \in Nat
  BY <1>2, <1>3
<1>6. StreamTypeOK'
  BY <1>2, <1>3, <1>5 DEF StreamTypeOK, R
<1>7. ArrivalsAscend'
  <2> SUFFICES ASSUME NEW i \in DOMAIN file', NEW j \in DOMAIN file', i <= j
               PROVE  file'[i].ing <= file'[j].ing /\ file'[j].ing <= today
    BY <1>3 DEF ArrivalsAscend
  <2>1. \A k \in DOMAIN file : file[k].ing <= today
    BY <1>1, <1>2 DEF ArrivalsAscend
  <2>2. CASE j \in DOMAIN file
    <3>1. i \in DOMAIN file
      BY <1>2, <1>5, <2>2
    <3> QED BY <1>1, <1>5, <2>2, <3>1 DEF ArrivalsAscend
  <2>3. CASE j = n
    BY <1>2, <1>4, <1>5, <2>1, <2>3
  <2> QED BY <1>5, <2>2, <2>3
<1>8. \A i \in DOMAIN file : file'[i] = file[i]
  BY <1>5
<1>9. /\ Places(Discover)' = Places(Discover) \cup (IF type \in Discover THEN {n} ELSE {})
      /\ Places(Change)' = Places(Change) \cup (IF type \in Change THEN {n} ELSE {})
      /\ Places(Observe)' = Places(Observe) \cup (IF type \in Observe THEN {n} ELSE {})
  BY <1>4, <1>5 DEF Places, Discover, Change, Observe
<1>10. ASSUME NEW u \in Shops
       PROVE  /\ PlacesOf(Tier, u)' = PlacesOf(Tier, u)
                                   \cup (IF type \in Tier /\ s = u THEN {n} ELSE {})
              /\ PlacesOf(Delist, u)' = PlacesOf(Delist, u)
                                   \cup (IF type \in Delist /\ s = u THEN {n} ELSE {})
              /\ PlacesOf(Relist, u)' = PlacesOf(Relist, u)
                                   \cup (IF type \in Relist /\ s = u THEN {n} ELSE {})
  BY <1>4, <1>5 DEF PlacesOf, Places, Tier, Delist, Relist
<1>11. /\ \A u \in Shops : \A i \in PlacesOf(Tier, u) \cup PlacesOf(Delist, u) \cup PlacesOf(Relist, u) :
             i \in DOMAIN file
       /\ \A i \in Places(Discover) \cup Places(Change) \cup Places(Observe) : i \in DOMAIN file
  BY DEF PlacesOf, Places
<1>12. TiersAreApart'
  <2> SUFFICES ASSUME NEW u \in Shops
               PROVE  /\ \E i \in PlacesOf(Tier, u)' : file'[i].t = 0
                      /\ \A i, j \in PlacesOf(Tier, u)' : file'[i].t = file'[j].t => i = j
    BY DEF TiersAreApart
  <2>1. /\ \E i \in PlacesOf(Tier, u) : file[i].t = 0
        /\ \A i, j \in PlacesOf(Tier, u) : file[i].t = file[j].t => i = j
    BY <1>1 DEF TiersAreApart
  <2>2. CASE type \in Tier /\ s = u
    BY <1>4, <1>5, <1>10, <1>11, <2>1, <2>2
  <2>3. CASE ~(type \in Tier /\ s = u)
    BY <1>8, <1>10, <1>11, <2>1, <2>3
  <2> QED BY <2>2, <2>3
<1>13. DiscoveredFirst'
  <2>1. \A i \in Places(Discover)' : file'[i].val = FirstCategory
    BY <1>1, <1>4, <1>5, <1>9, <1>11 DEF DiscoveredFirst
  <2>2. ASSUME NEW i \in Places(Change)' \cup Places(Observe)'
        PROVE  \E j \in Places(Discover)' : file'[j].t < file'[i].t
    <3>1. CASE i \in Places(Change) \cup Places(Observe)
      BY <1>1, <1>8, <1>9, <1>11, <3>1 DEF DiscoveredFirst
    <3>2. CASE i = n /\ type \in Change \cup Observe
      BY <1>4, <1>5, <1>9, <1>11, <3>2
    <3> QED BY <1>9, <2>2, <3>1, <3>2
  <2>3. \A i, j \in Places(Change)' : i = j
    BY <1>1, <1>9 DEF DiscoveredFirst
  <2> QED BY <2>1, <2>2, <2>3 DEF DiscoveredFirst
<1>14. ListingIsSequential'
  <2> SUFFICES ASSUME NEW u \in Shops
               PROVE  /\ \A i, j \in PlacesOf(Delist, u)' : i = j
                      /\ \A i, j \in PlacesOf(Relist, u)' : i = j
                      /\ \A i \in PlacesOf(Relist, u)' :
                           \E j \in PlacesOf(Delist, u)' : file'[j].t < file'[i].t
    BY DEF ListingIsSequential
  <2>1. /\ \A i, j \in PlacesOf(Delist, u) : i = j
        /\ \A i, j \in PlacesOf(Relist, u) : i = j
        /\ \A i \in PlacesOf(Relist, u) :
             \E j \in PlacesOf(Delist, u) : file[j].t < file[i].t
    BY <1>1 DEF ListingIsSequential
  <2>2. \A i, j \in PlacesOf(Delist, u)' : i = j
    BY <1>10, <2>1
  <2>3. \A i, j \in PlacesOf(Relist, u)' : i = j
    BY <1>10, <2>1
  <2>4. ASSUME NEW i \in PlacesOf(Relist, u)'
        PROVE  \E j \in PlacesOf(Delist, u)' : file'[j].t < file'[i].t
    <3>1. CASE i \in PlacesOf(Relist, u)
      BY <1>8, <1>10, <1>11, <2>1, <3>1
    <3>2. CASE i = n /\ type \in Relist /\ s = u
      BY <1>4, <1>5, <1>10, <1>11, <3>2
    <3> QED BY <1>10, <3>1, <3>2
  <2> QED BY <2>2, <2>3, <2>4
<1> QED BY <1>6, <1>7, <1>12, <1>13, <1>14 DEF StreamInv

(* Every line of the generator keeps to it.                                *)
LEMMA StreamInvStep == ASSUME StreamInv, [StreamNext]_streamVars PROVE StreamInv'
<1> USE DEF LineTypes, LineValues
<1>0. /\ StreamTypeOK /\ Gap \in Nat \ {0} /\ today \in Nat
      /\ \A i \in DOMAIN file : file[i].t \in Nat /\ file[i].shop \in Shops
  <2>1. \A i \in DOMAIN file : file[i].shop \in Shops
    BY FileFacts DEF StreamInv
  <2> QED BY <2>1, DelayAssumption, FileFacts DEF StreamInv, Gap
<1>1. \A types, s : /\ PlacesOf(types, s) \in SUBSET DOMAIN file
                    /\ PlacesOf(types, s) \subseteq Places(types)
                    /\ Places(types) \in SUBSET DOMAIN file
                    /\ Lines(types) = {file[i] : i \in Places(types)}
                    /\ LinesOf(types, s) = {file[i] : i \in PlacesOf(types, s)}
  BY PlacesFacts DEF PlacesOf
<1>2. \A l, t : (l.t \in Nat /\ t \in Nat /\ l.t + Gap <= t) => l.t < t
  BY <1>0
<1>3. Due \subseteq Nat \ {0}
  BY <1>0 DEF Due
<1>4. ASSUME NEW s \in Shops, ShopTierChanged(s) PROVE StreamInv'
  <2>1. PICK t \in Due, v \in Tiers : /\ After(LinesOf(Tier, s), t)
                                      /\ Emit("shop_tier_changed", s, t, v)
    BY <1>4 DEF ShopTierChanged
  <2>2. \A i \in PlacesOf(Tier, s) : file[i].t # t
    BY <1>0, <1>1, <1>2, <1>3, <2>1 DEF After
  <2> QED BY <1>3, <2>1, <2>2, EmitStep DEF Tier, Discover, Change, Observe, Delist, Relist
<1>5. ASSUME NEW s \in Shops, ProductDiscovered(s) PROVE StreamInv'
  <2>1. PICK t \in Due : Emit("product_discovered", s, t, FirstCategory)
    BY <1>5 DEF ProductDiscovered
  <2> QED BY <1>3, <2>1, ValuesAssumption, EmitStep
          DEF Tier, Discover, Change, Observe, Delist, Relist
<1>6. CASE ProductAttrsChanged
  <2>1. PICK t \in Due, v \in Categories \ {FirstCategory}, l \in Lines(Discover) :
          After({l}, t) /\ Emit("product_attrs_changed", l.shop, t, v)
    BY <1>6 DEF ProductAttrsChanged
  <2>0. Lines(Change) = {}
    BY <1>6 DEF ProductAttrsChanged
  <2>2. Places(Change) = {}
    <3> SUFFICES ASSUME NEW i \in Places(Change) PROVE FALSE
      OBVIOUS
    <3>1. file[i] \in Lines(Change)
      BY <1>1
    <3> QED BY <2>0, <3>1
  <2>3. PICK j \in Places(Discover) : l = file[j]
    BY <1>1
  <2>4. l.shop \in Shops /\ file[j].t < t
    BY <1>0, <1>1, <1>2, <1>3, <2>1, <2>3 DEF After
  <2> QED BY <1>3, <2>1, <2>2, <2>4, EmitStep
          DEF Tier, Discover, Change, Observe, Delist, Relist
<1>7. ASSUME NEW s \in Shops, ProductDelisted(s) PROVE StreamInv'
  <2>1. PICK t \in Due : Emit("product_delisted", s, t, "none")
    BY <1>7 DEF ProductDelisted
  <2>0. LinesOf(Delist, s) = {}
    BY <1>7 DEF ProductDelisted
  <2>2. PlacesOf(Delist, s) = {}
    <3> SUFFICES ASSUME NEW i \in PlacesOf(Delist, s) PROVE FALSE
      OBVIOUS
    <3>1. file[i] \in LinesOf(Delist, s)
      BY <1>1
    <3> QED BY <2>0, <3>1
  <2> QED BY <1>3, <2>1, <2>2, EmitStep DEF Tier, Discover, Change, Observe, Delist, Relist
<1>8. ASSUME NEW s \in Shops, ProductRelisted(s) PROVE StreamInv'
  <2>1. PICK t \in Due : /\ After(LinesOf(Delist, s), t)
                         /\ Emit("product_relisted", s, t, "none")
    BY <1>8 DEF ProductRelisted
  <2>0. LinesOf(Delist, s) # {} /\ LinesOf(Relist, s) = {}
    BY <1>8 DEF ProductRelisted
  <2>2. PlacesOf(Relist, s) = {} /\ PlacesOf(Delist, s) # {}
    <3>1. ASSUME NEW i \in PlacesOf(Relist, s) PROVE FALSE
      <4>1. file[i] \in LinesOf(Relist, s)
        BY <1>1
      <4> QED BY <2>0, <4>1
    <3>2. PICK l \in LinesOf(Delist, s) : TRUE
      BY <2>0
    <3>3. \E j \in PlacesOf(Delist, s) : l = file[j]
      BY <1>1
    <3> QED BY <3>1, <3>3
  <2>3. \E j \in PlacesOf(Delist, s) : file[j].t < t
    BY <1>0, <1>1, <1>2, <1>3, <2>1, <2>2 DEF After
  <2> QED BY <1>3, <2>1, <2>2, <2>3, EmitStep
          DEF Tier, Discover, Change, Observe, Delist, Relist
<1>9. ASSUME NEW s \in Shops, PriceObserved(s) PROVE StreamInv'
  <2>1. PICK t \in 1 .. today - 1 : /\ After(LinesOf(Discover, s), t)
                                  /\ Emit("price_observed", s, t, "none")
    BY <1>9 DEF PriceObserved
  <2>2. PlacesOf(Discover, s) # {} /\ t \in Nat
    BY <1>0, <1>1, <1>9 DEF PriceObserved
  <2>3. \E j \in Places(Discover) : file[j].t < t
    BY <1>0, <1>1, <1>2, <2>1, <2>2 DEF After
  <2> QED BY <2>1, <2>2, <2>3, EmitStep DEF Tier, Discover, Change, Observe, Delist, Relist
<1>10. CASE Duplicate
  <2>1. PICK l \in Lines(Observe) : Emit("price_observed", l.shop, l.t, "none")
    BY <1>10 DEF Duplicate
  <2>2. PICK i \in Places(Observe) : l = file[i]
    BY <1>1
  <2>3. l.shop \in Shops /\ l.t \in Nat
    BY <1>0, <1>1, <2>2
  <2>4. \E j \in Places(Discover) : file[j].t < l.t
    BY <2>2 DEF StreamInv, DiscoveredFirst
  <2> QED BY <2>1, <2>3, <2>4, EmitStep DEF Tier, Discover, Change, Observe, Delist, Relist
<1>11. CASE Tick
  <2>1. file' = file /\ today' = today + 1 /\ today' \in Nat
    BY <1>0, <1>11 DEF Tick
  <2>2. StreamTypeOK'
    BY <2>1 DEF StreamInv, StreamTypeOK
  <2>3. ArrivalsAscend'
    <3>1. \A i \in DOMAIN file : file[i].ing \in Nat
      BY <1>0, FileFacts
    <3> QED BY <1>0, <2>1, <3>1 DEF StreamInv, ArrivalsAscend
  <2>4. TiersAreApart' /\ DiscoveredFirst' /\ ListingIsSequential'
    BY <2>1 DEF StreamInv, TiersAreApart, DiscoveredFirst, ListingIsSequential, Places, PlacesOf
  <2> QED BY <2>2, <2>3, <2>4 DEF StreamInv
<1>12. CASE UNCHANGED streamVars
  BY <1>12 DEF streamVars, StreamInv, StreamTypeOK, ArrivalsAscend, TiersAreApart,
               DiscoveredFirst, ListingIsSequential, Places, PlacesOf
<1> QED BY <1>4, <1>5, <1>6, <1>7, <1>8, <1>9, <1>10, <1>11, <1>12 DEF StreamNext, EndOfStream

(* What the validators compare answers with follows the semantics of the   *)
(* event stream, for files of every length: whatever comes late, twice or  *)
(* out of order, parse_events and its sorts make of it one row per         *)
(* observed price, with the state that held at its time.                   *)
THEOREM ReplayFollowsSemantics == StreamSpec => []RowsFollowSemantics
<1> QED BY StreamInvInit, StreamInvStep, RowsAreRight, PTL DEF StreamSpec

=============================================================================
