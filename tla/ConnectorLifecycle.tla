-------------------------- MODULE ConnectorLifecycle --------------------------
(***************************************************************************)
(* The life of a Debezium connector under the validators of                *)
(* 08-cdc-debezium: harness/common.py (delete_connector, drop_slot,        *)
(* drop_publication, reset_topics, register_connector,                     *)
(* wait_for_connector_running) as the tasks' tests/validate.py call them,  *)
(* run after run.  A run starts from a clean slate, registers the task's   *)
(* connector, waits for the snapshot, changes the source, judges, and      *)
(* cleans up; it can be killed, and its calls can fail, at every step.     *)
(* The styles: "early" is task 01, "wait" 02, "once" 03, "retry" 04 and    *)
(* 05, "poll" 06.                                                          *)
(* Kafka Connect, Debezium and the replication slot go their own pace.     *)
(***************************************************************************)
EXTENDS Naturals

CONSTANTS
  Styles,       \* how the tasks modelled try and drop the slot, see Retries
  Attempts,     \* SLOT_DROP_ATTEMPTS
  LongSleeps,   \* the styles whose sleeps outlast the replication connection
  MaxFaults     \* bound: failing calls, failed deletions and killed runs

ASSUME StylesAssumption ==
  /\ Styles \subseteq {"retry", "poll", "early", "once", "wait"}
  /\ LongSleeps \subseteq Styles
ASSUME DropAssumption   == Attempts \in Nat \ {0}
ASSUME FaultsAssumption == MaxFaults \in Nat

VARIABLES
  style,      \* whose validator this is
  phase,      \* where the run is: "clean", "main" or "cleanup",
  step,       \* and the step
  tx,         \* transaction of the source connection: "none", "open", "failed"
  tries,      \* attempts to drop the slot so far
  excuse,     \* the run was killed, a call of it failed, it gave up on a slot
              \* in use, or a wait of it timed out before its try (task 01)
  connector,  \* "absent", "up", "stopping" or "stopped"
  task,       \* "none", "created", "running" or "streaming"
  offsets,    \* Connect has stored an offset for the topic prefix
  slot,       \* "none", "active" or "idle"
  pub,        \* the publication exists
  topic,      \* the events in the topics of the prefix
  lsn,        \* changes committed to the source by this run
  published,  \* changes Debezium has published
  kept,       \* this run has passed over a topic that was not deleted
  faults

validator == <<style, phase, step, tx, tries, excuse>>
connect   == <<connector, task, offsets>>
source    == <<slot, pub, lsn>>
stream    == <<topic, published, kept>>
cdcVars == <<validator, connect, source, stream, faults>>

Event == [own : BOOLEAN, op : {"r", "c"}, at : 0 .. 1]

CdcInit == /\ style \in Styles
           /\ phase = "cleanup" /\ step = "over" /\ tx = "none" /\ tries = 0
           /\ excuse = FALSE
           /\ connector = "absent" /\ task = "none" /\ offsets = FALSE
           /\ slot = "none" /\ pub = FALSE /\ lsn = 0
           /\ topic = {} /\ published = 0 /\ kept = FALSE /\ faults = 0

-----------------------------------------------------------------------------
Goto(next) == step' = next /\ UNCHANGED <<style, phase, tx, tries, excuse>>

EnterPhase(p, next) == /\ phase' = p /\ step' = next /\ tx' = "none" /\ tries' = 0
                       /\ UNCHANGED <<style, excuse>>

(* The steps inside the try whose finally cleans up: task 02 tears down    *)
(* inside it already, task 01 registers and waits before it.               *)
InTry == \/ phase = "main" /\ (style = "early" => step \notin {"register", "wait"})
         \/ phase = "clean" /\ style = "wait"

(* Where a step that raises leads; an exception in the clean-up is         *)
(* printed, or ends the run.                                               *)
RaiseTo(e) == /\ phase' = "cleanup" /\ tx' = "none" /\ tries' = 0
              /\ step' = IF InTry THEN "status" ELSE "over"
              /\ excuse' = (excuse \/ e)
              /\ UNCHANGED style

Fault == faults < MaxFaults /\ faults' = faults + 1

-----------------------------------------------------------------------------
(* main of a validator; what earlier runs left behind is not this run's.   *)
BeginRun ==
    /\ step = "over"
    /\ phase' = "clean" /\ step' = "status" /\ tx' = "none" /\ tries' = 0
    /\ excuse' = FALSE
    /\ topic' = {[e EXCEPT !.own = FALSE] : e \in topic}
    /\ lsn' = 0 /\ published' = 0 /\ kept' = FALSE
    /\ UNCHANGED <<style, connect, slot, pub, faults>>

(* delete_connector: status, stop, reset the offsets, delete.              *)
GetStatus ==
    /\ step = "status"
    /\ Goto(IF connector = "absent" THEN "drop" ELSE "stop")
    /\ UNCHANGED <<connect, source, stream, faults>>

PutStop ==
    /\ step = "stop"
    /\ connector' = IF connector = "up" THEN "stopping" ELSE connector
    /\ Goto("offsets")
    /\ UNCHANGED <<task, offsets, source, stream, faults>>

(* Mutant: the offsets are left alone, as a plain DELETE would.            *)
KeepOffsets ==
    /\ step = "offsets"
    /\ IF connector = "stopped" THEN Goto("delete") ELSE RaiseTo(TRUE)
    /\ UNCHANGED <<connect, source, stream, faults>>

(* Connect refuses to reset the offsets of a connector that still runs.    *)
ResetOffsets ==
    /\ step = "offsets"
    /\ IF connector = "stopped"
       THEN offsets' = FALSE /\ Goto("delete")
       ELSE UNCHANGED offsets /\ RaiseTo(TRUE)
    /\ UNCHANGED <<connector, task, source, stream, faults>>

DeleteConnector ==
    /\ step = "delete"
    /\ connector' = "absent"
    /\ Goto("drop")
    /\ UNCHANGED <<task, offsets, source, stream, faults>>

-----------------------------------------------------------------------------
(* Tasks 01, 02 and 06 poll the slot before they try to drop it, and give  *)
(* up polling after a while.                                               *)
Polls == style \in {"early", "poll", "wait"} /\ tx = "none"

SleepIsLong == style \in LongSleeps

PollSlot ==
    /\ step = "drop" /\ Polls
    /\ slot # "active" \/ ~SleepIsLong
    /\ tx' = "open"
    /\ UNCHANGED <<style, phase, step, tries, excuse, connect, source, stream, faults>>

InUse  == slot = "active" /\ tx # "failed"      \* ObjectInUse
Raises == slot = "active" \/ tx = "failed"      \* that, or InFailedSqlTransaction

(* Who tries again after which error: 04 and 05 after ObjectInUse, having  *)
(* rolled back; 01 and 06 after ObjectInUse; 03 once after any.            *)
Retries == CASE style = "retry"             -> InUse /\ tries < Attempts - 1
             [] style \in {"early", "poll"} -> InUse /\ tries < 2
             [] style = "once"              -> tries = 0
             [] style = "wait"              -> FALSE

(* Mutant: the slot is looked up among the active ones.                    *)
DropActiveSlot ==
    /\ step = "drop" /\ ~Polls /\ ~Raises
    /\ tx' = "open" /\ step' = "publication"
    /\ UNCHANGED <<style, phase, tries, excuse, connect, source, stream, faults>>

(* drop_slot drops a slot that is idle and is content with none.           *)
DropSlot ==
    /\ step = "drop" /\ ~Polls /\ ~Raises
    /\ slot' = "none"
    /\ tx' = IF slot = "none" THEN "open" ELSE "none"
    /\ step' = "publication"
    /\ UNCHANGED <<style, phase, tries, excuse, connect, pub, lsn, stream, faults>>

(* Mutant: 04 and 05 do not roll back before they retry.                   *)
DropSlotRaisesAsIs ==
    /\ step = "drop" /\ ~Polls /\ Raises
    /\ IF Retries
       THEN /\ tx' = "failed" /\ tries' = tries + 1 /\ step' = "sleep"
            /\ UNCHANGED <<style, phase, excuse>>
       ELSE RaiseTo(slot = "active")
    /\ UNCHANGED <<connect, source, stream, faults>>

DropSlotRaises ==
    /\ step = "drop" /\ ~Polls /\ Raises
    /\ IF Retries
       THEN /\ tx' = IF style = "retry" THEN "none" ELSE "failed"
            /\ tries' = tries + 1 /\ step' = "sleep"
            /\ UNCHANGED <<style, phase, excuse>>
       ELSE RaiseTo(slot = "active")
    /\ UNCHANGED <<connect, source, stream, faults>>

Sleep ==
    /\ step = "sleep"
    /\ slot # "active" \/ ~SleepIsLong
    /\ Goto("drop")
    /\ UNCHANGED <<connect, source, stream, faults>>

DropPublication ==
    /\ step = "publication"
    /\ pub' = FALSE
    /\ Goto("topics")
    /\ UNCHANGED <<connect, slot, lsn, stream, faults>>

(* reset_topics passes over a topic that cannot be deleted, and the run    *)
(* goes on: to main from a slate it takes for clean, or to its end.        *)
ResetTopics ==
    /\ step = "topics"
    /\ \/ topic' = {} /\ UNCHANGED <<kept, faults>>
       \/ topic' \in SUBSET topic \ {{}} /\ kept' = TRUE /\ Fault
    /\ IF phase = "clean" THEN EnterPhase("main", "register") ELSE Goto("over")
    /\ UNCHANGED <<connect, source, published>>

-----------------------------------------------------------------------------
RegisterConnector ==
    /\ step = "register"
    /\ connector' = "up" /\ task' = "created"
    /\ Goto("wait")
    /\ UNCHANGED <<offsets, source, stream, faults>>

(* Every task reports RUNNING; task 02 does not wait for the snapshot.     *)
WaitForRunning ==
    /\ step = "wait" /\ task \in {"running", "streaming"}
    /\ Goto(IF style = "wait" THEN "burst" ELSE "drain")
    /\ UNCHANGED <<connect, source, stream, faults>>

(* The topic has fallen silent, or holds as many events as there are rows: *)
(* the snapshot is counted.  NOT PASSED when it is not there (yet).        *)
CountSnapshot ==
    /\ step = "drain"
    /\ \E e \in topic : e.op = "r"
    /\ Goto("burst")
    /\ UNCHANGED <<connect, source, stream, faults>>

ApplyBurst ==
    /\ step = "burst"
    /\ lsn' = 1
    /\ Goto("judge")
    /\ UNCHANGED <<connect, slot, pub, stream, faults>>

(* PASSED or NOT PASSED, and a wait that times out: on to the clean-up,    *)
(* which task 01 reaches from its try only.                                *)
EndMain ==
    /\ step \in {"wait", "drain", "judge"}
    /\ IF InTry THEN EnterPhase("cleanup", "status") ELSE RaiseTo(TRUE)
    /\ UNCHANGED <<connect, source, stream, faults>>

-----------------------------------------------------------------------------
(* A REST or database call of the run fails.                               *)
CallFails ==
    /\ step \notin {"over", "sleep", "judge"}
    /\ Fault
    /\ RaiseTo(TRUE)
    /\ UNCHANGED <<connect, source, stream>>

(* The deletion took place, but its answer is lost.                        *)
DeleteUnanswered ==
    /\ step = "delete"
    /\ Fault
    /\ connector' = "absent"
    /\ RaiseTo(TRUE)
    /\ UNCHANGED <<task, offsets, source, stream>>

(* The connector is registered, but the call fails: its answer is lost, or *)
(* the learner's register.py (task 01) exits with an error or too late.    *)
RegisterUnanswered ==
    /\ step = "register"
    /\ Fault
    /\ connector' = "up" /\ task' = "created"
    /\ RaiseTo(TRUE)
    /\ UNCHANGED <<offsets, source, stream>>

Killed ==
    /\ step # "over"
    /\ Fault
    /\ step' = "over" /\ excuse' = TRUE
    /\ UNCHANGED <<style, phase, tx, tries, connect, source, stream>>

-----------------------------------------------------------------------------
(* Kafka Connect and Debezium.  A task first reports RUNNING, then makes   *)
(* its publication and slot, and takes the snapshot unless an old offset   *)
(* tells it that one has been taken.                                       *)
TaskRuns ==
    /\ connector = "up" /\ task = "created"
    /\ task' = "running"
    /\ UNCHANGED <<validator, connector, offsets, source, stream, faults>>

TaskSnapshots ==
    /\ connector = "up" /\ task = "running"
    /\ task' = "streaming"
    /\ slot' = "active" /\ pub' = TRUE
    /\ topic' = IF offsets THEN topic
                ELSE topic \cup {[own |-> phase = "main", op |-> "r", at |-> lsn]}
    /\ published' = lsn
    /\ UNCHANGED <<validator, connector, offsets, lsn, kept, faults>>

TaskStreams ==
    /\ connector = "up" /\ task = "streaming" /\ published < lsn
    /\ published' = lsn
    /\ topic' = topic \cup {[own |-> phase = "main", op |-> "c", at |-> lsn]}
    /\ UNCHANGED <<validator, connect, source, kept, faults>>

FlushOffsets ==
    /\ task = "streaming" /\ ~offsets
    /\ offsets' = TRUE
    /\ UNCHANGED <<validator, connector, task, source, stream, faults>>

(* The task is gone, its replication connection closes later.              *)
Stopped ==
    /\ connector = "stopping"
    /\ connector' = "stopped" /\ task' = "none"
    /\ UNCHANGED <<validator, offsets, source, stream, faults>>

ConnectionCloses ==
    /\ task = "none" /\ slot = "active"
    /\ slot' = "idle"
    /\ UNCHANGED <<validator, connect, pub, lsn, stream, faults>>

-----------------------------------------------------------------------------
TearDown == \/ GetStatus \/ PutStop \/ ResetOffsets \/ DeleteConnector
            \/ PollSlot \/ DropSlot \/ DropSlotRaises \/ Sleep
            \/ DropPublication \/ ResetTopics
Main == \/ RegisterConnector \/ WaitForRunning \/ CountSnapshot \/ ApplyBurst
        \/ EndMain
KafkaConnect == \/ TaskRuns \/ TaskSnapshots \/ TaskStreams \/ FlushOffsets
                \/ Stopped \/ ConnectionCloses

CdcNext == BeginRun \/ TearDown \/ Main \/ KafkaConnect
           \/ CallFails \/ DeleteUnanswered \/ RegisterUnanswered \/ Killed

CdcSpec == CdcInit /\ [][CdcNext]_cdcVars

(* Runs follow each other and take their steps; Connect stops a task and   *)
(* its connection closes in the end.                                       *)
CdcFairSpec == /\ CdcSpec
               /\ WF_cdcVars(BeginRun) /\ WF_cdcVars(TearDown) /\ WF_cdcVars(Main)
               /\ WF_cdcVars(Stopped) /\ WF_cdcVars(ConnectionCloses)

-----------------------------------------------------------------------------
(* Types of the variables.                                                 *)
CdcTypeOK ==
    /\ style \in Styles /\ phase \in {"clean", "main", "cleanup"}
    /\ step \in {"over", "status", "stop", "offsets", "delete", "drop", "sleep",
               "publication", "topics", "register", "wait", "drain", "burst", "judge"}
    /\ tx \in {"none", "open", "failed"} /\ tries \in 0 .. Attempts + 2
    /\ connector \in {"absent", "up", "stopping", "stopped"}
    /\ task \in {"none", "created", "running", "streaming"}
    /\ slot \in {"none", "active", "idle"}
    /\ {excuse, offsets, pub, kept} \subseteq BOOLEAN
    /\ topic \subseteq Event /\ {lsn, published} \subseteq 0 .. 1
    /\ faults \in 0 .. MaxFaults

(* What this run's task has published.                                     *)
Own == {e \in topic : e.own}

(* A task that streams has begun with a snapshot of its own and published  *)
(* every change after it: nothing an earlier run left behind, killed where *)
(* it may have been, suppresses the snapshot.  Events of an earlier run    *)
(* are in the topic only if this one has passed over a failed deletion.    *)
OwnSnapshotFirst ==
    (phase = "main" /\ task = "streaming") =>
      /\ \E s \in 0 .. 1 :
           Own = {[own |-> TRUE, op |-> "r", at |-> s]}
                   \cup {[own |-> TRUE, op |-> "c", at |-> n] : n \in s + 1 .. published}
      /\ topic # Own => kept

(* No run leaves a slot behind, as the clean-ups promise, unless it was    *)
(* killed, a call of it failed, the slot was in use at the last attempt to *)
(* drop it, or it is of task 01 and its wait timed out before its try: an  *)
(* attempt made when the slot is idle drops it.                            *)
OrphanIsExcused == (step = "over" /\ slot # "none") => excuse

(* WAL is not pinned for good: a slot nobody reads is dropped by a later   *)
(* run, whatever ended the run it is from.                                 *)
PinnedWalIsReleased == (slot = "idle") ~> (slot = "none")

-----------------------------------------------------------------------------
(* The inductive invariants behind OwnSnapshotFirst and OrphanIsExcused.   *)

MainSteps   == {"register", "wait", "drain", "burst", "judge"}
AfterDelete == {"drop", "sleep", "publication", "topics"}

StepsOfPhase ==
    /\ phase = "main" => step \in MainSteps \cup {"over"}
    /\ phase # "main" => step \notin MainSteps

(* A deleted connector has no task and no offset; one is deleted where it  *)
(* has stopped and its offset is reset.                                    *)
DeletedIsGone ==
    /\ connector \in {"absent", "stopped"} => task = "none"
    /\ connector = "absent" => ~offsets
    /\ step = "delete" => connector = "stopped" /\ ~offsets
    /\ step \in AfterDelete \cup {"register"} => connector = "absent"
    /\ phase = "main" => connector \in {"absent", "up"}

(* Until the run has changed something, nothing of it can be published;    *)
(* until its own task streams, it has no events and no offset.             *)
SlateIsClean ==
    /\ phase = "clean" => lsn = 0 /\ published = 0 /\ Own = {}
    /\ step \in MainSteps \ {"judge"} => lsn = 0
    /\ (phase = "main" /\ task # "streaming") =>
         Own = {} /\ ~offsets /\ published = 0
    /\ (phase = "main" /\ topic # Own) => kept

(* The snapshot is no later than the last change published.                *)
SnapshotThenChanges ==
    (phase = "main" /\ task = "streaming") =>
      \E s \in 0 .. published :
        Own = {[own |-> TRUE, op |-> "r", at |-> s]}
                \cup {[own |-> TRUE, op |-> "c", at |-> n] : n \in s + 1 .. published}

SlateInv == CdcTypeOK /\ StepsOfPhase /\ DeletedIsGone /\ SlateIsClean /\ SnapshotThenChanges

(* The validators that try again only on a connection that still works:    *)
(* those that roll back first, and those that poll until the slot is idle. *)
DropsWhenIdle == "once" \notin Styles /\ Styles \cap {"early", "poll"} \subseteq LongSleeps

(* A slot is gone once it is dropped, and every attempt that fails with    *)
(* one of them fails because the slot is in use.                           *)
SlotInv ==
    /\ step \in {"publication", "topics"} => slot = "none"
    /\ step = "over" => excuse \/ (connector = "absent" /\ slot = "none")
    /\ tx # "failed"
    /\ step \in {"status", "stop", "offsets", "delete"} => tx = "none"
    /\ step = "sleep" => style = "retry"
    /\ (step = "drop" /\ style \in {"early", "poll"} /\ tx = "open") => slot # "active"

=============================================================================
