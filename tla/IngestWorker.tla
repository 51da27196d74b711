----------------------------- MODULE IngestWorker ------------------------------
(***************************************************************************)
(* run_workload of the ingest worker,                                      *)
(* 11-python-concurrency/08-profiling-py-spy/src/app.py: a producer puts   *)
(* records and then one None per consumer on a bounded asyncio queue, a    *)
(* TaskGroup waits for all of them.  The queue is first in first out, so   *)
(* two counts describe it: the k-th item put is a record if k is at most   *)
(* made, else a None.                                                      *)
(***************************************************************************)
EXTENDS Integers, FiniteSets

CONSTANTS
  Consumers,
  MaxRecords   \* bound: n_records, or what is made before the time is up

ASSUME ConsumersAssumption == IsFiniteSet(Consumers) /\ Consumers # {}

Concurrency == Cardinality(Consumers)
QueueSize   == 2 * Concurrency

VARIABLES
  producer,    \* "checking", "putting", "sentinels", "done" or "cancelled"
  made,        \* records put
  put, got,    \* items put on the queue and taken from it
  consumer,    \* consumer[c]: "waiting", "working", "done" or "cancelled"
  processed, errors,   \* stats
  outcome      \* of run_workload: "running", "returned" or "cancelled"

vars == <<producer, made, put, got, consumer, processed, errors, outcome>>

Init == /\ producer = "checking" /\ outcome = "running"
        /\ made = 0 /\ put = 0 /\ got = 0 /\ processed = 0 /\ errors = 0
        /\ consumer = [c \in Consumers |-> "waiting"]

Room == put - got < QueueSize

Working == {c \in Consumers : consumer[c] = "working"}
Ended   == {c \in Consumers : consumer[c] = "done"}

(* The loop's test: another record, or n_records are made, or duration has *)
(* passed.                                                                 *)
CheckRecords ==
    /\ producer = "checking"
    /\ \/ made < MaxRecords /\ producer' = "putting"
       \/ producer' = "sentinels"
    /\ UNCHANGED <<made, put, got, consumer, processed, errors, outcome>>

PutRecord ==
    /\ producer = "putting" /\ Room
    /\ producer' = "checking"
    /\ made' = made + 1 /\ put' = put + 1
    /\ UNCHANGED <<got, consumer, processed, errors, outcome>>

(* Mutant: one None short.                                                 *)
PutSentinelShort ==
    /\ producer = "sentinels" /\ Room
    /\ put' = put + 1
    /\ producer' = IF put' >= made + Concurrency - 1 THEN "done" ELSE "sentinels"
    /\ UNCHANGED <<made, got, consumer, processed, errors, outcome>>

PutSentinel ==
    /\ producer = "sentinels" /\ Room
    /\ put' = put + 1
    /\ producer' = IF put' = made + Concurrency THEN "done" ELSE "sentinels"
    /\ UNCHANGED <<made, got, consumer, processed, errors, outcome>>

(* Mutant: record number 0 is falsy.                                       *)
GetFalsy(c) ==
    /\ consumer[c] = "waiting" /\ got < put
    /\ got' = got + 1
    /\ consumer' = [consumer EXCEPT ![c] = IF got + 1 \in 2 .. made
                                           THEN "working" ELSE "done"]
    /\ UNCHANGED <<producer, made, put, processed, errors, outcome>>

(* The next item: a record to work on, or None and the consumer returns.   *)
Get(c) ==
    /\ consumer[c] = "waiting" /\ got < put
    /\ got' = got + 1
    /\ consumer' = [consumer EXCEPT ![c] = IF got + 1 <= made
                                           THEN "working" ELSE "done"]
    /\ UNCHANGED <<producer, made, put, processed, errors, outcome>>

(* process_one returns, or raises the ValueError that is counted.          *)
Process(c) ==
    /\ consumer[c] = "working"
    /\ consumer' = [consumer EXCEPT ![c] = "waiting"]
    /\ \/ processed' = processed + 1 /\ UNCHANGED errors
       \/ errors' = errors + 1 /\ UNCHANGED processed
    /\ UNCHANGED <<producer, made, put, got, outcome>>

(* The TaskGroup's block ends when every task has.                         *)
Return == /\ outcome = "running" /\ producer = "done"
          /\ \A c \in Consumers : consumer[c] = "done"
          /\ outcome' = "returned"
          /\ UNCHANGED <<producer, made, put, got, consumer, processed, errors>>

(* The caller is cancelled, and with it every task that is not done.       *)
Cancel == /\ outcome = "running"
          /\ outcome' = "cancelled"
          /\ producer' = IF producer = "done" THEN "done" ELSE "cancelled"
          /\ consumer' = [c \in Consumers |-> IF consumer[c] = "done"
                                              THEN "done" ELSE "cancelled"]
          /\ UNCHANGED <<made, put, got, processed, errors>>

(* The command line's heartbeat ticks on.                                  *)
Heartbeat == UNCHANGED vars

Produce == CheckRecords \/ PutRecord \/ PutSentinel

Next == \/ Produce \/ Return \/ Cancel \/ Heartbeat
        \/ \E c \in Consumers : Get(c) \/ Process(c)

Spec == Init /\ [][Next]_vars

(* The event loop runs every task that is ready; the bound on the records  *)
(* is the time that runs out.                                              *)
Fairness == /\ WF_vars(Produce) /\ WF_vars(Return)
            /\ \A c \in Consumers : WF_vars(Get(c) \/ Process(c))

FairSpec == Spec /\ Fairness

-----------------------------------------------------------------------------
(* Types of the variables.                                                 *)
TypeOK == /\ producer \in {"checking", "putting", "sentinels", "done", "cancelled"}
          /\ outcome \in {"running", "returned", "cancelled"}
          /\ made \in Nat /\ put \in Nat /\ got \in Nat
          /\ processed \in Nat /\ errors \in Nat
          /\ consumer \in [Consumers -> {"waiting", "working", "done", "cancelled"}]

(* The statistics run_workload returns account for every record made: none *)
(* is left on the queue or taken by a consumer that leaves.                *)
AllAccounted == outcome = "returned" => processed + errors = made /\ put = got

(* A run that is not cancelled returns: the producer finds room for every  *)
(* None and every consumer finds its own.                                  *)
WorkloadEnds == <>(outcome # "running")

(* Why: the items taken are the records counted or worked on, and one None *)
(* per consumer that has returned.                                         *)
ItemsInOrder ==
    /\ made <= put /\ got <= put
    /\ producer \in {"checking", "putting"} => put = made
    /\ producer = "done" => put = made + Concurrency

TakenIsCounted ==
    outcome # "cancelled" =>
        /\ got <= made => /\ processed + errors + Cardinality(Working) = got
                          /\ Ended = {}
        /\ got >= made => /\ processed + errors + Cardinality(Working) = made
                          /\ Cardinality(Ended) = got - made

NoneCancelled ==
    outcome # "cancelled" => /\ producer # "cancelled"
                             /\ \A c \in Consumers : consumer[c] # "cancelled"

ReturnedIsOver ==
    outcome = "returned" => producer = "done" /\ Ended = Consumers

WorkerInv == /\ TypeOK /\ NoneCancelled /\ ItemsInOrder /\ TakenIsCounted
             /\ ReturnedIsOver /\ AllAccounted

=============================================================================
