------------------------------ MODULE AppQueue ------------------------------
(***************************************************************************)
(* The queue modes of the fixture app, 20-kubernetes/app/app.py:           *)
(* producer_loop and consumer_loop over RedisQueue or RabbitQueue.  Both   *)
(* backends take an item off the broker before it is processed (BLPOP,     *)
(* basic_get with auto_ack) and never push an item again; every error is   *)
(* answered by _connect, which retries until the broker is back.  The      *)
(* broker's content does not survive its restart (a non-durable queue, a   *)
(* container without a volume).                                            *)
(***************************************************************************)
EXTENDS Integers, Sequences, FiniteSets, SequencesExt

CONSTANTS Producers, Consumers,
          MaxItems,     \* bound: items one producer makes
          MaxFaults,    \* bound: lost calls and consumer crashes
          MaxRestarts   \* bound: restarts of the broker

ASSUME ClientsAssumption ==
  IsFiniteSet(Producers \cup Consumers) /\ Producers \cap Consumers = {}
ASSUME BoundsAssumption == {MaxItems, MaxFaults, MaxRestarts} \subseteq Nat

VARIABLES
  up,         \* the broker accepts connections
  queue,      \* its list of items
  stale,      \* clients whose connection is dead and who have not been told
  prod,       \* prod[p]: "connecting" or "looping"
  made,       \* made[p]: i of producer_loop
  cons,       \* cons[c]: "connecting", "polling", "got" or "processing"
  item,       \* item[c]: the item popped last
  processed,  \* processed[c]: processed_count of c's process
  depth,      \* depth[x]: queue_depth of a client's process, -1 if unknown
  log,        \* log[c]: all items c counted, in order, across restarts
  dropped,    \* items lost between the broker and a client
  wiped,      \* items lost with the broker's content
  faults, restarts,
  backend     \* QUEUE_BACKEND: "redis" or "rabbitmq"

broker    == <<up, queue, stale>>
queueVars == <<broker, prod, made, cons, item, processed, depth, log, dropped,
               wiped, faults, restarts, backend>>

Clients == Producers \cup Consumers
Items   == Producers \X (1 .. MaxItems)

QueueInit ==
    /\ up = TRUE /\ queue = <<>> /\ stale = {}
    /\ prod = [p \in Producers |-> "connecting"]
    /\ made = [p \in Producers |-> 0]
    /\ cons = [c \in Consumers |-> "connecting"]
    /\ item = [c \in Consumers |-> <<>>]
    /\ processed = [c \in Consumers |-> 0]
    /\ depth = [x \in Clients |-> -1]
    /\ log = [c \in Consumers |-> <<>>]
    /\ dropped = {} /\ wiped = {}
    /\ faults = 0 /\ restarts = 0
    /\ backend \in {"redis", "rabbitmq"}

Fault == faults < MaxFaults /\ faults' = faults + 1

(* A call of x gets to the broker: redis-py may open a new connection for  *)
(* the call, but what pika writes on a dead one never arrives.             *)
Reaches(x) == up /\ (backend = "redis" \/ x \notin stale)

(* A call of x on the broker raises: nobody listens, x's connection is     *)
(* dead, or the call is lost.                                              *)
CallFails(x) == \/ (~up \/ x \in stale) /\ UNCHANGED faults
                \/ up /\ Fault

(* Who believes to be connected.                                           *)
Connected == {p \in Producers : prod[p] = "looping"}
               \cup {c \in Consumers : cons[c] # "connecting"}

(* x's connection dies and x is not told: half open, or blocked by the     *)
(* broker until blocked_connection_timeout or the heartbeat closes it.     *)
(* (On Redis every call waits for its answer, so the next call is told:    *)
(* that is CallFails.)                                                     *)
ConnectionDies(x) ==
    /\ backend = "rabbitmq" /\ x \in Connected \ stale
    /\ Fault
    /\ stale' = stale \cup {x}
    /\ UNCHANGED <<up, queue, prod, made, cons, item, processed, depth, log,
                   dropped, wiped, restarts, backend>>

-----------------------------------------------------------------------------
(* _connect of either backend: it loops until the broker is up.            *)
ConnectProducer(p) ==
    /\ prod[p] = "connecting" /\ up
    /\ prod' = [prod EXCEPT ![p] = "looping"]
    /\ stale' = stale \ {p}
    /\ UNCHANGED <<up, queue, made, cons, item, processed, depth, log, dropped,
                   wiped, faults, restarts, backend>>

ConnectConsumer(c) ==
    /\ cons[c] = "connecting" /\ up
    /\ cons' = [cons EXCEPT ![c] = "polling"]
    /\ stale' = stale \ {c}
    /\ UNCHANGED <<up, queue, prod, made, item, processed, depth, log, dropped,
                   wiped, faults, restarts, backend>>

(* producer_loop makes the next item; i grows whatever becomes of it.      *)
Make(p) == /\ prod[p] = "looping" /\ made[p] < MaxItems
           /\ made' = [made EXCEPT ![p] = @ + 1]

Push(p) ==
    /\ Reaches(p) /\ Make(p)
    /\ queue' = Append(queue, <<p, made'[p]>>)
    /\ UNCHANGED <<up, stale, prod, cons, item, processed, depth, log, dropped,
                   wiped, faults, restarts, backend>>

(* Mutant: push does not wait for a new connection before it goes on.      *)
PushFailsOnward(p) ==
    /\ CallFails(p) /\ Make(p)
    /\ dropped' = dropped \cup {<<p, made'[p]>>}
    /\ UNCHANGED <<broker, prod, cons, item, processed, depth, log, wiped,
                   restarts, backend>>

(* push raises: the client reconnects and goes on with the next item.      *)
PushFails(p) ==
    /\ CallFails(p) /\ Make(p)
    /\ prod' = [prod EXCEPT ![p] = "connecting"]
    /\ dropped' = dropped \cup {<<p, made'[p]>>}
    /\ UNCHANGED <<broker, cons, item, processed, depth, log, wiped, restarts,
                   backend>>

(* basic_publish without publisher confirms: on a dead connection push     *)
(* returns as if the broker had the item, and the loop goes on.            *)
PushLost(p) ==
    /\ backend = "rabbitmq" /\ p \in stale /\ Make(p)
    /\ dropped' = dropped \cup {<<p, made'[p]>>}
    /\ UNCHANGED <<broker, prod, cons, item, processed, depth, log, wiped,
                   faults, restarts, backend>>

(* Mutant: after reconnecting, the item is pushed again.                   *)
PushUnconfirmedRetried(p) ==
    /\ Reaches(p) /\ Fault /\ Make(p)
    /\ queue' = queue \o << <<p, made'[p]>>, <<p, made'[p]>> >>
    /\ UNCHANGED <<up, stale, prod, cons, item, processed, depth, log, dropped,
                   wiped, restarts, backend>>

(* The broker has the item, but the answer is lost.                        *)
PushUnconfirmed(p) ==
    /\ Reaches(p) /\ Fault /\ Make(p)
    /\ queue' = Append(queue, <<p, made'[p]>>)
    /\ prod' = [prod EXCEPT ![p] = "connecting"]
    /\ UNCHANGED <<up, stale, cons, item, processed, depth, log, dropped, wiped,
                   restarts, backend>>

-----------------------------------------------------------------------------
(* pop returns None: BLPOP timed out or basic_get found nothing.           *)
PopNothing(c) ==
    cons[c] = "polling" /\ Reaches(c) /\ queue = <<>> /\ UNCHANGED queueVars

(* Mutants: the newest item first; the item goes back to the broker.       *)
PopNewest(c) ==
    /\ cons[c] = "polling" /\ Reaches(c) /\ queue # <<>>
    /\ item' = [item EXCEPT ![c] = Last(queue)]
    /\ queue' = Front(queue)
    /\ cons' = [cons EXCEPT ![c] = "got"]
    /\ UNCHANGED <<up, stale, prod, made, processed, depth, log, dropped, wiped,
                   faults, restarts, backend>>

PopRequeued(c) ==
    /\ cons[c] = "polling" /\ Reaches(c) /\ queue # <<>>
    /\ queue' = Append(Tail(queue), Head(queue))
    /\ UNCHANGED <<up, stale, prod, made, cons, item, processed, depth, log,
                   dropped, wiped, faults, restarts, backend>>

(* pop returns an item, which the broker has forgotten.                    *)
Pop(c) ==
    /\ cons[c] = "polling" /\ Reaches(c) /\ queue # <<>>
    /\ item' = [item EXCEPT ![c] = Head(queue)]
    /\ queue' = Tail(queue)
    /\ cons' = [cons EXCEPT ![c] = "got"]
    /\ UNCHANGED <<up, stale, prod, made, processed, depth, log, dropped, wiped,
                   faults, restarts, backend>>

(* pop raises before the broker has taken anything off.                    *)
PopFails(c) ==
    /\ cons[c] = "polling"
    /\ CallFails(c)
    /\ cons' = [cons EXCEPT ![c] = "connecting"]
    /\ UNCHANGED <<broker, prod, made, item, processed, depth, log, dropped,
                   wiped, restarts, backend>>

(* Mutant: pop leaves the item to be taken again.                          *)
PopAnswerLostKept(c) ==
    /\ cons[c] = "polling" /\ Reaches(c) /\ queue # <<>>
    /\ Fault
    /\ dropped' = dropped \cup {Head(queue)}
    /\ cons' = [cons EXCEPT ![c] = "connecting"]
    /\ UNCHANGED <<broker, prod, made, item, processed, depth, log, wiped,
                   restarts, backend>>

(* The broker has taken the item off, but the answer is lost.              *)
PopAnswerLost(c) ==
    /\ cons[c] = "polling" /\ Reaches(c) /\ queue # <<>>
    /\ Fault
    /\ dropped' = dropped \cup {Head(queue)}
    /\ queue' = Tail(queue)
    /\ cons' = [cons EXCEPT ![c] = "connecting"]
    /\ UNCHANGED <<up, stale, prod, made, item, processed, depth, log, wiped,
                   restarts, backend>>

(* processed_count += 1, before the item is worked on.                     *)
CountItem(c) ==
    /\ cons[c] = "got"
    /\ cons' = [cons EXCEPT ![c] = "processing"]
    /\ processed' = [processed EXCEPT ![c] = @ + 1]
    /\ log' = [log EXCEPT ![c] = Append(@, item[c])]
    /\ UNCHANGED <<broker, prod, made, item, depth, dropped, wiped, faults,
                   restarts, backend>>

(* time.sleep(PROCESS_MS / 1000)                                           *)
Process(c) ==
    /\ cons[c] = "processing"
    /\ cons' = [cons EXCEPT ![c] = "polling"]
    /\ UNCHANGED <<broker, prod, made, item, processed, depth, log, dropped,
                   wiped, faults, restarts, backend>>

(* Mutant: an empty queue is not worth a refresh.                          *)
PollDepthNonZero(c) ==
    /\ cons[c] = "polling" /\ Reaches(c)
    /\ depth[c] # Len(queue) /\ Len(queue) > 0
    /\ depth' = [depth EXCEPT ![c] = Len(queue)]
    /\ UNCHANGED <<broker, prod, made, cons, item, processed, log, dropped,
                   wiped, faults, restarts, backend>>

(* Every two seconds the consumer refreshes queue_depth; an error gives -1 *)
(* and may cost the channel (a failed passive declare closes it).          *)
PollDepth(c) ==
    /\ cons[c] = "polling" /\ Reaches(c)
    /\ depth[c] # Len(queue)
    /\ depth' = [depth EXCEPT ![c] = Len(queue)]
    /\ UNCHANGED <<broker, prod, made, cons, item, processed, log, dropped,
                   wiped, faults, restarts, backend>>

PollDepthFails(c) ==
    /\ cons[c] = "polling" /\ depth[c] # -1
    /\ CallFails(c)
    /\ depth' = [depth EXCEPT ![c] = -1]
    /\ stale' = stale \cup {c}
    /\ UNCHANGED <<up, queue, prod, made, cons, item, processed, log, dropped,
                   wiped, restarts, backend>>

-----------------------------------------------------------------------------
(* A consumer's process ends (crash, or SIGTERM: see AppServer) and its    *)
(* pod starts a new one.                                                   *)
CrashConsumer(c) ==
    /\ Fault
    /\ dropped' = IF cons[c] = "got" THEN dropped \cup {item[c]} ELSE dropped
    /\ cons' = [cons EXCEPT ![c] = "connecting"]
    /\ processed' = [processed EXCEPT ![c] = 0]
    /\ depth' = [depth EXCEPT ![c] = -1]
    /\ UNCHANGED <<broker, prod, made, item, log, wiped, restarts, backend>>

(* The broker goes down with its content; connections die with it.         *)
BrokerDown ==
    /\ up /\ restarts < MaxRestarts
    /\ restarts' = restarts + 1
    /\ up' = FALSE
    /\ wiped' = wiped \cup ToSet(queue)
    /\ queue' = <<>>
    /\ stale' = Clients
    /\ UNCHANGED <<prod, made, cons, item, processed, depth, log, dropped,
                   faults, backend>>

BrokerUp ==
    /\ ~up
    /\ up' = TRUE
    /\ UNCHANGED <<queue, stale, prod, made, cons, item, processed, depth, log,
                   dropped, wiped, faults, restarts, backend>>

-----------------------------------------------------------------------------
ProducerStep(p) == ConnectProducer(p) \/ Push(p)
ConsumerStep(c) == ConnectConsumer(c) \/ Pop(c) \/ CountItem(c) \/ Process(c)
Disturb == \/ \E p \in Producers : \/ PushFails(p) \/ PushLost(p)
                                   \/ PushUnconfirmed(p)
           \/ \E c \in Consumers : \/ PopFails(c) \/ PopAnswerLost(c)
                                   \/ PollDepthFails(c) \/ CrashConsumer(c)
           \/ \E x \in Clients : ConnectionDies(x)
           \/ BrokerDown

QueueNext ==
    \/ \E p \in Producers : ProducerStep(p)
    \/ \E c \in Consumers : ConsumerStep(c) \/ PopNothing(c) \/ PollDepth(c)
    \/ BrokerUp \/ Disturb

QueueSpec == QueueInit /\ [][QueueNext]_queueVars

(* Loops run, the broker comes back, two seconds pass; a push on a dead    *)
(* connection ends one way or the other.                                   *)
QueueFairSpec ==
    /\ QueueSpec
    /\ \A p \in Producers :
         WF_queueVars(ProducerStep(p) \/ PushFails(p) \/ PushLost(p))
    /\ \A c \in Consumers : WF_queueVars(ConsumerStep(c) \/ PopFails(c))
                            /\ WF_queueVars(PollDepth(c))
    /\ WF_queueVars(BrokerUp)

-----------------------------------------------------------------------------
Counted == UNION {ToSet(log[c]) : c \in Consumers}
InHand  == {item[c] : c \in {d \in Consumers : cons[d] = "got"}}
Made    == {i \in Items : i[2] <= made[i[1]]}

(* Types of the variables.                                                 *)
QueueTypeOK ==
    /\ up \in BOOLEAN /\ stale \subseteq Clients
    /\ queue \in Seq(Items)
    /\ prod \in [Producers -> {"connecting", "looping"}]
    /\ made \in [Producers -> 0 .. MaxItems]
    /\ cons \in [Consumers -> {"connecting", "polling", "got", "processing"}]
    /\ item \in [Consumers -> Items \cup {<<>>}]
    /\ processed \in [Consumers -> Nat]
    /\ depth \in [Clients -> Int]
    /\ log \in [Consumers -> Seq(Items)]
    /\ dropped \subseteq Items /\ wiped \subseteq Items
    /\ faults \in 0 .. MaxFaults /\ restarts \in 0 .. MaxRestarts
    /\ backend \in {"redis", "rabbitmq"}

(* Delivery is at most once: no item is counted twice, by one consumer or  *)
(* by two, whatever calls are lost and whoever crashes.                    *)
AtMostOnce ==
    \A c, d \in Consumers : \A i \in DOMAIN log[c], j \in DOMAIN log[d] :
      log[c][i] = log[d][j] => c = d /\ i = j

(* Every item made is in exactly one place: on the broker, in a consumer's *)
(* hand, counted, dropped on the way or wiped with the broker.             *)
Conservation ==
    /\ Made = ToSet(queue) \cup InHand \cup Counted \cup dropped \cup wiped
    /\ Cardinality(Made) = Len(queue) + Cardinality(InHand)
         + Cardinality(Counted) + Cardinality(dropped) + Cardinality(wiped)

(* How often something was lost on the way: on Redis every item counts, on *)
(* RabbitMQ every unbroken run of one producer's items.                    *)
Losses == IF backend = "redis" THEN dropped
          ELSE {i \in dropped : <<i[1], i[2] - 1>> \notin dropped}

(* Losses on the way are bounded by what goes wrong: one for each lost     *)
(* call, crash or dead connection, and one per producer for each restart   *)
(* of the broker.  A Redis client loses one item each time; a RabbitMQ     *)
(* producer, who is not told, may lose many, but only in a row.            *)
LossIsBounded ==
    Cardinality(Losses) <= faults + restarts * Cardinality(Producers)

(* Each consumer sees the items of one producer in the order they were     *)
(* made, across its own restarts.                                          *)
InOrder ==
    \A c \in Consumers : \A i, j \in DOMAIN log[c] :
      (i < j /\ log[c][i][1] = log[c][j][1]) => log[c][i][2] < log[c][j][2]

(* The queue is drained once the producers have made their items: a broker *)
(* outage or a lost call stops neither loop for good.                      *)
EventuallyDrained ==
    <>[](queue = <<>> /\ \A p \in Producers : made[p] = MaxItems)

(* The gauges of the consumers settle at zero with the queue: neither an   *)
(* old depth nor the -1 of a failed refresh stays (what an autoscaler that *)
(* watches app_queue_depth waits for).                                     *)
GaugesSettle == <>[](\A c \in Consumers : depth[c] = 0)

(* The gauge app_queue_depth is exposed in producer mode too               *)
(* (design.md:116): a producer's process comes to know a depth.            *)
ProducerKnowsDepth == \A p \in Producers : <>(depth[p] # -1)

-----------------------------------------------------------------------------
(* The queue implements the contract of DeliveryContract: an item waits on *)
(* the broker and in the hand of the consumer that has taken it off, and   *)
(* is lost when it is dropped or wiped.                                    *)
Delivery == INSTANCE DeliveryContract WITH lost <- dropped \cup wiped

(* Every step of clients and broker is a step of the contract or changes   *)
(* nothing in it: whatever calls fail and processes end, an item is never  *)
(* counted after it was given up, nor behind a later one.                  *)
ImplementsDelivery == Delivery!Spec

=============================================================================
