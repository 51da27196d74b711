---------------------------- MODULE AppQueueProofs -----------------------------
(* Proofs about AppQueue: delivery is at most once and in the producers'   *)
(* order, every item is in one place, and the queue implements             *)
(* DeliveryContract, for any number of clients, items, faults and          *)
(* restarts.                                                               *)
EXTENDS AppQueue, FiniteSetTheorems, TLAPS

Item == Producers \X Nat
Got  == {c \in Consumers : cons[c] = "got"}

Shapes == /\ queue \in Seq(Item)
          /\ made \in [Producers -> Nat]
          /\ cons \in [Consumers -> {"connecting", "polling", "got", "processing"}]
          /\ item \in [Consumers -> Item \cup {<<>>}]
          /\ log \in [Consumers -> Seq(Item)]
          /\ \A c \in Got : item[c] \in Item

(* x comes before y, if they are of one producer.                          *)
Older(x, y) == x[1] = y[1] => x[2] < y[2]

(* What has been made is numbered.                                         *)
Numbered == /\ \A i \in DOMAIN queue : queue[i][2] <= made[queue[i][1]]
            /\ \A c \in Got : item[c][2] <= made[item[c][1]]
            /\ \A c \in Consumers : \A i \in DOMAIN log[c] :
                 log[c][i][2] <= made[log[c][i][1]]

(* Items stand on the broker in the order in which they were made, and     *)
(* those that have left it are older.                                      *)
QueueIsOrdered ==
    \A i, j \in DOMAIN queue : i < j => Older(queue[i], queue[j])
TakenIsOlder ==
    \A j \in DOMAIN queue :
      /\ \A c \in Got : Older(item[c], queue[j])
      /\ \A c \in Consumers : \A i \in DOMAIN log[c] : Older(log[c][i], queue[j])

(* An item in a consumer's hand follows those it has counted, and nobody   *)
(* else has it or has counted it.                                          *)
HandIsNew ==
    \A c \in Got :
      /\ \A i \in DOMAIN log[c] : Older(log[c][i], item[c])
      /\ \A d \in Consumers : \A i \in DOMAIN log[d] : log[d][i] # item[c]
      /\ \A d \in Got : d # c => item[d] # item[c]

QueueInv == /\ Shapes /\ Numbered /\ QueueIsOrdered /\ TakenIsOlder /\ HandIsNew
            /\ InOrder /\ AtMostOnce

-----------------------------------------------------------------------------
LEMMA InitInv == ASSUME QueueInit PROVE QueueInv
<1>1. Shapes /\ Got = {} /\ queue = <<>> /\ \A c \in Consumers : log[c] = <<>>
  BY DEF QueueInit, Shapes, Got
<1> QED BY <1>1 DEF QueueInv, Numbered, QueueIsOrdered, TakenIsOlder, HandIsNew,
                    InOrder, AtMostOnce

(* Nothing is taken, counted or put on the broker: its content may be      *)
(* wiped, items dropped from hands, and items made that never arrive.      *)
LEMMA LossStep ==
  ASSUME QueueInv, Shapes', queue' \in {queue, <<>>}, UNCHANGED <<item, log>>,
         Got' \subseteq Got, \A p \in Producers : made[p] <= made'[p]
  PROVE  QueueInv'
<1>1. Shapes
  BY DEF QueueInv
<1>2. DOMAIN queue' \subseteq DOMAIN queue /\ \A i \in DOMAIN queue' : queue'[i] = queue[i]
  OBVIOUS
<1>3. Numbered'
  <2>1. \A i \in DOMAIN queue' : queue'[i][2] <= made'[queue'[i][1]]
    BY <1>1, <1>2 DEF QueueInv, Shapes, Numbered, Item
  <2>2. \A c \in Got' : item'[c][2] <= made'[item'[c][1]]
    BY <1>1 DEF QueueInv, Shapes, Numbered, Item
  <2>3. \A c \in Consumers : \A i \in DOMAIN log'[c] :
          log'[c][i][2] <= made'[log'[c][i][1]]
    BY <1>1 DEF QueueInv, Shapes, Numbered, Item
  <2> QED BY <2>1, <2>2, <2>3 DEF Numbered
<1>4. QueueIsOrdered' /\ TakenIsOlder'
  BY <1>2 DEF QueueInv, QueueIsOrdered, TakenIsOlder, Older
<1>5. HandIsNew' /\ InOrder' /\ AtMostOnce'
  BY DEF QueueInv, HandIsNew, Older, InOrder, AtMostOnce
<1> QED BY <1>3, <1>4, <1>5 DEF QueueInv

(* A new item is put on the broker.                                        *)
LEMMA PushStep ==
  ASSUME QueueInv, NEW p \in Producers, made' = [made EXCEPT ![p] = @ + 1],
         queue' = Append(queue, <<p, made'[p]>>), UNCHANGED <<cons, item, log>>
  PROVE  QueueInv'
<1> DEFINE x == <<p, made'[p]>>
<1>1. Shapes /\ made'[p] = made[p] + 1 /\ made[p] \in Nat
  BY DEF QueueInv, Shapes
<1>2. \A q \in Producers : made[q] \in Nat /\ made'[q] \in Nat /\ made[q] <= made'[q]
  BY <1>1 DEF Shapes
<1>3. x \in Item
  BY <1>1 DEF Item
<1>4. /\ Len(queue) \in Nat /\ Len(queue') = Len(queue) + 1
      /\ DOMAIN queue = 1 .. Len(queue) /\ DOMAIN queue' = 1 .. Len(queue) + 1
      /\ \A i \in DOMAIN queue : queue'[i] = queue[i] /\ queue[i] \in Item
      /\ queue'[Len(queue) + 1] = x
  BY <1>1, <1>3 DEF Shapes
<1>5. Got' = Got
  BY DEF Got
<1>6. Shapes'
  BY <1>1, <1>3, <1>5 DEF Shapes
<1>7. \A y \in Item : y[2] <= made[y[1]] => y[2] <= made'[y[1]] /\ Older(y, x)
  BY <1>1, <1>2 DEF Item, Older
<1>8. Numbered'
  <2>1. \A i \in DOMAIN queue' : queue'[i][2] <= made'[queue'[i][1]]
    BY <1>2, <1>4, <1>7 DEF QueueInv, Numbered
  <2>2. \A c \in Got' : item'[c][2] <= made'[item'[c][1]]
    BY <1>1, <1>5, <1>7 DEF QueueInv, Shapes, Numbered
  <2>3. \A c \in Consumers : \A i \in DOMAIN log'[c] :
          log'[c][i][2] <= made'[log'[c][i][1]]
    BY <1>1, <1>7 DEF QueueInv, Shapes, Numbered
  <2> QED BY <2>1, <2>2, <2>3 DEF Numbered
<1>9. QueueIsOrdered'
  BY <1>4, <1>7 DEF QueueInv, QueueIsOrdered, Numbered
<1>10. TakenIsOlder'
  <2>1. ASSUME NEW c \in Got PROVE Older(item[c], x)
    BY <1>1, <1>7 DEF QueueInv, Shapes, Numbered
  <2>2. ASSUME NEW c \in Consumers, NEW i \in DOMAIN log[c] PROVE Older(log[c][i], x)
    <3>1. log[c][i] \in Item /\ log[c][i][2] <= made[log[c][i][1]]
      BY <1>1 DEF QueueInv, Shapes, Numbered
    <3> QED BY <3>1, <1>7
  <2>3. ASSUME NEW j \in DOMAIN queue'
        PROVE  /\ \A c \in Got : Older(item[c], queue'[j])
               /\ \A c \in Consumers : \A i \in DOMAIN log[c] :
                    Older(log[c][i], queue'[j])
    <3>1. CASE j \in DOMAIN queue
      BY <3>1, <1>4 DEF QueueInv, TakenIsOlder
    <3>2. CASE j = Len(queue) + 1
      <4>1. queue'[j] = x
        BY <3>2, <1>4
      <4> HIDE DEF x
      <4>2. \A c \in Got : Older(item[c], x)
        BY <2>1
      <4>3. \A c \in Consumers : \A i \in DOMAIN log[c] : Older(log[c][i], x)
        BY <2>2
      <4> QED BY <4>1, <4>2, <4>3
    <3>3. j \in DOMAIN queue \/ j = Len(queue) + 1
      BY <1>4
    <3> QED BY <3>1, <3>2, <3>3
  <2> QED BY <1>5, <2>3 DEF TakenIsOlder
<1>11. HandIsNew' /\ InOrder' /\ AtMostOnce'
  BY <1>5 DEF QueueInv, HandIsNew, Older, InOrder, AtMostOnce
<1> QED BY <1>6, <1>8, <1>9, <1>10, <1>11 DEF QueueInv

LEMMA OlderDiffers == ASSUME NEW x \in Item, NEW y \in Item, Older(x, y) PROVE x # y
BY DEF Item, Older

LEMMA TailFacts ==
  ASSUME Shapes, queue # <<>>
  PROVE  /\ Tail(queue) \in Seq(Item) /\ 1 \in DOMAIN queue
         /\ Head(queue) \in Item /\ Head(queue) = queue[1]
         /\ \A i \in DOMAIN Tail(queue) : /\ i + 1 \in DOMAIN queue /\ 1 < i + 1
                                         /\ Tail(queue)[i] = queue[i + 1]
         /\ DOMAIN Tail(queue) \subseteq Nat
BY DEF Shapes

(* The head of the queue is lost between the broker and a client.          *)
LEMMA TailStep ==
  ASSUME QueueInv, Shapes', queue # <<>>, queue' = Tail(queue), Got' \subseteq Got,
         UNCHANGED <<made, item, log>>
  PROVE  QueueInv'
<1>1. Shapes
  BY DEF QueueInv
<1>2. \A i \in DOMAIN queue' : /\ i \in Nat /\ i + 1 \in DOMAIN queue
                               /\ queue'[i] = queue[i + 1]
  BY <1>1, TailFacts
<1>3. Numbered'
  BY <1>2 DEF QueueInv, Numbered
<1>4. QueueIsOrdered'
  BY <1>2 DEF QueueInv, QueueIsOrdered
<1>5. TakenIsOlder'
  BY <1>2 DEF QueueInv, TakenIsOlder, Older
<1>6. HandIsNew' /\ InOrder' /\ AtMostOnce'
  BY DEF QueueInv, HandIsNew, Older, InOrder, AtMostOnce
<1> QED BY <1>3, <1>4, <1>5, <1>6 DEF QueueInv

(* A consumer takes the head of the queue.                                 *)
LEMMA PopStep == ASSUME QueueInv, NEW c \in Consumers, Pop(c) PROVE QueueInv'
<1> DEFINE x == Head(queue)
<1>1. /\ Shapes /\ queue # <<>> /\ queue' = Tail(queue) /\ UNCHANGED <<made, log>>
      /\ item' = [item EXCEPT ![c] = x]
  BY DEF QueueInv, Pop
<1>2. c \notin Got /\ Got' = Got \cup {c}
  BY <1>1 DEF Pop, Got, Shapes
<1>3. \A i \in DOMAIN queue' : /\ i \in Nat /\ i + 1 \in DOMAIN queue /\ 1 < i + 1
                               /\ queue'[i] = queue[i + 1]
  BY <1>1, TailFacts
<1>4. x \in Item /\ 1 \in DOMAIN queue /\ x = queue[1]
  BY <1>1, TailFacts
<1>5. item'[c] = x /\ \A d \in Got : item'[d] = item[d]
  BY <1>1, <1>2 DEF Shapes, Got
<1>6. Shapes'
  <2>1. queue' \in Seq(Item) /\ item' \in [Consumers -> Item \cup {<<>>}]
    BY <1>1, <1>4, TailFacts DEF Shapes
  <2>2. cons' \in [Consumers -> {"connecting", "polling", "got", "processing"}]
    BY <1>1 DEF Pop, Shapes
  <2> QED BY <1>1, <1>2, <1>4, <1>5, <2>1, <2>2 DEF Shapes
<1>7. Numbered'
  BY <1>1, <1>2, <1>3, <1>4, <1>5 DEF QueueInv, Numbered
<1>8. QueueIsOrdered'
  BY <1>3 DEF QueueInv, QueueIsOrdered
<1>9. TakenIsOlder'
  <2>1. ASSUME NEW j \in DOMAIN queue' PROVE Older(x, queue'[j])
    BY <1>3, <1>4 DEF QueueInv, QueueIsOrdered
  <2> HIDE DEF x
  <2> QED BY <1>1, <1>2, <1>3, <1>5, <2>1 DEF QueueInv, TakenIsOlder
<1>10. HandIsNew'
  <2>1. \A d \in Consumers : \A i \in DOMAIN log[d] :
          log[d][i] \in Item /\ Older(log[d][i], x)
    BY <1>1, <1>4 DEF QueueInv, TakenIsOlder, Shapes
  <2>2. \A d \in Got : item[d] \in Item /\ Older(item[d], x)
    BY <1>1, <1>4 DEF QueueInv, TakenIsOlder, Shapes
  <2> HIDE DEF x
  <2>3. /\ \A d \in Consumers : \A i \in DOMAIN log[d] : log[d][i] # x
        /\ \A d \in Got : item[d] # x
    BY <1>4, <2>1, <2>2, OlderDiffers
  <2> QED BY <1>1, <1>2, <1>5, <2>1, <2>3 DEF QueueInv, HandIsNew
<1>11. InOrder' /\ AtMostOnce'
  BY <1>1 DEF QueueInv, InOrder, AtMostOnce
<1> QED BY <1>6, <1>7, <1>8, <1>9, <1>10, <1>11 DEF QueueInv

(* A consumer counts what it has in hand.                                  *)
LEMMA CountStep == ASSUME QueueInv, NEW c \in Consumers, CountItem(c) PROVE QueueInv'
<1> DEFINE x == item[c]
<1>1. /\ Shapes /\ c \in Got /\ x \in Item /\ UNCHANGED <<queue, made, item>>
      /\ log' = [log EXCEPT ![c] = Append(@, x)]
  BY DEF QueueInv, Shapes, CountItem, Got, broker
<1>2. Got' = Got \ {c}
  BY <1>1 DEF CountItem, Got, Shapes
<1>3. /\ log'[c] = Append(log[c], x) /\ Len(log[c]) \in Nat
      /\ DOMAIN log[c] = 1 .. Len(log[c]) /\ DOMAIN log'[c] = 1 .. Len(log[c]) + 1
      /\ \A i \in DOMAIN log[c] : log'[c][i] = log[c][i]
      /\ log'[c][Len(log[c]) + 1] = x
  BY <1>1 DEF Shapes
<1>4. \A d \in Consumers : d # c => log'[d] = log[d]
  BY <1>1 DEF Shapes
<1>5. ASSUME NEW d \in Consumers, NEW i \in DOMAIN log'[d]
      PROVE  \/ d = c /\ i = Len(log[c]) + 1 /\ log'[d][i] = x
             \/ i \in DOMAIN log[d] /\ log'[d][i] = log[d][i]
  BY <1>3, <1>4
<1>6. Shapes'
  <2>1. log' \in [Consumers -> Seq(Item)]
    BY <1>1, <1>3 DEF Shapes
  <2>2. cons' \in [Consumers -> {"connecting", "polling", "got", "processing"}]
    BY <1>1 DEF CountItem, Shapes
  <2> QED BY <1>1, <1>2, <2>1, <2>2 DEF Shapes
<1> HIDE DEF x
<1>7. Numbered'
  BY <1>1, <1>2, <1>5 DEF QueueInv, Numbered, x
<1>8. QueueIsOrdered'
  BY <1>1 DEF QueueInv, QueueIsOrdered
<1>9. TakenIsOlder'
  BY <1>1, <1>2, <1>5 DEF QueueInv, TakenIsOlder, x
<1>10. /\ \A i \in DOMAIN log[c] : Older(log[c][i], x)
       /\ \A d \in Consumers : \A i \in DOMAIN log[d] : log[d][i] # x
       /\ \A d \in Got : d # c => item[d] # x
  BY <1>1 DEF QueueInv, HandIsNew, x
<1>11. HandIsNew'
  BY <1>1, <1>2, <1>4, <1>5, <1>10 DEF QueueInv, HandIsNew
<1>12. AtMostOnce'
  BY <1>5, <1>10 DEF QueueInv, AtMostOnce
<1>13. InOrder'
  <2>1. ASSUME NEW d \in Consumers, NEW i \in DOMAIN log'[d], NEW j \in DOMAIN log'[d],
               i < j
        PROVE  Older(log'[d][i], log'[d][j])
    <3>1. CASE d # c
      BY <2>1, <3>1, <1>4 DEF QueueInv, InOrder, Older
    <3>2. CASE d = c /\ j \in DOMAIN log[c]
      BY <2>1, <3>2, <1>3 DEF QueueInv, InOrder, Older
    <3>3. CASE d = c /\ j = Len(log[c]) + 1
      BY <2>1, <3>3, <1>3, <1>10
    <3> QED BY <1>3, <3>1, <3>2, <3>3
  <2> QED BY <2>1 DEF InOrder, Older
<1> QED BY <1>6, <1>7, <1>8, <1>9, <1>11, <1>12, <1>13 DEF QueueInv

-----------------------------------------------------------------------------
(* A consumer's state changes, but not to "got".                           *)
LEMMA MoveFacts ==
  ASSUME Shapes, NEW c \in Consumers, NEW l \in {"connecting", "polling", "processing"},
         cons' = [cons EXCEPT ![c] = l], item' = item
  PROVE  /\ cons' \in [Consumers -> {"connecting", "polling", "got", "processing"}]
         /\ Got' \subseteq Got
         /\ \A d \in Got' : item'[d] \in Item
BY DEF Shapes, Got

LEMMA ConsumerMoves ==
  ASSUME QueueInv, NEW c \in Consumers, NEW l \in {"connecting", "polling", "processing"},
         cons' = [cons EXCEPT ![c] = l], UNCHANGED <<queue, made, item, log>>
  PROVE  QueueInv'
<1>1. Shapes /\ \A p \in Producers : made[p] <= made'[p]
  BY DEF QueueInv, Shapes
<1>2. Shapes' /\ Got' \subseteq Got
  BY <1>1, MoveFacts DEF Shapes
<1> QED BY <1>1, <1>2, LossStep

LEMMA Unmoved ==
  ASSUME QueueInv, UNCHANGED <<queue, made, cons, item, log>>
  PROVE  QueueInv'
<1>1. Shapes' /\ Got' = Got /\ \A p \in Producers : made[p] <= made'[p]
  BY DEF QueueInv, Shapes, Got
<1> QED BY <1>1, LossStep

LEMMA PushFailsStep ==
  ASSUME QueueInv, NEW p \in Producers, PushFails(p) \/ PushLost(p) PROVE QueueInv'
<1>1. Shapes /\ UNCHANGED <<queue, cons, item, log>> /\ made' = [made EXCEPT ![p] = @ + 1]
  BY DEF QueueInv, PushFails, PushLost, Make, broker
<1>2. \A q \in Producers : made'[q] \in Nat /\ made[q] <= made'[q]
  BY <1>1 DEF Shapes
<1>3. Shapes' /\ Got' = Got
  BY <1>1, <1>2 DEF Shapes, Got
<1> QED BY <1>1, <1>2, <1>3, LossStep

LEMMA BrokerDownStep == ASSUME QueueInv, BrokerDown PROVE QueueInv'
<1>1. Shapes /\ queue' = <<>> /\ UNCHANGED <<made, cons, item, log>>
  BY DEF QueueInv, BrokerDown
<1>2. Shapes' /\ Got' = Got /\ \A p \in Producers : made[p] <= made'[p]
  BY <1>1 DEF Shapes, Got
<1> QED BY <1>1, <1>2, LossStep

LEMMA PopAnswerLostStep ==
  ASSUME QueueInv, NEW c \in Consumers, PopAnswerLost(c) PROVE QueueInv'
<1>1. /\ Shapes /\ queue # <<>> /\ queue' = Tail(queue) /\ UNCHANGED <<made, item, log>>
      /\ cons' = [cons EXCEPT ![c] = "connecting"]
  BY DEF QueueInv, PopAnswerLost
<1>2. Shapes' /\ Got' \subseteq Got
  BY <1>1, MoveFacts, TailFacts DEF Shapes
<1> QED BY <1>1, <1>2, TailStep

-----------------------------------------------------------------------------
LEMMA NextInv == ASSUME QueueInv, [QueueNext]_queueVars PROVE QueueInv'
<1>1. ASSUME NEW p \in Producers, \/ ProducerStep(p) \/ PushFails(p) \/ PushLost(p)
                                  \/ PushUnconfirmed(p)
      PROVE  QueueInv'
  <2>1. CASE ConnectProducer(p)
    BY <2>1, Unmoved DEF ConnectProducer
  <2>2. CASE Push(p) \/ PushUnconfirmed(p)
    BY <2>2, PushStep DEF Push, PushUnconfirmed, Make
  <2> QED BY <1>1, <2>1, <2>2, PushFailsStep DEF ProducerStep
<1>2. ASSUME NEW c \in Consumers, ConsumerStep(c)
      PROVE  QueueInv'
  <2>1. CASE ConnectConsumer(c)
    BY <2>1, ConsumerMoves DEF ConnectConsumer
  <2>2. CASE Process(c)
    BY <2>2, ConsumerMoves DEF Process, broker
  <2> QED BY <1>2, <2>1, <2>2, PopStep, CountStep DEF ConsumerStep
<1>3. ASSUME NEW c \in Consumers, PopNothing(c) \/ PollDepth(c) \/ PollDepthFails(c)
      PROVE  QueueInv'
  <2>1. UNCHANGED <<queue, made, cons, item, log>>
    BY <1>3 DEF PopNothing, PollDepth, PollDepthFails, queueVars, broker
  <2> QED BY <2>1, Unmoved
<1>4. ASSUME NEW c \in Consumers, PopFails(c) \/ CrashConsumer(c)
      PROVE  QueueInv'
  <2>1. cons' = [cons EXCEPT ![c] = "connecting"] /\ UNCHANGED <<queue, made, item, log>>
    BY <1>4 DEF PopFails, CrashConsumer, broker
  <2> QED BY <2>1, ConsumerMoves
<1>5. ASSUME BrokerUp \/ (\E x \in Clients : ConnectionDies(x)) \/ UNCHANGED queueVars
      PROVE  QueueInv'
  <2>1. UNCHANGED <<queue, made, cons, item, log>>
    BY <1>5 DEF BrokerUp, ConnectionDies, queueVars, broker
  <2> QED BY <2>1, Unmoved
<1>6. CASE Disturb
  BY <1>6, <1>1, <1>3, <1>4, <1>5, PopAnswerLostStep, BrokerDownStep DEF Disturb
<1> QED BY <1>1, <1>2, <1>3, <1>5, <1>6 DEF QueueNext

(* Delivery is at most once, across lost calls, crashes, reconnects and    *)
(* restarts of the broker.                                                 *)
THEOREM DeliveryIsAtMostOnce == QueueSpec => []AtMostOnce
<1>1. QueueInv => AtMostOnce
  BY DEF QueueInv
<1> QED BY <1>1, InitInv, NextInv, PTL DEF QueueSpec

(* Each consumer counts the items of one producer in the order they were   *)
(* made, across the same faults.                                           *)
THEOREM DeliveryIsInOrder == QueueSpec => []InOrder
<1>1. QueueInv => InOrder
  BY DEF QueueInv
<1> QED BY <1>1, InitInv, NextInv, PTL DEF QueueSpec

-----------------------------------------------------------------------------
(* Where the items are.                                                    *)
OnBroker == ToSet(queue)

Placed(M, Q, H, C, D, W) ==
    /\ M = Q \cup H \cup C \cup D \cup W
    /\ Q \cap (H \cup C \cup D \cup W) = {} /\ H \cap (C \cup D \cup W) = {}
    /\ C \cap (D \cup W) = {} /\ D \cap W = {}

PlaceInv == QueueInv /\ Placed(Made, OnBroker, InHand, Counted, dropped, wiped)

LEMMA InitPlaces == ASSUME QueueInit PROVE PlaceInv
<1>1. Made = {}
  BY BoundsAssumption DEF QueueInit, Made, Items
<1>2. OnBroker = {} /\ InHand = {} /\ Counted = {} /\ dropped = {} /\ wiped = {}
  BY DEF QueueInit, OnBroker, InHand, Counted, ToSet
<1> QED BY <1>1, <1>2, InitInv DEF PlaceInv, Placed

(* What a step does not touch stays where it is.                           *)
LEMMA SamePlaces ==
  /\ UNCHANGED made => Made' = Made
  /\ UNCHANGED queue => OnBroker' = OnBroker
  /\ UNCHANGED log => Counted' = Counted
  /\ UNCHANGED item /\ Got' = Got => InHand' = InHand
BY DEF Made, OnBroker, Counted, InHand, Got

LEMMA MakeAdds ==
  ASSUME QueueInv, NEW p \in Producers, Make(p)
  PROVE  /\ made' = [made EXCEPT ![p] = @ + 1]
         /\ Made' = Made \cup {<<p, made'[p]>>} /\ <<p, made'[p]>> \notin Made
<1>1. /\ made' = [made EXCEPT ![p] = @ + 1] /\ made \in [Producers -> Nat]
      /\ made[p] < MaxItems /\ MaxItems \in Nat
  BY BoundsAssumption DEF QueueInv, Shapes, Make
<1>2. made'[p] = made[p] + 1 /\ \A q \in Producers : q # p => made'[q] = made[q]
  BY <1>1
<1>3. ASSUME NEW q \in Producers, NEW n \in 1 .. MaxItems
      PROVE  <<q, n>> \in Made' <=> <<q, n>> \in Made \/ <<q, n>> = <<p, made'[p]>>
  BY <1>1, <1>2 DEF Made, Items
<1>4. <<p, made'[p]>> \in Items /\ <<p, made'[p]>> \notin Made
  BY <1>1, <1>2 DEF Made, Items
<1>5. Made \subseteq Items /\ Made' \subseteq Items
  BY DEF Made
<1> QED BY <1>1, <1>3, <1>4, <1>5 DEF Items

LEMMA PushPlaces ==
  ASSUME PlaceInv, NEW p \in Producers, Push(p) \/ PushUnconfirmed(p) PROVE PlaceInv'
<1> DEFINE x == <<p, made'[p]>>
<1>1. /\ QueueInv /\ Make(p) /\ queue' = Append(queue, x)
      /\ UNCHANGED <<cons, item, log, dropped, wiped>>
  BY DEF PlaceInv, Push, PushUnconfirmed
<1>2. /\ made' = [made EXCEPT ![p] = @ + 1]
      /\ Made' = Made \cup {x} /\ x \notin Made
  BY <1>1, MakeAdds
<1>3. QueueInv'
  BY <1>1, <1>2, PushStep
<1>4. OnBroker' = OnBroker \cup {x}
  <2>1. queue \in Seq(Item) /\ x \in Item
    BY <1>1, <1>2 DEF QueueInv, Shapes, Item
  <2> HIDE DEF x
  <2> QED BY <1>1, <2>1 DEF OnBroker, ToSet
<1>5. InHand' = InHand /\ Counted' = Counted
  BY <1>1, SamePlaces DEF Got
<1> HIDE DEF x
<1> QED BY <1>1, <1>2, <1>3, <1>4, <1>5 DEF PlaceInv, Placed

LEMMA PushFailsPlaces ==
  ASSUME PlaceInv, NEW p \in Producers, PushFails(p) \/ PushLost(p) PROVE PlaceInv'
<1> DEFINE x == <<p, made'[p]>>
<1>1. /\ QueueInv /\ Make(p) /\ dropped' = dropped \cup {x}
      /\ UNCHANGED <<queue, cons, item, log, wiped>>
  BY DEF PlaceInv, PushFails, PushLost, broker
<1>2. Made' = Made \cup {x} /\ x \notin Made
  BY <1>1, MakeAdds
<1>3. QueueInv'
  BY <1>1, PushFailsStep
<1>4. OnBroker' = OnBroker /\ InHand' = InHand /\ Counted' = Counted
  BY <1>1, SamePlaces DEF Got
<1> HIDE DEF x
<1> QED BY <1>1, <1>2, <1>3, <1>4 DEF PlaceInv, Placed

(* The head of the queue leaves the broker, where it was once.             *)
LEMMA HeadLeaves ==
  ASSUME QueueInv, queue # <<>>, queue' = Tail(queue)
  PROVE  Head(queue) \in OnBroker /\ OnBroker' = OnBroker \ {Head(queue)}
<1>1. Shapes /\ 1 \in DOMAIN queue /\ Head(queue) = queue[1] /\ Head(queue) \in Item
  BY TailFacts DEF QueueInv
<1>2. /\ DOMAIN queue = 1 .. Len(queue) /\ Len(queue) \in Nat
      /\ DOMAIN queue' = 1 .. Len(queue) - 1
      /\ \A i \in DOMAIN queue' : queue'[i] = queue[i + 1]
  BY <1>1 DEF Shapes
<1>3. \A i \in DOMAIN queue : i # 1 => queue[i] # Head(queue)
  <2>1. \A i \in DOMAIN queue : i # 1 => Older(queue[1], queue[i]) /\ queue[i] \in Item
    <3>1. ASSUME NEW i \in DOMAIN queue, i # 1 PROVE 1 < i /\ queue[i] \in Item
      BY <1>1, <1>2, <3>1 DEF Shapes
    <3> QED BY <1>1, <3>1 DEF QueueInv, QueueIsOrdered
  <2> QED BY <1>1, <2>1, OlderDiffers
<1>4. ASSUME NEW y PROVE y \in OnBroker' <=> y \in OnBroker /\ y # Head(queue)
  <2>1. ASSUME NEW i \in DOMAIN queue'
        PROVE  i + 1 \in DOMAIN queue /\ i + 1 # 1 /\ queue'[i] = queue[i + 1]
    BY <1>2
  <2>2. ASSUME NEW i \in DOMAIN queue, i # 1
        PROVE  i - 1 \in DOMAIN queue' /\ queue'[i - 1] = queue[i]
    BY <1>2, <2>2
  <2> QED BY <1>1, <1>3, <2>1, <2>2 DEF OnBroker, ToSet
<1>5. Head(queue) \in OnBroker
  BY <1>1 DEF OnBroker, ToSet
<1> QED BY <1>4, <1>5

LEMMA PopPlaces == ASSUME PlaceInv, NEW c \in Consumers, Pop(c) PROVE PlaceInv'
<1> DEFINE x == Head(queue)
<1>1. /\ QueueInv /\ queue # <<>> /\ queue' = Tail(queue) /\ cons[c] = "polling"
      /\ item' = [item EXCEPT ![c] = x] /\ cons' = [cons EXCEPT ![c] = "got"]
      /\ UNCHANGED <<made, log, dropped, wiped>>
  BY DEF PlaceInv, Pop
<1>2. QueueInv' /\ x \in OnBroker /\ OnBroker' = OnBroker \ {x}
  BY <1>1, PopStep, HeadLeaves
<1>3. Made' = Made /\ Counted' = Counted
  BY <1>1, SamePlaces
<1>4. InHand' = InHand \cup {x}
  <2>1. Shapes
    BY <1>1 DEF QueueInv
  <2> HIDE DEF x
  <2>2. Got' = Got \cup {c} /\ c \notin Got
    BY <1>1, <2>1 DEF Got, Shapes
  <2>3. item'[c] = x /\ \A d \in Got : item'[d] = item[d]
    BY <1>1, <2>1, <2>2 DEF Got, Shapes
  <2> QED BY <2>2, <2>3 DEF InHand, Got
<1> HIDE DEF x
<1> QED BY <1>1, <1>2, <1>3, <1>4 DEF PlaceInv, Placed

LEMMA PopAnswerLostPlaces ==
  ASSUME PlaceInv, NEW c \in Consumers, PopAnswerLost(c) PROVE PlaceInv'
<1> DEFINE x == Head(queue)
<1>1. /\ QueueInv /\ queue # <<>> /\ queue' = Tail(queue) /\ cons[c] = "polling"
      /\ cons' = [cons EXCEPT ![c] = "connecting"] /\ dropped' = dropped \cup {x}
      /\ UNCHANGED <<made, item, log, wiped>>
  BY DEF PlaceInv, PopAnswerLost
<1>2. QueueInv' /\ x \in OnBroker /\ OnBroker' = OnBroker \ {x}
  BY <1>1, PopAnswerLostStep, HeadLeaves
<1>3. Got' = Got
  BY <1>1 DEF QueueInv, Shapes, Got
<1>4. Made' = Made /\ Counted' = Counted /\ InHand' = InHand
  BY <1>1, <1>3, SamePlaces
<1> HIDE DEF x
<1> QED BY <1>1, <1>2, <1>4 DEF PlaceInv, Placed

(* What a consumer had in hand was in no other hand.                       *)
LEMMA HandEmpties ==
  ASSUME QueueInv, NEW c \in Got, Got' = Got \ {c}, UNCHANGED item
  PROVE  item[c] \in InHand /\ InHand' = InHand \ {item[c]}
BY DEF QueueInv, HandIsNew, InHand, Got

LEMMA CountPlaces == ASSUME PlaceInv, NEW c \in Consumers, CountItem(c) PROVE PlaceInv'
<1> DEFINE x == item[c]
<1>1. /\ QueueInv /\ c \in Got /\ log' = [log EXCEPT ![c] = Append(@, x)]
      /\ cons' = [cons EXCEPT ![c] = "processing"]
      /\ UNCHANGED <<made, queue, item, dropped, wiped>>
  BY DEF PlaceInv, CountItem, Got, broker
<1>2. QueueInv'
  BY <1>1, CountStep
<1>3. Got' = Got \ {c}
  BY <1>1 DEF QueueInv, Shapes, Got
<1>4. x \in InHand /\ InHand' = InHand \ {x}
  BY <1>1, <1>3, HandEmpties
<1>5. Made' = Made /\ OnBroker' = OnBroker
  BY <1>1, SamePlaces
<1>6. Counted' = Counted \cup {x}
  <2>1. log \in [Consumers -> Seq(Item)] /\ x \in Item
    BY <1>1 DEF QueueInv, Shapes
  <2> HIDE DEF x
  <2>2. ToSet(log'[c]) = ToSet(log[c]) \cup {x}
    <3>1. /\ log'[c] = Append(log[c], x) /\ Len(log[c]) \in Nat
          /\ DOMAIN log[c] = 1 .. Len(log[c]) /\ DOMAIN log'[c] = 1 .. Len(log[c]) + 1
      BY <1>1, <2>1
    <3>2. /\ \A i \in DOMAIN log[c] : i \in DOMAIN log'[c] /\ log'[c][i] = log[c][i]
          /\ log'[c][Len(log[c]) + 1] = x
      BY <2>1, <3>1
    <3>3. \A i \in DOMAIN log'[c] : i \in DOMAIN log[c] \/ i = Len(log[c]) + 1
      BY <3>1
    <3> QED BY <3>1, <3>2, <3>3 DEF ToSet
  <2>3. \A d \in Consumers : d # c => log'[d] = log[d]
    BY <1>1, <2>1
  <2> QED BY <2>2, <2>3 DEF Counted
<1> HIDE DEF x
<1> QED BY <1>1, <1>2, <1>4, <1>5, <1>6 DEF PlaceInv, Placed

LEMMA CrashPlaces == ASSUME PlaceInv, NEW c \in Consumers, CrashConsumer(c) PROVE PlaceInv'
<1>1. /\ QueueInv /\ cons' = [cons EXCEPT ![c] = "connecting"]
      /\ dropped' = IF cons[c] = "got" THEN dropped \cup {item[c]} ELSE dropped
      /\ UNCHANGED <<made, queue, item, log, wiped>>
  BY DEF PlaceInv, CrashConsumer, broker
<1>2. QueueInv'
  BY <1>1, ConsumerMoves
<1>3. Made' = Made /\ OnBroker' = OnBroker /\ Counted' = Counted
  BY <1>1, SamePlaces
<1>4. CASE c \in Got
  <2>1. Got' = Got \ {c}
    BY <1>1 DEF QueueInv, Shapes, Got
  <2>2. item[c] \in InHand /\ InHand' = InHand \ {item[c]}
    BY <1>1, <1>4, <2>1, HandEmpties
  <2>3. dropped' = dropped \cup {item[c]}
    BY <1>1, <1>4 DEF Got
  <2> QED BY <1>1, <1>2, <1>3, <2>2, <2>3 DEF PlaceInv, Placed
<1>5. CASE c \notin Got
  <2>1. Got' = Got
    BY <1>1, <1>5 DEF QueueInv, Shapes, Got
  <2>2. InHand' = InHand /\ dropped' = dropped
    BY <1>1, <1>5, <2>1, SamePlaces DEF Got
  <2> QED BY <1>1, <1>2, <1>3, <2>2 DEF PlaceInv, Placed
<1> QED BY <1>4, <1>5

LEMMA BrokerDownPlaces == ASSUME PlaceInv, BrokerDown PROVE PlaceInv'
<1>1. /\ QueueInv /\ queue' = <<>> /\ wiped' = wiped \cup OnBroker
      /\ UNCHANGED <<made, cons, item, log, dropped>>
  BY DEF PlaceInv, BrokerDown, OnBroker
<1>2. QueueInv'
  BY <1>1, BrokerDownStep
<1>3. Made' = Made /\ InHand' = InHand /\ Counted' = Counted
  BY <1>1, SamePlaces DEF Got
<1>4. OnBroker' = {}
  BY <1>1 DEF OnBroker, ToSet
<1> QED BY <1>1, <1>2, <1>3, <1>4 DEF PlaceInv, Placed

LEMMA UnmovedPlaces ==
  ASSUME PlaceInv, QueueInv', Got' = Got, UNCHANGED <<queue, made, item, log, dropped, wiped>>
  PROVE  PlaceInv'
BY SamePlaces DEF PlaceInv, Placed

LEMMA NextPlaces == ASSUME PlaceInv, [QueueNext]_queueVars PROVE PlaceInv'
<1>1. QueueInv /\ QueueInv' /\ Shapes
  BY NextInv DEF PlaceInv, QueueInv
<1>2. ASSUME NEW p \in Producers, \/ ProducerStep(p) \/ PushFails(p) \/ PushLost(p)
                                  \/ PushUnconfirmed(p)
      PROVE  PlaceInv'
  <2>1. CASE ConnectProducer(p)
    <3>1. Got' = Got /\ UNCHANGED <<queue, made, item, log, dropped, wiped>>
      BY <2>1 DEF ConnectProducer, Got
    <3> QED BY <1>1, <3>1, UnmovedPlaces
  <2> QED BY <1>2, <2>1, PushPlaces, PushFailsPlaces DEF ProducerStep
<1>3. ASSUME NEW c \in Consumers, ConsumerStep(c) \/ PopFails(c)
      PROVE  PlaceInv'
  <2>1. CASE ConnectConsumer(c) \/ Process(c) \/ PopFails(c)
    <3>1. /\ UNCHANGED <<queue, made, item, log, dropped, wiped>>
          /\ cons[c] # "got"
          /\ \E l \in {"polling", "connecting"} : cons' = [cons EXCEPT ![c] = l]
      BY <2>1 DEF ConnectConsumer, Process, PopFails, broker
    <3>2. Got' = Got
      BY <1>1, <3>1 DEF Got, Shapes
    <3> QED BY <1>1, <3>1, <3>2, UnmovedPlaces
  <2> QED BY <1>3, <2>1, PopPlaces, CountPlaces DEF ConsumerStep
<1>4. ASSUME NEW c \in Consumers, PopNothing(c) \/ PollDepth(c) \/ PollDepthFails(c)
      PROVE  PlaceInv'
  <2>1. Got' = Got /\ UNCHANGED <<queue, made, item, log, dropped, wiped>>
    BY <1>4 DEF PopNothing, PollDepth, PollDepthFails, queueVars, broker, Got
  <2> QED BY <1>1, <2>1, UnmovedPlaces
<1>5. ASSUME BrokerUp \/ (\E x \in Clients : ConnectionDies(x)) \/ UNCHANGED queueVars
      PROVE  PlaceInv'
  <2>1. Got' = Got /\ UNCHANGED <<queue, made, item, log, dropped, wiped>>
    BY <1>5 DEF BrokerUp, ConnectionDies, queueVars, broker, Got
  <2> QED BY <1>1, <2>1, UnmovedPlaces
<1>6. CASE Disturb
  BY <1>6, <1>2, <1>3, <1>4, <1>5, PopAnswerLostPlaces, CrashPlaces, BrokerDownPlaces DEF Disturb
<1> QED BY <1>2, <1>3, <1>4, <1>5, <1>6 DEF QueueNext

-----------------------------------------------------------------------------
LEMMA MadeIsFinite == IsFiniteSet(Made)
<1>1. IsFiniteSet(Producers)
  BY ClientsAssumption, FS_Subset
<1>2. IsFiniteSet(1 .. MaxItems)
  BY BoundsAssumption, FS_Interval
<1>3. IsFiniteSet(Items)
  BY <1>1, <1>2, FS_Product DEF Items
<1>4. Made \subseteq Items
  BY DEF Made
<1> QED BY <1>3, <1>4, FS_Subset

LEMMA DisjointSum ==
  ASSUME NEW S, NEW T, IsFiniteSet(S), IsFiniteSet(T), S \cap T = {}
  PROVE  /\ IsFiniteSet(S \cup T) /\ Cardinality(S) \in Nat /\ Cardinality(T) \in Nat
         /\ Cardinality(S \cup T) = Cardinality(S) + Cardinality(T)
<1>1. Cardinality(S \cap T) = 0
  BY FS_EmptySet
<1>2. Cardinality(S) \in Nat /\ Cardinality(T) \in Nat
  BY FS_CardinalityType
<1>3. /\ IsFiniteSet(S \cup T)
      /\ Cardinality(S \cup T) = Cardinality(S) + Cardinality(T) - Cardinality(S \cap T)
  BY FS_Union
<1> QED BY <1>1, <1>2, <1>3

(* The broker has no item twice.                                           *)
LEMMA QueueLength == ASSUME QueueInv PROVE Len(queue) = Cardinality(OnBroker)
<1>1. /\ Shapes /\ Len(queue) \in Nat /\ DOMAIN queue = 1 .. Len(queue)
      /\ \A i \in DOMAIN queue : queue[i] \in Item
      /\ queue \in [1 .. Len(queue) -> OnBroker]
  BY DEF QueueInv, Shapes, OnBroker, ToSet
<1>2. ASSUME NEW i \in DOMAIN queue, NEW j \in DOMAIN queue, i < j PROVE queue[i] # queue[j]
  BY <1>1, <1>2, OlderDiffers DEF QueueInv, QueueIsOrdered
<1>3. \A i, j \in DOMAIN queue : queue[i] = queue[j] => i = j
  BY <1>1, <1>2
<1>4. \A x \in OnBroker : \E i \in DOMAIN queue : queue[i] = x
  BY DEF OnBroker, ToSet
<1>5. queue \in Bijection(1 .. Len(queue), OnBroker)
  BY <1>1, <1>3, <1>4 DEF Bijection, Injection, Surjection, IsInjective
<1>6. IsFiniteSet(1 .. Len(queue)) /\ Cardinality(1 .. Len(queue)) = Len(queue)
  BY <1>1, FS_Interval
<1> QED BY <1>5, <1>6, FS_Bijection DEF ExistsBijection

LEMMA PlacesConserve == ASSUME PlaceInv PROVE Conservation
<1>1. Placed(Made, OnBroker, InHand, Counted, dropped, wiped)
  BY DEF PlaceInv
<1>2. /\ OnBroker \subseteq Made /\ InHand \subseteq Made /\ Counted \subseteq Made
      /\ dropped \subseteq Made /\ wiped \subseteq Made
  BY <1>1 DEF Placed
<1>3. /\ IsFiniteSet(OnBroker) /\ IsFiniteSet(InHand) /\ IsFiniteSet(Counted)
      /\ IsFiniteSet(dropped) /\ IsFiniteSet(wiped)
  BY <1>2, MadeIsFinite, FS_Subset
<1> DEFINE DW == dropped \cup wiped
           CDW == Counted \cup DW
           HCDW == InHand \cup CDW
<1>4. /\ dropped \cap wiped = {} /\ Counted \cap DW = {} /\ InHand \cap CDW = {}
      /\ OnBroker \cap HCDW = {} /\ Made = OnBroker \cup HCDW
  BY <1>1 DEF Placed
<1>5. IsFiniteSet(DW) /\ Cardinality(DW) = Cardinality(dropped) + Cardinality(wiped)
  BY <1>3, <1>4, DisjointSum
<1> HIDE DEF DW
<1>6. IsFiniteSet(CDW) /\ Cardinality(CDW) = Cardinality(Counted) + Cardinality(DW)
  BY <1>3, <1>4, <1>5, DisjointSum
<1> HIDE DEF CDW
<1>7. IsFiniteSet(HCDW) /\ Cardinality(HCDW) = Cardinality(InHand) + Cardinality(CDW)
  BY <1>3, <1>4, <1>6, DisjointSum
<1> HIDE DEF HCDW
<1>8. Cardinality(Made) = Cardinality(OnBroker) + Cardinality(HCDW)
  BY <1>3, <1>4, <1>7, DisjointSum
<1>9. /\ Cardinality(OnBroker) \in Nat /\ Cardinality(InHand) \in Nat
      /\ Cardinality(Counted) \in Nat /\ Cardinality(dropped) \in Nat
      /\ Cardinality(wiped) \in Nat
  BY <1>3, FS_CardinalityType
<1>10. Cardinality(Made) = Len(queue) + Cardinality(InHand) + Cardinality(Counted)
                             + Cardinality(dropped) + Cardinality(wiped)
  <2>1. Len(queue) = Cardinality(OnBroker)
    BY QueueLength DEF PlaceInv
  <2> QED BY <1>5, <1>6, <1>7, <1>8, <1>9, <2>1
<1>11. Made = ToSet(queue) \cup InHand \cup Counted \cup dropped \cup wiped
  BY <1>1 DEF Placed, OnBroker
<1> QED BY <1>10, <1>11 DEF Conservation

(* Every item a producer has made is in exactly one place: on the broker,  *)
(* in a consumer's hand, counted, dropped on the way or wiped with the     *)
(* broker, whatever calls are lost and whoever restarts.                   *)
THEOREM NothingVanishes == QueueSpec => []Conservation
<1>1. PlaceInv => Conservation
  BY PlacesConserve
<1> QED BY <1>1, InitPlaces, NextPlaces, PTL DEF QueueSpec

-----------------------------------------------------------------------------
(* Producers whose next push may be lost without a new fault, and would be *)
(* counted as a new loss; a restart of the broker makes every producer one *)
(* of them at most once.                                                   *)
Loose == {p \in Producers : /\ prod[p] = "looping" /\ p \in stale
                            /\ backend = "redis" \/ <<p, made[p]>> \notin dropped}
N     == Cardinality(Producers)

LossInv == /\ PlaceInv
           /\ prod \in [Producers -> {"connecting", "looping"}]
           /\ faults \in Nat /\ restarts \in Nat
           /\ ~up => Producers \subseteq stale
           /\ Cardinality(Losses) + Cardinality(Loose) <= faults + restarts * N

LEMMA LossFacts ==
  ASSUME LossInv
  PROVE  /\ IsFiniteSet(Losses) /\ Cardinality(Losses) \in Nat
         /\ IsFiniteSet(Loose) /\ Cardinality(Loose) \in Nat
         /\ IsFiniteSet(Producers) /\ N \in Nat /\ restarts * N \in Nat
<1>1. Losses \subseteq Made /\ Loose \subseteq Producers
  BY DEF LossInv, PlaceInv, Placed, Loose, Losses
<1>2. IsFiniteSet(Producers)
  BY ClientsAssumption, FS_Subset
<1>3. IsFiniteSet(Losses) /\ IsFiniteSet(Loose)
  BY <1>1, <1>2, MadeIsFinite, FS_Subset
<1>4. N \in Nat
  BY <1>2, FS_CardinalityType DEF N
<1>5. restarts \in Nat
  BY DEF LossInv
<1>6. restarts * N \in Nat
  BY <1>4, <1>5
<1> QED BY <1>2, <1>3, <1>4, <1>6, FS_CardinalityType

LEMMA InitLoss == ASSUME QueueInit PROVE LossInv
<1>1. PlaceInv /\ Loose = {} /\ Losses = {} /\ up
  BY InitPlaces DEF QueueInit, Loose, Losses
<1>2. faults = 0 /\ restarts = 0 /\ prod \in [Producers -> {"connecting", "looping"}]
  BY DEF QueueInit
<1>3. Cardinality({}) = 0
  BY FS_EmptySet
<1>4. N \in Nat
  BY ClientsAssumption, FS_Subset, FS_CardinalityType DEF N
<1>5. restarts * N = 0
  BY <1>2, <1>4
<1> QED BY <1>1, <1>2, <1>3, <1>5 DEF LossInv

(* An item more that is dropped is one loss more at most.                  *)
LEMMA OneMoreLoss ==
  ASSUME LossInv, backend' = backend, NEW x, dropped' \subseteq dropped \cup {x},
         dropped \subseteq dropped'
  PROVE  /\ Cardinality(Losses') \in Nat
         /\ Cardinality(Losses') <= Cardinality(Losses) + 1
<1>1. Losses' \subseteq Losses \cup {x}
  BY DEF Losses
<1>2. /\ IsFiniteSet(Losses \cup {x})
      /\ Cardinality(Losses \cup {x}) \in {Cardinality(Losses), Cardinality(Losses) + 1}
  BY LossFacts, FS_AddElement
<1>3. /\ Cardinality(Losses') \in Nat /\ IsFiniteSet(Losses')
      /\ Cardinality(Losses') <= Cardinality(Losses \cup {x})
  BY <1>1, <1>2, FS_Subset, FS_CardinalityType
<1> QED BY <1>2, <1>3, LossFacts

(* An item that continues a run of items lost on RabbitMQ is no new loss.  *)
LEMMA NoMoreLoss ==
  ASSUME LossInv, backend' = backend, backend # "redis",
         NEW p \in Producers, NEW n \in Nat, <<p, n>> \in dropped,
         dropped' = dropped \cup {<<p, n + 1>>}
  PROVE  Cardinality(Losses') \in Nat /\ Cardinality(Losses') <= Cardinality(Losses)
<1>1. Losses' \subseteq Losses
  BY DEF Losses
<1> QED BY <1>1, LossFacts, FS_Subset, FS_CardinalityType

(* A fault pays for one item.                                              *)
LEMMA PaidByFault ==
  ASSUME LossInv, PlaceInv', prod' \in [Producers -> {"connecting", "looping"}],
         Fault, UNCHANGED <<up, stale, restarts, backend>>, Loose' \subseteq Loose,
         \E x : dropped' \in {dropped, dropped \cup {x}}
  PROVE  LossInv'
<1>1. faults' = faults + 1 /\ faults \in Nat /\ restarts \in Nat
  BY DEF Fault, LossInv
<1>2. Cardinality(Losses') <= Cardinality(Losses) + 1 /\ Cardinality(Losses') \in Nat
  <2>1. PICK x : dropped' \in {dropped, dropped \cup {x}}
    OBVIOUS
  <2>2. /\ dropped' \subseteq dropped \cup {x} /\ dropped \subseteq dropped'
        /\ backend' = backend
    BY <2>1
  <2> QED BY <2>2, OneMoreLoss
<1>3. Cardinality(Loose') <= Cardinality(Loose) /\ Cardinality(Loose') \in Nat
  BY LossFacts, FS_Subset, FS_CardinalityType
<1>4. Cardinality(Losses') + Cardinality(Loose') <= faults' + restarts * N
  BY <1>1, <1>2, <1>3, LossFacts DEF LossInv
<1>5. restarts' * N' = restarts * N
  BY DEF N
<1> QED BY <1>1, <1>4, <1>5 DEF LossInv

(* Nothing is lost.                                                        *)
LEMMA NothingLost ==
  ASSUME LossInv, PlaceInv', prod' \in [Producers -> {"connecting", "looping"}],
         faults' \in {faults, faults + 1}, UNCHANGED <<dropped, restarts, backend>>,
         Loose' \subseteq Loose, ~up' => Producers \subseteq stale'
  PROVE  LossInv'
<1>1. faults' \in Nat /\ faults <= faults' /\ faults \in Nat /\ restarts \in Nat
  BY DEF LossInv
<1>2. Cardinality(Loose') <= Cardinality(Loose) /\ Cardinality(Loose') \in Nat
  BY LossFacts, FS_Subset, FS_CardinalityType
<1>3. Losses' = Losses
  BY DEF Losses
<1>4. Cardinality(Losses') + Cardinality(Loose') <= faults' + restarts * N
  BY <1>1, <1>2, <1>3, LossFacts DEF LossInv
<1>5. restarts' * N' = restarts * N
  BY DEF N
<1> QED BY <1>1, <1>4, <1>5 DEF LossInv

(* A push on a dead connection costs its producer the place in Loose, or   *)
(* continues a run of lost items.                                          *)
LEMMA DeadPush ==
  ASSUME LossInv, PlaceInv', NEW p \in Producers, Make(p),
         p \in stale, prod' \in [Producers -> {"connecting", "looping"}],
         Loose' \subseteq Loose \ {p}, dropped' = dropped \cup {<<p, made'[p]>>},
         UNCHANGED <<up, stale, faults, restarts, backend>>
  PROVE  LossInv'
<1>0. Cardinality(Losses') \in Nat /\ Cardinality(Losses') <= Cardinality(Losses) + 1
  <2>1. PICK x : x = <<p, made'[p]>>
    OBVIOUS
  <2>2. /\ dropped' \subseteq dropped \cup {x} /\ dropped \subseteq dropped'
        /\ backend' = backend
    BY <2>1
  <2> QED BY <2>2, OneMoreLoss
<1>1. made'[p] = made[p] + 1 /\ made[p] \in Nat /\ prod[p] = "looping"
  BY DEF LossInv, PlaceInv, QueueInv, Shapes, Make
<1>2. Cardinality(Losses') + Cardinality(Loose') <= Cardinality(Losses) + Cardinality(Loose)
  <2>1. CASE p \in Loose
    <3>1. /\ IsFiniteSet(Loose \ {p}) /\ Cardinality(Loose \ {p}) = Cardinality(Loose) - 1
          /\ Cardinality(Loose \ {p}) \in Nat
      BY <2>1, LossFacts, FS_RemoveElement, FS_CardinalityType
    <3>2. Cardinality(Loose') <= Cardinality(Loose) - 1 /\ Cardinality(Loose') \in Nat
      BY <3>1, FS_Subset, FS_CardinalityType
    <3>3. Cardinality(Losses') <= Cardinality(Losses) + 1 /\ Cardinality(Losses') \in Nat
      BY <1>0
    <3> QED BY <3>2, <3>3, LossFacts
  <2>2. CASE p \notin Loose
    <3>1. backend # "redis" /\ <<p, made[p]>> \in dropped
      BY <1>1, <2>2 DEF Loose
    <3>2. dropped' = dropped \cup {<<p, made[p] + 1>>} /\ backend' = backend
      BY <1>1
    <3>3. Cardinality(Losses') <= Cardinality(Losses) /\ Cardinality(Losses') \in Nat
      BY <1>1, <3>1, <3>2, NoMoreLoss
    <3>4. Cardinality(Loose') <= Cardinality(Loose) /\ Cardinality(Loose') \in Nat
      BY LossFacts, FS_Subset, FS_CardinalityType
    <3> QED BY <3>3, <3>4, LossFacts
  <2> QED BY <2>1, <2>2
<1>3. Cardinality(Losses') \in Nat
  BY <1>0
<1>4. faults \in Nat /\ restarts \in Nat
  BY DEF LossInv
<1>5. Cardinality(Loose') \in Nat
  BY LossFacts, FS_Subset, FS_CardinalityType
<1>6. Cardinality(Losses') + Cardinality(Loose') <= faults' + restarts * N
  BY <1>2, <1>3, <1>4, <1>5, LossFacts DEF LossInv
<1>7. restarts' * N' = restarts * N
  BY DEF N
<1> QED BY <1>4, <1>6, <1>7 DEF LossInv

(* What the producers other than p have lost stays as it was.              *)
LEMMA OthersLoose ==
  ASSUME LossInv, NEW p \in Producers, Make(p), UNCHANGED <<stale, backend>>,
         dropped' = dropped \cup {<<p, made'[p]>>},
         prod' = prod \/ prod' = [prod EXCEPT ![p] = "connecting"],
         prod'[p] = "connecting" \/ backend # "redis"
  PROVE  Loose' \subseteq Loose \ {p}
<1>1. /\ made \in [Producers -> Nat] /\ made' = [made EXCEPT ![p] = @ + 1]
      /\ prod \in [Producers -> {"connecting", "looping"}]
  BY DEF LossInv, PlaceInv, QueueInv, Shapes, Make
<1>2. p \notin Loose'
  BY DEF Loose
<1>3. ASSUME NEW q \in Producers, q # p, q \in Loose' PROVE q \in Loose
  <2>1. made'[q] = made[q] /\ prod'[q] = prod[q]
    BY <1>1, <1>3
  <2> QED BY <1>3, <2>1 DEF Loose
<1> QED BY <1>2, <1>3 DEF Loose

(* A push raises, and the producer opens a new connection.                 *)
LEMMA PushFailsLoss ==
  ASSUME LossInv, PlaceInv', NEW p \in Producers, PushFails(p) PROVE LossInv'
<1>1. /\ prod \in [Producers -> {"connecting", "looping"}] /\ Make(p)
      /\ prod' = [prod EXCEPT ![p] = "connecting"]
      /\ dropped' = dropped \cup {<<p, made'[p]>>}
      /\ UNCHANGED <<up, stale, restarts, backend>> /\ CallFails(p)
  BY DEF LossInv, PushFails, broker
<1>2. prod' \in [Producers -> {"connecting", "looping"}] /\ prod'[p] = "connecting"
  BY <1>1
<1>3. Loose' \subseteq Loose \ {p}
  BY <1>1, <1>2, OthersLoose
<1>4. CASE Fault
  BY <1>1, <1>2, <1>3, <1>4, PaidByFault
<1>5. CASE (~up \/ p \in stale) /\ UNCHANGED faults
  <2>1. p \in stale
    BY <1>5 DEF LossInv
  <2> QED BY <1>1, <1>2, <1>3, <1>5, <2>1, DeadPush
<1> QED BY <1>1, <1>4, <1>5 DEF CallFails

(* A push is lost, and nobody is told.                                     *)
LEMMA PushLostLoss ==
  ASSUME LossInv, PlaceInv', NEW p \in Producers, PushLost(p) PROVE LossInv'
<1>1. /\ prod \in [Producers -> {"connecting", "looping"}] /\ Make(p) /\ p \in stale
      /\ dropped' = dropped \cup {<<p, made'[p]>>} /\ backend # "redis"
      /\ UNCHANGED <<prod, up, stale, faults, restarts, backend>>
  BY DEF LossInv, PushLost, broker
<1>2. Loose' \subseteq Loose \ {p}
  BY <1>1, OthersLoose
<1> QED BY <1>1, <1>2, DeadPush

(* A connection dies: its producer may lose a run of items.                *)
LEMMA ConnectionDiesLoss ==
  ASSUME LossInv, PlaceInv', NEW x \in Clients, ConnectionDies(x) PROVE LossInv'
<1>1. /\ faults' = faults + 1 /\ stale' = stale \cup {x}
      /\ UNCHANGED <<up, prod, made, dropped, restarts, backend>>
  BY DEF ConnectionDies, Fault
<1>2. Losses' = Losses /\ Loose' \subseteq Loose \cup {x}
  BY <1>1 DEF Losses, Loose
<1>3. /\ IsFiniteSet(Loose \cup {x}) /\ Cardinality(Loose \cup {x}) \in Nat
      /\ Cardinality(Loose \cup {x}) <= Cardinality(Loose) + 1
  <2>1. /\ IsFiniteSet(Loose \cup {x})
        /\ Cardinality(Loose \cup {x}) \in {Cardinality(Loose), Cardinality(Loose) + 1}
    BY LossFacts, FS_AddElement
  <2> QED BY <2>1, LossFacts
<1>4. /\ Cardinality(Loose') <= Cardinality(Loose \cup {x})
      /\ Cardinality(Loose') \in Nat
  BY <1>2, <1>3, FS_Subset, FS_CardinalityType
<1>5. faults \in Nat /\ restarts \in Nat
  BY DEF LossInv
<1>6. Cardinality(Losses') + Cardinality(Loose') <= faults' + restarts * N
  BY <1>1, <1>2, <1>3, <1>4, <1>5, LossFacts DEF LossInv
<1>7. restarts' * N' = restarts * N
  BY <1>1 DEF N
<1>8. ~up' => Producers \subseteq stale'
  BY <1>1 DEF LossInv
<1>9. prod' \in [Producers -> {"connecting", "looping"}]
  BY <1>1 DEF LossInv
<1> QED BY <1>1, <1>5, <1>6, <1>7, <1>8, <1>9 DEF LossInv

LEMMA BrokerDownLoss == ASSUME LossInv, PlaceInv', BrokerDown PROVE LossInv'
<1>1. /\ restarts' = restarts + 1 /\ Producers \subseteq stale'
      /\ UNCHANGED <<prod, dropped, faults, backend>>
  BY DEF BrokerDown, Clients
<1>2. Cardinality(Loose') \in Nat /\ Cardinality(Loose') <= N
  <2>1. Loose' \subseteq Producers
    BY DEF Loose
  <2> QED BY <2>1, LossFacts, FS_Subset, FS_CardinalityType DEF N
<1>3. restarts \in Nat /\ N \in Nat /\ faults \in Nat
  BY LossFacts DEF LossInv
<1>4. (restarts + 1) * N = restarts * N + N
  BY <1>3
<1>5. Losses' = Losses
  BY <1>1 DEF Losses
<1>6. Cardinality(Losses') + Cardinality(Loose') <= faults + (restarts * N + N)
  BY <1>2, <1>3, <1>5, LossFacts DEF LossInv
<1>7. N' = N
  BY DEF N
<1> QED BY <1>1, <1>3, <1>4, <1>6, <1>7 DEF LossInv

LEMMA NextLoss == ASSUME LossInv, [QueueNext]_queueVars PROVE LossInv'
<1>1. /\ PlaceInv' /\ prod \in [Producers -> {"connecting", "looping"}]
      /\ ~up => Producers \subseteq stale
      /\ faults \in Nat
  BY NextPlaces DEF LossInv
<1>2. ASSUME NEW p \in Producers, ProducerStep(p)
      PROVE  LossInv'
  <2>1. prod' \in [Producers -> {"connecting", "looping"}] /\ Loose' \subseteq Loose
    <3>1. CASE ConnectProducer(p)
      BY <1>1, <3>1 DEF ConnectProducer, Loose
    <3>2. CASE Push(p)
      <4>1. made \in [Producers -> Nat] /\ made' = [made EXCEPT ![p] = @ + 1]
        BY <3>2 DEF LossInv, PlaceInv, QueueInv, Shapes, Push, Make
      <4>2. \A q \in Producers : q # p => made'[q] = made[q]
        BY <4>1
      <4>3. /\ UNCHANGED <<prod, stale, dropped, backend>>
            /\ backend = "redis" \/ p \notin stale
        BY <3>2 DEF Push, Reaches
      <4> QED BY <1>1, <4>2, <4>3 DEF Loose
    <3> QED BY <1>2, <3>1, <3>2 DEF ProducerStep
  <2>2. /\ ~up' => Producers \subseteq stale'
        /\ faults' \in {faults, faults + 1} /\ UNCHANGED <<dropped, restarts, backend>>
    BY <1>2 DEF ProducerStep, ConnectProducer, Push, Reaches
  <2> QED BY <1>1, <2>1, <2>2, NothingLost
<1>3. ASSUME NEW p \in Producers, PushUnconfirmed(p) PROVE LossInv'
  <2>1. /\ prod' = [prod EXCEPT ![p] = "connecting"] /\ stale' = stale
        /\ ~up' => Producers \subseteq stale'
        /\ faults' \in {faults, faults + 1} /\ UNCHANGED <<dropped, restarts, backend>>
    BY <1>3 DEF PushUnconfirmed, Reaches, Fault
  <2>2. \A q \in Producers : q # p => made'[q] = made[q]
    BY <1>3 DEF LossInv, PlaceInv, QueueInv, Shapes, PushUnconfirmed, Make
  <2>3. prod' \in [Producers -> {"connecting", "looping"}] /\ Loose' \subseteq Loose
    BY <1>1, <2>1, <2>2 DEF Loose
  <2> QED BY <1>1, <2>1, <2>3, NothingLost
<1>4. ASSUME NEW c \in Consumers, ConsumerStep(c) \/ PopNothing(c) \/ PollDepth(c)
                                   \/ PopFails(c) \/ PollDepthFails(c)
      PROVE  LossInv'
  <2>1. /\ prod' = prod /\ up' = up /\ UNCHANGED <<made, dropped, restarts, backend>>
        /\ faults' \in {faults, faults + 1}
        /\ \A p \in Producers : p \in stale' <=> p \in stale
    BY <1>4, ClientsAssumption DEF ConsumerStep, ConnectConsumer, Pop, CountItem, Process,
         PopNothing, PollDepth, PopFails, PollDepthFails, CallFails, Fault,
         queueVars, broker
  <2>2. Loose' \subseteq Loose /\ (~up' => Producers \subseteq stale')
    BY <1>1, <2>1 DEF Loose
  <2>3. prod' \in [Producers -> {"connecting", "looping"}]
    BY <1>1, <2>1
  <2> QED BY <1>1, <2>1, <2>2, <2>3, NothingLost
<1>5. ASSUME NEW c \in Consumers, PopAnswerLost(c) \/ CrashConsumer(c)
      PROVE  LossInv'
  <2>1. /\ Fault /\ UNCHANGED <<prod, made, up, stale, restarts, backend>>
        /\ \E x : dropped' \in {dropped, dropped \cup {x}}
    BY <1>5 DEF PopAnswerLost, CrashConsumer, broker
  <2>2. Loose' \subseteq Loose /\ prod' \in [Producers -> {"connecting", "looping"}]
    BY <1>1, <2>1 DEF Loose
  <2> QED BY <1>1, <2>1, <2>2, PaidByFault
<1>6. CASE BrokerUp \/ UNCHANGED queueVars
  <2>1. /\ UNCHANGED <<prod, made, stale, dropped, restarts, backend>>
        /\ faults' \in {faults, faults + 1}
        /\ ~up' => Producers \subseteq stale'
    BY <1>1, <1>6 DEF BrokerUp, queueVars, broker
  <2>2. Loose' \subseteq Loose /\ prod' \in [Producers -> {"connecting", "looping"}]
    BY <1>1, <2>1 DEF Loose
  <2> QED BY <1>1, <2>1, <2>2, NothingLost
<1>7. CASE Disturb
  <2>1. ASSUME NEW p \in Producers, PushFails(p) \/ PushLost(p) PROVE LossInv'
    BY <1>1, <2>1, PushFailsLoss, PushLostLoss
  <2>2. ASSUME NEW x \in Clients, ConnectionDies(x) PROVE LossInv'
    BY <1>1, <2>2, ConnectionDiesLoss
  <2> QED BY <1>7, <1>1, <1>3, <1>4, <1>5, <2>1, <2>2, BrokerDownLoss DEF Disturb
<1> QED BY <1>2, <1>4, <1>6, <1>7 DEF QueueNext

(* Losses on the way are bounded by the faults, and by one per producer    *)
(* and restart of the broker: items on Redis, and on RabbitMQ, where a     *)
(* dead connection swallows pushes silently, unbroken runs of items.       *)
THEOREM LossesAreBounded == QueueSpec => []LossIsBounded
<1>1. ASSUME LossInv PROVE LossIsBounded
  <2>1. /\ Cardinality(Losses) \in Nat /\ Cardinality(Loose) \in Nat
        /\ restarts * N \in Nat /\ faults \in Nat
        /\ Cardinality(Losses) + Cardinality(Loose) <= faults + restarts * N
    BY <1>1, LossFacts DEF LossInv
  <2>2. Cardinality(Losses) <= faults + restarts * N
    BY <2>1
  <2> QED BY <2>2 DEF LossIsBounded, N
<1> QED BY <1>1, InitLoss, NextLoss, PTL DEF QueueSpec

-----------------------------------------------------------------------------
(* Nobody makes more than he may.                                          *)
Bounded == \A p \in Producers : made[p] \in 0 .. MaxItems

LEMMA NextBounded ==
  ASSUME QueueInv, Bounded, [QueueNext]_queueVars PROVE Bounded'
<1>1. ASSUME NEW p \in Producers, Make(p) PROVE Bounded'
  BY <1>1, BoundsAssumption DEF Make, Bounded, QueueInv, Shapes
<1>2. ASSUME NEW p \in Producers, \/ ProducerStep(p) \/ PushFails(p) \/ PushLost(p)
                                  \/ PushUnconfirmed(p)
      PROVE  Make(p) \/ UNCHANGED made
  BY <1>2 DEF ProducerStep, ConnectProducer, Push, PushFails, PushLost, PushUnconfirmed
<1>3. ASSUME NEW c \in Consumers, ConsumerStep(c) \/ PopNothing(c) \/ PollDepth(c)
      PROVE  UNCHANGED made
  BY <1>3 DEF ConsumerStep, ConnectConsumer, Pop, CountItem, Process, PopNothing,
              PollDepth, queueVars
<1>4. ASSUME NEW c \in Consumers, \/ PopFails(c) \/ PopAnswerLost(c)
                                 \/ PollDepthFails(c) \/ CrashConsumer(c)
      PROVE  UNCHANGED made
  BY <1>4 DEF PopFails, PopAnswerLost, PollDepthFails, CrashConsumer
<1>5. \/ BrokerDown \/ BrokerUp \/ UNCHANGED queueVars
      \/ \E x \in Clients : ConnectionDies(x)
      => UNCHANGED made
  BY DEF BrokerDown, BrokerUp, ConnectionDies, queueVars
<1>6. (\E p \in Producers : Make(p)) \/ UNCHANGED made
  BY <1>2, <1>3, <1>4, <1>5 DEF QueueNext, Disturb
<1> QED BY <1>1, <1>6 DEF Bounded

(* The contract sees the items that wait on the broker or in a hand.       *)
LEMMA WaitingItems ==
  ASSUME PlaceInv, Bounded
  PROVE  Delivery!Waiting = OnBroker \cup InHand
<1>1. Delivery!Counted = Counted
  BY DEF Delivery!Counted, Counted, ToSet
<1>2. Delivery!Produced = Made
  <2>1. ASSUME NEW x PROVE x \in Delivery!Produced <=> x \in Made
    <3>1. MaxItems \in Nat /\ \A p \in Producers : made[p] \in 0 .. MaxItems
      BY BoundsAssumption DEF Bounded
    <3>2. x \in Delivery!Produced <=> \E p \in Producers : x \in {p} \X (1 .. made[p])
      BY DEF Delivery!Produced
    <3>3. x \in Made <=> \E p \in Producers, n \in 1 .. MaxItems :
                            x = <<p, n>> /\ n <= made[p]
      BY DEF Made, Items
    <3> QED BY <3>1, <3>2, <3>3
  <2> QED BY <2>1
<1> QED BY <1>1, <1>2 DEF PlaceInv, Placed, Delivery!Waiting

(* Items that are made, and perhaps lost at once.                          *)
LEMMA MakeIsMake ==
  ASSUME QueueInv, NEW p \in Producers, Make(p), UNCHANGED <<log, wiped>>,
         dropped' \in {dropped, dropped \cup {<<p, made'[p]>>}}
  PROVE  Delivery!Make(p)
<1>1. made' = [made EXCEPT ![p] = @ + 1] /\ made'[p] = made[p] + 1
  BY DEF Make, QueueInv, Shapes
<1>2. \/ dropped' \cup wiped' = dropped \cup wiped
      \/ dropped' \cup wiped' = (dropped \cup wiped) \cup {<<p, made[p] + 1>>}
  BY <1>1
<1> QED BY <1>1, <1>2 DEF Delivery!Make

(* Items on the broker or in a hand are lost.                              *)
LEMMA LossIsLoss ==
  ASSUME PlaceInv, Bounded, NEW S \in SUBSET (OnBroker \cup InHand),
         UNCHANGED <<made, log>>, dropped' \cup wiped' = (dropped \cup wiped) \cup S
  PROVE  Delivery!Lose
BY WaitingItems DEF Delivery!Lose

(* A consumer counts the item in its hand.                                 *)
LEMMA CountIsDeliver ==
  ASSUME PlaceInv, Bounded, NEW c \in Consumers, CountItem(c)
  PROVE  Delivery!Deliver(c)
<1>1. /\ c \in Got /\ log' = [log EXCEPT ![c] = Append(@, item[c])]
      /\ UNCHANGED <<made, dropped, wiped>>
  BY DEF CountItem, Got
<1>2. item[c] \in Delivery!Waiting
  BY <1>1, WaitingItems DEF InHand, Got
<1>3. \A i \in DOMAIN log[c] : log[c][i][1] = item[c][1] => log[c][i][2] < item[c][2]
  BY <1>1 DEF PlaceInv, QueueInv, HandIsNew, Older
<1> QED BY <1>1, <1>2, <1>3 DEF Delivery!Deliver

(* Every step of the queue is a step or a stutter of the contract.         *)
LEMMA DeliveryStep ==
  ASSUME PlaceInv, Bounded, [QueueNext]_queueVars
  PROVE  [Delivery!Next]_(Delivery!contractVars)
<1>1. QueueInv
  BY DEF PlaceInv
<1>2. UNCHANGED <<made, log, dropped, wiped>> => UNCHANGED Delivery!contractVars
  BY DEF Delivery!contractVars
<1>3. ASSUME NEW p \in Producers, \/ Push(p) \/ PushUnconfirmed(p)
                                  \/ PushFails(p) \/ PushLost(p)
      PROVE  Delivery!Make(p)
  <2>1. /\ Make(p) /\ UNCHANGED <<log, wiped>>
        /\ dropped' \in {dropped, dropped \cup {<<p, made'[p]>>}}
    BY <1>3 DEF Push, PushUnconfirmed, PushFails, PushLost
  <2> QED BY <1>1, <2>1, MakeIsMake
<1>4. ASSUME NEW c \in Consumers, PopAnswerLost(c) PROVE Delivery!Lose
  <2>1. /\ queue # <<>> /\ queue' = Tail(queue) /\ dropped' = dropped \cup {Head(queue)}
        /\ UNCHANGED <<made, log, wiped>>
    BY <1>4 DEF PopAnswerLost
  <2>2. Head(queue) \in OnBroker
    BY <1>1, <2>1, HeadLeaves
  <2>3. dropped' \cup wiped' = (dropped \cup wiped) \cup {Head(queue)}
    BY <2>1
  <2> QED BY <2>1, <2>2, <2>3, LossIsLoss
<1>5. ASSUME NEW c \in Consumers, CrashConsumer(c)
      PROVE  Delivery!Lose
  <2>1. /\ dropped' = IF cons[c] = "got" THEN dropped \cup {item[c]} ELSE dropped
        /\ UNCHANGED <<made, log, wiped>>
    BY <1>5 DEF CrashConsumer
  <2>2. CASE cons[c] = "got"
    <3>1. item[c] \in InHand
      BY <2>2 DEF InHand
    <3>2. dropped' \cup wiped' = (dropped \cup wiped) \cup {item[c]}
      BY <2>1, <2>2
    <3> QED BY <2>1, <3>1, <3>2, LossIsLoss
  <2>3. CASE cons[c] # "got"
    <3>1. PICK S \in SUBSET (OnBroker \cup InHand) : S = {}
      OBVIOUS
    <3>2. dropped' \cup wiped' = (dropped \cup wiped) \cup S
      BY <2>1, <2>3, <3>1
    <3> QED BY <2>1, <3>2, LossIsLoss
  <2> QED BY <2>2, <2>3
<1>6. BrokerDown => Delivery!Lose
  <2>1. ASSUME BrokerDown
        PROVE  /\ dropped' \cup wiped' = (dropped \cup wiped) \cup OnBroker
               /\ UNCHANGED <<made, log>>
    BY <2>1 DEF BrokerDown, OnBroker
  <2> QED BY <2>1, LossIsLoss
<1>7. ASSUME NEW p \in Producers, ConnectProducer(p)
      PROVE  UNCHANGED <<made, log, dropped, wiped>>
  BY <1>7 DEF ConnectProducer
<1>8. ASSUME NEW c \in Consumers,
             \/ ConnectConsumer(c) \/ Pop(c) \/ Process(c) \/ PopNothing(c)
             \/ PollDepth(c) \/ PopFails(c) \/ PollDepthFails(c)
      PROVE  UNCHANGED <<made, log, dropped, wiped>>
  BY <1>8 DEF ConnectConsumer, Pop, Process, PopNothing, PollDepth, PopFails,
              PollDepthFails, queueVars
<1>9. \/ BrokerUp \/ UNCHANGED queueVars
      \/ \E x \in Clients : ConnectionDies(x)
      => UNCHANGED <<made, log, dropped, wiped>>
  BY DEF BrokerUp, ConnectionDies, queueVars
<1>10. ASSUME NEW p \in Producers, \/ ProducerStep(p) \/ PushFails(p) \/ PushLost(p)
                                   \/ PushUnconfirmed(p)
       PROVE  [Delivery!Next]_(Delivery!contractVars)
  BY <1>2, <1>3, <1>7, <1>10 DEF ProducerStep, Delivery!Next
<1>11. ASSUME NEW c \in Consumers, \/ ConsumerStep(c) \/ PopNothing(c) \/ PollDepth(c)
                                  \/ PopFails(c) \/ PopAnswerLost(c)
                                  \/ PollDepthFails(c) \/ CrashConsumer(c)
       PROVE  [Delivery!Next]_(Delivery!contractVars)
  <2>1. CASE CountItem(c)
    BY <2>1, CountIsDeliver DEF Delivery!Next
  <2>2. CASE PopAnswerLost(c) \/ CrashConsumer(c)
    BY <1>4, <1>5, <2>2 DEF Delivery!Next
  <2> QED BY <1>2, <1>8, <1>11, <2>1, <2>2 DEF ConsumerStep
<1>12. \/ BrokerUp \/ BrokerDown \/ UNCHANGED queueVars
       \/ \E x \in Clients : ConnectionDies(x)
       => [Delivery!Next]_(Delivery!contractVars)
  BY <1>2, <1>6, <1>9 DEF Delivery!Next
<1> QED BY <1>10, <1>11, <1>12 DEF QueueNext, Disturb

(* The app's queue implements its contract, for any number of clients,     *)
(* items, faults and restarts: what was made waits until one consumer      *)
(* counts it or it is lost for good, and nobody goes back behind an item.  *)
THEOREM DeliveryRefinement == QueueSpec => ImplementsDelivery
<1>1. QueueInit => Delivery!Init
  BY DEF QueueInit, Delivery!Init
<1>2. QueueInit => Bounded
  BY BoundsAssumption DEF QueueInit, Bounded
<1>3. PlaceInv /\ Bounded /\ [QueueNext]_queueVars => Bounded'
  BY NextBounded DEF PlaceInv
<1> QED BY <1>1, <1>2, <1>3, InitPlaces, NextPlaces, DeliveryStep, PTL
        DEF QueueSpec, ImplementsDelivery, Delivery!Spec

(* What the contract says is all it takes: whoever keeps to it counts      *)
(* nothing twice and nothing out of order.                                 *)
CountedInv == /\ log \in [Consumers -> Seq(Item)] /\ made \in [Producers -> Nat]
              /\ AtMostOnce /\ InOrder

LEMMA DeliverKeeps ==
  ASSUME CountedInv, NEW c \in Consumers, Delivery!Deliver(c) PROVE CountedInv'
<1>1. log \in [Consumers -> Seq(Item)] /\ made' = made /\ made \in [Producers -> Nat]
  BY DEF CountedInv, Delivery!Deliver
<1>2. PICK x \in Delivery!Waiting :
        /\ \A i \in DOMAIN log[c] : Older(log[c][i], x)
        /\ log' = [log EXCEPT ![c] = Append(@, x)]
  BY DEF Delivery!Deliver, Older
<1>3. x \in Item /\ \A d \in Consumers : \A i \in DOMAIN log[d] : log[d][i] # x
  <2>1. x \in Delivery!Produced
    BY DEF Delivery!Waiting
  <2>2. PICK p \in Producers : x \in {p} \X (1 .. made[p])
    BY <2>1 DEF Delivery!Produced
  <2>3. x \in Item
    BY <1>1, <2>2 DEF Item
  <2> QED BY <2>3 DEF Delivery!Waiting, Delivery!Counted
<1>4. /\ log'[c] = Append(log[c], x) /\ Len(log[c]) \in Nat
      /\ DOMAIN log[c] = 1 .. Len(log[c]) /\ DOMAIN log'[c] = 1 .. Len(log[c]) + 1
      /\ \A i \in DOMAIN log[c] : log'[c][i] = log[c][i]
      /\ log'[c][Len(log[c]) + 1] = x
      /\ \A d \in Consumers : d # c => log'[d] = log[d]
  BY <1>1, <1>2, <1>3
<1>5. ASSUME NEW d \in Consumers, NEW i \in DOMAIN log'[d]
      PROVE  \/ d = c /\ i = Len(log[c]) + 1 /\ log'[d][i] = x
             \/ i \in DOMAIN log[d] /\ log'[d][i] = log[d][i]
  BY <1>4
<1>6. log' \in [Consumers -> Seq(Item)]
  BY <1>1, <1>2, <1>3
<1>7. AtMostOnce'
  BY <1>3, <1>5 DEF CountedInv, AtMostOnce
<1>8. InOrder'
  <2> SUFFICES ASSUME NEW d \in Consumers, NEW i \in DOMAIN log'[d],
                      NEW j \in DOMAIN log'[d], i < j
               PROVE  Older(log'[d][i], log'[d][j])
    BY DEF InOrder, Older
  <2>1. CASE d # c
    BY <1>4, <2>1 DEF CountedInv, InOrder, Older
  <2>2. CASE d = c /\ j \in DOMAIN log[c]
    <3>1. /\ i \in DOMAIN log[c] /\ j \in DOMAIN log[c]
          /\ log'[d][i] = log[c][i] /\ log'[d][j] = log[c][j]
      BY <1>4, <2>2
    <3> QED BY <2>2, <3>1 DEF CountedInv, InOrder, Older
  <2>3. CASE d = c /\ j = Len(log[c]) + 1
    BY <1>2, <1>4, <2>3
  <2> QED BY <1>4, <2>1, <2>2, <2>3
<1> QED BY <1>1, <1>6, <1>7, <1>8 DEF CountedInv

(* The contract of the queue gives its promises.                           *)
THEOREM DeliveryContractSuffices == ImplementsDelivery => []AtMostOnce /\ []InOrder
<1>1. Delivery!Init => CountedInv
  <2> SUFFICES ASSUME Delivery!Init PROVE CountedInv
    OBVIOUS
  <2>1. /\ log \in [Consumers -> Seq(Item)] /\ made \in [Producers -> Nat]
        /\ \A c \in Consumers : log[c] = <<>>
    BY DEF Delivery!Init
  <2> QED BY <2>1 DEF CountedInv, AtMostOnce, InOrder
<1>2. CountedInv /\ [Delivery!Next]_(Delivery!contractVars) => CountedInv'
  <2>1. ASSUME CountedInv, UNCHANGED log, made' \in [Producers -> Nat] PROVE CountedInv'
    BY <2>1 DEF CountedInv, AtMostOnce, InOrder
  <2>2. ASSUME CountedInv, NEW p \in Producers, Delivery!Make(p)
        PROVE  UNCHANGED log /\ made' \in [Producers -> Nat]
    BY <2>2 DEF CountedInv, Delivery!Make
  <2>3. CountedInv /\ (Delivery!Lose \/ UNCHANGED Delivery!contractVars)
          => UNCHANGED log /\ made' \in [Producers -> Nat]
    BY DEF CountedInv, Delivery!Lose, Delivery!contractVars
  <2> QED BY <2>1, <2>2, <2>3, DeliverKeeps DEF Delivery!Next
<1>3. CountedInv => AtMostOnce /\ InOrder
  BY DEF CountedInv
<1> QED BY <1>1, <1>2, <1>3, PTL DEF ImplementsDelivery, Delivery!Spec

=============================================================================
