--------------------------- MODULE DeliveryContract ---------------------------
(***************************************************************************)
(* What the queue of the fixture app, 20-kubernetes/app/app.py, promises   *)
(* with nothing said about brokers, connections and processes: an item     *)
(* that was made waits until one consumer counts it or it is lost for      *)
(* good, and a consumer never goes back behind an item of a producer.      *)
(***************************************************************************)
EXTENDS Naturals, Sequences

CONSTANTS Producers, Consumers

VARIABLES made,   \* made[p]: items p has made
          log,    \* log[c]: the items c has counted, in order
          lost    \* items nobody will count

contractVars == <<made, log, lost>>

Produced == UNION {{p} \X (1 .. made[p]) : p \in Producers}
Counted  == UNION {{log[c][i] : i \in DOMAIN log[c]} : c \in Consumers}
Waiting  == Produced \ (Counted \cup lost)

Init == /\ made = [p \in Producers |-> 0]
        /\ log  = [c \in Consumers |-> <<>>]
        /\ lost = {}

(* An item is made; it may be lost on its way at once.                     *)
Make(p) ==
    /\ made' = [made EXCEPT ![p] = @ + 1]
    /\ \/ lost' = lost
       \/ lost' = lost \cup {<<p, made[p] + 1>>}
    /\ UNCHANGED log

(* A consumer counts a waiting item, newer than all it has counted of that *)
(* producer.                                                               *)
Deliver(c) ==
    /\ \E x \in Waiting :
          /\ \A i \in DOMAIN log[c] : log[c][i][1] = x[1] => log[c][i][2] < x[2]
          /\ log' = [log EXCEPT ![c] = Append(@, x)]
    /\ UNCHANGED <<made, lost>>

(* Waiting items are lost.                                                 *)
Lose ==
    /\ \E S \in SUBSET Waiting : lost' = lost \cup S
    /\ UNCHANGED <<made, log>>

Next == \/ \E p \in Producers : Make(p)
        \/ \E c \in Consumers : Deliver(c)
        \/ Lose

Spec == Init /\ [][Next]_contractVars

=============================================================================
