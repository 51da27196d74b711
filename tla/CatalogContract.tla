---------------------------- MODULE CatalogContract ----------------------------
(***************************************************************************)
(* What the table of products promises to whoever reads it, with nothing   *)
(* said about statements, locks and connections: upsert_products publishes *)
(* all it was called with at once, if it returns; a product keeps its id,  *)
(* which is no other's; and a call that has returned writes no more.       *)
(***************************************************************************)
EXTENDS Naturals, Sequences

CONSTANT Skus

VARIABLES table,  \* table[s]: the row of s, with id 0 if there is none
          made,   \* made[n]: the products of call n
          acked   \* calls that have returned

contractVars == <<table, made, acked>>

Row     == [id : Nat, at : Nat, by : Nat]
Pending == DOMAIN made \ acked

Init == /\ table = [s \in Skus |-> [id |-> 0, at |-> 0, by |-> 0]]
        /\ made  = <<>>
        /\ acked = {}

Call == /\ \E products \in SUBSET Skus : made' = Append(made, products)
        /\ UNCHANGED <<table, acked>>

(* A pending call has written the row of s, which keeps its id or gets one *)
(* of its own.                                                             *)
WritesRow(s) ==
    /\ table'[s].by \in Pending
    /\ s \in made[table'[s].by]
    /\ IF table[s].id # 0
       THEN table'[s].id = table[s].id
       ELSE /\ table'[s].id # 0
            /\ \A t \in Skus \ {s} : table'[t].id # table'[s].id

(* Rows of calls that have not returned are published; one of them, all of *)
(* whose rows stand now, may return.                                       *)
Publish ==
    /\ table' \in [Skus -> Row]
    /\ \A s \in Skus : table'[s] = table[s] \/ WritesRow(s)
    /\ \/ acked' = acked
       \/ \E n \in Pending : /\ acked' = acked \cup {n}
                             /\ \A s \in made[n] : table'[s].by = n
    /\ UNCHANGED made

Next == Call \/ Publish

Spec == Init /\ [][Next]_contractVars

=============================================================================
