---------------------------- MODULE ClaimContract ----------------------------
(***************************************************************************)
(* What the claim queue of 02-sql-optimization/12-worker-lock-queue        *)
(* promises to the operator who reads its report, with nothing said about  *)
(* snapshots, row locks or connections: a worker claims a non-empty batch  *)
(* of rows nobody owns, an owner never changes, and a worker retires only  *)
(* when no row is left, unless it fails.                                   *)
(***************************************************************************)
CONSTANTS Workers,    \* the worker threads started by drain
          Rows,       \* primary keys of the arena table
          Batches,    \* sets of rows one claim may take (LIMIT)
          NoOne       \* claimed_by IS NULL

VARIABLES owner,      \* owner[r]: who owns row r
          life        \* life[w]: "working", "retired" or "failed"

avars == <<owner, life>>

Unowned == {r \in Rows : owner[r] = NoOne}

Init == /\ owner = [r \in Rows |-> NoOne]
        /\ life  = [w \in Workers |-> "working"]

(* A batch is claimed as a whole: all of its rows were free.               *)
Claim(w) ==
    /\ life[w] = "working"
    /\ \E B \in Batches :
          /\ B # {}
          /\ B \subseteq Unowned
          /\ owner' = [r \in Rows |-> IF r \in B THEN w ELSE owner[r]]
    /\ \/ life' = life
       \/ life' = [life EXCEPT ![w] = "failed"]

(* A worker stops looking for work only when there is none.                *)
Retire(w) ==
    /\ life[w] = "working"
    /\ Unowned = {}
    /\ life' = [life EXCEPT ![w] = "retired"]
    /\ UNCHANGED owner

(* A worker may fail while it works, and also after its last claim came    *)
(* back empty, when it still has a transaction to commit.                  *)
Fail(w) ==
    /\ life[w] # "failed"
    /\ life' = [life EXCEPT ![w] = "failed"]
    /\ UNCHANGED owner

Next == \E w \in Workers : Claim(w) \/ Retire(w) \/ Fail(w)

Spec == Init /\ [][Next]_avars

=============================================================================
