----------------------------- MODULE MCClaimQueue -----------------------------
(* Small instances of the claim queue.                                     *)
EXTENDS ClaimQueue

(* One row more than a batch: a full batch, a partial one and an empty     *)
(* claim all happen, in every division among the workers.                  *)
ThreeRows == 1 .. 3

=============================================================================
