------------------------- MODULE MCGroundTruthCache --------------------------
(* A small instance of the reference answers' cache.                       *)
EXTENDS GroundTruthCache

=============================================================================
