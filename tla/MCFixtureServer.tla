--------------------------- MODULE MCFixtureServer ----------------------------
(* The fixture server with workers that send one request at a time.        *)
EXTENDS FixtureServer, TLC

CONSTANTS c1, c2, p1, p2
MCFailFirst == p1 :> 1 @@ p2 :> 0
MCSymmetry  == Permutations(Clients)
=============================================================================
