----------------------------- MODULE MCAppQueue -----------------------------
(* Small instances of the app's queue modes.                               *)
EXTENDS AppQueue
=============================================================================
