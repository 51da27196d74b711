----------------------------- MODULE MCAppServer ------------------------------
(* Small instances of the server.                                          *)
EXTENDS AppServer
=============================================================================
