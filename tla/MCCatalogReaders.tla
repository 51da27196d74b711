--------------------------- MODULE MCCatalogReaders ---------------------------
(* Small instances of the catalogue with its readers.  Beside writers that *)
(* overlap nothing fails; beside writers that take turns records are       *)
(* malformed, reads begin transactions and connections are lost; that      *)
(* matters to the loader alone, and nobody walks then.                     *)
EXTENDS CatalogReaders

VARIABLE serial

(* One or two different products at a time, one of which may be malformed. *)
MCBatches == {b \in SeqOf(Skus \cup {Bad}, 2) :
                b # <<>> /\ IsInjective(b) /\ b # <<Bad>>}

NothingFails == /\ \A w \in Writers : Bad \notin ToSet(todo[w])
                /\ reads = 0 /\ losses = 0

TwoProducts == Cardinality(UNION ToSet(made)) <= 2

MCInit == serial \in BOOLEAN /\ ReadersInit

MCNext == /\ ReadersNext /\ UNCHANGED serial
          /\ IF serial THEN ~overlapped' /\ TwoProducts' /\ walk' = "off"
             ELSE NothingFails'

MCSpec == MCInit /\ [][MCNext]_<<allVars, serial>>

Interchangeable == Permutations(Writers) \cup Permutations(Skus)

=============================================================================
