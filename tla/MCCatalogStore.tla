---------------------------- MODULE MCCatalogStore ----------------------------
(* Small instances of the catalogue's repository.                          *)
EXTENDS CatalogStore

(* Lists of up to two different records, one of which may be malformed:    *)
(* enough to upsert two products in either order and to fail half-way.     *)
MCBatches == {b \in SeqOf(Skus \cup {Bad}, 2) :
                b # <<>> /\ IsInjective(b) /\ b # <<Bad>>}

Interchangeable == Permutations(Writers) \cup Permutations(Skus)

=============================================================================
