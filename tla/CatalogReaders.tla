---------------------------- MODULE CatalogReaders ----------------------------
(***************************************************************************)
(* Readers of the catalogue beside its writers: a client that walks the    *)
(* pages of list_products (CatalogRepo.page) from the first to the last,   *)
(* and a downstream loader that calls load_incremental with the largest    *)
(* updated_at it has processed.  Each read is one statement and sees the   *)
(* committed rows of that moment.                                          *)
(***************************************************************************)
EXTENDS CatalogStore

CONSTANT PageLimit     \* limit

ASSUME PageLimitAssumption == PageLimit \in Nat \ {0}

VARIABLES
  walk,    \* "off", "on" (next_cursor is an id) or "done" (it was null)
  cursor,  \* id of the last item of the page before, 0 for none
  seen,    \* ids the walk has returned, in order
  there,   \* ids in the table when the walk began
  atEnd,   \* ids in the table when the walk ended
  since,   \* the loader's watermark
  loaded,  \* row versions the loader has been given, in order
  overlapped  \* history: two connections were in a transaction at a time

walker  == <<walk, cursor, seen, there, atEnd>>
loader  == <<since, loaded>>
allVars == <<vars, walker, loader, overlapped>>

ReadersInit ==
    /\ Init
    /\ walk = "off" /\ cursor = 0 /\ seen = <<>> /\ there = {} /\ atEnd = {}
    /\ since = 0 /\ loaded = <<>>
    /\ overlapped = FALSE

Ids == {table[s].id : s \in {t \in Skus : Present(t)}}

(* What a query returns, ORDER BY given: all of S, in that order.          *)
Ordered(S, Before(_, _)) ==
    {q \in [1 .. Cardinality(S) -> S] :
       \A i, j \in DOMAIN q : i < j => Before(q[i], q[j])}

(* The first PageLimit of a set of ids.                                    *)
FirstOf(S) == {i \in S : Cardinality({j \in S : j < i}) < PageLimit}

(* Mutant: OFFSET instead of a key.                                        *)
PageByOffset(c)   == FirstOf({i \in Ids :
                       Cardinality({j \in Ids : j < i}) >= Len(seen)})

(* page(after, limit)                                                      *)
PageAfter(c) == FirstOf({i \in Ids : i > c})

(* next_cursor is an id after a full page and null after a short one.      *)
AfterPage(page) == IF Cardinality(page) = PageLimit THEN "on" ELSE "done"

(* list_products                                                           *)
ListProducts ==
    /\ walk # "done"
    /\ LET page == PageAfter(cursor)
       IN  /\ \E items \in Ordered(page, <) : seen' = seen \o items
           /\ cursor' = IF page = {} THEN cursor ELSE Max(page)
           /\ walk'   = AfterPage(page)
           /\ atEnd'  = IF AfterPage(page) = "done" THEN Ids ELSE {}
    /\ there' = IF walk = "off" THEN Ids ELSE there
    /\ UNCHANGED <<vars, loader, overlapped>>

(* Mutant: the watermark's own rows come again.                            *)
UpdatedFrom(t)  == {s \in Skus : Present(s) /\ table[s].at >= t}

UpdatedAfter(t) == {s \in Skus : Present(s) /\ table[s].at > t}

(* ORDER BY updated_at, id                                                 *)
Earlier(s, t) == \/ table[s].at < table[t].at
                 \/ table[s].at = table[t].at /\ table[s].id < table[t].id

Version(s) == <<s, table[s].by, table[s].at>>
Versions(order) == [i \in DOMAIN order |-> Version(order[i])]

(* load_incremental(since)                                                 *)
LoadIncremental ==
    /\ UpdatedAfter(since) # {}
    /\ LET rows == UpdatedAfter(since)
       IN  /\ \E order \in Ordered(rows, Earlier) :
                loaded' = loaded \o Versions(order)
           /\ since'  = Max({table[s].at : s \in rows})
    /\ UNCHANGED <<vars, walker, overlapped>>

TwoAtATime == \E v, w \in Writers : v # w /\ conn[v] = "open" /\ conn[w] = "open"

(* A step of a writer.                                                     *)
WriterStep == /\ Next
              /\ overlapped' = (overlapped \/ TwoAtATime')
              /\ UNCHANGED <<walker, loader>>

ReadersNext == \/ WriterStep
               \/ ListProducts
               \/ LoadIncremental

ReadersSpec == ReadersInit /\ [][ReadersNext]_allVars

-----------------------------------------------------------------------------
(* Types of the variables.                                                 *)
ReadersTypeOK ==
    /\ walk \in {"off", "on", "done"}
    /\ cursor \in Nat /\ since \in Nat
    /\ seen \in Seq(Nat \ {0})
    /\ {there, atEnd} \subseteq SUBSET Nat
    /\ loaded \in Seq(Skus \X Nat \X Nat)
    /\ overlapped \in BOOLEAN

(* A walk that runs while records are inserted and written over returns    *)
(* nothing twice, and has returned at its end everything that was there    *)
(* when it began (impl.py:230).                                            *)
WalkIsStable ==
    /\ IsInjective(seen)
    /\ walk = "done" => there \subseteq ToSet(seen)

(* What impl.py:230 says of a walk without reservation: every row of the   *)
(* table is returned, with no gaps.                                        *)
WalkHasNoGaps == walk = "done" => atEnd \subseteq ToSet(seen)

(* The loader is never given a row version a second time, and gets them in *)
(* the order of updated_at (impl.py:262).                                  *)
NothingReloaded ==
    \A i, j \in DOMAIN loaded : i < j =>
      loaded[i] # loaded[j] /\ loaded[i][3] <= loaded[j][3]

(* While no two transactions of writers overlap, as with a single writing  *)
(* connection, the watermark loses nothing: when it finds no newer row,    *)
(* the loader has every row as it is, although ids and times were taken    *)
(* long before the commits.                                                *)
SerialLoaderIsCurrent ==
    ~overlapped /\ UpdatedAfter(since) = {} =>
      \A s \in Skus : Present(s) => Version(s) \in ToSet(loaded)

-----------------------------------------------------------------------------
(* The inductive invariants behind them.                                   *)

(* Of what was there when the walk began, all is still there, and what the *)
(* cursor has passed has been returned.                                    *)
WalkInv ==
    /\ ReadersTypeOK
    /\ IsInjective(seen)
    /\ \A i \in ToSet(seen) : i <= cursor
    /\ walk = "off" => cursor = 0
    /\ there \subseteq Ids
    /\ \A i \in there : (walk = "done" \/ i <= cursor) => i \in ToSet(seen)

(* The watermark is past everything the loader was given.                  *)
LoadInv ==
    /\ ReadersTypeOK
    /\ NothingReloaded
    /\ \A k \in DOMAIN loaded : loaded[k][3] <= since

(* Rows are stamped with the start of the transaction that writes them,    *)
(* which is open.                                                          *)
StampsInv ==
    /\ \A w \in Writers :
         /\ began[w] <= clock
         /\ drawn[w] # 0 => conn[w] = "open"
         /\ \A s \in Skus : lock[s] = w =>
              conn[w] = "open" /\ staged[s].at = began[w]
    /\ \A s \in Skus : table[s].at <= clock

(* As long as no two have overlapped, an open transaction began after      *)
(* every commit, hence after the watermark; up to the watermark, the       *)
(* loader has the rows there are.                                          *)
SerialInv ==
    /\ ReadersTypeOK
    /\ StampsInv
    /\ since <= clock
    /\ ~overlapped =>
         /\ ~TwoAtATime
         /\ \A w \in Writers : conn[w] = "open" =>
              since < began[w] /\ \A s \in Skus : table[s].at < began[w]
         /\ \A s \in Skus : (Present(s) /\ table[s].at <= since) =>
              Version(s) \in ToSet(loaded)

=============================================================================
