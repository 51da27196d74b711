----------------------------- MODULE CatalogCache -----------------------------
(***************************************************************************)
(* The read-through cache of GET /products/{sku} in the scrape-to-serve    *)
(* stack, 16-testing-engineering/07-capstone-scrape-to-serve-test-suite/   *)
(* src/impl.py: get_product asks ProductCache, on a miss CatalogRepo, and  *)
(* writes the answer back with an expiry.  Requests run on the server's    *)
(* threads; upserts change the product meanwhile and do not touch the      *)
(* cache.  The app and whoever calls upsert_products are given one repo,   *)
(* so they share its connection, and with it an open transaction.          *)
(* One product: keys do not meet.                                          *)
(***************************************************************************)
EXTENDS Naturals

CONSTANTS Threads,       \* threads that serve GET requests for the product
          MaxUpserts,    \* bound: upserts of the product
          MaxFailures    \* bound: failing calls to Redis or PostgreSQL

ASSUME CacheBoundsAssumption == {MaxUpserts, MaxFailures} \subseteq Nat

VARIABLES
  written,    \* number of upserts of the row; the n-th writes version n
  open,       \* the version the open transaction has written, or 0
  aborted,    \* the transaction is aborted: all statements are refused
  table,      \* the committed version of the product, 0 if there is none
  entry,      \* the cache's entry: [version, expires], or Miss
  req,        \* req[r]: "idle", "missed" (the cache), "read" (the table)
  row,        \* row[r]: the version r has read and not yet cached, or 0
  failures

session   == <<open, aborted>>
cacheVars == <<written, session, table, entry, req, row, failures>>

Miss == [version |-> 0, expires |-> FALSE]

CacheInit ==
    /\ written = 0 /\ open = 0 /\ aborted = FALSE /\ table = 0
    /\ entry   = Miss
    /\ req     = [r \in Threads |-> "idle"]
    /\ row     = [r \in Threads |-> 0]
    /\ failures = 0

Failure == failures < MaxFailures /\ failures' = failures + 1

-----------------------------------------------------------------------------
(* upsert_products writes the row, maybe in a transaction that an earlier  *)
(* call left open when it raised half-way (see CatalogStore).              *)
Upsert ==
    /\ ~aborted /\ written < MaxUpserts
    /\ written' = written + 1
    /\ open' = written'
    /\ UNCHANGED <<aborted, table, entry, req, row, failures>>

(* self._conn.commit() of this call or of a later one; the cache does not  *)
(* hear of it.                                                             *)
Commit ==
    /\ open # 0
    /\ open' = 0 /\ table' = open
    /\ UNCHANGED <<written, aborted, entry, req, row, failures>>

(* PostgreSQL refuses a statement: what the transaction wrote is gone.     *)
Abort == ~aborted /\ Failure /\ aborted' = TRUE /\ open' = 0

UpsertRefused == Abort /\ UNCHANGED <<written, table, entry, req, row>>

(* The owner of the connection ends what a call that raised has left.      *)
RollBack ==
    /\ open # 0 \/ aborted
    /\ open' = 0 /\ aborted' = FALSE
    /\ UNCHANGED <<written, table, entry, req, row, failures>>

-----------------------------------------------------------------------------
Proceed(r, step) == req' = [req EXCEPT ![r] = step]

(* cache.get(sku); a hit is the answer.                                    *)
CacheGet(r) ==
    /\ req[r] = "idle"
    /\ IF entry = Miss THEN Proceed(r, "missed") ELSE UNCHANGED req
    /\ UNCHANGED <<written, session, table, entry, row, failures>>

(* What a statement on the shared connection sees.                         *)
Seen == IF open # 0 THEN open ELSE table

(* repo.get_by_sku(sku); no row is answered by 404 and not cached.         *)
GetBySku(r) ==
    /\ req[r] = "missed" /\ ~aborted
    /\ row' = [row EXCEPT ![r] = Seen]
    /\ Proceed(r, IF Seen = 0 THEN "idle" ELSE "read")
    /\ UNCHANGED <<written, session, table, entry, failures>>

(* The SELECT raises: 500, and nothing is cached.                          *)
GetBySkuRefused(r) ==
    /\ req[r] = "missed"
    /\ Abort \/ (aborted /\ UNCHANGED <<session, failures>>)
    /\ Proceed(r, "idle")
    /\ UNCHANGED <<written, table, entry, row>>

(* Mutant: the key is set without an expiry.                               *)
FilledForGood(r) == [version |-> row[r], expires |-> FALSE]

(* SET key value EX ttl: value and expiry are one command.                 *)
Filled(r) == [version |-> row[r], expires |-> TRUE]

(* cache.set(sku, item) overwrites whatever is there, and the item is the  *)
(* answer.                                                                 *)
CacheSet(r) ==
    /\ req[r] = "read"
    /\ entry' = Filled(r)
    /\ row' = [row EXCEPT ![r] = 0]
    /\ Proceed(r, "idle")
    /\ UNCHANGED <<written, session, table, failures>>

(* Redis fails before the entry is set: 500.                               *)
CacheSetFails(r) ==
    /\ req[r] = "read" /\ Failure
    /\ row' = [row EXCEPT ![r] = 0]
    /\ Proceed(r, "idle")
    /\ UNCHANGED <<written, session, table, entry>>

(* The ttl passes.                                                         *)
Expire ==
    /\ entry.expires
    /\ entry' = Miss
    /\ UNCHANGED <<written, session, table, req, row, failures>>

Serve(r) == GetBySku(r) \/ CacheSet(r)

CacheNext == \/ Upsert \/ Commit \/ UpsertRefused \/ RollBack \/ Expire
             \/ \E r \in Threads : \/ CacheGet(r) \/ Serve(r)
                                   \/ GetBySkuRefused(r) \/ CacheSetFails(r)

CacheSpec == CacheInit /\ [][CacheNext]_cacheVars

(* Redis expires keys, a request that has begun is served, and a           *)
(* transaction ends: its call commits, or a later call or the owner of the *)
(* connection ends what a raising call has left.  Nobody need send a       *)
(* request.                                                                *)
CacheFairSpec == /\ CacheSpec
                 /\ WF_cacheVars(Expire)
                 /\ WF_cacheVars(Commit \/ RollBack)
                 /\ \A r \in Threads : WF_cacheVars(Serve(r))

-----------------------------------------------------------------------------
(* Types of the variables.                                                 *)
CacheTypeOK ==
    /\ {written, open, table} \subseteq 0 .. MaxUpserts /\ aborted \in BOOLEAN
    /\ entry.version \in 0 .. MaxUpserts /\ entry.expires \in BOOLEAN
    /\ req \in [Threads -> {"idle", "missed", "read"}]
    /\ row \in [Threads -> 0 .. MaxUpserts]
    /\ failures \in 0 .. MaxFailures

(* No wrong entry stays (impl.py:322), neither an outdated one nor one     *)
(* that was read from an open transaction and never committed: once the    *)
(* product is no longer written, the cache comes to hold the committed     *)
(* version or none, although slow requests may still write back what they  *)
(* read long ago.                                                          *)
StalenessEnds == <>[](entry = Miss \/ entry.version = table)

=============================================================================
