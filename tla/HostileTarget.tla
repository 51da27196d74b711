---------------------------- MODULE HostileTarget ------------------------------
(***************************************************************************)
(* What the hostile target of the scraping module keeps of one client,     *)
(* 13-scraping-at-scale/docker/target/app.py: header gate, honeypots,      *)
(* token bucket and bans in a middleware on the event loop, and a debug    *)
(* reset that runs in the server's thread pool.  The middleware looks its  *)
(* client up and then works on the record it found, which a reset in       *)
(* between replaces but does not change.                                   *)
(***************************************************************************)
EXTENDS Integers, Sequences, FiniteSetsExt

CONSTANTS
  Capacity,        \* tokens of a full bucket, in parts of a token
  Refill,          \* parts that come back in a tick
  Token,           \* parts of a token
  BanAfter,        \* ban_after_violations
  TargetTicks,     \* bound: ticks
  TargetRequests,  \* bound: requests
  MaxResets        \* bound: resets

ASSUME BucketAssumption == {Capacity, Refill, Token} \subseteq Nat
ASSUME BanAssumption    == BanAfter \in Nat \ {0}

Kinds == {"page", "bad headers", "trap"}

VARIABLES
  now,       \* time.monotonic()
  client,    \* CLIENTS[cid]
  kind,      \* what the middleware works on: its kind, or "none"
  replaced,  \* a reset has replaced the record it looked up
  asked, resets,
  since,     \* requests looked up since the last reset
  served     \* times of the pages served since the last reset

targetVars == <<now, client, kind, replaced, asked, resets, since, served>>

NewClientState == [tokens |-> Capacity, last |-> now, requests |-> 0, hits |-> 0,
                   violations |-> 0, rejections |-> 0, banned |-> FALSE]

TargetInit == /\ now = 0 /\ asked = 0 /\ resets = 0 /\ since = 0 /\ served = <<>>
              /\ client = NewClientState
              /\ kind = "none" /\ replaced = FALSE

(* _get_client: the record is looked up, or made.                          *)
LookUp == /\ kind = "none" /\ asked < TargetRequests
          /\ kind' \in Kinds
          /\ asked' = asked + 1 /\ since' = since + 1
          /\ UNCHANGED <<now, client, replaced, resets, served>>

(* Mutant: the time of the refill is not kept.                             *)
RefilledAgain(c) == [c EXCEPT !.tokens = Min({Capacity, @ + (now - c.last) * Refill})]

(* The bucket as it is now.                                                *)
Refilled(c) == [c EXCEPT !.tokens = Min({Capacity, @ + (now - c.last) * Refill}),
                         !.last = now]

BadHeaders(c) == [c EXCEPT !.rejections = @ + 1]
Trapped(c)    == [c EXCEPT !.hits = @ + 1, !.banned = TRUE]
Served(c)     == [c EXCEPT !.tokens = @ - Token]

Violated(c) == [c EXCEPT !.violations = @ + 1, !.banned = @ \/ c.violations + 1 >= BanAfter]

(* What the middleware makes of the record it found, ban and headers first *)
Decision(c) ==
    LET full == Refilled(c) IN
    IF c.banned THEN c
    ELSE CASE kind = "bad headers" -> BadHeaders(c)
           [] kind = "trap"        -> Trapped(c)
           [] kind = "page"        -> IF full.tokens < Token THEN Violated(full)
                                                             ELSE Served(full)

Serves(c) == ~c.banned /\ kind = "page" /\ Refilled(c).tokens >= Token

(* The decision; on a record a reset has replaced it leaves no trace.      *)
Defend == /\ kind # "none"
          /\ kind' = "none" /\ replaced' = FALSE
          /\ IF ~replaced
             THEN /\ client' = [Decision(client) EXCEPT !.requests = @ + 1]
                  /\ served' = IF Serves(client) THEN Append(served, now) ELSE served
             ELSE UNCHANGED <<client, served>>
          /\ UNCHANGED <<now, asked, resets, since>>

(* Mutant: the record is cleared, not replaced.                            *)
ResetInPlace == /\ resets < MaxResets
                /\ resets' = resets + 1
                /\ client' = NewClientState
                /\ since' = 0 /\ served' = <<>>
                /\ UNCHANGED <<now, kind, replaced, asked>>

(* debug_reset, at any moment.                                             *)
DebugReset == /\ resets < MaxResets
              /\ resets' = resets + 1
              /\ client' = NewClientState
              /\ replaced' = (kind # "none")
              /\ since' = 0 /\ served' = <<>>
              /\ UNCHANGED <<now, kind, asked>>

TargetTick == /\ now < TargetTicks
              /\ now' = now + 1
              /\ UNCHANGED <<client, kind, replaced, asked, resets, since, served>>

Over == /\ now = TargetTicks /\ asked = TargetRequests /\ kind = "none" /\ UNCHANGED targetVars

TargetNext == LookUp \/ Defend \/ DebugReset \/ TargetTick \/ Over

TargetSpec == TargetInit /\ [][TargetNext]_targetVars

-----------------------------------------------------------------------------
(* Types of the variables.                                                 *)
TargetTypeOK == /\ {now, asked, resets, since} \subseteq Nat
                /\ kind \in Kinds \cup {"none"} /\ replaced \in BOOLEAN /\ served \in Seq(Nat)
                /\ client \in [tokens : Nat, last : Nat, requests : Nat, hits : Nat,
                               violations : Nat, rejections : Nat, banned : BOOLEAN]

(* However its requests are spaced, rejected or reset in between, a client *)
(* gets no more pages in a stretch of time than a full bucket and what     *)
(* came back meanwhile pay for.                                            *)
ServedWithinBudget ==
    \A i, j \in 1 .. Len(served) : i <= j =>
        (j - i + 1) * Token <= Capacity + (served[j] - served[i]) * Refill

(* After a reset the counters the validators read stand for requests that  *)
(* came after it, and a ban has its reason among them.                     *)
ResetIsClean ==
    /\ client.requests <= since
    /\ client.hits + client.violations + client.rejections + Len(served)
         <= client.requests
    /\ client.banned <=> (client.hits > 0 \/ client.violations >= BanAfter)

(* Why: what is left in the bucket and the pages served since any of them  *)
(* were paid for by a full bucket and the time up to the last refill, and  *)
(* a request that works on the current record was looked up after it.      *)
PaidFor ==
    /\ client.last <= now
    /\ client.tokens <= Capacity
    /\ \A i \in 1 .. Len(served) :
         /\ served[i] <= client.last
         /\ (Len(served) - i + 1) * Token + client.tokens
              <= Capacity + (client.last - served[i]) * Refill

LookedUpSince == (kind # "none" /\ ~replaced) => client.requests < since

TargetInv == TargetTypeOK /\ PaidFor /\ LookedUpSince /\ ServedWithinBudget /\ ResetIsClean

=============================================================================
