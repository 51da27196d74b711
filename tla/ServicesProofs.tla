---------------------------- MODULE ServicesProofs -----------------------------
(* Proofs about the servers the exercises run against, the mock peer, the  *)
(* hostile target and the fixture server: the numbers they are graded by   *)
(* are right for any number of clients, requests and threads.              *)
EXTENDS Peer, HostileTarget, FixtureServer, FiniteSetTheorems, TLAPS

LEMMA MaxOfTwo ==
  ASSUME NEW a \in Nat, NEW b \in Nat
  PROVE  Max({a, b}) \in Nat /\ Max({a, b}) \in {a, b} /\ Max({a, b}) >= a /\ Max({a, b}) >= b
<1>1. \E x \in {a, b} : \A y \in {a, b} : x >= y
  OBVIOUS
<1> QED BY <1>1 DEF Max

LEMMA MinOfTwo ==
  ASSUME NEW a \in Nat, NEW b \in Nat
  PROVE  Min({a, b}) \in Nat /\ Min({a, b}) \in {a, b} /\ Min({a, b}) <= a /\ Min({a, b}) <= b
<1>1. \E x \in {a, b} : \A y \in {a, b} : x <= y
  OBVIOUS
<1> QED BY <1>1 DEF Min

LEMMA SmallerSet ==
  ASSUME NEW S, NEW T, IsFiniteSet(T), S \subseteq T
  PROVE  IsFiniteSet(S) /\ Cardinality(S) \in Nat /\ Cardinality(T) \in Nat
         /\ Cardinality(S) <= Cardinality(T)
BY FS_Subset, FS_CardinalityType

-----------------------------------------------------------------------------
(* The mock peer.                                                          *)

(* The requests let through that arrived in the window from t on.          *)
LetIn(t) == {r \in Let : arrivedAt[r] \in t .. t + Window}

LEMMA PeerInitInv == ASSUME PeerInit PROVE PeerInv
<1> USE GateAssumption
<1>1. PeerTypeOK
  BY DEF PeerInit, PeerTypeOK
<1>2. Sleeping = {} /\ Let = {}
  BY DEF PeerInit, Sleeping, Let
<1>3. GateHolds
  BY <1>2, FS_EmptySet DEF PeerInit, GateHolds
<1>4. \A t : LetIn(t) = {}
  BY <1>2 DEF LetIn
<1> QED BY <1>1, <1>2, <1>3, <1>4, FS_EmptySet DEF PeerInv, LetAreRecent, WindowHolds, LetIn

(* A step that lets nobody through leaves the windows as they are.         *)
LEMMA SameWindows ==
  ASSUME PeerInv, time' = time, Let' = Let, \A r \in Let : arrivedAt'[r] = arrivedAt[r]
  PROVE  WindowHolds'
<1>1. \A t : LetIn(t)' = LetIn(t)
  BY DEF LetIn
<1> QED BY <1>1 DEF PeerInv, WindowHolds, LetIn

LEMMA ThrottleStep ==
  ASSUME PeerInv, NEW r \in Requests, Throttle(r) PROVE PeerInv'
<1>1. PeerTypeOK'
  BY DEF PeerInv, PeerTypeOK, Throttle
<1>2. Sleeping' = Sleeping /\ Let' = Let
  BY DEF PeerInv, PeerTypeOK, Throttle, Sleeping, Let
<1>3. GateHolds' /\ LetAreRecent'
  BY <1>2 DEF PeerInv, GateHolds, LetAreRecent, Throttle
<1> QED BY <1>1, <1>2, <1>3, SameWindows DEF PeerInv, Throttle

(* What a request that comes to the rate check changes.                    *)
LEMMA PassesFacts ==
  ASSUME PeerInv, NEW r \in Requests, Passes(r), time' = time
  PROVE  /\ maxObserved' \in Nat /\ maxObserved' >= inFlight + 1
         /\ maxObserved' >= maxObserved /\ maxObserved' <= MaxConcurrency
         /\ arrivedAt' \in [Requests -> Nat] /\ arrivals' \subseteq Requests
         /\ r \notin Let /\ \A q \in Let : arrivedAt'[q] = arrivedAt[q]
         /\ arrivedAt'[r] = time
         /\ r \in arrivals'
         /\ \A q \in Let : arrivedAt[q] <= time
                           /\ (arrivedAt[q] + Window >= time => q \in arrivals')
<1>1. inFlight \in Nat /\ maxObserved \in Nat /\ time \in Nat /\ inFlight + 1 \in Nat
  BY DEF PeerInv, PeerTypeOK
<1>2. /\ maxObserved' \in Nat /\ maxObserved' >= inFlight + 1
      /\ maxObserved' >= maxObserved /\ maxObserved' <= MaxConcurrency
  BY <1>1, MaxOfTwo, GateAssumption DEF PeerInv, GateHolds, Passes
<1>3. /\ arrivedAt' \in [Requests -> Nat] /\ arrivals' \subseteq Requests
      /\ r \notin Let /\ \A q \in Let : arrivedAt'[q] = arrivedAt[q]
      /\ arrivedAt'[r] = time /\ r \in arrivals'
  BY <1>1 DEF PeerInv, PeerTypeOK, Passes, Recent, Let
<1>4. \A q \in Let : arrivedAt[q] <= time
                     /\ (arrivedAt[q] + Window >= time => q \in arrivals')
  BY DEF PeerInv, LetAreRecent, Passes, Recent
<1> QED BY <1>2, <1>3, <1>4

LEMMA RateLimitStep ==
  ASSUME PeerInv, NEW r \in Requests, RateLimit(r) PROVE PeerInv'
<1>1. Passes(r) /\ UNCHANGED <<time, inFlight>>
      /\ request' = [request EXCEPT ![r] = "throttled"]
  BY DEF RateLimit
<1>2. PeerTypeOK'
  BY <1>1, PassesFacts DEF PeerInv, PeerTypeOK
<1>3. Sleeping' = Sleeping /\ Let' = Let
  BY <1>1 DEF PeerInv, PeerTypeOK, Passes, Sleeping, Let
<1>4. inFlight \in Nat /\ maxObserved \in Nat
  BY DEF PeerInv, PeerTypeOK
<1>5. GateHolds'
  BY <1>1, <1>3, <1>4, PassesFacts DEF PeerInv, GateHolds
<1>6. LetAreRecent'
  BY <1>1, <1>3, PassesFacts DEF LetAreRecent
<1> QED BY <1>1, <1>2, <1>3, <1>5, <1>6, PassesFacts, SameWindows DEF PeerInv

(* Whoever is let through shares a window only with those still among the  *)
(* arrivals, and they were counted.                                        *)
LEMMA AdmitStep ==
  ASSUME PeerInv, NEW r \in Requests, Admit(r) PROVE PeerInv'
<1>1. /\ Passes(r) /\ time' = time /\ inFlight' = inFlight + 1
      /\ Cardinality(Recent) + 1 <= Rate
      /\ request' = [request EXCEPT ![r] = "sleeping"]
  BY DEF Admit
<1>2. inFlight \in Nat /\ time \in Nat /\ arrivals \subseteq Requests
  BY DEF PeerInv, PeerTypeOK
<1>3. PeerTypeOK'
  BY <1>1, <1>2, PassesFacts DEF PeerInv, PeerTypeOK
<1>4. Sleeping' = Sleeping \cup {r} /\ r \notin Sleeping /\ Let' = Let \cup {r}
  BY <1>1 DEF PeerInv, PeerTypeOK, Passes, Sleeping, Let
<1>5. GateHolds'
  <2>1. IsFiniteSet(Sleeping)
    BY RequestsAssumption, FS_Subset DEF Sleeping
  <2>2. Cardinality(Sleeping') = Cardinality(Sleeping) + 1
    BY <1>4, <2>1, FS_AddElement
  <2> QED BY <1>1, <1>2, <2>2, PassesFacts DEF PeerInv, GateHolds
<1>6. LetAreRecent'
  BY <1>1, <1>2, <1>4, PassesFacts DEF LetAreRecent
<1>7. WindowHolds'
  <2> SUFFICES ASSUME NEW t \in 0 .. time PROVE Cardinality(LetIn(t)') <= Rate
    BY <1>1 DEF WindowHolds, LetIn
  <2>1. CASE t + Window < time
    <3>1. LetIn(t)' = LetIn(t)
      BY <1>1, <1>2, <1>4, <2>1, PassesFacts, GateAssumption DEF LetIn
    <3> QED BY <3>1 DEF PeerInv, WindowHolds, LetIn
  <2>2. CASE t + Window >= time
    <3>1. ASSUME NEW q \in Let, arrivedAt[q] >= t PROVE q \in Recent
      <4>1. arrivedAt[q] \in Nat
        BY DEF PeerInv, PeerTypeOK, Let
      <4> QED BY <1>2, <2>2, <3>1, <4>1, GateAssumption DEF PeerInv, LetAreRecent, Recent
    <3>2. LetIn(t)' \subseteq Recent \cup {r}
      BY <1>4, <3>1, <1>1, PassesFacts DEF LetIn
    <3>3. IsFiniteSet(Recent)
      BY <1>2, RequestsAssumption, FS_Subset DEF Recent
    <3>4. /\ IsFiniteSet(Recent \cup {r}) /\ Cardinality(Recent) \in Nat
          /\ Cardinality(Recent \cup {r}) \in {Cardinality(Recent), Cardinality(Recent) + 1}
      BY <3>3, FS_AddElement, FS_CardinalityType
    <3>5. Cardinality(LetIn(t)') <= Cardinality(Recent \cup {r})
          /\ Cardinality(LetIn(t)') \in Nat
      BY <3>2, <3>4, SmallerSet
    <3> QED BY <1>1, <3>4, <3>5, GateAssumption
  <2> QED BY <1>2, <2>1, <2>2, GateAssumption
<1> QED BY <1>3, <1>5, <1>6, <1>7 DEF PeerInv

LEMMA WakeStep ==
  ASSUME PeerInv, NEW r \in Requests, Wake(r) PROVE PeerInv'
<1>1. inFlight \in Nat /\ IsFiniteSet(Sleeping)
  BY RequestsAssumption, FS_Subset DEF PeerInv, PeerTypeOK, Sleeping
<1>2. Sleeping' = Sleeping \ {r} /\ r \in Sleeping /\ Let' = Let
  BY DEF PeerInv, PeerTypeOK, Wake, Sleeping, Let
<1>3. /\ Cardinality(Sleeping') = Cardinality(Sleeping) - 1
      /\ Cardinality(Sleeping') \in Nat
  BY <1>1, <1>2, FS_RemoveElement, FS_CardinalityType
<1>4. inFlight' \in Nat /\ inFlight' = inFlight - 1
  BY <1>1, <1>3 DEF PeerInv, GateHolds, Wake
<1>5. PeerTypeOK'
  BY <1>4 DEF PeerInv, PeerTypeOK, Wake
<1>6. GateHolds'
  BY <1>1, <1>3, <1>4, GateAssumption DEF PeerInv, PeerTypeOK, GateHolds, Wake
<1>7. LetAreRecent'
  BY <1>2 DEF PeerInv, LetAreRecent, Wake
<1> QED BY <1>2, <1>5, <1>6, <1>7, SameWindows DEF PeerInv, Wake

LEMMA PeerTickStep == ASSUME PeerInv, PeerTick PROVE PeerInv'
<1>1. /\ time \in Nat /\ time' = time + 1
      /\ UNCHANGED <<request, inFlight, maxObserved, arrivals, arrivedAt>>
  BY DEF PeerInv, PeerTypeOK, PeerTick
<1>2. PeerTypeOK' /\ GateHolds'
  BY <1>1 DEF PeerInv, PeerTypeOK, GateHolds, Sleeping
<1>3. Let' = Let /\ \A q \in Let : arrivedAt[q] \in Nat /\ arrivedAt[q] <= time
  BY <1>1 DEF Let, PeerInv, PeerTypeOK, LetAreRecent
<1>4. LetAreRecent'
  BY <1>1, <1>3, GateAssumption DEF PeerInv, LetAreRecent
<1>5. WindowHolds'
  <2> SUFFICES ASSUME NEW t \in 0 .. time' PROVE Cardinality(LetIn(t)) <= Rate
    BY <1>1, <1>3 DEF WindowHolds, LetIn
  <2>1. CASE t \in 0 .. time
    BY <2>1 DEF PeerInv, WindowHolds, LetIn
  <2>2. CASE t = time + 1
    <3>1. LetIn(t) = {}
      BY <1>1, <1>3, <2>2, GateAssumption DEF LetIn
    <3> QED BY <3>1, FS_EmptySet, GateAssumption
  <2> QED BY <1>1, <2>1, <2>2
<1> QED BY <1>2, <1>4, <1>5 DEF PeerInv

LEMMA PeerNextInv == ASSUME PeerInv, [PeerNext]_peerVars PROVE PeerInv'
<1>1. CASE Quiet \/ UNCHANGED peerVars
  BY <1>1 DEF Quiet, peerVars, PeerInv, PeerTypeOK, GateHolds, LetAreRecent, WindowHolds,
              Sleeping, Let
<1> QED BY <1>1, ThrottleStep, RateLimitStep, AdmitStep, WakeStep, PeerTickStep DEF PeerNext

(* Handlers that end, fail or are cancelled give their place back, and the *)
(* cap is never passed.                                                    *)
THEOREM PeerGate == PeerSpec => []GateHolds
<1>1. PeerInv => GateHolds
  BY DEF PeerInv
<1> QED BY <1>1, PeerInitInv, PeerNextInv, PTL DEF PeerSpec

(* No trailing second holds more requests let through than the rate.       *)
THEOREM PeerWindow == PeerSpec => []WindowHolds
<1>1. PeerInv => WindowHolds
  BY DEF PeerInv
<1> QED BY <1>1, PeerInitInv, PeerNextInv, PTL DEF PeerSpec

-----------------------------------------------------------------------------
(* The hostile target.                                                     *)

ClientState == [tokens : Nat, last : Nat, requests : Nat, hits : Nat,
                violations : Nat, rejections : Nat, banned : BOOLEAN]

LEMMA Distribute == \A a, b, c \in Int : (a + b) * c = a * c + b * c
OBVIOUS

LEMMA ProductOfInts == \A a, b \in Int : a * b \in Int
OBVIOUS

LEMMA ProductOfNats == \A a, b \in Nat : a * b \in Nat
OBVIOUS

LEMMA NewClient ==
  ASSUME now \in Nat
  PROVE  /\ NewClientState \in ClientState
         /\ NewClientState.tokens = Capacity /\ NewClientState.last = now
         /\ NewClientState.requests = 0 /\ NewClientState.hits = 0
         /\ NewClientState.violations = 0 /\ NewClientState.rejections = 0
         /\ ~NewClientState.banned
BY BucketAssumption DEF NewClientState, ClientState

LEMMA TargetInitInv == ASSUME TargetInit PROVE TargetInv
<1>1. now \in Nat /\ client = NewClientState
  BY DEF TargetInit
<1>2. TargetTypeOK
  <2>1. served \in Seq(Nat)
    BY DEF TargetInit
  <2> QED BY <1>1, <2>1, NewClient DEF TargetInit, TargetTypeOK, Kinds, ClientState
<1>3. Len(served) = 0 /\ kind = "none" /\ since = 0
  BY DEF TargetInit
<1>4. PaidFor /\ LookedUpSince /\ ServedWithinBudget /\ ResetIsClean
  BY <1>1, <1>3, NewClient, BucketAssumption, BanAssumption
  DEF PaidFor, LookedUpSince, ServedWithinBudget, ResetIsClean
<1> QED BY <1>2, <1>4 DEF TargetInv

(* The refill: no more than the bucket holds, or than came back since.     *)
LEMMA RefilledFacts ==
  ASSUME TargetInv
  PROVE  /\ Refilled(client) \in ClientState
         /\ Refilled(client).last = now
         /\ Refilled(client).requests = client.requests
         /\ Refilled(client).hits = client.hits
         /\ Refilled(client).violations = client.violations
         /\ Refilled(client).rejections = client.rejections
         /\ Refilled(client).banned = client.banned
         /\ Refilled(client).tokens <= Capacity
         /\ Refilled(client).tokens <= client.tokens + (now - client.last) * Refill
<1> DEFINE earned == client.tokens + (now - client.last) * Refill
           least == Min({Capacity, earned})
<1>1. client \in ClientState /\ now \in Nat /\ now - client.last \in Nat
  BY DEF TargetInv, TargetTypeOK, PaidFor, ClientState
<1>2. earned \in Nat /\ Capacity \in Nat
  BY <1>1, ProductOfNats, BucketAssumption DEF ClientState
<1>3. least \in Nat /\ least <= Capacity /\ least <= earned
  <2> HIDE DEF earned
  <2> QED BY <1>2, MinOfTwo
<1>4. Refilled(client) = [client EXCEPT !.tokens = least, !.last = now]
  BY DEF Refilled
<1> HIDE DEF least
<1> QED BY <1>1, <1>3, <1>4 DEF ClientState

(* A decision that serves no page, whether or not it refills the bucket.   *)
LEMMA UnservedStep ==
  ASSUME TargetInv, kind # "none", ~replaced, kind' = "none", replaced' = FALSE,
         UNCHANGED <<now, asked, resets, since, served>>,
         client' \in ClientState, client'.requests = client.requests + 1,
         client'.hits + client'.violations + client'.rejections
           <= client.hits + client.violations + client.rejections + 1,
         client'.banned <=> (client'.hits > 0 \/ client'.violations >= BanAfter),
         \/ client'.tokens = client.tokens /\ client'.last = client.last
         \/ client'.tokens = Refilled(client).tokens /\ client'.last = now
  PROVE  TargetInv'
<1>1. client \in ClientState /\ now \in Nat /\ since \in Nat /\ served \in Seq(Nat)
  BY DEF TargetInv, TargetTypeOK, ClientState
<1>0. /\ client.tokens \in Nat /\ client.last \in Nat /\ client.requests \in Nat
      /\ client.hits \in Nat /\ client.violations \in Nat /\ client.rejections \in Nat
      /\ client'.tokens \in Nat /\ client'.last \in Nat /\ client'.requests \in Nat
      /\ client'.hits \in Nat /\ client'.violations \in Nat /\ client'.rejections \in Nat
  BY <1>1 DEF ClientState
<1>2. TargetTypeOK'
  BY DEF TargetInv, TargetTypeOK, ClientState
<1>3. LookedUpSince' /\ ServedWithinBudget'
  BY DEF TargetInv, LookedUpSince, ServedWithinBudget
<1>4. ResetIsClean'
  <2>1. client'.requests <= since'
    BY <1>0, <1>1 DEF TargetInv, LookedUpSince
  <2> DEFINE pages == Len(served)
  <2>2. /\ client.hits + client.violations + client.rejections + pages <= client.requests
        /\ pages \in Nat
    BY <1>1 DEF TargetInv, ResetIsClean
  <2>3. client'.hits + client'.violations + client'.rejections + pages <= client'.requests
    <3> HIDE DEF pages
    <3> QED BY <1>0, <2>2
  <2> QED BY <2>1, <2>3 DEF ResetIsClean
<1>5. PaidFor'
  <2>0. /\ Refilled(client).tokens <= Capacity
        /\ Refilled(client).tokens <= client.tokens + (now - client.last) * Refill
        /\ client.last <= now /\ client.tokens <= Capacity
    BY RefilledFacts DEF TargetInv, PaidFor
  <2>1. client'.last <= now /\ client.last <= client'.last /\ client'.tokens <= Capacity
    BY <1>0, <2>0
  <2>2. client'.tokens <= client.tokens + (client'.last - client.last) * Refill
    <3>1. (client.last - client.last) * Refill = 0
      BY <1>0, BucketAssumption
    <3> QED BY <1>0, <2>0, <3>1
  <2>3. ASSUME NEW i \in 1 .. Len(served)
        PROVE  /\ served[i] <= client'.last
               /\ (Len(served) - i + 1) * Token + client'.tokens
                    <= Capacity + (client'.last - served[i]) * Refill
    <3> DEFINE paid == (Len(served) - i + 1) * Token
               before == (client.last - served[i]) * Refill
               since_ == (client'.last - client.last) * Refill
    <3>1. served[i] \in Nat /\ Len(served) \in Nat /\ i \in Nat
      BY <1>1
    <3>2. served[i] <= client.last /\ paid + client.tokens <= Capacity + before
      BY DEF TargetInv, PaidFor
    <3>3. {client.last, client'.last, client.tokens, client'.tokens} \subseteq Nat
      BY <1>1 DEF ClientState
    <3>4. /\ client'.last - served[i] = (client.last - served[i]) + (client'.last - client.last)
          /\ client.last - served[i] \in Int /\ client'.last - client.last \in Int
      BY <3>1, <3>3
    <3>5. (client'.last - served[i]) * Refill = before + since_
      BY <3>4, Distribute, BucketAssumption
    <3>6. paid \in Int /\ before \in Int /\ since_ \in Int /\ Capacity \in Int
      <4>1. /\ Len(served) - i + 1 \in Int /\ client.last - served[i] \in Int
            /\ client'.last - client.last \in Int /\ Token \in Int /\ Refill \in Int
        BY <3>1, <3>3, BucketAssumption
      <4> QED BY <4>1, ProductOfInts, BucketAssumption
    <3>7. client'.tokens <= client.tokens + since_
      BY <2>2
    <3>8. served[i] <= client'.last
      BY <2>1, <3>1, <3>2, <3>3
    <3> HIDE DEF paid, before, since_
    <3>9. paid + client'.tokens <= Capacity + (before + since_)
      BY <3>2, <3>3, <3>6, <3>7
    <3> QED BY <3>5, <3>8, <3>9 DEF paid
  <2> QED BY <2>1, <2>3 DEF PaidFor
<1> QED BY <1>2, <1>3, <1>4, <1>5 DEF TargetInv

(* A page is served: the token it costs comes out of the refilled bucket.  *)
LEMMA ServedStep ==
  ASSUME TargetInv, kind # "none", ~replaced, kind' = "none", replaced' = FALSE,
         UNCHANGED <<now, asked, resets, since>>,
         served' = Append(served, now), Refilled(client).tokens >= Token,
         client' \in ClientState, client'.requests = client.requests + 1,
         client'.hits = client.hits, client'.violations = client.violations,
         client'.rejections = client.rejections, client'.banned = client.banned,
         client'.last = now, client'.tokens = Refilled(client).tokens - Token
  PROVE  TargetInv'
<1> DEFINE pages == Len(served)
<1>1. client \in ClientState /\ now \in Nat /\ since \in Nat
  BY DEF TargetInv, TargetTypeOK, ClientState
<1>2. served \in Seq(Nat) /\ pages \in Nat /\ \A i \in 1 .. pages : served[i] \in Nat
  <2>1. served \in Seq(Nat)
    BY DEF TargetInv, TargetTypeOK
  <2> QED BY ONLY <2>1
<1>3. /\ client.tokens \in Nat /\ client.last \in Nat /\ client.requests \in Nat
      /\ client.hits \in Nat /\ client.violations \in Nat /\ client.rejections \in Nat
      /\ client'.tokens \in Nat
  BY <1>1 DEF ClientState
<1>4. /\ served' \in Seq(Nat) /\ Len(served') = pages + 1 /\ served'[pages + 1] = now
      /\ \A i \in 1 .. pages : served'[i] = served[i]
  BY <1>1, <1>2
<1>5. /\ Refilled(client).tokens \in Nat /\ Refilled(client).tokens <= Capacity
      /\ Refilled(client).tokens <= client.tokens + (now - client.last) * Refill
      /\ client.last <= now
  BY RefilledFacts DEF TargetInv, PaidFor, ClientState
<1>6. TargetTypeOK'
  BY <1>4 DEF TargetInv, TargetTypeOK, ClientState
<1>7. ResetIsClean'
  <2>1. /\ client.hits + client.violations + client.rejections + pages <= client.requests
        /\ client'.banned <=> (client'.hits > 0 \/ client'.violations >= BanAfter)
    BY DEF TargetInv, ResetIsClean
  <2>2. client'.requests <= since'
    BY <1>1, <1>3 DEF TargetInv, LookedUpSince
  <2> HIDE DEF pages
  <2>3. client'.hits + client'.violations + client'.rejections + (pages + 1)
          <= client'.requests
    <3>1. /\ pages \in Nat /\ client'.requests = client.requests + 1
          /\ client'.hits = client.hits /\ client'.violations = client.violations
          /\ client'.rejections = client.rejections
      BY <1>2
    <3> QED BY ONLY <1>3, <2>1, <3>1
  <2> QED BY <1>4, <2>1, <2>2, <2>3 DEF ResetIsClean
<1>8. ASSUME NEW i \in 1 .. pages
      PROVE  /\ served[i] <= now
             /\ (pages + 1 - i + 1) * Token + client'.tokens
                  <= Capacity + (now - served[i]) * Refill
  <2> DEFINE n      == pages - i + 1
             paid   == n * Token
             before == (client.last - served[i]) * Refill
             earned == (now - client.last) * Refill
  <2>1. served[i] \in Nat /\ i \in Nat /\ n \in Int /\ pages + 1 - i + 1 = n + 1
    BY <1>2
  <2>2. served[i] <= client.last /\ paid + client.tokens <= Capacity + before
    BY DEF TargetInv, PaidFor
  <2> HIDE DEF pages, n
  <2>3. /\ now - served[i] = (client.last - served[i]) + (now - client.last)
        /\ client.last - served[i] \in Int /\ now - client.last \in Int
    <3>1. served[i] \in Nat /\ now \in Nat /\ client.last \in Nat
      BY <1>1, <1>3, <2>1
    <3> QED BY ONLY <3>1
  <2>4. (now - served[i]) * Refill = before + earned
    BY <2>3, Distribute, BucketAssumption
  <2>5. (n + 1) * Token = paid + Token
    <3>1. 1 * Token = Token
      BY BucketAssumption
    <3> QED BY <2>1, <3>1, Distribute, BucketAssumption
  <2>6. paid \in Int /\ before \in Int /\ earned \in Int
    BY <2>1, <2>3, ProductOfInts, BucketAssumption
  <2> HIDE DEF paid, before, earned
  <2>7. Refilled(client).tokens <= client.tokens + earned
    BY <1>5 DEF earned
  <2>8. (paid + Token) + client'.tokens <= Capacity + (before + earned)
    <3>1. /\ client'.tokens = Refilled(client).tokens - Token
          /\ Token \in Nat /\ Capacity \in Nat
      BY BucketAssumption
    <3>2. paid + client.tokens <= Capacity + before
      BY <2>2
    <3> QED BY ONLY <1>3, <1>5, <2>6, <2>7, <3>1, <3>2
  <2>9. served[i] <= now
    BY <1>1, <1>3, <1>5, <2>1, <2>2
  <2> QED BY <2>1, <2>4, <2>5, <2>8, <2>9
<1>9. /\ (pages + 1 - (pages + 1) + 1) * Token + client'.tokens
           <= Capacity + (now - now) * Refill
      /\ pages + 1 - (pages + 1) + 1 = 1
  <2> HIDE DEF pages
  <2>1. pages + 1 - (pages + 1) + 1 = 1 /\ 1 * Token = Token
        /\ (now - now) * Refill = 0
    BY <1>1, <1>2, BucketAssumption
  <2> QED BY <1>3, <1>5, <2>1, BucketAssumption
<1>10. PaidFor'
  <2>1. client'.tokens <= Capacity
    BY <1>3, <1>5, BucketAssumption
  <2>2. ASSUME NEW i \in 1 .. pages + 1
        PROVE  /\ served'[i] <= now
               /\ (pages + 1 - i + 1) * Token + client'.tokens
                    <= Capacity + (now - served'[i]) * Refill
    <3>1. CASE i \in 1 .. pages
      BY <1>4, <1>8, <3>1
    <3>2. CASE i = pages + 1
      BY <1>1, <1>4, <1>9, <3>2
    <3> QED BY <1>2, <3>1, <3>2
  <2> QED BY <1>1, <1>4, <2>1, <2>2 DEF PaidFor
<1>11. ServedWithinBudget'
  <2> SUFFICES ASSUME NEW i \in 1 .. pages + 1, NEW j \in 1 .. pages + 1, i <= j
               PROVE  (j - i + 1) * Token <= Capacity + (served'[j] - served'[i]) * Refill
    BY <1>4 DEF ServedWithinBudget
  <2>1. CASE j \in 1 .. pages
    <3>1. i \in 1 .. pages
      BY <1>2, <2>1
    <3> QED BY <1>4, <2>1, <3>1 DEF TargetInv, ServedWithinBudget
  <2>2. CASE j = pages + 1
    <3> DEFINE paid   == (pages + 1 - i + 1) * Token
               earned == (now - served'[i]) * Refill
    <3>1. paid + client'.tokens <= Capacity + earned
      <4>1. CASE i \in 1 .. pages
        BY <1>4, <1>8, <4>1
      <4>2. CASE i = pages + 1
        BY <1>4, <1>9, <4>2
      <4> QED BY <1>2, <4>1, <4>2
    <3>2. paid \in Int /\ earned \in Int
      <4>1. served'[i] \in Nat /\ pages + 1 - i + 1 \in Int
        BY <1>2, <1>4
      <4>2. now - served'[i] \in Int
        BY <1>1, <4>1
      <4> QED BY <4>1, <4>2, ProductOfInts, BucketAssumption
    <3>3. paid <= Capacity + earned
      <4> HIDE DEF paid, earned
      <4> QED BY <1>3, <3>1, <3>2, BucketAssumption
    <3> QED BY <1>4, <2>2, <3>3
  <2> QED BY <1>2, <2>1, <2>2
<1>12. LookedUpSince'
  BY DEF LookedUpSince
<1> QED BY <1>6, <1>7, <1>10, <1>11, <1>12 DEF TargetInv

(* What each verdict makes of a record, and the count of the request.      *)
Counted(c) == [c EXCEPT !.requests = @ + 1]

LEMMA CountedFacts ==
  ASSUME NEW c \in ClientState
  PROVE  /\ Counted(c) \in ClientState /\ Counted(c).requests = c.requests + 1
         /\ Counted(c).hits = c.hits /\ Counted(c).violations = c.violations
         /\ Counted(c).rejections = c.rejections /\ Counted(c).banned = c.banned
         /\ Counted(c).last = c.last /\ Counted(c).tokens = c.tokens
BY DEF Counted, ClientState

LEMMA BadHeadersFacts ==
  ASSUME NEW c \in ClientState
  PROVE  LET d == BadHeaders(c) IN
         /\ d \in ClientState /\ d.requests = c.requests
         /\ d.hits = c.hits /\ d.violations = c.violations
         /\ d.rejections = c.rejections + 1 /\ d.banned = c.banned
         /\ d.last = c.last /\ d.tokens = c.tokens
BY DEF BadHeaders, ClientState

LEMMA TrappedFacts ==
  ASSUME NEW c \in ClientState
  PROVE  LET d == Trapped(c) IN
         /\ d \in ClientState /\ d.requests = c.requests
         /\ d.hits = c.hits + 1 /\ d.violations = c.violations
         /\ d.rejections = c.rejections /\ d.banned
         /\ d.last = c.last /\ d.tokens = c.tokens
<1> DEFINE n == c.hits + 1
<1>1. n \in Nat
  BY DEF ClientState
<1>2. Trapped(c) = [c EXCEPT !.hits = n, !.banned = TRUE]
  BY DEF Trapped
<1> HIDE DEF n
<1>3. /\ Trapped(c).requests = c.requests
      /\ Trapped(c).hits = n /\ Trapped(c).violations = c.violations
      /\ Trapped(c).rejections = c.rejections /\ Trapped(c).banned
      /\ Trapped(c).last = c.last /\ Trapped(c).tokens = c.tokens
  BY <1>2 DEF ClientState
<1>4. Trapped(c) \in ClientState
  BY <1>1, <1>2 DEF ClientState
<1> QED BY <1>3, <1>4 DEF n

LEMMA ViolatedFacts ==
  ASSUME NEW c \in ClientState
  PROVE  LET d == Violated(c) IN
         /\ d \in ClientState /\ d.requests = c.requests
         /\ d.hits = c.hits /\ d.violations = c.violations + 1
         /\ d.rejections = c.rejections
         /\ d.banned = (c.banned \/ c.violations + 1 >= BanAfter)
         /\ d.last = c.last /\ d.tokens = c.tokens
<1> DEFINE n == c.violations + 1
           b == c.banned \/ n >= BanAfter
<1>1. n \in Nat /\ b \in BOOLEAN
  BY DEF ClientState
<1>2. Violated(c) = [c EXCEPT !.violations = n, !.banned = b]
  BY DEF Violated
<1> HIDE DEF n, b
<1>3. /\ Violated(c).requests = c.requests
      /\ Violated(c).hits = c.hits /\ Violated(c).violations = n
      /\ Violated(c).rejections = c.rejections /\ Violated(c).banned = b
      /\ Violated(c).last = c.last /\ Violated(c).tokens = c.tokens
  BY <1>2 DEF ClientState
<1>4. Violated(c) \in ClientState
  BY <1>1, <1>2 DEF ClientState
<1> QED BY <1>3, <1>4 DEF n, b

LEMMA ServedFacts ==
  ASSUME NEW c \in ClientState, c.tokens >= Token
  PROVE  LET d == Served(c) IN
         /\ d \in ClientState /\ d.requests = c.requests
         /\ d.hits = c.hits /\ d.violations = c.violations
         /\ d.rejections = c.rejections /\ d.banned = c.banned
         /\ d.last = c.last /\ d.tokens = c.tokens - Token
BY BucketAssumption DEF Served, ClientState

LEMMA DefendStep == ASSUME TargetInv, Defend PROVE TargetInv'
<1> DEFINE new == Counted(Decision(client))
           full == Refilled(client)
<1>1. /\ kind # "none" /\ kind' = "none" /\ replaced' = FALSE
      /\ UNCHANGED <<now, asked, resets, since>>
  BY DEF Defend
<1>2. client \in ClientState /\ full \in ClientState
  BY RefilledFacts DEF TargetInv, TargetTypeOK, ClientState
<1>3. client.banned <=> (client.hits > 0 \/ client.violations >= BanAfter)
  BY DEF TargetInv, ResetIsClean
<1>4. CASE replaced
  <2>1. UNCHANGED <<client, served>>
    BY <1>4 DEF Defend
  <2> QED BY <1>1, <2>1 DEF TargetInv, TargetTypeOK, PaidFor, LookedUpSince,
                           ServedWithinBudget, ResetIsClean
<1>5. CASE ~replaced /\ Serves(client)
  <2>1. client' = new /\ served' = Append(served, now)
    BY <1>5 DEF Defend, Counted
  <2>2. Decision(client) = Served(full) /\ full.tokens >= Token
    BY <1>2, <1>5, BucketAssumption DEF Serves, Decision, ClientState
  <2>3. /\ new \in ClientState /\ new.requests = full.requests + 1 /\ new.hits = full.hits
        /\ new.violations = full.violations /\ new.rejections = full.rejections
        /\ new.banned = full.banned /\ new.last = full.last
        /\ new.tokens = full.tokens - Token
    BY <1>2, <2>2, ServedFacts, CountedFacts
  <2> HIDE DEF new, full
  <2>4. /\ full.last = now /\ full.requests = client.requests /\ full.hits = client.hits
        /\ full.violations = client.violations /\ full.rejections = client.rejections
        /\ full.banned = client.banned
    BY RefilledFacts DEF full
  <2>5. /\ client' \in ClientState /\ client'.requests = client.requests + 1
        /\ client'.hits = client.hits /\ client'.violations = client.violations
        /\ client'.rejections = client.rejections /\ client'.banned = client.banned
        /\ client'.last = now /\ client'.tokens = full.tokens - Token
    BY <2>1, <2>3, <2>4
  <2> QED BY <1>1, <1>5, <2>1, <2>2, <2>5, ServedStep DEF full
<1>6. CASE ~replaced /\ ~Serves(client)
  <2>1. client' = new /\ UNCHANGED served
    BY <1>6 DEF Defend, Counted
  <2>2. CASE client.banned
    <3>1. Decision(client) = client
      BY <2>2 DEF Decision
    <3>2. /\ new \in ClientState /\ new.requests = client.requests + 1
          /\ new.hits = client.hits /\ new.violations = client.violations
          /\ new.rejections = client.rejections /\ new.banned = client.banned
          /\ new.last = client.last /\ new.tokens = client.tokens
      BY <1>2, <3>1, CountedFacts
    <3>3. new.hits + new.violations + new.rejections
            <= client.hits + client.violations + client.rejections + 1
      BY <1>2, <3>2 DEF ClientState
    <3> QED BY <1>1, <1>3, <1>6, <2>1, <3>2, <3>3, UnservedStep
  <2>3. CASE ~client.banned /\ kind = "bad headers"
    <3>1. Decision(client) = BadHeaders(client)
      BY <2>3 DEF Decision
    <3>2. /\ new \in ClientState /\ new.requests = client.requests + 1
          /\ new.hits = client.hits /\ new.violations = client.violations
          /\ new.rejections = client.rejections + 1 /\ new.banned = client.banned
          /\ new.last = client.last /\ new.tokens = client.tokens
      BY <1>2, <3>1, BadHeadersFacts, CountedFacts
    <3>3. new.hits + new.violations + new.rejections
            <= client.hits + client.violations + client.rejections + 1
      BY <1>2, <3>2 DEF ClientState
    <3> QED BY <1>1, <1>3, <1>6, <2>1, <3>2, <3>3, UnservedStep
  <2>4. CASE ~client.banned /\ kind = "trap"
    <3>1. Decision(client) = Trapped(client)
      BY <2>4 DEF Decision
    <3>2. /\ new \in ClientState /\ new.requests = client.requests + 1
          /\ new.hits = client.hits + 1 /\ new.violations = client.violations
          /\ new.rejections = client.rejections /\ new.banned
          /\ new.last = client.last /\ new.tokens = client.tokens
      BY <1>2, <3>1, TrappedFacts, CountedFacts
    <3>3. /\ new.hits + new.violations + new.rejections
               <= client.hits + client.violations + client.rejections + 1
          /\ new.hits > 0
      BY <1>2, <3>2 DEF ClientState
    <3> QED BY <1>1, <1>6, <2>1, <3>2, <3>3, UnservedStep
  <2>5. CASE ~client.banned /\ kind = "page"
    <3>1. full.tokens < Token
      BY <1>2, <1>6, <2>5, BucketAssumption DEF Serves, ClientState
    <3>2. Decision(client) = Violated(full)
      BY <2>5, <3>1 DEF Decision
    <3>3. /\ new \in ClientState /\ new.requests = full.requests + 1
          /\ new.hits = full.hits /\ new.violations = full.violations + 1
          /\ new.rejections = full.rejections
          /\ new.banned = (full.banned \/ full.violations + 1 >= BanAfter)
          /\ new.last = full.last /\ new.tokens = full.tokens
      <4> HIDE DEF full
      <4> QED BY <1>2, <3>2, ViolatedFacts, CountedFacts
    <3> HIDE DEF new, full
    <3>4. /\ full.last = now /\ full.requests = client.requests /\ full.hits = client.hits
          /\ full.violations = client.violations /\ full.rejections = client.rejections
          /\ full.banned = client.banned
      BY RefilledFacts DEF full
    <3>5. /\ new.requests = client.requests + 1 /\ new.last = now
          /\ new.tokens = Refilled(client).tokens
      BY <3>3, <3>4 DEF full
    <3>6. /\ new.hits + new.violations + new.rejections
               <= client.hits + client.violations + client.rejections + 1
          /\ new.violations = client.violations + 1 /\ client.violations \in Nat
      BY <1>2, <3>3, <3>4 DEF ClientState
    <3>7. new.banned <=> (new.hits > 0 \/ new.violations >= BanAfter)
      BY <1>3, <2>5, <3>3, <3>4, <3>6, BanAssumption
    <3> QED BY <1>1, <1>6, <2>1, <3>3, <3>5, <3>6, <3>7, UnservedStep
  <2> QED BY <1>1, <2>2, <2>3, <2>4, <2>5 DEF TargetInv, TargetTypeOK, Kinds
<1> QED BY <1>4, <1>5, <1>6

LEMMA LookUpStep == ASSUME TargetInv, LookUp PROVE TargetInv'
<1>1. /\ UNCHANGED <<now, client, replaced, resets, served>> /\ kind' \in Kinds
      /\ asked' = asked + 1 /\ since' = since + 1
  BY DEF LookUp
<1>2. client \in ClientState /\ since \in Nat /\ client.requests <= since
  BY DEF TargetInv, TargetTypeOK, ClientState, ResetIsClean
<1>3. client.requests < since'
  BY <1>1, <1>2 DEF ClientState
<1>4. TargetTypeOK'
  BY <1>1 DEF TargetInv, TargetTypeOK
<1>5. PaidFor' /\ ServedWithinBudget' /\ LookedUpSince'
  BY <1>1, <1>3 DEF TargetInv, PaidFor, ServedWithinBudget, LookedUpSince
<1>6. client.requests <= since'
  BY <1>1, <1>2 DEF ClientState
<1>7. ResetIsClean'
  BY <1>1, <1>6 DEF TargetInv, ResetIsClean
<1> QED BY <1>4, <1>5, <1>7 DEF TargetInv

LEMMA DebugResetStep == ASSUME TargetInv, DebugReset PROVE TargetInv'
<1>1. /\ UNCHANGED <<now, kind, asked>> /\ client' = NewClientState
      /\ resets' = resets + 1 /\ replaced' = (kind # "none") /\ since' = 0
      /\ served' = <<>> /\ now \in Nat
  BY DEF DebugReset, TargetInv, TargetTypeOK
<1>2. served' \in Seq(Nat) /\ Len(served') = 0
  BY <1>1
<1>3. /\ client' \in ClientState /\ client'.tokens = Capacity /\ client'.last = now
      /\ client'.requests = 0 /\ client'.hits = 0 /\ client'.violations = 0
      /\ client'.rejections = 0 /\ ~client'.banned
  BY <1>1, NewClient
<1>4. TargetTypeOK'
  BY <1>1, <1>2, <1>3 DEF TargetInv, TargetTypeOK, ClientState
<1>5. LookedUpSince'
  BY <1>1 DEF LookedUpSince
<1>6. /\ now' = now /\ now \in Nat /\ since' = 0
  BY <1>1
<1>7. PaidFor' /\ ServedWithinBudget' /\ ResetIsClean'
  BY ONLY <1>2, <1>3, <1>6, BucketAssumption, BanAssumption
  DEF PaidFor, ServedWithinBudget, ResetIsClean
<1> QED BY <1>4, <1>5, <1>7 DEF TargetInv

LEMMA TargetTickStep == ASSUME TargetInv, TargetTick PROVE TargetInv'
<1>1. /\ UNCHANGED <<client, kind, replaced, asked, resets, since, served>>
      /\ now' = now + 1
  BY DEF TargetTick
<1>2. client.last \in Nat /\ now \in Nat /\ client.last <= now
  BY DEF TargetInv, TargetTypeOK, PaidFor
<1>3. client.last <= now' /\ now' \in Nat
  BY <1>1, <1>2
<1> QED BY <1>1, <1>3 DEF TargetInv, TargetTypeOK, PaidFor, LookedUpSince,
                          ServedWithinBudget, ResetIsClean

LEMMA TargetNextInv == ASSUME TargetInv, [TargetNext]_targetVars PROVE TargetInv'
<1>1. CASE Over \/ UNCHANGED targetVars
  BY <1>1 DEF Over, targetVars, TargetInv, TargetTypeOK, PaidFor, LookedUpSince,
              ServedWithinBudget, ResetIsClean
<1> QED BY <1>1, LookUpStep, DefendStep, DebugResetStep, TargetTickStep DEF TargetNext

(* A client gets no more pages than a full bucket and the time in between  *)
(* pay for, however its requests are spaced, rejected or reset.            *)
THEOREM TargetBudget == TargetSpec => []ServedWithinBudget
<1>1. TargetInv => ServedWithinBudget
  BY DEF TargetInv
<1> QED BY <1>1, TargetInitInv, TargetNextInv, PTL DEF TargetSpec

(* After a reset, even one between look-up and decision, the counters only *)
(* stand for later requests, and a ban has its reason among them.          *)
THEOREM TargetReset == TargetSpec => []ResetIsClean
<1>1. TargetInv => ResetIsClean
  BY DEF TargetInv
<1> QED BY <1>1, TargetInitInv, TargetNextInv, PTL DEF TargetSpec

-----------------------------------------------------------------------------
(* The fixture server.                                                     *)

(* The requests for a route that are being dropped, or answered.           *)
Where(p, w) == {c \in Clients : conn[c] = w /\ path[c] = p}

HandlerSteps == {"entered", "reading", "totalled", "counted", "failing", "answering"}

LEMMA WhereIsFinite ==
  ASSUME NEW p, NEW w
  PROVE  IsFiniteSet(Where(p, w)) /\ Cardinality(Where(p, w)) \in Nat
BY ClientsAssumption, SmallerSet DEF Where

LEMMA WhereIsFiniteThen ==
  ASSUME NEW p, NEW w
  PROVE  IsFiniteSet(Where(p, w)') /\ Cardinality(Where(p, w)') \in Nat
BY ClientsAssumption, SmallerSet DEF Where

LEMMA HandlingIsFinite == IsFiniteSet(Handling) /\ Cardinality(Handling) \in Nat
BY ClientsAssumption, SmallerSet DEF Handling

LEMMA FixtureInitInv == ASSUME FixtureInit PROVE FixtureInv
<1>1. FixtureTypeOK
  <2>1. (CHOOSE p \in Paths : TRUE) \in Paths
    BY RoutesAssumption
  <2>2. /\ byPath \in [Paths -> Nat] /\ remaining \in [Paths -> Nat]
        /\ failed \in [Paths -> Nat] /\ answered \in [Paths -> Nat]
    BY RoutesAssumption DEF FixtureInit
  <2> QED BY <2>1, <2>2 DEF FixtureInit, FixtureTypeOK
<1>2. Handling = {} /\ \A p : Where(p, "failing") = {} /\ Where(p, "answering") = {}
  BY DEF FixtureInit, Handling, Where
<1>3. GaugeIsExact
  BY <1>2, FS_EmptySet DEF FixtureInit, GaugeIsExact
<1>4. ExactlyTheFirstFail
  <2>1. \A p \in Paths : /\ failed[p] = 0 /\ answered[p] = 0
                         /\ remaining[p] = FailFirst[p] /\ FailFirst[p] \in Nat
    BY RoutesAssumption DEF FixtureInit
  <2>2. \A p : Cardinality(Where(p, "failing")) = 0 /\ Cardinality(Where(p, "answering")) = 0
    BY <1>2, FS_EmptySet
  <2> QED BY <2>1, <2>2 DEF ExactlyTheFirstFail, At, Where
<1> QED BY <1>1, <1>3, <1>4 DEF FixtureInv

(* Steps that neither drop nor answer a request.                           *)
LEMMA SameRoutes ==
  ASSUME FixtureInv, UNCHANGED <<failed, answered, remaining>>,
         \A p : /\ Where(p, "failing")' = Where(p, "failing")
                /\ Where(p, "answering")' = Where(p, "answering")
  PROVE  ExactlyTheFirstFail'
<1>1. \A p : /\ At(p, "failing")' = At(p, "failing")
             /\ At(p, "answering")' = At(p, "answering")
  BY DEF At, Where
<1> QED BY <1>1 DEF FixtureInv, ExactlyTheFirstFail

(* A connection that moves on before its route decides.                    *)
LEMMA MoveOnStep ==
  ASSUME FixtureInv, NEW c \in Clients, NEW w \in HandlerSteps \cup {"backlog", "accepted"},
         conn' = [conn EXCEPT ![c] = w],
         conn[c] \notin {"failing", "answering"}, w \notin {"failing", "answering"},
         \A d \in Clients : d # c => path'[d] = path[d],
         UNCHANGED <<failed, answered, remaining, leaving>>,
         conn[c] \in HandlerSteps <=> w \in HandlerSteps, current' = current
  PROVE  ExactlyTheFirstFail' /\ GaugeIsExact'
<1>1. conn \in [Clients -> {"idle", "backlog", "accepted", "entered", "reading",
                            "totalled", "counted", "failing", "answering"}]
  BY DEF FixtureInv, FixtureTypeOK
<1>2. \A p : /\ Where(p, "failing")' = Where(p, "failing")
             /\ Where(p, "answering")' = Where(p, "answering")
  BY <1>1 DEF Where
<1>3. Handling' = Handling
  BY <1>1 DEF Handling, HandlerSteps
<1>4. GaugeIsExact'
  BY <1>3 DEF FixtureInv, GaugeIsExact
<1> QED BY <1>2, <1>4, SameRoutes

LEMMA ConnectStep == ASSUME FixtureInv, NEW c \in Clients, Connect(c) PROVE FixtureInv'
<1> USE DEF server, gauges, counters, results
<1>1. FixtureTypeOK'
  BY DEF FixtureInv, FixtureTypeOK, Connect
<1>2. \A d \in Clients : d # c => path'[d] = path[d]
  BY DEF FixtureInv, FixtureTypeOK, Connect
<1>3. ExactlyTheFirstFail' /\ GaugeIsExact'
  BY <1>2, MoveOnStep DEF Connect, HandlerSteps
<1> QED BY <1>1, <1>3 DEF FixtureInv

LEMMA EarlyStep ==
  ASSUME FixtureInv, NEW c \in Clients, RecordPeak(c) \/ CountTotal(c) \/ CountPath(c) \/ Accept(c)
  PROVE  FixtureInv'
<1> USE DEF server, gauges, counters, results
<1>1. CASE RecordPeak(c)
  <2>1. Max({peak, mine[c]}) \in Nat
    BY MaxOfTwo DEF FixtureInv, FixtureTypeOK
  <2>2. FixtureTypeOK'
    BY <1>1, <2>1 DEF FixtureInv, FixtureTypeOK, RecordPeak
  <2>3. ExactlyTheFirstFail' /\ GaugeIsExact'
    BY <1>1, MoveOnStep DEF RecordPeak, HandlerSteps
  <2> QED BY <2>2, <2>3 DEF FixtureInv
<1>2. CASE CountTotal(c)
  <2>1. FixtureTypeOK'
    BY <1>2 DEF FixtureInv, FixtureTypeOK, CountTotal
  <2>2. ExactlyTheFirstFail' /\ GaugeIsExact'
    BY <1>2, MoveOnStep DEF CountTotal, HandlerSteps
  <2> QED BY <2>1, <2>2 DEF FixtureInv
<1>3. CASE CountPath(c)
  <2>1. FixtureTypeOK'
    BY <1>3 DEF FixtureInv, FixtureTypeOK, CountPath
  <2>2. ExactlyTheFirstFail' /\ GaugeIsExact'
    BY <1>3, MoveOnStep DEF CountPath, HandlerSteps
  <2> QED BY <2>1, <2>2 DEF FixtureInv
<1>4. CASE Accept(c)
  <2>1. FixtureTypeOK'
    BY <1>4 DEF FixtureInv, FixtureTypeOK, Accept
  <2>2. ExactlyTheFirstFail' /\ GaugeIsExact'
    BY <1>4, MoveOnStep DEF Accept, HandlerSteps
  <2> QED BY <2>1, <2>2 DEF FixtureInv
<1> QED BY <1>1, <1>2, <1>3, <1>4

LEMMA EnterStep == ASSUME FixtureInv, NEW c \in Clients, Enter(c) PROVE FixtureInv'
<1> USE DEF server, gauges, counters, results
<1>1. FixtureTypeOK'
  BY DEF FixtureInv, FixtureTypeOK, Enter
<1>2. \A p : /\ Where(p, "failing")' = Where(p, "failing")
             /\ Where(p, "answering")' = Where(p, "answering")
  BY DEF FixtureInv, FixtureTypeOK, Enter, Where
<1>3. Handling' = Handling \cup {c} /\ c \notin Handling
  BY DEF FixtureInv, FixtureTypeOK, Enter, Handling
<1>4. Cardinality(Handling') = Cardinality(Handling) + 1
  BY <1>3, HandlingIsFinite, FS_AddElement
<1>5. GaugeIsExact'
  BY <1>4, HandlingIsFinite DEF FixtureInv, FixtureTypeOK, GaugeIsExact, Enter
<1> QED BY <1>1, <1>2, <1>5, SameRoutes DEF FixtureInv, Enter

(* The route decides: exactly one more is dropped while failures are left. *)
LEMMA DecideStep == ASSUME FixtureInv, NEW c \in Clients, Decide(c) PROVE FixtureInv'
<1> USE DEF server, gauges, counters, results
<1>0. PICK p \in Paths : p = path[c]
  BY DEF FixtureInv, FixtureTypeOK
<1>1. p \in Paths /\ remaining \in [Paths -> Nat] /\ conn[c] = "counted"
  BY DEF FixtureInv, FixtureTypeOK, Decide
<1>2. conn' \in {[conn EXCEPT ![c] = "failing"], [conn EXCEPT ![c] = "answering"]}
  BY DEF Decide
<1>3. UNCHANGED <<path, failed, answered, current, leaving>>
  BY DEF Decide
<1>4. FixtureTypeOK'
  BY <1>1, <1>2 DEF FixtureInv, FixtureTypeOK, Decide
<1>5. GaugeIsExact'
  <2>1. Handling' = Handling
    BY <1>1, <1>2 DEF FixtureInv, FixtureTypeOK, Handling
  <2> QED BY <1>3, <2>1 DEF FixtureInv, GaugeIsExact
<1>6. \A q \in Paths, w \in {"failing", "answering"} :
        q # p => Where(q, w)' = Where(q, w)
  BY <1>0, <1>1, <1>2, <1>3 DEF FixtureInv, FixtureTypeOK, Where
<1>7. \A q \in Paths : q # p => remaining'[q] = remaining[q]
  BY <1>0, <1>1 DEF Decide
<1>8. ExactlyTheFirstFail'
  <2> SUFFICES ASSUME NEW q \in Paths
               PROVE  /\ failed[q] + Cardinality(Where(q, "failing")') + remaining'[q]
                           = FailFirst[q]
                      /\ answered[q] + Cardinality(Where(q, "answering")') > 0
                           => remaining'[q] = 0
    BY <1>3 DEF ExactlyTheFirstFail, At, Where
  <2>1. /\ failed[q] + Cardinality(Where(q, "failing")) + remaining[q] = FailFirst[q]
        /\ answered[q] + Cardinality(Where(q, "answering")) > 0 => remaining[q] = 0
    BY DEF FixtureInv, ExactlyTheFirstFail, At, Where
  <2>2. CASE q # p
    BY <1>6, <1>7, <2>1, <2>2
  <2>3. CASE /\ q = p /\ remaining[p] > 0
             /\ remaining' = [remaining EXCEPT ![p] = @ - 1]
             /\ conn' = [conn EXCEPT ![c] = "failing"]
    <3>1. /\ Where(p, "failing")' = Where(p, "failing") \cup {c}
          /\ c \notin Where(p, "failing")
          /\ Where(p, "answering")' = Where(p, "answering")
      BY <1>0, <1>1, <1>3, <2>3 DEF FixtureInv, FixtureTypeOK, Where
    <3>2. Cardinality(Where(p, "failing")') = Cardinality(Where(p, "failing")) + 1
      BY <3>1, WhereIsFinite, FS_AddElement
    <3>3. failed[p] \in Nat /\ answered[p] \in Nat /\ remaining[p] \in Nat
          /\ remaining'[p] = remaining[p] - 1
      BY <1>1, <2>3 DEF FixtureInv, FixtureTypeOK
    <3>4. Cardinality(Where(p, "failing")) \in Nat /\ Cardinality(Where(p, "answering")) \in Nat
      BY WhereIsFinite
    <3> QED BY <2>1, <2>3, <3>1, <3>2, <3>3, <3>4
  <2>4. CASE /\ q = p /\ remaining[p] = 0
             /\ conn' = [conn EXCEPT ![c] = "answering"]
             /\ UNCHANGED remaining
    <3>1. Where(p, "failing")' = Where(p, "failing")
      BY <1>1, <1>3, <2>4 DEF FixtureInv, FixtureTypeOK, Where
    <3> QED BY <2>1, <2>4, <3>1
  <2> QED BY <1>0, <2>2, <2>3, <2>4 DEF Decide
<1> QED BY <1>4, <1>5, <1>8 DEF FixtureInv

(* The connection is closed: dropped, answered, or before it asked.        *)
LEMMA CloseStep ==
  ASSUME FixtureInv, NEW c \in Clients, Close(c), conn[c] \in HandlerSteps
  PROVE  GaugeIsExact' /\ (results' \in ([Paths -> Nat] \X [Paths -> Nat]) => FixtureTypeOK')
<1> USE DEF server, gauges, counters, results
<1>1. Handling' = Handling \ {c} /\ c \in Handling
  BY DEF FixtureInv, FixtureTypeOK, Close, Handling, HandlerSteps
<1>2. Cardinality(Handling') = Cardinality(Handling) - 1
  BY <1>1, HandlingIsFinite, FS_RemoveElement
<1>3. GaugeIsExact'
  BY <1>2, HandlingIsFinite DEF FixtureInv, FixtureTypeOK, GaugeIsExact, Close
<1>4. (failed' \in [Paths -> Nat] /\ answered' \in [Paths -> Nat]) => FixtureTypeOK'
  BY DEF FixtureInv, FixtureTypeOK, Close
<1> QED BY <1>3, <1>4

LEMMA FailStep == ASSUME FixtureInv, NEW c \in Clients, Fail(c) PROVE FixtureInv'
<1> USE DEF server, gauges, counters, results
<1>0. PICK p \in Paths : p = path[c]
  BY DEF FixtureInv, FixtureTypeOK
<1>1. /\ conn[c] = "failing" /\ Close(c) /\ UNCHANGED <<path, remaining, answered>>
      /\ failed' = [failed EXCEPT ![p] = @ + 1] /\ conn' = [conn EXCEPT ![c] = "idle"]
  BY <1>0 DEF Fail, Close
<1>2. p \in Paths /\ {failed, answered, remaining} \subseteq [Paths -> Nat]
  BY DEF FixtureInv, FixtureTypeOK
<1>3. failed' \in [Paths -> Nat] /\ answered' \in [Paths -> Nat]
  BY <1>1, <1>2
<1>4. FixtureTypeOK' /\ GaugeIsExact'
  BY <1>1, <1>3, CloseStep DEF HandlerSteps
<1>5. /\ Where(p, "failing")' = Where(p, "failing") \ {c} /\ c \in Where(p, "failing")
      /\ \A q : q # p => Where(q, "failing")' = Where(q, "failing")
      /\ \A q : Where(q, "answering")' = Where(q, "answering")
  BY <1>0, <1>1 DEF FixtureInv, FixtureTypeOK, Where
<1>6. Cardinality(Where(p, "failing")') = Cardinality(Where(p, "failing")) - 1
  BY <1>5, WhereIsFinite, FS_RemoveElement
<1>7. ASSUME NEW q \in Paths
      PROVE  failed'[q] + Cardinality(Where(q, "failing")')
               = failed[q] + Cardinality(Where(q, "failing"))
  <2>1. CASE q = p
    <3>1. failed'[p] = failed[p] + 1 /\ failed[p] \in Nat
          /\ Cardinality(Where(p, "failing")) \in Nat
      BY <1>1, <1>2, WhereIsFinite
    <3> QED BY <1>6, <2>1, <3>1
  <2>2. CASE q # p
    BY <1>1, <1>2, <1>5, <2>2
  <2> QED BY <2>1, <2>2
<1>8. ExactlyTheFirstFail'
  <2> SUFFICES ASSUME NEW q \in Paths
               PROVE  /\ failed'[q] + Cardinality(Where(q, "failing")') + remaining[q]
                           = FailFirst[q]
                      /\ answered[q] + Cardinality(Where(q, "answering")) > 0
                           => remaining[q] = 0
    BY <1>1, <1>5 DEF ExactlyTheFirstFail, At, Where
  <2>1. /\ failed[q] + Cardinality(Where(q, "failing")) + remaining[q] = FailFirst[q]
        /\ answered[q] + Cardinality(Where(q, "answering")) > 0 => remaining[q] = 0
    BY DEF FixtureInv, ExactlyTheFirstFail, At, Where
  <2> QED BY <1>7, <2>1
<1> QED BY <1>4, <1>8 DEF FixtureInv

LEMMA RespondStep == ASSUME FixtureInv, NEW c \in Clients, Respond(c) PROVE FixtureInv'
<1> USE DEF server, gauges, counters, results
<1>0. PICK p \in Paths : p = path[c]
  BY DEF FixtureInv, FixtureTypeOK
<1>1. /\ conn[c] = "answering" /\ Close(c) /\ UNCHANGED <<path, remaining, failed>>
      /\ answered' = [answered EXCEPT ![p] = @ + 1] /\ conn' = [conn EXCEPT ![c] = "idle"]
  BY <1>0 DEF Respond, Close
<1>2. p \in Paths /\ {failed, answered, remaining} \subseteq [Paths -> Nat]
  BY DEF FixtureInv, FixtureTypeOK
<1>3. failed' \in [Paths -> Nat] /\ answered' \in [Paths -> Nat]
  BY <1>1, <1>2
<1>4. FixtureTypeOK' /\ GaugeIsExact'
  BY <1>1, <1>3, CloseStep DEF HandlerSteps
<1>5. /\ c \in Where(p, "answering")
      /\ \A q : q # p => Where(q, "answering")' = Where(q, "answering")
      /\ \A q : Where(q, "failing")' = Where(q, "failing")
  BY <1>0, <1>1 DEF FixtureInv, FixtureTypeOK, Where
<1>6. remaining[p] = 0
  <2>1. Cardinality(Where(p, "answering")) > 0
    BY <1>5, WhereIsFinite, FS_EmptySet
  <2>2. answered[p] + Cardinality(Where(p, "answering")) > 0
    BY <1>2, <2>1, WhereIsFinite
  <2> QED BY <1>2, <2>2 DEF FixtureInv, ExactlyTheFirstFail, At, Where
<1>7. \A q \in Paths : q # p => answered'[q] = answered[q]
  BY <1>1, <1>2
<1>8. ExactlyTheFirstFail'
  <2> SUFFICES ASSUME NEW q \in Paths
               PROVE  /\ failed[q] + Cardinality(Where(q, "failing")) + remaining[q]
                           = FailFirst[q]
                      /\ answered'[q] + Cardinality(Where(q, "answering")') > 0
                           => remaining[q] = 0
    BY <1>1, <1>5 DEF ExactlyTheFirstFail, At, Where
  <2>1. /\ failed[q] + Cardinality(Where(q, "failing")) + remaining[q] = FailFirst[q]
        /\ answered[q] + Cardinality(Where(q, "answering")) > 0 => remaining[q] = 0
    BY DEF FixtureInv, ExactlyTheFirstFail, At, Where
  <2> QED BY <1>5, <1>6, <1>7, <2>1
<1> QED BY <1>4, <1>8 DEF FixtureInv

LEMMA NoRequestStep == ASSUME FixtureInv, NEW c \in Clients, NoRequest(c) PROVE FixtureInv'
<1> USE DEF server, gauges, counters, results
<1>1. conn[c] = "reading" /\ Close(c) /\ UNCHANGED <<failed, answered>>
  BY DEF NoRequest
<1>2. failed' \in [Paths -> Nat] /\ answered' \in [Paths -> Nat]
  BY <1>1 DEF FixtureInv, FixtureTypeOK
<1>3. FixtureTypeOK' /\ GaugeIsExact'
  BY <1>1, <1>2, CloseStep DEF HandlerSteps
<1>4. \A p : /\ Where(p, "failing")' = Where(p, "failing")
             /\ Where(p, "answering")' = Where(p, "answering")
  BY <1>1 DEF FixtureInv, FixtureTypeOK, Close, Where
<1> QED BY <1>1, <1>3, <1>4, SameRoutes DEF FixtureInv, Close

(* The steps that belong to no connection.                                 *)
LEMMA ServerStep ==
  ASSUME FixtureInv, CheckFlag \/ AcceptNothing \/ CountOut \/ DropServer \/ Join
  PROVE  FixtureInv'
<1> USE DEF server, gauges, counters, results
<1>1. UNCHANGED <<failed, answered, remaining, path>>
  BY DEF CheckFlag, AcceptNothing, CountOut, DropServer, Join
<1>2. \/ conn' = conn
      \/ conn' = [c \in Clients |-> IF shutdown /\ conn[c] = "backlog" THEN "idle" ELSE conn[c]]
  BY DEF CheckFlag, AcceptNothing, CountOut, DropServer, Join
<1>3. Handling' = Handling
  BY <1>2 DEF Handling
<1>4. \A p : /\ Where(p, "failing")' = Where(p, "failing")
             /\ Where(p, "answering")' = Where(p, "answering")
  BY <1>1, <1>2 DEF Where
<1>5. GaugeIsExact'
  BY <1>3, HandlingIsFinite
  DEF FixtureInv, FixtureTypeOK, GaugeIsExact, CheckFlag, AcceptNothing, CountOut, DropServer, Join
<1>6. CASE CountOut
  <2>1. current - 1 \in Nat /\ leaving - 1 \in Nat
    BY <1>6, HandlingIsFinite DEF FixtureInv, FixtureTypeOK, GaugeIsExact, CountOut
  <2>2. FixtureTypeOK'
    BY <1>6, <2>1 DEF FixtureInv, FixtureTypeOK, CountOut
  <2> QED BY <1>1, <1>4, <1>5, <2>2, SameRoutes DEF FixtureInv
<1>7. CASE CheckFlag \/ AcceptNothing \/ DropServer \/ Join
  <2>1. FixtureTypeOK'
    BY <1>7 DEF FixtureInv, FixtureTypeOK, CheckFlag, AcceptNothing, DropServer, Join
  <2> QED BY <1>1, <1>4, <1>5, <2>1, SameRoutes DEF FixtureInv
<1> QED BY <1>6, <1>7

LEMMA FixtureNextInv == ASSUME FixtureInv, [FixtureNext]_fixtureVars PROVE FixtureInv'
<1>1. CASE Dropped \/ UNCHANGED fixtureVars
  BY <1>1 DEF Dropped, fixtureVars, server, gauges, counters, results, FixtureInv,
              FixtureTypeOK, GaugeIsExact, Handling, ExactlyTheFirstFail, At
<1> QED BY <1>1, ServerStep, ConnectStep, EarlyStep, EnterStep, DecideStep, FailStep,
           RespondStep, NoRequestStep DEF FixtureNext, AcceptLoop, Handler

(* A route drops exactly its first fail_first_n requests, however many     *)
(* threads serve it at once.                                               *)
THEOREM FixtureFailures == FixtureSpec => []ExactlyTheFirstFail
<1>1. FixtureInv => ExactlyTheFirstFail
  BY DEF FixtureInv
<1> QED BY <1>1, FixtureInitInv, FixtureNextInv, PTL DEF FixtureSpec

(* The gauge counts the handlers that have not counted themselves out.     *)
THEOREM FixtureGauge == FixtureSpec => []GaugeIsExact
<1>1. FixtureInv => GaugeIsExact
  BY DEF FixtureInv
<1> QED BY <1>1, FixtureInitInv, FixtureNextInv, PTL DEF FixtureSpec

=============================================================================
