-------------------------------- MODULE Peer ----------------------------------
(***************************************************************************)
(* The mock peer of the concurrency module,                                *)
(* 11-python-concurrency/harness/peer.py: an aiohttp handler that gates    *)
(* its callers by concurrency and by rate before it sleeps and answers.    *)
(* A handler runs without interruption up to its sleep, so a request is    *)
(* admitted or rejected in one step; it may be cancelled while it sleeps.  *)
(* A request arrives once: the deque of arrival times is the set of the    *)
(* requests whose times are in it.                                         *)
(***************************************************************************)
EXTENDS Naturals, FiniteSets, FiniteSetsExt

CONSTANTS
  Requests,
  MaxConcurrency,   \* max_concurrency
  Rate,             \* rate_per_sec
  Window,           \* the trailing second, in ticks of the clock
  PeerTicks         \* bound: ticks

ASSUME RequestsAssumption == IsFiniteSet(Requests)
ASSUME GateAssumption     == {MaxConcurrency, Rate, Window} \subseteq Nat

VARIABLES
  time,         \* time.monotonic()
  request,      \* request[r]: what has become of it
  inFlight,     \* in_flight
  maxObserved,  \* stats.max_observed_concurrency
  arrivals,     \* the requests whose arrival times are kept
  arrivedAt     \* arrivedAt[r]: when r came to the rate check, once it did

peerVars == <<time, request, inFlight, maxObserved, arrivals, arrivedAt>>

PeerInit == /\ time = 0 /\ inFlight = 0 /\ maxObserved = 0 /\ arrivals = {}
            /\ request = [r \in Requests |-> "new"]
            /\ arrivedAt = [r \in Requests |-> 0]

(* The concurrency gate: rejected before anything is counted.              *)
Throttle(r) == /\ request[r] = "new" /\ inFlight + 1 > MaxConcurrency
               /\ request' = [request EXCEPT ![r] = "throttled"]
               /\ UNCHANGED <<time, inFlight, maxObserved, arrivals, arrivedAt>>

(* Mutant: an arrival exactly one window old is forgotten.                 *)
RecentExclusive == {r \in arrivals : arrivedAt[r] + Window > time}

(* What is left of arrivals when those before the cutoff are dropped.      *)
Recent == {r \in arrivals : arrivedAt[r] + Window >= time}

Passes(r) == /\ request[r] = "new" /\ inFlight + 1 <= MaxConcurrency
             /\ maxObserved' = Max({maxObserved, inFlight + 1})
             /\ arrivals' = Recent \cup {r}
             /\ arrivedAt' = [arrivedAt EXCEPT ![r] = time]

(* Too many arrivals in the window: the finally gives the place back.      *)
RateLimit(r) == /\ Passes(r) /\ Cardinality(Recent) + 1 > Rate
                /\ request' = [request EXCEPT ![r] = "throttled"]
                /\ UNCHANGED <<time, inFlight>>

Admit(r) == /\ Passes(r) /\ Cardinality(Recent) + 1 <= Rate
            /\ inFlight' = inFlight + 1
            /\ request' = [request EXCEPT ![r] = "sleeping"]
            /\ UNCHANGED time

(* Mutant: no finally, so a cancelled handler keeps its place.             *)
WakeNoFinally(r) ==
    /\ request[r] = "sleeping"
    /\ \/ /\ request' = [request EXCEPT ![r] = "ok"]
          /\ inFlight' = inFlight - 1
       \/ /\ request' = [request EXCEPT ![r] = "cancelled"]
          /\ UNCHANGED inFlight
    /\ UNCHANGED <<time, maxObserved, arrivals, arrivedAt>>

(* Answered with 200 or 500, or cancelled: the finally runs.               *)
Wake(r) == /\ request[r] = "sleeping"
           /\ \E end \in {"ok", "error", "cancelled"} :
                request' = [request EXCEPT ![r] = end]
           /\ inFlight' = inFlight - 1
           /\ UNCHANGED <<time, maxObserved, arrivals, arrivedAt>>

PeerTick == /\ time < PeerTicks
            /\ time' = time + 1
            /\ UNCHANGED <<request, inFlight, maxObserved, arrivals, arrivedAt>>

Quiet == /\ \A r \in Requests : request[r] \notin {"new", "sleeping"}
         /\ UNCHANGED peerVars

PeerNext == \/ PeerTick \/ Quiet
            \/ \E r \in Requests : Throttle(r) \/ RateLimit(r) \/ Admit(r) \/ Wake(r)

PeerSpec == PeerInit /\ [][PeerNext]_peerVars

-----------------------------------------------------------------------------
Sleeping == {r \in Requests : request[r] = "sleeping"}
Let      == {r \in Requests : request[r] \notin {"new", "throttled"}}

(* Types of the variables.                                                 *)
PeerTypeOK ==
    /\ {time, inFlight, maxObserved} \subseteq Nat /\ arrivals \subseteq Requests
    /\ request \in [Requests -> {"new", "throttled", "sleeping", "ok", "error",
                                 "cancelled"}]
    /\ arrivedAt \in [Requests -> Nat]

(* Whichever way handlers end, in_flight counts those that sleep, and the  *)
(* peak the tests grade by never passes the cap.                           *)
GateHolds == /\ inFlight = Cardinality(Sleeping)
             /\ inFlight <= maxObserved /\ maxObserved <= MaxConcurrency

(* No window of a second, both ends included, holds more than rate_per_sec *)
(* requests that were let through.                                         *)
WindowHolds == \A t \in 0 .. time :
    Cardinality({r \in Let : arrivedAt[r] \in t .. t + Window}) <= Rate

(* Why: nothing has arrived after now, and who was let through within the  *)
(* last window is still among the arrivals.                                *)
LetAreRecent ==
    \A r \in Let : /\ arrivedAt[r] <= time
                   /\ arrivedAt[r] + Window >= time => r \in arrivals

PeerInv == PeerTypeOK /\ GateHolds /\ LetAreRecent /\ WindowHolds

(* peer.py:54-57: a request rejected with 429 never increments in-flight,  *)
(* so the peak is not moved by one.                                        *)
RejectedLeavesPeak ==
    [][\A r \in Requests : request'[r] # request[r] /\ request'[r] = "throttled"
                           => maxObserved' = maxObserved]_peerVars

=============================================================================
