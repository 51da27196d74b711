---------------------------- MODULE FixtureServer -----------------------------
(***************************************************************************)
(* The blocking fixture server of the Rust track,                          *)
(* 18-rust-track/harness/src/fixture_server.rs: an accept loop that polls  *)
(* a shutdown flag, a detached thread per connection, counters the tests   *)
(* grade by, and routes that drop their first connections.  Its clients    *)
(* are workers that send one request at a time.  The tokio server beside   *)
(* it (async_fixture_server.rs) takes the same steps per connection.       *)
(***************************************************************************)
EXTENDS Naturals, FiniteSets, FiniteSetsExt

CONSTANTS
  Clients,      \* workers, each waiting for an answer before its next request
  Paths,
  FailFirst,    \* FailFirst[p]: fail_first_n of the route
  MaxRequests   \* bound: requests sent altogether

ASSUME ClientsAssumption == IsFiniteSet(Clients)
ASSUME RoutesAssumption  == Paths # {} /\ FailFirst \in [Paths -> Nat]

VARIABLES
  loop,       \* accept thread: "checking", "accepting" or "stopped"
  shutdown,   \* the flag
  owner,      \* the FixtureServer: "alive", "dropping" or "dropped"
  conn,       \* conn[c]: where c's request is
  path,       \* path[c]: what it asks for
  mine,       \* mine[c]: current, as c's handler thread got it
  current,    \* current_concurrency
  peak,       \* max_concurrency
  leaving,    \* handlers that have closed their connection, not yet counted out
  total,      \* total_requests
  byPath,     \* requests_by_path
  remaining,  \* remaining_failures
  sent,       \* requests the clients have sent
  failed, answered   \* per path, connections dropped and requests answered

server   == <<loop, shutdown, owner>>
gauges   == <<mine, current, peak, leaving>>
counters == <<total, byPath>>
results  == <<failed, answered>>
fixtureVars == <<server, conn, path, gauges, counters, remaining, sent, results>>

FixtureInit == /\ loop = "checking" /\ shutdown = FALSE /\ owner = "alive"
               /\ conn = [c \in Clients |-> "idle"]
               /\ path = [c \in Clients |-> CHOOSE p \in Paths : TRUE]
               /\ mine = [c \in Clients |-> 0]
               /\ current = 0 /\ peak = 0 /\ leaving = 0 /\ total = 0 /\ sent = 0
               /\ remaining = FailFirst
               /\ byPath = [p \in Paths |-> 0]
               /\ failed = byPath /\ answered = byPath

-----------------------------------------------------------------------------
(* A client connects, or is refused when the listener is closed.           *)
Connect(c) ==
    /\ conn[c] = "idle" /\ sent < MaxRequests /\ loop # "stopped"
    /\ \E p \in Paths : path' = [path EXCEPT ![c] = p]
    /\ conn' = [conn EXCEPT ![c] = "backlog"]
    /\ sent' = sent + 1
    /\ UNCHANGED <<server, gauges, counters, remaining, results>>

(* accept_loop: the flag is read once for each accept.                     *)
CheckFlag ==
    /\ loop = "checking"
    /\ loop' = IF shutdown THEN "stopped" ELSE "accepting"
    /\ conn' = [c \in Clients |-> IF shutdown /\ conn[c] = "backlog"
                                  THEN "idle" ELSE conn[c]]
    /\ UNCHANGED <<shutdown, owner, path, gauges, counters, remaining, sent, results>>

Accept(c) ==
    /\ loop = "accepting" /\ conn[c] = "backlog"
    /\ loop' = "checking"
    /\ conn' = [conn EXCEPT ![c] = "accepted"]
    /\ UNCHANGED <<shutdown, owner, path, gauges, counters, remaining, sent, results>>

(* Mutant: the listener is left blocking.                                  *)
AcceptBlocks == loop = "accepting" /\ UNCHANGED fixtureVars

(* WouldBlock: five milliseconds later the flag is read again.             *)
AcceptNothing ==
    /\ loop = "accepting" /\ \A c \in Clients : conn[c] # "backlog"
    /\ loop' = "checking"
    /\ UNCHANGED <<shutdown, owner, conn, path, gauges, counters, remaining,
                   sent, results>>

-----------------------------------------------------------------------------
(* handle_connection: fetch_add, then fetch_max with what it returned.     *)
Enter(c) ==
    /\ conn[c] = "accepted"
    /\ conn' = [conn EXCEPT ![c] = "entered"]
    /\ current' = current + 1
    /\ mine' = [mine EXCEPT ![c] = current + 1]
    /\ UNCHANGED <<server, path, peak, leaving, counters, remaining, sent, results>>

RecordPeak(c) ==
    /\ conn[c] = "entered"
    /\ conn' = [conn EXCEPT ![c] = "reading"]
    /\ peak' = Max({peak, mine[c]})
    /\ UNCHANGED <<server, path, mine, current, leaving, counters, remaining,
                   sent, results>>

(* serve_one_request: two counters, one after the other.                   *)
CountTotal(c) ==
    /\ conn[c] = "reading"
    /\ conn' = [conn EXCEPT ![c] = "totalled"]
    /\ total' = total + 1
    /\ UNCHANGED <<server, path, gauges, byPath, remaining, sent, results>>

CountPath(c) ==
    /\ conn[c] = "totalled"
    /\ conn' = [conn EXCEPT ![c] = "counted"]
    /\ byPath' = [byPath EXCEPT ![path[c]] = @ + 1]
    /\ UNCHANGED <<server, path, gauges, total, remaining, sent, results>>

(* Mutant: the failures left are read before the lock is taken.            *)
DecideUnlocked(c) ==
    /\ conn[c] = "counted"
    /\ \E left \in {remaining[path[c]], FailFirst[path[c]]} :
         IF left > 0
         THEN /\ remaining' = [remaining EXCEPT ![path[c]] = left - 1]
              /\ conn' = [conn EXCEPT ![c] = "failing"]
         ELSE /\ conn' = [conn EXCEPT ![c] = "answering"]
              /\ UNCHANGED remaining
    /\ UNCHANGED <<server, path, gauges, counters, sent, results>>

(* A failure left for the path is used up, or the route will answer.       *)
Decide(c) ==
    /\ conn[c] = "counted"
    /\ LET p == path[c] IN
       \/ /\ remaining[p] > 0
          /\ remaining' = [remaining EXCEPT ![p] = @ - 1]
          /\ conn' = [conn EXCEPT ![c] = "failing"]
       \/ /\ remaining[p] = 0
          /\ conn' = [conn EXCEPT ![c] = "answering"]
          /\ UNCHANGED remaining
    /\ UNCHANGED <<server, path, gauges, counters, sent, results>>

(* The connection is shut down: the client is free to send its next        *)
(* request while the handler has yet to count itself out.                  *)
Close(c) == /\ conn' = [conn EXCEPT ![c] = "idle"]
            /\ leaving' = leaving + 1
            /\ UNCHANGED <<server, path, mine, current, peak, counters, remaining, sent>>

Fail(c) == /\ conn[c] = "failing"
           /\ failed' = [failed EXCEPT ![path[c]] = @ + 1]
           /\ Close(c) /\ UNCHANGED answered

(* The route's delay is over.                                              *)
Respond(c) == /\ conn[c] = "answering"
              /\ answered' = [answered EXCEPT ![path[c]] = @ + 1]
              /\ Close(c) /\ UNCHANGED failed

(* The client is gone before it has sent a line.                           *)
NoRequest(c) ==
    /\ conn[c] = "reading"
    /\ Close(c) /\ UNCHANGED results

(* fetch_sub, the last a handler does.                                     *)
CountOut ==
    /\ leaving > 0
    /\ leaving' = leaving - 1 /\ current' = current - 1
    /\ UNCHANGED <<server, conn, path, mine, peak, counters, remaining, sent, results>>

-----------------------------------------------------------------------------
(* Drop: set the flag, join the accept thread; handlers are detached.      *)
DropServer ==
    /\ owner = "alive"
    /\ owner' = "dropping" /\ shutdown' = TRUE
    /\ UNCHANGED <<loop, conn, path, gauges, counters, remaining, sent, results>>

Join ==
    /\ owner = "dropping" /\ loop = "stopped"
    /\ owner' = "dropped"
    /\ UNCHANGED <<loop, shutdown, conn, path, gauges, counters, remaining, sent,
                   results>>

AcceptLoop == CheckFlag \/ AcceptNothing \/ \E c \in Clients : Accept(c)
Handler(c) == \/ Enter(c) \/ RecordPeak(c) \/ CountTotal(c) \/ CountPath(c)
              \/ Decide(c) \/ Fail(c) \/ Respond(c)
Dropped    == /\ owner = "dropped" /\ leaving = 0 /\ UNCHANGED fixtureVars
              /\ \A c \in Clients : conn[c] = "idle"

FixtureNext == \/ AcceptLoop \/ CountOut \/ DropServer \/ Join \/ Dropped
               \/ \E c \in Clients : Connect(c) \/ Handler(c) \/ NoRequest(c)

FixtureSpec == FixtureInit /\ [][FixtureNext]_fixtureVars

(* The accept thread and the dropping thread run.                          *)
FixtureFairness == WF_fixtureVars(AcceptLoop) /\ WF_fixtureVars(Join)

FixtureFairSpec == FixtureSpec /\ FixtureFairness

-----------------------------------------------------------------------------
(* Types of the variables.                                                 *)
FixtureTypeOK ==
    /\ loop \in {"checking", "accepting", "stopped"}
    /\ shutdown \in BOOLEAN /\ owner \in {"alive", "dropping", "dropped"}
    /\ conn \in [Clients -> {"idle", "backlog", "accepted", "entered", "reading",
                             "totalled", "counted", "failing", "answering"}]
    /\ path \in [Clients -> Paths] /\ mine \in [Clients -> Nat]
    /\ {current, peak, leaving, total, sent} \subseteq Nat
    /\ {byPath, remaining, failed, answered} \subseteq [Paths -> Nat]

At(p, where) == Cardinality({c \in Clients : conn[c] = where /\ path[c] = p})

(* A route drops exactly its first fail_first_n requests, however many     *)
(* threads ask it at once: none is answered before, none dropped after.    *)
ExactlyTheFirstFail ==
    \A p \in Paths :
        /\ failed[p] + At(p, "failing") + remaining[p] = FailFirst[p]
        /\ answered[p] + At(p, "answering") > 0 => remaining[p] = 0

Handling == {c \in Clients : conn[c] \in {"entered", "reading", "totalled", "counted",
                                           "failing", "answering"}}

(* Every handler counts itself out once, so the gauge returns to zero.     *)
GaugeIsExact == current = Cardinality(Handling) + leaving

FixtureInv == FixtureTypeOK /\ GaugeIsExact /\ ExactlyTheFirstFail

(* Dropping the server returns, busy clients or none.                      *)
DropReturns == (owner = "dropping") ~> (owner = "dropped")

(* What concurrency_cap.rs:84 grades by: workers that send one request at  *)
(* a time, and wait for its answer, are never seen to overlap beyond their *)
(* number.                                                                 *)
PeakIsWorkers == total = sent => peak <= Cardinality(Clients)

=============================================================================
