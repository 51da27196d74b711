----------------------------- MODULE AppServer ------------------------------
(***************************************************************************)
(* The life of the Kubernetes fixture app, 20-kubernetes/app/app.py, from  *)
(* boot to exit: main binds the socket, installs the SIGTERM handler and   *)
(* runs serve_forever; each connection gets a daemon handler thread that   *)
(* counts itself in inflight; SIGTERM starts a daemon drain thread, which  *)
(* stops serve_forever through a third thread and leaves with os._exit     *)
(* when inflight is 0 or TERM_GRACE_S has passed.  When serve_forever      *)
(* returns so does main, and the interpreter exits without waiting for     *)
(* daemon threads.                                                         *)
(***************************************************************************)
EXTENDS Naturals, FiniteSets

CONSTANT Requests     \* connections clients will open

ASSUME RequestsAssumption == IsFiniteSet(Requests)

VARIABLES
  main,          \* main thread: "boot", "bound", "armed" (handler installed),
                 \* "serving", "accepting", "returned"
  termIgnore,    \* the TERM_IGNORE knob
  sigterm,       \* "none", "pending", "ignored" or "handled"
  shuttingDown,  \* shutting_down
  owed,          \* requests in inflight when shutting_down was set
  stopRequest,   \* the server's __shutdown_request flag
  drain,         \* drain thread: "none", "started", "waiting", "leaving"
  late,          \* the drain thread's deadline has passed
  req,           \* req[r]: where connection r is
  inflight,      \* inflight
  exitBy         \* "none" while the process lives, else what ended it

term   == <<termIgnore, sigterm, shuttingDown, owed>>
stop   == <<stopRequest, drain, late>>
conns  == <<req, inflight>>
vars   == <<main, term, stop, conns, exitBy>>

Up == exitBy = "none"

(* A handler thread is between the two updates of inflight.                *)
InHandler == {r \in Requests : req[r] \in {"counted", "answered"}}

Init ==
    /\ main         = "boot"
    /\ termIgnore \in BOOLEAN
    /\ sigterm      = "none"
    /\ shuttingDown = FALSE
    /\ owed         = {}
    /\ stopRequest  = FALSE
    /\ drain        = "none"
    /\ late         = FALSE
    /\ req          = [r \in Requests |-> "new"]
    /\ inflight     = 0
    /\ exitBy       = "none"

-----------------------------------------------------------------------------
(* The main thread.                                                        *)
MainStep(from, to) == /\ Up /\ main = from
                      /\ main' = to
                      /\ UNCHANGED <<term, stop, conns, exitBy>>

(* The process ends: connections it has not answered are cut.              *)
Exit(cause) ==
    /\ Up
    /\ exitBy' = cause
    /\ req' = [r \in Requests |->
                 IF req[r] \in {"backlog", "accepted", "counted"}
                 THEN "cut" ELSE req[r]]
    /\ UNCHANGED <<main, term, stop, inflight>>

(* check_required_env or maybe_crash_on_start.                             *)
BootFails == main = "boot" /\ Exit("boot")

(* ThreadingHTTPServer binds and listens.                                  *)
Bind == MainStep("boot", "bound")

(* signal.signal(SIGTERM, handle_sigterm)                                  *)
Arm == MainStep("bound", "armed")

(* httpd.serve_forever()                                                   *)
Serve == MainStep("armed", "serving")

(* The loop's select found a connection and the flag was still down.       *)
SelectReady == /\ ~stopRequest
               /\ \E r \in Requests : req[r] = "backlog"
               /\ MainStep("serving", "accepting")

(* _handle_request_noblock: accept and start a daemon handler thread.      *)
Accept == \E r \in Requests :
    /\ Up /\ main = "accepting" /\ req[r] = "backlog"
    /\ main' = "serving"
    /\ req' = [req EXCEPT ![r] = "accepted"]
    /\ UNCHANGED <<term, stop, inflight, exitBy>>

(* serve_forever sees the flag and returns into main, which returns.       *)
StopServing == stopRequest /\ MainStep("serving", "returned")

(* The interpreter finalises: only daemon threads are left.                *)
MainExits == main = "returned" /\ Exit("main")

-----------------------------------------------------------------------------
(* Clients and handler threads.                                            *)

(* The kernel completes a connection while the socket listens, also when   *)
(* the accept loop has stopped; before and after that it is refused.       *)
Arrive(r) ==
    /\ req[r] = "new"
    /\ req' = [req EXCEPT ![r] = IF Up /\ main # "boot" THEN "backlog"
                                                        ELSE "refused"]
    /\ UNCHANGED <<main, term, stop, inflight, exitBy>>

HandlerStep(r, from, to) == /\ Up /\ req[r] = from
                            /\ req' = [req EXCEPT ![r] = to]
                            /\ UNCHANGED <<main, term, stop, exitBy>>

(* do_GET: inflight += 1 under its lock.                                   *)
Count(r) == HandlerStep(r, "accepted", "counted") /\ inflight' = inflight + 1

(* _route has written the response.                                        *)
Answer(r) == HandlerStep(r, "counted", "answered") /\ UNCHANGED inflight

(* Mutant: finally runs twice.                                             *)
LeaveTwice(r) == \E from \in {"answered", "abandoned"} :
    HandlerStep(r, from, "finished") /\ inflight' = inflight - 1

(* The client is gone, the write raises, finally runs.                     *)
Abandon(r) == HandlerStep(r, "counted", "abandoned") /\ inflight' = inflight - 1

(* finally: inflight -= 1 after an answer.                                 *)
Leave(r) == HandlerStep(r, "answered", "finished") /\ inflight' = inflight - 1

-----------------------------------------------------------------------------
(* Termination.                                                            *)

(* The kubelet sends SIGTERM.  The app is PID 1 of its container: without  *)
(* a handler the kernel drops the signal.                                  *)
SendTerm ==
    /\ Up /\ sigterm = "none"
    /\ sigterm' = IF main \in {"boot", "bound"} THEN "ignored" ELSE "pending"
    /\ UNCHANGED <<main, termIgnore, shuttingDown, owed, stop, conns, exitBy>>

(* The main thread can run a signal handler.                               *)
TakesSignal == Up /\ sigterm = "pending" /\ main \in {"armed", "serving", "accepting"}

(* handle_sigterm, TERM_IGNORE=1                                           *)
IgnoreTerm ==
    /\ TakesSignal /\ termIgnore
    /\ sigterm' = "ignored"
    /\ UNCHANGED <<main, termIgnore, shuttingDown, owed, stop, conns, exitBy>>

(* Mutant: httpd.shutdown is called by the handler itself, on the thread   *)
(* whose loop it waits for.                                                *)
HandleTermInline ==
    /\ TakesSignal /\ ~termIgnore
    /\ sigterm' = "handled"
    /\ shuttingDown' = TRUE
    /\ owed' = InHandler
    /\ stopRequest' = TRUE
    /\ main' = "blocked"
    /\ UNCHANGED <<termIgnore, drain, late, conns, exitBy>>

(* handle_sigterm sets shutting_down and starts the drain thread.          *)
HandleTerm ==
    /\ TakesSignal /\ ~termIgnore
    /\ sigterm' = "handled"
    /\ shuttingDown' = TRUE
    /\ owed' = InHandler
    /\ drain' = "started"
    /\ UNCHANGED <<main, termIgnore, stopRequest, late, conns, exitBy>>

(* _graceful_shutdown starts the thread that runs httpd.shutdown.          *)
RequestStop ==
    /\ Up /\ drain = "started"
    /\ drain' = "waiting"
    /\ stopRequest' = TRUE
    /\ UNCHANGED <<main, term, late, conns, exitBy>>

(* TERM_GRACE_S passes.                                                    *)
Deadline ==
    /\ Up /\ drain = "waiting" /\ ~late
    /\ late' = TRUE
    /\ UNCHANGED <<main, term, stopRequest, drain, conns, exitBy>>

(* The polling loop of the drain ends when nothing is in flight, or late.  *)
DrainedAtOnce == TRUE    \* mutant: the loop does not look at inflight
Drained       == inflight = 0 \/ late

DrainDone ==
    /\ Up /\ drain = "waiting" /\ Drained
    /\ drain' = "leaving"
    /\ UNCHANGED <<main, term, stopRequest, late, conns, exitBy>>

(* os._exit(0)                                                             *)
DrainExits == drain = "leaving" /\ Exit("drain")

(* _crash_after, and SIGKILL at the end of the pod's grace period.         *)
CrashExits == main # "boot" /\ Exit("crash")
Kill       == sigterm # "none" /\ Exit("kill")

(* The process is gone and no client is left to be refused.                *)
Gone == ~Up /\ (\A r \in Requests : req[r] # "new") /\ UNCHANGED vars

-----------------------------------------------------------------------------
MainThread  == Bind \/ Arm \/ Serve \/ SelectReady \/ Accept \/ StopServing
               \/ MainExits
DrainThread == RequestStop \/ Deadline \/ DrainDone \/ DrainExits
Handler(r)  == Count(r) \/ Answer(r) \/ Abandon(r) \/ Leave(r)

Next == \/ MainThread \/ DrainThread
        \/ \E r \in Requests : Arrive(r) \/ Handler(r)
        \/ SendTerm \/ IgnoreTerm \/ HandleTerm
        \/ BootFails \/ CrashExits \/ Kill \/ Gone

Spec == Init /\ [][Next]_vars

(* The app's own threads run and time passes; nothing makes a handler      *)
(* finish, a client connect or the kubelet kill.                           *)
FairSpec == /\ Spec
            /\ WF_vars(MainThread)
            /\ WF_vars(DrainThread)
            /\ WF_vars(HandleTerm)

-----------------------------------------------------------------------------
(* Types of the variables.                                                 *)
TypeOK ==
    /\ main \in {"boot", "bound", "armed", "serving", "accepting", "returned",
                 "blocked"}
    /\ sigterm \in {"none", "pending", "ignored", "handled"}
    /\ {termIgnore, shuttingDown, stopRequest, late} \subseteq BOOLEAN
    /\ owed \subseteq Requests
    /\ drain \in {"none", "started", "waiting", "leaving"}
    /\ req \in [Requests -> {"new", "refused", "backlog", "accepted", "counted",
                             "answered", "abandoned", "finished", "cut"}]
    /\ inflight \in Nat
    /\ exitBy \in {"none", "boot", "main", "drain", "crash", "kill"}

(* inflight counts exactly the handlers between its two updates, whichever *)
(* way they end: the drain can trust it.                                   *)
InflightIsExact == Up => inflight = Cardinality(InHandler)

(* The drain thread keeps its promise: when it ends the process before its *)
(* deadline, every request that was in flight at SIGTERM has been answered *)
(* or abandoned by its client.                                             *)
DrainThreadWaits ==
    (exitBy = "drain" /\ ~late) => \A r \in owed : req[r] # "cut"

(* What design.md:121 says of SIGTERM: the app waits for its in-flight     *)
(* requests, up to TERM_GRACE_S, before it exits by itself.                *)
InFlightFinishBeforeExit ==
    (exitBy \in {"main", "drain"} /\ ~late) => \A r \in owed : req[r] # "cut"

(* A handled SIGTERM ends the process although no handler need ever        *)
(* finish: the thread that stops serve_forever is not the one it waits     *)
(* for, and a signal before serve_forever is entered is not lost.          *)
TermEndsTheApp == (sigterm = "handled") ~> ~Up

-----------------------------------------------------------------------------
(* Inductive invariant: what is owed is still in its handler or through    *)
(* with it, and once the drain has seen inflight at zero it is through.    *)
OwedIsTracked ==
    /\ \A r \in owed : /\ req[r] \in {"counted", "answered", "abandoned",
                                      "finished", "cut"}
                       /\ Up => req[r] # "cut"
    /\ (drain = "leaving" /\ ~late /\ Up)
         => \A r \in owed : req[r] \in {"answered", "abandoned", "finished"}
    /\ drain = "none" => owed = {}

ServerInv == TypeOK /\ InflightIsExact /\ OwedIsTracked /\ DrainThreadWaits

=============================================================================
