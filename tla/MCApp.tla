-------------------------------- MODULE MCApp --------------------------------
(* Small instances of the fixture app: one image, which runs as the server *)
(* of AppServer or as producers and consumers of AppQueue.                 *)
EXTENDS AppServer, AppQueue

VARIABLE mode

appVars == <<mode, vars, queueVars>>

AppInit == /\ Init /\ QueueInit
           /\ mode \in {"http", "queue"}
           /\ mode = "queue" => ~termIgnore
           /\ mode = "http" => backend = "redis"   \* no queue client runs

Server(A) == mode = "http"  /\ A /\ UNCHANGED <<mode, queueVars>>
Loop(A)   == mode = "queue" /\ A /\ UNCHANGED <<mode, vars>>

AppNext == Server(Next) \/ Loop(QueueNext)

(* The fairness of AppServer and of AppQueue, for the mode that runs.      *)
AppSpec ==
    /\ AppInit /\ [][AppNext]_appVars
    /\ WF_appVars(Server(MainThread))
    /\ WF_appVars(Server(DrainThread))
    /\ WF_appVars(Server(HandleTerm))
    /\ \A p \in Producers :
         WF_appVars(Loop(ProducerStep(p) \/ PushFails(p) \/ PushLost(p)))
    /\ \A c \in Consumers : /\ WF_appVars(Loop(ConsumerStep(c) \/ PopFails(c)))
                            /\ WF_appVars(Loop(PollDepth(c)))
    /\ WF_appVars(Loop(BrokerUp))

-----------------------------------------------------------------------------
(* The liveness of the queue modes; the other properties keep their names. *)

(* After outages and faults the queue is drained.                          *)
QueueIsDrained == (mode = "queue") => EventuallyDrained

(* The consumers' depth gauges settle at zero.                             *)
DepthsSettle == (mode = "queue") => GaugesSettle

=============================================================================
