---------------------------- MODULE RuntimeLifecycle ----------------------------
(***************************************************************************)
(* main.py: how Runtime starts its services, drains its handlers on a      *)
(* signal and stops the services one after the other.  The watchdog of     *)
(* the routing rules and the periodic task of the curator run in the       *)
(* background and may end with an exception, which whoever stops them      *)
(* awaits; the health server waits for its connections to close.  The      *)
(* thread of an open database connection keeps the process alive.          *)
(***************************************************************************)
EXTENDS Integers, Sequences

CONSTANTS Messages,
          MaxFaults     \* starts, background tasks, writes and stops that fail

\* Mutant: the database is closed with the runtime that owns it.
StopDbFirst == <<"runtime", "db", "watchdog", "sdk", "lark", "curator", "health">>

StartOrder == <<"db", "runtime", "watchdog", "lark", "sdk", "health", "curator">>
StopOrder == <<"runtime", "watchdog", "sdk", "lark", "curator", "health", "db">>

Services == {"db", "runtime", "watchdog", "lark", "sdk", "health", "curator"}
Background == {"watchdog", "curator"}
UsesDb == {"runtime", "sdk", "curator", "health"}

VARIABLES phase,       \* of async_main
          pos,         \* the service it starts or stops next
          service,
          recovered,   \* graph_runtime.start has put the old goals back
          msg,         \* the handler of each message
          drains,      \* the handlers drain_active waits for
          broken,      \* a status write has failed: drain_background_tasks will raise
          client,      \* somebody holds a connection to the health server
          faults

vars == <<phase, pos, service, recovered, msg, drains, broken, client, faults>>

Init ==
  /\ phase = "starting" /\ pos = 1 /\ service = [s \in Services |-> "off"]
  /\ recovered = FALSE /\ msg = [m \in Messages |-> "none"] /\ drains = {}
  /\ broken = FALSE /\ client = FALSE /\ faults = 0

Fault == faults < MaxFaults /\ faults' = faults + 1
Turn(s, st) == service' = [service EXCEPT ![s] = st]
Active == {m \in Messages : msg[m] = "active"}
Cancel(set) == msg' = [m \in Messages |-> IF m \in set THEN "cancelled" ELSE msg[m]]

-----------------------------------------------------------------------------
\* Runtime.start

Start ==
  /\ phase = "starting"
  /\ LET s == StartOrder[pos] IN
     /\ Turn(s, "on")
     /\ recovered' = (recovered \/ s = "runtime")
  /\ IF pos = Len(StartOrder) THEN phase' = "up" /\ pos' = 1
                              ELSE phase' = "starting" /\ pos' = pos + 1
  /\ UNCHANGED <<msg, drains, broken, client, faults>>

\* start is outside the try of async_main: stop is not called.
StartFails ==
  /\ phase = "starting" /\ Fault /\ phase' = "crashed"
  /\ UNCHANGED <<pos, service, recovered, msg, drains, broken, client>>

-----------------------------------------------------------------------------
\* What goes on meanwhile

Arrive(m) ==
  /\ phase \in {"starting", "up", "draining", "stopping"} /\ service["sdk"] = "on" /\ msg[m] = "none"
  /\ msg' = [msg EXCEPT ![m] = "active"]
  /\ UNCHANGED <<phase, pos, service, recovered, drains, broken, client, faults>>

\* A handler returns.  Where it asks the database last, connect opens a closed one.
Finish(m) ==
  /\ phase # "exited" /\ msg[m] = "active" /\ msg' = [msg EXCEPT ![m] = "done"]
  /\ \/ UNCHANGED service
     \/ phase \in {"stopping", "ended"} /\ service["db"] = "off" /\ Turn("db", "on")
  /\ UNCHANGED <<phase, pos, recovered, drains, broken, client, faults>>

\* The model or the disk fails the curator; the rules file fails the watchdog.
TaskFails(s) ==
  /\ phase # "exited" /\ service[s] = "on" /\ Fault /\ Turn(s, "failed")
  /\ UNCHANGED <<phase, pos, recovered, msg, drains, broken, client>>

WriteFails ==
  /\ phase \in {"up", "draining"} /\ ~broken /\ Fault /\ broken' = TRUE
  /\ UNCHANGED <<phase, pos, service, recovered, msg, drains, client>>

Connect ==
  /\ service["health"] = "on" /\ phase \in {"starting", "up"} /\ ~client /\ client' = TRUE
  /\ UNCHANGED <<phase, pos, service, recovered, msg, drains, broken, faults>>

Disconnect ==
  /\ client /\ client' = FALSE
  /\ UNCHANGED <<phase, pos, service, recovered, msg, drains, broken, faults>>

-----------------------------------------------------------------------------
\* Runtime.stop

Signal ==
  /\ phase = "up" /\ phase' = "draining" /\ drains' = Active
  /\ UNCHANGED <<pos, service, recovered, msg, broken, client, faults>>

StopBegins == phase' = "stopping" /\ pos' = 1 /\ drains' = {}

Drained ==
  /\ phase = "draining" /\ ~broken /\ drains \cap Active = {} /\ StopBegins
  /\ UNCHANGED <<service, recovered, msg, broken, client, faults>>

\* wait_for cancels the gather, and the gather the handlers.
DrainTimesOut ==
  /\ phase = "draining" /\ ~broken /\ drains \cap Active # {}
  /\ StopBegins /\ Cancel(drains \cap Active)
  /\ UNCHANGED <<service, recovered, broken, client, faults>>

\* drain_background_tasks raises what a status write raised; only TimeoutError is caught.
DrainRaises ==
  /\ phase = "draining" /\ broken /\ phase' = "raised"
  /\ UNCHANGED <<pos, service, recovered, msg, drains, broken, client, faults>>

Current == StopOrder[pos]

Stop ==
  /\ phase = "stopping" /\ service[Current] # "failed"
  /\ Current = "health" => ~client
  /\ Turn(Current, "off")
  /\ IF pos = Len(StopOrder) THEN phase' = "ended" /\ UNCHANGED pos
                             ELSE pos' = pos + 1 /\ UNCHANGED phase
  /\ UNCHANGED <<recovered, msg, drains, broken, client, faults>>

\* A failed background task raises again what ended it; the SDK thread may not stop.
StopRaises ==
  /\ phase = "stopping" /\ phase' = "raised"
  /\ \/ service[Current] = "failed" /\ UNCHANGED faults
     \/ Current = "sdk" /\ Fault
  /\ UNCHANGED <<pos, service, recovered, msg, drains, broken, client>>

\* asyncio.run cancels the rest; the interpreter waits for the database's thread.
Exit ==
  /\ phase \in {"ended", "raised", "crashed"} /\ service["db"] = "off" /\ phase' = "exited"
  /\ Cancel(Active)
  /\ UNCHANGED <<pos, service, recovered, drains, broken, client, faults>>

Main == Start \/ Drained \/ DrainTimesOut \/ DrainRaises \/ Stop \/ StopRaises
Next ==
  \/ Main \/ StartFails \/ WriteFails \/ Connect \/ Disconnect \/ Signal \/ Exit
  \/ \E m \in Messages : Arrive(m) \/ Finish(m)
  \/ \E s \in Background : TaskFails(s)
Spec == Init /\ [][Next]_vars

\* Handlers need not return: the drain does not wait for them forever.
BoundedSpec == Spec /\ WF_vars(Main)
FairSpec == BoundedSpec /\ WF_vars(Disconnect)

-----------------------------------------------------------------------------
TypeOK ==
  /\ phase \in {"starting", "up", "draining", "stopping", "ended", "raised", "crashed", "exited"}
  /\ pos \in 1..Len(StopOrder) /\ drains \subseteq Messages
  /\ service \in [Services -> {"off", "on", "failed"}]
  /\ \A s \in Services \ Background : service[s] # "failed"
  /\ recovered \in BOOLEAN /\ broken \in BOOLEAN /\ client \in BOOLEAN /\ faults \in 0..MaxFaults
  /\ msg \in [Messages -> {"none", "active", "done", "cancelled"}]

\* A goal that a message creates is never one that recovery finds and starts again.
RecoveryFirst == (\E m \in Messages : msg[m] # "none") => recovered

\* Nothing that uses the database runs before it is open or after it was closed, also
\* where a start or a stop is left half done.
NobodyOutlivesTheDatabase ==
  service["db"] = "off" => \A s \in UsesDb : service[s] = "off"

\* A stop that gets through has stopped everything; the database may be open again.
EndedIsStopped == phase = "ended" => \A s \in Services \ {"db"} : service[s] = "off"

\* A signal ends the process's work, if the clients of the health server go away.
NoStopUnderWay == phase \notin {"draining", "stopping"}
StopEnds == []<>NoStopUnderWay

\* Violated: a component that is stuck cannot keep the stop from ending.
StopIsBounded == phase = "draining" ~> phase \in {"ended", "raised", "exited"}

\* Violated: a stop leaves nothing behind that keeps the process alive.
StopLeavesNothing == phase = "raised" => service["db"] = "off"
=============================================================================
