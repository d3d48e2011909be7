----------------------------- MODULE LarkSdkRunner -----------------------------
(***************************************************************************)
(* interface/lark_sdk.py: the blocking WebSocket client runs in a thread   *)
(* of its own, on a loop of its own, and hands messages and the state of   *)
(* its connection to the application's loop.  stop() runs a coroutine on   *)
(* the client's loop, which cancels its tasks, and joins the thread.  The  *)
(* client is lark-oapi: its start() connects, then sleeps in _select().    *)
(***************************************************************************)
EXTENDS Integers, Sequences

CONSTANTS Msgs,
          MaxMarks,     \* how many state changes wait in the application's loop
          Prompt        \* TRUE: stop_timeout is longer than whatever does happen

LarkSdkRunnerAssumption == MaxMarks \in Nat \ {0} /\ Prompt \in BOOLEAN

VARIABLES thread,       \* how far _run_client is
          bound,        \* _sdk_loop is set
          conn,         \* the client's _conn
          watch,        \* _watch_connection: none, or whether it saw a connection
          marked,       \* _connected
          marks,        \* on_connected and on_disconnected under way
          shown,        \* LarkWebSocketInterface.connected
          stop,         \* how far stop() is
          shutdown,     \* how far _shutdown_sdk is
          app,          \* whether the application's loop is open
          msg           \* where each message is

client == <<thread, bound, conn, watch>>
vars == <<client, marked, marks, shown, stop, shutdown, app, msg>>

Stopping == stop # "idle"
StopOver == {"stopped", "raised", "gave up"}

Init ==
  /\ thread = "none" /\ bound = FALSE /\ conn = FALSE /\ watch = "none"
  /\ marked = FALSE /\ marks = <<>> /\ shown = FALSE
  /\ stop = "idle" /\ shutdown = "none" /\ app = "open"
  /\ msg = [m \in Msgs |-> "sent"]

-----------------------------------------------------------------------------

\* _mark_connected and _mark_disconnected
Mark(now) ==
  /\ marked' = now
  /\ marks' = IF marked = now \/ app = "closed" THEN marks ELSE Append(marks, now)

Marked == /\ marks # <<>> /\ app = "open"
          /\ shown' = Head(marks) /\ marks' = Tail(marks)
          /\ UNCHANGED <<client, marked, stop, shutdown, app, msg>>

\* The finally of _run_client.  What still runs on the loop is never resumed.
Unwind ==
  /\ thread' = "ended" /\ bound' = FALSE /\ conn' = FALSE /\ watch' = "none"
  /\ Mark(FALSE)
  /\ shutdown' = IF shutdown \in {"none", "done", "failed", "withdrawn"} THEN shutdown ELSE "lost"

Start ==
  /\ thread = "none" /\ stop = "idle" /\ thread' = "booting"
  /\ UNCHANGED <<bound, conn, watch, marked, marks, shown, stop, shutdown, app, msg>>

\* The thread binds its loop and starts the watcher and the client.
Boot ==
  /\ thread = "booting" /\ thread' = "connecting"
  /\ bound' = TRUE /\ watch' = "apart"
  /\ UNCHANGED <<conn, marked, marks, shown, stop, shutdown, app, msg>>

\* client.start() or what precedes it raises.
StartFails ==
  /\ thread \in {"booting", "connecting"} /\ Unwind
  /\ UNCHANGED <<shown, stop, app, msg>>

Runs == thread = "serving" /\ shutdown \in {"none", "queued", "withdrawn"}
Connect ==
  /\ thread = "connecting" /\ thread' = "serving" /\ conn' = TRUE
  /\ UNCHANGED <<bound, watch, marked, marks, shown, stop, shutdown, app, msg>>

\* The client notices that its connection is gone, says so, and says when it is back.
Disconnected ==
  /\ Runs /\ conn /\ conn' = FALSE
  /\ UNCHANGED <<thread, bound, watch, marked, marks, shown, stop, shutdown, app, msg>>
Reconnecting ==
  /\ Runs /\ ~conn /\ marked /\ Mark(FALSE)
  /\ UNCHANGED <<client, shown, stop, shutdown, app, msg>>
Reconnected ==
  /\ Runs /\ ~conn /\ Len(marks) < MaxMarks /\ conn' = TRUE /\ Mark(TRUE)
  /\ UNCHANGED <<thread, bound, watch, shown, stop, shutdown, app, msg>>

\* Mutant: the connection is left to the client's callbacks, which the first one has not.
WatchNothing ==
  /\ Runs /\ watch # "none"
  /\ Stopping /\ watch' = "none"
  /\ UNCHANGED <<thread, bound, conn, marked, marks, shown, stop, shutdown, app, msg>>

\* One round of _watch_connection, which ends once the runner stops.
Watch ==
  /\ Runs /\ watch # "none"
  /\ \/ Stopping /\ watch' = "none" /\ UNCHANGED <<marked, marks>>
     \/ ~Stopping /\ conn /\ watch = "apart" /\ watch' = "together" /\ Mark(TRUE)
     \/ ~Stopping /\ ~conn /\ watch = "together" /\ watch' = "apart" /\ Mark(FALSE)
  /\ UNCHANGED <<thread, bound, conn, shown, stop, shutdown, app, msg>>

\* _handle_sdk_event: a message that is a text goes to the application's loop.
Receive(m) ==
  /\ Runs /\ conn /\ msg[m] = "sent"
  /\ \E next \in {"ignored"} \cup (IF app = "open" THEN {"scheduled"} ELSE {}) :
       msg' = [msg EXCEPT ![m] = next]
  /\ UNCHANGED <<client, marked, marks, shown, stop, shutdown, app>>
Handle(m) ==
  /\ msg[m] = "scheduled" /\ app = "open" /\ msg' = [msg EXCEPT ![m] = "handled"]
  /\ UNCHANGED <<client, marked, marks, shown, stop, shutdown, app>>

-----------------------------------------------------------------------------
\* _shutdown_sdk, on the client's loop

\* While the client still connects, the coroutine cancels the task that start() runs:
\* the loop ends with it, and the coroutine is never resumed.
ShutdownConnecting ==
  /\ shutdown = "queued" /\ thread = "connecting" /\ Unwind
  /\ UNCHANGED <<shown, stop, app, msg>>

\* Later it cancels the background tasks, the watcher with them, ...
CancelTasks ==
  /\ shutdown = "queued" /\ thread = "serving"
  /\ shutdown' = "cancelling" /\ watch' = "none"
  /\ UNCHANGED <<thread, bound, conn, marked, marks, shown, stop, app, msg>>

\* ... then disconnects and cancels _select(), which ends start(); or disconnecting raises.
Disconnect ==
  /\ shutdown = "cancelling"
  /\ \/ shutdown' = "done" /\ conn' = FALSE /\ thread' = "unwinding"
     \/ shutdown' = "failed" /\ UNCHANGED <<conn, thread>>
  /\ UNCHANGED <<bound, watch, marked, marks, shown, stop, app, msg>>

Ends == thread = "unwinding" /\ Unwind /\ UNCHANGED <<shown, stop, app, msg>>

-----------------------------------------------------------------------------
\* stop(), in the application's loop

\* It finds no thread, no loop yet, or a loop to shut down.
Stop ==
  /\ stop = "idle"
  /\ stop' = IF thread \in {"none", "ended"} THEN "stopped"
             ELSE IF ~bound THEN "joining unbound" ELSE "scheduling"
  /\ UNCHANGED <<client, marked, marks, shown, shutdown, app, msg>>

\* The loop may have closed since.
Schedule ==
  /\ stop = "scheduling"
  /\ IF thread = "ended" THEN stop' = "raised" /\ UNCHANGED shutdown
     ELSE stop' = "waiting" /\ shutdown' = "queued"
  /\ UNCHANGED <<client, marked, marks, shown, app, msg>>

ShutdownEnds ==
  /\ stop = "waiting" /\ shutdown \in {"done", "failed"}
  /\ stop' = IF shutdown = "done" THEN "joining" ELSE "raised"
  /\ UNCHANGED <<client, marked, marks, shown, shutdown, app, msg>>

\* wait_for gives up and cancels the coroutine, if that can still be reached.
ShutdownTimesOut ==
  /\ stop = "waiting" /\ (Prompt => shutdown = "lost")
  /\ stop' = "raised"
  /\ shutdown' = CASE shutdown = "queued" -> "withdrawn"
                   [] shutdown = "cancelling" -> "failed"
                   [] OTHER -> shutdown
  /\ UNCHANGED <<client, marked, marks, shown, app, msg>>

\* join() returns when the thread has ended or the time is over; only the second of the
\* two calls looks which.
Joined ==
  /\ stop \in {"joining", "joining unbound"} /\ thread = "ended" /\ stop' = "stopped"
  /\ UNCHANGED <<client, marked, marks, shown, shutdown, app, msg>>
JoinTimesOut ==
  /\ stop \in {"joining", "joining unbound"} /\ thread # "ended"
  /\ Prompt => thread = "serving"
  /\ stop' = IF stop = "joining" THEN "raised" ELSE "gave up"
  /\ UNCHANGED <<client, marked, marks, shown, shutdown, app, msg>>

\* After stop() the application ends, and its loop with what waits in it.
AppCloses ==
  /\ stop \in StopOver /\ app = "open" /\ app' = "closed" /\ marks' = <<>>
  /\ UNCHANGED <<client, marked, shown, stop, shutdown, msg>>

-----------------------------------------------------------------------------
Starts == Boot \/ StartFails \/ Connect
Shutdown == ShutdownConnecting \/ CancelTasks \/ Disconnect \/ Ends
StopGoesOn == Schedule \/ ShutdownEnds \/ ShutdownTimesOut \/ Joined \/ JoinTimesOut

Next ==
  \/ Start \/ Starts \/ Disconnected \/ Reconnecting \/ Reconnected \/ Watch \/ Marked
  \/ Shutdown \/ Stop \/ StopGoesOn \/ AppCloses
  \/ \E m \in Msgs : Receive(m) \/ Handle(m)

Spec == Init /\ [][Next]_vars

\* Both loops go on, the watcher looks twice a second, and auto_reconnect is on: the client
\* says that it reconnects.
FairSpec ==
  /\ Spec
  /\ WF_vars(Boot) /\ WF_vars(Watch) /\ WF_vars(Reconnecting) /\ WF_vars(Marked)
  /\ WF_vars(Shutdown) /\ WF_vars(StopGoesOn)

-----------------------------------------------------------------------------
Threads == {"none", "booting", "connecting", "serving", "unwinding", "ended"}

\* The application is told of a change, and never twice of the same state.
TypeOK ==
  /\ thread \in Threads /\ bound \in BOOLEAN /\ conn \in BOOLEAN
  /\ watch \in {"none", "apart", "together"}
  /\ marked \in BOOLEAN /\ shown \in BOOLEAN
  /\ marks \in Seq(BOOLEAN) /\ \A i \in 1..(Len(marks) - 1) : marks[i] # marks[i + 1]
  /\ stop \in {"idle", "scheduling", "waiting", "joining", "joining unbound"} \cup StopOver
  /\ shutdown \in {"none", "queued", "cancelling", "done", "failed", "withdrawn", "lost"}
  /\ app \in {"open", "closed"}
  /\ msg \in [Msgs -> {"sent", "scheduled", "handled", "ignored"}]

\* A stop that says so has ended the thread: no message and no state comes after it.
StoppedIsEnded == stop = "stopped" => thread \in {"none", "ended"} /\ ~marked

\* Until it stops the runner, the application comes to see each connection and each end of
\* one that lasts, by the client's callbacks, the watcher's rounds or the thread's end.
IsSeen == shown = conn \/ Stopping
ConnectionIsSeen == []<>IsSeen

\* stop() ends, with a thread that never answers as well.
NoStopUnderWay == Stopping => stop \in StopOver
StopEnds == []<>NoStopUnderWay

\* Violated: once the shutdown is scheduled, stop() fails only if the thread did not end.
FailsOnlyIfAlive == stop = "raised" /\ shutdown # "none" => thread # "ended"
=============================================================================
