----------------------------- MODULE AppdShutdown -----------------------------
(***************************************************************************)
(* The life of the daemon (bins/appd/src/main.rs): its tasks run until a   *)
(* signal arrives or one of them ends, then shutdown_runtime_until stops   *)
(* them in order within one deadline, with the telemetry supervisor in     *)
(* full.                                                                   *)
(***************************************************************************)
EXTENDS TelemetrySupervisor

VARIABLES
  main,           \* where the main task is
  taskState,      \* "running", "ended" or "aborted", of every task but telemetry's
  stopTold,       \* the tasks whose shutdown channel has been set
  overdue,        \* "no", "server" (the server's deadline has passed), "all" (the deadline has)
  socket          \* the socket file exists

shutdownVars == <<main, taskState, stopTold, overdue, socket>>

Others == {"server", "network", "usage", "notes", "remote_cleanup", "reaper_task"}
AtStart == {"server", "network", "usage", "notes"}
Gone(t) == taskState[t] # "running"
TelemetryGone == sup.step = "ended"

ShutdownInit ==
  /\ TelemetryInit
  /\ main = "serving" /\ taskState = [t \in AtStart |-> "running"] /\ stopTold = {}
  /\ overdue = "no" /\ socket = TRUE

With(t) == [u \in DOMAIN taskState \cup {t} |-> IF u = t THEN "running" ELSE taskState[u]]

(* A task ends once it is told to; the server, which may fail, and the network           *)
(* supervisor, whose worker may, also end by themselves.                                  *)
TaskEnds(t) ==
  /\ t \in DOMAIN taskState /\ ~Gone(t) /\ t # "reaper_task"
  /\ t \in stopTold \cup {"server", "network", "remote_cleanup"}
  /\ taskState' = [taskState EXCEPT ![t] = "ended"]
  /\ UNCHANGED <<main, stopTold, overdue, socket, telemetryVars>>

(* SIGTERM, ctrl-c, or one of the selected tasks has ended: three channels are set. *)
StopBegins ==
  /\ main = "serving"
  /\ main' = "notes_intent" /\ signal' = TRUE /\ stopTold' = {"network", "usage"}
  /\ UNCHANGED <<taskState, overdue, socket, sup, child, session, pipe, store, restart, killAck>>

(* Notes have stopped taking writes, or a second has passed: the server is told, and         *)
(* the sessions are closed beside it.                                                     *)
ServerStops ==
  /\ main = "notes_intent" /\ main' = "server"
  /\ stopTold' = stopTold \cup {"server"} /\ taskState' = With("remote_cleanup")
  /\ UNCHANGED <<overdue, socket, telemetryVars>>

(* Faulty variant of NotesStop: the notes task is told without waiting for the server. *)
NotesStopAtOnce ==
  /\ main = "server"
  /\ main' = "kill_ack" /\ stopTold' = stopTold \cup {"notes"}
  /\ UNCHANGED <<taskState, overdue, socket, telemetryVars>>

(* The server has drained or its deadline, which keeps a reserve, has passed. *)
NotesStop ==
  /\ main = "server" /\ (Gone("server") \/ overdue # "no")
  /\ main' = "kill_ack" /\ stopTold' = stopTold \cup {"notes"}
  /\ UNCHANGED <<taskState, overdue, socket, telemetryVars>>

(* Faulty variant of KillHelper: the reaper only waits. *)
KillHelperNot == UNCHANGED child

(* child_reaper.start_kill by the main task. *)
KillHelper == child' = Killed

(* The acknowledgement arrives or the deadline passes; then the reaper task is spawned. *)
KillAcknowledged ==
  /\ main = "kill_ack" /\ main' = "draining" /\ taskState' = With("reaper_task")
  /\ \/ killAck # "waiting" /\ UNCHANGED child
     \/ overdue = "all" /\ killAck = "waiting" /\ KillHelper
  /\ UNCHANGED <<stopTold, overdue, socket, sup, session, pipe, store, restart, signal, killAck>>

(* reaper.wait in the reaper task: done when the slot is empty or the child has exited. *)
ReaperTaskEnds ==
  /\ "reaper_task" \in DOMAIN taskState /\ ~Gone("reaper_task") /\ Reap
  /\ taskState' = [taskState EXCEPT !["reaper_task"] = "ended"]
  /\ UNCHANGED <<main, stopTold, overdue, socket, sup, session, pipe, store, restart, signal, killAck>>

(* Every task has been drained. *)
Drained ==
  /\ main = "draining" /\ \A t \in DOMAIN taskState : Gone(t)
  /\ TelemetryGone /\ main' = "reaping"
  /\ UNCHANGED <<taskState, stopTold, overdue, socket, telemetryVars>>

(* The deadline has passed: what still runs is aborted and drained; the supervisor's     *)
(* pipes go with it, its child stays in the reaper's slot.                                *)
AbortAll ==
  /\ main = "draining" /\ overdue = "all" /\ main' = "reaping"
  /\ taskState' = [t \in DOMAIN taskState |-> IF Gone(t) THEN taskState[t] ELSE "aborted"]
  /\ sup' = [AtRest EXCEPT !.step = "ended"] /\ session' = FALSE /\ pipe' = <<>>
  /\ killAck' = (IF killAck = "waiting" THEN "dropped" ELSE killAck)
  /\ UNCHANGED <<stopTold, overdue, socket, child, store, restart, signal>>

(* ensure_reaped_until, and the socket file is removed last. *)
EnsureReaped ==
  /\ main = "reaping" /\ main' = "unlinking" /\ KillHelper
  /\ UNCHANGED <<taskState, stopTold, overdue, socket, sup, session, pipe, store, restart, signal, killAck>>
RemoveSocket ==
  /\ main = "unlinking" /\ main' = "done" /\ socket' = FALSE
  /\ child' = (IF child = "dead" THEN "none" ELSE child)
  /\ UNCHANGED <<taskState, stopTold, overdue, sup, session, pipe, store, restart, signal, killAck>>

DeadlinePasses ==
  /\ main \notin {"serving", "done"}
  /\ \/ overdue = "no" /\ overdue' = "server"
     \/ overdue = "server" /\ overdue' = "all"
  /\ UNCHANGED <<main, taskState, stopTold, socket, telemetryVars>>

ShutdownNext ==
  \/ main # "done" /\ TelemetryNext /\ UNCHANGED shutdownVars
  \/ \E t \in Others : TaskEnds(t)
  \/ StopBegins \/ ServerStops \/ NotesStop \/ KillAcknowledged \/ ReaperTaskEnds
  \/ Drained \/ AbortAll \/ EnsureReaped \/ RemoveSocket \/ DeadlinePasses

ShutdownSpec == ShutdownInit /\ [][ShutdownNext]_<<shutdownVars, telemetryVars>>
-----------------------------------------------------------------------------
(* The notes task is told to stop only when no request can reach it any more, or the       *)
(* server has overrun its deadline (main.rs shutdown_runtime_until: notes_shutdown_tx   *)
(* after server_drained).                                                               *)
NotesOutliveServer == "notes" \in stopTold => Gone("server") \/ overdue # "no"

(* However the daemon stops, within its deadline or not, nothing of it runs on: every   *)
(* task has ended or was aborted before the socket is removed, and no telemetry helper  *)
(* is left that was not at least killed (child_reaper, ensure_reaped_until).            *)
NothingRunsOn ==
  ~socket => /\ \A t \in DOMAIN taskState : Gone(t)
             /\ AtStart \cup {"remote_cleanup", "reaper_task"} = DOMAIN taskState
             /\ TelemetryGone /\ child # "alive"

(* A daemon that stops within its deadline leaves no child unreaped (telemetry.rs       *)
(* shutdown, ChildReaper::wait).                                                        *)
CleanStopReaps == ~socket /\ overdue # "all" => child = "none"

\* However the daemon stops, it stops in order and leaves nothing behind
\* (main.rs shutdown_runtime_until).
StopLeavesNothing == NotesOutliveServer /\ NothingRunsOn /\ CleanStopReaps
=============================================================================
