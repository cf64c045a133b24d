----------------------------- MODULE SpeedTest -----------------------------
(***************************************************************************)
(* Speed tests: bins/appd/src/speedtest.rs behind the stream handler of    *)
(* crates/ipc/src/server.rs.                                               *)
(*                                                                         *)
(* A run of the basic kind measures latency and bandwidth at the same time *)
(* in tasks of their own; a run of the purity kind has one stage; deep     *)
(* runs are iperf3's.  The kinds have flags of their own and share nothing *)
(* else: a behaviour follows one of them.  Cancel is a flag that the tasks *)
(* read; nothing ties a request to cancel to the run it is meant for.      *)
(* Curl, iperf3 and the measured servers are the environment: a            *)
(* measurement succeeds, fails or takes as long as its timeout allows.     *)
(***************************************************************************)
EXTENDS Naturals, Sequences, FiniteSets

CONSTANTS
  SpeedClients,    \* connections that ask for a basic run, one each
  Cancels,         \* SpeedTestCancel requests
  ChannelSize      \* mpsc::channel(8)

NoClient == "no-client"

ASSUME SpeedAssumption == ChannelSize \in Nat \ {0} /\ NoClient \notin SpeedClients

Stages == {"Latency", "Bandwidth", "IpPurity"}

\* SpeedTestRunKind::classify: a run has stages of one kind only.
StageGroup(kind) == IF kind = "purity" THEN {"IpPurity"} ELSE {"Latency", "Bandwidth"}

VARIABLES
  runKind,                 \* the kind this behaviour follows
  speedBusy, speedCancel,  \* its busy flag and its cancel flag
  runner,                  \* the client whose run the spawned task serves
  runnerPc,                \* where that task is
  stage,                   \* the stage tasks: how far, or the result
  ends,                    \* each run's End frame, once it is built
  events,                  \* each run's channel to the server's stream handler
  stream,                  \* each connection's stream
  cancels,                 \* each request: its step, the run it found, the run it reached
  iperf                    \* iperf3: busy flag, pid slot, child, its request

speedVars == <<runKind, speedBusy, speedCancel, runner, runnerPc, stage, ends, events, stream, cancels, iperf>>
basicVars == <<runKind, speedBusy, speedCancel, runner, runnerPc, stage, ends, events, stream, cancels>>

-----------------------------------------------------------------------------
(* start_basic and its task *)

\* Faulty variant of StartBasic: the flag is set, not swapped.
StartBasicUnguarded(c) ==
  /\ runKind # "deep" /\ stream[c] = "new"
  /\ speedBusy' = TRUE
  /\ stage' = [s \in Stages |-> IF s \in StageGroup(runKind) THEN "0" ELSE "sent"]
  /\ runner' = c /\ runnerPc' = "clearing"
  /\ stream' = [stream EXCEPT ![c] = "open"]
  /\ UNCHANGED <<runKind, speedCancel, ends, events, cancels, iperf>>

\* busy.swap(true) decides; the cancel flag is cleared after it.
StartBasic(c) ==
  /\ runKind # "deep" /\ stream[c] = "new" /\ ~speedBusy
  /\ speedBusy' = TRUE
  /\ \E asked \in SUBSET StageGroup(runKind) \ {{}} :
       stage' = [s \in Stages |-> IF s \in asked THEN "0" ELSE "sent"]
  /\ runner' = c /\ runnerPc' = "clearing"
  /\ stream' = [stream EXCEPT ![c] = "open"]
  /\ UNCHANGED <<runKind, speedCancel, ends, events, cancels, iperf>>

\* Faulty variant of StartRefused: the cancel flag is cleared before the swap.
StartRefusedClears(c) ==
  /\ stream[c] = "new" /\ speedBusy
  /\ speedCancel' = FALSE
  /\ stream' = [stream EXCEPT ![c] = "refused"]
  /\ UNCHANGED <<runKind, speedBusy, runner, runnerPc, stage, ends, events, cancels, iperf>>

StartRefused(c) ==
  /\ stream[c] = "new" /\ speedBusy
  /\ stream' = [stream EXCEPT ![c] = "refused"]
  /\ UNCHANGED <<runKind, speedBusy, speedCancel, runner, runnerPc, stage, ends, events, cancels, iperf>>

\* Faulty variant of SpawnStages: the run starts with the flag as it is.
SpawnStagesStale ==
  /\ runnerPc = "clearing"
  /\ runnerPc' = "stages"
  /\ UNCHANGED <<runKind, speedBusy, speedCancel, runner, stage, ends, events, stream, cancels, iperf>>

SpawnStages ==
  /\ runnerPc = "clearing"
  /\ speedCancel' = FALSE
  /\ runnerPc' = "stages"
  /\ UNCHANGED <<runKind, speedBusy, runner, stage, ends, events, stream, cancels, iperf>>

\* A stage that has come to result: nothing, or only some, of what it was to
\* measure ("empty", "short"), all ("full"), or more than the frame may hold.
Measured(s, result) ==
  /\ runnerPc = "stages"
  /\ stage' = [stage EXCEPT ![s] = result]
  /\ UNCHANGED <<runKind, speedBusy, speedCancel, runner, runnerPc, ends, events, stream, cancels, iperf>>

\* run_latency_stage looks at the flag before every target and every probe ("0":
\* none measured yet, "1": some).  A probe that fails is a result too.
MeasureTarget ==
  \/ stage["Latency"] = "0" /\ Measured("Latency", IF speedCancel THEN "empty" ELSE "1")
  \/ stage["Latency"] = "1"
     /\ \E next \in {"full", IF speedCancel THEN "short" ELSE "1"} : Measured("Latency", next)

\* run_bandwidth_stage looks before its transfers, and the task of every mirror
\* before its own.
MeasureBandwidth ==
  \/ stage["Bandwidth"] = "0" /\ Measured("Bandwidth", IF speedCancel THEN "empty" ELSE "1")
  \/ stage["Bandwidth"] = "1"
     /\ \E next \in {"full", IF speedCancel THEN "short" ELSE "full"} : Measured("Bandwidth", next)

\* run_ip_purity_stage and the risk query look at no flag.  What the two
\* services answer is copied as it is, so it may be more than validate() takes.
MeasurePurity ==
  stage["IpPurity"] = "0" /\ \E result \in {"full", "invalid"} : Measured("IpPurity", result)

\* sender.send: waits for room, unless the receiver is gone.
Send(frame) ==
  \/ stream[runner] # "open" /\ UNCHANGED events
  \/ stream[runner] = "open" /\ Len(events[runner]) < ChannelSize
     /\ events' = [events EXCEPT ![runner] = Append(@, frame)]

SendStage(s) ==
  /\ runnerPc = "stages" /\ stage[s] \in {"empty", "short", "full", "invalid"}
  /\ Send(stage[s])
  /\ stage' = [stage EXCEPT ![s] = "sent"]
  /\ UNCHANGED <<runKind, speedBusy, speedCancel, runner, runnerPc, ends, stream, cancels, iperf>>

\* All stage tasks are joined: the End frame takes the flag as it is now.
BuildEnd ==
  /\ runnerPc = "stages" /\ \A s \in Stages : stage[s] = "sent"
  /\ ends' = [ends EXCEPT ![runner] = IF speedCancel THEN "cancelled" ELSE "whole"]
  /\ runnerPc' = "ending"
  /\ UNCHANGED <<runKind, speedBusy, speedCancel, runner, stage, events, stream, cancels, iperf>>

SendEnd ==
  /\ runnerPc = "ending"
  /\ Send("end")
  /\ runnerPc' = "ended"
  /\ UNCHANGED <<runKind, speedBusy, speedCancel, runner, stage, ends, stream, cancels, iperf>>

\* Faulty variant of FreeBusy: a run that lost its client keeps the flag.
FreeBusyIfServed ==
  /\ runnerPc = "ended"
  /\ speedBusy' = (stream[runner] = "broken")
  /\ runner' = NoClient /\ runnerPc' = "idle"
  /\ UNCHANGED <<runKind, speedCancel, stage, ends, events, stream, cancels, iperf>>

FreeBusy ==
  /\ runnerPc = "ended"
  /\ speedBusy' = FALSE
  /\ runner' = NoClient /\ runnerPc' = "idle"
  /\ UNCHANGED <<runKind, speedCancel, stage, ends, events, stream, cancels, iperf>>

\* cancel(): the busy flag is read, which decides the answer - the run it found,
\* or "no_active_speedtest" - and then the cancel flag is stored.
CancelReads(x) ==
  /\ runKind # "deep" /\ cancels[x].pc = "sent"
  /\ cancels' = [cancels EXCEPT ![x].pc = "read", ![x].found = runner]
  /\ UNCHANGED <<runKind, speedBusy, speedCancel, runner, runnerPc, stage, ends, events, stream, iperf>>

\* The store reaches the run whose tasks read the flag from then on, if any.
CancelStores(x) ==
  /\ cancels[x].pc = "read"
  /\ speedCancel' = TRUE
  /\ cancels' = [cancels EXCEPT ![x].pc = "answered",
                                ![x].reached = IF runnerPc = "stages" THEN runner ELSE NoClient]
  /\ UNCHANGED <<runKind, speedBusy, runner, runnerPc, stage, ends, events, stream, iperf>>

-----------------------------------------------------------------------------
(* serve_speedtest_stream *)

\* A frame that does not validate ends the connection: a stage must have at
\* least one target or measurement.
ForwardFrame(c) ==
  /\ stream[c] = "open" /\ events[c] # <<>>
  /\ events' = [events EXCEPT ![c] = Tail(@)]
  /\ stream' = [stream EXCEPT ![c] = CASE Head(events[c]) \in {"empty", "invalid"} -> "broken"
                                       [] Head(events[c]) = "end" -> "ended"
                                       [] OTHER -> @]
  /\ UNCHANGED <<runKind, speedBusy, speedCancel, runner, runnerPc, stage, ends, cancels, iperf>>

\* The client goes away or the total deadline passes: the receiver is dropped.
StreamLost(c) ==
  /\ stream[c] = "open"
  /\ stream' = [stream EXCEPT ![c] = "lost"]
  /\ events' = [events EXCEPT ![c] = <<>>]
  /\ UNCHANGED <<runKind, speedBusy, speedCancel, runner, runnerPc, stage, ends, cancels, iperf>>

\* Every wait of the stream has the total deadline of the connection.
StreamGoesOn(c) == ForwardFrame(c) \/ StreamLost(c)

-----------------------------------------------------------------------------
(* iperf3: deep_command, run_iperf3_plan, run_iperf3_once, stop_iperf3 *)

Iperf3Start ==
  /\ runKind = "deep" /\ ~iperf.busy /\ iperf.request = "none"
  /\ iperf' = [iperf EXCEPT !.busy = TRUE, !.request = "waiting", !.child = "alive",
                            !.pid = "child", !.runs = iperf.runs + 1, !.stopped = FALSE]
  /\ UNCHANGED basicVars

\* The child exits by itself or because of a signal.
Iperf3Exits ==
  /\ iperf.child = "alive"
  /\ iperf' = [iperf EXCEPT !.child = "exited"]
  /\ UNCHANGED basicVars

\* wait() returned: the pid slot is cleared and the result sent.
Iperf3Collected ==
  /\ iperf.request = "waiting" /\ iperf.child = "exited"
  /\ iperf' = [iperf EXCEPT !.busy = FALSE, !.pid = "none", !.child = "none",
                            !.request = "none", !.stopped = FALSE]
  /\ UNCHANGED basicVars

\* The run's own limit: the child is killed, the slot keeps its pid.
Iperf3TimesOut ==
  /\ iperf.request = "waiting" /\ iperf.child = "alive"
  /\ iperf' = [iperf EXCEPT !.busy = FALSE, !.child = "exited", !.request = "none"]
  /\ UNCHANGED basicVars

\* The server's deadline, 30 s over the durations, drops a plan of two runs
\* that may take 40 s over them: nobody frees the flag, the child runs on.
Iperf3Dropped ==
  /\ iperf.request = "waiting"
  /\ iperf' = [iperf EXCEPT !.request = "none"]
  /\ UNCHANGED basicVars

\* The runtime reaps the killed child; its pid may be used again.
Iperf3Reaped ==
  /\ iperf.request # "waiting" /\ iperf.child = "exited"
  /\ iperf' = [iperf EXCEPT !.child = "none"]
  /\ UNCHANGED basicVars

Iperf3Stop ==
  /\ iperf.pid = "child"
  /\ iperf' = [iperf EXCEPT !.pid = "none", !.stopped = TRUE,
                            !.child = IF @ = "alive" THEN "exited" ELSE @]
  /\ UNCHANGED basicVars

-----------------------------------------------------------------------------
SpeedInit ==
  /\ runKind \in {"basic", "purity", "deep"}
  /\ speedBusy = FALSE /\ speedCancel = FALSE
  /\ runner = NoClient /\ runnerPc = "idle"
  /\ stage = [s \in Stages |-> "sent"] /\ events = [c \in SpeedClients |-> <<>>]
  /\ ends = [c \in SpeedClients |-> "none"]
  /\ stream = [c \in SpeedClients |-> "new"]
  /\ cancels = [x \in Cancels |-> [pc |-> "sent", found |-> NoClient, reached |-> NoClient]]
  /\ iperf = [busy |-> FALSE, pid |-> "none", child |-> "none", request |-> "none",
              runs |-> 0, stopped |-> FALSE]

RunnerStep == SpawnStages \/ MeasureTarget \/ MeasureBandwidth \/ MeasurePurity
              \/ (\E s \in Stages : SendStage(s))
              \/ BuildEnd \/ SendEnd \/ FreeBusy

IperfStep == (iperf.runs < 2 /\ Iperf3Start) \/ Iperf3Exits \/ Iperf3Collected \/ Iperf3TimesOut
             \/ Iperf3Dropped \/ Iperf3Reaped \/ Iperf3Stop

SpeedNext ==
  \/ \E c \in SpeedClients : StartBasic(c) \/ StartRefused(c) \/ StreamGoesOn(c)
  \/ \E x \in Cancels : CancelReads(x) \/ CancelStores(x)
  \/ RunnerStep \/ IperfStep

SpeedSpec == SpeedInit /\ [][SpeedNext]_speedVars

-----------------------------------------------------------------------------
\* The variables keep their shapes, and the flag is set while a run is on.
SpeedTypeOK ==
  /\ speedBusy = (runner # NoClient) /\ speedCancel \in BOOLEAN
  /\ runner \in SpeedClients \cup {NoClient}
  /\ runnerPc \in {"idle", "clearing", "stages", "ending", "ended"}
  /\ stage \in [Stages -> {"0", "1", "empty", "short", "full", "invalid", "sent"}]
  /\ ends \in [SpeedClients -> {"none", "whole", "cancelled"}]
  /\ events \in [SpeedClients -> Seq({"empty", "short", "full", "invalid", "end"})]
  /\ stream \in [SpeedClients -> {"new", "open", "refused", "broken", "lost", "ended"}]
  /\ cancels \in [Cancels -> [pc : {"sent", "read", "answered"},
                              found : SpeedClients \cup {NoClient},
                              reached : SpeedClients \cup {NoClient}]]

\* Whatever the client does - reads slowly, goes away, is cut off - the run
\* ends and the busy flag is freed.
RunEnds == speedBusy ~> ~speedBusy

Reached(c) == \E x \in Cancels : cancels[x].reached = c

\* An End frame says "cancelled" exactly when a request to cancel was carried out
\* between the clearing of the flag and the building of that frame: no request
\* of an earlier run is left over, no refused start takes one back, and a stage
\* is cut short in such a run only.
EndsTellTheTruth ==
  /\ \A c \in SpeedClients : ends[c] # "none" => (ends[c] = "cancelled" <=> Reached(c))
  /\ \A s \in Stages : stage[s] \in {"empty", "short"} => Reached(runner)

\* A request that found a run reaches it, and no other, unless that run has not
\* cleared the flag yet or has its End frame: then the client was told
\* "cancellation_requested" for nothing, and a run that began in between may be
\* hit in its place.
CancelsReachTheirRun ==
  \A x \in Cancels :
    cancels[x].pc = "read" /\ cancels'[x].pc = "answered" /\ cancels[x].found # NoClient =>
      LET c == cancels[x].found
      IN  \/ cancels'[x].reached = c
          \/ ends[c] # "none"
          \/ runner = c /\ runnerPc = "clearing"

\* What becomes of a request to cancel, between runs that start, end and are
\* refused around it (start_basic and cancel, whose two flags are separate).
CancelsAreHeard == [](SpeedTypeOK /\ EndsTellTheTruth) /\ [][CancelsReachTheirRun]_speedVars
=============================================================================
