------------------------- MODULE TelemetrySupervisor -------------------------
(***************************************************************************)
(* The telemetry supervisor (bins/appd/src/telemetry.rs): it starts the    *)
(* telemetry helper, asks it for one sample at a time over a pipe, and     *)
(* publishes the outcome in the telemetry store (crates/telemetry/src/     *)
(* lib.rs), which clients and the network collector read.                  *)
(*                                                                         *)
(* Time passes in Elapse: it ages the last success, counts a scheduled     *)
(* restart down and the sample towards its deadline.  A generation is      *)
(* kept as "now" or "then": the code only ever compares it with the        *)
(* current one.                                                            *)
(***************************************************************************)
EXTENDS Integers, Sequences

CONSTANTS
  FreshAfter,     \* FRESH_AFTER, in steps of time
  MaxStale,       \* MAX_STALE
  SampleDeadline, \* SAMPLE_DEADLINE
  InitialBackoff, \* INITIAL_RESTART_BACKOFF
  MaxBackoff      \* MAX_RESTART_BACKOFF

ASSUME TelemetryTimesAssumption ==
  /\ {FreshAfter, MaxStale, SampleDeadline, InitialBackoff, MaxBackoff} \subseteq Nat
  /\ 0 < FreshAfter /\ FreshAfter < MaxStale
  /\ 0 < InitialBackoff /\ InitialBackoff <= MaxBackoff

VARIABLES
  sup,            \* the task: [step, waited, outcome]
  child,          \* the reaper's slot: "none", "alive", "dying" (killed), "dead" (not reaped)
  session,        \* the supervisor holds the helper's pipes
  pipe,           \* what is in the pipes: a request or a reply, with its generation
  store,          \* StoreState
  restart,        \* [pause |-> time to retry_after, backoff |-> restart_backoff]
  signal,         \* the shutdown channel's value
  killAck         \* "waiting", "sent", "dropped": the kill_ack channel

telemetryVars == <<sup, child, session, pipe, store, restart, signal, killAck>>

AtRest == [step |-> "idle", waited |-> 0, outcome |-> "none"]
NoData == [data |-> FALSE, freshness |-> "unavailable", reason |-> "collector_unavailable"]
Failures == {"timeout", "eof", "mismatch", "malformed"}

TelemetryInit ==
  /\ sup = AtRest /\ child = "none" /\ session = FALSE /\ pipe = <<>>
  /\ store = [shown |-> NoData, succeeded |-> FALSE, age |-> 0, down |-> FALSE]
  /\ restart = [pause |-> 0, backoff |-> InitialBackoff]
  /\ signal = FALSE /\ killAck = "waiting"

Least(a, b) == IF a < b THEN a ELSE b

(* Time passes; the three clocks stop counting where nothing compares them any more. *)
Elapse ==
  /\ store' = [store EXCEPT !.age = Least(@ + 1, MaxStale + 1)]
  /\ restart' = [restart EXCEPT !.pause = IF @ = 0 THEN 0 ELSE @ - 1]
  /\ sup' = [sup EXCEPT !.waited = IF sup.step = "sampling" THEN Least(@ + 1, SampleDeadline) ELSE 0]
  /\ UNCHANGED <<child, session, pipe, signal, killAck>>
-----------------------------------------------------------------------------
(* What the store shows, and how it is changed. *)

(* failure_snapshot: the last success is kept, marked partial, while it is young enough. *)
FailureSnapshot(reason) ==
  IF ~store.succeeded \/ store.age > MaxStale THEN [NoData EXCEPT !.reason = reason]
  ELSE [data |-> TRUE, reason |-> reason,
        freshness |-> IF store.age > FreshAfter THEN "stale" ELSE "fresh"]

(* publish_if_current and publish_error_if_current: nothing is published after the latch. *)
Publish(shown) == IF store.down THEN store ELSE [store EXCEPT !.shown = shown]
PublishSuccess(warming) ==
  IF store.down THEN store
  ELSE [shown |-> [data |-> TRUE, reason |-> "ok",
                   freshness |-> IF warming THEN "warming_up" ELSE "fresh"],
        succeeded |-> TRUE, age |-> 0, down |-> FALSE]

(* Faulty variant of Refreshed: an answer that is already stale is not looked at again. *)
RefreshedOnce ==
  IF store.down \/ ~store.succeeded \/ store.age <= FreshAfter \/ store.shown.reason = "stale"
    THEN store.shown
  ELSE IF store.age <= MaxStale THEN [data |-> TRUE, freshness |-> "stale", reason |-> "stale"]
  ELSE [NoData EXCEPT !.reason = "telemetry_stale"]

(* refresh_snapshot: what a client that asks now is shown. *)
Refreshed ==
  IF store.down \/ ~store.succeeded \/ store.age <= FreshAfter THEN store.shown
  ELSE IF store.age <= MaxStale THEN [data |-> TRUE, freshness |-> "stale", reason |-> "stale"]
  ELSE [NoData EXCEPT !.reason = "telemetry_stale"]

(* snapshot_at: the refreshed snapshot is also stored. *)
ClientAsks ==
  /\ store' = [store EXCEPT !.shown = Refreshed]
  /\ UNCHANGED <<sup, child, session, pipe, restart, signal, killAck>>

(* cgroup_bindings_at: the bindings of the last success, for the network collector. *)
BindingsAvailable == ~store.down /\ store.succeeded /\ store.age <= MaxStale
-----------------------------------------------------------------------------
(* The helper. *)

(* serve_stdio: one reply for each request; a request that cannot be decoded is answered *)
(* under generation 0.                                                                    *)
HelperAnswers ==
  /\ child = "alive" /\ pipe # <<>> /\ pipe[1].kind = "request"
  /\ \E kind \in {"snapshot", "error", "malformed"}, generation \in {pipe[1].generation, "zero"} :
       pipe' = [pipe EXCEPT ![1] = [kind |-> kind, generation |-> generation]]
  /\ UNCHANGED <<sup, child, session, store, restart, signal, killAck>>

HelperExits ==
  /\ child \in {"alive", "dying"} /\ child' = "dead"
  /\ UNCHANGED <<sup, session, pipe, store, restart, signal, killAck>>

(* ChildReaper::start_kill. *)
Killed == IF child = "alive" THEN "dying" ELSE child

(* Faulty variant of Reap: the child is looked at (try_wait), not waited for. *)
ReapTried == child' = IF child = "dead" THEN "none" ELSE child

(* ChildReaper::wait: the slot is empty, or its child has exited and is taken. *)
Reap == child \in {"dead", "none"} /\ child' = "none"
-----------------------------------------------------------------------------
(* The supervisor's loop. *)

(* Faulty variant of Scheduled: the pause doubles without a bound. *)
ScheduledUncapped == [pause |-> restart.backoff, backoff |-> 2 * restart.backoff]

(* schedule_restart and reset_restart_backoff. *)
Scheduled == [pause |-> restart.backoff, backoff |-> Least(2 * restart.backoff, MaxBackoff)]
NoRestart == [pause |-> 0, backoff |-> InitialBackoff]

(* A new generation makes whatever is still in the pipes one of before. *)
Outdated == [i \in DOMAIN pipe |-> [pipe[i] EXCEPT !.generation = "then"]]
SampleRequest == [kind |-> "request", generation |-> "now"]

(* A tick: begin_sample, start_session when there is none, the request is written.      *)
(* helper_missing and the other spawn failures are published and a restart scheduled.   *)
Sample ==
  /\ sup.step = "idle" /\ ~signal /\ restart.pause = 0
  /\ \/ /\ session \/ child = "none"
        /\ session' = TRUE /\ child' = (IF session THEN child ELSE "alive")
        /\ pipe' = Append(Outdated, SampleRequest)
        /\ sup' = [step |-> "sampling", waited |-> 0, outcome |-> "none"]
        /\ UNCHANGED <<store, restart>>
     \/ /\ ~session
        /\ store' = Publish(FailureSnapshot("spawn_failed")) /\ restart' = Scheduled
        /\ UNCHANGED <<sup, child, session, pipe>>
  /\ UNCHANGED <<signal, killAck>>

(* Faulty variant of Failed: the timed out helper is kept for the next sample. *)
FailedKeepsSession(failure) ==
  /\ sup' = AtRest /\ store' = Publish(FailureSnapshot(failure)) /\ restart' = Scheduled
  /\ UNCHANGED <<child, session, pipe, signal, killAck>>

(* drop_session_and_wait begins: the pipes are closed and the helper is killed. *)
Failed(failure) ==
  /\ sup' = [step |-> "dropping", waited |-> 0, outcome |-> failure]
  /\ session' = FALSE /\ pipe' = <<>> /\ child' = Killed
  /\ UNCHANGED <<store, restart, signal, killAck>>

(* The end of HelperSession::collect, when the shutdown channel is not seen first.       *)
(* decode_reply has validated the reply, so accept_reply's own validation cannot fail.   *)
Collected ==
  /\ sup.step = "sampling" /\ ~signal
  /\ \/ /\ pipe # <<>> /\ pipe[1].kind # "request"
        /\ IF pipe[1].generation # "now" THEN Failed("mismatch")
           ELSE IF pipe[1].kind = "malformed" THEN Failed("malformed")
           ELSE /\ sup' = AtRest /\ pipe' = Tail(pipe)
                /\ UNCHANGED <<child, session, signal, killAck>>
                /\ \/ /\ pipe[1].kind = "snapshot" /\ restart' = NoRestart
                      /\ \E warming \in BOOLEAN : store' = PublishSuccess(warming)
                   \/ /\ pipe[1].kind = "snapshot" /\ UNCHANGED restart
                      /\ store' = Publish(FailureSnapshot("reducer_error"))
                   \/ /\ pipe[1].kind = "error" /\ restart' = NoRestart
                      /\ store' = Publish(FailureSnapshot("helper_error"))
     \/ child = "dead" /\ Failed("eof")
     \/ sup.waited = SampleDeadline /\ Failed("timeout")

(* drop_session_and_wait ends: the child is reaped, then the failure published. *)
Dropped ==
  /\ sup.step = "dropping" /\ Reap /\ sup' = AtRest
  /\ store' = Publish(FailureSnapshot(sup.outcome)) /\ restart' = Scheduled
  /\ UNCHANGED <<session, pipe, signal, killAck>>

(* latch_shutdown, start_kill and the acknowledgement; the pipes are dropped. *)
Latch ==
  /\ sup.step \in {"idle", "sampling"} /\ signal
  /\ store' = [store EXCEPT !.down = TRUE, !.shown = [NoData EXCEPT !.reason = "shutting_down"]]
  /\ child' = Killed /\ killAck' = "sent" /\ session' = FALSE /\ pipe' = <<>>
  /\ sup' = [AtRest EXCEPT !.step = "reaping"]
  /\ UNCHANGED <<restart, signal>>

SupervisorEnds ==
  /\ sup.step = "reaping" /\ Reap
  /\ sup' = [AtRest EXCEPT !.step = "ended"]
  /\ UNCHANGED <<session, pipe, store, restart, signal, killAck>>

(* The daemon sets the shutdown channel (AppdShutdown has the rest of its life). *)
StopTelemetry ==
  /\ ~signal /\ signal' = TRUE
  /\ UNCHANGED <<sup, child, session, pipe, store, restart, killAck>>

TelemetryNext ==
  \/ Elapse \/ ClientAsks \/ HelperAnswers \/ HelperExits
  \/ Sample \/ Collected \/ Dropped \/ Latch \/ SupervisorEnds

TelemetrySpec == TelemetryInit /\ [][TelemetryNext \/ StopTelemetry]_telemetryVars
-----------------------------------------------------------------------------
(* Every variable has its type (telemetry.rs TelemetrySupervisor, lib.rs StoreState);  *)
(* the pipes exist only with the session, and the helper's backoff stays in its range. *)
TelemetryTypeOK ==
  /\ sup.step \in {"idle", "sampling", "dropping", "reaping", "ended"}
  /\ sup.waited \in 0..SampleDeadline /\ sup.outcome \in Failures \cup {"none"}
  /\ child \in {"none", "alive", "dying", "dead"}
  /\ session \in BOOLEAN /\ (pipe # <<>> => session)
  /\ store.age \in 0..MaxStale + 1 /\ store.shown.data \in BOOLEAN
  /\ restart.pause \in 0..MaxBackoff /\ restart.backoff \in InitialBackoff..MaxBackoff
  /\ signal \in BOOLEAN /\ killAck \in {"waiting", "sent", "dropped"}

(* Whoever asks is told the truth about the age of what it gets (lib.rs                *)
(* refresh_snapshot, failure_snapshot, mark_shutting_down): measurements are at most   *)
(* MAX_STALE old, those called fresh at most FRESH_AFTER, and once the supervisor has  *)
(* been told to stop there are none, nor any cgroup bindings.                          *)
AnswersAreHonest ==
  /\ Refreshed.data => store.succeeded /\ store.age <= MaxStale /\ ~store.down
  /\ Refreshed.freshness \in {"fresh", "warming_up"} => store.age <= FreshAfter
  /\ store.down => ~BindingsAvailable /\ Refreshed.reason = "shutting_down"

(* The exchange stays in step with the helper (telemetry.rs run, collect): between two *)
(* samples nothing is left in the pipes, and during one only its own request or the    *)
(* reply to it, so a late reply of a sample that timed out cannot answer the next.     *)
ExchangeInStep ==
  /\ Len(pipe) <= 1
  /\ sup.step # "sampling" => pipe = <<>>
  /\ \A i \in DOMAIN pipe : pipe[i].generation # "then"

\* What is published is as fresh as it says and the answer to its own request
\* (telemetry.rs run, lib.rs refresh_snapshot).
TelemetryIsHonest == TelemetryTypeOK /\ AnswersAreHonest /\ ExchangeInStep
=============================================================================
