--------------------------- MODULE NetworkSupervisor ---------------------------
(***************************************************************************)
(* The network supervisor (bins/appd/src/network.rs): an async task that   *)
(* asks a worker thread for a sample every second and publishes it; the    *)
(* worker owns the monitor, which asks the privileged helper for the       *)
(* applications' counters over a pipe (NetworkHelperCollector).            *)
(*                                                                         *)
(* The link dump is NetworkSampler's and the counters NetworkCounters';    *)
(* here they are outcomes.  Generations are "now" or "then": the collector *)
(* only compares a reply's with its own.                                   *)
(***************************************************************************)
EXTENDS Integers, Sequences

CONSTANTS
  FreshFor,          \* FRESH_FOR, in steps of time
  RetainFor          \* RETAIN_STALE_FOR

ASSUME NetworkTimesAssumption == FreshFor \in Nat /\ RetainFor \in Nat /\ FreshFor <= RetainFor

VARIABLES
  task,              \* the async task: "waiting", "asked", "joining", "ended"
  commands,          \* the worker's channel
  thread,            \* the worker: [at, dump, perApp]
  answer,            \* the oneshot of the collection asked for
  collector,         \* NetworkHelperCollector: [capability, session]
  wire,              \* requests and replies in the helper's pipes, by generation
  kept,              \* StoredSnapshot and the age of sampled_at
  stopping           \* the shutdown channel's value

netSupVars == <<task, commands, thread, answer, collector, wire, kept, stopping>>

(* What a dump's rate is to be: NetworkRateState. *)
Dumps == {"Known", "WarmingUp", "Gap"}
Resting(at) == [at |-> at, dump |-> "none", perApp |-> "none"]
NoAnswer == [ok |-> FALSE, dump |-> "none", perApp |-> "none", apps |-> FALSE]
WorkerGone == thread.at \in {"ended", "panicked"}

(* NetworkSnapshot::unavailable. *)
UnavailableSnapshot ==
  [freshness |-> "unknown", system |-> "unreachable", perApp |-> "unsupported",
   data |-> FALSE, apps |-> FALSE, rate |-> FALSE]

NetSupInit ==
  /\ task = "waiting" /\ commands = <<>> /\ thread = Resting("idle") /\ answer = <<>>
  /\ collector \in [capability : {"degraded", "unsupported"}, session : {"none"}]
  /\ wire = <<>> /\ stopping = FALSE
  /\ kept = [snapshot |-> UnavailableSnapshot, sampled |-> FALSE, age |-> 0, failed |-> FALSE]
-----------------------------------------------------------------------------
(* What is published and what a client is shown. *)

Degraded(perApp) == IF perApp = "unsupported" THEN perApp ELSE "degraded"

(* Faulty variant of CollectionFailed: the snapshot in hand keeps its freshness. *)
CollectionFailedQuietly == [kept EXCEPT !.failed = TRUE]

(* publish_failure: the data stay, marked stale and degraded. *)
CollectionFailed ==
  IF ~kept.sampled THEN [kept EXCEPT !.snapshot = UnavailableSnapshot, !.failed = TRUE]
  ELSE [kept EXCEPT !.snapshot.freshness = "stale", !.snapshot.system = "degraded",
                    !.snapshot.perApp = Degraded(@), !.failed = TRUE]

(* publish_success and project_snapshot; a snapshot that does not validate is a failure. *)
Succeeded(a) ==
  IF a.perApp = "unsupported" /\ a.apps THEN CollectionFailed
  ELSE [snapshot |-> [freshness |-> IF a.dump = "WarmingUp" THEN "warming" ELSE "fresh",
                      system |-> IF a.dump = "Known" THEN "healthy" ELSE "degraded",
                      perApp |-> a.perApp, data |-> TRUE, apps |-> a.apps,
                      rate |-> a.dump = "Known"],
        sampled |-> TRUE, age |-> 0, failed |-> FALSE]

(* snapshot_with_current_freshness: what NetworkHandle::snapshot returns now. *)
Shown ==
  IF ~kept.sampled \/ kept.age <= FreshFor THEN kept.snapshot
  ELSE IF kept.age <= RetainFor
       THEN [kept.snapshot EXCEPT !.freshness = "stale", !.system = "degraded",
                                  !.perApp = Degraded(@)]
       ELSE [UnavailableSnapshot EXCEPT !.perApp = Degraded(kept.snapshot.perApp)]

Age ==
  /\ kept.age <= RetainFor /\ kept' = [kept EXCEPT !.age = @ + 1]
  /\ UNCHANGED <<task, commands, thread, answer, collector, wire, stopping>>
-----------------------------------------------------------------------------
(* NetworkSupervisor::run, the task. *)

(* interval.tick: one collection is asked for, or the worker is found gone. *)
TaskTicks ==
  /\ task = "waiting"
  /\ IF WorkerGone THEN kept' = CollectionFailed /\ task' = "joining" /\ UNCHANGED commands
     ELSE commands' = Append(commands, "collect") /\ task' = "asked" /\ UNCHANGED kept
  /\ UNCHANGED <<thread, answer, collector, wire, stopping>>

(* The answer is published and the next tick awaited. *)
TaskPublishes ==
  /\ task = "asked" /\ answer # <<>>
  /\ kept' = IF answer[1].ok THEN Succeeded(answer[1]) ELSE CollectionFailed
  /\ task' = "waiting" /\ answer' = <<>>
  /\ UNCHANGED <<commands, thread, collector, wire, stopping>>

(* The oneshot is dropped unanswered. *)
TaskFindsWorkerDead ==
  /\ task = "asked" /\ answer = <<>> /\ WorkerGone
  /\ kept' = CollectionFailed /\ task' = "joining"
  /\ UNCHANGED <<commands, thread, answer, collector, wire, stopping>>

(* Shutdown is seen waiting for a tick or for the answer; then WorkerCommand::Shutdown. *)
TaskStops ==
  /\ task \in {"waiting", "asked"} /\ stopping
  /\ commands' = Append(commands, "shutdown") /\ task' = "joining" /\ answer' = <<>>
  /\ UNCHANGED <<thread, collector, wire, kept, stopping>>

(* Faulty variant of Joined: the thread is not waited for. *)
JoinedAtOnce == TRUE

(* join_network_worker. *)
Joined == WorkerGone

SamplerTaskEnds ==
  /\ task = "joining" /\ Joined
  /\ kept' = IF thread.at = "panicked" THEN CollectionFailed ELSE kept
  /\ task' = "ended"
  /\ UNCHANGED <<commands, thread, answer, collector, wire, stopping>>

AppdStops ==
  /\ ~stopping /\ stopping' = TRUE
  /\ UNCHANGED <<task, commands, thread, answer, collector, wire, kept>>
-----------------------------------------------------------------------------
(* The worker thread: NetworkMonitor::collect. *)

(* The session is dropped: the helper is killed and reaped (terminate_child). *)
ReplyDropped == [session |-> "none", wire |-> <<>>]

(* Faulty variant of AfterFailure: the session is kept after a failed exchange. *)
AfterFailureKept == [session |-> collector.session, wire |-> wire]

(* NetworkHelperCollector::fail: the session is dropped whatever failed. *)
AfterFailure == ReplyDropped

(* reply.send: nobody reads the answer of a collection that was abandoned. *)
Reply(a) ==
  /\ thread' = Resting("idle")
  /\ answer' = IF task = "asked" THEN <<a>> ELSE <<>>

(* collect_per_application ends: applications only when there are records. *)
Sampled(perApp, apps) ==
  Reply([ok |-> TRUE, dump |-> thread.dump, perApp |-> perApp, apps |-> apps])

(* The thread returns or unwinds: the monitor is dropped, and its session with it. *)
WorkerEnds(at) ==
  /\ thread' = Resting(at) /\ UNCHANGED answer
  /\ collector' = [collector EXCEPT !.session = ReplyDropped.session] /\ wire' = ReplyDropped.wire

WorkerTakes ==
  /\ thread.at = "idle" /\ commands # <<>> /\ commands' = Tail(commands)
  /\ \/ Head(commands) = "shutdown" /\ WorkerEnds("ended")
     \/ /\ Head(commands) = "collect" /\ thread' = Resting("dumping")
        /\ UNCHANGED <<answer, collector, wire>>
  /\ UNCHANGED <<task, kept, stopping>>

WorkerPanics ==
  /\ thread.at \in {"dumping", "bindings", "reply"} /\ WorkerEnds("panicked")
  /\ UNCHANGED <<task, commands, kept, stopping>>

(* The dump (NetworkSampler) fails. *)
DumpErrs ==
  /\ thread.at = "dumping" /\ Reply(NoAnswer)
  /\ UNCHANGED <<task, commands, collector, wire, kept, stopping>>

(* The dump is there; then the capability as it stands before this collection. *)
WorkerDumps ==
  /\ thread.at = "dumping"
  /\ \E dump \in Dumps :
       IF collector.capability = "unsupported"
       THEN Reply([ok |-> TRUE, dump |-> dump, perApp |-> "unsupported", apps |-> FALSE])
       ELSE /\ thread' = [at |-> "bindings", dump |-> dump, perApp |-> collector.capability]
            /\ UNCHANGED answer
  /\ UNCHANGED <<task, commands, collector, wire, kept, stopping>>

CollectorFails(capability) ==
  /\ collector' = [capability |-> capability, session |-> AfterFailure.session]
  /\ wire' = AfterFailure.wire
  /\ Sampled("degraded", FALSE)

(* bindings or ensure_session fails: a missing or rejected helper is never tried again. *)
WorkerCannotAsk ==
  /\ thread.at = "bindings"
  /\ \E capability \in {"degraded", "unsupported"} : CollectorFails(capability)
  /\ UNCHANGED <<task, commands, kept, stopping>>

(* The session, started if there is none, is sent the next generation's request. *)
WorkerRequests ==
  /\ thread.at = "bindings"
  /\ collector' = [collector EXCEPT !.session = IF @ = "none" THEN "open" ELSE @]
  /\ wire' = Append([i \in DOMAIN wire |-> [wire[i] EXCEPT !.gen = "then"]],
                    [kind |-> "request", gen |-> "now"])
  /\ thread' = [thread EXCEPT !.at = "reply"]
  /\ UNCHANGED <<task, commands, answer, kept, stopping>>

(* The helper answers its oldest request, or dies. *)
HelperReplies ==
  /\ collector.session = "open" /\ \E i \in DOMAIN wire : wire[i].kind = "request"
  /\ LET i == CHOOSE j \in DOMAIN wire :
                /\ wire[j].kind = "request"
                /\ \A k \in DOMAIN wire : wire[k].kind = "request" => j <= k
     IN wire' = [wire EXCEPT ![i].kind = "reply"]
  /\ UNCHANGED <<task, commands, thread, answer, collector, kept, stopping>>

HelperDies ==
  /\ collector.session = "open" /\ collector' = [collector EXCEPT !.session = "dead"]
  /\ UNCHANGED <<task, commands, thread, answer, wire, kept, stopping>>

(* exchange timed out, met end of file, a frame or protocol error, or an error reply. *)
WorkerGivesUp ==
  /\ thread.at = "reply" /\ CollectorFails("degraded")
  /\ UNCHANGED <<task, commands, kept, stopping>>

(* A reply: another generation's fails, a snapshot sets the capability for the next sample; *)
(* records that do not add up (aggregate_cgroup_traffic) cost this sample its applications. *)
WorkerReads ==
  /\ thread.at = "reply" /\ wire # <<>> /\ Head(wire).kind = "reply"
  /\ IF Head(wire).gen # "now" THEN CollectorFails("degraded")
     ELSE \E capability \in {"healthy", "degraded", "unsupported"} :
            /\ collector' = [collector EXCEPT !.capability = capability]
            /\ wire' = Tail(wire)
            /\ \/ Sampled(thread.perApp, capability # "unsupported")
               \/ capability # "unsupported" /\ Sampled("degraded", FALSE)
  /\ UNCHANGED <<task, commands, kept, stopping>>

NetSupNext ==
  \/ Age \/ TaskTicks \/ TaskPublishes \/ TaskFindsWorkerDead \/ TaskStops \/ SamplerTaskEnds \/ AppdStops
  \/ WorkerTakes \/ WorkerPanics \/ DumpErrs \/ WorkerDumps \/ WorkerCannotAsk \/ WorkerRequests
  \/ HelperReplies \/ HelperDies \/ WorkerGivesUp \/ WorkerReads

NetSupSpec == NetSupInit /\ [][NetSupNext]_netSupVars
-----------------------------------------------------------------------------
(* Properties. *)

(* Type correctness; at most one collection and the shutdown are in the      *)
(* worker's channel and one message in the helper's pipes.                   *)
NetSupTypeOK ==
  /\ task \in {"waiting", "asked", "joining", "ended"}
  /\ thread.at \in {"idle", "dumping", "bindings", "reply", "ended", "panicked"}
  /\ collector \in [capability : {"healthy", "degraded", "unsupported"},
                    session : {"none", "open", "dead"}]
  /\ Len(commands) <= 2 /\ Len(wire) <= 1 /\ Len(answer) <= 1
  /\ kept.age \in 0..RetainFor + 1

(* A client is never shown old data as fresh: fresh or warming up means the  *)
(* last collection succeeded no more than FRESH_FOR ago, data are shown for  *)
(* at most RETAIN_STALE_FOR, the system's traffic is healthy only with a     *)
(* known rate, and applications are listed only where they are supported     *)
(* (snapshot_with_current_freshness, publish_failure).                       *)
NetworkAnswersAreHonest ==
  /\ Shown.freshness \in {"fresh", "warming"} => kept.age <= FreshFor /\ ~kept.failed
  /\ Shown.data => kept.age <= RetainFor
  /\ Shown.system = "healthy" => Shown.freshness = "fresh" /\ Shown.rate
  /\ Shown.apps => Shown.data /\ Shown.perApp # "unsupported"

(* The collector and its helper stay in step: while a reply is awaited, the  *)
(* pipes hold only this generation's request or reply, because every failed  *)
(* exchange ends the session (NetworkHelperCollector::fail), so the          *)
(* generation check never has to refuse an answer.                           *)
HelperInStep ==
  thread.at = "reply" => \A i \in DOMAIN wire : wire[i].gen = "now"

(* After the supervisor's task has ended, its thread is gone and no helper   *)
(* process is left, also when the stop came in the middle of a collection or *)
(* the thread panicked (join_network_worker, Drop for NetworkHelperSession). *)
WorkerIsJoined == task = "ended" => WorkerGone /\ collector.session = "none"

\* What is published of the network is as fresh as it says and the answer to
\* its own request, and the stop joins the worker (NetworkSupervisor::run).
NetworkIsHonest == NetSupTypeOK /\ NetworkAnswersAreHonest /\ HelperInStep /\ WorkerIsJoined
=============================================================================
