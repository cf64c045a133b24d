----------------------------- MODULE UsageQuery -----------------------------
(***************************************************************************)
(* The usage query slot of bins/appd/src/usage.rs: requests of the IPC     *)
(* server reserve a slot, have the writer checkpoint, hand their query to  *)
(* the query thread and wait; a request that gives up cancels by token;    *)
(* the writer thread shuts the query thread down.                          *)
(*                                                                         *)
(* QueryControl's mutex makes each of its critical sections one step; the  *)
(* atomics around them are steps of their own.                             *)
(***************************************************************************)
EXTENDS Naturals, Sequences, FiniteSets

CONSTANT Queries       \* usage summary requests

Nobody == "nobody"

\* Requests are told apart from the other values of the variables below.
ASSUME QueriesAssumption == Queries \cap {Nobody, "Shutdown", "closed", "several"} = {}

VARIABLES
  busy,        \* QueryClient.busy
  slot,        \* the sync_channel(1) to the query thread
  req,         \* where each request is in summary()
  qctl,        \* QueryControl: current, cancelled, stopping
  qpc, qjob,   \* the query thread and the request it serves
  hit,         \* sqlite3_interrupt reached the statement that runs
  joiner       \* QueryRuntime::shutdown

queryVars == <<busy, slot, req, qctl, qpc, qjob, hit, joiner>>

Go(r, at) == req' = [req EXCEPT ![r] = at]

\* A token belongs to one request, so requests stand for tokens.
Reserve(r) ==
  /\ req[r] = "new" /\ ~busy
  /\ busy' = TRUE
  /\ Go(r, "reserved")
  /\ UNCHANGED <<slot, qctl, qpc, qjob, hit, joiner>>

Refuse(r) ==
  /\ req[r] = "new" /\ busy
  /\ Go(r, "done")
  /\ UNCHANGED <<busy, slot, qctl, qpc, qjob, hit, joiner>>

\* checkpoint_writer fails or times out, or the clock cannot be read: the
\* reservation is released.
CheckpointFails(r) ==
  /\ req[r] = "reserved"
  /\ busy' = FALSE
  /\ Go(r, "done")
  /\ UNCHANGED <<slot, qctl, qpc, qjob, hit, joiner>>

SendReserved(r) ==
  /\ req[r] = "reserved"
  /\ IF qpc = "exited" \/ slot # <<>>
     THEN busy' = FALSE /\ Go(r, "done") /\ UNCHANGED slot
     ELSE slot' = <<r>> /\ Go(r, "waiting") /\ UNCHANGED busy
  /\ UNCHANGED <<qctl, qpc, qjob, hit, joiner>>

\* Faulty variant of GiveUp: the request that gives up frees the slot.
GiveUpReleases(r) ==
  /\ req[r] = "waiting"
  /\ Go(r, "cancelling")
  /\ busy' = FALSE
  /\ qctl' = [qctl EXCEPT !.cancelled = r]
  /\ UNCHANGED <<slot, qpc, qjob, hit, joiner>>

\* The request's own deadline: cancel(token), first half.
GiveUp(r) ==
  /\ req[r] = "waiting"
  /\ Go(r, "cancelling")
  /\ qctl' = [qctl EXCEPT !.cancelled = r]
  /\ UNCHANGED <<busy, slot, qpc, qjob, hit, joiner>>

\* Faulty variant of CancelInterrupts: whatever runs is interrupted.
CancelInterruptsAny(r) ==
  /\ req[r] = "cancelling"
  /\ hit' = (hit \/ qpc = "running")
  /\ Go(r, "done")
  /\ UNCHANGED <<busy, slot, qctl, qpc, qjob, joiner>>

\* cancel(token), second half: under the lock, only the token's own query is
\* interrupted.  sqlite3_interrupt does nothing when no statement runs.
CancelInterrupts(r) ==
  /\ req[r] = "cancelling"
  /\ hit' = (hit \/ (qctl.current = r /\ qpc = "running"))
  /\ Go(r, "done")
  /\ UNCHANGED <<busy, slot, qctl, qpc, qjob, joiner>>

\* The server's deadline, set when the connection was accepted, drops the
\* future: nothing of summary() runs any more.
ServerDeadline(r) ==
  /\ req[r] \in {"reserved", "waiting"}
  /\ Go(r, "done")
  /\ UNCHANGED <<busy, slot, qctl, qpc, qjob, hit, joiner>>

-----------------------------------------------------------------------------
(* query_worker *)

\* Faulty variant of LoopTop: the worker receives without a look at stopping.
LoopTopBlind ==
  /\ qpc = "top"
  /\ qpc' = "receive"
  /\ UNCHANGED <<busy, slot, req, qctl, qjob, hit, joiner>>

LoopTop ==
  /\ qpc = "top"
  /\ qpc' = IF qctl.stopping THEN "leaving" ELSE "receive"
  /\ UNCHANGED <<busy, slot, req, qctl, qjob, hit, joiner>>

Receive ==
  /\ qpc = "receive" /\ slot # <<>>
  /\ slot' = <<>>
  /\ IF Head(slot) = "Shutdown"
     THEN qpc' = "leaving" /\ UNCHANGED qjob
     ELSE qpc' = "begin" /\ qjob' = Head(slot)
  /\ UNCHANGED <<busy, req, qctl, hit, joiner>>

\* begin(): publish the token, then look at stopping and cancelled.
Begin ==
  /\ qpc = "begin"
  /\ qctl' = [qctl EXCEPT !.current = qjob]
  /\ qpc' = "begun"
  /\ UNCHANGED <<busy, slot, req, qjob, hit, joiner>>

BeginChecks ==
  /\ qpc = "begun"
  /\ qpc' = IF qctl.stopping \/ qctl.cancelled = qjob THEN "finish" ELSE "running"
  /\ hit' = FALSE
  /\ UNCHANGED <<busy, slot, req, qctl, qjob, joiner>>

\* build_summary returns: its statements completed or one was interrupted.
SummaryBuilt ==
  /\ qpc = "running"
  /\ qpc' = "finish"
  /\ UNCHANGED <<busy, slot, req, qctl, qjob, hit, joiner>>

Finish ==
  /\ qpc = "finish"
  /\ qctl' = [qctl EXCEPT !.current = IF @ = qjob THEN Nobody ELSE @,
                          !.cancelled = IF @ = qjob THEN Nobody ELSE @]
  /\ qpc' = "release"
  /\ hit' = FALSE
  /\ UNCHANGED <<busy, slot, req, qjob, joiner>>

\* The slot is free before the reply is sent.
ReleaseAndReply ==
  /\ qpc = "release"
  /\ busy' = FALSE
  /\ req' = IF req[qjob] = "waiting" THEN [req EXCEPT ![qjob] = "done"] ELSE req
  /\ qpc' = "top" /\ qjob' = Nobody
  /\ UNCHANGED <<slot, qctl, hit, joiner>>

Leave ==
  /\ qpc = "leaving"
  /\ busy' = FALSE
  /\ qpc' = "exited"
  /\ UNCHANGED <<slot, req, qctl, qjob, hit, joiner>>

-----------------------------------------------------------------------------
(* QueryRuntime::shutdown on the writer thread *)

StopBegins ==
  /\ joiner = "running"
  /\ qctl' = [qctl EXCEPT !.stopping = TRUE]
  /\ joiner' = "stopping"
  /\ UNCHANGED <<busy, slot, req, qpc, qjob, hit>>

StopInterrupts ==
  /\ joiner = "stopping"
  /\ hit' = (hit \/ (qctl.current # Nobody /\ qpc = "running"))
  /\ joiner' = "waking"
  /\ UNCHANGED <<busy, slot, req, qctl, qpc, qjob>>

\* Faulty variant of StopWakes: the wake-up is queued behind what is there.
StopWakesQueues ==
  /\ joiner = "waking"
  /\ slot' = Append(slot, "Shutdown")
  /\ joiner' = "joining"
  /\ UNCHANGED <<busy, req, qctl, qpc, qjob, hit>>

\* try_send: a full queue is left as it is.
StopWakes ==
  /\ joiner = "waking"
  /\ slot' = IF slot = <<>> /\ qpc # "exited" THEN <<"Shutdown">> ELSE slot
  /\ joiner' = "joining"
  /\ UNCHANGED <<busy, req, qctl, qpc, qjob, hit>>

Join ==
  /\ joiner = "joining" /\ qpc = "exited"
  /\ joiner' = "joined"
  /\ UNCHANGED <<busy, slot, req, qctl, qpc, qjob, hit>>

QueryInit ==
  /\ busy = FALSE /\ slot = <<>>
  /\ req = [r \in Queries |-> "new"]
  /\ qctl = [current |-> Nobody, cancelled |-> Nobody, stopping |-> FALSE]
  /\ qpc = "top" /\ qjob = Nobody /\ hit = FALSE /\ joiner = "running"

Request(r) == Reserve(r) \/ Refuse(r) \/ CheckpointFails(r) \/ SendReserved(r) \/ GiveUp(r)
              \/ CancelInterrupts(r) \/ ServerDeadline(r)

QueryThread == LoopTop \/ Receive \/ Begin \/ BeginChecks \/ SummaryBuilt \/ Finish
               \/ ReleaseAndReply \/ Leave

Shutdown == StopBegins \/ StopInterrupts \/ StopWakes \/ Join

QueryNext == (\E r \in Queries : Request(r)) \/ QueryThread \/ Shutdown

QuerySpec == QueryInit /\ [][QueryNext]_queryVars

-----------------------------------------------------------------------------
\* The variables keep their shapes.
QueryTypeOK ==
  /\ busy \in BOOLEAN /\ hit \in BOOLEAN
  /\ req \in [Queries -> {"new", "reserved", "waiting", "cancelling", "done"}]
  /\ qctl \in [current: Queries \cup {Nobody}, cancelled: Queries \cup {Nobody}, stopping: BOOLEAN]
  /\ Len(slot) <= 1
  /\ qpc \in {"top", "receive", "begin", "begun", "running", "finish", "release", "leaving", "exited"}
  /\ qjob \in Queries \cup {Nobody}
  /\ joiner \in {"running", "stopping", "waking", "joining", "joined"}

\* Only a query that was itself given up, or that runs while the thread is
\* being stopped, is interrupted: a late cancel never fails another request.
InterruptsHitTheirQuery ==
  hit => qctl.stopping \/ req[qjob] \in {"cancelling", "done"}

\* Who holds the slot: a request between reserve and send, in the channel, or
\* with the query thread.
Holders == {r \in Queries : req[r] = "reserved" \/ slot = <<r>> \/ qjob = r}

SlotHolder ==
  IF qctl.stopping THEN "closed"
  ELSE IF Holders = {} THEN Nobody
  ELSE IF Cardinality(Holders) = 1 THEN CHOOSE r \in Holders : TRUE ELSE "several"

Slot == INSTANCE BusySlot WITH
  Clients <- Queries, Free <- Nobody, Closed <- "closed", holder <- SlotHolder

\* Until the thread is stopped, the query slot is a busy slot: one request at a
\* time, although the flag is freed before the reply and cancels arrive late.
QueriesOneAtATime == Slot!SlotSpec

\* Shutdown joins the query thread even when the channel is full.
ShutdownJoins == joiner = "stopping" ~> joiner = "joined"

\* Queries keep out of each other's way: one at a time, and an interrupt hits
\* the query it was meant for (QueryControl, query_worker).
QueriesAreApart == []QueryTypeOK /\ []InterruptsHitTheirQuery /\ QueriesOneAtATime
=============================================================================
