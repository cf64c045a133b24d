---------------------------- MODULE TransferTask ----------------------------
(***************************************************************************)
(* One transfer task and the mutations of crates/transfers/src/state.rs.   *)
(*                                                                         *)
(* Every Rust method `fn op(&mut self, ...) -> Result<_, _>` becomes two   *)
(* operators: CanOp, the conjunction of its early returns, and Op, the     *)
(* task it leaves behind.  When CanOp is false the method returns an error *)
(* and the caller discards the clone, so the task is unchanged.            *)
(*                                                                         *)
(* An Option<u64> is a natural number or None.                             *)
(* Fields that never change after TransferTask::new are constants indexed  *)
(* by the task id.  Failure reasons, identities and the reported speed are *)
(* left out: no mutation branches on them, except the bound on the speed,  *)
(* whose violation is one more rejected progress report.                   *)
(***************************************************************************)
EXTENDS Integers

CONSTANTS
  TaskIds,          \* task ids; integers, because start order falls back on them
  Profiles,         \* remote profile ids
  ProfileOf,        \* [TaskIds -> Profiles], remote_profile_id()
  MaxAttempts,      \* [TaskIds -> Nat], retry_policy.max_attempts
  InitialBackoff,   \* retry_policy.initial_backoff_ms
  MaxBackoff,       \* retry_policy.max_backoff_ms
  ExpectedSize,     \* [TaskIds -> Option(Nat)], expected_source.size_bytes
  PauseSupported,   \* tasks whose features.pause is Supported
  ResumeSupported   \* tasks whose features.resume is Supported

None == -1

Option(S) == S \cup {None}

\* RetryPolicy::new refuses zero attempts, a zero backoff and an unordered
\* pair of backoffs.
ASSUME TaskAssumption ==
  /\ TaskIds \subseteq Int
  /\ ProfileOf \in [TaskIds -> Profiles]
  /\ MaxAttempts \in [TaskIds -> Nat \ {0}]
  /\ InitialBackoff \in Nat \ {0}
  /\ MaxBackoff \in Nat
  /\ InitialBackoff <= MaxBackoff
  /\ ExpectedSize \in [TaskIds -> Option(Nat)]
  /\ PauseSupported \subseteq TaskIds
  /\ ResumeSupported \subseteq TaskIds

StateKinds == {"Queued", "Running", "Pausing", "Paused", "Cancelling",
               "RetryScheduled", "Conflict", "Completed", "Failed", "Cancelled"}

ActiveKinds == {"Running", "Pausing", "Cancelling"}

Policies == {"Fail", "Overwrite", "Rename", "Resume"}

\* A failure is remembered only as far as is_retryable() tells them apart.
FailureKinds == {"none", "permanent", "retryable"}

Task == [state: StateKinds, checkpoint: Option(Nat), notBefore: Option(Nat),
         failure: FailureKinds, bytes: Nat, total: Option(Nat), attempts: Nat,
         policy: Policies, revision: Nat, generation: Nat,
         createdAt: Nat, updatedAt: Nat]

\* Faulty variant of IsActive: a run being cancelled gives up its place.
IsActiveNotCancelling(t) == t.state \in {"Running", "Pausing"}

IsActive(t) == t.state \in ActiveKinds

-----------------------------------------------------------------------------
NewTask(id, policy, now) ==
  [state |-> "Queued", checkpoint |-> None, notBefore |-> None, failure |-> "none",
   bytes |-> 0, total |-> ExpectedSize[id], attempts |-> 0, policy |-> policy,
   revision |-> 0, generation |-> 0, createdAt |-> now, updatedAt |-> now]

\* Faulty variant of CheckTime: a clock set back is accepted.
CheckTimeAlways(t, now) == now \in Nat

CheckTime(t, now) == now >= t.updatedAt

CheckToken(t, gen) == gen = t.generation

\* Assigning a new TransferState drops the data of the old one; every such
\* assignment is followed by changed(now).
Enter(t, kind, now) ==
  [t EXCEPT !.state = kind, !.checkpoint = None, !.notBefore = None,
            !.failure = "none", !.revision = @ + 1, !.updatedAt = now]

\* Enter together with invalidate_run(): the run that held the token is over.
EndRun(t, kind, now) == [Enter(t, kind, now) EXCEPT !.generation = @ + 1]

\* A missing checkpoint is not checked; None is below every count of bytes.
EnsureCheckpoint(t, checkpoint) == checkpoint <= t.bytes

-----------------------------------------------------------------------------
Startable(t, now) ==
  \/ t.state = "Queued"
  \/ t.state = "RetryScheduled" /\ now >= t.notBefore

CanStart(id, t, now) ==
  /\ CheckTime(t, now)
  /\ Startable(t, now)
  /\ t.attempts < MaxAttempts[id]

\* Faulty variant of Start: the attempt is not counted.
StartUncounted(t, now) == EndRun(t, "Running", now)

Start(t, now) == [EndRun(t, "Running", now) EXCEPT !.attempts = @ + 1]

KnownTotal(t, total) == IF total = None THEN t.total ELSE total

\* Faulty variant of CanRecordProgress: the total is not compared.
CanRecordAnyProgress(t, gen, bytes, total, now) ==
  /\ CheckToken(t, gen)
  /\ CheckTime(t, now)
  /\ t.state \in {"Running", "Pausing"}
  /\ bytes >= t.bytes

CanRecordProgress(t, gen, bytes, total, now) ==
  /\ CheckToken(t, gen)
  /\ CheckTime(t, now)
  /\ t.state \in {"Running", "Pausing"}
  /\ bytes >= t.bytes
  /\ t.total = None \/ total \in {None, t.total}
  /\ KnownTotal(t, total) = None \/ bytes <= KnownTotal(t, total)

\* Faulty variant of RecordProgress: the difference to the last report is
\* stored, taken the wrong way round.
RecordProgressDelta(t, bytes, total, same, now) ==
  [t EXCEPT !.bytes = @ - bytes, !.total = KnownTotal(t, total), !.revision = @ + 1,
            !.updatedAt = now]

\* `same` is the caller's word that the sample equals the stored one in speed
\* and time; only then, and with equal counts, is the task left as it is.
RecordProgress(t, bytes, total, same, now) ==
  IF same /\ bytes = t.bytes /\ KnownTotal(t, total) = t.total
  THEN t
  ELSE [t EXCEPT !.bytes = bytes, !.total = KnownTotal(t, total),
                 !.revision = @ + 1, !.updatedAt = now]

CanRequestPause(id, t, now) ==
  /\ CheckTime(t, now)
  /\ id \in PauseSupported
  /\ t.state \in {"Paused", "Pausing", "Running"}

RequestPause(t, now) ==
  IF t.state = "Running" THEN Enter(t, "Pausing", now) ELSE t

CanConfirmPaused(t, gen, offset, now) ==
  /\ CheckToken(t, gen)
  /\ CheckTime(t, now)
  /\ t.state = "Pausing"
  /\ EnsureCheckpoint(t, offset)

ConfirmPaused(t, offset, now) ==
  [EndRun(t, "Paused", now) EXCEPT !.checkpoint = offset]

CanResume(id, t, now) ==
  /\ CheckTime(t, now)
  /\ id \in ResumeSupported
  /\ t.state \in {"Queued", "Paused"}

Resume(t, now) == IF t.state = "Paused" THEN Enter(t, "Queued", now) ELSE t

CanRequestCancel(t, now) == CheckTime(t, now) /\ t.state # "Completed"

\* A running task is only asked to stop; any other one is cancelled at once
\* and keeps the checkpoint it had (current_checkpoint).
RequestCancel(t, now) ==
  CASE t.state \in {"Cancelled", "Cancelling"} -> t
    [] t.state \in {"Running", "Pausing"} -> Enter(t, "Cancelling", now)
    [] OTHER -> [EndRun(t, "Cancelled", now) EXCEPT !.checkpoint = t.checkpoint]

CanConfirmCancelled(t, gen, checkpoint, now) ==
  /\ CheckToken(t, gen)
  /\ CheckTime(t, now)
  /\ t.state = "Cancelling"
  /\ EnsureCheckpoint(t, checkpoint)

ConfirmCancelled(t, checkpoint, now) ==
  [EndRun(t, "Cancelled", now) EXCEPT !.checkpoint = checkpoint]

CanComplete(t, gen, now) ==
  /\ CheckToken(t, gen)
  /\ CheckTime(t, now)
  /\ t.state = "Running"
  /\ t.total \in {None, t.bytes}

Complete(t, now) == EndRun(t, "Completed", now)

CanFail(t, gen, now) ==
  /\ CheckToken(t, gen)
  /\ CheckTime(t, now)
  /\ t.state \in {"Running", "Pausing"}

\* Faulty variant of Fail: the run token stays valid.
FailKeepsToken(t, failure, now) == [Enter(t, "Failed", now) EXCEPT !.failure = failure]

Fail(t, failure, now) == [EndRun(t, "Failed", now) EXCEPT !.failure = failure]

CanScheduleRetry(id, t, now) ==
  /\ CheckTime(t, now)
  /\ \/ t.state = "RetryScheduled"
     \/ /\ t.state = "Failed"
        /\ t.failure = "retryable"
        /\ t.attempts < MaxAttempts[id]

\* initial * 2^(attempts - 1), capped; the shift itself is capped at 31.
BackoffMs(attempts) ==
  LET exponent == IF attempts = 0 THEN 0 ELSE IF attempts > 32 THEN 31 ELSE attempts - 1
      delay    == InitialBackoff * 2^exponent
  IN  IF delay \in 0..MaxBackoff THEN delay ELSE MaxBackoff

ScheduleRetry(t, now) ==
  IF t.state = "RetryScheduled" THEN t
  ELSE [Enter(t, "RetryScheduled", now)
          EXCEPT !.failure = t.failure, !.notBefore = now + BackoffMs(t.attempts)]

CanEnterConflict(t, gen, checkpoint, now) ==
  CanFail(t, gen, now) /\ EnsureCheckpoint(t, checkpoint)

EnterConflict(t, checkpoint, now) ==
  [EndRun(t, "Conflict", now) EXCEPT !.checkpoint = checkpoint]

CanResolveConflict(id, t, policy, now) ==
  /\ CheckTime(t, now)
  /\ t.state = "Conflict"
  /\ policy = "Resume" => id \in ResumeSupported

ResolveConflict(t, policy, now) == [Enter(t, "Queued", now) EXCEPT !.policy = policy]

\* Faulty variant of Recover: a run that had reported every byte is taken for
\* a completed one.
RecoverOptimistic(t, now) ==
  IF IsActive(t)
  THEN EndRun(t, IF t.bytes = t.total THEN "Completed" ELSE "Failed", now)
  ELSE t

\* Faulty variant of Recover: a run that was cut short goes back to the queue.
RecoverQueued(t, now) == IF IsActive(t) THEN EndRun(t, "Queued", now) ELSE t

\* recover_after_restart: a run cut short by a restart is an unverified,
\* retryable failure, never a completion.
Recover(t, now) ==
  IF IsActive(t) THEN [EndRun(t, "Failed", now) EXCEPT !.failure = "retryable"] ELSE t
=============================================================================
