------------------------ MODULE TransferQueueProofs ------------------------
(***************************************************************************)
(* Proofs about TransferQueue for every number of tasks, every limit and   *)
(* every retry policy.  Part 1 shows, mutation by mutation, that a task    *)
(* only changes in a valid way.  Part 2 lifts this to the queue: one lemma *)
(* covers every call of mutate(), and the remaining actions (enqueue,      *)
(* start_next, open, crash) are treated one by one.  Part 3 counts: runs   *)
(* against attempts, and honoured tokens against the places of the queue.  *)
(***************************************************************************)
EXTENDS TransferQueue, FiniteSetTheorems, TLAPS

-----------------------------------------------------------------------------
\* What changed() and the assignment of a state do to a task.
Moves(t, u, kind, now) ==
  /\ u \in Task
  /\ u.state = kind
  /\ u.bytes = t.bytes /\ u.total = t.total /\ u.attempts = t.attempts
  /\ u.createdAt = t.createdAt
  /\ u.revision = t.revision + 1 /\ u.updatedAt = now

\* Enter moves the task to the new state without a checkpoint and keeps its
\* generation.
LEMMA EnterFields ==
  ASSUME NEW t \in Task, NEW kind \in StateKinds, NEW now \in Nat
  PROVE  /\ Moves(t, Enter(t, kind, now), kind, now)
         /\ Enter(t, kind, now).checkpoint = None
         /\ Enter(t, kind, now).generation = t.generation
<1>1. t.revision + 1 \in Nat
  BY DEF Task
<1>2. None \in Option(Nat) /\ "none" \in FailureKinds
  BY DEF Option, FailureKinds
<1>3. Enter(t, kind, now) \in Task
  BY <1>1, <1>2 DEF Enter, Task
<1>4. /\ Enter(t, kind, now).generation = t.generation
      /\ Enter(t, kind, now).state = kind
      /\ Enter(t, kind, now).checkpoint = None
      /\ Enter(t, kind, now).bytes = t.bytes
      /\ Enter(t, kind, now).total = t.total
      /\ Enter(t, kind, now).attempts = t.attempts
      /\ Enter(t, kind, now).createdAt = t.createdAt
      /\ Enter(t, kind, now).revision = t.revision + 1
      /\ Enter(t, kind, now).updatedAt = now
  BY DEF Enter, Task
<1> QED
  BY <1>3, <1>4 DEF Moves

\* EndRun moreover moves the generation on (invalidate_run()).
LEMMA EndRunFields ==
  ASSUME NEW t \in Task, NEW kind \in StateKinds, NEW now \in Nat
  PROVE  /\ Moves(t, EndRun(t, kind, now), kind, now)
         /\ EndRun(t, kind, now).checkpoint = None
         /\ EndRun(t, kind, now).generation = t.generation + 1
<1> DEFINE u == Enter(t, kind, now)
           v == EndRun(t, kind, now)
<1>1. Moves(t, u, kind, now) /\ u.checkpoint = None /\ u.generation = t.generation
  BY EnterFields
<1>2. v = [u EXCEPT !.generation = u.generation + 1]
  BY DEF EndRun
<1> HIDE DEF u, v
<1>3. u \in Task /\ u.generation + 1 \in Nat
  BY <1>1 DEF Task, Moves
<1>4. v \in Task /\ v.generation = u.generation + 1
  BY <1>2, <1>3 DEF Task
<1>5. /\ v.state = u.state /\ v.checkpoint = u.checkpoint
      /\ v.bytes = u.bytes /\ v.total = u.total
      /\ v.attempts = u.attempts /\ v.createdAt = u.createdAt
      /\ v.revision = u.revision /\ v.updatedAt = u.updatedAt
  BY <1>2, <1>3 DEF Task
<1>6. Moves(t, v, kind, now) /\ v.checkpoint = None /\ v.generation = t.generation + 1
  BY <1>1, <1>4, <1>5 DEF Moves
<1> QED
  BY <1>6 DEF v

\* Giving a moved task a checkpoint leaves it moved.
LEMMA WithCheckpoint ==
  ASSUME NEW t \in Task, NEW v, NEW kind \in StateKinds, NEW now \in Nat,
         Moves(t, v, kind, now), NEW checkpoint \in Option(Nat),
         NEW u, u = [v EXCEPT !.checkpoint = checkpoint]
  PROVE  Moves(t, u, kind, now) /\ u.checkpoint = checkpoint /\ u.generation = v.generation
<1> v \in Task
  BY DEF Moves
<1> QED
  BY DEF Moves, Task

\* So does giving it a failure.
LEMMA WithFailure ==
  ASSUME NEW t \in Task, NEW v, NEW kind \in StateKinds, NEW now \in Nat,
         Moves(t, v, kind, now), NEW failure \in FailureKinds,
         NEW u, u = [v EXCEPT !.failure = failure]
  PROVE  Moves(t, u, kind, now) /\ u.checkpoint = v.checkpoint /\ u.generation = v.generation
<1> v \in Task
  BY DEF Moves
<1> QED
  BY DEF Moves, Task

-----------------------------------------------------------------------------
\* What every mutation other than start does to a task.
ValidChange(id, old, new) ==
  /\ new \in Task
  /\ Succeeds(old, new)
  /\ HonestRow(id, old) => HonestRow(id, new)
  /\ new.state = "Completed" => old.state \in {"Completed", "Running"}
  /\ IsActive(new) => IsActive(old) /\ new.generation = old.generation
  /\ IsActive(old) /\ ~IsActive(new) => new.generation > old.generation

\* Leaving a task alone is a valid change.
LEMMA SameIsValid ==
  ASSUME NEW id \in TaskIds, NEW t \in Task
  PROVE  ValidChange(id, t, t)
BY DEF ValidChange, Succeeds

\* A move is valid when it leaves no terminal state, ends a run exactly when
\* it moves the generation on, and claims no more than the progress covers.
LEMMA MoveIsValid ==
  ASSUME NEW id \in TaskIds, NEW t \in Task, NEW u, NEW now \in Nat, NEW kind \in StateKinds,
         Moves(t, u, kind, now), CheckTime(t, now),
         t.state \notin {"Completed", "Cancelled"},
         HonestRow(id, t) => u.checkpoint <= t.bytes,
         kind = "Completed" => t.state = "Running" /\ t.total \in {None, t.bytes},
         kind = "RetryScheduled" => u.failure = "retryable" /\ t.attempts < MaxAttempts[id],
         u.generation \in {t.generation, t.generation + 1},
         kind \in ActiveKinds => IsActive(t) /\ u.generation = t.generation,
         IsActive(t) /\ kind \notin ActiveKinds => u.generation = t.generation + 1
  PROVE  ValidChange(id, t, u)
<1>1. /\ t.revision \in Nat /\ t.generation \in Nat /\ t.bytes \in Nat /\ t.attempts \in Nat
      /\ t.updatedAt \in Nat /\ u \in Task
  BY DEF Task, Moves
<1>2. Succeeds(t, u)
  BY <1>1 DEF Succeeds, CheckTime, Moves
<1>3. HonestRow(id, t) => HonestRow(id, u)
  BY <1>1 DEF HonestRow, Moves
<1> QED
  BY <1>1, <1>2, <1>3 DEF ValidChange, IsActive, Moves

\* A delay is a natural number, whatever the number of attempts.
LEMMA BackoffType ==
  ASSUME NEW n \in Nat
  PROVE  BackoffMs(n) \in Nat
BY TaskAssumption DEF BackoffMs

\* record_progress only adds bytes, within the known total.
LEMMA ProgressIsValid ==
  ASSUME NEW id \in TaskIds, NEW t \in Task, NEW now \in Nat, NEW gen, NEW same,
         NEW bytes \in Nat, NEW total \in Option(Nat),
         CanRecordProgress(t, gen, bytes, total, now)
  PROVE  ValidChange(id, t, RecordProgress(t, bytes, total, same, now))
<1> DEFINE known == KnownTotal(t, total)
           u == [t EXCEPT !.bytes = bytes, !.total = known,
                          !.revision = t.revision + 1, !.updatedAt = now]
<1>1. CASE same /\ bytes = t.bytes /\ known = t.total
  BY <1>1, SameIsValid DEF RecordProgress
<1>2. CASE ~(same /\ bytes = t.bytes /\ known = t.total)
  <2>1. RecordProgress(t, bytes, total, same, now) = u
    BY <1>2 DEF RecordProgress
  <2>2. known \in Option(Nat) /\ t.revision + 1 \in Nat
    BY DEF KnownTotal, Task
  <2>3. known = None \/ bytes <= known
    BY DEF CanRecordProgress
  <2>4. t.total # None => known = t.total
    BY DEF CanRecordProgress, KnownTotal
  <2> HIDE DEF known
  <2>5. u \in Task
    BY <2>2 DEF Task
  <2>6. /\ u.bytes = bytes /\ u.total = known /\ u.revision = t.revision + 1
        /\ u.updatedAt = now /\ u.state = t.state /\ u.checkpoint = t.checkpoint
        /\ u.attempts = t.attempts /\ u.generation = t.generation
        /\ u.createdAt = t.createdAt /\ u.failure = t.failure
    BY DEF Task
  <2>7. /\ t.revision \in Nat /\ t.bytes \in Nat /\ t.updatedAt \in Nat
        /\ t.generation \in Nat /\ t.attempts \in Nat /\ t.checkpoint \in Int
    BY DEF Task, Option, None
  <2>8. /\ bytes >= t.bytes /\ t.state \in {"Running", "Pausing"} /\ now >= t.updatedAt
    BY DEF CanRecordProgress, CheckTime
  <2> HIDE DEF u
  <2>9. Succeeds(t, u)
    BY <2>4, <2>6, <2>7, <2>8 DEF Succeeds
  <2>10. HonestRow(id, t) => HonestRow(id, u)
    BY <2>3, <2>6, <2>7, <2>8 DEF HonestRow
  <2> QED
    BY <2>1, <2>5, <2>6, <2>8, <2>9, <2>10 DEF ValidChange, IsActive
<1> QED
  BY <1>1, <1>2

\* request_pause marks a run and keeps it going.
LEMMA PauseIsValid ==
  ASSUME NEW id \in TaskIds, NEW t \in Task, NEW now \in Nat, CanRequestPause(id, t, now)
  PROVE  ValidChange(id, t, RequestPause(t, now))
<1>1. CASE t.state = "Running"
  <2>1. RequestPause(t, now) = Enter(t, "Pausing", now)
    BY <1>1 DEF RequestPause
  <2>2. t.bytes \in Nat
    BY DEF Task
  <2>3. CheckTime(t, now)
    BY DEF CanRequestPause
  <2> QED
    BY <1>1, <2>1, <2>2, <2>3, EnterFields, MoveIsValid, SMTT(40)
       DEF StateKinds, ActiveKinds, IsActive, None
<1>2. CASE t.state # "Running"
  BY <1>2, SameIsValid DEF RequestPause
<1> QED
  BY <1>1, <1>2

\* confirm_paused ends the run at a checkpoint the progress covers.
LEMMA ConfirmPausedIsValid ==
  ASSUME NEW id \in TaskIds, NEW t \in Task, NEW now \in Nat, NEW gen, NEW offset \in Nat,
         CanConfirmPaused(t, gen, offset, now)
  PROVE  ValidChange(id, t, ConfirmPaused(t, offset, now))
<1> DEFINE v == EndRun(t, "Paused", now)
           u == ConfirmPaused(t, offset, now)
<1>1. Moves(t, v, "Paused", now) /\ v.generation = t.generation + 1
  BY EndRunFields DEF StateKinds
<1>2. u = [v EXCEPT !.checkpoint = offset]
  BY DEF ConfirmPaused
<1> HIDE DEF v, u
<1>3. Moves(t, u, "Paused", now) /\ u.checkpoint = offset /\ u.generation = v.generation
  BY <1>1, <1>2, WithCheckpoint DEF Option, StateKinds
<1>4. CheckTime(t, now) /\ t.state = "Pausing" /\ offset <= t.bytes
  BY DEF CanConfirmPaused, EnsureCheckpoint
<1>5. ValidChange(id, t, u)
  BY <1>1, <1>3, <1>4, MoveIsValid DEF StateKinds, ActiveKinds, IsActive
<1> QED
  BY <1>5 DEF u

\* resume puts a paused task back into the queue.
LEMMA ResumeIsValid ==
  ASSUME NEW id \in TaskIds, NEW t \in Task, NEW now \in Nat, CanResume(id, t, now)
  PROVE  ValidChange(id, t, Resume(t, now))
<1>1. CASE t.state = "Paused"
  <2>1. Resume(t, now) = Enter(t, "Queued", now)
    BY <1>1 DEF Resume
  <2>2. t.bytes \in Nat
    BY DEF Task
  <2>3. CheckTime(t, now)
    BY DEF CanResume
  <2> QED
    BY <1>1, <2>1, <2>2, <2>3, EnterFields, MoveIsValid, SMTT(40)
       DEF StateKinds, ActiveKinds, IsActive, None
<1>2. CASE t.state # "Paused"
  BY <1>2, SameIsValid DEF Resume
<1> QED
  BY <1>1, <1>2

\* request_cancel asks a run to stop and cancels any other task at once,
\* keeping the checkpoint it had.
LEMMA CancelIsValid ==
  ASSUME NEW id \in TaskIds, NEW t \in Task, NEW now \in Nat, CanRequestCancel(t, now)
  PROVE  ValidChange(id, t, RequestCancel(t, now))
<1> DEFINE v == EndRun(t, "Cancelled", now)
           u == [v EXCEPT !.checkpoint = t.checkpoint]
<1>1. CheckTime(t, now) /\ t.state # "Completed" /\ t.bytes \in Nat
      /\ t.checkpoint \in Option(Nat) /\ t.state \in StateKinds
  BY DEF CanRequestCancel, Task
<1>2. CASE t.state \in {"Cancelled", "Cancelling"}
  BY <1>2, SameIsValid DEF RequestCancel
<1>3. CASE t.state \in {"Running", "Pausing"}
  <2>1. RequestCancel(t, now) = Enter(t, "Cancelling", now)
    BY <1>3 DEF RequestCancel
  <2> QED
    BY <1>1, <1>3, <2>1, EnterFields, MoveIsValid DEF StateKinds, ActiveKinds, IsActive, None
<1>4. CASE t.state \notin {"Cancelled", "Cancelling", "Running", "Pausing"}
  <2>1. RequestCancel(t, now) = u
    BY <1>4 DEF RequestCancel
  <2>2. Moves(t, v, "Cancelled", now) /\ v.generation = t.generation + 1
    BY EndRunFields DEF StateKinds
  <2> HIDE DEF v
  <2>3. Moves(t, u, "Cancelled", now) /\ u.checkpoint = t.checkpoint
        /\ u.generation = t.generation + 1
    BY <1>1, <2>2, WithCheckpoint DEF StateKinds
  <2> HIDE DEF u
  <2>4. ~IsActive(t)
    BY <1>4 DEF IsActive, ActiveKinds
  <2>5. HonestRow(id, t) => u.checkpoint <= t.bytes
    BY <2>3 DEF HonestRow
  <2>6. ValidChange(id, t, u)
    BY <1>1, <1>4, <2>3, <2>4, <2>5, MoveIsValid DEF StateKinds, ActiveKinds
  <2> QED
    BY <2>1, <2>6
<1> QED
  BY <1>2, <1>3, <1>4

\* confirm_cancelled ends the run.
LEMMA ConfirmCancelledIsValid ==
  ASSUME NEW id \in TaskIds, NEW t \in Task, NEW now \in Nat, NEW gen,
         NEW checkpoint \in Option(Nat), CanConfirmCancelled(t, gen, checkpoint, now)
  PROVE  ValidChange(id, t, ConfirmCancelled(t, checkpoint, now))
<1> DEFINE v == EndRun(t, "Cancelled", now)
           u == ConfirmCancelled(t, checkpoint, now)
<1>1. Moves(t, v, "Cancelled", now) /\ v.generation = t.generation + 1
  BY EndRunFields DEF StateKinds
<1>2. u = [v EXCEPT !.checkpoint = checkpoint]
  BY DEF ConfirmCancelled
<1> HIDE DEF v, u
<1>3. Moves(t, u, "Cancelled", now) /\ u.checkpoint = checkpoint /\ u.generation = v.generation
  BY <1>1, <1>2, WithCheckpoint DEF StateKinds
<1>4. CheckTime(t, now) /\ t.state = "Cancelling" /\ checkpoint <= t.bytes
  BY DEF CanConfirmCancelled, EnsureCheckpoint
<1>5. ValidChange(id, t, u)
  BY <1>1, <1>3, <1>4, MoveIsValid DEF StateKinds, ActiveKinds, IsActive
<1> QED
  BY <1>5 DEF u

\* complete ends a run that has moved every byte of a known total.
LEMMA CompleteIsValid ==
  ASSUME NEW id \in TaskIds, NEW t \in Task, NEW now \in Nat, NEW gen, CanComplete(t, gen, now)
  PROVE  ValidChange(id, t, Complete(t, now))
<1>1. CheckTime(t, now) /\ t.state = "Running" /\ t.total \in {None, t.bytes} /\ t.bytes \in Nat
  BY DEF CanComplete, Task
<1> QED
  BY <1>1, EndRunFields, MoveIsValid DEF Complete, StateKinds, ActiveKinds, IsActive, None

\* fail ends the run.
LEMMA FailIsValid ==
  ASSUME NEW id \in TaskIds, NEW t \in Task, NEW now \in Nat, NEW gen,
         NEW failure \in FailureKinds, CanFail(t, gen, now)
  PROVE  ValidChange(id, t, Fail(t, failure, now))
<1> DEFINE v == EndRun(t, "Failed", now)
           u == Fail(t, failure, now)
<1>1. Moves(t, v, "Failed", now) /\ v.checkpoint = None /\ v.generation = t.generation + 1
  BY EndRunFields DEF StateKinds
<1>2. u = [v EXCEPT !.failure = failure]
  BY DEF Fail
<1> HIDE DEF v, u
<1>3. Moves(t, u, "Failed", now) /\ u.checkpoint = None /\ u.generation = t.generation + 1
  BY <1>1, <1>2, WithFailure DEF StateKinds
<1>4. CheckTime(t, now) /\ t.state \in {"Running", "Pausing"} /\ t.bytes \in Nat
  BY DEF CanFail, Task
<1>5. ValidChange(id, t, u)
  BY <1>3, <1>4, MoveIsValid DEF StateKinds, ActiveKinds, IsActive, None
<1> QED
  BY <1>5 DEF u

\* schedule_retry keeps a failed task waiting, with attempts left.
LEMMA RetryIsValid ==
  ASSUME NEW id \in TaskIds, NEW t \in Task, NEW now \in Nat, CanScheduleRetry(id, t, now)
  PROVE  ValidChange(id, t, ScheduleRetry(t, now))
<1> DEFINE v == Enter(t, "RetryScheduled", now)
           at == now + BackoffMs(t.attempts)
           u == [v EXCEPT !.failure = t.failure, !.notBefore = at]
<1>1. CASE t.state = "RetryScheduled"
  BY <1>1, SameIsValid DEF ScheduleRetry
<1>2. CASE t.state # "RetryScheduled"
  <2>1. ScheduleRetry(t, now) = u
    BY <1>2 DEF ScheduleRetry
  <2>2. Moves(t, v, "RetryScheduled", now) /\ v.checkpoint = None /\ v.generation = t.generation
    BY EnterFields DEF StateKinds
  <2>3. at \in Option(Nat) /\ t.failure \in FailureKinds /\ v \in Task /\ t.bytes \in Nat
    <3>1. BackoffMs(t.attempts) \in Nat
      BY BackoffType DEF Task
    <3> QED
      BY <2>2, <3>1 DEF Option, Task, Moves
  <2> HIDE DEF v, at
  <2>4. u \in Task
    BY <2>3 DEF Task
  <2>5. /\ Moves(t, u, "RetryScheduled", now) /\ u.checkpoint = None
        /\ u.generation = t.generation /\ u.failure = t.failure
    BY <2>2, <2>3, <2>4 DEF Moves, Task
  <2>6. /\ CheckTime(t, now) /\ t.state = "Failed" /\ t.failure = "retryable"
        /\ t.attempts < MaxAttempts[id]
    BY <1>2 DEF CanScheduleRetry
  <2> HIDE DEF u
  <2>7. ValidChange(id, t, u)
    BY <2>3, <2>5, <2>6, MoveIsValid DEF StateKinds, ActiveKinds, IsActive, None
  <2> QED
    BY <2>1, <2>7
<1> QED
  BY <1>1, <1>2

\* enter_conflict ends the run.
LEMMA ConflictIsValid ==
  ASSUME NEW id \in TaskIds, NEW t \in Task, NEW now \in Nat, NEW gen,
         NEW checkpoint \in Option(Nat), CanEnterConflict(t, gen, checkpoint, now)
  PROVE  ValidChange(id, t, EnterConflict(t, checkpoint, now))
<1> DEFINE v == EndRun(t, "Conflict", now)
           u == EnterConflict(t, checkpoint, now)
<1>1. Moves(t, v, "Conflict", now) /\ v.generation = t.generation + 1
  BY EndRunFields DEF StateKinds
<1>2. u = [v EXCEPT !.checkpoint = checkpoint]
  BY DEF EnterConflict
<1> HIDE DEF v, u
<1>3. Moves(t, u, "Conflict", now) /\ u.checkpoint = checkpoint /\ u.generation = v.generation
  BY <1>1, <1>2, WithCheckpoint DEF StateKinds
<1>4. CheckTime(t, now) /\ t.state \in {"Running", "Pausing"} /\ checkpoint <= t.bytes
  BY DEF CanEnterConflict, CanFail, EnsureCheckpoint
<1>5. ValidChange(id, t, u)
  BY <1>1, <1>3, <1>4, MoveIsValid DEF StateKinds, ActiveKinds, IsActive
<1> QED
  BY <1>5 DEF u

\* resolve_conflict puts the task back into the queue under a new policy.
LEMMA ResolveIsValid ==
  ASSUME NEW id \in TaskIds, NEW t \in Task, NEW now \in Nat, NEW policy \in Policies,
         CanResolveConflict(id, t, policy, now)
  PROVE  ValidChange(id, t, ResolveConflict(t, policy, now))
<1> DEFINE v == Enter(t, "Queued", now)
           u == ResolveConflict(t, policy, now)
<1>1. Moves(t, v, "Queued", now) /\ v.checkpoint = None /\ v.generation = t.generation
  BY EnterFields DEF StateKinds
<1>2. u = [v EXCEPT !.policy = policy]
  BY DEF ResolveConflict
<1> HIDE DEF v, u
<1>3. Moves(t, u, "Queued", now) /\ u.checkpoint = None /\ u.generation = t.generation
  <2> v \in Task
    BY <1>1 DEF Moves
  <2> QED
    BY <1>1, <1>2 DEF Moves, Task
<1>4. CheckTime(t, now) /\ t.state = "Conflict" /\ t.bytes \in Nat
  BY DEF CanResolveConflict, Task
<1>5. ValidChange(id, t, u)
  BY <1>3, <1>4, MoveIsValid DEF StateKinds, ActiveKinds, IsActive, None
<1> QED
  BY <1>5 DEF u

\* recover_after_restart turns an interrupted run into a failure.
LEMMA RecoverIsValid ==
  ASSUME NEW id \in TaskIds, NEW t \in Task, NEW now \in Nat, CheckTime(t, now)
  PROVE  ValidChange(id, t, Recover(t, now)) /\ ~IsActive(Recover(t, now))
<1> DEFINE v == EndRun(t, "Failed", now)
           u == [v EXCEPT !.failure = "retryable"]
<1>1. CASE ~IsActive(t)
  BY <1>1, SameIsValid DEF Recover
<1>2. CASE IsActive(t)
  <2>1. Recover(t, now) = u
    BY <1>2 DEF Recover
  <2>2. Moves(t, v, "Failed", now) /\ v.checkpoint = None /\ v.generation = t.generation + 1
    BY EndRunFields DEF StateKinds
  <2> HIDE DEF v
  <2>3. Moves(t, u, "Failed", now) /\ u.checkpoint = None /\ u.generation = t.generation + 1
    BY <2>2, WithFailure DEF StateKinds, FailureKinds
  <2> HIDE DEF u
  <2>4. t.bytes \in Nat /\ t.state \in ActiveKinds
    BY <1>2 DEF Task, IsActive
  <2>5. ValidChange(id, t, u)
    BY <2>3, <2>4, MoveIsValid DEF StateKinds, ActiveKinds, None
  <2>6. ~IsActive(u)
    BY <2>3 DEF IsActive, ActiveKinds, Moves
  <2> QED
    BY <2>1, <2>5, <2>6
<1> QED
  BY <1>1, <1>2

\* start opens a run under a fresh generation and uses up an attempt.
LEMMA StartIsValid ==
  ASSUME NEW id \in TaskIds, NEW t \in Task, NEW now \in Nat, CanStart(id, t, now),
         NEW u, u = Start(t, now)
  PROVE  /\ u \in Task
         /\ Succeeds(t, u)
         /\ HonestRow(id, t) => HonestRow(id, u)
         /\ ~IsActive(t) /\ IsActive(u) /\ u.state # "Completed"
         /\ u.generation = t.generation + 1
         /\ u.revision # t.revision
<1> DEFINE v == EndRun(t, "Running", now)
<1>1. Moves(t, v, "Running", now) /\ v.checkpoint = None /\ v.generation = t.generation + 1
  BY EndRunFields DEF StateKinds
<1>2. u = [v EXCEPT !.attempts = v.attempts + 1]
  BY DEF Start
<1> HIDE DEF v
<1>3. v \in Task /\ v.attempts + 1 \in Nat
  BY <1>1 DEF Moves, Task
<1>4. u \in Task
  BY <1>2, <1>3 DEF Task
<1>5. /\ u.state = v.state /\ u.checkpoint = v.checkpoint /\ u.bytes = v.bytes
      /\ u.total = v.total /\ u.attempts = v.attempts + 1 /\ u.createdAt = v.createdAt
      /\ u.revision = v.revision /\ u.updatedAt = v.updatedAt /\ u.generation = v.generation
  BY <1>2, <1>3 DEF Task
<1>6. /\ u.state = "Running" /\ u.checkpoint = None /\ u.bytes = t.bytes
      /\ u.total = t.total /\ u.attempts = t.attempts + 1 /\ u.createdAt = t.createdAt
      /\ u.revision = t.revision + 1 /\ u.updatedAt = now /\ u.generation = t.generation + 1
  BY <1>1, <1>5 DEF Moves
<1>7. /\ t.state \in {"Queued", "RetryScheduled"} /\ now >= t.updatedAt
      /\ t.attempts < MaxAttempts[id]
  BY DEF CanStart, CheckTime, Startable
<1>8. /\ t.revision \in Nat /\ t.bytes \in Nat /\ t.generation \in Nat /\ t.attempts \in Nat
      /\ t.updatedAt \in Nat /\ MaxAttempts[id] \in Nat
  BY TaskAssumption DEF Task
<1>9. Succeeds(t, u)
  BY <1>6, <1>7, <1>8 DEF Succeeds
<1>10. HonestRow(id, t) => HonestRow(id, u)
  BY <1>6, <1>7, <1>8 DEF HonestRow, None
<1> QED
  BY <1>4, <1>6, <1>7, <1>8, <1>9, <1>10 DEF IsActive, ActiveKinds

\* A new task is queued, empty and honest.
LEMMA NewIsValid ==
  ASSUME NEW id \in TaskIds, NEW policy \in Policies, NEW now \in Nat
  PROVE  /\ NewTask(id, policy, now) \in Task
         /\ HonestRow(id, NewTask(id, policy, now))
         /\ ~IsActive(NewTask(id, policy, now))
<1>1. ExpectedSize[id] \in Option(Nat) /\ MaxAttempts[id] \in Nat \ {0}
  BY TaskAssumption
<1>2. None \in Option(Nat) /\ "none" \in FailureKinds /\ "Queued" \in StateKinds
  BY DEF Option, FailureKinds, StateKinds
<1>3. NewTask(id, policy, now) \in Task
  BY <1>1, <1>2 DEF NewTask, Task
<1>4. HonestRow(id, NewTask(id, policy, now))
  BY <1>1 DEF NewTask, HonestRow, None, Option
<1>5. ~IsActive(NewTask(id, policy, now))
  BY DEF NewTask, IsActive, ActiveKinds
<1> QED
  BY <1>3, <1>4, <1>5

-----------------------------------------------------------------------------
\* Until open() is through, nobody holds a token and no recovered task is
\* active.
QuietUntilOpen ==
  phase # "open" => issued = {} /\ \A id \in DOMAIN tasks : ~IsActive(tasks[id])

\* The inductive invariant.
IInv ==
  /\ TypeOK
  /\ MemoryMatchesStore
  /\ TokenDiscipline
  /\ HonestRecords
  /\ QuietUntilOpen

\* What a step may do to the table.
GoodStep == RowsAdvance /\ CompletionWitness

\* Put of a task that is already there replaces it.
LEMMA ReplaceFacts ==
  ASSUME NEW f, f \in [DOMAIN f -> Task], DOMAIN f \subseteq TaskIds,
         NEW id \in DOMAIN f, NEW t \in Task, NEW g, g = Put(f, id, t)
  PROVE  /\ DOMAIN g = DOMAIN f
         /\ g \in [DOMAIN g -> Task]
         /\ g[id] = t
         /\ \A x \in DOMAIN f : x # id => g[x] = f[x]
<1>1. DOMAIN f \cup {id} = DOMAIN f /\ id \in TaskIds
  OBVIOUS
<1> QED
  BY <1>1 DEF Put

\* A step that leaves the table alone is good.
LEMMA SameStoreIsGood ==
  ASSUME TypeOK, UNCHANGED store
  PROVE  GoodStep
BY DEF GoodStep, RowsAdvance, CompletionWitness, Succeeds

\* A step that leaves the map, the table and the tokens alone keeps IInv.
LEMMA SameTasksKeep ==
  ASSUME IInv, UNCHANGED <<phase, tasks, store, issued>>, clock' \in 0..MaxTime
  PROVE  IInv'
BY DEF IInv, TypeOK, MemoryMatchesStore, TokenDiscipline, HonestRecords, QuietUntilOpen, Honoured

\* Every valid change made through mutate() keeps the invariant.
LEMMA CallKeeps ==
  ASSUME IInv, NEW id \in TaskIds, Open(id), NEW t,
         ValidChange(id, tasks[id], t), Call(id, t)
  PROVE  IInv' /\ GoodStep
<1> USE DEF Call, Open
<1>1. CASE UNCHANGED <<tasks, store>>
  <2>1. clock' \in 0..MaxTime
    BY DEF IInv, TypeOK
  <2> QED
    BY <1>1, <2>1, SameTasksKeep, SameStoreIsGood DEF IInv
<1>2. CASE ~UNCHANGED <<tasks, store>>
  <2>1. /\ t.revision # tasks[id].revision
        /\ id \in DOMAIN store
        /\ store' = Put(store, id, t) /\ tasks' = Put(tasks, id, t)
        /\ UNCHANGED <<clock, phase, issued>>
    BY <1>2 DEF Mutate, CompareAndSwap
  <2>2. t \in Task
    BY DEF ValidChange
  <2>3. /\ tasks \in [DOMAIN tasks -> Task] /\ DOMAIN tasks \subseteq TaskIds
        /\ store \in [DOMAIN store -> Task] /\ DOMAIN store \subseteq TaskIds
        /\ DOMAIN tasks = DOMAIN store /\ tasks[id] = store[id]
        /\ \A x \in DOMAIN tasks : tasks[x] = store[x]
    BY DEF IInv, TypeOK, MemoryMatchesStore
  <2>4. /\ DOMAIN tasks' = DOMAIN tasks /\ tasks' \in [DOMAIN tasks' -> Task]
        /\ tasks'[id] = t
        /\ \A x \in DOMAIN tasks : x # id => tasks'[x] = tasks[x]
    BY <2>1, <2>2, <2>3, ReplaceFacts
  <2>5. /\ DOMAIN store' = DOMAIN store /\ store' \in [DOMAIN store' -> Task]
        /\ store'[id] = t
        /\ \A x \in DOMAIN store : x # id => store'[x] = store[x]
    BY <2>1, <2>2, <2>3, ReplaceFacts
  <2>6. TypeOK'
    BY <2>1, <2>3, <2>4, <2>5 DEF IInv, TypeOK
  <2>7. MemoryMatchesStore'
    BY <2>1, <2>3, <2>4, <2>5 DEF MemoryMatchesStore
  <2>8. HonestRecords'
    BY <2>3, <2>5 DEF IInv, HonestRecords, ValidChange
  <2>9. QuietUntilOpen'
    BY <2>1 DEF QuietUntilOpen
  <2>10. TokenDiscipline'
    <3>1. t.generation \in Nat /\ store[id].generation \in Nat /\ t.generation >= store[id].generation
      BY <2>1, <2>2, <2>3 DEF ValidChange, Succeeds, Task
    <3>2. /\ IsActive(t) => IsActive(store[id]) /\ t.generation = store[id].generation
          /\ IsActive(store[id]) /\ ~IsActive(t) => t.generation > store[id].generation
      BY <2>3 DEF ValidChange
    <3>3. ASSUME NEW k \in issued
          PROVE  /\ k.id \in DOMAIN store'
                 /\ k.gen <= store'[k.id].generation
                 /\ k.gen = store'[k.id].generation => IsActive(store'[k.id])
      <4>1. k.gen \in Nat
        BY DEF IInv, TypeOK, Token
      <4>2. /\ k.id \in DOMAIN store /\ k.gen <= store[k.id].generation
            /\ k.gen = store[k.id].generation => IsActive(store[k.id])
        BY DEF IInv, TokenDiscipline, Honoured
      <4> QED
        BY <2>5, <3>1, <3>2, <4>1, <4>2
    <3>4. ASSUME NEW x \in DOMAIN store', IsActive(store'[x])
          PROVE  [id |-> x, gen |-> store'[x].generation] \in issued
      BY <2>1, <2>5, <3>2, <3>4 DEF IInv, TokenDiscipline
    <3> QED
      BY <2>1, <3>3, <3>4 DEF TokenDiscipline, Honoured
  <2>11. RowsAdvance
    BY <2>3, <2>5 DEF RowsAdvance, ValidChange, Succeeds
  <2>12. CompletionWitness
    <3>1. ASSUME NEW x \in DOMAIN store, store'[x].state = "Completed", store[x].state # "Completed"
          PROVE  store[x].state = "Running"
      BY <2>3, <2>5, <3>1 DEF ValidChange
    <3> QED
      BY <3>1 DEF CompletionWitness, IInv, TokenDiscipline, IsActive, ActiveKinds
  <2> QED
    BY <2>6, <2>7, <2>8, <2>9, <2>10, <2>11, <2>12 DEF IInv, GoodStep
<1> QED
  BY <1>1, <1>2

\* enqueue adds a row and touches no other.
LEMMA EnqueueKeeps ==
  ASSUME IInv, NEW id \in TaskIds, NEW policy \in Policies, Enqueue(id, policy)
  PROVE  IInv' /\ GoodStep
<1> DEFINE t == NewTask(id, policy, clock)
<1>1. clock \in Nat
  BY QueueAssumption DEF IInv, TypeOK
<1>2. t \in Task /\ HonestRow(id, t) /\ ~IsActive(t)
  BY <1>1, NewIsValid
<1>3. /\ phase = "open" /\ id \notin DOMAIN store
      /\ store' = Put(store, id, t) /\ tasks' = Put(tasks, id, t)
      /\ UNCHANGED <<clock, phase, issued>>
  BY DEF Enqueue
<1> HIDE DEF t
<1>4. /\ tasks \in [DOMAIN tasks -> Task] /\ DOMAIN tasks \subseteq TaskIds
      /\ store \in [DOMAIN store -> Task] /\ DOMAIN store \subseteq TaskIds
      /\ DOMAIN tasks = DOMAIN store
      /\ \A x \in DOMAIN tasks : tasks[x] = store[x]
  BY <1>3 DEF IInv, TypeOK, MemoryMatchesStore
<1>5. /\ DOMAIN tasks' = DOMAIN tasks \cup {id} /\ DOMAIN tasks' \subseteq TaskIds
      /\ tasks' \in [DOMAIN tasks' -> Task] /\ tasks'[id] = t
      /\ \A x \in DOMAIN tasks : x # id => tasks'[x] = tasks[x]
  <2>1. t \in Task /\ tasks' = Put(tasks, id, t) /\ store' = Put(store, id, t)
    BY <1>2, <1>3
  <2> QED
    BY <1>4, <2>1 DEF Put
<1>6. /\ DOMAIN store' = DOMAIN store \cup {id} /\ DOMAIN store' \subseteq TaskIds
      /\ store' \in [DOMAIN store' -> Task] /\ store'[id] = t
      /\ \A x \in DOMAIN store : x # id => store'[x] = store[x]
  <2>1. t \in Task /\ tasks' = Put(tasks, id, t) /\ store' = Put(store, id, t)
    BY <1>2, <1>3
  <2> QED
    BY <1>4, <2>1 DEF Put
<1>7. TypeOK'
  BY <1>3, <1>5, <1>6 DEF IInv, TypeOK
<1>8. MemoryMatchesStore'
  BY <1>3, <1>4, <1>5, <1>6 DEF MemoryMatchesStore
<1>9. HonestRecords'
  BY <1>2, <1>6 DEF IInv, HonestRecords
<1>10. QuietUntilOpen'
  BY <1>3 DEF QuietUntilOpen
<1>11. TokenDiscipline'
  <2>1. ASSUME NEW k \in issued
        PROVE  /\ k.id \in DOMAIN store'
               /\ k.gen <= store'[k.id].generation
               /\ k.gen = store'[k.id].generation => IsActive(store'[k.id])
    BY <1>3, <1>6 DEF IInv, TokenDiscipline, Honoured
  <2>2. ASSUME NEW x \in DOMAIN store', IsActive(store'[x])
        PROVE  [id |-> x, gen |-> store'[x].generation] \in issued
    BY <1>2, <1>3, <1>6, <2>2 DEF IInv, TokenDiscipline
  <2> QED
    BY <1>3, <2>1, <2>2 DEF TokenDiscipline, Honoured
<1>12. GoodStep
  BY <1>3, <1>6 DEF GoodStep, RowsAdvance, CompletionWitness, Succeeds
<1> QED
  BY <1>7, <1>8, <1>9, <1>10, <1>11, <1>12 DEF IInv

\* start_next issues the only token of the run it starts.
LEMMA StartKeeps ==
  ASSUME IInv, NEW id \in TaskIds, StartNext(id)
  PROVE  IInv' /\ GoodStep
<1> DEFINE t == Start(tasks[id], clock)
           tok == [id |-> id, gen |-> t.generation]
<1>1. /\ phase = "open" /\ id \in DOMAIN tasks /\ CanStart(id, tasks[id], clock)
      /\ Mutate(id, t) /\ UNCHANGED <<clock, phase>>
      /\ issued' = issued \cup (IF tasks' = tasks THEN {} ELSE {tok})
  BY DEF StartNext, Next1, Candidates
<1>2. clock \in Nat /\ tasks[id] \in Task
  BY <1>1, QueueAssumption DEF IInv, TypeOK
<1>3. /\ t \in Task /\ Succeeds(tasks[id], t) /\ (HonestRow(id, tasks[id]) => HonestRow(id, t))
      /\ ~IsActive(tasks[id]) /\ IsActive(t) /\ t.state # "Completed"
      /\ t.generation = tasks[id].generation + 1 /\ t.revision # tasks[id].revision
  BY <1>1, <1>2, StartIsValid
<1> HIDE DEF t
<1>4. CASE UNCHANGED <<tasks, store>>
  <2>1. clock' \in 0..MaxTime /\ issued' = issued
    BY <1>1, <1>4 DEF IInv, TypeOK
  <2> QED
    BY <1>1, <1>4, <2>1, SameTasksKeep, SameStoreIsGood DEF IInv
<1>5. CASE ~UNCHANGED <<tasks, store>>
  <2>1. id \in DOMAIN store /\ store' = Put(store, id, t) /\ tasks' = Put(tasks, id, t)
    BY <1>1, <1>5 DEF Mutate, CompareAndSwap
  <2>2. t \in Task
    BY <1>3
  <2>3. /\ tasks \in [DOMAIN tasks -> Task] /\ DOMAIN tasks \subseteq TaskIds
        /\ store \in [DOMAIN store -> Task] /\ DOMAIN store \subseteq TaskIds
        /\ DOMAIN tasks = DOMAIN store /\ tasks[id] = store[id]
        /\ \A x \in DOMAIN tasks : tasks[x] = store[x]
    BY <1>1 DEF IInv, TypeOK, MemoryMatchesStore
  <2>4. /\ DOMAIN tasks' = DOMAIN tasks /\ tasks' \in [DOMAIN tasks' -> Task]
        /\ tasks'[id] = t
        /\ \A x \in DOMAIN tasks : x # id => tasks'[x] = tasks[x]
    BY <2>1, <2>2, <2>3, ReplaceFacts
  <2>5. /\ DOMAIN store' = DOMAIN store /\ store' \in [DOMAIN store' -> Task]
        /\ store'[id] = t
        /\ \A x \in DOMAIN store : x # id => store'[x] = store[x]
    BY <2>1, <2>2, <2>3, ReplaceFacts
  <2>6. issued' = issued \cup {tok}
    BY <1>1, <1>3, <2>4
  <2>7. t.generation \in Nat /\ store[id].generation \in Nat
        /\ t.generation = store[id].generation + 1
    BY <1>2, <1>3, <2>3 DEF Task
  <2>8. TypeOK'
    BY <1>1, <2>3, <2>4, <2>5, <2>6, <2>7 DEF IInv, TypeOK, Token
  <2>9. MemoryMatchesStore'
    BY <1>1, <2>3, <2>4, <2>5 DEF MemoryMatchesStore
  <2>10. HonestRecords'
    BY <1>3, <2>3, <2>5 DEF IInv, HonestRecords
  <2>11. QuietUntilOpen'
    BY <1>1 DEF QuietUntilOpen
  <2>12. TokenDiscipline'
    <3>1. ASSUME NEW k \in issued'
          PROVE  /\ k.id \in DOMAIN store'
                 /\ k.gen <= store'[k.id].generation
                 /\ k.gen = store'[k.id].generation => IsActive(store'[k.id])
      <4>1. CASE k = tok
        BY <1>1, <1>3, <2>3, <2>5, <2>7, <4>1
      <4>2. CASE k \in issued
        <5>1. k.gen \in Nat
          BY <4>2 DEF IInv, TypeOK, Token
        <5>2. /\ k.id \in DOMAIN store /\ k.gen <= store[k.id].generation
              /\ k.gen = store[k.id].generation => IsActive(store[k.id])
          BY <4>2 DEF IInv, TokenDiscipline, Honoured
        <5> QED
          BY <1>3, <2>3, <2>5, <2>7, <5>1, <5>2
      <4> QED
        BY <2>6, <4>1, <4>2
    <3>2. ASSUME NEW x \in DOMAIN store', IsActive(store'[x])
          PROVE  [id |-> x, gen |-> store'[x].generation] \in issued'
      BY <1>1, <2>5, <2>6, <3>2 DEF IInv, TokenDiscipline
    <3> QED
      BY <3>1, <3>2 DEF TokenDiscipline, Honoured
  <2>13. GoodStep
    <3>1. RowsAdvance
      <4>1. Succeeds(store[id], store'[id])
        BY <1>3, <2>3, <2>5
      <4> QED
        BY <2>5, <4>1 DEF RowsAdvance, Succeeds
    <3>2. CompletionWitness
      BY <1>3, <2>5 DEF CompletionWitness
    <3> QED
      BY <3>1, <3>2 DEF GoodStep
  <2> QED
    BY <2>8, <2>9, <2>10, <2>11, <2>12, <2>13 DEF IInv
<1> QED
  BY <1>4, <1>5

\* open() recovers a row before it shows it.
LEMMA RecoverKeeps ==
  ASSUME IInv, NEW id \in TaskIds, RecoverOne(id)
  PROVE  IInv' /\ GoodStep
<1> DEFINE t == Recover(store[id], clock)
<1>1. /\ phase = "opening" /\ id \in DOMAIN store /\ id \notin DOMAIN tasks
      /\ CheckTime(store[id], clock) /\ tasks' = Put(tasks, id, t)
      /\ IF t.revision = store[id].revision
         THEN UNCHANGED store ELSE store' = Put(store, id, t)
      /\ UNCHANGED <<clock, phase, issued>>
  BY DEF RecoverOne, Unrecovered, CompareAndSwap
<1>2. clock \in Nat /\ store[id] \in Task
  BY <1>1, QueueAssumption DEF IInv, TypeOK
<1>3. ValidChange(id, store[id], t) /\ ~IsActive(t)
  BY <1>1, <1>2, RecoverIsValid
<1> HIDE DEF t
<1>4. /\ tasks \in [DOMAIN tasks -> Task] /\ DOMAIN tasks \subseteq TaskIds
      /\ store \in [DOMAIN store -> Task] /\ DOMAIN store \subseteq TaskIds
      /\ \A x \in DOMAIN tasks : x \in DOMAIN store /\ tasks[x] = store[x]
      /\ issued = {} /\ \A x \in DOMAIN tasks : ~IsActive(tasks[x])
  BY <1>1 DEF IInv, TypeOK, MemoryMatchesStore, QuietUntilOpen
<1>5. t \in Task /\ (t.revision = store[id].revision => t = store[id])
  BY <1>2, <1>3 DEF ValidChange, Succeeds, Task
<1>6. /\ DOMAIN tasks' = DOMAIN tasks \cup {id} /\ DOMAIN tasks' \subseteq TaskIds
      /\ tasks' \in [DOMAIN tasks' -> Task] /\ tasks'[id] = t
      /\ \A x \in DOMAIN tasks : x # id => tasks'[x] = tasks[x]
  <2>1. t \in Task /\ tasks' = Put(tasks, id, t)
    BY <1>1, <1>5
  <2> QED
    BY <1>4, <2>1 DEF Put
<1>7. /\ DOMAIN store' = DOMAIN store /\ store' \in [DOMAIN store' -> Task]
      /\ store'[id] = t
      /\ \A x \in DOMAIN store : x # id => store'[x] = store[x]
  <2>1. CASE t.revision = store[id].revision
    BY <1>1, <1>4, <1>5, <2>1
  <2>2. CASE t.revision # store[id].revision
    BY <1>1, <1>4, <1>5, <2>2, ReplaceFacts
  <2> QED
    BY <2>1, <2>2
<1>8. TypeOK'
  BY <1>1, <1>4, <1>6, <1>7 DEF IInv, TypeOK
<1>9. MemoryMatchesStore'
  BY <1>1, <1>4, <1>6, <1>7 DEF MemoryMatchesStore
<1>10. HonestRecords'
  BY <1>3, <1>7 DEF IInv, HonestRecords, ValidChange
<1>11. QuietUntilOpen'
  BY <1>1, <1>3, <1>4, <1>6 DEF QuietUntilOpen
<1>12. TokenDiscipline'
  BY <1>1, <1>4 DEF TokenDiscipline
<1>13. RowsAdvance
  BY <1>3, <1>7 DEF RowsAdvance, ValidChange, Succeeds
<1>14. CompletionWitness
  <2>1. t.state = "Completed" => store[id].state = "Completed"
    <3>1. CASE IsActive(store[id])
      <4> DEFINE v == EndRun(store[id], "Failed", clock)
      <4>1. Moves(store[id], v, "Failed", clock)
        BY <1>2, EndRunFields DEF StateKinds
      <4>2. t = [v EXCEPT !.failure = "retryable"]
        BY <3>1 DEF t, Recover
      <4> HIDE DEF v
      <4>3. v \in Task /\ v.state = "Failed"
        BY <4>1 DEF Moves
      <4> QED
        BY <4>2, <4>3 DEF Task
    <3>2. CASE ~IsActive(store[id])
      BY <3>2 DEF t, Recover
    <3> QED
      BY <3>1, <3>2
  <2> QED
    BY <1>7, <2>1 DEF CompletionWitness
<1> QED
  BY <1>8, <1>9, <1>10, <1>11, <1>12, <1>13, <1>14 DEF IInv, GoodStep

\* The steps that empty the map, open the queue or move the clock.
LEMMA OtherKeeps ==
  ASSUME IInv, OpenBegin \/ OpenFails \/ OpenDone \/ Crash \/ Tick
  PROVE  IInv' /\ GoodStep
<1>1. CASE OpenBegin \/ OpenFails \/ Crash
  <2>1. tasks' = Empty /\ phase' \in {"closed", "opening"} /\ UNCHANGED <<clock, store>>
    BY <1>1 DEF OpenBegin, OpenFails, Crash
  <2>2. issued' = {}
    BY <1>1 DEF OpenBegin, OpenFails, Crash, IInv, QuietUntilOpen
  <2>3. DOMAIN Empty = {} /\ Empty \in [{} -> Task]
    BY DEF Empty
  <2>4. TypeOK'
    BY <2>1, <2>2, <2>3 DEF IInv, TypeOK, Phases
  <2>5. MemoryMatchesStore' /\ QuietUntilOpen' /\ TokenDiscipline' /\ HonestRecords'
    BY <2>1, <2>2, <2>3
       DEF IInv, MemoryMatchesStore, QuietUntilOpen, TokenDiscipline, HonestRecords
  <2> QED
    BY <2>1, <2>4, <2>5, SameStoreIsGood DEF IInv
<1>2. CASE OpenDone
  <2>1. /\ phase = "opening" /\ phase' = "open" /\ DOMAIN store \ DOMAIN tasks = {}
        /\ UNCHANGED <<clock, tasks, store, issued>>
    BY <1>2 DEF OpenDone, Unrecovered
  <2>2. /\ issued = {} /\ \A x \in DOMAIN tasks : ~IsActive(tasks[x])
        /\ \A x \in DOMAIN tasks : x \in DOMAIN store /\ tasks[x] = store[x]
    BY <2>1 DEF IInv, QuietUntilOpen, MemoryMatchesStore
  <2>3. DOMAIN tasks = DOMAIN store
    BY <2>1, <2>2
  <2>4. TypeOK'
    BY <2>1 DEF IInv, TypeOK, Phases
  <2>5. MemoryMatchesStore' /\ QuietUntilOpen' /\ TokenDiscipline' /\ HonestRecords'
    BY <2>1, <2>2, <2>3
       DEF IInv, MemoryMatchesStore, QuietUntilOpen, TokenDiscipline, HonestRecords
  <2> QED
    BY <2>1, <2>4, <2>5, SameStoreIsGood DEF IInv
<1>3. CASE Tick
  BY <1>3, SameTasksKeep, SameStoreIsGood DEF Tick, IInv
<1> QED
  BY <1>1, <1>2, <1>3

-----------------------------------------------------------------------------
\* The callbacks of a run.
LEMMA CallbackKeeps ==
  ASSUME IInv, NEW k \in issued, Callback(k)
  PROVE  IInv' /\ GoodStep
<1>1. clock \in Nat /\ k.id \in TaskIds /\ MaxBytes \in Nat
  BY QueueAssumption DEF IInv, TypeOK, Token
<1>2. k.id \in DOMAIN tasks => tasks[k.id] \in Task
  BY DEF IInv, TypeOK
<1>3. ASSUME NEW bytes \in 0..MaxBytes, NEW total \in Option(0..MaxBytes), NEW same \in BOOLEAN,
             ReportProgress(k, bytes, total, same)
      PROVE  IInv' /\ GoodStep
  <2>1. bytes \in Nat /\ total \in Option(Nat)
    BY <1>1 DEF Option
  <2> QED
    BY <1>1, <1>2, <1>3, <2>1, ProgressIsValid, CallKeeps DEF ReportProgress, Open
<1>4. ASSUME NEW offset \in 0..MaxBytes, ConfirmPause(k, offset)
      PROVE  IInv' /\ GoodStep
  BY <1>1, <1>2, <1>4, ConfirmPausedIsValid, CallKeeps DEF ConfirmPause, Open
<1>5. ASSUME NEW checkpoint \in Checkpoints, ConfirmCancel(k, checkpoint)
      PROVE  IInv' /\ GoodStep
  <2>1. checkpoint \in Option(Nat)
    BY <1>1 DEF Option, Checkpoints
  <2> QED
    BY <1>1, <1>2, <1>5, <2>1, ConfirmCancelledIsValid, CallKeeps DEF ConfirmCancel, Open
<1>6. CASE Finish(k)
  BY <1>1, <1>2, <1>6, CompleteIsValid, CallKeeps DEF Finish, Open
<1>7. ASSUME NEW failure \in {"permanent", "retryable"}, FailRun(k, failure)
      PROVE  IInv' /\ GoodStep
  <2>1. failure \in FailureKinds
    BY DEF FailureKinds
  <2> QED
    BY <1>1, <1>2, <1>7, <2>1, FailIsValid, CallKeeps DEF FailRun, Open
<1>8. ASSUME NEW checkpoint \in Checkpoints, MeetConflict(k, checkpoint)
      PROVE  IInv' /\ GoodStep
  <2>1. checkpoint \in Option(Nat)
    BY <1>1 DEF Option, Checkpoints
  <2> QED
    BY <1>1, <1>2, <1>8, <2>1, ConflictIsValid, CallKeeps DEF MeetConflict, Open
<1> QED
  BY <1>3, <1>4, <1>5, <1>6, <1>7, <1>8 DEF Callback

\* The requests of a user.
LEMMA RequestKeeps ==
  ASSUME IInv, NEW id \in TaskIds, Request(id)
  PROVE  IInv' /\ GoodStep
<1>1. clock \in Nat
  BY QueueAssumption DEF IInv, TypeOK
<1>2. id \in DOMAIN tasks => tasks[id] \in Task
  BY DEF IInv, TypeOK
<1>3. ASSUME NEW policy \in OfferedPolicies, Enqueue(id, policy)
      PROVE  IInv' /\ GoodStep
  BY <1>3, QueueAssumption, EnqueueKeeps
<1>4. CASE AskPause(id)
  BY <1>1, <1>2, <1>4, PauseIsValid, CallKeeps DEF AskPause, Open
<1>5. CASE AskResume(id)
  BY <1>1, <1>2, <1>5, ResumeIsValid, CallKeeps DEF AskResume, Open
<1>6. CASE AskCancel(id)
  BY <1>1, <1>2, <1>6, CancelIsValid, CallKeeps DEF AskCancel, Open
<1>7. CASE AskRetry(id)
  BY <1>1, <1>2, <1>7, RetryIsValid, CallKeeps DEF AskRetry, Open
<1>8. ASSUME NEW policy \in OfferedPolicies, SettleConflict(id, policy)
      PROVE  IInv' /\ GoodStep
  BY <1>1, <1>2, <1>8, QueueAssumption, ResolveIsValid, CallKeeps DEF SettleConflict, Open
<1> QED
  BY <1>3, <1>4, <1>5, <1>6, <1>7, <1>8 DEF Request

\* A freshly created table satisfies the invariant.
LEMMA InitIInv ==
  ASSUME Init
  PROVE  IInv
<1>1. DOMAIN Empty = {} /\ Empty \in [{} -> Task]
  BY DEF Empty
<1>2. TypeOK
  BY <1>1, QueueAssumption DEF Init, TypeOK, Phases
<1> QED
  BY <1>1, <1>2 DEF Init, IInv, MemoryMatchesStore, TokenDiscipline, HonestRecords, QuietUntilOpen

\* Every step keeps the invariant and treats the table well.
LEMMA NextIInv ==
  ASSUME IInv, [Next]_vars
  PROVE  IInv' /\ GoodStep
<1>1. CASE Next
  <2>1. ASSUME NEW id \in TaskIds, Request(id) \/ StartNext(id) \/ RecoverOne(id)
        PROVE  IInv' /\ GoodStep
    BY <2>1, RequestKeeps, StartKeeps, RecoverKeeps
  <2>2. ASSUME NEW k \in issued, Callback(k)
        PROVE  IInv' /\ GoodStep
    BY <2>2, CallbackKeeps
  <2>3. CASE OpenBegin \/ OpenFails \/ OpenDone \/ Crash \/ Tick
    BY <2>3, OtherKeeps
  <2> QED
    BY <1>1, <2>1, <2>2, <2>3 DEF Next
<1>2. CASE UNCHANGED vars
  <2>1. UNCHANGED <<phase, tasks, store, issued>> /\ clock' \in 0..MaxTime
    BY <1>2 DEF vars, IInv, TypeOK
  <2> QED
    BY <2>1, SameTasksKeep, SameStoreIsGood DEF IInv
<1> QED
  BY <1>1, <1>2

-----------------------------------------------------------------------------
\* What the counting needs besides IInv: the tokens held are finitely many.
LimitInv == IsFiniteSet(issued) /\ RetryBudgetKept /\ ConcurrencyBounded

\* One more element is at most one more.
LEMMA OneMore ==
  ASSUME NEW S, NEW x, IsFiniteSet(S)
  PROVE  /\ IsFiniteSet(S \cup {x})
         /\ Cardinality(S \cup {x}) <= Cardinality(S) + 1
         /\ Cardinality(S \cup {x}) \in Nat
<1>1. IsFiniteSet(S \cup {x})
  BY FS_AddElement
<1>2. Cardinality(S) \in Nat /\ Cardinality(S \cup {x}) \in Nat
  BY <1>1, FS_CardinalityType
<1>3. Cardinality(S \cup {x}) = IF x \in S THEN Cardinality(S) ELSE Cardinality(S) + 1
  BY FS_AddElement
<1> QED
  BY <1>1, <1>2, <1>3

\* Honoured tokens are counted by the active tasks they belong to: no task has
\* two of them.
LEMMA HonouredIsActive ==
  ASSUME IInv, phase = "open", NEW S, NEW A, IsFiniteSet(A),
         \A id \in Active : ProfileOf[id] \in S => id \in A
  PROVE  /\ IsFiniteSet(HonouredOf(S))
         /\ Cardinality(HonouredOf(S)) <= Cardinality(A)
<1> DEFINE f == [k \in HonouredOf(S) |-> k.id]
<1>1. ASSUME NEW k \in HonouredOf(S)
      PROVE  k.id \in A
  <2>1. k \in issued /\ Honoured(k) /\ ProfileOf[k.id] \in S
    BY DEF HonouredOf
  <2>2. k.id \in DOMAIN tasks /\ IsActive(tasks[k.id])
    BY <2>1 DEF IInv, TokenDiscipline, MemoryMatchesStore
  <2> QED
    BY <2>1, <2>2 DEF Active
<1>2. ASSUME NEW k \in HonouredOf(S), NEW l \in HonouredOf(S), k.id = l.id
      PROVE  k = l
  BY <1>2 DEF HonouredOf, Honoured, IInv, TypeOK, Token
<1>3. f \in Injection(HonouredOf(S), A)
  BY <1>1, <1>2 DEF Injection, IsInjective
<1> QED
  BY <1>3, FS_Injection

\* The active tasks are finitely many.
LEMMA ActiveIsFinite ==
  ASSUME IInv
  PROVE  IsFiniteSet(Active) /\ \A p : IsFiniteSet(ActiveOf(p))
<1>1. Active \subseteq TaskIds /\ \A p : ActiveOf(p) \subseteq TaskIds
  BY DEF Active, ActiveOf, IInv, TypeOK
<1> QED
  BY <1>1, QueueAssumption, FS_Subset

\* A step that hands out no token keeps the limits: attempts only grow, and a
\* token once out of date stays so.
LEMMA NoTokenKeepsLimits ==
  ASSUME IInv, IInv', RowsAdvance, LimitInv, issued' \subseteq issued
  PROVE  LimitInv'
<1>1. IsFiniteSet(issued')
  BY FS_Subset DEF LimitInv
<1>2. ASSUME NEW id \in DOMAIN store'
      PROVE  /\ Cardinality(RunsOf(id)') <= store'[id].attempts
             /\ store'[id].attempts <= MaxAttempts[id]
  <2>1. RunsOf(id)' \subseteq RunsOf(id) /\ RunsOf(id) \subseteq issued
    BY DEF RunsOf
  <2>2. /\ IsFiniteSet(RunsOf(id)) /\ Cardinality(RunsOf(id)) \in Nat
        /\ Cardinality(RunsOf(id)') \in Nat
        /\ Cardinality(RunsOf(id)') <= Cardinality(RunsOf(id))
    BY <2>1, FS_Subset, FS_CardinalityType DEF LimitInv
  <2>3. store'[id].attempts \in Nat /\ store'[id].attempts <= MaxAttempts[id]
    BY DEF IInv, TypeOK, Task, HonestRecords, HonestRow
  <2>4. CASE id \in DOMAIN store
    <3>1. /\ store[id].attempts \in Nat /\ store'[id].attempts >= store[id].attempts
          /\ Cardinality(RunsOf(id)) <= store[id].attempts
      BY <2>4, <2>3 DEF RowsAdvance, Succeeds, IInv, TypeOK, Task, LimitInv, RetryBudgetKept
    <3> QED
      BY <2>2, <2>3, <3>1
  <2>5. CASE id \notin DOMAIN store
    <3>1. RunsOf(id)' = {}
      BY <2>1, <2>5 DEF RunsOf, IInv, TokenDiscipline
    <3> QED
      BY <2>3, <3>1, FS_EmptySet
  <2> QED
    BY <2>4, <2>5
<1>3. ASSUME NEW S, NEW n \in Nat, Cardinality(HonouredOf(S)) <= n
      PROVE  Cardinality(HonouredOf(S)') <= n
  <2>1. HonouredOf(S)' \subseteq HonouredOf(S)
    <3> SUFFICES ASSUME NEW k \in issued', Honoured(k)'
                 PROVE  Honoured(k)
      BY DEF HonouredOf
    <3>1. k \in issued /\ k.gen \in Nat /\ k.gen = store'[k.id].generation
      BY DEF Honoured, IInv, TypeOK, Token
    <3>2. k.id \in DOMAIN store /\ k.gen <= store[k.id].generation
          /\ store[k.id].generation \in Nat
      BY <3>1 DEF IInv, TokenDiscipline, TypeOK, Task
    <3>3. store'[k.id].generation >= store[k.id].generation
      BY <3>1, <3>2 DEF RowsAdvance, Succeeds
    <3> QED
      BY <3>1, <3>2, <3>3 DEF Honoured
  <2>2. IsFiniteSet(HonouredOf(S))
    BY FS_Subset DEF HonouredOf, LimitInv
  <2> QED
    BY <1>3, <2>1, <2>2, FS_Subset, FS_CardinalityType
<1> QED
  BY <1>1, <1>2, <1>3, QueueAssumption DEF LimitInv, RetryBudgetKept, ConcurrencyBounded

\* The new token of a started task is the only one more, and start_next counted
\* the places and the attempts before it started the task.
LEMMA StartKeepsLimits ==
  ASSUME IInv, IInv', RowsAdvance, LimitInv, NEW id \in TaskIds, StartNext(id)
  PROVE  LimitInv'
<1> DEFINE t == Start(tasks[id], clock)
           tok == [id |-> id, gen |-> t.generation]
<1>1. /\ phase = "open" /\ id \in DOMAIN tasks /\ CanStart(id, tasks[id], clock)
      /\ Cardinality(Active) < MaxConcurrent
      /\ Cardinality(ActiveOf(ProfileOf[id])) < MaxPerProfile
      /\ Mutate(id, t)
      /\ issued' = issued \cup (IF tasks' = tasks THEN {} ELSE {tok})
  BY DEF StartNext, Next1, Candidates
<1>2. clock \in Nat /\ tasks[id] \in Task /\ tasks[id] = store[id] /\ id \in DOMAIN store
  BY <1>1, QueueAssumption DEF IInv, TypeOK, MemoryMatchesStore
<1>3. /\ t \in Task /\ t.attempts = tasks[id].attempts + 1
      /\ t.generation = tasks[id].generation + 1 /\ t.revision # tasks[id].revision
  <2>1. t \in Task /\ t.generation = tasks[id].generation + 1 /\ t.revision # tasks[id].revision
    BY <1>1, <1>2, StartIsValid
  <2>2. t.attempts = tasks[id].attempts + 1
    BY <1>2 DEF Start, EndRun, Enter, Task
  <2> QED
    BY <2>1, <2>2
<1> HIDE DEF t
<1>4. CASE UNCHANGED <<tasks, store>>
  <2>1. issued' \subseteq issued
    BY <1>1, <1>4
  <2> QED
    BY <2>1, NoTokenKeepsLimits
<1>5. CASE ~UNCHANGED <<tasks, store>>
  <2>1. store' = Put(store, id, t)
    BY <1>1, <1>5 DEF Mutate, CompareAndSwap
  <2>2. /\ DOMAIN store' = DOMAIN store /\ store'[id] = t
        /\ \A x \in DOMAIN store : x # id => store'[x] = store[x]
    BY <1>2, <1>3, <2>1, ReplaceFacts DEF IInv, TypeOK
  <2>3. issued' \subseteq issued \cup {tok}
    BY <1>1
  <2>4. IsFiniteSet(issued')
    BY <2>3, FS_AddElement, FS_Subset DEF LimitInv
  <2>5. ASSUME NEW x \in DOMAIN store'
        PROVE  /\ Cardinality(RunsOf(x)') <= store'[x].attempts
               /\ store'[x].attempts <= MaxAttempts[x]
    <3>1. /\ IsFiniteSet(RunsOf(x)) /\ Cardinality(RunsOf(x)) \in Nat
          /\ Cardinality(RunsOf(x)) <= store[x].attempts
          /\ store[x].attempts \in Nat /\ store'[x].attempts \in Nat
      BY <2>2, FS_Subset, FS_CardinalityType
      DEF RunsOf, LimitInv, RetryBudgetKept, IInv, TypeOK, Task
    <3>2. store'[x].attempts <= MaxAttempts[x]
      BY DEF IInv, HonestRecords, HonestRow
    <3>3. CASE x = id
      <4>1. RunsOf(x)' \subseteq RunsOf(x) \cup {tok}
        BY <2>3 DEF RunsOf
      <4>2. /\ IsFiniteSet(RunsOf(x) \cup {tok})
            /\ Cardinality(RunsOf(x) \cup {tok}) <= Cardinality(RunsOf(x)) + 1
            /\ Cardinality(RunsOf(x) \cup {tok}) \in Nat
        BY <3>1, OneMore
      <4>3. /\ Cardinality(RunsOf(x)') <= Cardinality(RunsOf(x) \cup {tok})
            /\ Cardinality(RunsOf(x)') \in Nat
        BY <4>1, <4>2, FS_Subset, FS_CardinalityType
      <4> QED
        BY <1>2, <1>3, <2>2, <3>1, <3>2, <3>3, <4>2, <4>3
    <3>4. CASE x # id
      <4>1. RunsOf(x)' \subseteq RunsOf(x)
        BY <2>3, <3>4 DEF RunsOf
      <4>2. Cardinality(RunsOf(x)') <= Cardinality(RunsOf(x)) /\ Cardinality(RunsOf(x)') \in Nat
        BY <3>1, <4>1, FS_Subset, FS_CardinalityType
      <4> QED
        BY <2>2, <3>1, <3>2, <3>4, <4>2
    <3> QED
      BY <3>3, <3>4
  <2>6. ASSUME NEW S
        PROVE  HonouredOf(S)' \subseteq HonouredOf(S) \cup (IF ProfileOf[id] \in S THEN {tok} ELSE {})
    <3> SUFFICES ASSUME NEW k \in issued', Honoured(k)', ProfileOf[k.id] \in S
                 PROVE  k \in HonouredOf(S) \/ (k = tok /\ ProfileOf[id] \in S)
      BY DEF HonouredOf
    <3>1. CASE k = tok
      BY <3>1
    <3>2. CASE k \in issued
      <4>1. /\ k.gen \in Nat /\ k.gen <= store[k.id].generation /\ k.id \in DOMAIN store
            /\ store[k.id].generation \in Nat /\ k.gen = store'[k.id].generation
        BY <3>2 DEF Honoured, IInv, TokenDiscipline, TypeOK, Token, Task
      <4>2. k.id # id
        BY <1>2, <1>3, <2>2, <4>1
      <4> QED
        BY <2>2, <3>2, <4>1, <4>2 DEF HonouredOf, Honoured
    <3> QED
      BY <2>3, <3>1, <3>2
  <2>7. ASSUME NEW S, NEW n \in Nat, Cardinality(HonouredOf(S)) <= n,
               IsFiniteSet(HonouredOf(S)),
               ProfileOf[id] \in S => Cardinality(HonouredOf(S)) < n
        PROVE  Cardinality(HonouredOf(S)') <= n
    <3>1. Cardinality(HonouredOf(S)) \in Nat
      BY <2>7, FS_CardinalityType
    <3>2. CASE ProfileOf[id] \in S
      <4>1. /\ IsFiniteSet(HonouredOf(S) \cup {tok})
            /\ Cardinality(HonouredOf(S) \cup {tok}) <= Cardinality(HonouredOf(S)) + 1
            /\ Cardinality(HonouredOf(S) \cup {tok}) \in Nat
        BY <2>7, OneMore
      <4>2. HonouredOf(S)' \subseteq HonouredOf(S) \cup {tok}
        BY <2>6, <3>2
      <4>3. /\ Cardinality(HonouredOf(S)') <= Cardinality(HonouredOf(S) \cup {tok})
            /\ Cardinality(HonouredOf(S)') \in Nat
        BY <4>1, <4>2, FS_Subset, FS_CardinalityType
      <4> QED
        BY <2>7, <3>1, <3>2, <4>1, <4>3
    <3>3. CASE ProfileOf[id] \notin S
      <4>1. HonouredOf(S)' \subseteq HonouredOf(S)
        BY <2>6, <3>3
      <4>2. Cardinality(HonouredOf(S)') <= Cardinality(HonouredOf(S)) /\ Cardinality(HonouredOf(S)') \in Nat
        BY <2>7, <4>1, FS_Subset, FS_CardinalityType
      <4> QED
        BY <2>7, <3>1, <4>2
    <3> QED
      BY <3>2, <3>3
  <2>8. /\ IsFiniteSet(Active) /\ Cardinality(Active) \in Nat
        /\ \A p : IsFiniteSet(ActiveOf(p)) /\ Cardinality(ActiveOf(p)) \in Nat
    BY ActiveIsFinite, FS_CardinalityType
  <2>9. Cardinality(HonouredOf(Profiles)') <= MaxConcurrent
    <3>1. /\ IsFiniteSet(HonouredOf(Profiles))
          /\ Cardinality(HonouredOf(Profiles)) <= Cardinality(Active)
      BY <1>1, <2>8, HonouredIsActive
    <3>2. Cardinality(HonouredOf(Profiles)) \in Nat
      BY <3>1, FS_CardinalityType
    <3>3. Cardinality(HonouredOf(Profiles)) < MaxConcurrent
      BY <1>1, <2>8, <3>1, <3>2, QueueAssumption
    <3> QED
      BY <2>7, <3>1, <3>2, <3>3, QueueAssumption
  <2>10. ASSUME NEW p \in Profiles
         PROVE  Cardinality(HonouredOf({p})') <= MaxPerProfile
    <3>1. /\ IsFiniteSet(HonouredOf({p}))
          /\ Cardinality(HonouredOf({p})) <= Cardinality(ActiveOf(p))
      <4>1. \A x \in Active : ProfileOf[x] \in {p} => x \in ActiveOf(p)
        BY DEF ActiveOf
      <4> QED
        BY <1>1, <2>8, <4>1, HonouredIsActive
    <3>2. Cardinality(HonouredOf({p})) \in Nat /\ MaxPerProfile \in Nat
      BY <3>1, FS_CardinalityType, QueueAssumption
    <3>3. Cardinality(HonouredOf({p})) <= MaxPerProfile
      BY DEF LimitInv, ConcurrencyBounded
    <3>4. ProfileOf[id] \in {p} => Cardinality(HonouredOf({p})) < MaxPerProfile
      BY <1>1, <2>8, <3>1, <3>2
    <3> QED
      BY <2>7, <3>1, <3>2, <3>3, <3>4
  <2> QED
    BY <2>4, <2>5, <2>9, <2>10 DEF LimitInv, RetryBudgetKept, ConcurrencyBounded
<1> QED
  BY <1>4, <1>5

\* Every step keeps the limits.
LEMMA NextLimits ==
  ASSUME IInv, LimitInv, [Next]_vars
  PROVE  LimitInv'
<1>1. IInv' /\ RowsAdvance
  BY NextIInv DEF GoodStep
<1>2. ASSUME NEW id \in TaskIds, StartNext(id)
      PROVE  LimitInv'
  BY <1>1, <1>2, StartKeepsLimits
<1>3. ASSUME \A id \in TaskIds : ~StartNext(id)
      PROVE  issued' \subseteq issued
  <2>1. ASSUME NEW id \in TaskIds, Request(id) \/ RecoverOne(id)
        PROVE  issued' = issued
    BY <2>1 DEF Request, RecoverOne, Enqueue, AskPause, AskResume, AskCancel, AskRetry,
                SettleConflict, Call
  <2>2. ASSUME NEW k \in issued, Callback(k)
        PROVE  issued' = issued
    BY <2>2 DEF Callback, ReportProgress, ConfirmPause, ConfirmCancel, Finish, FailRun,
                MeetConflict, Call
  <2>3. CASE OpenBegin \/ OpenFails \/ OpenDone \/ Crash \/ Tick
    BY <2>3 DEF OpenBegin, OpenFails, OpenDone, Crash, Tick
  <2>4. CASE UNCHANGED vars
    BY <2>4 DEF vars
  <2> QED
    BY <1>3, <2>1, <2>2, <2>3, <2>4 DEF Next
<1> QED
  BY <1>1, <1>2, <1>3, NoTokenKeepsLimits

-----------------------------------------------------------------------------
\* The inductive invariant holds in every reachable state.
THEOREM Invariance == Spec => []IInv
<1>1. Init => IInv
  BY InitIInv
<1>2. IInv /\ [Next]_vars => IInv'
  BY NextIInv
<1> QED
  BY <1>1, <1>2, PTL DEF Spec

\* The map, the table and the tokens always have the shape the code's types
\* give them, for any number of tasks and any limits.
THEOREM TypeCorrect == Spec => []TypeOK
<1>1. IInv => TypeOK
  BY DEF IInv
<1> QED
  BY <1>1, Invariance, PTL

\* Whatever store error or crash happens, what the open queue shows is what
\* is on disk.
THEOREM MemoryIsDurable == Spec => []MemoryMatchesStore
<1>1. IInv => MemoryMatchesStore
  BY DEF IInv
<1> QED
  BY <1>1, Invariance, PTL

\* A token is honoured exactly while the run it was issued for lasts.
THEOREM TokensTrackRuns == Spec => []TokenDiscipline
<1>1. IInv => TokenDiscipline
  BY DEF IInv
<1> QED
  BY <1>1, Invariance, PTL

\* No row claims more than was reported for it.
THEOREM RecordsAreHonest == Spec => []HonestRecords
<1>1. IInv => HonestRecords
  BY DEF IInv
<1> QED
  BY <1>1, Invariance, PTL

\* No row is lost, goes back or changes without a new revision.
THEOREM TableOnlyAdvances == Spec => RowsOnlyAdvance
<1>1. IInv /\ [Next]_vars => [RowsAdvance]_store
  BY NextIInv DEF GoodStep
<1> QED
  BY <1>1, Invariance, PTL DEF Spec, RowsOnlyAdvance

\* Only the run in progress completes a transfer.
THEOREM CompletionHasWitness == Spec => CompletionIsWitnessed
<1>1. IInv /\ [Next]_vars => [CompletionWitness]_store
  BY NextIInv DEF GoodStep
<1> QED
  BY <1>1, Invariance, PTL DEF Spec, CompletionIsWitnessed

\* No task is run more often than its retry policy allows, and no order of
\* starts, cancels and late callbacks fills more places than start_next counts.
THEOREM LimitsAreKept == Spec => []RowsWithinLimits
<1>1. Init => LimitInv
  <2> SUFFICES ASSUME Init
               PROVE  LimitInv
    OBVIOUS
  <2>1. issued = {} /\ DOMAIN store = {}
    BY DEF Init, Empty
  <2>2. \A S : HonouredOf(S) = {}
    BY <2>1 DEF HonouredOf
  <2>3. Cardinality({}) <= MaxConcurrent /\ Cardinality({}) <= MaxPerProfile
    BY FS_EmptySet, QueueAssumption
  <2>4. ConcurrencyBounded
    BY <2>2, <2>3 DEF ConcurrencyBounded
  <2> QED
    BY <2>1, <2>4, FS_EmptySet DEF LimitInv, RetryBudgetKept
<1>2. IInv /\ LimitInv /\ [Next]_vars => LimitInv'
  BY NextLimits
<1>3. IInv /\ LimitInv => RowsWithinLimits
  BY DEF IInv, LimitInv, RowsWithinLimits
<1> QED
  BY <1>1, <1>2, <1>3, Invariance, PTL DEF Spec
=============================================================================
