----------------------- MODULE TransferExecutorProofs -----------------------
(***************************************************************************)
(* Proofs about TransferExecutor for every number of tasks and jobs, every *)
(* size, and everything the store, the clock, other programs, crashes and  *)
(* shutdowns may do.  Part 1: the executor implements the queue, so that   *)
(* the theorems of TransferQueueProofs hold of it.  Part 2: runs, workers  *)
(* and controls belong together.  Part 3: what is delivered and staged.    *)
(* Part 4: foreign files, cancels, and the reasons for which the runner    *)
(* stops.                                                                  *)
(***************************************************************************)
EXTENDS TransferExecutor, TransferQueueProofs, SequenceTheorems

-----------------------------------------------------------------------------
(* What the mutations of a task leave alone. *)

\* The run in progress goes on with the bytes it has.
RunGoesOn(t, u) == u.generation = t.generation /\ u.bytes = t.bytes /\ u.policy = t.policy

\* The run in progress is over.
RunEnds(t, u) == u.generation = t.generation + 1 /\ u.bytes = t.bytes

LEMMA EnterGoesOn ==
  ASSUME NEW t \in Task, NEW kind, NEW now
  PROVE  /\ RunGoesOn(t, Enter(t, kind, now)) /\ Enter(t, kind, now).state = kind
         /\ Enter(t, kind, now).revision = t.revision + 1
BY DEF Enter, Task, RunGoesOn

LEMMA EndRunEnds ==
  ASSUME NEW t \in Task, NEW kind, NEW now, NEW u, u = EndRun(t, kind, now)
  PROVE  /\ RunEnds(t, u) /\ u.state = kind /\ u.revision = t.revision + 1
         /\ u.policy = t.policy /\ u.attempts = t.attempts
BY DEF Enter, EndRun, Task, RunEnds

\* request_cancel only asks a run to stop.
LEMMA CancelFacts ==
  ASSUME NEW t \in Task, NEW now, NEW u, u = RequestCancel(t, now)
  PROVE  /\ u.bytes = t.bytes
         /\ t.state \in ActiveKinds => RunGoesOn(t, u) /\ u.state = "Cancelling"
         /\ t.state \notin ActiveKinds /\ t.state # "Completed" => u.state = "Cancelled"
<1>1. CASE t.state \in {"Cancelled", "Cancelling"}
  BY <1>1 DEF RequestCancel, RunGoesOn, ActiveKinds
<1>2. CASE t.state \in {"Running", "Pausing"}
  <2>1. u = Enter(t, "Cancelling", now)  BY <1>2 DEF RequestCancel
  <2>2. RunGoesOn(t, u) /\ u.state = "Cancelling"  BY <2>1, EnterGoesOn
  <2> QED  BY <1>2, <2>2 DEF RunGoesOn, ActiveKinds
<1>3. CASE t.state \notin {"Cancelled", "Cancelling", "Running", "Pausing"}
  <2> PICK v : v = EndRun(t, "Cancelled", now)  OBVIOUS
  <2>1. u = [v EXCEPT !.checkpoint = t.checkpoint]  BY <1>3 DEF RequestCancel
  <2>2. v.state = "Cancelled" /\ v.bytes = t.bytes  BY EndRunEnds DEF RunEnds
  <2>3. u.state = v.state /\ u.bytes = v.bytes
    BY <2>1 DEF EndRun, Enter, Task
  <2> QED  BY <1>3, <2>2, <2>3 DEF ActiveKinds
<1> QED  BY <1>1, <1>2, <1>3

LEMMA ConfirmCancelledFacts ==
  ASSUME NEW t \in Task, NEW checkpoint, NEW now, NEW u, u = ConfirmCancelled(t, checkpoint, now)
  PROVE  RunEnds(t, u) /\ u.state = "Cancelled" /\ u.revision = t.revision + 1
BY DEF ConfirmCancelled, EndRun, Enter, Task, RunEnds

LEMMA CompleteFacts ==
  ASSUME NEW t \in Task, NEW now, NEW u, u = Complete(t, now)
  PROVE  RunEnds(t, u) /\ u.state = "Completed" /\ u.revision = t.revision + 1
BY DEF Complete, EndRun, Enter, Task, RunEnds

LEMMA FailFacts ==
  ASSUME NEW t \in Task, NEW failure, NEW now, NEW u, u = Fail(t, failure, now)
  PROVE  /\ RunEnds(t, u) /\ u.state = "Failed" /\ u.revision = t.revision + 1
         /\ u.failure = failure /\ u.attempts = t.attempts /\ u.updatedAt = now
BY DEF Fail, EndRun, Enter, Task, RunEnds

LEMMA ConflictFacts ==
  ASSUME NEW t \in Task, NEW checkpoint, NEW now, NEW u, u = EnterConflict(t, checkpoint, now)
  PROVE  RunEnds(t, u) /\ u.state = "Conflict" /\ u.revision = t.revision + 1
BY DEF EnterConflict, EndRun, Enter, Task, RunEnds

LEMMA ProgressFacts ==
  ASSUME NEW t \in Task, NEW bytes, NEW total, NEW same, NEW now,
         NEW u, u = RecordProgress(t, bytes, total, same, now)
  PROVE  /\ u.generation = t.generation /\ u.bytes = bytes /\ u.state = t.state
         /\ u.policy = t.policy
<1>1. CASE same /\ bytes = t.bytes /\ KnownTotal(t, total) = t.total
  BY <1>1 DEF RecordProgress
<1>2. CASE ~(same /\ bytes = t.bytes /\ KnownTotal(t, total) = t.total)
  <2>1. u = [t EXCEPT !.bytes = bytes, !.total = KnownTotal(t, total),
                      !.revision = t.revision + 1, !.updatedAt = now]
    BY <1>2 DEF RecordProgress
  <2> QED  BY <2>1 DEF Task
<1> QED  BY <1>1, <1>2

LEMMA RetryFacts ==
  ASSUME NEW t \in Task, NEW now, NEW u, u = ScheduleRetry(t, now)
  PROVE  u.bytes = t.bytes /\ u.generation = t.generation /\ u.state = "RetryScheduled"
<1>1. CASE t.state = "RetryScheduled"  BY <1>1 DEF ScheduleRetry
<1>2. CASE t.state # "RetryScheduled"
  <2> PICK v : v = Enter(t, "RetryScheduled", now)  OBVIOUS
  <2>1. u = [v EXCEPT !.failure = t.failure, !.notBefore = now + BackoffMs(t.attempts)]
    BY <1>2 DEF ScheduleRetry
  <2>2. v.state = "RetryScheduled" /\ RunGoesOn(t, v)  BY EnterGoesOn
  <2>3. u.state = v.state /\ u.bytes = v.bytes /\ u.generation = v.generation
    BY <2>1 DEF Enter, Task
  <2> QED  BY <2>2, <2>3 DEF RunGoesOn
<1> QED  BY <1>1, <1>2

LEMMA ResolveFacts ==
  ASSUME NEW t \in Task, NEW policy, NEW now, NEW u, u = ResolveConflict(t, policy, now)
  PROVE  u.bytes = t.bytes /\ u.generation = t.generation /\ u.state = "Queued"
BY DEF ResolveConflict, Enter, Task

LEMMA RecoverFacts ==
  ASSUME NEW t \in Task, NEW now, NEW u, u = Recover(t, now)
  PROVE  u.bytes = t.bytes /\ (t.state = "Completed" <=> u.state = "Completed")
BY DEF Recover, EndRun, Enter, Task, IsActive, ActiveKinds

LEMMA StartFacts ==
  ASSUME NEW t \in Task, NEW now, NEW u, u = Start(t, now)
  PROVE  /\ RunEnds(t, u) /\ u.state = "Running" /\ u.policy = t.policy
         /\ u.revision = t.revision + 1
BY DEF Start, EndRun, Enter, Task, RunEnds

-----------------------------------------------------------------------------
(* How the table of workers changes. *)

\* Only worker k changes.
OnlyWorker(k) ==
  /\ workers' \in [DOMAIN workers -> Worker]
  /\ \A j \in DOMAIN workers : j # k => workers'[j] = workers[j]

SameData(w, v) ==
  /\ v.base = w.base /\ v.off = w.off /\ v.total = w.total /\ v.eof = w.eof
  /\ v.policy = w.policy /\ v.cancelled = w.cancelled /\ v.fault = w.fault /\ v.err = w.err

\* The locals are gone and the fault is remembered.
FaultyData(w, v, fault) ==
  /\ v.base = 0 /\ v.off = 0 /\ v.total = None /\ v.eof = FALSE
  /\ v.policy = w.policy /\ v.cancelled = w.cancelled /\ v.fault = fault /\ v.err = w.err

LEMMA GoesFacts ==
  ASSUME ExecTypeOK, NEW k \in DOMAIN workers, NEW pc \in Steps, Goes(k, pc)
  PROVE  OnlyWorker(k) /\ workers'[k].pc = pc /\ SameData(workers[k], workers'[k])
BY DEF ExecTypeOK, Goes, OnlyWorker, SameData, Worker

LEMMA FaultyFacts ==
  ASSUME ExecTypeOK, NEW k \in DOMAIN workers, NEW pc \in Steps, NEW fault \in Faults,
         Faulty(k, pc, fault)
  PROVE  OnlyWorker(k) /\ workers'[k].pc = pc /\ FaultyData(workers[k], workers'[k], fault)
<1>1. workers[k] \in Worker /\ workers \in [DOMAIN workers -> Worker]  BY DEF ExecTypeOK
<1> PICK w \in Worker : w = workers[k]  BY <1>1
<1> PICK v : v = [w EXCEPT !.pc = pc, !.fault = fault, !.base = 0, !.off = 0, !.total = None,
                           !.eof = FALSE]
  OBVIOUS
<1>2. workers' = [workers EXCEPT ![k] = v]  BY DEF Faulty
<1>3. 0 \in Nat /\ None \in Option(Nat)  BY DEF Option
<1>4. v \in Worker /\ v.pc = pc /\ FaultyData(w, v, fault)
  BY <1>3 DEF Worker, FaultyData
<1> QED  BY <1>1, <1>2, <1>4 DEF OnlyWorker

LEMMA ErrsFacts ==
  ASSUME ExecTypeOK, NEW k \in DOMAIN workers, Errs(k)
  PROVE  OnlyWorker(k) /\ workers'[k].pc = "unregister" /\ workers'[k].err
         /\ workers'[k].off = workers[k].off /\ workers'[k].base = workers[k].base
         /\ workers'[k].total = workers[k].total
<1>1. workers[k] \in Worker /\ workers \in [DOMAIN workers -> Worker]  BY DEF ExecTypeOK
<1>2. "unregister" \in Steps /\ TRUE \in BOOLEAN  BY DEF Steps
<1>3. OnlyWorker(k)  BY <1>1, <1>2 DEF Errs, OnlyWorker, Worker
<1>4. /\ workers'[k].pc = "unregister" /\ workers'[k].err = TRUE
      /\ workers'[k].off = workers[k].off /\ workers'[k].base = workers[k].base
      /\ workers'[k].total = workers[k].total
  BY <1>1 DEF Errs, Worker
<1> QED  BY <1>3, <1>4, Zenon

-----------------------------------------------------------------------------
(* Part 1: the executor implements the queue. *)

\* A process that has not opened its queue has no worker, control or command.
Opened ==
  /\ runner = "off" <=> phase # "open"
  /\ phase # "open" => /\ DOMAIN workers = {} /\ DOMAIN active = {}
                       /\ asked = {} /\ shut = "no" /\ marking = {}

WorkerInBounds(k, w) ==
  /\ w.base <= MaxBytes /\ w.off <= MaxBytes /\ w.total <= MaxBytes
  /\ w.pc = "write" => w.off < SourceSize[k.id]
  /\ w.pc = "persist" => w.fault # "none"

\* Reports stay within the sizes, as every chunk comes from the source.
InBounds ==
  /\ \A id \in DOMAIN store : store[id].bytes <= MaxBytes
  /\ \A k \in DOMAIN workers : WorkerInBounds(k, workers[k])

\* A staged write ends under one of the final names.
TargetsAreFinal == \A h \in DOMAIN staged : staged[h].target \in {"bound", "renamed"}

ExecBase ==
  /\ IInv /\ ExecTypeOK /\ Opened /\ InBounds
  /\ TargetsAreFinal
  /\ \A id \in DOMAIN active : active[id].id = id

\* A worker's task is in the open queue, and its token is one the queue gave.
LEMMA WorkerFacts ==
  ASSUME ExecBase, NEW k \in DOMAIN workers
  PROVE  /\ phase = "open" /\ k \in issued /\ k.id \in TaskIds /\ k.gen \in Nat
         /\ Open(k.id) /\ k.id \in DOMAIN store /\ tasks[k.id] = store[k.id]
         /\ tasks[k.id] \in Task /\ workers[k] \in Worker /\ clock \in Nat
         /\ k = [id |-> k.id, gen |-> k.gen]
<1>1. k \in issued /\ workers[k] \in Worker  BY DEF ExecBase, ExecTypeOK
<1>2. phase = "open"  BY DEF ExecBase, Opened
<1>3. k \in Token  BY <1>1 DEF ExecBase, IInv, TypeOK
<1>4. k.id \in DOMAIN store  BY <1>1 DEF ExecBase, IInv, TokenDiscipline
<1>5. k.id \in DOMAIN tasks /\ tasks[k.id] = store[k.id]
  BY <1>2, <1>4 DEF ExecBase, IInv, MemoryMatchesStore
<1>6. tasks[k.id] \in Task /\ clock \in Nat  BY <1>5, QueueAssumption DEF ExecBase, IInv, TypeOK
<1>7. k = [id |-> k.id, gen |-> k.gen]  BY <1>3 DEF Token
<1> QED  BY <1>1, <1>2, <1>3, <1>4, <1>5, <1>6, <1>7 DEF Token, Open

LEMMA TaskFacts ==
  ASSUME ExecBase, NEW id, Open(id)
  PROVE  /\ id \in TaskIds /\ id \in DOMAIN store /\ tasks[id] = store[id] /\ tasks[id] \in Task
         /\ clock \in Nat
BY QueueAssumption DEF ExecBase, IInv, TypeOK, MemoryMatchesStore, Open

LEMMA SavedIsMutate ==
  ASSUME NEW id, NEW t, Saved(id, t) \/ Lost(id, t)
  PROVE  Mutate(id, t)
BY DEF Saved, Lost, Mutate

LEMMA TellIsMutate ==
  ASSUME NEW k, NEW can, NEW t, NEW next, Tell(k, can, t, next) \/ Settle(k, can, t, next)
  PROVE  (can /\ Mutate(k.id, t)) \/ UNCHANGED <<tasks, store>>
<1>1. (can /\ (Saved(k.id, t) \/ Lost(k.id, t))) \/ UNCHANGED <<tasks, store>>
  BY Zenon DEF Tell, Settle
<1> QED  BY <1>1, SavedIsMutate

\* A step of a worker is a callback with its token, or none of the queue's
\* business.
LEMMA WorkerStepIsCallback ==
  ASSUME ExecBase, NEW k \in DOMAIN workers, WorkerStep(k)
  PROVE  Next \/ UNCHANGED vars
<1> DEFINE w == workers[k]
           t == tasks[k.id]
<1>1. /\ k \in issued /\ Open(k.id) /\ t \in Task /\ w \in Worker /\ k.id \in TaskIds
      /\ t = store[k.id] /\ k.id \in DOMAIN store
  BY WorkerFacts
<1>2. WorkerInBounds(k, w) /\ t.bytes <= MaxBytes /\ MaxBytes \in Nat
  BY <1>1, QueueAssumption DEF ExecBase, InBounds
<1>3. /\ w.off \in 0..MaxBytes /\ t.bytes \in 0..MaxBytes
      /\ w.total \in Option(0..MaxBytes) /\ t.bytes \in Checkpoints
  BY <1>1, <1>2 DEF WorkerInBounds, Worker, Task, Option, Checkpoints
<1>4. RevisionCap = None  BY ExecutorAssumption
<1>5. ASSUME NEW same \in BOOLEAN, CanRecordProgress(t, k.gen, w.off, w.total, clock),
             Mutate(k.id, RecordProgress(t, w.off, w.total, same, clock)),
             UNCHANGED <<clock, phase, issued>>
      PROVE  Next
  <2>1. ReportProgress(k, w.off, w.total, same)
    BY <1>1, <1>4, <1>5 DEF ReportProgress, Call
  <2>2. Callback(k)  BY <2>1, <1>3, <1>5 DEF Callback
  <2> QED  BY <2>2, <1>1 DEF Next
<1>6. ASSUME UNCHANGED <<tasks, store, clock, phase, issued>>  PROVE UNCHANGED vars
  BY <1>6 DEF vars
<1>7. CASE Register(k) \/ HeedCancel(k) \/ Connect(k) \/ BeginWrite(k) \/ ReadChunk(k)
           \/ WriteChunk(k) \/ CommitWrite(k) \/ AbortWrite(k) \/ Disconnect(k) \/ Unregister(k)
  BY <1>7, Zenon DEF Register, HeedCancel, Connect, BeginWrite, ReadChunk, WriteChunk, CommitWrite,
     AbortWrite, Disconnect, Unregister
<1>8. CASE RecordChunk(k)
  <2>1. UNCHANGED <<clock, phase, issued>>  BY <1>8, Zenon DEF RecordChunk
  <2>2. \/ UNCHANGED <<tasks, store>>
        \/ Tell(k, CanRecordProgress(t, k.gen, w.off, w.total, clock),
                RecordProgress(t, w.off, w.total, FALSE, clock), IF w.eof THEN "size" ELSE "read")
    BY <1>8, Zenon DEF RecordChunk
  <2>3. \/ UNCHANGED <<tasks, store>>
        \/ CanRecordProgress(t, k.gen, w.off, w.total, clock)
           /\ Mutate(k.id, RecordProgress(t, w.off, w.total, FALSE, clock))
    BY <2>2, TellIsMutate, Zenon
  <2> QED  BY <2>1, <2>3, <1>5, <1>6
<1>9. CASE CheckFinalSize(k)
  <2>1. UNCHANGED <<clock, phase, issued>>  BY <1>9, Zenon DEF CheckFinalSize
  <2>2. \/ UNCHANGED <<tasks, store>>
        \/ \E same \in BOOLEAN : Tell(k, CanRecordProgress(t, k.gen, w.off, w.total, clock),
                RecordProgress(t, w.off, w.total, same, clock), "commit")
    BY <1>9, Zenon DEF CheckFinalSize
  <2>3. \/ UNCHANGED <<tasks, store>>
        \/ \E same \in BOOLEAN : CanRecordProgress(t, k.gen, w.off, w.total, clock)
              /\ Mutate(k.id, RecordProgress(t, w.off, w.total, same, clock))
    <3>1. CASE UNCHANGED <<tasks, store>>  BY <3>1
    <3>2. ASSUME NEW same \in BOOLEAN,
                 Tell(k, CanRecordProgress(t, k.gen, w.off, w.total, clock),
                      RecordProgress(t, w.off, w.total, same, clock), "commit")
          PROVE  \/ UNCHANGED <<tasks, store>>
                 \/ CanRecordProgress(t, k.gen, w.off, w.total, clock)
                    /\ Mutate(k.id, RecordProgress(t, w.off, w.total, same, clock))
      BY <3>2, TellIsMutate, Zenon
    <3> QED  BY <2>2, <3>1, <3>2, Zenon
  <2> QED  BY <2>1, <2>3, <1>5, <1>6
<1>10. CASE ReportComplete(k)
  <2>1. UNCHANGED <<clock, phase, issued>>  BY <1>10, Zenon DEF ReportComplete
  <2>2. \/ UNCHANGED <<tasks, store>>
        \/ Tell(k, CanComplete(t, k.gen, clock), Complete(t, clock), "disconnect")
    BY <1>10, Zenon DEF ReportComplete
  <2>3. \/ UNCHANGED <<tasks, store>>
        \/ CanComplete(t, k.gen, clock) /\ Mutate(k.id, Complete(t, clock))
    BY <2>2, TellIsMutate, Zenon
  <2>4. UNCHANGED <<tasks, store>> \/ Finish(k)  BY <2>1, <2>3, <1>1 DEF Finish, Call
  <2> QED  BY <2>1, <2>4, <1>1, <1>6 DEF Next, Callback
<1>11. CASE PersistFailure(k)
  <2> DEFINE fault == w.fault
  <2>1. UNCHANGED <<clock, phase, issued>>  BY <1>11, Zenon DEF PersistFailure
  <2>2. fault \in Faults /\ fault # "none"
    BY <1>11, <1>1, <1>2 DEF WorkerInBounds, Worker, PersistFailure, At
  <2>3. \/ \E next : Settle(k, CanConfirmCancelled(t, k.gen, t.bytes, clock),
                            ConfirmCancelled(t, t.bytes, clock), next)
        \/ \E next : Settle(k, CanEnterConflict(t, k.gen, t.bytes, clock),
                            EnterConflict(t, t.bytes, clock), next)
        \/ fault \notin {"cancelled", "conflict"}
           /\ \E next : Settle(k, CanFail(t, k.gen, clock), Fail(t, fault, clock), next)
    BY <1>11, Zenon DEF PersistFailure
  <2>4. \/ UNCHANGED <<tasks, store>>
        \/ CanConfirmCancelled(t, k.gen, t.bytes, clock)
           /\ Mutate(k.id, ConfirmCancelled(t, t.bytes, clock))
        \/ CanEnterConflict(t, k.gen, t.bytes, clock)
           /\ Mutate(k.id, EnterConflict(t, t.bytes, clock))
        \/ /\ fault \notin {"cancelled", "conflict"}
           /\ CanFail(t, k.gen, clock) /\ Mutate(k.id, Fail(t, fault, clock))
    BY <2>3, TellIsMutate, Zenon
  <2>5. \/ UNCHANGED <<tasks, store>> \/ ConfirmCancel(k, t.bytes) \/ MeetConflict(k, t.bytes)
        \/ fault \in {"permanent", "retryable"} /\ FailRun(k, fault)
    BY <2>1, <2>2, <2>4, <1>1 DEF ConfirmCancel, MeetConflict, FailRun, Call, Faults
  <2>6. UNCHANGED <<tasks, store>> \/ Callback(k)
    BY <2>5, <1>3 DEF Callback
  <2> QED  BY <2>1, <2>6, <1>1, <1>6 DEF Next
<1>12. CASE PersistRetry(k)
  <2>1. UNCHANGED <<clock, phase, issued>>  BY <1>12, Zenon DEF PersistRetry
  <2>2. \/ UNCHANGED <<tasks, store>>
        \/ Settle(k, CanScheduleRetry(k.id, t, clock), ScheduleRetry(t, clock), "unregister")
    BY <1>12, Zenon DEF PersistRetry
  <2>3. \/ UNCHANGED <<tasks, store>>
        \/ CanScheduleRetry(k.id, t, clock) /\ Mutate(k.id, ScheduleRetry(t, clock))
    BY <2>2, TellIsMutate, Zenon
  <2>4. UNCHANGED <<tasks, store>> \/ AskRetry(k.id)  BY <2>1, <2>3, <1>1 DEF AskRetry, Call
  <2> QED  BY <2>1, <2>4, <1>1, <1>6 DEF Next, Request
<1> QED  BY <1>7, <1>8, <1>9, <1>10, <1>11, <1>12 DEF WorkerStep

\* So is every other step a call of the queue or none of its business.
LEMMA ExecStepIsQueueStep ==
  ASSUME ExecBase, [ExecNext]_execVars
  PROVE  [Next]_vars
<1>1. CASE UNCHANGED execVars  BY <1>1 DEF execVars
<1>2. ASSUME NEW id \in TaskIds, Client(id)  PROVE Next
  <2>1. ASSUME NEW policy \in OfferedPolicies, EnqueuePublic(id, policy)  PROVE Next
    BY <2>1, Zenon DEF EnqueuePublic, Next, Request
  <2>2. ASSUME NEW policy \in OfferedPolicies, ResolvePublic(id, policy)  PROVE Next
    <3>1. SettleConflict(id, policy)
      BY <2>2, SavedIsMutate, Zenon DEF ResolvePublic, SettleConflict, Call
    <3> QED  BY <3>1, Zenon DEF Next, Request
  <2>3. CASE CancelPublic(id)
    <3>1. AskCancel(id)  BY <2>3, SavedIsMutate, Zenon DEF CancelPublic, AskCancel, Call
    <3> QED  BY <3>1, Zenon DEF Next, Request
  <2>4. CASE RetryPublic(id)
    <3>1. AskRetry(id)  BY <2>4, SavedIsMutate, Zenon DEF RetryPublic, AskRetry, Call
    <3> QED  BY <3>1, Zenon DEF Next, Request
  <2> QED  BY <1>2, <2>1, <2>2, <2>3, <2>4, Zenon DEF Client
<1>3. ASSUME NEW id \in TaskIds, CancelControl(id)  PROVE UNCHANGED vars
  BY <1>3, Zenon DEF CancelControl
<1>4. CASE Runner
  <2>1. ASSUME NEW id \in TaskIds, StartWorker(id)  PROVE Next
    BY <2>1, Zenon DEF StartWorker, Next
  <2>2. ASSUME NEW id \in TaskIds, StartRefused(id)  PROVE UNCHANGED vars
    BY <2>2, Zenon DEF StartRefused
  <2>3. ASSUME NEW k \in DOMAIN workers, Join(k)  PROVE UNCHANGED vars
    BY <2>3, Zenon DEF Join
  <2>4. CASE StopFilling \/ Wake  BY <2>4, Zenon DEF StopFilling, Wake
  <2> QED  BY <1>4, <2>1, <2>2, <2>3, <2>4, Zenon DEF Runner
<1>5. ASSUME NEW k \in DOMAIN workers, WorkerStep(k)  PROVE Next \/ UNCHANGED vars
  BY <1>5, WorkerStepIsCallback
<1>6. ASSUME NEW k \in DOMAIN workers, Vanish(k)  PROVE UNCHANGED vars
  BY <1>6, Zenon DEF Vanish
<1>7. CASE Shutdown
  <2>1. CASE ShutdownControls \/ ShutdownPermits \/ ShutdownLock \/ ShutdownSignal \/ ShutdownTimeout
    BY <2>1, Zenon DEF ShutdownControls, ShutdownPermits, ShutdownLock, ShutdownSignal,
       ShutdownTimeout
  <2>2. ASSUME NEW id \in marking, ShutdownMark(id)  PROVE Next \/ UNCHANGED vars
    <3> DEFINE t == tasks[id]
    <3>1. UNCHANGED <<clock, phase, issued>>  BY <2>2, Zenon DEF ShutdownMark
    <3>2. Open(id) /\ id \in TaskIds
      BY <2>2 DEF ExecBase, ExecTypeOK, Opened, Open, ShutdownMark, IInv, TypeOK
    <3>3. CASE IsActive(t)
      <4>1. \/ UNCHANGED <<tasks, store>>
            \/ /\ CanRequestCancel(t, clock)
               /\ Saved(id, RequestCancel(t, clock)) \/ Lost(id, RequestCancel(t, clock))
        BY <2>2, <3>3, Zenon DEF ShutdownMark
      <4>2. UNCHANGED <<tasks, store>> \/ AskCancel(id)
        BY <4>1, <3>1, <3>2, SavedIsMutate, Zenon DEF AskCancel, Call
      <4> QED  BY <4>2, <3>1, <3>2, Zenon DEF vars, Next, Request
    <3>4. CASE ~IsActive(t)
      <4>1. UNCHANGED <<tasks, store>> \/ Saved(id, t) \/ Lost(id, t)
        BY <2>2, <3>4, Zenon DEF ShutdownMark
      <4>2. UNCHANGED <<tasks, store>>  BY <4>1, Zenon DEF Saved, Lost
      <4> QED  BY <4>2, <3>1 DEF vars
    <3> QED  BY <3>3, <3>4
  <2> QED  BY <1>7, <2>1, <2>2, Zenon DEF Shutdown
<1>8. CASE ExecOpen  BY <1>8, Zenon DEF ExecOpen, Next
<1>9. CASE ExecCrash  BY <1>9, Zenon DEF ExecCrash, Next
<1>10. CASE ExecTick  BY <1>10, Zenon DEF ExecTick, Next
<1>11. ASSUME NEW h \in Handles, Bind(h) \/ Outsider(h)  PROVE UNCHANGED vars
  BY <1>11, Zenon DEF Bind, Outsider
<1> QED
  BY <1>1, <1>2, <1>3, <1>4, <1>5, <1>6, <1>7, <1>8, <1>9, <1>10, <1>11, Zenon DEF ExecNext

-----------------------------------------------------------------------------
(* The executor's own invariant. *)

LEMMA PauseFacts ==
  ASSUME NEW t \in Task, NEW now, NEW offset
  PROVE  /\ RequestPause(t, now).bytes = t.bytes /\ Resume(t, now).bytes = t.bytes
         /\ ConfirmPaused(t, offset, now).bytes = t.bytes
<1>1. RequestPause(t, now).bytes = t.bytes  BY EnterGoesOn DEF RequestPause, RunGoesOn
<1>2. Resume(t, now).bytes = t.bytes  BY EnterGoesOn DEF Resume, RunGoesOn
<1>3. ConfirmPaused(t, offset, now).bytes = t.bytes
  BY DEF ConfirmPaused, EndRun, Enter, Task
<1> QED  BY <1>1, <1>2, <1>3

BytesInBounds == \A id \in DOMAIN store : store[id].bytes <= MaxBytes

LEMMA MutateInBounds ==
  ASSUME IInv, BytesInBounds, NEW id, Open(id), NEW t, Mutate(id, t), t.bytes <= MaxBytes
  PROVE  BytesInBounds'
<1>1. CASE store' = store  BY <1>1 DEF BytesInBounds
<1>2. CASE store' = Put(store, id, t)
  BY <1>2 DEF BytesInBounds, Put
<1> QED  BY <1>1, <1>2 DEF Mutate, CompareAndSwap

\* No step of the queue records more bytes than were reported.
LEMMA QueueInBounds ==
  ASSUME IInv, BytesInBounds, [Next]_vars
  PROVE  BytesInBounds'
<1> USE QueueAssumption
<1>1. CASE UNCHANGED vars  BY <1>1 DEF vars, BytesInBounds
<1>2. ASSUME NEW id, Open(id)
      PROVE  tasks[id] \in Task /\ tasks[id].bytes <= MaxBytes
  BY <1>2 DEF IInv, TypeOK, MemoryMatchesStore, BytesInBounds, Open
<1>3. ASSUME NEW id \in TaskIds, Request(id)  PROVE BytesInBounds'
  <2>1. ASSUME NEW policy \in OfferedPolicies, Enqueue(id, policy)  PROVE BytesInBounds'
    <3>1. store' = Put(store, id, NewTask(id, policy, clock))  BY <2>1 DEF Enqueue
    <3>2. NewTask(id, policy, clock).bytes <= MaxBytes  BY DEF NewTask
    <3> QED  BY <3>1, <3>2 DEF BytesInBounds, Put
  <2>2. CASE AskPause(id)
    BY <2>2, <1>2, PauseFacts, MutateInBounds DEF AskPause, Call
  <2>3. CASE AskResume(id)
    BY <2>3, <1>2, PauseFacts, MutateInBounds DEF AskResume, Call
  <2>4. CASE AskCancel(id)
    <3> PICK t : t = RequestCancel(tasks[id], clock)  OBVIOUS
    <3>1. t.bytes <= MaxBytes  BY <2>4, <1>2, CancelFacts DEF AskCancel
    <3> QED  BY <2>4, <3>1, MutateInBounds DEF AskCancel, Call
  <2>5. CASE AskRetry(id)
    <3> PICK t : t = ScheduleRetry(tasks[id], clock)  OBVIOUS
    <3>1. t.bytes <= MaxBytes  BY <2>5, <1>2, RetryFacts DEF AskRetry
    <3> QED  BY <2>5, <3>1, MutateInBounds DEF AskRetry, Call
  <2>6. ASSUME NEW policy \in OfferedPolicies, SettleConflict(id, policy)  PROVE BytesInBounds'
    <3> PICK t : t = ResolveConflict(tasks[id], policy, clock)  OBVIOUS
    <3>1. t.bytes <= MaxBytes  BY <2>6, <1>2, ResolveFacts DEF SettleConflict
    <3> QED  BY <2>6, <3>1, MutateInBounds DEF SettleConflict, Call
  <2> QED  BY <1>3, <2>1, <2>2, <2>3, <2>4, <2>5, <2>6, Zenon DEF Request
<1>4. ASSUME NEW id \in TaskIds, StartNext(id)  PROVE BytesInBounds'
  <2>1. Open(id)  BY <1>4 DEF StartNext, Next1, Candidates, Open
  <2> PICK t : t = Start(tasks[id], clock)  OBVIOUS
  <2>2. t.bytes <= MaxBytes  BY <2>1, <1>2, StartFacts DEF RunEnds
  <2> QED  BY <1>4, <2>1, <2>2, MutateInBounds DEF StartNext
<1>5. ASSUME NEW id \in TaskIds, RecoverOne(id)  PROVE BytesInBounds'
  <2>1. id \in DOMAIN store /\ store[id] \in Task
    BY <1>5 DEF RecoverOne, Unrecovered, IInv, TypeOK
  <2> PICK t : t = Recover(store[id], clock)  OBVIOUS
  <2>2. t.bytes <= MaxBytes  BY <2>1, RecoverFacts DEF BytesInBounds
  <2>3. store' = store \/ store' = Put(store, id, t)
    BY <1>5, Zenon DEF RecoverOne, CompareAndSwap
  <2> QED  BY <2>2, <2>3 DEF BytesInBounds, Put
<1>6. ASSUME NEW k \in issued, Callback(k)  PROVE BytesInBounds'
  <2>1. ASSUME NEW bytes \in 0..MaxBytes, NEW total \in Option(0..MaxBytes), NEW same \in BOOLEAN,
               ReportProgress(k, bytes, total, same)
        PROVE  BytesInBounds'
    <3> PICK t : t = RecordProgress(tasks[k.id], bytes, total, same, clock)  OBVIOUS
    <3>1. t.bytes <= MaxBytes  BY <2>1, <1>2, ProgressFacts DEF ReportProgress
    <3> QED  BY <2>1, <3>1, MutateInBounds DEF ReportProgress, Call
  <2>2. ASSUME NEW offset \in 0..MaxBytes, ConfirmPause(k, offset)  PROVE BytesInBounds'
    BY <2>2, <1>2, PauseFacts, MutateInBounds DEF ConfirmPause, Call
  <2>3. ASSUME NEW checkpoint \in Checkpoints, ConfirmCancel(k, checkpoint)  PROVE BytesInBounds'
    <3> PICK t : t = ConfirmCancelled(tasks[k.id], checkpoint, clock)  OBVIOUS
    <3>1. t.bytes <= MaxBytes  BY <2>3, <1>2, ConfirmCancelledFacts DEF ConfirmCancel, RunEnds
    <3> QED  BY <2>3, <3>1, MutateInBounds DEF ConfirmCancel, Call
  <2>4. CASE Finish(k)
    <3> PICK t : t = Complete(tasks[k.id], clock)  OBVIOUS
    <3>1. t.bytes <= MaxBytes  BY <2>4, <1>2, CompleteFacts DEF Finish, RunEnds
    <3> QED  BY <2>4, <3>1, MutateInBounds DEF Finish, Call
  <2>5. ASSUME NEW failure \in {"permanent", "retryable"}, FailRun(k, failure)
        PROVE  BytesInBounds'
    <3> PICK t : t = Fail(tasks[k.id], failure, clock)  OBVIOUS
    <3>1. t.bytes <= MaxBytes  BY <2>5, <1>2, FailFacts DEF FailRun, RunEnds
    <3> QED  BY <2>5, <3>1, MutateInBounds DEF FailRun, Call
  <2>6. ASSUME NEW checkpoint \in Checkpoints, MeetConflict(k, checkpoint)  PROVE BytesInBounds'
    <3> PICK t : t = EnterConflict(tasks[k.id], checkpoint, clock)  OBVIOUS
    <3>1. t.bytes <= MaxBytes  BY <2>6, <1>2, ConflictFacts DEF MeetConflict, RunEnds
    <3> QED  BY <2>6, <3>1, MutateInBounds DEF MeetConflict, Call
  <2> QED  BY <1>6, <2>1, <2>2, <2>3, <2>4, <2>5, <2>6, Zenon DEF Callback
<1>7. CASE OpenBegin \/ OpenFails \/ OpenDone \/ Crash \/ Tick
  BY <1>7 DEF OpenBegin, OpenFails, OpenDone, Crash, Tick, BytesInBounds
<1> QED  BY <1>1, <1>3, <1>4, <1>5, <1>6, <1>7, Zenon DEF Next

\* An open queue that stays open loses neither tasks nor tokens.
LEMMA OpenQueueGrows ==
  ASSUME IInv, [Next]_vars, phase = "open", phase' = "open"
  PROVE  issued \subseteq issued' /\ DOMAIN tasks \subseteq DOMAIN tasks'
<1>1. IInv' /\ RowsAdvance  BY NextIInv DEF GoodStep
<1>2. DOMAIN tasks = DOMAIN store /\ DOMAIN tasks' = DOMAIN store'
  BY <1>1 DEF IInv, MemoryMatchesStore
<1>3. DOMAIN store \subseteq DOMAIN store'  BY <1>1 DEF RowsAdvance
<1>4. issued \subseteq issued'
  <2>1. ASSUME NEW id \in TaskIds, Request(id) \/ StartNext(id) \/ RecoverOne(id)
        PROVE  issued \subseteq issued'
    BY <2>1 DEF Request, StartNext, RecoverOne, Enqueue, AskPause, AskResume, AskCancel, AskRetry,
                SettleConflict, Call
  <2>2. ASSUME NEW k \in issued, Callback(k)  PROVE issued' = issued
    BY <2>2 DEF Callback, ReportProgress, ConfirmPause, ConfirmCancel, Finish, FailRun,
                MeetConflict, Call
  <2>3. CASE OpenBegin \/ OpenFails \/ OpenDone \/ Crash \/ Tick
    BY <2>3 DEF OpenBegin, OpenFails, OpenDone, Crash, Tick
  <2>4. CASE UNCHANGED vars  BY <2>4 DEF vars
  <2> QED  BY <2>1, <2>2, <2>3, <2>4 DEF Next
<1> QED  BY <1>2, <1>3, <1>4

\* What a step of worker k may do besides its part in the queue.
WorkerMoves(k) ==
  /\ OnlyWorker(k) /\ WorkerInBounds(k, workers'[k])
  /\ UNCHANGED <<clock, phase, issued, runner, asked, shut, marking, bound>>
  /\ active' \in {active, Put(active, k.id, k), Without(active, {k.id})}
  /\ DOMAIN staged' \subseteq Handles /\ TargetsAreFinal'
  /\ DOMAIN files' \subseteq Handles \X FileNames

LEMMA FaultyInBounds ==
  ASSUME ExecTypeOK, NEW k \in DOMAIN workers, NEW fault \in Faults \ {"none"},
         NEW pc \in {"abort", "disconnect", "persist"}, Faulty(k, pc, fault)
  PROVE  OnlyWorker(k) /\ WorkerInBounds(k, workers'[k])
<1>1. pc \in Steps  BY DEF Steps, Awaits
<1>2. OnlyWorker(k) /\ workers'[k].pc = pc /\ FaultyData(workers[k], workers'[k], fault)
  BY <1>1, FaultyFacts
<1> QED  BY <1>2, QueueAssumption DEF WorkerInBounds, FaultyData, None

LEMMA GoesInBounds ==
  ASSUME ExecTypeOK, NEW k \in DOMAIN workers, WorkerInBounds(k, workers[k]),
         NEW pc \in Steps \ {"write"}, pc = "persist" => workers[k].fault # "none", Goes(k, pc)
  PROVE  OnlyWorker(k) /\ WorkerInBounds(k, workers'[k])
<1>1. OnlyWorker(k) /\ workers'[k].pc = pc /\ SameData(workers[k], workers'[k])
  BY GoesFacts
<1> QED  BY <1>1 DEF WorkerInBounds, SameData

LEMMA ErrsInBounds ==
  ASSUME ExecTypeOK, NEW k \in DOMAIN workers, WorkerInBounds(k, workers[k]), Errs(k)
  PROVE  OnlyWorker(k) /\ WorkerInBounds(k, workers'[k])
BY ErrsFacts DEF WorkerInBounds

LEMMA TellInBounds ==
  ASSUME ExecTypeOK, NEW k \in DOMAIN workers, WorkerInBounds(k, workers[k]), NEW can, NEW t,
         NEW next \in Steps \ {"write", "persist"}, Tell(k, can, t, next)
  PROVE  OnlyWorker(k) /\ WorkerInBounds(k, workers'[k])
<1>1. "retryable" \in Faults \ {"none"} /\ "cancelled" \in Faults \ {"none"}  BY DEF Faults
<1>2. Goes(k, next) \/ \E fault \in {"retryable", "cancelled"} : Faulty(k, "abort", fault)
  BY Zenon DEF Tell, Rejected
<1> QED  BY <1>1, <1>2, GoesInBounds, FaultyInBounds

LEMMA SettleInBounds ==
  ASSUME ExecTypeOK, NEW k \in DOMAIN workers, WorkerInBounds(k, workers[k]), NEW can, NEW t,
         NEW next \in Steps \ {"write", "persist"}, Settle(k, can, t, next)
  PROVE  OnlyWorker(k) /\ WorkerInBounds(k, workers'[k])
<1>1. Goes(k, next) \/ Errs(k)  BY Zenon DEF Settle
<1> QED  BY <1>1, GoesInBounds, ErrsInBounds

LEMMA WorkerStepMoves ==
  ASSUME ExecBase, NEW k \in DOMAIN workers, WorkerStep(k)
  PROVE  WorkerMoves(k)
<1> DEFINE w == workers[k]
           h == HandleOf[k.id]
<1>1. /\ ExecTypeOK /\ w \in Worker /\ WorkerInBounds(k, w) /\ k.id \in TaskIds /\ k \in issued
      /\ h \in Handles /\ TargetsAreFinal /\ w.pc \in Steps
  BY WorkerFacts, ExecutorAssumption DEF ExecBase, InBounds, Worker
<1>2. /\ DOMAIN staged \subseteq Handles /\ DOMAIN files \subseteq Handles \X FileNames
      /\ \A name \in FileNames : File(k.id, name) \in Handles \X FileNames
  BY <1>1 DEF ExecTypeOK, File
<1>3. Steps = {"spawned", "connect", "read", "record", "disconnect", "heed", "begin", "write",
               "size", "commit", "complete", "abort", "persist", "reschedule", "unregister", "done"}
  BY DEF Steps, Awaits
<1>4. {"retryable", "permanent", "conflict", "cancelled"} \subseteq Faults \ {"none"}
  BY DEF Faults
<1>5. SourceSize[k.id] \in 0..MaxBytes /\ ExpectedSize[k.id] \in Option(0..MaxBytes)
  <2>1. SourceSize[k.id] \in Nat /\ SourceSize[k.id] <= MaxBytes /\ MaxBytes \in Nat
    BY <1>1, ExecutorAssumption, QueueAssumption
  <2>2. ExpectedSize[k.id] \in Option(Nat) /\ ExpectedSize[k.id] <= MaxBytes
    BY <1>1, ExecutorAssumption, TaskAssumption
  <2> QED  BY <2>1, <2>2 DEF Option, None
<1>6. ASSUME NEW fault \in {"retryable", "permanent", "conflict", "cancelled"},
             NEW pc \in {"abort", "disconnect", "persist"}, Faulty(k, pc, fault)
      PROVE  OnlyWorker(k) /\ WorkerInBounds(k, workers'[k])
  BY <1>1, <1>4, <1>6, FaultyInBounds
<1>7. ASSUME NEW pc \in Steps \ {"write", "persist"}, Goes(k, pc)
      PROVE  OnlyWorker(k) /\ WorkerInBounds(k, workers'[k])
  BY <1>1, <1>7, GoesInBounds
<1>8. ASSUME UNCHANGED staged  PROVE DOMAIN staged' \subseteq Handles /\ TargetsAreFinal'
  BY <1>8, <1>1, <1>2 DEF TargetsAreFinal
<1>9. ASSUME UNCHANGED files  PROVE DOMAIN files' \subseteq Handles \X FileNames
  BY <1>9, <1>2
<1>10. ASSUME staged' = Without(staged, {h})
       PROVE  DOMAIN staged' \subseteq Handles /\ TargetsAreFinal'
  BY <1>10, <1>1, <1>2 DEF TargetsAreFinal, Without
<1>11. CASE Register(k)
  <2>1. CASE shut \in {"no", "cancelled"}
    <3>1. Goes(k, "heed") /\ active' = Put(active, k.id, k)  BY <1>11, <2>1, Zenon DEF Register
    <3> QED  BY <3>1, <1>3, <1>7, <1>8, <1>9, <1>11 DEF Register, WorkerMoves, vars, commands, local
  <2>2. CASE shut \notin {"no", "cancelled"}
    <3>1. workers' = [workers EXCEPT ![k].pc = "done", ![k].err = TRUE] /\ active' = active
      BY <1>11, <2>2, Zenon DEF Register
    <3>2. OnlyWorker(k)  BY <3>1, <1>1, <1>3 DEF OnlyWorker, ExecTypeOK, Worker
    <3>3. /\ workers'[k].pc = "done" /\ workers'[k].off = w.off /\ workers'[k].base = w.base
          /\ workers'[k].total = w.total
      BY <3>1, <1>1 DEF ExecTypeOK, Worker
    <3>4. WorkerInBounds(k, workers'[k])  BY <3>3, <1>1 DEF WorkerInBounds
    <3> QED  BY <3>1, <3>2, <3>4, <1>8, <1>9, <1>11 DEF Register, WorkerMoves, vars, commands, local
  <2> QED  BY <2>1, <2>2
<1>12. CASE HeedCancel(k)
  <2> PICK c \in BOOLEAN : c = (w.cancelled \/ tasks[k.id].state = "Cancelling")  OBVIOUS
  <2>1. workers' = [workers EXCEPT ![k].pc = "connect", ![k].cancelled = c]
    BY <1>12 DEF HeedCancel
  <2>2. OnlyWorker(k)  BY <2>1, <1>1, <1>3 DEF OnlyWorker, ExecTypeOK, Worker
  <2>3. /\ workers'[k].pc = "connect" /\ workers'[k].off = w.off /\ workers'[k].base = w.base
        /\ workers'[k].total = w.total
    BY <2>1, <1>1 DEF ExecTypeOK, Worker
  <2>4. WorkerInBounds(k, workers'[k])  BY <2>3, <1>1 DEF WorkerInBounds
  <2> QED  BY <2>2, <2>4, <1>8, <1>9, <1>12 DEF HeedCancel, WorkerMoves, vars, commands, local
<1>13. CASE Connect(k)
  <2>1. \/ \E fault \in {"retryable", "permanent", "conflict", "cancelled"} : Faulty(k, "persist", fault)
        \/ Goes(k, "begin")
    BY <1>13, Zenon DEF Connect
  <2>2. OnlyWorker(k) /\ WorkerInBounds(k, workers'[k])  BY <2>1, <1>3, <1>6, <1>7
  <2> QED  BY <2>2, <1>8, <1>9, <1>13 DEF Connect, WorkerMoves, vars, commands, local
<1>14. CASE BeginWrite(k)
  <2> DEFINE part == IF w.base > 0 /\ File(k.id, "part") \in DOMAIN files
                     THEN files[File(k.id, "part")] ELSE <<>>
             target == IF File(k.id, "bound") \in DOMAIN files /\ w.policy = "Rename"
                       THEN "renamed" ELSE "bound"
             found == File(k.id, "bound") \in DOMAIN files
  <2>1. \/ /\ \E fault \in {"retryable", "permanent", "conflict", "cancelled"} :
                Faulty(k, "disconnect", fault)
           /\ UNCHANGED staged
        \/ /\ staged' = Put(staged, h,
                     [target |-> target, policy |-> w.policy, found |-> found])
           /\ workers' = [workers EXCEPT ![k].pc = "read", ![k].off = w.base,
                                         ![k].total = ExpectedSize[k.id]]
    BY <1>14, Zenon DEF BeginWrite, local
  <2>2. UNCHANGED files \/ files' = Put(files, File(k.id, "part"), part)
    BY <1>14, Zenon DEF BeginWrite, local
  <2>3. DOMAIN files' \subseteq Handles \X FileNames
    BY <2>2, <1>2 DEF Put, FileNames
  <2>4. UNCHANGED bound  BY <1>14, Zenon DEF BeginWrite, local
  <2>5. CASE \E fault \in {"retryable", "permanent", "conflict", "cancelled"} :
               Faulty(k, "disconnect", fault) /\ UNCHANGED staged
    <3>1. OnlyWorker(k) /\ WorkerInBounds(k, workers'[k])  BY <2>5, <1>6
    <3> QED  BY <3>1, <2>3, <2>4, <2>5, <1>8, <1>14 DEF BeginWrite, WorkerMoves, vars, commands
  <2>6. CASE /\ staged' = Put(staged, h,
                        [target |-> target, policy |-> w.policy, found |-> found])
             /\ workers' = [workers EXCEPT ![k].pc = "read", ![k].off = w.base,
                                           ![k].total = ExpectedSize[k.id]]
    <3>1. w.base \in Nat /\ ExpectedSize[k.id] \in Option(Nat)
      BY <1>1, TaskAssumption DEF Worker
    <3>2. OnlyWorker(k)  BY <2>6, <3>1, <1>1, <1>3 DEF OnlyWorker, ExecTypeOK, Worker
    <3>3. /\ workers'[k].pc = "read" /\ workers'[k].off = w.base /\ workers'[k].base = w.base
          /\ workers'[k].total = ExpectedSize[k.id]
      BY <2>6, <1>1 DEF ExecTypeOK, Worker
    <3>4. WorkerInBounds(k, workers'[k])
      BY <3>3, <1>1, <1>5, QueueAssumption DEF WorkerInBounds, Option, None
    <3>5. target \in {"bound", "renamed"}  OBVIOUS
    <3>6. DOMAIN staged' \subseteq Handles /\ TargetsAreFinal'
      BY <2>6, <3>5, <1>1, <1>2 DEF TargetsAreFinal, Put
    <3> QED  BY <3>2, <3>4, <3>6, <2>3, <2>4, <1>14 DEF BeginWrite, WorkerMoves, vars, commands
  <2> QED  BY <2>1, <2>5, <2>6
<1>15. CASE ReadChunk(k)
  <2>1. \/ \E fault \in {"retryable", "permanent", "conflict", "cancelled"} : Faulty(k, "abort", fault)
        \/ \E size \in {None, SourceSize[k.id]} :
             workers' = [workers EXCEPT
               ![k].total = IF @ = None THEN size ELSE @,
               ![k].eof = w.off + 1 >= SourceSize[k.id],
               ![k].pc = IF w.off < SourceSize[k.id] THEN "write" ELSE "size"]
    BY <1>15, Zenon DEF ReadChunk
  <2>2. CASE \E fault \in {"retryable", "permanent", "conflict", "cancelled"} : Faulty(k, "abort", fault)
    <3>1. OnlyWorker(k) /\ WorkerInBounds(k, workers'[k])  BY <2>2, <1>6
    <3> QED  BY <3>1, <1>8, <1>9, <1>15 DEF ReadChunk, WorkerMoves, vars, commands, local
  <2>3. ASSUME NEW size \in {None, SourceSize[k.id]},
               workers' = [workers EXCEPT
                 ![k].total = IF @ = None THEN size ELSE @,
                 ![k].eof = w.off + 1 >= SourceSize[k.id],
                 ![k].pc = IF w.off < SourceSize[k.id] THEN "write" ELSE "size"]
        PROVE  WorkerMoves(k)
    <3> PICK total : total = IF w.total = None THEN size ELSE w.total  OBVIOUS
    <3> PICK eof \in BOOLEAN : eof = (w.off + 1 >= SourceSize[k.id])
      <4>1. w.off + 1 \in Int /\ SourceSize[k.id] \in Int  BY <1>1, <1>5 DEF Worker
      <4>2. (w.off + 1 >= SourceSize[k.id]) \in BOOLEAN  BY <4>1
      <4> QED  BY <4>2, Zenon
    <3> PICK pc : pc = IF w.off < SourceSize[k.id] THEN "write" ELSE "size"  OBVIOUS
    <3>1. workers' = [workers EXCEPT ![k].total = total, ![k].eof = eof, ![k].pc = pc]
      BY <2>3, <1>1 DEF ExecTypeOK
    <3>2. total \in Option(Nat) /\ total <= MaxBytes /\ pc \in {"write", "size"}
      BY <1>1, <1>5, QueueAssumption DEF Worker, WorkerInBounds, Option, None
    <3>3. OnlyWorker(k)  BY <3>1, <3>2, <1>1, <1>3 DEF OnlyWorker, ExecTypeOK, Worker
    <3>4. /\ workers'[k].pc = pc /\ workers'[k].off = w.off /\ workers'[k].base = w.base
          /\ workers'[k].total = total
      BY <3>1, <1>1 DEF ExecTypeOK, Worker
    <3>5. WorkerInBounds(k, workers'[k])  BY <3>2, <3>4, <1>1 DEF WorkerInBounds
    <3> QED  BY <3>3, <3>5, <1>8, <1>9, <1>15 DEF ReadChunk, WorkerMoves, vars, commands, local
  <2> QED  BY <2>1, <2>2, <2>3
<1>16. CASE WriteChunk(k)
  <2> DEFINE part == File(k.id, "part")
  <2>1. UNCHANGED files \/ (part \in DOMAIN files /\ files' = [files EXCEPT ![part] = Append(@, k.id)])
    BY <1>16, Zenon DEF WriteChunk
  <2>2. DOMAIN files' \subseteq Handles \X FileNames  BY <2>1, <1>2
  <2>3. \/ \E fault \in {"retryable", "permanent", "conflict", "cancelled"} : Faulty(k, "abort", fault)
        \/ workers' = [workers EXCEPT ![k].pc = "record", ![k].off = @ + 1]
    BY <1>16, Zenon DEF WriteChunk
  <2>4. OnlyWorker(k) /\ WorkerInBounds(k, workers'[k])
    <3>1. CASE workers' = [workers EXCEPT ![k].pc = "record", ![k].off = @ + 1]
      <4> PICK n \in Nat : n = w.off + 1  BY <1>1 DEF Worker
      <4>1. workers' = [workers EXCEPT ![k].pc = "record", ![k].off = n]
        BY <3>1, <1>1 DEF ExecTypeOK
      <4>2. n <= MaxBytes
        BY <1>16, <1>1, <1>5, QueueAssumption DEF WorkerInBounds, WriteChunk, At, Worker
      <4>3. OnlyWorker(k)  BY <4>1, <1>1, <1>3 DEF OnlyWorker, ExecTypeOK, Worker
      <4>4. /\ workers'[k].pc = "record" /\ workers'[k].off = n /\ workers'[k].base = w.base
            /\ workers'[k].total = w.total
        BY <4>1, <1>1 DEF ExecTypeOK, Worker
      <4> QED  BY <4>2, <4>3, <4>4, <1>1 DEF WorkerInBounds
    <3> QED  BY <3>1, <2>3, <1>6
  <2> QED  BY <2>2, <2>4, <1>8, <1>16 DEF WriteChunk, WorkerMoves, vars, commands
<1>17. CASE RecordChunk(k)
  <2>1. \/ \E fault \in {"retryable", "cancelled"} : Faulty(k, "abort", fault)
        \/ Tell(k, CanRecordProgress(tasks[k.id], k.gen, w.off, w.total, clock),
                RecordProgress(tasks[k.id], w.off, w.total, FALSE, clock),
                IF w.eof THEN "size" ELSE "read")
    BY <1>17, Zenon DEF RecordChunk
  <2>2. (IF w.eof THEN "size" ELSE "read") \in Steps \ {"write", "persist"}  BY <1>3
  <2>3. OnlyWorker(k) /\ WorkerInBounds(k, workers'[k])
    BY <2>1, <2>2, <1>1, <1>6, TellInBounds
  <2> QED  BY <2>3, <1>8, <1>9, <1>17 DEF RecordChunk, WorkerMoves, vars, commands, local
<1>18. CASE CheckFinalSize(k)
  <2>1. \/ Faulty(k, "abort", "conflict") \/ Goes(k, "commit")
        \/ \E same \in BOOLEAN :
             Tell(k, CanRecordProgress(tasks[k.id], k.gen, w.off, w.total, clock),
                  RecordProgress(tasks[k.id], w.off, w.total, same, clock), "commit")
    BY <1>18, Zenon DEF CheckFinalSize
  <2>2. "commit" \in Steps \ {"write", "persist"}  BY <1>3
  <2>3. OnlyWorker(k) /\ WorkerInBounds(k, workers'[k])
    BY <2>1, <2>2, <1>1, <1>6, <1>7, TellInBounds
  <2> QED  BY <2>3, <1>8, <1>9, <1>18 DEF CheckFinalSize, WorkerMoves, vars, commands, local
<1>19. CASE CommitWrite(k)
  <2> DEFINE part == File(k.id, "part")
  <2>1. \/ /\ \E fault \in {"retryable", "permanent", "conflict", "cancelled"} :
                Faulty(k, "abort", fault)
           /\ UNCHANGED files
        \/ /\ files' = Without(Put(files, <<h, staged[h].target>>, files[part]), {part})
           /\ h \in DOMAIN staged /\ Goes(k, "complete")
    BY <1>19, Zenon DEF CommitWrite
  <2>2. OnlyWorker(k) /\ WorkerInBounds(k, workers'[k])  BY <2>1, <1>3, <1>6, <1>7
  <2>3. DOMAIN files' \subseteq Handles \X FileNames
    <3>1. CASE UNCHANGED files  BY <3>1, <1>9
    <3>2. CASE h \in DOMAIN staged
               /\ files' = Without(Put(files, <<h, staged[h].target>>, files[part]), {part})
      <4>1. <<h, staged[h].target>> \in Handles \X FileNames
        BY <3>2, <1>1 DEF TargetsAreFinal, FileNames
      <4>2. DOMAIN files' \subseteq DOMAIN files \cup {<<h, staged[h].target>>}
        BY <3>2 DEF Without, Put
      <4> QED  BY <4>1, <4>2, <1>2
    <3> QED  BY <2>1, <3>1, <3>2
  <2> QED  BY <2>2, <2>3, <1>8, <1>19 DEF CommitWrite, WorkerMoves, vars, commands
<1>20. CASE ReportComplete(k)
  <2>1. \/ \E fault \in {"retryable", "permanent", "cancelled"} : Faulty(k, "abort", fault)
        \/ Tell(k, CanComplete(tasks[k.id], k.gen, clock), Complete(tasks[k.id], clock), "disconnect")
    BY <1>20, Zenon DEF ReportComplete
  <2>2. "disconnect" \in Steps \ {"write", "persist"}  BY <1>3
  <2>3. OnlyWorker(k) /\ WorkerInBounds(k, workers'[k])
    BY <2>1, <2>2, <1>1, <1>6, TellInBounds
  <2>4. UNCHANGED staged \/ staged' = Without(staged, {h})  BY <1>20, Zenon DEF ReportComplete
  <2> QED  BY <2>3, <2>4, <1>8, <1>9, <1>10, <1>20 DEF ReportComplete, WorkerMoves, commands
<1>21. CASE AbortWrite(k)
  <2>1. OnlyWorker(k) /\ WorkerInBounds(k, workers'[k])  BY <1>21, <1>3, <1>7 DEF AbortWrite
  <2>2. UNCHANGED files \/ files' = Without(files, {File(k.id, "part")})
    BY <1>21, Zenon DEF AbortWrite
  <2>3. DOMAIN files' \subseteq Handles \X FileNames  BY <2>2, <1>2 DEF Without
  <2> QED  BY <2>1, <2>3, <1>10, <1>21 DEF AbortWrite, WorkerMoves, vars, commands
<1>22. CASE Disconnect(k)
  <2>1. \/ w.fault # "none" /\ Goes(k, "persist")
        \/ Goes(k, "unregister")
        \/ \E fault \in {"retryable", "permanent"} : Faulty(k, "persist", fault)
    BY <1>22, Zenon DEF Disconnect
  <2>2. "persist" \in Steps \ {"write"} /\ "unregister" \in Steps \ {"write", "persist"}  BY <1>3
  <2>3. OnlyWorker(k) /\ WorkerInBounds(k, workers'[k])
    BY <2>1, <2>2, <1>1, <1>6, <1>7, GoesInBounds
  <2> QED  BY <2>3, <1>8, <1>9, <1>22 DEF Disconnect, WorkerMoves, vars, commands, local
<1>23. CASE PersistFailure(k)
  <2>1. \E can, t, next : next \in {"unregister", "reschedule"} /\ Settle(k, can, t, next)
    BY <1>23, Zenon DEF PersistFailure
  <2>2. {"unregister", "reschedule"} \subseteq Steps \ {"write", "persist"}  BY <1>3
  <2>3. OnlyWorker(k) /\ WorkerInBounds(k, workers'[k])
    BY <2>1, <2>2, <1>1, SettleInBounds
  <2> QED  BY <2>3, <1>8, <1>9, <1>23 DEF PersistFailure, WorkerMoves, commands, local
<1>24. CASE PersistRetry(k)
  <2>1. Goes(k, "unregister") \/ \E can, t : Settle(k, can, t, "unregister")
    BY <1>24, Zenon DEF PersistRetry
  <2>2. "unregister" \in Steps \ {"write", "persist"}  BY <1>3
  <2>3. OnlyWorker(k) /\ WorkerInBounds(k, workers'[k])
    BY <2>1, <2>2, <1>1, <1>7, SettleInBounds
  <2> QED  BY <2>3, <1>8, <1>9, <1>24 DEF PersistRetry, WorkerMoves, commands, local
<1>25. CASE Unregister(k)
  <2>1. OnlyWorker(k) /\ WorkerInBounds(k, workers'[k])  BY <1>25, <1>3, <1>7 DEF Unregister
  <2> QED  BY <2>1, <1>8, <1>9, <1>25 DEF Unregister, WorkerMoves, vars, commands, local
<1> QED
  BY <1>11, <1>12, <1>13, <1>14, <1>15, <1>16, <1>17, <1>18, <1>19, <1>20, <1>21, <1>22, <1>23,
     <1>24, <1>25 DEF WorkerStep

\* control.cancel() changes one flag.
LEMMA CancelControlsFacts ==
  ASSUME ExecTypeOK, NEW ids, CancelControls(ids)
  PROVE  /\ workers' \in [DOMAIN workers -> Worker]
         /\ \A j \in DOMAIN workers :
              /\ workers'[j].pc = workers[j].pc /\ workers'[j].base = workers[j].base
              /\ workers'[j].off = workers[j].off /\ workers'[j].total = workers[j].total
              /\ workers'[j].policy = workers[j].policy /\ workers'[j].eof = workers[j].eof
              /\ workers'[j].fault = workers[j].fault /\ workers'[j].err = workers[j].err
              /\ workers'[j].cancelled
                   = (workers[j].cancelled \/ j \in {active[id] : id \in ids \cap DOMAIN active})
<1> DEFINE hit == {active[id] : id \in ids \cap DOMAIN active}
<1>1. workers' = [j \in DOMAIN workers |->
                    [workers[j] EXCEPT !.cancelled = workers[j].cancelled \/ j \in hit]]
  BY DEF CancelControls
<1> HIDE DEF hit
<1>2. ASSUME NEW j \in DOMAIN workers
      PROVE  /\ workers'[j] \in Worker
             /\ workers'[j].pc = workers[j].pc /\ workers'[j].base = workers[j].base
             /\ workers'[j].off = workers[j].off /\ workers'[j].total = workers[j].total
             /\ workers'[j].policy = workers[j].policy /\ workers'[j].eof = workers[j].eof
             /\ workers'[j].fault = workers[j].fault /\ workers'[j].err = workers[j].err
             /\ workers'[j].cancelled = (workers[j].cancelled \/ j \in hit)
  <2> PICK w \in Worker : w = workers[j]  BY DEF ExecTypeOK
  <2> PICK c \in BOOLEAN : c = (workers[j].cancelled \/ j \in hit)  BY Zenon
  <2> PICK v : v = [w EXCEPT !.cancelled = c]  OBVIOUS
  <2>1. workers'[j] = v  BY <1>1
  <2>2. /\ v \in Worker /\ v.pc = w.pc /\ v.base = w.base /\ v.off = w.off /\ v.total = w.total
        /\ v.policy = w.policy /\ v.eof = w.eof /\ v.fault = w.fault /\ v.err = w.err
        /\ v.cancelled = c
    BY DEF Worker
  <2> QED  BY <2>1, <2>2, Zenon
<1>3. DOMAIN workers' = DOMAIN workers /\ workers' = [j \in DOMAIN workers |-> workers'[j]]
  BY <1>1
<1>4. workers' \in [DOMAIN workers -> Worker]  BY <1>2, <1>3
<1> QED  BY <1>2, <1>4, Zenon DEF hit

LEMMA BaseAfterWorker ==
  ASSUME ExecBase, NEW k \in DOMAIN workers, WorkerMoves(k), [Next]_vars
  PROVE  ExecBase'
<1>1. IInv'  BY NextIInv DEF ExecBase
<1>2. phase = "open" /\ k \in issued /\ k.id \in TaskIds  BY WorkerFacts
<1>3. phase' = "open" /\ issued' = issued /\ DOMAIN tasks \subseteq DOMAIN tasks'
  BY <1>2, OpenQueueGrows DEF WorkerMoves, ExecBase
<1>4. BytesInBounds'  BY QueueInBounds DEF ExecBase, InBounds, BytesInBounds
<1>5. DOMAIN workers' = DOMAIN workers /\ workers' \in [DOMAIN workers' -> Worker]
  BY DEF WorkerMoves, OnlyWorker
<1>6. \A j \in DOMAIN workers' : WorkerInBounds(j, workers'[j])
  BY <1>5 DEF WorkerMoves, OnlyWorker, ExecBase, InBounds
<1>7. /\ DOMAIN active' \subseteq TaskIds /\ active' \in [DOMAIN active' -> issued']
      /\ \A id \in DOMAIN active' : active'[id].id = id
  <2>0. /\ DOMAIN active \subseteq TaskIds /\ active \in [DOMAIN active -> issued]
        /\ \A id \in DOMAIN active : active[id].id = id
    BY DEF ExecBase, ExecTypeOK
  <2>1. CASE active' = active  BY <2>0, <2>1, <1>3
  <2>2. CASE active' = Put(active, k.id, k)  BY <2>0, <2>2, <1>2, <1>3 DEF Put
  <2>3. CASE active' = Without(active, {k.id})  BY <2>0, <2>3, <1>3 DEF Without
  <2> QED  BY <2>1, <2>2, <2>3 DEF WorkerMoves
<1>8. ExecTypeOK'
  BY <1>3, <1>5, <1>7 DEF ExecBase, ExecTypeOK, WorkerMoves
<1>9. Opened'  BY <1>2, <1>3 DEF ExecBase, Opened, WorkerMoves
<1> QED
  BY <1>1, <1>4, <1>6, <1>7, <1>8, <1>9 DEF ExecBase, InBounds, BytesInBounds, WorkerMoves

\* A step in which the workers at most lose somebody or hear a cancel.
LEMMA BaseAfterOther ==
  ASSUME ExecBase, [Next]_vars, phase' = phase, runner' \in Runners,
         runner' = "off" <=> runner = "off",
         DOMAIN workers' \subseteq DOMAIN workers, workers' \in [DOMAIN workers' -> Worker],
         \A j \in DOMAIN workers' : WorkerInBounds(j, workers'[j]),
         UNCHANGED <<active, staged>>,
         asked' \subseteq DOMAIN tasks', shut' \in Shuts, marking' \subseteq DOMAIN tasks',
         phase = "open" \/ UNCHANGED <<asked, shut, marking>>,
         bound' \subseteq Handles, DOMAIN files' \subseteq Handles \X FileNames
  PROVE  ExecBase'
<1>1. IInv'  BY NextIInv DEF ExecBase
<1>2. BytesInBounds'  BY QueueInBounds DEF ExecBase, InBounds, BytesInBounds
<1>3. phase # "open" => issued = {} /\ DOMAIN active = {} /\ DOMAIN workers' = {}
  BY DEF ExecBase, IInv, QuietUntilOpen, Opened
<1>4. DOMAIN workers' \subseteq issued' /\ active' \in [DOMAIN active' -> issued']
  <2>1. CASE phase = "open"
    <3>1. issued \subseteq issued'  BY <2>1, OpenQueueGrows DEF ExecBase
    <3> QED  BY <3>1 DEF ExecBase, ExecTypeOK
  <2>2. CASE phase # "open"  BY <2>2, <1>3 DEF ExecBase, ExecTypeOK
  <2> QED  BY <2>1, <2>2
<1>5. ExecTypeOK'  BY <1>4 DEF ExecBase, ExecTypeOK
<1>6. Opened'  BY <1>3 DEF ExecBase, Opened
<1>7. TargetsAreFinal'  BY DEF ExecBase, TargetsAreFinal
<1> QED  BY <1>1, <1>2, <1>5, <1>6, <1>7 DEF ExecBase, InBounds, BytesInBounds

\* What starting a task does: a new worker for a new token.
LEMMA StartWorkerFacts ==
  ASSUME ExecBase, NEW id \in TaskIds, StartWorker(id)
  PROVE  /\ UNCHANGED <<clock, phase, active, asked, shut, marking, bound, staged, files>>
         /\ Open(id) /\ phase = "open" /\ ~IsActive(store[id])
         /\ \/ /\ UNCHANGED <<tasks, store, issued, workers>> /\ runner' = "failed" /\ StoreMayFail
            \/ \E t \in Task :
                 LET k == [id |-> id, gen |-> t.generation] IN
                 /\ store' = Put(store, id, t) /\ tasks' = Put(tasks, id, t)
                 /\ RunEnds(store[id], t) /\ t.state = "Running"
                 /\ issued' = issued \cup {k}
                 /\ workers' = Put(workers, k, NewWorker(t))
                 /\ UNCHANGED runner
<1>1. Open(id) /\ phase = "open"
  BY DEF StartWorker, StartNext, Next1, Candidates, Open
<1>2. /\ id \in DOMAIN store /\ tasks[id] = store[id] /\ tasks[id] \in Task /\ clock \in Nat
      /\ id \in DOMAIN tasks /\ tasks \in [DOMAIN tasks -> Task]
  BY <1>1, TaskFacts DEF Open, ExecBase, IInv, TypeOK
<1>3. ~IsActive(store[id])
  <2>1. Startable(tasks[id], clock)  BY DEF StartWorker, StartNext, Next1, Candidates
  <2> QED  BY <2>1, <1>2 DEF Startable, IsActive, ActiveKinds
<1>4. UNCHANGED <<clock, phase, active, asked, shut, marking, bound, staged, files>>
  BY DEF StartWorker, StartNext, commands, local
<1>5. PICK t : t = Start(tasks[id], clock)  OBVIOUS
<1>6. RunEnds(tasks[id], t) /\ t.state = "Running" /\ t.revision = tasks[id].revision + 1
  BY <1>2, <1>5, StartFacts
<1>7. t \in Task
  <2>1. CanStart(id, tasks[id], clock)  BY DEF StartWorker, StartNext
  <2> QED  BY <2>1, <1>2, <1>5, StartIsValid
<1>8. t.revision # tasks[id].revision  BY <1>6, <1>2 DEF Task
<1>9. Mutate(id, t) /\ issued' = issued \cup (IF tasks' = tasks THEN {} ELSE {[id |-> id, gen |-> t.generation]})
  BY <1>5 DEF StartWorker, StartNext
<1>10. CASE tasks' = tasks
  <2>1. runner' = "failed" /\ StoreMayFail /\ UNCHANGED workers
    BY <1>10, Zenon DEF StartWorker
  <2>2. ~(tasks' = Put(tasks, id, t))
    <3>1. Put(tasks, id, t)[id] = t  BY DEF Put
    <3> QED  BY <3>1, <1>8, <1>10
  <2>3. store' = store  BY <1>9, <2>2 DEF Mutate
  <2>4. issued' = issued  BY <1>9, <1>10
  <2> QED  BY <1>1, <1>3, <1>4, <1>10, <2>1, <2>3, <2>4, Zenon
<1>11. CASE tasks' # tasks
  <2>1. store' = Put(store, id, t) /\ tasks' = Put(tasks, id, t)
    BY <1>9, <1>11 DEF Mutate, CompareAndSwap
  <2>2. tasks'[id] = t  BY <2>1 DEF Put
  <2>3. /\ workers' = Put(workers, [id |-> id, gen |-> tasks'[id].generation], NewWorker(tasks'[id]))
        /\ UNCHANGED runner
    BY <1>11, Zenon DEF StartWorker
  <2>4. issued' = issued \cup {[id |-> id, gen |-> t.generation]}  BY <1>9, <1>11
  <2>5. workers' = Put(workers, [id |-> id, gen |-> t.generation], NewWorker(t))  BY <2>2, <2>3
  <2> QED  BY <1>1, <1>2, <1>3, <1>4, <1>6, <1>7, <2>1, <2>3, <2>4, <2>5, Zenon
<1> QED  BY <1>10, <1>11

LEMMA BaseAfterStart ==
  ASSUME ExecBase, NEW id \in TaskIds, StartWorker(id), [Next]_vars
  PROVE  ExecBase'
<1> USE StartWorkerFacts
<1>1. IInv'  BY NextIInv DEF ExecBase
<1>2. BytesInBounds'  BY QueueInBounds DEF ExecBase, InBounds, BytesInBounds
<1>3. phase = "open" /\ phase' = "open" /\ id \in DOMAIN tasks /\ runner # "off"
  BY DEF Open, StartWorker
<1>4. issued \subseteq issued' /\ DOMAIN tasks \subseteq DOMAIN tasks'
  BY <1>3, OpenQueueGrows DEF ExecBase
<1>5. DOMAIN workers \subseteq issued /\ workers \in [DOMAIN workers -> Worker]
  BY DEF ExecBase, ExecTypeOK
<1>6. /\ DOMAIN workers' \subseteq issued' /\ workers' \in [DOMAIN workers' -> Worker]
      /\ \A j \in DOMAIN workers' : WorkerInBounds(j, workers'[j])
      /\ runner' \in Runners \ {"off"}
  <2>1. CASE UNCHANGED workers /\ runner' = "failed"
    BY <2>1, <1>4, <1>5 DEF ExecBase, InBounds, Runners
  <2>2. ASSUME NEW t \in Task, RunEnds(store[id], t),
               issued' = issued \cup {[id |-> id, gen |-> t.generation]},
               workers' = Put(workers, [id |-> id, gen |-> t.generation], NewWorker(t)),
               UNCHANGED runner
        PROVE  /\ DOMAIN workers' \subseteq issued' /\ workers' \in [DOMAIN workers' -> Worker]
               /\ \A j \in DOMAIN workers' : WorkerInBounds(j, workers'[j])
               /\ runner' \in Runners \ {"off"}
    <3> PICK k : k = [id |-> id, gen |-> t.generation]  OBVIOUS
    <3> PICK w : w = NewWorker(t)  OBVIOUS
    <3>1. t.bytes = store[id].bytes /\ id \in DOMAIN store
      BY <2>2, <1>3, TaskFacts DEF RunEnds, Open
    <3>2. w \in Worker
      BY DEF NewWorker, Worker, Steps, Awaits, Faults, Task, Option
    <3>3. WorkerInBounds(k, w)
      BY <3>1, QueueAssumption DEF NewWorker, WorkerInBounds, None, ExecBase, InBounds
    <3>4. DOMAIN workers' = DOMAIN workers \cup {k}
          /\ \A j \in DOMAIN workers' : workers'[j] = IF j = k THEN w ELSE workers[j]
      BY <2>2 DEF Put
    <3>5. \A j \in DOMAIN workers' : workers'[j] \in Worker /\ WorkerInBounds(j, workers'[j])
      BY <3>2, <3>3, <3>4, <1>5 DEF ExecBase, InBounds
    <3>6. workers' = [j \in DOMAIN workers' |-> workers'[j]]  BY <2>2 DEF Put
    <3>7. workers' \in [DOMAIN workers' -> Worker]  BY <3>5, <3>6
    <3>8. DOMAIN workers' \subseteq issued'  BY <3>4, <2>2, <1>5
    <3>9. runner' \in Runners \ {"off"}  BY <2>2, <1>3 DEF ExecBase, ExecTypeOK
    <3> QED  BY <3>5, <3>7, <3>8, <3>9
  <2> QED  BY <2>1, <2>2
<1>7. active' \in [DOMAIN active' -> issued']  BY <1>4 DEF ExecBase, ExecTypeOK
<1>8. ExecTypeOK'  BY <1>4, <1>6, <1>7 DEF ExecBase, ExecTypeOK
<1>9. Opened'  BY <1>3, <1>6 DEF Opened
<1>10. TargetsAreFinal'  BY DEF ExecBase, TargetsAreFinal
<1> QED  BY <1>1, <1>2, <1>6, <1>8, <1>9, <1>10 DEF ExecBase, InBounds, BytesInBounds

\* Opening and the end of the process.
LEMMA BaseAfterBreak ==
  ASSUME ExecBase, ExecOpen \/ ExecCrash, [Next]_vars
  PROVE  ExecBase'
<1>1. IInv'  BY NextIInv DEF ExecBase
<1>2. BytesInBounds'  BY QueueInBounds DEF ExecBase, InBounds, BytesInBounds
<1>3. /\ DOMAIN workers' = {} /\ DOMAIN active' = {} /\ asked' = {} /\ shut' = "no"
      /\ marking' = {} /\ bound' \subseteq Handles /\ DOMAIN staged' \subseteq Handles
      /\ TargetsAreFinal' /\ DOMAIN files' \subseteq Handles \X FileNames
      /\ workers' \in [{} -> Worker] /\ active' \in [{} -> issued']
      /\ runner' \in Runners /\ (runner' = "off" <=> phase' # "open")
  <2>1. CASE ExecOpen
    <3>1. phase # "open"  BY <2>1 DEF ExecOpen, OpenBegin, RecoverOne, OpenFails, OpenDone
    <3>2. runner' = IF phase' = "open" THEN "filling" ELSE "off"
      BY <2>1, <3>1 DEF ExecOpen, OpenBegin, RecoverOne, OpenFails, OpenDone, ExecBase, Opened
    <3>3. UNCHANGED <<workers, active, asked, shut, marking, bound, staged, files>>
      BY <2>1 DEF ExecOpen, commands, local
    <3>4. DOMAIN active = {} /\ active \in [{} -> issued] /\ workers \in [{} -> Worker]
      BY <3>1 DEF ExecBase, ExecTypeOK, Opened
    <3>5. active' \in [{} -> issued']  BY <3>3, <3>4
    <3> QED
      BY <3>1, <3>2, <3>3, <3>4, <3>5 DEF ExecBase, ExecTypeOK, Opened, TargetsAreFinal, Runners
  <2>2. CASE ExecCrash
    <3>1. DOMAIN Empty = {} /\ Empty \in [{} -> Worker] /\ Empty \in [{} -> issued']
      BY DEF Empty
    <3> QED
      BY <2>2, <3>1 DEF ExecCrash, Crash, ExecBase, ExecTypeOK, TargetsAreFinal, Runners
  <2> QED  BY <2>1, <2>2
<1>4. ExecTypeOK'  BY <1>3 DEF ExecTypeOK, Shuts
<1>5. Opened'  BY <1>3 DEF Opened
<1> QED  BY <1>1, <1>2, <1>3, <1>4, <1>5 DEF ExecBase, InBounds, BytesInBounds

\* The executor's invariant is kept by every step.
LEMMA NextBase ==
  ASSUME ExecBase, [ExecNext]_execVars
  PROVE  ExecBase'
<1>1. [Next]_vars  BY ExecStepIsQueueStep
<1>2. /\ runner \in Runners /\ workers \in [DOMAIN workers -> Worker]
      /\ \A j \in DOMAIN workers : WorkerInBounds(j, workers[j])
      /\ asked \subseteq DOMAIN tasks /\ marking \subseteq DOMAIN tasks /\ shut \in Shuts
      /\ bound \subseteq Handles /\ DOMAIN files \subseteq Handles \X FileNames
      /\ runner = "off" <=> phase # "open"
      /\ phase # "open" => asked = {} /\ marking = {} /\ DOMAIN workers = {}
  BY DEF ExecBase, ExecTypeOK, InBounds, Opened
<1>3. ASSUME phase' = phase
      PROVE  asked \subseteq DOMAIN tasks' /\ marking \subseteq DOMAIN tasks'
  BY <1>1, <1>2, <1>3, OpenQueueGrows DEF ExecBase
<1>4. ASSUME UNCHANGED <<phase, runner, workers, active, staged, asked, shut, marking, bound, files>>
      PROVE  ExecBase'
  BY <1>4, <1>1, <1>2, <1>3, BaseAfterOther
\* Steps of the runner that start nothing.
<1>5. ASSUME runner # "off", runner' \in Runners \ {"off"},
             UNCHANGED <<phase, active, staged, asked, shut, marking, bound, files>>,
             DOMAIN workers' \subseteq DOMAIN workers,
             workers' = [j \in DOMAIN workers' |-> workers[j]]
      PROVE  ExecBase'
  <2>1. workers' \in [DOMAIN workers' -> Worker]
        /\ \A j \in DOMAIN workers' : WorkerInBounds(j, workers'[j])
    BY <1>5, <1>2
  <2> QED  BY <2>1, <1>5, <1>1, <1>2, <1>3, BaseAfterOther
\* Steps of the shutdown.
<1>6. ASSUME phase = "open", UNCHANGED <<phase, runner, workers, active, staged, asked, bound, files>>,
             shut' \in Shuts, marking' \subseteq marking
      PROVE  ExecBase'
  BY <1>6, <1>1, <1>2, <1>3, BaseAfterOther
<1>7. ASSUME NEW ids, CancelControls(ids),
             phase = "open", UNCHANGED <<vars, runner, active, staged, bound, files>>,
             asked' \subseteq DOMAIN tasks, shut' \in Shuts, marking' \subseteq DOMAIN tasks
      PROVE  ExecBase'
  <2>1. /\ workers' \in [DOMAIN workers -> Worker]
        /\ \A j \in DOMAIN workers : WorkerInBounds(j, workers'[j])
    BY <1>7, <1>2, CancelControlsFacts DEF ExecBase, WorkerInBounds
  <2>2. DOMAIN workers' = DOMAIN workers  BY <2>1
  <2>3. UNCHANGED <<phase, tasks>>  BY <1>7 DEF vars
  <2> QED  BY <2>1, <2>2, <2>3, <1>7, <1>1, <1>2, BaseAfterOther
<1>8. Runners \ {"off"} = {"filling", "joining", "sleeping", "stopped", "failed", "aborted"}
      /\ Shuts = {"no", "cancelled", "closed", "marking", "signalled"}
  BY DEF Runners, Shuts
<1>9. CASE UNCHANGED execVars
  BY <1>9, <1>4 DEF execVars, vars, commands, local
<1>10. ASSUME NEW id \in TaskIds, Client(id)  PROVE ExecBase'
  <2>1. CASE CancelPublic(id)
    <3>1. phase = "open" /\ phase' = "open" /\ id \in DOMAIN tasks
          /\ asked' = asked \cup {id}
          /\ UNCHANGED <<runner, workers, active, staged, shut, marking, bound, files>>
      BY <2>1 DEF CancelPublic, Open, local
    <3>2. DOMAIN tasks \subseteq DOMAIN tasks'  BY <3>1, <1>1, OpenQueueGrows DEF ExecBase
    <3> QED  BY <3>1, <3>2, <1>1, <1>2, BaseAfterOther
  <2>2. CASE ~CancelPublic(id)
    <3>1. UNCHANGED <<phase, runner, workers, active, staged, asked, shut, marking, bound, files>>
      BY <1>10, <2>2 DEF Client, EnqueuePublic, Enqueue, ResolvePublic, RetryPublic, commands, local
    <3> QED  BY <3>1, <1>4
  <2> QED  BY <2>1, <2>2
<1>11. ASSUME NEW id \in TaskIds, CancelControl(id)  PROVE ExecBase'
  <2>1. phase = "open" /\ CancelControls({id}) /\ UNCHANGED <<vars, runner, active, staged, bound, files>>
        /\ UNCHANGED <<shut, marking>> /\ asked' \subseteq asked
    BY <1>11, <1>2 DEF CancelControl, local
  <2> QED  BY <2>1, <1>2, <1>7
<1>12. CASE Runner
  <2>1. ASSUME NEW id \in TaskIds, StartWorker(id)  PROVE ExecBase'
    BY <2>1, <1>1, BaseAfterStart
  <2>2. ASSUME NEW id \in TaskIds, StartRefused(id)  PROVE ExecBase'
    BY <2>2, <1>2, <1>5, <1>8 DEF StartRefused, vars, commands, local
  <2>3. ASSUME NEW k \in DOMAIN workers, Join(k)  PROVE ExecBase'
    <3>1. runner' \in {"failed", "filling"} /\ runner = "joining"
          /\ UNCHANGED <<phase, active, staged, asked, shut, marking, bound, files>>
      BY <2>3 DEF Join, vars, commands, local
    <3>2. DOMAIN workers' \subseteq DOMAIN workers
          /\ workers' = [j \in DOMAIN workers' |-> workers[j]]
      BY <2>3 DEF Join, Without
    <3> QED  BY <3>1, <3>2, <1>5, <1>8
  <2>4. CASE StopFilling \/ Wake
    <3>1. runner' \in {"sleeping", "joining", "stopped", "filling"} /\ runner # "off"
          /\ UNCHANGED <<phase, workers, active, staged, asked, shut, marking, bound, files>>
      BY <2>4 DEF StopFilling, Wake, vars, commands, local
    <3> QED  BY <3>1, <1>2, <1>5, <1>8
  <2> QED  BY <1>12, <2>1, <2>2, <2>3, <2>4, Zenon DEF Runner
<1>13. ASSUME NEW k \in DOMAIN workers, WorkerStep(k)  PROVE ExecBase'
  BY <1>13, <1>1, WorkerStepMoves, BaseAfterWorker
<1>14. ASSUME NEW k \in DOMAIN workers, Vanish(k)  PROVE ExecBase'
  <2>1. runner' = runner /\ runner \in {"failed", "aborted"}
        /\ UNCHANGED <<phase, active, staged, asked, shut, marking, bound, files>>
    BY <1>14 DEF Vanish, vars, commands, local
  <2>2. DOMAIN workers' \subseteq DOMAIN workers
        /\ workers' = [j \in DOMAIN workers' |-> workers[j]]
    BY <1>14 DEF Vanish, Without
  <2> QED  BY <2>1, <2>2, <1>5, <1>8
<1>15. CASE Shutdown
  <2>1. CASE ShutdownControls
    <3>1. /\ phase = "open" /\ CancelControls(DOMAIN active) /\ shut' = "cancelled"
          /\ marking' = DOMAIN active /\ asked' = asked
          /\ UNCHANGED <<vars, runner, active, staged, bound, files>>
      BY <2>1 DEF ShutdownControls, local
    <3>2. DOMAIN active \subseteq DOMAIN tasks
      <4>1. ASSUME NEW id \in DOMAIN active  PROVE id \in DOMAIN tasks
        <5>1. active[id] \in issued /\ active[id].id = id  BY DEF ExecBase, ExecTypeOK
        <5> QED  BY <5>1, <3>1 DEF ExecBase, IInv, TokenDiscipline, MemoryMatchesStore
      <4> QED  BY <4>1
    <3> QED  BY <3>1, <3>2, <1>2, <1>7, <1>8
  <2>2. CASE ShutdownPermits \/ ShutdownLock \/ ShutdownSignal
    <3>1. phase = "open" /\ shut' \in Shuts /\ marking' = marking
          /\ UNCHANGED <<phase, runner, workers, active, staged, asked, bound, files>>
      BY <2>2, <1>8 DEF ShutdownPermits, ShutdownLock, ShutdownSignal, vars, local, ExecBase, Opened
    <3> QED  BY <3>1, <1>6
  <2>3. CASE ShutdownTimeout
    <3>1. runner # "off" /\ runner' = "aborted"
          /\ UNCHANGED <<phase, workers, active, staged, asked, shut, marking, bound, files>>
      BY <2>3 DEF ShutdownTimeout, vars, commands, local
    <3> QED  BY <3>1, <1>2, <1>5, <1>8
  <2>4. ASSUME NEW id \in marking, ShutdownMark(id)  PROVE ExecBase'
    <3>1. phase = "open" /\ shut' \in Shuts /\ marking' \subseteq marking
          /\ UNCHANGED <<phase, runner, workers, active, staged, asked, bound, files>>
      BY <2>4, <1>2, <1>8 DEF ShutdownMark, local
    <3> QED  BY <3>1, <1>6
  <2> QED  BY <1>15, <2>1, <2>2, <2>3, <2>4, Zenon DEF Shutdown
<1>16. CASE ExecOpen \/ ExecCrash  BY <1>16, <1>1, BaseAfterBreak
<1>17. CASE ExecTick
  BY <1>17, <1>4 DEF ExecTick, Tick, commands, local
<1>18. ASSUME NEW h \in Handles, Bind(h)  PROVE ExecBase'
  <2>1. /\ bound' = bound \cup {h}
        /\ UNCHANGED <<phase, runner, workers, active, staged, asked, shut, marking, files>>
    BY <1>18 DEF Bind, vars, commands
  <2> QED  BY <2>1, <1>1, <1>2, <1>3, BaseAfterOther
<1>19. ASSUME NEW h \in Handles, Outsider(h)  PROVE ExecBase'
  <2>1. /\ files' = Put(files, <<h, "bound">>, Foreign)
        /\ UNCHANGED <<phase, runner, workers, active, staged, asked, shut, marking, bound>>
    BY <1>19 DEF Outsider, vars, commands
  <2>2. DOMAIN files' \subseteq Handles \X FileNames  BY <2>1, <1>2 DEF Put, FileNames
  <2> QED  BY <2>1, <2>2, <1>1, <1>2, <1>3, BaseAfterOther
<1> QED
  BY <1>9, <1>10, <1>11, <1>12, <1>13, <1>14, <1>15, <1>16, <1>17, <1>18, <1>19, Zenon DEF ExecNext

LEMMA InitBase ==
  ASSUME ExecInit
  PROVE  ExecBase
<1>1. IInv  BY InitIInv DEF ExecInit
<1>2. DOMAIN Empty = {} /\ Empty \in [{} -> Worker] /\ Empty \in [{} -> issued]
  BY DEF Empty
<1>3. ExecTypeOK  BY <1>2 DEF ExecInit, ExecTypeOK, Runners, Shuts
<1>4. Opened /\ TargetsAreFinal /\ InBounds
  BY <1>2 DEF ExecInit, Init, Opened, TargetsAreFinal, InBounds
<1> QED  BY <1>1, <1>2, <1>3, <1>4 DEF ExecBase, ExecInit

LEMMA BaseAlways == ExecSpec => []ExecBase
<1>1. ExecInit => ExecBase  BY InitBase
<1>2. ExecBase /\ [ExecNext]_execVars => ExecBase'  BY NextBase
<1> QED  BY <1>1, <1>2, PTL DEF ExecSpec

\* Runner, workers, clients, shutdowns and crashes, in any order and with any
\* failures, do to the queue only what its own specification allows: every
\* theorem of TransferQueueProofs holds while the executor runs (execute_started,
\* run_ready, request_shutdown).
THEOREM ExecutorImplementsQueue == ExecSpec => ImplementsQueue
<1>1. ExecInit => Init  BY DEF ExecInit
<1>2. ExecBase /\ [ExecNext]_execVars => [Next]_vars  BY ExecStepIsQueueStep
<1> QED  BY <1>1, <1>2, BaseAlways, PTL DEF ExecSpec, ImplementsQueue, Spec

-----------------------------------------------------------------------------
(* Part 2: runs, workers and controls belong together. *)

\* Where a worker is in the middle of its run.
Held == InIO \cup {"spawned", "heed", "abort"}

\* The place of worker k against row t of its task: in the middle of its I/O
\* the run is its own; behind it, the run is over or the worker has an error.
RunOK(k, w, t) ==
  /\ w.pc \in Held => k.gen = t.generation
  /\ w.pc \in InIO \cup {"spawned", "heed"} => w.fault = "none"
  /\ w.pc = "abort" => w.fault # "none"
  /\ w.pc = "disconnect" => (w.fault # "none" <=> k.gen = t.generation)
  /\ w.pc \in {"reschedule", "unregister", "done"} => w.err \/ k.gen # t.generation

\* What a step of worker k means for its control.
ControlMoves(k) ==
  \/ active' = active /\ (workers[k].pc = "spawned" \/ workers'[k].pc \notin {"spawned", "done"})
  \/ active' = Put(active, k.id, k) /\ workers'[k].pc = "heed"
  \/ active' = Without(active, {k.id})

\* A change of row id that the run in progress survives, if there is one, or
\* that the holder of its token made.
RowMoves(id, mine) ==
  \/ store' = store
  \/ \E t : /\ store' = Put(store, id, t)
            /\ \/ id \notin DOMAIN store
               \/ ~IsActive(store[id]) \/ mine
               \/ t.generation = store[id].generation /\ t.bytes = store[id].bytes

LEMMA SavedRow ==
  ASSUME ExecBase, NEW id, Open(id), NEW t, Saved(id, t)
  PROVE  /\ store' = store \/ store' = Put(store, id, t)
         /\ t.revision # tasks[id].revision => store'[id] = t
         /\ t.revision = tasks[id].revision => store' = store
BY DEF Saved, CompareAndSwap, Put

\* A token out of date stays so, and no other step than start makes a task
\* active.
LEMMA StaleStays ==
  ASSUME ExecBase, [Next]_vars, phase = "open", phase' = "open", NEW k \in issued
  PROVE  /\ k.id \in DOMAIN store /\ k.id \in DOMAIN store'
         /\ k.gen # store[k.id].generation => k.gen # store'[k.id].generation
<1>1. IInv /\ RowsAdvance  BY NextIInv DEF GoodStep, ExecBase
<1>2. k.id \in DOMAIN store /\ k.gen <= store[k.id].generation /\ k.gen \in Nat
      /\ store[k.id] \in Task
  BY <1>1 DEF IInv, TokenDiscipline, TypeOK, Token
<1>3. k.id \in DOMAIN store' /\ Succeeds(store[k.id], store'[k.id])  BY <1>1, <1>2 DEF RowsAdvance
<1>4. IInv'  BY NextIInv DEF ExecBase
<1>5. store'[k.id].generation \in Nat  BY <1>3, <1>4 DEF IInv, TypeOK, Task
<1> QED  BY <1>2, <1>3, <1>5 DEF Succeeds, Task

LEMMA ActiveStays ==
  ASSUME ExecBase, [Next]_vars, phase = "open", phase' = "open", issued' = issued,
         NEW id \in Active'
  PROVE  id \in Active /\ tasks'[id].generation = tasks[id].generation
<1>1. IInv /\ IInv' /\ RowsAdvance  BY NextIInv DEF GoodStep, ExecBase
<1>2. id \in DOMAIN store' /\ tasks'[id] = store'[id] /\ IsActive(store'[id])
  BY <1>1 DEF Active, IInv, MemoryMatchesStore
<1>3. [id |-> id, gen |-> store'[id].generation] \in issued
  BY <1>1, <1>2 DEF IInv, TokenDiscipline
<1>4. id \in DOMAIN store /\ store'[id].generation <= store[id].generation
  BY <1>1, <1>3 DEF IInv, TokenDiscipline
<1>5. store'[id].generation = store[id].generation
  <2>1. Succeeds(store[id], store'[id])  BY <1>1, <1>4 DEF RowsAdvance
  <2>2. store[id] \in Task /\ store'[id] \in Task  BY <1>1, <1>2, <1>4 DEF IInv, TypeOK
  <2> QED  BY <2>1, <2>2, <1>4 DEF Succeeds, Task
<1>6. IsActive(store[id])  BY <1>1, <1>3, <1>4, <1>5 DEF IInv, TokenDiscipline, Honoured
<1>7. id \in DOMAIN tasks /\ tasks[id] = store[id]  BY <1>1, <1>4 DEF IInv, MemoryMatchesStore
<1> QED  BY <1>2, <1>5, <1>6, <1>7 DEF Active

\* So a change of one row leaves the other runs, and the run in progress there,
\* with the generations they have.
LEMMA OthersKeepRuns ==
  ASSUME ExecBase, [Next]_vars, phase = "open", phase' = "open",
         NEW id, NEW mine \in BOOLEAN, RowMoves(id, mine),
         NEW j \in issued, mine => j.id # id \/ j.gen # store[id].generation
  PROVE  /\ j.gen = store[j.id].generation <=> j.gen = store'[j.id].generation
         /\ j.gen = store[j.id].generation => store'[j.id].bytes = store[j.id].bytes
<1>1. j.id \in DOMAIN store /\ j.id \in DOMAIN store'
  BY StaleStays
<1>2. CASE j.gen # store[j.id].generation  BY <1>2, StaleStays
<1>3. CASE j.gen = store[j.id].generation
  <2>1. IsActive(store[j.id])  BY <1>3, <1>1 DEF ExecBase, IInv, TokenDiscipline, Honoured
  <2>2. CASE store' = store  BY <2>2
  <2>3. ASSUME NEW t, store' = Put(store, id, t),
               \/ id \notin DOMAIN store
               \/ ~IsActive(store[id]) \/ mine
               \/ t.generation = store[id].generation /\ t.bytes = store[id].bytes
        PROVE  j.gen = store'[j.id].generation /\ store'[j.id].bytes = store[j.id].bytes
    BY <1>1, <1>3, <2>1, <2>3 DEF Put
  <2> QED  BY <1>3, <2>2, <2>3 DEF RowMoves
<1> QED  BY <1>2, <1>3

LEMMA WorkerStepRun ==
  ASSUME ExecBase, NEW k \in DOMAIN workers, WorkerStep(k), RunOK(k, workers[k], store[k.id])
  PROVE  /\ RunOK(k, workers'[k], store'[k.id])
         /\ ControlMoves(k)
         /\ RowMoves(k.id, k.gen = store[k.id].generation)
<1> DEFINE w == workers[k]
           v == workers'[k]
           r == store[k.id]
           t == tasks[k.id]
<1>1. /\ ExecTypeOK /\ w \in Worker /\ r \in Task /\ t = r /\ Open(k.id) /\ clock \in Nat
      /\ k.gen \in Nat
  BY WorkerFacts DEF ExecBase
<1>2. Steps = {"spawned", "connect", "read", "record", "disconnect", "heed", "begin", "write",
               "size", "commit", "complete", "abort", "persist", "reschedule", "unregister", "done"}
  BY DEF Steps, Awaits
<1>3. /\ InIO = {"connect", "begin", "read", "write", "record", "size", "commit", "complete"}
      /\ Held = InIO \cup {"spawned", "heed", "abort"}
  BY DEF InIO, Held
<1>4. Faults = {"none", "retryable", "permanent", "conflict", "cancelled"}  BY DEF Faults
<1>5. ASSUME NEW fault \in Faults \ {"none"}, NEW pc \in {"abort", "disconnect", "persist"},
             Faulty(k, pc, fault), w.pc \in InIO, store' = store
      PROVE  RunOK(k, v, store'[k.id]) /\ v.pc = pc
  <2>1. v.pc = pc /\ v.fault = fault  BY <1>5, <1>1, <1>2, FaultyFacts, ZenonT(60) DEF FaultyData
  <2> QED  BY <2>1, <1>3, <1>5 DEF RunOK
<1>6. ASSUME NEW pc \in Steps, Goes(k, pc)
      PROVE  v.pc = pc /\ v.fault = w.fault /\ v.err = w.err
  BY <1>6, <1>1, GoesFacts DEF SameData
<1>7. ASSUME NEW pc \in InIO, Goes(k, pc), w.pc \in InIO,
             store'[k.id].generation = r.generation
      PROVE  RunOK(k, v, store'[k.id]) /\ v.pc = pc
  <2>1. v.pc = pc /\ v.fault = w.fault  BY <1>6, <1>7, <1>2, <1>3
  <2> QED  BY <2>1, <1>3, <1>7 DEF RunOK
<1>8. ASSUME store' = store  PROVE RowMoves(k.id, k.gen = r.generation)
  BY <1>8 DEF RowMoves
<1>9. ASSUME active' = active, v.pc \notin {"spawned", "done"}  PROVE ControlMoves(k)
  BY <1>9 DEF ControlMoves
<1>10. ASSUME UNCHANGED vars  PROVE store' = store /\ r = store'[k.id]  BY <1>10 DEF vars
\* The queue calls of a worker in the middle of its I/O.
<1>11. ASSUME NEW can, NEW u, NEW next, Tell(k, can, u, next), w.pc \in InIO
       PROVE  \/ can /\ Saved(k.id, u) /\ Goes(k, next)
              \/ store' = store /\ RunOK(k, v, store'[k.id]) /\ v.pc = "abort"
  <2>1. CASE can /\ Saved(k.id, u) /\ Goes(k, next)  BY <2>1
  <2>2. CASE can /\ Lost(k.id, u) /\ Faulty(k, "abort", "retryable")
    BY <2>2, <1>4, <1>5, <1>11 DEF Lost
  <2>3. CASE ~can /\ Rejected(k) /\ UNCHANGED <<tasks, store>>
    <3>1. \E fault \in {"retryable", "cancelled"} : Faulty(k, "abort", fault)
      BY <2>3, Zenon DEF Rejected
    <3> QED  BY <2>3, <3>1, <1>4, <1>5, <1>11
  <2> QED  BY <1>11, <2>1, <2>2, <2>3, Zenon DEF Tell
\* The queue calls that end a worker.
<1>12. ASSUME NEW can, NEW u, NEW next, Settle(k, can, u, next)
       PROVE  \/ can /\ Saved(k.id, u) /\ Goes(k, next)
              \/ store' = store /\ RunOK(k, v, store'[k.id]) /\ v.pc = "unregister"
  <2>1. CASE can /\ Saved(k.id, u) /\ Goes(k, next)  BY <2>1
  <2>2. CASE Errs(k) /\ store' = store
    <3>1. v.pc = "unregister" /\ v.err  BY <2>2, <1>1, ErrsFacts
    <3> QED  BY <3>1, <2>2, <1>3, Zenon DEF RunOK
  <2> QED  BY <1>12, <2>1, <2>2, Zenon DEF Settle, Lost
<1>13. CASE Register(k)
  <2>1. w.pc = "spawned" /\ UNCHANGED vars  BY <1>13 DEF Register, At
  <2>2. CASE shut \in {"no", "cancelled"}
    <3>1. Goes(k, "heed") /\ active' = Put(active, k.id, k)  BY <1>13, <2>2, Zenon DEF Register
    <3>2. v.pc = "heed" /\ v.fault = w.fault  BY <3>1, <1>2, <1>6
    <3>3. RunOK(k, v, store'[k.id])  BY <2>1, <3>2, <1>3, <1>10 DEF RunOK
    <3>4. ControlMoves(k)  BY <3>1, <3>2, Zenon DEF ControlMoves
    <3> QED  BY <3>3, <3>4, <2>1, <1>8, <1>10
  <2>3. CASE shut \notin {"no", "cancelled"}
    <3>1. workers' = [workers EXCEPT ![k].pc = "done", ![k].err = TRUE] /\ active' = active
      BY <1>13, <2>3, Zenon DEF Register
    <3>2. v.pc = "done" /\ v.err = TRUE  BY <3>1, <1>1 DEF ExecTypeOK, Worker
    <3>3. RunOK(k, v, store'[k.id])  BY <3>2, <1>3, Zenon DEF RunOK
    <3>4. ControlMoves(k)  BY <2>1, <3>1 DEF ControlMoves
    <3> QED  BY <3>3, <3>4, <2>1, <1>8, <1>10
  <2> QED  BY <2>2, <2>3
<1>14. CASE HeedCancel(k)
  <2> PICK c : c = (w.cancelled \/ tasks[k.id].state = "Cancelling")  OBVIOUS
  <2>1. workers' = [workers EXCEPT ![k].pc = "connect", ![k].cancelled = c]
        /\ w.pc = "heed" /\ UNCHANGED vars /\ active' = active
    BY <1>14 DEF HeedCancel, At
  <2>2. v.pc = "connect" /\ v.fault = w.fault  BY <2>1, <1>1 DEF ExecTypeOK, Worker
  <2>3. RunOK(k, v, store'[k.id])  BY <2>1, <2>2, <1>3, <1>10 DEF RunOK
  <2> QED  BY <2>1, <2>2, <2>3, <1>8, <1>9, <1>10
<1>15. CASE Connect(k)
  <2>1. w.pc = "connect" /\ UNCHANGED vars /\ active' = active  BY <1>15 DEF Connect, At
  <2>2. \/ \E fault \in {"retryable", "permanent", "conflict", "cancelled"} : Faulty(k, "persist", fault)
        \/ Goes(k, "begin")
    BY <1>15, Zenon DEF Connect
  <2>3. RunOK(k, v, store'[k.id]) /\ v.pc \in {"persist", "begin"}
    BY <2>1, <2>2, <1>3, <1>4, <1>5, <1>7, <1>10
  <2> QED  BY <2>1, <2>3, <1>8, <1>9, <1>10
<1>16. CASE BeginWrite(k)
  <2>1. w.pc = "begin" /\ UNCHANGED vars /\ active' = active  BY <1>16 DEF BeginWrite, At
  <2>2. \/ \E fault \in {"retryable", "permanent", "conflict", "cancelled"} : Faulty(k, "disconnect", fault)
        \/ workers' = [workers EXCEPT ![k].pc = "read", ![k].off = w.base, ![k].total = ExpectedSize[k.id]]
    BY <1>16, Zenon DEF BeginWrite
  <2>3. CASE workers' = [workers EXCEPT ![k].pc = "read", ![k].off = w.base, ![k].total = ExpectedSize[k.id]]
    <3>1. v.pc = "read" /\ v.fault = w.fault  BY <2>3, <1>1 DEF ExecTypeOK, Worker
    <3>2. RunOK(k, v, store'[k.id])  BY <2>1, <3>1, <1>3, <1>10 DEF RunOK
    <3> QED  BY <2>1, <3>1, <3>2, <1>8, <1>9, <1>10
  <2>4. CASE \E fault \in {"retryable", "permanent", "conflict", "cancelled"} : Faulty(k, "disconnect", fault)
    <3>1. RunOK(k, v, store'[k.id]) /\ v.pc = "disconnect"
      BY <2>1, <2>4, <1>3, <1>4, <1>5, <1>10
    <3> QED  BY <2>1, <3>1, <1>8, <1>9, <1>10
  <2> QED  BY <2>2, <2>3, <2>4
<1>17. CASE ReadChunk(k)
  <2>1. w.pc = "read" /\ UNCHANGED vars /\ active' = active  BY <1>17 DEF ReadChunk, At
  <2>2. \/ \E fault \in {"retryable", "permanent", "conflict", "cancelled"} : Faulty(k, "abort", fault)
        \/ \E size \in {None, SourceSize[k.id]} :
             workers' = [workers EXCEPT
               ![k].total = IF @ = None THEN size ELSE @,
               ![k].eof = w.off + 1 >= SourceSize[k.id],
               ![k].pc = IF w.off < SourceSize[k.id] THEN "write" ELSE "size"]
    BY <1>17, Zenon DEF ReadChunk
  <2>3. CASE \E fault \in {"retryable", "permanent", "conflict", "cancelled"} : Faulty(k, "abort", fault)
    <3>1. RunOK(k, v, store'[k.id]) /\ v.pc = "abort"  BY <2>1, <2>3, <1>3, <1>4, <1>5, <1>10
    <3> QED  BY <2>1, <3>1, <1>8, <1>9, <1>10
  <2>4. ASSUME NEW size \in {None, SourceSize[k.id]},
               workers' = [workers EXCEPT
                 ![k].total = IF @ = None THEN size ELSE @,
                 ![k].eof = w.off + 1 >= SourceSize[k.id],
                 ![k].pc = IF w.off < SourceSize[k.id] THEN "write" ELSE "size"]
        PROVE  RunOK(k, v, store'[k.id]) /\ ControlMoves(k) /\ RowMoves(k.id, k.gen = r.generation)
    <3> PICK total : total = IF w.total = None THEN size ELSE w.total  OBVIOUS
    <3> PICK eof : eof = (w.off + 1 >= SourceSize[k.id])  OBVIOUS
    <3> PICK pc : pc = IF w.off < SourceSize[k.id] THEN "write" ELSE "size"  OBVIOUS
    <3>1. workers' = [workers EXCEPT ![k].total = total, ![k].eof = eof, ![k].pc = pc]
      BY <2>4, <1>1 DEF ExecTypeOK
    <3>2. v.pc = pc /\ v.fault = w.fault /\ pc \in {"write", "size"}
      BY <3>1, <1>1 DEF ExecTypeOK, Worker
    <3>3. RunOK(k, v, store'[k.id])  BY <2>1, <3>2, <1>3, <1>10 DEF RunOK
    <3> QED  BY <2>1, <3>2, <3>3, <1>8, <1>9, <1>10
  <2> QED  BY <2>2, <2>3, <2>4
<1>18. CASE WriteChunk(k)
  <2>1. w.pc = "write" /\ UNCHANGED vars /\ active' = active  BY <1>18 DEF WriteChunk, At
  <2>2. \/ \E fault \in {"retryable", "permanent", "conflict", "cancelled"} : Faulty(k, "abort", fault)
        \/ workers' = [workers EXCEPT ![k].pc = "record", ![k].off = @ + 1]
    BY <1>18, Zenon DEF WriteChunk
  <2>3. CASE \E fault \in {"retryable", "permanent", "conflict", "cancelled"} : Faulty(k, "abort", fault)
    <3>1. RunOK(k, v, store'[k.id]) /\ v.pc = "abort"  BY <2>1, <2>3, <1>3, <1>4, <1>5, <1>10
    <3> QED  BY <2>1, <3>1, <1>8, <1>9, <1>10
  <2>4. CASE workers' = [workers EXCEPT ![k].pc = "record", ![k].off = @ + 1]
    <3>1. v.pc = "record" /\ v.fault = w.fault  BY <2>4, <1>1 DEF ExecTypeOK, Worker
    <3>2. RunOK(k, v, store'[k.id])  BY <2>1, <3>1, <1>3, <1>10 DEF RunOK
    <3> QED  BY <2>1, <3>1, <3>2, <1>8, <1>9, <1>10
  <2> QED  BY <2>2, <2>3, <2>4
<1>19. ASSUME NEW same, NEW next \in InIO, w.pc \in InIO, active' = active,
              Tell(k, CanRecordProgress(t, k.gen, w.off, w.total, clock),
                   RecordProgress(t, w.off, w.total, same, clock), next)
       PROVE  /\ RunOK(k, v, store'[k.id]) /\ v.pc \notin {"spawned", "done"}
              /\ RowMoves(k.id, k.gen = r.generation)
  <2> PICK u : u = RecordProgress(t, w.off, w.total, same, clock)  OBVIOUS
  <2>1. \/ CanRecordProgress(t, k.gen, w.off, w.total, clock) /\ Saved(k.id, u) /\ Goes(k, next)
        \/ store' = store /\ RunOK(k, v, store'[k.id]) /\ v.pc = "abort"
    BY <1>11, <1>19
  <2>2. u.generation = r.generation  BY <1>1, ProgressFacts
  <2>3. CASE Saved(k.id, u) /\ Goes(k, next)
    <3>1. store' = store \/ store' = Put(store, k.id, u)  BY <2>3, <1>1, SavedRow
    <3>2. store'[k.id].generation = r.generation  BY <2>2, <3>1 DEF Put
    <3>3. RunOK(k, v, store'[k.id]) /\ v.pc = next  BY <2>3, <3>2, <1>7, <1>19
    <3>4. k.gen = r.generation  BY <1>19, <1>3 DEF RunOK
    <3>5. RowMoves(k.id, k.gen = r.generation)  BY <3>1, <3>4 DEF RowMoves
    <3> QED  BY <3>3, <3>5, <1>3
  <2> QED  BY <2>1, <2>3, <1>8
<1>20. CASE RecordChunk(k)
  <2>1. w.pc = "record" /\ active' = active  BY <1>20 DEF RecordChunk, At
  <2>2. \/ /\ \E fault \in {"retryable", "cancelled"} : Faulty(k, "abort", fault)
           /\ UNCHANGED <<tasks, store>>
        \/ Tell(k, CanRecordProgress(t, k.gen, w.off, w.total, clock),
                RecordProgress(t, w.off, w.total, FALSE, clock), IF w.eof THEN "size" ELSE "read")
    BY <1>20, Zenon DEF RecordChunk
  <2>3. CASE /\ \E fault \in {"retryable", "cancelled"} : Faulty(k, "abort", fault)
             /\ UNCHANGED <<tasks, store>>
    <3>1. RunOK(k, v, store'[k.id]) /\ v.pc = "abort"  BY <2>1, <2>3, <1>3, <1>4, <1>5
    <3> QED  BY <2>1, <2>3, <3>1, <1>8, <1>9
  <2>4. CASE Tell(k, CanRecordProgress(t, k.gen, w.off, w.total, clock),
                  RecordProgress(t, w.off, w.total, FALSE, clock), IF w.eof THEN "size" ELSE "read")
    <3> PICK next : next = IF w.eof THEN "size" ELSE "read"  OBVIOUS
    <3>1. next \in InIO /\ w.pc \in InIO  BY <2>1, <1>3
    <3>2. Tell(k, CanRecordProgress(t, k.gen, w.off, w.total, clock),
               RecordProgress(t, w.off, w.total, FALSE, clock), next)
      BY <2>4
    <3> QED  BY <2>1, <3>1, <3>2, <1>9, <1>19
  <2> QED  BY <2>2, <2>3, <2>4
<1>21. CASE CheckFinalSize(k)
  <2>1. w.pc = "size" /\ active' = active  BY <1>21 DEF CheckFinalSize, At
  <2>2. \/ Faulty(k, "abort", "conflict") /\ UNCHANGED <<tasks, store>>
        \/ Goes(k, "commit") /\ UNCHANGED <<tasks, store>>
        \/ \E same \in BOOLEAN :
             Tell(k, CanRecordProgress(t, k.gen, w.off, w.total, clock),
                  RecordProgress(t, w.off, w.total, same, clock), "commit")
    BY <1>21, Zenon DEF CheckFinalSize
  <2>3. CASE Faulty(k, "abort", "conflict") /\ UNCHANGED <<tasks, store>>
    <3>1. RunOK(k, v, store'[k.id]) /\ v.pc = "abort"  BY <2>1, <2>3, <1>3, <1>4, <1>5
    <3> QED  BY <2>1, <2>3, <3>1, <1>8, <1>9
  <2>4. CASE Goes(k, "commit") /\ UNCHANGED <<tasks, store>>
    <3>1. RunOK(k, v, store'[k.id]) /\ v.pc = "commit"  BY <2>1, <2>4, <1>3, <1>7
    <3> QED  BY <2>1, <2>4, <3>1, <1>8, <1>9
  <2>5. ASSUME NEW same \in BOOLEAN,
               Tell(k, CanRecordProgress(t, k.gen, w.off, w.total, clock),
                    RecordProgress(t, w.off, w.total, same, clock), "commit")
        PROVE  /\ RunOK(k, v, store'[k.id]) /\ v.pc \notin {"spawned", "done"}
               /\ RowMoves(k.id, k.gen = r.generation)
    BY <2>1, <2>5, <1>3, <1>19
  <2> QED  BY <2>1, <2>2, <2>3, <2>4, <2>5, <1>9
<1>22. CASE CommitWrite(k)
  <2>1. w.pc = "commit" /\ UNCHANGED vars /\ active' = active  BY <1>22 DEF CommitWrite, At
  <2>2. \/ \E fault \in {"retryable", "permanent", "conflict", "cancelled"} : Faulty(k, "abort", fault)
        \/ Goes(k, "complete")
    BY <1>22, Zenon DEF CommitWrite
  <2>3. RunOK(k, v, store'[k.id]) /\ v.pc \in {"abort", "complete"}
    BY <2>1, <2>2, <1>3, <1>4, <1>5, <1>7, <1>10
  <2> QED  BY <2>1, <2>3, <1>8, <1>9, <1>10
<1>23. CASE ReportComplete(k)
  <2>1. w.pc = "complete" /\ active' = active  BY <1>23 DEF ReportComplete, At
  <2>2. \/ /\ \E fault \in {"retryable", "permanent", "cancelled"} : Faulty(k, "abort", fault)
           /\ UNCHANGED <<tasks, store>>
        \/ Tell(k, CanComplete(t, k.gen, clock), Complete(t, clock), "disconnect")
    BY <1>23, Zenon DEF ReportComplete
  <2>3. CASE /\ \E fault \in {"retryable", "permanent", "cancelled"} : Faulty(k, "abort", fault)
             /\ UNCHANGED <<tasks, store>>
    <3>1. RunOK(k, v, store'[k.id]) /\ v.pc = "abort"  BY <2>1, <2>3, <1>3, <1>4, <1>5
    <3> QED  BY <2>1, <2>3, <3>1, <1>8, <1>9
  <2>4. CASE Tell(k, CanComplete(t, k.gen, clock), Complete(t, clock), "disconnect")
    <3> PICK u : u = Complete(t, clock)  OBVIOUS
    <3>1. \/ CanComplete(t, k.gen, clock) /\ Saved(k.id, u) /\ Goes(k, "disconnect")
          \/ store' = store /\ RunOK(k, v, store'[k.id]) /\ v.pc = "abort"
      BY <2>1, <2>4, <1>3, <1>11
    <3>2. CASE CanComplete(t, k.gen, clock) /\ Saved(k.id, u) /\ Goes(k, "disconnect")
      <4>1. RunEnds(t, u) /\ u.revision = t.revision + 1  BY <1>1, CompleteFacts
      <4>2. store' = Put(store, k.id, u) /\ store'[k.id] = u
        BY <3>2, <4>1, <1>1, SavedRow DEF Saved, CompareAndSwap, Task
      <4>3. k.gen = r.generation  BY <3>2, <1>1 DEF CanComplete, CheckToken
      <4>4. v.pc = "disconnect" /\ v.fault = w.fault  BY <3>2, <1>2, <1>6
      <4>5. k.gen # u.generation  BY <4>1, <4>3, <1>1 DEF RunEnds
      <4>6. RunOK(k, v, store'[k.id])  BY <4>2, <4>4, <4>5, <2>1, <1>3 DEF RunOK
      <4>7. RowMoves(k.id, k.gen = r.generation)  BY <4>2, <4>3 DEF RowMoves
      <4> QED  BY <2>1, <4>4, <4>6, <4>7, <1>9
    <3> QED  BY <2>1, <3>1, <3>2, <1>8, <1>9
  <2> QED  BY <2>2, <2>3, <2>4
<1>24. CASE AbortWrite(k)
  <2>1. w.pc = "abort" /\ UNCHANGED vars /\ active' = active /\ Goes(k, "disconnect")
    BY <1>24 DEF AbortWrite, At
  <2>2. v.pc = "disconnect" /\ v.fault = w.fault  BY <2>1, <1>2, <1>6
  <2>3. RunOK(k, v, store'[k.id])  BY <2>1, <2>2, <1>3, <1>10 DEF RunOK
  <2> QED  BY <2>1, <2>2, <2>3, <1>8, <1>9, <1>10
<1>25. CASE Disconnect(k)
  <2>1. w.pc = "disconnect" /\ UNCHANGED vars /\ active' = active  BY <1>25 DEF Disconnect, At
  <2>2. \/ Goes(k, "persist")
        \/ w.fault = "none" /\ Goes(k, "unregister")
        \/ \E fault \in {"retryable", "permanent"} : Faulty(k, "persist", fault)
    BY <1>25, Zenon DEF Disconnect
  <2>3. CASE Goes(k, "persist") \/ \E fault \in {"retryable", "permanent"} : Faulty(k, "persist", fault)
    <3>1. v.pc = "persist"  BY <2>3, <1>1, <1>2, <1>4, <1>6, FaultyFacts
    <3>2. RunOK(k, v, store'[k.id])  BY <3>1, <1>3 DEF RunOK
    <3> QED  BY <2>1, <3>1, <3>2, <1>8, <1>9, <1>10
  <2>4. CASE w.fault = "none" /\ Goes(k, "unregister")
    <3>1. v.pc = "unregister"  BY <2>4, <1>2, <1>6
    <3>2. k.gen # r.generation  BY <2>1, <2>4 DEF RunOK
    <3>3. RunOK(k, v, store'[k.id])  BY <2>1, <3>1, <3>2, <1>3, <1>10 DEF RunOK
    <3> QED  BY <2>1, <3>1, <3>3, <1>8, <1>9, <1>10
  <2> QED  BY <2>2, <2>3, <2>4
<1>26. CASE PersistFailure(k)
  <2>1. active' = active  BY <1>26 DEF PersistFailure
  <2>2. \E u, next : /\ next \in {"unregister", "reschedule"} /\ RunEnds(t, u)
                     /\ u.revision = t.revision + 1
                     /\ \E can : (can => k.gen = t.generation) /\ Settle(k, can, u, next)
    <3> DEFINE fault == w.fault
    <3>1. \/ \E next : next \in {"unregister", "reschedule"}
                       /\ Settle(k, CanConfirmCancelled(t, k.gen, t.bytes, clock),
                                 ConfirmCancelled(t, t.bytes, clock), next)
          \/ \E next : next \in {"unregister", "reschedule"}
                       /\ Settle(k, CanEnterConflict(t, k.gen, t.bytes, clock),
                                 EnterConflict(t, t.bytes, clock), next)
          \/ \E next : next \in {"unregister", "reschedule"}
                       /\ Settle(k, CanFail(t, k.gen, clock), Fail(t, fault, clock), next)
      BY <1>26, Zenon DEF PersistFailure
    <3>2. /\ CanConfirmCancelled(t, k.gen, t.bytes, clock) => k.gen = t.generation
          /\ CanEnterConflict(t, k.gen, t.bytes, clock) => k.gen = t.generation
          /\ CanFail(t, k.gen, clock) => k.gen = t.generation
      BY DEF CanConfirmCancelled, CanEnterConflict, CanFail, CheckToken
    <3>3. PICK a : a = ConfirmCancelled(t, t.bytes, clock)  OBVIOUS
    <3>4. PICK b : b = EnterConflict(t, t.bytes, clock)  OBVIOUS
    <3>5. PICK c : c = Fail(t, fault, clock)  OBVIOUS
    <3>6. RunEnds(t, a) /\ a.revision = t.revision + 1  BY <3>3, <1>1, ConfirmCancelledFacts
    <3>7. RunEnds(t, b) /\ b.revision = t.revision + 1  BY <3>4, <1>1, ConflictFacts
    <3>8. RunEnds(t, c) /\ c.revision = t.revision + 1  BY <3>5, <1>1, FailFacts
    <3> QED  BY <3>1, <3>2, <3>3, <3>4, <3>5, <3>6, <3>7, <3>8, Zenon
  <2>3. PICK u, next, can :
               /\ next \in {"unregister", "reschedule"} /\ RunEnds(t, u)
               /\ u.revision = t.revision + 1
               /\ can => k.gen = t.generation
               /\ Settle(k, can, u, next)
    BY <2>2, Zenon
  <2>4. CASE can /\ Saved(k.id, u) /\ Goes(k, next)
    <3>1. store' = Put(store, k.id, u) /\ store'[k.id] = u
      BY <2>3, <2>4, <1>1, SavedRow DEF Saved, CompareAndSwap, Task
    <3>2. k.gen = r.generation /\ k.gen # u.generation  BY <2>3, <2>4, <1>1 DEF RunEnds
    <3>3. v.pc = next  BY <2>3, <2>4, <1>2, <1>6
    <3>4. RunOK(k, v, store'[k.id])  BY <2>3, <3>1, <3>2, <3>3, <1>3 DEF RunOK
    <3>5. RowMoves(k.id, k.gen = r.generation)  BY <3>1, <3>2 DEF RowMoves
    <3> QED  BY <2>1, <2>3, <3>3, <3>4, <3>5, <1>9
  <2>5. CASE store' = store /\ RunOK(k, v, store'[k.id]) /\ v.pc = "unregister"
    BY <2>1, <2>5, <1>8, <1>9
  <2> QED  BY <2>3, <2>4, <2>5, <1>12
<1>27. CASE PersistRetry(k)
  <2>1. w.pc = "reschedule" /\ active' = active  BY <1>27 DEF PersistRetry, At
  <2> PICK u : u = ScheduleRetry(t, clock)  OBVIOUS
  <2>2. \/ Goes(k, "unregister") /\ UNCHANGED <<tasks, store>>
        \/ Settle(k, CanScheduleRetry(k.id, t, clock), u, "unregister")
    BY <1>27, Zenon DEF PersistRetry
  <2>3. CASE Goes(k, "unregister") /\ UNCHANGED <<tasks, store>>
    <3>1. v.pc = "unregister" /\ v.err = w.err  BY <2>3, <1>2, <1>6
    <3>2. RunOK(k, v, store'[k.id])  BY <2>1, <2>3, <3>1, <1>3 DEF RunOK
    <3> QED  BY <2>1, <2>3, <3>1, <3>2, <1>8, <1>9
  <2>4. CASE CanScheduleRetry(k.id, t, clock) /\ Saved(k.id, u) /\ Goes(k, "unregister")
    <3>1. v.pc = "unregister" /\ v.err = w.err  BY <2>4, <1>2, <1>6
    <3>2. store' = store \/ store' = Put(store, k.id, u)  BY <2>4, <1>1, SavedRow
    <3>3. u.generation = r.generation /\ u.bytes = r.bytes  BY <1>1, RetryFacts
    <3>4. store'[k.id].generation = r.generation  BY <3>2, <3>3 DEF Put
    <3>5. RunOK(k, v, store'[k.id])  BY <2>1, <3>1, <3>4, <1>3 DEF RunOK
    <3>6. RowMoves(k.id, k.gen = r.generation)  BY <3>2, <3>3 DEF RowMoves
    <3> QED  BY <2>1, <3>1, <3>5, <3>6, <1>9
  <2>5. CASE store' = store /\ RunOK(k, v, store'[k.id]) /\ v.pc = "unregister"
    BY <2>1, <2>5, <1>8, <1>9
  <2> QED  BY <2>2, <2>3, <2>4, <2>5, <1>12
<1>28. CASE Unregister(k)
  <2>1. w.pc = "unregister" /\ UNCHANGED vars /\ active' = Without(active, {k.id}) /\ Goes(k, "done")
    BY <1>28 DEF Unregister, At
  <2>2. v.pc = "done" /\ v.err = w.err  BY <2>1, <1>2, <1>6
  <2>3. RunOK(k, v, store'[k.id])  BY <2>1, <2>2, <1>3, <1>10 DEF RunOK
  <2>4. ControlMoves(k)  BY <2>1 DEF ControlMoves
  <2> QED  BY <2>1, <2>3, <2>4, <1>8, <1>10
<1> QED
  BY <1>13, <1>14, <1>15, <1>16, <1>17, <1>18, <1>20, <1>21, <1>22, <1>23, <1>24, <1>25, <1>26,
     <1>27, <1>28 DEF WorkerStep

\* Every worker is where its run allows; a living runner has a worker for every
\* active task and for every control; one that sleeps or has returned has none,
\* and a runner that returned left no control and no active task.
RunsInv ==
  /\ \A k \in DOMAIN workers : RunOK(k, workers[k], store[k.id])
  /\ Alive => \A id \in Active : RunOf(id) \in DOMAIN workers
  /\ Alive => \A id \in DOMAIN active :
       active[id] \in DOMAIN workers /\ workers[active[id]].pc \notin {"spawned", "done"}
  /\ runner \in {"sleeping", "stopped"} => DOMAIN workers = {}
  /\ runner = "stopped" => DOMAIN active = {} /\ Active = {}

LEMMA RunsAfterWorker ==
  ASSUME ExecBase, RunsInv, [Next]_vars, NEW k \in DOMAIN workers, WorkerStep(k)
  PROVE  RunsInv'
<1>1. /\ OnlyWorker(k) /\ UNCHANGED <<phase, issued, runner>>  BY WorkerStepMoves DEF WorkerMoves
<1>2. /\ RunOK(k, workers'[k], store'[k.id]) /\ ControlMoves(k)
      /\ RowMoves(k.id, k.gen = store[k.id].generation)
  BY WorkerStepRun DEF RunsInv
<1>3. phase = "open" /\ k \in issued /\ k = [id |-> k.id, gen |-> k.gen]  BY WorkerFacts
<1>4. DOMAIN workers' = DOMAIN workers /\ \A j \in DOMAIN workers : j # k => workers'[j] = workers[j]
  BY <1>1 DEF OnlyWorker
<1>5. ASSUME NEW j \in DOMAIN workers, j # k  PROVE RunOK(j, workers'[j], store'[j.id])
  <2>1. j \in issued /\ j = [id |-> j.id, gen |-> j.gen]  BY WorkerFacts
  <2>2. PICK mine \in BOOLEAN : mine <=> k.gen = store[k.id].generation  BY Zenon
  <2>3. RowMoves(k.id, mine)  BY <1>2, <2>2 DEF RowMoves
  <2>4. mine => j.id # k.id \/ j.gen # store[k.id].generation  BY <2>1, <2>2, <1>3, <1>5
  <2>5. j.gen = store[j.id].generation <=> j.gen = store'[j.id].generation
    BY <1>1, <1>3, <2>1, <2>3, <2>4, OthersKeepRuns
  <2> QED  BY <1>4, <1>5, <2>5 DEF RunOK, RunsInv
<1>6. \A j \in DOMAIN workers' : RunOK(j, workers'[j], store'[j.id])  BY <1>2, <1>4, <1>5
<1>7. ASSUME NEW id \in Active'  PROVE id \in Active /\ tasks'[id].generation = tasks[id].generation
  BY <1>1, <1>3, ActiveStays
<1>8. Alive' => \A id \in Active' : RunOf(id)' \in DOMAIN workers'
  BY <1>1, <1>4, <1>7 DEF RunsInv, Alive, RunOf
<1>9. k \in DOMAIN workers => runner \notin {"sleeping", "stopped"}  BY DEF RunsInv
<1>10. ASSUME Alive', NEW id \in DOMAIN active'
       PROVE  active'[id] \in DOMAIN workers' /\ workers'[active'[id]].pc \notin {"spawned", "done"}
  <2>1. Alive /\ \A x \in DOMAIN active : active[x].id = x
    BY <1>1, <1>10 DEF Alive, ExecBase
  <2>2. ASSUME NEW x \in DOMAIN active
        PROVE  active[x] \in DOMAIN workers /\ workers[active[x]].pc \notin {"spawned", "done"}
    BY <2>1 DEF RunsInv
  <2>3. CASE active' = active /\ (workers[k].pc = "spawned" \/ workers'[k].pc \notin {"spawned", "done"})
    BY <2>2, <2>3, <1>4
  <2>4. CASE active' = Put(active, k.id, k) /\ workers'[k].pc = "heed"
    <3>1. CASE id = k.id  BY <2>4, <3>1, <1>4 DEF Put
    <3>2. CASE id # k.id
      <4>1. id \in DOMAIN active /\ active'[id] = active[id]  BY <2>4, <3>2 DEF Put
      <4>2. active[id] # k  BY <4>1, <3>2, <2>1
      <4> QED  BY <4>1, <4>2, <2>2, <1>4
    <3> QED  BY <3>1, <3>2
  <2>5. CASE active' = Without(active, {k.id})
    <3>1. id # k.id /\ id \in DOMAIN active /\ active'[id] = active[id]  BY <2>5 DEF Without
    <3>2. active[id] # k  BY <3>1, <2>1
    <3> QED  BY <3>1, <3>2, <2>2, <1>4
  <2> QED  BY <1>2, <2>3, <2>4, <2>5 DEF ControlMoves
<1> QED  BY <1>1, <1>6, <1>8, <1>9, <1>10 DEF RunsInv

\* A step in which no worker comes or moves, and one goes only with its run or
\* with the runner.
LEMMA RunsAfterOther ==
  ASSUME ExecBase, RunsInv, [Next]_vars, phase = "open", phase' = "open", issued' = issued,
         NEW id, RowMoves(id, FALSE), active' = active, DOMAIN workers' \subseteq DOMAIN workers,
         \A j \in DOMAIN workers' : /\ workers'[j].pc = workers[j].pc
                                    /\ workers'[j].fault = workers[j].fault
                                    /\ workers'[j].err = workers[j].err,
         Alive' => Alive /\ \A j \in DOMAIN workers \ DOMAIN workers' :
                              workers[j].pc = "done" /\ ~workers[j].err,
         runner' \in {"sleeping", "stopped"} => DOMAIN workers' = {},
         runner' = "stopped" => runner \in {"sleeping", "stopped"}
  PROVE  RunsInv'
<1>1. ASSUME NEW j \in DOMAIN workers'  PROVE RunOK(j, workers'[j], store'[j.id])
  <2>1. j \in issued  BY WorkerFacts
  <2>2. j.gen = store[j.id].generation <=> j.gen = store'[j.id].generation
    BY <2>1, OthersKeepRuns
  <2> QED  BY <2>2 DEF RunOK, RunsInv
<1>2. ASSUME NEW x \in Active'  PROVE x \in Active /\ RunOf(x)' = RunOf(x)
  BY ActiveStays DEF RunOf
<1>3. ASSUME Alive', NEW x \in Active'  PROVE RunOf(x)' \in DOMAIN workers'
  <2>1. RunOf(x) \in DOMAIN workers  BY <1>2, <1>3 DEF RunsInv
  <2>2. CASE RunOf(x) \notin DOMAIN workers'
    <3> PICK k : k = RunOf(x)  OBVIOUS
    <3>1. k \in DOMAIN workers /\ workers[k].pc = "done" /\ ~workers[k].err  BY <2>1, <2>2, <1>3
    <3>2. k.gen # store[k.id].generation  BY <3>1, Zenon DEF RunsInv, RunOK
    <3>3. k.id = x /\ k.gen = tasks[x].generation  BY DEF RunOf
    <3>4. tasks[x] = store[x]  BY <1>2 DEF Active, ExecBase, IInv, MemoryMatchesStore
    <3> QED  BY <3>2, <3>3, <3>4
  <2> QED  BY <1>2, <2>2
<1>4. ASSUME Alive', NEW x \in DOMAIN active'
      PROVE  active'[x] \in DOMAIN workers' /\ workers'[active'[x]].pc \notin {"spawned", "done"}
  BY <1>4 DEF RunsInv
<1>5. runner' = "stopped" => DOMAIN active' = {} /\ Active' = {}
  <2>1. ASSUME runner' = "stopped"  PROVE DOMAIN active = {} /\ Active = {}
    BY <2>1 DEF RunsInv, Alive
  <2> QED  BY <2>1, <1>2
<1> QED  BY <1>1, <1>3, <1>4, <1>5 DEF RunsInv

LEMMA RunsAfterStart ==
  ASSUME ExecBase, RunsInv, [Next]_vars, NEW id \in TaskIds, StartWorker(id)
  PROVE  RunsInv'
<1> USE StartWorkerFacts
<1>1. phase = "open" /\ phase' = "open" /\ runner = "filling" /\ active' = active /\ Alive
  BY DEF StartWorker, Alive
<1>2. CASE UNCHANGED <<tasks, store, workers>> /\ runner' = "failed"
  BY <1>1, <1>2 DEF RunsInv, Alive, RunOf, Active
<1>3. ASSUME NEW t \in Task, NEW k, k = [id |-> id, gen |-> t.generation],
             store' = Put(store, id, t), tasks' = Put(tasks, id, t), RunEnds(store[id], t),
             workers' = Put(workers, k, NewWorker(t)), UNCHANGED runner
      PROVE  RunsInv'
  <2>1. /\ id \in DOMAIN store /\ tasks[id] = store[id] /\ store[id] \in Task /\ id \in DOMAIN tasks
        /\ k.id = id /\ k.gen = t.generation /\ store[id].generation \in Nat
        /\ k.gen = store[id].generation + 1
    BY <1>3, TaskFacts DEF RunEnds, Open, Task
  <2>2. k \notin issued /\ k \notin DOMAIN workers
    <3>1. k \in issued => k.gen <= store[k.id].generation  BY DEF ExecBase, IInv, TokenDiscipline
    <3> QED  BY <3>1, <2>1, WorkerFacts
  <2>3. /\ DOMAIN workers' = DOMAIN workers \cup {k} /\ workers'[k] = NewWorker(t)
        /\ \A j \in DOMAIN workers : workers'[j] = workers[j]
    BY <1>3, <2>2 DEF Put
  <2>4. RunOK(k, workers'[k], store'[k.id])
    <3>1. store'[k.id] = t  BY <1>3, <2>1 DEF Put
    <3>2. workers'[k].pc = "spawned" /\ workers'[k].fault = "none"  BY <2>3 DEF NewWorker
    <3> QED  BY <2>1, <3>1, <3>2 DEF RunOK
  <2>5. ASSUME NEW j \in DOMAIN workers  PROVE RunOK(j, workers'[j], store'[j.id])
    <3>1. RowMoves(id, FALSE)  BY <1>3 DEF RowMoves
    <3>2. j.gen = store[j.id].generation <=> j.gen = store'[j.id].generation
      BY <1>1, <3>1, WorkerFacts, OthersKeepRuns
    <3> QED  BY <2>3, <3>2 DEF RunOK, RunsInv
  <2>6. ASSUME NEW x \in Active'  PROVE RunOf(x)' \in DOMAIN workers'
    <3>1. CASE x = id
      <4>1. tasks'[x] = t  BY <3>1, <1>3 DEF Put
      <4> QED  BY <3>1, <4>1, <1>3, <2>3 DEF RunOf
    <3>2. CASE x # id
      <4>1. x \in Active /\ tasks'[x] = tasks[x]  BY <3>2, <1>3 DEF Active, Put
      <4> QED  BY <4>1, <2>3, <1>1 DEF RunOf, RunsInv
    <3> QED  BY <3>1, <3>2
  <2>7. ASSUME NEW x \in DOMAIN active
        PROVE  active[x] \in DOMAIN workers' /\ workers'[active[x]].pc \notin {"spawned", "done"}
    BY <1>1, <2>3 DEF RunsInv
  <2> QED  BY <1>1, <1>3, <2>3, <2>4, <2>5, <2>6, <2>7 DEF RunsInv
<1> QED  BY <1>2, <1>3

\* A request, or a mark, leaves the generation of an active row alone.
LEMMA SavedGoesOn ==
  ASSUME ExecBase, NEW id, Open(id), NEW t, Saved(id, t) \/ UNCHANGED store,
         IsActive(tasks[id]) => RunGoesOn(tasks[id], t)
  PROVE  RowMoves(id, FALSE)
<1>1. tasks[id] = store[id]  BY TaskFacts
<1>2. store' = store \/ store' = Put(store, id, t)  BY SavedRow
<1> QED  BY <1>1, <1>2 DEF RowMoves, RunGoesOn

LEMMA ClientRow ==
  ASSUME ExecBase, NEW id \in TaskIds, Client(id)
  PROVE  RowMoves(id, FALSE)
<1>1. ASSUME NEW policy \in OfferedPolicies, EnqueuePublic(id, policy)  PROVE RowMoves(id, FALSE)
  BY <1>1 DEF EnqueuePublic, Enqueue, RowMoves
<1>2. ASSUME NEW policy \in OfferedPolicies, ResolvePublic(id, policy)  PROVE RowMoves(id, FALSE)
  <2> PICK t : t = ResolveConflict(tasks[id], policy, clock)  OBVIOUS
  <2>1. Open(id) /\ Saved(id, t) /\ ~IsActive(tasks[id])
    BY <1>2 DEF ResolvePublic, CanResolveConflict, IsActive, ActiveKinds
  <2> QED  BY <2>1, SavedGoesOn
<1>3. CASE CancelPublic(id)
  <2> PICK t : t = RequestCancel(tasks[id], clock)  OBVIOUS
  <2>1. Open(id) /\ Saved(id, t)  BY <1>3 DEF CancelPublic
  <2>2. IsActive(tasks[id]) => RunGoesOn(tasks[id], t)
    BY <2>1, TaskFacts, CancelFacts DEF IsActive
  <2> QED  BY <2>1, <2>2, SavedGoesOn
<1>4. CASE RetryPublic(id)
  <2> PICK t : t = ScheduleRetry(tasks[id], clock)  OBVIOUS
  <2>1. Open(id) /\ Saved(id, t) /\ ~IsActive(tasks[id])
    BY <1>4 DEF RetryPublic, CanScheduleRetry, IsActive, ActiveKinds
  <2> QED  BY <2>1, SavedGoesOn
<1> QED  BY <1>1, <1>2, <1>3, <1>4, Zenon DEF Client

LEMMA NextRuns ==
  ASSUME ExecBase, RunsInv, [ExecNext]_execVars
  PROVE  RunsInv'
<1>1. [Next]_vars  BY ExecStepIsQueueStep
<1>2. ASSUME UNCHANGED <<tasks, store, runner, workers, active>>  PROVE RunsInv'
  BY <1>2 DEF RunsInv, Alive, RunOf, Active
\* A command or a mark changes one row.
<1>3. ASSUME NEW id, phase = "open", RowMoves(id, FALSE),
             UNCHANGED <<phase, issued, runner, workers, active>>
      PROVE  RunsInv'
  <2>1. Alive' => Alive  BY <1>3 DEF Alive
  <2>2. runner' \in {"sleeping", "stopped"} => DOMAIN workers' = {}  BY <1>3 DEF RunsInv
  <2> QED  BY <2>1, <2>2, <1>1, <1>3, RunsAfterOther
\* The runner, the controls.
<1>4. ASSUME UNCHANGED <<vars, active>>, phase = "open", DOMAIN workers' \subseteq DOMAIN workers,
             \A j \in DOMAIN workers' : /\ workers'[j].pc = workers[j].pc
                                        /\ workers'[j].fault = workers[j].fault
                                        /\ workers'[j].err = workers[j].err,
             Alive' => Alive /\ \A j \in DOMAIN workers \ DOMAIN workers' :
                                  workers[j].pc = "done" /\ ~workers[j].err,
             runner' \in {"sleeping", "stopped"} => DOMAIN workers' = {},
             runner' = "stopped" => runner \in {"sleeping", "stopped"}
      PROVE  RunsInv'
  <2>1. UNCHANGED <<phase, issued>> /\ store' = store  BY <1>4 DEF vars
  <2>2. \A id : RowMoves(id, FALSE)  BY <2>1 DEF RowMoves
  <2> QED  BY <1>1, <1>4, <2>1, <2>2, RunsAfterOther
<1>5. ASSUME NEW ids, CancelControls(ids), UNCHANGED <<vars, runner, active>>, phase = "open"
      PROVE  RunsInv'
  <2>1. /\ DOMAIN workers' = DOMAIN workers
        /\ \A j \in DOMAIN workers : /\ workers'[j].pc = workers[j].pc
                                     /\ workers'[j].fault = workers[j].fault
                                     /\ workers'[j].err = workers[j].err
    BY <1>5, CancelControlsFacts DEF ExecBase
  <2>2. runner' \in {"sleeping", "stopped"} => DOMAIN workers' = {}
    BY <1>5, <2>1 DEF RunsInv
  <2> QED  BY <1>4, <1>5, <2>1, <2>2 DEF Alive
<1>6. ASSUME UNCHANGED <<vars, workers, active>>, phase = "open", Alive' => Alive,
             runner' \in {"sleeping", "stopped"} => DOMAIN workers' = {},
             runner' = "stopped" => runner \in {"sleeping", "stopped"}
      PROVE  RunsInv'
  BY <1>4, <1>6
<1>7. runner # "off" <=> phase = "open"  BY DEF ExecBase, Opened
<1>8. CASE UNCHANGED execVars
  BY <1>8, <1>2 DEF execVars, vars
<1>9. ASSUME NEW id \in TaskIds, Client(id)  PROVE RunsInv'
  <2>1. phase = "open" /\ UNCHANGED <<phase, issued, runner, workers, active>>
    BY <1>9 DEF Client, EnqueuePublic, Enqueue, ResolvePublic, RetryPublic, CancelPublic, Open
  <2>2. RowMoves(id, FALSE)  BY <1>9, ClientRow
  <2> QED  BY <2>1, <2>2, <1>3
<1>10. ASSUME NEW id \in TaskIds, CancelControl(id)  PROVE RunsInv'
  <2>1. phase = "open"  BY <1>10 DEF CancelControl, ExecBase, Opened
  <2> QED  BY <2>1, <1>5, <1>10 DEF CancelControl
<1>11. CASE Runner
  <2>1. ASSUME NEW id \in TaskIds, StartWorker(id)  PROVE RunsInv'
    BY <2>1, <1>1, RunsAfterStart
  <2>2. ASSUME NEW id \in TaskIds, StartRefused(id)  PROVE RunsInv'
    BY <2>2, <1>6, <1>7 DEF StartRefused, Alive
  <2>3. ASSUME NEW k \in DOMAIN workers, Join(k)  PROVE RunsInv'
    <3>1. /\ runner = "joining" /\ workers[k].pc = "done" /\ UNCHANGED <<vars, active>>
          /\ workers' = Without(workers, {k})
      BY <2>3 DEF Join, At
    <3>2. runner' = "failed" \/ (runner' = "filling" /\ ~workers[k].err)
      BY <2>3, Zenon DEF Join
    <3>3. DOMAIN workers' = DOMAIN workers \ {k} /\ \A j \in DOMAIN workers' : workers'[j] = workers[j]
      BY <3>1 DEF Without
    <3> QED  BY <3>1, <3>2, <3>3, <1>4, <1>7 DEF Alive
  <2>4. CASE StopFilling
    <3>1. /\ runner = "filling" /\ UNCHANGED <<vars, workers, active>>
          /\ runner' = IF DOMAIN workers = {} THEN "sleeping" ELSE "joining"
      BY <2>4 DEF StopFilling
    <3> QED  BY <3>1, <1>6, <1>7 DEF Alive
  <2>5. CASE Wake
    <3>1. /\ runner = "sleeping" /\ UNCHANGED <<vars, workers, active>>
          /\ runner' \in {"stopped", "filling"}
      BY <2>5 DEF Wake
    <3>2. DOMAIN workers = {}  BY <3>1 DEF RunsInv
    <3> QED  BY <3>1, <3>2, <1>6, <1>7 DEF Alive
  <2> QED  BY <1>11, <2>1, <2>2, <2>3, <2>4, <2>5, Zenon DEF Runner
<1>12. ASSUME NEW k \in DOMAIN workers, WorkerStep(k)  PROVE RunsInv'
  BY <1>12, <1>1, RunsAfterWorker
<1>13. ASSUME NEW k \in DOMAIN workers, Vanish(k)  PROVE RunsInv'
  <2>1. runner' = runner /\ runner \in {"failed", "aborted"} /\ UNCHANGED <<vars, active>>
        /\ workers' = Without(workers, {k})
    BY <1>13 DEF Vanish
  <2>2. DOMAIN workers' = DOMAIN workers \ {k} /\ \A j \in DOMAIN workers' : workers'[j] = workers[j]
    BY <2>1 DEF Without
  <2> QED  BY <2>1, <2>2, <1>4, <1>7 DEF Alive
<1>14. CASE Shutdown
  <2>1. CASE ShutdownControls
    BY <2>1, <1>5 DEF ShutdownControls
  <2>2. CASE ShutdownPermits \/ ShutdownLock \/ ShutdownSignal
    BY <2>2, <1>2 DEF ShutdownPermits, ShutdownLock, ShutdownSignal, vars
  <2>3. CASE ShutdownTimeout
    BY <2>3, <1>6, <1>7 DEF ShutdownTimeout, Alive
  <2>4. ASSUME NEW id \in marking, ShutdownMark(id)  PROVE RunsInv'
    <3>1. Open(id) /\ phase = "open" /\ UNCHANGED <<phase, issued, runner, workers, active>>
      BY <2>4, <1>7 DEF ShutdownMark, ExecBase, ExecTypeOK, Opened, Open
    <3> PICK t : t = IF IsActive(tasks[id]) THEN RequestCancel(tasks[id], clock) ELSE tasks[id]
      OBVIOUS
    <3>2. Saved(id, t) \/ UNCHANGED store  BY <2>4, Zenon DEF ShutdownMark, Lost
    <3>3. IsActive(tasks[id]) => RunGoesOn(tasks[id], t)
      <4> PICK u : u = RequestCancel(tasks[id], clock)  OBVIOUS
      <4>1. IsActive(tasks[id]) => RunGoesOn(tasks[id], u)
        BY <3>1, TaskFacts, CancelFacts DEF IsActive
      <4> QED  BY <4>1
    <3> QED  BY <3>1, <3>2, <3>3, <1>3, SavedGoesOn
  <2> QED  BY <1>14, <2>1, <2>2, <2>3, <2>4, Zenon DEF Shutdown
<1>15. CASE ExecOpen \/ ExecCrash
  <2>1. ExecBase'  BY NextBase
  <2>2. DOMAIN workers' = {} /\ DOMAIN active' = {} /\ runner' \in {"off", "filling"}
    <3>1. CASE ExecOpen
      <4>1. phase # "open" /\ UNCHANGED <<workers, active>>
        BY <3>1 DEF ExecOpen, OpenBegin, RecoverOne, OpenFails, OpenDone
      <4> QED  BY <3>1, <4>1, <1>7 DEF ExecBase, Opened, ExecOpen
    <3>2. CASE ExecCrash  BY <3>2 DEF ExecCrash, Empty
    <3> QED  BY <1>15, <3>1, <3>2
  <2>3. runner' = "filling" => Active' = {}
    <3>1. ASSUME runner' = "filling"  PROVE UNCHANGED tasks /\ phase = "opening"
      <4>1. runner = "off"
        BY <1>15, <1>7, <3>1 DEF ExecOpen, ExecCrash, OpenBegin, RecoverOne, OpenFails, OpenDone
      <4> QED  BY <1>15, <3>1, <4>1 DEF ExecOpen, ExecCrash, OpenDone
    <3> QED  BY <3>1 DEF Active, ExecBase, IInv, QuietUntilOpen
  <2> QED  BY <2>2, <2>3 DEF RunsInv, Alive
<1>16. CASE ExecTick
  BY <1>16, <1>2 DEF ExecTick, Tick
<1>17. ASSUME NEW h \in Handles, Bind(h) \/ Outsider(h)  PROVE RunsInv'
  BY <1>17, <1>2 DEF Bind, Outsider, vars
<1> QED
  BY <1>8, <1>9, <1>10, <1>11, <1>12, <1>13, <1>14, <1>15, <1>16, <1>17, Zenon DEF ExecNext

LEMMA RunsAlways == ExecSpec => []RunsInv
<1>1. ExecInit => RunsInv
  BY DEF ExecInit, Init, RunsInv, Alive, Empty
<1>2. ExecBase /\ RunsInv /\ [ExecNext]_execVars => RunsInv'  BY NextRuns
<1> QED  BY <1>1, <1>2, BaseAlways, PTL DEF ExecSpec

\* What the invariants say about runs, in the words of the run's properties.
LEMMA RunsAreMatched ==
  ASSUME ExecBase, RunsInv
  PROVE  RunsHaveWorkers /\ ControlsReclaimed /\ StoppedIsSettled
<1>1. ASSUME NEW k \in DOMAIN workers, workers[k].pc \in InIO  PROVE Honoured(k)
  BY <1>1, WorkerFacts DEF RunsInv, RunOK, Held, Honoured
<1>2. ASSUME Alive, NEW id \in Active
      PROVE  Owes(RunOf(id)) \/ (RunOf(id) \in DOMAIN workers /\ workers[RunOf(id)].err)
  <2> PICK k : k = RunOf(id)  OBVIOUS
  <2>1. k \in DOMAIN workers /\ workers[k].pc \in Steps /\ RunOK(k, workers[k], store[k.id])
    BY <1>2 DEF RunsInv, ExecBase, ExecTypeOK, Worker
  <2>2. k.id = id /\ k.gen = tasks[id].generation  BY DEF RunOf
  <2>3. tasks[id] = store[id]  BY DEF Active, ExecBase, IInv, MemoryMatchesStore
  <2>4. CASE workers[k].pc \in {"reschedule", "unregister", "done"}
    <3>1. workers[k].err  BY <2>1, <2>2, <2>3, <2>4, Zenon DEF RunOK
    <3> QED  BY <2>1, <3>1, Zenon
  <2>5. CASE workers[k].pc \notin {"reschedule", "unregister", "done"}
    BY <2>1, <2>5 DEF Owes, Steps, Awaits, InIO
  <2> QED  BY <2>4, <2>5
<1>3. RunsHaveWorkers  BY <1>1, <1>2, Zenon DEF RunsHaveWorkers
<1> QED  BY <1>3 DEF RunsInv, ControlsReclaimed, StoppedIsSettled

\* A worker moves bytes only for the run in progress, a living runner has a
\* worker for every run and every control, through every cancel, failed write,
\* shutdown and crash (execute_started, active, run_ready).
THEOREM WorkersAndRunsMatch == ExecSpec => []WorkersMatchRuns
<1>1. ExecBase /\ RunsInv => WorkersMatchRuns  BY RunsAreMatched DEF WorkersMatchRuns
<1> QED  BY <1>1, BaseAlways, RunsAlways, PTL

\* A shutdown at any point stays within what the queue does, and a runner that
\* returned by itself left no worker, no control and no active task
\* (request_shutdown, run_ready).
THEOREM StoppingIsOrderly == ExecSpec => StopIsOrderly
<1>1. ExecBase /\ RunsInv => StoppedIsSettled  BY RunsAreMatched
<1> QED  BY <1>1, BaseAlways, RunsAlways, ExecutorImplementsQueue, PTL DEF StopIsOrderly

-----------------------------------------------------------------------------
(* Part 3: what is staged and what is delivered, when no two tasks have the *)
(* same local destination.                                                  *)

OwnHandles == \A a, b \in TaskIds : HandleOf[a] = HandleOf[b] => a = b

Delivered(id, f) ==
  \E name \in {"bound", "renamed"} : File(id, name) \in DOMAIN f /\ f[File(id, name)] = Whole(id)

\* A `.part` holds chunks of its own source only, and no more than there are.
PartOK(id, f) ==
  File(id, "part") \in DOMAIN f =>
    /\ f[File(id, "part")] \in Seq({id})
    /\ Len(f[File(id, "part")]) <= SourceSize[id]

\* Worker k against row t of its task and the files f.
StageOK(k, w, t, f) ==
  /\ w.pc \in {"spawned", "heed", "connect", "begin"} => w.base = t.bytes
  /\ w.pc \in {"read", "write", "record", "size", "commit"} =>
       /\ File(k.id, "part") \in DOMAIN f
       /\ Len(f[File(k.id, "part")]) = w.off
       /\ t.bytes = IF w.pc = "record" THEN w.off - 1 ELSE w.off
  /\ w.pc = "write" /\ w.eof => w.off + 1 >= SourceSize[k.id]
  /\ w.pc = "record" /\ w.eof => w.off >= SourceSize[k.id]
  /\ w.pc \in {"size", "commit"} => w.off >= SourceSize[k.id]
  /\ w.pc = "complete" => Delivered(k.id, f)

StageInv ==
  /\ \A id \in TaskIds : PartOK(id, files)
  /\ \A k \in DOMAIN workers : StageOK(k, workers[k], store[k.id], files)
  /\ CompletedIsDelivered

\* A step of worker k touches the files of its own task, and only while the
\* run is its own.
FilesMove(k) ==
  \/ files' = files
  \/ /\ workers[k].pc \in Held
     /\ \A id \in TaskIds \ {k.id}, name \in FileNames :
          /\ File(id, name) \in DOMAIN files' <=> File(id, name) \in DOMAIN files
          /\ File(id, name) \in DOMAIN files => files'[File(id, name)] = files[File(id, name)]

\* A full `.part` is the whole source.
LEMMA FullIsWhole ==
  ASSUME NEW id \in TaskIds, NEW s \in Seq({id}), Len(s) = SourceSize[id]
  PROVE  s = Whole(id)
<1>1. s = [i \in 1..Len(s) |-> s[i]] /\ \A i \in 1..Len(s) : s[i] = id  OBVIOUS
<1> QED  BY <1>1 DEF Whole

LEMMA OtherFiles ==
  ASSUME OwnHandles, NEW k, k.id \in TaskIds, NEW id \in TaskIds \ {k.id}, NEW name, NEW other
  PROVE  File(id, name) # File(k.id, other)
BY DEF OwnHandles, File

LEMMA NamesDiffer ==
  ASSUME NEW id, NEW name, name # "part"
  PROVE  File(id, name) # File(id, "part")
BY DEF File

\* A fault leaves nothing to stage.
LEMMA FaultyStage ==
  ASSUME ExecTypeOK, NEW k \in DOMAIN workers, NEW fault \in Faults,
         NEW pc \in {"abort", "disconnect", "persist"}, Faulty(k, pc, fault), NEW t, NEW f
  PROVE  StageOK(k, workers'[k], t, f)
<1>1. pc \in Steps  BY DEF Steps, Awaits
<1>2. workers'[k].pc = pc  BY <1>1, FaultyFacts
<1> QED  BY <1>2 DEF StageOK

LEMMA SettledStage ==
  ASSUME NEW k, NEW w, w.pc \in {"abort", "disconnect", "persist", "reschedule", "unregister", "done"},
         NEW t, NEW f
  PROVE  StageOK(k, w, t, f)
BY DEF StageOK

LEMMA WorkerStepStage ==
  ASSUME OwnHandles, ExecBase, RunsInv, StageInv, NEW k \in DOMAIN workers, WorkerStep(k)
  PROVE  /\ StageOK(k, workers'[k], store'[k.id], files')
         /\ FilesMove(k) /\ PartOK(k.id, files')
<1> DEFINE w == workers[k]
           v == workers'[k]
           r == store[k.id]
           t == tasks[k.id]
           S == SourceSize[k.id]
           part == File(k.id, "part")
<1>1. /\ ExecTypeOK /\ w \in Worker /\ r \in Task /\ t = r /\ Open(k.id) /\ clock \in Nat
      /\ k.gen \in Nat /\ k.id \in TaskIds /\ S \in Nat /\ r.bytes \in Nat
      /\ w.off \in Nat /\ w.base \in Nat /\ w.eof \in BOOLEAN
  BY WorkerFacts, ExecutorAssumption DEF ExecBase, Task, Worker
<1>2. Steps = {"spawned", "connect", "read", "record", "disconnect", "heed", "begin", "write",
               "size", "commit", "complete", "abort", "persist", "reschedule", "unregister", "done"}
  BY DEF Steps, Awaits
<1>3. StageOK(k, w, r, files) /\ PartOK(k.id, files) /\ WorkerInBounds(k, w)
  BY <1>1 DEF StageInv, ExecBase, InBounds
<1>4. Faults = {"none", "retryable", "permanent", "conflict", "cancelled"}  BY DEF Faults
<1>5. ASSUME files' = files  PROVE FilesMove(k) /\ PartOK(k.id, files')
  BY <1>5, <1>3 DEF FilesMove
<1>6. ASSUME NEW pc \in Steps, Goes(k, pc)
      PROVE  v.pc = pc /\ v.base = w.base /\ v.off = w.off /\ v.eof = w.eof
  BY <1>6, <1>1, GoesFacts DEF SameData
<1>7. ASSUME NEW fault \in {"retryable", "permanent", "conflict", "cancelled"},
             NEW pc \in {"abort", "disconnect", "persist"}, Faulty(k, pc, fault)
      PROVE  StageOK(k, v, store'[k.id], files')
  BY <1>1, <1>4, <1>7, FaultyStage
<1>8. ASSUME NEW can, NEW u, NEW next, Tell(k, can, u, next)
      PROVE  (can /\ Saved(k.id, u) /\ Goes(k, next)) \/ StageOK(k, v, store'[k.id], files')
  <2>1. \/ can /\ Saved(k.id, u) /\ Goes(k, next)
        \/ \E fault \in {"retryable", "cancelled"} : Faulty(k, "abort", fault)
    BY <1>8, Zenon DEF Tell, Rejected
  <2> QED  BY <2>1, <1>7
<1>9. ASSUME UNCHANGED vars  PROVE store' = store  BY <1>9 DEF vars
<1>10. ASSUME UNCHANGED local  PROVE files' = files  BY <1>10 DEF local
<1>11. CASE Register(k)
  <2>1. w.pc = "spawned" /\ UNCHANGED vars /\ UNCHANGED local  BY <1>11 DEF Register, At
  <2>2. CASE shut \in {"no", "cancelled"}
    <3>1. Goes(k, "heed")  BY <1>11, <2>2, Zenon DEF Register
    <3>2. StageOK(k, v, store'[k.id], files')
      BY <3>1, <2>1, <1>2, <1>3, <1>6, <1>9, <1>10 DEF StageOK
    <3> QED  BY <3>2, <2>1, <1>5, <1>10
  <2>3. CASE shut \notin {"no", "cancelled"}
    <3>1. workers' = [workers EXCEPT ![k].pc = "done", ![k].err = TRUE]
      BY <1>11, <2>3, Zenon DEF Register
    <3>2. v.pc = "done"  BY <3>1, <1>1 DEF ExecTypeOK, Worker
    <3> QED  BY <3>2, <2>1, <1>5, <1>10, SettledStage
  <2> QED  BY <2>2, <2>3
<1>12. CASE HeedCancel(k)
  <2> PICK c : c = (w.cancelled \/ tasks[k.id].state = "Cancelling")  OBVIOUS
  <2>1. workers' = [workers EXCEPT ![k].pc = "connect", ![k].cancelled = c]
        /\ w.pc = "heed" /\ UNCHANGED vars /\ UNCHANGED local
    BY <1>12 DEF HeedCancel, At
  <2>2. v.pc = "connect" /\ v.base = w.base  BY <2>1, <1>1 DEF ExecTypeOK, Worker
  <2>3. StageOK(k, v, store'[k.id], files')  BY <2>1, <2>2, <1>3, <1>9 DEF StageOK
  <2> QED  BY <2>1, <2>3, <1>5, <1>10
<1>13. CASE Connect(k)
  <2>1. w.pc = "connect" /\ UNCHANGED vars /\ UNCHANGED local  BY <1>13 DEF Connect, At
  <2>2. \/ \E fault \in {"retryable", "permanent", "conflict", "cancelled"} : Faulty(k, "persist", fault)
        \/ Goes(k, "begin")
    BY <1>13, Zenon DEF Connect
  <2>3. ASSUME Goes(k, "begin")  PROVE StageOK(k, v, store'[k.id], files')
    BY <2>1, <2>3, <1>2, <1>3, <1>6, <1>9 DEF StageOK
  <2> QED  BY <2>1, <2>2, <2>3, <1>5, <1>7, <1>10
<1>14. CASE BeginWrite(k)
  <2> DEFINE p == IF w.base > 0 /\ part \in DOMAIN files THEN files[part] ELSE <<>>
  <2>1. w.pc = "begin" /\ UNCHANGED vars  BY <1>14 DEF BeginWrite, At
  <2>2. p \in Seq({k.id}) /\ Len(p) <= S
    BY <1>1, <1>3 DEF PartOK
  <2>3. \/ files' = files
        \/ files' = Put(files, part, p)
    BY <1>14, Zenon DEF BeginWrite, local
  <2>4. FilesMove(k) /\ PartOK(k.id, files')
    <3>1. CASE files' = files  BY <3>1, <1>5
    <3>2. CASE files' = Put(files, part, p)
      <4>1. files'[part] = p  BY <3>2 DEF Put
      <4>2. PartOK(k.id, files')  BY <4>1, <2>2 DEF PartOK
      <4>3. ASSUME NEW id \in TaskIds \ {k.id}, NEW name \in FileNames
            PROVE  /\ File(id, name) \in DOMAIN files' <=> File(id, name) \in DOMAIN files
                   /\ File(id, name) \in DOMAIN files => files'[File(id, name)] = files[File(id, name)]
        BY <3>2, <1>1, OtherFiles DEF Put
      <4> QED  BY <4>2, <4>3, <2>1 DEF FilesMove, Held, InIO
    <3> QED  BY <2>3, <3>1, <3>2
  <2>5. \/ \E fault \in {"retryable", "permanent", "conflict", "cancelled"} : Faulty(k, "disconnect", fault)
        \/ /\ files' = Put(files, part, p) /\ Len(p) = w.base
           /\ workers' = [workers EXCEPT ![k].pc = "read", ![k].off = w.base, ![k].total = ExpectedSize[k.id]]
    BY <1>14, Zenon DEF BeginWrite
  <2>6. CASE /\ files' = Put(files, part, p) /\ Len(p) = w.base
             /\ workers' = [workers EXCEPT ![k].pc = "read", ![k].off = w.base, ![k].total = ExpectedSize[k.id]]
    <3>1. v.pc = "read" /\ v.off = w.base  BY <2>6, <1>1 DEF ExecTypeOK, Worker
    <3>2. part \in DOMAIN files' /\ files'[part] = p  BY <2>6 DEF Put
    <3>3. w.base = r.bytes /\ store'[k.id] = r  BY <2>1, <1>3, <1>9 DEF StageOK
    <3>4. StageOK(k, v, store'[k.id], files')  BY <3>1, <3>2, <3>3, <2>6 DEF StageOK
    <3> QED  BY <2>4, <3>4
  <2> QED  BY <2>4, <2>5, <2>6, <1>7
<1>15. CASE ReadChunk(k)
  <2>1. w.pc = "read" /\ UNCHANGED vars /\ UNCHANGED local  BY <1>15 DEF ReadChunk, At
  <2>2. \/ \E fault \in {"retryable", "permanent", "conflict", "cancelled"} : Faulty(k, "abort", fault)
        \/ \E size \in {None, S} :
             workers' = [workers EXCEPT
               ![k].total = IF @ = None THEN size ELSE @,
               ![k].eof = w.off + 1 >= S,
               ![k].pc = IF w.off < S THEN "write" ELSE "size"]
    BY <1>15, Zenon DEF ReadChunk
  <2>3. ASSUME NEW size \in {None, S},
               workers' = [workers EXCEPT
                 ![k].total = IF @ = None THEN size ELSE @,
                 ![k].eof = w.off + 1 >= S,
                 ![k].pc = IF w.off < S THEN "write" ELSE "size"]
        PROVE  StageOK(k, v, store'[k.id], files')
    <3>1. PICK total : total = IF w.total = None THEN size ELSE w.total  OBVIOUS
    <3>2. PICK eof : eof = (w.off + 1 >= S)  OBVIOUS
    <3>3. PICK pc : pc = IF w.off < S THEN "write" ELSE "size"  OBVIOUS
    <3>4. workers' = [workers EXCEPT ![k].total = total, ![k].eof = eof, ![k].pc = pc]
      BY <2>3, <3>1, <3>2, <3>3, <1>1 DEF ExecTypeOK
    <3>5. v.pc = pc /\ v.off = w.off /\ v.eof = eof  BY <3>4, <1>1 DEF ExecTypeOK, Worker
    <3>6. v.eof => w.off + 1 >= S  BY <3>2, <3>5, Zenon
    <3>7. pc = "write" \/ (pc = "size" /\ w.off >= S)  BY <3>3, <1>1
    <3>8. part \in DOMAIN files /\ Len(files[part]) = w.off /\ r.bytes = w.off
      BY <2>1, <1>3 DEF StageOK
    <3> QED  BY <2>1, <3>5, <3>6, <3>7, <3>8, <1>9, <1>10 DEF StageOK
  <2> QED  BY <2>1, <2>2, <2>3, <1>5, <1>7, <1>10
<1>16. CASE WriteChunk(k)
  <2>1. w.pc = "write" /\ UNCHANGED vars  BY <1>16 DEF WriteChunk, At
  <2>2. \/ files' = files
        \/ part \in DOMAIN files /\ files' = [files EXCEPT ![part] = Append(@, k.id)]
    BY <1>16, Zenon DEF WriteChunk
  <2>3. Len(files[part]) = w.off /\ w.off < S /\ part \in DOMAIN files /\ r.bytes = w.off
    BY <2>1, <1>3 DEF StageOK, WorkerInBounds
  <2>4. PICK q : q = files[part]  OBVIOUS
  <2>5. q \in Seq({k.id}) /\ Len(q) = w.off  BY <2>3, <2>4, <1>3 DEF PartOK
  <2>6. Append(q, k.id) \in Seq({k.id}) /\ Len(Append(q, k.id)) = w.off + 1  BY <2>5
  <2>7. ASSUME files' = [files EXCEPT ![part] = Append(@, k.id)]
        PROVE  files'[part] = Append(q, k.id) /\ DOMAIN files' = DOMAIN files
    BY <2>7, <2>3, <2>4
  <2>8. FilesMove(k) /\ PartOK(k.id, files')
    <3>1. CASE files' = files  BY <3>1, <1>5
    <3>2. CASE files' = [files EXCEPT ![part] = Append(@, k.id)]
      <4>1. PartOK(k.id, files')
        <5>1. w.off + 1 <= S  BY <2>3, <1>1
        <5> QED  BY <3>2, <5>1, <2>6, <2>7 DEF PartOK
      <4>2. ASSUME NEW id \in TaskIds \ {k.id}, NEW name \in FileNames
            PROVE  /\ File(id, name) \in DOMAIN files' <=> File(id, name) \in DOMAIN files
                   /\ File(id, name) \in DOMAIN files => files'[File(id, name)] = files[File(id, name)]
        BY <3>2, <1>1, OtherFiles
      <4> QED  BY <4>1, <4>2, <2>1 DEF FilesMove, Held, InIO
    <3> QED  BY <2>2, <3>1, <3>2
  <2>9. \/ \E fault \in {"retryable", "permanent", "conflict", "cancelled"} : Faulty(k, "abort", fault)
        \/ /\ files' = [files EXCEPT ![part] = Append(@, k.id)]
           /\ workers' = [workers EXCEPT ![k].pc = "record", ![k].off = @ + 1]
    BY <1>16, Zenon DEF WriteChunk
  <2>10. CASE /\ files' = [files EXCEPT ![part] = Append(@, k.id)]
              /\ workers' = [workers EXCEPT ![k].pc = "record", ![k].off = @ + 1]
    <3>1. v.pc = "record" /\ v.off = w.off + 1 /\ v.eof = w.eof
      BY <2>10, <1>1 DEF ExecTypeOK, Worker
    <3>2. w.eof => w.off + 1 >= S  BY <2>1, <1>3 DEF StageOK
    <3>3. part \in DOMAIN files' /\ Len(files'[part]) = w.off + 1  BY <2>3, <2>6, <2>7, <2>10
    <3>4. store'[k.id].bytes = (w.off + 1) - 1  BY <2>1, <2>3, <1>1, <1>9
    <3>5. StageOK(k, v, store'[k.id], files')  BY <3>1, <3>2, <3>3, <3>4 DEF StageOK
    <3> QED  BY <2>8, <3>5
  <2> QED  BY <2>8, <2>9, <2>10, <1>7
<1>17. CASE RecordChunk(k)
  <2>1. w.pc = "record" /\ UNCHANGED local  BY <1>17 DEF RecordChunk, At
  <2>a. PICK u : u = RecordProgress(t, w.off, w.total, FALSE, clock)  OBVIOUS
  <2>b. PICK next : next = IF w.eof THEN "size" ELSE "read"  OBVIOUS
  <2>2. \/ \E fault \in {"retryable", "cancelled"} : Faulty(k, "abort", fault)
        \/ Tell(k, CanRecordProgress(t, k.gen, w.off, w.total, clock), u, next)
    BY <1>17, <2>a, <2>b, Zenon DEF RecordChunk
  <2>3. \/ StageOK(k, v, store'[k.id], files')
        \/ Saved(k.id, u) /\ Goes(k, next)
    BY <2>2, <1>7, <1>8
  <2>4. CASE Saved(k.id, u) /\ Goes(k, next)
    <3>1. u.bytes = w.off /\ u.revision # t.revision
      <4>1. u = [t EXCEPT !.bytes = w.off, !.total = KnownTotal(t, w.total),
                          !.revision = t.revision + 1, !.updatedAt = clock]
        BY <2>a DEF RecordProgress
      <4> QED  BY <4>1, <1>1 DEF Task
    <3>2. store'[k.id].bytes = w.off  BY <2>4, <3>1, <1>1, SavedRow
    <3>3. next \in {"size", "read"} /\ (next = "size" => w.eof)  BY <2>b, Zenon
    <3>4. v.pc = next /\ v.off = w.off  BY <2>4, <3>3, <1>2, <1>6
    <3>5. part \in DOMAIN files /\ Len(files[part]) = w.off /\ (w.eof => w.off >= S)
      BY <2>1, <1>3 DEF StageOK
    <3>6. StageOK(k, v, store'[k.id], files')
      BY <2>1, <3>2, <3>3, <3>4, <3>5, <1>10 DEF StageOK
    <3> QED  BY <2>1, <3>6, <1>5, <1>10
  <2> QED  BY <2>1, <2>3, <2>4, <1>5, <1>10
<1>18. CASE CheckFinalSize(k)
  <2>1. w.pc = "size" /\ UNCHANGED local  BY <1>18 DEF CheckFinalSize, At
  <2>2. part \in DOMAIN files /\ Len(files[part]) = w.off /\ w.off >= S /\ r.bytes = w.off
    BY <2>1, <1>3 DEF StageOK
  <2>3. ASSUME Goes(k, "commit"), store'[k.id].bytes = w.off
        PROVE  StageOK(k, v, store'[k.id], files')
    <3>1. v.pc = "commit" /\ v.off = w.off  BY <2>3, <1>2, <1>6
    <3> QED  BY <2>1, <2>2, <2>3, <3>1, <1>10 DEF StageOK
  <2>4. \/ Faulty(k, "abort", "conflict")
        \/ Goes(k, "commit") /\ store' = store
        \/ \E same \in BOOLEAN :
             Tell(k, CanRecordProgress(t, k.gen, w.off, w.total, clock),
                  RecordProgress(t, w.off, w.total, same, clock), "commit")
    BY <1>18, Zenon DEF CheckFinalSize
  <2>5. ASSUME NEW same \in BOOLEAN,
               Tell(k, CanRecordProgress(t, k.gen, w.off, w.total, clock),
                    RecordProgress(t, w.off, w.total, same, clock), "commit")
        PROVE  StageOK(k, v, store'[k.id], files')
    <3> PICK u : u = RecordProgress(t, w.off, w.total, same, clock)  OBVIOUS
    <3>1. \/ StageOK(k, v, store'[k.id], files')
          \/ Saved(k.id, u) /\ Goes(k, "commit")
      BY <2>5, <1>8
    <3>2. u.bytes = w.off  BY <1>1, ProgressFacts
    <3>3. ASSUME Saved(k.id, u)  PROVE store'[k.id].bytes = w.off
      <4>1. store' = store \/ store' = Put(store, k.id, u)  BY <3>3, <1>1, SavedRow
      <4> QED  BY <4>1, <3>2, <2>2 DEF Put
    <3> QED  BY <3>1, <3>3, <2>3
  <2>6. StageOK(k, v, store'[k.id], files')  BY <2>2, <2>3, <2>4, <2>5, <1>7
  <2> QED  BY <2>1, <2>6, <1>5, <1>10
<1>19. CASE CommitWrite(k)
  <2> DEFINE h == HandleOf[k.id]
             final == <<h, staged[h].target>>
  <2>1. w.pc = "commit" /\ UNCHANGED vars  BY <1>19 DEF CommitWrite, At
  <2>2. \/ /\ \E fault \in {"retryable", "permanent", "conflict", "cancelled"} : Faulty(k, "abort", fault)
           /\ files' = files
        \/ /\ files' = Without(Put(files, final, files[part]), {part})
           /\ h \in DOMAIN staged /\ Goes(k, "complete")
    BY <1>19, Zenon DEF CommitWrite
  <2>3. CASE /\ files' = Without(Put(files, final, files[part]), {part})
             /\ h \in DOMAIN staged /\ Goes(k, "complete")
    <3>1. PICK name \in {"bound", "renamed"} : final = File(k.id, name)
      BY <2>3 DEF ExecBase, TargetsAreFinal, File
    <3>2. part \in DOMAIN files /\ Len(files[part]) = w.off /\ w.off >= S
      BY <2>1, <1>3 DEF StageOK
    <3>3. files[part] \in Seq({k.id}) /\ Len(files[part]) = S
      BY <3>2, <1>1, <1>3 DEF PartOK
    <3>4. files[part] = Whole(k.id)  BY <3>3, <1>1, FullIsWhole
    <3>5. final # part  BY <3>1, NamesDiffer
    <3>6. final \in DOMAIN files' /\ files'[final] = files[part]
      BY <2>3, <3>5 DEF Without, Put
    <3>7. Delivered(k.id, files')  BY <3>1, <3>4, <3>6 DEF Delivered
    <3>8. part \notin DOMAIN files'  BY <2>3 DEF Without
    <3>9. ASSUME NEW id \in TaskIds \ {k.id}, NEW n \in FileNames
          PROVE  /\ File(id, n) \in DOMAIN files' <=> File(id, n) \in DOMAIN files
                 /\ File(id, n) \in DOMAIN files => files'[File(id, n)] = files[File(id, n)]
      <4>1. File(id, n) # part /\ File(id, n) # final  BY <3>1, <1>1, OtherFiles
      <4> QED  BY <2>3, <4>1 DEF Without, Put
    <3>10. v.pc = "complete"  BY <2>3, <1>2, <1>6
    <3> QED  BY <3>7, <3>8, <3>9, <3>10, <2>1 DEF StageOK, PartOK, FilesMove, Held, InIO
  <2> QED  BY <2>2, <2>3, <1>5, <1>7
<1>20. CASE ReportComplete(k)
  <2>1. files' = files  BY <1>20 DEF ReportComplete
  <2>2. \/ \E fault \in {"retryable", "permanent", "cancelled"} : Faulty(k, "abort", fault)
        \/ Tell(k, CanComplete(t, k.gen, clock), Complete(t, clock), "disconnect")
    BY <1>20, Zenon DEF ReportComplete
  <2>3. \/ StageOK(k, v, store'[k.id], files') \/ Goes(k, "disconnect")  BY <2>2, <1>7, <1>8
  <2>4. StageOK(k, v, store'[k.id], files')  BY <2>3, <1>2, <1>6, SettledStage
  <2> QED  BY <2>1, <2>4, <1>5
<1>21. CASE AbortWrite(k)
  <2>1. w.pc = "abort" /\ Goes(k, "disconnect")  BY <1>21 DEF AbortWrite, At
  <2>2. StageOK(k, v, store'[k.id], files')  BY <2>1, <1>2, <1>6, SettledStage
  <2>3. files' = files \/ files' = Without(files, {part})  BY <1>21, Zenon DEF AbortWrite
  <2>4. CASE files' = Without(files, {part})
    <3>1. part \notin DOMAIN files'  BY <2>4 DEF Without
    <3>2. ASSUME NEW id \in TaskIds \ {k.id}, NEW n \in FileNames
          PROVE  /\ File(id, n) \in DOMAIN files' <=> File(id, n) \in DOMAIN files
                 /\ File(id, n) \in DOMAIN files => files'[File(id, n)] = files[File(id, n)]
      <4>1. File(id, n) # part  BY <1>1, OtherFiles
      <4> QED  BY <2>4, <4>1 DEF Without
    <3> QED  BY <3>1, <3>2, <2>1, <2>2 DEF PartOK, FilesMove, Held
  <2> QED  BY <2>2, <2>3, <2>4, <1>5
<1>22. CASE Disconnect(k)
  <2>1. UNCHANGED local  BY <1>22 DEF Disconnect
  <2>2. \/ Goes(k, "persist") \/ Goes(k, "unregister")
        \/ \E fault \in {"retryable", "permanent"} : Faulty(k, "persist", fault)
    BY <1>22, Zenon DEF Disconnect
  <2>3. StageOK(k, v, store'[k.id], files')  BY <2>2, <1>2, <1>6, <1>7, SettledStage
  <2> QED  BY <2>1, <2>3, <1>5, <1>10
<1>23. ASSUME NEW can, NEW u, NEW next \in {"unregister", "reschedule"}, Settle(k, can, u, next)
       PROVE  StageOK(k, v, store'[k.id], files')
  <2>1. Goes(k, next) \/ Errs(k)  BY <1>23, Zenon DEF Settle
  <2>2. v.pc \in {"unregister", "reschedule"}  BY <2>1, <1>1, <1>2, <1>6, ErrsFacts
  <2> QED  BY <2>2, SettledStage
<1>24. CASE PersistFailure(k)
  <2>1. UNCHANGED local  BY <1>24 DEF PersistFailure
  <2>2. \E can, u, next : next \in {"unregister", "reschedule"} /\ Settle(k, can, u, next)
    BY <1>24, Zenon DEF PersistFailure
  <2> QED  BY <2>1, <2>2, <1>5, <1>10, <1>23
<1>25. CASE PersistRetry(k)
  <2>1. UNCHANGED local  BY <1>25 DEF PersistRetry
  <2>2. Goes(k, "unregister") \/ \E can, u : Settle(k, can, u, "unregister")
    BY <1>25, Zenon DEF PersistRetry
  <2>3. StageOK(k, v, store'[k.id], files')  BY <2>2, <1>2, <1>6, <1>23, SettledStage
  <2> QED  BY <2>1, <2>3, <1>5, <1>10
<1>26. CASE Unregister(k)
  <2>1. UNCHANGED local /\ Goes(k, "done")  BY <1>26 DEF Unregister
  <2>2. StageOK(k, v, store'[k.id], files')  BY <2>1, <1>2, <1>6, SettledStage
  <2> QED  BY <2>1, <2>2, <1>5, <1>10
<1> QED
  BY <1>11, <1>12, <1>13, <1>14, <1>15, <1>16, <1>17, <1>18, <1>19, <1>20, <1>21, <1>22, <1>24,
     <1>25, <1>26 DEF WorkerStep

\* Only the worker that has renamed its file completes a task.
LEMMA WorkerCompletes ==
  ASSUME ExecBase, NEW k \in DOMAIN workers, WorkerStep(k),
         store[k.id].state # "Completed", store'[k.id].state = "Completed"
  PROVE  workers[k].pc = "complete" /\ files' = files
<1> DEFINE w == workers[k]
           r == store[k.id]
           t == tasks[k.id]
<1>1. /\ r \in Task /\ t = r /\ Open(k.id)
  BY WorkerFacts
<1>2. store' # store  OBVIOUS
<1>3. ASSUME NEW can, NEW u, u.state # "Completed", NEW next,
             Tell(k, can, u, next) \/ Settle(k, can, u, next)
      PROVE  FALSE
  <2>1. Mutate(k.id, u) \/ UNCHANGED <<tasks, store>>  BY <1>3, TellIsMutate
  <2>2. store' = Put(store, k.id, u)  BY <2>1, <1>2 DEF Mutate, CompareAndSwap
  <2> QED  BY <2>2, <1>3 DEF Put
<1>4. ASSUME NEW same, NEW next,
             Tell(k, CanRecordProgress(t, k.gen, w.off, w.total, clock),
                  RecordProgress(t, w.off, w.total, same, clock), next)
      PROVE  FALSE
  <2> PICK u : u = RecordProgress(t, w.off, w.total, same, clock)  OBVIOUS
  <2>1. u.state # "Completed"  BY <1>1, ProgressFacts
  <2> QED  BY <2>1, <1>3, <1>4
<1>5. ~(Register(k) \/ HeedCancel(k) \/ Connect(k) \/ BeginWrite(k) \/ ReadChunk(k)
        \/ WriteChunk(k) \/ CommitWrite(k) \/ AbortWrite(k) \/ Disconnect(k) \/ Unregister(k))
  <2>1. ~UNCHANGED vars  BY <1>2 DEF vars
  <2> QED  BY <2>1, Zenon DEF Register, HeedCancel, Connect, BeginWrite, ReadChunk, WriteChunk,
              CommitWrite, AbortWrite, Disconnect, Unregister
<1>6. ~RecordChunk(k)
  <2>1. RecordChunk(k) =>
          \/ UNCHANGED <<tasks, store>>
          \/ Tell(k, CanRecordProgress(t, k.gen, w.off, w.total, clock),
                  RecordProgress(t, w.off, w.total, FALSE, clock), IF w.eof THEN "size" ELSE "read")
    BY Zenon DEF RecordChunk
  <2> QED  BY <2>1, <1>2, <1>4
<1>7. ~CheckFinalSize(k)
  <2>1. CheckFinalSize(k) =>
          \/ UNCHANGED <<tasks, store>>
          \/ \E same \in BOOLEAN :
               Tell(k, CanRecordProgress(t, k.gen, w.off, w.total, clock),
                    RecordProgress(t, w.off, w.total, same, clock), "commit")
    BY Zenon DEF CheckFinalSize
  <2> QED  BY <2>1, <1>2, <1>4
<1>8. ~PersistFailure(k)
  <2>1. PersistFailure(k) =>
          \/ \E next : Settle(k, CanConfirmCancelled(t, k.gen, t.bytes, clock),
                              ConfirmCancelled(t, t.bytes, clock), next)
          \/ \E next : Settle(k, CanEnterConflict(t, k.gen, t.bytes, clock),
                              EnterConflict(t, t.bytes, clock), next)
          \/ \E next : Settle(k, CanFail(t, k.gen, clock), Fail(t, w.fault, clock), next)
    BY Zenon DEF PersistFailure
  <2>2. ConfirmCancelled(t, t.bytes, clock).state # "Completed"  BY <1>1, ConfirmCancelledFacts
  <2>3. EnterConflict(t, t.bytes, clock).state # "Completed"  BY <1>1, ConflictFacts
  <2>4. Fail(t, w.fault, clock).state # "Completed"  BY <1>1, FailFacts
  <2> QED  BY <2>1, <2>2, <2>3, <2>4, <1>3
<1>9. ~PersistRetry(k)
  <2>1. PersistRetry(k) =>
          \/ UNCHANGED <<tasks, store>>
          \/ Settle(k, CanScheduleRetry(k.id, t, clock), ScheduleRetry(t, clock), "unregister")
    BY Zenon DEF PersistRetry
  <2>2. ScheduleRetry(t, clock).state # "Completed"  BY <1>1, RetryFacts
  <2> QED  BY <2>1, <2>2, <1>2, <1>3
<1>10. ReportComplete(k)  BY <1>5, <1>6, <1>7, <1>8, <1>9 DEF WorkerStep
<1> QED  BY <1>10 DEF ReportComplete, At

\* A worker whose place in the files matters holds the run of its task.
LEMMA StagersHold ==
  ASSUME ExecBase, RunsInv, NEW k \in DOMAIN workers
  PROVE  \/ \A t, f : StageOK(k, workers[k], t, f)
         \/ k.gen = store[k.id].generation
<1>1. workers[k].pc \in Steps  BY DEF ExecBase, ExecTypeOK, Worker
<1>2. CASE workers[k].pc \in Held  BY <1>2 DEF RunsInv, RunOK
<1>3. CASE workers[k].pc \notin Held
  <2>1. workers[k].pc \in {"abort", "disconnect", "persist", "reschedule", "unregister", "done"}
    BY <1>1, <1>3 DEF Held, InIO, Steps, Awaits
  <2> QED  BY <2>1, SettledStage
<1> QED  BY <1>2, <1>3

LEMMA StageAfterWorker ==
  ASSUME OwnHandles, ExecBase, RunsInv, StageInv, [Next]_vars, NEW k \in DOMAIN workers, WorkerStep(k)
  PROVE  StageInv'
<1>1. /\ OnlyWorker(k) /\ UNCHANGED <<phase, issued>>  BY WorkerStepMoves DEF WorkerMoves
<1>2. /\ StageOK(k, workers'[k], store'[k.id], files') /\ FilesMove(k) /\ PartOK(k.id, files')
  BY WorkerStepStage
<1>3. RowMoves(k.id, k.gen = store[k.id].generation)  BY WorkerStepRun DEF RunsInv
<1>4. /\ phase = "open" /\ k \in issued /\ k.id \in TaskIds /\ k.id \in DOMAIN store
      /\ k = [id |-> k.id, gen |-> k.gen]
  BY WorkerFacts
<1>5. DOMAIN workers' = DOMAIN workers /\ \A j \in DOMAIN workers : j # k => workers'[j] = workers[j]
  BY <1>1 DEF OnlyWorker
<1>6. {"part", "bound", "renamed"} = FileNames  BY DEF FileNames
<1>7. ASSUME NEW id \in TaskIds \ {k.id}
      PROVE  /\ PartOK(id, files) => PartOK(id, files')
             /\ Delivered(id, files) => Delivered(id, files')
  BY <1>2, <1>6, <1>7 DEF FilesMove, PartOK, Delivered
<1>8. \A id \in TaskIds : PartOK(id, files')  BY <1>2, <1>7 DEF StageInv
<1>9. ASSUME NEW j \in DOMAIN workers, j # k  PROVE StageOK(j, workers'[j], store'[j.id], files')
  <2>1. j \in issued /\ j = [id |-> j.id, gen |-> j.gen] /\ j.id \in TaskIds  BY WorkerFacts
  <2>2. CASE \A t, f : StageOK(j, workers[j], t, f)  BY <2>2, <1>5, <1>9
  <2>3. CASE j.gen = store[j.id].generation
    <3>1. PICK mine \in BOOLEAN : mine <=> k.gen = store[k.id].generation  BY Zenon
    <3>2. RowMoves(k.id, mine)  BY <1>3, <3>1 DEF RowMoves
    <3>3. mine => j.id # k.id \/ j.gen # store[k.id].generation  BY <2>1, <3>1, <1>4, <1>9
    <3>4. store'[j.id].bytes = store[j.id].bytes
      BY <1>1, <1>4, <2>1, <2>3, <3>2, <3>3, OthersKeepRuns
    <3>5. StageOK(j, workers[j], store[j.id], files)  BY DEF StageInv
    <3>6. CASE files' = files  BY <3>4, <3>5, <3>6, <1>5, <1>9 DEF StageOK
    <3>7. CASE files' # files
      <4>1. k.gen = store[k.id].generation  BY <3>7, <1>2 DEF FilesMove, RunsInv, RunOK
      <4>2. j.id # k.id  BY <4>1, <2>1, <2>3, <1>4, <1>9
      <4>3. /\ File(j.id, "part") \in DOMAIN files' <=> File(j.id, "part") \in DOMAIN files
            /\ File(j.id, "part") \in DOMAIN files =>
                 files'[File(j.id, "part")] = files[File(j.id, "part")]
        BY <4>2, <3>7, <2>1, <1>2, <1>6 DEF FilesMove
      <4>4. Delivered(j.id, files) => Delivered(j.id, files')  BY <4>2, <2>1, <1>7
      <4> QED  BY <3>4, <3>5, <4>3, <4>4, <1>5, <1>9 DEF StageOK
    <3> QED  BY <3>6, <3>7
  <2> QED  BY <2>2, <2>3, StagersHold
<1>10. ASSUME NEW id \in DOMAIN store', store'[id].state = "Completed"  PROVE Delivered(id, files')
  <2>1. id \in DOMAIN store /\ id \in TaskIds
    <3>1. DOMAIN store' = DOMAIN store  BY <1>3, <1>4 DEF RowMoves, Put
    <3> QED  BY <1>10, <3>1 DEF ExecBase, IInv, TypeOK
  <2>2. CASE id # k.id
    <3>1. store'[id] = store[id]  BY <1>3, <2>1, <2>2 DEF RowMoves, Put
    <3>2. Delivered(id, files)
      BY <3>1, <2>1, <1>10 DEF StageInv, CompletedIsDelivered, Delivered
    <3> QED  BY <3>2, <2>1, <2>2, <1>7
  <2>3. CASE id = k.id /\ store[id].state = "Completed"
    <3>1. ~IsActive(store[k.id])  BY <2>3 DEF IsActive, ActiveKinds
    <3>2. k.gen # store[k.id].generation
      BY <3>1, <1>4 DEF ExecBase, IInv, TokenDiscipline, Honoured
    <3>3. files' = files  BY <3>2, <1>2 DEF FilesMove, RunsInv, RunOK
    <3>4. Delivered(id, files)
      BY <2>1, <2>3 DEF StageInv, CompletedIsDelivered, Delivered
    <3> QED  BY <3>3, <3>4
  <2>4. CASE id = k.id /\ store[id].state # "Completed"
    <3>1. workers[k].pc = "complete" /\ files' = files  BY <2>4, <1>10, WorkerCompletes
    <3>2. Delivered(id, files)  BY <3>1, <2>4 DEF StageInv, StageOK
    <3> QED  BY <3>1, <3>2
  <2> QED  BY <2>2, <2>3, <2>4
<1>11. CompletedIsDelivered'  BY <1>10 DEF CompletedIsDelivered, Delivered
<1>12. \A j \in DOMAIN workers' : StageOK(j, workers'[j], store'[j.id], files')
  BY <1>2, <1>5, <1>9
<1> QED  BY <1>8, <1>11, <1>12 DEF StageInv

\* A step that moves no worker and no file, and completes nothing.
LEMMA StageAfterOther ==
  ASSUME ExecBase, RunsInv, StageInv, [Next]_vars, phase = "open", phase' = "open",
         NEW id, RowMoves(id, FALSE), files' = files, DOMAIN workers' \subseteq DOMAIN workers,
         \A j \in DOMAIN workers' : /\ workers'[j].pc = workers[j].pc
                                    /\ workers'[j].base = workers[j].base
                                    /\ workers'[j].off = workers[j].off
                                    /\ workers'[j].eof = workers[j].eof,
         \A x \in DOMAIN store' : store'[x].state = "Completed" =>
                                    x \in DOMAIN store /\ store[x].state = "Completed"
  PROVE  StageInv'
<1>1. ASSUME NEW j \in DOMAIN workers'  PROVE StageOK(j, workers'[j], store'[j.id], files')
  <2>1. j \in issued  BY WorkerFacts
  <2>2. CASE \A t, f : StageOK(j, workers[j], t, f)
    <3>1. StageOK(j, workers[j], store'[j.id], files')  BY <2>2
    <3> QED  BY <3>1 DEF StageOK
  <2>3. CASE j.gen = store[j.id].generation
    <3>1. store'[j.id].bytes = store[j.id].bytes  BY <2>1, <2>3, OthersKeepRuns
    <3>2. StageOK(j, workers[j], store[j.id], files)  BY DEF StageInv
    <3> QED  BY <3>1, <3>2 DEF StageOK
  <2> QED  BY <2>2, <2>3, StagersHold
<1>2. CompletedIsDelivered'  BY DEF StageInv, CompletedIsDelivered
<1> QED  BY <1>1, <1>2 DEF StageInv

LEMMA StageAfterStart ==
  ASSUME ExecBase, RunsInv, StageInv, [Next]_vars, NEW id \in TaskIds, StartWorker(id)
  PROVE  StageInv'
<1> USE StartWorkerFacts
<1>1. phase = "open" /\ phase' = "open" /\ files' = files  OBVIOUS
<1>2. CASE UNCHANGED <<store, workers>>
  BY <1>1, <1>2 DEF StageInv, CompletedIsDelivered
<1>3. ASSUME NEW t \in Task, NEW k, k = [id |-> id, gen |-> t.generation],
             store' = Put(store, id, t), t.state = "Running",
             workers' = Put(workers, k, NewWorker(t))
      PROVE  StageInv'
  <2>1. RowMoves(id, FALSE)  BY <1>3 DEF RowMoves
  <2>2. /\ DOMAIN workers' = DOMAIN workers \cup {k} /\ workers'[k] = NewWorker(t)
        /\ \A j \in DOMAIN workers : j # k => workers'[j] = workers[j]
    BY <1>3 DEF Put
  <2>3. StageOK(k, workers'[k], store'[k.id], files')
    <3>1. store'[k.id] = t  BY <1>3 DEF Put
    <3>2. workers'[k].pc = "spawned" /\ workers'[k].base = t.bytes  BY <2>2 DEF NewWorker
    <3> QED  BY <3>1, <3>2 DEF StageOK
  <2>4. ASSUME NEW j \in DOMAIN workers, j # k  PROVE StageOK(j, workers'[j], store'[j.id], files')
    <3>1. CASE \A u, f : StageOK(j, workers[j], u, f)  BY <3>1, <2>2, <2>4
    <3>2. CASE j.gen = store[j.id].generation
      <4>1. store'[j.id].bytes = store[j.id].bytes
        BY <1>1, <2>1, <3>2, WorkerFacts, OthersKeepRuns
      <4>2. StageOK(j, workers[j], store[j.id], files)  BY DEF StageInv
      <4> QED  BY <4>1, <4>2, <2>2, <2>4, <1>1 DEF StageOK
    <3> QED  BY <3>1, <3>2, StagersHold
  <2>5. ASSUME NEW x \in DOMAIN store', store'[x].state = "Completed"
        PROVE  x \in DOMAIN store /\ store[x].state = "Completed"
    BY <1>3, <2>5 DEF Put
  <2>6. CompletedIsDelivered'  BY <1>1, <2>5 DEF StageInv, CompletedIsDelivered
  <2>7. \A x \in TaskIds : PartOK(x, files')  BY <1>1 DEF StageInv
  <2> QED  BY <2>2, <2>3, <2>4, <2>6, <2>7 DEF StageInv
<1> QED  BY <1>2, <1>3

LEMMA NextStage ==
  ASSUME OwnHandles, ExecBase, RunsInv, StageInv, [ExecNext]_execVars
  PROVE  StageInv'
<1>1. [Next]_vars  BY ExecStepIsQueueStep
<1>2. ASSUME UNCHANGED <<store, workers, files>>  PROVE StageInv'
  BY <1>2 DEF StageInv, CompletedIsDelivered
<1>3. ASSUME NEW id, phase = "open", UNCHANGED <<phase, workers, files>>, RowMoves(id, FALSE),
             \A x \in DOMAIN store' : store'[x].state = "Completed" =>
                                        x \in DOMAIN store /\ store[x].state = "Completed"
      PROVE  StageInv'
  BY <1>1, <1>3, StageAfterOther
<1>4. ASSUME UNCHANGED <<vars, files>>, DOMAIN workers' \subseteq DOMAIN workers,
             \A j \in DOMAIN workers' : /\ workers'[j].pc = workers[j].pc
                                        /\ workers'[j].base = workers[j].base
                                        /\ workers'[j].off = workers[j].off
                                        /\ workers'[j].eof = workers[j].eof
      PROVE  StageInv'
  <2>1. store' = store  BY <1>4 DEF vars
  <2>2. ASSUME NEW j \in DOMAIN workers'  PROVE StageOK(j, workers'[j], store'[j.id], files')
    <3>1. StageOK(j, workers[j], store[j.id], files)  BY <1>4 DEF StageInv
    <3> QED  BY <3>1, <2>1, <1>4 DEF StageOK
  <2> QED  BY <2>1, <2>2, <1>4 DEF StageInv, CompletedIsDelivered
<1>5. ASSUME NEW ids, CancelControls(ids), UNCHANGED <<vars, files>>  PROVE StageInv'
  <2>1. /\ DOMAIN workers' = DOMAIN workers
        /\ \A j \in DOMAIN workers : /\ workers'[j].pc = workers[j].pc
                                     /\ workers'[j].base = workers[j].base
                                     /\ workers'[j].off = workers[j].off
                                     /\ workers'[j].eof = workers[j].eof
    BY <1>5, CancelControlsFacts DEF ExecBase
  <2> QED  BY <2>1, <1>4, <1>5
<1>6. ASSUME NEW k, workers' = Without(workers, {k}), UNCHANGED <<vars, files>>  PROVE StageInv'
  <2>1. DOMAIN workers' \subseteq DOMAIN workers /\ \A j \in DOMAIN workers' : workers'[j] = workers[j]
    BY <1>6 DEF Without
  <2> QED  BY <2>1, <1>4, <1>6
\* A command or a mark.
<1>7. ASSUME NEW id, phase = "open", UNCHANGED <<phase, workers, files>>, Open(id), NEW t,
             Saved(id, t) \/ UNCHANGED store, IsActive(tasks[id]) => RunGoesOn(tasks[id], t),
             t.state = "Completed" => tasks[id].state = "Completed"
      PROVE  StageInv'
  <2>1. tasks[id] = store[id] /\ id \in DOMAIN store  BY <1>7, TaskFacts
  <2>2. store' = store \/ store' = Put(store, id, t)  BY <1>7, SavedRow
  <2>3. RowMoves(id, FALSE)  BY <2>1, <2>2, <1>7 DEF RowMoves, RunGoesOn
  <2>4. \A x \in DOMAIN store' : store'[x].state = "Completed" =>
                                   x \in DOMAIN store /\ store[x].state = "Completed"
    BY <2>1, <2>2, <1>7 DEF Put
  <2> QED  BY <2>3, <2>4, <1>3, <1>7
<1>8. CASE UNCHANGED execVars
  BY <1>8, <1>2 DEF execVars, vars, local
<1>9. ASSUME NEW id \in TaskIds, Client(id)  PROVE StageInv'
  <2>1. phase = "open" /\ UNCHANGED <<phase, workers, files>>
    BY <1>9 DEF Client, EnqueuePublic, Enqueue, ResolvePublic, RetryPublic, CancelPublic, Open, local
  <2>2. ASSUME NEW policy \in OfferedPolicies, EnqueuePublic(id, policy)  PROVE StageInv'
    <3> PICK t : t = NewTask(id, policy, clock)  OBVIOUS
    <3>1. store' = Put(store, id, t) /\ id \notin DOMAIN store  BY <2>2 DEF EnqueuePublic, Enqueue
    <3>2. t.state = "Queued"  BY DEF NewTask
    <3>3. RowMoves(id, FALSE)  BY <3>1 DEF RowMoves
    <3>4. \A x \in DOMAIN store' : store'[x].state = "Completed" =>
                                     x \in DOMAIN store /\ store[x].state = "Completed"
      BY <3>1, <3>2 DEF Put
    <3> QED  BY <2>1, <3>3, <3>4, <1>3
  <2>3. ASSUME NEW policy \in OfferedPolicies, ResolvePublic(id, policy)  PROVE StageInv'
    <3> PICK t : t = ResolveConflict(tasks[id], policy, clock)  OBVIOUS
    <3>1. Open(id) /\ Saved(id, t) /\ ~IsActive(tasks[id])
      BY <2>3 DEF ResolvePublic, CanResolveConflict, IsActive, ActiveKinds
    <3>2. t.state # "Completed"  BY <3>1, TaskFacts, ResolveFacts
    <3> QED  BY <2>1, <3>1, <3>2, <1>7
  <2>4. CASE CancelPublic(id)
    <3> PICK t : t = RequestCancel(tasks[id], clock)  OBVIOUS
    <3>1. Open(id) /\ Saved(id, t) /\ tasks[id].state # "Completed"
      BY <2>4 DEF CancelPublic, CanRequestCancel
    <3>2. /\ IsActive(tasks[id]) => RunGoesOn(tasks[id], t)
          /\ t.state # "Completed"
      BY <3>1, TaskFacts, CancelFacts DEF IsActive
    <3> QED  BY <2>1, <3>1, <3>2, <1>7
  <2>5. CASE RetryPublic(id)
    <3> PICK t : t = ScheduleRetry(tasks[id], clock)  OBVIOUS
    <3>1. Open(id) /\ Saved(id, t) /\ ~IsActive(tasks[id])
      BY <2>5 DEF RetryPublic, CanScheduleRetry, IsActive, ActiveKinds
    <3>2. t.state # "Completed"  BY <3>1, TaskFacts, RetryFacts
    <3> QED  BY <2>1, <3>1, <3>2, <1>7
  <2> QED  BY <1>9, <2>2, <2>3, <2>4, <2>5, Zenon DEF Client
<1>10. ASSUME NEW id \in TaskIds, CancelControl(id)  PROVE StageInv'
  BY <1>10, <1>5 DEF CancelControl, local
<1>11. CASE Runner
  <2>1. ASSUME NEW id \in TaskIds, StartWorker(id)  PROVE StageInv'
    BY <2>1, <1>1, StageAfterStart
  <2>2. ASSUME NEW id \in TaskIds, StartRefused(id)  PROVE StageInv'
    BY <2>2, <1>2 DEF StartRefused, vars, local
  <2>3. ASSUME NEW k \in DOMAIN workers, Join(k)  PROVE StageInv'
    BY <2>3, <1>6 DEF Join, local
  <2>4. CASE StopFilling \/ Wake
    BY <2>4, <1>2 DEF StopFilling, Wake, vars, local
  <2> QED  BY <1>11, <2>1, <2>2, <2>3, <2>4, Zenon DEF Runner
<1>12. ASSUME NEW k \in DOMAIN workers, WorkerStep(k)  PROVE StageInv'
  BY <1>12, <1>1, StageAfterWorker
<1>13. ASSUME NEW k \in DOMAIN workers, Vanish(k)  PROVE StageInv'
  BY <1>13, <1>6 DEF Vanish, local
<1>14. CASE Shutdown
  <2>1. CASE ShutdownControls
    BY <2>1, <1>5 DEF ShutdownControls, local
  <2>2. CASE ShutdownPermits \/ ShutdownLock \/ ShutdownSignal \/ ShutdownTimeout
    BY <2>2, <1>2 DEF ShutdownPermits, ShutdownLock, ShutdownSignal, ShutdownTimeout, vars, local
  <2>3. ASSUME NEW id \in marking, ShutdownMark(id)  PROVE StageInv'
    <3>1. Open(id) /\ phase = "open" /\ UNCHANGED <<phase, workers, files>>
      BY <2>3 DEF ShutdownMark, ExecBase, ExecTypeOK, Opened, Open, local
    <3> PICK t : t = IF IsActive(tasks[id]) THEN RequestCancel(tasks[id], clock) ELSE tasks[id]
      OBVIOUS
    <3>2. Saved(id, t) \/ UNCHANGED store  BY <2>3, Zenon DEF ShutdownMark, Lost
    <3>3. /\ IsActive(tasks[id]) => RunGoesOn(tasks[id], t)
          /\ t.state = "Completed" => tasks[id].state = "Completed"
      <4> PICK u : u = RequestCancel(tasks[id], clock)  OBVIOUS
      <4>1. IsActive(tasks[id]) => RunGoesOn(tasks[id], u) /\ u.state = "Cancelling"
        BY <3>1, TaskFacts, CancelFacts DEF IsActive
      <4> QED  BY <4>1
    <3> QED  BY <3>1, <3>2, <3>3, <1>7
  <2> QED  BY <1>14, <2>1, <2>2, <2>3, Zenon DEF Shutdown
<1>15. CASE ExecOpen
  <2>1. phase # "open" /\ UNCHANGED <<workers, files>>
    BY <1>15 DEF ExecOpen, OpenBegin, RecoverOne, OpenFails, OpenDone, local
  <2>2. DOMAIN workers = {}  BY <2>1 DEF ExecBase, Opened
  <2>3. \A x \in DOMAIN store' : store'[x].state = "Completed" =>
                                   x \in DOMAIN store /\ store[x].state = "Completed"
    <3>1. CASE store' = store  BY <3>1
    <3>2. ASSUME NEW id \in TaskIds, RecoverOne(id)
          PROVE  \A x \in DOMAIN store' : store'[x].state = "Completed" =>
                                   x \in DOMAIN store /\ store[x].state = "Completed"
      <4> PICK t : t = Recover(store[id], clock)  OBVIOUS
      <4>1. id \in DOMAIN store /\ store[id] \in Task
        BY <3>2 DEF RecoverOne, Unrecovered, ExecBase, IInv, TypeOK
      <4>2. store' = store \/ store' = Put(store, id, t)
        BY <3>2, Zenon DEF RecoverOne, CompareAndSwap
      <4>3. t.state = "Completed" => store[id].state = "Completed"  BY <4>1, RecoverFacts
      <4> QED  BY <4>1, <4>2, <4>3 DEF Put
    <3> QED  BY <1>15, <3>1, <3>2 DEF ExecOpen, OpenBegin, OpenFails, OpenDone
  <2> QED  BY <2>1, <2>2, <2>3 DEF StageInv, CompletedIsDelivered
<1>16. CASE ExecCrash
  <2>1. DOMAIN workers' = {} /\ UNCHANGED <<store, files>>
    BY <1>16 DEF ExecCrash, Crash, Empty
  <2> QED  BY <2>1 DEF StageInv, CompletedIsDelivered
<1>17. CASE ExecTick
  BY <1>17, <1>2 DEF ExecTick, Tick, local
<1>18. ASSUME NEW h \in Handles, Bind(h)  PROVE StageInv'
  BY <1>18, <1>2 DEF Bind, vars
<1>19. ASSUME NEW h \in Handles, Outsider(h)  PROVE StageInv'
  <2>1. /\ files' = Put(files, <<h, "bound">>, Foreign) /\ <<h, "bound">> \notin DOMAIN files
        /\ UNCHANGED <<store, workers>>
    BY <1>19 DEF Outsider, vars
  <2>2. \A x \in DOMAIN files : x \in DOMAIN files' /\ files'[x] = files[x]  BY <2>1 DEF Put
  <2>3. ASSUME NEW id, File(id, "part") \in DOMAIN files'
        PROVE  File(id, "part") \in DOMAIN files
    BY <2>1, <2>3 DEF Put, File
  <2>4. ASSUME NEW id, Delivered(id, files)  PROVE Delivered(id, files')
    BY <2>2, <2>4 DEF Delivered
  <2>5. ASSUME NEW id \in TaskIds  PROVE PartOK(id, files')
    BY <2>2, <2>3 DEF StageInv, PartOK
  <2>6. ASSUME NEW j \in DOMAIN workers'  PROVE StageOK(j, workers'[j], store'[j.id], files')
    <3>1. StageOK(j, workers[j], store[j.id], files)  BY <2>1 DEF StageInv
    <3> QED  BY <3>1, <2>1, <2>2, <2>4 DEF StageOK
  <2>7. CompletedIsDelivered'
    BY <2>1, <2>2 DEF StageInv, CompletedIsDelivered
  <2> QED  BY <2>5, <2>6, <2>7 DEF StageInv
<1> QED
  BY <1>8, <1>9, <1>10, <1>11, <1>12, <1>13, <1>14, <1>15, <1>16, <1>17, <1>18, <1>19, Zenon
  DEF ExecNext

\* What a run says of itself is true: it has a worker, its recorded bytes are
\* staged, and completed means delivered whole, through every retry, resume,
\* conflict, failed write, shutdown and crash, provided that no two tasks have
\* the same destination (execute_started, download_started,
\* commit_staged_write).
THEOREM RunsStayHonest ==
  ASSUME OwnHandles
  PROVE  ExecSpec => []RunsAreHonest
<1>1. ExecInit => StageInv
  BY DEF ExecInit, Init, StageInv, CompletedIsDelivered, PartOK, Empty
<1>2. ExecBase /\ RunsInv /\ StageInv /\ [ExecNext]_execVars => StageInv'  BY NextStage
<1>3. ExecBase /\ RunsInv /\ StageInv => RunsAreHonest
  <2> SUFFICES ASSUME ExecBase, RunsInv, StageInv  PROVE RunsAreHonest  OBVIOUS
  <2>1. ASSUME NEW k \in DOMAIN workers,
               workers[k].pc \in {"read", "write", "record", "size", "commit"}
        PROVE  /\ File(k.id, "part") \in DOMAIN files
               /\ Len(files[File(k.id, "part")]) = workers[k].off
               /\ store[k.id].bytes \in {workers[k].off - 1, workers[k].off}
    BY <2>1 DEF StageInv, StageOK
  <2>2. ProgressIsStaged  BY <2>1 DEF ProgressIsStaged
  <2> QED  BY <2>2, RunsAreMatched DEF RunsAreHonest, ExecBase, StageInv
<1> QED  BY <1>1, <1>2, <1>3, BaseAlways, RunsAlways, PTL DEF ExecSpec

-----------------------------------------------------------------------------
(* Part 4: what goes wrong in a run, and who hears of a cancel. *)

\* What a worker may make of the row of its task.
WorkerTurn(t, u) ==
  /\ u = t \/ u.updatedAt = clock
  /\ u.state = "Pausing" => t.state = "Pausing"
  /\ u.state = "Cancelling" => t.state = "Cancelling"
  /\ t.state = "Cancelling" => u = t \/ u.state = "Cancelled"
  /\ u.policy = t.policy
  /\ u.state = "Queued" => u = t

LEMMA MutationTurns ==
  ASSUME NEW t \in Task, NEW gen, NEW u,
         \/ \E bytes, total, same : /\ CanRecordProgress(t, gen, bytes, total, clock)
                                    /\ u = RecordProgress(t, bytes, total, same, clock)
         \/ u = Complete(t, clock) /\ CanComplete(t, gen, clock)
         \/ \E checkpoint : u = ConfirmCancelled(t, checkpoint, clock)
         \/ \E checkpoint : u = EnterConflict(t, checkpoint, clock) /\ CanFail(t, gen, clock)
         \/ \E failure : u = Fail(t, failure, clock) /\ CanFail(t, gen, clock)
         \/ \E id : u = ScheduleRetry(t, clock) /\ CanScheduleRetry(id, t, clock)
  PROVE  WorkerTurn(t, u)
<1>1. ASSUME NEW bytes, NEW total, NEW same, CanRecordProgress(t, gen, bytes, total, clock),
             u = RecordProgress(t, bytes, total, same, clock)
      PROVE  WorkerTurn(t, u)
  <2>1. CASE same /\ bytes = t.bytes /\ KnownTotal(t, total) = t.total
    BY <1>1, <2>1 DEF RecordProgress, WorkerTurn
  <2>2. CASE ~(same /\ bytes = t.bytes /\ KnownTotal(t, total) = t.total)
    <3>1. u = [t EXCEPT !.bytes = bytes, !.total = KnownTotal(t, total),
                        !.revision = t.revision + 1, !.updatedAt = clock]
      BY <1>1, <2>2 DEF RecordProgress
    <3>2. u.state = t.state /\ u.updatedAt = clock /\ u.policy = t.policy  BY <3>1 DEF Task
    <3>3. t.state \in {"Running", "Pausing"}  BY <1>1 DEF CanRecordProgress
    <3> QED  BY <3>2, <3>3 DEF WorkerTurn
  <2> QED  BY <2>1, <2>2
<1>2. ASSUME u.state \in {"Completed", "Conflict", "Failed"}, u.updatedAt = clock,
             u.policy = t.policy, t.state # "Cancelling"
      PROVE  WorkerTurn(t, u)
  BY <1>2 DEF WorkerTurn
<1>3. CASE u = Complete(t, clock) /\ CanComplete(t, gen, clock)
  <2>1. u.state = "Completed" /\ u.updatedAt = clock /\ u.policy = t.policy
    BY <1>3 DEF Complete, EndRun, Enter, Task
  <2> QED  BY <1>2, <1>3, <2>1 DEF CanComplete
<1>4. ASSUME NEW checkpoint, u = ConfirmCancelled(t, checkpoint, clock)  PROVE WorkerTurn(t, u)
  <2>1. u.state = "Cancelled" /\ u.updatedAt = clock /\ u.policy = t.policy
    BY <1>4 DEF ConfirmCancelled, EndRun, Enter, Task
  <2> QED  BY <2>1 DEF WorkerTurn
<1>5. ASSUME NEW checkpoint, u = EnterConflict(t, checkpoint, clock), CanFail(t, gen, clock)
      PROVE  WorkerTurn(t, u)
  <2>1. u.state = "Conflict" /\ u.updatedAt = clock /\ u.policy = t.policy
    BY <1>5 DEF EnterConflict, EndRun, Enter, Task
  <2> QED  BY <1>2, <1>5, <2>1 DEF CanFail
<1>6. ASSUME NEW failure, u = Fail(t, failure, clock), CanFail(t, gen, clock)
      PROVE  WorkerTurn(t, u)
  <2>1. u.state = "Failed" /\ u.updatedAt = clock /\ u.policy = t.policy
    BY <1>6 DEF Fail, EndRun, Enter, Task
  <2> QED  BY <1>2, <1>6, <2>1 DEF CanFail
<1>7. ASSUME NEW id, u = ScheduleRetry(t, clock), CanScheduleRetry(id, t, clock)
      PROVE  WorkerTurn(t, u)
  <2>1. CASE t.state = "RetryScheduled"  BY <1>7, <2>1 DEF ScheduleRetry, WorkerTurn
  <2>2. CASE t.state # "RetryScheduled"
    <3>1. u.state = "RetryScheduled"  BY <1>7, RetryFacts
    <3>2. t.state # "Cancelling"  BY <1>7 DEF CanScheduleRetry
    <3> PICK v : v = Enter(t, "RetryScheduled", clock)  OBVIOUS
    <3>3. v.updatedAt = clock /\ v.policy = t.policy  BY DEF Enter, Task
    <3>4. u = [v EXCEPT !.failure = t.failure, !.notBefore = clock + BackoffMs(t.attempts)]
      BY <1>7, <2>2 DEF ScheduleRetry
    <3>5. u.updatedAt = v.updatedAt /\ u.policy = v.policy  BY <3>4 DEF Enter, Task
    <3> QED  BY <3>1, <3>2, <3>3, <3>5 DEF WorkerTurn
  <2> QED  BY <2>1, <2>2
<1> QED  BY <1>1, <1>3, <1>4, <1>5, <1>6, <1>7

LEMMA MutateTurns ==
  ASSUME NEW id \in DOMAIN store, NEW u, Mutate(id, u), WorkerTurn(store[id], u)
  PROVE  /\ DOMAIN store' = DOMAIN store /\ WorkerTurn(store[id], store'[id])
         /\ \A other \in DOMAIN store \ {id} : store'[other] = store[other]
<1>1. store' = store \/ store' = Put(store, id, u)  BY DEF Mutate, CompareAndSwap
<1>2. CASE store' = store  BY <1>2 DEF WorkerTurn
<1>3. CASE store' = Put(store, id, u)  BY <1>3 DEF Put
<1> QED  BY <1>1, <1>2, <1>3

LEMMA WorkerStepTurns ==
  ASSUME ExecBase, NEW k \in DOMAIN workers, WorkerStep(k)
  PROVE  /\ DOMAIN store' = DOMAIN store /\ WorkerTurn(store[k.id], store'[k.id])
         /\ \A other \in DOMAIN store \ {k.id} : store'[other] = store[other]
<1> DEFINE w == workers[k]
           t == tasks[k.id]
           Turns == /\ DOMAIN store' = DOMAIN store /\ WorkerTurn(t, store'[k.id])
                    /\ \A other \in DOMAIN store \ {k.id} : store'[other] = store[other]
<1>1. t \in Task /\ t = store[k.id] /\ k.id \in DOMAIN store  BY WorkerFacts
<1>2. ASSUME store' = store  PROVE Turns  BY <1>1, <1>2 DEF WorkerTurn
<1>3. ASSUME NEW u, WorkerTurn(t, u), Mutate(k.id, u)  PROVE Turns
  BY <1>1, <1>3, MutateTurns
<1>4. SUFFICES Turns  BY <1>1
<1> HIDE DEF Turns
<1>5. CASE Register(k) \/ HeedCancel(k) \/ Connect(k) \/ BeginWrite(k) \/ ReadChunk(k)
           \/ WriteChunk(k) \/ CommitWrite(k) \/ AbortWrite(k) \/ Disconnect(k) \/ Unregister(k)
  BY <1>2, <1>5, Zenon DEF Register, HeedCancel, Connect, BeginWrite, ReadChunk, WriteChunk,
     CommitWrite, AbortWrite, Disconnect, Unregister, vars
<1>6. ASSUME NEW same, NEW next, NEW can, can => CanRecordProgress(t, k.gen, w.off, w.total, clock),
             Tell(k, can, RecordProgress(t, w.off, w.total, same, clock), next)
      PROVE  Turns
  <2> PICK u : u = RecordProgress(t, w.off, w.total, same, clock)  OBVIOUS
  <2>1. (can /\ Mutate(k.id, u)) \/ store' = store  BY <1>6, TellIsMutate
  <2>2. CASE can /\ Mutate(k.id, u)
    <3>1. WorkerTurn(t, u)  BY <1>1, <1>6, <2>2, MutationTurns
    <3> QED  BY <3>1, <2>2, <1>3
  <2> QED  BY <2>1, <2>2, <1>2
<1>7. CASE RecordChunk(k)
  <2>1. \/ store' = store
        \/ Tell(k, CanRecordProgress(t, k.gen, w.off, w.total, clock),
                RecordProgress(t, w.off, w.total, FALSE, clock), IF w.eof THEN "size" ELSE "read")
    BY <1>7, Zenon DEF RecordChunk
  <2> QED  BY <2>1, <1>2, <1>6
<1>8. CASE CheckFinalSize(k)
  <2>1. \/ store' = store
        \/ \E same \in BOOLEAN : Tell(k, CanRecordProgress(t, k.gen, w.off, w.total, clock),
                RecordProgress(t, w.off, w.total, same, clock), "commit")
    BY <1>8, Zenon DEF CheckFinalSize
  <2> QED  BY <2>1, <1>2, <1>6
<1>9. CASE ReportComplete(k)
  <2>1. \/ store' = store
        \/ Tell(k, CanComplete(t, k.gen, clock), Complete(t, clock), "disconnect")
    BY <1>9, Zenon DEF ReportComplete
  <2>2. \/ store' = store
        \/ CanComplete(t, k.gen, clock) /\ Mutate(k.id, Complete(t, clock))
    BY <2>1, TellIsMutate, Zenon
  <2>3. CanComplete(t, k.gen, clock) => WorkerTurn(t, Complete(t, clock))  BY <1>1, MutationTurns
  <2> QED  BY <2>2, <2>3, <1>2, <1>3
<1>10. CASE PersistFailure(k)
  <2>1. \/ \E next : Settle(k, CanConfirmCancelled(t, k.gen, t.bytes, clock),
                            ConfirmCancelled(t, t.bytes, clock), next)
        \/ \E next : Settle(k, CanEnterConflict(t, k.gen, t.bytes, clock),
                            EnterConflict(t, t.bytes, clock), next)
        \/ \E next : Settle(k, CanFail(t, k.gen, clock), Fail(t, w.fault, clock), next)
    BY <1>10, Zenon DEF PersistFailure
  <2>2. \/ store' = store
        \/ Mutate(k.id, ConfirmCancelled(t, t.bytes, clock))
        \/ CanFail(t, k.gen, clock) /\ Mutate(k.id, EnterConflict(t, t.bytes, clock))
        \/ CanFail(t, k.gen, clock) /\ Mutate(k.id, Fail(t, w.fault, clock))
    BY <2>1, TellIsMutate, Zenon DEF CanEnterConflict
  <2>3. /\ WorkerTurn(t, ConfirmCancelled(t, t.bytes, clock))
        /\ CanFail(t, k.gen, clock) => /\ WorkerTurn(t, EnterConflict(t, t.bytes, clock))
                                       /\ WorkerTurn(t, Fail(t, w.fault, clock))
    BY <1>1, MutationTurns
  <2> QED  BY <2>2, <2>3, <1>2, <1>3
<1>11. CASE PersistRetry(k)
  <2>1. \/ store' = store
        \/ Settle(k, CanScheduleRetry(k.id, t, clock), ScheduleRetry(t, clock), "unregister")
    BY <1>11, Zenon DEF PersistRetry
  <2>2. \/ store' = store
        \/ CanScheduleRetry(k.id, t, clock) /\ Mutate(k.id, ScheduleRetry(t, clock))
    BY <2>1, TellIsMutate, Zenon
  <2>3. CanScheduleRetry(k.id, t, clock) => WorkerTurn(t, ScheduleRetry(t, clock))
    BY <1>1, MutationTurns
  <2> QED  BY <2>2, <2>3, <1>2, <1>3
<1> QED  BY <1>5, <1>7, <1>8, <1>9, <1>10, <1>11 DEF WorkerStep

\* What a command of a client does to the row it is about.
ClientTurn(id) ==
  /\ \/ store' = store
     \/ \E u : /\ store' = Put(store, id, u) /\ u.updatedAt = clock /\ u.state # "Pausing"
               /\ u.state = "Cancelling" => id \in asked'
               /\ id \in DOMAIN store =>
                    /\ store[id].state # "Cancelling"
                    /\ \/ store[id].state = "Conflict"
                       \/ u.policy = store[id].policy /\ u.state # "Queued"
  /\ \/ asked' = asked
     \/ /\ asked' = asked \cup {id} /\ id \in DOMAIN store
        /\ store'[id].state \in {"Cancelling", "Cancelled"}

LEMMA CancelTurns ==
  ASSUME NEW t \in Task, NEW now, NEW u, u = RequestCancel(t, now)
  PROVE  /\ t.state # "Completed" => u.state \in {"Cancelling", "Cancelled"}
         /\ \/ u = t
            \/ u.updatedAt = now /\ t.state # "Cancelling"
         /\ u.policy = t.policy
<1>1. CASE t.state \in {"Cancelled", "Cancelling"}  BY <1>1 DEF RequestCancel
<1>2. CASE t.state \in {"Running", "Pausing"}
  <2>1. u = Enter(t, "Cancelling", now)  BY <1>2 DEF RequestCancel
  <2>2. u.state = "Cancelling" /\ u.updatedAt = now /\ u.policy = t.policy
    BY <2>1 DEF Enter, Task
  <2> QED  BY <1>2, <2>2
<1>3. CASE t.state \notin {"Cancelled", "Cancelling", "Running", "Pausing"}
  <2> PICK v : v = EndRun(t, "Cancelled", now)  OBVIOUS
  <2>1. u = [v EXCEPT !.checkpoint = t.checkpoint]  BY <1>3 DEF RequestCancel
  <2>2. u.state = "Cancelled" /\ u.updatedAt = now /\ u.policy = t.policy
    BY <2>1 DEF EndRun, Enter, Task
  <2> QED  BY <1>3, <2>2
<1> QED  BY <1>1, <1>2, <1>3

LEMMA ClientTurns ==
  ASSUME ExecBase, NEW id \in TaskIds, Client(id)
  PROVE  /\ ClientTurn(id) /\ phase = "open" /\ Unlocked
         /\ UNCHANGED <<clock, phase, issued, runner, workers, active, shut, marking>>
<1>1. /\ phase = "open" /\ Unlocked
      /\ UNCHANGED <<clock, phase, issued, runner, workers, active, shut, marking>>
  BY DEF Client, EnqueuePublic, Enqueue, ResolvePublic, RetryPublic, CancelPublic, Open, commands
<1>2. ASSUME NEW policy \in OfferedPolicies, EnqueuePublic(id, policy)  PROVE ClientTurn(id)
  <2> PICK u : u = NewTask(id, policy, clock)  OBVIOUS
  <2>1. store' = Put(store, id, u) /\ id \notin DOMAIN store /\ asked' = asked
    BY <1>2 DEF EnqueuePublic, Enqueue, commands
  <2>2. u.updatedAt = clock /\ u.state = "Queued"  BY DEF NewTask
  <2> QED  BY <2>1, <2>2 DEF ClientTurn
<1>3. ASSUME NEW policy \in OfferedPolicies, ResolvePublic(id, policy)  PROVE ClientTurn(id)
  <2> PICK u : u = ResolveConflict(tasks[id], policy, clock)  OBVIOUS
  <2>1. /\ Open(id) /\ Saved(id, u) /\ tasks[id].state = "Conflict" /\ asked' = asked
    BY <1>3 DEF ResolvePublic, CanResolveConflict, commands
  <2>2. tasks[id] \in Task /\ tasks[id] = store[id]  BY <2>1, TaskFacts
  <2>3. u.updatedAt = clock /\ u.state = "Queued"  BY <2>2 DEF ResolveConflict, Enter, Task
  <2>4. store' = store \/ store' = Put(store, id, u)  BY <2>1, SavedRow
  <2> QED  BY <2>1, <2>2, <2>3, <2>4 DEF ClientTurn
<1>4. ASSUME RetryPublic(id)  PROVE ClientTurn(id)
  <2> PICK u : u = ScheduleRetry(tasks[id], clock)  OBVIOUS
  <2>1. /\ Open(id) /\ Saved(id, u) /\ CanScheduleRetry(id, tasks[id], clock) /\ asked' = asked
    BY <1>4 DEF RetryPublic, commands
  <2>2. tasks[id] \in Task /\ tasks[id] = store[id] /\ id \in DOMAIN store  BY <2>1, TaskFacts
  <2>3. (u = tasks[id] \/ u.updatedAt = clock) /\ u.policy = tasks[id].policy
    BY <2>1, <2>2, MutationTurns DEF WorkerTurn
  <2>4. u.state = "RetryScheduled" /\ tasks[id].state # "Cancelling"
    BY <2>1, <2>2, RetryFacts DEF CanScheduleRetry
  <2>5. store' = store \/ (store' = Put(store, id, u) /\ u # tasks[id])
    BY <2>1, SavedRow
  <2>6. /\ u.state # "Pausing" /\ u.state # "Cancelling" /\ store[id].state # "Cancelling"
        /\ u.state # "Queued" /\ u.policy = store[id].policy
    BY <2>2, <2>3, <2>4
  <2> QED  BY <2>1, <2>3, <2>5, <2>6, Zenon DEF ClientTurn
<1>5. ASSUME CancelPublic(id)  PROVE ClientTurn(id)
  <2> PICK u : u = RequestCancel(tasks[id], clock)  OBVIOUS
  <2>1. /\ Open(id) /\ Saved(id, u) /\ tasks[id].state # "Completed"
        /\ asked' = asked \cup {id}
    BY <1>5 DEF CancelPublic, CanRequestCancel
  <2>2. tasks[id] \in Task /\ tasks[id] = store[id] /\ id \in DOMAIN store  BY <2>1, TaskFacts
  <2>3. /\ u.state \in {"Cancelling", "Cancelled"}
        /\ u = tasks[id] \/ (u.updatedAt = clock /\ tasks[id].state # "Cancelling")
        /\ u.policy = tasks[id].policy
    BY <2>1, <2>2, CancelTurns
  <2>4. CASE u = tasks[id]
    <3>1. store' = store  BY <2>1, <2>4, SavedRow
    <3>2. store'[id].state \in {"Cancelling", "Cancelled"}  BY <2>2, <2>3, <2>4, <3>1
    <3> QED  BY <3>1, <3>2, <2>1, <2>2, Zenon DEF ClientTurn
  <2>5. CASE u # tasks[id]
    <3>1. tasks[id].state \notin {"Cancelling", "Cancelled"}
      BY <2>5 DEF RequestCancel
    <3>2. u.revision = tasks[id].revision + 1
      <4>1. CASE tasks[id].state \in {"Running", "Pausing"}
        BY <2>2, <4>1 DEF RequestCancel, Enter, Task
      <4>2. CASE tasks[id].state \notin {"Running", "Pausing"}
        <5> PICK v : v = EndRun(tasks[id], "Cancelled", clock)  OBVIOUS
        <5>1. u = [v EXCEPT !.checkpoint = tasks[id].checkpoint]
          BY <3>1, <4>2 DEF RequestCancel
        <5>2. v.revision = tasks[id].revision + 1  BY <2>2, EndRunEnds
        <5>3. u.revision = v.revision  BY <2>2, <5>1 DEF EndRun, Enter, Task
        <5> QED  BY <5>2, <5>3
      <4> QED  BY <4>1, <4>2
    <3>3. store' = Put(store, id, u)
      <4>1. u.revision # tasks[id].revision  BY <2>2, <3>2 DEF Task
      <4> QED  BY <2>1, <4>1 DEF Saved, CompareAndSwap
    <3>4. store'[id] = u  BY <3>3 DEF Put
    <3>5. /\ u.updatedAt = clock /\ u.state # "Pausing" /\ store[id].state # "Cancelling"
          /\ u.state # "Queued" /\ u.policy = store[id].policy
          /\ store'[id].state \in {"Cancelling", "Cancelled"} /\ id \in asked'
      BY <2>1, <2>2, <2>3, <2>5, <3>1, <3>4
    <3> QED  BY <2>1, <2>2, <3>3, <3>5, Zenon DEF ClientTurn
  <2> QED  BY <2>4, <2>5
<1> QED  BY <1>1, <1>2, <1>3, <1>4, <1>5, Zenon DEF Client

-----------------------------------------------------------------------------
(* A run asked to stop hears of it. *)

\* A worker's way past its control.
WorkerControl(k) ==
  LET w == workers[k]
      v == workers'[k]
  IN  /\ w.cancelled => v.cancelled
      /\ \/ w.pc = "spawned" /\ active' = Put(active, k.id, k) /\ v.pc = "heed"
         \/ w.pc = "heed" /\ active' = active /\ v.pc = "connect"
            /\ (store[k.id].state = "Cancelling" => v.cancelled)
         \/ w.pc \in InIO /\ active' = active
         \/ active' = active /\ v.pc \in Steps \ (InIO \cup {"heed"})
         \/ active' = Without(active, {k.id}) /\ v.pc = "done"

LEMMA WorkerStepControl ==
  ASSUME ExecBase, NEW k \in DOMAIN workers, WorkerStep(k)
  PROVE  WorkerControl(k)
<1> DEFINE w == workers[k]
           v == workers'[k]
<1>1. /\ ExecTypeOK /\ w \in Worker /\ tasks[k.id] = store[k.id]
      /\ workers \in [DOMAIN workers -> Worker]
  BY WorkerFacts DEF ExecBase, ExecTypeOK
<1>2. Steps = {"spawned", "connect", "read", "record", "disconnect", "heed", "begin", "write",
               "size", "commit", "complete", "abort", "persist", "reschedule", "unregister", "done"}
      /\ InIO = {"connect", "begin", "read", "write", "record", "size", "commit", "complete"}
  BY DEF Steps, Awaits, InIO
<1>3. ASSUME NEW pc \in Steps, Goes(k, pc)  PROVE v.pc = pc /\ v.cancelled = w.cancelled
  BY <1>1, <1>3, GoesFacts DEF SameData
<1>4. ASSUME NEW pc \in Steps, NEW fault \in Faults, Faulty(k, pc, fault)
      PROVE  v.pc = pc /\ v.cancelled = w.cancelled
  BY <1>1, <1>4, FaultyFacts DEF FaultyData
<1>5. ASSUME Errs(k)  PROVE v.pc = "unregister" /\ v.cancelled = w.cancelled
  BY <1>1, <1>5 DEF Errs, Worker
<1>6. Faults = {"none", "retryable", "permanent", "conflict", "cancelled"}  BY DEF Faults
<1>7. ASSUME w.pc \in InIO, active' = active, v.cancelled = w.cancelled  PROVE WorkerControl(k)
  BY <1>7, Zenon DEF WorkerControl
<1>8. ASSUME v.pc \in {"abort", "disconnect", "persist", "reschedule", "unregister", "done"},
             active' = active, v.cancelled = w.cancelled
      PROVE  WorkerControl(k)
  <2>1. v.pc \in Steps \ (InIO \cup {"heed"})  BY <1>2, <1>8
  <2> QED  BY <1>8, <2>1, Zenon DEF WorkerControl
<1>9. CASE Register(k)
  <2>1. w.pc = "spawned"  BY <1>9 DEF Register, At
  <2>2. CASE shut \in {"no", "cancelled"}
    <3>1. Goes(k, "heed") /\ active' = Put(active, k.id, k)  BY <1>9, <2>2, Zenon DEF Register
    <3>2. v.pc = "heed" /\ v.cancelled = w.cancelled  BY <3>1, <1>2, <1>3
    <3> QED  BY <2>1, <3>1, <3>2, Zenon DEF WorkerControl
  <2>3. CASE shut \notin {"no", "cancelled"}
    <3>1. workers' = [workers EXCEPT ![k].pc = "done", ![k].err = TRUE] /\ active' = active
      BY <1>9, <2>3, Zenon DEF Register
    <3>2. v.pc = "done" /\ v.cancelled = w.cancelled  BY <3>1, <1>1 DEF Worker
    <3> QED  BY <3>1, <3>2, <1>8
  <2> QED  BY <2>2, <2>3
<1>10. CASE HeedCancel(k)
  <2> PICK c : c = (w.cancelled \/ tasks[k.id].state = "Cancelling")  OBVIOUS
  <2>1. workers' = [workers EXCEPT ![k].pc = "connect", ![k].cancelled = c]
        /\ w.pc = "heed" /\ active' = active
    BY <1>10 DEF HeedCancel, At
  <2>2. v.pc = "connect" /\ v.cancelled = c  BY <2>1, <1>1 DEF Worker
  <2> QED  BY <2>1, <2>2, <1>1, Zenon DEF WorkerControl
<1>11. ASSUME NEW can, NEW u, NEW next \in Steps, Tell(k, can, u, next)
       PROVE  v.cancelled = w.cancelled
  <2>1. Goes(k, next) \/ \E fault \in {"retryable", "cancelled"} : Faulty(k, "abort", fault)
    BY <1>11, Zenon DEF Tell, Rejected
  <2> QED  BY <2>1, <1>2, <1>3, <1>4, <1>6, <1>11
<1>12. ASSUME NEW can, NEW u, NEW next \in {"unregister", "reschedule"}, Settle(k, can, u, next)
       PROVE  v.cancelled = w.cancelled /\ v.pc \in {"unregister", "reschedule"}
  <2>1. Goes(k, next) \/ Errs(k)  BY <1>12, Zenon DEF Settle
  <2> QED  BY <2>1, <1>2, <1>3, <1>5, <1>12
<1>13. CASE Connect(k)
  <2>1. w.pc = "connect" /\ active' = active  BY <1>13 DEF Connect, At
  <2>2. Goes(k, "begin") \/ \E fault \in Faults : Faulty(k, "persist", fault)
    BY <1>13, <1>6 DEF Connect
  <2> QED  BY <2>1, <2>2, <1>2, <1>3, <1>4, <1>7
<1>14. CASE BeginWrite(k)
  <2>1. w.pc = "begin" /\ active' = active  BY <1>14 DEF BeginWrite, At
  <2>2. \/ \E fault \in {"retryable", "permanent", "conflict", "cancelled"} : Faulty(k, "disconnect", fault)
        \/ workers' = [workers EXCEPT ![k].pc = "read", ![k].off = w.base, ![k].total = ExpectedSize[k.id]]
    BY <1>14, Zenon DEF BeginWrite
  <2>3. CASE workers' = [workers EXCEPT ![k].pc = "read", ![k].off = w.base, ![k].total = ExpectedSize[k.id]]
    <3>1. v.cancelled = w.cancelled  BY <2>3, <1>1 DEF Worker
    <3> QED  BY <2>1, <3>1, <1>2, <1>7
  <2> QED  BY <2>1, <2>2, <2>3, <1>2, <1>4, <1>6, <1>7
<1>15. CASE ReadChunk(k)
  <2>1. w.pc = "read" /\ active' = active  BY <1>15 DEF ReadChunk, At
  <2>2. \/ \E fault \in {"retryable", "permanent", "conflict", "cancelled"} : Faulty(k, "abort", fault)
        \/ \E size \in {None, SourceSize[k.id]} :
             workers' = [workers EXCEPT
               ![k].total = IF @ = None THEN size ELSE @,
               ![k].eof = w.off + 1 >= SourceSize[k.id],
               ![k].pc = IF w.off < SourceSize[k.id] THEN "write" ELSE "size"]
    BY <1>15, Zenon DEF ReadChunk
  <2>3. ASSUME NEW size \in {None, SourceSize[k.id]},
               workers' = [workers EXCEPT
                 ![k].total = IF @ = None THEN size ELSE @,
                 ![k].eof = w.off + 1 >= SourceSize[k.id],
                 ![k].pc = IF w.off < SourceSize[k.id] THEN "write" ELSE "size"]
        PROVE  v.cancelled = w.cancelled
    <3> PICK total : total = IF w.total = None THEN size ELSE w.total  OBVIOUS
    <3> PICK eof : eof = (w.off + 1 >= SourceSize[k.id])  OBVIOUS
    <3> PICK pc : pc = IF w.off < SourceSize[k.id] THEN "write" ELSE "size"  OBVIOUS
    <3>1. workers' = [workers EXCEPT ![k].total = total, ![k].eof = eof, ![k].pc = pc]
      BY <2>3, <1>1
    <3> QED  BY <3>1, <1>1 DEF Worker
  <2>4. v.cancelled = w.cancelled  BY <2>2, <2>3, <1>2, <1>4, <1>6
  <2> QED  BY <2>1, <2>4, <1>2, <1>7
<1>16. CASE WriteChunk(k)
  <2>1. w.pc = "write" /\ active' = active  BY <1>16 DEF WriteChunk, At
  <2>2. \/ \E fault \in {"retryable", "permanent", "conflict", "cancelled"} : Faulty(k, "abort", fault)
        \/ workers' = [workers EXCEPT ![k].pc = "record", ![k].off = @ + 1]
    BY <1>16, Zenon DEF WriteChunk
  <2>3. CASE workers' = [workers EXCEPT ![k].pc = "record", ![k].off = @ + 1]
    <3>1. v.cancelled = w.cancelled  BY <2>3, <1>1 DEF Worker
    <3> QED  BY <2>1, <3>1, <1>2, <1>7
  <2> QED  BY <2>1, <2>2, <2>3, <1>2, <1>4, <1>6, <1>7
<1>17. CASE RecordChunk(k)
  <2>1. w.pc = "record" /\ active' = active  BY <1>17 DEF RecordChunk, At
  <2>2. \/ \E fault \in {"retryable", "cancelled"} : Faulty(k, "abort", fault)
        \/ \E can, u, next : Tell(k, can, u, next) /\ next \in {"size", "read"}
    BY <1>17 DEF RecordChunk
  <2> QED  BY <2>1, <2>2, <1>2, <1>4, <1>6, <1>7, <1>11
<1>18. CASE CheckFinalSize(k)
  <2>1. w.pc = "size" /\ active' = active  BY <1>18 DEF CheckFinalSize, At
  <2>2. \/ Faulty(k, "abort", "conflict") \/ Goes(k, "commit")
        \/ \E can, u : Tell(k, can, u, "commit")
    BY <1>18, Zenon DEF CheckFinalSize
  <2> QED  BY <2>1, <2>2, <1>2, <1>3, <1>4, <1>6, <1>7, <1>11
<1>19. CASE CommitWrite(k)
  <2>1. w.pc = "commit" /\ active' = active  BY <1>19 DEF CommitWrite, At
  <2>2. \/ \E fault \in {"retryable", "permanent", "conflict", "cancelled"} : Faulty(k, "abort", fault)
        \/ Goes(k, "complete")
    BY <1>19, Zenon DEF CommitWrite
  <2> QED  BY <2>1, <2>2, <1>2, <1>3, <1>4, <1>6, <1>7
<1>20. CASE ReportComplete(k)
  <2>1. w.pc = "complete" /\ active' = active  BY <1>20 DEF ReportComplete, At
  <2>2. \/ \E fault \in {"retryable", "permanent", "cancelled"} : Faulty(k, "abort", fault)
        \/ \E can, u : Tell(k, can, u, "disconnect")
    BY <1>20, Zenon DEF ReportComplete
  <2> QED  BY <2>1, <2>2, <1>2, <1>4, <1>6, <1>7, <1>11
<1>21. CASE AbortWrite(k)
  <2>1. Goes(k, "disconnect") /\ active' = active  BY <1>21 DEF AbortWrite
  <2> QED  BY <2>1, <1>2, <1>3, <1>8
<1>22. CASE Disconnect(k)
  <2>1. active' = active  BY <1>22 DEF Disconnect
  <2>2. \/ Goes(k, "persist") \/ Goes(k, "unregister")
        \/ \E fault \in {"retryable", "permanent"} : Faulty(k, "persist", fault)
    BY <1>22, Zenon DEF Disconnect
  <2> QED  BY <2>1, <2>2, <1>2, <1>3, <1>4, <1>6, <1>8
<1>23. CASE PersistFailure(k)
  <2>1. active' = active  BY <1>23 DEF PersistFailure
  <2>2. \E can, u, next : Settle(k, can, u, next) /\ next \in {"unregister", "reschedule"}
    BY <1>23 DEF PersistFailure
  <2> QED  BY <2>1, <2>2, <1>8, <1>12
<1>24. CASE PersistRetry(k)
  <2>1. active' = active  BY <1>24 DEF PersistRetry
  <2>2. Goes(k, "unregister") \/ \E can, u : Settle(k, can, u, "unregister")
    BY <1>24, Zenon DEF PersistRetry
  <2> QED  BY <2>1, <2>2, <1>2, <1>3, <1>8, <1>12
<1>25. CASE Unregister(k)
  <2>1. Goes(k, "done") /\ active' = Without(active, {k.id})  BY <1>25 DEF Unregister
  <2>2. v.pc = "done" /\ v.cancelled = w.cancelled  BY <2>1, <1>2, <1>3
  <2> QED  BY <2>1, <2>2, Zenon DEF WorkerControl
<1> QED
  BY <1>9, <1>10, <1>13, <1>14, <1>15, <1>16, <1>17, <1>18, <1>19, <1>20, <1>21, <1>22, <1>23,
     <1>24, <1>25, Zenon DEF WorkerStep

\* Whether worker k has heard of the cancel, or will.
Heard(k) ==
  shut = "no" /\ workers[k].pc \in InIO /\ store[k.id].state = "Cancelling" =>
    \/ workers[k].cancelled \/ k.id \in asked
    \/ MaxJobs > 1 /\ k.id \notin DOMAIN active

\* A control registered under the task of a worker in its I/O is its own, and
\* with one job it is there.
OwnControl(k) ==
  workers[k].pc \in InIO \cup {"heed"} =>
    /\ k.id \in DOMAIN active => active[k.id] = k
    /\ MaxJobs = 1 => k.id \in DOMAIN active

HeardInv ==
  /\ IsFiniteSet(DOMAIN workers)
  /\ MaxJobs = 1 => \A j, k \in DOMAIN workers : j = k
  /\ \A k \in DOMAIN workers : OwnControl(k) /\ Heard(k)

LEMMA HeardAfterWorker ==
  ASSUME ExecBase, RunsInv, HeardInv, NEW k \in DOMAIN workers, WorkerStep(k)
  PROVE  HeardInv'
<1>1. OnlyWorker(k) /\ UNCHANGED <<asked, shut>>  BY WorkerStepMoves DEF WorkerMoves
<1>2. DOMAIN workers' = DOMAIN workers /\ \A j \in DOMAIN workers : j # k => workers'[j] = workers[j]
  BY <1>1 DEF OnlyWorker
<1>3. WorkerControl(k)  BY WorkerStepControl
<1>4. ASSUME NEW j \in DOMAIN workers, store'[j.id].state = "Cancelling"
      PROVE  store[j.id].state = "Cancelling"
  <2>1. j.id \in DOMAIN store  BY WorkerFacts
  <2>2. /\ WorkerTurn(store[k.id], store'[k.id])
        /\ \A other \in DOMAIN store \ {k.id} : store'[other] = store[other]
    BY WorkerStepTurns
  <2> QED  BY <2>1, <2>2, <1>4 DEF WorkerTurn
<1>5. MaxJobs = 1 \/ MaxJobs > 1  BY ExecutorAssumption
<1>6. ASSUME NEW j \in DOMAIN workers, j # k  PROVE (OwnControl(j) /\ Heard(j))'
  <2>1. workers'[j] = workers[j] /\ OwnControl(j) /\ Heard(j) /\ MaxJobs # 1
    BY <1>2, <1>6 DEF HeardInv
  <2>2. CASE active' = active
    BY <1>1, <1>4, <2>1, <2>2 DEF OwnControl, Heard
  <2>3. CASE workers[k].pc = "spawned" /\ active' = Put(active, k.id, k)
    <3>1. CASE j.id # k.id
      <4>1. /\ j.id \in DOMAIN active' <=> j.id \in DOMAIN active
            /\ j.id \in DOMAIN active => active'[j.id] = active[j.id]
        BY <2>3, <3>1 DEF Put
      <4> QED  BY <1>1, <1>4, <2>1, <4>1 DEF OwnControl, Heard
    <3>2. CASE j.id = k.id
      <4>1. k.gen = store[k.id].generation  BY <2>3 DEF RunsInv, RunOK, Held
      <4>2. workers[j].pc \in InIO \cup {"heed"} => j.gen = store[j.id].generation
        BY DEF RunsInv, RunOK, Held
      <4>3. j = [id |-> j.id, gen |-> j.gen] /\ k = [id |-> k.id, gen |-> k.gen]  BY WorkerFacts
      <4>4. workers[j].pc \notin InIO \cup {"heed"}  BY <1>6, <3>2, <4>1, <4>2, <4>3
      <4> QED  BY <2>1, <4>4 DEF OwnControl, Heard
    <3> QED  BY <3>1, <3>2
  <2>4. CASE active' = Without(active, {k.id})
    <3>1. CASE j.id # k.id
      <4>1. /\ j.id \in DOMAIN active' <=> j.id \in DOMAIN active
            /\ j.id \in DOMAIN active => active'[j.id] = active[j.id]
        BY <2>4, <3>1 DEF Without
      <4> QED  BY <1>1, <1>4, <2>1, <4>1 DEF OwnControl, Heard
    <3>2. CASE j.id = k.id
      <4>1. j.id \notin DOMAIN active'  BY <2>4, <3>2 DEF Without
      <4> QED  BY <1>5, <2>1, <4>1 DEF OwnControl, Heard
    <3> QED  BY <3>1, <3>2
  <2> QED  BY <1>3, <2>2, <2>3, <2>4, Zenon DEF WorkerControl
<1>7. (OwnControl(k) /\ Heard(k))'
  <2>0. OwnControl(k) /\ Heard(k)  BY DEF HeardInv
  <2>1. CASE workers[k].pc = "spawned" /\ active' = Put(active, k.id, k) /\ workers'[k].pc = "heed"
    <3>1. k.id \in DOMAIN active' /\ active'[k.id] = k  BY <2>1 DEF Put
    <3> QED  BY <2>1, <3>1 DEF OwnControl, Heard, InIO
  <2>2. CASE workers[k].pc = "heed" /\ active' = active /\ workers'[k].pc = "connect"
             /\ (store[k.id].state = "Cancelling" => workers'[k].cancelled)
    <3>1. OwnControl(k)'  BY <2>0, <2>2 DEF OwnControl
    <3>2. Heard(k)'  BY <1>4, <2>2, Zenon DEF Heard
    <3> QED  BY <3>1, <3>2
  <2>3. CASE workers[k].pc \in InIO /\ active' = active
    <3>1. OwnControl(k)'  BY <2>0, <2>3 DEF OwnControl
    <3>2. workers[k].cancelled => workers'[k].cancelled  BY <1>3, Zenon DEF WorkerControl
    <3>3. Heard(k)'  BY <1>1, <1>4, <2>0, <2>3, <3>2, Zenon DEF Heard
    <3> QED  BY <3>1, <3>3
  <2>4. CASE workers'[k].pc \in (Steps \ (InIO \cup {"heed"})) \cup {"done"}
    BY <2>4 DEF OwnControl, Heard, InIO
  <2> QED  BY <1>3, <2>1, <2>2, <2>3, <2>4 DEF WorkerControl
<1>8. \A j \in DOMAIN workers' : (OwnControl(j) /\ Heard(j))'  BY <1>2, <1>6, <1>7
<1> QED  BY <1>2, <1>8 DEF HeardInv

LEMMA HeardAfterOther ==
  ASSUME HeardInv, DOMAIN workers' \subseteq DOMAIN workers, active' = active,
         shut' = "no" => shut = "no",
         \A j \in DOMAIN workers' :
           /\ workers'[j].pc = workers[j].pc
           /\ workers[j].cancelled => workers'[j].cancelled
           /\ shut = "no" /\ store'[j.id].state = "Cancelling" =>
                store[j.id].state = "Cancelling" \/ j.id \in asked'
           /\ j.id \in asked \ asked' /\ j.id \in DOMAIN active /\ active[j.id] = j =>
                workers'[j].cancelled
  PROVE  HeardInv'
<1>1. IsFiniteSet(DOMAIN workers')  BY FS_Subset DEF HeardInv
<1>2. MaxJobs = 1 => \A j, k \in DOMAIN workers' : j = k  BY DEF HeardInv
<1>3. ASSUME NEW j \in DOMAIN workers'  PROVE (OwnControl(j) /\ Heard(j))'
  <2>1. OwnControl(j) /\ Heard(j)  BY DEF HeardInv
  <2>2. OwnControl(j)'  BY <2>1 DEF OwnControl
  <2>3. Heard(j)'
    <3> SUFFICES ASSUME shut' = "no", workers'[j].pc \in InIO, store'[j.id].state = "Cancelling",
                        j.id \notin asked', ~workers'[j].cancelled
                 PROVE  MaxJobs > 1 /\ j.id \notin DOMAIN active'
      BY Zenon DEF Heard
    <3>1. store[j.id].state = "Cancelling" /\ shut = "no" /\ workers[j].pc \in InIO
      OBVIOUS
    <3>2. ~workers[j].cancelled  BY Zenon
    <3>3. CASE j.id \in asked
      <4>1. ~(j.id \in DOMAIN active /\ active[j.id] = j)  BY <3>3, Zenon
      <4>2. j.id \notin DOMAIN active  BY <2>1, <3>1, <4>1 DEF OwnControl
      <4>3. MaxJobs # 1  BY <2>1, <3>1, <4>2 DEF OwnControl
      <4> QED  BY <4>2, <4>3, ExecutorAssumption
    <3>4. CASE j.id \notin asked
      BY <2>1, <3>1, <3>2, <3>4, Zenon DEF Heard
    <3> QED  BY <3>3, <3>4
  <2> QED  BY <2>2, <2>3
<1> QED  BY <1>1, <1>2, <1>3 DEF HeardInv

LEMMA HeardAfterStart ==
  ASSUME ExecBase, HeardInv, NEW id \in TaskIds, StartWorker(id)
  PROVE  HeardInv'
<1> USE StartWorkerFacts
<1>1. CASE UNCHANGED <<store, workers>>
  BY <1>1 DEF HeardInv, OwnControl, Heard
<1>2. ASSUME NEW t \in Task, NEW k, k = [id |-> id, gen |-> t.generation],
             store' = Put(store, id, t), RunEnds(store[id], t), t.state = "Running",
             workers' = Put(workers, k, NewWorker(t))
      PROVE  HeardInv'
  <2>1. /\ id \in DOMAIN store /\ store[id].generation \in Nat /\ k.id = id
        /\ k.gen = store[id].generation + 1
    BY <1>2, TaskFacts DEF RunEnds, Task
  <2>2. k \notin DOMAIN workers
    <3>1. k \in issued => k.gen <= store[k.id].generation  BY DEF ExecBase, IInv, TokenDiscipline
    <3> QED  BY <3>1, <2>1, WorkerFacts
  <2>3. /\ DOMAIN workers' = DOMAIN workers \cup {k} /\ workers'[k] = NewWorker(t)
        /\ \A j \in DOMAIN workers : workers'[j] = workers[j]
    BY <1>2, <2>2 DEF Put
  <2>4. IsFiniteSet(DOMAIN workers')  BY <2>3, FS_AddElement DEF HeardInv
  <2>5. MaxJobs = 1 => \A i, j \in DOMAIN workers' : i = j
    <3>1. Cardinality(DOMAIN workers) < MaxJobs /\ Cardinality(DOMAIN workers) \in Nat
      BY FS_CardinalityType DEF StartWorker, HeardInv
    <3>2. MaxJobs = 1 => Cardinality(DOMAIN workers) = 0  BY <3>1
    <3>3. MaxJobs = 1 => DOMAIN workers = {}  BY <3>2, FS_EmptySet DEF HeardInv
    <3> QED  BY <2>3, <3>3
  <2>6. (OwnControl(k) /\ Heard(k))'
    <3>1. workers'[k].pc = "spawned"  BY <2>3 DEF NewWorker
    <3> QED  BY <3>1 DEF OwnControl, Heard, InIO
  <2>7. ASSUME NEW j \in DOMAIN workers  PROVE (OwnControl(j) /\ Heard(j))'
    <3>1. store'[j.id].state = "Cancelling" => store[j.id].state = "Cancelling"
      BY <1>2, WorkerFacts DEF Put
    <3> QED  BY <2>3, <3>1 DEF HeardInv, OwnControl, Heard
  <2> QED  BY <2>3, <2>4, <2>5, <2>6, <2>7 DEF HeardInv
<1> QED  BY <1>1, <1>2

LEMMA NextHeard ==
  ASSUME ExecBase, RunsInv, HeardInv, [ExecNext]_execVars
  PROVE  HeardInv'
<1>1. ASSUME UNCHANGED <<store, workers, active, asked>>, shut' = "no" => shut = "no"
      PROVE  HeardInv'
  BY <1>1, HeardAfterOther
<1>2. ASSUME NEW k, UNCHANGED <<store, active, asked, shut>>, workers' = Without(workers, {k})
      PROVE  HeardInv'
  <2>1. DOMAIN workers' \subseteq DOMAIN workers /\ \A j \in DOMAIN workers' : workers'[j] = workers[j]
    BY <1>2 DEF Without
  <2> QED  BY <1>2, <2>1, HeardAfterOther
<1>3. CASE UNCHANGED execVars
  BY <1>1, <1>3 DEF execVars, vars, commands
<1>4. ASSUME NEW id \in TaskIds, Client(id)  PROVE HeardInv'
  <2>1. ClientTurn(id) /\ UNCHANGED <<workers, active, shut>>  BY <1>4, ClientTurns
  <2>2. asked \subseteq asked'  BY <2>1 DEF ClientTurn
  <2>3. ASSUME NEW j \in DOMAIN workers, store'[j.id].state = "Cancelling"
        PROVE  store[j.id].state = "Cancelling" \/ j.id \in asked'
    <3>1. j.id \in DOMAIN store  BY WorkerFacts
    <3>2. CASE store' = store  BY <2>3, <3>2
    <3>3. ASSUME NEW u, store' = Put(store, id, u), u.state = "Cancelling" => id \in asked'
          PROVE  store[j.id].state = "Cancelling" \/ j.id \in asked'
      BY <2>3, <3>1, <3>3 DEF Put
    <3> QED  BY <2>1, <3>2, <3>3, Zenon DEF ClientTurn
  <2> QED  BY <2>1, <2>2, <2>3, HeardAfterOther
<1>5. ASSUME NEW ids, CancelControls(ids), UNCHANGED <<store, active>>, asked \ ids \subseteq asked',
             shut' = "no" => shut = "no"
      PROVE  HeardInv'
  <2>1. /\ DOMAIN workers' = DOMAIN workers
        /\ \A j \in DOMAIN workers :
             /\ workers'[j].pc = workers[j].pc
             /\ workers'[j].cancelled
                  = (workers[j].cancelled \/ j \in {active[id] : id \in ids \cap DOMAIN active})
    BY <1>5, CancelControlsFacts DEF ExecBase
  <2>2. ASSUME NEW j \in DOMAIN workers'
        PROVE  /\ workers'[j].pc = workers[j].pc
               /\ workers[j].cancelled => workers'[j].cancelled
               /\ j.id \in asked \ asked' /\ j.id \in DOMAIN active /\ active[j.id] = j =>
                    workers'[j].cancelled
    <3>1. workers'[j].pc = workers[j].pc  BY <2>1
    <3>2. workers[j].cancelled => workers'[j].cancelled  BY <2>1, Zenon
    <3>3. ASSUME j.id \in asked \ asked', j.id \in DOMAIN active, active[j.id] = j
          PROVE  workers'[j].cancelled
      <4>1. j \in {active[id] : id \in ids \cap DOMAIN active}  BY <1>5, <3>3
      <4> QED  BY <2>1, <4>1, Zenon
    <3> QED  BY <3>1, <3>2, <3>3, Zenon
  <2>3. \A j \in DOMAIN workers' :
           /\ workers'[j].pc = workers[j].pc
           /\ workers[j].cancelled => workers'[j].cancelled
           /\ shut = "no" /\ store'[j.id].state = "Cancelling" =>
                store[j.id].state = "Cancelling" \/ j.id \in asked'
           /\ j.id \in asked \ asked' /\ j.id \in DOMAIN active /\ active[j.id] = j =>
                workers'[j].cancelled
    BY <1>5, <2>2, Zenon
  <2> QED  BY <1>5, <2>1, <2>3, HeardAfterOther
<1>6. ASSUME NEW id \in TaskIds, CancelControl(id)  PROVE HeardInv'
  <2>1. /\ CancelControls({id}) /\ UNCHANGED <<store, active, shut>>
        /\ asked \ {id} \subseteq asked'
    BY <1>6 DEF CancelControl, vars
  <2> QED  BY <1>5, <2>1
<1>7. CASE Runner
  <2>1. ASSUME NEW id \in TaskIds, StartWorker(id)  PROVE HeardInv'
    BY <2>1, HeardAfterStart
  <2>2. ASSUME NEW id \in TaskIds, StartRefused(id)  PROVE HeardInv'
    BY <2>2, <1>1 DEF StartRefused, vars, commands
  <2>3. ASSUME NEW k \in DOMAIN workers, Join(k)  PROVE HeardInv'
    BY <2>3, <1>2 DEF Join, vars, commands
  <2>4. CASE StopFilling \/ Wake
    BY <2>4, <1>1 DEF StopFilling, Wake, vars, commands
  <2> QED  BY <1>7, <2>1, <2>2, <2>3, <2>4, Zenon DEF Runner
<1>8. ASSUME NEW k \in DOMAIN workers, WorkerStep(k)  PROVE HeardInv'
  BY <1>8, HeardAfterWorker
<1>9. ASSUME NEW k \in DOMAIN workers, Vanish(k)  PROVE HeardInv'
  BY <1>9, <1>2 DEF Vanish, vars, commands
<1>10. CASE Shutdown
  <2>1. CASE ShutdownControls
    <3>1. /\ CancelControls(DOMAIN active) /\ shut' # "no"
          /\ UNCHANGED <<store, active, asked>>
      BY <2>1 DEF ShutdownControls, vars
    <3> QED  BY <1>5, <3>1
  <2>2. CASE ShutdownPermits \/ ShutdownLock \/ ShutdownSignal \/ ShutdownTimeout
    BY <2>2, <1>1 DEF ShutdownPermits, ShutdownLock, ShutdownSignal, ShutdownTimeout, vars, commands
  <2>3. ASSUME NEW id \in marking, ShutdownMark(id)  PROVE HeardInv'
    <3>1. shut = "marking" /\ shut' \in {"marking", "signalled"} /\ UNCHANGED <<workers, active, asked>>
      BY <2>3 DEF ShutdownMark
    <3> QED  BY <3>1, HeardAfterOther
  <2> QED  BY <1>10, <2>1, <2>2, <2>3, Zenon DEF Shutdown
<1>11. CASE ExecOpen \/ ExecCrash
  <2>1. DOMAIN workers' = {}
    <3>1. CASE ExecOpen
      <4>1. phase # "open" /\ UNCHANGED <<workers, active>>
        BY <3>1 DEF ExecOpen, OpenBegin, RecoverOne, OpenFails, OpenDone
      <4> QED  BY <4>1 DEF ExecBase, Opened
    <3>2. CASE ExecCrash  BY <3>2 DEF ExecCrash, Empty
    <3> QED  BY <1>11, <3>1, <3>2
  <2> QED  BY <2>1, FS_EmptySet DEF HeardInv
<1>12. CASE ExecTick
  BY <1>12, <1>1 DEF ExecTick, Tick, commands
<1>13. ASSUME NEW h \in Handles, Bind(h) \/ Outsider(h)  PROVE HeardInv'
  BY <1>13, <1>1 DEF Bind, Outsider, vars, commands
<1> QED
  BY <1>3, <1>4, <1>6, <1>7, <1>8, <1>9, <1>10, <1>11, <1>12, <1>13, Zenon DEF ExecNext

LEMMA HeardAlways == ExecSpec => []HeardInv
<1>1. ExecInit => HeardInv
  BY FS_EmptySet DEF ExecInit, HeardInv, Empty
<1>2. ExecBase /\ RunsInv /\ HeardInv /\ [ExecNext]_execVars => HeardInv'  BY NextHeard
<1> QED  BY <1>1, <1>2, BaseAlways, RunsAlways, PTL DEF ExecSpec

\* Until a shutdown begins, a run asked to stop has a cancelled control, or the
\* command that asked is about to cancel it, or the worker of an earlier run
\* took the control away, which one job alone cannot do: for any number of
\* tasks and jobs, through retries and crashes (execute_started,
\* request_cancel_public).
THEOREM CancelsAreHeard == ExecSpec => []CancelHeard
<1>1. ASSUME ExecBase, HeardInv  PROVE CancelHeard
  <2> SUFFICES ASSUME shut = "no", NEW id \in Active, NEW k, k = RunOf(id),
                      tasks[id].state = "Cancelling", k \in DOMAIN workers, workers[k].pc \in InIO
               PROVE  \/ workers[k].cancelled \/ id \in asked
                      \/ MaxJobs > 1 /\ id \notin DOMAIN active
    BY Zenon DEF CancelHeard
  <2>1. k.id = id /\ tasks[id] = store[id]
    BY <1>1 DEF RunOf, Active, ExecBase, IInv, MemoryMatchesStore
  <2>2. Heard(k)  BY <1>1 DEF HeardInv
  <2> QED  BY <2>1, <2>2, Zenon DEF Heard
<1> QED  BY <1>1, BaseAlways, HeardAlways, PTL

-----------------------------------------------------------------------------
(* The reasons for which the runner stops. *)

\* What worker k knows of row t: it is cancelled only for a task that is being
\* cancelled, it ends its run or finds it completed, and an error of its own
\* means that the task is completed.
ReasonOK(k, w, t) ==
  /\ w.cancelled /\ k.gen = t.generation => t.state = "Cancelling"
  /\ w.fault = "cancelled" /\ k.gen = t.generation => t.state = "Cancelling"
  /\ w.pc = "disconnect" /\ w.fault = "none" => t.state = "Completed"
  /\ w.pc = "persist" => k.gen = t.generation \/ t.state = "Completed"
  /\ w.pc = "reschedule" => t.state = "Failed" /\ t.failure = "retryable"
  /\ w.err => t.state = "Completed"

\* No row is stamped later than the clock, and nobody pauses a task.
RowsAreFresh ==
  \A id \in DOMAIN store : store[id].updatedAt <= clock /\ store[id].state # "Pausing"

LEMMA WorkerStepReason ==
  ASSUME ExecBase, StoreMayFail = FALSE, RowsAreFresh, shut = "no", NEW k \in DOMAIN workers,
         WorkerStep(k), RunOK(k, workers[k], store[k.id]), ReasonOK(k, workers[k], store[k.id])
  PROVE  ReasonOK(k, workers'[k], store'[k.id])
<1> DEFINE w == workers[k]
           v == workers'[k]
           r == store[k.id]
           t == tasks[k.id]
<1>1. /\ ExecTypeOK /\ w \in Worker /\ r \in Task /\ t = r /\ Open(k.id) /\ clock \in Nat
      /\ k.gen \in Nat /\ workers \in [DOMAIN workers -> Worker] /\ k.id \in DOMAIN store
  BY WorkerFacts DEF ExecBase, ExecTypeOK
<1>2. Steps = {"spawned", "connect", "read", "record", "disconnect", "heed", "begin", "write",
               "size", "commit", "complete", "abort", "persist", "reschedule", "unregister", "done"}
  BY DEF Steps, Awaits
<1>3. /\ InIO = {"connect", "begin", "read", "write", "record", "size", "commit", "complete"}
      /\ Held = InIO \cup {"spawned", "heed", "abort"}
  BY DEF InIO, Held
<1>4. Faults = {"none", "retryable", "permanent", "conflict", "cancelled"}  BY DEF Faults
<1>5. k.gen = r.generation => r.state \in {"Running", "Cancelling"}
  <2>1. k.gen = r.generation => IsActive(r)
    BY WorkerFacts DEF ExecBase, IInv, TokenDiscipline, Honoured
  <2> QED  BY <1>1, <2>1 DEF IsActive, ActiveKinds, RowsAreFresh
<1>6. CheckTime(t, clock)  BY <1>1 DEF CheckTime, RowsAreFresh
<1>7. ASSUME NEW pc \in Steps, Goes(k, pc)
      PROVE  v.pc = pc /\ v.fault = w.fault /\ v.err = w.err /\ v.cancelled = w.cancelled
  BY <1>7, <1>1, GoesFacts DEF SameData
<1>8. ASSUME NEW pc \in Steps \ {"disconnect", "persist", "reschedule"}, Goes(k, pc),
             store'[k.id].state = r.state, store'[k.id].generation = r.generation
      PROVE  ReasonOK(k, v, store'[k.id])
  <2>1. v.pc = pc /\ v.fault = w.fault /\ v.err = w.err /\ v.cancelled = w.cancelled  BY <1>7, <1>8
  <2>2. v.pc \notin {"disconnect", "persist", "reschedule"}  BY <2>1
  <2> QED  BY <1>8, <2>1, <2>2, Zenon DEF ReasonOK
<1>9. ASSUME NEW fault \in Faults \ {"none"}, NEW pc \in {"abort", "disconnect", "persist"},
             Faulty(k, pc, fault), w.pc \in InIO, store' = store, fault = "cancelled" => w.cancelled
      PROVE  ReasonOK(k, v, store'[k.id])
  <2>1. v.pc = pc /\ v.fault = fault /\ v.err = w.err /\ v.cancelled = w.cancelled
    BY <1>9, <1>1, <1>2, FaultyFacts DEF FaultyData
  <2>2. k.gen = r.generation  BY <1>3, <1>9 DEF RunOK
  <2>3. v.fault # "none" /\ v.pc # "reschedule" /\ store'[k.id] = r  BY <1>9, <2>1
  <2> QED  BY <1>9, <2>1, <2>2, <2>3, Zenon DEF ReasonOK
<1>10. ASSUME w.pc \in InIO, store' = store,
              \/ w.cancelled /\ \E pc \in {"abort", "disconnect", "persist"} : Faulty(k, pc, "cancelled")
              \/ \E pc \in {"abort", "disconnect", "persist"},
                    fault \in {"retryable", "permanent", "conflict"} : Faulty(k, pc, fault)
       PROVE  ReasonOK(k, v, store'[k.id])
  <2>1. ASSUME w.cancelled, NEW pc \in {"abort", "disconnect", "persist"}, Faulty(k, pc, "cancelled")
        PROVE  ReasonOK(k, v, store'[k.id])
    BY <1>4, <1>9, <1>10, <2>1
  <2>2. ASSUME NEW pc \in {"abort", "disconnect", "persist"},
               NEW fault \in {"retryable", "permanent", "conflict"}, Faulty(k, pc, fault)
        PROVE  ReasonOK(k, v, store'[k.id])
    BY <1>4, <1>9, <1>10, <2>2
  <2> QED  BY <1>10, <2>1, <2>2, Zenon
\* A call in the middle of the I/O: the token is good, so a refusal is a
\* retryable failure.
<1>11. ASSUME NEW can, NEW u, NEW next, Tell(k, can, u, next), w.pc \in InIO
       PROVE  \/ can /\ Saved(k.id, u) /\ Goes(k, next)
              \/ ReasonOK(k, v, store'[k.id])
  <2>1. CASE can /\ Saved(k.id, u) /\ Goes(k, next)  BY <2>1
  <2>2. CASE can /\ Lost(k.id, u) /\ Faulty(k, "abort", "retryable")
    <3>1. store' = store /\ Faulty(k, "abort", "retryable")  BY <2>2, Zenon DEF Lost
    <3>2. ReasonOK(k, v, store'[k.id])  BY <3>1, <1>10, <1>11
    <3> QED  BY <3>2, Zenon
  <2>3. CASE ~can /\ Rejected(k) /\ UNCHANGED <<tasks, store>>
    <3>1. CheckToken(t, k.gen)  BY <1>1, <1>3, <1>11 DEF RunOK, CheckToken
    <3>2. Faulty(k, "abort", "retryable") /\ store' = store  BY <2>3, <3>1 DEF Rejected
    <3>3. ReasonOK(k, v, store'[k.id])  BY <3>2, <1>10, <1>11
    <3> QED  BY <3>3, Zenon
  <2> QED  BY <1>11, <2>1, <2>2, <2>3, Zenon DEF Tell
<1>12. ASSUME NEW can, NEW same, NEW next \in InIO,
              Tell(k, can, RecordProgress(t, w.off, w.total, same, clock), next), w.pc \in InIO
       PROVE  ReasonOK(k, v, store'[k.id])
  <2> PICK u : u = RecordProgress(t, w.off, w.total, same, clock)  OBVIOUS
  <2>1. u.generation = r.generation /\ u.state = r.state  BY <1>1, ProgressFacts
  <2>2. CASE Saved(k.id, u) /\ Goes(k, next)
    <3>1. store'[k.id] = u \/ store' = store
      BY <2>2, <1>1, SavedRow
    <3> QED  BY <2>1, <2>2, <3>1, <1>2, <1>3, <1>8, <1>12
  <2> QED  BY <1>11, <1>12, <2>2, Zenon
\* A call that ends the worker.
<1>13. ASSUME NEW can, NEW u, NEW next, Settle(k, can, u, next)
       PROVE  \/ can /\ Saved(k.id, u) /\ Goes(k, next)
              \/ ~can /\ Errs(k) /\ store' = store
  BY <1>13, Zenon DEF Settle, Lost
<1>14. ASSUME NEW u, Saved(k.id, u), u.revision = r.revision + 1  PROVE store'[k.id] = u
  <2>1. u.revision # t.revision  BY <1>1, <1>14 DEF Task
  <2> QED  BY <1>1, <1>14, <2>1, SavedRow
<1>15. CASE Register(k)
  <2>1. Goes(k, "heed") /\ store' = store  BY <1>15, Zenon DEF Register, vars
  <2> QED  BY <2>1, <1>2, <1>8
<1>16. CASE HeedCancel(k)
  <2> PICK c : c = (w.cancelled \/ tasks[k.id].state = "Cancelling")  OBVIOUS
  <2>1. workers' = [workers EXCEPT ![k].pc = "connect", ![k].cancelled = c] /\ store' = store
    BY <1>16 DEF HeedCancel, vars
  <2>2. v.pc = "connect" /\ v.cancelled = c /\ v.fault = w.fault /\ v.err = w.err
    BY <2>1, <1>1 DEF Worker
  <2>3. v.cancelled /\ k.gen = r.generation => r.state = "Cancelling"
    BY <2>2, <1>1, Zenon DEF ReasonOK
  <2>4. v.pc \notin {"disconnect", "persist", "reschedule"} /\ store'[k.id] = r  BY <2>1, <2>2
  <2> QED  BY <2>2, <2>3, <2>4, Zenon DEF ReasonOK
<1>17. CASE Connect(k)
  <2>1. w.pc = "connect" /\ store' = store  BY <1>17 DEF Connect, At, vars
  <2>2. \/ w.cancelled /\ Faulty(k, "persist", "cancelled")
        \/ \E fault \in {"retryable", "permanent", "conflict"} : Faulty(k, "persist", fault)
        \/ Goes(k, "begin")
    BY <1>17, Zenon DEF Connect
  <2>3. CASE Goes(k, "begin")  BY <2>1, <2>3, <1>2, <1>8
  <2> QED  BY <2>1, <2>2, <2>3, <1>3, <1>10
<1>18. CASE BeginWrite(k)
  <2>1. w.pc = "begin" /\ store' = store  BY <1>18 DEF BeginWrite, At, vars
  <2>2. \/ w.cancelled /\ Faulty(k, "disconnect", "cancelled")
        \/ \E fault \in {"retryable", "permanent", "conflict"} : Faulty(k, "disconnect", fault)
        \/ workers' = [workers EXCEPT ![k].pc = "read", ![k].off = w.base, ![k].total = ExpectedSize[k.id]]
    BY <1>18, Zenon DEF BeginWrite
  <2>3. CASE workers' = [workers EXCEPT ![k].pc = "read", ![k].off = w.base, ![k].total = ExpectedSize[k.id]]
    <3>1. v.pc = "read" /\ v.fault = w.fault /\ v.err = w.err /\ v.cancelled = w.cancelled
      BY <2>3, <1>1 DEF Worker
    <3>2. v.pc \notin {"disconnect", "persist", "reschedule"} /\ store'[k.id] = r  BY <2>1, <3>1
    <3> QED  BY <3>1, <3>2, Zenon DEF ReasonOK
  <2> QED  BY <2>1, <2>2, <2>3, <1>3, <1>10
<1>19. CASE ReadChunk(k)
  <2>1. w.pc = "read" /\ store' = store  BY <1>19 DEF ReadChunk, At, vars
  <2>2. \/ w.cancelled /\ Faulty(k, "abort", "cancelled")
        \/ \E fault \in {"retryable", "permanent", "conflict"} : Faulty(k, "abort", fault)
        \/ \E size \in {None, SourceSize[k.id]} :
             workers' = [workers EXCEPT
               ![k].total = IF @ = None THEN size ELSE @,
               ![k].eof = w.off + 1 >= SourceSize[k.id],
               ![k].pc = IF w.off < SourceSize[k.id] THEN "write" ELSE "size"]
    BY <1>19, Zenon DEF ReadChunk
  <2>3. ASSUME NEW size \in {None, SourceSize[k.id]},
               workers' = [workers EXCEPT
                 ![k].total = IF @ = None THEN size ELSE @,
                 ![k].eof = w.off + 1 >= SourceSize[k.id],
                 ![k].pc = IF w.off < SourceSize[k.id] THEN "write" ELSE "size"]
        PROVE  ReasonOK(k, v, store'[k.id])
    <3> PICK total : total = IF w.total = None THEN size ELSE w.total  OBVIOUS
    <3> PICK eof : eof = (w.off + 1 >= SourceSize[k.id])  OBVIOUS
    <3> PICK pc : pc = IF w.off < SourceSize[k.id] THEN "write" ELSE "size"  OBVIOUS
    <3>1. workers' = [workers EXCEPT ![k].total = total, ![k].eof = eof, ![k].pc = pc]
      BY <2>3, <1>1
    <3>2. v.pc = pc /\ v.fault = w.fault /\ v.err = w.err /\ v.cancelled = w.cancelled
      BY <3>1, <1>1 DEF Worker
    <3>3. v.pc \notin {"disconnect", "persist", "reschedule"} /\ store'[k.id] = r  BY <2>1, <3>2
    <3> QED  BY <3>2, <3>3, Zenon DEF ReasonOK
  <2>4. CASE \/ w.cancelled /\ Faulty(k, "abort", "cancelled")
             \/ \E fault \in {"retryable", "permanent", "conflict"} : Faulty(k, "abort", fault)
    BY <2>1, <2>4, <1>3, <1>10
  <2> QED  BY <2>2, <2>3, <2>4, Zenon
<1>20. CASE WriteChunk(k)
  <2>1. w.pc = "write" /\ store' = store  BY <1>20 DEF WriteChunk, At, vars
  <2>2. \/ w.cancelled /\ Faulty(k, "abort", "cancelled")
        \/ \E fault \in {"retryable", "permanent", "conflict"} : Faulty(k, "abort", fault)
        \/ workers' = [workers EXCEPT ![k].pc = "record", ![k].off = @ + 1]
    BY <1>20, Zenon DEF WriteChunk
  <2>3. CASE workers' = [workers EXCEPT ![k].pc = "record", ![k].off = @ + 1]
    <3>1. v.pc = "record" /\ v.fault = w.fault /\ v.err = w.err /\ v.cancelled = w.cancelled
      BY <2>3, <1>1 DEF Worker
    <3>2. v.pc \notin {"disconnect", "persist", "reschedule"} /\ store'[k.id] = r  BY <2>1, <3>1
    <3> QED  BY <3>1, <3>2, Zenon DEF ReasonOK
  <2> QED  BY <2>1, <2>2, <2>3, <1>3, <1>10
<1>21. CASE RecordChunk(k)
  <2>1. w.pc = "record"  BY <1>21 DEF RecordChunk, At
  <2>2. \/ /\ store' = store
           /\ \/ w.cancelled /\ Faulty(k, "abort", "cancelled")
              \/ Faulty(k, "abort", "retryable")
        \/ Tell(k, CanRecordProgress(t, k.gen, w.off, w.total, clock),
                RecordProgress(t, w.off, w.total, FALSE, clock), IF w.eof THEN "size" ELSE "read")
    BY <1>21, Zenon DEF RecordChunk
  <2>3. CASE \/ w.cancelled /\ Faulty(k, "abort", "cancelled") /\ store' = store
             \/ Faulty(k, "abort", "retryable") /\ store' = store
    BY <2>1, <2>3, <1>3, <1>10
  <2>4. (IF w.eof THEN "size" ELSE "read") \in InIO  BY <1>3
  <2> QED  BY <2>1, <2>2, <2>3, <2>4, <1>3, <1>12
<1>22. CASE CheckFinalSize(k)
  <2>1. w.pc = "size"  BY <1>22 DEF CheckFinalSize, At
  <2>2. \/ Faulty(k, "abort", "conflict") /\ store' = store
        \/ Goes(k, "commit") /\ store' = store
        \/ \E same \in BOOLEAN : Tell(k, CanRecordProgress(t, k.gen, w.off, w.total, clock),
                RecordProgress(t, w.off, w.total, same, clock), "commit")
    BY <1>22, Zenon DEF CheckFinalSize
  <2>3. CASE Faulty(k, "abort", "conflict") /\ store' = store  BY <2>1, <2>3, <1>3, <1>10
  <2>4. CASE Goes(k, "commit") /\ store' = store  BY <2>4, <1>2, <1>8
  <2> QED  BY <2>1, <2>2, <2>3, <2>4, <1>3, <1>12
<1>23. CASE CommitWrite(k)
  <2>1. w.pc = "commit" /\ store' = store  BY <1>23 DEF CommitWrite, At, vars
  <2>2. \/ w.cancelled /\ Faulty(k, "abort", "cancelled")
        \/ \E fault \in {"retryable", "permanent", "conflict"} : Faulty(k, "abort", fault)
        \/ Goes(k, "complete")
    BY <1>23, Zenon DEF CommitWrite
  <2>3. CASE Goes(k, "complete")  BY <2>1, <2>3, <1>2, <1>8
  <2> QED  BY <2>1, <2>2, <2>3, <1>3, <1>10
<1>24. CASE ReportComplete(k)
  <2>1. w.pc = "complete"  BY <1>24 DEF ReportComplete, At
  <2>2. \/ w.cancelled /\ Faulty(k, "abort", "cancelled") /\ store' = store
        \/ \E fault \in {"retryable", "permanent", "conflict"} :
             Faulty(k, "abort", fault) /\ store' = store
        \/ Tell(k, CanComplete(t, k.gen, clock), Complete(t, clock), "disconnect")
    BY <1>24, Zenon DEF ReportComplete
  <2>3. CASE \/ w.cancelled /\ Faulty(k, "abort", "cancelled") /\ store' = store
             \/ \E fault \in {"retryable", "permanent", "conflict"} :
                  Faulty(k, "abort", fault) /\ store' = store
    BY <2>1, <2>3, <1>3, <1>10
  <2>4. CASE Saved(k.id, Complete(t, clock)) /\ Goes(k, "disconnect")
    <3> PICK u : u = Complete(t, clock)  OBVIOUS
    <3>1. RunEnds(r, u) /\ u.state = "Completed" /\ u.revision = r.revision + 1
      BY <1>1, CompleteFacts
    <3>2. store'[k.id] = u  BY <2>4, <3>1, <1>14
    <3>3. k.gen # u.generation
      BY <2>1, <3>1, <1>1, <1>3 DEF RunOK, RunEnds, Task
    <3>4. v.pc = "disconnect"  BY <2>4, <1>2, <1>7
    <3>5. v.pc # "persist" /\ v.pc # "reschedule"  BY <3>4
    <3> QED  BY <3>1, <3>2, <3>3, <3>5, Zenon DEF ReasonOK
  <2> QED  BY <2>1, <2>2, <2>3, <2>4, <1>3, <1>11
<1>25. CASE AbortWrite(k)
  <2>1. w.pc = "abort" /\ Goes(k, "disconnect") /\ store' = store  BY <1>25 DEF AbortWrite, At, vars
  <2>2. v.pc = "disconnect" /\ v.fault = w.fault /\ v.err = w.err /\ v.cancelled = w.cancelled
    BY <2>1, <1>2, <1>7
  <2>3. v.fault # "none" /\ v.pc \notin {"persist", "reschedule"} /\ store'[k.id] = r
    BY <2>1, <2>2 DEF RunOK
  <2> QED  BY <2>2, <2>3, Zenon DEF ReasonOK
<1>26. CASE Disconnect(k)
  <2>1. w.pc = "disconnect" /\ store' = store  BY <1>26 DEF Disconnect, At, vars
  <2>2. CASE w.fault # "none"
    <3>1. Goes(k, "persist")  BY <1>26, <2>2, Zenon DEF Disconnect
    <3>2. v.pc = "persist" /\ v.fault = w.fault /\ v.err = w.err /\ v.cancelled = w.cancelled
      BY <3>1, <1>2, <1>7
    <3>3. k.gen = r.generation /\ v.pc \notin {"disconnect", "reschedule"} /\ store'[k.id] = r
      BY <2>1, <2>2, <3>2 DEF RunOK
    <3> QED  BY <3>2, <3>3, Zenon DEF ReasonOK
  <2>3. CASE w.fault = "none"
    <3>1. r.state = "Completed" /\ store'[k.id] = r  BY <2>1, <2>3 DEF ReasonOK
    <3>2. k.gen # r.generation  BY <3>1, <1>5
    <3>3. Goes(k, "unregister") \/ \E fault \in {"retryable", "permanent"} : Faulty(k, "persist", fault)
      BY <1>26, <2>3, Zenon DEF Disconnect
    <3>4. v.pc \in {"unregister", "persist"}
      BY <3>3, <1>1, <1>2, <1>4, <1>7, FaultyFacts
    <3> QED  BY <3>1, <3>2, <3>4 DEF ReasonOK
  <2> QED  BY <2>2, <2>3
<1>27. CASE PersistFailure(k)
  <2>1. w.pc = "persist" /\ w.fault # "none" /\ w.fault \in Faults
    BY <1>27, <1>1 DEF PersistFailure, At, ExecBase, InBounds, WorkerInBounds, Worker
  <2>2. CASE k.gen # r.generation
    <3>1. r.state = "Completed"  BY <2>1, <2>2 DEF ReasonOK
    <3>2. ~CheckToken(t, k.gen)  BY <1>1, <2>2 DEF CheckToken
    <3>3. /\ ~CanConfirmCancelled(t, k.gen, t.bytes, clock) /\ ~CanFail(t, k.gen, clock)
          /\ ~CanEnterConflict(t, k.gen, t.bytes, clock)
      BY <3>2, Zenon DEF CanConfirmCancelled, CanEnterConflict, CanFail
    <3>4. Errs(k) /\ store' = store
      <4>1. \/ Settle(k, CanConfirmCancelled(t, k.gen, t.bytes, clock),
                      ConfirmCancelled(t, t.bytes, clock), "unregister")
            \/ Settle(k, CanEnterConflict(t, k.gen, t.bytes, clock),
                      EnterConflict(t, t.bytes, clock), "unregister")
            \/ Settle(k, CanFail(t, k.gen, clock), Fail(t, w.fault, clock),
                      IF w.fault = "retryable" THEN "reschedule" ELSE "unregister")
        BY <1>27, Zenon DEF PersistFailure
      <4> QED  BY <3>3, <4>1, <1>13, Zenon
    <3>5. v.pc = "unregister"  BY <3>4, <1>1, ErrsFacts
    <3>6. v.pc \notin {"disconnect", "persist", "reschedule"} /\ store'[k.id] = r  BY <3>4, <3>5
    <3> QED  BY <2>2, <3>1, <3>6, Zenon DEF ReasonOK
  <2>3. CASE k.gen = r.generation
    <3>1. r.state \in {"Running", "Cancelling"} /\ CheckToken(t, k.gen)
      BY <1>1, <1>5, <2>3 DEF CheckToken
    <3>2. ~w.err /\ (w.fault = "cancelled" => t.state = "Cancelling")
      BY <2>3, <3>1, <1>1, Zenon DEF ReasonOK
    \* The run is over: nothing but the retry is left to do.
    <3>3. ASSUME NEW u, Saved(k.id, u), u.revision = r.revision + 1, RunEnds(r, u),
                 NEW next \in {"unregister", "reschedule"}, Goes(k, next),
                 next = "reschedule" => u.state = "Failed" /\ u.failure = "retryable"
          PROVE  ReasonOK(k, v, store'[k.id])
      <4>1. store'[k.id] = u  BY <3>3, <1>14
      <4>2. k.gen # u.generation  BY <2>3, <3>3, <1>1 DEF RunEnds, Task
      <4>3. v.pc = next /\ v.err = w.err  BY <3>3, <1>2, <1>7
      <4>4. v.pc \notin {"disconnect", "persist"}  BY <3>3, <4>3
      <4>5. v.pc = "reschedule" => u.state = "Failed" /\ u.failure = "retryable"  BY <3>3, <4>3
      <4> QED  BY <3>2, <4>1, <4>2, <4>3, <4>4, <4>5, Zenon DEF ReasonOK
    <3>4. CASE t.state = "Cancelling" \/ w.fault = "cancelled"
      <4> PICK u : u = ConfirmCancelled(t, t.bytes, clock)  OBVIOUS
      <4>1. CanConfirmCancelled(t, k.gen, t.bytes, clock)
        BY <3>1, <3>2, <3>4, <1>1, <1>6 DEF CanConfirmCancelled, EnsureCheckpoint, Task
      <4>2. Settle(k, CanConfirmCancelled(t, k.gen, t.bytes, clock), u, "unregister")
        BY <1>27, <3>4, Zenon DEF PersistFailure
      <4>3. Saved(k.id, u) /\ Goes(k, "unregister")  BY <4>1, <4>2, <1>13, Zenon
      <4>4. RunEnds(r, u) /\ u.revision = r.revision + 1  BY <1>1, ConfirmCancelledFacts
      <4> QED  BY <4>3, <4>4, <3>3
    <3>5. CASE ~(t.state = "Cancelling" \/ w.fault = "cancelled")
      <4>1. CanFail(t, k.gen, clock)  BY <3>1, <3>5, <1>1, <1>6 DEF CanFail
      <4>2. CASE w.fault = "conflict"
        <5> PICK u : u = EnterConflict(t, t.bytes, clock)  OBVIOUS
        <5>1. CanEnterConflict(t, k.gen, t.bytes, clock)
          BY <4>1, <1>1 DEF CanEnterConflict, EnsureCheckpoint, Task
        <5>2. Settle(k, CanEnterConflict(t, k.gen, t.bytes, clock), u, "unregister")
          BY <1>27, <3>5, <4>2, Zenon DEF PersistFailure
        <5>3. Saved(k.id, u) /\ Goes(k, "unregister")  BY <5>1, <5>2, <1>13, Zenon
        <5>4. RunEnds(r, u) /\ u.revision = r.revision + 1  BY <1>1, ConflictFacts
        <5> QED  BY <5>3, <5>4, <3>3
      <4>3. CASE w.fault # "conflict"
        <5> PICK u : u = Fail(t, w.fault, clock)  OBVIOUS
        <5> PICK next : next = IF w.fault = "retryable" THEN "reschedule" ELSE "unregister"  OBVIOUS
        <5>1. Settle(k, CanFail(t, k.gen, clock), u, next)
          BY <1>27, <3>5, <4>3, Zenon DEF PersistFailure
        <5>2. Saved(k.id, u) /\ Goes(k, next)  BY <4>1, <5>1, <1>13, Zenon
        <5>3. /\ RunEnds(r, u) /\ u.revision = r.revision + 1 /\ u.state = "Failed"
              /\ u.failure = w.fault
          BY <1>1, FailFacts
        <5>4. next \in {"unregister", "reschedule"} /\ (next = "reschedule" => u.failure = "retryable")
          BY <5>3
        <5> QED  BY <5>2, <5>3, <5>4, <3>3
      <4> QED  BY <4>2, <4>3
    <3> QED  BY <3>4, <3>5
  <2> QED  BY <2>2, <2>3
<1>28. CASE PersistRetry(k)
  <2>1. w.pc = "reschedule"  BY <1>28 DEF PersistRetry, At
  <2>2. r.state = "Failed" /\ r.failure = "retryable" /\ ~w.err
    <3>1. r.state = "Failed" /\ r.failure = "retryable"  BY <2>1 DEF ReasonOK
    <3> QED  BY <3>1, Zenon DEF ReasonOK
  <2>3. k.gen # r.generation  BY <2>2, <1>5
  <2>4. CASE t.attempts >= MaxAttempts[k.id]
    <3>1. Goes(k, "unregister") /\ store' = store  BY <1>28, <2>4, Zenon DEF PersistRetry
    <3> QED  BY <3>1, <1>2, <1>8
  <2>5. CASE ~(t.attempts >= MaxAttempts[k.id])
    <3> PICK u : u = ScheduleRetry(t, clock)  OBVIOUS
    <3>1. CanScheduleRetry(k.id, t, clock)
      <4>1. t.attempts \in Nat /\ MaxAttempts[k.id] \in Nat  BY <1>1, WorkerFacts, TaskAssumption DEF Task
      <4> QED  BY <2>2, <2>5, <4>1, <1>1, <1>6 DEF CanScheduleRetry
    <3>2. Settle(k, CanScheduleRetry(k.id, t, clock), u, "unregister")
      BY <1>28, <2>5, Zenon DEF PersistRetry
    <3>3. Saved(k.id, u) /\ Goes(k, "unregister")  BY <3>1, <3>2, <1>13, Zenon
    <3>4. store'[k.id] = u \/ store' = store  BY <3>3, <1>1, SavedRow
    <3>5. u.generation = r.generation  BY <1>1, RetryFacts
    <3>6. k.gen # store'[k.id].generation  BY <2>3, <3>4, <3>5
    <3>7. v.pc = "unregister" /\ v.err = w.err  BY <3>3, <1>2, <1>7
    <3>8. v.pc \notin {"disconnect", "persist", "reschedule"}  BY <3>7
    <3> QED  BY <2>2, <3>6, <3>7, <3>8, Zenon DEF ReasonOK
  <2> QED  BY <2>4, <2>5
<1>29. CASE Unregister(k)
  <2>1. Goes(k, "done") /\ store' = store  BY <1>29 DEF Unregister, vars
  <2> QED  BY <2>1, <1>2, <1>8
<1> QED
  BY <1>15, <1>16, <1>17, <1>18, <1>19, <1>20, <1>21, <1>22, <1>23, <1>24, <1>25, <1>26, <1>27,
     <1>28, <1>29, Zenon DEF WorkerStep

\* Rows change only under the lock of the queue, and a worker takes it for its
\* two transactions only while nobody has it.
LEMMA WorkerStepLocks ==
  ASSUME ExecBase, NEW k \in DOMAIN workers, WorkerStep(k)
  PROVE  /\ store' = store \/ Unlocked \/ workers[k].pc = "reschedule"
         /\ workers'[k].pc = "reschedule" => Unlocked
<1> DEFINE w == workers[k]
           v == workers'[k]
<1>1. ExecTypeOK /\ w \in Worker /\ workers \in [DOMAIN workers -> Worker]
  BY WorkerFacts DEF ExecBase, ExecTypeOK
<1>2. Steps = {"spawned", "connect", "read", "record", "disconnect", "heed", "begin", "write",
               "size", "commit", "complete", "abort", "persist", "reschedule", "unregister", "done"}
  BY DEF Steps, Awaits
<1>3. Faults = {"none", "retryable", "permanent", "conflict", "cancelled"}  BY DEF Faults
<1>4. ASSUME NEW pc \in Steps \ {"reschedule"}, Goes(k, pc)  PROVE v.pc # "reschedule"
  BY <1>4, <1>1, GoesFacts
<1>5. ASSUME \E pc \in {"abort", "disconnect", "persist"}, fault \in Faults : Faulty(k, pc, fault)
      PROVE  v.pc # "reschedule"
  BY <1>5, <1>1, <1>2, FaultyFacts
<1>6. ASSUME Errs(k)  PROVE v.pc # "reschedule"  BY <1>6, <1>1, ErrsFacts
<1>7. ASSUME NEW pc \in Steps \ {"reschedule"}, Goes(k, pc) \/ \E can, u : Tell(k, can, u, pc)
      PROVE  v.pc # "reschedule"
  <2>1. ASSUME NEW can, NEW u, Tell(k, can, u, pc)
        PROVE  Goes(k, pc) \/ Faulty(k, "abort", "retryable") \/ Faulty(k, "abort", "cancelled")
    BY <2>1 DEF Tell, Rejected
  <2> QED  BY <1>3, <1>4, <1>5, <1>7, <2>1
<1>8. CASE Register(k)
  <2>1. store' = store /\ (Goes(k, "heed") \/ workers' = [workers EXCEPT ![k].pc = "done", ![k].err = TRUE])
    BY <1>8, Zenon DEF Register, vars
  <2>2. CASE workers' = [workers EXCEPT ![k].pc = "done", ![k].err = TRUE]
    BY <2>1, <2>2, <1>1 DEF Worker
  <2> QED  BY <2>1, <2>2, <1>2, <1>4
<1>9. CASE HeedCancel(k)  BY <1>9 DEF HeedCancel
<1>10. CASE Connect(k)
  <2>1. /\ store' = store
        /\ Goes(k, "begin") \/ \E fault \in Faults : Faulty(k, "persist", fault)
    BY <1>10, <1>3 DEF Connect, vars
  <2> QED  BY <2>1, <1>2, <1>4, <1>5
<1>11. CASE BeginWrite(k)
  <2>1. store' = store  BY <1>11 DEF BeginWrite, vars
  <2>2. \/ Faulty(k, "disconnect", "cancelled")
        \/ \E fault \in {"retryable", "permanent", "conflict"} : Faulty(k, "disconnect", fault)
        \/ workers' = [workers EXCEPT ![k].pc = "read", ![k].off = w.base, ![k].total = ExpectedSize[k.id]]
    BY <1>11, Zenon DEF BeginWrite
  <2>3. CASE workers' = [workers EXCEPT ![k].pc = "read", ![k].off = w.base, ![k].total = ExpectedSize[k.id]]
    BY <2>1, <2>3, <1>1, SMTT(40) DEF Worker
  <2> QED  BY <2>1, <2>2, <2>3, <1>3, <1>5
<1>12. CASE ReadChunk(k)
  <2>1. store' = store  BY <1>12 DEF ReadChunk, vars
  <2>2. \/ Faulty(k, "abort", "cancelled")
        \/ \E fault \in {"retryable", "permanent", "conflict"} : Faulty(k, "abort", fault)
        \/ \E size \in {None, SourceSize[k.id]} :
             workers' = [workers EXCEPT
               ![k].total = IF @ = None THEN size ELSE @,
               ![k].eof = w.off + 1 >= SourceSize[k.id],
               ![k].pc = IF w.off < SourceSize[k.id] THEN "write" ELSE "size"]
    BY <1>12, Zenon DEF ReadChunk
  <2>3. ASSUME NEW size,
               workers' = [workers EXCEPT
                 ![k].total = IF @ = None THEN size ELSE @,
                 ![k].eof = w.off + 1 >= SourceSize[k.id],
                 ![k].pc = IF w.off < SourceSize[k.id] THEN "write" ELSE "size"]
        PROVE  v.pc # "reschedule"
    <3> PICK total : total = IF w.total = None THEN size ELSE w.total  OBVIOUS
    <3> PICK eof : eof = (w.off + 1 >= SourceSize[k.id])  OBVIOUS
    <3> PICK pc : pc = IF w.off < SourceSize[k.id] THEN "write" ELSE "size"  OBVIOUS
    <3>1. workers' = [workers EXCEPT ![k].total = total, ![k].eof = eof, ![k].pc = pc]
      BY <2>3, <1>1
    <3> QED  BY <3>1, <1>1 DEF Worker
  <2> QED  BY <2>1, <2>2, <2>3, <1>3, <1>5
<1>13. CASE WriteChunk(k)
  <2>1. store' = store  BY <1>13 DEF WriteChunk, vars
  <2>2. \/ Faulty(k, "abort", "cancelled")
        \/ \E fault \in {"retryable", "permanent", "conflict"} : Faulty(k, "abort", fault)
        \/ workers' = [workers EXCEPT ![k].pc = "record", ![k].off = @ + 1]
    BY <1>13, Zenon DEF WriteChunk
  <2>3. CASE workers' = [workers EXCEPT ![k].pc = "record", ![k].off = @ + 1]
    BY <2>1, <2>3, <1>1 DEF Worker
  <2> QED  BY <2>1, <2>2, <2>3, <1>3, <1>5
<1>14. CASE RecordChunk(k) \/ CheckFinalSize(k) \/ ReportComplete(k)
  <2>1. Unlocked  BY <1>14 DEF RecordChunk, CheckFinalSize, ReportComplete
  <2> QED  BY <2>1
<1>15. CASE CommitWrite(k)
  <2>1. store' = store  BY <1>15 DEF CommitWrite, vars
  <2>2. \/ \E fault \in {"retryable", "permanent", "conflict", "cancelled"} : Faulty(k, "abort", fault)
        \/ Goes(k, "complete")
    BY <1>15, Zenon DEF CommitWrite
  <2> QED  BY <2>1, <2>2, <1>2, <1>3, <1>4, <1>5
<1>16. CASE AbortWrite(k)
  <2>1. store' = store /\ Goes(k, "disconnect")  BY <1>16 DEF AbortWrite, vars
  <2> QED  BY <2>1, <1>2, <1>4
<1>17. CASE Disconnect(k)
  <2>1. /\ store' = store
        /\ \/ Goes(k, "persist") \/ Goes(k, "unregister")
           \/ \E fault \in {"retryable", "permanent"} : Faulty(k, "persist", fault)
    BY <1>17, Zenon DEF Disconnect, vars
  <2> QED  BY <2>1, <1>2, <1>3, <1>4, <1>5
<1>18. CASE PersistFailure(k)  BY <1>18 DEF PersistFailure
<1>19. CASE PersistRetry(k)
  <2>1. w.pc = "reschedule"  BY <1>19 DEF PersistRetry, At
  <2>2. Goes(k, "unregister") \/ \E can, u : Settle(k, can, u, "unregister")
    BY <1>19, Zenon DEF PersistRetry
  <2>3. Goes(k, "unregister") \/ Errs(k)  BY <2>2, Zenon DEF Settle
  <2> QED  BY <2>1, <2>3, <1>2, <1>4, <1>6
<1>20. CASE Unregister(k)
  <2>1. store' = store /\ Goes(k, "done")  BY <1>20 DEF Unregister, vars
  <2> QED  BY <2>1, <1>2, <1>4
<1> QED
  BY <1>8, <1>9, <1>10, <1>11, <1>12, <1>13, <1>14, <1>15, <1>16, <1>17, <1>18, <1>19, <1>20, Zenon
  DEF WorkerStep

\* Every row that changes is stamped with the clock, which does not go back.
LEMMA NextFresh ==
  ASSUME ExecBase, RowsAreFresh, ClockMayGoBack = FALSE, [ExecNext]_execVars
  PROVE  RowsAreFresh'
<1>1. /\ clock \in Nat /\ clock' \in Nat
      /\ \A id \in DOMAIN store : store[id] \in Task /\ store[id].updatedAt \in Nat
  <2>1. IInv /\ IInv'  BY NextBase DEF ExecBase
  <2>2. clock \in Nat /\ clock' \in Nat  BY <2>1, QueueAssumption DEF IInv, TypeOK
  <2> QED  BY <2>1, <2>2 DEF IInv, TypeOK, Task
<1>2. ASSUME UNCHANGED <<clock, store>>  PROVE RowsAreFresh'
  BY <1>2 DEF RowsAreFresh
\* One row is put in the table.
<1>3. ASSUME clock' = clock, NEW id, NEW u, store' = store \/ store' = Put(store, id, u),
             u.updatedAt = clock, u.state # "Pausing"
      PROVE  RowsAreFresh'
  BY <1>1, <1>3 DEF RowsAreFresh, Put
<1>4. CASE UNCHANGED execVars  BY <1>2, <1>4 DEF execVars, vars
<1>5. ASSUME NEW id \in TaskIds, Client(id)  PROVE RowsAreFresh'
  <2>1. ClientTurn(id) /\ UNCHANGED clock  BY <1>5, ClientTurns
  <2>2. CASE store' = store  BY <2>1, <2>2, <1>2
  <2>3. ASSUME NEW u, store' = Put(store, id, u), u.updatedAt = clock, u.state # "Pausing"
        PROVE  RowsAreFresh'
    BY <2>1, <2>3, <1>3
  <2> QED  BY <2>1, <2>2, <2>3, Zenon DEF ClientTurn
<1>6. ASSUME NEW id \in TaskIds, CancelControl(id)  PROVE RowsAreFresh'
  BY <1>2, <1>6 DEF CancelControl, vars
<1>7. CASE Runner
  <2>1. ASSUME NEW id \in TaskIds, StartWorker(id)  PROVE RowsAreFresh'
    <3> PICK u : u = Start(tasks[id], clock)  OBVIOUS
    <3>1. Open(id)  BY <2>1, StartWorkerFacts
    <3>2. Mutate(id, u) /\ clock' = clock  BY <2>1 DEF StartWorker, StartNext
    <3>3. store' = store \/ store' = Put(store, id, u)  BY <3>2 DEF Mutate, CompareAndSwap
    <3>4. u.updatedAt = clock /\ u.state = "Running"
      BY <3>1, TaskFacts DEF Start, EndRun, Enter, Task
    <3> QED  BY <3>2, <3>3, <3>4, <1>3
  <2>2. ASSUME NEW id \in TaskIds, StartRefused(id)  PROVE RowsAreFresh'
    BY <1>2, <2>2 DEF StartRefused, vars
  <2>3. ASSUME NEW k \in DOMAIN workers, Join(k)  PROVE RowsAreFresh'
    BY <1>2, <2>3 DEF Join, vars
  <2>4. CASE StopFilling \/ Wake  BY <1>2, <2>4 DEF StopFilling, Wake, vars
  <2> QED  BY <1>7, <2>1, <2>2, <2>3, <2>4, Zenon DEF Runner
<1>8. ASSUME NEW k \in DOMAIN workers, WorkerStep(k)  PROVE RowsAreFresh'
  <2>1. /\ DOMAIN store' = DOMAIN store /\ WorkerTurn(store[k.id], store'[k.id])
        /\ \A other \in DOMAIN store \ {k.id} : store'[other] = store[other]
    BY <1>8, WorkerStepTurns
  <2>2. clock' = clock  BY <1>8, WorkerStepMoves DEF WorkerMoves
  <2> QED  BY <1>1, <2>1, <2>2 DEF RowsAreFresh, WorkerTurn
<1>9. ASSUME NEW k \in DOMAIN workers, Vanish(k)  PROVE RowsAreFresh'
  BY <1>2, <1>9 DEF Vanish, vars
<1>10. CASE Shutdown
  <2>1. CASE ShutdownControls \/ ShutdownPermits \/ ShutdownLock \/ ShutdownSignal \/ ShutdownTimeout
    BY <1>2, <2>1 DEF ShutdownControls, ShutdownPermits, ShutdownLock, ShutdownSignal,
       ShutdownTimeout, vars
  <2>2. ASSUME NEW id \in marking, ShutdownMark(id)  PROVE RowsAreFresh'
    <3> PICK u : u = IF IsActive(tasks[id]) THEN RequestCancel(tasks[id], clock) ELSE tasks[id]
      OBVIOUS
    <3>1. Open(id) /\ clock' = clock
      BY <2>2 DEF ShutdownMark, ExecBase, ExecTypeOK, Opened, Open
    <3>2. store' = store \/ Saved(id, u)  BY <2>2, Zenon DEF ShutdownMark, Lost
    <3>3. store' = store \/ store' = Put(store, id, u)  BY <3>1, <3>2, SavedRow
    <3>4. tasks[id] \in Task /\ tasks[id] = store[id] /\ id \in DOMAIN store  BY <3>1, TaskFacts
    <3>5. u = store[id] \/ (u.updatedAt = clock /\ u.state = "Cancelling")
      <4>1. CASE ~IsActive(tasks[id])  BY <3>4, <4>1
      <4>2. CASE IsActive(tasks[id])
        <5>1. u = RequestCancel(tasks[id], clock)  BY <4>2
        <5>2. u = tasks[id] \/ u.updatedAt = clock  BY <3>4, <5>1, CancelTurns
        <5>3. u.state = "Cancelling"  BY <3>4, <4>2, <5>1, CancelFacts DEF IsActive
        <5> QED  BY <3>4, <5>2, <5>3
      <4> QED  BY <4>1, <4>2
    <3>6. CASE u = store[id]
      <4>1. \A other \in DOMAIN store' : other \in DOMAIN store /\ store'[other] = store[other]
        BY <3>3, <3>4, <3>6 DEF Put
      <4> QED  BY <3>1, <4>1 DEF RowsAreFresh
    <3>7. CASE u.updatedAt = clock /\ u.state = "Cancelling"
      BY <3>1, <3>3, <3>7, <1>3
    <3> QED  BY <3>5, <3>6, <3>7
  <2> QED  BY <1>10, <2>1, <2>2, Zenon DEF Shutdown
<1>11. CASE ExecOpen
  <2>1. CASE OpenBegin \/ OpenFails \/ OpenDone
    BY <1>2, <2>1 DEF OpenBegin, OpenFails, OpenDone
  <2>2. ASSUME NEW id \in TaskIds, RecoverOne(id)  PROVE RowsAreFresh'
    <3> PICK u : u = Recover(store[id], clock)  OBVIOUS
    <3>1. /\ id \in DOMAIN store /\ clock' = clock
          /\ store' = store \/ (store' = Put(store, id, u) /\ u.revision # store[id].revision)
      BY <2>2 DEF RecoverOne, Unrecovered, CompareAndSwap
    <3>2. u = store[id] \/ (u.updatedAt = clock /\ u.state = "Failed")
      BY <1>1, <3>1 DEF Recover, EndRun, Enter, Task
    <3>3. store' = store \/ (store' = Put(store, id, u) /\ u.updatedAt = clock /\ u.state = "Failed")
      BY <3>1, <3>2
    <3> QED  BY <1>2, <1>3, <3>1, <3>3
  <2> QED  BY <1>11, <2>1, <2>2, Zenon DEF ExecOpen
<1>12. CASE ExecCrash  BY <1>2, <1>12 DEF ExecCrash, Crash
<1>13. CASE ExecTick
  <2>1. store' = store /\ clock' > clock  BY <1>13 DEF ExecTick, Tick
  <2> QED  BY <1>1, <2>1 DEF RowsAreFresh
<1>14. ASSUME NEW h \in Handles, Bind(h) \/ Outsider(h)  PROVE RowsAreFresh'
  BY <1>2, <1>14 DEF Bind, Outsider, vars
<1> QED
  BY <1>4, <1>5, <1>6, <1>7, <1>8, <1>9, <1>10, <1>11, <1>12, <1>13, <1>14, Zenon DEF ExecNext

\* Cancel commands under way are about tasks that are being cancelled, and one
\* worker at most holds the lock for its second transaction.
Reasons ==
  /\ \A id \in asked : store[id].state \in {"Cancelling", "Cancelled"}
  /\ \A j, k \in DOMAIN workers :
       workers[j].pc = "reschedule" /\ workers[k].pc = "reschedule" => j = k
  /\ \A k \in DOMAIN workers : ReasonOK(k, workers[k], store[k.id])

ReasonInv == RowsAreFresh /\ (shut = "no" => Reasons)

\* A worker that does not move keeps its reasons when a row changes.
LEMMA ReasonKept ==
  ASSUME ExecBase, [Next]_vars, phase = "open", phase' = "open",
         NEW j \in DOMAIN workers, ReasonOK(j, workers[j], store[j.id]),
         NEW id, NEW mine \in BOOLEAN, RowMoves(id, mine),
         mine => j.id # id \/ j.gen # store[id].generation,
         store[j.id].state = "Cancelling" => store'[j.id].state \in {"Cancelling", "Cancelled"},
         workers[j].pc = "reschedule" => store'[j.id] = store[j.id]
  PROVE  ReasonOK(j, workers[j], store'[j.id])
<1> DEFINE w == workers[j]
           t == store[j.id]
           u == store'[j.id]
<1>1. j \in issued /\ j.id \in DOMAIN store /\ IInv /\ IInv' /\ RowsAdvance
  BY WorkerFacts, NextIInv DEF GoodStep, ExecBase
<1>2. (j.gen = t.generation <=> j.gen = u.generation) /\ j.id \in DOMAIN store'
  BY <1>1, OthersKeepRuns, StaleStays
<1>3. t.state = "Completed" => u.state = "Completed"
  BY <1>1 DEF RowsAdvance, Succeeds
<1>4. t.state = "Cancelling" /\ j.gen = u.generation => u.state = "Cancelling"
  <2>1. j \in issued'  BY <1>1, OpenQueueGrows
  <2>2. j.gen = u.generation => IsActive(u)
    BY <1>1, <1>2, <2>1 DEF IInv, TokenDiscipline, Honoured
  <2> QED  BY <2>2 DEF IsActive, ActiveKinds
<1>5. w.pc = "reschedule" => u.state = "Failed" /\ u.failure = "retryable"  BY DEF ReasonOK
<1> QED  BY <1>2, <1>3, <1>4, <1>5, Zenon DEF ReasonOK

LEMMA ReasonAfterWorker ==
  ASSUME ExecBase, RunsInv, StoreMayFail = FALSE, RowsAreFresh, shut = "no", Reasons, [Next]_vars,
         NEW k \in DOMAIN workers, WorkerStep(k)
  PROVE  Reasons'
<1>1. /\ OnlyWorker(k) /\ DOMAIN workers' = DOMAIN workers /\ UNCHANGED <<asked, phase>>
      /\ \A j \in DOMAIN workers : j # k => workers'[j] = workers[j]
  BY WorkerStepMoves DEF WorkerMoves, OnlyWorker
<1>2. /\ DOMAIN store' = DOMAIN store /\ WorkerTurn(store[k.id], store'[k.id])
      /\ \A other \in DOMAIN store \ {k.id} : store'[other] = store[other]
  BY WorkerStepTurns
<1>3. phase = "open" /\ asked \subseteq DOMAIN store /\ RowsAdvance
  <2>1. phase = "open"  BY WorkerFacts
  <2> QED  BY <2>1, NextIInv DEF GoodStep, ExecBase, ExecTypeOK, IInv, MemoryMatchesStore
<1>4. RunOK(k, workers[k], store[k.id]) /\ ReasonOK(k, workers[k], store[k.id])
  BY DEF RunsInv, Reasons
<1>5. ReasonOK(k, workers'[k], store'[k.id])  BY <1>4, WorkerStepReason
<1>6. \A id \in asked' : store'[id].state \in {"Cancelling", "Cancelled"}
  <2> SUFFICES ASSUME NEW id \in asked  PROVE store'[id].state \in {"Cancelling", "Cancelled"}
    BY <1>1
  <2>1. store[id].state \in {"Cancelling", "Cancelled"} /\ id \in DOMAIN store
    BY <1>3 DEF Reasons
  <2>2. CASE store[id].state = "Cancelling"  BY <1>2, <2>1, <2>2 DEF WorkerTurn
  <2>3. CASE store[id].state = "Cancelled"  BY <1>3, <2>1, <2>3 DEF RowsAdvance, Succeeds
  <2> QED  BY <2>1, <2>2, <2>3
<1>7. \A i, j \in DOMAIN workers' :
        workers'[i].pc = "reschedule" /\ workers'[j].pc = "reschedule" => i = j
  <2>1. workers'[k].pc = "reschedule" => \A j \in DOMAIN workers : workers[j].pc # "reschedule"
    BY WorkerStepLocks DEF Unlocked
  <2> QED  BY <1>1, <2>1 DEF Reasons
<1>8. ASSUME NEW j \in DOMAIN workers, j # k  PROVE ReasonOK(j, workers'[j], store'[j.id])
  <2> PICK mine : mine = (k.gen = store[k.id].generation)  OBVIOUS
  <2>1. RowMoves(k.id, mine) /\ mine \in BOOLEAN  BY <1>4, WorkerStepRun
  <2>2. mine => j.id # k.id \/ j.gen # store[k.id].generation
    <3>1. j = [id |-> j.id, gen |-> j.gen] /\ k = [id |-> k.id, gen |-> k.gen]  BY WorkerFacts
    <3> QED  BY <1>8, <3>1
  <2>3. j.id \in DOMAIN store  BY WorkerFacts
  <2>4. store[j.id].state = "Cancelling" => store'[j.id].state \in {"Cancelling", "Cancelled"}
    BY <1>2, <2>3 DEF WorkerTurn
  <2>5. workers[j].pc = "reschedule" => store'[j.id] = store[j.id]
    <3>1. workers[j].pc = "reschedule" => workers[k].pc # "reschedule"  BY <1>8 DEF Reasons
    <3>2. workers[j].pc = "reschedule" => ~Unlocked  BY DEF Unlocked
    <3> QED  BY <3>1, <3>2, WorkerStepLocks
  <2>6. ReasonOK(j, workers[j], store[j.id])  BY DEF Reasons
  <2>7. ReasonOK(j, workers[j], store'[j.id])
    BY <1>1, <1>3, <2>1, <2>2, <2>4, <2>5, <2>6, ReasonKept
  <2> QED  BY <1>1, <1>8, <2>7
<1>9. \A j \in DOMAIN workers' : ReasonOK(j, workers'[j], store'[j.id])  BY <1>1, <1>5, <1>8
<1> QED  BY <1>6, <1>7, <1>9 DEF Reasons

LEMMA ReasonAfterClient ==
  ASSUME ExecBase, Reasons, [Next]_vars, NEW id \in TaskIds, Client(id)
  PROVE  Reasons'
<1>1. ClientTurn(id) /\ phase = "open" /\ Unlocked /\ UNCHANGED <<phase, workers>>
  BY ClientTurns
<1>2. RowMoves(id, FALSE)  BY ClientRow
<1>3. asked \subseteq DOMAIN store /\ RowsAdvance
  BY <1>1, NextIInv DEF GoodStep, ExecBase, ExecTypeOK, IInv, MemoryMatchesStore
<1>4. ASSUME NEW a \in DOMAIN store, store[a].state = "Cancelling"  PROVE store'[a] = store[a]
  <2>1. CASE store' = store  BY <2>1
  <2>2. ASSUME NEW u, store' = Put(store, id, u), id \in DOMAIN store => store[id].state # "Cancelling"
        PROVE  store'[a] = store[a]
    BY <1>4, <2>2 DEF Put
  <2> QED  BY <1>1, <2>1, <2>2, Zenon DEF ClientTurn
<1>5. \A a \in asked' : store'[a].state \in {"Cancelling", "Cancelled"}
  <2>1. ASSUME NEW a \in asked  PROVE store'[a].state \in {"Cancelling", "Cancelled"}
    <3>1. store[a].state \in {"Cancelling", "Cancelled"} /\ a \in DOMAIN store
      BY <1>3 DEF Reasons
    <3>2. CASE store[a].state = "Cancelling"  BY <1>4, <3>1, <3>2
    <3>3. CASE store[a].state = "Cancelled"  BY <1>3, <3>1, <3>3 DEF RowsAdvance, Succeeds
    <3> QED  BY <3>1, <3>2, <3>3
  <2> QED  BY <1>1, <2>1 DEF ClientTurn
<1>6. ASSUME NEW j \in DOMAIN workers  PROVE ReasonOK(j, workers[j], store'[j.id])
  <2>1. j.id \in DOMAIN store /\ ReasonOK(j, workers[j], store[j.id])  BY WorkerFacts DEF Reasons
  <2>2. store[j.id].state = "Cancelling" => store'[j.id].state \in {"Cancelling", "Cancelled"}
    BY <1>4, <2>1
  <2>3. workers[j].pc # "reschedule"  BY <1>1 DEF Unlocked
  <2> QED  BY <1>1, <1>2, <2>1, <2>2, <2>3, ReasonKept
<1> QED  BY <1>1, <1>5, <1>6 DEF Reasons

LEMMA ReasonAfterStart ==
  ASSUME ExecBase, Reasons, StoreMayFail = FALSE, [Next]_vars, NEW id \in TaskIds, StartWorker(id)
  PROVE  Reasons'
<1> USE StartWorkerFacts
<1>1. ASSUME NEW t \in Task, NEW k, k = [id |-> id, gen |-> t.generation],
             store' = Put(store, id, t), RunEnds(store[id], t), t.state = "Running",
             workers' = Put(workers, k, NewWorker(t))
      PROVE  Reasons'
  <2>1. /\ id \in DOMAIN store /\ store[id].generation \in Nat /\ k.id = id
        /\ k.gen = store[id].generation + 1 /\ ~IsActive(store[id])
    BY <1>1, TaskFacts DEF RunEnds, Task
  <2>2. k \notin DOMAIN workers
    <3>1. k \in issued => k.gen <= store[k.id].generation  BY DEF ExecBase, IInv, TokenDiscipline
    <3> QED  BY <3>1, <2>1, WorkerFacts
  <2>3. /\ DOMAIN workers' = DOMAIN workers \cup {k} /\ workers'[k] = NewWorker(t)
        /\ \A j \in DOMAIN workers : workers'[j] = workers[j]
    BY <1>1, <2>2 DEF Put
  <2>4. Unlocked  BY DEF StartWorker
  <2>5. RowsAdvance /\ asked \subseteq DOMAIN store
    BY NextIInv DEF GoodStep, ExecBase, ExecTypeOK, IInv, MemoryMatchesStore
  <2>6. \A a \in asked' : store'[a].state \in {"Cancelling", "Cancelled"}
    <3> SUFFICES ASSUME NEW a \in asked  PROVE store'[a].state \in {"Cancelling", "Cancelled"}
      OBVIOUS
    <3>1. store[a].state \in {"Cancelling", "Cancelled"} /\ a \in DOMAIN store
      BY <2>5 DEF Reasons
    <3>2. CASE store[a].state = "Cancelling"
      <4>1. a # id  BY <2>1, <3>2 DEF IsActive, ActiveKinds
      <4> QED  BY <1>1, <3>1, <4>1 DEF Put
    <3>3. CASE store[a].state = "Cancelled"  BY <2>5, <3>1, <3>3 DEF RowsAdvance, Succeeds
    <3> QED  BY <3>1, <3>2, <3>3
  <2>7. workers'[k].pc = "spawned" /\ workers'[k].fault = "none"  BY <2>3 DEF NewWorker
  <2>8. ~workers'[k].cancelled /\ ~workers'[k].err  BY <2>3 DEF NewWorker
  <2>9. ReasonOK(k, workers'[k], store'[k.id])
    <3>1. /\ workers'[k].pc \notin {"disconnect", "persist", "reschedule"}
          /\ workers'[k].fault # "cancelled"
      BY <2>7
    <3> QED  BY <3>1, <2>8, Zenon DEF ReasonOK
  <2>10. ASSUME NEW j \in DOMAIN workers  PROVE ReasonOK(j, workers'[j], store'[j.id])
    <3>1. j.id \in DOMAIN store /\ ReasonOK(j, workers[j], store[j.id])  BY WorkerFacts DEF Reasons
    <3>2. RowMoves(id, FALSE)  BY <1>1, <2>1 DEF RowMoves
    <3>3. store[j.id].state = "Cancelling" => store'[j.id].state = "Cancelling"
      BY <1>1, <2>1, <3>1 DEF Put, IsActive, ActiveKinds
    <3>4. workers[j].pc # "reschedule"  BY <2>4 DEF Unlocked
    <3>5. ReasonOK(j, workers[j], store'[j.id])
      BY <3>1, <3>2, <3>3, <3>4, ReasonKept
    <3> QED  BY <2>3, <3>5
  <2>11. \A i, j \in DOMAIN workers' :
           workers'[i].pc = "reschedule" /\ workers'[j].pc = "reschedule" => i = j
    BY <2>3, <2>4, <2>7 DEF Unlocked
  <2>12. \A j \in DOMAIN workers' : ReasonOK(j, workers'[j], store'[j.id])  BY <2>3, <2>9, <2>10
  <2> QED  BY <2>6, <2>11, <2>12 DEF Reasons
<1> QED  BY <1>1

LEMMA NextReason ==
  ASSUME ExecBase, RunsInv, ReasonInv, StoreMayFail = FALSE, ClockMayGoBack = FALSE,
         [ExecNext]_execVars
  PROVE  ReasonInv'
<1>1. [Next]_vars  BY ExecStepIsQueueStep
<1>2. RowsAreFresh /\ RowsAreFresh'  BY NextFresh DEF ReasonInv
<1> SUFFICES ASSUME shut' = "no"  PROVE Reasons'
  BY <1>2 DEF ReasonInv
<1>3. ASSUME shut = "no"  PROVE Reasons  BY <1>3 DEF ReasonInv
<1>4. ASSUME UNCHANGED <<store, asked, shut, workers>>  PROVE Reasons'
  BY <1>3, <1>4 DEF Reasons
<1>5. ASSUME NEW k, UNCHANGED <<store, asked, shut>>, workers' = Without(workers, {k})
      PROVE  Reasons'
  <2>1. DOMAIN workers' \subseteq DOMAIN workers /\ \A j \in DOMAIN workers' : workers'[j] = workers[j]
    BY <1>5 DEF Without
  <2>2. Reasons  BY <1>3, <1>5
  <2>3. ASSUME NEW j \in DOMAIN workers'  PROVE ReasonOK(j, workers'[j], store'[j.id])
    <3>1. ReasonOK(j, workers[j], store[j.id])  BY <2>1, <2>2 DEF Reasons
    <3>2. workers'[j] = workers[j] /\ store' = store  BY <1>5, <2>1
    <3> QED  BY <3>1, <3>2
  <2>4. \A i, j \in DOMAIN workers' :
          workers'[i].pc = "reschedule" /\ workers'[j].pc = "reschedule" => i = j
    BY <2>1, <2>2 DEF Reasons
  <2> QED  BY <1>5, <2>2, <2>3, <2>4 DEF Reasons
<1>6. CASE UNCHANGED execVars  BY <1>4, <1>6 DEF execVars, vars, commands
<1>7. ASSUME NEW id \in TaskIds, Client(id)  PROVE Reasons'
  <2>1. shut = "no"  BY <1>7, ClientTurns
  <2> QED  BY <1>1, <1>3, <1>7, <2>1, ReasonAfterClient
<1>8. ASSUME NEW id \in TaskIds, CancelControl(id)  PROVE Reasons'
  <2>1. /\ CancelControls({id}) /\ UNCHANGED <<store, active, shut>>
        /\ id \in asked /\ asked' \subseteq asked
    BY <1>8 DEF CancelControl, vars
  <2>2. Reasons  BY <1>3, <2>1
  <2>3. /\ DOMAIN workers' = DOMAIN workers
        /\ \A j \in DOMAIN workers :
             /\ workers'[j].pc = workers[j].pc /\ workers'[j].fault = workers[j].fault
             /\ workers'[j].err = workers[j].err
             /\ workers'[j].cancelled
                  = (workers[j].cancelled \/ j \in {active[a] : a \in {id} \cap DOMAIN active})
    BY <2>1, CancelControlsFacts DEF ExecBase
  <2>4. ASSUME NEW j \in DOMAIN workers  PROVE ReasonOK(j, workers'[j], store[j.id])
    <3>1. ReasonOK(j, workers[j], store[j.id])  BY <2>2 DEF Reasons
    <3>2. ASSUME j \in {active[a] : a \in {id} \cap DOMAIN active}, j.gen = store[j.id].generation
          PROVE  store[j.id].state = "Cancelling"
      <4>1. j.id = id  BY <3>2 DEF ExecBase
      <4>2. store[j.id].state \in {"Cancelling", "Cancelled"}  BY <2>1, <2>2, <4>1 DEF Reasons
      <4>3. IsActive(store[j.id])
        BY <3>2, WorkerFacts DEF ExecBase, IInv, TokenDiscipline, Honoured
      <4> QED  BY <4>2, <4>3 DEF IsActive, ActiveKinds
    <3>3. /\ workers'[j].pc = workers[j].pc /\ workers'[j].fault = workers[j].fault
          /\ workers'[j].err = workers[j].err
          /\ workers'[j].cancelled /\ j.gen = store[j.id].generation => store[j.id].state = "Cancelling"
      BY <2>3, <3>1, <3>2, Zenon DEF ReasonOK
    <3> QED  BY <3>1, <3>3, Zenon DEF ReasonOK
  <2> QED  BY <2>1, <2>2, <2>3, <2>4 DEF Reasons
<1>9. CASE Runner
  <2>1. ASSUME NEW id \in TaskIds, StartWorker(id)  PROVE Reasons'
    <3>1. shut = "no"  BY <2>1, StartWorkerFacts
    <3> QED  BY <1>1, <1>3, <2>1, <3>1, ReasonAfterStart
  <2>2. ASSUME NEW id \in TaskIds, StartRefused(id)  PROVE Reasons'
    BY <1>4, <2>2 DEF StartRefused, vars, commands
  <2>3. ASSUME NEW k \in DOMAIN workers, Join(k)  PROVE Reasons'
    BY <1>5, <2>3 DEF Join, vars, commands
  <2>4. CASE StopFilling \/ Wake  BY <1>4, <2>4 DEF StopFilling, Wake, vars, commands
  <2> QED  BY <1>9, <2>1, <2>2, <2>3, <2>4, Zenon DEF Runner
<1>10. ASSUME NEW k \in DOMAIN workers, WorkerStep(k)  PROVE Reasons'
  <2>1. shut = "no"  BY <1>10, WorkerStepMoves DEF WorkerMoves
  <2> QED  BY <1>1, <1>2, <1>3, <1>10, <2>1, ReasonAfterWorker
<1>11. ASSUME NEW k \in DOMAIN workers, Vanish(k)  PROVE Reasons'
  BY <1>5, <1>11 DEF Vanish, vars, commands
<1>12. CASE Shutdown
  <2>1. CASE ShutdownControls \/ ShutdownPermits \/ ShutdownLock \/ ShutdownSignal
    BY <2>1 DEF ShutdownControls, ShutdownPermits, ShutdownLock, ShutdownSignal
  <2>2. CASE ShutdownTimeout  BY <1>4, <2>2 DEF ShutdownTimeout, vars, commands
  <2>3. ASSUME NEW id \in marking, ShutdownMark(id)  PROVE FALSE
    BY <2>3 DEF ShutdownMark
  <2> QED  BY <1>12, <2>1, <2>2, <2>3, Zenon DEF Shutdown
<1>13. CASE ExecOpen \/ ExecCrash
  <2>1. DOMAIN workers' = {} /\ asked' = {}
    <3>1. CASE ExecOpen
      <4>1. phase # "open" /\ UNCHANGED <<workers, asked>>
        BY <3>1 DEF ExecOpen, OpenBegin, RecoverOne, OpenFails, OpenDone, commands
      <4> QED  BY <4>1 DEF ExecBase, Opened
    <3>2. CASE ExecCrash  BY <3>2 DEF ExecCrash, Empty
    <3> QED  BY <1>13, <3>1, <3>2
  <2> QED  BY <2>1 DEF Reasons
<1>14. CASE ExecTick  BY <1>4, <1>14 DEF ExecTick, Tick, commands
<1>15. ASSUME NEW h \in Handles, Bind(h) \/ Outsider(h)  PROVE Reasons'
  BY <1>4, <1>15 DEF Bind, Outsider, vars, commands
<1> QED
  BY <1>6, <1>7, <1>8, <1>9, <1>10, <1>11, <1>12, <1>13, <1>14, <1>15, Zenon DEF ExecNext

\* The environment of RunnerStopsFor: the table never refuses a write and the
\* clock never goes back.
Reliable == StoreMayFail = FALSE /\ ClockMayGoBack = FALSE

\* A task the runner offers and cannot start has used up its attempts.
LEMMA RefusedIsSpent ==
  ASSUME ExecBase, RowsAreFresh, NEW id \in TaskIds, StartRefused(id)
  PROVE  Next1(id) /\ Spent(id)
<1>1. id \in DOMAIN tasks /\ Startable(tasks[id], clock) /\ ~CanStart(id, tasks[id], clock)
  BY DEF StartRefused, Next1, Candidates
<1>2. phase = "open"  BY DEF StartRefused, ExecBase, Opened
<1>3. id \in DOMAIN store /\ tasks[id] = store[id] /\ tasks[id] \in Task /\ clock \in Nat
  BY <1>1, <1>2, TaskFacts DEF Open
<1>4. HonestRow(id, tasks[id])  BY <1>3 DEF ExecBase, IInv, HonestRecords
<1>5. CheckTime(tasks[id], clock)  BY <1>3 DEF RowsAreFresh, CheckTime, Task
<1>6. MaxAttempts[id] \in Nat /\ tasks[id].attempts \in Nat  BY <1>3, TaskAssumption DEF Task
<1>7. tasks[id].attempts = MaxAttempts[id]  BY <1>1, <1>4, <1>5, <1>6 DEF CanStart, HonestRow
<1>8. tasks[id].state # "RetryScheduled"  BY <1>4, <1>6, <1>7 DEF HonestRow
<1>9. Next1(id)  BY DEF StartRefused
<1> QED  BY <1>1, <1>3, <1>6, <1>7, <1>8, <1>9 DEF Startable, Spent

LEMMA RunnerHasReason ==
  ASSUME ExecBase, ReasonInv, Reliable, [ExecNext]_execVars
  PROVE  GoodReason \/ runner' = runner
<1> USE DEF Reliable
<1>1. CASE UNCHANGED execVars  BY <1>1 DEF execVars
<1>2. CASE Runner
  <2>1. ASSUME NEW id \in TaskIds, StartWorker(id)  PROVE runner' = runner
    BY <2>1, StartWorkerFacts
  <2>2. ASSUME NEW id \in TaskIds, StartRefused(id)  PROVE GoodReason
    BY <2>2, RefusedIsSpent, Zenon DEF GoodReason, ReasonInv
  <2>3. ASSUME NEW k \in DOMAIN workers, Join(k)  PROVE GoodReason
    <3>1. runner' # "failed" \/ workers[k].err  BY <2>3, Zenon DEF Join
    <3>2. CASE runner' # "failed" \/ shut # "no"  BY <3>2 DEF GoodReason
    <3>3. CASE workers[k].err /\ shut = "no"
      <4>1. ReasonOK(k, workers[k], store[k.id])  BY <3>3 DEF ReasonInv, Reasons
      <4>2. tasks[k.id] = store[k.id]  BY WorkerFacts
      <4>3. k \in DOMAIN workers \ DOMAIN workers'  BY <2>3 DEF Join, Without
      <4> QED  BY <3>3, <4>1, <4>2, <4>3, Zenon DEF ReasonOK, GoodReason
    <3> QED  BY <3>1, <3>2, <3>3, Zenon
  <2>4. CASE StopFilling \/ Wake
    <3>1. runner' # "failed"  BY <2>4 DEF StopFilling, Wake
    <3> QED  BY <3>1 DEF GoodReason
  <2> QED  BY <1>2, <2>1, <2>2, <2>3, <2>4, Zenon DEF Runner
<1>3. ASSUME NEW k \in DOMAIN workers, WorkerStep(k)  PROVE runner' = runner
  BY <1>3, WorkerStepMoves DEF WorkerMoves
<1>4. ASSUME NEW id \in TaskIds, Client(id) \/ CancelControl(id)  PROVE runner' = runner
  BY <1>4, ClientTurns DEF CancelControl
<1>5. CASE Shutdown
  <2>1. runner' = runner \/ runner' = "aborted"
    BY <1>5, Zenon DEF Shutdown, ShutdownControls, ShutdownPermits, ShutdownLock, ShutdownSignal,
       ShutdownTimeout, ShutdownMark
  <2>2. runner' = runner \/ runner' # "failed"  BY <2>1
  <2> QED  BY <2>2, Zenon DEF GoodReason
<1>6. CASE ExecOpen \/ ExecCrash \/ ExecTick
  <2>1. runner' = runner \/ runner' \in {"filling", "off"}
    BY <1>6 DEF ExecOpen, ExecCrash, ExecTick
  <2>2. runner' = runner \/ runner' # "failed"  BY <2>1
  <2> QED  BY <2>2, Zenon DEF GoodReason
<1>7. ASSUME NEW k \in DOMAIN workers, Vanish(k)  PROVE runner' = runner  BY <1>7 DEF Vanish
<1>8. ASSUME NEW h \in Handles, Bind(h) \/ Outsider(h)  PROVE runner' = runner
  BY <1>8 DEF Bind, Outsider
<1> QED
  BY <1>1, <1>2, <1>3, <1>4, <1>5, <1>6, <1>7, <1>8, Zenon DEF ExecNext

-----------------------------------------------------------------------------
(* Which foreign files are lost. *)

\* What a step makes of a row: the policy is a client's, and nothing but a
\* settled conflict sends a task back to the queue that has no attempt left.
RowKept(id, t, u) ==
  \/ t.state = "Conflict"
  \/ /\ u.policy = t.policy
     /\ u.state = "Queued" /\ u.attempts >= MaxAttempts[id] =>
          t.state = "Queued" /\ t.attempts >= MaxAttempts[id]

LEMMA NextRows ==
  ASSUME ExecBase, [ExecNext]_execVars
  PROVE  \A id \in DOMAIN store : id \in DOMAIN store' /\ RowKept(id, store[id], store'[id])
<1> DEFINE Kept == \A id \in DOMAIN store :
                     id \in DOMAIN store' /\ RowKept(id, store[id], store'[id])
<1> SUFFICES Kept  OBVIOUS
<1>1. \A id \in DOMAIN store : store[id] \in Task  BY DEF ExecBase, IInv, TypeOK
<1>2. ASSUME store' = store  PROVE Kept  BY <1>2 DEF RowKept
\* One row is put in the table.
<1>3. ASSUME NEW id, NEW u, store' = store \/ store' = Put(store, id, u),
             id \in DOMAIN store => RowKept(id, store[id], u)
      PROVE  Kept
  <2>1. CASE store' = Put(store, id, u)
    <3>1. ASSUME NEW other \in DOMAIN store, other # id  PROVE store'[other] = store[other]
      BY <2>1, <3>1 DEF Put
    <3>2. store'[id] = u /\ DOMAIN store' = DOMAIN store \cup {id}  BY <2>1 DEF Put
    <3>3. ASSUME NEW other \in DOMAIN store  PROVE RowKept(other, store[other], store'[other])
      <4>1. CASE other = id  BY <4>1, <3>2, <1>3
      <4>2. CASE other # id
        <5>1. store'[other] = store[other]  BY <3>1, <4>2
        <5> QED  BY <5>1 DEF RowKept
      <4> QED  BY <4>1, <4>2
    <3> QED  BY <3>2, <3>3
  <2> QED  BY <2>1, <1>2, <1>3
<1> HIDE DEF Kept
<1>4. CASE UNCHANGED execVars  BY <1>2, <1>4 DEF execVars, vars
<1>5. ASSUME NEW id \in TaskIds, Client(id)  PROVE Kept
  <2>1. ClientTurn(id)  BY <1>5, ClientTurns
  <2>2. ASSUME NEW u, store' = Put(store, id, u),
               id \in DOMAIN store => \/ store[id].state = "Conflict"
                                      \/ u.policy = store[id].policy /\ u.state # "Queued"
        PROVE  Kept
    <3>1. id \in DOMAIN store => RowKept(id, store[id], u)  BY <2>2 DEF RowKept
    <3> QED  BY <2>2, <3>1, <1>3
  <2> QED  BY <2>1, <2>2, <1>2, Zenon DEF ClientTurn
<1>6. ASSUME NEW id \in TaskIds, CancelControl(id)  PROVE Kept
  BY <1>2, <1>6 DEF CancelControl, vars
<1>7. CASE Runner
  <2>1. ASSUME NEW id \in TaskIds, StartWorker(id)  PROVE Kept
    <3> PICK u : u = Start(tasks[id], clock)  OBVIOUS
    <3>1. Open(id)  BY <2>1, StartWorkerFacts
    <3>2. Mutate(id, u)  BY <2>1 DEF StartWorker, StartNext
    <3>3. store' = store \/ store' = Put(store, id, u)  BY <3>2 DEF Mutate, CompareAndSwap
    <3>4. u.policy = store[id].policy /\ u.state = "Running"
      BY <3>1, TaskFacts, StartFacts
    <3>5. RowKept(id, store[id], u)  BY <3>4 DEF RowKept
    <3> QED  BY <3>3, <3>5, <1>3
  <2>2. ASSUME NEW id \in TaskIds, StartRefused(id)  PROVE Kept
    BY <1>2, <2>2 DEF StartRefused, vars
  <2>3. ASSUME NEW k \in DOMAIN workers, Join(k)  PROVE Kept
    BY <1>2, <2>3 DEF Join, vars
  <2>4. CASE StopFilling \/ Wake  BY <1>2, <2>4 DEF StopFilling, Wake, vars
  <2> QED  BY <1>7, <2>1, <2>2, <2>3, <2>4, Zenon DEF Runner
<1>8. ASSUME NEW k \in DOMAIN workers, WorkerStep(k)  PROVE Kept
  <2>1. /\ DOMAIN store' = DOMAIN store /\ WorkerTurn(store[k.id], store'[k.id])
        /\ \A other \in DOMAIN store \ {k.id} : store'[other] = store[other]
    BY <1>8, WorkerStepTurns
  <2>2. RowKept(k.id, store[k.id], store'[k.id])  BY <2>1 DEF WorkerTurn, RowKept
  <2>3. ASSUME NEW id \in DOMAIN store  PROVE RowKept(id, store[id], store'[id])
    <3>1. CASE id = k.id  BY <3>1, <2>2
    <3>2. CASE id # k.id
      <4>1. store'[id] = store[id]  BY <2>1, <3>2
      <4> QED  BY <4>1 DEF RowKept
    <3> QED  BY <3>1, <3>2
  <2> QED  BY <2>1, <2>3 DEF Kept
<1>9. ASSUME NEW k \in DOMAIN workers, Vanish(k)  PROVE Kept
  BY <1>2, <1>9 DEF Vanish, vars
<1>10. CASE Shutdown
  <2>1. CASE ShutdownControls \/ ShutdownPermits \/ ShutdownLock \/ ShutdownSignal \/ ShutdownTimeout
    BY <1>2, <2>1 DEF ShutdownControls, ShutdownPermits, ShutdownLock, ShutdownSignal,
       ShutdownTimeout, vars
  <2>2. ASSUME NEW id \in marking, ShutdownMark(id)  PROVE Kept
    <3> PICK u : u = IF IsActive(tasks[id]) THEN RequestCancel(tasks[id], clock) ELSE tasks[id]
      OBVIOUS
    <3>1. Open(id)  BY <2>2 DEF ShutdownMark, ExecBase, ExecTypeOK, Opened, Open
    <3>2. store' = store \/ Saved(id, u)  BY <2>2, Zenon DEF ShutdownMark, Lost
    <3>3. store' = store \/ store' = Put(store, id, u)  BY <3>1, <3>2, SavedRow
    <3>4. tasks[id] \in Task /\ tasks[id] = store[id] /\ id \in DOMAIN store  BY <3>1, TaskFacts
    <3>5. u = store[id] \/ (u.policy = store[id].policy /\ u.state = "Cancelling")
      <4>1. CASE ~IsActive(tasks[id])  BY <3>4, <4>1
      <4>2. CASE IsActive(tasks[id])
        <5>1. u = RequestCancel(tasks[id], clock)  BY <4>2
        <5>2. u.policy = tasks[id].policy  BY <3>4, <5>1, CancelTurns
        <5>3. u.state = "Cancelling"  BY <3>4, <4>2, <5>1, CancelFacts DEF IsActive
        <5> QED  BY <3>4, <5>2, <5>3
      <4> QED  BY <4>1, <4>2
    <3>6. RowKept(id, store[id], u)  BY <3>5 DEF RowKept
    <3> QED  BY <3>3, <3>6, <1>3
  <2> QED  BY <1>10, <2>1, <2>2, Zenon DEF Shutdown
<1>11. CASE ExecOpen
  <2>1. CASE OpenBegin \/ OpenFails \/ OpenDone
    BY <1>2, <2>1 DEF OpenBegin, OpenFails, OpenDone
  <2>2. ASSUME NEW id \in TaskIds, RecoverOne(id)  PROVE Kept
    <3> PICK u : u = Recover(store[id], clock)  OBVIOUS
    <3>1. /\ id \in DOMAIN store
          /\ store' = store \/ store' = Put(store, id, u)
      BY <2>2 DEF RecoverOne, Unrecovered, CompareAndSwap
    <3>2. u = store[id] \/ (u.policy = store[id].policy /\ u.state = "Failed")
      BY <1>1, <3>1 DEF Recover, EndRun, Enter, Task
    <3>3. RowKept(id, store[id], u)  BY <3>2 DEF RowKept
    <3> QED  BY <3>1, <3>3, <1>3
  <2> QED  BY <1>11, <2>1, <2>2, Zenon DEF ExecOpen
<1>12. CASE ExecCrash  BY <1>2, <1>12 DEF ExecCrash, Crash
<1>13. CASE ExecTick  BY <1>2, <1>13 DEF ExecTick, Tick
<1>14. ASSUME NEW h \in Handles, Bind(h) \/ Outsider(h)  PROVE Kept
  BY <1>2, <1>14 DEF Bind, Outsider, vars
<1> QED
  BY <1>4, <1>5, <1>6, <1>7, <1>8, <1>9, <1>10, <1>11, <1>12, <1>13, <1>14, Zenon DEF ExecNext

\* Where a worker's copy of the policy is still to be used, and where it has a
\* staged write that is still to be committed.
Copies == InIO \cup {"spawned", "heed"}
Staging == {"read", "write", "record", "size", "commit"}

\* Worker k against row t of its task and the staged writes s.
PolicyOK(k, w, t, s) ==
  /\ w.pc \in Copies => w.policy = t.policy
  /\ w.pc \in Staging /\ HandleOf[k.id] \in DOMAIN s => s[HandleOf[k.id]].policy = w.policy

\* What was there when the write began is renamed around.
SetAside(s) ==
  \A h \in DOMAIN s : s[h].policy = "Rename" /\ s[h].found => s[h].target = "renamed"

PolicyInv ==
  /\ SetAside(staged)
  /\ \A k \in DOMAIN workers : PolicyOK(k, workers[k], store[k.id], staged)

\* What a worker's step means for its copy and its staged write.
Places(k) ==
  LET w == workers[k]
      v == workers'[k]
      h == HandleOf[k.id]
      Begins(r) == /\ w.pc = "begin" /\ staged' = Put(staged, h, r) /\ r.policy = w.policy
                   /\ r.policy = "Rename" /\ r.found => r.target = "renamed"
  IN  /\ v.policy = w.policy
      /\ v.pc \in Copies => w.pc \in Copies
      /\ \/ staged' = staged /\ (v.pc \in Staging => w.pc \in Staging)
         \/ \E r : Begins(r)
         \/ w.pc \in Held /\ v.pc \notin Staging /\ staged' = Without(staged, {h})

LEMMA WorkerStepPlaces ==
  ASSUME ExecBase, NEW k \in DOMAIN workers, WorkerStep(k)
  PROVE  Places(k)
<1> DEFINE w == workers[k]
           v == workers'[k]
           h == HandleOf[k.id]
<1>1. ExecTypeOK /\ w \in Worker /\ workers \in [DOMAIN workers -> Worker] /\ w.pc \in Steps
  BY WorkerFacts DEF ExecBase, ExecTypeOK, Worker
<1>2. Steps = {"spawned", "connect", "read", "record", "disconnect", "heed", "begin", "write",
               "size", "commit", "complete", "abort", "persist", "reschedule", "unregister", "done"}
  BY DEF Steps, Awaits
<1>3. Faults = {"none", "retryable", "permanent", "conflict", "cancelled"}  BY DEF Faults
<1>4. /\ Copies = {"connect", "begin", "read", "write", "record", "size", "commit", "complete",
                   "spawned", "heed"}
      /\ Staging = {"read", "write", "record", "size", "commit"}
      /\ Held = Copies \cup {"abort"}
  BY DEF Copies, Staging, Held, InIO
<1>5. ASSUME NEW pc \in Steps, Goes(k, pc)  PROVE v.pc = pc /\ v.policy = w.policy
  BY <1>5, <1>1, GoesFacts DEF SameData
<1>6. ASSUME NEW pc \in {"abort", "disconnect", "persist"}, NEW fault \in Faults, Faulty(k, pc, fault)
      PROVE  v.pc = pc /\ v.policy = w.policy
  BY <1>6, <1>1, <1>2, FaultyFacts DEF FaultyData
<1>7. ASSUME Errs(k)  PROVE v.pc = "unregister" /\ v.policy = w.policy
  BY <1>7, <1>1 DEF Errs, Worker
\* The staged writes stay, and the worker does not enter the middle of its I/O.
<1>8. ASSUME v.policy = w.policy, staged' = staged,
             v.pc \in Copies => w.pc \in Copies, v.pc \in Staging => w.pc \in Staging
      PROVE  Places(k)
  BY <1>8, Zenon DEF Places
<1>9. ASSUME NEW pc \in {"abort", "disconnect", "persist"}, NEW fault \in Faults,
             Faulty(k, pc, fault), staged' = staged
      PROVE  Places(k)
  <2>1. v.pc \notin Copies /\ v.pc \notin Staging /\ v.policy = w.policy  BY <1>4, <1>6, <1>9
  <2> QED  BY <2>1, <1>8, <1>9
<1>10. ASSUME NEW pc \in Steps, Goes(k, pc), staged' = staged,
              pc \in Copies => w.pc \in Copies, pc \in Staging => w.pc \in Staging
       PROVE  Places(k)
  BY <1>5, <1>8, <1>10
<1>11. ASSUME NEW can, NEW u, NEW pc \in Steps, Tell(k, can, u, pc)
       PROVE  \/ Goes(k, pc)
              \/ \E fault \in {"retryable", "cancelled"} : Faulty(k, "abort", fault)
  BY <1>11, Zenon DEF Tell, Rejected
<1>12. ASSUME NEW can, NEW u, NEW pc \in {"unregister", "reschedule"}, Settle(k, can, u, pc),
              staged' = staged
       PROVE  Places(k)
  <2>1. Goes(k, pc) \/ Errs(k)  BY <1>12, Zenon DEF Settle
  <2>2. v.pc \in {"unregister", "reschedule"} /\ v.policy = w.policy
    BY <2>1, <1>2, <1>5, <1>7
  <2>3. v.pc \notin Copies /\ v.pc \notin Staging  BY <2>2, <1>4
  <2> QED  BY <2>2, <2>3, <1>8, <1>12
<1>13. CASE Register(k)
  <2>1. w.pc = "spawned" /\ staged' = staged
        /\ (Goes(k, "heed") \/ workers' = [workers EXCEPT ![k].pc = "done", ![k].err = TRUE])
    BY <1>13, Zenon DEF Register, At, local
  <2>2. v.pc \in {"heed", "done"} /\ v.policy = w.policy
    <3>1. CASE workers' = [workers EXCEPT ![k].pc = "done", ![k].err = TRUE]
      BY <3>1, <1>1 DEF Worker
    <3> QED  BY <2>1, <3>1, <1>2, <1>5
  <2> QED  BY <2>1, <2>2, <1>4, <1>8
<1>14. CASE HeedCancel(k)
  <2>1. w.pc = "heed" /\ staged' = staged
        /\ \E c : workers' = [workers EXCEPT ![k].pc = "connect", ![k].cancelled = c]
    BY <1>14, <1>1 DEF HeedCancel, At, local
  <2>2. v.pc = "connect" /\ v.policy = w.policy  BY <2>1, <1>1 DEF Worker
  <2> QED  BY <2>1, <2>2, <1>4, <1>8
<1>15. CASE Connect(k)
  <2>1. /\ w.pc = "connect" /\ staged' = staged
        /\ \/ \E fault \in {"retryable", "permanent", "conflict", "cancelled"} :
                Faulty(k, "persist", fault)
           \/ Goes(k, "begin")
    BY <1>15, Zenon DEF Connect, At, local
  <2> QED  BY <2>1, <1>2, <1>3, <1>4, <1>9, <1>10
<1>16. CASE BeginWrite(k)
  <2> DEFINE exists == File(k.id, "bound") \in DOMAIN files
             r == [target |-> IF exists /\ w.policy = "Rename" THEN "renamed" ELSE "bound",
                   policy |-> w.policy, found |-> exists]
  <2>1. /\ w.pc = "begin"
        /\ \/ /\ \E fault \in {"retryable", "permanent", "conflict", "cancelled"} :
                   Faulty(k, "disconnect", fault)
              /\ staged' = staged
           \/ /\ staged' = Put(staged, h, r)
              /\ workers' = [workers EXCEPT ![k].pc = "read", ![k].off = w.base,
                                            ![k].total = ExpectedSize[k.id]]
    BY <1>16, Zenon DEF BeginWrite, At, local
  <2>2. CASE \E fault \in {"retryable", "permanent", "conflict", "cancelled"} :
               Faulty(k, "disconnect", fault) /\ staged' = staged
    BY <2>2, <1>3, <1>9
  <2>3. CASE /\ staged' = Put(staged, h, r)
             /\ workers' = [workers EXCEPT ![k].pc = "read", ![k].off = w.base,
                                           ![k].total = ExpectedSize[k.id]]
    <3>1. v.policy = w.policy /\ v.pc = "read"  BY <2>3, <1>1 DEF Worker
    <3>2. r.policy = w.policy /\ (r.policy = "Rename" /\ r.found => r.target = "renamed")
      OBVIOUS
    <3>3. w.pc \in Copies  BY <2>1, <1>4
    <3> HIDE DEF r
    <3> QED  BY <2>1, <2>3, <3>1, <3>2, <3>3, Zenon DEF Places
  <2> QED  BY <2>1, <2>2, <2>3
<1>17. CASE ReadChunk(k)
  <2>1. /\ w.pc = "read" /\ staged' = staged
        /\ \/ \E fault \in {"retryable", "permanent", "conflict", "cancelled"} : Faulty(k, "abort", fault)
           \/ \E total, eof, pc : /\ pc \in {"write", "size"}
                                   /\ workers' = [workers EXCEPT ![k].total = total,
                                                                 ![k].eof = eof, ![k].pc = pc]
    <3>1. w.pc = "read" /\ staged' = staged  BY <1>17 DEF ReadChunk, At, local
    <3>2. \/ \E fault \in {"retryable", "permanent", "conflict", "cancelled"} : Faulty(k, "abort", fault)
          \/ \E size \in {None, SourceSize[k.id]} :
               workers' = [workers EXCEPT
                 ![k].total = IF @ = None THEN size ELSE @,
                 ![k].eof = w.off + 1 >= SourceSize[k.id],
                 ![k].pc = IF w.off < SourceSize[k.id] THEN "write" ELSE "size"]
      BY <1>17, Zenon DEF ReadChunk
    <3>3. ASSUME NEW size,
                 workers' = [workers EXCEPT
                   ![k].total = IF @ = None THEN size ELSE @,
                   ![k].eof = w.off + 1 >= SourceSize[k.id],
                   ![k].pc = IF w.off < SourceSize[k.id] THEN "write" ELSE "size"]
          PROVE  \E total, eof, pc : /\ pc \in {"write", "size"}
                                     /\ workers' = [workers EXCEPT ![k].total = total,
                                                                   ![k].eof = eof, ![k].pc = pc]
      <4> PICK total : total = IF w.total = None THEN size ELSE w.total  OBVIOUS
      <4> PICK eof : eof = (w.off + 1 >= SourceSize[k.id])  OBVIOUS
      <4> PICK pc \in {"write", "size"} : pc = IF w.off < SourceSize[k.id] THEN "write" ELSE "size"
        OBVIOUS
      <4>1. workers' = [workers EXCEPT ![k].total = total, ![k].eof = eof, ![k].pc = pc]
        BY <3>3, <1>1
      <4> QED  BY <4>1
    <3> QED  BY <3>1, <3>2, <3>3, Zenon
  <2>2. CASE \E total, eof, pc : /\ pc \in {"write", "size"}
                                /\ workers' = [workers EXCEPT ![k].total = total,
                                                              ![k].eof = eof, ![k].pc = pc]
    <3>1. v.policy = w.policy /\ v.pc \in {"write", "size"}  BY <2>2, <1>1 DEF Worker
    <3>2. w.pc = "read" /\ staged' = staged  BY <2>1
    <3> QED  BY <3>1, <3>2, <1>4, <1>8
  <2>3. CASE \E fault \in {"retryable", "permanent", "conflict", "cancelled"} : Faulty(k, "abort", fault)
    BY <2>1, <2>3, <1>3, <1>9
  <2> QED  BY <2>1, <2>2, <2>3, Zenon
<1>18. CASE WriteChunk(k)
  <2>1. /\ w.pc = "write" /\ staged' = staged
        /\ \/ \E fault \in {"retryable", "permanent", "conflict", "cancelled"} : Faulty(k, "abort", fault)
           \/ workers' = [workers EXCEPT ![k].pc = "record", ![k].off = @ + 1]
    BY <1>18, Zenon DEF WriteChunk, At
  <2>2. CASE workers' = [workers EXCEPT ![k].pc = "record", ![k].off = @ + 1]
    <3>1. v.policy = w.policy /\ v.pc = "record"  BY <2>2, <1>1 DEF Worker
    <3> QED  BY <2>1, <3>1, <1>4, <1>8
  <2> QED  BY <2>1, <2>2, <1>3, <1>9
<1>19. CASE RecordChunk(k)
  <2>1. /\ w.pc = "record" /\ staged' = staged
        /\ \/ \E fault \in {"retryable", "cancelled"} : Faulty(k, "abort", fault)
           \/ \E can, u : Tell(k, can, u, IF w.eof THEN "size" ELSE "read")
    BY <1>19, Zenon DEF RecordChunk, At, local
  <2> PICK pc \in {"size", "read"} : pc = IF w.eof THEN "size" ELSE "read"  OBVIOUS
  <2>2. Goes(k, pc) \/ \E fault \in {"retryable", "cancelled"} : Faulty(k, "abort", fault)
    BY <2>1, <1>2, <1>11
  <2> QED  BY <2>1, <2>2, <1>2, <1>3, <1>4, <1>9, <1>10
<1>20. CASE CheckFinalSize(k)
  <2>1. /\ w.pc = "size" /\ staged' = staged
        /\ \/ Faulty(k, "abort", "conflict")
           \/ Goes(k, "commit") \/ \E can, u : Tell(k, can, u, "commit")
    BY <1>20, Zenon DEF CheckFinalSize, At, local
  <2>2. Goes(k, "commit") \/ \E fault \in {"retryable", "cancelled", "conflict"} : Faulty(k, "abort", fault)
    BY <2>1, <1>2, <1>11
  <2> QED  BY <2>1, <2>2, <1>2, <1>3, <1>4, <1>9, <1>10
<1>21. CASE CommitWrite(k)
  <2>1. /\ w.pc = "commit" /\ staged' = staged
        /\ \/ \E fault \in {"retryable", "permanent", "conflict", "cancelled"} : Faulty(k, "abort", fault)
           \/ Goes(k, "complete")
    BY <1>21, Zenon DEF CommitWrite, At
  <2> QED  BY <2>1, <1>2, <1>3, <1>4, <1>9, <1>10
<1>22. CASE ReportComplete(k)
  <2>1. /\ w.pc = "complete" /\ (staged' = staged \/ staged' = Without(staged, {h}))
        /\ \/ \E fault \in {"retryable", "permanent", "cancelled"} : Faulty(k, "abort", fault)
           \/ \E can, u : Tell(k, can, u, "disconnect")
    BY <1>22, Zenon DEF ReportComplete, At
  <2>2. v.pc \in {"abort", "disconnect"} /\ v.policy = w.policy
    BY <2>1, <1>2, <1>3, <1>5, <1>6, <1>11
  <2>3. v.pc \notin Copies /\ v.pc \notin Staging /\ w.pc \in Held  BY <2>1, <2>2, <1>4
  <2> QED  BY <2>1, <2>2, <2>3, Zenon DEF Places
<1>23. CASE AbortWrite(k)
  <2>1. w.pc = "abort" /\ Goes(k, "disconnect") /\ staged' = Without(staged, {h})
    BY <1>23 DEF AbortWrite, At
  <2>2. v.pc = "disconnect" /\ v.policy = w.policy  BY <2>1, <1>2, <1>5
  <2>3. v.pc \notin Copies /\ v.pc \notin Staging /\ w.pc \in Held  BY <2>1, <2>2, <1>4
  <2> QED  BY <2>1, <2>2, <2>3, Zenon DEF Places
<1>24. CASE Disconnect(k)
  <2>1. /\ staged' = staged
        /\ \/ \E pc \in {"persist", "unregister"} : Goes(k, pc)
           \/ \E fault \in {"retryable", "permanent"} : Faulty(k, "persist", fault)
    BY <1>24, Zenon DEF Disconnect, local
  <2> QED  BY <2>1, <1>2, <1>3, <1>4, <1>9, <1>10
<1>25. CASE PersistFailure(k)
  <2>1. staged' = staged /\ \E can, t, next : next \in {"unregister", "reschedule"} /\ Settle(k, can, t, next)
    BY <1>25, Zenon DEF PersistFailure, local
  <2> QED  BY <2>1, <1>12
<1>26. CASE PersistRetry(k)
  <2>1. staged' = staged /\ (Goes(k, "unregister") \/ \E can, t : Settle(k, can, t, "unregister"))
    BY <1>26, Zenon DEF PersistRetry, local
  <2> QED  BY <2>1, <1>2, <1>4, <1>10, <1>12
<1>27. CASE Unregister(k)
  <2>1. staged' = staged /\ Goes(k, "done")  BY <1>27 DEF Unregister, local
  <2> QED  BY <2>1, <1>2, <1>4, <1>10
<1> QED
  BY <1>13, <1>14, <1>15, <1>16, <1>17, <1>18, <1>19, <1>20, <1>21, <1>22, <1>23, <1>24, <1>25,
     <1>26, <1>27, Zenon DEF WorkerStep

\* A worker that is in the middle of its run keeps its policy, whatever happens.
LEMMA PolicyStays ==
  ASSUME ExecBase, RunsInv, PolicyInv, [ExecNext]_execVars, NEW j \in DOMAIN workers,
         workers[j].pc \in Copies
  PROVE  store'[j.id].policy = workers[j].policy
<1>1. j.gen = store[j.id].generation
  BY DEF RunsInv, RunOK, Held, Copies
<1>2. j.id \in DOMAIN store /\ j \in issued  BY WorkerFacts
<1>3. IsActive(store[j.id])  BY <1>1, <1>2 DEF ExecBase, IInv, TokenDiscipline, Honoured
<1>4. store[j.id].state # "Conflict"  BY <1>3 DEF IsActive, ActiveKinds
<1>5. store'[j.id].policy = store[j.id].policy  BY <1>2, <1>4, NextRows DEF RowKept
<1> QED  BY <1>5 DEF PolicyInv, PolicyOK

LEMMA PolicyAfterWorker ==
  ASSUME OwnHandles, ExecBase, RunsInv, PolicyInv, [ExecNext]_execVars,
         NEW k \in DOMAIN workers, WorkerStep(k)
  PROVE  PolicyInv'
<1> DEFINE w == workers[k]
           v == workers'[k]
           h == HandleOf[k.id]
<1>1. Places(k)  BY WorkerStepPlaces
<1>2. DOMAIN workers' = DOMAIN workers /\ \A j \in DOMAIN workers : j # k => workers'[j] = workers[j]
  BY WorkerStepMoves DEF WorkerMoves, OnlyWorker
<1>3. k = [id |-> k.id, gen |-> k.gen] /\ k.id \in TaskIds  BY WorkerFacts
<1>4. Copies \subseteq Held /\ Staging \subseteq Copies /\ "begin" \in Held
  BY DEF Copies, Staging, Held, InIO
<1>5. v.policy = w.policy /\ (v.pc \in Copies => w.pc \in Copies)  BY <1>1, Zenon DEF Places
<1>6. v.pc \in Copies => v.policy = store'[k.id].policy  BY <1>5, PolicyStays
\* The staged writes of the other runs.
<1>7. ASSUME NEW j \in DOMAIN workers, j # k, workers[j].pc \in Staging
      PROVE  \/ staged' = staged
             \/ /\ HandleOf[j.id] \in DOMAIN staged' <=> HandleOf[j.id] \in DOMAIN staged
                /\ HandleOf[j.id] \in DOMAIN staged => staged'[HandleOf[j.id]] = staged[HandleOf[j.id]]
  <2>1. j = [id |-> j.id, gen |-> j.gen] /\ j.id \in TaskIds  BY WorkerFacts
  <2>2. j.gen = store[j.id].generation  BY <1>4, <1>7 DEF RunsInv, RunOK
  <2>3. CASE w.pc \in Held
    <3>1. k.gen = store[k.id].generation  BY <2>3 DEF RunsInv, RunOK
    <3>2. j.id # k.id  BY <2>1, <2>2, <3>1, <1>3, <1>7
    <3>3. HandleOf[j.id] # h  BY <2>1, <3>2, <1>3 DEF OwnHandles
    <3>4. staged' = staged \/ staged' = Without(staged, {h}) \/ \E r : staged' = Put(staged, h, r)
      BY <1>1, Zenon DEF Places
    <3> QED  BY <3>3, <3>4 DEF Put, Without
  <2>4. CASE w.pc \notin Held
    <3>1. w.pc # "begin"  BY <2>4, <1>4
    <3> QED  BY <2>4, <3>1, <1>1, Zenon DEF Places
  <2> QED  BY <2>3, <2>4
<1>8. ASSUME NEW j \in DOMAIN workers, j # k  PROVE PolicyOK(j, workers'[j], store'[j.id], staged')
  <2>1. workers'[j] = workers[j] /\ PolicyOK(j, workers[j], store[j.id], staged)
    BY <1>2, <1>8 DEF PolicyInv
  <2>2. workers[j].pc \in Copies => workers[j].policy = store'[j.id].policy  BY PolicyStays
  <2>3. workers[j].pc \in Staging /\ HandleOf[j.id] \in DOMAIN staged' =>
          staged'[HandleOf[j.id]].policy = workers[j].policy
    <3> SUFFICES ASSUME workers[j].pc \in Staging, HandleOf[j.id] \in DOMAIN staged'
                 PROVE  staged'[HandleOf[j.id]].policy = workers[j].policy
      OBVIOUS
    <3>1. HandleOf[j.id] \in DOMAIN staged => staged[HandleOf[j.id]].policy = workers[j].policy
      BY <2>1 DEF PolicyOK
    <3>2. CASE staged' = staged  BY <3>1, <3>2
    <3>3. CASE staged' # staged
      <4>1. HandleOf[j.id] \in DOMAIN staged /\ staged'[HandleOf[j.id]] = staged[HandleOf[j.id]]
        BY <3>3, <1>7, <1>8
      <4> QED  BY <3>1, <4>1
    <3> QED  BY <3>2, <3>3
  <2> QED  BY <2>1, <2>2, <2>3 DEF PolicyOK
<1>9. SetAside(staged') /\ PolicyOK(k, v, store'[k.id], staged')
  <2>1. SetAside(staged) /\ PolicyOK(k, w, store[k.id], staged)  BY DEF PolicyInv
  <2>2. CASE staged' = staged /\ (v.pc \in Staging => w.pc \in Staging)
    <3>1. v.pc \in Staging /\ h \in DOMAIN staged' => staged'[h].policy = v.policy
      BY <2>1, <2>2, <1>5 DEF PolicyOK
    <3>2. SetAside(staged')  BY <2>1, <2>2
    <3> QED  BY <3>1, <3>2, <1>6 DEF PolicyOK
  <2>3. ASSUME NEW r, staged' = Put(staged, h, r), r.policy = w.policy,
               r.policy = "Rename" /\ r.found => r.target = "renamed"
        PROVE  SetAside(staged') /\ PolicyOK(k, v, store'[k.id], staged')
    <3>1. staged'[h] = r /\ DOMAIN staged' = DOMAIN staged \cup {h}
          /\ \A x \in DOMAIN staged : x # h => staged'[x] = staged[x]
      BY <2>3 DEF Put
    <3>2. SetAside(staged')  BY <2>1, <2>3, <3>1 DEF SetAside
    <3>3. staged'[h].policy = v.policy  BY <2>3, <3>1, <1>5
    <3> QED  BY <3>2, <3>3, <1>6 DEF PolicyOK
  <2>4. CASE v.pc \notin Staging /\ staged' = Without(staged, {h})
    <3>1. DOMAIN staged' \subseteq DOMAIN staged /\ \A x \in DOMAIN staged' : staged'[x] = staged[x]
      BY <2>4 DEF Without
    <3>2. SetAside(staged')  BY <2>1, <3>1 DEF SetAside
    <3> QED  BY <2>4, <3>2, <1>6 DEF PolicyOK
  <2> QED  BY <1>1, <2>2, <2>3, <2>4, Zenon DEF Places
<1>10. \A j \in DOMAIN workers' : PolicyOK(j, workers'[j], store'[j.id], staged')
  BY <1>2, <1>8, <1>9
<1> QED  BY <1>9, <1>10 DEF PolicyInv

LEMMA NextPolicy ==
  ASSUME OwnHandles, ExecBase, RunsInv, PolicyInv, [ExecNext]_execVars
  PROVE  PolicyInv'
\* No worker moves, and the staged writes stay.
<1>1. ASSUME staged' = staged, DOMAIN workers' \subseteq DOMAIN workers,
             \A j \in DOMAIN workers' : workers'[j].pc = workers[j].pc
                                        /\ workers'[j].policy = workers[j].policy
      PROVE  PolicyInv'
  <2>1. ASSUME NEW j \in DOMAIN workers'  PROVE PolicyOK(j, workers'[j], store'[j.id], staged')
    <3>1. PolicyOK(j, workers[j], store[j.id], staged)  BY <1>1 DEF PolicyInv
    <3>2. workers[j].pc \in Copies => workers[j].policy = store'[j.id].policy
      BY <1>1, PolicyStays
    <3> QED  BY <1>1, <3>1, <3>2 DEF PolicyOK
  <2>2. SetAside(staged')  BY <1>1 DEF PolicyInv
  <2> QED  BY <2>1, <2>2 DEF PolicyInv
<1>2. ASSUME UNCHANGED <<staged, workers>>  PROVE PolicyInv'  BY <1>1, <1>2
<1>3. ASSUME NEW ids, CancelControls(ids), staged' = staged  PROVE PolicyInv'
  <2>1. /\ DOMAIN workers' = DOMAIN workers
        /\ \A j \in DOMAIN workers : workers'[j].pc = workers[j].pc
                                     /\ workers'[j].policy = workers[j].policy
    BY <1>3, CancelControlsFacts DEF ExecBase
  <2> QED  BY <2>1, <1>1, <1>3
<1>4. ASSUME NEW k, workers' = Without(workers, {k}), staged' = staged  PROVE PolicyInv'
  <2>1. DOMAIN workers' \subseteq DOMAIN workers /\ \A j \in DOMAIN workers' : workers'[j] = workers[j]
    BY <1>4 DEF Without
  <2> QED  BY <2>1, <1>1, <1>4
<1>5. CASE UNCHANGED execVars  BY <1>5, <1>2 DEF execVars, local
<1>6. ASSUME NEW id \in TaskIds, Client(id)  PROVE PolicyInv'
  BY <1>6, <1>2, Zenon DEF Client, EnqueuePublic, ResolvePublic, RetryPublic, CancelPublic, local
<1>7. ASSUME NEW id \in TaskIds, CancelControl(id)  PROVE PolicyInv'
  BY <1>7, <1>3 DEF CancelControl, local
<1>8. CASE Runner
  <2>1. ASSUME NEW id \in TaskIds, StartWorker(id)  PROVE PolicyInv'
    <3> USE <2>1, StartWorkerFacts
    <3>1. CASE UNCHANGED workers  BY <3>1, <1>2
    <3>2. ASSUME NEW t \in Task, NEW k, k = [id |-> id, gen |-> t.generation],
                 store' = Put(store, id, t), workers' = Put(workers, k, NewWorker(t))
          PROVE  PolicyInv'
      <4>1. /\ DOMAIN workers' = DOMAIN workers \cup {k} /\ workers'[k] = NewWorker(t)
            /\ \A j \in DOMAIN workers : j # k => workers'[j] = workers[j]
        BY <3>2 DEF Put
      <4>2. store'[k.id] = t  BY <3>2 DEF Put
      <4>3. workers'[k].pc = "spawned" /\ workers'[k].policy = t.policy  BY <4>1 DEF NewWorker
      <4>4. PolicyOK(k, workers'[k], store'[k.id], staged')
        BY <4>2, <4>3 DEF PolicyOK, Staging
      <4>5. ASSUME NEW j \in DOMAIN workers, j # k
            PROVE  PolicyOK(j, workers'[j], store'[j.id], staged')
        <5>1. PolicyOK(j, workers[j], store[j.id], staged)  BY DEF PolicyInv
        <5>2. workers[j].pc \in Copies => workers[j].policy = store'[j.id].policy  BY PolicyStays
        <5> QED  BY <4>1, <4>5, <5>1, <5>2 DEF PolicyOK
      <4>6. SetAside(staged')  BY DEF PolicyInv
      <4> QED  BY <4>1, <4>4, <4>5, <4>6 DEF PolicyInv
    <3> QED  BY <3>1, <3>2
  <2>2. ASSUME NEW id \in TaskIds, StartRefused(id)  PROVE PolicyInv'
    BY <2>2, <1>2 DEF StartRefused, local
  <2>3. ASSUME NEW k \in DOMAIN workers, Join(k)  PROVE PolicyInv'
    BY <2>3, <1>4 DEF Join, local
  <2>4. CASE StopFilling \/ Wake  BY <2>4, <1>2 DEF StopFilling, Wake, local
  <2> QED  BY <1>8, <2>1, <2>2, <2>3, <2>4, Zenon DEF Runner
<1>9. ASSUME NEW k \in DOMAIN workers, WorkerStep(k)  PROVE PolicyInv'
  BY <1>9, PolicyAfterWorker
<1>10. ASSUME NEW k \in DOMAIN workers, Vanish(k)  PROVE PolicyInv'
  BY <1>10, <1>4 DEF Vanish, local
<1>11. CASE Shutdown
  <2>1. CASE ShutdownControls  BY <2>1, <1>3 DEF ShutdownControls, local
  <2>2. CASE ShutdownPermits \/ ShutdownLock \/ ShutdownSignal \/ ShutdownTimeout
    BY <2>2, <1>2 DEF ShutdownPermits, ShutdownLock, ShutdownSignal, ShutdownTimeout, local
  <2>3. ASSUME NEW id \in marking, ShutdownMark(id)  PROVE PolicyInv'
    BY <2>3, <1>2 DEF ShutdownMark, local
  <2> QED  BY <1>11, <2>1, <2>2, <2>3, Zenon DEF Shutdown
<1>12. CASE ExecOpen  BY <1>12, <1>2 DEF ExecOpen, local
<1>13. CASE ExecCrash
  <2>1. DOMAIN workers' = {} /\ DOMAIN staged' = {}  BY <1>13 DEF ExecCrash, Empty
  <2> QED  BY <2>1 DEF PolicyInv, SetAside
<1>14. CASE ExecTick  BY <1>14, <1>2 DEF ExecTick, local
<1>15. ASSUME NEW h \in Handles, Bind(h) \/ Outsider(h)  PROVE PolicyInv'
  BY <1>15, <1>2 DEF Bind, Outsider
<1> QED
  BY <1>5, <1>6, <1>7, <1>8, <1>9, <1>10, <1>11, <1>12, <1>13, <1>14, <1>15, Zenon DEF ExecNext

\* When a foreign file is lost, and to whom.
Loses(h) ==
  \E id \in Active : /\ HandleOf[id] = h /\ tasks[id].policy # "Fail"
                     /\ tasks[id].policy = "Rename" => ~staged[h].found

\* Only the rename of a staged write takes a file from its final name.
LEMMA WorkerReplaces ==
  ASSUME ExecBase, RunsInv, PolicyInv, NEW k \in DOMAIN workers, WorkerStep(k),
         NEW g \in Handles, Replaced(g)
  PROVE  Loses(g)
<1> DEFINE f == <<g, "bound">>
           part == File(k.id, "part")
           h == HandleOf[k.id]
           w == workers[k]
<1>1. f # part  BY DEF File
<1>2. f \in DOMAIN files /\ (f \notin DOMAIN files' \/ files'[f] # files[f])
  BY Zenon DEF Replaced
<1>3. files' # files  BY <1>2
<1> HIDE DEF f, part
<1>4. CASE BeginWrite(k)
  <2>1. \E p : files' = Put(files, part, p)  BY <1>3, <1>4, Zenon DEF BeginWrite, local, part
  <2> QED  BY <1>1, <1>2, <2>1 DEF Put
<1>5. CASE WriteChunk(k)
  <2>1. \E p : files' = [files EXCEPT ![part] = p]  BY <1>3, <1>5 DEF WriteChunk, part
  <2> QED  BY <1>1, <1>2, <2>1
<1>6. CASE AbortWrite(k)
  <2>1. files' = Without(files, {part})  BY <1>3, <1>6, Zenon DEF AbortWrite, part
  <2> QED  BY <1>1, <1>2, <2>1 DEF Without
<1>7. CASE CommitWrite(k)
  <2>1. /\ files' = Without(Put(files, <<h, staged[h].target>>, files[part]), {part})
        /\ ~(staged[h].policy = "Fail" /\ <<h, staged[h].target>> \in DOMAIN files)
        /\ h \in DOMAIN staged /\ w.pc = "commit"
    BY <1>3, <1>7, Zenon DEF CommitWrite, At, part
  <2>2. f = <<h, staged[h].target>>
    <3>1. CASE f # <<h, staged[h].target>>  BY <1>1, <1>2, <2>1, <3>1 DEF Put, Without
    <3> QED  BY <3>1
  <2>3. g = h /\ staged[h].target = "bound" /\ staged[h].policy # "Fail"
    BY <1>2, <2>1, <2>2 DEF f
  <2>4. w.pc \in Copies /\ w.pc \in Staging /\ w.pc \in Held
    BY <2>1 DEF Copies, Staging, Held, InIO
  <2>5. staged[h].policy = w.policy /\ w.policy = store[k.id].policy
    BY <2>1, <2>4 DEF PolicyInv, PolicyOK
  <2>6. k.gen = store[k.id].generation  BY <2>4 DEF RunsInv, RunOK
  <2>7. /\ k.id \in DOMAIN tasks /\ tasks[k.id] = store[k.id] /\ k \in issued
        /\ k.id \in DOMAIN store
    BY WorkerFacts DEF Open
  <2>8. k.id \in Active
    BY <2>6, <2>7 DEF ExecBase, IInv, TokenDiscipline, Honoured, Active
  <2>9. staged[h].policy = "Rename" => ~staged[h].found
    BY <2>1, <2>3 DEF PolicyInv, SetAside
  <2>10. tasks[k.id].policy = staged[h].policy  BY <2>5, <2>7
  <2> QED  BY <2>3, <2>8, <2>9, <2>10, Zenon DEF Loses
<1>8. CASE ~(BeginWrite(k) \/ WriteChunk(k) \/ AbortWrite(k) \/ CommitWrite(k))
  BY <1>3, <1>8, Zenon DEF WorkerStep, Register, HeedCancel, Connect, ReadChunk, RecordChunk,
     CheckFinalSize, ReportComplete, Disconnect, PersistFailure, PersistRetry, Unregister, local
<1> QED  BY <1>4, <1>5, <1>6, <1>7, <1>8

LEMMA NextReplaces ==
  ASSUME ExecBase, RunsInv, PolicyInv, [ExecNext]_execVars, NEW g \in Handles, Replaced(g)
  PROVE  Loses(g)
<1>1. files' # files  BY Zenon DEF Replaced
<1>2. CASE UNCHANGED execVars  BY <1>1, <1>2 DEF execVars, local
<1>3. ASSUME NEW k \in DOMAIN workers, WorkerStep(k)  PROVE Loses(g)
  BY <1>3, WorkerReplaces
<1>4. ASSUME NEW h \in Handles, Outsider(h)  PROVE FALSE
  <2>1. files' = Put(files, <<h, "bound">>, Foreign) /\ <<h, "bound">> \notin DOMAIN files
    BY <1>4 DEF Outsider
  <2>2. \A f \in DOMAIN files : f \in DOMAIN files' /\ files'[f] = files[f]
    BY <2>1 DEF Put
  <2> QED  BY <2>2, Zenon DEF Replaced
<1>5. ASSUME NEW id \in TaskIds, Client(id) \/ CancelControl(id)  PROVE files' = files
  BY <1>5, Zenon DEF Client, EnqueuePublic, ResolvePublic, CancelPublic, RetryPublic, CancelControl,
     local
<1>6. CASE Runner
  BY <1>1, <1>6, Zenon DEF Runner, StartWorker, StartRefused, Join, StopFilling, Wake, local
<1>7. CASE Shutdown
  BY <1>1, <1>7, Zenon DEF Shutdown, ShutdownControls, ShutdownPermits, ShutdownLock, ShutdownSignal,
     ShutdownTimeout, ShutdownMark, local
<1>8. CASE ExecOpen \/ ExecCrash \/ ExecTick
  BY <1>1, <1>8, Zenon DEF ExecOpen, ExecCrash, ExecTick, local
<1>9. ASSUME NEW k \in DOMAIN workers, Vanish(k)  PROVE files' = files
  BY <1>9, Zenon DEF Vanish, local
<1>10. ASSUME NEW h \in Handles, Bind(h)  PROVE files' = files  BY <1>10, Zenon DEF Bind
<1> QED
  BY <1>1, <1>2, <1>3, <1>4, <1>5, <1>6, <1>7, <1>8, <1>9, <1>10, Zenon DEF ExecNext

\* A foreign file is lost in the two cases of ReplacesAsTold only, and nothing
\* but a settled conflict queues a task that has no attempt left: whatever the
\* store, the clock, crashes and shutdowns do, provided that no two tasks have
\* the same destination (begin_staged_write, commit_staged_write,
\* resolve_conflict, recover_after_restart).
THEOREM FilesAreReplacedAsTold ==
  ASSUME OwnHandles
  PROVE  ExecSpec => ReplacesAsTold /\ SpentBySettling
<1>1. ExecInit => PolicyInv
  BY DEF ExecInit, PolicyInv, SetAside, Empty
<1>2. ExecBase /\ RunsInv /\ PolicyInv /\ [ExecNext]_execVars => PolicyInv'  BY NextPolicy
<1>3. ExecSpec => []PolicyInv  BY <1>1, <1>2, BaseAlways, RunsAlways, PTL DEF ExecSpec
<1> DEFINE Told == \A h \in Handles : Replaced(h) =>
                     \E id \in Active :
                       /\ HandleOf[id] = h /\ tasks[id].policy # "Fail"
                       /\ tasks[id].policy = "Rename" => ~staged[h].found
           Settled == \A id \in DOMAIN store : Spent(id)' => Spent(id) \/ store[id].state = "Conflict"
<1>4. ExecBase /\ RunsInv /\ PolicyInv /\ [ExecNext]_execVars => [Told]_files
  BY NextReplaces, Zenon DEF Loses
<1>5. ExecBase /\ [ExecNext]_execVars => [Settled]_store
  <2> SUFFICES ASSUME ExecBase, [ExecNext]_execVars, NEW id \in DOMAIN store, Spent(id)'
               PROVE  Spent(id) \/ store[id].state = "Conflict"
    OBVIOUS
  <2>1. RowKept(id, store[id], store'[id])  BY NextRows
  <2> QED  BY <2>1 DEF RowKept, Spent
<1>6. ExecSpec => [][Told]_files  BY <1>3, <1>4, BaseAlways, RunsAlways, PTL DEF ExecSpec
<1>7. ExecSpec => [][Settled]_store  BY <1>5, BaseAlways, PTL DEF ExecSpec
<1> QED  BY <1>6, <1>7 DEF ReplacesAsTold, SpentBySettling

\* The failures of the runs, the cancels and the crashes stay what they are,
\* however many tasks and jobs there are: a foreign file is lost in the two cases
\* of ReplacesAsTold only; the runner stops for the two reasons of RunnerStopsFor
\* only; and a task that stops it, having no attempt left, was put back by a
\* client that settled its conflict.  It takes a table that never refuses a write
\* and a clock that never goes back, as either error ends the runner, and tasks
\* with destinations of their own (commit_staged_write, run_transfer_runner,
\* persist_failure).
THEOREM FailuresStayContained ==
  ASSUME Reliable, OwnHandles
  PROVE  ExecSpec => FailuresAreContained
<1>1. ExecInit => ReasonInv
  BY DEF ExecInit, Init, ReasonInv, Reasons, RowsAreFresh, Empty
<1>2. ExecBase /\ RunsInv /\ ReasonInv /\ [ExecNext]_execVars => ReasonInv'
  BY NextReason DEF Reliable
<1>3. ExecSpec => []ReasonInv  BY <1>1, <1>2, BaseAlways, RunsAlways, PTL DEF ExecSpec
<1>4. ExecBase /\ ReasonInv /\ [ExecNext]_execVars => [GoodReason]_runner  BY RunnerHasReason
<1>5. ExecSpec => RunnerStopsFor
  BY <1>3, <1>4, BaseAlways, PTL DEF ExecSpec, RunnerStopsFor
<1> QED  BY <1>5, FilesAreReplacedAsTold, PTL DEF FailuresAreContained
=============================================================================
