-------------------------- MODULE TransferExecutor --------------------------
(***************************************************************************)
(* TransferExecutor of crates/transfers/src/executor.rs on top of the      *)
(* queue, its LocalHandleOwner (the staged local files), and the runner    *)
(* and commands of bins/appd/src/remote.rs that drive it.                  *)
(*                                                                         *)
(* One runner starts tasks and joins workers; each worker is a tokio task  *)
(* that downloads one object into a `.part` file and renames it; clients   *)
(* enqueue, cancel, retry and resolve conflicts; appd shuts the executor   *)
(* down or the process dies.  They meet in the queue (one mutex), in the   *)
(* map of active controls (another mutex) and in the file system.          *)
(*                                                                         *)
(* A step is what happens between two points where another actor can get   *)
(* in: one critical section, one file operation, or one remote request.    *)
(* Bytes move in chunks of one; a chunk is the id of the task whose source *)
(* it came from, so a file is a sequence of ids.  The remote session is    *)
(* external: it delivers the source, or fails.  Uploads share this control *)
(* with the remote as the staging side, and are not distinguished here.    *)
(***************************************************************************)
EXTENDS TransferQueue, Sequences

CONSTANTS
  Handles,       \* opaque local handles
  HandleOf,      \* [TaskIds -> Handles], the task's local destination
  SourceSize,    \* [TaskIds -> Nat], chunks the remote object really has
  MaxJobs,       \* ExecutorLimits.max_concurrent
  StoreMayFail,  \* environment: a write to the table may fail
  ClockMayGoBack,\* environment: the wall clock may be set back
  MayStop,       \* environment: subset of {"shutdown", "crash"}
  OutsiderWrites \* environment: another program may create the destination

\* ExecutorLimits::new refuses zero jobs; the rest describes the environment.
\* The bounds of the queue leave room for what the workers report.
ASSUME ExecutorAssumption ==
  /\ HandleOf \in [TaskIds -> Handles]
  /\ SourceSize \in [TaskIds -> Nat]
  /\ MaxJobs \in Nat \ {0}
  /\ {StoreMayFail, ClockMayGoBack, OutsiderWrites} \subseteq BOOLEAN
  /\ MayStop \subseteq {"shutdown", "crash"}
  /\ \A id \in TaskIds : SourceSize[id] <= MaxBytes /\ ExpectedSize[id] <= MaxBytes
  /\ RevisionCap = None

VARIABLES
  runner,    \* run_transfer_runner and the run_ready it is in
  workers,   \* jobs of the JoinSet: run token -> worker
  active,    \* TransferExecutor.active: task id -> token of the control's run
  asked,     \* cancel commands that changed the queue, not yet the control
  shut,      \* progress of shutdown_transfer_runner
  marking,   \* tasks request_shutdown still has to mark
  bound,     \* LocalHandleOwner.handles
  staged,    \* LocalHandleOwner.staged: handle -> [target, policy], and whether the
             \* destination was found to exist (the receipt's identity)
  files      \* <<handle, name>> -> content; survives a crash

local == <<bound, staged, files>>
commands == <<asked, shut, marking>>
execVars == <<vars, runner, workers, active, commands, local>>

Runners == {"off", "filling", "joining", "sleeping", "stopped", "failed", "aborted"}

\* The operation a worker performs next.
Awaits == {"spawned", "connect", "read", "record", "disconnect"}
Steps == Awaits \cup {"heed", "begin", "write", "size", "commit", "complete", "abort",
                      "persist", "reschedule", "unregister", "done"}

Faults == {"none", "retryable", "permanent", "conflict", "cancelled"}

\* `base` and `policy` are the worker's copy of the task, taken when it was
\* started; `cancelled` is the flag of its RemoteIoControl.
Worker == [pc: Steps, base: Nat, off: Nat, total: Option(Nat), policy: Policies,
           eof: BOOLEAN, cancelled: BOOLEAN, fault: Faults, err: BOOLEAN]

Shuts == {"no", "cancelled", "closed", "marking", "signalled"}

FileNames == {"part", "bound", "renamed"}

Without(f, S) == [x \in DOMAIN f \ S |-> f[x]]

File(id, name) == <<HandleOf[id], name>>

\* What another program writes.
Foreign == <<None>>

Whole(id) == [i \in 1..SourceSize[id] |-> id]

ExecInit ==
  /\ Init
  /\ runner = "off" /\ workers = Empty /\ active = Empty
  /\ asked = {} /\ shut = "no" /\ marking = {}
  /\ bound = {} /\ staged = Empty /\ files = Empty

-----------------------------------------------------------------------------
\* The queue mutex is held across two transactions in two places only.
Unlocked ==
  /\ shut # "marking"
  /\ \A k \in DOMAIN workers : workers[k].pc # "reschedule"

\* Mutate, told apart by its outcome.
Saved(id, t) ==
  IF t.revision = tasks[id].revision THEN UNCHANGED <<tasks, store>>
  ELSE CompareAndSwap(id, tasks[id].revision, t) /\ tasks' = Put(tasks, id, t)

Lost(id, t) ==
  /\ StoreMayFail
  /\ t.revision # tasks[id].revision
  /\ UNCHANGED <<tasks, store>>

\* ensure_open(): the semaphore of the permits is not closed.
Accepting == phase = "open" /\ shut \in {"no", "cancelled"}

At(k, pc) == k \in DOMAIN workers /\ workers[k].pc = pc

Goes(k, pc) == workers' = [workers EXCEPT ![k].pc = pc]

\* The locals of the transfer go out of scope with the error.
Faulty(k, pc, fault) ==
  workers' = [workers EXCEPT ![k] = [@ EXCEPT !.pc = pc, !.fault = fault, !.base = 0,
                                              !.off = 0, !.total = None, !.eof = FALSE]]

\* execute_started returns an error once it has unregistered.
Errs(k) == workers' = [workers EXCEPT ![k].pc = "unregister", ![k].err = TRUE]

\* control.cancel() on every control in ids; workers that are gone miss it.
CancelControls(ids) ==
  LET hit == {active[id] : id \in ids \cap DOMAIN active}
  IN  workers' = [k \in DOMAIN workers |->
                    [workers[k] EXCEPT !.cancelled = @ \/ k \in hit]]

-----------------------------------------------------------------------------
\* Commands of transfer_command and bind_transfer_local_handle.  A handle is a
\* fresh uuid: no stored task can name it yet.
Bind(h) ==
  /\ Accepting
  /\ h \notin bound
  /\ \A id \in DOMAIN store : HandleOf[id] # h
  /\ bound' = bound \cup {h}
  /\ UNCHANGED <<vars, runner, workers, active, commands, staged, files>>

EnqueuePublic(id, policy) ==
  /\ Accepting /\ Unlocked
  /\ HandleOf[id] \in bound
  /\ Enqueue(id, policy)
  /\ UNCHANGED <<runner, workers, active, commands, local>>

CancelPublic(id) ==
  /\ Accepting /\ Unlocked
  /\ Open(id)
  /\ CanRequestCancel(tasks[id], clock)
  /\ Saved(id, RequestCancel(tasks[id], clock))
  /\ asked' = asked \cup {id}
  /\ UNCHANGED <<clock, phase, issued, runner, workers, active, shut, marking, local>>

\* The same command once it has the lock of `active`.
CancelControl(id) ==
  /\ id \in asked
  /\ asked' = asked \ {id}
  /\ CancelControls({id})
  /\ UNCHANGED <<vars, runner, active, shut, marking, local>>

RetryPublic(id) ==
  /\ Accepting /\ Unlocked
  /\ Open(id)
  /\ CanScheduleRetry(id, tasks[id], clock)
  /\ Saved(id, ScheduleRetry(tasks[id], clock))
  /\ UNCHANGED <<clock, phase, issued, runner, workers, active, commands, local>>

ResolvePublic(id, policy) ==
  /\ Accepting /\ Unlocked
  /\ Open(id)
  /\ CanResolveConflict(id, tasks[id], policy, clock)
  /\ Saved(id, ResolveConflict(tasks[id], policy, clock))
  /\ UNCHANGED <<clock, phase, issued, runner, workers, active, commands, local>>

-----------------------------------------------------------------------------
NewWorker(t) ==
  [pc |-> "spawned", base |-> t.bytes, off |-> 0, total |-> None, policy |-> t.policy,
   eof |-> FALSE, cancelled |-> FALSE, fault |-> "none", err |-> FALSE]

\* Faulty variant of StartWorker: the run is spawned before its start is saved.
StartUnsaved(id) ==
  /\ runner = "filling" /\ Unlocked
  /\ Cardinality(DOMAIN workers) < MaxJobs
  /\ StartNext(id)
  /\ workers' = Put(workers, [id |-> id, gen |-> tasks[id].generation + 1],
                    NewWorker(tasks[id]))
  /\ UNCHANGED <<runner, active, commands, local>>

\* The inner loop of run_ready: start_next and spawn; an error of start_next
\* ends run_ready and with it the runner.
StartWorker(id) ==
  /\ runner = "filling" /\ Unlocked
  /\ Cardinality(DOMAIN workers) < MaxJobs
  /\ StartNext(id)
  /\ \/ /\ tasks' # tasks
        /\ workers' = Put(workers, [id |-> id, gen |-> tasks'[id].generation],
                          NewWorker(tasks'[id]))
        /\ UNCHANGED runner
     \/ /\ tasks' = tasks /\ StoreMayFail
        /\ runner' = "failed"
        /\ UNCHANGED workers
  /\ UNCHANGED <<active, commands, local>>

StartRefused(id) ==
  /\ runner = "filling" /\ Unlocked
  /\ Cardinality(DOMAIN workers) < MaxJobs
  /\ Cardinality(Active) < MaxConcurrent
  /\ Next1(id)
  /\ ~CanStart(id, tasks[id], clock)
  /\ runner' = "failed"
  /\ UNCHANGED <<vars, workers, active, commands, local>>

\* Nothing (more) to start: join_next, or run_ready returns.
StopFilling ==
  /\ runner = "filling" /\ Unlocked
  /\ \/ Cardinality(DOMAIN workers) >= MaxJobs
     \/ Cardinality(Active) >= MaxConcurrent
     \/ Candidates = {}
  /\ runner' = IF DOMAIN workers = {} THEN "sleeping" ELSE "joining"
  /\ UNCHANGED <<vars, workers, active, commands, local>>

Join(k) ==
  /\ runner = "joining"
  /\ At(k, "done")
  /\ runner' = IF workers[k].err THEN "failed" ELSE "filling"
  /\ workers' = Without(workers, {k})
  /\ UNCHANGED <<vars, active, commands, local>>

\* Faulty variant of Wake: the queue is not polled again.
WakeOnSignal ==
  /\ runner = "sleeping" /\ shut = "signalled"
  /\ runner' = "stopped"
  /\ UNCHANGED <<vars, workers, active, commands, local>>

Wake ==
  /\ runner = "sleeping"
  /\ runner' = IF shut = "signalled" THEN "stopped" ELSE "filling"
  /\ UNCHANGED <<vars, workers, active, commands, local>>

\* The JoinSet is dropped with the runner: its tasks end at their next await,
\* where nothing of them is cleaned up but the permit.
Vanish(k) ==
  /\ runner \in {"failed", "aborted"}
  /\ k \in DOMAIN workers
  /\ workers[k].pc \in Awaits \cup {"done"}
  /\ workers' = Without(workers, {k})
  /\ UNCHANGED <<vars, runner, active, commands, local>>

-----------------------------------------------------------------------------
\* Faulty variant of Register: closed permits are not an error.
RegisterQuietly(k) ==
  /\ At(k, "spawned")
  /\ IF shut \in {"no", "cancelled"}
     THEN active' = Put(active, k.id, k) /\ Goes(k, "heed")
     ELSE Goes(k, "done") /\ UNCHANGED active
  /\ UNCHANGED <<vars, runner, commands, local>>

\* execute_started: a permit, then a control registered under the task id, then
\* a look at the task in case the cancel command came before the control.
Register(k) ==
  /\ At(k, "spawned")
  /\ IF shut \in {"no", "cancelled"}
     THEN active' = Put(active, k.id, k) /\ Goes(k, "heed")
     ELSE /\ workers' = [workers EXCEPT ![k].pc = "done", ![k].err = TRUE]
          /\ UNCHANGED active
  /\ UNCHANGED <<vars, runner, commands, local>>

\* Faulty variant of HeedCancel: the task is not looked at.
HeedNothing(k) ==
  /\ At(k, "heed") /\ Unlocked
  /\ Goes(k, "connect")
  /\ UNCHANGED <<vars, runner, active, commands, local>>

HeedCancel(k) ==
  /\ At(k, "heed") /\ Unlocked
  /\ workers' = [workers EXCEPT ![k].pc = "connect",
                                ![k].cancelled = @ \/ tasks[k.id].state = "Cancelling"]
  /\ UNCHANGED <<vars, runner, active, commands, local>>

\* execute_io up to the transfer itself.  Every remote error is possible here:
\* refused, timed out, a session of the wrong identity, a missing capability.
Connect(k) ==
  /\ At(k, "connect")
  /\ \/ \E fault \in {"retryable", "permanent", "conflict"} : Faulty(k, "persist", fault)
     \/ workers[k].cancelled /\ Faulty(k, "persist", "cancelled")
     \/ Goes(k, "begin")
  /\ UNCHANGED <<vars, runner, active, commands, local>>

\* Faulty variant of BeginWrite: any `.part` that is there is continued.
BeginAnyPart(k) ==
  /\ At(k, "begin")
  /\ ~workers[k].cancelled
  /\ HandleOf[k.id] \in bound
  /\ File(k.id, "bound") \in DOMAIN files => workers[k].policy # "Fail"
  /\ files' = IF File(k.id, "part") \in DOMAIN files THEN files
              ELSE Put(files, File(k.id, "part"), <<>>)
  /\ staged' = Put(staged, HandleOf[k.id],
                   [target |-> "bound", policy |-> workers[k].policy, found |-> FALSE])
  /\ workers' = [workers EXCEPT ![k].pc = "read", ![k].off = workers[k].base,
                                ![k].total = ExpectedSize[k.id]]
  /\ UNCHANGED <<vars, runner, active, commands, bound>>

\* Faulty variant of BeginWrite: Rename, like Overwrite, aims at the destination.
BeginAtDestination(k) ==
  /\ At(k, "begin")
  /\ ~workers[k].cancelled
  /\ HandleOf[k.id] \in bound
  /\ File(k.id, "bound") \in DOMAIN files => workers[k].policy # "Fail"
  /\ workers[k].base = 0
  /\ files' = Put(files, File(k.id, "part"), <<>>)
  /\ staged' = Put(staged, HandleOf[k.id],
                   [target |-> "bound", policy |-> workers[k].policy,
                    found |-> File(k.id, "bound") \in DOMAIN files])
  /\ workers' = [workers EXCEPT ![k].pc = "read", ![k].total = ExpectedSize[k.id]]
  /\ UNCHANGED <<vars, runner, active, commands, bound>>

\* begin_staged_write: the `.part` is created, and emptied unless the task has
\* progress to resume from; then its length must be that progress.
BeginWrite(k) ==
  /\ At(k, "begin")
  /\ LET w      == workers[k]
         h      == HandleOf[k.id]
         exists == File(k.id, "bound") \in DOMAIN files
         part   == IF w.base > 0 /\ File(k.id, "part") \in DOMAIN files
                   THEN files[File(k.id, "part")] ELSE <<>>
     IN  IF w.cancelled THEN Faulty(k, "disconnect", "cancelled") /\ UNCHANGED local
         ELSE
           \/ /\ \E fault \in {"retryable", "permanent", "conflict"} :
                   Faulty(k, "disconnect", fault)
              /\ UNCHANGED local
           \/ /\ h \in bound
              /\ exists => w.policy # "Fail"
              /\ files' = Put(files, File(k.id, "part"), part)
              /\ IF Len(part) # w.base
                 THEN Faulty(k, "disconnect", "conflict") /\ UNCHANGED staged
                 ELSE /\ staged' = Put(staged, h,
                           [target |-> IF exists /\ w.policy = "Rename"
                                       THEN "renamed" ELSE "bound",
                            policy |-> w.policy, found |-> exists])
                      /\ workers' = [workers EXCEPT ![k].pc = "read", ![k].off = w.base,
                                                    ![k].total = ExpectedSize[k.id]]
              /\ UNCHANGED bound
  /\ UNCHANGED <<vars, runner, active, commands>>

\* One request to the remote; the size may become known with the answer.
ReadChunk(k) ==
  /\ At(k, "read")
  /\ LET w == workers[k] IN
     IF w.cancelled THEN Faulty(k, "abort", "cancelled")
     ELSE \/ \E fault \in {"retryable", "permanent", "conflict"} : Faulty(k, "abort", fault)
          \/ \E size \in {None, SourceSize[k.id]} :
               workers' = [workers EXCEPT
                 ![k].total = IF @ = None THEN size ELSE @,
                 ![k].eof = w.off + 1 >= SourceSize[k.id],
                 ![k].pc = IF w.off < SourceSize[k.id] THEN "write" ELSE "size"]
  /\ UNCHANGED <<vars, runner, active, commands, local>>

\* A timeout or an I/O error may be met before or after the bytes are written.
WriteChunk(k) ==
  /\ At(k, "write")
  /\ LET w    == workers[k]
         part == File(k.id, "part")
         Unwritten(fault) == Faulty(k, "abort", fault) /\ UNCHANGED files
     IN  IF w.cancelled THEN Unwritten("cancelled")
         ELSE IF HandleOf[k.id] \notin DOMAIN staged THEN Unwritten("permanent")
         ELSE IF part \notin DOMAIN files THEN Unwritten("retryable")
         ELSE IF Len(files[part]) # w.off THEN Unwritten("conflict")
         ELSE \/ Unwritten("retryable")
              \/ /\ files' = [files EXCEPT ![part] = Append(@, k.id)]
                 /\ \/ Faulty(k, "abort", "retryable")
                    \/ workers' = [workers EXCEPT ![k].pc = "record", ![k].off = @ + 1]
  /\ UNCHANGED <<vars, runner, active, commands, bound, staged>>

\* map_queue_error: only a stale token counts as a cancellation.
Rejected(k) ==
  Faulty(k, "abort", IF CheckToken(tasks[k.id], k.gen) THEN "retryable" ELSE "cancelled")

\* A queue call of a worker in the middle of its I/O.
Tell(k, can, t, next) ==
  \/ can /\ Saved(k.id, t) /\ Goes(k, next)
  \/ can /\ Lost(k.id, t) /\ Faulty(k, "abort", "retryable")
  \/ ~can /\ Rejected(k) /\ UNCHANGED <<tasks, store>>

\* throttle_and_record.
RecordChunk(k) ==
  /\ At(k, "record") /\ Unlocked
  /\ LET w == workers[k]
         t == tasks[k.id]
     IN  \/ /\ \/ w.cancelled /\ Faulty(k, "abort", "cancelled")
               \/ ~w.cancelled /\ Faulty(k, "abort", "retryable")
            /\ UNCHANGED <<tasks, store>>
         \/ /\ ~w.cancelled
            /\ Tell(k, CanRecordProgress(t, k.gen, w.off, w.total, clock),
                    RecordProgress(t, w.off, w.total, FALSE, clock),
                    IF w.eof THEN "size" ELSE "read")
  /\ UNCHANGED <<clock, phase, issued, runner, active, commands, local>>

\* ensure_final_size and record_zero_progress.
CheckFinalSize(k) ==
  /\ At(k, "size") /\ Unlocked
  /\ LET w == workers[k]
         t == tasks[k.id]
     IN  IF w.total \notin {None, w.off}
         THEN Faulty(k, "abort", "conflict") /\ UNCHANGED <<tasks, store>>
         ELSE IF w.base = w.off /\ w.total = w.off
         THEN \E same \in BOOLEAN :
                Tell(k, CanRecordProgress(t, k.gen, w.off, w.total, clock),
                     RecordProgress(t, w.off, w.total, same, clock), "commit")
         ELSE Goes(k, "commit") /\ UNCHANGED <<tasks, store>>
  /\ UNCHANGED <<clock, phase, issued, runner, active, commands, local>>

\* Faulty variant of CommitWrite: the rename always replaces its target.
CommitReplacing(k) ==
  /\ At(k, "commit")
  /\ ~workers[k].cancelled
  /\ HandleOf[k.id] \in DOMAIN staged
  /\ File(k.id, "part") \in DOMAIN files
  /\ files' = Without(Put(files, File(k.id, staged[HandleOf[k.id]].target),
                          files[File(k.id, "part")]), {File(k.id, "part")})
  /\ Goes(k, "complete")
  /\ UNCHANGED <<vars, runner, active, commands, bound, staged>>

\* commit_staged_write up to the rename, which replaces the target unless the
\* policy is Fail (RENAME_NOREPLACE).
CommitWrite(k) ==
  /\ At(k, "commit")
  /\ LET w    == workers[k]
         h    == HandleOf[k.id]
         part == File(k.id, "part")
         Unmoved(fault) == Faulty(k, "abort", fault) /\ UNCHANGED files
     IN  IF w.cancelled THEN Unmoved("cancelled")
         ELSE IF h \notin DOMAIN staged THEN Unmoved("permanent")
         ELSE IF part \notin DOMAIN files THEN Unmoved("retryable")
         ELSE IF w.total \notin {None, Len(files[part])} THEN Unmoved("conflict")
         ELSE IF staged[h].policy = "Fail" /\ <<h, staged[h].target>> \in DOMAIN files
         THEN Unmoved("conflict")
         ELSE \/ Unmoved("retryable")
              \/ /\ files' = Without(Put(files, <<h, staged[h].target>>, files[part]), {part})
                 /\ Goes(k, "complete")
  /\ UNCHANGED <<vars, runner, active, commands, bound, staged>>

\* The rest of commit_staged_write, which looks at the control once more, and
\* complete().
ReportComplete(k) ==
  /\ At(k, "complete") /\ Unlocked
  /\ LET t == tasks[k.id] IN
     \/ /\ workers[k].cancelled
        /\ Faulty(k, "abort", "cancelled")
        /\ UNCHANGED <<tasks, store, staged>>
     \/ /\ ~workers[k].cancelled
        /\ \E fault \in {"retryable", "permanent"} : Faulty(k, "abort", fault)
        /\ UNCHANGED <<tasks, store, staged>>
     \/ /\ ~workers[k].cancelled
        /\ staged' = Without(staged, {HandleOf[k.id]})
        /\ Tell(k, CanComplete(t, k.gen, clock), Complete(t, clock), "disconnect")
  /\ UNCHANGED <<clock, phase, issued, runner, active, commands, bound, files>>

\* abort_staged_write; its error is ignored, so the `.part` may stay behind.
AbortWrite(k) ==
  /\ At(k, "abort")
  /\ Goes(k, "disconnect")
  /\ staged' = Without(staged, {HandleOf[k.id]})
  /\ \/ UNCHANGED files
     \/ /\ HandleOf[k.id] \in DOMAIN staged
        /\ files' = Without(files, {File(k.id, "part")})
  /\ UNCHANGED <<vars, runner, active, commands, bound>>

\* An error of the disconnect counts only when the transfer had none, and then
\* it becomes the failure of a transfer that is already completed.
Disconnect(k) ==
  /\ At(k, "disconnect")
  /\ IF workers[k].fault # "none" THEN Goes(k, "persist")
     ELSE \/ Goes(k, "unregister")
          \/ \E fault \in {"retryable", "permanent"} : Faulty(k, "persist", fault)
  /\ UNCHANGED <<vars, runner, active, commands, local>>

\* Faulty variant of Settle: an error of the queue is swallowed.
SettleQuietly(k, can, t, next) ==
  \/ can /\ Saved(k.id, t) /\ Goes(k, next)
  \/ can /\ Lost(k.id, t) /\ Goes(k, "unregister")
  \/ ~can /\ Goes(k, "unregister") /\ UNCHANGED <<tasks, store>>

\* A queue call whose error ends the worker.
Settle(k, can, t, next) ==
  \/ can /\ Saved(k.id, t) /\ Goes(k, next)
  \/ can /\ Lost(k.id, t) /\ Errs(k)
  \/ ~can /\ Errs(k) /\ UNCHANGED <<tasks, store>>

\* Faulty variant of PersistFailure: a cancelled task needs no failure.
PersistUnlessCancelling(k) ==
  /\ At(k, "persist") /\ Unlocked
  /\ LET t     == tasks[k.id]
         fault == workers[k].fault
     IN  IF t.state = "Cancelling" \/ fault = "cancelled"
         THEN Goes(k, "unregister") /\ UNCHANGED <<tasks, store>>
         ELSE Settle(k, CanFail(t, k.gen, clock), Fail(t, fault, clock), "unregister")
  /\ UNCHANGED <<clock, phase, issued, runner, active, commands, local>>

\* persist_failure: the checkpoint is the progress the queue has recorded.
PersistFailure(k) ==
  /\ At(k, "persist") /\ Unlocked
  /\ LET t     == tasks[k.id]
         fault == workers[k].fault
     IN  IF t.state = "Cancelling" \/ fault = "cancelled"
         THEN Settle(k, CanConfirmCancelled(t, k.gen, t.bytes, clock),
                     ConfirmCancelled(t, t.bytes, clock), "unregister")
         ELSE IF fault = "conflict"
         THEN Settle(k, CanEnterConflict(t, k.gen, t.bytes, clock),
                     EnterConflict(t, t.bytes, clock), "unregister")
         ELSE Settle(k, CanFail(t, k.gen, clock), Fail(t, fault, clock),
                     IF fault = "retryable" THEN "reschedule" ELSE "unregister")
  /\ UNCHANGED <<clock, phase, issued, runner, active, commands, local>>

\* Faulty variants of PersistRetry: the retry budget is not looked at, and a
\* spent budget is an error.
PersistRetryAlways(k) ==
  /\ At(k, "reschedule")
  /\ Settle(k, TRUE, ScheduleRetry(tasks[k.id], clock), "unregister")
  /\ UNCHANGED <<clock, phase, issued, runner, active, commands, local>>

PersistRetryStrictly(k) ==
  /\ At(k, "reschedule")
  /\ Settle(k, CanScheduleRetry(k.id, tasks[k.id], clock), ScheduleRetry(tasks[k.id], clock),
            "unregister")
  /\ UNCHANGED <<clock, phase, issued, runner, active, commands, local>>

\* The second transaction of persist_failure, under the same lock and with the
\* same reading of the clock; a spent retry budget is not an error.
PersistRetry(k) ==
  /\ At(k, "reschedule")
  /\ LET t == tasks[k.id] IN
     IF t.attempts >= MaxAttempts[k.id]
     THEN Goes(k, "unregister") /\ UNCHANGED <<tasks, store>>
     ELSE Settle(k, CanScheduleRetry(k.id, t, clock), ScheduleRetry(t, clock), "unregister")
  /\ UNCHANGED <<clock, phase, issued, runner, active, commands, local>>

\* Faulty variant of Unregister: a run that failed leaves its control behind.
UnregisterSuccess(k) ==
  /\ At(k, "unregister")
  /\ Goes(k, "done")
  /\ active' = IF workers[k].fault = "none" THEN Without(active, {k.id}) ELSE active
  /\ UNCHANGED <<vars, runner, commands, local>>

\* active.remove(id), whichever run's control is there, and the permit is free.
Unregister(k) ==
  /\ At(k, "unregister")
  /\ Goes(k, "done")
  /\ active' = Without(active, {k.id})
  /\ UNCHANGED <<vars, runner, commands, local>>

WorkerStep(k) ==
  \/ Register(k) \/ HeedCancel(k) \/ Connect(k) \/ BeginWrite(k) \/ ReadChunk(k)
  \/ WriteChunk(k) \/ RecordChunk(k) \/ CheckFinalSize(k) \/ CommitWrite(k)
  \/ ReportComplete(k) \/ AbortWrite(k) \/ Disconnect(k) \/ PersistFailure(k)
  \/ PersistRetry(k) \/ Unregister(k)

-----------------------------------------------------------------------------
\* request_shutdown: the controls are cancelled, the permits closed, and only
\* then are the tasks marked under the lock of the queue.
ShutdownControls ==
  /\ "shutdown" \in MayStop
  /\ phase = "open" /\ shut = "no"
  /\ shut' = "cancelled"
  /\ marking' = DOMAIN active
  /\ CancelControls(DOMAIN active)
  /\ UNCHANGED <<vars, runner, active, asked, local>>

ShutdownPermits ==
  /\ shut = "cancelled"
  /\ shut' = "closed"
  /\ UNCHANGED <<vars, runner, workers, active, asked, marking, local>>

ShutdownLock ==
  /\ shut = "closed" /\ Unlocked
  /\ shut' = "marking"
  /\ UNCHANGED <<vars, runner, workers, active, asked, marking, local>>

\* An error ends request_shutdown with tasks left unmarked; appd goes on.
ShutdownMark(id) ==
  /\ shut = "marking"
  /\ id \in marking
  /\ LET t == tasks[id]
         u == IF IsActive(t) THEN RequestCancel(t, clock) ELSE t
         can == IsActive(t) => CanRequestCancel(t, clock)
     IN  \/ can /\ Saved(id, u) /\ marking' = marking \ {id} /\ UNCHANGED shut
         \/ can /\ Lost(id, u) /\ marking' = {} /\ shut' = "signalled"
         \/ ~can /\ UNCHANGED <<tasks, store>> /\ marking' = {} /\ shut' = "signalled"
  /\ UNCHANGED <<clock, phase, issued, runner, workers, active, asked, local>>

ShutdownSignal ==
  /\ shut = "marking" /\ marking = {}
  /\ shut' = "signalled"
  /\ UNCHANGED <<vars, runner, workers, active, asked, marking, local>>

\* TRANSFER_RUNNER_SHUTDOWN_TIMEOUT is over and the runner has not returned.
ShutdownTimeout ==
  /\ shut = "signalled"
  /\ runner \in {"filling", "joining", "sleeping"}
  /\ runner' = "aborted"
  /\ UNCHANGED <<vars, workers, active, commands, local>>

-----------------------------------------------------------------------------
\* start_transfer_runner opens the queue and spawns the runner.
ExecOpen ==
  /\ \/ OpenBegin /\ UNCHANGED runner
     \/ (\E id \in TaskIds : RecoverOne(id)) /\ UNCHANGED runner
     \/ OpenFails /\ UNCHANGED runner
     \/ OpenDone /\ runner' = "filling"
  /\ UNCHANGED <<workers, active, commands, local>>

\* The process ends: memory is lost, handles with it; files and table stay.
ExecCrash ==
  /\ \/ "crash" \in MayStop
     \/ shut = "signalled" /\ runner \in {"stopped", "failed", "aborted"}
  /\ Crash
  /\ runner' = "off" /\ workers' = Empty /\ active' = Empty
  /\ asked' = {} /\ shut' = "no" /\ marking' = {}
  /\ bound' = {} /\ staged' = Empty
  /\ UNCHANGED files

ExecTick ==
  /\ \A k \in DOMAIN workers : workers[k].pc # "reschedule"
  /\ Tick
  /\ ClockMayGoBack \/ clock' > clock
  /\ UNCHANGED <<runner, workers, active, commands, local>>

Outsider(h) ==
  /\ OutsiderWrites
  /\ <<h, "bound">> \notin DOMAIN files
  /\ files' = Put(files, <<h, "bound">>, Foreign)
  /\ UNCHANGED <<vars, runner, workers, active, commands, bound, staged>>

Client(id) ==
  \/ \E policy \in OfferedPolicies : EnqueuePublic(id, policy) \/ ResolvePublic(id, policy)
  \/ CancelPublic(id) \/ RetryPublic(id)

Runner ==
  \/ \E id \in TaskIds : StartWorker(id) \/ StartRefused(id)
  \/ \E k \in DOMAIN workers : Join(k)
  \/ StopFilling \/ Wake

Shutdown ==
  \/ ShutdownControls \/ ShutdownPermits \/ ShutdownLock \/ ShutdownSignal \/ ShutdownTimeout
  \/ \E id \in marking : ShutdownMark(id)

ExecNext ==
  \/ \E id \in TaskIds : Client(id) \/ CancelControl(id)
  \/ Runner
  \/ \E k \in DOMAIN workers : WorkerStep(k) \/ Vanish(k)
  \/ Shutdown \/ ExecOpen \/ ExecCrash \/ ExecTick
  \/ \E h \in Handles : Bind(h) \/ Outsider(h)

ExecSpec == ExecInit /\ [][ExecNext]_execVars

\* The runner, the workers (each of their requests has a deadline) and a cancel
\* command that is under way are always scheduled again.
FairSpec ==
  /\ ExecSpec
  /\ WF_execVars(Runner)
  /\ \A id \in TaskIds : WF_execVars(CancelControl(id))
  /\ \A id \in TaskIds : WF_execVars(\E k \in DOMAIN workers : k.id = id /\ WorkerStep(k))

-----------------------------------------------------------------------------
\* The values of the variables; in particular a worker and a control exist
\* only for a run the queue has issued a token for (execute_started).
ExecTypeOK ==
  /\ runner \in Runners
  /\ DOMAIN workers \subseteq issued /\ workers \in [DOMAIN workers -> Worker]
  /\ DOMAIN active \subseteq TaskIds /\ active \in [DOMAIN active -> issued]
  /\ asked \subseteq DOMAIN tasks
  /\ shut \in Shuts /\ marking \subseteq DOMAIN tasks
  /\ bound \subseteq Handles
  /\ DOMAIN staged \subseteq Handles
  /\ DOMAIN files \subseteq Handles \X FileNames

\* Whatever the runner, the workers, the clients and the shutdown do, the
\* queue sees only steps its own specification allows.
ImplementsQueue == Spec

Alive == runner \in {"filling", "joining", "sleeping"}

InIO == {"connect", "begin", "read", "write", "record", "size", "commit", "complete"}

RunOf(id) == [id |-> id, gen |-> tasks[id].generation]

\* Whether the worker still has to end its run in the queue.
Owes(k) ==
  /\ k \in DOMAIN workers
  /\ workers[k].pc \in InIO \cup {"spawned", "heed", "abort", "disconnect", "persist"}

\* A worker moves bytes only for the run the queue thinks is in progress, so a
\* task never has two of them at it; and while the runner is alive every such
\* run has a worker that will end it, or one whose error will stop the runner.
RunsHaveWorkers ==
  /\ \A k \in DOMAIN workers : workers[k].pc \in InIO => Honoured(k)
  /\ Alive => \A id \in Active :
       Owes(RunOf(id)) \/ (RunOf(id) \in DOMAIN workers /\ workers[RunOf(id)].err)

\* A transfer reported as completed left the whole source, and nothing else,
\* under its final name, through every retry, resume, crash and rename.
CompletedIsDelivered ==
  \A id \in DOMAIN store : store[id].state = "Completed" =>
    \E name \in {"bound", "renamed"} :
      File(id, name) \in DOMAIN files /\ files[File(id, name)] = Whole(id)

\* Progress comes from actual I/O: what the queue has recorded for the run is
\* in the `.part` already, and at most one chunk of it is not yet recorded.
ProgressIsStaged ==
  \A k \in DOMAIN workers :
    workers[k].pc \in {"read", "write", "record", "size", "commit"} =>
      /\ File(k.id, "part") \in DOMAIN files
      /\ Len(files[File(k.id, "part")]) = workers[k].off
      /\ store[k.id].bytes \in {workers[k].off - 1, workers[k].off}

Replaced(h) ==
  LET f == <<h, "bound">> IN
  /\ f \in DOMAIN files /\ files[f] = Foreign
  /\ f \notin DOMAIN files' \/ files'[f] # Foreign

\* A file somebody else put at the destination is lost in two cases only, as the
\* policy stands that the client gave last: to a task told to overwrite or to
\* resume; and to one told to rename, if the file appeared after the run had
\* looked for it, at the beginning of its write.  Never to a task told to fail.
ReplacesAsTold ==
  [][\A h \in Handles : Replaced(h) =>
       \E id \in Active :
         /\ HandleOf[id] = h /\ tasks[id].policy # "Fail"
         /\ tasks[id].policy = "Rename" => ~staged[h].found]_files

\* A run asked to stop hears of it: its control is cancelled, unless the cancel
\* command is just about to do so.  Two exceptions are the code's own: a worker
\* of an earlier run that leaves only now, which takes the control registered
\* under the task id with it (one job cannot overlap with itself), and a
\* shutdown, which marks the tasks of the controls it has cancelled.
CancelHeard ==
  shut = "no" => \A id \in Active :
    LET k == RunOf(id) IN
    tasks[id].state = "Cancelling" /\ k \in DOMAIN workers /\ workers[k].pc \in InIO
      => \/ workers[k].cancelled \/ id \in asked
         \/ MaxJobs > 1 /\ id \notin DOMAIN active

\* No control outlives its worker while the runner is alive.
ControlsReclaimed ==
  Alive => \A id \in DOMAIN active : active[id] \in DOMAIN workers

\* A queued task that start_next takes up and refuses.
Spent(id) == store[id].state = "Queued" /\ store[id].attempts >= MaxAttempts[id]

GoodReason ==
  \/ runner' # "failed" \/ shut # "no"
  \/ \E id \in TaskIds : Next1(id) /\ Spent(id)
  \/ \E k \in DOMAIN workers \ DOMAIN workers' : workers[k].err /\ tasks[k.id].state = "Completed"

\* With a reliable table and clock, and no shutdown, the runner stops for two
\* reasons only: the queue's next task has no attempt left, or the run just
\* joined met an error of the disconnect after the transfer had completed.
RunnerStopsFor == [][GoodReason]_runner

\* Nothing but a client that settles a conflict sends such a task back: no
\* retry, failure, cancel, crash or recovery does.
SpentBySettling ==
  [][\A id \in DOMAIN store : Spent(id)' => Spent(id) \/ store[id].state = "Conflict"]_store

\* A runner that returned by itself left nothing half done: no worker, no
\* control, and no task the queue still counts as active.
StoppedIsSettled ==
  runner = "stopped" => DOMAIN workers = {} /\ DOMAIN active = {} /\ Active = {}

\* A cancelled run ends, unless the runner stops first.
CancelSettles ==
  \A id \in TaskIds :
    (id \in DOMAIN tasks /\ tasks[id].state = "Cancelling")
      ~> (~Alive \/ (id \in DOMAIN tasks /\ tasks[id].state # "Cancelling"))

\* A queued task is started or cancelled in the end, unless the runner stops.
QueuedIsServed ==
  \A id \in TaskIds :
    (id \in DOMAIN tasks /\ tasks[id].state = "Queued")
      ~> (~Alive \/ (id \in DOMAIN tasks /\ tasks[id].state # "Queued"))

-----------------------------------------------------------------------------
(* Statements of the repository's documents and tests that the code refutes. *)

\* A run stopped through its control ends without an error
\* (crates/transfers/tests/executor.rs: the run cut short by request_shutdown
\* returns an outcome, and that outcome is Cancelled).
CancelledRunsSettle ==
  \A k \in DOMAIN workers : workers[k].cancelled => ~workers[k].err

\* A checkpoint is safe: the `.part` it speaks of is there, and as long as it
\* says (persist_failure after abort_staged_write).
CheckpointIsSafe ==
  \A id \in DOMAIN store : store[id].checkpoint > 0 =>
    /\ File(id, "part") \in DOMAIN files
    /\ Len(files[File(id, "part")]) >= store[id].checkpoint

\* What a run says of itself is true, through every failure and crash: it has a
\* worker, its recorded bytes are staged, and completed means delivered whole
\* (execute_started, download_started, commit_staged_write).
RunsAreHonest == ExecTypeOK /\ RunsHaveWorkers /\ CompletedIsDelivered /\ ProgressIsStaged

\* Runs, workers and controls come and go together, although each is kept in a
\* structure of its own: queue, JoinSet and map of active controls.
WorkersMatchRuns == RunsHaveWorkers /\ ControlsReclaimed

\* What goes wrong in one run is contained, up to what the code lets happen: a
\* foreign file is lost in the two cases of ReplacesAsTold only, and the other
\* tasks lose their runner for two reasons only, of which a client makes the one
\* by settling a conflict after the last attempt (begin_staged_write,
\* commit_staged_write, resolve_conflict, run_transfer_runner).
FailuresAreContained == ReplacesAsTold /\ RunnerStopsFor /\ SpentBySettling

\* A shutdown at any point stays within what the queue does, and a runner that
\* returned by itself has settled everything (request_shutdown, run_ready).
StopIsOrderly == []StoppedIsSettled /\ ImplementsQueue

\* Every task moves on: a cancelled run ends and a queued task is served
\* (run_ready, request_cancel_public).
TasksMoveOn == CancelSettles /\ QueuedIsServed
=============================================================================
