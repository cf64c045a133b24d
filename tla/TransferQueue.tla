--------------------------- MODULE TransferQueue ---------------------------
(***************************************************************************)
(* TransferQueue<SqliteTransferStore> of crates/transfers/src/queue.rs and *)
(* persistence.rs: an in-memory map of tasks in front of a durable table,  *)
(* guarded by one mutex, so each call is one step.  A call may fail in the *)
(* store, in which case its transaction is not applied.  Callers present   *)
(* run tokens at any time, also long after the run they belong to ended;   *)
(* the process may crash between any two steps and reopen the table.       *)
(***************************************************************************)
EXTENDS TransferTask, FiniteSets

CONSTANTS
  MaxTasks,         \* limits.max_tasks
  MaxConcurrent,    \* limits.max_concurrent
  MaxPerProfile,    \* limits.max_concurrent_per_profile
  OfferedPolicies,  \* conflict policies that clients ask for
  MaxTime,          \* bound: the clock stays in 0..MaxTime
  MaxBytes,         \* bound: reported byte counts stay in 0..MaxBytes
  RevisionCap       \* bound: progress reports stop at this revision, or None

\* QueueLimits::new.
ASSUME QueueAssumption ==
  /\ IsFiniteSet(TaskIds)
  /\ MaxTasks \in Nat \ {0}
  /\ MaxConcurrent \in Nat \ {0}
  /\ MaxPerProfile \in 1..MaxConcurrent
  /\ OfferedPolicies \subseteq Policies
  /\ MaxTime \in Nat
  /\ MaxBytes \in Nat
  /\ RevisionCap \in Option(Nat)

VARIABLES
  clock,    \* unix_time_ms(), a wall clock that may be set back
  phase,    \* "closed", "opening" (inside open) or "open"
  tasks,    \* TransferQueue.tasks; while opening, the tasks recovered so far
  store,    \* table transfer_tasks; survives a crash
  issued    \* run tokens some caller of this process still holds

vars == <<clock, phase, tasks, store, issued>>

Empty == [id \in {} |-> id]

Put(f, id, t) == [x \in DOMAIN f \cup {id} |-> IF x = id THEN t ELSE f[x]]

Token == [id: TaskIds, gen: Nat]

Phases == {"closed", "opening", "open"}

Init ==
  /\ clock = 0
  /\ phase = "closed"
  /\ tasks = Empty
  /\ store = Empty
  /\ issued = {}

-----------------------------------------------------------------------------
\* The UPDATE ... WHERE task_id = id AND revision = expected; zero rows changed
\* is an error.
CompareAndSwap(id, expected, t) ==
  /\ id \in DOMAIN store
  /\ store[id].revision = expected
  /\ store' = Put(store, id, t)

\* Faulty variant of Mutate: the map is updated before the table.
MutateMapFirst(id, t) ==
  /\ tasks' = Put(tasks, id, t)
  /\ CompareAndSwap(id, tasks[id].revision, t) \/ UNCHANGED store

\* mutate() with a mutation that turned the task into t: the memory copy
\* follows the table, and a store error drops the clone.
Mutate(id, t) ==
  \/ /\ t.revision = tasks[id].revision
     /\ UNCHANGED <<tasks, store>>
  \/ /\ t.revision # tasks[id].revision
     /\ CompareAndSwap(id, tasks[id].revision, t)
     /\ tasks' = Put(tasks, id, t)
  \/ /\ t.revision # tasks[id].revision
     /\ UNCHANGED <<tasks, store>>

\* A call on a task of the open queue that issues no token.
Call(id, t) ==
  /\ Mutate(id, t)
  /\ UNCHANGED <<clock, phase, issued>>

Open(id) == phase = "open" /\ id \in DOMAIN tasks

Active == {id \in DOMAIN tasks : IsActive(tasks[id])}

ActiveOf(p) == {id \in Active : ProfileOf[id] = p}

-----------------------------------------------------------------------------
Enqueue(id, policy) ==
  /\ phase = "open"
  /\ Cardinality(DOMAIN tasks) < MaxTasks
  /\ id \notin DOMAIN tasks
  /\ id \notin DOMAIN store
  /\ LET t == NewTask(id, policy, clock)
     IN  store' = Put(store, id, t) /\ tasks' = Put(tasks, id, t)
  /\ UNCHANGED <<clock, phase, issued>>

\* Faulty variant of Candidates: the limit per profile is forgotten.
CandidatesAnyProfile == {id \in DOMAIN tasks : Startable(tasks[id], clock)}

Candidates ==
  {id \in DOMAIN tasks :
     /\ Startable(tasks[id], clock)
     /\ Cardinality(ActiveOf(ProfileOf[id])) < MaxPerProfile}

\* (created_at_unix_ms, id)
Before(a, b) ==
  \/ tasks[a].createdAt < tasks[b].createdAt
  \/ tasks[a].createdAt = tasks[b].createdAt /\ a <= b

\* start_next offers one task only, the oldest candidate; when that one cannot
\* start, the call is an error and no other task is tried.
Next1(id) == id \in Candidates /\ \A other \in Candidates : Before(id, other)

StartNext(id) ==
  /\ phase = "open"
  /\ Cardinality(Active) < MaxConcurrent
  /\ Next1(id)
  /\ CanStart(id, tasks[id], clock)
  /\ LET t == Start(tasks[id], clock)
     IN  /\ Mutate(id, t)
         /\ issued' = issued \cup
              (IF tasks' = tasks THEN {} ELSE {[id |-> id, gen |-> t.generation]})
  /\ UNCHANGED <<clock, phase>>

\* Callbacks of a run, made with a token that may be long out of date.
ReportProgress(k, bytes, total, same) ==
  /\ Open(k.id)
  /\ RevisionCap = None \/ tasks[k.id].revision < RevisionCap
  /\ CanRecordProgress(tasks[k.id], k.gen, bytes, total, clock)
  /\ Call(k.id, RecordProgress(tasks[k.id], bytes, total, same, clock))

ConfirmPause(k, offset) ==
  /\ Open(k.id)
  /\ CanConfirmPaused(tasks[k.id], k.gen, offset, clock)
  /\ Call(k.id, ConfirmPaused(tasks[k.id], offset, clock))

ConfirmCancel(k, checkpoint) ==
  /\ Open(k.id)
  /\ CanConfirmCancelled(tasks[k.id], k.gen, checkpoint, clock)
  /\ Call(k.id, ConfirmCancelled(tasks[k.id], checkpoint, clock))

Finish(k) ==
  /\ Open(k.id)
  /\ CanComplete(tasks[k.id], k.gen, clock)
  /\ Call(k.id, Complete(tasks[k.id], clock))

FailRun(k, failure) ==
  /\ Open(k.id)
  /\ CanFail(tasks[k.id], k.gen, clock)
  /\ Call(k.id, Fail(tasks[k.id], failure, clock))

MeetConflict(k, checkpoint) ==
  /\ Open(k.id)
  /\ CanEnterConflict(tasks[k.id], k.gen, checkpoint, clock)
  /\ Call(k.id, EnterConflict(tasks[k.id], checkpoint, clock))

\* Requests of a user, which need no token.
AskPause(id) ==
  /\ Open(id)
  /\ CanRequestPause(id, tasks[id], clock)
  /\ Call(id, RequestPause(tasks[id], clock))

AskResume(id) ==
  /\ Open(id)
  /\ CanResume(id, tasks[id], clock)
  /\ Call(id, Resume(tasks[id], clock))

AskCancel(id) ==
  /\ Open(id)
  /\ CanRequestCancel(tasks[id], clock)
  /\ Call(id, RequestCancel(tasks[id], clock))

AskRetry(id) ==
  /\ Open(id)
  /\ CanScheduleRetry(id, tasks[id], clock)
  /\ Call(id, ScheduleRetry(tasks[id], clock))

SettleConflict(id, policy) ==
  /\ Open(id)
  /\ CanResolveConflict(id, tasks[id], policy, clock)
  /\ Call(id, ResolveConflict(tasks[id], policy, clock))

-----------------------------------------------------------------------------
\* open(): load_all, then recover the rows one by one, each in a transaction
\* of its own, in the order of load_all (updated_at_unix_ms, task_id).
OpenBegin ==
  /\ phase = "closed"
  /\ Cardinality(DOMAIN store) <= MaxTasks
  /\ phase' = "opening"
  /\ tasks' = Empty
  /\ UNCHANGED <<clock, store, issued>>

Unrecovered == DOMAIN store \ DOMAIN tasks

LoadedBefore(a, b) ==
  \/ store[a].updatedAt < store[b].updatedAt
  \/ store[a].updatedAt = store[b].updatedAt /\ a <= b

RecoverOne(id) ==
  /\ phase = "opening"
  /\ id \in Unrecovered
  /\ \A other \in Unrecovered : LoadedBefore(id, other)
  /\ CheckTime(store[id], clock)
  /\ LET t == Recover(store[id], clock)
     IN  /\ tasks' = Put(tasks, id, t)
         /\ IF t.revision = store[id].revision
            THEN UNCHANGED store
            ELSE CompareAndSwap(id, store[id].revision, t)
  /\ UNCHANGED <<clock, phase, issued>>

\* A store error, or a row stamped later than the clock: open returns the
\* error and rows recovered before it stay recovered.
OpenFails ==
  /\ phase = "opening"
  /\ phase' = "closed"
  /\ tasks' = Empty
  /\ UNCHANGED <<clock, store, issued>>

OpenDone ==
  /\ phase = "opening"
  /\ Unrecovered = {}
  /\ phase' = "open"
  /\ UNCHANGED <<clock, tasks, store, issued>>

Crash ==
  /\ phase # "closed"
  /\ phase' = "closed"
  /\ tasks' = Empty
  /\ issued' = {}
  /\ UNCHANGED <<clock, store>>

\* open() is given one reading of the clock, so it stands still meanwhile.
Tick ==
  /\ phase # "opening"
  /\ clock' \in 0..MaxTime
  /\ UNCHANGED <<phase, tasks, store, issued>>

Checkpoints == Option(0..MaxBytes)

Callback(k) ==
  \/ \E bytes \in 0..MaxBytes, total \in Option(0..MaxBytes), same \in BOOLEAN :
       ReportProgress(k, bytes, total, same)
  \/ \E offset \in 0..MaxBytes : ConfirmPause(k, offset)
  \/ \E checkpoint \in Checkpoints : ConfirmCancel(k, checkpoint)
  \/ Finish(k)
  \/ \E failure \in {"permanent", "retryable"} : FailRun(k, failure)
  \/ \E checkpoint \in Checkpoints : MeetConflict(k, checkpoint)

Request(id) ==
  \/ \E policy \in OfferedPolicies : Enqueue(id, policy)
  \/ AskPause(id)
  \/ AskResume(id)
  \/ AskCancel(id)
  \/ AskRetry(id)
  \/ \E policy \in OfferedPolicies : SettleConflict(id, policy)

Next ==
  \/ \E id \in TaskIds : Request(id) \/ StartNext(id) \/ RecoverOne(id)
  \/ \E k \in issued : Callback(k)
  \/ OpenBegin \/ OpenFails \/ OpenDone \/ Crash \/ Tick

Spec == Init /\ [][Next]_vars

-----------------------------------------------------------------------------
\* The values of the variables; memory and table hold well-formed tasks
\* (TransferTask).
TypeOK ==
  /\ clock \in 0..MaxTime
  /\ phase \in Phases
  /\ DOMAIN tasks \subseteq TaskIds /\ tasks \in [DOMAIN tasks -> Task]
  /\ DOMAIN store \subseteq TaskIds /\ store \in [DOMAIN store -> Task]
  /\ issued \subseteq Token

\* The tasks the daemon shows and acts on are the ones on disk, whatever store
\* error or crash hit the calls before, and also half way through open()
\* (mutate writes the table before the map; open recovers row by row).
MemoryMatchesStore ==
  /\ phase = "open" => DOMAIN tasks = DOMAIN store
  /\ \A id \in DOMAIN tasks : id \in DOMAIN store /\ tasks[id] = store[id]

\* The token is that of the run in progress (check_token).
Honoured(k) == k.id \in DOMAIN store /\ k.gen = store[k.id].generation

\* A token is honoured exactly while its run lasts: the active tasks of an
\* open queue are the ones whose current token somebody holds, so no callback
\* of an ended run can touch the task, and no task is active without a worker
\* that can end it (check_token, invalidate_run, recover_after_restart).
TokenDiscipline ==
  /\ \A k \in issued :
       /\ k.id \in DOMAIN store
       /\ k.gen <= store[k.id].generation
       /\ Honoured(k) => IsActive(store[k.id])
  /\ phase = "open" =>
       \A id \in DOMAIN store :
         IsActive(store[id]) => [id |-> id, gen |-> store[id].generation] \in issued

HonouredOf(S) == {k \in issued : Honoured(k) /\ ProfileOf[k.id] \in S}

\* At most max_concurrent runs, and max_concurrent_per_profile runs of one
\* profile, hold a token the queue still honours: a run asked to pause or to
\* cancel keeps its place until it has really stopped (start_next).
ConcurrencyBounded ==
  /\ Cardinality(HonouredOf(Profiles)) <= MaxConcurrent
  /\ \A p \in Profiles : Cardinality(HonouredOf({p})) <= MaxPerProfile

HonestRow(id, t) ==
  /\ t.total = None \/ t.bytes <= t.total
  /\ t.state = "Completed" => t.total \in {None, t.bytes}
  /\ t.checkpoint <= t.bytes
  /\ t.attempts <= MaxAttempts[id]
  /\ t.state = "RetryScheduled" => t.failure = "retryable" /\ t.attempts < MaxAttempts[id]

\* What a row claims is covered by what was reported: a completed transfer
\* moved all of its known size, no count exceeds that size, a checkpoint never
\* lies beyond the persisted progress, and a retry that is waiting may start.
HonestRecords == \A id \in DOMAIN store : HonestRow(id, store[id])

RunsOf(id) == {k \in issued : k.id = id}

\* However the task got back into the queue (retry, resume, conflict resolved,
\* restart), it is never run more often than its retry policy allows.
RetryBudgetKept ==
  \A id \in DOMAIN store :
    /\ Cardinality(RunsOf(id)) <= store[id].attempts
    /\ store[id].attempts <= MaxAttempts[id]

\* One change of a row.
Succeeds(old, new) ==
  \/ new = old
  \/ /\ new.revision > old.revision
     /\ new.updatedAt >= old.updatedAt
     /\ new.bytes >= old.bytes
     /\ new.attempts >= old.attempts
     /\ new.generation >= old.generation
     /\ new.createdAt = old.createdAt
     /\ old.total # None => new.total = old.total
     /\ old.state \notin {"Completed", "Cancelled"}

RowsAdvance ==
  \A id \in DOMAIN store : id \in DOMAIN store' /\ Succeeds(store[id], store'[id])

\* A row is never lost, each change of it has a revision of its own (what
\* compare_and_swap relies on), its counters and its time stamp never go back
\* even when the clock does, a size once known stays, and a finished or
\* cancelled transfer is left alone for ever.
RowsOnlyAdvance == [][RowsAdvance]_store

CompletionWitness ==
  \A id \in DOMAIN store :
    store'[id].state = "Completed" /\ store[id].state # "Completed"
      => /\ phase = "open"
         /\ store[id].state = "Running"
         /\ [id |-> id, gen |-> store[id].generation] \in issued

\* A transfer is only ever marked completed by the run that is in progress:
\* not by a late callback, not by a restart, not while it is being cancelled.
CompletionIsWitnessed == [][CompletionWitness]_store

\* The rows are well typed, honest about themselves (HonestRecords) and within
\* their limits: no task has more runs than attempts, and the tasks that run,
\* pause or cancel fit the queue and their profiles (state.rs, start_next).
RowsWithinLimits == TypeOK /\ HonestRecords /\ RetryBudgetKept /\ ConcurrencyBounded
=============================================================================
