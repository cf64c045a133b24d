# LocalDesk: a verification project

LocalDesk is a desktop console for a Linux machine. A Tauri shell shows what
`appd`, a daemon written in Rust, knows and does: resource use, network
traffic, foreground time, notes, remote sessions (SSH/SFTP, FTP, SMB) and a
persistent queue of file transfers. This directory holds TLA+ models of the
parts of `appd` whose correctness depends on the order of events, TLC runs that
check them on small instances, and TLAPS proofs for every instance.

    tlc -workers 2 -config MCTransferLifecycle.cfg MCTransferQueue
    tlapm TransferQueueProofs.tla

`PROJECT.json` lists components, runs, mutants, the map from definitions to
source lines, findings, hazards and theorems.

## 1. The system

| Component | State it keeps | Operations | What makes it correct |
| --- | --- | --- | --- |
| transfer task (`transfers/src/state.rs`, `model.rs`) | state, bytes, checkpoint, attempts, run generation, revision, times | start, progress, pause, resume, cancel, confirm, complete, fail, retry, conflict, recover | a late callback changes nothing; counters never go back; completion means all bytes |
| transfer queue and store (`queue.rs`, `persistence.rs`) | a map of tasks in front of an SQLite table | enqueue, start_next, mutate (compare-and-swap on the revision), open (recovery row by row), page | memory follows the table through errors and crashes; limits per queue and per profile |
| transfer executor (`executor.rs`) | active controls, permits, the workers of a JoinSet | run_ready, execute_started, download and upload, client commands, request_shutdown | a run in progress has exactly one worker; a cancel is heard; what is reported completed was delivered |
| local staging (`LocalHandleOwner` in `executor.rs`) | bound handles, staged writes, `.part` files | bind, begin, write, commit, abort | the destination appears whole; a foreign file is replaced only as the policy says |
| remote sessions (`appd/src/remote.rs`) | two maps of sessions, a semaphore, the admission flag, one reaper per session | connect, register, use, disconnect, reap, shut down | permits neither leak nor are exceeded; leases end; nothing survives the shutdown |
| remote profiles (`remote.rs`, `remote-core/src/profile.rs`) | SQLite table with revisions; a gate shared with enqueue | list, upsert, delete | no lost update; a transfer's profile stays; a walk over the pages is complete |
| connecting and secrets (`remote.rs`, adapters) | one askpass slot, transports, the secret service | connect, store, look up, delete | as private as the profile asks; nothing left behind |
| adapters (`remote-ssh`, `remote-ftp`, `remote-smb`) | sessions, staged writes, requests in flight | begin, write, commit, abort, read | a remote file is replaced whole or not at all; a download is of one version |
| terminals (`remote-ssh` pty and bridge, `ipc/src/server.rs`) | pty, unread queue, transcript, status | read, poll, stream, close | output arrives in order and complete before End |
| IPC (`crates/ipc`) | connection, stream and export permits | one request per connection under a deadline; single frames and plans of frames | a client accepts only the whole answer; bounded work; everything ends |
| usage (`crates/usage`, `appd/src/usage.rs`) | open interval, coverage gaps, aggregates, writer lease, query slot | focus, idle, lock and clock events, checkpoint, retention, migration, recovery, query | time counted at most once, and gaps where it is not known; one writer |
| notes (`crates/notes`, `appd/src/notes.rs`) | notes, tags, revisions, uploads, worker queue | create, save, delete, restore, upload, query, export, retention, migration | no lost edit; uploads whole and once; upgrades can be undone |
| telemetry (`crates/telemetry`, `appd/src/telemetry.rs`, helper) | baseline, published snapshot, helper process | sample, publish, restart, reap, group | figures belong to one process and are as fresh as they say |
| network (`crates/network`, `appd/src/network.rs`, helper, BPF) | baseline, counters, worker thread, helper | dump links, count, sample, publish | rates never span a reset; an application's bytes are the sum of what its cgroups passed |
| speed test (`appd/src/speedtest.rs`) | busy and cancel flags, pid of iperf3 | start, cancel, stop | an End frame tells truthfully whether its run was cancelled; every run ends |
| appd (`main.rs`) | its tasks and their shutdown channels | start, ordered stop within a deadline | nothing runs on |
| system information, domain types, desktop shell | none of interest | | |

How they interact. A client sends one request per connection; the IPC server
runs it under a deadline and drops the future when that passes. Transfer
commands and the runner meet in the queue, behind one mutex; cancellation
travels through a second structure, the map of active controls. The runner is
one task that fills a `JoinSet` with workers and waits for one of them to end.
Workers open remote sessions, which take permits of the same semaphore as the
sessions and terminals of clients. Changes of profiles and the enqueueing of
transfers exclude each other by a gate. Usage and notes have a worker thread
each behind a bounded channel; usage has a second thread for queries. Telemetry
and network each drive a helper process over pipes, and the network collector
reads the cgroup bindings telemetry has published. At the end `main.rs` stops
all of them, in order, within one deadline.

What is hard here. Futures are dropped at any await, while work handed to
`spawn_blocking` goes on. Two locks, or a lock and an atomic flag, are used one
after the other where a reader would expect one. A row is written before the
map that mirrors it. Recovery is itself interruptible. The wall clock may be set
back. Decisions are made on what was seen before a lock was given up, a probe
was started or a file was read. A request that was given up may still be
carried out by the server. The hazards of `PROJECT.json` say where.

## 2. Modules

    TransferTask            the state machine of one task: guards and effects
      TransferQueue         the queue, its table, crashes, recovery
        TransferQueueProofs, MCTransferQueue
        TransferExecutor    runner, workers, clients, files, shutdown
          TransferExecutorProofs, MCTransferExecutor
    RemoteSessions          sessions, permits, reapers, shutdown
      RemoteSessionsProofs  (and RemoteProfiles)

    MCStores                what appd stores
      UsageTracking         tracker, store and worker of usage accounting
      UsageRetention        what a summary may say after retention
      UsageOpen             lease, backup and migration of usage.sqlite3
      NotesStore            revisions, worker queue, retention
      NotesUpload           bodies uploaded in chunks
      NotesOpen             backup and migration of the notes database
      NotesPages            queries by page, exports
      RemoteProfiles        profile table, gate, references of transfers
      RemoteConnect         connecting, secrets

    MCServices              adapters, collectors, the daemon's life
      RemoteUpload          the executor's upload loop, the server's files
        SftpAdapter, FtpAdapter, SmbAdapter
          RemoteAdapters    the three together
        RemoteReplace       abstract: a file is replaced whole
      RemoteRead            read_chunk of the three adapters
      FtpsTrace             the judgement of an FTPS control connection
      TelemetrySupervisor   supervisor, helper, freshness
        AppdShutdown        the ordered stop of appd
      TelemetrySampling     the walk of /proc, two samples compared
        AppGrouping         which application a process belongs to
      NetworkSampler        link dumps and rates
        NetworkCounters     BPF counters and their sums
      NetworkSupervisor     supervisor, worker thread, helper

    MCRuntime               requests, with liveness
      IpcExchange           server, plans of frames, client
      TerminalStream        from the pty to the client
      UsageQuery            the query slot and its thread
        BusySlot            abstract: one holder at a time
      SpeedTest             runs, stages, cancel, iperf3

    NotesProofs             NotesStore, NotesUpload, NotesOpen, NotesPages
    UsageProofs             UsageTracking, UsageOpen, UsageRetention
    ServicesProofs          RemoteAdapters, RemoteRead, RemoteConnect, FtpsTrace,
                            AppdShutdown (with the telemetry), NetworkSupervisor,
                            NetworkCounters, AppGrouping
    RuntimeProofs           UsageQuery, SpeedTest, TerminalStream, IpcExchange
    FiniteSums              induction over finite sets for the four above: sums,
                            counting up, functions defined step by step, quotients

**TransferTask** has one pair of operators per method of `TransferTask`: `CanX`
(the conditions and early returns) and `X` (the new task). Identities, names and
paths are left out; an unknown size is `None`. Retry times follow `BackoffMs`.

**TransferQueue** is the state `tasks` (the map), `store` (the table), `clock`,
`phase` and `issued` (the run tokens somebody holds). Every mutation goes through
`Mutate`, as in the code: the table first, by compare-and-swap, then the map, or
a store error that changes neither. Callbacks are offered for *every* token ever
issued since the last start, so late ones are part of the model. `open` recovers
one row per step, in the order of `load_all`, and may stop after any of them.

**TransferExecutor** extends the queue. A worker is a record with a program
counter; a step is one critical section, one file operation or one remote
request. Files are sequences of task ids, so that a mixed or truncated file is
visible. The remote end is external: it delivers the source or fails. The model
covers downloads; an upload follows the same control with the remote as the
staging side. Environment constants switch on store errors, a clock that goes
back, crashes, the shutdown and another program that creates the destination.
`ImplementsQueue` states that the executor drives the queue only through steps
of `TransferQueue`: the refinement mapping is the identity on the queue's
variables.

**RemoteSessions** models time by how long a session has been open and idle and
how long its reaper still sleeps, each counted up to its limit. `waited` is the
set of sessions whose request is still served, `GiveUp` the deadline that drops
a request; what happens then depends on whether the work runs on a thread of its
own. Who owns the permit follows Rust's captures: a blocking connect takes it
along, the closure of a disconnect captures the session alone.

**Usage.** `UsageTracking` writes the tracker's methods as functions of a record
(tracker, tables, error), in the order of the code's calls, with a parameter that
names the store call that fails: what a method had done before the error stays.
Time is counted in ticks, and the history `hist` keeps what was true in each, so
that the properties compare what was counted with what happened. The streams of
niri, logind and the idle notifier are queues of edges; the probe of logind is a
step of its own, so edges come before, during and after it. A pause for a lock edge
publishes (`Pause`), one for an idle edge does not unless it fails
(`PauseForIdleEdge`), so the last capability stands during the probe. `UsageRetention`
follows one daily and one weekly bucket under changing local offsets. `UsageOpen`
lets processes open one file at once and die anywhere. `UsageQuery` takes each
critical section of `QueryControl` as a step and the atomics around it as others.

**Notes.** `NotesStore` keeps with a command the note its editor looked at, of
which the code sends the revision only; `NoLostEdit` speaks of the whole note. The
stop has the steps of `NotesSupervisor::run`: the blocking task offers the Shutdown
command, the supervisor waits for it five seconds at most (`telling`), then joins the
worker whether the command is in or not.
`NotesUpload` delivers chunks in any order and repeats them. `NotesPages` runs
over every subset of a pool of notes and every query of a small product; a row's
place is the number of matching notes before it, as the ORDER BY of the code has
it. A query has its limits of page size and offset, so a walk may be refused.

**Remote.** `RemoteProfiles` has the gate in the request's future and the store's
transaction on a worker that outlives it. `RemoteConnect` follows a connect from
the checks of the profile through the endpoints, the askpass slot, the transport
and the probe. `RemoteUpload` is what the executor does with an adapter, and the
server: a byte carries its task and place, so a file shows every mixture, and a
request that was sent and not answered stays in `late`, to be applied at any time
or never; `cut` are the uploads that such a truncate has shortened. `SftpAdapter`,
`FtpAdapter` and `SmbAdapter` extend it with what their sessions do;
`RemoteAdapters` is an upload through whichever of them the profile names.
`FtpsTrace` judges a transfer where `finish` does: when libcurl's result is known,
not when it was cancelled, late or ended by an error of the local file.
`TerminalStream` numbers units of output, through pty, unread queue and frames.

**IPC.** `IpcExchange` has one server side and one client side per connection;
a record is its encoded size. The server's limits that make a plan and the
client's checks that read it are separate definitions, as they are in the code, and
the client counts frames and bytes against its own budget (`WithinBudget`).

**Speed test.** The busy and the cancel flag are separate variables; start clears
the second in a step of its own, and a cancel reads the first and stores the
second in two. `found` is the run a cancel read, `reached` the run it hit.

**Collectors.** `TelemetrySupervisor` and `NetworkSupervisor` keep the pipes to
their helpers as sequences of messages with generations "now" and "then".
`TelemetrySampling` reads a process file by file; `NetworkSampler` reads a dump
link by link. `NetworkCounters` has the load and the store of the BPF program's `+=`
as two steps, which another program on the same CPU may divide, reads CPU by CPU,
and sums the records by application as appd does. `AppGrouping` takes every
function of parents, cycles included; the line of a process is the least set
that holds it and the parents of its members.

**The daemon.** `AppdShutdown` composes the stop of `main.rs` with the whole
telemetry supervisor; the other tasks are running, told, done or aborted.

Refinements. `ImplementsQueue`: the executor takes only steps of `TransferQueue`
(identity on its variables). `ImplementsReplace`: the three adapters under the
executor's upload implement `RemoteReplace` (the destination's content, who has
put it there, who was told). An upload cut by a late truncate
is the exception both name. `QueriesOneAtATime` (in `QueriesAreApart`): the query
slot implements `BusySlot` (the holder is who took the flag and has not given it
back).

A definition named "Faulty variant of X" is a plausible bug in X and is used by
no specification; `PROJECT.json` says which property catches it.

## 3. Runs

| Run | Instance | Distinct states | Shows |
| --- | --- | --- | --- |
| `lifecycle` | part "lifecycle": one task, two attempts, size 2, clock 0..2; part "limits": four tasks of three profiles, two places, one per profile, queue of three | 262,590 | memory follows the table, tokens are honoured exactly while their run lasts, records are consistent, rows only advance, completion is witnessed, limits hold |
| `exec_faults` | one download, two attempts, size 2; everything may fail | 399,238 | completed means delivered whole; recorded progress is staged; the executor implements the queue |
| `exec_conflicts` | the same with a reliable store and all four conflict policies | 444,068 | cancels are heard; a foreign file is lost in two cases only, never under the policy Fail; two reasons only stop the runner |
| `exec_pair` | two downloads in two jobs | 892,290 | each run has its worker, each control its worker |
| `exec_shutdown` | one download with failing store and clock, shutdown at every point | 412,771 | a runner that returned by itself left nothing behind |
| `exec_liveness` | two downloads in one job, weak fairness | 172,114 | a cancelled run ends, a queued task is served |
| `sessions` | an SFTP session, a terminal and a blocking session of a transfer, two permits, idle timeout 1, lease 2 | 238,354 | see section 1, remote sessions |
| `stores` | eleven parts, one per module or question | 938,611 | usage, notes, profiles and connections, section 1 |
| `services` | ten parts | 1,205,462 | adapters, collectors and the daemon's stop, section 1 |
| `runtime` | five parts, with fairness | 106,636 | requests, slots, terminals; what must end does |
| `shutdown_race`, `checkpoint` | small | until the violation | section 5 |

The modules of `stores`, `services` and `runtime` share no state, so one run
checks several side by side: the variable `part` chooses at the start the one a
behaviour is about, and the variables of the others keep one value.

A run's property is a promise of one part of the system, and most are
conjunctions of named definitions, each with a comment of its own: `TimeIsAccounted`
is `UsageTypeOK`, `TimeIsConserved`, `RowMatchesTracker`, `GapsAreUncounted` and
`DueTimeIsAccounted`. The liveness properties are `TasksMoveOn` (`CancelSettles`,
`QueuedIsServed`), `SessionsEnd` (`LeaseEnds`, `ShutdownFinishes`) and `RequestsEnd`
(`RunEnds`, `ConnectionsEnd`, `StreamEnds`, `ServeReturns`, `ShutdownJoins`).

Why the bounds are enough.

* Transfers. Tasks interact only through the limits, the list order and the
  JoinSet; the part "limits" and the two-task runs have every kind of pair (same
  profile, other profile, one waiting, one running). Two attempts give a first
  run, a retry and an exhausted budget; two chunks a first, a last and a resumed
  one. `RevisionCap` ends a behaviour, it does not change a step.
* Sessions. Three of three kinds for two permits let each wait for the others; a
  lease longer than the idle timeout makes either one the first to expire.
* Usage. Three ticks, a minute of two and two disturbances (an edge, a focus
  change, a clock step, a failing call each cost one) put an edge and a failure,
  or two edges, on either side of a minute and of a probe. Retention follows 13
  days, past the watched week and its kept days, with one gap and three offsets.
  Two openers and two deaths give a takeover and a takeover of a takeover.
* Notes. Two editors of one note, three revisions, a queue of one and two times
  give every order of two edits; two uploads, two chunks and two retries give a
  late, a repeated and a swapped chunk. Four notes of different filters and sizes,
  pages of two and offsets up to two: a last, a full and a refused page.
* Remote. Two profiles (one jumps through the other), two callers. Two uploads
  with one destination, of two bytes and one, two runs each; truncates, writes,
  renames and removes may all be applied late. Two edits of the regular FTPS
  negotiation.
* Collectors. Two links and two kernel steps. Three cgroups of two
  applications in a map of two, two CPUs with two contexts each, three packets and
  counters up to two: an overflow of a counter and of a sum, a full map, a sum of
  two cgroups and an overtaken program. Two process ids and two changes, three
  processes for the grouping: a reset, a reuse and a cycle each happen.
* Requests. Results of up to three records of three sizes, and one of too many,
  meet every limit; three connections compete for two places. Four units of
  output against a queue of two. Three queries, so that a cancel of the first
  can meet the second while a third waits. Two clients and one request to cancel
  around the runs of a speed test, with a channel of one: a cancel before, in,
  between and after runs, and a runner that waits for its stream.

Deadlock is checked except where a finished instance really stops (`exec_pair`,
`exec_liveness` and the three runs with parts).

Fairness. `FairSpec` (executor): the runner, each worker and a cancel command that
has begun are scheduled again; a worker's requests have deadlines, so every one
returns. Nothing is assumed of clients, crashes or the clock. `FairSessions`: time
passes; reapers and the shutdown are tokio tasks; connects and closes end because
the adapters bound them; registration only waits for locks that are held briefly.
Clients need not disconnect or use anything. `MCRuntime`: the tasks of a speed
test run on (curl has its own timeouts), its stream goes on or ends
(`SPEEDTEST_TOTAL_DEADLINE`, 180 s), the query thread and the thread that joins it
run on, deadlines of connections pass, `serve` is polled after the shutdown, and a
terminal's stream and status requests get the session's lock in turn (tokio's
mutex is fair, hence strong fairness). Clients, providers and remote hosts are
under no fairness. Of the parts of `RequestsEnd`, `ConnectionsEnd` and
`ServeReturns` say little more than that these deadlines reach every state of a
connection.

## 4. Proofs

Eight modules hold proofs. Each theorem is `Spec => []Inv`, an action property
or a refinement, for every value of the constants that the named assumptions of
the modules allow. "The checked property" below is the one a run of section 3
checks on a small instance under the same name.

**The queue** (`TransferQueueProofs`), for every set of tasks, limit, size and
retry policy: `TypeOK`, `MemoryMatchesStore`, `TokenDiscipline`, `HonestRecords`,
`RowsOnlyAdvance`, `CompletionIsWitnessed` and `RowsWithinLimits`. The assumptions
are `TaskAssumption` and `QueueAssumption`: task ids are a finite set of integers
(the code's UUIDs, in their order), every task has a profile and a positive number
of attempts, the backoff's bounds are ordered, and the limit per profile is at
most the limit of the queue. `RevisionCap` only stops progress reports, never
another operation.

`MemoryMatchesStore` and `TokenDiscipline` are not inductive apart. A callback
looks at the map and changes the table, so whether a token is honoured by one
says nothing about the other unless they agree; and they agree only if a
revision is used once, which needs the types. `IInv` is therefore their
conjunction with `TypeOK`, `HonestRecords` and `QuietUntilOpen`: until `open` is
through nobody holds a token and no recovered task is active, without which the
first state of an open queue would not satisfy `TokenDiscipline`. Part 1 of the
proof shows for each task mutation which fields it may change (`Moves`) and that
the new row succeeds the old one; part 2 lifts this once to everything that goes
through `Mutate`, and treats enqueue, start, open, recovery and crash separately.
The action properties follow from the same step lemma (`GoodStep`). The limits
(`LimitInv`) are a counting argument on top: a task becomes active only in
`start_next`, which has counted the others.

**The executor** (`TransferExecutorProofs`), for any number of tasks, jobs and
files. `ExecutorImplementsQueue` is the refinement: every step of the runner, a
worker, a client, the shutdown or a crash is a step of `TransferQueue` or leaves
its variables alone, so all of the above holds while the executor runs. It needs
`ExecBase`, the types of workers, controls and staged writes and that a worker's
token was issued: a callback of the queue is allowed for issued tokens only.
`WorkersAndRunsMatch` and `StoppingIsOrderly` rest on `RunsInv`, which says for
every program counter of a worker what the row of its task may be (`RunOK`), and
that an active task has the worker of its current run. `RunsStayHonest` rests on
`StageInv`: the `.part` of a task belongs to it, and at every program counter its
length, the worker's offset and the recorded bytes are in step. `CancelsAreHeard`
rests on `HeardInv`: a worker's own control is registered unless an earlier worker
has taken it, which with one job nobody can. `FilesAreReplacedAsTold` rests on
`PolicyInv`: the policy a worker copied is still that of its row and of its staged
write, and a destination that was found taken is renamed around.
`FailuresStayContained` joins it with `SpentBySettling` and with `ReasonInv`,
which refusals of the queue a worker can meet at each place.

Three of these theorems have hypotheses of their own. `RunsStayHonest` and
`FilesAreReplacedAsTold` assume `OwnHandles`, that no two tasks share a local
handle; the code does not refuse that (section 5), and then two runs write one
file. `FailuresStayContained` assumes `Reliable` as well: with store errors or a
clock set back the runner stops for those too. Both are what the instances of the
runs assume.

**Sessions** (`RemoteSessionsProofs`): `CapacityKept`, `ShutdownIsFinal`,
`ReapersWatch`, `ReapersAreTold` and `ReapedOnlyExpired` (together `ReapersServe`)
for every number of sessions, capacity and pair of timeouts, assuming finitely
many sessions and positive limits (`SessionsAssumption`). The inductive invariant
`SInv` adds what the code relies on silently: the admission is closed exactly from
the first step of the shutdown on (`AdmissionEnds`, without which a late
registration could follow the drain), a session that is not admitted has no reaper
and was never told to stop (`Unadmitted`), sessions drained by the shutdown exist
only while it runs (`DrainedLate`), and only transfer workers hold sessions
outside the maps (`HeldByWorkers`, without which the abandoned disconnects of
`CapacityKept` cannot be told from a worker's).

The same module proves `ProfilesStay` (`RemoteProfiles`), for any profiles, callers
and page size. `GateInv`: a request holds the gate exactly while it works, and what
it learnt under the gate (that no task refers to the profile, that the profile is
stored with this protocol) is still so, unless one of the two exceptions of section 5
has let somebody past (`bypassed`). `WalkInv`: the pages walked so far have every
profile up to the cursor that has existed since the walk began.

**Notes** (`NotesProofs`). `UpgradesAreReversible`: until the first migration the
backup of the version found first is whole, for every version and any crashes.
`EditsAreSafe`: `NInv` bounds every note's history by its current revision, and
says that what an editor was shown is a revision of the note or was retained away,
so that a save that matches the revision matches the note; `StopIsUnderWay`, that a
supervisor which has given up telling the worker leaves a task behind that still
does. `UploadsStayWhole`:
`UInv` keeps the reserved bytes equal to the sum of the uploads held. The sum is
over a set; `FiniteSums` proves the facts about it. `ReadsStayWhole`: the rows of a
query, placed by rank, are the matching notes, each once and in order, for any notes
and query; `PagesInv` says that the pages taken so far are the rows up to the next
offset, and an export is refused exactly when counting up its sizes passes the limit.

**Usage** (`UsageProofs`). `OpeningIsSafe`, for any number of processes: whoever
is past the lease holds it, and whoever migrates has seen a version for which a
backup was published. `TimeStaysAccounted` and `TrackingStaysHonest`, for every
clock bound, minute and limit, whichever store calls and clock readings fail:
`UsageInv` ties the open interval, the gap and the due time of the tracker to the
rows and to what was counted in each tick of the history, method by method, with
the error that may interrupt each. "no-app", which the history uses where nothing
has the focus, is assumed to be no application's id. `RetentionIsHonest`, for
every policy and timezone change: `RetentionInv` bounds the buckets a gap touches
by the day it ends on, which makes the two boundary constants of the code large
enough.

**Services** (`ServicesProofs`). `DownloadsKeepOneVersion` (`ReadInv`: the stamps
of a chunk lie between the version seen before it and the object's), `JudgementIsSafe`
(the first occurrence of an event is the least index, from well-foundedness; the
checks compare first occurrences, the property speaks of all occurrences in every
transfer that ends as a success or an ordinary failure),
`TelemetryStaysHonest` and `StopsLeaveNothing` (`TelemetryInv`: a message is in the
pipe only during a sample of a living session; `ShutInv` ties the phases of
`main.rs` to the ends of its tasks), `ConnectsStayPrivate` (`ConnectInv`: at each
step of an attempt, which endpoints are mapped, which keys were checked and whose
secret is in the askpass slot) and `NetworkStaysHonest` (`NetSupInv`: which
commands can be in the worker's channel in each state of the task). Their
assumptions are those of the code's constants: times and sizes are numbers, what
is fresh is not yet stale, the first backoff is at most the last.

*Adapters.* `AcknowledgedStays` and the refinement `AdaptersImplementReplace`, for
any number of writers, sizes and runs. `UploadInv` speaks of one writer at a time:
what its `.part` holds at each step of its protocol, what of it is only on its way,
and which of the requests of an earlier run may still be applied. A request that
is late can then only write a byte where it belongs, rename a `.part` that is
whole, cut one, or fail. `Delayed` is any set of requests; what is proved of a cut
`.part` is that it holds no byte of another task or place (`Torn`).

*Network figures.* `NetworkFiguresStayReal` joins two theorems. `RatesStayReal`:
`NetInv` says of the dump in progress and of the baselines that a link has
counted, from its reading on, no more than what passed since (a reset or a reused
index makes it less, which the sampler sees), and bounds by the suspends how far a
boot time may run ahead of the reading it stands for. `CountersStayExact`:
`CountersInv` keeps for every cgroup and CPU the value in the map at most what
passed, and equal to it unless a program was overtaken there; what a lookup has
summed so far lies between what had passed at its start and what has now; the sums
by application follow cgroup by cgroup.

*Process figures.* `ProcessFiguresStayReal` joins two more. `SampleInv`: whatever
was read later of an id is of the same process or of a later one, until the final
stat shows that there was none in between; whoever is steady during a walk is still
to be read, at hand, read, or missed with an issue recorded; the baseline's counts
are kept under the start they were read with. `GroupInv`: every verdict of the first
pass is by the process's own scope or by one above it, and an unknown one has no
scope on its whole line; the second pass leaves no opaque scope below a desktop
entry's. That the two recursions of the grouping, over the set of processes visited
and over the number of steps climbed, compute what their equations say on every
graph of parents, cycles included, is proved first (`ResolveIs`, `NearestIs`). The
assumptions (`SamplingAssumption`, `GroupingAssumption`): ids and times are numbers,
there are finitely many processes, id 0 is no process and "none" is no scope.

**Requests** (`RuntimeProofs`). `QueriesKeepApart` proves the refinement of
`BusySlot`: `OneHolder` says that until the stop at most one request is between
reserve and reply, in one place. `CancelsStayHeard`: `SpeedInv` says that the
cancel flag, once a run has cleared it, is up exactly when a request has reached
that run, and that a request found the present run or one that is over.
`OutputStaysComplete`: `FlowInv` says that the pty holds the newest units, the
queue of unread output older ones and the client was shown older ones still, and
that every unit is in exactly one place or counted; `EndInv` that a stream about
to end has seen an exited child and empty buffers. `PoolsBoundProviders`: a task
holds its permits until it ends (`HeldInv`). `ExchangesStayWhole` proves all of
`ExchangesAreWhole`, for any number of connections, any answers and any limits.
First the plans: `RecordChunks` and `ContentChunks` cut an answer at growing
offsets (`Cuts`), so the pieces, put together, are the answer; a plan that passes
`validate_encoded_plan` is therefore a `Stream`, frames that meet every check the
client makes and fit its budget at every prefix. Then the exchange: until the
answer is there nothing was written; afterwards there is a plan, fixed for the
request, of which the client has taken exactly the first frames, the wire holds
the next ones and the server the rest (`ExchangeAt`). A client that returns a
result has taken them all.

**How induction over data is done.** The library's induction theorems take an
operator, which the installed provers cannot instantiate. `FiniteSums` therefore
derives from the well-foundedness of the subset ordering a form of induction whose
property is a *set* (`SubsetInduction`, `CountingUp`), and from it that a function
given step by step exists (`StepsExist`). Sums, ranks, plans of frames and the
recursions of the grouping go through it.

**Only model-checked.** The liveness properties `TasksMoveOn`, `SessionsEnd` and
`RequestsEnd`: fairness and ENABLED are out of the prover's reach. Every other
property of a passing run, safety or refinement, has its theorem.

## 5. Findings

* `shutdown_race`: `request_shutdown` cancels the controls before it marks the
  tasks. A worker in between confirms the cancellation of a task that is still
  Running, is refused, and ends in an error; `run_ready` then drops every other
  worker. The test of `request_shutdown` expects an outcome.
* `checkpoint`: a cancel stores a checkpoint after the abort has deleted the
  `.part` file it describes. The development plan promises a safe checkpoint.

Also seen while modelling, without a run of their own.

Transfers and sessions:

* The policy Resume replaces an existing destination (`executor.rs:433`), and
  Rename replaces a file that appears between begin and commit, as the name is
  chosen when the write begins (`executor.rs:422-437`, `575`).
  `.codex/PROJECT_STATUS.md:354` says that neither touches the original destination.
  `ReplacesAsTold` states exactly these cases.
* `resolve_conflict` may send back a task without attempts, and `start_next` then
  stops the runner (`queue.rs:176`); `SpentBySettling` states that nothing else does.
* The worker of an ended run removes the control of the task's next run, by task
  id (`executor.rs:924`), so a later cancel is not heard; `CancelHeard` states
  this as its exception, for more than one job (one job cannot overlap with
  itself), and a shutdown as the other. A cancelled task cannot be retried; two
  tasks may be given one local handle.
* A disconnect whose request times out returns its permit while the connection is
  still being closed (`CapacityKept` states it as its exception).
* A profile delete whose request is aborted releases the gate while its
  transaction still runs, and a task enqueued between the snapshot of references
  and `request_shutdown` is not in the snapshot (`TransfersKeepProfile` states
  both as its exceptions). A profile deleted and stored again starts at revision 0.

Adapters:

* A truncate that begin_write sent and gave up (`bridge.rs:1182-1188`, `1500-1507`)
  may be applied after a later run's bytes were acknowledged. The commit looks at
  the size of the `.part` again (`bridge.rs:1381-1385`), which a `.part` with a hole
  may pass, and the rename is a request of its own; `remote-ssh/UPSTREAM.md:147-152`
  promises that the temporary identity is verified. `PartIsPrefix` and
  `RemoteReplace` state this as their exception.
* FTPS transfers that are cancelled, late, or end with an error of the local file
  are not judged (`transport.rs:144`, `331-333`, `375-377`): their caller hears that
  error, not of an unprotected credential.
* A commit interrupted after its rename reports a failure although the file was
  delivered; an abort after a disconnect leaves the `.part`; the executor's abort
  removes the `.part` a resume would need; FTP chunks are only staged locally
  until the commit. Without an expected identity a read may mix versions.
* Several jump hosts with secrets share the single askpass slot. A timed-out
  store of a secret may leave an item nobody refers to.
* An SSH session's reason is classified from the transcript even when it ended
  well (`openssh.rs:516-527`).

Usage and notes:

* A dropped summary request can leave the query slot taken (`usage.rs:78-83`):
  the server's deadline drops the future between the reservation and the code
  that releases it, and there is no guard. `UsageQuery` has that step.
* While the session is probed after an idle edge, the capability stays "healthy"
  although the tracker has no session (`usage.rs:828-846`); nothing is counted
  meanwhile, and `HealthyIsTracking` states the case.
* A failed `begin_gap` at a disconnect leaves the old interval active; a failed
  clock reading publishes "healthy" with a gap open; `HealthyIsTracking` and
  `CountedWasObserved` therefore speak of runs without failed writes. A clock
  set back makes a gap that ends before it starts. The two reads of a summary
  are not one transaction.
* A timed-out create that is repeated makes a second note. An export covers the
  first page of at most 64 rows. Pages by offset skip or repeat notes that move, and
  notes beyond offset 100,000 cannot be paged (`domain/src/notes.rs:156`).
* With the notes' queue full for five seconds, the supervisor's stop gives up on its
  Shutdown command (`notes.rs:314-325`), ignores that (`228`) and joins a worker that
  was not told. The blocking task goes on offering the command, so the join ends when
  the queue moves, after any number of queued commands. (`StopIsUnderWay`.)

Requests:

* A speed test stream may end without an End frame (`speedtest.rs:321-322`); a
  stop of iperf3 may signal a pid that was already reaped (`speedtest.rs:632`); a
  cancel in between start's two flags is lost, and one that comes late hits the
  next run (`CancelsReachTheirRun` states both); the IPC deadline of a deep run is
  shorter than its longest course and then iperf3's busy flag stays set.
  `SpeedTest` has that step (`Iperf3Dropped`); no property excludes it.
* The client's idle timeout of 2 s is shorter than the server's deadlines of 5
  and 10 s. A reply that is too large closes the connection without an error.
  A terminal's status can go from exited back to running; a pty error before the
  child can be waited for ends a stream without an End frame.

Collectors:

* `core.rs:144` asks for exact counters by cgroup, but the `+=` of
  `network.bpf.c:67-77` is not atomic: a program interrupted between its load and
  its store by another on the same CPU undoes the other's count.
  `CountersAreExact` names such cgroups as its exception.
* A refresh replaces a permanent failure's reason by "stale"; a failure shortly
  after a success still reports fresh. A name is cut at 128 bytes, which may not
  be a character boundary. A child without scope keeps its opaque key after its
  parent was moved under a desktop application. A failing `set_nonblocking`
  drops the network helper without a wait. "Unsupported" lasts until a restart.

## 6. Not modelled

Bandwidth throttling and the composition of uploads with the queue (they are
modelled against the remote side only). Directory operations of the adapters,
listings and their parsers, packet and JSON codecs, field validation. The
truncation of oversized telemetry replies, a change of the boot id under a
running sampler, GPU and temperature readers, netlink attributes, the loading of
BPF. What curl, iperf3, libsmbclient, niri, logind and the secret service do is
external: they answer, fail, or are late. System information and domain types
are data. The desktop shell (Tauri commands, journal import, Vue views) is I/O
and presentation on the other side of the IPC.

## 7. What could follow

Every safety property and every refinement that the passing runs check is a
theorem; what stays with TLC alone is liveness. Further work would extend the
model, not the proofs:

1. Uploads composed with the queue: `RemoteUpload` under a worker of
   `TransferExecutor`, so that the queue's promise of a delivered file rests on
   `ImplementsReplace` instead of an external remote.
2. Directory operations of the adapters (listing by page, rename and remove with
   confirmation), whose errors a client must tell from a missing file.
3. The truncation of oversized telemetry replies and a change of the boot id
   under a running sampler.
4. Bandwidth throttling, of which only the order of waits and cancels matters.

They fit the modules and the eight proof modules that exist.
