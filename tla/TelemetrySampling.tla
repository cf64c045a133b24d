--------------------------- MODULE TelemetrySampling ---------------------------
(***************************************************************************)
(* A telemetry sample: the helper walks /proc file by file while processes *)
(* start, end, change their user and reuse ids (ProcCollector::collect_raw *)
(* and read_process in crates/telemetry/src/procfs.rs), and appd's sampler *)
(* compares the result with the one before it (sampler.rs).                *)
(*                                                                         *)
(* A process is told by its id and start time.  All included processes are *)
(* one application here (AppGrouping has the grouping); CPU time and open  *)
(* descriptors stand for the metrics.                                      *)
(***************************************************************************)
EXTENDS Integers

CONSTANTS
  Pids,
  MaxChanges,        \* bound on the starts, exits and changes of user
  MaxTicks,          \* bound on the time a behaviour lasts
  MinInterval,       \* MIN_SAMPLE_INTERVAL_MS, in ticks
  MaxInterval        \* MAX_SAMPLE_INTERVAL_MS

(* Process ids are numbers, and so are the bounds. *)
ASSUME SamplingAssumption == Pids \subseteq Nat /\ {MaxTicks, MinInterval, MaxInterval} \subseteq Nat

VARIABLES
  alive,             \* pid -> the process that has it: start, own (same euid), jiffies
  host,              \* ticks (uptime and cpu jiffies of the boot), starts, changes
  scan,              \* the helper's walk
  base,              \* the sampler's baseline
  shown              \* the last snapshot built

samplingVars == <<alive, host, scan, base, shown>>

Nobody == [p \in {} |-> 0]
(* f with an entry for p. *)
WithEntry(f, p, r) == [q \in DOMAIN f \cup {p} |-> IF q = p THEN r ELSE f[q]]

NoScan == [at |-> "none"]
NoBase == [is |-> FALSE]
NothingShown == [of |-> Nobody, complete |-> FALSE, sum |-> "none", missed |-> {}]

SamplingInit ==
  /\ alive = [p \in Pids |-> [start |-> 0, own |-> TRUE, jiffies |-> 0]]
  /\ host = [ticks |-> 0, starts |-> 0, changes |-> 0]
  /\ scan = NoScan /\ base = NoBase /\ shown = NothingShown
-----------------------------------------------------------------------------
(* The host.  steady: processes there, unchanged, since the walk began. *)

Unsettles(p) == IF scan.at = "none" THEN scan ELSE [scan EXCEPT !.steady = @ \ {p}]

Changes(starts) ==
  /\ host.changes < MaxChanges
  /\ host' = [host EXCEPT !.changes = @ + 1, !.starts = @ + starts]

Exit(p) ==
  /\ p \in DOMAIN alive
  /\ alive' = [q \in DOMAIN alive \ {p} |-> alive[q]]
  /\ Changes(0) /\ scan' = Unsettles(p) /\ UNCHANGED <<base, shown>>

Start(p) ==
  /\ p \notin DOMAIN alive
  /\ alive' = WithEntry(alive, p, [start |-> host.starts + 1, own |-> TRUE, jiffies |-> 0])
  /\ Changes(1) /\ UNCHANGED <<scan, base, shown>>

ChangeUser(p) ==
  /\ p \in DOMAIN alive /\ alive[p].own /\ alive' = [alive EXCEPT ![p].own = FALSE]
  /\ Changes(0) /\ scan' = Unsettles(p) /\ UNCHANGED <<base, shown>>

(* A tick of the clock, in which p, if it is there, has the CPU. *)
Tick(p) ==
  /\ host.ticks < MaxTicks /\ host' = [host EXCEPT !.ticks = @ + 1]
  /\ alive' = IF p \in DOMAIN alive THEN [alive EXCEPT ![p].jiffies = @ + 1] ELSE alive
  /\ UNCHANGED <<scan, base, shown>>
-----------------------------------------------------------------------------
(* collect_raw. *)

(* The boot id, the CPU total and the start of the directory listing. *)
BeginScan ==
  /\ scan.at = "none"
  /\ scan' = [at |-> "next", total |-> host.ticks, todo |-> Pids, listed |-> DOMAIN alive, pid |-> 0,
              process |-> Nobody, seen |-> Nobody, issues |-> FALSE,
              steady |-> {p \in DOMAIN alive : alive[p].own}]
  /\ shown' = NothingShown
  /\ UNCHANGED <<alive, host, base>>

(* The entry at hand is left out, with or without an issue on record. *)
Skip(issue) ==
  scan' = [scan EXCEPT !.at = "next", !.pid = 0, !.issues = @ \/ issue, !.process = Nobody]

(* The next id in /proc's order: its first stat.  An entry listed before the   *)
(* process ended is a race; one that came or went unlisted is passed over.     *)
ReadStat(p) ==
  /\ scan.at = "next" /\ p \in scan.todo /\ \A q \in scan.todo : p <= q
  /\ \/ /\ p \in DOMAIN alive
        /\ scan' = [scan EXCEPT !.todo = @ \ {p}, !.pid = p, !.at = "status",
                                !.process = [start |-> alive[p].start, cpu |-> alive[p].jiffies,
                                             cgroupOf |-> 0, fd |-> FALSE, fdOf |-> 0]]
     \/ /\ p \notin DOMAIN alive /\ p \in scan.listed
        /\ scan' = [scan EXCEPT !.todo = @ \ {p}, !.issues = TRUE]
     \/ /\ p \notin scan.steady
        /\ scan' = [scan EXCEPT !.todo = @ \ {p}]
  /\ UNCHANGED <<alive, host, base, shown>>

(* A file of the entry's directory: gone is a race. *)
ReadFile(at, then) ==
  /\ scan.at = at
  /\ IF scan.pid \in DOMAIN alive THEN then ELSE Skip(TRUE)
  /\ UNCHANGED <<alive, host, base, shown>>

ReadStatus ==
  ReadFile("status", IF alive[scan.pid].own THEN scan' = [scan EXCEPT !.at = "cgroup"] ELSE Skip(FALSE))

(* The cgroup file: it decides the application. *)
ReadCgroup ==
  ReadFile("cgroup",
    scan' = [scan EXCEPT !.at = "fd", !.process.cgroupOf = alive[scan.pid].start])

(* The descriptors: a metric that cannot be read is unknown, not zero. *)
ReadFds ==
  /\ scan.at = "fd"
  /\ \E known \in BOOLEAN :
       /\ known => scan.pid \in DOMAIN alive
       /\ scan' = [scan EXCEPT !.at = "stat2", !.process.fd = known,
                               !.process.fdOf = IF known THEN alive[scan.pid].start ELSE 0]
  /\ UNCHANGED <<alive, host, base, shown>>

(* Faulty variant of SameProcess: the same id is taken to be the same process. *)
SamePid == TRUE

(* The start time of the final stat. *)
SameProcess == alive[scan.pid].start = scan.process.start

ReadFinalStat ==
  ReadFile("stat2", IF SameProcess THEN scan' = [scan EXCEPT !.at = "status2"] ELSE Skip(TRUE))

ReadFinalStatus ==
  ReadFile("status2",
    IF ~alive[scan.pid].own THEN Skip(TRUE)
    ELSE scan' = [scan EXCEPT !.at = "next", !.pid = 0, !.process = Nobody,
                              !.seen = WithEntry(@, scan.pid, scan.process)])

(* Faulty variant of OnReadError: the entry is left out without a word. *)
OnReadErrorSilent == Skip(FALSE)

(* Permission denied, an oversized or malformed file: recorded as an issue. *)
OnReadError == Skip(TRUE)

ReadFails ==
  /\ scan.at \in {"status", "cgroup", "stat2", "status2"} /\ OnReadError
  /\ UNCHANGED <<alive, host, base, shown>>

(* The whole walk fails, a limit included; the supervisor's business. *)
ScanFails ==
  /\ scan.at = "next" /\ scan' = NoScan
  /\ UNCHANGED <<alive, host, base, shown>>
-----------------------------------------------------------------------------
(* Sampler::observe. *)

(* Faulty variant of BaselineKey: the start time is not part of the identity. *)
BaselineKeyPid(p) == p
BaselineKey(p) == <<p, scan.seen[p].start>>

(* capture_interval and its bounds, and a CPU total that went on. *)
Comparable(uptime) ==
  /\ base.is /\ base.uptime >= 0 /\ uptime >= 0
  /\ uptime - base.uptime \in MinInterval..MaxInterval
  /\ scan.total > base.total

(* process_sample: the difference to the same identity's earlier count. *)
CpuOf(p, uptime) ==
  IF ~Comparable(uptime) THEN [state |-> "Unavailable", jiffies |-> 0, since |-> 0]
  ELSE IF BaselineKey(p) \notin DOMAIN base.cpu
       THEN [state |-> "WarmingUp", jiffies |-> 0, since |-> 0]
       ELSE LET previous == base.cpu[BaselineKey(p)]
            IN IF scan.seen[p].cpu < previous.cpu
               THEN [state |-> "SamplingGap", jiffies |-> 0, since |-> 0]
               ELSE [state |-> "Known", jiffies |-> scan.seen[p].cpu - previous.cpu,
                     since |-> previous.start]

(* Faulty variant of SumMetric: members without a value count nothing. *)
SumOfKnown(of) == IF \E p \in DOMAIN of : of[p].cpu.state = "Known" THEN "Known" ELSE "Unavailable"

(* sum_metric: known only if every member's value is. *)
SumMetric(of) == IF \A p \in DOMAIN of : of[p].cpu.state = "Known" THEN "Known" ELSE "Unavailable"

(* build_snapshot's status: complete only with a comparable baseline, no issue and every *)
(* metric of every process known.                                                        *)
Complete(of, uptime) ==
  /\ Comparable(uptime) /\ ~scan.issues
  /\ \A p \in DOMAIN of : of[p].raw.fd /\ of[p].cpu.state = "Known"

(* The walk ends: the uptime, if readable, and what observe makes of it. *)
Observed(uptime) ==
  LET of == [p \in DOMAIN scan.seen |-> [raw |-> scan.seen[p], cpu |-> CpuOf(p, uptime)]]
  IN /\ shown' = [of |-> of, sum |-> SumMetric(of),
                  complete |-> Complete(of, uptime),
                  missed |-> scan.steady \ DOMAIN scan.seen]
     /\ base' = [is |-> TRUE, uptime |-> uptime, total |-> scan.total,
                 cpu |-> [k \in {BaselineKey(p) : p \in DOMAIN scan.seen} |->
                            scan.seen[CHOOSE p \in DOMAIN scan.seen : BaselineKey(p) = k]]]

EndScan ==
  /\ scan.at = "next" /\ scan.todo = {}
  /\ \E uptime \in {host.ticks, -1} : Observed(uptime)
  /\ scan' = NoScan
  /\ UNCHANGED <<alive, host>>

SamplingNext ==
  \/ \E p \in Pids : Exit(p) \/ Start(p) \/ ChangeUser(p) \/ Tick(p) \/ ReadStat(p)
  \/ BeginScan \/ ReadStatus \/ ReadCgroup \/ ReadFds \/ ReadFinalStat \/ ReadFinalStatus
  \/ ReadFails \/ ScanFails \/ EndScan
SamplingSpec == SamplingInit /\ [][SamplingNext]_samplingVars
-----------------------------------------------------------------------------
(* Properties. *)

(* Type correctness; an application's CPU share is known only if every       *)
(* member's is, so no sum stands for a part of the application               *)
(* (sampler.rs sum_metric).                                                  *)
SamplingTypeOK ==
  /\ DOMAIN alive \subseteq Pids /\ host.ticks \in 0..MaxTicks
  /\ scan.at \in {"none", "next", "status", "cgroup", "fd", "stat2", "status2"}
  /\ shown.sum = "Known" => \A p \in DOMAIN shown.of : shown.of[p].cpu.state = "Known"

(* A reported process is one process: its identity, its application and its  *)
(* metrics were all read of the process with the reported start time, also   *)
(* when its id was reused while the files were read (read_process reads stat *)
(* and status again at the end).                                             *)
WholeProcess ==
  \A p \in DOMAIN shown.of :
    LET r == shown.of[p].raw
    IN r.cgroupOf = r.start /\ (r.fd => r.fdOf = r.start)

(* A known CPU share is the process's own: the two counts it is the          *)
(* difference of belong to one process, never to two that had the same id    *)
(* one after the other (ProcessIdentity as the key of Baseline.process_cpu). *)
CpuIsOwn ==
  \A p \in DOMAIN shown.of :
    shown.of[p].cpu.state = "Known" => shown.of[p].cpu.since = shown.of[p].raw.start

(* A complete snapshot is complete: every process of this user that was      *)
(* there unchanged for the whole walk is in it; whatever was left out for a  *)
(* reason makes it partial (collect_raw's issues, observe's status).         *)
CompleteMissesNobody == shown.complete => shown.missed = {}
=============================================================================
