---------------------------- MODULE NetworkCounters ----------------------------
(***************************************************************************)
(* The per-application byte counters: the BPF programs that count packets  *)
(* by cgroup on every CPU (bins/network-helper/src/bpf/network.bpf.c), the *)
(* helper that attaches and reads them (collector.rs), and the sums that   *)
(* appd makes of the records by application (crates/network/src/core.rs).  *)
(*                                                                         *)
(* One direction stands for rx and tx and a packet is one byte.  A program *)
(* loads its counter, and stores it one higher: two programs on one CPU,   *)
(* one in a task and one in the interrupt that preempts it, may do so in   *)
(* each other's midst.  A collection reads the CPUs' values one by one     *)
(* while packets pass.  With the rates of NetworkSampler, with which they  *)
(* share no state, these counters are the network figures a client is      *)
(* shown.                                                                  *)
(***************************************************************************)
EXTENDS NetworkSampler, FiniteSets, Functions

CONSTANTS
  Cgroups,           \* cgroup ids
  Cpus,
  Contexts,          \* what a CPU runs programs in: a task, a softirq
  Bindings,          \* the application keys of cgroups that a collection may be asked for
  MaxCgroups,        \* entries of the cgroup_counters map
  MaxApplications,   \* MAX_APPLICATION_TRAFFIC_RECORDS
  CounterMax,        \* 2^64 - 1, the largest value of a counter and of a sum
  MaxPackets         \* bound on the packets of a behaviour

ASSUME CountersAssumption ==
  /\ IsFiniteSet(Cgroups) /\ IsFiniteSet(Cpus)
  /\ \A keys \in Bindings : DOMAIN keys \subseteq Cgroups
  /\ MaxCgroups \in Nat /\ MaxApplications \in Nat /\ CounterMax \in Nat /\ MaxPackets \in Nat

VARIABLES
  maps,              \* "detached", or the loaded object's maps: values, overflow, saturated
  running,           \* <<cpu, context>> -> the program between its load and its store
  passed,            \* cgroup -> CPU -> the bytes that passed since the programs were attached
  overtaken,         \* the <<cgroup, cpu>> on which a store hid one made since its load
  collecting,        \* the collection in progress, in the helper and then in appd
  applications       \* the snapshot's applications, and what their cgroups had passed

counterVars == <<maps, running, passed, overtaken, collecting, applications>>

NoRecords == [c \in {} |-> 0]
Detached == [attached |-> FALSE]
NotRunning == [at |-> "idle"]
NobodyRuns == [p \in Cpus \X Contexts |-> NotRunning]
NothingPassed == [c \in Cgroups |-> [cpu \in Cpus |-> 0]]
NoReading == [step |-> "none"]
NoApplications ==
  [of |-> NoRecords, keys |-> NoRecords, before |-> NoRecords, after |-> NoRecords, unsure |-> {}]

CountersInit ==
  /\ maps = Detached /\ running = NobodyRuns /\ passed = NothingPassed /\ overtaken = {}
  /\ collecting = NoReading /\ applications = NoApplications

Passed(c) == SumFunctionOnSet(passed[c], Cpus)

(* The packets of the behaviour so far, those being counted included. *)
Packets ==
  SumFunctionOnSet([c \in Cgroups |-> Passed(c)], Cgroups)
    + Cardinality({p \in Cpus \X Contexts : running[p] # NotRunning})
-----------------------------------------------------------------------------
(* The kernel: account. *)

(* Faulty variant of WouldOverflow: a counter that reaches its maximum counts on. *)
WouldOverflowNever(value) == value > CounterMax

(* value->rx_bytes > ~0ULL - bytes. *)
WouldOverflow(value) == value > CounterMax - 1

(* The packet has been counted, or marked as not counted. *)
Passes(c, cpu) == passed' = [passed EXCEPT ![c][cpu] = @ + 1]

(* A program looks its cgroup up, inserting it if there is room, and loads the *)
(* counter; the check and the += use the value once loaded.                    *)
LoadCounter(c, cpu, context) ==
  /\ maps.attached /\ running[<<cpu, context>>] = NotRunning
  /\ Packets < MaxPackets
  /\ IF c \notin DOMAIN maps.value /\ Cardinality(DOMAIN maps.value) = MaxCgroups
     THEN /\ maps' = [maps EXCEPT !.saturated = @ \cup {cpu}]
          /\ Passes(c, cpu) /\ UNCHANGED running
     ELSE LET held == IF c \in DOMAIN maps.value THEN maps.value
                     ELSE MapPut(maps.value, c, [p \in Cpus |-> 0])
          IN /\ maps' = [maps EXCEPT !.value = held]
             /\ running' = [running EXCEPT ![<<cpu, context>>] =
                              [at |-> "counting", cgroup |-> c, loaded |-> held[c][cpu],
                               since |-> passed[c][cpu]]]
             /\ UNCHANGED passed
  /\ UNCHANGED <<overtaken, collecting, applications>>

(* The counter is stored, or flagged; whatever was stored since the load is lost. *)
StoreCounter(cpu, context) ==
  /\ running[<<cpu, context>>] # NotRunning
  /\ LET run == running[<<cpu, context>>]
         c == run.cgroup
     IN /\ IF WouldOverflow(run.loaded)
           THEN /\ maps' = [maps EXCEPT !.overflow = @ \cup {<<c, cpu>>}] /\ UNCHANGED overtaken
           ELSE /\ maps' = [maps EXCEPT !.value[c][cpu] = run.loaded + 1]
                /\ overtaken' = overtaken \cup IF passed[c][cpu] # run.since THEN {<<c, cpu>>} ELSE {}
        /\ Passes(c, cpu)
  /\ running' = [running EXCEPT ![<<cpu, context>>] = NotRunning]
  /\ UNCHANGED <<collecting, applications>>
-----------------------------------------------------------------------------
(* The helper: CollectorRuntime::collect. *)

(* A new helper process, or the first request: the object is loaded and both hooks attached. *)
AttachCollector ==
  /\ ~maps.attached /\ collecting = NoReading
  /\ maps' = [attached |-> TRUE, value |-> NoRecords, overflow |-> {}, saturated |-> {}]
  /\ UNCHANGED <<running, passed, overtaken, collecting, applications>>

(* The helper process ends: its links and maps go with it, and the collection fails. *)
HelperEnds ==
  /\ maps' = Detached /\ running' = NobodyRuns /\ passed' = NothingPassed /\ overtaken' = {}
  /\ collecting' = NoReading /\ applications' = NoApplications

(* ensure_map_healthy and validate_health_values: every CPU's flag. *)
MapHealthy == maps.saturated = {}

(* The collection fails: the snapshot has no applications. *)
AbandonCollection ==
  /\ collecting' = NoReading /\ applications' = NoApplications
  /\ UNCHANGED <<maps, running, passed, overtaken>>

(* A request names each cgroup once, with its application (NetworkHelperCollector::bindings). *)
StartReading(keys) ==
  /\ maps.attached /\ collecting = NoReading
  /\ IF ~MapHealthy THEN AbandonCollection
     ELSE /\ collecting' = [step |-> "collecting", keys |-> keys, cgroup |-> 0, cpus |-> {}, sum |-> 0,
                            before |-> NoRecords, records |-> NoRecords]
          /\ applications' = NoApplications
          /\ UNCHANGED <<maps, running, passed, overtaken>>

(* Records and values are taken in order. *)
IsNext(x, S) == x \in S /\ \A y \in S : x <= y

(* lookup_percpu of the next binding: a cgroup without an entry has passed nothing. *)
LookupBinding(c) ==
  /\ collecting.step = "collecting" /\ IsNext(c, DOMAIN collecting.keys \ DOMAIN collecting.records)
  /\ LET begun == [collecting EXCEPT !.before = MapPut(@, c, Passed(c))]
     IN collecting' = IF c \notin DOMAIN maps.value
                      THEN [begun EXCEPT !.records = MapPut(@, c, 0)]
                      ELSE [begun EXCEPT !.step = "summing", !.cgroup = c, !.cpus = {}, !.sum = 0]
  /\ UNCHANGED <<maps, running, passed, overtaken, applications>>

(* sum_traffic_values: a flagged value or a sum past the width is an error. *)
AddsUp(cpu, sum) == <<collecting.cgroup, cpu>> \notin maps.overflow /\ sum <= CounterMax

ReadCpu(cpu) ==
  /\ collecting.step = "summing" /\ IsNext(cpu, Cpus \ collecting.cpus)
  /\ LET sum == collecting.sum + maps.value[collecting.cgroup][cpu]
         cpus == collecting.cpus \cup {cpu}
     IN IF ~AddsUp(cpu, sum) THEN AbandonCollection
        ELSE /\ collecting' = IF cpus = Cpus
                              THEN [collecting EXCEPT !.step = "collecting",
                                                      !.records = MapPut(@, collecting.cgroup, sum)]
                              ELSE [collecting EXCEPT !.cpus = cpus, !.sum = sum]
             /\ UNCHANGED <<maps, running, passed, overtaken, applications>>

(* Faulty variant of StillHealthy: the map was healthy when the collection began. *)
HealthyBefore == TRUE
StillHealthy == MapHealthy
-----------------------------------------------------------------------------
(* appd: aggregate_cgroup_traffic.  The bindings and the protocol leave no   *)
(* record without a key, of cgroup 0, twice, or beyond the limit of records. *)

CgroupsOf(app, keys) == {c \in DOMAIN keys : keys[c] = app}

(* Faulty variant of TotalOf: a further cgroup's bytes take the place of the first's. *)
TotalOfLast(app, keys, bytes) == bytes[CHOOSE c \in CgroupsOf(app, keys) : TRUE]

(* applications.entry(key).or_insert, and checked_add of each record. *)
TotalOf(app, keys, bytes) == SumFunctionOnSet(bytes, CgroupsOf(app, keys))

(* A sum past the width or too many applications is an error. *)
Aggregates(keys, bytes) ==
  /\ \A app \in Range(keys) : TotalOf(app, keys, bytes) <= CounterMax
  /\ Cardinality(Range(keys)) <= MaxApplications

(* The bindings are read: the map's health again, the helper's answer, and its sums. *)
AnswerRecords ==
  /\ collecting.step = "collecting" /\ DOMAIN collecting.records = DOMAIN collecting.keys
  /\ LET keys == collecting.keys
         bytes == collecting.records
     IN IF ~(StillHealthy /\ Aggregates(keys, bytes)) THEN AbandonCollection
        ELSE /\ applications' = [of |-> [app \in Range(keys) |-> TotalOf(app, keys, bytes)],
                                 keys |-> keys, before |-> collecting.before,
                                 after |-> [c \in DOMAIN keys |-> Passed(c)],
                                 unsure |-> {c \in Cgroups : \E cpu \in Cpus : <<c, cpu>> \in overtaken}]
             /\ collecting' = NoReading
             /\ UNCHANGED <<maps, running, passed, overtaken>>

CountersNext ==
  \/ \E c \in Cgroups : \/ LookupBinding(c)
                       \/ \E cpu \in Cpus, context \in Contexts : LoadCounter(c, cpu, context)
  \/ \E cpu \in Cpus : ReadCpu(cpu) \/ \E context \in Contexts : StoreCounter(cpu, context)
  \/ \E keys \in Bindings : StartReading(keys)
  \/ AttachCollector \/ HelperEnds \/ AnswerRecords

CountersSpec == CountersInit /\ [][CountersNext]_counterVars
-----------------------------------------------------------------------------
(* Properties. *)

(* Type correctness: the map holds at most its entries, no counter passes    *)
(* its width, and no CPU counted more of a cgroup than passed on it.         *)
CountersTypeOK ==
  /\ maps.attached =>
       /\ Cardinality(DOMAIN maps.value) <= MaxCgroups /\ maps.saturated \subseteq Cpus
       /\ \A c \in DOMAIN maps.value, cpu \in Cpus :
            maps.value[c][cpu] \in 0..CounterMax /\ maps.value[c][cpu] <= passed[c][cpu]
  /\ collecting.step \in {"none", "collecting", "summing"}

(* The applications' bytes are those of their cgroups: the total of an       *)
(* application holds every byte that passed in any of its cgroups before the *)
(* cgroup was looked up and none that had not passed at the answer, and each *)
(* bound application is listed, whatever the map's capacity, the counters'   *)
(* width, the order of the records and the CPU a packet was counted on; what *)
(* cannot be so is an error with no applications.  The one exception are     *)
(* cgroups on whose counter a program was overtaken between its load and its *)
(* store by another on the same CPU: the += of account is not atomic.  Even  *)
(* they never show more than passed (account, CoreCollector::collect,        *)
(* aggregate_cgroup_traffic).                                                *)
CountersAreExact ==
  /\ DOMAIN applications.of = Range(applications.keys)
  /\ \A app \in DOMAIN applications.of :
       LET cgroups == CgroupsOf(app, applications.keys)
       IN /\ applications.of[app] <= SumFunctionOnSet(applications.after, cgroups)
          /\ cgroups \cap applications.unsure = {} =>
               applications.of[app] >= SumFunctionOnSet(applications.before, cgroups)

NetworkFiguresSpec == NetSpec /\ CountersSpec

(* Network figures are real: rates are made of bytes that passed between two *)
(* dumps of one moment each, and the applications' bytes are the sums of what *)
(* their cgroups passed, but for cgroups on which a program was overtaken.   *)
NetworkFiguresAreReal ==
  /\ NetTypeOK /\ RatesNeverInvent /\ RateWindowIsBounded /\ DumpIsOneMoment
  /\ CountersTypeOK /\ CountersAreExact
=============================================================================
