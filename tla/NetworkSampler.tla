---------------------------- MODULE NetworkSampler ----------------------------
(***************************************************************************)
(* The interface counters and the rates made of them                       *)
(* (crates/network/src/netlink.rs, sampler.rs): a link dump is read        *)
(* message by message while the kernel counts and links come and go, is    *)
(* retried when it was interrupted, and is then compared with the one      *)
(* before it.                                                              *)
(*                                                                         *)
(* An observation's boot time is read before its dump begins, so its       *)
(* counters are up to the dump's deadline younger than their time.  One    *)
(* counter stands for rx and tx; names and kinds of interfaces, the event  *)
(* list and the totals by kind are left out.                               *)
(***************************************************************************)
EXTENDS Integers

CONSTANTS
  Links,             \* interface ids (index and name)
  Width32,           \* IFLA_STATS counts modulo this; IFLA_STATS64 never wraps here
  DumpDeadline,      \* RTNETLINK_RECEIVE_DEADLINE
  MaxDumpAttempts,   \* MAX_DUMP_ATTEMPTS
  MaxRateInterval,   \* SamplerConfig.maximum_rate_interval
  MaxClock,          \* bound on the time a behaviour lasts
  MaxKernelSteps     \* bound on what happens in the kernel in a behaviour

ASSUME NetAssumption ==
  /\ Width32 \in Nat \ {0} /\ DumpDeadline \in Nat /\ MaxDumpAttempts \in Nat \ {0}
  /\ MaxRateInterval \in Nat /\ MaxClock \in Nat /\ MaxKernelSteps \in Nat

VARIABLES
  clock,             \* [boot, awake]: CLOCK_BOOTTIME and the Instant the deadline is made of;
                     \* kernel: the kernel steps so far
  link,              \* the kernel: present, the width of its statistics (0: none), counter,
                     \* and total, what really passed
  dump,              \* the dump being read
  sampler,           \* baselines, previous_observed_boottime
  rates              \* what the last collect returned of each link, until the next begins

netVars == <<clock, link, dump, sampler, rates>>

\* The map with an entry inserted: (k :> v) @@ f of the module TLC, which the
\* provers know nothing about.
MapPut(f, k, v) == [x \in DOMAIN f \cup {k} |-> IF x = k THEN v ELSE f[x]]

NoDump == [step |-> "none"]
NoLinks == [l \in {} |-> {}]
Present == {l \in Links : link[l].present}
NoRates == [of |-> NoLinks, ids |-> {}, known |-> FALSE]
Unavailable(state) == [state |-> state, bytes |-> 0, passed |-> 0, elapsed |-> 0, window |-> 0]

(* The links have counted before the collector starts. *)
NetInit ==
  /\ clock = [boot |-> 0, awake |-> 0, kernel |-> 0]
  /\ dump = NoDump
  /\ link = [l \in Links |-> [present |-> TRUE, width |-> 32, counter |-> 1, total |-> 1]]
  /\ sampler = [baselines |-> NoLinks, previous |-> 0, once |-> FALSE]
  /\ rates = NoRates
-----------------------------------------------------------------------------
(* The kernel. *)

KernelStep ==
  clock.kernel < MaxKernelSteps /\ clock' = [clock EXCEPT !.kernel = @ + 1]

(* A change of the links marks the rest of a running dump as interrupted. *)
Interrupts == IF dump.step = "reading" THEN [dump EXCEPT !.interrupted = TRUE] ELSE dump

Traffic(l) ==
  /\ KernelStep /\ link[l].present
  /\ link' = [link EXCEPT ![l].counter = @ + 1, ![l].total = @ + 1]
  /\ UNCHANGED <<dump, sampler, rates>>

(* A driver resets its counters. *)
ResetCounter(l) ==
  /\ KernelStep /\ link[l].counter > 0
  /\ link' = [link EXCEPT ![l].counter = 0]
  /\ UNCHANGED <<dump, sampler, rates>>

(* A message may carry other statistics than the one before it. *)
StatisticsChange(l) ==
  /\ KernelStep
  /\ \E width \in {0, 32, 64} \ {link[l].width} : link' = [link EXCEPT ![l].width = width]
  /\ UNCHANGED <<dump, sampler, rates>>

(* A link goes, or comes (back), its counters at zero. *)
Hotplug(l) ==
  /\ KernelStep
  /\ link' = [link EXCEPT ![l].present = ~@, ![l].counter = 0]
  /\ dump' = Interrupts
  /\ UNCHANGED <<sampler, rates>>

(* Time passes; a dump is not waited for past its deadline. *)
ClockAdvances ==
  /\ clock.boot < MaxClock /\ clock' = [clock EXCEPT !.boot = @ + 1, !.awake = @ + 1]
  /\ dump.step = "reading" => clock.awake < dump.deadline
  /\ UNCHANGED <<link, dump, sampler, rates>>

(* A suspend: the boot time runs on, Instants do not. *)
Suspend ==
  /\ clock.boot < MaxClock /\ clock' = [clock EXCEPT !.boot = MaxClock]
  /\ UNCHANGED <<link, dump, sampler, rates>>
-----------------------------------------------------------------------------
(* RtnetlinkCollector::collect. *)

(* One collect_once: a new socket and sequence, an empty list. *)
Attempt(n, at, deadline) ==
  [step |-> "reading", attempt |-> n, at |-> at, deadline |-> deadline, interrupted |-> FALSE,
   seen |-> NoLinks, ids |-> Present]

(* NetworkMonitor::collect: the boot time, then the deadline and the first attempt. *)
BeginCollect ==
  /\ dump.step = "none"
  /\ dump' = Attempt(1, clock.boot, clock.awake + DumpDeadline)
  /\ rates' = NoRates
  /\ UNCHANGED <<clock, link, sampler>>

(* Faulty variant of DumpHeaderValid: NLM_F_DUMP_INTR is not looked at. *)
DumpHeaderUnchecked == TRUE

(* validate_dump_header: nothing more is taken from an interrupted dump. *)
DumpHeaderValid == ~dump.interrupted

(* parse_link: the 64-bit statistics if the driver has them, else the 32-bit ones, else none. *)
Reading(l) ==
  CASE link[l].width = 64 -> link[l].counter
    [] link[l].width = 32 -> link[l].counter % Width32
    [] OTHER -> 0

(* One RTM_NEWLINK message. *)
ReadLink(l) ==
  /\ dump.step = "reading" /\ DumpHeaderValid /\ l \in Present \ DOMAIN dump.seen
  /\ dump' = [dump EXCEPT !.seen =
       MapPut(@, l, [width |-> link[l].width, counter |-> Reading(l), total |-> link[l].total,
                     readAt |-> clock.awake])]
  /\ UNCHANGED <<clock, link, sampler, rates>>

(* Faulty variant of Retried: every attempt gets a deadline of its own. *)
RetriedAnew == Attempt(dump.attempt + 1, dump.at, clock.awake + DumpDeadline)

(* collect_dump_with_retry: the attempts share the deadline and the boot time. *)
Retried == Attempt(dump.attempt + 1, dump.at, dump.deadline)

(* DumpInterrupted and DumpOverrun are retried, at most MaxDumpAttempts in all. *)
DumpRetries ==
  /\ dump.step = "reading" /\ dump.attempt < MaxDumpAttempts
  /\ dump' = Retried
  /\ UNCHANGED <<clock, link, sampler, rates>>

(* Any other error, the deadline, a limit (DumpBudget), or the last attempt interrupted. *)
DumpFails ==
  /\ dump.step = "reading"
  /\ dump' = NoDump
  /\ UNCHANGED <<clock, link, sampler, rates>>
-----------------------------------------------------------------------------
(* NetworkSampler::observe. *)

SamplingGap ==
  /\ sampler.once
  /\ dump.at < sampler.previous \/ dump.at - sampler.previous > MaxRateInterval

(* Faulty variant of ResetOrWrap: the widths of the two readings are not compared. *)
ResetOnly(previous, current) == current.counter < previous.counter

ResetOrWrap(previous, current) ==
  current.width # previous.width \/ current.counter < previous.counter

(* interface_rate; passed is what really went through the link between the two readings. *)
InterfaceRate(l) ==
  LET current == dump.seen[l]
      previous == sampler.baselines[l]
  IN CASE current.width = 0 -> Unavailable("CountersUnavailable")
       [] current.width # 0 /\ l \notin DOMAIN sampler.baselines -> Unavailable("WarmingUp")
       [] OTHER ->
            IF SamplingGap \/ dump.at <= previous.at THEN Unavailable("SamplingGap")
            ELSE IF ResetOrWrap(previous, current) THEN Unavailable("CounterResetOrWrap")
            ELSE [state |-> "Known", bytes |-> current.counter - previous.counter,
                  passed |-> current.total - previous.total,
                  elapsed |-> dump.at - previous.at, window |-> current.readAt - previous.readAt]

(* Faulty variant of AggregateKnown: interfaces without a rate are left out of the sum. *)
AggregateOfKnown(of) == ~SamplingGap /\ \E l \in DOMAIN of : of[l].state = "Known"

(* aggregate_rate: a sum only of a complete set of rates. *)
AggregateKnown(of) ==
  ~SamplingGap /\ DOMAIN of # {} /\ \A l \in DOMAIN of : of[l].state = "Known"

(* next_baselines: the counted links of this dump, and no older one. *)
Baselines ==
  [l \in {m \in DOMAIN dump.seen : dump.seen[m].width # 0} |->
     [at |-> dump.at, width |-> dump.seen[l].width, counter |-> dump.seen[l].counter,
      total |-> dump.seen[l].total, readAt |-> dump.seen[l].readAt]]

(* NLMSG_DONE: the dump is complete and is observed. *)
ObserveDump ==
  /\ dump.step = "reading" /\ DumpHeaderValid /\ Present \subseteq DOMAIN dump.seen
  /\ LET of == [l \in DOMAIN dump.seen |-> InterfaceRate(l)]
     IN rates' = [of |-> of, ids |-> dump.ids, known |-> AggregateKnown(of)]
  /\ sampler' = [baselines |-> Baselines, previous |-> dump.at, once |-> TRUE]
  /\ dump' = NoDump
  /\ UNCHANGED <<clock, link>>

NetNext ==
  \/ \E l \in Links : Traffic(l) \/ ResetCounter(l) \/ StatisticsChange(l) \/ Hotplug(l) \/ ReadLink(l)
  \/ ClockAdvances \/ Suspend \/ BeginCollect \/ DumpRetries \/ DumpFails \/ ObserveDump

NetSpec == NetInit /\ [][NetNext]_netVars
-----------------------------------------------------------------------------
(* Properties. *)

States == {"Known", "WarmingUp", "SamplingGap", "CounterResetOrWrap", "CountersUnavailable"}

(* Type correctness; the aggregate rate is said to be known only when every  *)
(* reported interface has one, so it never stands for a part of the links    *)
(* (sampler.rs aggregate_rate).                                              *)
NetTypeOK ==
  /\ clock.awake <= clock.boot /\ clock.boot <= MaxClock
  /\ \A l \in DOMAIN rates.of :
       rates.of[l].state \in States /\ (rates.known => rates.of[l].state = "Known")
  /\ dump.step = "reading" => dump.attempt \in 1..MaxDumpAttempts /\ dump.ids \subseteq Links
  /\ DOMAIN sampler.baselines \subseteq Links

(* A known rate never invents traffic: whatever resets, wraps, hotplugs and  *)
(* changes between 64-bit and 32-bit statistics happened between the two     *)
(* dumps, the bytes it is made of really passed (sampler.rs:210-211, "Both   *)
(* invalidate this interval instead of inventing a delta").                  *)
RatesNeverInvent ==
  \A l \in DOMAIN rates.of :
    rates.of[l].state = "Known" => rates.of[l].bytes \in 0..rates.of[l].passed

(* A known rate divides by a time that is wrong by at most one dump's        *)
(* deadline: its interval is in range, and the counters were read no more    *)
(* than the interval and the deadline apart, because the attempts of a       *)
(* retried dump share one deadline (netlink.rs collect).                     *)
RateWindowIsBounded ==
  \A l \in DOMAIN rates.of :
    LET r == rates.of[l]
    IN r.state = "Known" => /\ r.elapsed \in 1..MaxRateInterval
                            /\ r.window <= r.elapsed + DumpDeadline

(* The links of an observation all existed together at one moment, the one   *)
(* its dump began at: a dump over which a link came or went is never         *)
(* observed (netlink.rs validate_dump_header).                               *)
DumpIsOneMoment == DOMAIN rates.of = rates.ids
=============================================================================
