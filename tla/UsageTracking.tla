--------------------------- MODULE UsageTracking ---------------------------
(***************************************************************************)
(* Usage accounting: the tracker and the tables of crates/usage, driven by *)
(* the worker thread of bins/appd/src/usage.rs.                            *)
(*                                                                         *)
(* Time is counted in ticks of the monotonic clock.  Durations are ticks,  *)
(* a "minute" is Minute ticks of local time, and the worker samples the    *)
(* clock where the code does.  The compositor, logind and the idle         *)
(* notifier are the environment: they change the world and put an edge in  *)
(* the stream the worker polls.                                            *)
(*                                                                         *)
(* The tracker's methods are functions of a record s = [trk, db, err]; a   *)
(* method that returns an error leaves s.err set and what it had done so   *)
(* far in place.  The parameter f names the store call that fails.         *)
(***************************************************************************)
EXTENDS Integers, Sequences, FiniteSets, FiniteSetsExt, Functions

CONSTANTS
  Apps,           \* application ids of windows
  MaxTime,        \* bound on the monotonic clock, in ticks
  Disturbances,   \* bound on edges, focus changes, clock steps and faults
  MaxEventGap,    \* TrackerConfig.max_event_gap_ns
  MaxDrift,       \* MAX_WALL_DRIFT_NS
  Minute          \* MINUTE_MS

ASSUME UsageAssumption ==
  /\ MaxTime \in Nat /\ Disturbances \in Nat
  /\ MaxEventGap \in Nat /\ MaxDrift \in Nat /\ Minute \in Nat \ {0}
  /\ "no-app" \notin Apps

NoApp == "no-app"
NoTime == -1
NoSample == [mono |-> NoTime, wall |-> 0, zone |-> 0]
NotActive == [app |-> NoApp, counted |-> NoSample]
NoRow == [app |-> NoApp, dur |-> 0, check |-> NoSample]
Epoch == 4          \* the wall clock when the model starts

VARIABLES
  clk,      \* the machine's clocks: mono, skew (wall minus mono) and zone
  world,    \* the session's true state: permit, idle, focus
  edges,    \* what the three streams hold for the worker
  wrk,      \* WorkerState without the tracker, and the published capability
  trk,      \* UsageTracker without the store
  db,       \* usage.sqlite3, which survives a crash
  hist,     \* history: what was true in each tick and what became of it
  left      \* disturbances still allowed

usageVars == <<clk, world, edges, wrk, trk, db, hist, left>>

-----------------------------------------------------------------------------
Sample == [mono |-> clk.mono, wall |-> Epoch + clk.mono + clk.skew, zone |-> clk.zone]

Abs(n) == IF n < 0 THEN -n ELSE n

\* The early returns of split_into_local_minutes; a boot never changes under
\* a running process.
Splittable(a, b) ==
  /\ b.mono > a.mono
  /\ b.zone = a.zone
  /\ b.wall > a.wall
  /\ Abs((b.wall - a.wall) - (b.mono - a.mono)) <= MaxDrift

MinuteOf(local) == local \div Minute

\* Faulty variant of Split: every slice is rounded on its own.
SplitEachRounded(a, b) ==
  LET la == a.wall + a.zone
      lb == b.wall + b.zone
      Ms == MinuteOf(la) .. MinuteOf(lb - 1)
      Lo(m) == IF m * Minute > la THEN m * Minute ELSE la
      Hi(m) == IF (m + 1) * Minute < lb THEN (m + 1) * Minute ELSE lb
  IN  [m \in Ms |-> ((b.mono - a.mono) * (Hi(m) - Lo(m))) \div (lb - la)]

\* The monotonic time between two samples, apportioned to local minutes by
\* cumulative wall time; the last slice takes the rest.
Split(a, b) ==
  LET la == a.wall + a.zone
      lb == b.wall + b.zone
      Ms == MinuteOf(la) .. MinuteOf(lb - 1)
      Cumulative(m) == IF (m + 1) * Minute >= lb THEN b.mono - a.mono
                       ELSE ((b.mono - a.mono) * ((m + 1) * Minute - la)) \div (lb - la)
  IN  [m \in Ms |-> Cumulative(m) - IF m - 1 \in Ms THEN Cumulative(m - 1) ELSE 0]

Minutes == 0 .. MinuteOf(2 * (Epoch + MaxTime))

-----------------------------------------------------------------------------
(* The store.  A gap is kept as the ticks it lies between. *)

\* Faulty variant of Ticks: the sample a gap starts at is part of it.
TicksInclusive(a, b) == a.mono .. b.mono

Ticks(a, b) == (a.mono + 1) .. b.mono

BeginGap(s, start, f) ==
  IF s.err THEN s
  ELSE IF f = "begin_gap" THEN [s EXCEPT !.err = TRUE]
  ELSE IF s.db.gap # NoSample THEN s
  ELSE [s EXCEPT !.db.gap = start]

\* Faulty variant of CloseOpenGaps: the end is recorded, the gap stays open.
CloseOpenGapsKeeps(s, end, f) ==
  IF f = "close_gap" THEN [s EXCEPT !.err = TRUE]
  ELSE [s EXCEPT !.db.gaps = @ \cup IF s.db.gap = NoSample THEN {} ELSE Ticks(s.db.gap, end)]

CloseOpenGaps(s, end, f) ==
  IF f = "close_gap" THEN [s EXCEPT !.err = TRUE]
  ELSE [s EXCEPT !.db.gap = NoSample,
                 !.db.gaps = @ \cup IF s.db.gap = NoSample THEN {} ELSE Ticks(s.db.gap, end)]

RecordGap(s, start, end, f) ==
  IF f = "record_gap" THEN [s EXCEPT !.err = TRUE]
  ELSE [s EXCEPT !.db.gaps = @ \cup Ticks(start, end)]

\* The unique index on open rows refuses a second open interval.
StartInterval(s, app, start, f) ==
  IF f = "start" \/ s.db.open # NoRow THEN [s EXCEPT !.err = TRUE]
  ELSE [s EXCEPT !.db.open = [app |-> app, dur |-> 0, check |-> start]]

\* One transaction: the interval row and the aggregates of every slice.
AppendSegment(s, app, from, end, f) ==
  IF f = "append" \/ s.db.open = NoRow THEN [s EXCEPT !.err = TRUE]
  ELSE LET slices == Split(from, end)
           Add(m) == IF m \in DOMAIN slices THEN slices[m] ELSE 0
       IN  [s EXCEPT !.db.open.dur = @ + SumFunction(slices),
                     !.db.open.check = end,
                     !.db.agg = [k \in DOMAIN @ |-> @[k] + IF k[1] = app THEN Add(k[2]) ELSE 0],
                     !.db.credit = [t \in DOMAIN @ |->
                                      @[t] \o IF t \in Ticks(from, end) THEN <<app>> ELSE <<>>]]

CloseInterval(s, f) ==
  IF f = "close" THEN [s EXCEPT !.err = TRUE]
  ELSE [s EXCEPT !.db.closed[s.db.open.app] = @ + s.db.open.dur, !.db.open = NoRow]

RecoverOpenIntervals(d, now) ==
  IF d.open = NoRow THEN d
  ELSE [d EXCEPT !.closed[d.open.app] = @ + d.open.dur, !.open = NoRow,
                 !.gap = IF @ = NoSample THEN d.open.check ELSE @]

-----------------------------------------------------------------------------
(* UsageTracker *)

NewTracker(d) ==
  [connected |-> FALSE, focus |-> NoApp, session |-> "none", last |-> NoSample,
   active |-> NotActive, gapOpen |-> d.gap # NoSample]

\* The active interval is taken before the store has closed its row.
CloseActive(s, f) ==
  IF s.err \/ s.trk.active = NotActive THEN s
  ELSE CloseInterval([s EXCEPT !.trk.active = NotActive], f)

Sampled(s, now) == IF s.err THEN s ELSE [s EXCEPT !.trk.last = now]

\* A discontinuity: a gap from the previous sample to this one, then close.
Discontinuity(s, now, f) == Sampled(CloseActive(RecordGap(s, s.trk.last, now, f), f), now)

\* Time went too far, or an active interval cannot be split at the minutes.
Discontinuous(prev, a, now, session) ==
  \/ now.mono - prev.mono > MaxEventGap
  \/ /\ a # NotActive
     /\ ~Splittable(prev, now) \/ (session = "permit" /\ ~Splittable(a.counted, now))

Counted(s, now) == IF s.err THEN s ELSE [s EXCEPT !.trk.active.counted = now, !.trk.last = now]

Advance(s, now, session, f) ==
  LET prev == s.trk.last
      a == s.trk.active
  IN  IF prev # NoSample /\ now.mono = prev.mono /\ now.wall = prev.wall THEN s
      ELSE IF prev # NoSample /\ Discontinuous(prev, a, now, session) THEN Discontinuity(s, now, f)
      ELSE IF prev = NoSample \/ a = NotActive \/ session # "permit" THEN Sampled(s, now)
      ELSE Counted(AppendSegment(s, a.app, a.counted, now, f), now)

Resumed(s, now) == IF s.err THEN s ELSE [s EXCEPT !.trk.gapOpen = FALSE, !.trk.last = now]

ResumeOrAdvance(s, now, session, ready, f) ==
  IF ~s.trk.gapOpen THEN Advance(s, now, session, f)
  ELSE IF ~ready THEN [s EXCEPT !.trk.last = now]
  ELSE Resumed(CloseOpenGaps(s, now, f), now)

Activated(s, app, now) == IF s.err THEN s ELSE [s EXCEPT !.trk.active = [app |-> app, counted |-> now]]

Begin(s, app, now, f) ==
  IF s.err \/ app = NoApp THEN s ELSE Activated(StartInterval(s, app, now, f), app, now)

Reconcile(s, now, f) ==
  LET desired == IF s.trk.connected /\ s.trk.session = "permit" THEN s.trk.focus ELSE NoApp
  IN  IF s.err \/ (s.trk.active # NotActive /\ s.trk.active.app = desired) THEN s
      ELSE Begin(CloseActive(s, f), desired, now, f)

Focused(s, focus, session) ==
  IF s.err THEN s
  ELSE [s EXCEPT !.trk.connected = TRUE, !.trk.focus = focus, !.trk.session = session]

ObserveFocus(s, focus, session, now, f) ==
  Reconcile(Focused(ResumeOrAdvance(s, now, session, TRUE, f), focus, session), now, f)

InSession(s, session) == IF s.err THEN s ELSE [s EXCEPT !.trk.session = session]

Checkpoint(s, session, now, f) ==
  Reconcile(InSession(ResumeOrAdvance(s, now, session, s.trk.connected, f), session), now, f)

GapBegun(s, f) ==
  IF s.trk.gapOpen \/ s.trk.last = NoSample THEN s ELSE BeginGap(s, s.trk.last, f)

GapOpened(s) == IF s.err \/ s.trk.last = NoSample THEN s ELSE [s EXCEPT !.trk.gapOpen = TRUE]

\* Faulty variant of MarkGap: the active interval goes on.
MarkGapKeepsActive(s, f) == GapOpened(GapBegun(s, f))

\* What mark_event_gap and mark_session_unavailable share.
MarkGap(s, f) == CloseActive(GapOpened(GapBegun(s, f)), f)

Disconnected(s) == IF s.err THEN s ELSE [s EXCEPT !.trk.connected = FALSE, !.trk.focus = NoApp]

\* Faulty variant of MarkEventGap: only the source is forgotten.
MarkEventGapForgets(s, f) == Disconnected(s)

MarkEventGap(s, f) == Disconnected(MarkGap(s, f))

MarkSessionUnavailable(s, f) == InSession(MarkGap(s, f), "none")

ObserveSessionEdge(s, now, f) ==
  InSession(CloseActive(IF s.trk.session = "none" THEN [s EXCEPT !.trk.last = now]
                        ELSE Advance(s, now, s.trk.session, f), f), "none")

IntoStore(s, f) == CloseActive(s, f)

-----------------------------------------------------------------------------
(* The worker *)

S0 == [trk |-> trk, db |-> db, err |-> FALSE]

Failures == {"none", "begin_gap", "close_gap", "record_gap", "start", "append", "close"}

\* A failing store call or an unreadable clock costs a disturbance.
Cost(f) == IF f = "none" THEN 0 ELSE 1

Affordable(f) == left >= Cost(f)

Spend(n, f) ==
  /\ left' = left - n - Cost(f)
  /\ hist' = [hist EXCEPT !.intact = @ /\ f = "none"]

\* A failed call was really made: the result differs from the one without it.
Commit(s) == trk' = s.trk /\ db' = s.db

\* Faulty variant of Capability: the snapshot is not waited for.
CapabilityUnseen(w) == IF w.avail /\ w.idleStream THEN "healthy" ELSE "degraded"

\* What the worker publishes; publish_unavailable overrides it.
Capability(w) == IF w.seen /\ w.avail /\ w.idleStream THEN "healthy" ELSE "degraded"

Publish(w) == [w EXCEPT !.cap = Capability(w)]

Unavailable(w) == [w EXCEPT !.cap = "unreachable"]

LostStream(s, w, f) ==
  [st |-> [MarkSessionUnavailable(s, f) EXCEPT !.err = FALSE],
   wk |-> Publish([w EXCEPT !.avail = FALSE])]

Paused(r, w) ==
  [st |-> [r EXCEPT !.err = FALSE],
   wk |-> IF r.err THEN Unavailable(w) ELSE Publish([w EXCEPT !.avail = FALSE])]

\* pause_for_logind_edge; f = "clock" is a failed clock.sample(), which publishes
\* the state whatever mark_session_unavailable returned.
Pause(s, w, f) ==
  IF f = "clock" THEN LostStream(s, w, f) ELSE Paused(ObserveSessionEdge(s, Sample, f), w)

\* What pause_for_idle_edge makes of the tracker's answer: a success is not
\* published.
PausedUnsaid(r, w) ==
  [st |-> [r EXCEPT !.err = FALSE],
   wk |-> IF r.err THEN Unavailable(w) ELSE [w EXCEPT !.avail = FALSE]]

PauseForIdleEdge(s, w, f) ==
  IF f = "clock" THEN LostStream(s, w, f) ELSE PausedUnsaid(ObserveSessionEdge(s, Sample, f), w)

\* refresh_session, first half: without both streams the session is unknown;
\* otherwise the edges are drained and the probe starts.
Refresh(s, w, logindEdge, f) ==
  IF ~w.idleStream \/ ~w.logindStream
  THEN [st |-> s, wk |-> Publish([w EXCEPT !.avail = FALSE, !.pc = "loop"])]
  ELSE [(IF logindEdge THEN Pause(s, w, f) ELSE [st |-> s, wk |-> w]) EXCEPT !.wk.pc = "probing"]

\* Consuming the logind edges is part of the drain of Refresh.
AfterDrain(w) == IF w.idleStream /\ w.logindStream THEN [edges EXCEPT !.logind = FALSE] ELSE edges

Apply(r) == Commit(r.st) /\ wrk' = r.wk

\* checkpoint timer, WriterCommand::Checkpoint after its polls, or the tail of
\* another handler: refresh_session begins.
RefreshBegins(f) ==
  /\ wrk.pc = "loop" /\ wrk.running
  /\ Affordable(f)
  /\ Apply(Refresh(S0, wrk, edges.logind, f))
  /\ edges' = AfterDrain(wrk)
  /\ Spend(0, f)
  /\ UNCHANGED <<clk, world>>

\* loginctl answers with the session's state at that moment.
Probe ==
  /\ wrk.pc = "probing" /\ wrk.running
  /\ wrk' = [wrk EXCEPT !.pc = "probed", !.probe = IF world.permit THEN "permit" ELSE "deny"]
  /\ UNCHANGED <<clk, world, edges, trk, db, hist, left>>

\* It fails, overruns its 2 s or 64 KiB, or answers what cannot be parsed.
ProbeFails(f) ==
  /\ wrk.pc = "probing" /\ wrk.running
  /\ left > Cost(f)
  /\ Commit([MarkSessionUnavailable(S0, f) EXCEPT !.err = FALSE])
  /\ wrk' = Publish([wrk EXCEPT !.avail = FALSE, !.pc = "loop"])
  /\ Spend(1, f)
  /\ UNCHANGED <<clk, world, edges>>

\* The tracker is told the focus, or only the session before niri's snapshot.
Told(f) ==
  LET session == IF wrk.inputIdle THEN "deny" ELSE wrk.probe
  IN  IF wrk.seen THEN ObserveFocus(S0, wrk.focus, session, Sample, f)
      ELSE Checkpoint(S0, session, Sample, f)

Observed(r, w) ==
  [st |-> r, wk |-> IF r.err THEN Unavailable(w) ELSE Publish([w EXCEPT !.avail = TRUE])]

\* Faulty variant of RefreshEnds: no second drain after the probe.
RefreshEndsUndrained(f) ==
  /\ wrk.pc = "probed" /\ wrk.running
  /\ Affordable(f)
  /\ Apply(Observed(Told(f), [wrk EXCEPT !.pc = "loop"]))
  /\ Spend(0, f)
  /\ UNCHANGED <<clk, world, edges>>

\* The second drain; then the sample and the tracker.  An edge that came
\* during the probe voids its answer.
RefreshEnds(f) ==
  /\ wrk.pc = "probed" /\ wrk.running
  /\ Affordable(f)
  /\ LET w == [wrk EXCEPT !.pc = "loop"]
     IN  Apply(IF edges.logind THEN Pause(S0, w, f)
               ELSE IF f = "clock" THEN [st |-> S0, wk |-> Publish(w)]
               ELSE Observed(Told(f), w))
  /\ edges' = [edges EXCEPT !.logind = FALSE]
  /\ Spend(0, f)
  /\ UNCHANGED <<clk, world>>

\* The refresh that follows a pause at an edge.
RefreshAfter(p) == Refresh(p.st, p.wk, FALSE, "none")

\* poll_logind_edges: pause at the edge, then refresh.
PollLogind(f) ==
  /\ wrk.pc = "loop" /\ wrk.running /\ wrk.logindStream /\ edges.logind
  /\ Affordable(f)
  /\ Apply(RefreshAfter(Pause(S0, wrk, f)))
  /\ edges' = [edges EXCEPT !.logind = FALSE]
  /\ Spend(0, f)
  /\ UNCHANGED <<clk, world>>

LogindDrained(p) == IF p.wk.logindStream /\ edges.logind THEN Pause(p.st, p.wk, "none") ELSE p

\* poll_wayland_idle_edges: one event; pause, take its value, refresh.
PollIdle(f) ==
  /\ wrk.pc = "loop" /\ wrk.running /\ wrk.idleStream /\ edges.idle # <<>>
  /\ Affordable(f)
  /\ Apply(RefreshAfter([LogindDrained(PauseForIdleEdge(S0, wrk, f)) EXCEPT !.wk.inputIdle = Head(edges.idle)]))
  /\ edges' = [AfterDrain(wrk) EXCEPT !.idle = Tail(@)]
  /\ Spend(0, f)
  /\ UNCHANGED <<clk, world>>

\* niri poll_update returns FocusChanged.
PollNiri(f) ==
  /\ wrk.pc = "loop" /\ wrk.running /\ wrk.niri /\ edges.niri # <<>>
  /\ Affordable(f)
  /\ Apply(Refresh(S0, [wrk EXCEPT !.seen = TRUE, !.focus = Head(edges.niri)], edges.logind, f))
  /\ edges' = [AfterDrain(wrk) EXCEPT !.niri = Tail(@)]
  /\ Spend(0, f)
  /\ UNCHANGED <<clk, world>>

\* A stream ends or returns what cannot be parsed; the worker drops it.
LoseNiri(f) ==
  /\ wrk.pc = "loop" /\ wrk.running /\ wrk.niri
  /\ left > Cost(f)
  /\ Commit([MarkEventGap(S0, f) EXCEPT !.err = FALSE])
  /\ wrk' = Publish([wrk EXCEPT !.niri = FALSE, !.seen = FALSE, !.focus = NoApp])
  /\ edges' = [edges EXCEPT !.niri = <<>>]
  /\ Spend(1, f)
  /\ UNCHANGED <<clk, world>>

\* A drain finds it lost, also the one that follows the probe.
LoseLogind(f) ==
  /\ wrk.pc \in {"loop", "probed"} /\ wrk.running /\ wrk.logindStream
  /\ left > Cost(f)
  /\ Apply(LostStream(S0, [wrk EXCEPT !.logindStream = FALSE, !.pc = "loop"], f))
  /\ edges' = [edges EXCEPT !.logind = FALSE]
  /\ Spend(1, f)
  /\ UNCHANGED <<clk, world>>

LoseIdle(f) ==
  /\ wrk.pc = "loop" /\ wrk.running /\ wrk.idleStream
  /\ left > Cost(f)
  /\ Apply(LostStream(S0, [wrk EXCEPT !.idleStream = FALSE, !.inputIdle = FALSE], f))
  /\ edges' = [edges EXCEPT !.idle = <<>>]
  /\ Spend(1, f)
  /\ UNCHANGED <<clk, world>>

\* The loop connects what is missing; a fresh stream starts with the current
\* state of its source.
ConnectNiri ==
  /\ wrk.pc = "loop" /\ wrk.running /\ ~wrk.niri
  /\ wrk' = Publish([wrk EXCEPT !.niri = TRUE, !.seen = FALSE])
  /\ edges' = [edges EXCEPT !.niri = <<world.focus>>]
  /\ UNCHANGED <<clk, world, trk, db, hist, left>>

ConnectLogind ==
  /\ wrk.pc = "loop" /\ wrk.running /\ ~wrk.logindStream
  /\ Apply(Refresh(S0, [wrk EXCEPT !.logindStream = TRUE, !.avail = FALSE], FALSE, "none"))
  /\ edges' = [edges EXCEPT !.logind = FALSE]
  /\ UNCHANGED <<clk, world, hist, left>>

ConnectIdle ==
  /\ wrk.pc = "loop" /\ wrk.running /\ ~wrk.idleStream
  /\ Apply(Refresh(S0, [wrk EXCEPT !.idleStream = TRUE, !.inputIdle = world.idle],
                   edges.logind, "none"))
  /\ edges' = [edges EXCEPT !.idle = <<>>, !.logind = @ /\ ~wrk.logindStream]
  /\ UNCHANGED <<clk, world, hist, left>>

Released(s, f) == [IntoStore(s, f) EXCEPT !.trk = NewTracker(s.db)]

\* The end of usage_worker, after a last checkpoint_current_usage whose polls and
\* refresh are the actions above: mark the gap, release the store.
Stop(f) ==
  /\ wrk.pc = "loop" /\ wrk.running
  /\ left > Cost(f)
  /\ Commit(Released([MarkEventGap(S0, f) EXCEPT !.err = FALSE], f))
  /\ wrk' = [wrk EXCEPT !.running = FALSE, !.niri = FALSE, !.seen = FALSE, !.logindStream = FALSE,
                        !.idleStream = FALSE, !.inputIdle = FALSE, !.avail = FALSE,
                        !.focus = NoApp]
  /\ edges' = [logind |-> FALSE, idle |-> <<>>, niri |-> <<>>]
  /\ Spend(1, f)
  /\ UNCHANGED <<clk, world>>

\* The process dies anywhere; memory is lost, the tables stay.
Crash ==
  /\ wrk.running /\ left > 0
  /\ trk' = NewTracker(db)
  /\ wrk' = [running |-> FALSE, pc |-> "loop", niri |-> FALSE, seen |-> FALSE,
             logindStream |-> FALSE, idleStream |-> FALSE, inputIdle |-> FALSE,
             avail |-> FALSE, focus |-> NoApp, probe |-> "deny", cap |-> "unreachable"]
  /\ edges' = [logind |-> FALSE, idle |-> <<>>, niri |-> <<>>]
  /\ left' = left - 1
  /\ UNCHANGED <<clk, world, db, hist>>

\* UsageStore::open recovers, then the start itself opens a gap.
Start ==
  /\ ~wrk.running
  /\ LET d == RecoverOpenIntervals(db, Sample)
         g == BeginGap([trk |-> trk, db |-> d, err |-> FALSE], Sample, "none")
     IN  db' = g.db /\ trk' = NewTracker(g.db)
  /\ wrk' = [wrk EXCEPT !.running = TRUE, !.cap = "degraded"]
  /\ UNCHANGED <<clk, world, edges, hist, left>>

-----------------------------------------------------------------------------
(* The environment *)

\* A tick is due when nothing the worker has not been told of is pending and
\* an interval is open for the window in focus.
Due == /\ wrk.running /\ trk.active # NotActive /\ trk.active.app = world.focus
       /\ world.permit /\ ~world.idle
       /\ ~edges.logind /\ edges.idle = <<>> /\ edges.niri = <<>>

\* The applications a tick may be counted for: none while the session or a
\* stream says no, the focused one when the worker knows it, any while an
\* edge is on its way.
Countable ==
  IF ~wrk.running \/ ~wrk.niri \/ ~wrk.logindStream \/ ~wrk.idleStream THEN {}
  ELSE IF edges.logind \/ edges.idle # <<>> \/ edges.niri # <<>> \/ wrk.pc # "loop" THEN Apps
  ELSE IF world.permit /\ ~world.idle THEN {world.focus} ELSE {}

Tick ==
  /\ clk.mono < MaxTime
  /\ clk' = [clk EXCEPT !.mono = @ + 1]
  /\ hist' = [hist EXCEPT !.due = IF Due THEN @ \cup {clk.mono + 1} ELSE @,
                          !.countable[clk.mono + 1] = Countable]
  /\ UNCHANGED <<world, edges, wrk, trk, db, left>>

ClockStep(d) ==
  /\ left > 0
  /\ clk.skew + d \in -2 .. 2
  /\ clk' = [clk EXCEPT !.skew = @ + d]
  /\ left' = left - 1
  /\ UNCHANGED <<world, edges, wrk, trk, db, hist>>

ZoneChange ==
  /\ left > 0
  /\ clk' = [clk EXCEPT !.zone = 1 - @]
  /\ left' = left - 1
  /\ UNCHANGED <<world, edges, wrk, trk, db, hist>>

SessionEdge ==
  /\ left > 0
  /\ world' = [world EXCEPT !.permit = ~@]
  /\ edges' = [edges EXCEPT !.logind = wrk.logindStream]
  /\ left' = left - 1
  /\ UNCHANGED <<clk, wrk, trk, db, hist>>

IdleEdge ==
  /\ left > 0
  /\ world' = [world EXCEPT !.idle = ~@]
  /\ edges' = [edges EXCEPT !.idle = IF wrk.idleStream THEN Append(@, ~world.idle) ELSE @]
  /\ left' = left - 1
  /\ UNCHANGED <<clk, wrk, trk, db, hist>>

FocusMoves(app) ==
  /\ left > 0 /\ app # world.focus
  /\ world' = [world EXCEPT !.focus = app]
  /\ edges' = [edges EXCEPT !.niri = IF wrk.niri THEN Append(@, app) ELSE @]
  /\ left' = left - 1
  /\ UNCHANGED <<clk, wrk, trk, db, hist>>

-----------------------------------------------------------------------------
\* Init is the worker just started on an empty database, before it connected.
UsageInit ==
  /\ clk = [mono |-> 0, skew |-> 0, zone |-> 0]
  /\ \E app \in Apps : world = [permit |-> TRUE, idle |-> FALSE, focus |-> app]
  /\ edges = [logind |-> FALSE, idle |-> <<>>, niri |-> <<>>]
  /\ db = [open |-> NoRow, closed |-> [a \in Apps |-> 0], gap |-> Sample, gaps |-> {},
           agg |-> [k \in Apps \X Minutes |-> 0], credit |-> [t \in 1 .. MaxTime |-> <<>>]]
  /\ trk = NewTracker(db)
  /\ wrk = [running |-> TRUE, pc |-> "loop", niri |-> FALSE, seen |-> FALSE,
            logindStream |-> FALSE, idleStream |-> FALSE, inputIdle |-> FALSE,
            avail |-> FALSE, focus |-> NoApp, probe |-> "deny", cap |-> "degraded"]
  /\ hist = [due |-> {}, countable |-> [t \in 1 .. MaxTime |-> {}], intact |-> TRUE]
  /\ left = Disturbances

UsageNext ==
  \/ \E f \in Failures \cup {"clock"} :
       \/ RefreshBegins(f) \/ RefreshEnds(f) \/ PollLogind(f) \/ PollIdle(f) \/ PollNiri(f)
  \/ \E f \in Failures : ProbeFails(f) \/ LoseNiri(f) \/ LoseLogind(f) \/ LoseIdle(f) \/ Stop(f)
  \/ Probe \/ ConnectNiri \/ ConnectLogind \/ ConnectIdle \/ Crash \/ Start
  \/ Tick \/ ZoneChange \/ SessionEdge \/ IdleEdge
  \/ \E d \in {-2, 1} : ClockStep(d)
  \/ \E app \in Apps : FocusMoves(app)

UsageSpec == UsageInit /\ [][UsageNext]_usageVars

-----------------------------------------------------------------------------
Samples == [mono: NoTime .. MaxTime, wall: Int, zone: 0 .. 1]
SessionViews == {"none", "permit", "deny"}

\* The variables keep their shapes.
UsageTypeOK ==
  /\ clk \in [mono: 0 .. MaxTime, skew: -2 .. 2, zone: 0 .. 1]
  /\ world \in [permit: BOOLEAN, idle: BOOLEAN, focus: Apps]
  /\ trk \in [connected: BOOLEAN, focus: Apps \cup {NoApp}, session: SessionViews, last: Samples,
             active: [app: Apps \cup {NoApp}, counted: Samples], gapOpen: BOOLEAN]
  /\ db.open \in [app: Apps \cup {NoApp}, dur: Nat, check: Samples]
  /\ db.closed \in [Apps -> Nat] /\ db.gap \in Samples /\ db.gaps \subseteq 1 .. MaxTime
  /\ wrk.pc \in {"loop", "probing", "probed"}
  /\ left \in 0 .. Disturbances

CreditOf(app) == Cardinality({t \in DOMAIN db.credit : \E i \in DOMAIN db.credit[t] : db.credit[t][i] = app})

\* No tick is counted twice, and the interval rows and the minute aggregates
\* of every application both add up to exactly the ticks counted for it:
\* split_into_local_minutes and append_segment conserve time across clock
\* drift, failed writes, recoveries and restarts.
TimeIsConserved ==
  /\ \A t \in DOMAIN db.credit : Len(db.credit[t]) <= 1
  /\ \A app \in Apps :
       /\ db.closed[app] + (IF db.open.app = app THEN db.open.dur ELSE 0) = CreditOf(app)
       /\ SumFunction([m \in Minutes |-> db.agg[<<app, m>>]]) = CreditOf(app)

\* While an interval is active its row is the open one, at the same checkpoint,
\* and the tracker's last sample is that checkpoint: what close_active, the gap
\* marks and recover_open_intervals rely on to meet without overlap or hole.
RowMatchesTracker ==
  trk.active # NotActive =>
    /\ db.open.app = trk.active.app
    /\ db.open.check = trk.active.counted
    /\ trk.active.counted.mono = trk.last.mono
    /\ ~trk.gapOpen

InGap(t) == t \in db.gaps \/ (db.gap # NoSample /\ t > db.gap.mono)

\* A coverage gap never covers counted time, whichever of the disconnects,
\* discontinuities, stops and recoveries opened or closed it.
GapsAreUncounted ==
  \A t \in 1 .. clk.mono : InGap(t) => db.credit[t] = <<>>

\* As long as every write and clock reading succeeded, time is counted only for
\* the focused application of a session that permits it while all three streams
\* are connected, or while an edge was on its way.
CountedWasObserved ==
  hist.intact =>
  \A t \in 1 .. clk.mono : \A i \in DOMAIN db.credit[t] : db.credit[t][i] \in hist.countable[t]

\* Not yet counted, and still counted or covered later: past the checkpoint of
\* the open row.
Pending(t) == db.open # NoRow /\ t > db.open.check.mono

\* A tick during which an interval was open for the focused window of a
\* permitted session never disappears while the writes succeed: it is counted,
\* in a gap, or pending, whatever edges race with the probe of the session.
DueTimeIsAccounted ==
  hist.intact =>
  \A t \in hist.due : Len(db.credit[t]) = 1 \/ InGap(t) \/ Pending(t)

\* The probe of refresh_session follows a pause: nothing is counted until it ends.
ProbesAfterPause == wrk.pc # "loop" /\ ~wrk.avail /\ trk.active = NotActive

\* Unless a write or clock reading failed, while the worker reports healthy its
\* tracker has no gap open and holds the source and a session, but for the probe
\* after an idle edge, which pause_for_idle_edge does not publish: even then
\* nothing is counted, and the next thing published is the probe's outcome.
HealthyIsTracking ==
  hist.intact /\ wrk.running /\ wrk.cap = "healthy" =>
    /\ db.gap = NoSample /\ ~trk.gapOpen /\ trk.connected
    /\ trk.session # "none" \/ ProbesAfterPause

\* The ledger adds up: every tick is counted at most once, in a gap or pending,
\* rows and aggregates agree, and the open row is where the tracker is
\* (tracker.rs, store.rs).
TimeIsAccounted ==
  UsageTypeOK /\ TimeIsConserved /\ RowMatchesTracker /\ GapsAreUncounted /\ DueTimeIsAccounted

\* What is counted was seen, and "healthy" is said only while it is seen
\* (refresh_session_with_focus, publish_worker_state).
TrackingIsHonest == CountedWasObserved /\ HealthyIsTracking
=============================================================================
