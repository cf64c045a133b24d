--------------------------- MODULE UsageRetention ---------------------------
(***************************************************************************)
(* What a usage summary may still say after retention: the daily and the   *)
(* weekly aggregate of one bucket each, the coverage gaps, apply_retention *)
(* of crates/usage/src/store.rs and summary_status of                      *)
(* bins/appd/src/usage.rs.                                                 *)
(*                                                                         *)
(* Wall time is in days.  The local offset is at most a day either way and *)
(* may change, as a timezone may.  A policy's days are kept as they are.   *)
(***************************************************************************)
EXTENDS Integers, FiniteSets, FiniteSetsExt

CONSTANTS
  Horizon,        \* bound on wall time
  MaxGaps,        \* bound on the gaps recorded
  DailyDays,      \* RetentionPolicy.daily_days
  WeeklyWeeks,    \* RetentionPolicy.weekly_weeks
  Watched         \* the bucket of each kind that the model follows

Started == 6    \* the day the model starts: short of a week, past every offset

ASSUME RetentionAssumption ==
  /\ Horizon \in Nat /\ Horizon >= Started
  /\ MaxGaps \in Nat /\ DailyDays \in Nat /\ WeeklyWeeks \in Nat
  /\ Watched \in [{"daily", "weekly"} -> Int]

Offsets == -1 .. 1
Kinds == {"daily", "weekly"}
Span(kind) == IF kind = "daily" THEN 1 ELSE 7

\* The local bucket a sample falls into.
BucketKey(kind, wall, offset) == (wall + offset) \div Span(kind)

VARIABLES
  wall, offset,   \* the clock
  last,           \* last_wall_utc_ms of its aggregate, -1 when there is none
  gaps,           \* coverage_gaps: start and end with their keys
  open,           \* the open gap's start, or -1
  openKeys,       \* its start keys
  epoch,          \* usage_epoch, the keys at which tracking started
  lost            \* history: gaps that retention deleted

retentionVars == <<wall, offset, last, gaps, open, openKeys, epoch, lost>>

Keys(w, o) == [k \in Kinds |-> BucketKey(k, w, o)]

\* Faulty variant of CoverageDays: gaps are kept as long as the aggregates.
CoverageDaysPlain == Max({DailyDays, 7 * WeeklyWeeks})

\* DAILY_COVERAGE_BOUNDARY_DAYS and WEEKLY_COVERAGE_BOUNDARY_DAYS.
CoverageDays == Max({DailyDays + 3, 7 * WeeklyWeeks + 9})

KeptDays(kind) == IF kind = "daily" THEN DailyDays ELSE 7 * WeeklyWeeks

\* append_segment adds to the bucket of the current sample.
Count ==
  /\ open = -1
  /\ last' = [k \in Kinds |-> IF BucketKey(k, wall, offset) = Watched[k]
                              THEN Max({last[k], wall}) ELSE last[k]]
  /\ UNCHANGED <<wall, offset, gaps, open, openKeys, epoch, lost>>

BeginGapAt ==
  /\ open = -1 /\ Cardinality(gaps) < MaxGaps
  /\ open' = wall /\ openKeys' = Keys(wall, offset)
  /\ UNCHANGED <<wall, offset, last, gaps, epoch, lost>>

\* Faulty variant of EndGap: the gap ends with the next day.
EndGapAhead ==
  /\ open # -1
  /\ gaps' = gaps \cup {[end |-> wall + 1, from |-> openKeys, to |-> Keys(wall, offset)]}
  /\ open' = -1 /\ openKeys' = epoch
  /\ UNCHANGED <<wall, offset, last, epoch, lost>>

EndGap ==
  /\ open # -1
  /\ gaps' = gaps \cup {[end |-> Max({open, wall}), from |-> openKeys, to |-> Keys(wall, offset)]}
  /\ open' = -1 /\ openKeys' = epoch
  /\ UNCHANGED <<wall, offset, last, epoch, lost>>

\* One transaction over the five tables.
ApplyRetention ==
  LET old == {g \in gaps : g.end < wall - CoverageDays}
  IN  /\ gaps' = gaps \ old
      /\ lost' = lost \cup old
      /\ last' = [k \in Kinds |-> IF last[k] < wall - KeptDays(k) THEN -1 ELSE last[k]]
      /\ UNCHANGED <<wall, offset, open, openKeys, epoch>>

Passes(n) ==
  /\ wall + n <= Horizon
  /\ wall' = wall + n
  /\ UNCHANGED <<offset, last, gaps, open, openKeys, epoch, lost>>

Travels(o) ==
  /\ o # offset
  /\ offset' = o
  /\ UNCHANGED <<wall, last, gaps, open, openKeys, epoch, lost>>

-----------------------------------------------------------------------------
Overlaps(g, kind) == g.from[kind] <= Watched[kind] /\ g.to[kind] >= Watched[kind]

\* query_coverage_state_filtered: the gaps that touch a bucket.
EventGapCount(kind) ==
  Cardinality({g \in gaps : Overlaps(g, kind)})
    + (IF open # -1 /\ openKeys[kind] <= Watched[kind] THEN 1 ELSE 0)

\* Faulty variant of BucketCoverage: the bucket tracking began in is whole.
BucketCoverageFromEpoch(kind) ==
  IF Watched[kind] < epoch[kind] THEN "NotStarted" ELSE "Complete"

\* bucket_coverage
BucketCoverage(kind) ==
  IF Watched[kind] < epoch[kind] THEN "NotStarted"
  ELSE IF Watched[kind] = epoch[kind] THEN "Partial" ELSE "Complete"

\* summary_status, up to the runtime's own state.
SummaryStatus(kind) ==
  IF EventGapCount(kind) > 0 THEN "historical_gaps"
  ELSE IF BucketCoverage(kind) # "Complete" THEN BucketCoverage(kind) ELSE "runtime"

RetentionInit ==
  /\ wall = Started /\ offset \in Offsets
  /\ last = [k \in Kinds |-> -1]
  /\ gaps = {} /\ open = -1 /\ openKeys = Keys(wall, offset)
  /\ epoch = Keys(wall, offset) /\ lost = {}

RetentionNext ==
  \/ Count \/ BeginGapAt \/ EndGap \/ ApplyRetention
  \/ \E n \in {1, 4} : Passes(n)
  \/ \E o \in Offsets : Travels(o)

RetentionSpec == RetentionInit /\ [][RetentionNext]_retentionVars

-----------------------------------------------------------------------------
\* The variables keep their shapes.
RetentionTypeOK ==
  /\ wall \in 0 .. Horizon /\ offset \in Offsets
  /\ last \in [Kinds -> -1 .. Horizon]
  /\ open \in -1 .. Horizon
  /\ \A g \in gaps \cup lost : g.end \in 0 .. Horizon

\* A retained aggregate never outlives the coverage fact that makes it partial:
\* when retention dropped a gap that touched the bucket, its aggregate is gone
\* too, whatever offsets the two were recorded under.  A summary over that
\* bucket would otherwise claim to be whole.
AggregateKeepsItsGap ==
  \A k \in Kinds : \A g \in lost : last[k] # -1 => ~Overlaps(g, k)

\* A summary that blames nothing but the runtime's state covers a bucket that
\* tracking covered from its start and that no gap ever touched.
SummaryIsWhole ==
  \A k \in Kinds : SummaryStatus(k) = "runtime" /\ last[k] # -1 =>
    /\ Watched[k] > epoch[k]
    /\ \A g \in gaps \cup lost : ~Overlaps(g, k)

\* After any retention a summary still says what it does not know
\* (apply_retention, summary_status).
SummariesAreHonest == RetentionTypeOK /\ AggregateKeepsItsGap /\ SummaryIsWhole
=============================================================================
