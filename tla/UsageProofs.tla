---------------------------- MODULE UsageProofs ----------------------------
(***************************************************************************)
(* What is proved about usage accounting for any number of processes,      *)
(* deaths and gaps, and for every retention policy, clock and application: *)
(* opening the database is safe (UsageOpen), retention leaves no summary   *)
(* that claims too much (UsageRetention), the ledger adds up and what is   *)
(* counted was seen (UsageTracking).                                       *)
(***************************************************************************)
EXTENDS UsageOpen, UsageRetention, UsageTracking, FiniteSums, FiniteSetTheorems, SequenceTheorems, TLAPS

-----------------------------------------------------------------------------
(* Opening the database *)

\* Whoever recovers or writes holds the lease of its own life; a process about
\* to migrate either saw version 1 and has the backup, or saw an empty file,
\* which no migration turns into version 1.
UsageOpenInv ==
  /\ OpenTypeOK
  /\ life \in [Openers -> Nat]
  /\ moved \in Nat
  /\ legacy => moved = 0
  /\ \A p \in Openers :
       /\ op[p] \in {"recover", "running"} => lease = Identity(p)
       /\ op[p] = "running" => row \in {NoOne, Identity(p)}
       /\ op[p] \in {"backup", "publish"} => seen[p] = 1
       /\ op[p] = "migrate" => \/ seen[p] = 1 /\ backup = 1
                               \/ seen[p] = 0 /\ ver # 1

\* What one step may do to the file.
UsageFileStep ==
  /\ moved' # moved => moved = 0 /\ moved' = 1 /\ ver = 1
  /\ ver = 1 /\ ver' = 2 => backup = 1
  /\ backup # 0 => backup' = backup

LEMMA UsageOpenStarts == OpenInit => UsageOpenInv
<1> SUFFICES ASSUME OpenInit PROVE UsageOpenInv  OBVIOUS
<1>1. legacy \in BOOLEAN  BY Zenon DEF OpenInit
<1>2. ver \in 0 .. 2 /\ moved = 0 /\ backup = 0 /\ deaths \in 0 .. MaxDeaths
  BY OpenAssumption DEF OpenInit
<1>3. /\ op = [p \in Openers |-> "closed"] /\ seen \in [Openers -> 0 .. 2]
      /\ temp \in [Openers -> 0 .. 2] /\ life \in [Openers -> Nat]
  BY <1>2 DEF OpenInit
<1> QED  BY <1>1, <1>2, <1>3 DEF UsageOpenInv, OpenTypeOK

LEMMA UsageOpenSteps ==
  ASSUME UsageOpenInv, [OpenNext]_openVars
  PROVE  UsageOpenInv' /\ UsageFileStep
<1>1. CASE UNCHANGED openVars
  BY <1>1 DEF UsageOpenInv, OpenTypeOK, openVars, UsageFileStep, Identity
<1>2. CASE OpenNext
  <2> PICK p \in Openers :
        \/ OpenFile(p) \/ Vacuum(p) \/ PublishBackup(p) \/ BackupFails(p) \/ Migrate(p)
        \/ AcquireWriterLease(p) \/ Recover(p) \/ Writes(p) \/ CloseStore(p) \/ Dies(p)
        \/ Respawn(p)
    BY <1>2 DEF OpenNext
  <2> USE DEF UsageOpenInv, OpenTypeOK, UsageFileStep, At, Goes, fileVars
  <2>1. CASE OpenFile(p)
    BY <2>1 DEF OpenFile, Identity
  <2>2. CASE Vacuum(p)
    BY <2>2 DEF Vacuum, Identity
  <2>3. CASE PublishBackup(p)
    BY <2>3 DEF PublishBackup, Identity
  <2>4. CASE BackupFails(p)
    BY <2>4 DEF BackupFails, Identity
  <2>5. CASE Migrate(p)
    <3>1. CASE seen[p] = 1 /\ ver # 1
      <4>1. op' = [op EXCEPT ![p] = "failed"] /\ UNCHANGED <<ver, legacy, moved>>
        BY <2>5, <3>1, Zenon DEF Migrate
      <4> QED  BY <4>1, <2>5 DEF Migrate, Identity
    <3>2. CASE ~(seen[p] = 1 /\ ver # 1)
      <4>1. /\ op' = [op EXCEPT ![p] = "lease"] /\ ver' = 2 /\ legacy' = FALSE
            /\ moved' = moved + IF seen[p] = 1 /\ legacy THEN 1 ELSE 0
        BY <2>5, <3>2, Zenon DEF Migrate
      <4>2. OpenTypeOK' /\ (life \in [Openers -> Nat])' /\ ~legacy'
        <5>1. ~legacy' /\ legacy' \in BOOLEAN  BY <4>1, Zenon
        <5>2. /\ op' \in [Openers -> {"closed", "backup", "publish", "migrate", "lease",
                                     "recover", "running", "failed", "dead"}]
              /\ ver' \in 0 .. 2 /\ backup' = backup /\ temp' = temp /\ seen' = seen
              /\ life' = life /\ deaths' = deaths
          BY <2>5, <4>1 DEF Migrate
        <5> QED  BY <5>1, <5>2
      <4>3. \A q \in Openers :
              /\ op'[q] \in {"recover", "running"} => lease' = Identity(q)'
              /\ op'[q] = "running" => row' \in {NoOne, Identity(q)'}
              /\ op'[q] \in {"backup", "publish"} => seen'[q] = 1
              /\ op'[q] = "migrate" =>
                   (seen'[q] = 1 /\ backup' = 1) \/ (seen'[q] = 0 /\ ver' # 1)
        BY <2>5, <4>1 DEF Migrate, Identity
      <4>4. CASE seen[p] = 1 /\ legacy
        <5>1. moved' = 1 /\ moved = 0 /\ ver = 1 /\ backup = 1
          BY <3>2, <4>1, <4>4, <2>5 DEF Migrate
        <5>2. moved' \in Nat  BY <5>1
        <5>3. UsageFileStep  BY <5>1, <2>5 DEF Migrate
        <5> QED  BY <5>2, <5>3, <4>2, <4>3
      <4>5. CASE ~(seen[p] = 1 /\ legacy)
        <5>1. moved' = moved + 0  BY <4>1, <4>5, Zenon
        <5>2. moved' = moved /\ (ver = 1 => backup = 1)  BY <5>1, <3>2, <2>5 DEF Migrate
        <5>3. moved' \in Nat  BY <5>2
        <5>4. UsageFileStep  BY <5>2, <2>5 DEF Migrate
        <5> QED  BY <5>3, <5>4, <4>2, <4>3
      <4> QED  BY <4>4, <4>5
    <3> QED  BY <3>1, <3>2
  <2>6. CASE AcquireWriterLease(p)
    BY <2>6 DEF AcquireWriterLease, LiveOwner, Identity
  <2>7. CASE Recover(p)
    BY <2>7 DEF Recover, Identity
  <2>8. CASE Writes(p)
    BY <2>8 DEF Writes, Identity
  <2>9. CASE CloseStore(p)
    BY <2>9 DEF CloseStore, Identity
  <2>10. CASE Dies(p)
    BY <2>10, OpenAssumption DEF Dies, Identity
  <2>11. CASE Respawn(p)
    BY <2>11 DEF Respawn, Identity
  <2> QED  BY <2>1, <2>2, <2>3, <2>4, <2>5, <2>6, <2>7, <2>8, <2>9, <2>10, <2>11
<1> QED  BY <1>1, <1>2

\* Two processes never hold the lease of their lives at once.
LEMMA OneLeaseOneWriter ==
  ASSUME UsageOpenInv  PROVE OneUsageWriter
<1> DEFINE S == {p \in Openers : op[p] \in {"recover", "running"}}
<1>1. Cardinality(S) <= 1
  <2>1. CASE S = {}
    BY <2>1, FS_EmptySet
  <2>2. CASE S # {}
    <3> PICK p \in S : TRUE  BY <2>2
    <3>1. S = {p}  BY DEF UsageOpenInv, Identity
    <3>2. Cardinality({p}) = 1  BY FS_Singleton
    <3> QED  BY <3>1, <3>2
  <2> QED  BY <2>1, <2>2
<1> QED  BY <1>1 DEF UsageOpenInv, OneUsageWriter, At

\* Opening is safe for processes that race and die, however many they are: one
\* writer at a time, one move of the old gap, and a backup before any upgrade
\* (UsageStore::open, ensure_migration_backup, acquire_writer_lease).
THEOREM OpeningIsSafe == UsageOpenSpec => OpensSafely
<1>1. OpenInit => UsageOpenInv  BY UsageOpenStarts
<1>2. UsageOpenInv /\ [OpenNext]_openVars => UsageOpenInv'  BY UsageOpenSteps
<1>3. UsageOpenInv => OpenTypeOK /\ OneUsageWriter
  BY OneLeaseOneWriter DEF UsageOpenInv
<1>4. UsageOpenInv /\ [OpenNext]_openVars
        => [moved' # moved => moved = 0 /\ moved' = 1 /\ ver = 1]_<<moved, ver>>
  BY UsageOpenSteps DEF UsageFileStep
<1>5. UsageOpenInv /\ [OpenNext]_openVars
        => [/\ ver = 1 /\ ver' = 2 => backup = 1
            /\ backup # 0 => backup' = backup]_<<ver, backup>>
  BY UsageOpenSteps DEF UsageFileStep
<1> QED  BY <1>1, <1>2, <1>3, <1>4, <1>5, PTL
         DEF UsageOpenSpec, OpensSafely, LegacyGapMovedOnce, BackupPrecedesUpgrade

-----------------------------------------------------------------------------
(* Retention *)

LEMMA MaxOfTwo ==
  ASSUME NEW a \in Int, NEW b \in Int
  PROVE  Max({a, b}) \in {a, b} /\ Max({a, b}) >= a /\ Max({a, b}) >= b
<1>1. \E x \in {a, b} : \A y \in {a, b} : x >= y
  <2>1. CASE a >= b  BY <2>1
  <2>2. CASE b >= a  BY <2>2
  <2> QED  BY <2>1, <2>2
<1> QED  BY <1>1 DEF Max

LEMMA MaxIsSecond ==
  ASSUME NEW a \in Int, NEW b \in Int, a <= b
  PROVE  Max({a, b}) = b
<1> PICK m : m = Max({a, b})  OBVIOUS
<1>1. m \in {a, b} /\ m >= a /\ m >= b  BY MaxOfTwo
<1> QED  BY <1>1

\* A gap is kept three days longer than a daily aggregate and nine days longer
\* than a weekly one.
LEMMA CoverageIsLonger ==
  /\ CoverageDays \in Nat
  /\ CoverageDays >= KeptDays("daily") + 3 /\ CoverageDays >= KeptDays("weekly") + 9
  /\ CoverageDays >= 9
<1>1. DailyDays + 3 \in Int /\ 7 * WeeklyWeeks + 9 \in Int  BY RetentionAssumption
<1>2. /\ CoverageDays \in {DailyDays + 3, 7 * WeeklyWeeks + 9}
      /\ CoverageDays >= DailyDays + 3 /\ CoverageDays >= 7 * WeeklyWeeks + 9
  BY <1>1, MaxOfTwo DEF CoverageDays
<1> QED  BY <1>2, RetentionAssumption DEF KeptDays

\* A day lies in its bucket, up to an offset of a day.
LEMMA BucketBounds ==
  ASSUME NEW k \in Kinds, NEW w \in Int, NEW o \in Offsets
  PROVE  /\ BucketKey(k, w, o) \in Int
         /\ Span(k) * BucketKey(k, w, o) <= w + 1
         /\ w <= Span(k) * BucketKey(k, w, o) + Span(k)
<1>1. CASE k = "daily"  BY <1>1 DEF BucketKey, Span, Offsets
<1>2. CASE k = "weekly"
  <2> PICK x \in Int : x = w + o  BY DEF Offsets
  <2>1. 7 * (x \div 7) <= x /\ x < 7 * (x \div 7) + 7 /\ x \div 7 \in Int  OBVIOUS
  <2>2. BucketKey(k, w, o) = x \div 7 /\ Span(k) = 7  BY <1>2 DEF BucketKey, Span
  <2>3. x <= w + 1 /\ w <= x + 1  BY DEF Offsets
  <2> QED  BY <2>1, <2>2, <2>3
<1> QED  BY <1>1, <1>2 DEF Kinds

Gap == [end: 0 .. Horizon, from: [Kinds -> Int], to: [Kinds -> Int]]

\* A gap's last bucket had begun by its end, an aggregate was last added to
\* before its bucket was over, and what retention deleted is older than every
\* gap it keeps.
RetentionInv ==
  /\ RetentionTypeOK
  /\ IsFiniteSet(gaps) /\ gaps \subseteq Gap /\ lost \subseteq Gap
  /\ openKeys \in [Kinds -> Int] /\ epoch \in [Kinds -> Int]
  /\ open <= wall
  /\ \A g \in gaps \cup lost : g.end <= wall /\ \A k \in Kinds : Span(k) * g.to[k] <= g.end + 1
  /\ \A k \in Kinds : last[k] <= wall /\ (last[k] # -1 => last[k] <= Span(k) * Watched[k] + Span(k))
  /\ \A g \in lost : g.end < wall - CoverageDays
  /\ AggregateKeepsItsGap

LEMMA RetentionStarts == RetentionInit => RetentionInv
<1> SUFFICES ASSUME RetentionInit PROVE RetentionInv  OBVIOUS
<1>1. wall \in 0 .. Horizon /\ wall = 6 /\ offset \in Offsets /\ open = -1
  BY RetentionAssumption DEF RetentionInit, Started
<1>2. last = [k \in Kinds |-> -1] /\ gaps = {} /\ lost = {}  BY DEF RetentionInit
<1>3. \A k \in Kinds : BucketKey(k, wall, offset) \in Int  BY <1>1, BucketBounds
<1>4. openKeys \in [Kinds -> Int] /\ epoch \in [Kinds -> Int]
  BY <1>3 DEF RetentionInit, Keys
<1>5. last \in [Kinds -> -1 .. Horizon] /\ open \in -1 .. Horizon
  BY <1>1, <1>2, RetentionAssumption
<1> QED  BY <1>1, <1>2, <1>4, <1>5, FS_EmptySet DEF RetentionInv, RetentionTypeOK,
            AggregateKeepsItsGap

\* A deleted gap that touched the bucket ended long before the present, so
\* nothing is added to the bucket any more.
LEMMA OldGapIsBehind ==
  ASSUME NEW k \in Kinds, NEW w \in Int, NEW o \in Offsets, NEW g \in Gap, Overlaps(g, k),
         Span(k) * g.to[k] <= g.end + 1, g.end < w - CoverageDays
  PROVE  BucketKey(k, w, o) # Watched[k]
<1>1. Watched[k] \in Int /\ g.to[k] \in Int /\ g.end \in Int /\ CoverageDays \in Int
  BY RetentionAssumption, CoverageIsLonger DEF Gap, Kinds
<1>2. w <= Span(k) * BucketKey(k, w, o) + Span(k)  BY BucketBounds
<1>3. Watched[k] <= g.to[k]  BY DEF Overlaps
<1>4. CASE k = "daily"  BY <1>1, <1>2, <1>3, <1>4, CoverageIsLonger DEF Span
<1>5. CASE k = "weekly"  BY <1>1, <1>2, <1>3, <1>5, CoverageIsLonger DEF Span
<1> QED  BY <1>4, <1>5 DEF Kinds

\* The aggregate of a bucket that a deleted gap touched is deleted with it.
LEMMA OldGapTakesAggregate ==
  ASSUME NEW k \in Kinds, NEW w \in Int, NEW g \in Gap, Overlaps(g, k), NEW l \in Int,
         Span(k) * g.to[k] <= g.end + 1, g.end < w - CoverageDays,
         l <= Span(k) * Watched[k] + Span(k)
  PROVE  l < w - KeptDays(k)
<1>1. Watched[k] \in Int /\ g.to[k] \in Int /\ g.end \in Int /\ CoverageDays \in Int
  BY RetentionAssumption, CoverageIsLonger DEF Gap, Kinds
<1>2. Watched[k] <= g.to[k]  BY DEF Overlaps
<1>3. KeptDays("daily") \in Int /\ KeptDays("weekly") \in Int
  BY RetentionAssumption DEF KeptDays
<1>4. CASE k = "daily"  BY <1>1, <1>2, <1>3, <1>4, CoverageIsLonger DEF Span
<1>5. CASE k = "weekly"  BY <1>1, <1>2, <1>3, <1>5, CoverageIsLonger DEF Span
<1> QED  BY <1>4, <1>5 DEF Kinds

LEMMA RetentionSteps ==
  ASSUME RetentionInv, [RetentionNext]_retentionVars
  PROVE  RetentionInv'
<1>0. /\ wall \in 0 .. Horizon /\ wall \in Int /\ offset \in Offsets /\ Horizon \in Nat
      /\ last \in [Kinds -> -1 .. Horizon] /\ open \in -1 .. Horizon
      /\ gaps \subseteq Gap /\ lost \subseteq Gap /\ CoverageDays \in Nat
  BY RetentionAssumption, CoverageIsLonger DEF RetentionInv, RetentionTypeOK
<1>1. CASE UNCHANGED retentionVars
  BY <1>1 DEF RetentionInv, RetentionTypeOK, retentionVars, AggregateKeepsItsGap
<1>2. CASE Count
  <2>1. UNCHANGED <<wall, offset, gaps, open, openKeys, epoch, lost>>  BY <1>2 DEF Count
  <2>2. \A k \in Kinds : last'[k] = IF BucketKey(k, wall, offset) = Watched[k]
                                    THEN Max({last[k], wall}) ELSE last[k]
    BY <1>2 DEF Count
  <2>3. ASSUME NEW k \in Kinds
        PROVE  /\ last'[k] \in -1 .. Horizon /\ last'[k] <= wall
               /\ last'[k] # -1 => last'[k] <= Span(k) * Watched[k] + Span(k)
               /\ \A g \in lost : last'[k] # -1 => ~Overlaps(g, k)
    <3>1. CASE BucketKey(k, wall, offset) = Watched[k]
      <4>1. last'[k] = Max({last[k], wall})  BY <2>2, <3>1
      <4>2. last[k] \in Int /\ last[k] <= wall  BY <1>0 DEF RetentionInv
      <4>3. last'[k] = wall  BY <4>1, <4>2, <1>0, MaxIsSecond
      <4>4. wall <= Span(k) * Watched[k] + Span(k)  BY <3>1, <1>0, BucketBounds
      <4>5. \A g \in lost : ~Overlaps(g, k)
        BY <3>1, <1>0, OldGapIsBehind DEF RetentionInv
      <4> QED  BY <4>3, <4>4, <4>5, <1>0
    <3>2. CASE BucketKey(k, wall, offset) # Watched[k]
      BY <2>2, <3>2, <1>0 DEF RetentionInv, AggregateKeepsItsGap
    <3> QED  BY <3>1, <3>2
  <2>4. last' \in [Kinds -> -1 .. Horizon]  BY <2>3, <1>2 DEF Count
  <2> QED  BY <2>1, <2>3, <2>4 DEF RetentionInv, RetentionTypeOK, AggregateKeepsItsGap, Overlaps
<1>3. CASE BeginGapAt
  <2>1. \A k \in Kinds : BucketKey(k, wall, offset) \in Int  BY <1>0, BucketBounds
  <2>2. openKeys' \in [Kinds -> Int]  BY <2>1, <1>3 DEF BeginGapAt, Keys
  <2>3. UNCHANGED <<wall, offset, last, gaps, epoch, lost>> /\ open' = wall
    BY <1>3 DEF BeginGapAt
  <2>4. open' \in -1 .. Horizon /\ open' <= wall  BY <2>3, <1>0
  <2> QED  BY <2>2, <2>3, <2>4 DEF RetentionInv, RetentionTypeOK, AggregateKeepsItsGap, Overlaps
<1>4. CASE EndGap
  <2> PICK g : g = [end |-> Max({open, wall}), from |-> openKeys, to |-> Keys(wall, offset)]
    OBVIOUS
  <2>1. /\ gaps' = gaps \cup {g} /\ open' = -1 /\ openKeys' = epoch
        /\ UNCHANGED <<wall, offset, last, epoch, lost>>
    BY <1>4 DEF EndGap
  <2>2. Max({open, wall}) = wall  BY <1>0, MaxIsSecond DEF RetentionInv
  <2>3. g.end = wall /\ g.to = Keys(wall, offset) /\ g.from = openKeys  BY <2>2
  <2>4. \A k \in Kinds : /\ BucketKey(k, wall, offset) \in Int
                         /\ Span(k) * BucketKey(k, wall, offset) <= wall + 1
    BY <1>0, BucketBounds
  <2>5. g.to \in [Kinds -> Int] /\ \A k \in Kinds : Span(k) * g.to[k] <= g.end + 1
    BY <2>3, <2>4 DEF Keys
  <2>6. g \in Gap  BY <2>2, <2>3, <2>5, <1>0 DEF Gap, RetentionInv
  <2>7. IsFiniteSet(gaps')  BY <2>1, FS_AddElement DEF RetentionInv
  <2>8. gaps' \subseteq Gap  BY <2>1, <2>6, <1>0
  <2>9. \A h \in gaps' \cup lost' :
          /\ h.end \in 0 .. Horizon /\ h.end <= wall'
          /\ \A k \in Kinds : Span(k) * h.to[k] <= h.end + 1
    <3> SUFFICES ASSUME NEW h \in gaps' \cup lost'
                 PROVE  /\ h.end \in 0 .. Horizon /\ h.end <= wall'
                        /\ \A k \in Kinds : Span(k) * h.to[k] <= h.end + 1
      OBVIOUS
    <3>1. CASE h = g
      <4>1. g.end \in 0 .. Horizon /\ g.end <= wall'  BY <2>1, <2>3, <1>0
      <4> QED  BY <3>1, <4>1, <2>5, Zenon
    <3>2. CASE h \in gaps \cup lost  BY <3>2, <2>1 DEF RetentionInv, RetentionTypeOK
    <3> QED  BY <3>1, <3>2, <2>1
  <2>10. open' \in -1 .. Horizon /\ open' <= wall'  BY <2>1, <1>0
  <2>11. AggregateKeepsItsGap'  BY <2>1 DEF RetentionInv, AggregateKeepsItsGap, Overlaps
  <2> QED  BY <2>1, <2>7, <2>8, <2>9, <2>10, <2>11 DEF RetentionInv, RetentionTypeOK
<1>5. CASE ApplyRetention
  <2> DEFINE old == {g \in gaps : g.end < wall - CoverageDays}
  <2>1. /\ gaps' = gaps \ old /\ lost' = lost \cup old
        /\ last' = [k \in Kinds |-> IF last[k] < wall - KeptDays(k) THEN -1 ELSE last[k]]
        /\ UNCHANGED <<wall, offset, open, openKeys, epoch>>
    BY <1>5 DEF ApplyRetention
  <2>2. \A k \in Kinds : last'[k] \in {-1, last[k]}  BY <2>1
  <2>3. last' \in [Kinds -> -1 .. Horizon]  BY <2>1, <2>2, <1>0
  <2>4. IsFiniteSet(gaps')  BY <2>1, FS_Subset DEF RetentionInv
  <2>5. gaps' \subseteq Gap /\ lost' \subseteq Gap /\ gaps' \cup lost' \subseteq gaps \cup lost
    BY <2>1, <1>0
  <2>6. \A g \in lost' : g.end < wall' - CoverageDays  BY <2>1 DEF RetentionInv
  <2>7. AggregateKeepsItsGap'
    <3> SUFFICES ASSUME NEW k \in Kinds, NEW g \in lost', Overlaps(g, k)
                 PROVE  last'[k] = -1
      BY DEF AggregateKeepsItsGap, Overlaps
    <3>1. CASE last[k] = -1  BY <3>1, <2>2
    <3>2. CASE last[k] # -1
      <4>1. last[k] <= Span(k) * Watched[k] + Span(k) /\ last[k] \in Int
        BY <3>2, <1>0 DEF RetentionInv
      <4>2. g \in Gap /\ Span(k) * g.to[k] <= g.end + 1 /\ g.end < wall - CoverageDays
        BY <2>5, <2>6, <2>1 DEF RetentionInv
      <4>3. last[k] < wall - KeptDays(k)  BY <4>1, <4>2, <1>0, OldGapTakesAggregate
      <4> QED  BY <4>3, <2>1
    <3> QED  BY <3>1, <3>2
  <2>8. \A k \in Kinds : /\ last'[k] <= wall'
                         /\ last'[k] # -1 => last'[k] <= Span(k) * Watched[k] + Span(k)
    BY <2>1, <2>2, <1>0 DEF RetentionInv
  <2> QED  BY <2>1, <2>3, <2>4, <2>5, <2>6, <2>7, <2>8 DEF RetentionInv, RetentionTypeOK
<1>6. ASSUME NEW n \in {1, 4}, Passes(n) PROVE RetentionInv'
  <2>1. wall' \in 0 .. Horizon /\ wall' > wall
        /\ UNCHANGED <<offset, last, gaps, open, openKeys, epoch, lost>>
    BY <1>6, <1>0 DEF Passes
  <2>2. \A g \in gaps \cup lost : g.end \in Int  BY <1>0 DEF Gap
  <2>3. open <= wall' /\ \A k \in Kinds : last[k] <= wall'
    BY <2>1, <1>0 DEF RetentionInv
  <2>4. \A g \in gaps \cup lost : g.end <= wall'
    BY <2>1, <2>2, <1>0 DEF RetentionInv
  <2>5. \A g \in lost : g.end < wall' - CoverageDays
    BY <2>1, <2>2, <1>0 DEF RetentionInv
  <2> QED  BY <2>1, <2>3, <2>4, <2>5 DEF RetentionInv, RetentionTypeOK, AggregateKeepsItsGap, Overlaps
<1>7. ASSUME NEW o \in Offsets, Travels(o) PROVE RetentionInv'
  BY <1>7 DEF Travels, RetentionInv, RetentionTypeOK, AggregateKeepsItsGap, Overlaps
<1> QED  BY <1>1, <1>2, <1>3, <1>4, <1>5, <1>6, <1>7 DEF RetentionNext

LEMMA NothingBlamed ==
  ASSUME RetentionInv  PROVE SummaryIsWhole
<1> SUFFICES ASSUME NEW k \in Kinds, SummaryStatus(k) = "runtime", last[k] # -1
             PROVE  Watched[k] > epoch[k] /\ \A g \in gaps \cup lost : ~Overlaps(g, k)
  BY DEF SummaryIsWhole
<1> DEFINE touching == {g \in gaps : Overlaps(g, k)}
<1>1. ~(EventGapCount(k) > 0) /\ BucketCoverage(k) = "Complete"
  BY DEF SummaryStatus, BucketCoverage
<1>2. IsFiniteSet(touching) /\ Cardinality(touching) \in Nat
  BY FS_Subset, FS_CardinalityType DEF RetentionInv
<1>3. Cardinality(touching) = 0
  <2> PICK n \in Nat : n = Cardinality(touching)  BY <1>2
  <2>1. EventGapCount(k) = n + (IF open # -1 /\ openKeys[k] <= Watched[k] THEN 1 ELSE 0)
    BY DEF EventGapCount
  <2> QED  BY <2>1, <1>1
<1>4. touching = {}  BY <1>2, <1>3, FS_EmptySet
<1>5. Watched[k] \in Int /\ epoch[k] \in Int  BY RetentionAssumption DEF RetentionInv, Kinds
<1>6. Watched[k] > epoch[k]  BY <1>1, <1>5 DEF BucketCoverage
<1>7. \A g \in lost : ~Overlaps(g, k)  BY DEF RetentionInv, AggregateKeepsItsGap
<1> QED  BY <1>4, <1>6, <1>7

\* For every retention policy and every change of the timezone: after any
\* retention a summary still says what it does not know, because a gap is
\* kept longer than each aggregate it touches (apply_retention,
\* DAILY_COVERAGE_BOUNDARY_DAYS, WEEKLY_COVERAGE_BOUNDARY_DAYS, summary_status).
THEOREM RetentionIsHonest == RetentionSpec => []SummariesAreHonest
<1>1. RetentionInit => RetentionInv  BY RetentionStarts
<1>2. RetentionInv /\ [RetentionNext]_retentionVars => RetentionInv'  BY RetentionSteps
<1>3. RetentionInv => SummariesAreHonest
  BY NothingBlamed DEF RetentionInv, SummariesAreHonest
<1> QED  BY <1>1, <1>2, <1>3, PTL DEF RetentionSpec

-----------------------------------------------------------------------------
(* Time apportioned to minutes *)

\* Division by a fixed positive number is monotone.
LEMMA DivMonotone ==
  ASSUME NEW x \in Nat, NEW y \in Nat, x <= y, NEW L \in Nat, L # 0
  PROVE  x \div L <= y \div L
<1>1. PICK p \in Nat : p = x \div L /\ L * p <= x  BY DivBounds
<1>2. PICK q \in Nat : q = y \div L /\ y < L * q + L  BY DivBounds
<1>3. SUFFICES ASSUME p > q PROVE FALSE  BY <1>1, <1>2
<1>4. PICK e \in Nat : e = p - q - 1  BY <1>3
<1>5. p = q + 1 + e  BY <1>4
<1>6. L * p = L * q + L + L * e  BY <1>5
<1>7. L * e >= 0 /\ L * p \in Int /\ L * q \in Int /\ L * e \in Int  OBVIOUS
<1> QED  BY <1>1, <1>2, <1>6, <1>7

LEMMA DivOfProduct ==
  ASSUME NEW n \in Nat, NEW x \in Nat, NEW L \in Nat, L # 0, x <= L
  PROVE  (n * x) \div L \in Nat /\ (n * x) \div L <= n
<1>1. PICK y \in Nat : y = n * x  OBVIOUS
<1>2. PICK p \in Nat : p = y \div L /\ L * p <= y  BY DivBounds
<1>3. SUFFICES ASSUME p > n PROVE FALSE  BY <1>1, <1>2
<1>4. PICK e \in Nat : p = n + 1 + e  
  <2>1. p - n - 1 \in Nat /\ p = n + 1 + (p - n - 1)  BY <1>3
  <2> QED  BY <2>1
<1>5. PICK g \in Nat : L = x + g
  <2>1. L - x \in Nat /\ L = x + (L - x)  OBVIOUS
  <2> QED  BY <2>1
<1>6. L * p = L * n + L + L * e  BY <1>4
<1>7. L * n = n * x + n * g  BY <1>5
<1>8. L * e >= 0 /\ n * g >= 0 /\ L * p \in Int /\ L * n \in Int /\ L * e \in Int /\ n * g \in Int  OBVIOUS
<1> QED  BY <1>1, <1>2, <1>6, <1>7, <1>8

\* The differences of a sequence of numbers add up to the last of them.
LEMMA Telescope ==
  ASSUME NEW lo \in Int, NEW hi \in Int, lo <= hi, NEW c \in [lo..hi -> Nat], NEW g,
         g = [m \in lo..hi |-> c[m] - IF m - 1 \in lo..hi THEN c[m - 1] ELSE 0],
         \A m \in lo..hi : g[m] \in Nat
  PROVE  SumFunctionOnSet(g, lo..hi) = c[hi]
<1>0. PICK S : S = lo..hi  OBVIOUS
<1> DEFINE A == {T \in SUBSET S : \A n \in lo..hi : T = lo..n => SumFunctionOnSet(g, T) = c[n]}
<1>1. IsFiniteSet(S)  BY <1>0, FS_Interval
<1>2. ASSUME NEW T \in SUBSET S, \A U \in SUBSET T : U # T => U \in A
      PROVE  T \in A
  <2>1. SUFFICES ASSUME NEW n \in lo..hi, T = lo..n
                 PROVE  SumFunctionOnSet(g, T) = c[n]
    OBVIOUS
  <2>2. n \in T /\ IsFiniteSet(T) /\ \A x \in T : g[x] \in Nat  BY <1>0, <1>1, <2>1, FS_Subset
  <2>3. PICK U : U = T \ {n}  OBVIOUS
  <2>4. SumFunctionOnSet(g, T) = g[n] + SumFunctionOnSet(g, U)  BY <2>2, <2>3, SumWithout
  <2>5. CASE n = lo
    <3>1. U = {}  BY <2>1, <2>3, <2>5
    <3>0. IsFiniteSet(U) /\ \A x \in U : g[x] \in Nat  BY <3>1, FS_EmptySet
    <3>5. U = {} => SumFunctionOnSet(g, U) = 0  BY <3>0, SumRecursion
    <3>2. SumFunctionOnSet(g, U) = 0  BY <3>1, <3>5
    <3>3. g[n] = c[n] - 0 /\ c[n] \in Nat  BY <2>5
    <3> QED  BY <2>4, <3>2, <3>3
  <2>6. CASE n # lo
    <3>1. n - 1 \in lo..hi  BY <2>6
    <3>2. U = lo..(n - 1)  BY <2>1, <2>3
    <3>3. U \in SUBSET T /\ U # T  BY <2>2, <2>3
    <3>4. SumFunctionOnSet(g, U) = c[n - 1]  BY <1>2, <3>1, <3>2, <3>3
    <3>5. g[n] = c[n] - c[n - 1] /\ c[n] \in Nat /\ c[n - 1] \in Nat  BY <3>1
    <3> QED  BY <2>4, <3>4, <3>5
  <2> QED  BY <2>5, <2>6
<1> HIDE DEF A
<1>3. \A T \in SUBSET S : T \in A  BY <1>1, <1>2, SubsetInduction
<1>4. S \in A /\ hi \in lo..hi  BY <1>3
<1> QED  BY <1>0, <1>4 DEF A

\* split_into_local_minutes conserves time: every slice is a duration of a minute
\* that is kept, and together they are the time between the samples.
LEMMA SplitConserves ==
  ASSUME NEW a \in Samples, NEW b \in Samples, Splittable(a, b),
         a.wall \in 0..Epoch + MaxTime + 2, b.wall \in 0..Epoch + MaxTime + 2, NEW g, g = Split(a, b)
  PROVE  /\ DOMAIN g \subseteq Minutes /\ \A m \in DOMAIN g : g[m] \in Nat
         /\ SumFunction(g) = b.mono - a.mono
<1>0a. MaxTime \in Nat /\ Minute \in Nat /\ Minute # 0  BY UsageAssumption
<1>0. MaxTime \in Nat /\ Minute \in Nat /\ Minute # 0 /\ Epoch = 4  BY <1>0a DEF Epoch
<1>1. /\ a.mono \in Int /\ b.mono \in Int /\ a.mono < b.mono /\ a.zone = b.zone /\ a.zone \in 0..1
      /\ a.wall \in Nat /\ b.wall \in Nat /\ a.wall < b.wall /\ b.wall <= MaxTime + 6
  BY <1>0 DEF Samples, NoTime, Splittable
<1>2. PICK la \in Nat : la = a.wall + a.zone  BY <1>1
<1>3. PICK lb \in Nat : lb = b.wall + b.zone  BY <1>1
<1>4a. la < lb /\ lb <= MaxTime + 7  BY <1>0, <1>1, <1>2, <1>3
<1>4. PICK L \in Nat : L = lb - la /\ L # 0 /\ la < lb /\ lb <= MaxTime + 7
  <2>1. lb - la \in Nat /\ lb - la # 0  BY <1>4a
  <2> QED  BY <1>4a, <2>1
<1>5. PICK n \in Nat : n = b.mono - a.mono  BY <1>1
<1>6. PICK lo \in Nat : lo = la \div Minute /\ la < Minute * lo + Minute /\ Minute * lo <= la  BY <1>0, DivBounds
<1>7. PICK l1 \in Nat : l1 = lb - 1  BY <1>4
<1>8. PICK hi \in Nat : hi = l1 \div Minute /\ l1 < Minute * hi + Minute  BY <1>0, DivBounds
<1>9. lo <= hi
  <2>1. la <= l1  BY <1>4, <1>7
  <2> QED  BY <1>0, <1>6, <1>8, <2>1, DivMonotone
<1>10. PICK top \in Nat : top = 2 * (Epoch + MaxTime)  BY <1>0
<1>11. hi <= top \div Minute
  <2>1. l1 <= top  BY <1>0, <1>4, <1>7, <1>10
  <2> QED  BY <1>0, <1>8, <2>1, DivMonotone
<1> DEFINE C(m) == IF (m + 1) * Minute >= lb THEN n ELSE (n * ((m + 1) * Minute - la)) \div L
           c == [m \in lo..hi |-> C(m)]
<1>12. g = [m \in lo..hi |-> C(m) - IF m - 1 \in lo..hi THEN C(m - 1) ELSE 0]
  BY <1>2, <1>3, <1>4, <1>5, <1>6, <1>7, <1>8 DEF Split, MinuteOf
<1>13. ASSUME NEW m \in lo..hi
       PROVE  (m + 1) * Minute \in Nat /\ (m + 1) * Minute > la
  <2>1. PICK e \in Nat : m = lo + e
    <3>1. m - lo \in Nat /\ m = lo + (m - lo)  OBVIOUS
    <3> QED  BY <3>1
  <2>2. (m + 1) * Minute = Minute * lo + Minute + Minute * e  BY <1>0, <2>1
  <2>3. Minute * e >= 0 /\ Minute * lo \in Int /\ Minute * e \in Int  BY <1>0
  <2> QED  BY <1>0, <1>6, <2>2, <2>3
<1>14. ASSUME NEW m \in lo..hi
       PROVE  C(m) \in Nat /\ C(m) <= n
  <2>1. CASE (m + 1) * Minute >= lb  BY <2>1
  <2>2. CASE ~((m + 1) * Minute >= lb)
    <3>1. PICK x \in Nat : x = (m + 1) * Minute - la  BY <1>13
    <3>2. x <= L  BY <1>4, <1>13, <2>2, <3>1
    <3>3. (n * x) \div L \in Nat /\ (n * x) \div L <= n  BY <1>4, <3>2, DivOfProduct
    <3> QED  BY <2>2, <3>1, <3>3
  <2> QED  BY <2>1, <2>2
<1>15. ASSUME NEW m \in lo..hi, m - 1 \in lo..hi
       PROVE  C(m - 1) <= C(m)
  <2>1. CASE (m + 1) * Minute >= lb
    <3>1. C(m) = n  BY <2>1
    <3> QED  BY <1>14, <1>15, <3>1
  <2>2. CASE ~((m + 1) * Minute >= lb)
    <3>1. PICK x \in Nat : x = (m + 1) * Minute - la  BY <1>13
    <3>2. PICK y \in Nat : y = (m - 1 + 1) * Minute - la  BY <1>13, <1>15
    <3>3. (m + 1) * Minute = (m - 1 + 1) * Minute + Minute  BY <1>0
    <3>4. y <= x /\ ~((m - 1 + 1) * Minute >= lb)  BY <1>0, <1>13, <1>15, <2>2, <3>1, <3>2, <3>3
    <3>5. PICK p \in Nat : p = n * x  OBVIOUS
    <3>6. PICK q \in Nat : q = n * y  OBVIOUS
    <3>7. q <= p
      <4>1. PICK e \in Nat : x = y + e
        <5>1. x - y \in Nat /\ x = y + (x - y)  BY <3>4
        <5> QED  BY <5>1
      <4>2. p = q + n * e /\ n * e >= 0 /\ n * e \in Int  BY <3>5, <3>6, <4>1
      <4> QED  BY <4>2
    <3>8. q \div L <= p \div L  BY <1>4, <3>7, DivMonotone
    <3>9. C(m) = p \div L /\ C(m - 1) = q \div L  BY <2>2, <3>1, <3>2, <3>4, <3>5, <3>6
    <3> QED  BY <3>8, <3>9
  <2> QED  BY <2>1, <2>2
<1>16. C(hi) = n
  <2>1. (hi + 1) * Minute = Minute * hi + Minute  BY <1>0
  <2>2. (hi + 1) * Minute >= lb  BY <1>0, <1>4, <1>7, <1>8, <2>1
  <2> QED  BY <2>2
<1> HIDE DEF C
<1>17. c \in [lo..hi -> Nat] /\ c[hi] = n /\ \A m \in lo..hi : c[m] = C(m)  BY <1>9, <1>14, <1>16
<1>18. g = [m \in lo..hi |-> c[m] - IF m - 1 \in lo..hi THEN c[m - 1] ELSE 0]  BY <1>12, <1>17
<1>19. \A m \in lo..hi : g[m] \in Nat
  <2> TAKE m \in lo..hi
  <2>1. CASE m - 1 \in lo..hi
    <3>1. g[m] = C(m) - C(m - 1) /\ C(m) \in Nat /\ C(m - 1) \in Nat /\ C(m - 1) <= C(m)
      BY <1>12, <1>14, <1>15, <2>1
    <3> QED  BY <3>1
  <2>2. CASE m - 1 \notin lo..hi
    <3>1. g[m] = C(m) - 0 /\ C(m) \in Nat  BY <1>12, <1>14, <2>2
    <3> QED  BY <3>1
  <2> QED  BY <2>1, <2>2
<1> HIDE DEF c
<1>20. SumFunctionOnSet(g, lo..hi) = c[hi]
  <2>1. lo \in Int /\ hi \in Int /\ c \in [lo..hi -> Nat]  BY <1>17
  <2> QED  BY <1>9, <1>18, <1>19, <2>1, Telescope
<1>21. DOMAIN g = lo..hi  BY <1>18
<1>22. lo..hi \subseteq Minutes
  <2>1. Minutes = 0..(top \div Minute)  BY <1>10 DEF Minutes, MinuteOf
  <2>2. top \div Minute \in Nat  BY <1>0, DivBounds
  <2> QED  BY <1>11, <2>1, <2>2
<1> QED  BY <1>5, <1>17, <1>19, <1>20, <1>21, <1>22 DEF SumFunction

\* A function that adds another's values over a part of its domain has the sum of
\* both.
LEMMA SumPlus ==
  ASSUME NEW S, IsFiniteSet(S), NEW D \in SUBSET S, NEW f, NEW g, NEW e,
         \A x \in S : f[x] \in Nat, \A x \in D : g[x] \in Nat,
         \A x \in S : e[x] = f[x] + IF x \in D THEN g[x] ELSE 0
  PROVE  SumFunctionOnSet(e, S) = SumFunctionOnSet(f, S) + SumFunctionOnSet(g, D)
<1> DEFINE A == {T \in SUBSET S : SumFunctionOnSet(e, T) = SumFunctionOnSet(f, T) + SumFunctionOnSet(g, T \cap D)}
<1>0. \A x \in S : e[x] \in Nat
  <2> TAKE x \in S
  <2>1. CASE x \in D
    <3>1. f[x] \in Nat /\ g[x] \in Nat /\ e[x] = f[x] + g[x]  BY <2>1
    <3> QED  BY <3>1
  <2>2. CASE x \notin D
    <3>1. f[x] \in Nat /\ e[x] = f[x] + 0  BY <2>2
    <3> QED  BY <3>1
  <2> QED  BY <2>1, <2>2
<1>1. \A T \in SUBSET S : IsFiniteSet(T) /\ IsFiniteSet(T \cap D)  BY FS_Subset
<1>2. ASSUME NEW T \in SUBSET S, \A U \in SUBSET T : U # T => U \in A
      PROVE  T \in A
  <2>0. SUFFICES SumFunctionOnSet(e, T) = SumFunctionOnSet(f, T) + SumFunctionOnSet(g, T \cap D)  OBVIOUS
  <2>1. IsFiniteSet(T) /\ \A x \in T : e[x] \in Nat /\ f[x] \in Nat  BY <1>0, <1>1
  <2>2. PICK V : V = T \cap D  OBVIOUS
  <2>3. IsFiniteSet(V) /\ \A x \in V : g[x] \in Nat  BY <1>1, <2>2
  <2>4. CASE T = {}
    <3>1. T = {} => SumFunctionOnSet(e, T) = 0 /\ SumFunctionOnSet(f, T) = 0  BY <2>1, SumRecursion
    <3>2. V = {} => SumFunctionOnSet(g, V) = 0  BY <2>3, SumRecursion
    <3>3. V = {}  BY <2>2, <2>4
    <3> QED  BY <2>2, <2>4, <3>1, <3>2, <3>3
  <2>5. CASE T # {}
    <3>1. PICK x : x \in T  BY <2>5
    <3>2. PICK U : U = T \ {x}  OBVIOUS
    <3>3. PICK W : W = U \cap D  OBVIOUS
    <3>4. U \in SUBSET T /\ U # T  BY <3>1, <3>2
    <3>5. U \in A  BY <1>2, <3>4
    <3>6. SumFunctionOnSet(e, U) = SumFunctionOnSet(f, U) + SumFunctionOnSet(g, W)  BY <3>3, <3>5
    <3>7. SumFunctionOnSet(e, T) = e[x] + SumFunctionOnSet(e, U)  BY <2>1, <3>1, <3>2, SumWithout
    <3>8. SumFunctionOnSet(f, T) = f[x] + SumFunctionOnSet(f, U)  BY <2>1, <3>1, <3>2, SumWithout
    <3>9. IsFiniteSet(U) /\ IsFiniteSet(W) /\ (\A y \in U : e[y] \in Nat /\ f[y] \in Nat) /\ \A y \in W : g[y] \in Nat
      BY <1>1, <2>1, <3>2, <3>3
    <3>10. PICK p \in Nat : p = SumFunctionOnSet(f, U)  BY <3>9, SumRecursion
    <3>11. PICK q \in Nat : q = SumFunctionOnSet(g, W)  BY <3>9, SumRecursion
    <3>12. CASE x \in D
      <4>1. x \in V /\ V \ {x} = W  BY <2>2, <3>1, <3>2, <3>3, <3>12
      <4>2. SumFunctionOnSet(g, V) = g[x] + SumFunctionOnSet(g, W)  BY <2>3, <4>1, SumWithout
      <4>3. f[x] \in Nat /\ g[x] \in Nat /\ e[x] = f[x] + g[x]  BY <3>1, <3>12
      <4>4. (f[x] + g[x]) + (p + q) = (f[x] + p) + (g[x] + q)  BY <4>3
      <4>5. SumFunctionOnSet(e, T) = (f[x] + g[x]) + (p + q)  BY <3>6, <3>7, <3>10, <3>11, <4>3
      <4>6. SumFunctionOnSet(f, T) = f[x] + p /\ SumFunctionOnSet(g, V) = g[x] + q
        BY <3>8, <3>10, <3>11, <4>2
      <4> QED  BY <2>2, <4>4, <4>5, <4>6
    <3>13. CASE x \notin D
      <4>1. V = W  BY <2>2, <3>1, <3>2, <3>3, <3>13
      <4>2. f[x] \in Nat /\ e[x] = f[x]  BY <3>1, <3>13
      <4>3. f[x] + (p + q) = (f[x] + p) + q  BY <4>2
      <4>4. SumFunctionOnSet(e, T) = f[x] + (p + q)  BY <3>6, <3>7, <3>10, <3>11, <4>2
      <4>5. SumFunctionOnSet(f, T) = f[x] + p /\ SumFunctionOnSet(g, V) = q
        BY <3>8, <3>10, <3>11, <4>1
      <4> QED  BY <2>2, <4>3, <4>4, <4>5
    <3> QED  BY <3>12, <3>13
  <2> QED  BY <2>4, <2>5
<1> HIDE DEF A
<1>3. \A T \in SUBSET S : T \in A  BY <1>2, SubsetInduction
<1>4. S \in A /\ S \cap D = D  BY <1>3
<1> QED  BY <1>4 DEF A

LEMMA MinutesAreFinite == IsFiniteSet(Minutes)
<1>1. PICK x \in Nat : x = 2 * (Epoch + MaxTime)  BY UsageAssumption DEF Epoch
<1>2. Minute \in Nat /\ Minute # 0  BY UsageAssumption
<1>3. x \div Minute \in Nat  BY <1>2, DivBounds
<1>4. PICK top \in Nat : top = MinuteOf(2 * (Epoch + MaxTime))  BY <1>1, <1>3 DEF MinuteOf
<1> QED  BY <1>4, FS_Interval DEF Minutes

-----------------------------------------------------------------------------
(* The ledger of usage time *)

\* A time that was sampled, or none.
Reached(x, m) == x = NoSample \/ (x.mono \in 0..m /\ x.wall \in 0..Epoch + MaxTime + 2)

\* Nothing is counted after the moment n.
Blank(d, n) == \A t \in 1..MaxTime : t > n => d.credit[t] = <<>>

CreditedTo(d, app) == {t \in 1..MaxTime : d.credit[t] = <<app>>}
AggregateOf(d, app) == [m \in Minutes |-> d.agg[<<app, m>>]]

Conserved(d) ==
  \A app \in Apps :
    /\ d.closed[app] + (IF d.open.app = app THEN d.open.dur ELSE 0) = Cardinality(CreditedTo(d, app))
    /\ SumFunction(AggregateOf(d, app)) = Cardinality(CreditedTo(d, app))

\* The active interval has the open row and no gap, and was last counted after
\* every gap.
RowGood(k, d) ==
  k.active # NotActive =>
    /\ k.active.app \in Apps /\ k.active.counted # NoSample
    /\ d.open.app = k.active.app /\ d.open.check = k.active.counted
    /\ ~k.gapOpen
    /\ \A t \in d.gaps : t <= k.active.counted.mono

\* An interval is active only in a session that permits it, and was counted up to
\* the last sample.
Standing(k) == k.active # NotActive => k.connected /\ k.session = "permit"
Level(k) == k.active # NotActive => k.active.counted.mono = k.last.mono

\* Whatever would open or close a gap from here on finds nothing counted in it.
LedgerGood(k, d, m) ==
  /\ Reached(k.last, m) /\ Reached(k.active.counted, m) /\ Reached(d.gap, m) /\ Reached(d.open.check, m)
  /\ Blank(d, m)
  /\ k.last # NoSample => Blank(d, k.last.mono)
  /\ d.open # NoRow => d.open.app \in Apps /\ d.open.check # NoSample /\ Blank(d, d.open.check.mono)
  /\ d.gap # NoSample => Blank(d, d.gap.mono)
  /\ k.gapOpen <=> d.gap # NoSample
  /\ \A t \in d.gaps : t <= m /\ d.credit[t] = <<>>
  /\ \A t \in 1..MaxTime : d.credit[t] = <<>> \/ \E app \in Apps : d.credit[t] = <<app>>

Covers(d, t) == t \in d.gaps \/ (d.gap # NoSample /\ t > d.gap.mono)
Waits(d, t) == d.open # NoRow /\ t > d.open.check.mono

\* While nothing failed: what was due is counted, in a gap or waiting; what is
\* counted, or will be with the next sample, may be.
HonestLedger(k, d, m, h) ==
  /\ \A t \in h.due : t \in 1..m /\ (d.credit[t] # <<>> \/ Covers(d, t) \/ Waits(d, t))
  /\ \A t \in 1..m : \A app \in Apps : d.credit[t] = <<app>> => app \in h.countable[t]
  /\ k.active # NotActive => \A t \in 1..m : t > k.active.counted.mono => k.active.app \in h.countable[t]
  /\ d.open # NoRow => d.gap = NoSample

\* The worker knows what the streams have delivered, and what they still hold ends
\* with the present state of their source.
StreamsTell(w, e, wd) ==
  /\ w.seen => w.niri
  /\ (e.idle # <<>> => w.idleStream) /\ (e.niri # <<>> => w.niri)
  /\ w.pc = "probed" /\ ~e.logind /\ w.probe = "permit" => wd.permit
  /\ w.pc # "loop" => w.logindStream /\ w.idleStream
  /\ w.idleStream /\ e.idle = <<>> => w.inputIdle = wd.idle
  /\ e.idle # <<>> => e.idle[Len(e.idle)] = wd.idle
  /\ w.niri /\ e.niri = <<>> => w.seen /\ w.focus = wd.focus
  /\ e.niri # <<>> => e.niri[Len(e.niri)] = wd.focus

ProbesAfter(k, w) == w.pc # "loop" /\ ~w.avail /\ k.active = NotActive

\* While nothing failed, an interval is active only for what the worker was told and
\* has not yet been told to be over.
HonestWorker(k, d, w, e, wd) ==
  /\ k.active # NotActive =>
       /\ w.running /\ w.niri /\ w.logindStream /\ w.idleStream /\ ~w.inputIdle
       /\ e.logind \/ (wd.permit /\ (w.pc = "probed" => w.probe = "permit"))
       /\ e.niri # <<>> \/ w.pc # "loop" \/ wd.focus = k.active.app
  /\ w.running => (w.seen \/ ~k.connected) /\ (k.active = NotActive => d.open = NoRow)
  /\ w.running /\ w.cap = "healthy" =>
       /\ d.gap = NoSample /\ ~k.gapOpen /\ k.connected
       /\ k.session # "none" \/ ProbesAfter(k, w)


Tracker ==
  [connected : BOOLEAN, focus : Apps \cup {NoApp}, session : SessionViews, last : Samples,
   active : [app : Apps \cup {NoApp}, counted : Samples], gapOpen : BOOLEAN]
Tables ==
  [open : [app : Apps \cup {NoApp}, dur : Nat, check : Samples], closed : [Apps -> Nat],
   gap : Samples, gaps : SUBSET (1..MaxTime), agg : [Apps \X Minutes -> Nat],
   credit : [1..MaxTime -> Seq(Apps)]]
Books == [trk : Tracker, db : Tables, err : BOOLEAN]

LEMMA NoneTyped == NoSample \in Samples /\ NotActive \in [app : Apps \cup {NoApp}, counted : Samples]
                   /\ NoRow \in [app : Apps \cup {NoApp}, dur : Nat, check : Samples]
<1> USE UsageAssumption
<1>1. NoSample \in Samples  BY DEF NoSample, Samples, NoTime
<1>2. NotActive \in [app : Apps \cup {NoApp}, counted : Samples]  BY <1>1 DEF NotActive
<1>3. NoRow \in [app : Apps \cup {NoApp}, dur : Nat, check : Samples]  BY <1>1 DEF NoRow
<1> QED  BY <1>1, <1>2, <1>3


Kept(s, m) == s \in Books /\ LedgerGood(s.trk, s.db, m) /\ RowGood(s.trk, s.db) /\ Conserved(s.db)
SampledAt(now, m) == m \in 0..MaxTime /\ now \in Samples /\ now.mono = m /\ now.wall \in 0..Epoch + MaxTime + 2
Honest(s, m, h) == HonestLedger(s.trk, s.db, m, h) /\ (s.trk.active = NotActive => s.db.open = NoRow)

LEMMA NoAppIsNone == NoApp \notin Apps
BY UsageAssumption DEF NoApp

Closes(s, r, f, m) ==
  /\ Kept(r, m) /\ r.trk = [s.trk EXCEPT !.active = NotActive] /\ r.trk.active = NotActive
  /\ r.db.gap = s.db.gap /\ r.db.gaps = s.db.gaps /\ r.db.credit = s.db.credit
  /\ f # "close" => ~r.err
  /\ ~r.err /\ s.trk.active # NotActive => r.db.open = NoRow
  /\ s.trk.active = NotActive => r = s

\* close_active: nothing without an interval; else the interval is gone, and its row
\* is closed unless the store fails.
LEMMA CloseActiveKeeps ==
  ASSUME NEW s \in Books, NEW m \in 0..MaxTime, LedgerGood(s.trk, s.db, m), Conserved(s.db),
         s.trk.active # NotActive => s.db.open.app \in Apps,
         NEW f, NEW r, r = CloseActive(s, f), ~s.err
  PROVE  Closes(s, r, f, m)
<1> USE NoneTyped
<1>1. CASE s.trk.active = NotActive
  <2>1. r = s  BY <1>1 DEF CloseActive
  <2>2. s.trk = [s.trk EXCEPT !.active = NotActive]  BY <1>1 DEF Books, Tracker
  <2> QED  BY <1>1, <2>1, <2>2 DEF Closes, Kept, RowGood
<1>2. CASE s.trk.active # NotActive
  <2>1. PICK u : u = [s EXCEPT !.trk.active = NotActive]  OBVIOUS
  <2>2. u \in Books /\ u.trk = [s.trk EXCEPT !.active = NotActive] /\ u.db = s.db /\ u.err = s.err
    BY <2>1 DEF Books, Tracker
  <2>3. r = CloseInterval(u, f)  BY <2>1, <1>2 DEF CloseActive
  <2>4. u.trk.active = NotActive /\ u.trk.last = s.trk.last /\ u.trk.gapOpen = s.trk.gapOpen
    BY <2>2 DEF Books, Tracker
  <2>5. NotActive.counted = NoSample  BY DEF NotActive
  <2>6. CASE f = "close"
    <3>1. r \in Books /\ r.trk = u.trk /\ r.db = s.db /\ r.err  BY <2>2, <2>3, <2>6 DEF CloseInterval, Books
    <3>2. LedgerGood(r.trk, r.db, m)  BY <2>4, <2>5, <3>1 DEF LedgerGood, Reached
    <3>3. RowGood(r.trk, r.db)  BY <2>4, <3>1 DEF RowGood
    <3> QED  BY <2>2, <2>4, <2>6, <3>1, <3>2, <3>3, <1>2 DEF Closes, Kept
  <2>7. CASE f # "close"
    <3>1. PICK c : c = [s.db.closed EXCEPT ![s.db.open.app] = @ + s.db.open.dur]  OBVIOUS
    <3>0. s.db.open.app \in Apps /\ s.db.open.dur \in Nat /\ s.db.closed \in [Apps -> Nat]
      BY <1>2 DEF Books, Tables
    <3>2. c \in [Apps -> Nat]  BY <3>0, <3>1
    <3>3. r = [u EXCEPT !.db.closed = c, !.db.open = NoRow]
      BY <2>2, <2>3, <2>7, <3>1 DEF CloseInterval
    <3>4. /\ r.trk = u.trk /\ r.err = u.err /\ r.db = [u.db EXCEPT !.closed = c, !.open = NoRow]
      BY <2>2, <3>3 DEF Books
    <3>5. r.db \in Tables  BY <2>2, <3>2, <3>4 DEF Books, Tables
    <3>6. /\ r.db.open = NoRow /\ r.db.gap = s.db.gap /\ r.db.gaps = s.db.gaps
          /\ r.db.agg = s.db.agg /\ r.db.credit = s.db.credit /\ r.db.closed = c
      BY <2>2, <3>4 DEF Books, Tables
    <3>7. r = [trk |-> r.trk, db |-> r.db, err |-> r.err] /\ r.trk \in Tracker /\ r.err \in BOOLEAN
      BY <2>2, <3>3, <3>4 DEF Books
    <3>8. r \in Books  BY <3>5, <3>7 DEF Books
    <3>9. LedgerGood(r.trk, r.db, m)
      <4>1. NoRow.check = NoSample /\ NoRow.app = NoApp  BY DEF NoRow
      <4>2. \A n : Blank(s.db, n) => Blank(r.db, n)  BY <3>6 DEF Blank
      <4> QED  BY <2>4, <2>5, <3>4, <3>6, <4>1, <4>2 DEF LedgerGood, Reached
    <3>10. RowGood(r.trk, r.db)  BY <2>4, <3>4 DEF RowGood
    <3>11. Conserved(r.db)
      <4> SUFFICES ASSUME NEW app \in Apps
                   PROVE  /\ r.db.closed[app] + (IF r.db.open.app = app THEN r.db.open.dur ELSE 0)
                               = Cardinality(CreditedTo(r.db, app))
                          /\ SumFunction(AggregateOf(r.db, app)) = Cardinality(CreditedTo(r.db, app))
        BY DEF Conserved
      <4>1. CreditedTo(r.db, app) = CreditedTo(s.db, app) /\ AggregateOf(r.db, app) = AggregateOf(s.db, app)
        BY <3>6 DEF CreditedTo, AggregateOf
      <4>2. /\ s.db.closed[app] + (IF s.db.open.app = app THEN s.db.open.dur ELSE 0) = Cardinality(CreditedTo(s.db, app))
            /\ SumFunction(AggregateOf(s.db, app)) = Cardinality(CreditedTo(s.db, app))
        BY DEF Conserved
      <4>3. r.db.open.app # app /\ r.db.closed[app] \in Nat
        BY <3>6, <3>2, NoAppIsNone DEF NoRow
      <4>4. r.db.closed[app] = s.db.closed[app] + (IF s.db.open.app = app THEN s.db.open.dur ELSE 0)
        BY <3>1, <3>6, <1>2 DEF Books, Tables
      <4> QED  BY <4>1, <4>2, <4>3, <4>4
    <3> QED  BY <2>2, <2>4, <2>7, <3>4, <3>6, <3>8, <3>9, <3>10, <3>11, <1>2 DEF Closes, Kept
  <2> QED  BY <2>6, <2>7
<1> QED  BY <1>1, <1>2

LEMMA BlankLater == ASSUME NEW d, NEW n \in Int, NEW p \in Int, Blank(d, n), n <= p PROVE Blank(d, p)
BY DEF Blank

LEMMA NoSampleIsEarly == ASSUME NEW now, NEW m, SampledAt(now, m) PROVE now # NoSample /\ Reached(now, m)
BY UsageAssumption DEF SampledAt, NoSample, NoTime, Reached

SampleTaken(s, now, r, m) ==
  Kept(r, m) /\ r.trk = [s.trk EXCEPT !.last = now] /\ r.db = s.db /\ r.err = s.err
GapTaken(s, a, r, m) ==
  /\ r \in Books /\ LedgerGood(r.trk, r.db, m) /\ Conserved(r.db)
  /\ r.trk = s.trk /\ r.err = s.err /\ r.db = [s.db EXCEPT !.gaps = s.db.gaps \cup ((a.mono + 1)..m)]

\* A later sample leaves the ledger good.
LEMMA SampleKeeps ==
  ASSUME NEW s, NEW m, Kept(s, m), NEW now, SampledAt(now, m), NEW r, r = [s EXCEPT !.trk.last = now]
  PROVE  SampleTaken(s, now, r, m)
<1>1. s \in Books /\ now \in Samples /\ m \in 0..MaxTime /\ m \in Int  BY UsageAssumption DEF Kept, SampledAt
<1>2. r \in Books /\ r.trk = [s.trk EXCEPT !.last = now] /\ r.db = s.db /\ r.err = s.err
  BY <1>1 DEF Books, Tracker
<1>3. /\ r.trk.last = now /\ r.trk.active = s.trk.active /\ r.trk.gapOpen = s.trk.gapOpen
  BY <1>1, <1>2 DEF Books, Tracker
<1>4. LedgerGood(r.trk, r.db, m)
  <2>1. LedgerGood(s.trk, s.db, m)  BY DEF Kept
  <2>2. Reached(now, m) /\ now.mono = m  BY NoSampleIsEarly DEF SampledAt
  <2> QED  BY <2>1, <2>2, <1>2, <1>3 DEF LedgerGood
<1>5. RowGood(r.trk, r.db)  BY <1>2, <1>3 DEF RowGood, Kept
<1> QED  BY <1>2, <1>4, <1>5 DEF SampleTaken, Kept

\* A gap up to now, from a time after which nothing is counted.
LEMMA GapKeeps ==
  ASSUME NEW s, NEW m, Kept(s, m), NEW now, SampledAt(now, m), NEW a \in Samples, a # NoSample,
         Reached(a, m), Blank(s.db, a.mono), NEW r, r = [s EXCEPT !.db.gaps = @ \cup Ticks(a, now)]
  PROVE  GapTaken(s, a, r, m)
<1>0. MaxTime \in Nat  BY UsageAssumption
<1>1. s \in Books /\ now \in Samples /\ now.mono = m /\ m \in 0..MaxTime /\ a.mono \in 0..m
  BY DEF Kept, SampledAt, Reached
<1>2. PICK g : g = s.db.gaps \cup ((a.mono + 1)..m)  OBVIOUS
<1>3. r = [s EXCEPT !.db.gaps = g]  BY <1>1, <1>2 DEF Ticks
<1>4. g \in SUBSET (1..MaxTime)
  <2>1. s.db.gaps \in SUBSET (1..MaxTime)  BY <1>1 DEF Books, Tables
  <2>2. \A t \in (a.mono + 1)..m : t \in 1..MaxTime  BY <1>0, <1>1
  <2> QED  BY <1>2, <2>1, <2>2
<1>5. r \in Books /\ r.trk = s.trk /\ r.err = s.err /\ r.db = [s.db EXCEPT !.gaps = g]
  BY <1>1, <1>3, <1>4, ZenonT(60) DEF Books, Tables
<1>6. /\ r.db.open = s.db.open /\ r.db.closed = s.db.closed /\ r.db.gap = s.db.gap /\ r.db.gaps = g
      /\ r.db.agg = s.db.agg /\ r.db.credit = s.db.credit
  BY <1>1, <1>5 DEF Books, Tables
<1>7. LedgerGood(r.trk, r.db, m)
  <2>1. LedgerGood(s.trk, s.db, m)  BY DEF Kept
  <2>2. \A n : Blank(r.db, n) <=> Blank(s.db, n)  BY <1>6 DEF Blank
  <2>3. \A t \in g : t <= m /\ r.db.credit[t] = <<>>
    <3> TAKE t \in g
    <3>1. CASE t \in s.db.gaps  BY <2>1, <1>6, <3>1 DEF LedgerGood
    <3>2. CASE t \in (a.mono + 1)..m
      <4>1. t \in 1..MaxTime /\ t > a.mono /\ t <= m  BY <1>0, <1>1, <3>2
      <4> QED  BY <4>1, <1>6 DEF Blank
    <3> QED  BY <1>2, <3>1, <3>2
  <2>4. r.trk = s.trk  BY <1>5
  <2>5. /\ Reached(r.trk.last, m) /\ Reached(r.trk.active.counted, m) /\ Reached(r.db.gap, m)
        /\ Reached(r.db.open.check, m) /\ Blank(r.db, m) /\ (r.trk.gapOpen <=> r.db.gap # NoSample)
        /\ r.trk.last # NoSample => Blank(r.db, r.trk.last.mono)
        /\ r.db.gap # NoSample => Blank(r.db, r.db.gap.mono)
    BY <2>1, <2>2, <2>4, <1>6 DEF LedgerGood
  <2>6. /\ r.db.open # NoRow => r.db.open.app \in Apps /\ r.db.open.check # NoSample /\ Blank(r.db, r.db.open.check.mono)
        /\ \A t \in 1..MaxTime : r.db.credit[t] = <<>> \/ \E app \in Apps : r.db.credit[t] = <<app>>
    BY <2>1, <2>2, <1>6 DEF LedgerGood
  <2> QED  BY <2>3, <2>5, <2>6, <1>6 DEF LedgerGood
<1>8. Conserved(r.db)
  <2>1. \A app : CreditedTo(r.db, app) = CreditedTo(s.db, app) /\ AggregateOf(r.db, app) = AggregateOf(s.db, app)
    BY <1>6, SMTT(40) DEF CreditedTo, AggregateOf
  <2> QED  BY <2>1, <1>6 DEF Conserved, Kept
<1> QED  BY <1>2, <1>5, <1>7, <1>8 DEF GapTaken

\* A discontinuity leaves no interval, or the store failed before it was taken.
LEMMA DiscontinuityKeeps ==
  ASSUME NEW s, NEW m, Kept(s, m), ~s.err, Level(s.trk), NEW now, SampledAt(now, m), s.trk.last # NoSample,
         NEW f, NEW r, r = Discontinuity(s, now, f), NEW h
  PROVE  /\ Kept(r, m) /\ r.trk.connected = s.trk.connected /\ r.trk.session = s.trk.session
         /\ r.trk.focus = s.trk.focus /\ r.trk.gapOpen = s.trk.gapOpen
         /\ r.trk.active = NotActive \/ (r.err /\ r.trk = s.trk)
         /\ ~r.err => r.trk.last = now /\ r.trk.active = NotActive
         /\ f = "none" => ~r.err /\ (Honest(s, m, h) => Honest(r, m, h))
<1>0. s \in Books /\ m \in 0..MaxTime /\ MaxTime \in Nat /\ now.mono = m  BY UsageAssumption DEF Kept, SampledAt
<1>1. PICK a : a = s.trk.last  OBVIOUS
<1>2. a \in Samples /\ a # NoSample /\ Reached(a, m) /\ Blank(s.db, a.mono)
  BY <1>0, <1>1 DEF Kept, LedgerGood, Books, Tracker
<1>3. PICK u : u = RecordGap(s, a, now, f)  OBVIOUS
<1>4. r = Sampled(CloseActive(u, f), now)  BY <1>1, <1>3 DEF Discontinuity
<1>5. CASE f = "record_gap"
  <2>1. u = [s EXCEPT !.err = TRUE]  BY <1>3, <1>5 DEF RecordGap
  <2>2. u \in Books /\ u.trk = s.trk /\ u.db = s.db /\ u.err  BY <1>0, <2>1 DEF Books
  <2>3. r = u  BY <1>4, <2>2 DEF Sampled, CloseActive
  <2> QED  BY <1>5, <2>2, <2>3 DEF Kept
<1>6. CASE f # "record_gap"
  <2>1. u = [s EXCEPT !.db.gaps = @ \cup Ticks(a, now)]  BY <1>3, <1>6 DEF RecordGap
  <2>20. GapTaken(s, a, u, m)  BY <1>2, <2>1, GapKeeps
  <2>2. /\ u \in Books /\ LedgerGood(u.trk, u.db, m) /\ Conserved(u.db)
        /\ u.trk = s.trk /\ ~u.err /\ u.db = [s.db EXCEPT !.gaps = s.db.gaps \cup ((a.mono + 1)..m)]
    BY <2>20 DEF GapTaken
  <2>3. /\ u.db.open = s.db.open /\ u.db.gap = s.db.gap /\ u.db.credit = s.db.credit
        /\ u.db.gaps = s.db.gaps \cup ((a.mono + 1)..m)
    BY <1>0, <2>2 DEF Books, Tables
  <2>4. u.trk.active # NotActive => u.db.open.app \in Apps  BY <2>2, <2>3 DEF Kept, RowGood
  <2>5. PICK v : v = CloseActive(u, f)  OBVIOUS
  <2>60. Closes(u, v, f, m)  BY <1>0, <2>2, <2>4, <2>5, CloseActiveKeeps
  <2>6. /\ Kept(v, m) /\ v.trk = [u.trk EXCEPT !.active = NotActive] /\ v.trk.active = NotActive
        /\ v.db.gap = u.db.gap /\ v.db.gaps = u.db.gaps /\ v.db.credit = u.db.credit
        /\ f # "close" => ~v.err
        /\ ~v.err /\ u.trk.active # NotActive => v.db.open = NoRow
        /\ u.trk.active = NotActive => v = u
    BY <2>60 DEF Closes
  <2>7. /\ v.trk.connected = s.trk.connected /\ v.trk.session = s.trk.session
        /\ v.trk.focus = s.trk.focus /\ v.trk.gapOpen = s.trk.gapOpen
    BY <1>0, <2>2, <2>6 DEF Books, Tracker
  <2>8. CASE v.err
    <3>1. r = v  BY <1>4, <2>5, <2>8 DEF Sampled
    <3> QED  BY <2>6, <2>7, <2>8, <3>1
  <2>9. CASE ~v.err
    <3>1. r = [v EXCEPT !.trk.last = now]  BY <1>4, <2>5, <2>9 DEF Sampled
    <3>20. SampleTaken(v, now, r, m)  BY <2>6, <3>1, SampleKeeps
    <3>2. Kept(r, m) /\ r.trk = [v.trk EXCEPT !.last = now] /\ r.db = v.db /\ r.err = v.err
      BY <3>20 DEF SampleTaken
    <3>3. v.trk \in Tracker  BY <2>6 DEF Kept, Books
    <3>4. /\ r.trk.active = NotActive /\ r.trk.last = now /\ r.trk.connected = v.trk.connected
          /\ r.trk.session = v.trk.session /\ r.trk.focus = v.trk.focus /\ r.trk.gapOpen = v.trk.gapOpen
      BY <2>6, <3>2, <3>3 DEF Tracker
    <3>5. ASSUME Honest(s, m, h)
          PROVE  Honest(r, m, h)
      <4>1. r.db.open = NoRow
        <5>1. CASE s.trk.active = NotActive
          BY <2>2, <2>3, <2>6, <3>2, <3>5, <5>1 DEF Honest
        <5>2. CASE s.trk.active # NotActive
          BY <2>2, <2>6, <2>9, <3>2, <5>2
        <5> QED  BY <5>1, <5>2
      <4>2. /\ r.db.gap = s.db.gap /\ r.db.credit = s.db.credit
            /\ r.db.gaps = s.db.gaps \cup ((a.mono + 1)..m)
        BY <2>3, <2>6, <3>2
      <4>3. HonestLedger(s.trk, s.db, m, h)  BY <3>5 DEF Honest
      <4>4. ASSUME NEW t \in h.due
            PROVE  t \in 1..m /\ (r.db.credit[t] # <<>> \/ Covers(r.db, t))
        <5>1. t \in 1..m /\ (s.db.credit[t] # <<>> \/ Covers(s.db, t) \/ Waits(s.db, t))
          BY <4>3 DEF HonestLedger
        <5>2. CASE s.db.credit[t] # <<>>  BY <4>2, <5>1, <5>2
        <5>3. CASE Covers(s.db, t)  BY <4>2, <5>1, <5>3 DEF Covers
        <5>4. CASE Waits(s.db, t)
          <6>1. s.trk.active # NotActive  BY <3>5, <5>4 DEF Honest, Waits
          <6>2. s.db.open.check.mono = a.mono
            BY <6>1, <1>1 DEF Kept, RowGood, Level
          <6>3. t \in (a.mono + 1)..m
            <7>1. a.mono \in Int  BY <1>2 DEF Samples, NoTime
            <7> QED  BY <1>0, <5>1, <5>4, <6>2, <7>1 DEF Waits
          <6> QED  BY <4>2, <5>1, <6>3 DEF Covers
        <5> QED  BY <5>1, <5>2, <5>3, <5>4
      <4> QED  BY <3>4, <4>1, <4>2, <4>3, <4>4 DEF Honest, HonestLedger
    <3> QED  BY <2>7, <2>9, <3>2, <3>4, <3>5
  <2>10. f = "none" => ~v.err  BY <2>6
  <2> QED  BY <2>8, <2>9, <2>10
<1> QED  BY <1>5, <1>6

\* What append_segment and the new checkpoint leave of an active interval.
Appended(s, now, r, f, m) ==
  /\ Kept(r, m)
  /\ r.err => r.trk = s.trk /\ r.db = s.db /\ f = "append"
  /\ ~r.err =>
       /\ r.trk = [s.trk EXCEPT !.active = [app |-> s.trk.active.app, counted |-> now], !.last = now]
       /\ r.db.gap = s.db.gap /\ r.db.gaps = s.db.gaps /\ r.db.open # NoRow /\ r.db.open.check = now
       /\ \A t \in 1..MaxTime :
            r.db.credit[t] = IF t \in (s.trk.active.counted.mono + 1)..m THEN <<s.trk.active.app>>
                             ELSE s.db.credit[t]

LEMMA AppendKeeps ==
  ASSUME NEW s, NEW m, Kept(s, m), ~s.err, NEW now, SampledAt(now, m), s.trk.active # NotActive,
         Splittable(s.trk.active.counted, now), NEW f, NEW r,
         r = Counted(AppendSegment(s, s.trk.active.app, s.trk.active.counted, now, f), now)
  PROVE  Appended(s, now, r, f, m)
<1>0. /\ s \in Books /\ m \in 0..MaxTime /\ MaxTime \in Nat /\ now \in Samples /\ now.mono = m
      /\ now.wall \in 0..Epoch + MaxTime + 2
  BY UsageAssumption DEF Kept, SampledAt
<1>1. PICK app : app = s.trk.active.app  OBVIOUS
<1>2. PICK from : from = s.trk.active.counted  OBVIOUS
<1>3. /\ app \in Apps /\ from # NoSample /\ s.db.open.app = app /\ s.db.open.check = from
      /\ ~s.trk.gapOpen /\ \A t \in s.db.gaps : t <= from.mono
  BY <1>1, <1>2 DEF Kept, RowGood
<1>4. /\ from \in Samples /\ from.mono \in 0..m /\ from.wall \in 0..Epoch + MaxTime + 2
  BY <1>0, <1>2, <1>3 DEF Kept, LedgerGood, Reached, Books, Tracker
<1>5. s.db.open # NoRow /\ Blank(s.db, from.mono)
  <2>1. s.db.open # NoRow  BY <1>3, NoAppIsNone, SMTT(40) DEF NoRow
  <2> QED  BY <2>1, <1>3 DEF Kept, LedgerGood
<1>6. CASE f = "append"
  <2>1. PICK u : u = AppendSegment(s, app, from, now, f)  OBVIOUS
  <2>2. u = [s EXCEPT !.err = TRUE]  BY <1>6, <2>1 DEF AppendSegment
  <2>3. u \in Books /\ u.trk = s.trk /\ u.db = s.db /\ u.err  BY <1>0, <2>2 DEF Books
  <2>4. r = u  BY <1>1, <1>2, <2>1, <2>3 DEF Counted
  <2> QED  BY <1>6, <2>3, <2>4 DEF Kept, Appended
<1>7. CASE f # "append"
  <2>1. PICK g : g = Split(from, now)  OBVIOUS
  <2>2. DOMAIN g \subseteq Minutes /\ (\A n \in DOMAIN g : g[n] \in Nat) /\ SumFunction(g) = now.mono - from.mono
    BY <1>0, <1>2, <1>4, <2>1, SplitConserves
  <2>3. PICK N \in Nat : N = SumFunction(g) /\ N = m - from.mono  BY <1>0, <1>4, <2>2
  <2>4. PICK ag : ag = [k \in DOMAIN s.db.agg |-> s.db.agg[k] + IF k[1] = app THEN (IF k[2] \in DOMAIN g THEN g[k[2]] ELSE 0) ELSE 0]
    OBVIOUS
  <2>5. PICK cr : cr = [t \in DOMAIN s.db.credit |-> s.db.credit[t] \o IF t \in Ticks(from, now) THEN <<app>> ELSE <<>>]
    OBVIOUS
  <2>6. PICK entry : entry = [s.db.open EXCEPT !.dur = s.db.open.dur + N, !.check = now]  OBVIOUS
  <2>7. PICK u : u = AppendSegment(s, app, from, now, f)  OBVIOUS
  <2>8. /\ u = [trk |-> u.trk, db |-> u.db, err |-> u.err] /\ u.trk = s.trk /\ u.err = s.err
        /\ u.db = [s.db EXCEPT !.open = entry, !.agg = ag, !.credit = cr]
    <3>1. u = [s EXCEPT !.db.open.dur = @ + SumFunction(g), !.db.open.check = now,
                        !.db.agg = [k \in DOMAIN @ |-> @[k] + IF k[1] = app THEN (IF k[2] \in DOMAIN g THEN g[k[2]] ELSE 0) ELSE 0],
                        !.db.credit = [t \in DOMAIN @ |-> @[t] \o IF t \in Ticks(from, now) THEN <<app>> ELSE <<>>]]
      BY <1>5, <1>7, <2>1, <2>7 DEF AppendSegment
    <3>2. u = [s EXCEPT !.db.open.dur = s.db.open.dur + N, !.db.open.check = now, !.db.agg = ag, !.db.credit = cr]
      BY <1>0, <2>3, <2>4, <2>5, <3>1 DEF Books, Tables
    <3>3. /\ u.trk = s.trk /\ u.err = s.err
          /\ u.db = [s.db EXCEPT !.open.dur = s.db.open.dur + N, !.open.check = now, !.agg = ag, !.credit = cr]
      BY <1>0, <3>2 DEF Books, Tables
    <3>4. u.db = [s.db EXCEPT !.open = entry, !.agg = ag, !.credit = cr]
      BY <1>0, <2>6, <3>3 DEF Books, Tables
    <3>5. u = [trk |-> u.trk, db |-> u.db, err |-> u.err]  BY <1>0, <3>2 DEF Books
    <3> QED  BY <3>3, <3>4, <3>5
  <2>9. entry \in [app : Apps \cup {NoApp}, dur : Nat, check : Samples] /\ entry.app = app /\ entry.check = now
        /\ entry.dur = s.db.open.dur + N /\ s.db.open.dur \in Nat
    <3>1. s.db.open \in [app : Apps \cup {NoApp}, dur : Nat, check : Samples]  BY <1>0 DEF Books, Tables
    <3>2. s.db.open.dur + N \in Nat  BY <3>1
    <3> QED  BY <1>0, <1>3, <2>6, <3>1, <3>2
  <2>10. ag \in [Apps \X Minutes -> Nat] /\ \A b \in Apps : \A n \in Minutes :
           ag[<<b, n>>] = s.db.agg[<<b, n>>] + IF b = app THEN (IF n \in DOMAIN g THEN g[n] ELSE 0) ELSE 0
    <3>1. s.db.agg \in [Apps \X Minutes -> Nat]  BY <1>0 DEF Books, Tables
    <3>2. \A k \in Apps \X Minutes : (IF k[1] = app THEN (IF k[2] \in DOMAIN g THEN g[k[2]] ELSE 0) ELSE 0) \in Nat
      BY <2>2
    <3>3. \A k \in Apps \X Minutes : ag[k] \in Nat  BY <2>4, <3>1, <3>2
    <3> QED  BY <2>4, <3>1, <3>3
  <2>11. \A t \in 1..MaxTime : s.db.credit[t] \in Seq(Apps)  BY <1>0 DEF Books, Tables
  <2>12. ASSUME NEW t \in 1..MaxTime
         PROVE  cr[t] = IF t \in (from.mono + 1)..m THEN <<app>> ELSE s.db.credit[t]
    <3>1. cr[t] = s.db.credit[t] \o IF t \in Ticks(from, now) THEN <<app>> ELSE <<>>
      BY <1>0, <2>5 DEF Books, Tables
    <3>2. CASE t \in (from.mono + 1)..m
      <4>1. s.db.credit[t] = <<>>  BY <1>4, <1>5, <3>2 DEF Blank
      <4>2. cr[t] = <<>> \o <<app>>  BY <1>0, <3>1, <3>2, <4>1 DEF Ticks
      <4> QED  BY <3>2, <4>2
    <3>3. CASE t \notin (from.mono + 1)..m
      <4>1. cr[t] = s.db.credit[t] \o <<>>  BY <1>0, <3>1, <3>3 DEF Ticks
      <4> QED  BY <2>11, <3>3, <4>1
    <3> QED  BY <3>2, <3>3
  <2>13. cr \in [1..MaxTime -> Seq(Apps)]
    <3>1. <<app>> \in Seq(Apps)  BY <1>3
    <3>2. DOMAIN s.db.credit = 1..MaxTime  BY <1>0 DEF Books, Tables
    <3>3. \A t \in 1..MaxTime : cr[t] \in Seq(Apps)  BY <2>11, <2>12, <3>1
    <3> QED  BY <2>5, <3>2, <3>3
  <2>14. u.db \in Tables /\ u.db.open = entry /\ u.db.agg = ag /\ u.db.credit = cr /\ u.db.gap = s.db.gap
         /\ u.db.gaps = s.db.gaps /\ u.db.closed = s.db.closed
    BY <1>0, <2>8, <2>9, <2>10, <2>13 DEF Books, Tables
  <2>15. r = [u EXCEPT !.trk.active.counted = now, !.trk.last = now]
    BY <1>1, <1>2, <2>7, <2>8 DEF Counted
  <2>16. /\ r.db = u.db /\ r.err = u.err /\ r.trk = [s.trk EXCEPT !.active.counted = now, !.last = now]
         /\ r = [trk |-> r.trk, db |-> r.db, err |-> r.err]
    BY <1>0, <2>8, <2>15 DEF Books
  <2>17. s.trk.active = [app |-> app, counted |-> from]  BY <1>0, <1>1, <1>2 DEF Books, Tracker
  <2>18. PICK act : act = [app |-> app, counted |-> now]  OBVIOUS
  <2>19. r.trk = [s.trk EXCEPT !.active = act, !.last = now]
    <3>1. [s.trk.active EXCEPT !.counted = now] = act  BY <2>17, <2>18
    <3>2. s.trk \in Tracker  BY <1>0 DEF Books
    <3>3. r.trk = [s.trk EXCEPT !.active = [s.trk.active EXCEPT !.counted = now], !.last = now]
      BY <2>16, <3>2 DEF Tracker
    <3> QED  BY <3>1, <3>3
  <2>20. /\ r.trk \in Tracker /\ r.trk.active = act /\ r.trk.last = now /\ r.trk.gapOpen = s.trk.gapOpen
    <3>1. act \in [app : Apps \cup {NoApp}, counted : Samples]  BY <1>0, <1>3, <2>18
    <3>2. s.trk \in Tracker  BY <1>0 DEF Books
    <3> QED  BY <1>0, <2>19, <3>1, <3>2 DEF Tracker
  <2>21. r \in Books  BY <1>0, <2>8, <2>14, <2>16, <2>20 DEF Books
  <2>22. act.app = app /\ act.counted = now /\ act # NotActive
    BY <1>3, <2>18, NoAppIsNone DEF NotActive
  <2>23. \A n \in Int : n >= m => Blank(r.db, n)
    <3> SUFFICES ASSUME NEW n \in Int, n >= m, NEW t \in 1..MaxTime, t > n PROVE r.db.credit[t] = <<>>
      BY DEF Blank
    <3>1. t \notin (from.mono + 1)..m /\ t > from.mono  BY <1>0, <1>4
    <3> QED  BY <1>5, <2>12, <2>14, <2>16, <3>1 DEF Blank
  <2>24. LedgerGood(s.trk, s.db, m) /\ RowGood(s.trk, s.db) /\ Conserved(s.db)  BY DEF Kept
  <2>25. Reached(now, m) /\ now # NoSample  BY NoSampleIsEarly, SMTT(40)
  <2>26. LedgerGood(r.trk, r.db, m)
    <3>1. r.db.gap = NoSample  BY <1>3, <2>14, <2>16, <2>24 DEF LedgerGood
    <3>2. \A t \in r.db.gaps : t <= m /\ r.db.credit[t] = <<>>
      <4> SUFFICES ASSUME NEW t \in s.db.gaps PROVE t <= m /\ r.db.credit[t] = <<>>  BY <2>14, <2>16
      <4>1. t <= m /\ s.db.credit[t] = <<>> /\ t \in 1..MaxTime /\ t <= from.mono
        BY <1>0, <1>3, <2>24 DEF LedgerGood, Books, Tables
      <4>2. t \notin (from.mono + 1)..m  BY <1>0, <1>4, <4>1
      <4> QED  BY <2>12, <2>14, <2>16, <4>1, <4>2
    <3>3. \A t \in 1..MaxTime : r.db.credit[t] = <<>> \/ \E b \in Apps : r.db.credit[t] = <<b>>
      BY <1>3, <2>12, <2>14, <2>16, <2>24 DEF LedgerGood
    <3>4. Blank(r.db, m) /\ Blank(r.db, now.mono)  BY <1>0, <2>23
    <3>5. ~r.trk.gapOpen  BY <1>3, <2>20
    <3>6. r.db.open.app \in Apps /\ r.db.open.check = now  BY <1>3, <2>9, <2>14, <2>16
    <3>7. Reached(r.db.gap, m)  BY <3>1 DEF Reached
    <3> QED  BY <2>20, <2>22, <2>25, <3>1, <3>2, <3>3, <3>4, <3>5, <3>6, <3>7 DEF LedgerGood
  <2>27. RowGood(r.trk, r.db)
    <3>1. \A t \in r.db.gaps : t <= m
      BY <2>26 DEF LedgerGood
    <3> QED  BY <1>0, <1>3, <2>9, <2>14, <2>16, <2>20, <2>22, <2>25, <3>1, SMTT(40) DEF RowGood
  <2>28. Conserved(r.db)
    <3> SUFFICES ASSUME NEW b \in Apps
                 PROVE  /\ r.db.closed[b] + (IF r.db.open.app = b THEN r.db.open.dur ELSE 0)
                             = Cardinality(CreditedTo(r.db, b))
                        /\ SumFunction(AggregateOf(r.db, b)) = Cardinality(CreditedTo(r.db, b))
      BY DEF Conserved
    <3>1. /\ s.db.closed[b] + (IF s.db.open.app = b THEN s.db.open.dur ELSE 0) = Cardinality(CreditedTo(s.db, b))
          /\ SumFunction(AggregateOf(s.db, b)) = Cardinality(CreditedTo(s.db, b))
      BY <2>24 DEF Conserved
    <3>2. \A t \in 1..MaxTime : r.db.credit[t] = IF t \in (from.mono + 1)..m THEN <<app>> ELSE s.db.credit[t]
      BY <2>12, <2>14, <2>16
    <3>3. \A t \in (from.mono + 1)..m : t \in 1..MaxTime /\ s.db.credit[t] = <<>>
      <4> TAKE t \in (from.mono + 1)..m
      <4>1. t \in 1..MaxTime /\ t > from.mono  BY <1>0, <1>4
      <4> QED  BY <1>5, <4>1 DEF Blank
    <3>4. r.db.closed = s.db.closed /\ r.db.open = entry /\ r.db.agg = ag  BY <2>14, <2>16
    <3>5. CASE b # app
      <4>1. CreditedTo(r.db, b) = CreditedTo(s.db, b)
        <5>1. \A t \in 1..MaxTime : r.db.credit[t] = <<b>> <=> s.db.credit[t] = <<b>>
          BY <3>2, <3>3, <3>5
        <5> QED  BY <5>1 DEF CreditedTo
      <4>2. AggregateOf(r.db, b) = AggregateOf(s.db, b)
        <5>1. \A n \in Minutes : ag[<<b, n>>] = s.db.agg[<<b, n>>]
          <6> TAKE n \in Minutes
          <6>1. s.db.agg[<<b, n>>] \in Nat /\ ag[<<b, n>>] = s.db.agg[<<b, n>>] + 0
            BY <1>0, <2>10, <3>5, SMTT(40) DEF Books, Tables
          <6> QED  BY <6>1
        <5> QED  BY <3>4, <5>1 DEF AggregateOf
      <4> QED  BY <1>3, <2>9, <3>1, <3>4, <3>5, <4>1, <4>2, SMTT(40)
    <3>6. CASE b = app
      <4>1. PICK X : X = CreditedTo(s.db, app)  OBVIOUS
      <4>2. PICK Y : Y = (from.mono + 1)..m  BY SMTT(40)
      <4>3. CreditedTo(r.db, app) = X \cup Y
        <5>1. \A t \in 1..MaxTime : r.db.credit[t] = <<app>> <=> t \in Y \/ s.db.credit[t] = <<app>>
          BY <3>2, <3>3, <4>2
        <5> QED  BY <3>3, <4>1, <4>2, <5>1, SMTT(40) DEF CreditedTo
      <4>4. X \cap Y = {}
        <5>1. \A t \in X : s.db.credit[t] = <<app>>  BY <4>1 DEF CreditedTo
        <5>2. \A t \in Y : s.db.credit[t] = <<>>  BY <3>3, <4>2
        <5>3. <<app>> # <<>>  OBVIOUS
        <5> QED  BY <5>1, <5>2, <5>3
      <4>5. IsFiniteSet(X) /\ Cardinality(X) \in Nat
        <5>1. IsFiniteSet(1..MaxTime)  BY <1>0, FS_Interval
        <5>2. X \in SUBSET (1..MaxTime)  BY <4>1 DEF CreditedTo
        <5> QED  BY <5>1, <5>2, FS_Subset, FS_CardinalityType
      <4>6. IsFiniteSet(Y) /\ Cardinality(Y) = N
        <5>1. from.mono + 1 \in Int /\ m \in Int /\ from.mono + 1 <= m + 1  BY <1>0, <1>4
        <5>2. IsFiniteSet(Y) /\ Cardinality(Y) = IF from.mono + 1 > m THEN 0 ELSE m - (from.mono + 1) + 1
          BY <4>2, <5>1, FS_Interval
        <5> QED  BY <1>0, <1>4, <2>3, <5>2
      <4>7. Cardinality(X \cup Y) = Cardinality(X) + N
        <5>1. Cardinality(X \cup Y) = Cardinality(X) + Cardinality(Y) - Cardinality(X \cap Y)
          BY <4>5, <4>6, FS_Union
        <5>2. Cardinality(X \cap Y) = 0  BY <4>4, FS_EmptySet
        <5> QED  BY <4>5, <4>6, <5>1, <5>2
      <4>8. SumFunction(AggregateOf(r.db, app)) = Cardinality(X) + N
        <5>1. PICK o : o = AggregateOf(s.db, app)  OBVIOUS
        <5>2. PICK e : e = AggregateOf(r.db, app)  OBVIOUS
        <5>3. DOMAIN o = Minutes /\ DOMAIN e = Minutes  BY <5>1, <5>2 DEF AggregateOf
        <5>4. \A n \in Minutes : o[n] \in Nat
          BY <1>0, <1>3, <5>1 DEF AggregateOf, Books, Tables
        <5>5. \A n \in Minutes : e[n] = o[n] + IF n \in DOMAIN g THEN g[n] ELSE 0
          BY <1>3, <2>10, <3>4, <5>1, <5>2 DEF AggregateOf
        <5>6. IsFiniteSet(Minutes)  BY MinutesAreFinite
        <5>7. SumFunctionOnSet(e, Minutes) = SumFunctionOnSet(o, Minutes) + SumFunctionOnSet(g, DOMAIN g)
          <6>1. PICK D : D = DOMAIN g  OBVIOUS
          <6>2. D \in SUBSET Minutes /\ (\A n \in D : g[n] \in Nat)
                /\ \A n \in Minutes : e[n] = o[n] + IF n \in D THEN g[n] ELSE 0
            BY <2>2, <5>5, <6>1
          <6>3. SumFunctionOnSet(e, Minutes) = SumFunctionOnSet(o, Minutes) + SumFunctionOnSet(g, D)
            BY <5>4, <5>6, <6>2, SumPlus
          <6> QED  BY <6>1, <6>3
        <5>8. SumFunction(e) = SumFunction(o) + SumFunction(g)
          BY <5>3, <5>7 DEF SumFunction
        <5> QED  BY <2>3, <3>1, <3>6, <4>1, <5>1, <5>2, <5>8
      <4>9. r.db.closed[app] + r.db.open.dur = Cardinality(X) + N
        <5>1. s.db.closed[app] \in Nat  BY <1>0, <1>3 DEF Books, Tables
        <5>2. s.db.closed[app] + s.db.open.dur = Cardinality(X)  BY <1>3, <3>1, <3>6, <4>1
        <5> QED  BY <2>9, <3>4, <4>5, <5>1, <5>2
      <4>10. r.db.open.app = app  BY <2>9, <3>4
      <4> QED  BY <3>6, <4>3, <4>7, <4>8, <4>9, <4>10
    <3> QED  BY <3>5, <3>6
  <2>29. r.db.open # NoRow /\ r.db.open.check = now
    BY <1>3, <2>9, <2>14, <2>16, NoAppIsNone DEF NoRow
  <2>30. \A t \in 1..MaxTime : r.db.credit[t] = IF t \in (from.mono + 1)..m THEN <<app>> ELSE s.db.credit[t]
    BY <2>12, <2>14, <2>16
  <2> QED  BY <1>1, <1>2, <2>8, <2>14, <2>16, <2>18, <2>19, <2>21, <2>26, <2>27, <2>28, <2>29, <2>30 DEF Appended, Kept
<1> QED  BY <1>1, <1>2, <1>6, <1>7

-----------------------------------------------------------------------------
(* The tracker's methods *)

\* What advancing to a sample leaves: the tracker's view is unchanged, an interval
\* that goes on was counted up to now, and what is honest stays so.
Advances(s, r, session, f, m, h) ==
  /\ Kept(r, m) /\ r.trk.connected = s.trk.connected /\ r.trk.session = s.trk.session
  /\ r.trk.focus = s.trk.focus
  /\ r.trk.active # NotActive => s.trk.active # NotActive /\ r.trk.active.app = s.trk.active.app
  /\ r.err => Level(r.trk)
  /\ ~r.err => /\ r.trk.last.mono = m /\ r.trk.last # NoSample
               /\ r.trk.active # NotActive /\ session = "permit" => r.trk.active.counted.mono = m
  /\ f = "none" => ~r.err /\ (Honest(s, m, h) => Honest(r, m, h))

LEMMA AdvanceKeeps ==
  ASSUME NEW s, NEW m, Kept(s, m), ~s.err, Level(s.trk), NEW now, SampledAt(now, m), NEW session,
         NEW f, NEW r, r = Advance(s, now, session, f), NEW h
  PROVE  Advances(s, r, session, f, m, h) /\ r.trk.gapOpen = s.trk.gapOpen
<1>0. s \in Books /\ s.trk \in Tracker /\ m \in 0..MaxTime /\ MaxTime \in Nat /\ now.mono = m /\ now # NoSample
  BY UsageAssumption, NoSampleIsEarly DEF Kept, SampledAt, Books
<1>1. PICK prev : prev = s.trk.last  OBVIOUS
<1>2. PICK a : a = s.trk.active  OBVIOUS
<1>3. CASE prev # NoSample /\ now.mono = prev.mono /\ now.wall = prev.wall
  <2>1. r = s  BY <1>1, <1>3 DEF Advance
  <2> QED  BY <1>0, <1>1, <1>3, <2>1 DEF Advances, Level
<1>4. CASE ~(prev # NoSample /\ now.mono = prev.mono /\ now.wall = prev.wall)
           /\ prev # NoSample /\ Discontinuous(prev, a, now, session)
  <2>1. r = Discontinuity(s, now, f)  BY <1>1, <1>2, <1>4 DEF Advance
  <2>2. /\ Kept(r, m) /\ r.trk.connected = s.trk.connected /\ r.trk.session = s.trk.session
        /\ r.trk.focus = s.trk.focus /\ r.trk.gapOpen = s.trk.gapOpen
        /\ r.trk.active = NotActive \/ (r.err /\ r.trk = s.trk)
        /\ ~r.err => r.trk.last = now /\ r.trk.active = NotActive
        /\ f = "none" => ~r.err /\ (Honest(s, m, h) => Honest(r, m, h))
    BY <1>1, <1>4, <2>1, DiscontinuityKeeps
  <2>3. r.err => Level(r.trk)  BY <2>2 DEF Level
  <2> QED  BY <1>0, <2>2, <2>3 DEF Advances
<1>5. CASE /\ ~(prev # NoSample /\ now.mono = prev.mono /\ now.wall = prev.wall)
           /\ ~(prev # NoSample /\ Discontinuous(prev, a, now, session))
           /\ prev = NoSample \/ a = NotActive \/ session # "permit"
  <2>1. r = [s EXCEPT !.trk.last = now]  BY <1>1, <1>2, <1>5 DEF Advance, Sampled
  <2>2. SampleTaken(s, now, r, m)  BY <2>1, SampleKeeps
  <2>3. Kept(r, m) /\ r.trk = [s.trk EXCEPT !.last = now] /\ r.db = s.db /\ r.err = s.err
    BY <2>2 DEF SampleTaken
  <2>4. /\ r.trk.last = now /\ r.trk.active = a /\ r.trk.gapOpen = s.trk.gapOpen /\ r.trk.focus = s.trk.focus
        /\ r.trk.connected = s.trk.connected /\ r.trk.session = s.trk.session
    BY <1>0, <1>2, <2>3 DEF Tracker
  <2>5. prev = NoSample => a = NotActive
    <3>1. SUFFICES ASSUME prev = NoSample, a # NotActive PROVE FALSE  OBVIOUS
    <3>2. a.counted # NoSample /\ a.counted.mono = NoSample.mono /\ Reached(a.counted, m)
      BY <1>1, <1>2, <3>1 DEF Kept, RowGood, Level, LedgerGood
    <3> QED  BY <1>0, <3>2 DEF Reached, NoSample, NoTime
  <2>6. Honest(s, m, h) => Honest(r, m, h)
    BY <1>2, <2>3, <2>4 DEF Honest, HonestLedger
  <2> QED  BY <1>0, <1>2, <1>5, <2>3, <2>4, <2>5, <2>6 DEF Advances
<1>6. CASE /\ ~(prev # NoSample /\ now.mono = prev.mono /\ now.wall = prev.wall)
           /\ ~(prev # NoSample /\ Discontinuous(prev, a, now, session))
           /\ ~(prev = NoSample \/ a = NotActive \/ session # "permit")
  <2>1. r = Counted(AppendSegment(s, s.trk.active.app, s.trk.active.counted, now, f), now)
    BY <1>1, <1>2, <1>6 DEF Advance
  <2>2. Splittable(s.trk.active.counted, now) /\ s.trk.active # NotActive
    BY <1>1, <1>2, <1>6 DEF Discontinuous
  <2>3. Appended(s, now, r, f, m)  BY <2>1, <2>2, AppendKeeps
  <2>4. CASE r.err
    <3>1. Kept(r, m) /\ r.trk = s.trk /\ f = "append"  BY <2>3, <2>4 DEF Appended
    <3> QED  BY <2>2, <2>4, <3>1 DEF Advances
  <2>5. CASE ~r.err
    <3>1. PICK act : act = [app |-> a.app, counted |-> now]  OBVIOUS
    <3>2. /\ Kept(r, m) /\ r.trk = [s.trk EXCEPT !.active = act, !.last = now]
          /\ r.db.gap = s.db.gap /\ r.db.gaps = s.db.gaps /\ r.db.open # NoRow /\ r.db.open.check = now
          /\ \A t \in 1..MaxTime : r.db.credit[t] = IF t \in (a.counted.mono + 1)..m THEN <<a.app>> ELSE s.db.credit[t]
      BY <1>2, <2>3, <2>5, <3>1 DEF Appended
    <3>3. /\ r.trk.last = now /\ r.trk.active = act /\ r.trk.gapOpen = s.trk.gapOpen /\ r.trk.focus = s.trk.focus
          /\ r.trk.connected = s.trk.connected /\ r.trk.session = s.trk.session
      BY <1>0, <3>2 DEF Tracker
    <3>4. act.app = a.app /\ act.counted = now  BY <3>1
    <3>5. ASSUME Honest(s, m, h)
          PROVE  Honest(r, m, h)
      <4>1. HonestLedger(s.trk, s.db, m, h)  BY <3>5 DEF Honest
      <4>2. /\ a.app \in Apps /\ a.counted # NoSample /\ s.db.open.check = a.counted /\ a.counted.mono \in 0..m
        BY <1>2, <2>2 DEF Kept, RowGood, LedgerGood, Reached
      <4>3. act # NotActive  BY <3>4, <4>2, NoAppIsNone DEF NotActive
      <4>4. ASSUME NEW t \in h.due
            PROVE  t \in 1..m /\ (r.db.credit[t] # <<>> \/ Covers(r.db, t) \/ Waits(r.db, t))
        <5>1. t \in 1..m /\ (s.db.credit[t] # <<>> \/ Covers(s.db, t) \/ Waits(s.db, t))
          BY <4>1 DEF HonestLedger
        <5>2. t \in 1..MaxTime  BY <1>0, <5>1
        <5>3. CASE t \in (a.counted.mono + 1)..m
          <6>1. r.db.credit[t] = <<a.app>>  BY <3>2, <5>2, <5>3
          <6>2. <<a.app>> # <<>>  OBVIOUS
          <6> QED  BY <5>1, <6>1, <6>2
        <5>4. CASE t \notin (a.counted.mono + 1)..m
          <6>1. r.db.credit[t] = s.db.credit[t]  BY <3>2, <5>2, <5>4
          <6>2. ~Waits(s.db, t)  BY <1>0, <4>2, <5>1, <5>4 DEF Waits
          <6>3. Covers(s.db, t) => Covers(r.db, t)  BY <3>2 DEF Covers
          <6> QED  BY <5>1, <6>1, <6>2, <6>3
        <5> QED  BY <5>3, <5>4
      <4>5. ASSUME NEW t \in 1..m, NEW b \in Apps, r.db.credit[t] = <<b>>
            PROVE  b \in h.countable[t]
        <5>1. t \in 1..MaxTime  BY <1>0
        <5>2. CASE t \in (a.counted.mono + 1)..m
          <6>1. <<b>> = <<a.app>>  BY <3>2, <4>5, <5>1, <5>2
          <6>2. b = a.app  BY <6>1
          <6>3. t > a.counted.mono  BY <4>2, <5>2
          <6> QED  BY <1>2, <2>2, <4>1, <6>2, <6>3 DEF HonestLedger
        <5>3. CASE t \notin (a.counted.mono + 1)..m
          BY <3>2, <4>1, <4>5, <5>1, <5>3 DEF HonestLedger
        <5> QED  BY <5>2, <5>3
      <4>6. \A t \in 1..m : t > act.counted.mono => act.app \in h.countable[t]
        BY <1>0, <3>4
      <4>7. r.db.gap = NoSample
        BY <1>2, <2>2, <3>2 DEF Kept, RowGood, LedgerGood
      <4> QED  BY <3>3, <4>3, <4>4, <4>5, <4>6, <4>7 DEF Honest, HonestLedger
    <3> QED  BY <1>0, <1>2, <2>2, <2>5, <3>2, <3>3, <3>4, <3>5 DEF Advances
  <2> QED  BY <2>4, <2>5
<1> QED  BY <1>3, <1>4, <1>5, <1>6

\* resume_or_advance: without an open gap it advances; with one there is no interval,
\* and once the source is ready the gap ends at the sample.
LEMMA ResumeKeeps ==
  ASSUME NEW s, NEW m, Kept(s, m), ~s.err, Level(s.trk), NEW now, SampledAt(now, m), NEW session, NEW ready,
         NEW f, NEW r, r = ResumeOrAdvance(s, now, session, ready, f), NEW h
  PROVE  Advances(s, r, session, f, m, h) /\ (~r.err /\ ready => ~r.trk.gapOpen)
<1>0. /\ s \in Books /\ s.trk \in Tracker /\ m \in 0..MaxTime /\ MaxTime \in Nat /\ now.mono = m
      /\ now # NoSample /\ now \in Samples
  BY UsageAssumption, NoSampleIsEarly DEF Kept, SampledAt, Books
<1>1. CASE ~s.trk.gapOpen
  <2>1. r = Advance(s, now, session, f)  BY <1>1 DEF ResumeOrAdvance
  <2> QED  BY <1>1, <2>1, AdvanceKeeps
<1>2. CASE s.trk.gapOpen /\ ~ready
  <2>1. r = [s EXCEPT !.trk.last = now]  BY <1>2 DEF ResumeOrAdvance
  <2>2. SampleTaken(s, now, r, m)  BY <2>1, SampleKeeps
  <2>3. Kept(r, m) /\ r.trk = [s.trk EXCEPT !.last = now] /\ r.db = s.db /\ r.err = s.err
    BY <2>2 DEF SampleTaken
  <2>4. s.trk.active = NotActive  BY <1>2 DEF Kept, RowGood
  <2>5. /\ r.trk.last = now /\ r.trk.active = NotActive /\ r.trk.gapOpen = s.trk.gapOpen /\ r.trk.focus = s.trk.focus
        /\ r.trk.connected = s.trk.connected /\ r.trk.session = s.trk.session
    BY <1>0, <2>3, <2>4 DEF Tracker
  <2>6. Honest(s, m, h) => Honest(r, m, h)
    BY <2>3, <2>4, <2>5 DEF Honest, HonestLedger
  <2> QED  BY <1>0, <1>2, <2>3, <2>5, <2>6 DEF Advances
<1>3. CASE s.trk.gapOpen /\ ready
  <2>1. PICK a : a = s.db.gap  OBVIOUS
  <2>2. /\ s.trk.active = NotActive /\ a # NoSample /\ a \in Samples /\ Reached(a, m) /\ Blank(s.db, a.mono)
    BY <1>0, <1>3, <2>1 DEF Kept, RowGood, LedgerGood, Books, Tables
  <2>3. PICK u : u = CloseOpenGaps(s, now, f)  OBVIOUS
  <2>4. r = Resumed(u, now)  BY <1>3, <2>3 DEF ResumeOrAdvance
  <2>5. CASE f = "close_gap"
    <3>1. u = [s EXCEPT !.err = TRUE]  BY <2>3, <2>5 DEF CloseOpenGaps
    <3>2. u \in Books /\ u.trk = s.trk /\ u.db = s.db /\ u.err  BY <1>0, <3>1 DEF Books
    <3>3. r = u  BY <2>4, <3>2 DEF Resumed
    <3>4. Kept(r, m) /\ Level(r.trk)  BY <3>2, <3>3 DEF Kept
    <3> QED  BY <2>2, <2>5, <3>2, <3>3, <3>4 DEF Advances
  <2>6. CASE f # "close_gap"
    <3>1. PICK v : v = [s EXCEPT !.db.gaps = @ \cup Ticks(a, now)]  OBVIOUS
    <3>2. GapTaken(s, a, v, m)  BY <2>2, <3>1, GapKeeps
    <3>3. PICK g : g = s.db.gaps \cup ((a.mono + 1)..m)  OBVIOUS
    <3>4. /\ v \in Books /\ LedgerGood(v.trk, v.db, m) /\ Conserved(v.db)
          /\ v.trk = s.trk /\ ~v.err /\ v.db = [s.db EXCEPT !.gaps = g]
      BY <3>2, <3>3 DEF GapTaken
    <3>5. s.db \in Tables /\ NoSample \in Samples  BY <1>0, NoneTyped DEF Books
    <3>6. g \in SUBSET (1..MaxTime)
      <4>1. v.db.gaps = g /\ v.db \in Tables  BY <3>4, <3>5 DEF Books, Tables
      <4> QED  BY <4>1 DEF Tables
    <3>7. u = [s EXCEPT !.db.gap = NoSample, !.db.gaps = g]
      <4>1. u = [s EXCEPT !.db.gap = NoSample, !.db.gaps = s.db.gaps \cup Ticks(a, now)]
        BY <2>1, <2>2, <2>3, <2>6, <3>5, <1>0 DEF CloseOpenGaps, Books, Tables
      <4> QED  BY <1>0, <3>3, <4>1 DEF Ticks
    <3>8. u \in Books /\ u.trk = s.trk /\ ~u.err /\ u.db = [s.db EXCEPT !.gap = NoSample, !.gaps = g]
      <4>1. /\ u = [trk |-> u.trk, db |-> u.db, err |-> u.err] /\ u.trk = s.trk /\ u.err = s.err
            /\ u.db = [s.db EXCEPT !.gap = NoSample, !.gaps = g]
        BY <1>0, <3>7 DEF Books
      <4>2. u.db \in Tables  BY <3>5, <3>6, <4>1 DEF Tables
      <4>3. u.trk \in Tracker /\ u.err \in BOOLEAN  BY <1>0, <4>1 DEF Books
      <4>4. u \in Books  BY <4>1, <4>2, <4>3 DEF Books
      <4> QED  BY <4>1, <4>4
    <3>9. r = [u EXCEPT !.trk.gapOpen = FALSE, !.trk.last = now]  BY <2>4, <3>8 DEF Resumed
    <3>10. r \in Books /\ r.db = u.db /\ ~r.err /\ r.trk = [s.trk EXCEPT !.gapOpen = FALSE, !.last = now]
      <4>1. /\ r = [trk |-> r.trk, db |-> r.db, err |-> r.err] /\ r.db = u.db /\ r.err = u.err
            /\ r.trk = [s.trk EXCEPT !.gapOpen = FALSE, !.last = now]
        BY <1>0, <3>8, <3>9 DEF Books
      <4>2. r.trk \in Tracker  BY <1>0, <4>1 DEF Tracker
      <4>3. r \in Books  BY <3>8, <4>1, <4>2 DEF Books
      <4> QED  BY <3>8, <4>1, <4>3
    <3>11. /\ r.db.gap = NoSample /\ r.db.gaps = g /\ r.db.open = s.db.open /\ r.db.closed = s.db.closed
           /\ r.db.agg = s.db.agg /\ r.db.credit = s.db.credit
      BY <3>5, <3>8, <3>10 DEF Tables
    <3>12. /\ r.trk.last = now /\ r.trk.active = NotActive /\ ~r.trk.gapOpen /\ r.trk.focus = s.trk.focus
           /\ r.trk.connected = s.trk.connected /\ r.trk.session = s.trk.session
      BY <1>0, <2>2, <3>10 DEF Tracker
    <3>13. /\ v.db.gap = s.db.gap /\ v.db.gaps = g /\ v.db.open = s.db.open /\ v.db.closed = s.db.closed
           /\ v.db.agg = s.db.agg /\ v.db.credit = s.db.credit
      BY <3>4, <3>5 DEF Tables
    <3>14. LedgerGood(r.trk, r.db, m)
      <4>1. \A n : Blank(r.db, n) <=> Blank(v.db, n)  BY <3>11, <3>13 DEF Blank
      <4>2. Reached(now, m)  BY NoSampleIsEarly
      <4>3. Reached(NoSample, m) /\ NotActive.counted = NoSample  BY DEF Reached, NotActive
      <4>4. /\ Blank(r.db, m) /\ Reached(r.db.open.check, m)
            /\ r.db.open # NoRow => r.db.open.app \in Apps /\ r.db.open.check # NoSample /\ Blank(r.db, r.db.open.check.mono)
            /\ \A t \in g : t <= m /\ r.db.credit[t] = <<>>
            /\ \A t \in 1..MaxTime : r.db.credit[t] = <<>> \/ \E app \in Apps : r.db.credit[t] = <<app>>
        BY <3>4, <3>11, <3>13, <4>1 DEF LedgerGood
      <4> QED  BY <1>0, <3>11, <3>12, <4>2, <4>3, <4>4 DEF LedgerGood
    <3>15. Conserved(r.db)
      <4>1. \A app : CreditedTo(r.db, app) = CreditedTo(s.db, app) /\ AggregateOf(r.db, app) = AggregateOf(s.db, app)
        BY <3>11 DEF CreditedTo, AggregateOf
      <4> QED  BY <4>1, <3>11 DEF Conserved, Kept
    <3>16. Kept(r, m)  BY <3>10, <3>12, <3>14, <3>15 DEF Kept, RowGood
    <3>17. ASSUME Honest(s, m, h)
           PROVE  Honest(r, m, h)
      <4>1. HonestLedger(s.trk, s.db, m, h) /\ s.db.open = NoRow  BY <2>2, <3>17 DEF Honest
      <4>2. ASSUME NEW t \in h.due
            PROVE  t \in 1..m /\ (r.db.credit[t] # <<>> \/ Covers(r.db, t))
        <5>1. t \in 1..m /\ (s.db.credit[t] # <<>> \/ Covers(s.db, t))
          BY <4>1 DEF HonestLedger, Waits
        <5>2. CASE Covers(s.db, t)
          <6>1. CASE t \in s.db.gaps  BY <3>3, <3>11, <5>1, <6>1 DEF Covers
          <6>2. CASE t > a.mono
            <7>1. a.mono \in Int  BY <2>2 DEF Samples, NoTime
            <7>2. t \in (a.mono + 1)..m  BY <1>0, <5>1, <6>2, <7>1
            <7> QED  BY <3>3, <3>11, <5>1, <7>2 DEF Covers
          <6> QED  BY <2>1, <5>2, <6>1, <6>2 DEF Covers
        <5> QED  BY <3>11, <5>1, <5>2
      <4> QED  BY <3>11, <3>12, <4>1, <4>2 DEF Honest, HonestLedger
    <3> QED  BY <1>0, <3>10, <3>12, <3>16, <3>17 DEF Advances
  <2> QED  BY <2>5, <2>6
<1> QED  BY <1>1, <1>2, <1>3

\* A tracker that was told the source and the session, before it reconciles.
Ready(s, m) ==
  /\ Kept(s, m)
  /\ s.err => Level(s.trk) /\ Standing(s.trk)
  /\ ~s.err => /\ s.trk.last.mono = m /\ s.trk.last # NoSample
               /\ s.trk.connected => ~s.trk.gapOpen
               /\ s.trk.active # NotActive /\ s.trk.session = "permit" => s.trk.active.counted.mono = m

Reconciles(s, r, f, m, h) ==
  /\ Kept(r, m) /\ Level(r.trk) /\ Standing(r.trk)
  /\ r.trk.last = s.trk.last /\ r.trk.gapOpen = s.trk.gapOpen /\ r.trk.connected = s.trk.connected
  /\ r.trk.session = s.trk.session /\ r.trk.focus = s.trk.focus /\ r.db.gap = s.db.gap
  /\ f = "none" /\ ~s.err /\ Honest(s, m, h) /\ (s.trk.active # NotActive => s.trk.session = "permit") =>
       /\ ~r.err /\ Honest(r, m, h)
       /\ r.trk.active # NotActive => r.trk.active.app = s.trk.focus

Begins(s, app, now, r, f, m, h) ==
  /\ Kept(r, m)
  /\ r.err => r.trk = s.trk /\ r.db = s.db
  /\ ~r.err => r.trk = [s.trk EXCEPT !.active = [app |-> app, counted |-> now]] /\ r.db.gap = s.db.gap
  /\ f = "none" /\ Honest(s, m, h) => ~r.err /\ Honest(r, m, h)

\* An interval begins at a sample, where nothing is counted after.
LEMMA BeginKeeps ==
  ASSUME NEW s, NEW m, Kept(s, m), ~s.err, s.trk.active = NotActive, ~s.trk.gapOpen, NEW now, SampledAt(now, m),
         NEW app \in Apps, NEW f, NEW r, r = Begin(s, app, now, f), NEW h
  PROVE  Begins(s, app, now, r, f, m, h)
<1>0. /\ s \in Books /\ s.trk \in Tracker /\ m \in 0..MaxTime /\ MaxTime \in Nat /\ now.mono = m
      /\ now # NoSample /\ now \in Samples /\ app # NoApp /\ s.db \in Tables
  BY UsageAssumption, NoSampleIsEarly, NoAppIsNone DEF Kept, SampledAt, Books
<1>1. PICK u : u = StartInterval(s, app, now, f)  OBVIOUS
<1>2. r = Activated(u, app, now)  BY <1>0, <1>1 DEF Begin
<1>3. CASE f = "start" \/ s.db.open # NoRow
  <2>1. u = [s EXCEPT !.err = TRUE]  BY <1>1, <1>3 DEF StartInterval
  <2>2. u \in Books /\ u.trk = s.trk /\ u.db = s.db /\ u.err  BY <1>0, <2>1 DEF Books
  <2>3. r = u  BY <1>2, <2>2 DEF Activated
  <2>4. ~(f = "none" /\ Honest(s, m, h))  BY <1>3 DEF Honest
  <2> QED  BY <2>2, <2>3, <2>4 DEF Begins, Kept
<1>4. CASE ~(f = "start" \/ s.db.open # NoRow)
  <2>1. PICK entry : entry = [app |-> app, dur |-> 0, check |-> now]  OBVIOUS
  <2>2. entry \in [app : Apps \cup {NoApp}, dur : Nat, check : Samples] /\ entry.app = app /\ entry.dur = 0 /\ entry.check = now
    BY <1>0, <2>1
  <2>3. PICK act : act = [app |-> app, counted |-> now]  OBVIOUS
  <2>4. act \in [app : Apps \cup {NoApp}, counted : Samples] /\ act.app = app /\ act.counted = now
    BY <1>0, <2>3
  <2>5. u = [s EXCEPT !.db.open = entry]  BY <1>1, <1>4, <2>1 DEF StartInterval
  <2>6. u \in Books /\ u.trk = s.trk /\ ~u.err /\ u.db = [s.db EXCEPT !.open = entry]
    BY <1>0, <2>2, <2>5 DEF Books, Tables
  <2>7. r = [u EXCEPT !.trk.active = act]  BY <1>2, <2>3, <2>6 DEF Activated
  <2>8. r \in Books /\ r.db = u.db /\ ~r.err /\ r.trk = [s.trk EXCEPT !.active = act]
    BY <1>0, <2>4, <2>6, <2>7 DEF Books, Tracker
  <2>9. /\ r.db.open = entry /\ r.db.gap = s.db.gap /\ r.db.gaps = s.db.gaps /\ r.db.closed = s.db.closed
        /\ r.db.agg = s.db.agg /\ r.db.credit = s.db.credit
    BY <1>0, <2>6, <2>8 DEF Tables
  <2>10. r.trk.active = act /\ r.trk.last = s.trk.last /\ r.trk.gapOpen = s.trk.gapOpen
    BY <1>0, <2>4, <2>8 DEF Tracker
  <2>11. act # NotActive /\ entry # NoRow  BY <1>0, <2>2, <2>4 DEF NotActive, NoRow
  <2>12. LedgerGood(s.trk, s.db, m) /\ Conserved(s.db) /\ s.db.gap = NoSample  BY DEF Kept, LedgerGood
  <2>13. Reached(now, m)  BY NoSampleIsEarly
  <2>14. LedgerGood(r.trk, r.db, m)
    <3>1. \A n : Blank(r.db, n) <=> Blank(s.db, n)  BY <2>9 DEF Blank
    <3>2. Blank(r.db, m) /\ Blank(r.db, now.mono)  BY <1>0, <2>12, <3>1 DEF LedgerGood
    <3>3. r.db.open.app \in Apps /\ r.db.open.check = now  BY <2>2, <2>9
    <3> QED  BY <1>0, <2>4, <2>9, <2>10, <2>12, <2>13, <3>1, <3>2, <3>3 DEF LedgerGood
  <2>15. RowGood(r.trk, r.db)
    BY <1>0, <2>2, <2>4, <2>9, <2>10, <2>12 DEF RowGood, LedgerGood
  <2>16. Conserved(r.db)
    <3> SUFFICES ASSUME NEW b \in Apps
                 PROVE  /\ r.db.closed[b] + (IF r.db.open.app = b THEN r.db.open.dur ELSE 0)
                             = Cardinality(CreditedTo(r.db, b))
                        /\ SumFunction(AggregateOf(r.db, b)) = Cardinality(CreditedTo(r.db, b))
      BY DEF Conserved
    <3>1. /\ s.db.closed[b] + (IF s.db.open.app = b THEN s.db.open.dur ELSE 0) = Cardinality(CreditedTo(s.db, b))
          /\ SumFunction(AggregateOf(s.db, b)) = Cardinality(CreditedTo(s.db, b))
      BY <2>12 DEF Conserved
    <3>2. s.db.open.app # b  BY <1>4, NoAppIsNone DEF NoRow
    <3>3. CreditedTo(r.db, b) = CreditedTo(s.db, b) /\ AggregateOf(r.db, b) = AggregateOf(s.db, b)
      BY <2>9 DEF CreditedTo, AggregateOf
    <3>4. (IF r.db.open.app = b THEN r.db.open.dur ELSE 0) = 0  BY <2>2, <2>9
    <3> QED  BY <2>9, <3>1, <3>2, <3>3, <3>4
  <2>17. ASSUME Honest(s, m, h)
         PROVE  Honest(r, m, h)
    <3>1. HonestLedger(s.trk, s.db, m, h) /\ s.db.open = NoRow  BY <2>17 DEF Honest
    <3>2. \A t \in h.due : t \in 1..m /\ (r.db.credit[t] # <<>> \/ Covers(r.db, t))
      BY <2>9, <3>1 DEF HonestLedger, Waits, Covers
    <3>3. \A t \in 1..m : ~(t > act.counted.mono)  BY <1>0, <2>4
    <3> QED  BY <2>9, <2>10, <2>11, <2>12, <3>1, <3>2, <3>3 DEF Honest, HonestLedger
  <2> QED  BY <2>3, <2>8, <2>9, <2>14, <2>15, <2>16, <2>17 DEF Begins, Kept
<1> QED  BY <1>3, <1>4

LEMMA ReconcileKeeps ==
  ASSUME NEW s, NEW m, Ready(s, m), NEW now, SampledAt(now, m), NEW f, NEW r, r = Reconcile(s, now, f), NEW h
  PROVE  Reconciles(s, r, f, m, h)
<1>0. /\ s \in Books /\ s.trk \in Tracker /\ m \in 0..MaxTime /\ MaxTime \in Nat /\ now.mono = m
      /\ now # NoSample /\ now \in Samples /\ s.trk.focus \in Apps \cup {NoApp} /\ Kept(s, m)
  BY UsageAssumption, NoSampleIsEarly DEF Ready, Kept, SampledAt, Books, Tracker
<1>1. PICK desired : desired = IF s.trk.connected /\ s.trk.session = "permit" THEN s.trk.focus ELSE NoApp
  OBVIOUS
<1>2. CASE s.err
  <2>1. r = s  BY <1>2 DEF Reconcile
  <2> QED  BY <1>2, <2>1 DEF Ready, Reconciles
<1>3. CASE ~s.err /\ s.trk.active # NotActive /\ s.trk.active.app = desired
  <2>1. r = s  BY <1>1, <1>3 DEF Reconcile
  <2>2. desired \in Apps  BY <1>0, <1>3 DEF Kept, RowGood
  <2>3. s.trk.connected /\ s.trk.session = "permit" /\ desired = s.trk.focus  BY <1>1, <2>2, NoAppIsNone
  <2>4. Level(s.trk) /\ Standing(s.trk)  BY <1>3, <2>3 DEF Ready, Level, Standing
  <2> QED  BY <1>0, <1>3, <2>1, <2>3, <2>4 DEF Reconciles
<1>4. CASE ~s.err /\ ~(s.trk.active # NotActive /\ s.trk.active.app = desired)
  <2>1. PICK u : u = CloseActive(s, f)  OBVIOUS
  <2>2. r = Begin(u, desired, now, f)  BY <1>1, <1>4, <2>1 DEF Reconcile
  <2>3. s.trk.active # NotActive => s.db.open.app \in Apps  BY <1>0 DEF Kept, RowGood
  <2>4. Closes(s, u, f, m)
    BY <1>0, <1>4, <2>1, <2>3, CloseActiveKeeps DEF Kept
  <2>5. /\ Kept(u, m) /\ u.trk = [s.trk EXCEPT !.active = NotActive] /\ u.trk.active = NotActive
        /\ u.db.gap = s.db.gap /\ u.db.gaps = s.db.gaps /\ u.db.credit = s.db.credit
        /\ f # "close" => ~u.err
        /\ ~u.err /\ s.trk.active # NotActive => u.db.open = NoRow
        /\ s.trk.active = NotActive => u = s
    BY <2>4 DEF Closes
  <2>6. /\ u.trk \in Tracker /\ u.trk.last = s.trk.last /\ u.trk.gapOpen = s.trk.gapOpen
        /\ u.trk.connected = s.trk.connected /\ u.trk.session = s.trk.session /\ u.trk.focus = s.trk.focus
    BY <1>0, <2>5, NoneTyped DEF Tracker
  <2>7. Level(u.trk) /\ Standing(u.trk)  BY <2>5 DEF Level, Standing
  <2>8. ASSUME f = "none", Honest(s, m, h), s.trk.active # NotActive => s.trk.session = "permit"
        PROVE  ~u.err /\ Honest(u, m, h)
    <3>1. ~u.err /\ u.db.open = NoRow  BY <2>5, <2>8 DEF Honest
    <3>2. HonestLedger(s.trk, s.db, m, h)  BY <2>8 DEF Honest
    <3>3. \A t \in h.due : t \in 1..m /\ ~Waits(s.db, t)
      <4> TAKE t \in h.due
      <4>1. t \in 1..m  BY <3>2 DEF HonestLedger
      <4>2. CASE s.trk.active = NotActive  BY <2>8, <4>1, <4>2 DEF Honest, Waits
      <4>3. CASE s.trk.active # NotActive
        <5>1. s.db.open.check.mono = m  BY <1>0, <1>4, <2>8, <4>3 DEF Ready, Kept, RowGood
        <5> QED  BY <1>0, <4>1, <5>1 DEF Waits
      <4> QED  BY <4>2, <4>3
    <3>4. \A t \in h.due : Covers(s.db, t) => Covers(u.db, t)  BY <2>5 DEF Covers
    <3>5. \A t \in h.due : t \in 1..m /\ (u.db.credit[t] # <<>> \/ Covers(u.db, t))
      BY <2>5, <3>2, <3>3, <3>4 DEF HonestLedger
    <3> QED  BY <2>5, <3>1, <3>2, <3>5 DEF Honest, HonestLedger
  <2>9. CASE u.err \/ desired = NoApp
    <3>1. r = u  BY <2>2, <2>9 DEF Begin
    <3> QED  BY <2>5, <2>6, <2>7, <2>8, <3>1 DEF Reconciles
  <2>10. CASE ~u.err /\ desired # NoApp
    <3>1. desired \in Apps /\ s.trk.connected /\ s.trk.session = "permit" /\ desired = s.trk.focus
      BY <1>0, <1>1, <2>10
    <3>2. ~u.trk.gapOpen  BY <1>4, <2>6, <3>1 DEF Ready
    <3>30. Begins(u, desired, now, r, f, m, h)  BY <2>2, <2>5, <2>10, <3>1, <3>2, BeginKeeps
    <3>3. /\ Kept(r, m)
          /\ r.err => r.trk = u.trk /\ r.db = u.db
          /\ ~r.err => r.trk = [u.trk EXCEPT !.active = [app |-> desired, counted |-> now]] /\ r.db.gap = u.db.gap
          /\ f = "none" /\ Honest(u, m, h) => ~r.err /\ Honest(r, m, h)
      BY <3>30 DEF Begins
    <3>4. CASE r.err
      BY <2>5, <2>6, <2>7, <2>8, <3>3, <3>4 DEF Reconciles
    <3>5. CASE ~r.err
      <4>1. PICK act : act = [app |-> desired, counted |-> now]  OBVIOUS
      <4>2. r.trk = [u.trk EXCEPT !.active = act]  BY <3>3, <3>5, <4>1
      <4>3. /\ r.trk.active = act /\ act.app = desired /\ act.counted = now
            /\ r.trk.last = s.trk.last /\ r.trk.gapOpen = s.trk.gapOpen
            /\ r.trk.connected = s.trk.connected /\ r.trk.session = s.trk.session /\ r.trk.focus = s.trk.focus
        BY <2>6, <4>1, <4>2 DEF Tracker
      <4>4. Level(r.trk) /\ Standing(r.trk)
        BY <1>0, <1>4, <3>1, <4>3 DEF Ready, Level, Standing
      <4> QED  BY <2>5, <2>8, <3>1, <3>3, <3>5, <4>3, <4>4 DEF Reconciles
    <3> QED  BY <3>4, <3>5
  <2> QED  BY <2>9, <2>10
<1> QED  BY <1>2, <1>3, <1>4

\* What a method of the tracker leaves.
Sound(r, m) == Kept(r, m) /\ Level(r.trk) /\ Standing(r.trk)

\* observe_focus and checkpoint: the tracker was told the focus, or only the session.
Tells(s, r, focus, session, f, m, h) ==
  /\ Sound(r, m)
  /\ f = "none" /\ Honest(s, m, h) /\ (s.trk.active # NotActive => session = "permit") =>
       /\ ~r.err /\ Honest(r, m, h) /\ r.trk.session = session /\ r.trk.focus = focus
       /\ r.trk.active # NotActive => r.trk.active.app = focus

LEMMA ObserveFocusKeeps ==
  ASSUME NEW s, NEW m, Sound(s, m), ~s.err, NEW now, SampledAt(now, m), NEW session \in SessionViews,
         NEW focus \in Apps \cup {NoApp}, NEW f, NEW r, r = ObserveFocus(s, focus, session, now, f), NEW h
  PROVE  /\ Tells(s, r, focus, session, f, m, h)
         /\ f = "none" => r.trk.connected /\ ~r.trk.gapOpen /\ r.db.gap = NoSample
<1>1. PICK u : u = ResumeOrAdvance(s, now, session, TRUE, f)  OBVIOUS
<1>2. Advances(s, u, session, f, m, h) /\ (~u.err => ~u.trk.gapOpen)
  BY <1>1, ResumeKeeps DEF Sound
<1>3. PICK v : v = Focused(u, focus, session)  OBVIOUS
<1>4. r = Reconcile(v, now, f)  BY <1>1, <1>3 DEF ObserveFocus
<1>5. u \in Books /\ u.trk \in Tracker /\ Kept(u, m)  BY <1>2 DEF Advances, Kept, Books
<1>6. CASE u.err
  <2>1. v = u  BY <1>3, <1>6 DEF Focused
  <2>2. Ready(v, m)
    BY <1>2, <1>6, <2>1 DEF Ready, Advances, Sound, Standing
  <2>3. Reconciles(v, r, f, m, h)  BY <1>4, <2>2, ReconcileKeeps
  <2>4. f # "none"  BY <1>2, <1>6 DEF Advances
  <2> QED  BY <2>3, <2>4 DEF Reconciles, Tells, Sound
<1>7. CASE ~u.err
  <2>1. v = [u EXCEPT !.trk.connected = TRUE, !.trk.focus = focus, !.trk.session = session]
    BY <1>3, <1>7 DEF Focused
  <2>2. /\ v = [trk |-> v.trk, db |-> v.db, err |-> v.err] /\ v.db = u.db /\ v.err = u.err
        /\ v.trk = [u.trk EXCEPT !.connected = TRUE, !.focus = focus, !.session = session]
    BY <1>5, <2>1 DEF Books
  <2>3. /\ v.trk \in Tracker /\ v.trk.connected /\ v.trk.focus = focus /\ v.trk.session = session
        /\ v.trk.active = u.trk.active /\ v.trk.last = u.trk.last /\ v.trk.gapOpen = u.trk.gapOpen
    BY <1>5, <2>2 DEF Tracker
  <2>4. v \in Books  BY <1>5, <2>2, <2>3 DEF Books
  <2>5. Kept(v, m)  BY <1>5, <2>2, <2>3, <2>4 DEF Kept, LedgerGood, RowGood
  <2>6. Ready(v, m)  BY <1>2, <1>7, <2>2, <2>3, <2>5 DEF Ready, Advances
  <2>7. Reconciles(v, r, f, m, h)  BY <1>4, <2>6, ReconcileKeeps
  <2>8. Honest(u, m, h) => Honest(v, m, h)  BY <2>2, <2>3 DEF Honest, HonestLedger
  <2>9. f = "none" /\ Honest(s, m, h) => Honest(v, m, h)  BY <1>2, <2>8 DEF Advances
  <2>10. v.trk.active # NotActive => s.trk.active # NotActive  BY <1>2, <2>3 DEF Advances
  <2>11. r.trk.connected /\ ~r.trk.gapOpen /\ r.db.gap = NoSample
    <3>1. r.trk.connected = v.trk.connected /\ r.trk.gapOpen = v.trk.gapOpen  BY <2>7 DEF Reconciles
    <3>2. ~u.trk.gapOpen /\ v.trk.connected = TRUE  BY <1>2, <1>7, <1>5, <2>2, <2>3 DEF Tracker
    <3>3. r.trk.gapOpen <=> r.db.gap # NoSample  BY <2>7 DEF Reconciles, Kept, LedgerGood
    <3> QED  BY <2>3, <3>1, <3>2, <3>3
  <2> QED  BY <1>7, <2>2, <2>3, <2>7, <2>9, <2>10, <2>11 DEF Reconciles, Tells, Sound
<1> QED  BY <1>6, <1>7

LEMMA CheckpointKeeps ==
  ASSUME NEW s, NEW m, Sound(s, m), ~s.err, NEW now, SampledAt(now, m), NEW session \in SessionViews,
         NEW f, NEW r, r = Checkpoint(s, session, now, f), NEW h
  PROVE  Tells(s, r, s.trk.focus, session, f, m, h) /\ (f = "none" => r.trk.connected = s.trk.connected)
<1>1. PICK u : u = ResumeOrAdvance(s, now, session, s.trk.connected, f)  OBVIOUS
<1>2. Advances(s, u, session, f, m, h) /\ (~u.err /\ s.trk.connected => ~u.trk.gapOpen)
  BY <1>1, ResumeKeeps DEF Sound
<1>3. PICK v : v = InSession(u, session)  OBVIOUS
<1>4. r = Reconcile(v, now, f)  BY <1>1, <1>3 DEF Checkpoint
<1>5. u \in Books /\ u.trk \in Tracker /\ Kept(u, m)  BY <1>2 DEF Advances, Kept, Books
<1>6. CASE u.err
  <2>1. v = u  BY <1>3, <1>6 DEF InSession
  <2>2. Ready(v, m)
    BY <1>2, <1>6, <2>1 DEF Ready, Advances, Sound, Standing
  <2>3. Reconciles(v, r, f, m, h)  BY <1>4, <2>2, ReconcileKeeps
  <2>4. f # "none"  BY <1>2, <1>6 DEF Advances
  <2> QED  BY <2>3, <2>4 DEF Reconciles, Tells, Sound
<1>7. CASE ~u.err
  <2>1. v = [u EXCEPT !.trk.session = session]  BY <1>3, <1>7 DEF InSession
  <2>2. /\ v = [trk |-> v.trk, db |-> v.db, err |-> v.err] /\ v.db = u.db /\ v.err = u.err
        /\ v.trk = [u.trk EXCEPT !.session = session]
    BY <1>5, <2>1 DEF Books
  <2>3. /\ v.trk \in Tracker /\ v.trk.connected = u.trk.connected /\ v.trk.focus = u.trk.focus
        /\ v.trk.session = session
        /\ v.trk.active = u.trk.active /\ v.trk.last = u.trk.last /\ v.trk.gapOpen = u.trk.gapOpen
    BY <1>5, <2>2 DEF Tracker
  <2>4. v \in Books  BY <1>5, <2>2, <2>3 DEF Books
  <2>5. Kept(v, m)  BY <1>5, <2>2, <2>3, <2>4 DEF Kept, LedgerGood, RowGood
  <2>6. Ready(v, m)  BY <1>2, <1>7, <2>2, <2>3, <2>5 DEF Ready, Advances
  <2>7. Reconciles(v, r, f, m, h)  BY <1>4, <2>6, ReconcileKeeps
  <2>8. Honest(u, m, h) => Honest(v, m, h)  BY <2>2, <2>3 DEF Honest, HonestLedger
  <2>9. f = "none" /\ Honest(s, m, h) => Honest(v, m, h)  BY <1>2, <2>8 DEF Advances
  <2>10. v.trk.active # NotActive => s.trk.active # NotActive  BY <1>2, <2>3 DEF Advances
  <2>11. v.trk.focus = s.trk.focus /\ v.trk.connected = s.trk.connected  BY <1>2, <2>3 DEF Advances
  <2> QED  BY <1>7, <2>2, <2>3, <2>7, <2>9, <2>10, <2>11 DEF Reconciles, Tells, Sound
<1> QED  BY <1>6, <1>7

\* What marking a gap and a session edge leave: no interval, unless a write failed.
Interrupts(s, r, f, m, h) ==
  /\ Sound(r, m) /\ (r.trk.connected => s.trk.connected)
  /\ ~r.err => r.trk.active = NotActive
  /\ f = "none" => ~r.err /\ (Honest(s, m, h) => Honest(r, m, h))

LEMMA MarkGapKeeps ==
  ASSUME NEW s, NEW m \in 0..MaxTime, Sound(s, m), ~s.err, NEW f, NEW r, r = MarkGap(s, f), NEW h
  PROVE  Interrupts(s, r, f, m, h)
<1>0. /\ s \in Books /\ s.trk \in Tracker /\ s.db \in Tables /\ MaxTime \in Nat
      /\ Kept(s, m) /\ Level(s.trk) /\ Standing(s.trk) /\ LedgerGood(s.trk, s.db, m) /\ RowGood(s.trk, s.db) /\ Conserved(s.db)
  BY UsageAssumption DEF Sound, Kept, Books
<1>1. PICK u : u = GapBegun(s, f)  OBVIOUS
<1>2. PICK v : v = GapOpened(u)  OBVIOUS
<1>3. r = CloseActive(v, f)  BY <1>1, <1>2 DEF MarkGap
<1>4. CASE s.trk.last = NoSample \/ s.trk.gapOpen
  <2>1. u = s  BY <1>1, <1>4 DEF GapBegun
  <2>2. s.trk.active = NotActive
    <3>1. CASE s.trk.gapOpen  BY <1>0, <3>1 DEF RowGood
    <3>2. CASE s.trk.last = NoSample
      <4>1. SUFFICES ASSUME s.trk.active # NotActive PROVE FALSE  OBVIOUS
      <4>2. /\ s.trk.active.counted # NoSample /\ s.trk.active.counted.mono = NoSample.mono
            /\ Reached(s.trk.active.counted, m)
        BY <1>0, <3>2, <4>1 DEF RowGood, Level, LedgerGood
      <4> QED  BY <1>0, <4>2 DEF Reached, NoSample, NoTime
    <3> QED  BY <1>4, <3>1, <3>2
  <2>3. v = s
    <3>1. CASE s.trk.last = NoSample  BY <1>2, <2>1, <3>1 DEF GapOpened
    <3>2. CASE s.trk.last # NoSample
      <4>1. v = [s EXCEPT !.trk.gapOpen = TRUE]  BY <1>2, <2>1, <3>2 DEF GapOpened
      <4>2. s.trk.gapOpen = TRUE  BY <1>0, <1>4, <3>2 DEF Tracker
      <4>3. [s.trk EXCEPT !.gapOpen = TRUE] = s.trk  BY <1>0, <4>2 DEF Tracker
      <4> QED  BY <1>0, <4>1, <4>3 DEF Books
    <3> QED  BY <3>1, <3>2
  <2>4. r = s  BY <1>3, <2>2, <2>3 DEF CloseActive
  <2> QED  BY <2>2, <2>4 DEF Interrupts
<1>5. CASE s.trk.last # NoSample /\ ~s.trk.gapOpen /\ f = "begin_gap"
  <2>1. u = [s EXCEPT !.err = TRUE]  BY <1>1, <1>5 DEF GapBegun, BeginGap
  <2>2. u \in Books /\ u.trk = s.trk /\ u.db = s.db /\ u.err  BY <1>0, <2>1 DEF Books
  <2>3. r = u  BY <1>2, <1>3, <2>2 DEF GapOpened, CloseActive
  <2> QED  BY <1>0, <1>5, <2>2, <2>3 DEF Interrupts, Sound, Kept
<1>6. CASE s.trk.last # NoSample /\ ~s.trk.gapOpen /\ f # "begin_gap"
  <2>1. PICK a : a = s.trk.last  OBVIOUS
  <2>2. a \in Samples /\ a # NoSample /\ Reached(a, m) /\ Blank(s.db, a.mono) /\ s.db.gap = NoSample
    BY <1>0, <1>6, <2>1 DEF LedgerGood, Tracker
  <2>3. u = [s EXCEPT !.db.gap = a]  BY <1>1, <1>6, <2>1, <2>2 DEF GapBegun, BeginGap
  <2>4. /\ u = [trk |-> u.trk, db |-> u.db, err |-> u.err] /\ u.trk = s.trk /\ u.err = s.err
        /\ u.db = [s.db EXCEPT !.gap = a]
    BY <1>0, <2>3 DEF Books
  <2>5. v = [u EXCEPT !.trk.gapOpen = TRUE]  BY <1>2, <1>6, <2>4 DEF GapOpened
  <2>6. /\ v = [trk |-> v.trk, db |-> v.db, err |-> v.err] /\ v.trk = [s.trk EXCEPT !.gapOpen = TRUE] /\ ~v.err
        /\ v.err = s.err /\ v.db = [s.db EXCEPT !.gap = a]
    BY <2>4, <2>5
  <2>7. /\ v.db \in Tables /\ v.db.gap = a /\ v.db.gaps = s.db.gaps /\ v.db.open = s.db.open
        /\ v.db.closed = s.db.closed /\ v.db.agg = s.db.agg /\ v.db.credit = s.db.credit
    BY <1>0, <2>2, <2>6 DEF Tables
  <2>8. /\ v.trk \in Tracker /\ v.trk.gapOpen = TRUE /\ v.trk.last = s.trk.last /\ v.trk.active = s.trk.active
        /\ v.trk.connected = s.trk.connected /\ v.trk.session = s.trk.session /\ v.trk.focus = s.trk.focus
    BY <1>0, <2>6 DEF Tracker
  <2>9. v \in Books  BY <1>0, <2>6, <2>7, <2>8 DEF Books
  <2>10. LedgerGood(v.trk, v.db, m)
    <3>1. \A n : Blank(v.db, n) <=> Blank(s.db, n)  BY <2>7 DEF Blank
    <3> QED  BY <1>0, <2>2, <2>7, <2>8, <3>1 DEF LedgerGood
  <2>11. Conserved(v.db)
    <3>1. \A app : CreditedTo(v.db, app) = CreditedTo(s.db, app) /\ AggregateOf(v.db, app) = AggregateOf(s.db, app)
      BY <2>7 DEF CreditedTo, AggregateOf
    <3> QED  BY <1>0, <3>1, <2>7 DEF Conserved
  <2>12. v.trk.active # NotActive => v.db.open.app \in Apps  BY <1>0, <2>7, <2>8 DEF RowGood
  <2>13. Closes(v, r, f, m)  BY <1>3, <2>6, <2>9, <2>10, <2>11, <2>12, CloseActiveKeeps
  <2>14. /\ Kept(r, m) /\ r.trk = [v.trk EXCEPT !.active = NotActive] /\ r.trk.active = NotActive
         /\ r.db.gap = v.db.gap /\ r.db.gaps = v.db.gaps /\ r.db.credit = v.db.credit
         /\ f # "close" => ~r.err
         /\ ~r.err /\ v.trk.active # NotActive => r.db.open = NoRow
         /\ v.trk.active = NotActive => r = v
    BY <2>13 DEF Closes
  <2>15. r.trk.connected = s.trk.connected  BY <2>8, <2>14 DEF Tracker
  <2>16. Sound(r, m)  BY <2>14 DEF Sound, Level, Standing
  <2>17. ASSUME Honest(s, m, h), f = "none"
         PROVE  Honest(r, m, h)
    <3>1. HonestLedger(s.trk, s.db, m, h)  BY <2>17 DEF Honest
    <3>2. r.db.open = NoRow  BY <2>7, <2>8, <2>14, <2>17 DEF Honest
    <3>3. ASSUME NEW t \in h.due
          PROVE  t \in 1..m /\ (r.db.credit[t] # <<>> \/ Covers(r.db, t))
      <4>1. t \in 1..m /\ (s.db.credit[t] # <<>> \/ Covers(s.db, t) \/ Waits(s.db, t))
        BY <3>1 DEF HonestLedger
      <4>2. CASE Covers(s.db, t)  BY <2>2, <2>7, <2>14, <4>1, <4>2 DEF Covers
      <4>3. CASE Waits(s.db, t)
        <5>1. s.trk.active # NotActive  BY <2>17, <4>3 DEF Honest, Waits
        <5>2. s.db.open.check.mono = a.mono  BY <1>0, <2>1, <5>1 DEF RowGood, Level
        <5> QED  BY <2>2, <2>7, <2>14, <4>1, <4>3, <5>2 DEF Waits, Covers
      <4> QED  BY <2>7, <2>14, <4>1, <4>2, <4>3
    <3> QED  BY <2>7, <2>14, <3>1, <3>2, <3>3 DEF Honest, HonestLedger
  <2> QED  BY <2>14, <2>15, <2>16, <2>17 DEF Interrupts
<1> QED  BY <1>4, <1>5, <1>6

\* Fields that no ledger reads may change once there is no interval.
LEMMA ViewKeeps ==
  ASSUME NEW s, NEW m, Sound(s, m), s.trk.active = NotActive, NEW r, r \in Books, r.db = s.db,
         r.trk.active = s.trk.active, r.trk.last = s.trk.last, r.trk.gapOpen = s.trk.gapOpen, NEW h
  PROVE  Sound(r, m) /\ (Honest(s, m, h) => Honest(r, m, h))
<1>1. Kept(r, m)  BY DEF Sound, Kept, LedgerGood, RowGood
<1>2. Level(r.trk) /\ Standing(r.trk)  BY DEF Level, Standing
<1>3. Honest(s, m, h) => Honest(r, m, h)  BY DEF Honest, HonestLedger
<1> QED  BY <1>1, <1>2, <1>3 DEF Sound

LEMMA MarkEventGapKeeps ==
  ASSUME NEW s, NEW m \in 0..MaxTime, Sound(s, m), ~s.err, NEW f, NEW r, r = MarkEventGap(s, f), NEW h
  PROVE  Interrupts(s, r, f, m, h) /\ (~r.err => ~r.trk.connected)
<1>1. PICK u : u = MarkGap(s, f)  OBVIOUS
<1>2. Interrupts(s, u, f, m, h)  BY <1>1, MarkGapKeeps
<1>3. r = Disconnected(u)  BY <1>1 DEF MarkEventGap
<1>4. CASE u.err
  BY <1>2, <1>3, <1>4 DEF Disconnected
<1>5. CASE ~u.err
  <2>1. r = [u EXCEPT !.trk.connected = FALSE, !.trk.focus = NoApp]  BY <1>3, <1>5 DEF Disconnected
  <2>2. u \in Books /\ u.trk \in Tracker /\ Sound(u, m) /\ u.trk.active = NotActive
    BY <1>2, <1>5 DEF Interrupts, Sound, Kept, Books
  <2>3. /\ r = [trk |-> r.trk, db |-> r.db, err |-> r.err] /\ r.db = u.db /\ r.err = u.err
        /\ r.trk = [u.trk EXCEPT !.connected = FALSE, !.focus = NoApp]
    BY <2>1, <2>2 DEF Books
  <2>4. /\ r.trk \in Tracker /\ ~r.trk.connected /\ r.trk.active = u.trk.active /\ r.trk.last = u.trk.last
        /\ r.trk.gapOpen = u.trk.gapOpen
    BY <2>2, <2>3 DEF Tracker
  <2>5. r \in Books  BY <2>2, <2>3, <2>4 DEF Books
  <2>6. Sound(r, m) /\ (Honest(u, m, h) => Honest(r, m, h))  BY <2>2, <2>3, <2>4, <2>5, ViewKeeps
  <2> QED  BY <1>2, <1>5, <2>2, <2>3, <2>4, <2>6 DEF Interrupts
<1> QED  BY <1>4, <1>5

LEMMA InSessionKeeps ==
  ASSUME NEW s, NEW u, NEW m, NEW f, NEW h, Interrupts(s, u, f, m, h), NEW r, r = InSession(u, "none")
  PROVE  Interrupts(s, r, f, m, h)
<1>1. CASE u.err
  BY <1>1 DEF InSession
<1>2. CASE ~u.err
  <2>1. r = [u EXCEPT !.trk.session = "none"]  BY <1>2 DEF InSession
  <2>2. u \in Books /\ u.trk \in Tracker /\ Sound(u, m) /\ u.trk.active = NotActive
    BY <1>2 DEF Interrupts, Sound, Kept, Books
  <2>3. /\ r = [trk |-> r.trk, db |-> r.db, err |-> r.err] /\ r.db = u.db /\ r.err = u.err
        /\ r.trk = [u.trk EXCEPT !.session = "none"]
    BY <2>1, <2>2 DEF Books
  <2>4. /\ r.trk \in Tracker /\ r.trk.connected = u.trk.connected /\ r.trk.active = u.trk.active
        /\ r.trk.last = u.trk.last /\ r.trk.gapOpen = u.trk.gapOpen
    BY <2>2, <2>3 DEF Tracker, SessionViews
  <2>5. r \in Books  BY <2>2, <2>3, <2>4 DEF Books
  <2>6. Sound(r, m) /\ (Honest(u, m, h) => Honest(r, m, h))  BY <2>2, <2>3, <2>4, <2>5, ViewKeeps
  <2> QED  BY <1>2, <2>2, <2>3, <2>4, <2>6 DEF Interrupts
<1> QED  BY <1>1, <1>2

LEMMA MarkSessionKeeps ==
  ASSUME NEW s, NEW m \in 0..MaxTime, Sound(s, m), ~s.err, NEW f, NEW r, r = MarkSessionUnavailable(s, f), NEW h
  PROVE  Interrupts(s, r, f, m, h)
<1>1. PICK u : u = MarkGap(s, f)  OBVIOUS
<1>2. Interrupts(s, u, f, m, h)  BY <1>1, MarkGapKeeps
<1>3. r = InSession(u, "none")  BY <1>1 DEF MarkSessionUnavailable
<1> QED  BY <1>2, <1>3, InSessionKeeps

LEMMA SessionEdgeKeeps ==
  ASSUME NEW s, NEW m, Sound(s, m), ~s.err, NEW now, SampledAt(now, m), NEW f, NEW r,
         r = ObserveSessionEdge(s, now, f), NEW h
  PROVE  Interrupts(s, r, f, m, h)
<1>0. /\ s \in Books /\ s.trk \in Tracker /\ m \in 0..MaxTime /\ MaxTime \in Nat
      /\ Kept(s, m) /\ Level(s.trk) /\ Standing(s.trk)
  BY UsageAssumption DEF Sound, Kept, Books, SampledAt
<1>1. PICK u : u = IF s.trk.session = "none" THEN [s EXCEPT !.trk.last = now] ELSE Advance(s, now, s.trk.session, f)
  OBVIOUS
<1>2. PICK v : v = CloseActive(u, f)  OBVIOUS
<1>3. r = InSession(v, "none")  BY <1>1, <1>2 DEF ObserveSessionEdge
<1>4. SUFFICES Interrupts(s, v, f, m, h)  BY <1>3, InSessionKeeps
<1>5. CASE s.trk.session = "none"
  <2>1. s.trk.active = NotActive  BY <1>0, <1>5 DEF Standing
  <2>2. u = [s EXCEPT !.trk.last = now]  BY <1>1, <1>5
  <2>3. SampleTaken(s, now, u, m)  BY <1>0, <2>2, SampleKeeps
  <2>4. Kept(u, m) /\ u.trk = [s.trk EXCEPT !.last = now] /\ u.db = s.db /\ u.err = s.err
    BY <2>3 DEF SampleTaken
  <2>5. u.trk.active = NotActive /\ u.trk.connected = s.trk.connected  BY <1>0, <2>1, <2>4 DEF Tracker
  <2>6. v = u  BY <1>2, <2>5 DEF CloseActive
  <2>7. Honest(s, m, h) => Honest(u, m, h)  BY <2>1, <2>4, <2>5 DEF Honest, HonestLedger
  <2> QED  BY <2>4, <2>5, <2>6, <2>7 DEF Interrupts, Sound, Level, Standing
<1>6. CASE s.trk.session # "none"
  <2>1. u = Advance(s, now, s.trk.session, f)  BY <1>1, <1>6
  <2>2. Advances(s, u, s.trk.session, f, m, h) /\ u.trk.gapOpen = s.trk.gapOpen
    BY <1>0, <2>1, AdvanceKeeps
  <2>3. CASE u.err
    <3>1. v = u  BY <1>2, <2>3 DEF CloseActive
    <3>2. Standing(u.trk)  BY <1>0, <2>2 DEF Advances, Standing
    <3> QED  BY <2>2, <2>3, <3>1, <3>2 DEF Interrupts, Sound, Advances
  <2>4. CASE ~u.err
    <3>1. Kept(u, m) /\ u \in Books /\ u.trk \in Tracker /\ (u.trk.active # NotActive => u.db.open.app \in Apps)
      BY <2>2 DEF Advances, Kept, RowGood, Books
    <3>2. Closes(u, v, f, m)  BY <1>0, <1>2, <2>4, <3>1, CloseActiveKeeps DEF Kept
    <3>3. /\ Kept(v, m) /\ v.trk = [u.trk EXCEPT !.active = NotActive] /\ v.trk.active = NotActive
          /\ v.db.gap = u.db.gap /\ v.db.gaps = u.db.gaps /\ v.db.credit = u.db.credit
          /\ f # "close" => ~v.err
          /\ ~v.err /\ u.trk.active # NotActive => v.db.open = NoRow
          /\ u.trk.active = NotActive => v = u
      BY <3>2 DEF Closes
    <3>4. v.trk.connected = s.trk.connected  BY <2>2, <3>1, <3>3 DEF Advances, Tracker
    <3>5. ASSUME f = "none", Honest(s, m, h)
          PROVE  Honest(v, m, h)
      <4>1. Honest(u, m, h)  BY <2>2, <3>5 DEF Advances
      <4>2. HonestLedger(u.trk, u.db, m, h) /\ v.db.open = NoRow  BY <3>3, <3>5, <4>1 DEF Honest
      <4>3. ASSUME NEW t \in h.due
            PROVE  t \in 1..m /\ (v.db.credit[t] # <<>> \/ Covers(v.db, t))
        <5>1. t \in 1..m /\ (u.db.credit[t] # <<>> \/ Covers(u.db, t) \/ Waits(u.db, t))
          BY <4>2 DEF HonestLedger
        <5>2. ~Waits(u.db, t)
          <6>1. CASE u.trk.active = NotActive  BY <4>1, <6>1 DEF Honest, Waits
          <6>2. CASE u.trk.active # NotActive
            <7>1. s.trk.session = "permit"  BY <1>0, <2>2, <6>2 DEF Advances, Standing
            <7>2. u.trk.active.counted.mono = m  BY <2>2, <2>4, <6>2, <7>1 DEF Advances
            <7>3. u.db.open.check.mono = m  BY <3>1, <6>2, <7>2 DEF Kept, RowGood
            <7> QED  BY <1>0, <5>1, <7>3 DEF Waits
          <6> QED  BY <6>1, <6>2
        <5>3. Covers(u.db, t) => Covers(v.db, t)  BY <3>3 DEF Covers
        <5> QED  BY <3>3, <5>1, <5>2, <5>3
      <4> QED  BY <3>3, <4>2, <4>3 DEF Honest, HonestLedger
    <3>6. Sound(v, m)  BY <3>3 DEF Sound, Level, Standing
    <3> QED  BY <3>3, <3>4, <3>5, <3>6 DEF Interrupts
  <2> QED  BY <2>3, <2>4
<1> QED  BY <1>5, <1>6

-----------------------------------------------------------------------------
(* The worker *)

\* An edge closes the interval and forgets the session; the source stays.
LEMMA SessionEdgeKeepsSource ==
  ASSUME NEW s, NEW m, Sound(s, m), ~s.err, NEW now, SampledAt(now, m), NEW f, NEW r,
         r = ObserveSessionEdge(s, now, f)
  PROVE  r.trk.gapOpen = s.trk.gapOpen /\ r.trk.connected = s.trk.connected
<1>0. /\ s \in Books /\ s.trk \in Tracker /\ m \in 0..MaxTime /\ Kept(s, m) /\ Level(s.trk)
  BY DEF Sound, Kept, Books, SampledAt
<1>1. PICK u : u = IF s.trk.session = "none" THEN [s EXCEPT !.trk.last = now] ELSE Advance(s, now, s.trk.session, f)
  OBVIOUS
<1>2. PICK v : v = CloseActive(u, f)  OBVIOUS
<1>3. r = InSession(v, "none")  BY <1>1, <1>2 DEF ObserveSessionEdge
<1>4. Kept(u, m) /\ u \in Books /\ u.trk.gapOpen = s.trk.gapOpen /\ u.trk.connected = s.trk.connected
  <2>1. CASE s.trk.session = "none"
    <3>1. SampleTaken(s, now, u, m)  BY <1>0, <1>1, <2>1, SampleKeeps
    <3>2. Kept(u, m) /\ u.trk = [s.trk EXCEPT !.last = now] /\ u \in Books  BY <3>1 DEF SampleTaken, Kept
    <3> QED  BY <1>0, <3>2 DEF Tracker
  <2>2. CASE s.trk.session # "none"
    <3>1. u = Advance(s, now, s.trk.session, f)  BY <1>1, <2>2
    <3>2. Advances(s, u, s.trk.session, f, m, s) /\ u.trk.gapOpen = s.trk.gapOpen
      BY <1>0, <3>1, AdvanceKeeps
    <3> QED  BY <3>2 DEF Advances, Kept
  <2> QED  BY <2>1, <2>2
<1>5. v \in Books /\ v.trk.gapOpen = u.trk.gapOpen /\ v.trk.connected = u.trk.connected
  <2>1. CASE u.err
    <3>1. v = u  BY <1>2, <2>1 DEF CloseActive
    <3> QED  BY <1>4, <3>1
  <2>2. CASE ~u.err
    <3>1. Closes(u, v, f, m)  BY <1>0, <1>2, <1>4, <2>2, CloseActiveKeeps DEF Kept, RowGood
    <3>2. v \in Books /\ v.trk = [u.trk EXCEPT !.active = NotActive] /\ u.trk \in Tracker
      BY <1>4, <3>1 DEF Closes, Kept, Books
    <3> QED  BY <3>2 DEF Tracker
  <2> QED  BY <2>1, <2>2
<1>6. r = v \/ r = [v EXCEPT !.trk.session = "none"]  BY <1>3 DEF InSession
<1> QED  BY <1>4, <1>5, <1>6 DEF Books, Tracker

Worker ==
  [running : BOOLEAN, pc : {"loop", "probing", "probed"}, niri : BOOLEAN, seen : BOOLEAN,
   logindStream : BOOLEAN, idleStream : BOOLEAN, inputIdle : BOOLEAN, avail : BOOLEAN,
   focus : Apps \cup {NoApp}, probe : {"permit", "deny"}, cap : {"healthy", "degraded", "unreachable"}]

\* Two workers that differ in what they publish and where they are.
Alike(w, x) ==
  /\ x.running = w.running /\ x.niri = w.niri /\ x.seen = w.seen /\ x.logindStream = w.logindStream
  /\ x.idleStream = w.idleStream /\ x.inputIdle = w.inputIdle /\ x.focus = w.focus /\ x.probe = w.probe

\* What a handler of the worker makes of the tracker s and the worker w.
Handles(s, w, p, f, m, h) ==
  /\ Sound(p.st, m) /\ ~p.st.err /\ p.wk \in Worker /\ Alike(w, p.wk)
  /\ p.st.trk.connected => s.trk.connected
  /\ f = "none" => p.st.trk.active = NotActive \/ p.st = s
  /\ f = "none" /\ Honest(s, m, h) => Honest(p.st, m, h)
  /\ p.wk.cap = "healthy" => p.st = s /\ w.cap = "healthy"

Pauses(s, w, p, f, m, h) ==
  /\ Handles(s, w, p, f, m, h) /\ p.wk.pc = w.pc /\ p.wk.cap # "healthy"
  /\ f = "none" => p.st.trk.active = NotActive

\* A pause that need not say so: what was healthy may still be called so.
PausesUnsaid(s, w, p, f, m, h) ==
  /\ Sound(p.st, m) /\ ~p.st.err /\ p.wk \in Worker /\ Alike(w, p.wk) /\ p.wk.pc = w.pc
  /\ p.st.trk.connected => s.trk.connected
  /\ f = "none" => p.st.trk.active = NotActive
  /\ f = "none" /\ Honest(s, m, h) => Honest(p.st, m, h)
  /\ p.wk.cap = "healthy" =>
       /\ w.cap = "healthy" /\ ~p.wk.avail
       /\ p.st.trk.gapOpen = s.trk.gapOpen /\ p.st.trk.connected = s.trk.connected

Refreshes(s, w, edge, p, f, m, h) ==
  /\ Handles(s, w, p, f, m, h)
  /\ p.wk.cap = "healthy" => p.wk.avail = w.avail /\ p.wk.pc = "probing"
  /\ w.logindStream /\ w.idleStream => p.wk.pc = "probing"
  /\ w.logindStream /\ w.idleStream /\ edge /\ f = "none" => p.st.trk.active = NotActive
  /\ ~(w.logindStream /\ w.idleStream) => p.wk.pc = "loop"

LEMMA ErrorForgotten ==
  ASSUME NEW s, NEW m, Sound(s, m), NEW r, r = [s EXCEPT !.err = FALSE]
  PROVE  Sound(r, m) /\ ~r.err /\ r.trk = s.trk /\ r.db = s.db
<1>1. s \in Books  BY DEF Sound, Kept
<1>2. r \in Books /\ ~r.err /\ r.trk = s.trk /\ r.db = s.db  BY <1>1 DEF Books
<1> QED  BY <1>2 DEF Sound, Kept

LEMMA Published ==
  ASSUME NEW w \in Worker, NEW r, r = Publish(w)
  PROVE  /\ r \in Worker /\ Alike(w, r) /\ r.pc = w.pc /\ r.avail = w.avail
         /\ r.cap # "unreachable" /\ (r.cap = "healthy" => w.seen /\ w.avail)
<1>1. PICK c : c = Capability(w)  OBVIOUS
<1>2. c \in {"healthy", "degraded"} /\ (c = "healthy" => w.seen /\ w.avail)  BY <1>1 DEF Capability
<1>3. r = [w EXCEPT !.cap = c]  BY <1>1 DEF Publish
<1> QED  BY <1>2, <1>3 DEF Worker, Alike

LEMMA LostHandles ==
  ASSUME NEW s, NEW w \in Worker, NEW m \in 0..MaxTime, Sound(s, m), ~s.err, NEW f, NEW p, p = LostStream(s, w, f), NEW h
  PROVE  Pauses(s, w, p, f, m, h)
<1>1. PICK r : r = MarkSessionUnavailable(s, f)  OBVIOUS
<1>2. Interrupts(s, r, f, m, h)  BY <1>1, MarkSessionKeeps
<1>4. PICK q : q = [r EXCEPT !.err = FALSE]  OBVIOUS
<1>5. Sound(q, m) /\ ~q.err /\ q.trk = r.trk /\ q.db = r.db
  BY <1>2, <1>4, ErrorForgotten DEF Interrupts
<1>6. PICK y : y = [w EXCEPT !.avail = FALSE]  OBVIOUS
<1>7. y \in Worker /\ Alike(w, y) /\ y.pc = w.pc /\ ~y.avail  BY <1>6 DEF Worker, Alike
<1>8. PICK x : x = Publish(y)  OBVIOUS
<1>9. /\ x \in Worker /\ Alike(y, x) /\ x.pc = y.pc /\ (x.cap = "healthy" => y.seen /\ y.avail)
  BY <1>7, <1>8, Published
<1>10. p = [st |-> q, wk |-> x]  BY <1>1, <1>4, <1>6, <1>8 DEF LostStream
<1>11. p.st = q /\ p.wk = x /\ Alike(w, x)  BY <1>7, <1>9, <1>10 DEF Alike
<1>12. Honest(r, m, h) => Honest(q, m, h)  BY <1>5 DEF Honest
<1> QED  BY <1>2, <1>5, <1>7, <1>9, <1>11, <1>12 DEF Pauses, Handles, Interrupts

LEMMA PauseHandles ==
  ASSUME NEW s, NEW w \in Worker, NEW m, Sound(s, m), ~s.err, SampledAt(Sample, m), NEW f, NEW p, p = Pause(s, w, f), NEW h
  PROVE  Pauses(s, w, p, f, m, h) /\ p = [st |-> p.st, wk |-> p.wk]
<1>0. m \in 0..MaxTime  BY DEF SampledAt
<1>1. CASE f = "clock"
  <2>1. p = LostStream(s, w, f)  BY <1>1 DEF Pause
  <2> QED  BY <1>0, <2>1, LostHandles DEF LostStream
<1>2. CASE f # "clock"
  <2>1. PICK r : r = ObserveSessionEdge(s, Sample, f)  OBVIOUS
  <2>2. Interrupts(s, r, f, m, h)  BY <2>1, SessionEdgeKeeps
  <2>3. p = Paused(r, w)  BY <1>2, <2>1 DEF Pause
  <2>4. PICK q : q = [r EXCEPT !.err = FALSE]  OBVIOUS
  <2>5. Sound(q, m) /\ ~q.err /\ q.trk = r.trk /\ q.db = r.db
    BY <2>2, <2>4, ErrorForgotten DEF Interrupts
  <2>6. PICK x : x = IF r.err THEN Unavailable(w) ELSE Publish([w EXCEPT !.avail = FALSE])  OBVIOUS
  <2>7. x \in Worker /\ Alike(w, x) /\ x.pc = w.pc /\ x.cap # "healthy"
    <3>1. CASE r.err
      <4>1. x = [w EXCEPT !.cap = "unreachable"]  BY <2>6, <3>1 DEF Unavailable
      <4> QED  BY <4>1 DEF Worker, Alike
    <3>2. CASE ~r.err
      <4>1. PICK y : y = [w EXCEPT !.avail = FALSE]  OBVIOUS
      <4>2. y \in Worker /\ Alike(w, y) /\ y.pc = w.pc /\ ~y.avail  BY <4>1 DEF Worker, Alike
      <4>3. x = Publish(y)  BY <2>6, <3>2, <4>1
      <4>4. /\ x \in Worker /\ Alike(y, x) /\ x.pc = y.pc /\ (x.cap = "healthy" => y.seen /\ y.avail)
        BY <4>2, <4>3, Published
      <4> QED  BY <4>2, <4>4 DEF Alike
    <3> QED  BY <3>1, <3>2
  <2>8. p = [st |-> q, wk |-> x]  BY <2>3, <2>4, <2>6 DEF Paused
  <2>9. p.st = q /\ p.wk = x  BY <2>8
  <2>10. Honest(r, m, h) => Honest(q, m, h)  BY <2>5 DEF Honest
  <2>11. p = [st |-> p.st, wk |-> p.wk]  BY <2>8
  <2> QED  BY <2>2, <2>5, <2>7, <2>9, <2>10, <2>11 DEF Pauses, Handles, Interrupts
<1> QED  BY <1>1, <1>2

LEMMA SaidOrNot ==
  ASSUME NEW s, NEW w, NEW p, NEW f, NEW m, NEW h, Pauses(s, w, p, f, m, h)
  PROVE  PausesUnsaid(s, w, p, f, m, h)
BY DEF Pauses, PausesUnsaid, Handles

\* A pause at an idle edge: as above, but a success is not published.
LEMMA IdlePauseHandles ==
  ASSUME NEW s, NEW w \in Worker, NEW m, Sound(s, m), ~s.err, SampledAt(Sample, m), NEW f, NEW p,
         p = PauseForIdleEdge(s, w, f), NEW h
  PROVE  PausesUnsaid(s, w, p, f, m, h) /\ p = [st |-> p.st, wk |-> p.wk]
<1>0. m \in 0..MaxTime  BY DEF SampledAt
<1>1. CASE f = "clock"
  <2>1. p = LostStream(s, w, f)  BY <1>1 DEF PauseForIdleEdge
  <2> QED  BY <1>0, <2>1, LostHandles, SaidOrNot DEF LostStream
<1>2. CASE f # "clock"
  <2>1. PICK r : r = ObserveSessionEdge(s, Sample, f)  OBVIOUS
  <2>2. Interrupts(s, r, f, m, h)  BY <2>1, SessionEdgeKeeps
  <2>3. r.trk.gapOpen = s.trk.gapOpen /\ r.trk.connected = s.trk.connected  BY <2>1, SessionEdgeKeepsSource
  <2>4. p = PausedUnsaid(r, w)  BY <1>2, <2>1 DEF PauseForIdleEdge
  <2>5. PICK q : q = [r EXCEPT !.err = FALSE]  OBVIOUS
  <2>6. Sound(q, m) /\ ~q.err /\ q.trk = r.trk /\ q.db = r.db
    BY <2>2, <2>5, ErrorForgotten DEF Interrupts
  <2>7. PICK x : x = IF r.err THEN Unavailable(w) ELSE [w EXCEPT !.avail = FALSE]  OBVIOUS
  <2>8. /\ x \in Worker /\ Alike(w, x) /\ x.pc = w.pc
        /\ x.cap = "healthy" => w.cap = "healthy" /\ ~x.avail
    <3>1. CASE r.err
      <4>1. x = [w EXCEPT !.cap = "unreachable"]  BY <2>7, <3>1 DEF Unavailable
      <4> QED  BY <4>1 DEF Worker, Alike
    <3>2. CASE ~r.err
      <4>1. x = [w EXCEPT !.avail = FALSE]  BY <2>7, <3>2
      <4> QED  BY <4>1 DEF Worker, Alike
    <3> QED  BY <3>1, <3>2
  <2>9. p = [st |-> q, wk |-> x]  BY <2>4, <2>5, <2>7 DEF PausedUnsaid
  <2>10. p.st = q /\ p.wk = x /\ p = [st |-> p.st, wk |-> p.wk]  BY <2>9
  <2>11. Honest(r, m, h) => Honest(q, m, h)  BY <2>6 DEF Honest
  <2> QED  BY <2>2, <2>3, <2>6, <2>8, <2>10, <2>11 DEF PausesUnsaid, Interrupts
<1> QED  BY <1>1, <1>2

\* refresh_session begins: without both streams the session is unknown; a pending
\* edge ends the interval before the probe starts.
LEMMA RefreshHandles ==
  ASSUME NEW s, NEW w \in Worker, NEW m, Sound(s, m), ~s.err, SampledAt(Sample, m), NEW edge, NEW f, NEW p,
         p = Refresh(s, w, edge, f), NEW h
  PROVE  Refreshes(s, w, edge, p, f, m, h)
<1>1. CASE ~w.idleStream \/ ~w.logindStream
  <2>1. PICK y : y = [w EXCEPT !.avail = FALSE, !.pc = "loop"]  OBVIOUS
  <2>2. y \in Worker /\ Alike(w, y) /\ y.pc = "loop" /\ ~y.avail  BY <2>1 DEF Worker, Alike
  <2>3. PICK x : x = Publish(y)  OBVIOUS
  <2>4. /\ x \in Worker /\ Alike(y, x) /\ x.pc = y.pc /\ (x.cap = "healthy" => y.seen /\ y.avail)
    BY <2>2, <2>3, Published
  <2>5. p = [st |-> s, wk |-> x]  BY <1>1, <2>1, <2>3 DEF Refresh
  <2>6. p.st = s /\ p.wk = x /\ Alike(w, x)  BY <2>2, <2>4, <2>5 DEF Alike
  <2> QED  BY <1>1, <2>2, <2>4, <2>6 DEF Refreshes, Handles
<1>2. CASE w.idleStream /\ w.logindStream
  <2>1. PICK q : q = IF edge THEN Pause(s, w, f) ELSE [st |-> s, wk |-> w]  OBVIOUS
  <2>2. p = [q EXCEPT !.wk.pc = "probing"]  BY <1>2, <2>1 DEF Refresh
  <2>3. /\ q = [st |-> q.st, wk |-> q.wk] /\ Handles(s, w, q, f, m, h)
        /\ edge /\ f = "none" => q.st.trk.active = NotActive
        /\ q.wk.cap = "healthy" => q.wk.avail = w.avail
    <3>1. CASE edge
      <4>1. q = Pause(s, w, f)  BY <2>1, <3>1
      <4>2. Pauses(s, w, q, f, m, h) /\ q = [st |-> q.st, wk |-> q.wk]  BY <4>1, PauseHandles
      <4> QED  BY <4>2 DEF Pauses
    <3>2. CASE ~edge
      <4>1. q = [st |-> s, wk |-> w]  BY <2>1, <3>2
      <4>2. q.st = s /\ q.wk = w  BY <4>1
      <4> QED  BY <3>2, <4>1, <4>2 DEF Handles, Alike
    <3> QED  BY <3>1, <3>2
  <2>4. p.st = q.st /\ p.wk = [q.wk EXCEPT !.pc = "probing"]  BY <2>2, <2>3
  <2>5. q.wk \in Worker  BY <2>3 DEF Handles
  <2>6. p.wk \in Worker /\ Alike(q.wk, p.wk) /\ p.wk.pc = "probing" /\ p.wk.cap = q.wk.cap /\ p.wk.avail = q.wk.avail
    BY <2>4, <2>5 DEF Worker, Alike
  <2>7. Handles(s, w, p, f, m, h)  BY <2>3, <2>4, <2>6 DEF Handles, Alike
  <2> QED  BY <1>2, <2>3, <2>4, <2>6, <2>7 DEF Refreshes
<1> QED  BY <1>1, <1>2

-----------------------------------------------------------------------------
(* The invariant of usage tracking *)

Streams == [logind : BOOLEAN, idle : Seq(BOOLEAN), niri : Seq(Apps)]
History == [due : SUBSET (1..MaxTime), countable : [1..MaxTime -> SUBSET Apps], intact : BOOLEAN]

\* The ledger is sound whatever failed; while nothing failed it is honest too.
UsageInv ==
  /\ clk \in [mono : 0..MaxTime, skew : -2..2, zone : 0..1]
  /\ world \in [permit : BOOLEAN, idle : BOOLEAN, focus : Apps]
  /\ wrk \in Worker /\ edges \in Streams /\ hist \in History /\ left \in 0..Disturbances
  /\ Sound(S0, clk.mono)
  /\ StreamsTell(wrk, edges, world)
  /\ hist.intact => HonestLedger(trk, db, clk.mono, hist) /\ HonestWorker(trk, db, wrk, edges, world)

LEMMA S0Is == S0.trk = trk /\ S0.db = db /\ ~S0.err
BY DEF S0

LEMMA SampleIsNow == UsageInv => SampledAt(Sample, clk.mono) /\ clk.mono \in 0..MaxTime
<1> SUFFICES ASSUME UsageInv PROVE SampledAt(Sample, clk.mono) /\ clk.mono \in 0..MaxTime  OBVIOUS
<1>1. clk.mono \in 0..MaxTime /\ clk.skew \in -2..2 /\ clk.zone \in 0..1 /\ MaxTime \in Nat
  BY UsageAssumption DEF UsageInv
<1>2. Epoch = 4  BY DEF Epoch
<1>3. /\ Sample.mono = clk.mono /\ Sample.wall = Epoch + clk.mono + clk.skew
      /\ Sample \in [mono : {clk.mono}, wall : {Epoch + clk.mono + clk.skew}, zone : {clk.zone}]
  BY DEF Sample
<1>4. Epoch + clk.mono + clk.skew \in 0..Epoch + MaxTime + 2  BY <1>1, <1>2
<1>5. Epoch + clk.mono + clk.skew \in Int  BY <1>1, <1>2
<1>6. Sample \in Samples
  <2>1. clk.mono \in NoTime..MaxTime  BY <1>1 DEF NoTime
  <2> QED  BY <1>1, <1>3, <1>5, <2>1 DEF Samples
<1> QED  BY <1>1, <1>3, <1>4, <1>6 DEF SampledAt

\* While the worker runs and nothing failed the tracker's record is honest.
LEMMA RunningIsHonest == UsageInv /\ hist.intact /\ wrk.running => Honest(S0, clk.mono, hist)
BY S0Is DEF UsageInv, Honest, HonestWorker

LEMMA SoundAgain ==
  ASSUME NEW q, NEW m, Sound(q, m), NEW r, r = [trk |-> q.trk, db |-> q.db, err |-> FALSE]
  PROVE  Sound(r, m)
<1>1. q \in Books  BY DEF Sound, Kept
<1>2. r \in Books /\ r.trk = q.trk /\ r.db = q.db  BY <1>1 DEF Books
<1> QED  BY <1>2 DEF Sound, Kept

\* What a step of the worker has to show.
LEMMA WorkerStep ==
  ASSUME UsageInv, UNCHANGED <<clk, world>>, NEW q, trk' = q.trk, db' = q.db, Sound(q, clk.mono),
         wrk' \in Worker, edges' \in Streams, NEW f, NEW n \in {0, 1}, left >= n + Cost(f), Spend(n, f),
         StreamsTell(wrk', edges', world),
         hist.intact /\ f = "none" =>
           HonestLedger(q.trk, q.db, clk.mono, hist) /\ HonestWorker(q.trk, q.db, wrk', edges', world)
  PROVE  UsageInv'
<1>1. left' \in 0..Disturbances
  <2>1. left \in 0..Disturbances /\ Disturbances \in Nat  BY UsageAssumption DEF UsageInv
  <2>2. Cost(f) \in {0, 1}  BY DEF Cost
  <2>3. left' = left - n - Cost(f)  BY DEF Spend
  <2> QED  BY <2>1, <2>2, <2>3
<1>2. hist \in History /\ hist' = [hist EXCEPT !.intact = hist.intact /\ f = "none"]  BY DEF Spend, UsageInv
<1>3. hist' \in History /\ hist'.due = hist.due /\ hist'.countable = hist.countable /\ (hist'.intact <=> hist.intact /\ f = "none")
  BY <1>2 DEF History
<1>4. PICK r : r = [trk |-> q.trk, db |-> q.db, err |-> FALSE]  OBVIOUS
<1>5. Sound(r, clk.mono)  BY <1>4, SoundAgain
<1>6. S0' = r /\ clk' = clk /\ world' = world  BY <1>4 DEF S0
<1>7. Sound(S0', clk'.mono)  BY <1>5, <1>6
<1>8. ASSUME hist'.intact
      PROVE  HonestLedger(trk', db', clk'.mono, hist') /\ HonestWorker(trk', db', wrk', edges', world')
  <2>1. HonestLedger(q.trk, q.db, clk.mono, hist) /\ HonestWorker(q.trk, q.db, wrk', edges', world)
    BY <1>3, <1>8
  <2>2. HonestLedger(q.trk, q.db, clk.mono, hist')  BY <1>3, <2>1 DEF HonestLedger
  <2> QED  BY <1>6, <2>1, <2>2
<1>9. StreamsTell(wrk', edges', world')  BY <1>6
<1>10. /\ clk' \in [mono : 0..MaxTime, skew : -2..2, zone : 0..1]
       /\ world' \in [permit : BOOLEAN, idle : BOOLEAN, focus : Apps]
  BY <1>6 DEF UsageInv
<1> QED  BY <1>1, <1>3, <1>7, <1>8, <1>9, <1>10 DEF UsageInv

\* The edges that a drain leaves.
LEMMA Drained ==
  ASSUME NEW w, NEW e, e = AfterDrain(w), edges \in Streams
  PROVE  /\ e \in Streams /\ e.idle = edges.idle /\ e.niri = edges.niri
         /\ w.idleStream /\ w.logindStream => ~e.logind
         /\ ~(w.idleStream /\ w.logindStream) => e = edges
BY DEF AfterDrain, Streams

\* A refresh that begins in the loop.
LEMMA RefreshBeginsKeeps == ASSUME UsageInv, NEW f, RefreshBegins(f) PROVE UsageInv'
<1>0. SampledAt(Sample, clk.mono) /\ Sound(S0, clk.mono) /\ ~S0.err /\ wrk \in Worker /\ edges \in Streams
  BY SampleIsNow, S0Is DEF UsageInv
<1>1. PICK p : p = Refresh(S0, wrk, edges.logind, f)  OBVIOUS
<1>2. Refreshes(S0, wrk, edges.logind, p, f, clk.mono, hist)  BY <1>0, <1>1, RefreshHandles
<1>3. trk' = p.st.trk /\ db' = p.st.db /\ wrk' = p.wk  BY <1>1 DEF RefreshBegins, Apply, Commit
<1>4. /\ Sound(p.st, clk.mono) /\ p.wk \in Worker /\ Alike(wrk, p.wk)
      /\ p.st.trk.connected => trk.connected
      /\ f = "none" => p.st.trk.active = NotActive \/ p.st = S0
      /\ f = "none" /\ Honest(S0, clk.mono, hist) => Honest(p.st, clk.mono, hist)
      /\ p.wk.cap = "healthy" => p.st = S0 /\ wrk.cap = "healthy"
  BY <1>2, S0Is DEF Refreshes, Handles
<1>5. /\ edges' \in Streams /\ edges'.idle = edges.idle /\ edges'.niri = edges.niri
      /\ wrk.idleStream /\ wrk.logindStream => ~edges'.logind
      /\ ~(wrk.idleStream /\ wrk.logindStream) => edges' = edges
  BY <1>0, Drained DEF RefreshBegins
<1>6. /\ p.wk.pc \in {"loop", "probing"} /\ (p.wk.pc # "loop" => wrk.logindStream /\ wrk.idleStream)
      /\ wrk.logindStream /\ wrk.idleStream => p.wk.pc = "probing"
      /\ wrk.logindStream /\ wrk.idleStream /\ edges.logind /\ f = "none" => p.st.trk.active = NotActive
  BY <1>2 DEF Refreshes
<1>7. StreamsTell(wrk, edges, world)  BY DEF UsageInv
<1>8. StreamsTell(p.wk, edges', world)  BY <1>4, <1>5, <1>6, <1>7 DEF StreamsTell, Alike
<1>9. ASSUME hist.intact, f = "none"
      PROVE  HonestLedger(p.st.trk, p.st.db, clk.mono, hist) /\ HonestWorker(p.st.trk, p.st.db, p.wk, edges', world)
  <2>1. Honest(S0, clk.mono, hist) /\ wrk.running  BY <1>9, RunningIsHonest DEF RefreshBegins
  <2>2. Honest(p.st, clk.mono, hist)  BY <1>4, <1>9, <2>1
  <2>3. HonestWorker(trk, db, wrk, edges, world)  BY <1>9 DEF UsageInv
  <2>4. ASSUME p.st.trk.active # NotActive
        PROVE  /\ p.wk.running /\ p.wk.niri /\ p.wk.logindStream /\ p.wk.idleStream /\ ~p.wk.inputIdle
               /\ edges'.logind \/ (world.permit /\ (p.wk.pc = "probed" => p.wk.probe = "permit"))
               /\ edges'.niri # <<>> \/ p.wk.pc # "loop" \/ world.focus = p.st.trk.active.app
    <3>1. p.st = S0 /\ trk.active # NotActive  BY <1>4, <1>9, <2>4, S0Is
    <3>2. /\ wrk.running /\ wrk.niri /\ wrk.logindStream /\ wrk.idleStream /\ ~wrk.inputIdle
          /\ edges.logind \/ world.permit
      BY <2>3, <3>1 DEF HonestWorker
    <3>3. ~edges.logind  BY <1>6, <1>9, <2>4, <3>2
    <3> QED  BY <1>4, <1>6, <3>2, <3>3 DEF Alike
  <2>5. p.wk.running => (p.wk.seen \/ ~p.st.trk.connected) /\ (p.st.trk.active = NotActive => p.st.db.open = NoRow)
    BY <1>4, <2>2, <2>3 DEF HonestWorker, Honest, Alike
  <2>6. p.wk.running /\ p.wk.cap = "healthy" =>
          p.st.db.gap = NoSample /\ ~p.st.trk.gapOpen /\ p.st.trk.connected /\ p.st.trk.session # "none"
    BY <1>4, <2>1, <2>3, S0Is DEF HonestWorker, ProbesAfter, RefreshBegins
  <2> QED  BY <2>2, <2>4, <2>5, <2>6 DEF Honest, HonestWorker
<1>10. left >= 0 + Cost(f) /\ Spend(0, f) /\ UNCHANGED <<clk, world>>
  BY UsageAssumption DEF RefreshBegins, Affordable, Cost, UsageInv
<1> QED  BY <1>3, <1>4, <1>5, <1>8, <1>9, <1>10, WorkerStep

LEMMA ProbeKeeps == ASSUME UsageInv, Probe PROVE UsageInv'
<1>1. wrk \in Worker /\ wrk' = [wrk EXCEPT !.pc = "probed", !.probe = IF world.permit THEN "permit" ELSE "deny"]
  BY DEF UsageInv, Probe
<1>2. /\ wrk' \in Worker /\ wrk'.pc = "probed" /\ wrk'.probe = (IF world.permit THEN "permit" ELSE "deny")
      /\ wrk'.running = wrk.running /\ wrk'.niri = wrk.niri /\ wrk'.seen = wrk.seen
      /\ wrk'.logindStream = wrk.logindStream /\ wrk'.idleStream = wrk.idleStream
      /\ wrk'.inputIdle = wrk.inputIdle /\ wrk'.focus = wrk.focus /\ wrk'.cap = wrk.cap /\ wrk'.avail = wrk.avail
  BY <1>1 DEF Worker
<1>3. UNCHANGED <<clk, world, edges, trk, db, hist, left>> /\ wrk.pc = "probing"  BY DEF Probe
<1>4. StreamsTell(wrk', edges, world)  BY <1>2, <1>3 DEF UsageInv, StreamsTell
<1>5. hist.intact => HonestLedger(trk, db, clk.mono, hist) /\ HonestWorker(trk, db, wrk', edges, world)
  BY <1>2, <1>3 DEF UsageInv, HonestWorker, ProbesAfter
<1>6. Sound(S0', clk'.mono)
  <2>1. S0' = S0  BY <1>3 DEF S0
  <2> QED  BY <1>3, <2>1 DEF UsageInv
<1> QED  BY <1>2, <1>3, <1>4, <1>5, <1>6 DEF UsageInv

\* A step that leaves no interval and nothing healthy.
LEMMA QuietWorker ==
  ASSUME NEW k, NEW d, NEW w, NEW e, k.active = NotActive, w.running => (w.seen \/ ~k.connected) /\ d.open = NoRow,
         w.running /\ w.cap = "healthy" =>
           d.gap = NoSample /\ ~k.gapOpen /\ k.connected /\ w.pc # "loop" /\ ~w.avail
  PROVE  HonestWorker(k, d, w, e, world)
BY DEF HonestWorker, ProbesAfter

LEMMA ProbeFailsKeeps == ASSUME UsageInv, NEW f, ProbeFails(f) PROVE UsageInv'
<1>0. clk.mono \in 0..MaxTime /\ Sound(S0, clk.mono) /\ ~S0.err /\ wrk \in Worker /\ edges \in Streams
  BY SampleIsNow, S0Is DEF UsageInv
<1>1. PICK r : r = MarkSessionUnavailable(S0, f)  OBVIOUS
<1>2. Interrupts(S0, r, f, clk.mono, hist)  BY <1>0, <1>1, MarkSessionKeeps
<1>3. PICK q : q = [r EXCEPT !.err = FALSE]  OBVIOUS
<1>4. Sound(q, clk.mono) /\ q.trk = r.trk /\ q.db = r.db  BY <1>2, <1>3, ErrorForgotten DEF Interrupts
<1>5. trk' = q.trk /\ db' = q.db  BY <1>1, <1>3 DEF ProbeFails, Commit
<1>6. PICK y : y = [wrk EXCEPT !.avail = FALSE, !.pc = "loop"]  OBVIOUS
<1>7. y \in Worker /\ Alike(wrk, y) /\ y.pc = "loop" /\ ~y.avail  BY <1>0, <1>6 DEF Worker, Alike
<1>8. wrk' = Publish(y)  BY <1>6 DEF ProbeFails
<1>9. /\ wrk' \in Worker /\ Alike(y, wrk') /\ wrk'.pc = "loop" /\ wrk'.cap # "healthy"
  BY <1>7, <1>8, Published
<1>10. edges' = edges /\ UNCHANGED <<clk, world>> /\ wrk.running  BY DEF ProbeFails
<1>11. Alike(wrk, wrk')  BY <1>7, <1>9 DEF Alike
<1>12. StreamsTell(wrk', edges', world)  BY <1>9, <1>10, <1>11 DEF UsageInv, StreamsTell, Alike
<1>13. ASSUME hist.intact, f = "none"
       PROVE  HonestLedger(q.trk, q.db, clk.mono, hist) /\ HonestWorker(q.trk, q.db, wrk', edges', world)
  <2>1. Honest(r, clk.mono, hist) /\ r.trk.active = NotActive /\ (r.trk.connected => trk.connected)
    BY <1>2, <1>10, <1>13, RunningIsHonest, S0Is DEF Interrupts
  <2>2. wrk.seen \/ ~trk.connected  BY <1>10, <1>13 DEF UsageInv, HonestWorker
  <2> QED  BY <1>4, <1>9, <1>11, <2>1, <2>2, QuietWorker DEF Honest, Alike
<1>14. left >= 1 + Cost(f) /\ Spend(1, f)
  <2>1. left > Cost(f) /\ left \in Int /\ Cost(f) \in Int  BY DEF ProbeFails, UsageInv, Cost
  <2> QED  BY <2>1 DEF ProbeFails
<1> QED  BY <1>0, <1>4, <1>5, <1>9, <1>10, <1>12, <1>13, <1>14, WorkerStep

\* refresh_session ends: the second drain, then the tracker is told.
LEMMA RefreshEndsKeeps == ASSUME UsageInv, NEW f, RefreshEnds(f) PROVE UsageInv'
<1>0. /\ SampledAt(Sample, clk.mono) /\ Sound(S0, clk.mono) /\ ~S0.err /\ wrk \in Worker /\ edges \in Streams
      /\ wrk.pc = "probed" /\ wrk.running /\ StreamsTell(wrk, edges, world)
  BY SampleIsNow, S0Is DEF UsageInv, RefreshEnds
<1>1. PICK w : w = [wrk EXCEPT !.pc = "loop"]  OBVIOUS
<1>2. w \in Worker /\ Alike(wrk, w) /\ w.pc = "loop" /\ w.avail = wrk.avail /\ w.cap = wrk.cap
  BY <1>0, <1>1 DEF Worker, Alike
<1>3. PICK p : p = IF edges.logind THEN Pause(S0, w, f)
                   ELSE IF f = "clock" THEN [st |-> S0, wk |-> Publish(w)]
                   ELSE Observed(Told(f), w)
  OBVIOUS
<1>4. trk' = p.st.trk /\ db' = p.st.db /\ wrk' = p.wk  BY <1>1, <1>3 DEF RefreshEnds, Apply, Commit
<1>5. edges' \in Streams /\ ~edges'.logind /\ edges'.idle = edges.idle /\ edges'.niri = edges.niri
  BY <1>0 DEF RefreshEnds, Streams
<1>6. left >= 0 + Cost(f) /\ Spend(0, f) /\ UNCHANGED <<clk, world>>
  BY UsageAssumption DEF RefreshEnds, Affordable, Cost, UsageInv
<1>7. ASSUME NEW x, Alike(wrk, x), x.pc = "loop"
      PROVE  StreamsTell(x, edges', world)
  BY <1>0, <1>5, <1>7 DEF StreamsTell, Alike
<1>8. CASE edges.logind
  <2>1. p = Pause(S0, w, f)  BY <1>3, <1>8
  <2>2. Pauses(S0, w, p, f, clk.mono, hist)  BY <1>0, <1>2, <2>1, PauseHandles
  <2>3. /\ Sound(p.st, clk.mono) /\ p.wk \in Worker /\ Alike(wrk, p.wk) /\ p.wk.pc = "loop" /\ p.wk.cap # "healthy"
        /\ p.st.trk.connected => trk.connected
        /\ f = "none" => p.st.trk.active = NotActive
        /\ f = "none" /\ Honest(S0, clk.mono, hist) => Honest(p.st, clk.mono, hist)
    BY <1>2, <2>2, S0Is DEF Pauses, Handles, Alike
  <2>4. StreamsTell(p.wk, edges', world)  BY <1>7, <2>3
  <2>5. ASSUME hist.intact, f = "none"
        PROVE  HonestLedger(p.st.trk, p.st.db, clk.mono, hist) /\ HonestWorker(p.st.trk, p.st.db, p.wk, edges', world)
    <3>1. Honest(p.st, clk.mono, hist) /\ p.st.trk.active = NotActive
      BY <1>0, <2>3, <2>5, RunningIsHonest
    <3>2. wrk.seen \/ ~trk.connected  BY <1>0, <2>5 DEF UsageInv, HonestWorker
    <3> QED  BY <2>3, <3>1, <3>2, QuietWorker DEF Honest, Alike
  <2> QED  BY <1>4, <1>5, <1>6, <2>3, <2>4, <2>5, WorkerStep
<1>9. CASE ~edges.logind /\ f = "clock"
  <2>1. p = [st |-> S0, wk |-> Publish(w)]  BY <1>3, <1>9
  <2>2. p.st = S0 /\ p.wk = Publish(w)  BY <2>1
  <2>3. p.wk \in Worker /\ Alike(w, p.wk) /\ p.wk.pc = w.pc  BY <1>2, <2>2, Published
  <2>4. Alike(wrk, p.wk) /\ p.wk.pc = "loop"  BY <1>2, <2>3 DEF Alike
  <2>5. StreamsTell(p.wk, edges', world)  BY <1>7, <2>4
  <2>6. f # "none"  BY <1>9
  <2> QED  BY <1>0, <1>4, <1>5, <1>6, <2>2, <2>3, <2>5, <2>6, WorkerStep
<1>10. CASE ~edges.logind /\ f # "clock"
  <2>1. PICK r : r = Told(f)  OBVIOUS
  <2>2. PICK session : session = IF wrk.inputIdle THEN "deny" ELSE wrk.probe  OBVIOUS
  <2>3. session \in SessionViews /\ session \in {"permit", "deny"} /\ wrk.focus \in Apps \cup {NoApp}
    BY <1>0, <2>2 DEF Worker, SessionViews
  <2>4. PICK focus : focus = IF wrk.seen THEN wrk.focus ELSE trk.focus  OBVIOUS
  <2>5. /\ Tells(S0, r, focus, session, f, clk.mono, hist)
        /\ f = "none" /\ wrk.seen => r.trk.connected /\ ~r.trk.gapOpen /\ r.db.gap = NoSample
        /\ f = "none" /\ ~wrk.seen => r.trk.connected = trk.connected
    <3>1. CASE wrk.seen
      <4>1. r = ObserveFocus(S0, wrk.focus, session, Sample, f)  BY <2>1, <2>2, <3>1 DEF Told
      <4>2. /\ Tells(S0, r, wrk.focus, session, f, clk.mono, hist)
            /\ f = "none" => r.trk.connected /\ ~r.trk.gapOpen /\ r.db.gap = NoSample
        BY <1>0, <2>3, <4>1, ObserveFocusKeeps
      <4> QED  BY <2>4, <3>1, <4>2
    <3>2. CASE ~wrk.seen
      <4>1. r = Checkpoint(S0, session, Sample, f)  BY <2>1, <2>2, <3>2 DEF Told
      <4>2. Tells(S0, r, S0.trk.focus, session, f, clk.mono, hist) /\ (f = "none" => r.trk.connected = S0.trk.connected)
        BY <1>0, <2>3, <4>1, CheckpointKeeps
      <4> QED  BY <2>4, <3>2, <4>2, S0Is
    <3> QED  BY <3>1, <3>2
  <2>6. p = Observed(r, w)  BY <1>3, <1>10, <2>1
  <2>7. p.st = r /\ p.wk = (IF r.err THEN Unavailable(w) ELSE Publish([w EXCEPT !.avail = TRUE]))
    BY <2>6 DEF Observed
  <2>8. p.wk \in Worker /\ Alike(wrk, p.wk) /\ p.wk.pc = "loop" /\ (p.wk.cap = "healthy" => wrk.seen)
    <3>1. CASE r.err
      <4>1. p.wk = [w EXCEPT !.cap = "unreachable"]  BY <2>7, <3>1 DEF Unavailable
      <4> QED  BY <1>2, <4>1 DEF Worker, Alike
    <3>2. CASE ~r.err
      <4>1. PICK y : y = [w EXCEPT !.avail = TRUE]  OBVIOUS
      <4>2. y \in Worker /\ Alike(w, y) /\ y.pc = w.pc  BY <1>2, <4>1 DEF Worker, Alike
      <4>3. p.wk = Publish(y)  BY <2>7, <3>2, <4>1
      <4>4. p.wk \in Worker /\ Alike(y, p.wk) /\ p.wk.pc = y.pc /\ (p.wk.cap = "healthy" => y.seen)
        BY <4>2, <4>3, Published
      <4> QED  BY <1>2, <4>2, <4>4 DEF Alike
    <3> QED  BY <3>1, <3>2
  <2>9. StreamsTell(p.wk, edges', world)  BY <1>7, <2>8
  <2>10. Sound(r, clk.mono)  BY <2>5 DEF Tells
  <2>11. ASSUME hist.intact, f = "none"
         PROVE  HonestLedger(r.trk, r.db, clk.mono, hist) /\ HonestWorker(r.trk, r.db, p.wk, edges', world)
    <3>1. HonestWorker(trk, db, wrk, edges, world) /\ Honest(S0, clk.mono, hist)
      BY <1>0, <2>11, RunningIsHonest DEF UsageInv
    <3>2. trk.active # NotActive => session = "permit"
      BY <1>0, <1>10, <2>2, <3>1 DEF HonestWorker
    <3>3. /\ Honest(r, clk.mono, hist) /\ r.trk.session = session
          /\ r.trk.active # NotActive => r.trk.active.app = focus
      BY <2>5, <2>11, <3>1, <3>2, S0Is DEF Tells
    <3>4. r.trk.connected => wrk.seen  BY <1>0, <2>5, <2>11, <3>1 DEF HonestWorker
    <3>5. ASSUME r.trk.active # NotActive
          PROVE  /\ p.wk.running /\ p.wk.niri /\ p.wk.logindStream /\ p.wk.idleStream /\ ~p.wk.inputIdle
                 /\ world.permit /\ p.wk.pc # "probed"
                 /\ edges'.niri # <<>> \/ world.focus = r.trk.active.app
      <4>1. r.trk.connected /\ session = "permit"  BY <2>10, <3>3, <3>5 DEF Sound, Standing
      <4>2. wrk.seen /\ ~wrk.inputIdle /\ wrk.probe = "permit"  BY <2>2, <3>4, <4>1
      <4>3. wrk.niri /\ wrk.logindStream /\ wrk.idleStream /\ world.permit
        BY <1>0, <1>10, <4>2 DEF StreamsTell
      <4>4. r.trk.active.app = wrk.focus  BY <2>4, <3>3, <3>5, <4>2
      <4>5. edges.niri = <<>> => wrk.focus = world.focus  BY <1>0, <4>3 DEF StreamsTell
      <4> QED  BY <1>0, <1>5, <2>8, <4>2, <4>3, <4>4, <4>5 DEF Alike
    <3>6. p.wk.seen = wrk.seen  BY <2>8 DEF Alike
    <3>7. p.wk.cap = "healthy" => r.db.gap = NoSample /\ ~r.trk.gapOpen /\ r.trk.connected /\ r.trk.session # "none"
      BY <2>3, <2>5, <2>8, <2>11, <3>3
    <3> QED  BY <3>3, <3>4, <3>5, <3>6, <3>7 DEF Honest, HonestWorker
  <2> QED  BY <1>4, <1>5, <1>6, <2>7, <2>8, <2>9, <2>10, <2>11, WorkerStep
<1> QED  BY <1>8, <1>9, <1>10

\* A step of the worker that leaves no interval, unless a write failed, and does not
\* report healthy.
LEMMA QuietStep ==
  ASSUME UsageInv, UNCHANGED <<clk, world>>, wrk.running, NEW q, trk' = q.trk, db' = q.db, Sound(q, clk.mono),
         wrk' \in Worker, edges' \in Streams, NEW f, NEW n \in {0, 1}, left >= n + Cost(f), Spend(n, f),
         StreamsTell(wrk', edges', world),
         hist.intact /\ f = "none" /\ wrk'.running /\ wrk'.cap = "healthy" =>
           q.db.gap = NoSample /\ ~q.trk.gapOpen /\ q.trk.connected /\ wrk'.pc # "loop" /\ ~wrk'.avail,
         f = "none" => q.trk.active = NotActive,
         f = "none" /\ Honest(S0, clk.mono, hist) => Honest(q, clk.mono, hist),
         f = "none" /\ q.trk.connected /\ wrk'.running => wrk'.seen \/ (trk.connected /\ ~wrk.seen)
  PROVE  UsageInv'
<1>1. ASSUME hist.intact, f = "none"
      PROVE  HonestLedger(q.trk, q.db, clk.mono, hist) /\ HonestWorker(q.trk, q.db, wrk', edges', world)
  <2>1. Honest(q, clk.mono, hist) /\ q.trk.active = NotActive  BY <1>1, RunningIsHonest
  <2>2. wrk.seen \/ ~trk.connected  BY <1>1 DEF UsageInv, HonestWorker
  <2>3. wrk'.running => (wrk'.seen \/ ~q.trk.connected) /\ q.db.open = NoRow  BY <1>1, <2>1, <2>2 DEF Honest
  <2>4. HonestWorker(q.trk, q.db, wrk', edges', world)  BY <1>1, <2>1, <2>3, QuietWorker
  <2> QED  BY <2>1, <2>4 DEF Honest
<1> QED  BY <1>1, WorkerStep

\* A step that is not the worker's accounting.
LEMMA OtherStep ==
  ASSUME UsageInv, hist' = hist, left' \in 0..Disturbances,
         clk' \in [mono : 0..MaxTime, skew : -2..2, zone : 0..1], clk'.mono = clk.mono,
         world' \in [permit : BOOLEAN, idle : BOOLEAN, focus : Apps],
         NEW q, trk' = q.trk, db' = q.db, Sound(q, clk.mono), wrk' \in Worker, edges' \in Streams,
         StreamsTell(wrk', edges', world'),
         hist.intact =>
           HonestLedger(q.trk, q.db, clk.mono, hist) /\ HonestWorker(q.trk, q.db, wrk', edges', world')
  PROVE  UsageInv'
<1>1. PICK r : r = [trk |-> q.trk, db |-> q.db, err |-> FALSE]  OBVIOUS
<1>2. Sound(r, clk.mono)  BY <1>1, SoundAgain
<1>3. S0' = r  BY <1>1 DEF S0
<1>4. Sound(S0', clk'.mono)  BY <1>2, <1>3
<1>5. hist'.intact => HonestLedger(trk', db', clk'.mono, hist') /\ HonestWorker(trk', db', wrk', edges', world')
  OBVIOUS
<1>6. hist' \in History  BY DEF UsageInv
<1> QED  BY <1>4, <1>5, <1>6 DEF UsageInv

\* A refresh right after a pause finds no interval.
PausedThenRefreshes(s, x, q, f, m, h) ==
  /\ Sound(q.st, m) /\ q.wk \in Worker /\ Alike(x, q.wk)
  /\ q.wk.cap = "healthy" =>
       /\ x.cap = "healthy" /\ q.wk.pc = "probing" /\ q.wk.avail = x.avail
       /\ q.st.trk.gapOpen = s.trk.gapOpen /\ q.st.trk.connected = s.trk.connected
  /\ q.wk.pc = (IF x.logindStream /\ x.idleStream THEN "probing" ELSE "loop")
  /\ q.st.trk.connected => s.trk.connected
  /\ f = "none" => q.st.trk.active = NotActive
  /\ f = "none" /\ Honest(s, m, h) => Honest(q.st, m, h)

LEMMA RefreshAfterKeeps ==
  ASSUME NEW s, NEW w, NEW p, NEW f, NEW m, NEW h, PausesUnsaid(s, w, p, f, m, h), SampledAt(Sample, m),
         NEW x \in Worker, x.cap = p.wk.cap, NEW q, q = Refresh(p.st, x, FALSE, "none")
  PROVE  PausedThenRefreshes(s, x, q, f, m, h)
<1>1. Sound(p.st, m) /\ ~p.st.err  BY DEF PausesUnsaid
<1>2. Refreshes(p.st, x, FALSE, q, "none", m, h)  BY <1>1, RefreshHandles
<1>3. /\ Sound(q.st, m) /\ q.wk \in Worker /\ Alike(x, q.wk)
      /\ q.wk.cap = "healthy" => q.st = p.st /\ x.cap = "healthy" /\ q.wk.avail = x.avail /\ q.wk.pc = "probing"
      /\ q.st.trk.connected => p.st.trk.connected
      /\ q.st.trk.active = NotActive \/ q.st = p.st
      /\ Honest(p.st, m, h) => Honest(q.st, m, h)
  BY <1>2 DEF Refreshes, Handles
<1>4. q.wk.pc = (IF x.logindStream /\ x.idleStream THEN "probing" ELSE "loop")  BY <1>2 DEF Refreshes
<1>5. /\ p.st.trk.connected => s.trk.connected
      /\ f = "none" => p.st.trk.active = NotActive
      /\ f = "none" /\ Honest(s, m, h) => Honest(p.st, m, h)
      /\ p.wk.cap = "healthy" => p.st.trk.gapOpen = s.trk.gapOpen /\ p.st.trk.connected = s.trk.connected
  BY DEF PausesUnsaid
<1> QED  BY <1>3, <1>4, <1>5 DEF PausedThenRefreshes

LEMMA PollLogindKeeps == ASSUME UsageInv, NEW f, PollLogind(f) PROVE UsageInv'
<1>0. /\ SampledAt(Sample, clk.mono) /\ Sound(S0, clk.mono) /\ ~S0.err /\ wrk \in Worker /\ edges \in Streams
      /\ wrk.running /\ StreamsTell(wrk, edges, world)
  BY SampleIsNow, S0Is DEF UsageInv, PollLogind
<1>1. PICK p : p = Pause(S0, wrk, f)  OBVIOUS
<1>2. Pauses(S0, wrk, p, f, clk.mono, hist)  BY <1>0, <1>1, PauseHandles
<1>3. p.wk \in Worker /\ Alike(wrk, p.wk) /\ p.wk.cap # "healthy"  BY <1>2 DEF Pauses, Handles
<1>4. PICK q : q = Refresh(p.st, p.wk, FALSE, "none")  OBVIOUS
<1>5. PausedThenRefreshes(S0, p.wk, q, f, clk.mono, hist)  BY <1>0, <1>2, <1>3, <1>4, RefreshAfterKeeps, SaidOrNot
<1>6. trk' = q.st.trk /\ db' = q.st.db /\ wrk' = q.wk
  BY <1>1, <1>4 DEF PollLogind, Apply, Commit, RefreshAfter
<1>7. /\ Sound(q.st, clk.mono) /\ wrk' \in Worker /\ Alike(wrk, wrk') /\ wrk'.cap # "healthy"
      /\ wrk'.pc \in {"loop", "probing"} /\ (wrk'.pc # "loop" => wrk.logindStream /\ wrk.idleStream)
      /\ q.st.trk.connected => trk.connected
      /\ f = "none" => q.st.trk.active = NotActive
      /\ f = "none" /\ Honest(S0, clk.mono, hist) => Honest(q.st, clk.mono, hist)
  BY <1>3, <1>5, <1>6, S0Is DEF PausedThenRefreshes, Alike
<1>8. edges' \in Streams /\ edges'.idle = edges.idle /\ edges'.niri = edges.niri
  BY <1>0 DEF PollLogind, Streams
<1>9. StreamsTell(wrk', edges', world)  BY <1>0, <1>7, <1>8 DEF StreamsTell, Alike
<1>10. left >= 0 + Cost(f) /\ Spend(0, f) /\ UNCHANGED <<clk, world>>
  BY UsageAssumption DEF PollLogind, Affordable, Cost, UsageInv
<1>11. wrk'.seen = wrk.seen  BY <1>7 DEF Alike
<1> QED  BY <1>0, <1>6, <1>7, <1>8, <1>9, <1>10, <1>11, QuietStep

\* What is left of a stream whose head is taken still ends with its last element.
LEMMA TailEnds ==
  ASSUME NEW S, NEW s \in Seq(S), s # <<>>
  PROVE  /\ Head(s) \in S /\ Tail(s) \in Seq(S)
         /\ Tail(s) = <<>> => Head(s) = s[Len(s)]
         /\ Tail(s) # <<>> => Tail(s)[Len(Tail(s))] = s[Len(s)]
<1>1. Head(s) \in S /\ Tail(s) \in Seq(S) /\ Len(s) \in Nat /\ Len(s) # 0 /\ Head(s) = s[1]
  BY HeadTailProperties, LenProperties, EmptySeq
<1>2. PICK t : t = Tail(s)  OBVIOUS
<1>3. PICK n : n = Len(s)  OBVIOUS
<1>4. PICK k : k = Len(t)  OBVIOUS
<1>5. k = n - 1 /\ n \in Nat /\ t \in Seq(S) /\ \A i \in 1..k : t[i] = s[i + 1]
  BY <1>1, <1>2, <1>3, <1>4, HeadTailProperties
<1>6. k \in Nat /\ (t = <<>> <=> k = 0)  BY <1>4, <1>5, EmptySeq, LenProperties
<1>7. t = <<>> => n = 1  BY <1>5, <1>6
<1>8. t # <<>> => k \in 1..k /\ k + 1 = n  BY <1>5, <1>6
<1>9. t # <<>> => t[k] = s[n]  BY <1>5, <1>8
<1> QED  BY <1>1, <1>2, <1>3, <1>4, <1>7, <1>9

LEMMA PollIdleKeeps == ASSUME UsageInv, NEW f, PollIdle(f) PROVE UsageInv'
<1>0. /\ SampledAt(Sample, clk.mono) /\ Sound(S0, clk.mono) /\ ~S0.err /\ wrk \in Worker /\ edges \in Streams
      /\ wrk.running /\ wrk.idleStream /\ StreamsTell(wrk, edges, world) /\ edges.idle # <<>>
  BY SampleIsNow, S0Is DEF UsageInv, PollIdle
<1>1. PICK b : b = Head(edges.idle)  OBVIOUS
<1>2. PICK rest : rest = Tail(edges.idle)  OBVIOUS
<1>3. b \in BOOLEAN /\ rest \in Seq(BOOLEAN) /\ (rest = <<>> => b = world.idle)
      /\ (rest # <<>> => rest[Len(rest)] = world.idle)
  BY <1>0, <1>1, <1>2, TailEnds DEF Streams, StreamsTell
<1>4. PICK p : p = PauseForIdleEdge(S0, wrk, f)  OBVIOUS
<1>5. PausesUnsaid(S0, wrk, p, f, clk.mono, hist) /\ p = [st |-> p.st, wk |-> p.wk]
  BY <1>0, <1>4, IdlePauseHandles
<1>6. PICK d : d = LogindDrained(p)  OBVIOUS
<1>7. PausesUnsaid(S0, wrk, d, f, clk.mono, hist) /\ d = [st |-> d.st, wk |-> d.wk]
  <2>1. CASE p.wk.logindStream /\ edges.logind
    <3>1. d = Pause(p.st, p.wk, "none")  BY <1>6, <2>1 DEF LogindDrained
    <3>2. Sound(p.st, clk.mono) /\ ~p.st.err /\ p.wk \in Worker  BY <1>5 DEF PausesUnsaid
    <3>3. Pauses(p.st, p.wk, d, "none", clk.mono, hist) /\ d = [st |-> d.st, wk |-> d.wk]
      BY <1>0, <3>1, <3>2, PauseHandles
    <3>4. /\ Alike(wrk, d.wk) /\ d.wk.pc = wrk.pc  BY <1>5, <3>3 DEF Pauses, PausesUnsaid, Handles, Alike
    <3> QED  BY <1>5, <3>3, <3>4 DEF Pauses, PausesUnsaid, Handles
  <2>2. CASE ~(p.wk.logindStream /\ edges.logind)
    <3>1. d = p  BY <1>6, <2>2 DEF LogindDrained
    <3> QED  BY <1>5, <3>1
  <2> QED  BY <2>1, <2>2
<1>8. /\ d.wk \in Worker /\ Alike(wrk, d.wk)
      /\ d.wk.cap = "healthy" => wrk.cap = "healthy" /\ ~d.wk.avail
  BY <1>7 DEF PausesUnsaid
<1>9. PICK x : x = [d.wk EXCEPT !.inputIdle = b]  OBVIOUS
<1>10. /\ x \in Worker /\ x.cap = d.wk.cap /\ x.avail = d.wk.avail
       /\ x.inputIdle = b /\ x.running = wrk.running /\ x.niri = wrk.niri
       /\ x.seen = wrk.seen /\ x.logindStream = wrk.logindStream /\ x.idleStream = wrk.idleStream
       /\ x.focus = wrk.focus /\ x.probe = wrk.probe
  BY <1>3, <1>8, <1>9 DEF Worker, Alike
<1>11. PICK e : e = [d EXCEPT !.wk.inputIdle = Head(edges.idle)]  OBVIOUS
<1>12. e.st = d.st /\ e.wk = x  BY <1>1, <1>7, <1>9, <1>11
<1>13. PICK q : q = Refresh(d.st, x, FALSE, "none")  OBVIOUS
<1>14. PausedThenRefreshes(S0, x, q, f, clk.mono, hist)  BY <1>0, <1>7, <1>10, <1>13, RefreshAfterKeeps
<1>15. trk' = q.st.trk /\ db' = q.st.db /\ wrk' = q.wk
  <2>1. RefreshAfter(e) = q  BY <1>12, <1>13 DEF RefreshAfter
  <2>2. Apply(RefreshAfter(e))  BY <1>4, <1>6, <1>11 DEF PollIdle
  <2> QED  BY <2>1, <2>2 DEF Apply, Commit
<1>16. /\ Sound(q.st, clk.mono) /\ wrk' \in Worker /\ Alike(x, wrk')
       /\ wrk'.cap = "healthy" =>
            /\ wrk.cap = "healthy" /\ wrk'.pc = "probing" /\ ~wrk'.avail
            /\ q.st.trk.gapOpen = trk.gapOpen /\ q.st.trk.connected = trk.connected
       /\ wrk'.pc \in {"loop", "probing"} /\ (wrk'.pc # "loop" => x.logindStream /\ x.idleStream)
       /\ q.st.trk.connected => trk.connected
       /\ f = "none" => q.st.trk.active = NotActive
       /\ f = "none" /\ Honest(S0, clk.mono, hist) => Honest(q.st, clk.mono, hist)
  BY <1>8, <1>10, <1>14, <1>15, S0Is DEF PausedThenRefreshes
<1>17. edges' \in Streams /\ edges'.idle = rest /\ edges'.niri = edges.niri
  <2>1. PICK a : a = AfterDrain(wrk)  OBVIOUS
  <2>2. a \in Streams /\ a.idle = edges.idle /\ a.niri = edges.niri  BY <1>0, <2>1, Drained
  <2>3. edges' = [a EXCEPT !.idle = Tail(a.idle)]  BY <2>1 DEF PollIdle
  <2> QED  BY <1>2, <1>3, <2>2, <2>3 DEF Streams
<1>18. StreamsTell(wrk', edges', world)
  BY <1>0, <1>3, <1>10, <1>16, <1>17 DEF StreamsTell, Alike
<1>19. left >= 0 + Cost(f) /\ Spend(0, f) /\ UNCHANGED <<clk, world>>
  BY UsageAssumption DEF PollIdle, Affordable, Cost, UsageInv
<1>20. wrk'.seen = wrk.seen  BY <1>10, <1>16 DEF Alike
<1>21. ASSUME hist.intact, wrk'.cap = "healthy"
       PROVE  /\ q.st.db.gap = NoSample /\ ~q.st.trk.gapOpen /\ q.st.trk.connected
              /\ wrk'.pc # "loop" /\ ~wrk'.avail
  <2>1. ~trk.gapOpen /\ trk.connected  BY <1>0, <1>16, <1>21 DEF UsageInv, HonestWorker
  <2>2. q.st.trk.gapOpen <=> q.st.db.gap # NoSample  BY <1>16 DEF Sound, Kept, LedgerGood
  <2> QED  BY <1>16, <1>21, <2>1, <2>2
<1> QED  BY <1>0, <1>15, <1>16, <1>17, <1>18, <1>19, <1>20, <1>21, QuietStep

LEMMA PollNiriKeeps == ASSUME UsageInv, NEW f, PollNiri(f) PROVE UsageInv'
<1>0. /\ SampledAt(Sample, clk.mono) /\ Sound(S0, clk.mono) /\ ~S0.err /\ wrk \in Worker /\ edges \in Streams
      /\ wrk.running /\ wrk.niri /\ StreamsTell(wrk, edges, world) /\ edges.niri # <<>>
  BY SampleIsNow, S0Is DEF UsageInv, PollNiri
<1>1. PICK b : b = Head(edges.niri)  OBVIOUS
<1>2. PICK rest : rest = Tail(edges.niri)  OBVIOUS
<1>3. b \in Apps /\ rest \in Seq(Apps) /\ (rest = <<>> => b = world.focus)
      /\ (rest # <<>> => rest[Len(rest)] = world.focus)
  BY <1>0, <1>1, <1>2, TailEnds DEF Streams, StreamsTell
<1>4. PICK x : x = [wrk EXCEPT !.seen = TRUE, !.focus = b]  OBVIOUS
<1>5. /\ x \in Worker /\ x.seen /\ x.focus = b /\ x.cap = wrk.cap /\ x.running = wrk.running /\ x.niri = wrk.niri
      /\ x.logindStream = wrk.logindStream /\ x.idleStream = wrk.idleStream /\ x.inputIdle = wrk.inputIdle
      /\ x.probe = wrk.probe
  BY <1>0, <1>3, <1>4 DEF Worker
<1>6. PICK p : p = Refresh(S0, x, edges.logind, f)  OBVIOUS
<1>7. Refreshes(S0, x, edges.logind, p, f, clk.mono, hist)  BY <1>0, <1>5, <1>6, RefreshHandles
<1>8. trk' = p.st.trk /\ db' = p.st.db /\ wrk' = p.wk
  BY <1>1, <1>4, <1>6 DEF PollNiri, Apply, Commit
<1>9. /\ Sound(p.st, clk.mono) /\ p.wk \in Worker /\ Alike(x, p.wk)
      /\ p.st.trk.connected => trk.connected
      /\ f = "none" => p.st.trk.active = NotActive \/ p.st = S0
      /\ f = "none" /\ Honest(S0, clk.mono, hist) => Honest(p.st, clk.mono, hist)
      /\ p.wk.cap = "healthy" => p.st = S0 /\ wrk.cap = "healthy"
  BY <1>5, <1>7, S0Is DEF Refreshes, Handles
<1>10. /\ p.wk.pc \in {"loop", "probing"} /\ (p.wk.pc # "loop" => wrk.logindStream /\ wrk.idleStream)
       /\ wrk.logindStream /\ wrk.idleStream => p.wk.pc = "probing"
       /\ wrk.logindStream /\ wrk.idleStream /\ edges.logind /\ f = "none" => p.st.trk.active = NotActive
  BY <1>5, <1>7 DEF Refreshes
<1>11. edges' \in Streams /\ edges'.niri = rest /\ edges'.idle = edges.idle
  <2>1. PICK a : a = AfterDrain(wrk)  OBVIOUS
  <2>2. a \in Streams /\ a.idle = edges.idle /\ a.niri = edges.niri  BY <1>0, <2>1, Drained
  <2>3. edges' = [a EXCEPT !.niri = Tail(a.niri)]  BY <2>1 DEF PollNiri
  <2> QED  BY <1>2, <1>3, <2>2, <2>3 DEF Streams
<1>12. StreamsTell(p.wk, edges', world)
  BY <1>0, <1>3, <1>5, <1>9, <1>10, <1>11 DEF StreamsTell, Alike
<1>13. ASSUME hist.intact, f = "none"
       PROVE  HonestLedger(p.st.trk, p.st.db, clk.mono, hist) /\ HonestWorker(p.st.trk, p.st.db, p.wk, edges', world)
  <2>1. Honest(S0, clk.mono, hist) /\ HonestWorker(trk, db, wrk, edges, world)
    BY <1>0, <1>13, RunningIsHonest DEF UsageInv
  <2>2. Honest(p.st, clk.mono, hist)  BY <1>9, <1>13, <2>1
  <2>3. ASSUME p.st.trk.active # NotActive
        PROVE  /\ p.wk.running /\ p.wk.niri /\ p.wk.logindStream /\ p.wk.idleStream /\ ~p.wk.inputIdle
               /\ world.permit /\ p.wk.pc = "probing"
    <3>1. p.st = S0 /\ trk.active # NotActive  BY <1>9, <1>13, <2>3, S0Is
    <3>2. /\ wrk.running /\ wrk.niri /\ wrk.logindStream /\ wrk.idleStream /\ ~wrk.inputIdle
          /\ edges.logind \/ world.permit
      BY <2>1, <3>1 DEF HonestWorker
    <3>3. ~edges.logind  BY <1>10, <1>13, <2>3, <3>2
    <3> QED  BY <1>5, <1>9, <1>10, <3>2, <3>3 DEF Alike
  <2>4. p.wk.seen  BY <1>5, <1>9 DEF Alike
  <2>5. p.wk.cap = "healthy" =>
          p.st.db.gap = NoSample /\ ~p.st.trk.gapOpen /\ p.st.trk.connected /\ p.st.trk.session # "none"
    BY <1>0, <1>9, <2>1, S0Is DEF HonestWorker, ProbesAfter, PollNiri
  <2> QED  BY <2>2, <2>3, <2>4, <2>5 DEF Honest, HonestWorker
<1>14. left >= 0 + Cost(f) /\ Spend(0, f) /\ UNCHANGED <<clk, world>>
  BY UsageAssumption DEF PollNiri, Affordable, Cost, UsageInv
<1> QED  BY <1>8, <1>9, <1>11, <1>12, <1>13, <1>14, WorkerStep

LEMMA LoseNiriKeeps == ASSUME UsageInv, NEW f, LoseNiri(f) PROVE UsageInv'
<1>0. /\ clk.mono \in 0..MaxTime /\ Sound(S0, clk.mono) /\ ~S0.err /\ wrk \in Worker /\ edges \in Streams
      /\ wrk.running /\ wrk.pc = "loop" /\ StreamsTell(wrk, edges, world)
  BY SampleIsNow, S0Is DEF UsageInv, LoseNiri
<1>1. PICK r : r = MarkEventGap(S0, f)  OBVIOUS
<1>2. Interrupts(S0, r, f, clk.mono, hist) /\ (~r.err => ~r.trk.connected)  BY <1>0, <1>1, MarkEventGapKeeps
<1>3. PICK q : q = [r EXCEPT !.err = FALSE]  OBVIOUS
<1>4. Sound(q, clk.mono) /\ q.trk = r.trk /\ q.db = r.db  BY <1>2, <1>3, ErrorForgotten DEF Interrupts
<1>5. trk' = q.trk /\ db' = q.db  BY <1>1, <1>3 DEF LoseNiri, Commit
<1>6. PICK y : y = [wrk EXCEPT !.niri = FALSE, !.seen = FALSE, !.focus = NoApp]  OBVIOUS
<1>7. /\ y \in Worker /\ y.pc = "loop" /\ ~y.niri /\ ~y.seen /\ y.idleStream = wrk.idleStream
      /\ y.inputIdle = wrk.inputIdle
  BY <1>0, <1>6 DEF Worker
<1>8. wrk' = Publish(y)  BY <1>6 DEF LoseNiri
<1>9. wrk' \in Worker /\ Alike(y, wrk') /\ wrk'.pc = "loop" /\ wrk'.cap # "healthy"
  BY <1>7, <1>8, Published
<1>10. edges' \in Streams /\ edges'.niri = <<>> /\ edges'.idle = edges.idle
  BY <1>0, EmptySeq DEF LoseNiri, Streams
<1>11. StreamsTell(wrk', edges', world)  BY <1>0, <1>7, <1>9, <1>10 DEF StreamsTell, Alike
<1>12. /\ f = "none" => q.trk.active = NotActive /\ ~q.trk.connected
       /\ f = "none" /\ Honest(S0, clk.mono, hist) => Honest(q, clk.mono, hist)
  BY <1>2, <1>4 DEF Interrupts, Honest
<1>13. left >= 1 + Cost(f) /\ Spend(1, f) /\ UNCHANGED <<clk, world>>
  <2>1. left > Cost(f) /\ left \in Int /\ Cost(f) \in Int  BY DEF LoseNiri, UsageInv, Cost
  <2> QED  BY <2>1 DEF LoseNiri
<1> QED  BY <1>0, <1>4, <1>5, <1>9, <1>10, <1>11, <1>12, <1>13, QuietStep

LEMMA LoseLogindKeeps == ASSUME UsageInv, NEW f, LoseLogind(f) PROVE UsageInv'
<1>0. /\ clk.mono \in 0..MaxTime /\ Sound(S0, clk.mono) /\ ~S0.err /\ wrk \in Worker /\ edges \in Streams
      /\ wrk.running /\ StreamsTell(wrk, edges, world)
  BY SampleIsNow, S0Is DEF UsageInv, LoseLogind
<1>1. PICK x : x = [wrk EXCEPT !.logindStream = FALSE, !.pc = "loop"]  OBVIOUS
<1>2. /\ x \in Worker /\ x.pc = "loop" /\ x.niri = wrk.niri /\ x.seen = wrk.seen /\ x.idleStream = wrk.idleStream
      /\ x.inputIdle = wrk.inputIdle /\ x.focus = wrk.focus
  BY <1>0, <1>1 DEF Worker
<1>3. PICK p : p = LostStream(S0, x, f)  OBVIOUS
<1>4. Pauses(S0, x, p, f, clk.mono, hist)  BY <1>0, <1>2, <1>3, LostHandles
<1>5. trk' = p.st.trk /\ db' = p.st.db /\ wrk' = p.wk  BY <1>1, <1>3 DEF LoseLogind, Apply, Commit
<1>6. /\ Sound(p.st, clk.mono) /\ wrk' \in Worker /\ Alike(x, wrk') /\ wrk'.cap # "healthy" /\ wrk'.pc = "loop"
      /\ p.st.trk.connected => trk.connected
      /\ f = "none" => p.st.trk.active = NotActive
      /\ f = "none" /\ Honest(S0, clk.mono, hist) => Honest(p.st, clk.mono, hist)
  BY <1>2, <1>4, <1>5, S0Is DEF Pauses, Handles
<1>7. edges' \in Streams /\ edges'.idle = edges.idle /\ edges'.niri = edges.niri
  BY <1>0 DEF LoseLogind, Streams
<1>8. StreamsTell(wrk', edges', world)  BY <1>0, <1>2, <1>6, <1>7 DEF StreamsTell, Alike
<1>9. wrk'.seen = wrk.seen  BY <1>2, <1>6 DEF Alike
<1>10. left >= 1 + Cost(f) /\ Spend(1, f) /\ UNCHANGED <<clk, world>>
  <2>1. left > Cost(f) /\ left \in Int /\ Cost(f) \in Int  BY DEF LoseLogind, UsageInv, Cost
  <2> QED  BY <2>1 DEF LoseLogind
<1> QED  BY <1>0, <1>5, <1>6, <1>7, <1>8, <1>9, <1>10, QuietStep

LEMMA LoseIdleKeeps == ASSUME UsageInv, NEW f, LoseIdle(f) PROVE UsageInv'
<1>0. /\ clk.mono \in 0..MaxTime /\ Sound(S0, clk.mono) /\ ~S0.err /\ wrk \in Worker /\ edges \in Streams
      /\ wrk.running /\ wrk.pc = "loop" /\ StreamsTell(wrk, edges, world)
  BY SampleIsNow, S0Is DEF UsageInv, LoseIdle
<1>1. PICK x : x = [wrk EXCEPT !.idleStream = FALSE, !.inputIdle = FALSE]  OBVIOUS
<1>2. /\ x \in Worker /\ x.pc = "loop" /\ x.niri = wrk.niri /\ x.seen = wrk.seen /\ ~x.idleStream
      /\ x.focus = wrk.focus
  BY <1>0, <1>1 DEF Worker
<1>3. PICK p : p = LostStream(S0, x, f)  OBVIOUS
<1>4. Pauses(S0, x, p, f, clk.mono, hist)  BY <1>0, <1>2, <1>3, LostHandles
<1>5. trk' = p.st.trk /\ db' = p.st.db /\ wrk' = p.wk  BY <1>1, <1>3 DEF LoseIdle, Apply, Commit
<1>6. /\ Sound(p.st, clk.mono) /\ wrk' \in Worker /\ Alike(x, wrk') /\ wrk'.cap # "healthy" /\ wrk'.pc = "loop"
      /\ p.st.trk.connected => trk.connected
      /\ f = "none" => p.st.trk.active = NotActive
      /\ f = "none" /\ Honest(S0, clk.mono, hist) => Honest(p.st, clk.mono, hist)
  BY <1>2, <1>4, <1>5, S0Is DEF Pauses, Handles
<1>7. edges' \in Streams /\ edges'.idle = <<>> /\ edges'.niri = edges.niri
  BY <1>0, EmptySeq DEF LoseIdle, Streams
<1>8. StreamsTell(wrk', edges', world)  BY <1>0, <1>2, <1>6, <1>7 DEF StreamsTell, Alike
<1>9. wrk'.seen = wrk.seen  BY <1>2, <1>6 DEF Alike
<1>10. left >= 1 + Cost(f) /\ Spend(1, f) /\ UNCHANGED <<clk, world>>
  <2>1. left > Cost(f) /\ left \in Int /\ Cost(f) \in Int  BY DEF LoseIdle, UsageInv, Cost
  <2> QED  BY <2>1 DEF LoseIdle
<1> QED  BY <1>0, <1>5, <1>6, <1>7, <1>8, <1>9, <1>10, QuietStep

\* A missing stream is connected: no interval was active without it.
LEMMA ConnectNiriKeeps == ASSUME UsageInv, ConnectNiri PROVE UsageInv'
<1>0. /\ Sound(S0, clk.mono) /\ wrk \in Worker /\ edges \in Streams /\ StreamsTell(wrk, edges, world)
      /\ wrk.running /\ wrk.pc = "loop" /\ ~wrk.niri /\ world.focus \in Apps
  BY DEF UsageInv, ConnectNiri
<1>1. PICK y : y = [wrk EXCEPT !.niri = TRUE, !.seen = FALSE]  OBVIOUS
<1>2. /\ y \in Worker /\ y.pc = "loop" /\ y.niri /\ ~y.seen /\ y.idleStream = wrk.idleStream
      /\ y.inputIdle = wrk.inputIdle
  BY <1>0, <1>1 DEF Worker
<1>3. wrk' = Publish(y)  BY <1>1 DEF ConnectNiri
<1>4. wrk' \in Worker /\ Alike(y, wrk') /\ wrk'.pc = "loop" /\ wrk'.cap # "healthy"
  BY <1>2, <1>3, Published
<1>5. PICK e : e = <<world.focus>>  OBVIOUS
<1>6. e \in Seq(Apps) /\ e # <<>> /\ e[Len(e)] = world.focus  BY <1>0, <1>5
<1>7. edges' \in Streams /\ edges'.idle = edges.idle /\ edges'.niri = e
  BY <1>0, <1>5, <1>6 DEF ConnectNiri, Streams
<1>8. StreamsTell(wrk', edges', world)  BY <1>0, <1>2, <1>4, <1>6, <1>7 DEF StreamsTell, Alike
<1>9. UNCHANGED <<clk, world, trk, db, hist, left>>  BY DEF ConnectNiri
<1>10. ASSUME hist.intact
       PROVE  HonestLedger(trk, db, clk.mono, hist) /\ HonestWorker(trk, db, wrk', edges', world)
  <2>1. HonestLedger(trk, db, clk.mono, hist) /\ HonestWorker(trk, db, wrk, edges, world)
    BY <1>10 DEF UsageInv
  <2>2. trk.active = NotActive /\ ~trk.connected /\ db.open = NoRow
    BY <1>0, <2>1 DEF HonestWorker, StreamsTell
  <2> QED  BY <1>4, <2>1, <2>2, QuietWorker
<1> QED  BY <1>0, <1>4, <1>7, <1>8, <1>9, <1>10, S0Is, OtherStep DEF UsageInv

LEMMA ConnectLogindKeeps == ASSUME UsageInv, ConnectLogind PROVE UsageInv'
<1>0. /\ SampledAt(Sample, clk.mono) /\ Sound(S0, clk.mono) /\ ~S0.err /\ wrk \in Worker /\ edges \in Streams
      /\ StreamsTell(wrk, edges, world) /\ wrk.running /\ ~wrk.logindStream
  BY SampleIsNow, S0Is DEF UsageInv, ConnectLogind
<1>1. PICK x : x = [wrk EXCEPT !.logindStream = TRUE, !.avail = FALSE]  OBVIOUS
<1>2. /\ x \in Worker /\ x.cap = wrk.cap /\ x.running = wrk.running /\ x.niri = wrk.niri /\ x.seen = wrk.seen
      /\ x.logindStream /\ x.idleStream = wrk.idleStream /\ x.inputIdle = wrk.inputIdle /\ x.focus = wrk.focus
  BY <1>0, <1>1 DEF Worker
<1>3. PICK p : p = Refresh(S0, x, FALSE, "none")  OBVIOUS
<1>4. Refreshes(S0, x, FALSE, p, "none", clk.mono, hist)  BY <1>0, <1>2, <1>3, RefreshHandles
<1>5. trk' = p.st.trk /\ db' = p.st.db /\ wrk' = p.wk  BY <1>1, <1>3 DEF ConnectLogind, Apply, Commit
<1>6. /\ Sound(p.st, clk.mono) /\ p.wk \in Worker /\ Alike(x, p.wk)
      /\ p.st.trk.connected => trk.connected
      /\ p.st.trk.active = NotActive \/ p.st = S0
      /\ Honest(S0, clk.mono, hist) => Honest(p.st, clk.mono, hist)
      /\ p.wk.cap = "healthy" => p.st = S0 /\ wrk.cap = "healthy"
      /\ p.wk.pc \in {"loop", "probing"} /\ (p.wk.pc # "loop" => x.logindStream /\ x.idleStream)
  BY <1>2, <1>4, S0Is DEF Refreshes, Handles
<1>7. edges' \in Streams /\ edges'.idle = edges.idle /\ edges'.niri = edges.niri
  BY <1>0 DEF ConnectLogind, Streams
<1>8. StreamsTell(p.wk, edges', world)  BY <1>0, <1>2, <1>6, <1>7 DEF StreamsTell, Alike
<1>9. UNCHANGED <<clk, world, hist, left>>  BY DEF ConnectLogind
<1>10. ASSUME hist.intact
       PROVE  HonestLedger(p.st.trk, p.st.db, clk.mono, hist) /\ HonestWorker(p.st.trk, p.st.db, p.wk, edges', world)
  <2>1. Honest(S0, clk.mono, hist) /\ HonestWorker(trk, db, wrk, edges, world)
    BY <1>0, <1>10, RunningIsHonest DEF UsageInv
  <2>2. Honest(p.st, clk.mono, hist)  BY <1>6, <2>1
  <2>3. p.st.trk.active = NotActive  BY <1>0, <1>6, <2>1, S0Is DEF HonestWorker
  <2>4. p.wk.seen \/ ~p.st.trk.connected  BY <1>0, <1>2, <1>6, <2>1 DEF HonestWorker, Alike
  <2>5. p.wk.cap = "healthy" =>
          p.st.db.gap = NoSample /\ ~p.st.trk.gapOpen /\ p.st.trk.connected /\ p.st.trk.session # "none"
    BY <1>0, <1>6, <2>1, S0Is DEF HonestWorker, ProbesAfter, ConnectLogind
  <2> QED  BY <2>2, <2>3, <2>4, <2>5 DEF Honest, HonestWorker
<1> QED  BY <1>5, <1>6, <1>7, <1>8, <1>9, <1>10, OtherStep DEF UsageInv

LEMMA ConnectIdleKeeps == ASSUME UsageInv, ConnectIdle PROVE UsageInv'
<1>0. /\ SampledAt(Sample, clk.mono) /\ Sound(S0, clk.mono) /\ ~S0.err /\ wrk \in Worker /\ edges \in Streams
      /\ StreamsTell(wrk, edges, world) /\ wrk.running /\ ~wrk.idleStream /\ world.idle \in BOOLEAN
  BY SampleIsNow, S0Is DEF UsageInv, ConnectIdle
<1>1. PICK x : x = [wrk EXCEPT !.idleStream = TRUE, !.inputIdle = world.idle]  OBVIOUS
<1>2. /\ x \in Worker /\ x.cap = wrk.cap /\ x.running = wrk.running /\ x.niri = wrk.niri /\ x.seen = wrk.seen
      /\ x.logindStream = wrk.logindStream /\ x.idleStream /\ x.inputIdle = world.idle /\ x.focus = wrk.focus
  BY <1>0, <1>1 DEF Worker
<1>3. PICK p : p = Refresh(S0, x, edges.logind, "none")  OBVIOUS
<1>4. Refreshes(S0, x, edges.logind, p, "none", clk.mono, hist)  BY <1>0, <1>2, <1>3, RefreshHandles
<1>5. trk' = p.st.trk /\ db' = p.st.db /\ wrk' = p.wk  BY <1>1, <1>3 DEF ConnectIdle, Apply, Commit
<1>6. /\ Sound(p.st, clk.mono) /\ p.wk \in Worker /\ Alike(x, p.wk)
      /\ p.st.trk.connected => trk.connected
      /\ p.st.trk.active = NotActive \/ p.st = S0
      /\ Honest(S0, clk.mono, hist) => Honest(p.st, clk.mono, hist)
      /\ p.wk.cap = "healthy" => p.st = S0 /\ wrk.cap = "healthy"
      /\ p.wk.pc \in {"loop", "probing"} /\ (p.wk.pc # "loop" => x.logindStream /\ x.idleStream)
  BY <1>2, <1>4, S0Is DEF Refreshes, Handles
<1>7. edges' \in Streams /\ edges'.idle = <<>> /\ edges'.niri = edges.niri
  BY <1>0, EmptySeq DEF ConnectIdle, Streams, Worker
<1>8. StreamsTell(p.wk, edges', world)  BY <1>0, <1>2, <1>6, <1>7 DEF StreamsTell, Alike
<1>9. UNCHANGED <<clk, world, hist, left>>  BY DEF ConnectIdle
<1>10. ASSUME hist.intact
       PROVE  HonestLedger(p.st.trk, p.st.db, clk.mono, hist) /\ HonestWorker(p.st.trk, p.st.db, p.wk, edges', world)
  <2>1. Honest(S0, clk.mono, hist) /\ HonestWorker(trk, db, wrk, edges, world)
    BY <1>0, <1>10, RunningIsHonest DEF UsageInv
  <2>2. Honest(p.st, clk.mono, hist)  BY <1>6, <2>1
  <2>3. p.st.trk.active = NotActive  BY <1>0, <1>6, <2>1, S0Is DEF HonestWorker
  <2>4. p.wk.seen \/ ~p.st.trk.connected  BY <1>0, <1>2, <1>6, <2>1 DEF HonestWorker, Alike
  <2>5. p.wk.cap = "healthy" =>
          p.st.db.gap = NoSample /\ ~p.st.trk.gapOpen /\ p.st.trk.connected /\ p.st.trk.session # "none"
    BY <1>0, <1>6, <2>1, S0Is DEF HonestWorker, ProbesAfter, ConnectIdle
  <2> QED  BY <2>2, <2>3, <2>4, <2>5 DEF Honest, HonestWorker
<1> QED  BY <1>5, <1>6, <1>7, <1>8, <1>9, <1>10, OtherStep DEF UsageInv

\* A new tracker over the same tables.
LEMMA NewTrackerKeeps ==
  ASSUME NEW k, NEW d \in Tables, NEW m, LedgerGood(k, d, m), Conserved(d), NEW g, g.gap = d.gap, NEW q,
         q = [trk |-> NewTracker(g), db |-> d, err |-> FALSE], NEW h
  PROVE  /\ Sound(q, m) /\ q.trk.active = NotActive /\ ~q.trk.connected
         /\ HonestLedger(k, d, m, h) => HonestLedger(q.trk, q.db, m, h)
<1>1. /\ q.db = d /\ q.trk = NewTracker(g) /\ q.trk.active = NotActive /\ q.trk.last = NoSample
      /\ q.trk.gapOpen = (d.gap # NoSample) /\ ~q.trk.connected
  BY DEF NewTracker
<1>2. q.trk \in Tracker
  <2>1. NoApp \in Apps \cup {NoApp} /\ "none" \in SessionViews  BY DEF SessionViews
  <2> QED  BY <1>1, <2>1, NoneTyped DEF NewTracker, Tracker
<1>3. q \in Books  BY <1>1, <1>2 DEF Books
<1>4. NotActive.counted = NoSample  BY DEF NotActive
<1>5. LedgerGood(q.trk, q.db, m)  BY <1>1, <1>4 DEF LedgerGood, Reached
<1>6. RowGood(q.trk, q.db) /\ Level(q.trk) /\ Standing(q.trk)  BY <1>1 DEF RowGood, Level, Standing
<1>7. HonestLedger(k, d, m, h) => HonestLedger(q.trk, q.db, m, h)  BY <1>1 DEF HonestLedger
<1> QED  BY <1>1, <1>3, <1>5, <1>6, <1>7 DEF Sound, Kept

\* Without streams there is nothing to tell.
LEMMA NothingTold ==
  ASSUME NEW w, NEW e, NEW wd, ~w.seen, ~w.niri, ~w.idleStream, w.pc = "loop", e.idle = <<>>, e.niri = <<>>
  PROVE  StreamsTell(w, e, wd)
BY DEF StreamsTell

LEMMA CrashKeeps == ASSUME UsageInv, Crash PROVE UsageInv'
<1>0. /\ Sound(S0, clk.mono) /\ db \in Tables /\ LedgerGood(trk, db, clk.mono) /\ Conserved(db)
  BY S0Is DEF UsageInv, Sound, Kept, Books
<1>1. PICK q : q = [trk |-> NewTracker(db), db |-> db, err |-> FALSE]  OBVIOUS
<1>2. /\ Sound(q, clk.mono) /\ q.trk.active = NotActive
      /\ HonestLedger(trk, db, clk.mono, hist) => HonestLedger(q.trk, q.db, clk.mono, hist)
  BY <1>0, <1>1, NewTrackerKeeps
<1>3. trk' = q.trk /\ db' = q.db  BY <1>1 DEF Crash
<1>4. /\ wrk' \in Worker /\ ~wrk'.running /\ ~wrk'.seen /\ ~wrk'.niri /\ ~wrk'.idleStream /\ wrk'.pc = "loop"
  BY DEF Crash, Worker
<1>5. edges' \in Streams /\ edges'.idle = <<>> /\ edges'.niri = <<>>
  BY EmptySeq DEF Crash, Streams
<1>6. StreamsTell(wrk', edges', world)  BY <1>4, <1>5, NothingTold
<1>7. hist.intact =>
        HonestLedger(q.trk, q.db, clk.mono, hist) /\ HonestWorker(q.trk, q.db, wrk', edges', world)
  BY <1>2, <1>4, QuietWorker DEF UsageInv
<1>8. left' \in 0..Disturbances  BY UsageAssumption DEF Crash, UsageInv
<1>9. UNCHANGED <<clk, world, hist>>  BY DEF Crash
<1> QED  BY <1>2, <1>3, <1>4, <1>5, <1>6, <1>7, <1>8, <1>9, OtherStep DEF UsageInv

\* usage_worker ends: the gap is marked and the store released.
LEMMA StopKeeps == ASSUME UsageInv, NEW f, Stop(f) PROVE UsageInv'
<1>0. /\ clk.mono \in 0..MaxTime /\ Sound(S0, clk.mono) /\ ~S0.err /\ wrk \in Worker /\ wrk.running /\ wrk.pc = "loop"
  BY SampleIsNow, S0Is DEF UsageInv, Stop
<1>1. PICK r : r = MarkEventGap(S0, f)  OBVIOUS
<1>2. Interrupts(S0, r, f, clk.mono, hist)  BY <1>0, <1>1, MarkEventGapKeeps
<1>3. PICK s : s = [r EXCEPT !.err = FALSE]  OBVIOUS
<1>4. Sound(s, clk.mono) /\ ~s.err /\ s.trk = r.trk /\ s.db = r.db
  BY <1>2, <1>3, ErrorForgotten DEF Interrupts
<1>5. PICK c : c = CloseActive(s, f)  OBVIOUS
<1>6. Closes(s, c, f, clk.mono)
  <2>1. s.trk.active # NotActive => s.db.open.app \in Apps  BY <1>4 DEF Sound, Kept, RowGood
  <2> QED  BY <1>0, <1>4, <1>5, <2>1, CloseActiveKeeps DEF Sound, Kept
<1>7. c \in Books /\ c.db \in Tables /\ LedgerGood(c.trk, c.db, clk.mono) /\ Conserved(c.db) /\ s.db.gap = c.db.gap
  BY <1>6 DEF Closes, Kept, Books
<1>8. PICK q : q = [trk |-> NewTracker(s.db), db |-> c.db, err |-> FALSE]  OBVIOUS
<1>9. /\ Sound(q, clk.mono) /\ q.trk.active = NotActive
      /\ HonestLedger(c.trk, c.db, clk.mono, hist) => HonestLedger(q.trk, q.db, clk.mono, hist)
  BY <1>7, <1>8, NewTrackerKeeps
<1>10. trk' = q.trk /\ db' = q.db
  <2>1. PICK z : z = [c EXCEPT !.trk = NewTracker(s.db)]  OBVIOUS
  <2>2. z.trk = q.trk /\ z.db = q.db  BY <1>7, <1>8, <2>1 DEF Books
  <2>3. Commit(z)  BY <1>1, <1>3, <1>5, <2>1 DEF Stop, Released, IntoStore
  <2> QED  BY <2>2, <2>3 DEF Commit
<1>11. /\ wrk' \in Worker /\ ~wrk'.running /\ ~wrk'.seen /\ ~wrk'.niri /\ ~wrk'.idleStream /\ wrk'.pc = "loop"
  BY <1>0 DEF Stop, Worker
<1>12. edges' \in Streams /\ edges'.idle = <<>> /\ edges'.niri = <<>>
  BY EmptySeq DEF Stop, Streams
<1>13. StreamsTell(wrk', edges', world)  BY <1>11, <1>12, NothingTold
<1>14. ASSUME hist.intact, f = "none"
       PROVE  HonestLedger(q.trk, q.db, clk.mono, hist) /\ HonestWorker(q.trk, q.db, wrk', edges', world)
  <2>1. Honest(r, clk.mono, hist) /\ r.trk.active = NotActive
    BY <1>0, <1>2, <1>14, RunningIsHonest DEF Interrupts
  <2>2. c = s  BY <1>4, <1>6, <2>1 DEF Closes
  <2>3. HonestLedger(c.trk, c.db, clk.mono, hist)  BY <1>4, <2>1, <2>2 DEF Honest
  <2> QED  BY <1>9, <1>11, <2>3, QuietWorker
<1>15. left >= 1 + Cost(f) /\ Spend(1, f) /\ UNCHANGED <<clk, world>>
  <2>1. left > Cost(f) /\ left \in Int /\ Cost(f) \in Int  BY DEF Stop, UsageInv, Cost
  <2> QED  BY <2>1 DEF Stop
<1> QED  BY <1>9, <1>10, <1>11, <1>12, <1>13, <1>14, <1>15, WorkerStep

\* The recovery of a database whose worker was lost: the row is closed, and a gap
\* reaches from its last checkpoint, or from the start, to what comes.
LEMMA StartKeeps == ASSUME UsageInv, Start PROVE UsageInv'
<1> DEFINE m == clk.mono
<1>0. /\ SampledAt(Sample, m) /\ m \in 0..MaxTime /\ MaxTime \in Nat /\ db \in Tables /\ LedgerGood(trk, db, m)
      /\ Conserved(db) /\ wrk \in Worker /\ edges \in Streams /\ StreamsTell(wrk, edges, world)
  BY SampleIsNow, S0Is, UsageAssumption DEF UsageInv, Sound, Kept, Books
<1>1. Sample # NoSample /\ Reached(Sample, m) /\ Sample \in Samples /\ Sample.mono = m
  BY <1>0, NoSampleIsEarly DEF SampledAt
<1>2. PICK d : d = RecoverOpenIntervals(db, Sample)  OBVIOUS
<1>3. /\ d \in Tables /\ d.open = NoRow /\ d.gaps = db.gaps /\ d.credit = db.credit /\ d.agg = db.agg
      /\ d.gap = (IF db.open # NoRow /\ db.gap = NoSample THEN db.open.check ELSE db.gap)
      /\ \A app \in Apps : d.closed[app] = db.closed[app] + (IF db.open.app = app THEN db.open.dur ELSE 0)
  <2>1. CASE db.open = NoRow
    <3>1. d = db  BY <1>2, <2>1 DEF RecoverOpenIntervals
    <3>2. \A app \in Apps : db.open.app # app /\ db.closed[app] \in Nat
      BY <1>0, <2>1, NoAppIsNone DEF NoRow, Tables
    <3> QED  BY <1>0, <2>1, <3>1, <3>2
  <2>2. CASE db.open # NoRow
    <3>1. /\ db.open.app \in Apps /\ db.open.check \in Samples /\ db.open.dur \in Nat /\ db.closed \in [Apps -> Nat]
          /\ db.gap \in Samples
      BY <1>0, <2>2 DEF LedgerGood, Tables
    <3>2. PICK c : c = [db.closed EXCEPT ![db.open.app] = @ + db.open.dur]  OBVIOUS
    <3>3. PICK g : g = IF db.gap = NoSample THEN db.open.check ELSE db.gap  OBVIOUS
    <3>4. c \in [Apps -> Nat] /\ g \in Samples  BY <3>1, <3>2, <3>3
    <3>5. d = [db EXCEPT !.closed = c, !.open = NoRow, !.gap = g]
      BY <1>2, <2>2, <3>2, <3>3 DEF RecoverOpenIntervals
    <3>6. /\ d.open = NoRow /\ d.gaps = db.gaps /\ d.credit = db.credit /\ d.agg = db.agg /\ d.gap = g
          /\ d.closed = c
      BY <1>0, <3>5 DEF Tables
    <3>7. d \in Tables  BY <1>0, <3>4, <3>5, NoneTyped DEF Tables
    <3>8. \A app \in Apps : c[app] = db.closed[app] + (IF db.open.app = app THEN db.open.dur ELSE 0)
      BY <3>1, <3>2
    <3> QED  BY <2>2, <3>3, <3>6, <3>7, <3>8
  <2> QED  BY <2>1, <2>2
<1>4. PICK g : g = BeginGap([trk |-> trk, db |-> d, err |-> FALSE], Sample, "none")  OBVIOUS
<1>5. PICK n : n = g.db  OBVIOUS
<1>6. /\ n \in Tables /\ n.open = NoRow /\ n.gaps = db.gaps /\ n.credit = db.credit /\ n.agg = db.agg
      /\ n.gap = (IF d.gap = NoSample THEN Sample ELSE d.gap) /\ n.closed = d.closed
  <2>1. CASE d.gap # NoSample
    <3>1. g = [trk |-> trk, db |-> d, err |-> FALSE]  BY <1>4, <2>1 DEF BeginGap
    <3>2. n = d  BY <1>5, <3>1
    <3> QED  BY <1>3, <2>1, <3>2
  <2>2. CASE d.gap = NoSample
    <3>1. g = [[trk |-> trk, db |-> d, err |-> FALSE] EXCEPT !.db.gap = Sample]  BY <1>4, <2>2 DEF BeginGap
    <3>2. n = [d EXCEPT !.gap = Sample]  BY <1>5, <3>1
    <3> QED  BY <1>1, <1>3, <2>2, <3>2 DEF Tables
  <2> QED  BY <2>1, <2>2
<1>7. n.gap # NoSample /\ Reached(n.gap, m) /\ Blank(db, n.gap.mono)
  BY <1>0, <1>1, <1>3, <1>6 DEF LedgerGood
<1>8. \A i : Blank(db, i) => Blank(n, i)  BY <1>6 DEF Blank
<1>9. PICK k : k = [trk EXCEPT !.gapOpen = TRUE]  OBVIOUS
<1>10. k.last = trk.last /\ k.active = trk.active /\ k.gapOpen
  <2>1. trk \in Tracker  BY S0Is DEF UsageInv, Sound, Kept, Books
  <2> QED  BY <1>9, <2>1 DEF Tracker
<1>11. LedgerGood(k, n, m)
  <2>1. NoRow.check = NoSample  BY DEF NoRow
  <2> QED  BY <1>0, <1>6, <1>7, <1>8, <1>10, <2>1 DEF LedgerGood, Reached
<1>12. Conserved(n)
  <2> SUFFICES ASSUME NEW app \in Apps
               PROVE  /\ n.closed[app] + (IF n.open.app = app THEN n.open.dur ELSE 0)
                           = Cardinality(CreditedTo(n, app))
                      /\ SumFunction(AggregateOf(n, app)) = Cardinality(CreditedTo(n, app))
    BY DEF Conserved
  <2>1. CreditedTo(n, app) = CreditedTo(db, app) /\ AggregateOf(n, app) = AggregateOf(db, app)
    BY <1>6 DEF CreditedTo, AggregateOf
  <2>2. /\ db.closed[app] + (IF db.open.app = app THEN db.open.dur ELSE 0) = Cardinality(CreditedTo(db, app))
        /\ SumFunction(AggregateOf(db, app)) = Cardinality(CreditedTo(db, app))
    BY <1>0 DEF Conserved
  <2>3. n.open.app # app /\ n.closed[app] \in Nat  BY <1>6, NoAppIsNone DEF NoRow, Tables
  <2>4. n.closed[app] = db.closed[app] + (IF db.open.app = app THEN db.open.dur ELSE 0)  BY <1>3, <1>6
  <2> QED  BY <2>1, <2>2, <2>3, <2>4
<1>13. PICK q : q = [trk |-> NewTracker(n), db |-> n, err |-> FALSE]  OBVIOUS
<1>14. /\ Sound(q, m) /\ q.trk.active = NotActive /\ ~q.trk.connected
       /\ HonestLedger(k, n, m, hist) => HonestLedger(q.trk, q.db, m, hist)
  BY <1>6, <1>11, <1>12, <1>13, NewTrackerKeeps
<1>15. trk' = q.trk /\ db' = q.db  BY <1>2, <1>4, <1>5, <1>13 DEF Start
<1>16. wrk' = [wrk EXCEPT !.running = TRUE, !.cap = "degraded"] /\ UNCHANGED <<clk, world, edges, hist, left>>
  BY DEF Start
<1>17. /\ wrk' \in Worker /\ wrk'.running /\ wrk'.cap = "degraded" /\ wrk'.pc = wrk.pc /\ wrk'.niri = wrk.niri
       /\ wrk'.seen = wrk.seen /\ wrk'.logindStream = wrk.logindStream /\ wrk'.idleStream = wrk.idleStream
       /\ wrk'.inputIdle = wrk.inputIdle /\ wrk'.focus = wrk.focus /\ wrk'.probe = wrk.probe
  BY <1>0, <1>16 DEF Worker
<1>18. StreamsTell(wrk', edges, world)  BY <1>0, <1>17 DEF StreamsTell
<1>19. ASSUME hist.intact
       PROVE  HonestLedger(q.trk, q.db, m, hist) /\ HonestWorker(q.trk, q.db, wrk', edges, world)
  <2>1. HonestLedger(trk, db, m, hist)  BY <1>19 DEF UsageInv
  <2>2. ASSUME NEW t \in hist.due
        PROVE  t \in 1..m /\ (n.credit[t] # <<>> \/ Covers(n, t))
    <3>1. t \in 1..m /\ (db.credit[t] # <<>> \/ Covers(db, t) \/ Waits(db, t))  BY <2>1 DEF HonestLedger
    <3>2. Covers(db, t) => Covers(n, t)  BY <1>3, <1>6 DEF Covers
    <3>3. Waits(db, t) => Covers(n, t)
      <4>1. SUFFICES ASSUME Waits(db, t) PROVE Covers(n, t)  OBVIOUS
      <4>2. db.open # NoRow /\ t > db.open.check.mono /\ db.gap = NoSample  BY <2>1, <4>1 DEF Waits, HonestLedger
      <4>3. db.open.check # NoSample  BY <1>0, <4>2 DEF LedgerGood
      <4>4. n.gap = db.open.check  BY <1>3, <1>6, <4>2, <4>3
      <4> QED  BY <1>7, <4>2, <4>4 DEF Covers
    <3> QED  BY <1>6, <3>1, <3>2, <3>3
  <2>3. HonestLedger(k, n, m, hist)  BY <1>6, <1>10, <2>1, <2>2 DEF HonestLedger
  <2>4. q.db.open = NoRow  BY <1>6, <1>13
  <2>5. HonestWorker(q.trk, q.db, wrk', edges, world)  BY <1>14, <1>17, <2>4, QuietWorker
  <2> QED  BY <1>14, <2>3, <2>5
<1> QED  BY <1>0, <1>14, <1>15, <1>16, <1>17, <1>18, <1>19, OtherStep DEF UsageInv

\* Time passes: what is due waits for the open row, and the application an interval is
\* open for may be counted.
LEMMA TickKeeps == ASSUME UsageInv, Tick PROVE UsageInv'
<1> DEFINE m == clk.mono
<1>0. /\ m \in 0..MaxTime /\ MaxTime \in Nat /\ m < MaxTime /\ S0 \in Books /\ db \in Tables /\ trk \in Tracker
      /\ LedgerGood(trk, db, m) /\ RowGood(trk, db) /\ Conserved(db) /\ Level(trk) /\ Standing(trk)
      /\ hist \in History /\ StreamsTell(wrk, edges, world) /\ world.focus \in Apps
  BY SampleIsNow, S0Is, UsageAssumption DEF UsageInv, Sound, Kept, Books, Tick
<1>1. PICK n : n = m + 1  OBVIOUS
<1>2. n \in 1..MaxTime /\ n > m /\ \A t \in 1..n : t \in 1..m \/ t = n  BY <1>0, <1>1
<1>3. clk' = [clk EXCEPT !.mono = n] /\ UNCHANGED <<world, edges, wrk, trk, db, left>>
  BY <1>1 DEF Tick
<1>4. clk' \in [mono : 0..MaxTime, skew : -2..2, zone : 0..1] /\ clk'.mono = n  BY <1>2, <1>3 DEF UsageInv
<1>5. S0' = S0  BY <1>3 DEF S0
<1>6. LedgerGood(trk, db, n)
  <2>1. \A x : Reached(x, m) => Reached(x, n)  BY <1>0, <1>2 DEF Reached
  <2>2. Blank(db, n)
    <3>1. Blank(db, m)  BY <1>0 DEF LedgerGood
    <3> QED  BY <1>0, <1>2, <3>1, BlankLater
  <2>3. \A t \in db.gaps : t <= n
    <3> TAKE t \in db.gaps
    <3>1. t \in Int /\ t <= m  BY <1>0 DEF LedgerGood, Tables
    <3> QED  BY <1>0, <1>2, <3>1
  <2> QED  BY <1>0, <2>1, <2>2, <2>3 DEF LedgerGood
<1>7. Sound(S0', clk'.mono)  BY <1>0, <1>4, <1>5, <1>6, S0Is DEF Sound, Kept
<1>8. PICK due : due = IF Due THEN hist.due \cup {n} ELSE hist.due  OBVIOUS
<1>9. PICK ct : ct = [hist.countable EXCEPT ![n] = Countable]  OBVIOUS
<1>10. hist' = [hist EXCEPT !.due = due, !.countable = ct]  BY <1>1, <1>8, <1>9 DEF Tick
<1>11. Countable \in SUBSET Apps  BY <1>0 DEF Countable
<1>12. /\ due \in SUBSET (1..MaxTime) /\ ct \in [1..MaxTime -> SUBSET Apps]
       /\ ct[n] = Countable /\ \A t \in 1..m : ct[t] = hist.countable[t]
  BY <1>0, <1>2, <1>8, <1>9, <1>11 DEF History
<1>13. hist' \in History /\ hist'.due = due /\ hist'.countable = ct /\ hist'.intact = hist.intact
  BY <1>0, <1>10, <1>12 DEF History
<1>14. ASSUME hist.intact
       PROVE  HonestLedger(trk, db, n, hist')
  <2>1. HonestLedger(trk, db, m, hist) /\ HonestWorker(trk, db, wrk, edges, world)
    BY <1>14 DEF UsageInv
  <2>2. ASSUME trk.active # NotActive PROVE trk.active.app \in Countable /\ Waits(db, n)
    <3>1. /\ wrk.running /\ wrk.niri /\ wrk.logindStream /\ wrk.idleStream /\ ~wrk.inputIdle
          /\ edges.logind \/ (world.permit /\ (wrk.pc = "probed" => wrk.probe = "permit"))
          /\ edges.niri # <<>> \/ wrk.pc # "loop" \/ world.focus = trk.active.app
      BY <2>1, <2>2 DEF HonestWorker
    <3>2. trk.active.app \in Apps /\ db.open.app = trk.active.app /\ db.open.check = trk.active.counted
      BY <1>0, <2>2 DEF RowGood
    <3>3. edges.idle = <<>> => ~world.idle  BY <1>0, <3>1 DEF StreamsTell
    <3>4. trk.active.app \in Countable  BY <3>1, <3>2, <3>3 DEF Countable
    <3>5. db.open # NoRow  BY <3>2, NoAppIsNone DEF NoRow
    <3>6. db.open.check # NoSample /\ Reached(db.open.check, m)  BY <1>0, <3>5 DEF LedgerGood
    <3>7. n > db.open.check.mono  BY <1>0, <1>1, <3>6 DEF Reached
    <3> QED  BY <3>4, <3>5, <3>7 DEF Waits
  <2>3. ASSUME NEW t \in due
        PROVE  t \in 1..n /\ (db.credit[t] # <<>> \/ Covers(db, t) \/ Waits(db, t))
    <3>1. CASE t \in hist.due
      <4>1. t \in 1..m /\ (db.credit[t] # <<>> \/ Covers(db, t) \/ Waits(db, t))
        BY <2>1, <3>1 DEF HonestLedger
      <4> QED  BY <1>0, <1>1, <4>1
    <3>2. CASE t \notin hist.due
      <4>1. t = n /\ Due  BY <1>8, <2>3, <3>2
      <4>2. trk.active # NotActive  BY <4>1 DEF Due
      <4> QED  BY <1>2, <2>2, <4>1, <4>2
    <3> QED  BY <3>1, <3>2
  <2>4. ASSUME NEW t \in 1..n, NEW app \in Apps, db.credit[t] = <<app>> PROVE app \in ct[t]
    <3>1. CASE t = n
      <4>1. db.credit[n] = <<>>  BY <1>0, <1>2 DEF LedgerGood, Blank
      <4>2. <<app>> # <<>>  OBVIOUS
      <4> QED  BY <2>4, <3>1, <4>1, <4>2
    <3>2. CASE t \in 1..m  BY <1>12, <2>1, <2>4, <3>2 DEF HonestLedger
    <3> QED  BY <1>2, <3>1, <3>2
  <2>5. ASSUME trk.active # NotActive, NEW t \in 1..n, t > trk.active.counted.mono PROVE trk.active.app \in ct[t]
    <3>1. CASE t = n  BY <1>12, <2>2, <2>5, <3>1
    <3>2. CASE t \in 1..m  BY <1>12, <2>1, <2>5, <3>2 DEF HonestLedger
    <3> QED  BY <1>2, <3>1, <3>2
  <2>6. db.open # NoRow => db.gap = NoSample  BY <2>1 DEF HonestLedger
  <2> QED  BY <1>13, <2>3, <2>4, <2>5, <2>6 DEF HonestLedger
<1>15. hist'.intact => HonestLedger(trk', db', clk'.mono, hist') /\ HonestWorker(trk', db', wrk', edges', world')
  BY <1>3, <1>4, <1>13, <1>14 DEF UsageInv
<1> QED  BY <1>3, <1>4, <1>7, <1>13, <1>15 DEF UsageInv

\* The clocks, and the session's edges.
LEMMA ClockKeeps ==
  ASSUME UsageInv, left > 0, left' = left - 1, UNCHANGED <<world, edges, wrk, trk, db, hist>>, clk'.mono = clk.mono,
         clk' \in [mono : 0..MaxTime, skew : -2..2, zone : 0..1]
  PROVE  UsageInv'
<1>1. left' \in 0..Disturbances  BY UsageAssumption DEF UsageInv
<1> QED  BY <1>1, S0Is, OtherStep DEF UsageInv

LEMMA ClockStepKeeps == ASSUME UsageInv, NEW d \in {-2, 1}, ClockStep(d) PROVE UsageInv'
<1>1. clk' = [clk EXCEPT !.skew = @ + d] /\ clk.skew + d \in -2..2  BY DEF ClockStep
<1>2. clk'.mono = clk.mono /\ clk' \in [mono : 0..MaxTime, skew : -2..2, zone : 0..1]  BY <1>1 DEF UsageInv
<1> QED  BY <1>2, ClockKeeps DEF ClockStep

LEMMA ZoneChangeKeeps == ASSUME UsageInv, ZoneChange PROVE UsageInv'
<1>1. clk' = [clk EXCEPT !.zone = 1 - @] /\ clk.zone \in 0..1  BY DEF ZoneChange, UsageInv
<1>2. 1 - clk.zone \in 0..1  BY <1>1
<1>3. clk'.mono = clk.mono /\ clk' \in [mono : 0..MaxTime, skew : -2..2, zone : 0..1]  BY <1>1, <1>2 DEF UsageInv
<1> QED  BY <1>3, ClockKeeps DEF ZoneChange

LEMMA SessionEdgeHonest == ASSUME UsageInv, SessionEdge PROVE UsageInv'
<1>0. /\ Sound(S0, clk.mono) /\ wrk \in Worker /\ edges \in Streams /\ StreamsTell(wrk, edges, world)
      /\ world \in [permit : BOOLEAN, idle : BOOLEAN, focus : Apps]
  BY DEF UsageInv
<1>1. left' \in 0..Disturbances  BY UsageAssumption DEF UsageInv, SessionEdge
<1>2. UNCHANGED <<clk, wrk, trk, db, hist>>  BY DEF SessionEdge
<1>3. /\ world' \in [permit : BOOLEAN, idle : BOOLEAN, focus : Apps]
      /\ world'.idle = world.idle /\ world'.focus = world.focus
  BY <1>0 DEF SessionEdge
<1>4. edges' \in Streams /\ edges'.logind = wrk.logindStream /\ edges'.idle = edges.idle /\ edges'.niri = edges.niri
  BY <1>0 DEF SessionEdge, Streams, Worker
<1>5. StreamsTell(wrk, edges', world')  BY <1>0, <1>3, <1>4 DEF StreamsTell
<1>6. HonestWorker(trk, db, wrk, edges, world) => HonestWorker(trk, db, wrk, edges', world')
  BY <1>3, <1>4 DEF HonestWorker
<1> QED  BY <1>0, <1>1, <1>2, <1>3, <1>4, <1>5, <1>6, S0Is, OtherStep DEF UsageInv

\* A stream that gets one more element ends with it.
LEMMA AppendEnds ==
  ASSUME NEW S, NEW s \in Seq(S), NEW x \in S, NEW t, t = Append(s, x)
  PROVE  t \in Seq(S) /\ t # <<>> /\ t[Len(t)] = x
<1>1. t \in Seq(S) /\ Len(t) = Len(s) + 1 /\ Len(s) \in Nat /\ t[Len(s) + 1] = x  BY AppendProperties, LenProperties
<1>2. Len(t) # 0  BY <1>1
<1>3. t # <<>>  BY <1>1, <1>2, EmptySeq
<1> QED  BY <1>1, <1>3

LEMMA IdleEdgeKeeps == ASSUME UsageInv, IdleEdge PROVE UsageInv'
<1>0. /\ Sound(S0, clk.mono) /\ wrk \in Worker /\ edges \in Streams /\ StreamsTell(wrk, edges, world)
      /\ world \in [permit : BOOLEAN, idle : BOOLEAN, focus : Apps]
  BY DEF UsageInv
<1>1. left' \in 0..Disturbances  BY UsageAssumption DEF UsageInv, IdleEdge
<1>2. UNCHANGED <<clk, wrk, trk, db, hist>>  BY DEF IdleEdge
<1>3. PICK b \in BOOLEAN : b = ~world.idle  BY <1>0
<1>4. /\ world' \in [permit : BOOLEAN, idle : BOOLEAN, focus : Apps]
      /\ world'.permit = world.permit /\ world'.idle = b /\ world'.focus = world.focus
  BY <1>0, <1>3 DEF IdleEdge
<1>5. PICK t : t = IF wrk.idleStream THEN Append(edges.idle, b) ELSE edges.idle  OBVIOUS
<1>6. /\ t \in Seq(BOOLEAN) /\ (wrk.idleStream => t # <<>> /\ t[Len(t)] = b) /\ (~wrk.idleStream => t = <<>>)
  <2>1. edges.idle \in Seq(BOOLEAN) /\ (~wrk.idleStream => edges.idle = <<>>)  BY <1>0 DEF Streams, StreamsTell
  <2>2. CASE wrk.idleStream
    <3>1. t = Append(edges.idle, b)  BY <1>5, <2>2
    <3>2. t \in Seq(BOOLEAN) /\ t # <<>> /\ t[Len(t)] = b  BY <2>1, <3>1, AppendEnds
    <3> QED  BY <2>2, <3>2
  <2>3. CASE ~wrk.idleStream  BY <1>5, <2>1, <2>3
  <2> QED  BY <2>2, <2>3
<1>7. edges' = [edges EXCEPT !.idle = t]  BY <1>3, <1>5 DEF IdleEdge
<1>8. edges' \in Streams /\ edges'.logind = edges.logind /\ edges'.idle = t /\ edges'.niri = edges.niri
  BY <1>0, <1>6, <1>7 DEF Streams
<1>9. StreamsTell(wrk, edges', world')  BY <1>0, <1>4, <1>6, <1>8 DEF StreamsTell
<1>10. HonestWorker(trk, db, wrk, edges, world) => HonestWorker(trk, db, wrk, edges', world')
  BY <1>4, <1>8 DEF HonestWorker
<1> QED  BY <1>0, <1>1, <1>2, <1>4, <1>8, <1>9, <1>10, S0Is, OtherStep DEF UsageInv

LEMMA FocusMovesKeeps == ASSUME UsageInv, NEW app \in Apps, FocusMoves(app) PROVE UsageInv'
<1>0. /\ Sound(S0, clk.mono) /\ wrk \in Worker /\ edges \in Streams /\ StreamsTell(wrk, edges, world)
      /\ world \in [permit : BOOLEAN, idle : BOOLEAN, focus : Apps]
  BY DEF UsageInv
<1>1. left' \in 0..Disturbances  BY UsageAssumption DEF UsageInv, FocusMoves
<1>2. UNCHANGED <<clk, wrk, trk, db, hist>>  BY DEF FocusMoves
<1>3. /\ world' \in [permit : BOOLEAN, idle : BOOLEAN, focus : Apps]
      /\ world'.permit = world.permit /\ world'.idle = world.idle /\ world'.focus = app
  BY <1>0 DEF FocusMoves
<1>4. PICK t : t = IF wrk.niri THEN Append(edges.niri, app) ELSE edges.niri  OBVIOUS
<1>5. /\ t \in Seq(Apps) /\ (wrk.niri => t # <<>> /\ t[Len(t)] = app) /\ (~wrk.niri => t = <<>>)
  <2>1. edges.niri \in Seq(Apps) /\ (~wrk.niri => edges.niri = <<>>)  BY <1>0 DEF Streams, StreamsTell
  <2>2. CASE wrk.niri
    <3>1. t = Append(edges.niri, app)  BY <1>4, <2>2
    <3>2. t \in Seq(Apps) /\ t # <<>> /\ t[Len(t)] = app  BY <2>1, <3>1, AppendEnds
    <3> QED  BY <2>2, <3>2
  <2>3. CASE ~wrk.niri  BY <1>4, <2>1, <2>3
  <2> QED  BY <2>2, <2>3
<1>6. edges' = [edges EXCEPT !.niri = t]  BY <1>4 DEF FocusMoves
<1>7. edges' \in Streams /\ edges'.logind = edges.logind /\ edges'.idle = edges.idle /\ edges'.niri = t
  BY <1>0, <1>5, <1>6 DEF Streams
<1>8. StreamsTell(wrk, edges', world')  BY <1>0, <1>3, <1>5, <1>7 DEF StreamsTell
<1>9. HonestWorker(trk, db, wrk, edges, world) => HonestWorker(trk, db, wrk, edges', world')
  BY <1>3, <1>5, <1>7 DEF HonestWorker
<1> QED  BY <1>0, <1>1, <1>2, <1>3, <1>7, <1>8, <1>9, S0Is, OtherStep DEF UsageInv

LEMMA UsageStutters == ASSUME UsageInv, UNCHANGED usageVars PROVE UsageInv'
BY DEF UsageInv, usageVars, S0, Sample

LEMMA UsageNextKeeps == ASSUME UsageInv, UsageNext PROVE UsageInv'
<1>1. CASE \E f \in Failures \cup {"clock"} :
             \/ RefreshBegins(f) \/ RefreshEnds(f) \/ PollLogind(f) \/ PollIdle(f) \/ PollNiri(f)
  BY <1>1, RefreshBeginsKeeps, RefreshEndsKeeps, PollLogindKeeps, PollIdleKeeps, PollNiriKeeps
<1>2. CASE \E f \in Failures : ProbeFails(f) \/ LoseNiri(f) \/ LoseLogind(f) \/ LoseIdle(f) \/ Stop(f)
  BY <1>2, ProbeFailsKeeps, LoseNiriKeeps, LoseLogindKeeps, LoseIdleKeeps, StopKeeps
<1>3. CASE Probe \/ ConnectNiri \/ ConnectLogind \/ ConnectIdle \/ Crash \/ Start
  BY <1>3, ProbeKeeps, ConnectNiriKeeps, ConnectLogindKeeps, ConnectIdleKeeps, CrashKeeps, StartKeeps
<1>4. CASE Tick \/ ZoneChange \/ SessionEdge \/ IdleEdge
  BY <1>4, TickKeeps, ZoneChangeKeeps, SessionEdgeHonest, IdleEdgeKeeps
<1>5. CASE \E d \in {-2, 1} : ClockStep(d)  BY <1>5, ClockStepKeeps
<1>6. CASE \E app \in Apps : FocusMoves(app)  BY <1>6, FocusMovesKeeps
<1> QED  BY <1>1, <1>2, <1>3, <1>4, <1>5, <1>6 DEF UsageNext

LEMMA UsageInitKeeps == UsageInit => UsageInv
<1> SUFFICES ASSUME UsageInit PROVE UsageInv  OBVIOUS
<1>1. MaxTime \in Nat /\ Disturbances \in Nat  BY UsageAssumption
<1>2. /\ clk \in [mono : 0..MaxTime, skew : -2..2, zone : 0..1] /\ clk.mono = 0 /\ clk.skew = 0 /\ clk.zone = 0
      /\ left \in 0..Disturbances
  BY <1>1 DEF UsageInit
<1>3. world \in [permit : BOOLEAN, idle : BOOLEAN, focus : Apps]  BY DEF UsageInit
<1>4. edges \in Streams /\ edges.idle = <<>> /\ edges.niri = <<>>  BY EmptySeq DEF UsageInit, Streams
<1>5. /\ wrk \in Worker /\ ~wrk.seen /\ ~wrk.niri /\ ~wrk.idleStream /\ wrk.pc = "loop" /\ wrk.cap = "degraded"
  BY DEF UsageInit, Worker
<1>6. /\ hist \in History /\ hist.due = {}
  BY DEF UsageInit, History
<1>7. StreamsTell(wrk, edges, world)  BY <1>4, <1>5, NothingTold
<1>8. Sample = [mono |-> 0, wall |-> 4, zone |-> 0]  BY <1>2 DEF Sample, Epoch
<1>9. /\ Sample \in Samples /\ Sample.mono = 0 /\ Sample # NoSample /\ Reached(Sample, 0)
  <2>1. 0 \in NoTime..MaxTime  BY <1>1 DEF NoTime
  <2>2. Sample \in Samples  BY <1>8, <2>1 DEF Samples
  <2>3. 4 \in 0..Epoch + MaxTime + 2  BY <1>1 DEF Epoch
  <2>4. NoSample.mono = -1  BY DEF NoSample, NoTime
  <2>5. Sample.mono = 0 /\ Sample.wall = 4  BY <1>8
  <2>6. Sample # NoSample  BY <2>4, <2>5
  <2> QED  BY <2>2, <2>3, <2>5, <2>6 DEF Reached
<1>10. /\ db.open = NoRow /\ db.closed = [a \in Apps |-> 0] /\ db.gap = Sample /\ db.gaps = {}
       /\ db.agg = [k \in Apps \X Minutes |-> 0] /\ db.credit = [t \in 1 .. MaxTime |-> <<>>]
       /\ db = [open |-> db.open, closed |-> db.closed, gap |-> db.gap, gaps |-> db.gaps, agg |-> db.agg,
                credit |-> db.credit]
  BY DEF UsageInit
<1>11. db \in Tables
  <2>1. db.closed \in [Apps -> Nat] /\ db.agg \in [Apps \X Minutes -> Nat] /\ db.gap \in Samples
        /\ db.gaps \in SUBSET (1..MaxTime)
    BY <1>9, <1>10
  <2>2. db.credit \in [1..MaxTime -> Seq(Apps)]
    <3>1. <<>> \in Seq(Apps)  BY EmptySeq
    <3> QED  BY <1>10, <3>1
  <2>3. db.open \in [app : Apps \cup {NoApp}, dur : Nat, check : Samples]  BY <1>10, NoneTyped
  <2> QED  BY <1>10, <2>1, <2>2, <2>3 DEF Tables
<1>13. trk = NewTracker(db) /\ trk.active = NotActive /\ trk.last = NoSample /\ trk.gapOpen /\ ~trk.connected
  BY <1>9, <1>10 DEF UsageInit, NewTracker
<1>14. LedgerGood(trk, db, 0)
  <2>1. NoRow.check = NoSample /\ NotActive.counted = NoSample  BY DEF NoRow, NotActive
  <2>2. \A i : Blank(db, i)  BY <1>10 DEF Blank
  <2>3. \A t \in 1..MaxTime : db.credit[t] = <<>>  BY <1>10
  <2> QED  BY <1>9, <1>10, <1>13, <2>1, <2>2, <2>3 DEF LedgerGood, Reached
<1>15. Conserved(db)
  <2> SUFFICES ASSUME NEW app \in Apps
               PROVE  /\ db.closed[app] + (IF db.open.app = app THEN db.open.dur ELSE 0)
                           = Cardinality(CreditedTo(db, app))
                      /\ SumFunction(AggregateOf(db, app)) = Cardinality(CreditedTo(db, app))
    BY DEF Conserved
  <2>1. CreditedTo(db, app) = {}
    <3>1. <<app>> # <<>>  OBVIOUS
    <3> QED  BY <1>10, <3>1 DEF CreditedTo
  <2>2. Cardinality(CreditedTo(db, app)) = 0  BY <2>1, FS_EmptySet
  <2>3. db.closed[app] = 0 /\ db.open.app # app  BY <1>10, NoAppIsNone DEF NoRow
  <2>4. PICK g : g = AggregateOf(db, app)  OBVIOUS
  <2>5. DOMAIN g = Minutes /\ \A x \in Minutes : g[x] = 0  BY <1>10, <2>4 DEF AggregateOf
  <2>6. SumFunctionOnSet(g, Minutes) = 0  BY <2>5, MinutesAreFinite, SumOfZeros
  <2>7. SumFunction(g) = 0  BY <2>5, <2>6 DEF SumFunction
  <2> QED  BY <2>2, <2>3, <2>4, <2>7
<1>16. PICK q : q = [trk |-> NewTracker(db), db |-> db, err |-> FALSE]  OBVIOUS
<1>17. Sound(q, 0)  BY <1>11, <1>14, <1>15, <1>16, NewTrackerKeeps
<1>18. S0 = q  BY <1>13, <1>16 DEF S0
<1>19. HonestLedger(trk, db, 0, hist)  BY <1>1, <1>6, <1>10, <1>13 DEF HonestLedger
<1>20. HonestWorker(trk, db, wrk, edges, world)  BY <1>5, <1>10, <1>13, QuietWorker
<1> QED  BY <1>2, <1>3, <1>4, <1>5, <1>6, <1>7, <1>17, <1>18, <1>19, <1>20 DEF UsageInv

\* The parts of the invariant that the properties state.
LEMMA UsageInvAccounts == UsageInv => TimeIsAccounted
<1> SUFFICES ASSUME UsageInv PROVE TimeIsAccounted  OBVIOUS
<1>0. /\ clk.mono \in 0..MaxTime /\ MaxTime \in Nat /\ trk \in Tracker /\ db \in Tables /\ LedgerGood(trk, db, clk.mono)
      /\ RowGood(trk, db) /\ Conserved(db) /\ Level(trk)
  BY S0Is, SampleIsNow, UsageAssumption DEF UsageInv, Sound, Kept, Books
<1>1. UsageTypeOK
  BY <1>0 DEF UsageTypeOK, UsageInv, Tracker, Tables, Worker
<1>2. DOMAIN db.credit = 1..MaxTime  BY <1>0 DEF Tables
<1>3. \A t \in 1..MaxTime : db.credit[t] = <<>> \/ \E app \in Apps : db.credit[t] = <<app>>
  BY <1>0 DEF LedgerGood
<1>4. \A t \in 1..MaxTime : Len(db.credit[t]) <= 1 /\ (db.credit[t] # <<>> => Len(db.credit[t]) = 1)
  <2> TAKE t \in 1..MaxTime
  <2>1. CASE db.credit[t] = <<>>
    <3>1. Len(<<>>) = 0  BY EmptySeq
    <3> QED  BY <2>1, <3>1
  <2>2. CASE db.credit[t] # <<>>
    <3>1. PICK app \in Apps : db.credit[t] = <<app>>  BY <1>3, <2>2
    <3>2. Len(<<app>>) = 1  OBVIOUS
    <3> QED  BY <3>1, <3>2
  <2> QED  BY <2>1, <2>2
<1>5. TimeIsConserved
  <2>1. ASSUME NEW app \in Apps PROVE CreditOf(app) = Cardinality(CreditedTo(db, app))
    <3>1. ASSUME NEW t \in 1..MaxTime
          PROVE  (\E i \in DOMAIN db.credit[t] : db.credit[t][i] = app) <=> db.credit[t] = <<app>>
      <4>1. CASE db.credit[t] = <<>>
        <5>1. DOMAIN <<>> = {} /\ <<app>> # <<>>  OBVIOUS
        <5> QED  BY <4>1, <5>1
      <4>2. CASE db.credit[t] # <<>>
        <5>1. PICK b \in Apps : db.credit[t] = <<b>>  BY <1>3, <4>2
        <5>2. DOMAIN <<b>> = {1} /\ <<b>>[1] = b /\ <<app>>[1] = app  OBVIOUS
        <5> QED  BY <5>1, <5>2
      <4> QED  BY <4>1, <4>2
    <3>2. {t \in DOMAIN db.credit : \E i \in DOMAIN db.credit[t] : db.credit[t][i] = app} = CreditedTo(db, app)
      BY <1>2, <3>1 DEF CreditedTo
    <3> QED  BY <3>2 DEF CreditOf
  <2>2. \A app \in Apps :
          /\ db.closed[app] + (IF db.open.app = app THEN db.open.dur ELSE 0) = CreditOf(app)
          /\ SumFunction([m \in Minutes |-> db.agg[<<app, m>>]]) = CreditOf(app)
    BY <1>0, <2>1 DEF Conserved, AggregateOf
  <2> QED  BY <1>2, <1>4, <2>2 DEF TimeIsConserved
<1>6. RowMatchesTracker  BY <1>0 DEF RowMatchesTracker, RowGood, Level
<1>7. GapsAreUncounted
  <2> SUFFICES ASSUME NEW t \in 1..clk.mono, InGap(t) PROVE db.credit[t] = <<>>  BY DEF GapsAreUncounted
  <2>1. t \in 1..MaxTime  BY <1>0
  <2> QED  BY <1>0, <2>1 DEF InGap, LedgerGood, Blank
<1>8. DueTimeIsAccounted
  <2> SUFFICES ASSUME hist.intact, NEW t \in hist.due
               PROVE  Len(db.credit[t]) = 1 \/ InGap(t) \/ Pending(t)
    BY DEF DueTimeIsAccounted
  <2>1. t \in 1..clk.mono /\ (db.credit[t] # <<>> \/ Covers(db, t) \/ Waits(db, t))
    BY DEF UsageInv, HonestLedger
  <2>2. t \in 1..MaxTime  BY <1>0, <2>1
  <2> QED  BY <1>4, <2>1, <2>2 DEF InGap, Pending, Covers, Waits
<1> QED  BY <1>1, <1>5, <1>6, <1>7, <1>8 DEF TimeIsAccounted

LEMMA UsageInvIsHonest == UsageInv => TrackingIsHonest
<1> SUFFICES ASSUME UsageInv PROVE TrackingIsHonest  OBVIOUS
<1>0. clk.mono \in 0..MaxTime /\ MaxTime \in Nat /\ LedgerGood(trk, db, clk.mono)
  BY S0Is, SampleIsNow, UsageAssumption DEF UsageInv, Sound, Kept
<1>1. CountedWasObserved
  <2> SUFFICES ASSUME hist.intact, NEW t \in 1..clk.mono, NEW i \in DOMAIN db.credit[t]
               PROVE  db.credit[t][i] \in hist.countable[t]
    BY DEF CountedWasObserved
  <2>1. t \in 1..MaxTime  BY <1>0
  <2>2. db.credit[t] # <<>>
    <3>1. DOMAIN <<>> = {}  OBVIOUS
    <3> QED  BY <3>1
  <2>3. PICK app \in Apps : db.credit[t] = <<app>>  BY <1>0, <2>1, <2>2 DEF LedgerGood
  <2>4. DOMAIN <<app>> = {1} /\ <<app>>[1] = app  OBVIOUS
  <2>5. app \in hist.countable[t]  BY <2>3 DEF UsageInv, HonestLedger
  <2> QED  BY <2>3, <2>4, <2>5
<1>2. HealthyIsTracking
  BY DEF HealthyIsTracking, UsageInv, HonestWorker, ProbesAfter, ProbesAfterPause
<1> QED  BY <1>1, <1>2 DEF TrackingIsHonest

\* Every reachable state of usage tracking satisfies its invariant.
LEMMA UsageInvHolds == UsageSpec => []UsageInv
<1>1. UsageInv /\ [UsageNext]_usageVars => UsageInv'  BY UsageNextKeeps, UsageStutters
<1> QED  BY <1>1, UsageInitKeeps, PTL DEF UsageSpec

\* Usage time is accounted: for every clock bound, minute length, drift and event-gap
\* limit, whichever store call or clock reading fails and wherever the worker stops or
\* crashes, a tick is counted at most once, rows and aggregates add up to what was
\* counted, no gap covers counted time, the open row is where the tracker is, and while
\* nothing failed every due tick is counted, in a gap or pending (tracker.rs, store.rs).
THEOREM TimeStaysAccounted == UsageSpec => []TimeIsAccounted
BY UsageInvHolds, UsageInvAccounts, PTL

\* Tracking is honest: while nothing failed, what is counted was seen or an edge was on
\* its way, and the worker reports healthy only while its tracker has no gap, a session
\* and the focus source (refresh_session_with_focus, publish_worker_state).
THEOREM TrackingStaysHonest == UsageSpec => []TrackingIsHonest
BY UsageInvHolds, UsageInvIsHonest, PTL
=============================================================================
