----------------------------- MODULE UsageOpen -----------------------------
(***************************************************************************)
(* Opening usage.sqlite3: UsageStore::open of crates/usage/src/store.rs,   *)
(* called by the worker of bins/appd/src/usage.rs.  Several appd processes *)
(* may open the file at once, and a process may die anywhere.  The file    *)
(* may be a version 1 database: it is backed up, then migrated, before the *)
(* writer lease is taken.                                                  *)
(***************************************************************************)
EXTENDS Naturals, FiniteSets

CONSTANTS
  Openers,       \* processes
  MaxDeaths      \* bound on processes that die

ASSUME OpenAssumption == MaxDeaths \in Nat

NoOne == <<"no-one", 0>>

VARIABLES
  ver,       \* user_version of the file
  legacy,    \* usage_coverage, the table of version 1, holds a gap
  moved,     \* how many times that gap was copied to coverage_gaps
  backup,    \* version of usage.sqlite3.v1.bak, 0 when there is none
  lease,     \* writer_lease: the process and its life, or NoOne
  row,       \* who opened the open focus interval
  op,        \* where each process is in open()
  seen,      \* the version each process read
  temp,      \* version of each process's temporary backup, 0 when there is none
  life,      \* pid and start ticks: a process that died comes back as another
  deaths

openVars == <<ver, legacy, moved, backup, lease, row, op, seen, temp, life, deaths>>
fileVars == <<ver, legacy, moved, backup, lease, row>>

Identity(p) == <<p, life[p]>>

At(p, pc) == op[p] = pc

Goes(p, pc) == op' = [op EXCEPT ![p] = pc]

\* Faulty variant of OpenFile: an old file is migrated without a backup.
OpenFileNoBackup(p) ==
  /\ At(p, "closed")
  /\ seen' = [seen EXCEPT ![p] = ver]
  /\ Goes(p, IF ver < 2 THEN "migrate" ELSE "lease")
  /\ UNCHANGED <<fileVars, temp, life, deaths>>

\* prepare_database_path, ensure_database_integrity and user_version.  A path,
\* file or page that is not as it should be ends the worker.
OpenFile(p) ==
  /\ At(p, "closed")
  /\ seen' = [seen EXCEPT ![p] = ver]
  /\ \/ Goes(p, IF ver = 1 THEN "backup" ELSE IF ver = 0 THEN "migrate" ELSE "lease")
     \/ Goes(p, "failed")
  /\ UNCHANGED <<fileVars, temp, life, deaths>>

\* ensure_migration_backup: an existing backup is validated and kept, otherwise
\* VACUUM INTO writes what the file holds now to a file of the process's own.
Vacuum(p) ==
  /\ At(p, "backup")
  /\ IF backup # 0
     THEN /\ Goes(p, IF backup = seen[p] THEN "migrate" ELSE "failed")
          /\ UNCHANGED temp
     ELSE /\ temp' = [temp EXCEPT ![p] = ver]
          /\ Goes(p, "publish")
  /\ UNCHANGED <<fileVars, seen, life, deaths>>

\* validate_migration_backup, sync, hard_link without replacement, directory
\* sync; the temporary file goes either way.
PublishBackup(p) ==
  /\ At(p, "publish")
  /\ IF temp[p] # seen[p] \/ (backup # 0 /\ backup # seen[p])
     THEN Goes(p, "failed") /\ UNCHANGED backup
     ELSE /\ backup' = IF backup = 0 THEN temp[p] ELSE backup
          /\ Goes(p, "migrate")
  /\ temp' = [temp EXCEPT ![p] = 0]
  /\ UNCHANGED <<ver, legacy, moved, lease, row, seen, life, deaths>>

\* The snapshot, the permissions, the sync or the link fails.
BackupFails(p) ==
  /\ op[p] \in {"backup", "publish"}
  /\ temp' = [temp EXCEPT ![p] = 0]
  /\ Goes(p, "failed")
  /\ UNCHANGED <<fileVars, seen, life, deaths>>

\* Faulty variant of Migrate: the legacy table is left in place.
MigrateKeepsTable(p) ==
  /\ At(p, "migrate")
  /\ ver' = 2
  /\ moved' = moved + IF seen[p] = 1 /\ legacy THEN 1 ELSE 0
  /\ Goes(p, "lease")
  /\ UNCHANGED <<legacy, backup, lease, row, seen, temp, life, deaths>>

\* Faulty variant of Migrate: user_version is counted up.
MigrateCounts(p) ==
  /\ At(p, "migrate")
  /\ ver' = ver + 1
  /\ moved' = moved /\ legacy' = FALSE
  /\ Goes(p, "lease")
  /\ UNCHANGED <<backup, lease, row, seen, temp, life, deaths>>

\* One immediate transaction, for the version that was read before it began.
\* From version 1 the legacy gap and the transition gap are inserted and the
\* legacy table is dropped: whoever comes second finds no table and rolls back.
Migrate(p) ==
  /\ At(p, "migrate")
  /\ IF seen[p] = 1 /\ ver # 1
     THEN Goes(p, "failed") /\ UNCHANGED <<ver, legacy, moved>>
     ELSE /\ ver' = 2
          /\ moved' = moved + IF seen[p] = 1 /\ legacy THEN 1 ELSE 0
          /\ legacy' = FALSE
          /\ Goes(p, "lease")
  /\ UNCHANGED <<backup, lease, row, seen, temp, life, deaths>>

\* A live owner: a process with the pid and the start ticks of the lease.
LiveOwner == \E q \in Openers : lease = Identity(q) /\ op[q] # "dead"

\* Faulty variant of AcquireWriterLease: a lease of an earlier start is stale.
AcquireIgnoringOwner(p) ==
  /\ At(p, "lease")
  /\ lease' = Identity(p) /\ Goes(p, "recover")
  /\ UNCHANGED <<ver, legacy, moved, backup, row, seen, temp, life, deaths>>

\* One immediate transaction over the lease row.
AcquireWriterLease(p) ==
  /\ At(p, "lease")
  /\ IF LiveOwner
     THEN Goes(p, "failed") /\ UNCHANGED lease
     ELSE lease' = Identity(p) /\ Goes(p, "recover")
  /\ UNCHANGED <<ver, legacy, moved, backup, row, seen, temp, life, deaths>>

\* recover_open_intervals; when it fails the store is dropped.
Recover(p) ==
  /\ At(p, "recover")
  /\ row' = NoOne
  /\ Goes(p, "running")
  /\ UNCHANGED <<ver, legacy, moved, backup, lease, seen, temp, life, deaths>>

\* The tracker opens and closes intervals.
Writes(p) ==
  /\ At(p, "running")
  /\ row' = IF row = NoOne THEN Identity(p) ELSE NoOne
  /\ UNCHANGED <<ver, legacy, moved, backup, lease, op, seen, temp, life, deaths>>

\* Drop for UsageStore: the lease is deleted if it is still this process's;
\* the delete may fail, as it is not reported.
CloseStore(p) ==
  /\ op[p] \in {"recover", "running"}
  /\ lease' \in {lease, IF lease = Identity(p) THEN NoOne ELSE lease}
  /\ row' = IF At(p, "running") THEN NoOne ELSE row
  /\ Goes(p, "failed")
  /\ UNCHANGED <<ver, legacy, moved, backup, seen, temp, life, deaths>>

Dies(p) ==
  /\ op[p] # "dead" /\ deaths < MaxDeaths
  /\ deaths' = deaths + 1
  /\ Goes(p, "dead")
  /\ UNCHANGED <<fileVars, seen, temp, life>>

\* Another process in its place.  Its temporary files have new names.
Respawn(p) ==
  /\ At(p, "dead")
  /\ life' = [life EXCEPT ![p] = @ + 1]
  /\ temp' = [temp EXCEPT ![p] = 0]
  /\ Goes(p, "closed")
  /\ UNCHANGED <<fileVars, seen, deaths>>

OpenInit ==
  /\ ver \in {0, 1, 2}
  /\ legacy \in (IF ver = 1 THEN BOOLEAN ELSE {FALSE})
  /\ moved = 0 /\ backup = 0 /\ lease = NoOne /\ row = NoOne
  /\ op = [p \in Openers |-> "closed"] /\ seen = [p \in Openers |-> ver]
  /\ temp = [p \in Openers |-> 0] /\ life = [p \in Openers |-> 0] /\ deaths = 0

OpenNext ==
  \E p \in Openers :
    \/ OpenFile(p) \/ Vacuum(p) \/ PublishBackup(p) \/ BackupFails(p) \/ Migrate(p)
    \/ AcquireWriterLease(p) \/ Recover(p) \/ Writes(p) \/ CloseStore(p) \/ Dies(p) \/ Respawn(p)

UsageOpenSpec == OpenInit /\ [][OpenNext]_openVars

-----------------------------------------------------------------------------
\* The variables keep their shapes.
OpenTypeOK ==
  /\ ver \in 0 .. 2 /\ legacy \in BOOLEAN /\ backup \in 0 .. 2
  /\ op \in [Openers -> {"closed", "backup", "publish", "migrate", "lease", "recover", "running",
                         "failed", "dead"}]
  /\ temp \in [Openers -> 0 .. 2] /\ seen \in [Openers -> 0 .. 2]
  /\ deaths \in 0 .. MaxDeaths

\* However openings, deaths and takeovers interleave, at most one process
\* recovers or writes, and the open interval is its own or a dead process's:
\* recovery never closes the interval of a live writer.
OneUsageWriter ==
  /\ Cardinality({p \in Openers : op[p] \in {"recover", "running"}}) <= 1
  /\ \A p \in Openers : At(p, "running") => row \in {NoOne, Identity(p)}

\* The gap that version 1 counted is copied exactly once although the version
\* is read before the transaction that migrates.
LegacyGapMovedOnce == [][moved' # moved => moved = 0 /\ moved' = 1 /\ ver = 1]_<<moved, ver>>

\* A migrated file has its version 1 backup beside it, whoever migrated it and
\* whoever died meanwhile; a backup never changes once it is there.
BackupPrecedesUpgrade ==
  [][/\ ver = 1 /\ ver' = 2 => backup = 1
     /\ backup # 0 => backup' = backup]_<<ver, backup>>

\* Opening is safe for processes that race and die: one writer at a time, one
\* move of the old gap, a backup before any upgrade (UsageStore::open).
OpensSafely == []OpenTypeOK /\ []OneUsageWriter /\ LegacyGapMovedOnce /\ BackupPrecedesUpgrade
=============================================================================
