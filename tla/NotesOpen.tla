------------------------------ MODULE NotesOpen ------------------------------
(***************************************************************************)
(* Opening the notes database: prepare_database_path and notes_worker of   *)
(* bins/appd/src/notes.rs, from_connection of repository.rs, and the       *)
(* schema migrations with their backups (migration.rs).  The process may   *)
(* die between any two steps and is then started again.                    *)
(***************************************************************************)
EXTENDS Naturals

CONSTANTS
  Current,        \* CURRENT_SCHEMA_VERSION
  MaxNoteCrashes  \* bound on crashes

ASSUME NotesOpenAssumption == Current \in Nat \ {0} /\ MaxNoteCrashes \in Nat

VARIABLES
  paths,          \* state directory and database file: private, missing, unsafe
  database,       \* [version, sound]
  firstVersion,   \* the version found by the first start
  backupFile,     \* version -> none, torn, whole
  scratch,        \* the temporary backup: none, torn, whole
  opener,         \* where the worker is
  from,           \* migrate: the version it read
  notesCapability,
  noteCrashes

notesOpenVars == <<paths, database, firstVersion, backupFile, scratch, opener, from, notesCapability, noteCrashes>>

Fails(capability) == opener' = "failed" /\ notesCapability' = capability

\* prepare_database_path: what is missing is created private, what is not private is refused.
PreparePath ==
  /\ opener = "start"
  /\ IF paths = "unsafe" THEN Fails("unreachable") /\ UNCHANGED paths
     ELSE paths' = "private" /\ opener' = "check" /\ UNCHANGED notesCapability
  /\ UNCHANGED <<database, firstVersion, backupFile, scratch, from, noteCrashes>>

\* quick_check, ensure_supported, and the version migrate starts from.
CheckDatabase ==
  /\ opener = "check"
  /\ from' = database.version
  /\ IF ~database.sound THEN Fails("corrupt")
     ELSE IF database.version > Current THEN Fails("unsupported")
     ELSE /\ UNCHANGED notesCapability
          /\ opener' = IF database.version \in 1..Current - 1 THEN "backup" ELSE "migrate"
  /\ UNCHANGED <<paths, database, firstVersion, backupFile, scratch, noteCrashes>>

\* ensure_migration_backup: one that is there must be a good one.
FindBackup ==
  /\ opener = "backup" /\ backupFile[from] # "none"
  /\ IF backupFile[from] = "whole" THEN opener' = "migrate" /\ UNCHANGED notesCapability ELSE Fails("degraded")
  /\ UNCHANGED <<paths, database, firstVersion, backupFile, scratch, from, noteCrashes>>

\* Faulty variant of BeginBackup: the copy is written under its final name.
BeginBackupInPlace ==
  /\ opener = "backup" /\ backupFile[from] = "none"
  /\ backupFile' = [backupFile EXCEPT ![from] = "torn"]
  /\ scratch' = "torn" /\ opener' = "copying"
  /\ UNCHANGED <<paths, database, firstVersion, from, notesCapability, noteCrashes>>

\* VACUUM INTO a file of its own: begun and not finished until it is synced.
BeginBackup ==
  /\ opener = "backup" /\ backupFile[from] = "none"
  /\ scratch' = "torn" /\ opener' = "copying"
  /\ UNCHANGED <<paths, database, firstVersion, backupFile, from, notesCapability, noteCrashes>>

\* Copied, checked and synced, or the disk is full and the temporary file removed.
FinishCopy ==
  /\ opener = "copying"
  /\ \/ scratch' = "whole" /\ opener' = "publish" /\ UNCHANGED notesCapability
     \/ scratch' = "none" /\ Fails("degraded")
  /\ UNCHANGED <<paths, database, firstVersion, backupFile, from, noteCrashes>>

\* hard_link, the directory is synced, the temporary name goes.
PublishNotesBackup ==
  /\ opener = "publish"
  /\ backupFile' = [backupFile EXCEPT ![from] = scratch] /\ scratch' = "none" /\ opener' = "migrate"
  /\ UNCHANGED <<paths, database, firstVersion, from, notesCapability, noteCrashes>>

\* Each migration is a transaction of its own.
MigrateOne ==
  /\ opener = "migrate" /\ database.version < Current
  /\ database' = [database EXCEPT !.version = @ + 1]
  /\ UNCHANGED <<paths, firstVersion, backupFile, scratch, opener, from, notesCapability, noteCrashes>>

\* validate_runtime_files once more, then the worker serves.
NotesReady ==
  /\ opener = "migrate" /\ database.version = Current
  /\ IF paths = "private" THEN opener' = "ready" /\ notesCapability' = "healthy" ELSE Fails("unreachable")
  /\ UNCHANGED <<paths, database, firstVersion, backupFile, scratch, from, noteCrashes>>

\* Somebody changes the mode of the file.
PathsLoosened ==
  /\ paths = "private" /\ paths' = "unsafe"
  /\ UNCHANGED <<database, firstVersion, backupFile, scratch, opener, from, notesCapability, noteCrashes>>

\* The process dies; a torn temporary file has a name nobody looks for again.
NotesCrash ==
  /\ noteCrashes < MaxNoteCrashes /\ noteCrashes' = noteCrashes + 1
  /\ opener' = "start" /\ scratch' = "none" /\ notesCapability' = "warming up"
  /\ UNCHANGED <<paths, database, firstVersion, backupFile, from>>

-----------------------------------------------------------------------------
NotesOpenInit ==
  /\ paths \in {"missing", "private", "unsafe"}
  /\ database \in [version : 0..Current + 1, sound : BOOLEAN]
  /\ (paths = "missing") => (database = [version |-> 0, sound |-> TRUE])
  /\ firstVersion = database.version
  /\ backupFile = [v \in 1..Current |-> "none"]
  /\ scratch = "none" /\ opener = "start" /\ from = 0 /\ notesCapability = "warming up" /\ noteCrashes = 0

NotesOpenNext ==
  \/ PreparePath \/ CheckDatabase \/ FindBackup \/ BeginBackup \/ FinishCopy \/ PublishNotesBackup
  \/ MigrateOne \/ NotesReady \/ PathsLoosened \/ NotesCrash

NotesOpenSpec == NotesOpenInit /\ [][NotesOpenNext]_notesOpenVars

-----------------------------------------------------------------------------
\* Whatever crashes interrupt an upgrade, the database as it was found is kept
\* whole in a backup before the first migration touches it, and no half
\* written file ever has a backup's name, which would refuse every later start.
UpgradeIsReversible ==
  /\ firstVersion > 0 /\ database.version > firstVersion => backupFile[firstVersion] = "whole"
  /\ \A v \in 1..Current : backupFile[v] # "torn"
=============================================================================
