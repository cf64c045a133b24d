----------------------------- MODULE NotesStore -----------------------------
(***************************************************************************)
(* Notes with optimistic revisions: NotesRepository and the commands of    *)
(* NotesService (crates/notes), behind the queue and the worker thread of  *)
(* bins/appd/src/notes.rs.                                                 *)
(*                                                                         *)
(* An editor works on the note as it last saw it and sends the revision of *)
(* that note along.  Its command waits in the queue while other editors'   *)
(* commands run; the editor may give up waiting and try again.  A command  *)
(* keeps the note the editor saw as "base"; the code is sent base.revision *)
(* only.  Time is the wall clock, which may be set back.                   *)
(***************************************************************************)
EXTENDS Naturals, Sequences, FiniteSets

CONSTANTS
  NoteIds,        \* ids Uuid::new_v4 hands out
  Editors,
  Drafts,         \* what editors type: [text, tags], tags a sequence of raw tags
  TagKey,         \* normalize_tag_key: raw tag -> key, keys are ordered numbers
  Times,          \* wall clock readings
  Policies,       \* RetentionPolicy: [purge, prune, keep], 0 for no purge or no prune
  MaxRevision,    \* bound on the edits of a note
  QueueSize       \* COMMAND_CAPACITY

ASSUME NotesAssumption == MaxRevision \in Nat /\ QueueSize \in Nat \ {0} /\ Times \subseteq Nat
                         /\ \A p \in Policies : p.keep \in Nat \ {0}

VARIABLES
  notes,          \* table notes: [revision, text, created, updated, deleted], deleted 0 for NULL
  noteTags,       \* table note_tags: key -> display tag
  revisions,      \* table note_revisions
  usedIds,        \* ids handed out
  noteQueue,      \* the sync_channel
  notesWorker,    \* the worker thread: running, stopped
  supervisor,     \* run: serving, sending (waiting in send_control), joined
  telling,        \* the blocking task of send_control still holds the command
  seenNote,       \* each editor's note as it last saw it
  waits           \* editors that wait for a reply

notesVars == <<notes, noteTags, revisions, usedIds, noteQueue, notesWorker, supervisor, telling, seenNote, waits>>
tableVars == <<notes, noteTags, revisions, usedIds>>

Unseen == [id |-> "none", revision |-> 0]

-----------------------------------------------------------------------------
(* NotesRepository *)

\* normalize_draft: the first spelling of each tag stays, sorted by key.
NormalizedTags(tags) ==
  [k \in {TagKey[tags[i]] : i \in DOMAIN tags} |->
     tags[CHOOSE i \in DOMAIN tags : TagKey[tags[i]] = k /\ \A j \in 1..i-1 : TagKey[tags[j]] # k]]

\* load_note.
LoadNote(id) ==
  [id |-> id, revision |-> notes[id].revision, text |-> notes[id].text, tags |-> noteTags[id],
   created |-> notes[id].created, updated |-> notes[id].updated, deleted |-> notes[id].deleted]

RowOf(note) ==
  [revision |-> note.revision, text |-> note.text, created |-> note.created,
   updated |-> note.updated, deleted |-> note.deleted]

Put(f, k, v) == [x \in DOMAIN f \cup {k} |-> IF x = k THEN v ELSE f[x]]

\* Faulty variant of Later: the clock is believed.
LaterPlain(a, b) == a

Later(a, b) == IF a > b THEN a ELSE b

\* insert_note or update_note, replace_tags, insert_revision and the commit.
Store(note, now) ==
  /\ notes' = Put(notes, note.id, RowOf(note))
  /\ noteTags' = Put(noteTags, note.id, note.tags)
  /\ revisions' = revisions \cup {[note |-> note, recorded |-> now]}

CreateNote(id, draft, now) ==
  /\ id \notin usedIds /\ usedIds' = usedIds \cup {id}
  /\ Store([id |-> id, revision |-> 1, text |-> draft.text, tags |-> NormalizedTags(draft.tags),
            created |-> now, updated |-> now, deleted |-> 0], now)

SameDraft(note, draft) == note.text = draft.text /\ note.tags = NormalizedTags(draft.tags)

Conflicts(id, revision) == id \notin DOMAIN notes \/ notes[id].revision # revision

SaveNote(id, revision, draft, now) ==
  IF Conflicts(id, revision) \/ SameDraft(LoadNote(id), draft) THEN UNCHANGED tableVars
  ELSE /\ UNCHANGED usedIds
       /\ Store([LoadNote(id) EXCEPT !.text = draft.text, !.tags = NormalizedTags(draft.tags),
                   !.updated = Later(now, @), !.revision = @ + 1], now)

\* Faulty variant of SetDeleted: a deletion keeps the revision.
SetDeletedInPlace(id, revision, deleted, now) ==
  IF Conflicts(id, revision) \/ notes[id].deleted = deleted \/ (deleted # 0 /\ notes[id].deleted # 0)
  THEN UNCHANGED tableVars
  ELSE /\ notes' = [notes EXCEPT ![id].deleted = deleted]
       /\ UNCHANGED <<noteTags, revisions, usedIds>>

\* soft_delete and restore.  The tags are left alone.
SetDeleted(id, revision, deleted, now) ==
  IF Conflicts(id, revision) \/ notes[id].deleted = deleted \/ (deleted # 0 /\ notes[id].deleted # 0)
  THEN UNCHANGED tableVars
  ELSE LET saved == [LoadNote(id) EXCEPT !.revision = @ + 1, !.deleted = deleted, !.updated = Later(now, @)]
       IN /\ notes' = [notes EXCEPT ![id] = RowOf(saved)]
          /\ revisions' = revisions \cup {[note |-> saved, recorded |-> now]}
          /\ UNCHANGED <<noteTags, usedIds>>

Without(f, S) == [x \in DOMAIN f \ S |-> f[x]]

\* Rows of a note newer than this one.
NewerRows(row, rows) == {r \in rows : r.note.id = row.note.id /\ r.note.revision > row.note.revision}

\* Faulty variant of Prunable: all old rows go.
PrunableAll(rows, before, keep) == {r \in rows : r.recorded <= before}

\* The rows apply_retention deletes: old ones beyond the newest "keep".
Prunable(rows, before, keep) ==
  {r \in rows : r.recorded <= before /\ Cardinality(NewerRows(r, rows)) >= keep}

\* Faulty variant of ApplyNoteRetention: without foreign keys only the notes go.
ApplyNoteRetentionNotesOnly(purgeBefore, pruneBefore, keep) ==
  LET purged == {id \in DOMAIN notes : notes[id].deleted # 0 /\ notes[id].deleted <= purgeBefore}
  IN notes' = Without(notes, purged) /\ UNCHANGED <<noteTags, revisions, usedIds>>

\* apply_retention; the revisions and tags of a purged note go with it (ON DELETE CASCADE).
ApplyNoteRetention(purgeBefore, pruneBefore, keep) ==
  LET purged == {id \in DOMAIN notes : notes[id].deleted # 0 /\ notes[id].deleted <= purgeBefore}
      left == {r \in revisions : r.note.id \notin purged}
  IN /\ notes' = Without(notes, purged)
     /\ noteTags' = Without(noteTags, purged)
     /\ revisions' = left \ Prunable(left, pruneBefore, keep)
     /\ UNCHANGED usedIds

-----------------------------------------------------------------------------
(* The commands and the worker *)

\* NotesHandle::execute: an editor puts a command in the queue and waits.
Submit(e, op, draft) ==
  /\ e \notin waits /\ notesWorker = "running" /\ supervisor # "joined"
  /\ Len(noteQueue) < QueueSize
  /\ IF op = "create" THEN usedIds # NoteIds ELSE seenNote[e] # Unseen /\ seenNote[e].revision < MaxRevision
  /\ noteQueue' = Append(noteQueue, [op |-> op, editor |-> e, draft |-> draft,
                                     base |-> IF op = "create" THEN Unseen ELSE seenNote[e]])
  /\ waits' = waits \cup {e}
  /\ UNCHANGED <<tableVars, notesWorker, supervisor, telling, seenNote>>

\* COMMAND_DEADLINE: the editor hears notes_command_timeout; the command stays queued.
NotesTimeout(e) ==
  /\ e \in waits /\ waits' = waits \ {e}
  /\ UNCHANGED <<tableVars, noteQueue, notesWorker, supervisor, telling, seenNote>>

\* Get: the editor takes the stored note as its base.
GetNote(e, id) ==
  /\ e \notin waits /\ notesWorker = "running" /\ id \in DOMAIN notes
  /\ seenNote' = [seenNote EXCEPT ![e] = LoadNote(id)]
  /\ UNCHANGED <<tableVars, noteQueue, notesWorker, supervisor, telling, waits>>

\* commit_draft, delete and restore of NotesService, by the kind of command.
Perform(c, now) ==
  \/ c.op = "create" /\ \E id \in NoteIds : CreateNote(id, c.draft, now)
  \/ c.op = "save" /\ SaveNote(c.base.id, c.base.revision, c.draft, now)
  \/ c.op = "delete" /\ SetDeleted(c.base.id, c.base.revision, now, now)
  \/ c.op = "restore" /\ SetDeleted(c.base.id, c.base.revision, 0, now)

\* The worker takes a command, runs it and answers whoever still waits.
WorkerExecutes ==
  /\ notesWorker = "running" /\ noteQueue # <<>> /\ Head(noteQueue).op # "shutdown"
  /\ \E now \in Times : Perform(Head(noteQueue), now)
  /\ noteQueue' = Tail(noteQueue)
  /\ waits' = waits \ {Head(noteQueue).editor}
  /\ UNCHANGED <<notesWorker, supervisor, telling, seenNote>>

\* A command that fails: an invalid draft, an unsafe file, a database error.
WorkerRefuses ==
  /\ notesWorker = "running" /\ noteQueue # <<>> /\ Head(noteQueue).op # "shutdown"
  /\ noteQueue' = Tail(noteQueue)
  /\ waits' = waits \ {Head(noteQueue).editor}
  /\ UNCHANGED <<tableVars, notesWorker, supervisor, telling, seenNote>>

Maintain ==
  /\ notesWorker = "running"
  /\ \E p \in Policies : ApplyNoteRetention(p.purge, p.prune, p.keep)
  /\ UNCHANGED <<noteQueue, notesWorker, supervisor, telling, seenNote, waits>>

\* NotesSupervisor::run after the shutdown signal: send_control hands the command to
\* a blocking task, whose send waits for a place in the queue.
SupervisorStops ==
  /\ supervisor = "serving" /\ supervisor' = "sending" /\ telling' = TRUE
  /\ UNCHANGED <<tableVars, noteQueue, notesWorker, seenNote, waits>>

ShutdownIsSent ==
  /\ telling /\ telling' = FALSE
  /\ Len(noteQueue) < QueueSize
  /\ noteQueue' = Append(noteQueue, [op |-> "shutdown", editor |-> "nobody", base |-> Unseen])
  /\ UNCHANGED <<tableVars, notesWorker, supervisor, seenNote, waits>>

\* Faulty variant of SupervisorJoins: the send ends with the wait for it.
SupervisorJoinsUntold ==
  /\ supervisor = "sending" /\ supervisor' = "joined" /\ telling' = FALSE
  /\ UNCHANGED <<tableVars, noteQueue, notesWorker, seenNote, waits>>

\* send_control has returned, after COMMAND_DEADLINE with an error nobody looks at:
\* the blocking task goes on, and clear_sender and the join follow.
SupervisorJoins ==
  /\ supervisor = "sending" /\ supervisor' = "joined"
  /\ UNCHANGED <<tableVars, noteQueue, notesWorker, telling, seenNote, waits>>

\* NotesService::shutdown; commands behind it in the queue are dropped with it.
WorkerStops ==
  /\ notesWorker = "running" /\ noteQueue # <<>> /\ Head(noteQueue).op = "shutdown"
  /\ notesWorker' = "stopped" /\ noteQueue' = <<>> /\ waits' = {}
  /\ UNCHANGED <<tableVars, supervisor, telling, seenNote>>

-----------------------------------------------------------------------------
NotesInit ==
  /\ notes = <<>> /\ noteTags = <<>> /\ revisions = {} /\ usedIds = {}
  /\ noteQueue = <<>> /\ notesWorker = "running" /\ supervisor = "serving" /\ telling = FALSE
  /\ seenNote = [e \in Editors |-> Unseen] /\ waits = {}

NotesWorkerStep == WorkerExecutes \/ WorkerRefuses \/ WorkerStops

NotesNext ==
  \/ \E e \in Editors, op \in {"create", "save"}, d \in Drafts : Submit(e, op, d)
  \/ \E e \in Editors, op \in {"delete", "restore"} : Submit(e, op, "none")
  \/ \E e \in Editors : NotesTimeout(e) \/ \E id \in NoteIds : GetNote(e, id)
  \/ NotesWorkerStep \/ Maintain
  \/ SupervisorStops \/ ShutdownIsSent \/ SupervisorJoins

NotesSpec == NotesInit /\ [][NotesNext]_notesVars

-----------------------------------------------------------------------------
\* The tables agree on which notes exist and the queue keeps to its size.
NotesTypeOK ==
  /\ DOMAIN notes = DOMAIN noteTags /\ DOMAIN notes \subseteq usedIds
  /\ {r.note.id : r \in revisions} \subseteq DOMAIN notes
  /\ Len(noteQueue) <= QueueSize /\ notesWorker \in {"running", "stopped"}

\* Every stored note is the newest row of its own history, whatever was edited,
\* deleted, restored, purged or pruned, and no revision is recorded twice.
HistoryEndsInTheNote ==
  /\ \A id \in DOMAIN notes :
       \E r \in revisions : r.note = LoadNote(id) /\ NewerRows(r, revisions) = {}
  /\ \A r, s \in revisions : r.note.id = s.note.id /\ r.note.revision = s.note.revision => r = s

\* An edit replaces exactly the note its editor was looking at, however long
\* the command waited, whoever else edited, deleted or restored meanwhile, and
\* whether or not it is a repeat of a command that was given up.
NoLostEdit ==
  [][\A id \in DOMAIN notes \cap DOMAIN notes' :
        notes'[id] # notes[id] \/ noteTags'[id] # noteTags[id] => Head(noteQueue).base = LoadNote(id)]_notesVars

\* The last-change time of a note never goes back, although the clock may.
UpdatedNeverGoesBack ==
  [][\A id \in DOMAIN notes \cap DOMAIN notes' : notes'[id].updated >= notes[id].updated]_notesVars

\* The command to stop is never given up: from the shutdown on the worker has
\* stopped, finds it in the queue, or send_control's blocking task still offers it,
\* although the supervisor waits only COMMAND_DEADLINE for that before it joins.
StopIsUnderWay ==
  supervisor # "serving" =>
    notesWorker = "stopped" \/ telling \/ \E i \in DOMAIN noteQueue : noteQueue[i].op = "shutdown"

\* No edit is lost, out of its time or out of the history, and the join of the worker
\* that makes them ends, once it takes its commands (NotesRepository,
\* NotesSupervisor::run, send_control).
EditsAreKept ==
  []NotesTypeOK /\ []HistoryEndsInTheNote /\ []StopIsUnderWay /\ NoLostEdit /\ UpdatedNeverGoesBack
=============================================================================
