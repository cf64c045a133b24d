---------------------------- MODULE NotesProofs ----------------------------
(***************************************************************************)
(* Proofs about the notes: opening and upgrading the database (NotesOpen), *)
(* editing (NotesStore), uploading (NotesUpload) and reading (NotesPages), *)
(* each for any number of versions, crashes, editors, commands, uploads,   *)
(* chunks, notes and pages.                                                *)
(***************************************************************************)
EXTENDS NotesOpen, NotesStore, NotesUpload, NotesPages, FiniteSums, FiniteSetTheorems,
        SequenceTheorems, TLAPS

-----------------------------------------------------------------------------
(* Opening the database *)

\* Where the worker is tells what it has read and what it has written: it only
\* migrates once the version it started from has a backup.
OpenInv ==
  /\ database \in [version : 0..Current + 1, sound : BOOLEAN] /\ firstVersion \in 0..database.version
  /\ from \in 0..Current + 1
  /\ backupFile \in [1..Current -> {"none", "torn", "whole"}]
  /\ opener \in {"backup", "copying", "publish"} => from = database.version /\ from \in 1..Current - 1
  /\ opener = "publish" => scratch = "whole"
  /\ opener = "migrate" /\ database.version < Current /\ firstVersion > 0 => backupFile[firstVersion] = "whole"
  /\ UpgradeIsReversible

\* Whatever crashes interrupt an upgrade, the database as it was found is kept
\* whole before the first migration touches it (ensure_migration_backup,
\* migrate): for any schema version and any number of crashes.
THEOREM UpgradesAreReversible == NotesOpenSpec => []UpgradeIsReversible
<1> USE NotesOpenAssumption DEF OpenInv, UpgradeIsReversible
<1>1. ASSUME NotesOpenInit
      PROVE  OpenInv
  <2>1. /\ database \in [version : 0..Current + 1, sound : BOOLEAN] /\ firstVersion = database.version
        /\ opener = "start" /\ from = 0
    BY <1>1 DEF NotesOpenInit
  <2>2. /\ backupFile \in [1..Current -> {"none", "torn", "whole"}]
        /\ \A v \in 1..Current : backupFile[v] # "torn"
    BY <1>1 DEF NotesOpenInit
  <2>3. database.version \in 0..Current + 1
    BY <2>1
  <2> QED
    BY <2>1, <2>2, <2>3
<1>2. ASSUME OpenInv, [NotesOpenNext]_notesOpenVars
      PROVE  OpenInv'
  <2> USE <1>2
  <2>1. CASE PreparePath
    BY <2>1 DEF PreparePath, Fails
  <2>2. CASE CheckDatabase
    BY <2>2 DEF CheckDatabase, Fails
  <2>3. CASE FindBackup
    BY <2>3 DEF FindBackup, Fails
  <2>4. CASE BeginBackup
    BY <2>4 DEF BeginBackup
  <2>5. CASE FinishCopy
    BY <2>5 DEF FinishCopy, Fails
  <2>6. CASE PublishNotesBackup
    BY <2>6 DEF PublishNotesBackup
  <2>7. CASE MigrateOne
    BY <2>7 DEF MigrateOne
  <2>8. CASE NotesReady
    BY <2>8 DEF NotesReady, Fails
  <2>9. CASE PathsLoosened
    BY <2>9 DEF PathsLoosened
  <2>10. CASE NotesCrash
    BY <2>10 DEF NotesCrash
  <2>11. CASE UNCHANGED notesOpenVars
    BY <2>11 DEF notesOpenVars
  <2> QED
    BY <2>1, <2>2, <2>3, <2>4, <2>5, <2>6, <2>7, <2>8, <2>9, <2>10, <2>11 DEF NotesOpenNext
<1>3. OpenInv => UpgradeIsReversible
  OBVIOUS
<1> QED
  BY <1>1, <1>2, <1>3, PTL DEF NotesOpenSpec

-----------------------------------------------------------------------------
(* Editing *)

AnyTags == {NormalizedTags(d.tags) : d \in Drafts}

AnyRow ==
  [revision : Nat, text : {d.text : d \in Drafts}, created : Times, updated : Times, deleted : Times \cup {0}]

AnyNote ==
  [id : NoteIds, revision : Nat, text : {d.text : d \in Drafts}, tags : AnyTags,
   created : Times, updated : Times, deleted : Times \cup {0}]

AnyCommand ==
  [op : {"create", "save"}, editor : Editors, draft : Drafts, base : AnyNote \cup {Unseen}]
  \cup [op : {"delete", "restore"}, editor : Editors, draft : {"none"}, base : AnyNote \cup {Unseen}]
  \cup {[op |-> "shutdown", editor |-> "nobody", base |-> Unseen]}

TablesTyped ==
  /\ notes \in [DOMAIN notes -> AnyRow] /\ noteTags \in [DOMAIN notes -> AnyTags]
  /\ DOMAIN notes \subseteq NoteIds /\ DOMAIN notes \subseteq usedIds
  /\ revisions \subseteq [note : AnyNote, recorded : Times]

QueueTyped ==
  /\ noteQueue \in Seq(AnyCommand) /\ Len(noteQueue) <= QueueSize
  /\ notesWorker \in {"running", "stopped"}
  /\ seenNote \in [Editors -> AnyNote \cup {Unseen}]
  /\ \A i \in 1..Len(noteQueue) :
       noteQueue[i].op \in {"save", "delete", "restore"} => noteQueue[i].base # Unseen

\* No row of a note's history is newer than the note, and each revision has
\* one row.
HistoryBounded ==
  /\ \A r \in revisions : r.note.id \in DOMAIN notes /\ r.note.revision <= notes[r.note.id].revision
  /\ \A id \in DOMAIN notes : \E r \in revisions : r.note = LoadNote(id)
  /\ \A r, s \in revisions : r.note.id = s.note.id /\ r.note.revision = s.note.revision => r = s

\* A note somebody was shown is the stored one if it has its revision, and its
\* id is never handed out again.
Known(n) ==
  /\ n.id \in usedIds
  /\ n.id \in DOMAIN notes =>
       n.revision <= notes[n.id].revision /\ (n.revision = notes[n.id].revision => n = LoadNote(n.id))

ShownIsKnown ==
  /\ \A e \in Editors : seenNote[e] # Unseen => Known(seenNote[e])
  /\ \A i \in 1..Len(noteQueue) : noteQueue[i].base # Unseen => Known(noteQueue[i].base)

NInv == TablesTyped /\ QueueTyped /\ HistoryBounded /\ ShownIsKnown /\ StopIsUnderWay

\* The three ways the tables change: not at all, by one note that takes the
\* place of its last revision or is new, or by a run of apply_retention.
Stored(note, now) ==
  /\ note \in AnyNote /\ now \in Times
  /\ notes' = Put(notes, note.id, RowOf(note))
  /\ noteTags' = Put(noteTags, note.id, note.tags)
  /\ revisions' = revisions \cup {[note |-> note, recorded |-> now]}

Added(note, now) ==
  note.id \notin usedIds /\ usedIds' = usedIds \cup {note.id} /\ Stored(note, now)

Replaced(note, now) ==
  /\ note.id \in DOMAIN notes /\ UNCHANGED usedIds
  /\ note.revision = notes[note.id].revision + 1 /\ note.updated >= notes[note.id].updated
  /\ Stored(note, now)

\* What a command of the queue does to the tables.
LEMMA PerformStores ==
  ASSUME TablesTyped, NEW c \in AnyCommand, c.op # "shutdown", NEW now \in Times, Perform(c, now)
  PROVE  \/ UNCHANGED tableVars
         \/ c.op = "create" /\ \E note \in AnyNote : Added(note, now)
         \/ /\ c.op \in {"save", "delete", "restore"} /\ c.base.id \in DOMAIN notes
            /\ c.base.revision = notes[c.base.id].revision
            /\ \E note \in AnyNote : note.id = c.base.id /\ Replaced(note, now)
<1> USE NotesAssumption DEF TablesTyped
<1>1. ASSUME NEW id \in DOMAIN notes
      PROVE  /\ LoadNote(id) \in AnyNote /\ notes[id] \in AnyRow /\ notes[id] = RowOf(LoadNote(id))
             /\ LoadNote(id).tags = noteTags[id] /\ LoadNote(id).id = id
             /\ LoadNote(id).revision = notes[id].revision /\ LoadNote(id).updated = notes[id].updated
  BY <1>1 DEF LoadNote, AnyNote, AnyRow, RowOf
<1>7. ASSUME NEW id \in DOMAIN notes
      PROVE  Later(now, notes[id].updated) \in Times /\ Later(now, notes[id].updated) >= notes[id].updated
  <2>1. notes[id].updated \in Times /\ Times \subseteq Nat
    BY <1>1, <1>7 DEF AnyRow
  <2> QED
    BY <2>1 DEF Later
<1>2. CASE c.op = "create"
  <2>1. PICK id \in NoteIds : CreateNote(id, c.draft, now)
    BY <1>2 DEF Perform
  <2>2. c.draft \in Drafts
    BY <1>2 DEF AnyCommand
  <2> DEFINE note == [id |-> id, revision |-> 1, text |-> c.draft.text, tags |-> NormalizedTags(c.draft.tags),
                      created |-> now, updated |-> now, deleted |-> 0]
  <2>3. note \in AnyNote
    BY <2>2 DEF AnyNote, AnyTags
  <2>4. Added(note, now)
    BY <2>1, <2>3 DEF CreateNote, Store, Added, Stored
  <2> QED
    BY <1>2, <2>3, <2>4
<1>3. CASE c.op = "save"
  <2>1. SaveNote(c.base.id, c.base.revision, c.draft, now)
    BY <1>3 DEF Perform
  <2>2. c.draft \in Drafts
    BY <1>3 DEF AnyCommand
  <2>3. CASE Conflicts(c.base.id, c.base.revision) \/ SameDraft(LoadNote(c.base.id), c.draft)
    BY <2>1, <2>3 DEF SaveNote
  <2>4. CASE ~(Conflicts(c.base.id, c.base.revision) \/ SameDraft(LoadNote(c.base.id), c.draft))
    <3> DEFINE id == c.base.id
    <3>0. PICK note : note = [LoadNote(id) EXCEPT !.text = c.draft.text, !.tags = NormalizedTags(c.draft.tags),
                                !.updated = Later(now, @), !.revision = @ + 1]
      OBVIOUS
    <3>1. id \in DOMAIN notes /\ notes[id].revision = c.base.revision
      BY <2>4 DEF Conflicts
    <3>2. UNCHANGED usedIds /\ Store(note, now)
      BY <2>1, <2>4, <3>0 DEF SaveNote
    <3>3. /\ note \in AnyNote /\ note.id = id
          /\ note.revision = notes[id].revision + 1 /\ note.updated >= notes[id].updated
      <4>1. note = [id |-> id, revision |-> notes[id].revision + 1, text |-> c.draft.text,
                    tags |-> NormalizedTags(c.draft.tags), created |-> notes[id].created,
                    updated |-> Later(now, notes[id].updated), deleted |-> notes[id].deleted]
        BY <3>0 DEF LoadNote
      <4>2. notes[id].revision \in Nat /\ notes[id].created \in Times /\ notes[id].deleted \in Times \cup {0}
        BY <1>1, <3>1 DEF AnyRow
      <4>3. note \in AnyNote
        BY <1>7, <2>2, <3>1, <4>1, <4>2 DEF AnyNote, AnyTags
      <4> QED
        BY <1>7, <3>1, <4>1, <4>3
    <3>4. Replaced(note, now)
      BY <3>1, <3>2, <3>3 DEF Replaced, Stored, Store
    <3> QED
      BY <1>3, <3>1, <3>3, <3>4
  <2> QED
    BY <2>3, <2>4
<1>4. ASSUME NEW deleted \in Times \cup {0}, c.op \in {"delete", "restore"},
             SetDeleted(c.base.id, c.base.revision, deleted, now)
      PROVE  \/ UNCHANGED tableVars
             \/ /\ c.base.id \in DOMAIN notes /\ c.base.revision = notes[c.base.id].revision
                /\ \E note \in AnyNote : note.id = c.base.id /\ Replaced(note, now)
  <2> DEFINE id == c.base.id
  <2>0. PICK note : note = [LoadNote(id) EXCEPT !.revision = @ + 1, !.deleted = deleted, !.updated = Later(now, @)]
    OBVIOUS
  <2>1. \/ UNCHANGED tableVars
        \/ /\ ~Conflicts(id, c.base.revision)
           /\ notes' = [notes EXCEPT ![id] = RowOf(note)]
           /\ revisions' = revisions \cup {[note |-> note, recorded |-> now]}
           /\ UNCHANGED <<noteTags, usedIds>>
    BY <1>4, <2>0 DEF SetDeleted
  <2>2. CASE UNCHANGED tableVars
    BY <2>2
  <2>3. CASE /\ ~Conflicts(id, c.base.revision)
             /\ notes' = [notes EXCEPT ![id] = RowOf(note)]
             /\ revisions' = revisions \cup {[note |-> note, recorded |-> now]}
             /\ UNCHANGED <<noteTags, usedIds>>
    <3>1. id \in DOMAIN notes /\ notes[id].revision = c.base.revision
      BY <2>3 DEF Conflicts
    <3>2. /\ note \in AnyNote /\ note.id = id /\ note.tags = noteTags[id]
          /\ note.revision = notes[id].revision + 1 /\ note.updated >= notes[id].updated
      <4>1. note = [id |-> id, revision |-> notes[id].revision + 1, text |-> notes[id].text,
                    tags |-> noteTags[id], created |-> notes[id].created,
                    updated |-> Later(now, notes[id].updated), deleted |-> deleted]
        BY <2>0 DEF LoadNote
      <4>2. notes[id].revision \in Nat /\ notes[id].created \in Times /\ notes[id].text \in {d.text : d \in Drafts}
        BY <1>1, <3>1 DEF AnyRow
      <4>3. note \in AnyNote
        BY <1>4, <1>7, <3>1, <4>1, <4>2 DEF AnyNote
      <4> QED
        BY <1>7, <3>1, <4>1, <4>3
    <3>3. notes' = Put(notes, id, RowOf(note)) /\ noteTags' = Put(noteTags, id, note.tags)
      BY <2>3, <3>1, <3>2 DEF Put
    <3>4. Replaced(note, now)
      BY <2>3, <3>1, <3>2, <3>3 DEF Replaced, Stored
    <3> QED
      BY <3>1, <3>2, <3>4
  <2> QED
    BY <2>1, <2>2, <2>3
<1>5. CASE c.op = "delete"
  BY <1>4, <1>5 DEF Perform
<1>6. CASE c.op = "restore"
  BY <1>4, <1>6 DEF Perform
<1> QED
  BY <1>2, <1>3, <1>5, <1>6 DEF AnyCommand

\* What the tables hold after a note is stored: the note, its tags and its row,
\* and everything else as it was.
AfterStore(note) ==
  /\ DOMAIN notes' = DOMAIN notes \cup {note.id} /\ DOMAIN notes' \subseteq NoteIds
  /\ notes' \in [DOMAIN notes' -> AnyRow] /\ noteTags' \in [DOMAIN notes' -> AnyTags]
  /\ \A id \in DOMAIN notes : id # note.id => notes'[id] = notes[id] /\ LoadNote(id)' = LoadNote(id)
  /\ LoadNote(note.id)' = note
  /\ notes'[note.id].revision = note.revision /\ notes'[note.id].updated = note.updated
  /\ revisions' \subseteq [note : AnyNote, recorded : Times]

LEMMA StoredHolds ==
  ASSUME TablesTyped, NEW note, NEW now, Stored(note, now)
  PROVE  AfterStore(note)
<1> USE DEF TablesTyped, Stored
<1>1. RowOf(note) \in AnyRow /\ note.tags \in AnyTags /\ note.id \in NoteIds
  BY DEF RowOf, AnyNote, AnyRow
<1>2. /\ DOMAIN notes' = DOMAIN notes \cup {note.id} /\ DOMAIN noteTags' = DOMAIN notes \cup {note.id}
      /\ notes'[note.id] = RowOf(note) /\ noteTags'[note.id] = note.tags
      /\ \A id \in DOMAIN notes : id # note.id => notes'[id] = notes[id] /\ noteTags'[id] = noteTags[id]
  BY DEF Put
<1>3. notes' \in [DOMAIN notes' -> AnyRow] /\ noteTags' \in [DOMAIN notes' -> AnyTags]
  BY <1>1 DEF Put
<1>4. LoadNote(note.id)' = note
  BY <1>2 DEF LoadNote, RowOf, AnyNote
<1>5. \A id \in DOMAIN notes : id # note.id => LoadNote(id)' = LoadNote(id)
  BY <1>2 DEF LoadNote
<1>6. notes'[note.id].revision = note.revision /\ notes'[note.id].updated = note.updated
  BY <1>2 DEF RowOf
<1>7. revisions' \subseteq [note : AnyNote, recorded : Times]
  OBVIOUS
<1> QED
  BY <1>1, <1>2, <1>3, <1>4, <1>5, <1>6, <1>7 DEF AfterStore

\* A new note keeps the history and what was shown.
LEMMA AddedKeeps ==
  ASSUME TablesTyped, HistoryBounded, NEW note, NEW now, Added(note, now)
  PROVE  /\ TablesTyped' /\ HistoryBounded' /\ \A n \in AnyNote : Known(n) => Known(n)'
         /\ \A id \in DOMAIN notes : notes'[id] = notes[id] /\ noteTags'[id] = noteTags[id]
<1>1. /\ Stored(note, now) /\ note.id \notin DOMAIN notes /\ note.id \notin usedIds
      /\ usedIds' = usedIds \cup {note.id} /\ note \in AnyNote /\ note.revision \in Nat
  BY DEF Added, TablesTyped, Stored, AnyNote
<1>0. AfterStore(note)
  BY <1>1, StoredHolds
<1>2. TablesTyped'
  BY <1>0, <1>1 DEF TablesTyped, AfterStore
<1>3. \A r \in revisions : r.note.id # note.id
  BY <1>1 DEF HistoryBounded
<1>4. revisions' = revisions \cup {[note |-> note, recorded |-> now]}
  BY <1>1 DEF Stored
<1>5. HistoryBounded'
  <2>1. \A r \in revisions' : r.note.id \in DOMAIN notes' /\ r.note.revision <= notes'[r.note.id].revision
    BY <1>0, <1>1, <1>3, <1>4 DEF HistoryBounded, AfterStore
  <2>2. \A id \in DOMAIN notes' : \E r \in revisions' : r.note = LoadNote(id)'
    <3> TAKE id \in DOMAIN notes'
    <3>1. CASE id = note.id
      <4>1. LoadNote(id)' = note
        BY <1>0, <3>1 DEF AfterStore, LoadNote
      <4>2. PICK r : r = [note |-> note, recorded |-> now]
        OBVIOUS
      <4>3. r \in revisions' /\ r.note = note
        BY <1>4, <4>2
      <4> QED
        BY <4>1, <4>3
    <3>2. CASE id # note.id
      BY <1>0, <1>1, <1>4, <3>2 DEF HistoryBounded, AfterStore
    <3> QED
      BY <3>1, <3>2
  <2>3. \A r, s \in revisions' : r.note.id = s.note.id /\ r.note.revision = s.note.revision => r = s
    BY <1>3, <1>4 DEF HistoryBounded
  <2> QED
    BY <2>1, <2>2, <2>3 DEF HistoryBounded
<1>6. ASSUME NEW n \in AnyNote, Known(n)
      PROVE  Known(n)'
  <2>1. n.id # note.id
    BY <1>1, <1>6 DEF Known
  <2> QED
    BY <1>0, <1>1, <1>6, <2>1 DEF Known, AfterStore
<1>7. \A id \in DOMAIN notes : notes'[id] = notes[id] /\ noteTags'[id] = noteTags[id]
  BY <1>1 DEF Stored, Put, TablesTyped
<1> QED
  BY <1>2, <1>5, <1>6, <1>7

\* So does a note that takes the place of its last revision.
LEMMA ReplacedKeeps ==
  ASSUME TablesTyped, HistoryBounded, NEW note, NEW now, Replaced(note, now)
  PROVE  /\ TablesTyped' /\ HistoryBounded' /\ \A n \in AnyNote : Known(n) => Known(n)'
         /\ DOMAIN notes' = DOMAIN notes
         /\ \A id \in DOMAIN notes :
              /\ id # note.id => notes'[id] = notes[id] /\ noteTags'[id] = noteTags[id]
              /\ notes'[id].updated >= notes[id].updated
<1>1. /\ Stored(note, now) /\ note.id \in DOMAIN notes /\ usedIds' = usedIds
      /\ note.revision = notes[note.id].revision + 1 /\ note.updated >= notes[note.id].updated
  BY DEF Replaced
<1>0. AfterStore(note)
  BY <1>1, StoredHolds
<1>2. notes[note.id].revision \in Nat /\ note.revision \in Nat
      /\ \A id \in DOMAIN notes : notes[id].updated \in Nat
  BY <1>1, NotesAssumption DEF TablesTyped, AnyRow
<1>3. DOMAIN notes' = DOMAIN notes
  BY <1>0, <1>1 DEF AfterStore
<1>4. TablesTyped'
  BY <1>0, <1>1, <1>3 DEF TablesTyped, AfterStore
<1>5. \A r \in revisions : r.note.revision \in Nat
                           /\ (r.note.id = note.id => r.note.revision < note.revision)
  BY <1>1, <1>2 DEF HistoryBounded, TablesTyped, AnyNote
<1>6. revisions' = revisions \cup {[note |-> note, recorded |-> now]}
  BY <1>1 DEF Stored
<1>7. HistoryBounded'
  <2>1. ASSUME NEW r \in revisions'
        PROVE  r.note.id \in DOMAIN notes' /\ r.note.revision <= notes'[r.note.id].revision
    <3>1. CASE r.note.id = note.id
      BY <1>0, <1>1, <1>2, <1>3, <1>5, <1>6, <3>1 DEF AfterStore
    <3>2. CASE r.note.id # note.id
      BY <1>0, <1>1, <1>3, <1>6, <3>2 DEF HistoryBounded, AfterStore
    <3> QED
      BY <3>1, <3>2
  <2>2. ASSUME NEW id \in DOMAIN notes'
        PROVE  \E r \in revisions' : r.note = LoadNote(id)'
    <3>1. CASE id = note.id
      <4>1. LoadNote(id)' = note
        BY <1>0, <3>1 DEF AfterStore, LoadNote
      <4>2. PICK r : r = [note |-> note, recorded |-> now]
        OBVIOUS
      <4>3. r \in revisions' /\ r.note = note
        BY <1>6, <4>2
      <4> QED
        BY <4>1, <4>3
    <3>2. CASE id # note.id
      BY <1>0, <1>1, <1>3, <1>6, <3>2 DEF HistoryBounded, AfterStore
    <3> QED
      BY <3>1, <3>2
  <2>3. \A r, s \in revisions' : r.note.id = s.note.id /\ r.note.revision = s.note.revision => r = s
    BY <1>2, <1>5, <1>6 DEF HistoryBounded
  <2> QED
    BY <2>1, <2>2, <2>3 DEF HistoryBounded
<1>8. ASSUME NEW n \in AnyNote, Known(n)
      PROVE  Known(n)'
  <2>1. CASE n.id = note.id
    <3>1. n.revision \in Nat /\ n.revision < note.revision
      BY <1>1, <1>2, <1>8, <2>1 DEF Known, AnyNote
    <3> QED
      BY <1>0, <1>1, <1>2, <1>8, <2>1, <3>1 DEF Known, AfterStore
  <2>2. CASE n.id # note.id
    BY <1>0, <1>1, <1>3, <1>8, <2>2 DEF Known, AfterStore
  <2> QED
    BY <2>1, <2>2
<1>9. ASSUME NEW id \in DOMAIN notes
      PROVE  /\ id # note.id => notes'[id] = notes[id] /\ noteTags'[id] = noteTags[id]
             /\ notes'[id].updated >= notes[id].updated
  <2>1. id # note.id => notes'[id] = notes[id] /\ noteTags'[id] = noteTags[id]
    BY <1>1 DEF Stored, Put, TablesTyped
  <2> QED
    BY <1>0, <1>1, <1>2, <2>1 DEF AfterStore
<1> QED
  BY <1>3, <1>4, <1>7, <1>8, <1>9

\* And apply_retention: the newest row of a note stays.
LEMMA RetentionKeeps ==
  ASSUME TablesTyped, HistoryBounded, NEW p \in Policies, ApplyNoteRetention(p.purge, p.prune, p.keep)
  PROVE  /\ TablesTyped' /\ HistoryBounded' /\ \A n \in AnyNote : Known(n) => Known(n)'
         /\ \A id \in DOMAIN notes \cap DOMAIN notes' : notes'[id] = notes[id] /\ noteTags'[id] = noteTags[id]
<1> DEFINE purged == {id \in DOMAIN notes : notes[id].deleted # 0 /\ notes[id].deleted <= p.purge}
           left == {r \in revisions : r.note.id \notin purged}
<1>1. /\ notes' = Without(notes, purged) /\ noteTags' = Without(noteTags, purged)
      /\ revisions' = left \ Prunable(left, p.prune, p.keep) /\ usedIds' = usedIds
  BY DEF ApplyNoteRetention
<1> HIDE DEF purged
<1>2. /\ DOMAIN notes' = DOMAIN notes \ purged /\ DOMAIN noteTags' = DOMAIN notes \ purged
      /\ \A id \in DOMAIN notes \ purged :
           notes'[id] = notes[id] /\ noteTags'[id] = noteTags[id] /\ LoadNote(id)' = LoadNote(id)
  BY <1>1 DEF Without, TablesTyped, LoadNote
<1>3. TablesTyped'
  BY <1>1, <1>2 DEF TablesTyped, Without
<1>4. ASSUME NEW id \in DOMAIN notes'
      PROVE  \E r \in revisions' : r.note = LoadNote(id)'
  <2>1. PICK r \in revisions : r.note = LoadNote(id)
    BY <1>2, <1>4 DEF HistoryBounded
  <2>2. r.note.id = id /\ r.note.revision = notes[id].revision /\ id \in DOMAIN notes /\ id \notin purged
    BY <1>2, <1>4, <2>1 DEF LoadNote
  <2>3. NewerRows(r, left) = {}
    <3> SUFFICES ASSUME NEW s \in revisions, s.note.id = id, s.note.revision > notes[id].revision
                 PROVE  FALSE
      BY <2>2 DEF NewerRows
    <3>1. s.note.revision \in Nat /\ notes[id].revision \in Nat
      BY <2>2 DEF TablesTyped, AnyNote, AnyRow
    <3> QED
      BY <3>1 DEF HistoryBounded
  <2>4. ~(Cardinality(NewerRows(r, left)) >= p.keep)
    <3>1. Cardinality(NewerRows(r, left)) = 0
      BY <2>3, FS_EmptySet
    <3>2. p.keep \in Nat /\ p.keep > 0
      BY NotesAssumption
    <3> QED
      BY <3>1, <3>2
  <2>5. r \in revisions'
    BY <1>1, <2>2, <2>4 DEF Prunable
  <2> QED
    BY <1>2, <1>4, <2>1, <2>5
<1>5. HistoryBounded'
  <2>1. revisions' \subseteq left
    BY <1>1
  <2>2. \A r \in revisions' : r.note.id \in DOMAIN notes' /\ r.note.revision <= notes'[r.note.id].revision
    BY <1>2, <2>1 DEF HistoryBounded
  <2>3. \A r, s \in revisions' : r.note.id = s.note.id /\ r.note.revision = s.note.revision => r = s
    BY <2>1 DEF HistoryBounded
  <2> QED
    BY <1>4, <2>2, <2>3 DEF HistoryBounded
<1>6. \A n \in AnyNote : Known(n) => Known(n)'
  BY <1>1, <1>2 DEF Known
<1> QED
  BY <1>2, <1>3, <1>5, <1>6

\* The database is empty at first.
LEMMA NotesInitInv ==
  ASSUME NotesInit
  PROVE  NInv
<1> USE NotesAssumption DEF NotesInit
<1>1. TablesTyped
  BY DEF TablesTyped
<1>2. QueueTyped
  BY DEF QueueTyped
<1>3. HistoryBounded /\ StopIsUnderWay
  BY DEF HistoryBounded, StopIsUnderWay
<1>4. ShownIsKnown
  BY DEF ShownIsKnown
<1> QED
  BY <1>1, <1>2, <1>3, <1>4 DEF NInv

\* A command that is added to the queue keeps it.
LEMMA AppendKeeps ==
  ASSUME QueueTyped, ShownIsKnown, StopIsUnderWay, NEW c \in AnyCommand, Len(noteQueue) < QueueSize,
         c.op \in {"save", "delete", "restore"} => c.base # Unseen, c.base # Unseen => Known(c.base),
         noteQueue' = Append(noteQueue, c), UNCHANGED <<tableVars, notesWorker, seenNote>>,
         UNCHANGED <<supervisor, telling>> \/ c.op = "shutdown"
  PROVE  QueueTyped' /\ ShownIsKnown' /\ StopIsUnderWay'
<1>1. /\ noteQueue' \in Seq(AnyCommand) /\ Len(noteQueue') = Len(noteQueue) + 1 /\ Len(noteQueue) \in Nat
      /\ \A i \in 1..Len(noteQueue) : noteQueue'[i] = noteQueue[i]
      /\ noteQueue'[Len(noteQueue) + 1] = c
  BY DEF QueueTyped
<1>2. \A i \in 1..Len(noteQueue') : i \in 1..Len(noteQueue) \/ i = Len(noteQueue) + 1
  BY <1>1
<1>3. QueueTyped'
  BY <1>1, <1>2, NotesAssumption, SMTT(40) DEF QueueTyped
<1>4. ShownIsKnown'
  BY <1>1, <1>2 DEF ShownIsKnown, Known, LoadNote, tableVars
<1>5. StopIsUnderWay'
  <2>1. DOMAIN noteQueue = 1..Len(noteQueue) /\ DOMAIN noteQueue' = 1..Len(noteQueue')
    BY <1>1 DEF QueueTyped
  <2>2. CASE c.op = "shutdown"
    BY <1>1, <2>1, <2>2 DEF StopIsUnderWay
  <2>3. CASE UNCHANGED <<supervisor, telling>>
    BY <1>1, <2>1, <2>3 DEF StopIsUnderWay
  <2> QED
    BY <2>2, <2>3
<1> QED
  BY <1>3, <1>4, <1>5

\* So does one the worker takes out, whatever it does to the tables.
LEMMA TailKeeps ==
  ASSUME QueueTyped, ShownIsKnown, StopIsUnderWay, noteQueue # <<>>, Head(noteQueue).op # "shutdown",
         noteQueue' = Tail(noteQueue), UNCHANGED <<notesWorker, supervisor, telling, seenNote>>,
         \A n \in AnyNote : Known(n) => Known(n)'
  PROVE  QueueTyped' /\ ShownIsKnown' /\ StopIsUnderWay'
<1>1. /\ noteQueue' \in Seq(AnyCommand) /\ Len(noteQueue') = Len(noteQueue) - 1 /\ Len(noteQueue) \in Nat \ {0}
      /\ \A i \in 1..Len(noteQueue') : noteQueue'[i] = noteQueue[i + 1] /\ i + 1 \in 1..Len(noteQueue)
      /\ Head(noteQueue) = noteQueue[1]
  BY DEF QueueTyped
<1>2. QueueTyped'
  BY <1>1, NotesAssumption DEF QueueTyped
<1>3. ShownIsKnown'
  <2>1. ASSUME NEW e \in Editors, seenNote[e] # Unseen
        PROVE  Known(seenNote[e])'
    <3>1. seenNote[e] \in AnyNote /\ Known(seenNote[e])
      BY <2>1 DEF QueueTyped, ShownIsKnown
    <3> QED
      BY <3>1 DEF Known, LoadNote
  <2>2. ASSUME NEW i \in 1..Len(noteQueue'), noteQueue'[i].base # Unseen
        PROVE  Known(noteQueue[i].base)'
    <3>1. PICK n : n = noteQueue'[i].base
      OBVIOUS
    <3>2. noteQueue[i + 1] \in AnyCommand
      BY <1>1 DEF QueueTyped
    <3>3. n \in AnyNote /\ Known(n)
      BY <1>1, <2>2, <3>1, <3>2 DEF ShownIsKnown, AnyCommand
    <3>4. Known(n)'
      BY <3>3
    <3> QED
      BY <3>1, <3>4 DEF Known, LoadNote
  <2> QED
    BY <2>1, <2>2 DEF ShownIsKnown
<1>4. StopIsUnderWay'
  <2>1. DOMAIN noteQueue = 1..Len(noteQueue) /\ DOMAIN noteQueue' = 1..Len(noteQueue')
    BY <1>1 DEF QueueTyped
  <2>2. ASSUME NEW i \in 1..Len(noteQueue), noteQueue[i].op = "shutdown"
        PROVE  i - 1 \in 1..Len(noteQueue') /\ noteQueue'[i - 1].op = "shutdown"
    <3>1. i # 1
      BY <1>1, <2>2
    <3>2. i - 1 \in 1..Len(noteQueue') /\ (i - 1) + 1 = i
      BY <1>1, <3>1
    <3> QED
      BY <1>1, <2>2, <3>2
  <2> QED
    BY <2>1, <2>2 DEF StopIsUnderWay
<1> QED
  BY <1>2, <1>3, <1>4

\* What a step promises beside the invariant: the two action properties.
Promise ==
  \A id \in DOMAIN notes \cap DOMAIN notes' :
    /\ notes'[id] # notes[id] \/ noteTags'[id] # noteTags[id] => Head(noteQueue).base = LoadNote(id)
    /\ notes'[id].updated >= notes[id].updated

\* Tables that are left alone keep what is said of them.
LEMMA SameTables ==
  ASSUME TablesTyped, HistoryBounded, UNCHANGED tableVars
  PROVE  TablesTyped' /\ HistoryBounded' /\ Promise /\ \A n \in AnyNote : Known(n) => Known(n)'
<1>1. \A id \in DOMAIN notes : notes[id].updated \in Nat
  BY NotesAssumption DEF TablesTyped, AnyRow
<1> QED
  BY <1>1 DEF tableVars, TablesTyped, HistoryBounded, Known, LoadNote, Promise

\* The worker runs a command.
LEMMA ExecuteKeeps ==
  ASSUME NInv, WorkerExecutes
  PROVE  NInv' /\ Promise
<1>0. PICK now \in Times : Perform(Head(noteQueue), now)
  BY DEF WorkerExecutes
<1>1. PICK c : c = Head(noteQueue)
  OBVIOUS
<1>2. /\ noteQueue # <<>> /\ c.op # "shutdown" /\ noteQueue' = Tail(noteQueue)
      /\ UNCHANGED <<notesWorker, supervisor, telling, seenNote>>
  BY <1>1 DEF WorkerExecutes
<1>3. c \in AnyCommand /\ 1 \in 1..Len(noteQueue) /\ c = noteQueue[1]
  BY <1>1, <1>2 DEF NInv, QueueTyped
<1>4. Perform(c, now)
  BY <1>0, <1>1
<1>5. /\ TablesTyped' /\ HistoryBounded' /\ Promise /\ \A n \in AnyNote : Known(n) => Known(n)'
  <2>1. CASE UNCHANGED tableVars
    BY <2>1, SameTables DEF NInv
  <2>2. ASSUME NEW note \in AnyNote, Added(note, now)
        PROVE  TablesTyped' /\ HistoryBounded' /\ Promise /\ \A n \in AnyNote : Known(n) => Known(n)'
    <3>1. /\ TablesTyped' /\ HistoryBounded' /\ \A n \in AnyNote : Known(n) => Known(n)'
          /\ \A id \in DOMAIN notes : notes'[id] = notes[id] /\ noteTags'[id] = noteTags[id]
      BY <2>2, AddedKeeps DEF NInv
    <3>2. \A id \in DOMAIN notes : notes[id].updated \in Nat
      BY NotesAssumption DEF NInv, TablesTyped, AnyRow
    <3> QED
      BY <3>1, <3>2 DEF Promise
  <2>3. ASSUME NEW note \in AnyNote, note.id = c.base.id, Replaced(note, now), c.base.id \in DOMAIN notes,
               c.base.revision = notes[c.base.id].revision, c.op \in {"save", "delete", "restore"}
        PROVE  TablesTyped' /\ HistoryBounded' /\ Promise /\ \A n \in AnyNote : Known(n) => Known(n)'
    <3>1. /\ TablesTyped' /\ HistoryBounded' /\ \A n \in AnyNote : Known(n) => Known(n)'
          /\ \A id \in DOMAIN notes :
               /\ id # note.id => notes'[id] = notes[id] /\ noteTags'[id] = noteTags[id]
               /\ notes'[id].updated >= notes[id].updated
      BY <2>3, ReplacedKeeps DEF NInv
    <3>2. c.base # Unseen /\ Known(c.base)
      BY <1>3, <2>3 DEF NInv, QueueTyped, ShownIsKnown
    <3>3. c.base = LoadNote(c.base.id)
      BY <2>3, <3>2 DEF Known
    <3>4. ASSUME NEW id \in DOMAIN notes, notes'[id] # notes[id] \/ noteTags'[id] # noteTags[id]
          PROVE  Head(noteQueue).base = LoadNote(id)
      <4>1. id = c.base.id
        BY <2>3, <3>1, <3>4
      <4> QED
        BY <1>1, <3>3, <4>1
    <3> QED
      BY <3>1, <3>4 DEF Promise
  <2> QED
    BY <1>2, <1>3, <1>4, <2>1, <2>2, <2>3, PerformStores DEF NInv
<1>6. QueueTyped' /\ ShownIsKnown' /\ StopIsUnderWay'
  BY <1>1, <1>2, <1>5, TailKeeps DEF NInv
<1> QED
  BY <1>5, <1>6 DEF NInv

\* Every step keeps the invariant and the promise.
LEMMA NotesStep ==
  ASSUME NInv, [NotesNext]_notesVars
  PROVE  NInv' /\ Promise
<1>1. ASSUME NEW e \in Editors, NEW op \in {"create", "save", "delete", "restore"}, NEW d,
             op \in {"create", "save"} => d \in Drafts, op \in {"delete", "restore"} => d = "none",
             Submit(e, op, d)
      PROVE  NInv' /\ Promise
  <2>1. PICK c : c = [op |-> op, editor |-> e, draft |-> d, base |-> IF op = "create" THEN Unseen ELSE seenNote[e]]
    OBVIOUS
  <2>2. /\ noteQueue' = Append(noteQueue, c) /\ Len(noteQueue) < QueueSize
        /\ UNCHANGED <<tableVars, notesWorker, supervisor, telling, seenNote>> /\ UNCHANGED tableVars
    BY <1>1, <2>1 DEF Submit
  <2>3. c \in AnyCommand /\ c.op = op
    BY <1>1, <2>1 DEF NInv, QueueTyped, AnyCommand
  <2>4. /\ c.op \in {"save", "delete", "restore"} => c.base # Unseen
        /\ c.base # Unseen => Known(c.base)
    BY <1>1, <2>1 DEF NInv, ShownIsKnown, Submit
  <2>5. QueueTyped' /\ ShownIsKnown' /\ StopIsUnderWay'
    BY <2>2, <2>3, <2>4, AppendKeeps DEF NInv
  <2> QED
    BY <2>2, <2>5, SameTables DEF NInv
<1>2. ASSUME NEW e \in Editors, NotesTimeout(e)
      PROVE  NInv' /\ Promise
  <2>1. UNCHANGED tableVars /\ UNCHANGED <<noteQueue, notesWorker, supervisor, telling, seenNote>>
    BY <1>2 DEF NotesTimeout
  <2> QED
    BY <2>1, SameTables DEF NInv, QueueTyped, ShownIsKnown, StopIsUnderWay, Known, LoadNote, tableVars
<1>3. ASSUME NEW e \in Editors, NEW id \in NoteIds, GetNote(e, id)
      PROVE  NInv' /\ Promise
  <2>1. /\ UNCHANGED tableVars /\ UNCHANGED <<noteQueue, notesWorker, supervisor, telling>>
        /\ id \in DOMAIN notes /\ seenNote' = [seenNote EXCEPT ![e] = LoadNote(id)]
    BY <1>3 DEF GetNote
  <2>2. LoadNote(id) \in AnyNote /\ Known(LoadNote(id))
    <3>1. notes[id] \in AnyRow /\ noteTags[id] \in AnyTags
      BY <2>1 DEF NInv, TablesTyped
    <3>2. LoadNote(id) \in AnyNote
      BY <3>1 DEF LoadNote, AnyNote, AnyRow
    <3>3. LoadNote(id).id = id /\ LoadNote(id).revision = notes[id].revision /\ notes[id].revision \in Nat
      BY <3>1 DEF LoadNote, AnyRow
    <3>4. id \in usedIds
      BY <2>1 DEF NInv, TablesTyped
    <3> QED
      BY <3>2, <3>3, <3>4 DEF Known
  <2>3. QueueTyped' /\ StopIsUnderWay'
    BY <2>1, <2>2 DEF NInv, QueueTyped, StopIsUnderWay
  <2>4. ShownIsKnown'
    BY <2>1, <2>2 DEF NInv, QueueTyped, ShownIsKnown, Known, LoadNote, tableVars
  <2> QED
    BY <2>1, <2>3, <2>4, SameTables DEF NInv
<1>4. CASE WorkerExecutes
  BY <1>4, ExecuteKeeps
<1>5. CASE WorkerRefuses
  <2>1. /\ UNCHANGED tableVars /\ noteQueue # <<>> /\ Head(noteQueue).op # "shutdown"
        /\ noteQueue' = Tail(noteQueue) /\ UNCHANGED <<notesWorker, supervisor, telling, seenNote>>
    BY <1>5 DEF WorkerRefuses
  <2>2. /\ TablesTyped' /\ HistoryBounded' /\ Promise /\ \A n \in AnyNote : Known(n) => Known(n)'
    BY <2>1, SameTables DEF NInv
  <2>3. QueueTyped' /\ ShownIsKnown' /\ StopIsUnderWay'
    BY <2>1, <2>2, TailKeeps DEF NInv
  <2> QED
    BY <2>2, <2>3 DEF NInv
<1>6. CASE WorkerStops
  <2>1. /\ UNCHANGED tableVars /\ noteQueue' = <<>> /\ notesWorker' = "stopped" /\ UNCHANGED seenNote
    BY <1>6 DEF WorkerStops
  <2>2. QueueTyped' /\ StopIsUnderWay'
    BY <2>1, NotesAssumption DEF NInv, QueueTyped, StopIsUnderWay
  <2>3. ShownIsKnown'
    BY <2>1 DEF NInv, ShownIsKnown, Known, LoadNote, tableVars
  <2> QED
    BY <2>1, <2>2, <2>3, SameTables DEF NInv
<1>7. CASE Maintain
  <2>1. PICK p \in Policies : ApplyNoteRetention(p.purge, p.prune, p.keep)
    BY <1>7 DEF Maintain
  <2>2. UNCHANGED <<noteQueue, notesWorker, supervisor, telling, seenNote>>
    BY <1>7 DEF Maintain
  <2>3. /\ TablesTyped' /\ HistoryBounded' /\ \A n \in AnyNote : Known(n) => Known(n)'
        /\ \A id \in DOMAIN notes \cap DOMAIN notes' : notes'[id] = notes[id] /\ noteTags'[id] = noteTags[id]
    BY <2>1, RetentionKeeps DEF NInv
  <2>4. Promise
    <3>1. \A id \in DOMAIN notes : notes[id].updated \in Nat
      BY NotesAssumption DEF NInv, TablesTyped, AnyRow
    <3> QED
      BY <2>3, <3>1 DEF Promise
  <2>5. QueueTyped' /\ StopIsUnderWay'
    BY <2>2 DEF NInv, QueueTyped, StopIsUnderWay
  <2>6. ShownIsKnown'
    <3>1. ASSUME NEW e \in Editors, seenNote[e] # Unseen
          PROVE  Known(seenNote[e])'
      <4>1. seenNote[e] \in AnyNote /\ Known(seenNote[e])
        BY <3>1 DEF NInv, QueueTyped, ShownIsKnown
      <4> QED
        BY <2>2, <2>3, <4>1 DEF Known, LoadNote
    <3>2. ASSUME NEW i \in 1..Len(noteQueue), noteQueue[i].base # Unseen
          PROVE  Known(noteQueue[i].base)'
      <4>1. noteQueue[i] \in AnyCommand
        BY DEF NInv, QueueTyped
      <4>2. noteQueue[i].base \in AnyNote /\ Known(noteQueue[i].base)
        BY <3>2, <4>1 DEF NInv, ShownIsKnown, AnyCommand
      <4> QED
        BY <2>2, <2>3, <4>2 DEF Known, LoadNote
    <3> QED
      BY <2>2, <3>1, <3>2 DEF ShownIsKnown
  <2> QED
    BY <2>3, <2>4, <2>5, <2>6 DEF NInv
<1>8. CASE SupervisorStops \/ SupervisorJoins
  <2>1. /\ UNCHANGED tableVars /\ UNCHANGED <<noteQueue, notesWorker, seenNote>>
        /\ telling' \/ (supervisor = "sending" /\ UNCHANGED telling)
    BY <1>8 DEF SupervisorStops, SupervisorJoins
  <2>2. StopIsUnderWay'
    BY <2>1 DEF NInv, StopIsUnderWay
  <2> QED
    BY <2>1, <2>2, SameTables DEF NInv, QueueTyped, ShownIsKnown, Known, LoadNote, tableVars
<1>9. CASE ShutdownIsSent
  <2>1. PICK c : c = [op |-> "shutdown", editor |-> "nobody", base |-> Unseen]
    OBVIOUS
  <2>2. /\ noteQueue' = Append(noteQueue, c) /\ Len(noteQueue) < QueueSize
        /\ UNCHANGED <<tableVars, notesWorker, seenNote>> /\ UNCHANGED tableVars
    BY <1>9, <2>1 DEF ShutdownIsSent
  <2>3. c \in AnyCommand /\ c.op = "shutdown" /\ c.base = Unseen
    BY <2>1 DEF AnyCommand
  <2>4. QueueTyped' /\ ShownIsKnown' /\ StopIsUnderWay'
    BY <2>2, <2>3, AppendKeeps DEF NInv
  <2> QED
    BY <2>2, <2>4, SameTables DEF NInv
<1>10. CASE UNCHANGED notesVars
  <2>1. UNCHANGED tableVars /\ UNCHANGED <<noteQueue, notesWorker, supervisor, telling, seenNote>>
    BY <1>10 DEF notesVars, tableVars
  <2> QED
    BY <2>1, SameTables DEF NInv, QueueTyped, ShownIsKnown, StopIsUnderWay, Known, LoadNote, tableVars
<1> QED
  BY <1>1, <1>2, <1>3, <1>4, <1>5, <1>6, <1>7, <1>8, <1>9, <1>10 DEF NotesNext, NotesWorkerStep

\* No edit is lost, goes back in time or out of the history, for any number of
\* notes, editors, retention policies and waiting commands: an edit replaces
\* the very note its editor saw, and every note is the newest row of its own
\* history (NotesRepository, apply_retention, NotesSupervisor::run).
THEOREM EditsAreSafe == NotesSpec => EditsAreKept
<1>1. NotesInit => NInv
  BY NotesInitInv
<1>2. NInv /\ [NotesNext]_notesVars => NInv'
  BY NotesStep
<1>3. NInv => NotesTypeOK /\ HistoryEndsInTheNote /\ StopIsUnderWay
  <2> SUFFICES ASSUME NInv
               PROVE  NotesTypeOK /\ HistoryEndsInTheNote /\ StopIsUnderWay
    OBVIOUS
  <2>1. NotesTypeOK
    BY DEF NInv, TablesTyped, QueueTyped, HistoryBounded, NotesTypeOK
  <2>2. ASSUME NEW id \in DOMAIN notes
        PROVE  \E r \in revisions : r.note = LoadNote(id) /\ NewerRows(r, revisions) = {}
    <3>1. PICK r \in revisions : r.note = LoadNote(id)
      BY <2>2 DEF NInv, HistoryBounded
    <3>2. r.note.id = id /\ r.note.revision = notes[id].revision /\ notes[id].revision \in Nat
      BY <2>2, <3>1 DEF LoadNote, NInv, TablesTyped, AnyRow
    <3>3. \A s \in revisions : s.note.id = id => s.note.revision \in Nat /\ s.note.revision <= notes[id].revision
      BY DEF NInv, HistoryBounded, TablesTyped, AnyNote
    <3>4. NewerRows(r, revisions) = {}
      BY <3>2, <3>3 DEF NewerRows
    <3> QED
      BY <3>1, <3>4
  <2> QED
    BY <2>1, <2>2 DEF NInv, HistoryEndsInTheNote, HistoryBounded
<1>4. NInv /\ [NotesNext]_notesVars =>
        [\A id \in DOMAIN notes \cap DOMAIN notes' :
           notes'[id] # notes[id] \/ noteTags'[id] # noteTags[id] => Head(noteQueue).base = LoadNote(id)]_notesVars
  BY NotesStep DEF Promise
<1>5. NInv /\ [NotesNext]_notesVars =>
        [\A id \in DOMAIN notes \cap DOMAIN notes' : notes'[id].updated >= notes[id].updated]_notesVars
  BY NotesStep DEF Promise
<1> QED
  BY <1>1, <1>2, <1>3, <1>4, <1>5, PTL DEF NotesSpec, EditsAreKept, NoLostEdit, UpdatedNeverGoesBack

-----------------------------------------------------------------------------
(* Uploading *)

AnyUpload == [expected : Nat, bytes : Seq(0..255), next : Nat, idle : Nat]

\* What is staged is a beginning of its client's body.
StagedTyped ==
  /\ staged \in [DOMAIN staged -> AnyUpload]
  /\ DOMAIN staged \subseteq Uploads /\ IsFiniteSet(DOMAIN staged) /\ reserved \in Nat
  /\ \A u \in DOMAIN staged :
       /\ staged[u].expected = Len(BodyOf[u]) /\ Len(staged[u].bytes) <= Len(BodyOf[u])
       /\ \A i \in 1..Len(staged[u].bytes) : staged[u].bytes[i] = BodyOf[u][i]

\* A chunk on its way is a piece of its client's body.
ChunksTyped ==
  \A m \in travel :
    /\ m.upload \in Uploads
    /\ m.op = "append" =>
         /\ m.offset \in Nat /\ m.data \in Seq(0..255)
         /\ m.offset + Len(m.data) <= Len(BodyOf[m.upload])
         /\ \A i \in 1..Len(m.data) : m.data[i] = BodyOf[m.upload][m.offset + i]

\* An upload begins once, and it is stored when it is staged no more.
BeginsOnce ==
  /\ begun \in [Uploads -> BOOLEAN] /\ DOMAIN committed = Uploads /\ sentTo \in [Uploads -> Nat]
  /\ \A m \in travel : m.op = "begin" =>
       m = [op |-> "begin", upload |-> m.upload] /\ m.upload \notin DOMAIN staged
       /\ begun[m.upload] /\ committed[m.upload] = <<>>
  /\ \A u \in DOMAIN staged : begun[u] /\ committed[u] = <<>>
  /\ \A u \in Uploads : committed[u] \in {<<>>, <<BodyOf[u]>>} /\ (committed[u] # <<>> => begun[u])

DrainIsClosed == drain \notin {"no", "queued"} => ~accepting

UInv == StagedTyped /\ ReservedIsHeld /\ ChunksTyped /\ BeginsOnce /\ DrainIsClosed

\* The reservations of any part of the uploads are a number.
LEMMA ExpectedIsNat ==
  ASSUME StagedTyped, NEW R \in SUBSET DOMAIN staged
  PROVE  /\ \A u \in DOMAIN staged : Expected[u] = staged[u].expected /\ Expected[u] \in Nat
         /\ IsFiniteSet(R) /\ ExpectedSum(R) \in Nat
         /\ ExpectedSum(DOMAIN staged) = ExpectedSum(R) + ExpectedSum(DOMAIN staged \ R)
         /\ ExpectedSum(DOMAIN staged \ R) \in Nat
<1>1. \A u \in DOMAIN staged : Expected[u] = staged[u].expected /\ Expected[u] \in Nat
  BY DEF StagedTyped, AnyUpload, Expected
<1>2. IsFiniteSet(DOMAIN staged)
  BY DEF StagedTyped
<1>3. IsFiniteSet(R) /\ IsFiniteSet(DOMAIN staged \ R)
  BY <1>2, FS_Subset
<1>4. ExpectedSum(R) \in Nat /\ ExpectedSum(DOMAIN staged \ R) \in Nat
  BY <1>1, <1>3, SumRecursion DEF ExpectedSum
<1>5. ExpectedSum(DOMAIN staged) = ExpectedSum(R) + ExpectedSum(DOMAIN staged \ R)
  BY <1>1, <1>2, SumSplit DEF ExpectedSum
<1> QED
  BY <1>1, <1>3, <1>4, <1>5

\* Uploads that are taken out take their reservations with them.
LEMMA RemovedGivesBack ==
  ASSUME StagedTyped, ReservedIsHeld, NEW R \in SUBSET DOMAIN staged, staged' = Omit(staged, R),
         reserved' = IF reserved > ExpectedSum(R) THEN reserved - ExpectedSum(R) ELSE 0
  PROVE  StagedTyped' /\ ReservedIsHeld' /\ DOMAIN staged' = DOMAIN staged \ R
<1>1. /\ DOMAIN staged' = DOMAIN staged \ R /\ DOMAIN staged' \subseteq DOMAIN staged
      /\ \A u \in DOMAIN staged' : staged'[u] = staged[u]
  BY DEF Omit
<1>2. IsFiniteSet(DOMAIN staged') /\ Cardinality(DOMAIN staged') <= Cardinality(DOMAIN staged)
      /\ Cardinality(DOMAIN staged') \in Nat /\ Cardinality(DOMAIN staged) \in Nat
  BY <1>1, FS_Subset, FS_CardinalityType DEF StagedTyped
<1>3. reserved' = ExpectedSum(DOMAIN staged \ R) /\ reserved' \in Nat /\ reserved' <= reserved
  <2>1. PICK a \in Nat, b \in Nat :
          a = ExpectedSum(R) /\ b = ExpectedSum(DOMAIN staged \ R) /\ ExpectedSum(DOMAIN staged) = a + b
    BY ExpectedIsNat
  <2>2. reserved = a + b /\ reserved' = IF reserved > a THEN reserved - a ELSE 0
    BY <2>1 DEF ReservedIsHeld
  <2> QED
    BY <2>1, <2>2
<1>4. ExpectedSum(DOMAIN staged)' = ExpectedSum(DOMAIN staged \ R)
  <2>1. PICK f : f = Expected
    OBVIOUS
  <2>2. PICK g : g = Expected'
    OBVIOUS
  <2>3. \A u \in DOMAIN staged' : f[u] \in Nat /\ g[u] = f[u]
    BY <1>1, <2>1, <2>2, ExpectedIsNat DEF Expected
  <2>4. SumFunctionOnSet(g, DOMAIN staged') = SumFunctionOnSet(f, DOMAIN staged')
    BY <1>2, <2>3, SumSame
  <2> QED
    BY <1>1, <2>1, <2>2, <2>4 DEF ExpectedSum
<1>5. StagedTyped'
  <2>1. staged' \in [DOMAIN staged' -> AnyUpload]
    BY <1>1 DEF StagedTyped, Omit
  <2> QED
    BY <1>1, <1>2, <1>3, <2>1 DEF StagedTyped
<1>6. ReservedIsHeld'
  <2>1. reserved' <= MaxStaged /\ Cardinality(DOMAIN staged') <= MaxSessions
    BY <1>2, <1>3, UploadAssumption DEF ReservedIsHeld, StagedTyped
  <2>2. \A u \in DOMAIN staged' : Len(staged'[u].bytes) <= staged'[u].expected
    BY <1>1 DEF ReservedIsHeld
  <2> QED
    BY <1>3, <1>4, <2>1, <2>2 DEF ReservedIsHeld
<1> QED
  BY <1>1, <1>5, <1>6

\* remove_upload.
LEMMA ReleaseGivesBack ==
  ASSUME StagedTyped, ReservedIsHeld, NEW u, Release(u)
  PROVE  /\ StagedTyped' /\ ReservedIsHeld' /\ DOMAIN staged' \subseteq DOMAIN staged
         /\ u \notin DOMAIN staged'
<1>1. CASE u \notin DOMAIN staged
  BY <1>1 DEF Release, StagedTyped, ReservedIsHeld, ExpectedSum, Expected
<1>2. CASE u \in DOMAIN staged
  <2>1. ExpectedSum({u}) = staged[u].expected
    <3>1. PICK f : f = Expected
      OBVIOUS
    <3>2. f[u] = staged[u].expected /\ f[u] \in Nat
      BY <1>2, <3>1, ExpectedIsNat
    <3>3. IsFiniteSet({u}) /\ IsFiniteSet({u} \ {u}) /\ {u} \ {u} = {}
      BY FS_Singleton, FS_EmptySet
    <3>4. SumFunctionOnSet(f, {u} \ {u}) = 0
      BY <3>3, SumRecursion
    <3>5. SumFunctionOnSet(f, {u}) = f[u] + SumFunctionOnSet(f, {u} \ {u})
      BY <3>2, <3>3, SumWithout
    <3> QED
      BY <3>1, <3>2, <3>4, <3>5 DEF ExpectedSum
  <2>2. staged' = Omit(staged, {u})
        /\ reserved' = IF reserved > ExpectedSum({u}) THEN reserved - ExpectedSum({u}) ELSE 0
    BY <1>2, <2>1 DEF Release
  <2> QED
    BY <1>2, <2>2, RemovedGivesBack
<1> QED
  BY <1>1, <1>2

\* A chunk or an hour that passes changes no reservation.
LEMMA KeptIsHeld ==
  ASSUME StagedTyped, ReservedIsHeld, UNCHANGED reserved, DOMAIN staged' = DOMAIN staged,
         \A u \in DOMAIN staged : staged'[u].expected = staged[u].expected
  PROVE  ExpectedSum(DOMAIN staged)' = reserved'
<1>1. PICK f : f = Expected
  OBVIOUS
<1>2. PICK g : g = Expected'
  OBVIOUS
<1>3. \A u \in DOMAIN staged : f[u] \in Nat /\ g[u] = f[u]
  BY <1>1, <1>2, ExpectedIsNat DEF Expected
<1>4. SumFunctionOnSet(g, DOMAIN staged) = SumFunctionOnSet(f, DOMAIN staged)
  BY <1>3, SumSame DEF StagedTyped
<1> QED
  BY <1>1, <1>2, <1>4 DEF ExpectedSum, ReservedIsHeld

\* begin_upload.
LEMMA BeginHolds ==
  ASSUME StagedTyped, ReservedIsHeld, NEW u \in Uploads, u \notin DOMAIN staged, BeginUpload(u)
  PROVE  /\ StagedTyped' /\ ReservedIsHeld' /\ UNCHANGED committed
         /\ DOMAIN staged' \subseteq DOMAIN staged \cup {u}
         /\ ~accepting => DOMAIN staged' = DOMAIN staged
<1>1. CASE UNCHANGED serviceVars
  BY <1>1 DEF serviceVars, StagedTyped, ReservedIsHeld, ExpectedSum, Expected
<1>2. CASE ~(~accepting \/ Cardinality(DOMAIN staged) >= MaxSessions \/ reserved + Len(BodyOf[u]) > MaxStaged)
  <2>1. PICK new : new = [expected |-> Len(BodyOf[u]), bytes |-> <<>>, next |-> 0, idle |-> 0]
    OBVIOUS
  <2>2. /\ staged' = [x \in DOMAIN staged \cup {u} |-> IF x = u THEN new ELSE staged[x]]
        /\ reserved' = reserved + Len(BodyOf[u]) /\ UNCHANGED committed
    BY <1>2, <2>1 DEF BeginUpload
  <2>3. /\ DOMAIN staged' = DOMAIN staged \cup {u} /\ staged'[u] = new
        /\ \A x \in DOMAIN staged : staged'[x] = staged[x]
    BY <2>2
  <2>4. BodyOf[u] \in Seq(0..255) /\ Len(BodyOf[u]) \in Nat
    BY UploadAssumption
  <2>5. new \in AnyUpload /\ Len(new.bytes) = 0 /\ new.expected = Len(BodyOf[u])
    BY <2>1, <2>4 DEF AnyUpload
  <2>6. IsFiniteSet(DOMAIN staged') /\ Cardinality(DOMAIN staged') = Cardinality(DOMAIN staged) + 1
        /\ Cardinality(DOMAIN staged) \in Nat
    BY <2>3, FS_AddElement, FS_CardinalityType DEF StagedTyped
  <2>7. StagedTyped'
    <3>1. staged' \in [DOMAIN staged' -> AnyUpload]
      BY <2>2, <2>3, <2>5 DEF StagedTyped
    <3>2. reserved' \in Nat /\ DOMAIN staged' \subseteq Uploads
      BY <2>2, <2>3, <2>4 DEF StagedTyped
    <3>3. \A x \in DOMAIN staged' :
            /\ staged'[x].expected = Len(BodyOf[x]) /\ Len(staged'[x].bytes) <= Len(BodyOf[x])
            /\ \A i \in 1..Len(staged'[x].bytes) : staged'[x].bytes[i] = BodyOf[x][i]
      BY <2>3, <2>4, <2>5 DEF StagedTyped
    <3> QED
      BY <2>6, <3>1, <3>2, <3>3 DEF StagedTyped
  <2>8. ExpectedSum(DOMAIN staged)' = reserved'
    <3>1. PICK f : f = Expected
      OBVIOUS
    <3>2. PICK g : g = Expected'
      OBVIOUS
    <3>3. \A x \in DOMAIN staged : f[x] \in Nat /\ g[x] = f[x]
      BY <2>3, <3>1, <3>2, ExpectedIsNat DEF Expected
    <3>4. g[u] = Len(BodyOf[u]) /\ g[u] \in Nat
      BY <2>3, <2>4, <2>5, <3>2 DEF Expected
    <3>5. IsFiniteSet(DOMAIN staged)
      BY DEF StagedTyped
    <3>6. SumFunctionOnSet(g, DOMAIN staged) = SumFunctionOnSet(f, DOMAIN staged)
      BY <3>3, <3>5, SumSame
    <3>7. SumFunctionOnSet(g, DOMAIN staged \cup {u}) = g[u] + SumFunctionOnSet(g, DOMAIN staged)
      BY <3>3, <3>4, <3>5, SumWith
    <3>8. SumFunctionOnSet(f, DOMAIN staged) = reserved /\ reserved \in Nat
      BY <3>1 DEF ReservedIsHeld, ExpectedSum, StagedTyped
    <3>9. SumFunctionOnSet(g, DOMAIN staged') = Len(BodyOf[u]) + reserved
      BY <2>3, <3>4, <3>6, <3>7, <3>8
    <3> QED
      BY <2>2, <2>4, <3>2, <3>8, <3>9 DEF ExpectedSum
  <2>9. reserved' <= MaxStaged /\ Cardinality(DOMAIN staged') <= MaxSessions
    BY <1>2, <2>2, <2>4, <2>6, UploadAssumption DEF StagedTyped
  <2>10. \A x \in DOMAIN staged' : Len(staged'[x].bytes) <= staged'[x].expected
    BY <2>3, <2>4, <2>5 DEF ReservedIsHeld
  <2> QED
    BY <1>2, <2>2, <2>3, <2>7, <2>8, <2>9, <2>10 DEF ReservedIsHeld
<1> QED
  BY <1>1, <1>2 DEF BeginUpload

\* append_upload: the upload ends, or its bytes stay a beginning of the body.
LEMMA AppendHolds ==
  ASSUME StagedTyped, ReservedIsHeld, ChunksTyped, NEW m \in travel, m.op = "append", AppendUpload(m)
  PROVE  /\ StagedTyped' /\ ReservedIsHeld' /\ UNCHANGED committed
         /\ DOMAIN staged' \subseteq DOMAIN staged
<1> DEFINE u == m.upload
<1>1. CASE u \notin DOMAIN staged
  BY <1>1 DEF AppendUpload, StagedTyped, ReservedIsHeld, ExpectedSum, Expected
<1>2. CASE Release(u)
  BY <1>2, ReleaseGivesBack DEF AppendUpload
<1>3. CASE /\ u \in DOMAIN staged /\ ~Release(u)
  <2>1. PICK up : up = staged[u]
    OBVIOUS
  <2>2. PICK new : new = [up EXCEPT !.bytes = up.bytes \o m.data, !.next = up.next + 1, !.idle = 0]
    OBVIOUS
  <2>3. /\ m.offset = Len(up.bytes) /\ ~(Len(up.bytes) + Len(m.data) > up.expected)
        /\ staged' = [staged EXCEPT ![u] = new] /\ UNCHANGED <<reserved, committed>>
    <3>1. /\ m.offset = Len(up.bytes) /\ ~(Len(up.bytes) + Len(m.data) > up.expected)
          /\ UNCHANGED <<reserved, committed>>
      BY <1>3, <2>1 DEF AppendUpload
    <3>2. staged' = [staged EXCEPT ![u] = new]
      BY <1>3, <2>1, <2>2 DEF AppendUpload
    <3> QED
      BY <3>1, <3>2
  <2>4. /\ up \in AnyUpload /\ up.bytes \in Seq(0..255) /\ up.expected = Len(BodyOf[u])
        /\ \A i \in 1..Len(up.bytes) : up.bytes[i] = BodyOf[u][i]
    BY <1>3, <2>1 DEF StagedTyped, AnyUpload
  <2>5. /\ m.data \in Seq(0..255) /\ \A i \in 1..Len(m.data) : m.data[i] = BodyOf[u][m.offset + i]
    BY DEF ChunksTyped
  <2>6. /\ new \in AnyUpload /\ new.expected = up.expected /\ new.bytes = up.bytes \o m.data
    <3>1. PICK b : b = up.bytes \o m.data
      OBVIOUS
    <3>2. PICK n : n = up.next + 1
      OBVIOUS
    <3>3. b \in Seq(0..255) /\ n \in Nat
      BY <2>4, <2>5, <3>1, <3>2 DEF AnyUpload
    <3>4. new = [up EXCEPT !.bytes = b, !.next = n, !.idle = 0]
      BY <2>2, <3>1, <3>2
    <3>5. new \in AnyUpload /\ new.expected = up.expected /\ new.bytes = b
      BY <2>4, <3>3, <3>4 DEF AnyUpload
    <3> QED
      BY <3>1, <3>5
  <2>7. /\ Len(new.bytes) = Len(up.bytes) + Len(m.data) /\ Len(up.bytes) \in Nat /\ Len(m.data) \in Nat
        /\ Len(BodyOf[u]) \in Nat
    BY <1>3, <2>4, <2>5, <2>6, UploadAssumption DEF StagedTyped
  <2>15. PICK a \in Nat, b \in Nat, c \in Nat :
           /\ a = Len(up.bytes) /\ b = Len(m.data) /\ c = Len(BodyOf[u])
           /\ Len(new.bytes) = a + b /\ ~(a + b > c) /\ m.offset = a
    <3>1. ~(Len(up.bytes) + Len(m.data) > Len(BodyOf[u])) /\ m.offset = Len(up.bytes)
      BY <2>3, <2>4
    <3> QED
      BY <2>7, <3>1, Zenon
  <2>8. Len(new.bytes) <= Len(BodyOf[u])
    <3>1. ~(a + b > c)
      BY <2>15, Zenon
    <3>2. a + b <= c
      BY <3>1
    <3> QED
      BY <2>15, <3>2
  <2>9. ASSUME NEW i \in 1..Len(new.bytes)
        PROVE  new.bytes[i] = BodyOf[u][i]
    <3>1. CASE i <= Len(up.bytes)
      <4>1. i \in 1..Len(up.bytes) /\ new.bytes[i] = up.bytes[i]
        BY <2>4, <2>5, <2>6, <2>7, <3>1
      <4> QED
        BY <2>4, <4>1
    <3>2. CASE i > Len(up.bytes)
      <4>1. i - Len(up.bytes) \in 1..Len(m.data)
        <5>1. i \in 1..a + b /\ i > a
          BY <2>15, <3>2
        <5>2. i - a \in 1..b
          BY <5>1
        <5> QED
          BY <2>15, <5>2
      <4>2. new.bytes[i] = m.data[i - Len(up.bytes)]
        BY <2>4, <2>5, <2>6, <2>7, <3>2
      <4>3. m.offset + (i - Len(up.bytes)) = i
        BY <2>3, <2>7
      <4> QED
        BY <2>5, <4>1, <4>2, <4>3
    <3> QED
      BY <2>7, <3>1, <3>2
  <2>10. /\ DOMAIN staged' = DOMAIN staged /\ staged'[u] = new
         /\ \A x \in DOMAIN staged : x # u => staged'[x] = staged[x]
    BY <1>3, <2>3 DEF StagedTyped
  <2>11. staged' \in [DOMAIN staged' -> AnyUpload]
    BY <1>3, <2>3, <2>6 DEF StagedTyped
  <2>12. StagedTyped'
    <3>1. ASSUME NEW x \in DOMAIN staged'
          PROVE  /\ staged'[x].expected = Len(BodyOf[x]) /\ Len(staged'[x].bytes) <= Len(BodyOf[x])
                 /\ \A i \in 1..Len(staged'[x].bytes) : staged'[x].bytes[i] = BodyOf[x][i]
      <4>1. CASE x = u
        BY <2>4, <2>6, <2>8, <2>9, <2>10, <4>1
      <4>2. CASE x # u
        BY <2>10, <4>2 DEF StagedTyped
      <4> QED
        BY <4>1, <4>2
    <3>2. DOMAIN staged' \subseteq Uploads /\ IsFiniteSet(DOMAIN staged') /\ reserved' \in Nat
      BY <2>3, <2>10 DEF StagedTyped
    <3> QED
      BY <2>11, <3>1, <3>2 DEF StagedTyped
  <2>13. ExpectedSum(DOMAIN staged)' = reserved'
    <3>1. \A x \in DOMAIN staged : staged'[x].expected = staged[x].expected
      BY <2>1, <2>6, <2>10
    <3> QED
      BY <2>3, <2>10, <3>1, KeptIsHeld
  <2>14. \A x \in DOMAIN staged' : Len(staged'[x].bytes) <= staged'[x].expected
    BY <2>4, <2>6, <2>8, <2>10 DEF ReservedIsHeld
  <2> QED
    BY <2>3, <2>10, <2>12, <2>13, <2>14 DEF ReservedIsHeld
<1> QED
  BY <1>1, <1>2, <1>3

\* A chunk is as long as it was asked for and has the body's bytes in their order.
LEMMA PieceOfBody ==
  ASSUME NEW B \in Seq(0..255), NEW at \in Nat, NEW n \in Nat, at + n <= Len(B)
  PROVE  /\ SubSeq(B, at + 1, at + n) \in Seq(0..255) /\ Len(SubSeq(B, at + 1, at + n)) = n
         /\ \A i \in 1..n : SubSeq(B, at + 1, at + n)[i] = B[at + i]
<1>1. PICK l \in Int, h \in Int : l = at + 1 /\ h = at + n
  OBVIOUS
<1>2. h - l + 1 = n /\ (l <= h \/ n = 0) /\ \A i \in 1..n : l + i - 1 = at + i
  BY <1>1
<1>3. \A i \in l..h : B[i] \in 0..255
  <2> TAKE i \in l..h
  <2>1. PICK c \in Nat : c = Len(B) /\ at + n <= c
    OBVIOUS
  <2>2. i \in 1..c
    BY <1>1, <2>1
  <2> QED
    BY <2>1, <2>2
<1>4. /\ SubSeq(B, l, h) \in Seq(0..255)
      /\ Len(SubSeq(B, l, h)) = IF l <= h THEN h - l + 1 ELSE 0
      /\ \A i \in 1..h - l + 1 : SubSeq(B, l, h)[i] = B[l + i - 1]
  BY <1>3, SubSeqProperties
<1>5. Len(SubSeq(B, l, h)) = n
  BY <1>1, <1>2, <1>4
<1>6. \A i \in 1..n : SubSeq(B, l, h)[i] = B[at + i]
  BY <1>2, <1>4
<1> QED
  BY <1>1, <1>4, <1>5, <1>6

\* commit_upload: the upload is staged no more, and stored if it was whole.
LEMMA CommitHolds ==
  ASSUME StagedTyped, ReservedIsHeld, BeginsOnce, NEW u \in Uploads, CommitUpload(u)
  PROVE  /\ StagedTyped' /\ ReservedIsHeld' /\ DOMAIN staged' \subseteq DOMAIN staged
         /\ DOMAIN committed' = Uploads
         /\ \A x \in Uploads : committed'[x] = committed[x] \/ (x = u /\ committed'[x] = <<BodyOf[x]>>)
         /\ u \notin DOMAIN staged'
         /\ committed'[u] # committed[u] => u \in DOMAIN staged
<1>1. Release(u)
  BY DEF CommitUpload
<1>2. \/ UNCHANGED committed
      \/ u \in DOMAIN staged /\ committed' = [committed EXCEPT ![u] = Append(committed[u], BodyOf[u])]
  BY DEF CommitUpload
<1>3. ASSUME u \in DOMAIN staged
      PROVE  Append(committed[u], BodyOf[u]) = <<BodyOf[u]>>
  <2>1. committed[u] = <<>>
    BY <1>3 DEF BeginsOnce
  <2>2. PICK t : t = Append(<<>>, BodyOf[u])
    OBVIOUS
  <2>3. t \in Seq({BodyOf[u]}) /\ Len(t) = 1 /\ t[1] = BodyOf[u]
    BY <2>2
  <2>4. t = <<BodyOf[u]>>
    BY <2>3
  <2> QED
    BY <2>1, <2>2, <2>4
<1>4. u \in DOMAIN committed
  BY DEF BeginsOnce
<1> QED
  BY <1>1, <1>2, <1>3, <1>4, ReleaseGivesBack DEF BeginsOnce

\* The worker runs a request.
LEMMA HandleHolds ==
  ASSUME UInv, NEW m \in travel, HandleUpload(m)
  PROVE  UInv' /\ (~accepting => DOMAIN staged' \subseteq DOMAIN staged)
<1> USE DEF UInv
<1>1. /\ travel' \subseteq travel /\ (m.op = "begin" => travel' = travel \ {m})
      /\ UNCHANGED <<accepting, handleAccepts, drain, begun, sentTo>> /\ m.upload \in Uploads
  BY DEF HandleUpload, ChunksTyped
<1>2. ChunksTyped' /\ DrainIsClosed'
  BY <1>1 DEF ChunksTyped, DrainIsClosed
<1>3. CASE m.op = "begin"
  <2>1. BeginUpload(m.upload)
    BY <1>3 DEF HandleUpload
  <2>2. m.upload \notin DOMAIN staged /\ m = [op |-> "begin", upload |-> m.upload]
    BY <1>3 DEF BeginsOnce
  <2>3. /\ StagedTyped' /\ ReservedIsHeld' /\ UNCHANGED committed
        /\ DOMAIN staged' \subseteq DOMAIN staged \cup {m.upload}
        /\ ~accepting => DOMAIN staged' = DOMAIN staged
    BY <1>1, <2>1, <2>2, BeginHolds
  <2>4. ASSUME NEW k \in travel', k.op = "begin"
        PROVE  k.upload # m.upload
    <3>1. k \in travel /\ k # m /\ k = [op |-> "begin", upload |-> k.upload]
      BY <1>1, <1>3, <2>4 DEF BeginsOnce
    <3> QED
      BY <2>2, <3>1
  <2>5. begun[m.upload] /\ committed[m.upload] = <<>>
    BY <1>3 DEF BeginsOnce
  <2>6. BeginsOnce'
    BY <1>1, <2>3, <2>4, <2>5 DEF BeginsOnce
  <2> QED
    BY <1>2, <2>3, <2>6
<1>4. ASSUME StagedTyped', ReservedIsHeld', UNCHANGED committed, DOMAIN staged' \subseteq DOMAIN staged
      PROVE  UInv' /\ (~accepting => DOMAIN staged' \subseteq DOMAIN staged)
  <2>1. BeginsOnce'
    BY <1>1, <1>4 DEF BeginsOnce
  <2> QED
    BY <1>2, <1>4, <2>1
<1>5. CASE m.op = "append"
  <2>1. AppendUpload(m)
    BY <1>5 DEF HandleUpload
  <2> QED
    BY <1>4, <1>5, <2>1, AppendHolds
<1>6. CASE m.op = "commit"
  <2>1. CommitUpload(m.upload)
    BY <1>6 DEF HandleUpload
  <2>2. /\ StagedTyped' /\ ReservedIsHeld' /\ DOMAIN staged' \subseteq DOMAIN staged
        /\ DOMAIN committed' = Uploads
        /\ \A x \in Uploads : committed'[x] = committed[x] \/ (x = m.upload /\ committed'[x] = <<BodyOf[x]>>)
        /\ m.upload \notin DOMAIN staged'
        /\ committed'[m.upload] # committed[m.upload] => m.upload \in DOMAIN staged
    BY <1>1, <2>1, CommitHolds
  <2>3. \A k \in travel' : k.op = "begin" => committed'[k.upload] = committed[k.upload]
    BY <1>1, <2>2 DEF BeginsOnce, ChunksTyped
  <2>4. \A u \in DOMAIN staged' : u \in Uploads /\ committed'[u] = committed[u]
    BY <2>2 DEF StagedTyped
  <2>5. \A u \in Uploads : committed'[u] # committed[u] => begun[u] /\ committed'[u] = <<BodyOf[u]>>
    BY <2>2 DEF BeginsOnce
  <2>6. \A u \in Uploads : committed'[u] \in {<<>>, <<BodyOf[u]>>} /\ (committed'[u] # <<>> => begun[u])
    BY <2>5 DEF BeginsOnce
  <2>7. BeginsOnce'
    BY <1>1, <2>2, <2>3, <2>4, <2>6 DEF BeginsOnce
  <2> QED
    BY <1>2, <2>2, <2>7
<1>7. CASE m.op = "abort"
  <2>1. Release(m.upload) /\ UNCHANGED committed
    BY <1>7 DEF HandleUpload, AbortUpload
  <2> QED
    BY <1>4, <2>1, ReleaseGivesBack
<1> QED
  BY <1>3, <1>5, <1>6, <1>7 DEF HandleUpload

\* Every step keeps the invariant, and none begins an upload that finds the
\* service closed.
LEMMA UploadStep ==
  ASSUME UInv, [UploadNext]_uploadVars
  PROVE  UInv' /\ (~accepting => DOMAIN staged' \subseteq DOMAIN staged)
<1> USE DEF UInv
<1>1. ASSUME UNCHANGED <<staged, reserved>>
      PROVE  StagedTyped' /\ ReservedIsHeld'
  BY <1>1 DEF StagedTyped, ReservedIsHeld, ExpectedSum, Expected
<1>2. ASSUME NEW u \in Uploads, SendBegin(u)
      PROVE  UInv' /\ DOMAIN staged' \subseteq DOMAIN staged
  <2>1. /\ ~begun[u] /\ begun' = [begun EXCEPT ![u] = TRUE]
        /\ travel' = travel \cup {[op |-> "begin", upload |-> u]}
        /\ UNCHANGED <<staged, reserved, accepting, drain, sentTo, committed>>
    BY <1>2 DEF SendBegin
  <2>2. ChunksTyped' /\ DrainIsClosed'
    BY <2>1 DEF ChunksTyped, DrainIsClosed
  <2>3. u \notin DOMAIN staged /\ committed[u] = <<>>
    BY <2>1 DEF BeginsOnce
  <2>4. BeginsOnce'
    BY <2>1, <2>3 DEF BeginsOnce, StagedTyped, ChunksTyped
  <2> QED
    BY <1>1, <2>1, <2>2, <2>4
<1>3. ASSUME NEW u \in Uploads, SendAppend(u)
      PROVE  UInv' /\ DOMAIN staged' \subseteq DOMAIN staged
  <2>1. PICK n \in 1..MaxUploadChunk :
          /\ sentTo[u] + n <= Len(BodyOf[u])
          /\ travel' = travel \cup {[op |-> "append", upload |-> u, sequence |-> staged[u].next, offset |-> sentTo[u],
                                     data |-> SubSeq(BodyOf[u], sentTo[u] + 1, sentTo[u] + n)]}
          /\ sentTo' = [sentTo EXCEPT ![u] = @ + n]
    BY <1>3 DEF SendAppend
  <2>2. UNCHANGED <<staged, reserved, accepting, drain, begun, committed>>
    BY <1>3 DEF SendAppend
  <2>3. PICK at \in Nat : at = sentTo[u] /\ at + n <= Len(BodyOf[u])
    BY <2>1 DEF BeginsOnce
  <2>4. PICK d : d = SubSeq(BodyOf[u], at + 1, at + n)
    OBVIOUS
  <2>5. BodyOf[u] \in Seq(0..255) /\ n \in Nat /\ Len(BodyOf[u]) \in Nat
    BY UploadAssumption
  <2>6. d \in Seq(0..255) /\ Len(d) = n /\ \A i \in 1..n : d[i] = BodyOf[u][at + i]
    <3>1. PICK B \in Seq(0..255) : B = BodyOf[u] /\ at + n <= Len(B)
      BY <2>3, <2>5
    <3>2. /\ SubSeq(B, at + 1, at + n) \in Seq(0..255) /\ Len(SubSeq(B, at + 1, at + n)) = n
          /\ \A i \in 1..n : SubSeq(B, at + 1, at + n)[i] = B[at + i]
      BY <2>5, <3>1, PieceOfBody, ZenonT(60)
    <3> QED
      BY <2>4, <3>1, <3>2
  <2>7. PICK k : k = [op |-> "append", upload |-> u, sequence |-> staged[u].next, offset |-> at, data |-> d]
    OBVIOUS
  <2>8. travel' = travel \cup {k} /\ k.op = "append" /\ k.upload = u /\ k.offset = at /\ k.data = d
    BY <2>1, <2>3, <2>4, <2>7
  <2>9. ChunksTyped'
    BY <2>3, <2>6, <2>8, ZenonT(60) DEF ChunksTyped
  <2>10. sentTo' \in [Uploads -> Nat]
    BY <2>1, <2>5 DEF BeginsOnce
  <2>11. BeginsOnce'
    BY <2>2, <2>8, <2>10 DEF BeginsOnce
  <2> QED
    BY <1>1, <2>2, <2>9, <2>11 DEF DrainIsClosed
<1>4. ASSUME NEW u \in Uploads, SendCommit(u) \/ SendAbort(u)
      PROVE  UInv' /\ DOMAIN staged' \subseteq DOMAIN staged
  <2>1. PICK k : /\ k.op \in {"commit", "abort"} /\ k.upload = u /\ travel' = travel \cup {k}
                 /\ UNCHANGED <<staged, reserved, accepting, drain, begun, sentTo, committed>>
    <3>1. CASE SendCommit(u)
      BY <3>1 DEF SendCommit
    <3>2. CASE SendAbort(u)
      BY <3>2 DEF SendAbort
    <3> QED
      BY <1>4, <3>1, <3>2
  <2>2. ChunksTyped' /\ DrainIsClosed' /\ BeginsOnce'
    BY <2>1 DEF ChunksTyped, DrainIsClosed, BeginsOnce
  <2> QED
    BY <1>1, <2>1, <2>2
<1>5. ASSUME NEW m \in travel, HandleUpload(m)
      PROVE  UInv' /\ (~accepting => DOMAIN staged' \subseteq DOMAIN staged)
  BY <1>5, HandleHolds
<1>6. CASE CleanupExpired
  <2>1. /\ Expired \in SUBSET DOMAIN staged /\ staged' = Omit(staged, Expired)
        /\ reserved' = IF reserved > ExpectedSum(Expired) THEN reserved - ExpectedSum(Expired) ELSE 0
        /\ UNCHANGED <<accepting, drain, travel, begun, sentTo, committed>>
    BY <1>6 DEF CleanupExpired, Expired
  <2>2. StagedTyped' /\ ReservedIsHeld' /\ DOMAIN staged' \subseteq DOMAIN staged
    BY <2>1, RemovedGivesBack
  <2>3. ChunksTyped' /\ DrainIsClosed' /\ BeginsOnce'
    BY <2>1, <2>2 DEF ChunksTyped, DrainIsClosed, BeginsOnce
  <2> QED
    BY <2>2, <2>3
<1>7. CASE UploadAges
  <2>1. /\ staged' = [u \in DOMAIN staged |-> [staged[u] EXCEPT !.idle = IF @ < IdleTtl THEN @ + 1 ELSE @]]
        /\ UNCHANGED <<reserved, accepting, drain, travel, begun, sentTo, committed>>
    BY <1>7 DEF UploadAges
  <2>2. DOMAIN staged' = DOMAIN staged
    BY <2>1
  <2>3. ASSUME NEW u \in DOMAIN staged
        PROVE  /\ staged'[u] \in AnyUpload /\ staged'[u].expected = staged[u].expected
               /\ staged'[u].bytes = staged[u].bytes
    <3>1. PICK n : n = IF staged[u].idle < IdleTtl THEN staged[u].idle + 1 ELSE staged[u].idle
      OBVIOUS
    <3>2. staged[u] \in AnyUpload /\ n \in Nat
      BY <3>1 DEF StagedTyped, AnyUpload
    <3>3. staged'[u] = [staged[u] EXCEPT !.idle = n]
      BY <2>1, <3>1
    <3> QED
      BY <3>2, <3>3 DEF AnyUpload
  <2>4. staged' \in [DOMAIN staged' -> AnyUpload]
    BY <2>1, <2>2, <2>3
  <2>5. StagedTyped'
    BY <2>1, <2>2, <2>3, <2>4 DEF StagedTyped
  <2>6. ReservedIsHeld'
    <3>1. ExpectedSum(DOMAIN staged)' = reserved'
      BY <2>1, <2>2, <2>3, KeptIsHeld
    <3> QED
      BY <2>1, <2>2, <2>3, <3>1 DEF ReservedIsHeld
  <2>7. ChunksTyped' /\ DrainIsClosed' /\ BeginsOnce'
    BY <2>1, <2>2 DEF ChunksTyped, DrainIsClosed, BeginsOnce
  <2> QED
    BY <2>2, <2>5, <2>6, <2>7
<1>8. CASE DrainAsked \/ HandleDrains \/ UNCHANGED uploadVars
  <2>1. UNCHANGED <<staged, reserved, travel, begun, sentTo, committed>> /\ DrainIsClosed'
    BY <1>8 DEF DrainAsked, HandleDrains, uploadVars, DrainIsClosed
  <2>2. ChunksTyped' /\ BeginsOnce'
    BY <2>1 DEF ChunksTyped, BeginsOnce
  <2> QED
    BY <1>1, <2>1, <2>2
<1>9. CASE UploadsStop
  <2>1. /\ staged' = <<>> /\ reserved' = 0 /\ accepting' = FALSE /\ travel' = {}
        /\ UNCHANGED <<begun, sentTo, committed>>
    BY <1>9 DEF UploadsStop
  <2>2. DOMAIN staged' = {} /\ IsFiniteSet(DOMAIN staged') /\ Cardinality(DOMAIN staged') = 0
    BY <2>1, FS_EmptySet
  <2>3. StagedTyped'
    BY <2>1, <2>2 DEF StagedTyped
  <2>4. ReservedIsHeld'
    <3>1. PICK g : g = Expected'
      OBVIOUS
    <3>2. SumFunctionOnSet(g, DOMAIN staged') = 0
      BY <2>2, SumRecursion
    <3> QED
      BY <2>1, <2>2, <3>1, <3>2, UploadAssumption DEF ReservedIsHeld, ExpectedSum
  <2>5. ChunksTyped' /\ DrainIsClosed' /\ BeginsOnce'
    BY <2>1, <2>2 DEF ChunksTyped, DrainIsClosed, BeginsOnce
  <2> QED
    BY <2>2, <2>3, <2>4, <2>5
<1> QED
  BY <1>2, <1>3, <1>4, <1>5, <1>6, <1>7, <1>8, <1>9 DEF UploadNext

\* Uploads are received in order, stored once and whole and give back what they
\* reserved, for any bodies, chunks, retries and limits, and none begins after
\* begin_shutdown (begin_upload, append_upload, commit_upload, remove_upload).
THEOREM UploadsStayWhole == UploadSpec => UploadsAreWhole
<1>1. ASSUME UploadInit
      PROVE  UInv
  <2> USE <1>1 DEF UploadInit
  <2>1. DOMAIN staged = {} /\ IsFiniteSet(DOMAIN staged) /\ Cardinality(DOMAIN staged) = 0
    BY FS_EmptySet
  <2>2. StagedTyped
    BY <2>1 DEF StagedTyped
  <2>3. ReservedIsHeld
    <3>1. ExpectedSum(DOMAIN staged) = 0
      BY <2>1, SumRecursion DEF ExpectedSum
    <3> QED
      BY <2>1, <3>1, UploadAssumption DEF ReservedIsHeld
  <2>4. ChunksTyped /\ DrainIsClosed
    BY DEF ChunksTyped, DrainIsClosed
  <2>5. BeginsOnce
    BY <2>1 DEF BeginsOnce
  <2> QED
    BY <2>2, <2>3, <2>4, <2>5 DEF UInv
<1>2. UInv /\ [UploadNext]_uploadVars => UInv'
  BY UploadStep
<1>3. UInv => ReservedIsHeld /\ ReceivedIsPrefix /\ CommittedOnceAndWhole
  <2> SUFFICES ASSUME UInv
               PROVE  ReceivedIsPrefix /\ CommittedOnceAndWhole
    BY DEF UInv
  <2>1. ASSUME NEW u \in DOMAIN staged
        PROVE  staged[u].bytes = SubSeq(BodyOf[u], 1, Len(staged[u].bytes))
    <3>1. PICK b : b = staged[u].bytes
      OBVIOUS
    <3>2. /\ b \in Seq(0..255) /\ Len(b) \in Nat /\ Len(b) <= Len(BodyOf[u])
          /\ \A i \in 1..Len(b) : b[i] = BodyOf[u][i]
      BY <3>1 DEF UInv, StagedTyped, AnyUpload
    <3>3. BodyOf[u] \in Seq(0..255)
      BY UploadAssumption DEF UInv, StagedTyped
    <3>4. PICK t : t = SubSeq(BodyOf[u], 1, Len(b))
      OBVIOUS
    <3>5. t \in Seq(0..255) /\ Len(t) = Len(b) /\ \A i \in 1..Len(b) : t[i] = BodyOf[u][i]
      <4>1. PICK n \in Nat : n = Len(b)
        BY <3>2
      <4>2. 0 + 1 = 1 /\ 0 + n = n /\ 0 \in Nat /\ \A i \in 1..n : 0 + i = i
        OBVIOUS
      <4>3. t = SubSeq(BodyOf[u], 0 + 1, 0 + n) /\ 0 + n <= Len(BodyOf[u])
        BY <3>2, <3>4, <4>1, <4>2
      <4>4. /\ SubSeq(BodyOf[u], 0 + 1, 0 + n) \in Seq(0..255) /\ Len(SubSeq(BodyOf[u], 0 + 1, 0 + n)) = n
            /\ \A i \in 1..n : SubSeq(BodyOf[u], 0 + 1, 0 + n)[i] = BodyOf[u][0 + i]
        BY <3>3, <4>2, <4>3, PieceOfBody
      <4> QED
        BY <4>1, <4>2, <4>3, <4>4
    <3>6. b = t
      BY <3>2, <3>5
    <3> QED
      BY <3>1, <3>4, <3>6
  <2> QED
    BY <2>1 DEF UInv, BeginsOnce, ReceivedIsPrefix, CommittedOnceAndWhole
<1>4. UInv /\ [UploadNext]_uploadVars =>
        [drain # "no" /\ drain # "queued" => DOMAIN staged' \subseteq DOMAIN staged]_uploadVars
  BY UploadStep DEF UInv, DrainIsClosed
<1> QED
  BY <1>1, <1>2, <1>3, <1>4, PTL DEF UploadSpec, UploadsAreWhole, DrainingOnlyShrinks

-----------------------------------------------------------------------------
(* Reading notes: the rows of a query *)

\* In a finite set that a relation orders strictly and totally, every position
\* is taken by the member that as many others precede.
LEMMA EveryRankIsTaken ==
  ASSUME NEW S, IsFiniteSet(S), NEW Rel,
         \A x \in S : <<x, x>> \notin Rel,
         \A x, y, z \in S : <<x, y>> \in Rel /\ <<y, z>> \in Rel => <<x, z>> \in Rel,
         \A x, y \in S : x # y => <<x, y>> \in Rel \/ <<y, x>> \in Rel
  PROVE  \A i \in 1..Cardinality(S) : \E n \in S : Cardinality({m \in S : <<m, n>> \in Rel}) = i - 1
<1> DEFINE Below(n) == {m \in S : <<m, n>> \in Rel}
           rank == [n \in S |-> Cardinality(Below(n))]
<1>1. PICK c \in Nat : c = Cardinality(S)  BY FS_CardinalityType
<1>2. ASSUME NEW n \in S
      PROVE  IsFiniteSet(Below(n)) /\ Cardinality(Below(n)) \in 0..c - 1
  <2>1. Below(n) \in SUBSET S /\ n \in S /\ n \notin Below(n)  OBVIOUS
  <2> HIDE DEF Below
  <2>2. IsFiniteSet(Below(n)) /\ Cardinality(Below(n)) <= c /\ (c = Cardinality(Below(n)) => S = Below(n))
    BY <1>1, <2>1, FS_Subset
  <2>3. Cardinality(Below(n)) \in Nat  BY <2>2, FS_CardinalityType
  <2> QED  BY <1>1, <2>1, <2>2, <2>3
<1>3. ASSUME NEW x \in S, NEW y \in S, <<x, y>> \in Rel
      PROVE  Cardinality(Below(x)) < Cardinality(Below(y))
  <2>1. Below(x) \in SUBSET Below(y) /\ x \in Below(y) /\ x \notin Below(x)  BY <1>3
  <2> HIDE DEF Below
  <2>2. Cardinality(Below(x)) <= Cardinality(Below(y)) /\ (Cardinality(Below(y)) = Cardinality(Below(x)) => Below(y) = Below(x))
    BY <1>2, <2>1, FS_Subset
  <2>3. Cardinality(Below(x)) \in Nat /\ Cardinality(Below(y)) \in Nat  BY <1>2, FS_CardinalityType
  <2> QED  BY <2>1, <2>2, <2>3
<1> HIDE DEF Below
<1>4. rank \in [S -> 0..c - 1]  BY <1>2
<1>5. \A x, y \in S : rank[x] = rank[y] => x = y
  <2>1. SUFFICES ASSUME NEW x \in S, NEW y \in S, x # y
                 PROVE  Cardinality(Below(x)) # Cardinality(Below(y))
    OBVIOUS
  <2>2. Cardinality(Below(x)) \in Nat /\ Cardinality(Below(y)) \in Nat  BY <1>2, FS_CardinalityType
  <2>3. <<x, y>> \in Rel \/ <<y, x>> \in Rel  BY <2>1
  <2>4. CASE <<x, y>> \in Rel
    <3>1. Cardinality(Below(x)) < Cardinality(Below(y))  BY <1>3, <2>4
    <3> QED  BY <2>2, <3>1
  <2>5. CASE <<y, x>> \in Rel
    <3>1. Cardinality(Below(y)) < Cardinality(Below(x))  BY <1>3, <2>5
    <3> QED  BY <2>2, <3>1
  <2> QED  BY <2>3, <2>4, <2>5
<1> HIDE DEF rank
<1>6. IsFiniteSet(0..c - 1) /\ Cardinality(0..c - 1) = c
  <2>1. 0 \in Int /\ c - 1 \in Int  BY <1>1
  <2>2. IsFiniteSet(0..c - 1) /\ Cardinality(0..c - 1) = IF 0 > c - 1 THEN 0 ELSE c - 1 - 0 + 1
    BY <2>1, FS_Interval
  <2> QED  BY <1>1, <2>2
<1>7. rank \in Injection(S, 0..c - 1)  BY <1>4, <1>5 DEF Injection, IsInjective
<1>8. rank \in Surjection(S, 0..c - 1)  BY <1>1, <1>6, <1>7, FS_Injection
<1>9. ASSUME NEW i \in 1..Cardinality(S)
      PROVE  \E n \in S : Cardinality(Below(n)) = i - 1
  <2>1. i - 1 \in 0..c - 1  BY <1>1
  <2>2. PICK n \in S : rank[n] = i - 1  BY <1>8, <2>1 DEF Surjection
  <2> QED  BY <2>2 DEF rank
<1> QED  BY <1>9 DEF Below

Sorts == {"updated", "created", "title", "diary"}

\* A sort key is four integers, the last of them the note's identifier.
LEMMA SortKeyType ==
  ASSUME NEW sort \in Sorts, NEW n \in NotePool
  PROVE  /\ \A i \in 1..4 : SortKey(sort, n)[i] \in Int
         /\ SortKey(sort, n)[4] = n.id
<1>1. n.pinned \in BOOLEAN /\ n.id \in Nat /\ n.updated \in Nat /\ n.created \in Nat /\ n.title \in Nat /\ n.date \in Nat
  BY PagesAssumption
<1>2. PICK pin \in Int : pin = IF n.pinned THEN 0 ELSE 1  BY <1>1
<1>3. \E a, b \in Int : SortKey(sort, n) = <<pin, a, b, n.id>>
  <2>1. CASE sort = "updated"
    <3>1. SortKey(sort, n) = <<pin, 10 - n.updated, 0, n.id>>  BY <1>2, <2>1 DEF SortKey
    <3> QED  BY <1>1, <3>1
  <2>2. CASE sort = "created"
    <3>1. SortKey(sort, n) = <<pin, 10 - n.created, 0, n.id>>  BY <1>2, <2>2 DEF SortKey
    <3> QED  BY <1>1, <3>1
  <2>3. CASE sort = "title"
    <3>1. SortKey(sort, n) = <<pin, n.title, 0, n.id>>  BY <1>2, <2>3 DEF SortKey
    <3> QED  BY <1>1, <3>1
  <2>4. CASE sort = "diary"
    <3>1. SortKey(sort, n) = <<pin, IF n.date = 0 THEN 99 ELSE 10 - n.date, 10 - n.updated, n.id>>  BY <1>2, <2>4 DEF SortKey
    <3> QED  BY <1>1, <3>1
  <2> QED  BY <2>1, <2>2, <2>3, <2>4 DEF Sorts
<1>4. PICK a \in Int, b \in Int : SortKey(sort, n) = <<pin, a, b, n.id>>  BY <1>3
<1>5. \A i \in 1..4 : i = 1 \/ i = 2 \/ i = 3 \/ i = 4  OBVIOUS
<1>6. <<pin, a, b, n.id>>[1] = pin /\ <<pin, a, b, n.id>>[2] = a /\ <<pin, a, b, n.id>>[3] = b /\ <<pin, a, b, n.id>>[4] = n.id
  OBVIOUS
<1> QED  BY <1>1, <1>2, <1>4, <1>5, <1>6

\* Comparing from the left, spelled out.
LEMMA KeyBeforeUnfolds ==
  ASSUME NEW a, NEW b
  PROVE  KeyBefore(a, b) <=>
           \/ a[1] < b[1]
           \/ a[1] = b[1] /\ a[2] < b[2]
           \/ a[1] = b[1] /\ a[2] = b[2] /\ a[3] < b[3]
           \/ a[1] = b[1] /\ a[2] = b[2] /\ a[3] = b[3] /\ a[4] < b[4]
<1> DEFINE At(i) == a[i] < b[i] /\ \A j \in 1..i-1 : a[j] = b[j]
<1>1. At(1) <=> a[1] < b[1]  OBVIOUS
<1>2. At(2) <=> a[1] = b[1] /\ a[2] < b[2]
  <2>1. \A j : j \in 1..2-1 <=> j = 1  OBVIOUS
  <2> QED  BY <2>1
<1>3. At(3) <=> a[1] = b[1] /\ a[2] = b[2] /\ a[3] < b[3]
  <2>1. \A j : j \in 1..3-1 <=> j = 1 \/ j = 2  OBVIOUS
  <2> QED  BY <2>1
<1>4. At(4) <=> a[1] = b[1] /\ a[2] = b[2] /\ a[3] = b[3] /\ a[4] < b[4]
  <2>1. \A j : j \in 1..4-1 <=> j = 1 \/ j = 2 \/ j = 3  OBVIOUS
  <2> QED  BY <2>1
<1>5. KeyBefore(a, b) <=> \E i \in 1..4 : At(i)  BY DEF KeyBefore
<1>6. \A i : i \in 1..4 <=> i = 1 \/ i = 2 \/ i = 3 \/ i = 4  OBVIOUS
<1> HIDE DEF At
<1>7. KeyBefore(a, b) <=> At(1) \/ At(2) \/ At(3) \/ At(4)  BY <1>5, <1>6
<1> QED  BY <1>1, <1>2, <1>3, <1>4, <1>7

\* The order of a query is strict and total on the notes.
LEMMA KeyOrder ==
  ASSUME NEW sort \in Sorts, NEW x \in NotePool, NEW y \in NotePool, NEW z \in NotePool
  PROVE  /\ ~KeyBefore(SortKey(sort, x), SortKey(sort, x))
         /\ KeyBefore(SortKey(sort, x), SortKey(sort, y)) /\ KeyBefore(SortKey(sort, y), SortKey(sort, z))
              => KeyBefore(SortKey(sort, x), SortKey(sort, z))
         /\ x # y => KeyBefore(SortKey(sort, x), SortKey(sort, y)) \/ KeyBefore(SortKey(sort, y), SortKey(sort, x))
<1>1. PICK a, b, c : a = SortKey(sort, x) /\ b = SortKey(sort, y) /\ c = SortKey(sort, z)  OBVIOUS
<1>2. /\ a[1] \in Int /\ a[2] \in Int /\ a[3] \in Int /\ a[4] \in Int
      /\ b[1] \in Int /\ b[2] \in Int /\ b[3] \in Int /\ b[4] \in Int
      /\ c[1] \in Int /\ c[2] \in Int /\ c[3] \in Int /\ c[4] \in Int
  BY <1>1, SortKeyType
<1>3. x # y => a[4] # b[4]  BY <1>1, SortKeyType, PagesAssumption
<1>4. ~KeyBefore(a, a)  BY <1>2, KeyBeforeUnfolds
<1>5. KeyBefore(a, b) /\ KeyBefore(b, c) => KeyBefore(a, c)  BY <1>2, KeyBeforeUnfolds
<1>6. x # y => KeyBefore(a, b) \/ KeyBefore(b, a)  BY <1>2, <1>3, KeyBeforeUnfolds
<1> QED  BY <1>1, <1>4, <1>5, <1>6

Found(q, notesIn) == {n \in notesIn : Matches(q, n)}

\* The rows of a query: a note at every position, that as many others precede.
LEMMA RowAtRank ==
  ASSUME NEW q, q.sort \in Sorts, NEW notesIn \in SUBSET NotePool
  PROVE  /\ Cardinality(Found(q, notesIn)) \in Nat
         /\ NoteRows(q, notesIn) \in Seq(Found(q, notesIn))
         /\ Len(NoteRows(q, notesIn)) = Cardinality(Found(q, notesIn))
         /\ \A i \in 1..Len(NoteRows(q, notesIn)) :
              Cardinality(RowsBefore(q, Found(q, notesIn), NoteRows(q, notesIn)[i])) = i - 1
<1>1. PICK S : S = Found(q, notesIn)  OBVIOUS
<1>2. PICK sort \in Sorts : sort = q.sort  OBVIOUS
<1>3. S \in SUBSET NotePool  BY <1>1 DEF Found
<1>4. IsFiniteSet(S)  BY <1>3, PagesAssumption, FS_Subset
<1>5. PICK c \in Nat : c = Cardinality(S)  BY <1>4, FS_CardinalityType
<1> DEFINE Rel == {p \in S \X S : KeyBefore(SortKey(sort, p[1]), SortKey(sort, p[2]))}
<1>6. \A x, y \in S : <<x, y>> \in Rel <=> KeyBefore(SortKey(sort, x), SortKey(sort, y))  OBVIOUS
<1> HIDE DEF Rel
<1>7. \A x \in S : <<x, x>> \notin Rel  BY <1>3, <1>6, KeyOrder
<1>8. \A x, y, z \in S : <<x, y>> \in Rel /\ <<y, z>> \in Rel => <<x, z>> \in Rel  BY <1>3, <1>6, KeyOrder
<1>9. \A x, y \in S : x # y => <<x, y>> \in Rel \/ <<y, x>> \in Rel  BY <1>3, <1>6, KeyOrder
<1>10. \A i \in 1..c : \E n \in S : Cardinality({m \in S : <<m, n>> \in Rel}) = i - 1
  BY <1>4, <1>5, <1>7, <1>8, <1>9, EveryRankIsTaken, SMTT(40)
<1>11. \A n \in S : RowsBefore(q, S, n) = {m \in S : <<m, n>> \in Rel}  BY <1>2, <1>6 DEF RowsBefore
<1>12. \A i \in 1..c : \E n \in S : Cardinality(RowsBefore(q, S, n)) = i - 1  BY <1>10, <1>11
<1>13. PICK rows : rows = NoteRows(q, notesIn)  OBVIOUS
<1>14. rows = [i \in 1..c |-> CHOOSE n \in S : Cardinality(RowsBefore(q, S, n)) = i - 1]
  BY <1>1, <1>5, <1>13 DEF NoteRows, Found
<1>15. \A i \in 1..c : rows[i] \in S /\ Cardinality(RowsBefore(q, S, rows[i])) = i - 1  BY <1>12, <1>14
<1>16. rows \in Seq(S) /\ Len(rows) = c
  <2>1. rows \in [1..c -> S]  BY <1>14, <1>15
  <2> QED  BY <2>1, <1>5
<1> QED  BY <1>1, <1>5, <1>13, <1>15, <1>16

\* The rows are the notes that match, each once, in the order of the query.
LEMMA RowsAreOrdered ==
  ASSUME NEW q, q.sort \in Sorts, NEW notesIn \in SUBSET NotePool
  PROVE  LET rows == NoteRows(q, notesIn)
         IN /\ {rows[i] : i \in 1..Len(rows)} = {n \in notesIn : Matches(q, n)}
            /\ \A i, j \in 1..Len(rows) : i < j => KeyBefore(SortKey(q.sort, rows[i]), SortKey(q.sort, rows[j]))
<1>1. PICK S : S = Found(q, notesIn)  OBVIOUS
<1>2. PICK rows : rows = NoteRows(q, notesIn)  OBVIOUS
<1>3. PICK c \in Nat : c = Cardinality(S)  BY <1>1, RowAtRank
<1>4. rows \in Seq(S) /\ Len(rows) = c /\ \A i \in 1..c : Cardinality(RowsBefore(q, S, rows[i])) = i - 1
  BY <1>1, <1>2, <1>3, RowAtRank
<1>5. S \in SUBSET NotePool /\ IsFiniteSet(S)
  <2>1. S \in SUBSET NotePool  BY <1>1 DEF Found
  <2> QED  BY <2>1, PagesAssumption, FS_Subset
<1>6. \A i \in 1..c : rows[i] \in S  BY <1>4
<1>7. ASSUME NEW i \in 1..c, NEW j \in 1..c, i < j
      PROVE  KeyBefore(SortKey(q.sort, rows[i]), SortKey(q.sort, rows[j]))
  <2>1. PICK x, y : x = rows[i] /\ y = rows[j]  OBVIOUS
  <2>2. x \in S /\ y \in S  BY <1>6, <2>1
  <2>3. Cardinality(RowsBefore(q, S, x)) = i - 1 /\ Cardinality(RowsBefore(q, S, y)) = j - 1  BY <1>4, <2>1
  <2>4. x # y  BY <1>7, <2>3
  <2>5. SUFFICES ASSUME KeyBefore(SortKey(q.sort, y), SortKey(q.sort, x)) PROVE FALSE
    BY <1>5, <2>1, <2>2, <2>4, KeyOrder
  <2>6. RowsBefore(q, S, y) \in SUBSET RowsBefore(q, S, x)
    BY <1>5, <2>2, <2>5, KeyOrder DEF RowsBefore
  <2>7. RowsBefore(q, S, x) \in SUBSET S  BY DEF RowsBefore
  <2>8. IsFiniteSet(RowsBefore(q, S, x))  BY <1>5, <2>7, FS_Subset
  <2>9. j - 1 <= i - 1  BY <2>3, <2>6, <2>8, FS_Subset
  <2> QED  BY <1>7, <2>9
<1>8. \A i, j \in 1..c : rows[i] = rows[j] => i = j  BY <1>4
<1>9. rows \in Surjection(1..c, S)
  <2>1. rows \in [1..c -> S]  BY <1>4, <1>6
  <2>2. rows \in Injection(1..c, S)  BY <1>8, <2>1 DEF Injection, IsInjective
  <2>3. Cardinality(1..c) = c
    <3>1. 1 \in Int /\ c \in Int  OBVIOUS
    <3>2. Cardinality(1..c) = IF 1 > c THEN 0 ELSE c - 1 + 1  BY <3>1, FS_Interval
    <3> QED  BY <3>2
  <2> QED  BY <1>3, <1>5, <2>2, <2>3, FS_Injection
<1>10. {rows[i] : i \in 1..c} = S  BY <1>6, <1>9 DEF Surjection
<1> QED  BY <1>1, <1>2, <1>4, <1>7, <1>10 DEF Found

-----------------------------------------------------------------------------
(* Reading notes: following the pages *)

\* w is what lies in s after its first so many entries, up to the entry at e.
IsWindow(w, s, skip, e, T) ==
  /\ w \in Seq(T) /\ Len(w) = e - skip
  /\ \A i \in 1..e - skip : w[i] = s[skip + i]

LEMMA WindowIs ==
  ASSUME NEW T, NEW s \in Seq(T), NEW skip \in 0..Len(s), NEW n \in Nat, NEW e \in Nat,
         e = IF skip + n < Len(s) THEN skip + n ELSE Len(s)
  PROVE  IsWindow(Window(s, skip, n), s, skip, e, T)
<1>1. e \in skip..Len(s)  OBVIOUS
<1>2. Window(s, skip, n) = SubSeq(s, skip + 1, e)  BY DEF Window
<1>3. skip + 1 \in Int /\ e \in Int /\ \A i \in skip + 1..e : s[i] \in T  BY <1>1
<1>4. PICK w : w = SubSeq(s, skip + 1, e)  OBVIOUS
<1>5. /\ w \in Seq(T) /\ Len(w) = (IF skip + 1 <= e THEN e - (skip + 1) + 1 ELSE 0)
      /\ \A i \in 1..e - (skip + 1) + 1 : w[i] = s[skip + 1 + i - 1]
  BY <1>3, <1>4, SubSeqProperties
<1>6. \A i \in 1..e - skip : i \in 1..e - (skip + 1) + 1 /\ skip + 1 + i - 1 = skip + i  BY <1>1
<1> QED  BY <1>1, <1>2, <1>4, <1>5, <1>6 DEF IsWindow

\* A page: the rows from its offset on, as many as it holds; there are more
\* exactly when rows are left.
LEMMA NotePageIs ==
  ASSUME NEW q, q.limit \in Nat, NEW notesIn, NEW T, NoteRows(q, notesIn) \in Seq(T),
         NEW skip \in 0..Len(NoteRows(q, notesIn))
  PROVE  \E e \in skip..Len(NoteRows(q, notesIn)) :
           /\ NotePage(q, notesIn, skip).notes = SubSeq(NoteRows(q, notesIn), skip + 1, e)
           /\ NotePage(q, notesIn, skip).next = e
           /\ ~NotePage(q, notesIn, skip).more => e = Len(NoteRows(q, notesIn))
<1>1. PICK all : all = NoteRows(q, notesIn)  OBVIOUS
<1>2. PICK c \in Nat : c = Len(all)  BY <1>1
<1>3. PICK limit \in Nat : limit = q.limit  OBVIOUS
<1>4. all \in Seq(T) /\ skip \in 0..c  BY <1>1, <1>2
<1>0. PICK m \in Nat : m = limit + 1  OBVIOUS
<1>5. PICK rows : rows = Window(all, skip, m)  OBVIOUS
<1>6. PICK d \in Nat : d = IF skip + m < c THEN skip + m ELSE c  BY <1>4
<1>7. rows \in Seq(T) /\ Len(rows) = d - skip /\ \A i \in 1..d - skip : rows[i] = all[skip + i]
  <2>1. skip \in 0..Len(all) /\ d = IF skip + m < Len(all) THEN skip + m ELSE Len(all)
    BY <1>2, <1>4, <1>6
  <2>2. IsWindow(rows, all, skip, d, T)  BY <1>4, <1>5, <2>1, WindowIs
  <2> QED  BY <2>2 DEF IsWindow
<1>8. d \in skip..c  BY <1>4, <1>6
<1>9. PICK n \in Nat : n = d - skip  BY <1>4, <1>8
<1>10. PICK k \in Nat : k = IF limit < n THEN limit ELSE n
  <2>1. (IF limit < n THEN limit ELSE n) \in Nat  OBVIOUS
  <2> QED  BY <2>1
<1>11. PICK shownRows : shownRows = Window(rows, 0, limit)  OBVIOUS
<1>12. shownRows \in Seq(T) /\ Len(shownRows) = k /\ \A i \in 1..k : shownRows[i] = rows[i]
  <2>1. rows \in Seq(T) /\ 0 \in 0..Len(rows) /\ k = IF 0 + limit < Len(rows) THEN 0 + limit ELSE Len(rows)
    BY <1>7, <1>9, <1>10
  <2>2. IsWindow(shownRows, rows, 0, k, T)  BY <1>11, <2>1, WindowIs
  <2>3. k - 0 = k /\ \A i \in 1..k : 0 + i = i  BY <1>10
  <2> QED  BY <2>2, <2>3 DEF IsWindow
<1>13. PICK e \in Nat : e = skip + k  BY <1>4, <1>10
<1>14. e \in skip..c /\ (n <= limit => e = c)  BY <1>0, <1>4, <1>6, <1>9, <1>10, <1>13
<1>15. shownRows = SubSeq(all, skip + 1, e)
  <2>1. PICK w : w = SubSeq(all, skip + 1, e)  OBVIOUS
  <2>2. skip + 1 \in Int /\ e \in Int /\ \A i \in skip + 1..e : all[i] \in T
    BY <1>2, <1>4, <1>13, <1>14
  <2>3. /\ w \in Seq(T) /\ Len(w) = (IF skip + 1 <= e THEN e - (skip + 1) + 1 ELSE 0)
        /\ \A i \in 1..e - (skip + 1) + 1 : w[i] = all[skip + 1 + i - 1]
    BY <2>1, <2>2, SubSeqProperties
  <2>4. Len(w) = k  BY <1>4, <1>10, <1>13, <2>3
  <2>5. \A i \in 1..k : w[i] = all[skip + i]
    <3>1. \A i \in 1..k : i \in 1..e - (skip + 1) + 1 /\ skip + 1 + i - 1 = skip + i  BY <1>4, <1>10, <1>13
    <3> QED  BY <2>3, <3>1
  <2>6. \A i \in 1..k : shownRows[i] = all[skip + i]
    <3>1. \A i \in 1..k : i \in 1..d - skip  BY <1>9, <1>10
    <3> QED  BY <1>7, <1>12, <3>1
  <2>7. \A i \in 1..Len(w) : shownRows[i] = w[i]  BY <2>4, <2>5, <2>6
  <2>8. shownRows \in Seq(T) /\ Len(shownRows) = Len(w)  BY <1>12, <2>4
  <2> HIDE <2>1
  <2>9. shownRows = w  BY <2>3, <2>7, <2>8, SeqEqual
  <2> QED  BY <2>1, <2>9
<1>16. NotePage(q, notesIn, skip) = [notes |-> shownRows, more |-> Len(rows) > limit, next |-> skip + Len(shownRows)]
  BY <1>0, <1>1, <1>3, <1>5, <1>11 DEF NotePage
<1>17. /\ NotePage(q, notesIn, skip).notes = SubSeq(all, skip + 1, e)
       /\ NotePage(q, notesIn, skip).next = e
  <2>1. NotePage(q, notesIn, skip).notes = shownRows  BY <1>16
  <2>2. NotePage(q, notesIn, skip).next = skip + Len(shownRows)  BY <1>16
  <2> QED  BY <1>12, <1>13, <1>15, <2>1, <2>2
<1>18. ~NotePage(q, notesIn, skip).more => e = c
  <2>1. NotePage(q, notesIn, skip).more = (Len(rows) > limit)  BY <1>16
  <2>2. Len(rows) = n  BY <1>7, <1>9
  <2>3. ~(n > limit) => n <= limit  BY <1>9
  <2> QED  BY <1>14, <2>1, <2>2, <2>3
<1> QED  BY <1>1, <1>2, <1>14, <1>17, <1>18

\* What has been collected is the rows up to the offset.
PagesInv ==
  /\ corpus \in SUBSET NotePool
  /\ noteQuery \in NoteQueries /\ ValidNoteQuery(noteQuery, 0)
  /\ pageOffset \in 0..Len(NoteRows(noteQuery, corpus))
  /\ collected = SubSeq(NoteRows(noteQuery, corpus), 1, pageOffset)
  /\ pageWalk \in {"paging", "done", "refused"}
  /\ pageWalk = "refused" => pageOffset > MaxOffset
  /\ pageWalk = "done" => pageOffset = Len(NoteRows(noteQuery, corpus))

LEMMA QueryRows ==
  ASSUME NEW q \in NoteQueries, NEW notesIn \in SUBSET NotePool
  PROVE  /\ q.sort \in Sorts /\ q.limit \in Nat
         /\ NoteRows(q, notesIn) \in Seq(NotePool)
         /\ Len(NoteRows(q, notesIn)) \in Nat
<1>1. q.sort \in Sorts /\ q.limit \in Nat  BY PagesAssumption DEF Sorts
<1>2. NoteRows(q, notesIn) \in Seq(Found(q, notesIn))  BY <1>1, RowAtRank
<1>3. Found(q, notesIn) \subseteq NotePool  BY DEF Found
<1>4. NoteRows(q, notesIn) \in Seq(NotePool)  BY <1>2, <1>3
<1> QED  BY <1>1, <1>4

LEMMA PagesStart == PagesInit => PagesInv
<1> SUFFICES ASSUME PagesInit PROVE PagesInv  OBVIOUS
<1>1. corpus \in SUBSET NotePool /\ noteQuery \in NoteQueries /\ pageOffset = 0 /\ collected = <<>> /\ pageWalk = "paging"
       /\ ValidNoteQuery(noteQuery, 0)
  BY DEF PagesInit
<1>2. PICK rows : rows = NoteRows(noteQuery, corpus)  OBVIOUS
<1>3. rows \in Seq(NotePool) /\ Len(rows) \in Nat  BY <1>1, <1>2, QueryRows
<1>4. 1 \in Int /\ 0 \in Int /\ 0 < 1  OBVIOUS
<1>5. SubSeq(rows, 1, 0) = <<>>  BY <1>4, SubSeqEmpty
<1> QED  BY <1>1, <1>2, <1>3, <1>5 DEF PagesInv

LEMMA PagesStep == PagesInv /\ [PagesNext]_pagesVars => PagesInv'
<1> SUFFICES ASSUME PagesInv, [PagesNext]_pagesVars PROVE PagesInv'  OBVIOUS
<1>1. CASE UNCHANGED pagesVars
  BY <1>1 DEF pagesVars, PagesInv
<1>2. CASE NextPage
  <2>1. corpus' = corpus /\ noteQuery' = noteQuery  BY <1>2 DEF NextPage
  <2>2. corpus \in SUBSET NotePool /\ noteQuery \in NoteQueries  BY DEF PagesInv
  <2>3. PICK rows : rows = NoteRows(noteQuery, corpus)  OBVIOUS
  <2>4. rows \in Seq(NotePool) /\ Len(rows) \in Nat /\ noteQuery.limit \in Nat  BY <2>2, <2>3, QueryRows
  <2>5. PICK skip \in 0..Len(rows) : skip = pageOffset  BY <2>3 DEF PagesInv
  <2>6. PICK p : p = NotePage(noteQuery, corpus, pageOffset)  OBVIOUS
  <2>7. collected' = collected \o p.notes /\ pageOffset' = p.next /\ pageWalk' = IF p.more THEN "paging" ELSE "done"
    BY <1>2, <2>6 DEF NextPage
  <2>8. PICK e \in skip..Len(rows) :
          p.notes = SubSeq(rows, skip + 1, e) /\ p.next = e /\ (~p.more => e = Len(rows))
    BY <2>3, <2>4, <2>5, <2>6, NotePageIs
  <2>9. collected = SubSeq(rows, 1, skip)  BY <2>3, <2>5 DEF PagesInv
  <2>10. SubSeq(rows, 1, skip) \o SubSeq(rows, skip + 1, e) = SubSeq(rows, 1, e)
    BY <2>4, <2>5, <2>8, ConcatAdjacentSubSeq
  <2>11. collected' = SubSeq(rows, 1, e) /\ pageOffset' = e  BY <2>7, <2>8, <2>9, <2>10
  <2>12. pageWalk' \in {"paging", "done"} /\ (pageWalk' = "done" => e = Len(rows))  BY <2>7, <2>8
  <2>13. e \in 0..Len(rows)  BY <2>4, <2>5, <2>8
  <2> QED  BY <2>1, <2>2, <2>3, <2>11, <2>12, <2>13 DEF PagesInv
<1>3. CASE PageRefused
  <2>1. pageWalk' = "refused" /\ UNCHANGED <<corpus, noteQuery, pageOffset, collected>>
    BY <1>3 DEF PageRefused
  <2>2. pageOffset > MaxOffset
    <3>1. ~ValidNoteQuery(noteQuery, pageOffset) /\ pageWalk = "paging"  BY <1>3 DEF PageRefused
    <3>2. ValidNoteQuery(noteQuery, 0)  BY <3>1 DEF PagesInv
    <3>3. pageOffset \in Nat /\ MaxOffset \in Nat
      <4>1. PICK rows : rows = NoteRows(noteQuery, corpus)  OBVIOUS
      <4>2. Len(rows) \in Nat  BY <4>1, QueryRows DEF PagesInv
      <4> QED  BY <4>1, <4>2, PagesAssumption DEF PagesInv
    <3> QED  BY <3>1, <3>2, <3>3 DEF ValidNoteQuery
  <2> QED  BY <2>1, <2>2 DEF PagesInv
<1> QED  BY <1>1, <1>2, <1>3 DEF PagesNext

LEMMA PagesCover == PagesInv => PagesCoverQuery
<1> SUFFICES ASSUME PagesInv PROVE PagesCoverQuery  OBVIOUS
<1>1. PICK rows : rows = NoteRows(noteQuery, corpus)  OBVIOUS
<1>2. rows \in Seq(NotePool) /\ Len(rows) \in Nat  BY <1>1, QueryRows DEF PagesInv
<1>3. collected = SubSeq(rows, 1, pageOffset) /\ pageOffset \in 0..Len(rows)  BY <1>1 DEF PagesInv
<1>4. pageWalk = "done" => collected = rows
  <2>1. pageWalk = "done" => pageOffset = Len(rows)  BY <1>1 DEF PagesInv
  <2> QED  BY <1>2, <1>3, <2>1, SubSeqFull
<1>5. pageWalk = "refused" => Len(rows) > MaxOffset
  BY <1>2, <1>3, PagesAssumption DEF PagesInv
<1> QED  BY <1>1, <1>3, <1>4, <1>5 DEF PagesCoverQuery

-----------------------------------------------------------------------------
(* Reading notes: what an export writes *)

Formats == {"markdown", "json"}

Opening(format) == IF format = "json" THEN JsonHead ELSE 0

Closing(format) == IF format = "json" THEN 2 ELSE 0

\* The functions that Exported and FullSize define.
IsWritten(w, format, rows) ==
  w = [i \in 0..Len(rows) |->
        IF i = 0 THEN Grown(0, IF format = "json" THEN JsonHead ELSE 0, ExportMax)
        ELSE PushNote(format, w[i - 1], i - 1, rows[i].size)]

IsTotal(t, rows) == t = [i \in 0..Len(rows) |-> IF i = 0 THEN 0 ELSE t[i - 1] + rows[i].size]

LEMMA ExportedIs ==
  ASSUME NEW format, NEW rows
  PROVE  Exported(format, rows) = Grown((CHOOSE w : IsWritten(w, format, rows))[Len(rows)], Closing(format), ExportMax)
BY DEF Exported, IsWritten, Closing

LEMMA FullSizeIs ==
  ASSUME NEW format, NEW rows
  PROVE  FullSize(format, rows) =
           (CHOOSE t : IsTotal(t, rows))[Len(rows)] + (IF format = "json" THEN JsonHead + 2 ELSE 0)
           + (IF Len(rows) > 1 THEN (Len(rows) - 1) * SeparatorSize[format] ELSE 0)
BY DEF FullSize, IsTotal

LEMMA ExportNumbers ==
  /\ ExportMax \in Nat /\ JsonHead \in Nat
  /\ \A format \in Formats : SeparatorSize[format] \in Nat /\ Opening(format) \in Nat /\ Closing(format) \in 0..2
  /\ \A n \in NotePool : n.size \in Nat
BY PagesAssumption DEF Formats, Opening, Closing

LEMMA GrownType ==
  ASSUME NEW content \in Int, NEW n \in Nat, NEW max \in Int
  PROVE  Grown(content, n, max) \in Int
BY DEF Grown, TooLarge

LEMMA PushNoteIs ==
  ASSUME NEW format \in Formats, NEW content \in Int, NEW count \in Nat, NEW size \in Nat
  PROVE  /\ PushNote(format, content, count, size) =
              Grown(Grown(content, IF count = 0 THEN 0 ELSE SeparatorSize[format], ExportMax), size, ExportMax - Closing(format))
         /\ PushNote(format, content, count, size) \in Int
<1>1. PICK sep \in Nat : sep = IF count = 0 THEN 0 ELSE SeparatorSize[format]
  <2>1. (IF count = 0 THEN 0 ELSE SeparatorSize[format]) \in Nat  BY ExportNumbers
  <2> QED  BY <2>1
<1>2. PICK max \in Int : max = ExportMax - Closing(format)  BY ExportNumbers
<1>3. max = IF format = "json" THEN ExportMax - 2 ELSE ExportMax  BY <1>2, ExportNumbers DEF Closing
<1>4. PushNote(format, content, count, size) = Grown(Grown(content, sep, ExportMax), size, max)
  BY <1>1, <1>3 DEF PushNote
<1>5. Grown(content, sep, ExportMax) \in Int  BY ExportNumbers, GrownType
<1>6. Grown(Grown(content, sep, ExportMax), size, max) \in Int  BY <1>5, GrownType
<1> QED  BY <1>1, <1>2, <1>4, <1>6

LEMMA WrittenExists ==
  ASSUME NEW format \in Formats, NEW rows \in Seq(NotePool)
  PROVE  \E w \in [0..Len(rows) -> Int] : IsWritten(w, format, rows)
<1>1. PICK n \in Nat : n = Len(rows)  OBVIOUS
<1>2. \A i \in 1..n : rows[i].size \in Nat  BY <1>1, ExportNumbers
<1>3. PICK v0 \in Int : v0 = Grown(0, Opening(format), ExportMax)
  <2>1. 0 \in Int /\ Opening(format) \in Nat /\ ExportMax \in Int  BY ExportNumbers
  <2> QED  BY <2>1, GrownType
<1>4. PICK st : st = [p \in (1..n) \X Int |-> PushNote(format, p[2], p[1] - 1, rows[p[1]].size)]  OBVIOUS
<1>5. \A i \in 1..n : \A v \in Int : st[<<i, v>>] = PushNote(format, v, i - 1, rows[i].size)  BY <1>4
<1>6. ASSUME NEW i \in 1..n, NEW v \in Int
      PROVE  st[<<i, v>>] \in Int
  <2>1. i - 1 \in Nat /\ rows[i].size \in Nat  BY <1>2
  <2>2. PushNote(format, v, i - 1, rows[i].size) \in Int  BY <2>1, PushNoteIs
  <2> QED  BY <1>5, <2>2
<1>7. PICK g \in [0..n -> Int] : Steps(g, n, v0, st)
  <2>1. \A i \in 1..n : \A v \in Int : st[<<i, v>>] \in Int  BY <1>6
  <2> QED  BY <2>1, StepsExist
<1>8. \A i \in 0..n : g[i] = IF i = 0 THEN v0 ELSE st[<<i, g[i - 1]>>]  BY <1>7 DEF Steps
<1>9. \A i \in 0..n : i # 0 => st[<<i, g[i - 1]>>] = PushNote(format, g[i - 1], i - 1, rows[i].size)
  <2>1. SUFFICES ASSUME NEW i \in 0..n, i # 0 PROVE st[<<i, g[i - 1]>>] = PushNote(format, g[i - 1], i - 1, rows[i].size)
    OBVIOUS
  <2>2. i \in 1..n /\ g[i - 1] \in Int  BY <1>7, <2>1
  <2> QED  BY <1>5, <2>2
<1>10. \A i \in 0..n : g[i] = IF i = 0 THEN v0 ELSE PushNote(format, g[i - 1], i - 1, rows[i].size)  BY <1>8, <1>9
<1>11. g = [i \in 0..n |-> IF i = 0 THEN v0 ELSE PushNote(format, g[i - 1], i - 1, rows[i].size)]  BY <1>7, <1>10
<1>12. IsWritten(g, format, rows)  BY <1>1, <1>3, <1>11 DEF IsWritten, Opening
<1> QED  BY <1>1, <1>7, <1>12

LEMMA TotalExists ==
  ASSUME NEW rows \in Seq(NotePool)
  PROVE  \E t \in [0..Len(rows) -> Nat] : IsTotal(t, rows)
<1>1. PICK n \in Nat : n = Len(rows)  OBVIOUS
<1>2. \A i \in 1..n : rows[i].size \in Nat  BY <1>1, ExportNumbers
<1>3. PICK st : st = [p \in (1..n) \X Nat |-> p[2] + rows[p[1]].size]  OBVIOUS
<1>4. \A i \in 1..n : \A v \in Nat : st[<<i, v>>] = v + rows[i].size  BY <1>3
<1>5. \A i \in 1..n : \A v \in Nat : st[<<i, v>>] \in Nat
  <2>1. ASSUME NEW i \in 1..n, NEW v \in Nat
        PROVE  st[<<i, v>>] \in Nat
    <3>1. PICK size \in Nat : size = rows[i].size  BY <1>2
    <3>2. st[<<i, v>>] = v + size  BY <1>4, <3>1
    <3> QED  BY <3>2
  <2> QED  BY <2>1
<1>6. PICK g \in [0..n -> Nat] : Steps(g, n, 0, st)
  <2>1. 0 \in Nat  OBVIOUS
  <2> QED  BY <1>5, <2>1, StepsExist
<1>7. \A i \in 0..n : g[i] = IF i = 0 THEN 0 ELSE st[<<i, g[i - 1]>>]  BY <1>6 DEF Steps
<1>8. \A i \in 0..n : i # 0 => st[<<i, g[i - 1]>>] = g[i - 1] + rows[i].size
  <2>1. SUFFICES ASSUME NEW i \in 0..n, i # 0 PROVE st[<<i, g[i - 1]>>] = g[i - 1] + rows[i].size
    OBVIOUS
  <2>2. i \in 1..n /\ g[i - 1] \in Nat  BY <1>6, <2>1
  <2> QED  BY <1>4, <2>2
<1>9. \A i \in 0..n : g[i] = IF i = 0 THEN 0 ELSE g[i - 1] + rows[i].size  BY <1>7, <1>8
<1>10. g = [i \in 0..n |-> IF i = 0 THEN 0 ELSE g[i - 1] + rows[i].size]  BY <1>6, <1>9
<1>11. IsTotal(g, rows)  BY <1>1, <1>10 DEF IsTotal
<1> QED  BY <1>1, <1>6, <1>11

\* What the first i notes take, with what opens the export and separates them.
Taken(format, t, i) == Opening(format) + t[i] + (IF i > 1 THEN (i - 1) * SeparatorSize[format] ELSE 0)

\* The exporter holds what the notes so far take, or has refused an export that
\* does not fit.
Tells(content, taken, format) ==
  content = taken \/ (content = TooLarge /\ taken + Closing(format) > ExportMax)

\* One note more, over numbers.
LEMMA PushTells ==
  ASSUME NEW format \in Formats, NEW content \in Int, NEW count \in Nat, NEW size \in Nat, NEW taken \in Nat,
         NEW sep \in Nat, sep = (IF count = 0 THEN 0 ELSE SeparatorSize[format]), Tells(content, taken, format)
  PROVE  Tells(PushNote(format, content, count, size), taken + sep + size, format)
<1>1. PICK close \in 0..2 : close = Closing(format)  BY ExportNumbers
<1>2. PICK max \in Nat : max = ExportMax  BY ExportNumbers
<1>3. PICK mid : mid = Grown(content, sep, max)  OBVIOUS
<1>4. PushNote(format, content, count, size) = Grown(mid, size, max - close)  BY <1>1, <1>2, <1>3, PushNoteIs
<1>5. content = taken \/ (content = -1 /\ taken + close > max)  BY <1>1, <1>2 DEF Tells, TooLarge
<1>6. mid = taken + sep \/ (mid = -1 /\ taken + sep + close > max)
  <2>1. mid = IF content = -1 \/ content + sep > max THEN -1 ELSE content + sep  BY <1>3 DEF Grown, TooLarge
  <2> QED  BY <1>1, <1>2, <1>5, <2>1
<1>7. PICK out : out = Grown(mid, size, max - close)  OBVIOUS
<1>8. out = taken + sep + size \/ (out = -1 /\ taken + sep + size + close > max)
  <2>1. out = IF mid = -1 \/ mid + size > max - close THEN -1 ELSE mid + size  BY <1>7 DEF Grown, TooLarge
  <2> QED  BY <1>1, <1>2, <1>6, <2>1
<1> QED  BY <1>1, <1>2, <1>4, <1>7, <1>8 DEF Tells, TooLarge

LEMMA TakenGrows ==
  ASSUME NEW format \in Formats, NEW rows \in Seq(NotePool), NEW t \in [0..Len(rows) -> Nat], IsTotal(t, rows),
         NEW i \in 1..Len(rows)
  PROVE  /\ Taken(format, t, i - 1) \in Nat
         /\ Taken(format, t, i) =
              Taken(format, t, i - 1) + (IF i - 1 = 0 THEN 0 ELSE SeparatorSize[format]) + rows[i].size
<1>1. PICK n \in Nat : n = Len(rows)  OBVIOUS
<1>2. PICK size \in Nat : size = rows[i].size  BY ExportNumbers
<1>3. PICK sep \in Nat : sep = SeparatorSize[format]  BY ExportNumbers
<1>4. PICK open \in Nat : open = Opening(format)  BY ExportNumbers
<1>5. PICK a \in Nat : a = t[i - 1]  BY <1>1
<1>6. t[i] = a + size  BY <1>1, <1>2, <1>5 DEF IsTotal
<1>7. CASE i = 1
  <2>1. Taken(format, t, i - 1) = open + a  BY <1>4, <1>5, <1>7 DEF Taken
  <2>2. Taken(format, t, i) = open + (a + size)  BY <1>4, <1>6, <1>7 DEF Taken
  <2> QED  BY <1>2, <1>7, <2>1, <2>2
<1>8. CASE i # 1
  <2>1. PICK k \in Nat : k = i - 2  BY <1>1, <1>8
  <2>2. PICK p \in Nat : p = k * sep  OBVIOUS
  <2>3. (i - 1) * sep = p + sep  BY <2>1, <2>2
  <2>4. Taken(format, t, i) = open + (a + size) + (p + sep)  BY <1>1, <1>3, <1>4, <1>6, <1>8, <2>3 DEF Taken
  <2>5. Taken(format, t, i - 1) = open + a + p
    <3>1. CASE k = 0
      <4>1. p = 0 /\ i - 1 = 1  BY <2>1, <2>2, <3>1
      <4> QED  BY <1>4, <1>5, <4>1 DEF Taken
    <3>2. CASE k # 0
      <4>1. i - 1 > 1 /\ (i - 1 - 1) * sep = p  BY <2>1, <2>2, <3>2
      <4> QED  BY <1>3, <1>4, <1>5, <4>1 DEF Taken
    <3> QED  BY <3>1, <3>2
  <2>6. open + (a + size) + (p + sep) = (open + a + p) + sep + size /\ open + a + p \in Nat  OBVIOUS
  <2>7. (IF i - 1 = 0 THEN 0 ELSE SeparatorSize[format]) = sep  BY <1>1, <1>3, <1>8
  <2> QED  BY <1>2, <2>4, <2>5, <2>6, <2>7
<1> QED  BY <1>7, <1>8

\* An export is refused exactly when it does not fit, and is otherwise whole.
LEMMA ExportsAreExact ==
  ASSUME NEW format \in Formats, NEW rows \in Seq(NotePool)
  PROVE  Exported(format, rows) = IF FullSize(format, rows) > ExportMax THEN TooLarge ELSE FullSize(format, rows)
<1>1. PICK n \in Nat : n = Len(rows)  OBVIOUS
<1>2. PICK w : w = CHOOSE x : IsWritten(x, format, rows)  OBVIOUS
<1>3. IsWritten(w, format, rows)  BY <1>2, WrittenExists
<1>4. PICK t : t = CHOOSE x : IsTotal(x, rows)  OBVIOUS
<1>5. IsTotal(t, rows)  BY <1>4, TotalExists
<1>6. \A i \in 0..n : w[i] = IF i = 0 THEN Grown(0, Opening(format), ExportMax)
                             ELSE PushNote(format, w[i - 1], i - 1, rows[i].size)
  BY <1>1, <1>3 DEF IsWritten, Opening
<1>7. t \in [0..n -> Nat]
  <2> DEFINE A == {i \in 0..n : t[i] \in Nat}
  <2>1. \A i \in 0..n : t[i] = IF i = 0 THEN 0 ELSE t[i - 1] + rows[i].size  BY <1>1, <1>5 DEF IsTotal
  <2>2. 0 \in A  BY <2>1
  <2>3. \A i \in 1..n : rows[i].size \in Nat  BY <1>1, ExportNumbers
  <2>4. \A i \in 1..n : i - 1 \in A => i \in A  BY <2>1, <2>3, SMTT(40)
  <2> HIDE DEF A
  <2>5. \A i \in 0..n : i \in A  BY <2>2, <2>4, CountingUp
  <2>6. \A i \in 0..n : t[i] \in Nat  BY <2>5 DEF A
  <2>7. t = [i \in 0..n |-> t[i]]  BY <1>1, <1>5 DEF IsTotal
  <2> QED  BY <2>6, <2>7
<1> DEFINE B == {i \in 0..n : w[i] \in Int /\ Tells(w[i], Taken(format, t, i), format)}
<1>8. 0 \in B
  <2>1. PICK open \in Nat : open = Opening(format)  BY ExportNumbers
  <2>2. t[0] = 0  BY <1>1, <1>5 DEF IsTotal
  <2>3. Taken(format, t, 0) = open  BY <2>1, <2>2 DEF Taken
  <2>4. w[0] = Grown(0, open, ExportMax)  BY <1>6, <2>1
  <2>5. w[0] = IF open > ExportMax THEN -1 ELSE open  BY <2>1, <2>4 DEF Grown, TooLarge
  <2>6. Closing(format) \in 0..2 /\ ExportMax \in Nat  BY ExportNumbers
  <2>7. w[0] \in Int /\ Tells(w[0], open, format)  BY <2>1, <2>5, <2>6 DEF Tells, TooLarge
  <2> QED  BY <2>3, <2>7
<1>9. ASSUME NEW i \in 1..n, i - 1 \in B
      PROVE  i \in B
  <2>1. PICK size \in Nat : size = rows[i].size  BY <1>1, ExportNumbers
  <2>2. PICK count \in Nat : count = i - 1  OBVIOUS
  <2>3. PICK sep \in Nat : sep = IF count = 0 THEN 0 ELSE SeparatorSize[format]
    <3>1. (IF count = 0 THEN 0 ELSE SeparatorSize[format]) \in Nat  BY ExportNumbers
    <3> QED  BY <3>1
  <2>4. PICK content \in Int : content = w[count]  BY <1>9, <2>2
  <2>5. PICK taken \in Nat : taken = Taken(format, t, count)  BY <1>1, <1>5, <1>7, <2>2, TakenGrows
  <2>6. Taken(format, t, i) = taken + sep + size  BY <1>1, <1>5, <1>7, <2>1, <2>2, <2>3, <2>5, TakenGrows
  <2>7. Tells(content, taken, format)  BY <1>9, <2>2, <2>4, <2>5
  <2>8. w[i] = PushNote(format, content, count, size)  BY <1>6, <2>1, <2>2, <2>4
  <2>9. w[i] \in Int  BY <2>8, PushNoteIs
  <2>10. Tells(w[i], taken + sep + size, format)  BY <2>3, <2>7, <2>8, PushTells
  <2> QED  BY <2>6, <2>9, <2>10
<1> HIDE DEF B
<1>10. n \in B
  <2>1. \A i \in 0..n : i \in B  BY <1>8, <1>9, CountingUp
  <2> QED  BY <2>1
<1>11. PICK content \in Int : content = w[n]  BY <1>10 DEF B
<1>12. PICK close \in 0..2 : close = Closing(format)  BY ExportNumbers
<1>13. PICK full \in Nat : full = Taken(format, t, n)
  <2>1. CASE n = 0
    <3>1. PICK open \in Nat : open = Opening(format)  BY ExportNumbers
    <3>2. PICK a \in Nat : a = t[0]  BY <1>7
    <3>3. Taken(format, t, 0) = open + a  BY <3>1, <3>2 DEF Taken
    <3> QED  BY <2>1, <3>3
  <2>2. CASE n # 0
    <3>1. n \in 1..n  BY <2>2
    <3>2. PICK a \in Nat : a = Taken(format, t, n - 1)  BY <1>1, <1>5, <1>7, <3>1, TakenGrows
    <3>3. Taken(format, t, n) = a + (IF n - 1 = 0 THEN 0 ELSE SeparatorSize[format]) + rows[n].size
      BY <1>1, <1>5, <1>7, <3>1, <3>2, TakenGrows
    <3>4. SeparatorSize[format] \in Nat /\ rows[n].size \in Nat  BY <1>1, <3>1, ExportNumbers
    <3> QED  BY <3>3, <3>4
  <2> QED  BY <2>1, <2>2
<1>14. FullSize(format, rows) = full + close
  <2>1. PICK a \in Nat : a = t[n]  BY <1>7
  <2>2. PICK b : b = IF n > 1 THEN (n - 1) * SeparatorSize[format] ELSE 0  OBVIOUS
  <2>3. b \in Nat
    <3>1. SeparatorSize[format] \in Nat  BY ExportNumbers
    <3>2. n > 1 => n - 1 \in Nat  OBVIOUS
    <3> QED  BY <2>2, <3>1, <3>2
  <2>4. full = Opening(format) + a + b  BY <1>13, <2>1, <2>2 DEF Taken
  <2>5. FullSize(format, rows) = a + (IF format = "json" THEN JsonHead + 2 ELSE 0) + b
    BY <1>1, <1>4, <2>1, <2>2, FullSizeIs
  <2>6. (IF format = "json" THEN JsonHead + 2 ELSE 0) = Opening(format) + close
    BY <1>12, ExportNumbers DEF Opening, Closing
  <2>7. PICK open \in Nat : open = Opening(format)  BY ExportNumbers
  <2> QED  BY <1>12, <2>3, <2>4, <2>5, <2>6, <2>7, SMTT(40)
<1>15. Tells(content, full, format)  BY <1>10, <1>11, <1>13 DEF B
<1>16. content = full \/ (content = -1 /\ full + close > ExportMax)  BY <1>12, <1>15 DEF Tells, TooLarge
<1>17. Exported(format, rows) = Grown(content, close, ExportMax)  BY <1>1, <1>2, <1>11, <1>12, ExportedIs
<1>18. Grown(content, close, ExportMax) = IF content = -1 \/ content + close > ExportMax THEN -1 ELSE content + close
  BY DEF Grown, TooLarge
<1>19. ExportMax \in Nat  BY ExportNumbers
<1>20. Grown(content, close, ExportMax) = IF full + close > ExportMax THEN -1 ELSE full + close
  BY <1>11, <1>12, <1>13, <1>16, <1>18, <1>19
<1> QED  BY <1>14, <1>17, <1>20 DEF TooLarge

\* An export reads rows of the notes.
LEMMA PagesExport == PagesInv => ExportIsExact
<1> SUFFICES ASSUME PagesInv PROVE ExportIsExact  OBVIOUS
<1>1. corpus \in SUBSET NotePool /\ noteQuery \in NoteQueries  BY DEF PagesInv
<1>2. PICK all : all = NoteRows(noteQuery, corpus)  OBVIOUS
<1>3. all \in Seq(NotePool) /\ Len(all) \in Nat /\ noteQuery.limit \in Nat  BY <1>1, <1>2, QueryRows
<1>4. PICK limit \in Nat : limit = noteQuery.limit  BY <1>3
<1>5. PICK rows : rows = ExportRows(noteQuery)  OBVIOUS
<1>6. rows = Window(all, 0, limit)  BY <1>2, <1>4, <1>5 DEF ExportRows
<1>7. PICK e \in Nat : e = IF 0 + limit < Len(all) THEN 0 + limit ELSE Len(all)
  <2>1. (IF 0 + limit < Len(all) THEN 0 + limit ELSE Len(all)) \in Nat  BY <1>3
  <2> QED  BY <2>1
<1>8. 0 \in 0..Len(all)  BY <1>3
<1>9. IsWindow(rows, all, 0, e, NotePool)  BY <1>3, <1>6, <1>7, <1>8, WindowIs
<1>10. rows \in Seq(NotePool)  BY <1>9 DEF IsWindow
<1>11. \A f \in Formats : Exported(f, rows) = IF FullSize(f, rows) > ExportMax THEN TooLarge ELSE FullSize(f, rows)
  BY <1>10, ExportsAreExact
<1> QED  BY <1>5, <1>11 DEF ExportIsExact, Formats

\* What is read is what was asked for, for any notes, query, page size and
\* export limit: following next_offset gives the rows of the query, and an
\* export is whole or refused (visit_query, list, BoundedExporter).  The rows
\* are the notes that match, each once, in the query's order (RowsAreOrdered).
THEOREM ReadsStayWhole == PagesSpec => []ReadsAreWhole
<1>1. PagesInv => ReadsAreWhole  BY PagesCover, PagesExport DEF ReadsAreWhole
<1> QED  BY <1>1, PagesStart, PagesStep, PTL DEF PagesSpec
=============================================================================
