----------------------------- MODULE NotesPages -----------------------------
(***************************************************************************)
(* Reading notes: visit_query of crates/notes/src/repository.rs, list and  *)
(* export of service.rs and BoundedExporter of export.rs.  A client walks  *)
(* the pages of one query by next_offset.                                  *)
(***************************************************************************)
EXTENDS Integers, Sequences, FiniteSets

CONSTANTS
  NotePool,      \* notes that may be stored: [id, pinned, updated, created, title, date, status, deleted, tags, size]
  NoteQueries,   \* [deleted, status, from, to, tags, sort, limit]; "any" and 0 stand for no filter
  MaxPage,       \* MAX_NOTE_QUERY_LIMIT
  MaxOffset,     \* MAX_NOTE_QUERY_OFFSET
  ExportMax,     \* MAX_NOTE_EXPORT_BYTES
  JsonHead,      \* size of the opening of a JSON export; "]}" closes it with 2
  SeparatorSize  \* size of the separator of each format

ASSUME PagesAssumption ==
  /\ IsFiniteSet(NotePool)
  /\ \A n \in NotePool :
       /\ n.pinned \in BOOLEAN /\ {n.id, n.updated, n.created, n.title, n.date, n.size} \subseteq Nat
       /\ \A m \in NotePool : m.id = n.id => m = n
  /\ \A q \in NoteQueries : q.limit \in Nat /\ q.sort \in {"updated", "created", "title", "diary"}
  /\ {MaxPage, MaxOffset, ExportMax, JsonHead, SeparatorSize["markdown"], SeparatorSize["json"]} \subseteq Nat

VARIABLES
  corpus,        \* the stored notes
  noteQuery,     \* the query being paged
  pageOffset,    \* offset of the next page
  collected,     \* notes received so far
  pageWalk       \* paging, done, or refused

pagesVars == <<corpus, noteQuery, pageOffset, collected, pageWalk>>

\* validate of both query types: what a client may ask for.
ValidNoteQuery(q, skip) ==
  q.limit \in 1..MaxPage /\ skip <= MaxOffset /\ (q.from # 0 /\ q.to # 0 => q.from <= q.to)

\* The WHERE clause.
Matches(q, n) ==
  /\ q.deleted = "exclude" => ~n.deleted
  /\ q.deleted = "only" => n.deleted
  /\ q.status # "any" => n.status = q.status
  /\ q.from # 0 => n.date # 0 /\ n.date >= q.from
  /\ q.to # 0 => n.date # 0 /\ n.date <= q.to
  /\ q.tags \subseteq n.tags

\* The ORDER BY clause as a key that is compared from the left.
SortKey(sort, n) ==
  LET pin == IF n.pinned THEN 0 ELSE 1
  IN CASE sort = "updated" -> <<pin, 10 - n.updated, 0, n.id>>
       [] sort = "created" -> <<pin, 10 - n.created, 0, n.id>>
       [] sort = "title"   -> <<pin, n.title, 0, n.id>>
       [] sort = "diary"   -> <<pin, IF n.date = 0 THEN 99 ELSE 10 - n.date, 10 - n.updated, n.id>>

KeyBefore(a, b) == \E i \in 1..4 : a[i] < b[i] /\ \A j \in 1..i-1 : a[j] = b[j]

\* The notes among these that the query puts before n.
RowsBefore(q, notesIn, n) == {m \in notesIn : KeyBefore(SortKey(q.sort, m), SortKey(q.sort, n))}

\* The rows in order: the row at i is the note that i - 1 others precede.
NoteRows(q, notesIn) ==
  LET found == {n \in notesIn : Matches(q, n)}
  IN [i \in 1..Cardinality(found) |-> CHOOSE n \in found : Cardinality(RowsBefore(q, found, n)) = i - 1]

Window(s, skip, n) == SubSeq(s, skip + 1, IF skip + n < Len(s) THEN skip + n ELSE Len(s))

\* Faulty variant of NotePage: no row more than the page holds is asked for.
NotePageFull(q, notesIn, skip) ==
  LET rows == Window(NoteRows(q, notesIn), skip, q.limit)
  IN [notes |-> rows, more |-> Len(rows) > q.limit, next |-> skip + Len(rows)]

\* list asks for one row more than the page holds.
NotePage(q, notesIn, skip) ==
  LET rows == Window(NoteRows(q, notesIn), skip, q.limit + 1)
      shownRows == Window(rows, 0, q.limit)
  IN [notes |-> shownRows, more |-> Len(rows) > q.limit, next |-> skip + Len(shownRows)]

-----------------------------------------------------------------------------
(* The exporter: what it has written after each push, or "too large" *)

TooLarge == -1

\* Faulty variant of Grown: the last byte of the budget is not used.
GrownBelow(content, n, max) == IF content = TooLarge \/ content + n >= max THEN TooLarge ELSE content + n

\* append and BoundedStringWriter.
Grown(content, n, max) == IF content = TooLarge \/ content + n > max THEN TooLarge ELSE content + n

\* push: a separator but for the first note, then the note; JSON leaves room for "]}".
PushNote(format, content, count, size) ==
  Grown(Grown(content, IF count = 0 THEN 0 ELSE SeparatorSize[format], ExportMax), size,
        IF format = "json" THEN ExportMax - 2 ELSE ExportMax)

\* new and finish.
Exported(format, rows) ==
  LET written[i \in 0..Len(rows)] ==
        IF i = 0 THEN Grown(0, IF format = "json" THEN JsonHead ELSE 0, ExportMax)
        ELSE PushNote(format, written[i - 1], i - 1, rows[i].size)
  IN Grown(written[Len(rows)], IF format = "json" THEN 2 ELSE 0, ExportMax)

ExportRows(q) == Window(NoteRows(q, corpus), 0, q.limit)

\* What an export of these rows takes.
FullSize(format, rows) ==
  LET total[i \in 0..Len(rows)] == IF i = 0 THEN 0 ELSE total[i - 1] + rows[i].size
  IN total[Len(rows)] + (IF format = "json" THEN JsonHead + 2 ELSE 0)
     + (IF Len(rows) > 1 THEN (Len(rows) - 1) * SeparatorSize[format] ELSE 0)

-----------------------------------------------------------------------------
PagesInit ==
  /\ corpus \in SUBSET NotePool /\ noteQuery \in {q \in NoteQueries : ValidNoteQuery(q, 0)}
  /\ pageOffset = 0 /\ collected = <<>> /\ pageWalk = "paging"

NextPage ==
  /\ pageWalk = "paging" /\ ValidNoteQuery(noteQuery, pageOffset)
  /\ LET p == NotePage(noteQuery, corpus, pageOffset)
     IN /\ collected' = collected \o p.notes
        /\ pageOffset' = p.next /\ pageWalk' = IF p.more THEN "paging" ELSE "done"
  /\ UNCHANGED <<corpus, noteQuery>>

\* The next page begins further on than a query may.
PageRefused ==
  /\ pageWalk = "paging" /\ ~ValidNoteQuery(noteQuery, pageOffset)
  /\ pageWalk' = "refused"
  /\ UNCHANGED <<corpus, noteQuery, pageOffset, collected>>

PagesNext == NextPage \/ PageRefused

PagesSpec == PagesInit /\ [][PagesNext]_pagesVars

-----------------------------------------------------------------------------
\* Following next_offset to the last page gives every note of the query once,
\* in the order of the query, unless they are more than a query may skip; then
\* it gives the first ones.
PagesCoverQuery ==
  LET rows == NoteRows(noteQuery, corpus)
  IN /\ pageWalk = "done" => collected = rows
     /\ pageWalk = "refused" => collected = SubSeq(rows, 1, pageOffset) /\ Len(rows) > MaxOffset

\* An export is refused exactly when it does not fit, and is otherwise whole.
ExportIsExact ==
  \A f \in {"markdown", "json"} :
    LET rows == ExportRows(noteQuery)
    IN Exported(f, rows) = IF FullSize(f, rows) > ExportMax THEN TooLarge ELSE FullSize(f, rows)

\* What is read is what was asked for: pages cover their query and an export is
\* whole or refused (visit_query, BoundedExporter).
ReadsAreWhole == PagesCoverQuery /\ ExportIsExact
=============================================================================
