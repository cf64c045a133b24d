---------------------------- MODULE RemoteUpload ----------------------------
(***************************************************************************)
(* One upload per task as TransferExecutor.upload and upload_started       *)
(* (crates/transfers/src/executor.rs) drive it through an adapter, and the *)
(* server's files.  The adapters extend this module with what a session    *)
(* does.                                                                   *)
(*                                                                         *)
(* Bytes move in chunks of one.  A byte carries the task it comes from and *)
(* its place, so a file shows any mixture; the `.part` path of a task is   *)
(* the task itself.  A request that was sent and not answered is in        *)
(* "late": the server may apply it at any later time, or never.  One of     *)
(* them takes back what was acknowledged: begin_write's truncate, applied  *)
(* when a later run has already written.  "cut" remembers whose bytes.     *)
(***************************************************************************)
EXTENDS Naturals, Sequences, FiniteSets

CONSTANTS
  Writers,    \* tasks that upload to the same destination
  SizeOf,     \* Writer -> size of its source
  Expecting,  \* tasks with an expected_destination (the old file)
  MaxRuns,    \* bound: runs of a task
  Delayed,    \* environment: kinds of requests that may be applied late
  Outsiders   \* environment: another client may write the destination

\* The executor's chunk is at least one byte; a source has a known size.
ASSUME UploadAssumption ==
  /\ SizeOf \in [Writers -> Nat]
  /\ Expecting \subseteq Writers
  /\ MaxRuns \in Nat
  /\ Delayed \subseteq {"truncate", "write", "rename", "remove"}
  /\ Outsiders \in BOOLEAN
  /\ "final" \notin Writers

VARIABLES
  protocol,   \* of the tasks' profile: whose adapter serves them
  server,     \* path -> content, for the paths that exist
  late,       \* requests of interrupted operations the server may still apply
  placed,     \* history: tasks whose rename the server has applied
  cut,        \* history: tasks that lost acknowledged bytes to a late truncate
  confirmed,  \* tasks whose commit_write returned Ok
  up          \* Writer -> the run: stage, next offset, recorded progress, session

uploadVars == <<protocol, server, late, placed, cut, confirmed, up>>

Byte(w, i) == [by |-> w, at |-> i]
Hole == [by |-> "nobody", at |-> 0]
Body(w) == [i \in 1..SizeOf[w] |-> Byte(w, i)]

\* What writes of w at any of its offsets, and truncates between them, may leave.
Torn(w) ==
  UNION {{[i \in 1..n |-> IF i \in holes THEN Hole ELSE Byte(w, i)] : holes \in SUBSET (1..n)} :
           n \in 0..SizeOf[w]}
OldFile == <<[by |-> "old", at |-> 1]>>
OutsidersFile == <<[by |-> "other", at |-> 1]>>

Stages == {"idle", "connected", "writing", "stored", "checked", "failed"}

Requests == [kind : {"truncate", "write", "rename", "remove"}, by : Writers, at : Nat]
Request(kind, w, offset) == [kind |-> kind, by |-> w, at |-> offset]

Exists(path) == path \in DOMAIN server
Put(path, content) ==
  [p \in DOMAIN server \cup {path} |-> IF p = path THEN content ELSE server[p]]
Without(path) == [p \in DOMAIN server \ {path} |-> server[p]]

\* A write past the end leaves a hole.
WriteAt(content, offset, b) ==
  LET size == IF offset + 1 > Len(content) THEN offset + 1 ELSE Len(content)
  IN  [i \in 1..size |-> IF i = offset + 1 THEN b
                         ELSE IF i <= Len(content) THEN content[i] ELSE Hole]

\* What the server does with a request; a missing `.part` refuses the last three.
Apply(r) ==
  LET w == r.by
  IN  /\ server' = CASE r.kind = "truncate" -> Put(w, <<>>)
                     [] r.kind = "write" /\ Exists(w) ->
                          Put(w, WriteAt(server[w], r.at, Byte(w, r.at + 1)))
                     [] r.kind = "rename" /\ Exists(w) ->
                          [p \in (DOMAIN server \cup {"final"}) \ {w} |->
                             IF p = "final" THEN server[w] ELSE server[p]]
                     [] r.kind = "remove" /\ Exists(w) -> Without(w)
                     [] OTHER -> server
      /\ placed' = IF r.kind = "rename" /\ Exists(w) THEN placed \cup {w} ELSE placed

UploadInit ==
  /\ protocol \in {"sftp", "ftp", "smb"}
  /\ server \in {[p \in {} |-> <<>>], [p \in {"final"} |-> OldFile]}
  /\ late = {}
  /\ placed = {}
  /\ cut = {}
  /\ confirmed = {}
  /\ up = [w \in Writers |-> [stage |-> "idle", next |-> 0, progress |-> 0, live |-> FALSE, runs |-> 0]]

At(w, stage) == up[w].stage = stage
Goes(w, stage) == up' = [up EXCEPT ![w].stage = stage]
\* The session is gone with the operation: its process was killed, or the
\* transport failed.
Drops(w, stage) == up' = [up EXCEPT ![w].stage = stage, ![w].live = FALSE]

\* The operation failed with r unanswered.
Unanswered(r) ==
  /\ late' = IF r.kind \in Delayed THEN late \cup {r} ELSE late
  /\ UNCHANGED <<server, placed, confirmed>>

Unserved == UNCHANGED <<server, late, placed, confirmed>>

\* execute_started opens a session for every run of a task.
OpenSession(w) ==
  /\ At(w, "idle") /\ w \notin confirmed /\ up[w].runs < MaxRuns
  /\ up' = [up EXCEPT ![w].stage = "connected", ![w].live = TRUE, ![w].runs = @ + 1]
  /\ Unserved

\* begin_write has answered with the offset of the request.
Begun(w) == up' = [up EXCEPT ![w].stage = "writing", ![w].next = up[w].progress]

\* Faulty variant of Recorded: progress is recorded before the chunk is acknowledged.
RecordedAhead(w) == up' = [up EXCEPT ![w].next = @ + 1, ![w].progress = up[w].next + 2]

\* write_chunk is acknowledged; throttle_and_record records the offset, or
\* fails (store, stale token, cancelled) and the run ends.
Recorded(w) ==
  \/ up' = [up EXCEPT ![w].next = @ + 1, ![w].progress = up[w].next + 1]
  \/ up' = [up EXCEPT ![w].next = @ + 1, ![w].stage = "failed"]

\* control.check between two operations, or any other error of the run: upload
\* aborts the write before it returns.
GiveUp(w) ==
  /\ up[w].stage \in {"writing", "stored", "checked"}
  /\ Goes(w, "failed")
  /\ Unserved

\* The caller's source is read: bytes next of Body(w) until the size is reached.
MoreToWrite(w) == At(w, "writing") /\ up[w].next < SizeOf[w]
AllWritten(w) == At(w, "writing") /\ up[w].next = SizeOf[w]

\* expected_destination is compared with what is there; none matches anything.
DestinationMatches(w) ==
  w \in Expecting => Exists("final") /\ server["final"] = OldFile

\* commit_write returned the entry.
Confirm(w) ==
  /\ confirmed' = confirmed \cup {w}
  /\ Goes(w, "idle")

\* A request of an interrupted operation reaches the file system after all.
Land ==
  \E r \in late :
    /\ Apply(r)
    /\ late' = late \ {r}
    /\ cut' = IF r.kind = "truncate" /\ up[r.by].progress > 0 THEN cut \cup {r.by} ELSE cut
    /\ UNCHANGED <<confirmed, up>>

\* Another client of the server replaces the destination.
Intruder ==
  /\ Outsiders
  /\ ~(Exists("final") /\ server["final"] = OutsidersFile)
  /\ server' = Put("final", OutsidersFile)
  /\ UNCHANGED <<late, placed, confirmed, up>>

ClientStep ==
  \/ Land
  \/ /\ Intruder \/ \E w \in Writers : OpenSession(w) \/ GiveUp(w)
     /\ UNCHANGED cut

-----------------------------------------------------------------------------
(* Properties *)

\* The files, requests and runs have their types.
UploadTypeOK ==
  /\ protocol \in {"sftp", "ftp", "smb"}
  /\ DOMAIN server \subseteq Writers \cup {"final"}
  /\ late \subseteq Requests
  /\ placed \subseteq Writers /\ cut \subseteq Writers /\ confirmed \subseteq Writers
  /\ \A w \in Writers :
       /\ up[w].stage \in Stages /\ up[w].live \in BOOLEAN /\ up[w].runs \in 0..MaxRuns
       /\ up[w].next \in 0..SizeOf[w] /\ up[w].progress \in 0..SizeOf[w]

\* A `.part` file is a prefix of its task's source, through interrupted and
\* late requests, aborts, record failures and resumed runs: what a resumed
\* begin_write accepts by its size alone is what the earlier runs wrote.  Only
\* a truncate applied after a later run had bytes recorded breaks this, and
\* what it leaves is short or has holes, never another place's or task's byte;
\* FTP, which sends no truncate of its own, is not exposed to it.
PartIsPrefix ==
  /\ protocol = "ftp" => cut = {}
  /\ \A w \in DOMAIN server \cap Writers :
       IF w \in cut THEN server[w] \in Torn(w)
       ELSE Len(server[w]) <= SizeOf[w] /\ server[w] = SubSeq(Body(w), 1, Len(server[w]))

\* The upload implements what a session promises of the destination.
Replace == INSTANCE RemoteReplace WITH
  Uploaders <- Writers, Whole <- [w \in Writers |-> Body(w)], Others <- {OldFile, OutsidersFile},
  Damaged <- [w \in Writers |-> Torn(w)], damaged <- cut,
  file <- IF Exists("final") THEN {server["final"]} ELSE {},
  published <- placed, told <- confirmed

\* Whatever is interrupted, delayed or retried, the destination goes from one
\* whole file to another, and commit_write reports success only after its own
\* content was put there.  The commit looks at the size of the `.part` again,
\* but a file with a hole may have the right one, and the rename comes later:
\* an upload that a late truncate has cut may publish what is left of it.
ImplementsReplace == Replace!ReplaceSpec
=============================================================================
