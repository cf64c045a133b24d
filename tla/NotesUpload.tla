----------------------------- MODULE NotesUpload -----------------------------
(***************************************************************************)
(* Bodies that are uploaded in chunks: begin_upload, append_upload,        *)
(* commit_upload, abort_upload, cleanup_expired and shutdown of            *)
(* crates/notes/src/service.rs, and the two accepting_uploads flags.       *)
(*                                                                         *)
(* Requests travel over connections of their own, so they reach the worker *)
(* in any order; a client that heard no answer may send one again.  A body *)
(* is a sequence of bytes and equal hashes mean equal bodies.              *)
(***************************************************************************)
EXTENDS Naturals, Sequences, FiniteSets, Functions

CONSTANTS
  Uploads,        \* upload ids
  BodyOf,         \* the body each client uploads
  MaxSessions,    \* MAX_NOTE_UPLOAD_SESSIONS
  MaxStaged,      \* MAX_NOTE_STAGED_BYTES
  MaxUploadChunk, \* NOTE_CONTENT_CHUNK_BYTES
  IdleTtl,        \* NOTE_UPLOAD_IDLE_TTL
  MaxRetries      \* bound on repeated requests

ASSUME UploadAssumption ==
  /\ MaxSessions \in Nat /\ MaxStaged \in Nat /\ MaxUploadChunk \in Nat \ {0} /\ IdleTtl \in Nat \ {0}
  /\ BodyOf \in [Uploads -> Seq(0..255)]

VARIABLES
  staged,         \* uploads: id -> [expected, bytes, next, idle]
  reserved,       \* reserved_staged_bytes
  accepting,      \* NotesService.accepting_uploads
  handleAccepts,  \* NotesHandle.accepting_uploads
  drain,          \* begin_shutdown: no, queued, done
  travel,         \* requests on their way to the worker
  begun,          \* clients that asked for an upload (an id is handed out once)
  sentTo,         \* bytes of its body a client has sent
  retries,        \* requests that were repeated
  committed       \* bodies handed to commit_draft, per upload

uploadVars == <<staged, reserved, accepting, handleAccepts, drain, travel, begun, sentTo, retries, committed>>
serviceVars == <<staged, reserved, committed>>

Omit(f, S) == [x \in DOMAIN f \ S |-> f[x]]
Expected == [u \in DOMAIN staged |-> staged[u].expected]
ExpectedSum(ids) == SumFunctionOnSet(Expected, ids)

\* remove_upload; saturating_sub.
Release(u) ==
  IF u \notin DOMAIN staged THEN UNCHANGED <<staged, reserved>>
  ELSE /\ staged' = Omit(staged, {u})
       /\ reserved' = IF reserved > staged[u].expected THEN reserved - staged[u].expected ELSE 0

-----------------------------------------------------------------------------
(* The clients *)

AllSent(u) == sentTo[u] = Len(BodyOf[u])

\* NotesHandle::execute of an UploadBegin looks at its own flag first.
SendBegin(u) ==
  /\ handleAccepts /\ sentTo[u] = 0 /\ ~begun[u] /\ begun' = [begun EXCEPT ![u] = TRUE]
  /\ travel' = travel \cup {[op |-> "begin", upload |-> u]}
  /\ UNCHANGED <<staged, reserved, accepting, handleAccepts, drain, sentTo, retries, committed>>

SendAppend(u) ==
  /\ u \in DOMAIN staged /\ ~AllSent(u)
  /\ \E n \in 1..MaxUploadChunk :
       /\ sentTo[u] + n <= Len(BodyOf[u])
       /\ travel' = travel \cup {[op |-> "append", upload |-> u, sequence |-> staged[u].next, offset |-> sentTo[u],
                                  data |-> SubSeq(BodyOf[u], sentTo[u] + 1, sentTo[u] + n)]}
       /\ sentTo' = [sentTo EXCEPT ![u] = @ + n]
  /\ UNCHANGED <<staged, reserved, accepting, handleAccepts, drain, begun, retries, committed>>

SendCommit(u) ==
  /\ AllSent(u) /\ u \in DOMAIN staged
  /\ travel' = travel \cup {[op |-> "commit", upload |-> u]}
  /\ UNCHANGED <<staged, reserved, accepting, handleAccepts, drain, begun, sentTo, retries, committed>>

SendAbort(u) ==
  /\ u \in DOMAIN staged
  /\ travel' = travel \cup {[op |-> "abort", upload |-> u]}
  /\ UNCHANGED <<staged, reserved, accepting, handleAccepts, drain, begun, sentTo, retries, committed>>

-----------------------------------------------------------------------------
(* The worker *)

BeginUpload(u) ==
  IF ~accepting \/ Cardinality(DOMAIN staged) >= MaxSessions \/ reserved + Len(BodyOf[u]) > MaxStaged
  THEN UNCHANGED serviceVars
  ELSE /\ staged' = [x \in DOMAIN staged \cup {u} |->
                       IF x = u THEN [expected |-> Len(BodyOf[u]), bytes |-> <<>>, next |-> 0, idle |-> 0]
                       ELSE staged[x]]
       /\ reserved' = reserved + Len(BodyOf[u]) /\ UNCHANGED committed

\* Faulty variant of AppendUpload: a chunk is taken where the last one ended.
AppendUploadAnywhere(m) ==
  /\ UNCHANGED committed
  /\ IF m.upload \notin DOMAIN staged THEN UNCHANGED <<staged, reserved>>
     ELSE LET up == staged[m.upload]
          IN IF Len(up.bytes) + Len(m.data) > up.expected THEN Release(m.upload)
             ELSE /\ staged' = [staged EXCEPT ![m.upload] =
                                  [up EXCEPT !.bytes = @ \o m.data, !.next = @ + 1, !.idle = 0]]
                  /\ UNCHANGED reserved

\* A chunk out of sequence, at another offset or too long ends the upload.
AppendUpload(m) ==
  /\ UNCHANGED committed
  /\ IF m.upload \notin DOMAIN staged THEN UNCHANGED <<staged, reserved>>
     ELSE LET up == staged[m.upload]
          IN IF \/ Len(m.data) \notin 1..MaxUploadChunk
                \/ m.sequence # up.next \/ m.offset # Len(up.bytes)
                \/ Len(up.bytes) + Len(m.data) > up.expected
             THEN Release(m.upload)
             ELSE /\ staged' = [staged EXCEPT ![m.upload] =
                                  [up EXCEPT !.bytes = @ \o m.data, !.next = @ + 1, !.idle = 0]]
                  /\ UNCHANGED reserved

\* Faulty variant of CommitUpload: the upload is removed only when it was good.
CommitUploadKeeps(u) ==
  IF u \in DOMAIN staged /\ Len(staged[u].bytes) = staged[u].expected
  THEN committed' = [committed EXCEPT ![u] = Append(@, staged[u].bytes)] /\ UNCHANGED <<staged, reserved>>
  ELSE UNCHANGED committed /\ Release(u)

\* commit_upload takes the upload out first; length and hash must agree.
CommitUpload(u) ==
  /\ Release(u)
  /\ committed' = IF u \in DOMAIN staged /\ Len(staged[u].bytes) = staged[u].expected /\ staged[u].bytes = BodyOf[u]
                  THEN [committed EXCEPT ![u] = Append(@, staged[u].bytes)] ELSE committed

\* Faulty variant of AbortUpload: the reservation stays.
AbortUploadLeaks(u) == staged' = Omit(staged, {u}) /\ UNCHANGED <<reserved, committed>>

AbortUpload(u) == Release(u) /\ UNCHANGED committed

\* The worker runs a request that arrived, or one arrives twice.
HandleUpload(m) ==
  /\ m \in travel
  /\ \/ travel' = travel \ {m} /\ UNCHANGED retries
     \/ m.op # "begin" /\ retries < MaxRetries /\ retries' = retries + 1 /\ UNCHANGED travel
  /\ \/ m.op = "begin" /\ BeginUpload(m.upload)
     \/ m.op = "append" /\ AppendUpload(m)
     \/ m.op = "commit" /\ CommitUpload(m.upload)
     \/ m.op = "abort" /\ AbortUpload(m.upload)
  /\ UNCHANGED <<accepting, handleAccepts, drain, begun, sentTo>>

Expired == {u \in DOMAIN staged : staged[u].idle >= IdleTtl}

\* cleanup_expired, once a second and before every command.
CleanupExpired ==
  /\ Expired # {}
  /\ staged' = Omit(staged, Expired)
  /\ reserved' = LET freed == ExpectedSum(Expired) IN IF reserved > freed THEN reserved - freed ELSE 0
  /\ UNCHANGED <<accepting, handleAccepts, drain, travel, begun, sentTo, retries, committed>>

UploadAges ==
  /\ \E u \in DOMAIN staged : staged[u].idle < IdleTtl
  /\ staged' = [u \in DOMAIN staged |-> [staged[u] EXCEPT !.idle = IF @ < IdleTtl THEN @ + 1 ELSE @]]
  /\ UNCHANGED <<reserved, accepting, handleAccepts, drain, travel, begun, sentTo, retries, committed>>

\* Faulty variant of HandleDrains: the handle's flag is the only one.
HandleDrainsAlone ==
  /\ drain = "queued" /\ drain' = "done"
  /\ UNCHANGED <<staged, reserved, accepting, handleAccepts, travel, begun, sentTo, retries, committed>>

\* NotesHandle::begin_shutdown: its flag, then a command to the worker.
DrainAsked ==
  /\ drain = "no" /\ drain' = "queued" /\ handleAccepts' = FALSE
  /\ UNCHANGED <<staged, reserved, accepting, travel, begun, sentTo, retries, committed>>

\* The worker's begin_shutdown.
HandleDrains ==
  /\ drain = "queued" /\ drain' = "done" /\ accepting' = FALSE
  /\ UNCHANGED <<staged, reserved, handleAccepts, travel, begun, sentTo, retries, committed>>

\* NotesService::shutdown.
UploadsStop ==
  /\ drain = "done" /\ drain' = "stopped"
  /\ staged' = <<>> /\ reserved' = 0 /\ accepting' = FALSE /\ travel' = {}
  /\ UNCHANGED <<handleAccepts, begun, sentTo, retries, committed>>

-----------------------------------------------------------------------------
UploadInit ==
  /\ staged = <<>> /\ reserved = 0 /\ accepting = TRUE /\ handleAccepts = TRUE /\ drain = "no"
  /\ travel = {} /\ begun = [u \in Uploads |-> FALSE] /\ sentTo = [u \in Uploads |-> 0]
  /\ retries = 0 /\ committed = [u \in Uploads |-> <<>>]

UploadNext ==
  \/ \E u \in Uploads : SendBegin(u) \/ SendAppend(u) \/ SendCommit(u) \/ SendAbort(u)
  \/ drain # "stopped" /\ (CleanupExpired \/ UploadAges \/ \E m \in travel : HandleUpload(m))
  \/ DrainAsked \/ HandleDrains \/ UploadsStop

UploadSpec == UploadInit /\ [][UploadNext]_uploadVars

-----------------------------------------------------------------------------
\* The memory that is held for uploads is the memory that is reserved for
\* them, and neither it nor their number passes its limit: no way out of an
\* upload (commit, refusal, abort, expiry, shutdown) leaks a reservation.
ReservedIsHeld ==
  /\ reserved = ExpectedSum(DOMAIN staged) /\ reserved <= MaxStaged
  /\ Cardinality(DOMAIN staged) <= MaxSessions
  /\ \A u \in DOMAIN staged : Len(staged[u].bytes) <= staged[u].expected

\* What has been received of an upload is a prefix of the client's body,
\* however its chunks were delayed, reordered or repeated.
ReceivedIsPrefix ==
  \A u \in DOMAIN staged : staged[u].bytes = SubSeq(BodyOf[u], 1, Len(staged[u].bytes))

\* An uploaded note is stored once and whole, also when the commit is repeated.
CommittedOnceAndWhole == \A u \in Uploads : committed[u] \in {<<>>, <<BodyOf[u]>>}

\* After begin_shutdown has been answered no upload begins, also not one whose
\* request had passed the handle before.
DrainingOnlyShrinks == [][drain # "no" /\ drain # "queued" => DOMAIN staged' \subseteq DOMAIN staged]_uploadVars

\* Uploads are received in order, stored once and whole, give back what they
\* reserved and come to an end after begin_shutdown (service.rs).
UploadsAreWhole ==
  []ReservedIsHeld /\ []ReceivedIsPrefix /\ []CommittedOnceAndWhole /\ DrainingOnlyShrinks
=============================================================================
