----------------------------- MODULE FtpAdapter -----------------------------
(***************************************************************************)
(* Writes of FtpRemoteSession (crates/remote-ftp/src/remote_core.rs) over  *)
(* AdapterCore::upload_with_temporary (adapter.rs) and libcurl             *)
(* (transport.rs).  Chunks are staged in a private local file; only        *)
(* commit_write sends anything: STOR or APPE to the `.part`, SIZE, then    *)
(* RNFR/RNTO.                                                              *)
(***************************************************************************)
EXTENDS RemoteUpload

VARIABLE staging  \* PendingWrite: Writer -> [bytes, from], its file and resume_from

ftpVars == <<staging>>

FtpInit == staging = [w \in Writers |-> [bytes |-> <<>>, from |-> 0]]

\* stat_size: SIZE of the `.part`, a 550 counts as nothing there.
RemoteSize(w) == IF Exists(w) THEN Len(server[w]) ELSE 0

\* Faulty variant of FtpBegin: resume_from is not kept with the staging file.
FtpBeginForgets(w) ==
  /\ At(w, "connected")
  /\ RemoteSize(w) = up[w].progress
  /\ staging' = [staging EXCEPT ![w].bytes = [i \in 1..up[w].progress |-> Hole]]
  /\ Begun(w)
  /\ Unserved

\* begin_write: no identity preconditions; a resumed write needs a `.part` of
\* exactly its offset.  The staging file starts with that many zero bytes.
FtpBegin(w) ==
  /\ At(w, "connected")
  /\ \/ /\ w \notin Expecting
        /\ up[w].progress > 0 => RemoteSize(w) = up[w].progress
        /\ staging' = [staging EXCEPT ![w] = [bytes |-> [i \in 1..up[w].progress |-> Hole],
                                              from |-> up[w].progress]]
        /\ Begun(w)
     \/ Goes(w, "idle") /\ UNCHANGED staging
  /\ Unserved

\* write_chunk: the bytes go to the staging file only.
FtpWrite(w) ==
  /\ MoreToWrite(w)
  /\ \/ /\ staging' = [staging EXCEPT ![w].bytes = WriteAt(@, up[w].next, Byte(w, up[w].next + 1))]
        /\ Recorded(w)
     \/ Goes(w, "failed") /\ UNCHANGED staging
  /\ Unserved

\* Faulty variant of Sent: STOR where APPE is meant.
SentWhole(w) == staging[w].bytes

\* What the upload makes of the `.part`: STOR replaces it, and libcurl's
\* resume seeks in the staging file and appends (APPE).
Sent(w) ==
  IF staging[w].from = 0 THEN staging[w].bytes
  ELSE server[w] \o SubSeq(staging[w].bytes, staging[w].from + 1, Len(staging[w].bytes))

\* upload_with_temporary: the `.part` must still have the resumed size; the
\* data may stop anywhere.  A cut APPE may leave more than it found.
FtpUpload(w) ==
  /\ AllWritten(w)
  /\ IF staging[w].from > 0 => RemoteSize(w) = staging[w].from
     THEN \/ server' = Put(w, Sent(w)) /\ Goes(w, "stored")
          \/ /\ \E n \in staging[w].from..Len(staging[w].bytes) :
                  server' = Put(w, SubSeq(Sent(w), 1, n))
             /\ Goes(w, "failed")
          \/ UNCHANGED server /\ Goes(w, "failed")
     ELSE UNCHANGED server /\ Goes(w, "failed")
  /\ UNCHANGED <<late, placed, confirmed, staging>>

\* upload_part_and_commit: SIZE must be the local size.
FtpVerify(w) ==
  /\ At(w, "stored")
  /\ \/ Exists(w) /\ Len(server[w]) = Len(staging[w].bytes) /\ Goes(w, "checked")
     \/ Goes(w, "failed")
  /\ Unserved /\ UNCHANGED staging

\* RNFR/RNTO in one libcurl transfer; control checked after it may still turn
\* the success into a failure.
FtpRename(w) ==
  /\ At(w, "checked")
  /\ \/ /\ Apply(Request("rename", w, 0))
        /\ \/ Exists(w) /\ Confirm(w)
           \/ Goes(w, "failed") /\ UNCHANGED confirmed
        /\ UNCHANGED late
     \/ Unanswered(Request("rename", w, 0)) /\ Goes(w, "failed")
  /\ UNCHANGED staging

\* abort_write drops the staging file; the `.part` stays.  disconnect follows.
FtpAbort(w) ==
  /\ At(w, "failed")
  /\ staging' = [staging EXCEPT ![w] = [bytes |-> <<>>, from |-> 0]]
  /\ Drops(w, "idle")
  /\ Unserved

FtpNext ==
  /\ protocol = "ftp" /\ UNCHANGED protocol
  /\ \/ ClientStep /\ UNCHANGED staging
     \/ /\ \E w \in Writers : \/ FtpBegin(w) \/ FtpWrite(w) \/ FtpUpload(w)
                              \/ FtpVerify(w) \/ FtpRename(w) \/ FtpAbort(w)
        /\ UNCHANGED cut

-----------------------------------------------------------------------------
(* Properties *)

\* The staging file and the `.part` together are the acknowledged bytes: every
\* zero byte the staging file starts with is covered by what the server has.
StagingCoversAck ==
  protocol = "ftp" => \A w \in Writers :
    At(w, "writing") =>
      /\ Len(staging[w].bytes) = up[w].next
      /\ \A i \in 1..up[w].next : staging[w].bytes[i] = Byte(w, i) \/ i <= staging[w].from
=============================================================================
