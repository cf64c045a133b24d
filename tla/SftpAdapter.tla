---------------------------- MODULE SftpAdapter ----------------------------
(***************************************************************************)
(* Writes of SessionInner in crates/remote-ssh/src/bridge.rs: structured   *)
(* SFTP requests on one OpenSSH child, serialised by io_lock.  An          *)
(* interrupted operation kills the child and closes the session; what it   *)
(* had sent may still be applied.                                          *)
(***************************************************************************)
EXTENDS RemoteUpload

\* structured_operation: Cancelled, Timeout and Transport close the session.
Interrupted(w, r, stage) == Unanswered(r) /\ Drops(w, stage)

\* Faulty variant of SftpBegin: a resumed write creates a missing `.part` and
\* does not look at its size.
SftpBeginCreates(w) ==
  /\ At(w, "connected")
  /\ IF Exists(w) /\ up[w].progress > 0 THEN Unserved
     ELSE Apply(Request("truncate", w, 0)) /\ UNCHANGED <<late, confirmed>>
  /\ Begun(w)

\* begin_write_controlled: the destination must match; a fresh write creates
\* or empties the `.part`, a resumed one finds it with the offset as its size.
SftpBegin(w) ==
  /\ At(w, "connected")
  /\ \/ /\ DestinationMatches(w)
        /\ IF up[w].progress = 0
           THEN Apply(Request("truncate", w, 0)) /\ UNCHANGED <<late, confirmed>>
           ELSE Exists(w) /\ Len(server[w]) = up[w].progress /\ Unserved
        /\ Begun(w)
     \/ Goes(w, "idle") /\ Unserved
     \/ IF up[w].progress = 0 THEN Interrupted(w, Request("truncate", w, 0), "idle")
                              ELSE Drops(w, "idle") /\ Unserved

\* Faulty variant of SftpWrite: the bytes go to the end of the file.
SftpWriteAppends(w) ==
  /\ MoreToWrite(w)
  /\ \/ /\ Exists(w)
        /\ server' = Put(w, Append(server[w], Byte(w, up[w].next + 1)))
        /\ UNCHANGED placed
        /\ Recorded(w)
        /\ UNCHANGED <<late, confirmed>>
     \/ Interrupted(w, Request("write", w, up[w].next), "failed")

\* write_chunk_controlled: open, seek, write, and the size must be the next
\* offset; then the handle advances.
SftpWrite(w) ==
  /\ MoreToWrite(w)
  /\ \/ /\ Exists(w)
        /\ Apply(Request("write", w, up[w].next))
        /\ IF Len(server[w]) <= up[w].next + 1 THEN Recorded(w) ELSE Goes(w, "failed")
        /\ UNCHANGED <<late, confirmed>>
     \/ ~Exists(w) /\ Goes(w, "failed") /\ Unserved
     \/ Interrupted(w, Request("write", w, up[w].next), "failed")

\* commit_write_controlled up to the rename: all bytes are there, the
\* destination matches, the `.part` has the size (only the size) written.
SftpCheck(w) ==
  /\ AllWritten(w)
  /\ \/ DestinationMatches(w) /\ Exists(w) /\ Len(server[w]) = up[w].next /\ Goes(w, "checked")
     \/ Goes(w, "failed")
     \/ Drops(w, "failed")
  /\ Unserved

\* posix-rename and the stat that builds the answer.  A failed stat reports a
\* failure although the file is in place.
SftpRename(w) ==
  /\ At(w, "checked")
  /\ \/ /\ Apply(Request("rename", w, 0))
        /\ \/ Exists(w) /\ Confirm(w)
           \/ (Goes(w, "failed") \/ Drops(w, "failed")) /\ UNCHANGED confirmed
        /\ UNCHANGED late
     \/ Interrupted(w, Request("rename", w, 0), "failed")

\* abort_write_controlled removes the `.part` if the session is still open;
\* execute_started then disconnects (disconnect_controlled).
SftpAbort(w) ==
  /\ At(w, "failed")
  /\ \/ /\ up[w].live
        /\ \/ Apply(Request("remove", w, 0)) /\ Goes(w, "idle") /\ UNCHANGED <<late, confirmed>>
           \/ Interrupted(w, Request("remove", w, 0), "idle")
     \/ Drops(w, "idle") /\ Unserved

SftpNext ==
  /\ protocol = "sftp" /\ UNCHANGED protocol
  /\ \/ ClientStep
     \/ /\ \E w \in Writers :
             SftpBegin(w) \/ SftpWrite(w) \/ SftpCheck(w) \/ SftpRename(w) \/ SftpAbort(w)
        /\ UNCHANGED cut

-----------------------------------------------------------------------------
(* Properties *)

\* While a write is open, its `.part`, if it is there, holds at least the
\* acknowledged bytes: no late write, rename or remove of an earlier run and no
\* abort takes back what write_chunk confirmed, and a late truncate only that
\* of the tasks in cut.
AckIsStored ==
  protocol = "sftp" => \A w \in Writers \ cut :
    up[w].stage \in {"writing", "checked"} /\ Exists(w) => Len(server[w]) >= up[w].next
=============================================================================
