----------------------------- MODULE SmbAdapter -----------------------------
(***************************************************************************)
(* Writes of SmbFileSession (crates/remote-smb/src/bridge.rs) over the     *)
(* libsmbclient calls of native.rs, serialised by the session's mutex.  A  *)
(* call that times out leaves the session open; the server may still do    *)
(* what it was asked.                                                      *)
(*                                                                         *)
(* An identity is size and modification time: two contents of one size may *)
(* have the same identity, or not.                                         *)
(***************************************************************************)
EXTENDS RemoteUpload

VARIABLE held  \* SmbWriteState.identity: Writer -> the `.part` as last seen

smbVars == <<held>>

SmbInit == held = [w \in Writers |-> <<>>]

\* ensure_identity(Some(pending.identity), ...).
MayMatch(w) == Exists(w) /\ Len(server[w]) = Len(held[w])
MayDiffer(w) == ~(Exists(w) /\ server[w] = held[w])

\* begin_write_controlled: the destination must match; prepare_write empties
\* or opens the `.part`, whose size must be the offset.  An elapsed control
\* after that leaves the emptied file and no handle.
SmbBegin(w) ==
  /\ At(w, "connected")
  /\ \/ /\ DestinationMatches(w)
        /\ \/ /\ up[w].progress = 0
              /\ Apply(Request("truncate", w, 0))
              /\ \/ Begun(w) /\ held' = [held EXCEPT ![w] = <<>>]
                 \/ Goes(w, "idle") /\ UNCHANGED held
              /\ UNCHANGED <<late, confirmed>>
           \/ /\ up[w].progress > 0 /\ Exists(w) /\ Len(server[w]) = up[w].progress
              /\ Begun(w) /\ held' = [held EXCEPT ![w] = server[w]]
              /\ Unserved
     \/ Goes(w, "idle") /\ Unserved /\ UNCHANGED held
     \/ /\ up[w].progress = 0 /\ Unanswered(Request("truncate", w, 0))
        /\ Goes(w, "idle") /\ UNCHANGED held

\* Faulty variant of SmbWrite: neither the identity before the write nor the
\* size after it is compared, and the offset of the handle is not used.
SmbWriteUnchecked(w) ==
  /\ MoreToWrite(w)
  /\ \/ /\ Exists(w)
        /\ server' = Put(w, Append(server[w], Byte(w, up[w].next + 1)))
        /\ Recorded(w)
        /\ held' = [held EXCEPT ![w] = server'[w]]
        /\ UNCHANGED <<late, placed, confirmed>>
     \/ Unanswered(Request("write", w, up[w].next)) /\ Goes(w, "failed") /\ UNCHANGED held

\* write_chunk_controlled: the bytes are written before the identities are
\* compared, so a refused chunk is on the server.
SmbWrite(w) ==
  /\ MoreToWrite(w)
  /\ \/ /\ Exists(w)
        /\ Apply(Request("write", w, up[w].next))
        /\ \/ MayMatch(w) /\ Recorded(w) /\ held' = [held EXCEPT ![w] = server'[w]]
           \/ Goes(w, "failed") /\ UNCHANGED held
        /\ UNCHANGED <<late, confirmed>>
     \/ ~Exists(w) /\ Goes(w, "failed") /\ Unserved /\ UNCHANGED held
     \/ Unanswered(Request("write", w, up[w].next)) /\ Goes(w, "failed") /\ UNCHANGED held

\* commit_write_controlled up to the rename: the destination and the identity
\* of the `.part` are compared.
SmbCheck(w) ==
  /\ AllWritten(w)
  /\ \/ DestinationMatches(w) /\ MayMatch(w) /\ Goes(w, "checked")
     \/ (~DestinationMatches(w) \/ MayDiffer(w)) /\ Goes(w, "failed")
  /\ Unserved /\ UNCHANGED held

\* rename, then stat of the destination, whose size must be the written one.
SmbRename(w) ==
  /\ At(w, "checked")
  /\ \/ /\ Apply(Request("rename", w, 0))
        /\ \/ Exists(w) /\ Confirm(w)
           \/ Goes(w, "failed") /\ UNCHANGED confirmed
        /\ UNCHANGED late
     \/ Unanswered(Request("rename", w, 0)) /\ Goes(w, "failed")
  /\ UNCHANGED held

\* abort_write_controlled removes the `.part`, missing or not, or fails; then
\* execute_started disconnects.
SmbAbort(w) ==
  /\ At(w, "failed")
  /\ \/ Apply(Request("remove", w, 0)) /\ UNCHANGED <<late, confirmed>>
     \/ Unanswered(Request("remove", w, 0))
  /\ Drops(w, "idle")
  /\ UNCHANGED held

SmbNext ==
  /\ protocol = "smb" /\ UNCHANGED protocol
  /\ \/ ClientStep /\ UNCHANGED held
     \/ /\ \E w \in Writers :
             SmbBegin(w) \/ SmbWrite(w) \/ SmbCheck(w) \/ SmbRename(w) \/ SmbAbort(w)
        /\ UNCHANGED cut

-----------------------------------------------------------------------------
(* Properties *)

\* The identity a handle holds is the acknowledged content: a commit that
\* passes its check publishes those bytes and not what a late write or an
\* abort of an earlier run left behind.  A resumed write of a task in cut holds
\* what it found, of the acknowledged size.
HeldIsAcked ==
  protocol = "smb" => \A w \in Writers :
    up[w].stage \in {"writing", "checked"} =>
      IF w \in cut THEN held[w] \in Torn(w) /\ Len(held[w]) = up[w].next
      ELSE held[w] = SubSeq(Body(w), 1, up[w].next)
=============================================================================
