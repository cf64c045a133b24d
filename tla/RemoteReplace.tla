--------------------------- MODULE RemoteReplace ---------------------------
(***************************************************************************)
(* What an upload through a RemoteFileSession promises of the file it      *)
(* replaces (begin_write, write_chunk, commit_write of                     *)
(* crates/remote-core/src/adapter.rs): nobody ever sees a part of it under *)
(* its final name, and a client is told that it was committed only after   *)
(* it was.  The one exception is an upload whose acknowledged bytes were   *)
(* taken back behind the session's back.  The SFTP, FTP and SMB adapters   *)
(* implement this module.                                                  *)
(***************************************************************************)
CONSTANTS
  Uploaders,  \* the uploads that aim at one destination
  Whole,      \* Uploader -> the bytes of its source
  Damaged,    \* Uploader -> the contents that damage to its upload may leave
  Others      \* contents that anybody else may give the destination

VARIABLES
  file,       \* {} or {content} of the destination
  damaged,    \* uploads that have lost acknowledged bytes
  published,  \* uploads whose content has been put there
  told        \* uploads whose client has been told so

replaceVars == <<file, damaged, published, told>>

ReplaceInit ==
  /\ file \in {{}} \cup {{c} : c \in Others}
  /\ damaged = {} /\ published = {} /\ told = {}

\* What an upload may put in place.
Content(w) == IF w \in damaged THEN Damaged[w] ELSE {Whole[w]}

Publish(w) ==
  /\ file' \in {{c} : c \in Content(w)}
  /\ published' = published \cup {w}
  /\ UNCHANGED <<damaged, told>>

Tell(w) ==
  /\ w \in published
  /\ told' = told \cup {w}
  /\ UNCHANGED <<file, damaged, published>>

\* commit_write answers after the rename of the same call.
PublishAndTell(w) ==
  /\ file' \in {{c} : c \in Content(w)}
  /\ published' = published \cup {w}
  /\ told' = told \cup {w}
  /\ UNCHANGED damaged

Damage(w) == damaged' = damaged \cup {w} /\ UNCHANGED <<file, published, told>>

Intrude == \E c \in Others : file' = {c} /\ UNCHANGED <<damaged, published, told>>

ReplaceNext ==
  Intrude \/ \E w \in Uploaders : Publish(w) \/ Tell(w) \/ PublishAndTell(w) \/ Damage(w)

ReplaceSpec == ReplaceInit /\ [][ReplaceNext]_replaceVars
=============================================================================
