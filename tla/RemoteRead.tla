----------------------------- MODULE RemoteRead -----------------------------
(***************************************************************************)
(* A download through read_chunk of the SFTP (crates/remote-ssh/src/       *)
(* bridge.rs), FTP (crates/remote-ftp/src/remote_core.rs, transport.rs)    *)
(* and SMB adapters (crates/remote-smb/src/bridge.rs, native.rs), as       *)
(* download_started of crates/transfers/src/executor.rs drives it, while   *)
(* the object is rewritten on the server.                                  *)
(*                                                                         *)
(* A version is a size and a stamp (the modification time); a byte read is *)
(* the stamp of the version it came from.  Every rewriting has a new stamp *)
(* here: two within the resolution of the server's clock are told apart by *)
(* size only.                                                              *)
(***************************************************************************)
EXTENDS Naturals, Sequences

CONSTANTS ReadSizes,   \* sizes the object takes
          MaxStamp,    \* bound: rewritings of the object
          MaxChunk,    \* ExecutorLimits.chunk_bytes
          MaxReadRuns  \* bound: runs of the task

ASSUME ReadAssumption == ReadSizes \subseteq Nat /\ {MaxStamp, MaxChunk, MaxReadRuns} \subseteq Nat \ {0}

VARIABLES object,  \* the version on the server
          reading, \* the request in progress
          fetched  \* bytes handed to the staged write, by the stamp they came from

readVars == <<object, reading, fetched>>

Versions == [size : ReadSizes, stamp : 0..MaxStamp]

\* expected_source: none, a size (all FTP can compare), or an identity.
ReadInit ==
  /\ object \in [size : ReadSizes, stamp : {0}]
  /\ reading \in [protocol : {"sftp", "ftp", "smb"}, expects : {"nothing", "size", "identity"},
                  version : {object}, before : {object}, chunk : {<<>>}, eof : {FALSE},
                  total : {{}}, step : {"idle"}, runs : {MaxReadRuns}]
  /\ fetched = <<>>

\* Somebody rewrites the object in place.
Rewrite ==
  /\ object.stamp < MaxStamp
  /\ \E n \in ReadSizes : object' = [size |-> n, stamp |-> object.stamp + 1]
  /\ UNCHANGED <<reading, fetched>>

\* identities_match for the adapters that know the modification time, and the
\* comparison of sizes of FTP.
Matches(version) ==
  CASE reading.expects = "nothing" -> TRUE
    [] reading.expects = "size" -> version.size = reading.version.size
    [] reading.expects = "identity" -> version = reading.version
SameObject(a, b) == IF reading.protocol = "ftp" THEN a.size = b.size ELSE a = b

Fail == reading' = [reading EXCEPT !.step = "failed", !.chunk = <<>>] /\ UNCHANGED <<object, fetched>>

\* Open the file (SIZE for FTP) and note what it is.  FTP refuses an identity
\* it cannot compare; FTP and SMB refuse an offset past the end.
OpenRead ==
  /\ reading.step = "idle"
  /\ IF \/ reading.protocol = "ftp" /\ reading.expects = "identity"
        \/ reading.protocol # "sftp" /\ Len(fetched) > object.size
     THEN Fail
     ELSE /\ reading' = [reading EXCEPT !.step = "open", !.before = object, !.chunk = <<>>, !.eof = FALSE]
          /\ UNCHANGED <<object, fetched>>

\* Faulty variant of ReadByte: the request's max_bytes is not the loop's bound.
ReadByteUnbounded ==
  /\ reading.step = "open"
  /\ LET position == Len(fetched) + Len(reading.chunk)
     IN  reading' = IF position < object.size
                    THEN [reading EXCEPT !.chunk = Append(@, object.stamp)]
                    ELSE [reading EXCEPT !.eof = TRUE, !.step = "read"]
  /\ UNCHANGED <<object, fetched>>

\* One read of the loop: a byte, or the end of the file as it is now.
ReadByte ==
  /\ reading.step = "open" /\ Len(reading.chunk) < MaxChunk
  /\ LET position == Len(fetched) + Len(reading.chunk)
     IN  reading' = IF position < object.size
                    THEN [reading EXCEPT !.chunk = Append(@, object.stamp)]
                    ELSE [reading EXCEPT !.eof = TRUE, !.step = "read"]
  /\ UNCHANGED <<object, fetched>>

\* FTP asked for a range of the size it saw and must get exactly that.
RangeIsExact ==
  LET rest == reading.before.size - Len(fetched)
  IN  Len(reading.chunk) = IF rest < MaxChunk THEN rest ELSE MaxChunk

\* Faulty variant of Accepts: what the object is after the read is not compared
\* with what it was before.
AcceptsUnseen == reading.protocol = "ftp" => RangeIsExact

\* The object did not change while it was read, as far as the adapter can tell.
Accepts ==
  /\ SameObject(reading.before, object)
  /\ reading.protocol = "ftp" => RangeIsExact

\* The size a download must reach: the expected one, or what the run's first
\* chunk reported.
Total(seen) ==
  CASE reading.expects # "nothing" -> reading.version.size
    [] reading.total # {} -> CHOOSE n \in reading.total : TRUE
    [] OTHER -> seen

\* Close the file: the object must be the expected one and the same as before.
\* The chunk is staged and recorded; the last one must reach the total.
EndRead ==
  /\ \/ reading.step = "read"
     \/ reading.step = "open" /\ Len(reading.chunk) = MaxChunk
  /\ LET reached == Len(fetched) + Len(reading.chunk)
         eof == (reading.protocol = "sftp" /\ reading.eof) \/ reached >= object.size
     IN  IF ~(Matches(reading.before) /\ Accepts) \/ (reading.chunk = <<>> /\ ~eof) THEN Fail
         ELSE /\ fetched' = fetched \o reading.chunk
              /\ reading' = [reading EXCEPT !.chunk = <<>>, !.total = {Total(object.size)},
                                            !.step = IF ~eof THEN "idle"
                                                     ELSE IF reached = Total(object.size) THEN "done"
                                                     ELSE "failed"]
              /\ UNCHANGED object

\* The run failed or was cancelled; the next one goes on from the recorded bytes.
ReadAgain ==
  /\ reading.step # "done" /\ reading.runs > 1
  /\ reading' = [reading EXCEPT !.step = "idle", !.chunk = <<>>, !.total = {}, !.runs = @ - 1]
  /\ UNCHANGED <<object, fetched>>

ReadNext == Rewrite \/ OpenRead \/ ReadByte \/ EndRead \/ ReadAgain

ReadSpec == ReadInit /\ [][ReadNext]_readVars

-----------------------------------------------------------------------------
(* Properties *)

\* A request has its type.
ReadTypeOK ==
  /\ object \in Versions /\ reading.before \in Versions
  /\ reading.step \in {"idle", "open", "read", "failed", "done"}
  /\ reading.chunk \in Seq(0..MaxStamp) /\ Len(reading.chunk) <= MaxChunk
  /\ fetched \in Seq(0..MaxStamp)

\* With an expected identity, every byte a download keeps comes from that one
\* version, over all its chunks and runs, whatever happens to the object
\* between and during the reads.
OneVersion ==
  reading.protocol \in {"sftp", "smb"} /\ reading.expects = "identity" =>
    \A i \in 1..Len(fetched) : fetched[i] = reading.version.stamp

\* A download reads within its bounds, and from one version of the object
\* (read_chunk of the three adapters).
DownloadIsOneVersion == ReadTypeOK /\ OneVersion
=============================================================================
