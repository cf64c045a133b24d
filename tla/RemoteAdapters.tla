--------------------------- MODULE RemoteAdapters ---------------------------
(***************************************************************************)
(* Uploads to one destination through any of the three adapters.  The      *)
(* profile decides the protocol once; the variables of the two adapters    *)
(* that do not serve it stay as they are.                                  *)
(***************************************************************************)
EXTENDS SftpAdapter, FtpAdapter, SmbAdapter

adapterVars == <<uploadVars, ftpVars, smbVars>>

AdapterInit == UploadInit /\ FtpInit /\ SmbInit

AdapterNext ==
  \/ SftpNext /\ UNCHANGED <<ftpVars, smbVars>>
  \/ FtpNext /\ UNCHANGED smbVars
  \/ SmbNext /\ UNCHANGED ftpVars

AdapterSpec == AdapterInit /\ [][AdapterNext]_adapterVars

(* What an adapter acknowledged is kept: `.part` files are prefixes of their      *)
(* sources and hold what write_chunk confirmed, in each adapter's own way; of a   *)
(* task that a late truncate has cut only the bytes' places are sure.             *)
AcknowledgedIsKept ==
  UploadTypeOK /\ PartIsPrefix /\ AckIsStored /\ StagingCoversAck /\ HeldIsAcked
=============================================================================
