----------------------------- MODULE FtpsTrace ------------------------------
(***************************************************************************)
(* ProtocolTrace of crates/remote-ftp/src/protocol.rs: what was said on    *)
(* the control connection, judged after a libcurl transfer under explicit  *)
(* FTPS (finish and remote_size of transport.rs).  A transfer that was     *)
(* cancelled, is late or met an error of the local file ends as such and   *)
(* its trace is not looked at.                                             *)
(*                                                                         *)
(* The traces are the regular negotiation with up to MaxEdits events lost, *)
(* added or changed, by a peer or by a libcurl that does something else.   *)
(***************************************************************************)
EXTENDS Naturals, Sequences, SequencesExt

CONSTANT MaxEdits  \* bound: events that differ from the regular negotiation

VARIABLES trace, edits

traceVars == <<trace, edits>>

\* reply_code and classify_command keep these categories of the lines.
Replies == {"220", "234", "200", "other"}
Commands == {"AuthTls", "AuthSsl", "Credential", "PbszZero", "PbszOther", "ProtPrivate",
             "ProtOther", "DataTransfer", "Other"}

Negotiation ==
  <<"220", "AuthTls", "234", "Credential", "other", "PbszZero", "200", "ProtPrivate", "200",
    "DataTransfer", "other">>

\* A connection may end anywhere.
TraceInit == trace \in {SubSeq(Negotiation, 1, n) : n \in 1..Len(Negotiation)} /\ edits = 0

\* observe: the server speaks first, so nothing comes before its banner.
Observe ==
  /\ edits < MaxEdits
  /\ edits' = edits + 1
  /\ \E i \in 2..Len(trace) + 1, e \in Replies \cup Commands :
       \/ trace' = InsertAt(trace, i, e)
       \/ i <= Len(trace) /\ trace' = [trace EXCEPT ![i] = e]
       \/ i <= Len(trace) /\ trace' = RemoveAt(trace, i)

TraceSpec == TraceInit /\ [][Observe]_traceVars

-----------------------------------------------------------------------------
Positions(tr, S) == {i \in 1..Len(tr) : tr[i] \in S}
First(P) == CHOOSE i \in P : \A j \in P : i <= j
NextOf(tr, i, S) == {j \in Positions(tr, S) : j > i}

\* Faulty variant of PartiallySafe: a refused AUTH TLS is not noticed.
PartiallySafeUnanswered(tr) ==
  /\ Positions(tr, {"AuthSsl", "PbszOther", "ProtOther"}) = {}
  /\ LET auth == Positions(tr, {"AuthTls"})
     IN  \A c \in Positions(tr, {"Credential"}) : auth # {} /\ c > First(auth)

\* verify_partial_safety: no weaker negotiation, and no credentials before the
\* first AUTH TLS was answered with 234.
PartiallySafe(tr) ==
  /\ Positions(tr, {"AuthSsl", "PbszOther", "ProtOther"}) = {}
  /\ LET auths == Positions(tr, {"AuthTls"})
         credentials == Positions(tr, {"Credential"})
     IN  IF auths = {} THEN credentials = {}
         ELSE LET auth == First(auths)
                  replies == NextOf(tr, auth, Replies)
              IN  /\ \A c \in credentials : c > auth
                  /\ IF replies = {} THEN credentials = {}
                     ELSE LET reply == First(replies)
                          IN  /\ tr[reply] = "234"
                              /\ reply = auth + 1
                              /\ \A c \in credentials : c > reply

\* require_immediate_reply.
Answered(tr, i, code) == i < Len(tr) /\ tr[i + 1] = code

\* require_next_protection_command: replies and credentials may come between.
NextProtection(tr, i, command) ==
  LET found == NextOf(tr, i, Commands \ {"Credential"})
  IN  IF found # {} /\ tr[First(found)] = command THEN First(found) ELSE 0

\* Faulty variant of ExplicitFtps: PROT P is not required.
ExplicitFtpsWithoutProt(tr) ==
  LET banner == Positions(tr, {"220"})
      auth == NextOf(tr, First(banner), Commands)
      pbsz == NextProtection(tr, First(auth) + 1, "PbszZero")
  IN  /\ PartiallySafe(tr)
      /\ banner # {} /\ auth # {} /\ tr[First(auth)] = "AuthTls" /\ Answered(tr, First(auth), "234")
      /\ pbsz # 0 /\ Answered(tr, pbsz, "200")

\* verify_explicit_ftps: 220, AUTH TLS and 234, PBSZ 0 and 200, PROT P and 200.
ExplicitFtps(tr) ==
  LET banner == Positions(tr, {"220"})
      auth == NextOf(tr, First(banner), Commands)
      pbsz == NextProtection(tr, First(auth) + 1, "PbszZero")
      prot == NextProtection(tr, pbsz + 1, "ProtPrivate")
  IN  /\ PartiallySafe(tr)
      /\ banner # {} /\ auth # {} /\ tr[First(auth)] = "AuthTls" /\ Answered(tr, First(auth), "234")
      /\ pbsz # 0 /\ Answered(tr, pbsz, "200")
      /\ prot # 0 /\ Answered(tr, prot, "200")

\* verify_for_result: a transfer that succeeded, or got as far as protection
\* or data, must show the whole negotiation.
VerifyForResult(tr, succeeded) ==
  /\ PartiallySafe(tr)
  /\ \/ succeeded
     \/ Positions(tr, {"PbszZero", "PbszOther", "ProtPrivate", "ProtOther", "DataTransfer"}) # {}
     => ExplicitFtps(tr)

\* How a transfer may end; what its caller hears is that, or "insecure".
Ends == {"ok", "failed", "local", "cancelled", "late"}

\* Faulty variant of Finish: a transfer that libcurl calls failed is not judged.
FinishOfSuccess(tr, ended) ==
  IF ended = "ok" /\ ~VerifyForResult(tr, TRUE) THEN "insecure" ELSE ended

\* finish and remote_size: the error of the local file and check_control come
\* first, then the judgement, then libcurl's own result.
Finish(tr, ended) ==
  IF ended \in {"ok", "failed"} /\ ~VerifyForResult(tr, ended = "ok") THEN "insecure" ELSE ended

-----------------------------------------------------------------------------
(* Properties *)

\* No transfer is accepted, as a success or as an ordinary failure, in which
\* credentials went out before the server took AUTH TLS.
CredentialsUnderTls ==
  \A ended \in Ends : Finish(trace, ended) \in {"ok", "failed"} =>
    \A c \in Positions(trace, {"Credential"}) :
      \E i \in 1..c : trace[i] = "AuthTls" /\ Answered(trace, i, "234") /\ i + 1 < c

\* No transfer is accepted in which a data command preceded the protection of
\* the data channel: PBSZ 0 and then PROT P, both granted.
DataIsPrivate ==
  \A ended \in Ends : Finish(trace, ended) \in {"ok", "failed"} =>
    \A d \in Positions(trace, {"DataTransfer"}) :
      \E i \in 1..d, j \in 1..d :
        /\ trace[i] = "PbszZero" /\ Answered(trace, i, "200")
        /\ trace[j] = "ProtPrivate" /\ Answered(trace, j, "200")
        /\ i < j /\ j + 1 < d

\* No transfer ends as a success or an ordinary failure in which a credential or
\* data went out unprotected (verify_explicit_ftps, verify_partial_safety).  One
\* that is cancelled, late or fails on its local file says nothing of its trace.
FtpsIsPrivate == CredentialsUnderTls /\ DataIsPrivate
=============================================================================
