--------------------------- MODULE ServicesProofs ---------------------------
(***************************************************************************)
(* Proofs about the remote adapters' reads, writes and connections, about  *)
(* the figures of the collectors and about the daemon's supervisors and    *)
(* its stop, for every number of secrets, jump hosts, writers, links,      *)
(* processes, versions and chunks and every timing.  The parts share no    *)
(* state.                                                                  *)
(***************************************************************************)
EXTENDS RemoteAdapters, RemoteRead, RemoteConnect, FtpsTrace, AppdShutdown, NetworkSupervisor,
        NetworkCounters, AppGrouping, FiniteSums, SequenceTheorems, WellFoundedInduction, TLAPS

-----------------------------------------------------------------------------
(* Downloads (RemoteRead). *)

Flag == {TRUE, FALSE}

LEMMA Flags == TRUE \in Flag /\ FALSE \in Flag
BY Zenon DEF Flag

Download ==
  [protocol : {"sftp", "ftp", "smb"}, expects : {"nothing", "size", "identity"},
   version : Versions, before : Versions, chunk : Seq(0..MaxStamp), eof : Flag,
   total : SUBSET Nat, step : {"idle", "open", "read", "failed", "done"}, runs : Nat]

\* The bytes of a chunk come from versions between the one seen at the open and
\* the one on the server.
ChunkInv ==
  /\ object \in Versions /\ reading \in Download /\ fetched \in Seq(0..MaxStamp)
  /\ Len(reading.chunk) <= MaxChunk
  /\ reading.before.stamp <= object.stamp
  /\ \A i \in 1..Len(reading.chunk) :
       reading.before.stamp <= reading.chunk[i] /\ reading.chunk[i] <= object.stamp

ReadInv == ChunkInv /\ OneVersion

LEMMA EmptyChunk == <<>> \in Seq(0..MaxStamp) /\ Len(<<>>) = 0
OBVIOUS

\* What a step that drops the chunk keeps.
LEMMA ChunkDropped ==
  ASSUME ReadInv, reading' \in Download, reading'.chunk = <<>>, object' = object, fetched' = fetched,
         reading'.before \in {reading.before, object}, reading'.protocol = reading.protocol,
         reading'.expects = reading.expects, reading'.version = reading.version
  PROVE  ReadInv'
<1> USE ReadAssumption, EmptyChunk DEF ReadInv, ChunkInv
<1>1. object.stamp \in 0..MaxStamp /\ MaxStamp \in Nat /\ MaxChunk \in Nat  BY DEF Versions
<1>2. ChunkInv'  BY <1>1
<1>3. OneVersion'  BY DEF OneVersion
<1> QED  BY <1>2, <1>3

LEMMA TotalIsSize ==
  ASSUME reading \in Download, NEW seen \in Nat
  PROVE  Total(seen) \in Nat
<1>1. reading.version.size \in Nat  BY ReadAssumption DEF Download, Versions
<1>2. reading.total # {} => (CHOOSE n \in reading.total : TRUE) \in Nat  BY DEF Download
<1> QED  BY <1>1, <1>2 DEF Total, Download

LEMMA NextRead ==
  ASSUME ReadInv, [ReadNext]_readVars
  PROVE  ReadInv'
<1> USE ReadAssumption DEF ReadInv, ChunkInv
<1>0. object.size \in Nat /\ object.stamp \in 0..MaxStamp /\ MaxStamp \in Nat /\ MaxChunk \in Nat
  BY DEF Versions
<1>1. CASE UNCHANGED readVars  BY <1>1 DEF readVars, OneVersion
<1>2. CASE Rewrite
  <2>1. PICK n \in ReadSizes : object' = [size |-> n, stamp |-> object.stamp + 1]
    BY <1>2 DEF Rewrite
  <2>2. object' \in Versions /\ object'.stamp = object.stamp + 1
    BY <1>0, <1>2, <2>1 DEF Rewrite, Versions
  <2>3. UNCHANGED <<reading, fetched>>  BY <1>2 DEF Rewrite
  <2>4. \A i \in 1..Len(reading.chunk) : reading.chunk[i] \in Nat  BY DEF Download
  <2>5. reading.before.stamp \in Nat  BY DEF Download, Versions
  <2>6. ChunkInv'  BY <1>0, <2>2, <2>3, <2>4, <2>5, SMTT(40)
  <2>7. OneVersion'  BY <2>3 DEF OneVersion
  <2> QED  BY <2>6, <2>7
<1>3. ASSUME Fail  PROVE ReadInv'
  <2>1. reading' = [reading EXCEPT !.step = "failed", !.chunk = <<>>] /\ UNCHANGED <<object, fetched>>
    BY <1>3 DEF Fail
  <2>2. reading' \in Download  BY <2>1, EmptyChunk DEF Download
  <2>3. reading'.chunk = <<>> /\ reading'.before = reading.before
        /\ reading'.protocol = reading.protocol /\ reading'.expects = reading.expects
        /\ reading'.version = reading.version
    BY <2>1 DEF Download
  <2> QED  BY <2>1, <2>2, <2>3, ChunkDropped
<1>4. CASE OpenRead
  <2>1. CASE reading' = [reading EXCEPT !.step = "open", !.before = object, !.chunk = <<>>, !.eof = FALSE]
             /\ UNCHANGED <<object, fetched>>
    <3>1. reading' \in Download  BY <2>1, Flags, EmptyChunk DEF Download
    <3>2. reading'.chunk = <<>> /\ reading'.before = object
          /\ reading'.protocol = reading.protocol /\ reading'.expects = reading.expects
          /\ reading'.version = reading.version
      BY <2>1 DEF Download
    <3> QED  BY <2>1, <3>1, <3>2, ChunkDropped
  <2> QED  BY <1>3, <1>4, <2>1 DEF OpenRead
<1>5. CASE ReadByte
  <2>0. UNCHANGED <<object, fetched>> /\ Len(reading.chunk) < MaxChunk  BY <1>5 DEF ReadByte
  <2>1. CASE reading' = [reading EXCEPT !.eof = TRUE, !.step = "read"]
    <3>1. reading' \in Download /\ reading'.chunk = reading.chunk /\ reading'.before = reading.before
          /\ reading'.protocol = reading.protocol /\ reading'.expects = reading.expects
          /\ reading'.version = reading.version
      BY <2>1, Flags DEF Download
    <3> QED  BY <1>0, <2>0, <3>1 DEF OneVersion
  <2>2. CASE reading' = [reading EXCEPT !.chunk = Append(@, object.stamp)]
    <3> PICK c : c = Append(reading.chunk, object.stamp)  OBVIOUS
    <3>1. reading' = [reading EXCEPT !.chunk = c]  BY <2>2
    <3>2. /\ c \in Seq(0..MaxStamp) /\ Len(c) = Len(reading.chunk) + 1
          /\ \A i \in 1..Len(c) : c[i] = IF i <= Len(reading.chunk) THEN reading.chunk[i] ELSE object.stamp
      BY <1>0, SMTT(40) DEF Download
    <3>0. reading' \in Download  BY <3>1, <3>2 DEF Download
    <3>3. reading'.chunk = c /\ reading'.before = reading.before
          /\ reading'.protocol = reading.protocol /\ reading'.expects = reading.expects
          /\ reading'.version = reading.version
      BY <3>1, <3>2 DEF Download
    <3>4. Len(c) <= MaxChunk
      BY <1>0, <2>0, <3>2 DEF Download
    <3>5. \A i \in 1..Len(c) : reading.before.stamp <= c[i] /\ c[i] <= object.stamp
      <4>1. reading.chunk \in Seq(0..MaxStamp) /\ Len(reading.chunk) \in Nat  BY DEF Download
      <4> TAKE i \in 1..Len(c)
      <4>2. CASE i <= Len(reading.chunk)
        <5>1. i \in 1..Len(reading.chunk) /\ c[i] = reading.chunk[i]  BY <3>2, <4>1, <4>2
        <5> QED  BY <5>1
      <4>3. CASE ~(i <= Len(reading.chunk))
        <5>1. c[i] = object.stamp  BY <3>2, <4>3
        <5> QED  BY <1>0, <5>1
      <4> QED  BY <4>2, <4>3
    <3>6. ChunkInv'  BY <2>0, <3>0, <3>3, <3>4, <3>5
    <3>7. OneVersion'  BY <2>0, <3>3 DEF OneVersion
    <3> QED  BY <3>6, <3>7
  <2> QED  BY <1>5, <2>1, <2>2 DEF ReadByte
<1>6. CASE EndRead
  <2> DEFINE reached == Len(fetched) + Len(reading.chunk)
             eof == (reading.protocol = "sftp" /\ reading.eof) \/ reached >= object.size
  <2>1. CASE Fail  BY <1>3, <2>1
  <2>2. CASE /\ Matches(reading.before) /\ Accepts
             /\ fetched' = fetched \o reading.chunk
             /\ reading' = [reading EXCEPT !.chunk = <<>>, !.total = {Total(object.size)},
                                           !.step = IF ~eof THEN "idle"
                                                    ELSE IF reached = Total(object.size) THEN "done"
                                                    ELSE "failed"]
             /\ UNCHANGED object
    <3> PICK step : step = IF ~eof THEN "idle" ELSE IF reached = Total(object.size) THEN "done" ELSE "failed"
      OBVIOUS
    <3> PICK total : total = {Total(object.size)}  OBVIOUS
    <3>1. reading' = [reading EXCEPT !.chunk = <<>>, !.total = total, !.step = step]  BY <2>2
    <3>2. total \in SUBSET Nat  BY <1>0, TotalIsSize
    <3>0. step \in {"idle", "done", "failed"}  OBVIOUS
    <3>6. reading' \in Download  BY <3>0, <3>1, <3>2, EmptyChunk DEF Download
    <3>3. reading'.chunk = <<>> /\ reading'.before = reading.before
          /\ reading'.protocol = reading.protocol /\ reading'.expects = reading.expects
          /\ reading'.version = reading.version
      BY <3>1 DEF Download
    <3>4. fetched' \in Seq(0..MaxStamp)  BY <2>2 DEF Download
    <3>5. OneVersion'
      <4> SUFFICES ASSUME reading.protocol \in {"sftp", "smb"}, reading.expects = "identity",
                          NEW i \in 1..Len(fetched')
                   PROVE  fetched'[i] = reading.version.stamp
        BY <3>3 DEF OneVersion
      <4>1. reading.before = reading.version  BY <2>2 DEF Matches
      <4>2. reading.before = object  BY <2>2 DEF Accepts, SameObject
      <4>3. \A j \in 1..Len(reading.chunk) : reading.chunk[j] = reading.version.stamp
        <5>1. \A j \in 1..Len(reading.chunk) : reading.chunk[j] \in 0..MaxStamp  BY SMTT(40) DEF Download
        <5> QED  BY <1>0, <4>1, <4>2, <5>1, SMTT(40)
      <4>4. fetched \in Seq(0..MaxStamp) /\ reading.chunk \in Seq(0..MaxStamp)  BY DEF Download
      <4>5. /\ Len(fetched') = Len(fetched) + Len(reading.chunk)
            /\ fetched'[i] = IF i <= Len(fetched) THEN fetched[i] ELSE reading.chunk[i - Len(fetched)]
        BY <2>2, <4>4
      <4>6. Len(fetched) \in Nat /\ Len(reading.chunk) \in Nat /\ i \in 1..(Len(fetched) + Len(reading.chunk))
        BY <4>4, <4>5
      <4>7. CASE i <= Len(fetched)
        <5>1. i \in 1..Len(fetched)  BY <4>6, <4>7
        <5>2. fetched[i] = reading.version.stamp  BY <5>1 DEF OneVersion
        <5> QED  BY <4>5, <4>7, <5>2
      <4>8. CASE ~(i <= Len(fetched))
        <5>1. i - Len(fetched) \in 1..Len(reading.chunk)  BY <4>6, <4>8
        <5> QED  BY <4>3, <4>5, <4>8, <5>1
      <4> QED  BY <4>7, <4>8
    <3>7. UNCHANGED object  BY <2>2
    <3>8. ChunkInv'  BY <1>0, <3>3, <3>4, <3>6, <3>7, EmptyChunk, SMTT(40)
    <3> QED  BY <3>5, <3>8
  <2> QED  BY <1>6, <2>1, <2>2 DEF EndRead
<1>7. CASE ReadAgain
  <2>1. reading' = [reading EXCEPT !.step = "idle", !.chunk = <<>>, !.total = {}, !.runs = @ - 1]
        /\ UNCHANGED <<object, fetched>> /\ reading.runs > 1
    BY <1>7 DEF ReadAgain
  <2>2. reading' \in Download
    <3> PICK runs : runs = reading.runs - 1  OBVIOUS
    <3>1. runs \in Nat  BY <2>1 DEF Download
    <3>2. reading' = [reading EXCEPT !.step = "idle", !.chunk = <<>>, !.total = {}, !.runs = runs]  BY <2>1
    <3> QED  BY <3>1, <3>2, EmptyChunk DEF Download
  <2>3. reading'.chunk = <<>> /\ reading'.before = reading.before
        /\ reading'.protocol = reading.protocol /\ reading'.expects = reading.expects
        /\ reading'.version = reading.version
    BY <2>1 DEF Download
  <2> QED  BY <2>1, <2>2, <2>3, ChunkDropped
<1> QED  BY <1>1, <1>2, <1>4, <1>5, <1>6, <1>7 DEF ReadNext

\* A download that expects an identity keeps bytes of that version only, for
\* any sizes, chunks, runs and rewritings of the object (read_chunk of the
\* SFTP and SMB adapters).
THEOREM DownloadsKeepOneVersion == ReadSpec => []DownloadIsOneVersion
<1>1. ReadInit => ReadInv
  <2> SUFFICES ASSUME ReadInit  PROVE ReadInv  OBVIOUS
  <2>1. object \in Versions  BY ReadAssumption DEF ReadInit, Versions
  <2>2. reading \in Download  BY <2>1, Flags, EmptyChunk, ReadAssumption DEF ReadInit, Download
  <2>3. reading.chunk = <<>> /\ reading.before = object /\ fetched = <<>>  BY DEF ReadInit
  <2>4. object.stamp = 0  BY DEF ReadInit
  <2>5. ChunkInv  BY <2>1, <2>2, <2>3, <2>4, EmptyChunk, ReadAssumption DEF ChunkInv
  <2>6. OneVersion  BY <2>3, EmptyChunk DEF OneVersion
  <2> QED  BY <2>5, <2>6 DEF ReadInv
<1>2. ReadInv /\ [ReadNext]_readVars => ReadInv'  BY NextRead
<1>3. ReadInv => DownloadIsOneVersion
  BY DEF ReadInv, ChunkInv, DownloadIsOneVersion, ReadTypeOK, Download
<1> QED  BY <1>1, <1>2, <1>3, PTL DEF ReadSpec

-----------------------------------------------------------------------------
(* The judgement of a control connection (FtpsTrace). *)

Events == Replies \cup Commands

LEMMA FirstIsLeast ==
  ASSUME NEW P, P \subseteq Nat, P # {}
  PROVE  First(P) \in P /\ \A j \in P : First(P) <= j
<1> DEFINE Less == OpToRel(<, Nat)
<1>1. IsWellFoundedOn(Less, Nat)  BY NatLessThanWellFounded
<1>2. \A i \in P, j \in P : j < i => <<j, i>> \in Less  BY DEF OpToRel
<1> HIDE DEF Less
<1>3. PICK i \in P : \A j \in P : ~(<<j, i>> \in Less)  BY <1>1, WFMin
<1>4. \A j \in P : i <= j
  <2> TAKE j \in P
  <2>1. i \in Nat /\ j \in Nat  OBVIOUS
  <2>2. ~(j < i)  BY <1>2, <1>3
  <2> QED  BY <2>1, <2>2
<1> QED  BY <1>4 DEF First

LEMMA FirstPosition ==
  ASSUME NEW tr, NEW i \in Nat, NEW S, NextOf(tr, i, S) # {}
  PROVE  /\ First(NextOf(tr, i, S)) \in Nat /\ First(NextOf(tr, i, S)) \in 1..Len(tr)
         /\ First(NextOf(tr, i, S)) > i /\ tr[First(NextOf(tr, i, S))] \in S
         /\ \A j \in 1..Len(tr) : j > i /\ tr[j] \in S => First(NextOf(tr, i, S)) <= j
<1>1. NextOf(tr, i, S) \subseteq Nat  BY DEF NextOf, Positions
<1>2. /\ First(NextOf(tr, i, S)) \in NextOf(tr, i, S)
      /\ \A j \in NextOf(tr, i, S) : First(NextOf(tr, i, S)) <= j
  BY <1>1, FirstIsLeast
<1> QED  BY <1>2 DEF NextOf, Positions

\* Credentials go out after the AUTH TLS that the server took.
LEMMA CredentialsAreLate ==
  ASSUME trace \in Seq(Events), PartiallySafe(trace), NEW c \in Positions(trace, {"Credential"})
  PROVE  \E i \in 1..c : trace[i] = "AuthTls" /\ Answered(trace, i, "234") /\ i + 1 < c
<1> DEFINE auths == Positions(trace, {"AuthTls"})
           auth == First(auths)
           replies == NextOf(trace, auth, Replies)
           reply == First(replies)
<1>0. c \in Nat /\ c \in 1..Len(trace)  BY DEF Positions
<1>1. auths # {} /\ c > auth /\ replies # {} /\ trace[reply] = "234" /\ reply = auth + 1 /\ c > reply
  BY DEF PartiallySafe
<1>2. auth \in auths  BY <1>1, FirstIsLeast DEF Positions
<1>3. auth \in 1..Len(trace) /\ trace[auth] = "AuthTls"  BY <1>2 DEF Positions
<1> HIDE DEF auth, reply
<1>4. auth < Len(trace) /\ trace[auth + 1] = "234" /\ auth + 1 < c /\ auth \in 1..c
  BY <1>0, <1>1, <1>3
<1> QED  BY <1>3, <1>4 DEF Answered

\* The protection command the judgement finds is the first one after i.
LEMMA ProtectionFound ==
  ASSUME NEW tr, NEW i \in Nat, NEW command, NEW p, p = NextProtection(tr, i, command), p # 0
  PROVE  /\ p \in Nat /\ p > i /\ tr[p] = command
         /\ \A j \in 1..Len(tr) : j > i /\ tr[j] \in Commands \ {"Credential"} => p <= j
<1> PICK S : S = Commands \ {"Credential"}  OBVIOUS
<1>1. NextOf(tr, i, S) # {} /\ tr[First(NextOf(tr, i, S))] = command /\ p = First(NextOf(tr, i, S))
  BY DEF NextProtection
<1>0. First(NextOf(tr, i, S)) \in Nat /\ First(NextOf(tr, i, S)) > i  BY <1>1, FirstPosition
<1>2. p \in Nat /\ p > i /\ tr[p] = command  BY <1>0, <1>1
<1>3. \A j \in 1..Len(tr) : j > i /\ tr[j] \in S => p <= j
  BY <1>1, FirstPosition, SMTT(40)
<1> QED  BY <1>2, <1>3

\* Data go out after both protection commands were granted.
LEMMA DataIsLate ==
  ASSUME trace \in Seq(Events), Len(trace) > 0, trace[1] = "220", ExplicitFtps(trace),
         NEW d \in Positions(trace, {"DataTransfer"})
  PROVE  \E i \in 1..d, j \in 1..d :
           /\ trace[i] = "PbszZero" /\ Answered(trace, i, "200")
           /\ trace[j] = "ProtPrivate" /\ Answered(trace, j, "200")
           /\ i < j /\ j + 1 < d
<1> PICK banner : banner = Positions(trace, {"220"})  OBVIOUS
<1> PICK first : first = First(banner)  OBVIOUS
<1> PICK auth : auth = First(NextOf(trace, first, Commands))  OBVIOUS
<1> PICK pbsz : pbsz = NextProtection(trace, auth + 1, "PbszZero")  OBVIOUS
<1> PICK prot : prot = NextProtection(trace, pbsz + 1, "ProtPrivate")  OBVIOUS
<1>1. /\ NextOf(trace, first, Commands) # {} /\ trace[auth] = "AuthTls" /\ Answered(trace, auth, "234")
      /\ pbsz # 0 /\ Answered(trace, pbsz, "200") /\ prot # 0 /\ Answered(trace, prot, "200")
  BY DEF ExplicitFtps
<1>2. first = 1
  <2>1. 1 \in banner /\ banner \subseteq Nat /\ 0 \notin banner  BY DEF Positions
  <2>2. first \in banner /\ first <= 1  BY <2>1, FirstIsLeast
  <2> QED  BY <2>1, <2>2
<1>3. d \in Nat /\ d \in 1..Len(trace) /\ trace[d] = "DataTransfer"  BY DEF Positions
<1>4. "DataTransfer" \in Commands \ {"Credential"} /\ "DataTransfer" \in Commands  BY DEF Commands
<1>5. auth \in Nat /\ auth <= d
  <2>1. d > first  BY <1>2, <1>3
  <2> QED  BY <1>1, <1>2, <1>3, <1>4, <2>1, FirstPosition
<1>6. d > auth + 1
  <2>1. trace[auth + 1] = "234"  BY <1>1 DEF Answered
  <2>2. d # auth /\ d # auth + 1  BY <1>1, <1>3, <2>1
  <2> QED  BY <1>3, <1>5, <2>2
<1>7. pbsz \in Nat /\ pbsz > auth + 1 /\ pbsz <= d /\ trace[pbsz] = "PbszZero"
  BY <1>1, <1>3, <1>4, <1>5, <1>6, ProtectionFound
<1>8. d > pbsz + 1
  <2>1. trace[pbsz + 1] = "200"  BY <1>1 DEF Answered
  <2>2. d # pbsz /\ d # pbsz + 1  BY <1>3, <1>7, <2>1
  <2> QED  BY <1>3, <1>7, <2>2
<1>9. prot \in Nat /\ prot > pbsz + 1 /\ prot <= d /\ trace[prot] = "ProtPrivate"
  BY <1>1, <1>3, <1>4, <1>7, <1>8, ProtectionFound
<1>10. d > prot + 1
  <2>1. trace[prot + 1] = "200"  BY <1>1 DEF Answered
  <2>2. d # prot /\ d # prot + 1  BY <1>3, <1>9, <2>1
  <2> QED  BY <1>3, <1>9, <2>2
<1>11. pbsz \in 1..d /\ prot \in 1..d /\ pbsz < prot /\ prot + 1 < d
  BY <1>3, <1>5, <1>7, <1>9, <1>10, SMTT(40)
<1> QED  BY <1>1, <1>7, <1>9, <1>11

TraceInv == trace \in Seq(Events) /\ Len(trace) > 0 /\ trace[1] = "220"

LEMMA JudgedTraces ==
  ASSUME TraceInv
  PROVE  FtpsIsPrivate
<1> USE DEF TraceInv
<1>1. CredentialsUnderTls
  BY CredentialsAreLate DEF CredentialsUnderTls, Finish, VerifyForResult
<1>2. DataIsPrivate
  <2>1. SUFFICES ASSUME NEW ended \in Ends, Finish(trace, ended) \in {"ok", "failed"},
                        NEW d \in Positions(trace, {"DataTransfer"})
                 PROVE  \E i \in 1..d, j \in 1..d :
                          /\ trace[i] = "PbszZero" /\ Answered(trace, i, "200")
                          /\ trace[j] = "ProtPrivate" /\ Answered(trace, j, "200")
                          /\ i < j /\ j + 1 < d
    BY DEF DataIsPrivate
  <2>2. d \in Positions(trace, {"PbszZero", "PbszOther", "ProtPrivate", "ProtOther", "DataTransfer"})
    BY DEF Positions
  <2>3. ExplicitFtps(trace)  BY <2>1, <2>2 DEF Finish, VerifyForResult
  <2> QED  BY <2>3, DataIsLate
<1> QED  BY <1>1, <1>2 DEF FtpsIsPrivate

\* An event lost, added or changed leaves the banner where it is.
LEMMA NextTrace ==
  ASSUME TraceInv, [Observe]_traceVars
  PROVE  TraceInv'
<1> USE DEF TraceInv
<1>1. CASE UNCHANGED traceVars  BY <1>1 DEF traceVars
<1>2. CASE Observe
  <2>1. PICK i \in 2..Len(trace) + 1, e \in Events :
          \/ trace' = InsertAt(trace, i, e)
          \/ i <= Len(trace) /\ trace' = [trace EXCEPT ![i] = e]
          \/ i <= Len(trace) /\ trace' = RemoveAt(trace, i)
    BY <1>2 DEF Observe, Events
  <2> PICK head : head = SubSeq(trace, 1, i - 1)  OBVIOUS
  <2>2. head \in Seq(Events) /\ Len(head) = i - 1 /\ i - 1 > 0 /\ head[1] = trace[1]  OBVIOUS
  <2>3. CASE trace' = InsertAt(trace, i, e)
    <3> PICK rest : rest = SubSeq(trace, i, Len(trace))  OBVIOUS
    <3>1. rest \in Seq(Events) /\ <<e>> \in Seq(Events) /\ Len(<<e>>) = 1  OBVIOUS
    <3> PICK front : front = head \o <<e>>  OBVIOUS
    <3>2. front \in Seq(Events) /\ Len(front) = i /\ front[1] = head[1]  BY <2>2, <3>1
    <3>3. trace' = front \o rest  BY <2>3 DEF InsertAt
    <3> QED  BY <2>2, <3>1, <3>2, <3>3
  <2>4. CASE i <= Len(trace) /\ trace' = [trace EXCEPT ![i] = e]
    BY <2>4
  <2>5. CASE i <= Len(trace) /\ trace' = RemoveAt(trace, i)
    <3> PICK rest : rest = SubSeq(trace, i + 1, Len(trace))  OBVIOUS
    <3>1. rest \in Seq(Events)  OBVIOUS
    <3>2. trace' = head \o rest  BY <2>5 DEF RemoveAt
    <3> QED  BY <2>2, <3>1, <3>2
  <2> QED  BY <2>1, <2>3, <2>4, <2>5
<1> QED  BY <1>1, <1>2

\* No transfer is called a success or an ordinary failure in which credentials or
\* data went out unprotected, whatever events are lost, added or changed after the
\* server's banner (finish of crates/remote-ftp/src/transport.rs).
THEOREM JudgementIsSafe == TraceSpec => []FtpsIsPrivate
<1>1. TraceInit => TraceInv
  <2> SUFFICES ASSUME TraceInit  PROVE TraceInv  OBVIOUS
  <2>1. Negotiation \in Seq(Events) /\ Len(Negotiation) = 11 /\ Negotiation[1] = "220"
    BY DEF Negotiation, Events, Replies, Commands
  <2>2. PICK n \in 1..Len(Negotiation) : trace = SubSeq(Negotiation, 1, n)  BY DEF TraceInit
  <2> QED  BY <2>1, <2>2, SMTT(40) DEF TraceInv
<1>2. TraceInv /\ [Observe]_traceVars => TraceInv'  BY NextTrace
<1>3. TraceInv => FtpsIsPrivate  BY JudgedTraces
<1> QED  BY <1>1, <1>2, <1>3, PTL DEF TraceSpec

-----------------------------------------------------------------------------
(* The telemetry supervisor and the daemon's stop (TelemetrySupervisor,      *)
(* AppdShutdown).                                                            *)

Reasons ==
  Failures \cup {"ok", "none", "stale", "telemetry_stale", "shutting_down", "collector_unavailable",
                 "spawn_failed", "reducer_error", "helper_error"}

Snapshot ==
  [data : Flag, freshness : {"fresh", "warming_up", "stale", "unavailable"}, reason : Reasons]

\* A snapshot shown although no sample has succeeded has nothing to show.
Empty(snapshot) == ~snapshot.data /\ snapshot.freshness = "unavailable"

StoreInv ==
  /\ store \in [shown : Snapshot, succeeded : Flag, age : 0..MaxStale + 1, down : Flag]
  /\ store.down => Empty(store.shown) /\ store.shown.reason = "shutting_down"
  /\ ~store.succeeded => Empty(store.shown)

RestartInv == restart \in [pause : 0..MaxBackoff, backoff : InitialBackoff..MaxBackoff]

SupInv ==
  sup \in [step : {"idle", "sampling", "dropping", "reaping", "ended"}, waited : 0..SampleDeadline,
           outcome : Failures \cup {"none"}]

Message == [kind : {"request", "snapshot", "error", "malformed"}, generation : {"now", "zero"}]

\* There is a session wherever there is a message, and a message only during a
\* sample.
PipeInv ==
  \/ pipe = <<>>
  \/ /\ \E m \in Message : pipe = <<m>>
     /\ session /\ sup.step = "sampling"

SlotInv ==
  /\ child \in {"none", "alive", "dying", "dead"} /\ session \in BOOLEAN /\ signal \in BOOLEAN
  /\ killAck \in {"waiting", "sent", "dropped"}

TelemetryInv == StoreInv /\ RestartInv /\ SupInv /\ PipeInv /\ SlotInv

LEMMA NoDataIsEmpty ==
  ASSUME NEW reason \in Reasons
  PROVE  /\ [NoData EXCEPT !.reason = reason] \in Snapshot
         /\ Empty([NoData EXCEPT !.reason = reason])
         /\ [NoData EXCEPT !.reason = reason].reason = reason
<1>0. \A d : [[data |-> d, freshness |-> "unavailable", reason |-> "collector_unavailable"]
               EXCEPT !.reason = reason] = [data |-> d, freshness |-> "unavailable", reason |-> reason]
  OBVIOUS
<1>1. [NoData EXCEPT !.reason = reason]
        = [data |-> FALSE, freshness |-> "unavailable", reason |-> reason]
  BY <1>0, Zenon DEF NoData
<1> QED  BY <1>1, Flags DEF Snapshot, Empty

LEMMA FailureShown ==
  ASSUME NEW reason \in Reasons
  PROVE  /\ FailureSnapshot(reason) \in Snapshot
         /\ ~store.succeeded => Empty(FailureSnapshot(reason))
<1> PICK f : f = IF store.age > FreshAfter THEN "stale" ELSE "fresh"  OBVIOUS
<1>1. [data |-> TRUE, reason |-> reason, freshness |-> f] \in Snapshot  BY Flags DEF Snapshot
<1>2. CASE ~store.succeeded \/ store.age > MaxStale  BY <1>2, NoDataIsEmpty DEF FailureSnapshot
<1>3. CASE ~(~store.succeeded \/ store.age > MaxStale)  BY <1>1, <1>3 DEF FailureSnapshot
<1> QED  BY <1>2, <1>3

LEMMA PublishKeeps ==
  ASSUME StoreInv, NEW s \in Snapshot, ~store.succeeded => Empty(s), store' = Publish(s)
  PROVE  StoreInv'
<1>1. CASE store.down  BY <1>1 DEF StoreInv, Publish
<1>2. CASE ~store.down
  <2>1. store' = [store EXCEPT !.shown = s]  BY <1>2 DEF Publish
  <2>2. /\ store' \in [shown : Snapshot, succeeded : Flag, age : 0..MaxStale + 1, down : Flag]
        /\ store'.shown = s /\ store'.down = store.down /\ store'.succeeded = store.succeeded
    BY <2>1 DEF StoreInv
  <2> QED  BY <1>2, <2>2 DEF StoreInv
<1> QED  BY <1>1, <1>2

LEMMA SuccessShown ==
  ASSUME NEW f \in {"fresh", "warming_up"}, NEW s, s = [data |-> TRUE, reason |-> "ok", freshness |-> f],
         store' = [shown |-> s, succeeded |-> TRUE, age |-> 0, down |-> FALSE]
  PROVE  StoreInv'
<1>1. s \in Snapshot  BY Flags DEF Snapshot, Reasons
<1>2. 0 \in 0..MaxStale + 1  BY TelemetryTimesAssumption
<1>3. store' \in [shown : Snapshot, succeeded : Flag, age : 0..MaxStale + 1, down : Flag]
  BY <1>1, <1>2, Flags
<1>4. store'.succeeded /\ ~store'.down  BY Zenon
<1> QED  BY <1>3, <1>4, Zenon DEF StoreInv

LEMMA SuccessKeeps ==
  ASSUME StoreInv, NEW warming \in BOOLEAN, store' = PublishSuccess(warming)
  PROVE  StoreInv'
<1>1. CASE store.down  BY <1>1 DEF StoreInv, PublishSuccess
<1>2. CASE ~store.down
  <2> PICK f : f = IF warming THEN "warming_up" ELSE "fresh"  OBVIOUS
  <2>1. f \in {"fresh", "warming_up"}  BY Zenon
  <2>2. store' = [shown |-> [data |-> TRUE, reason |-> "ok", freshness |-> f],
                  succeeded |-> TRUE, age |-> 0, down |-> FALSE]
    BY <1>2 DEF PublishSuccess
  <2> QED  BY <2>1, <2>2, SuccessShown, Zenon
<1> QED  BY <1>1, <1>2

LEMMA RestartsAreTyped ==
  ASSUME RestartInv
  PROVE  /\ Scheduled \in [pause : 0..MaxBackoff, backoff : InitialBackoff..MaxBackoff]
         /\ NoRestart \in [pause : 0..MaxBackoff, backoff : InitialBackoff..MaxBackoff]
<1>1. /\ restart.backoff \in InitialBackoff..MaxBackoff
      /\ InitialBackoff \in Nat /\ MaxBackoff \in Nat /\ 0 < InitialBackoff /\ InitialBackoff <= MaxBackoff
  BY TelemetryTimesAssumption DEF RestartInv
<1> PICK b : b = Least(2 * restart.backoff, MaxBackoff)  OBVIOUS
<1>2. b \in InitialBackoff..MaxBackoff /\ restart.backoff \in 0..MaxBackoff  BY <1>1 DEF Least
<1>3. Scheduled = [pause |-> restart.backoff, backoff |-> b]  BY DEF Scheduled
<1> QED  BY <1>1, <1>2, <1>3 DEF NoRestart

LEMMA RestTyped ==
  /\ AtRest \in [step : {"idle", "sampling", "dropping", "reaping", "ended"}, waited : 0..SampleDeadline,
                 outcome : Failures \cup {"none"}]
  /\ AtRest.step = "idle"
  /\ \A step \in {"reaping", "ended"} :
       /\ [AtRest EXCEPT !.step = step] \in
            [step : {"idle", "sampling", "dropping", "reaping", "ended"}, waited : 0..SampleDeadline,
             outcome : Failures \cup {"none"}]
       /\ [AtRest EXCEPT !.step = step].step = step
BY TelemetryTimesAssumption DEF AtRest

LEMMA KilledTyped ==
  ASSUME child \in {"none", "alive", "dying", "dead"}
  PROVE  Killed \in {"none", "dying", "dead"} /\ (child = "none" => Killed = "none")
BY DEF Killed

LEMMA FailedKeepsInv ==
  ASSUME TelemetryInv, NEW failure \in Failures, Failed(failure)
  PROVE  TelemetryInv'
<1>1. /\ sup' = [step |-> "dropping", waited |-> 0, outcome |-> failure]
      /\ session' = FALSE /\ pipe' = <<>> /\ child' = Killed /\ UNCHANGED <<store, restart, signal, killAck>>
  BY DEF Failed
<1>2. SupInv'  BY <1>1, TelemetryTimesAssumption DEF SupInv
<1>3. SlotInv'
  <2>1. child' \in {"none", "alive", "dying", "dead"}  BY <1>1, KilledTyped DEF TelemetryInv, SlotInv
  <2> QED  BY <1>1, <2>1, Zenon DEF TelemetryInv, SlotInv
<1>4. PipeInv'  BY <1>1 DEF PipeInv
<1>5. StoreInv' /\ RestartInv'  BY <1>1 DEF TelemetryInv, StoreInv, RestartInv
<1> QED  BY <1>2, <1>3, <1>4, <1>5 DEF TelemetryInv

LEMMA FailurePublished ==
  ASSUME StoreInv, NEW reason \in Reasons, store' = Publish(FailureSnapshot(reason))
  PROVE  StoreInv'
BY FailureShown, PublishKeeps

LEMMA ElapseKeeps ==
  ASSUME TelemetryInv, Elapse
  PROVE  TelemetryInv'
<1> PICK age : age = Least(store.age + 1, MaxStale + 1)  OBVIOUS
<1> PICK pause : pause = IF restart.pause = 0 THEN 0 ELSE restart.pause - 1  OBVIOUS
<1> PICK waited : waited = IF sup.step = "sampling" THEN Least(sup.waited + 1, SampleDeadline) ELSE 0  OBVIOUS
<1>1. /\ store' = [store EXCEPT !.age = age] /\ restart' = [restart EXCEPT !.pause = pause]
      /\ sup' = [sup EXCEPT !.waited = waited] /\ UNCHANGED <<child, session, pipe, signal, killAck>>
  BY DEF Elapse
<1>2. age \in 0..MaxStale + 1  BY TelemetryTimesAssumption DEF TelemetryInv, StoreInv, Least
<1>3. pause \in 0..MaxBackoff  BY TelemetryTimesAssumption DEF TelemetryInv, RestartInv
<1>4. waited \in 0..SampleDeadline  BY TelemetryTimesAssumption DEF TelemetryInv, SupInv, Least
<1>5. StoreInv'
  <2>1. /\ store' \in [shown : Snapshot, succeeded : Flag, age : 0..MaxStale + 1, down : Flag]
        /\ store'.shown = store.shown /\ store'.down = store.down /\ store'.succeeded = store.succeeded
    BY <1>1, <1>2 DEF TelemetryInv, StoreInv
  <2> QED  BY <2>1 DEF TelemetryInv, StoreInv
<1>6. RestartInv'  BY <1>1, <1>3 DEF TelemetryInv, RestartInv
<1>7. SupInv' /\ sup'.step = sup.step  BY <1>1, <1>4 DEF TelemetryInv, SupInv
<1>8. PipeInv'  BY <1>1, <1>7 DEF TelemetryInv, PipeInv
<1>9. SlotInv'  BY <1>1 DEF TelemetryInv, SlotInv
<1> QED  BY <1>5, <1>6, <1>7, <1>8, <1>9 DEF TelemetryInv

LEMMA ClientAsksKeeps ==
  ASSUME TelemetryInv, ClientAsks
  PROVE  TelemetryInv'
<1>1. /\ store' = [store EXCEPT !.shown = Refreshed]
      /\ UNCHANGED <<sup, child, session, pipe, restart, signal, killAck>>
  BY DEF ClientAsks
<1>2. StoreInv'
  <2> PICK old : old = [data |-> TRUE, freshness |-> "stale", reason |-> "stale"]  OBVIOUS
  <2>0. old \in Snapshot  BY Flags DEF Snapshot, Reasons
  <2>1. CASE store.down \/ ~store.succeeded \/ store.age <= FreshAfter
    <3>1. store' = store  BY <1>1, <2>1 DEF Refreshed, TelemetryInv, StoreInv
    <3> QED  BY <3>1 DEF TelemetryInv, StoreInv
  <2>2. CASE ~(store.down \/ ~store.succeeded \/ store.age <= FreshAfter)
    <3>1. Refreshed \in Snapshot
      <4>1. "telemetry_stale" \in Reasons  BY DEF Reasons
      <4> QED  BY <2>0, <2>2, <4>1, NoDataIsEmpty DEF Refreshed
    <3>2. store' = Publish(Refreshed)  BY <1>1, <2>2 DEF Publish
    <3> QED  BY <2>2, <3>1, <3>2, PublishKeeps DEF TelemetryInv
  <2> QED  BY <2>1, <2>2
<1>3. SupInv' /\ RestartInv' /\ PipeInv' /\ SlotInv'
  BY <1>1 DEF TelemetryInv, SupInv, RestartInv, PipeInv, SlotInv
<1> QED  BY <1>2, <1>3 DEF TelemetryInv

LEMMA HelperKeeps ==
  ASSUME TelemetryInv, HelperAnswers \/ HelperExits
  PROVE  TelemetryInv'
<1>1. CASE HelperAnswers
  <2>1. PICK kind \in {"snapshot", "error", "malformed"}, generation \in {pipe[1].generation, "zero"} :
          pipe' = [pipe EXCEPT ![1] = [kind |-> kind, generation |-> generation]]
    BY <1>1 DEF HelperAnswers
  <2>2. pipe # <<>> /\ UNCHANGED <<sup, child, session, store, restart, signal, killAck>>
    BY <1>1 DEF HelperAnswers
  <2>3. PICK m \in Message : pipe = <<m>>  BY <2>2 DEF TelemetryInv, PipeInv
  <2>4. session /\ sup.step = "sampling"  BY <2>2 DEF TelemetryInv, PipeInv
  <2> PICK n : n = [kind |-> kind, generation |-> generation]  OBVIOUS
  <2>5. n \in Message  BY <2>3 DEF Message
  <2>6. pipe' = <<n>>  BY <2>1, <2>3
  <2>7. PipeInv'  BY <2>2, <2>4, <2>5, <2>6 DEF PipeInv
  <2>8. StoreInv' /\ SupInv' /\ RestartInv' /\ SlotInv'
    BY <2>2 DEF TelemetryInv, StoreInv, SupInv, RestartInv, SlotInv
  <2> QED  BY <2>7, <2>8 DEF TelemetryInv
<1>2. CASE HelperExits
  <2>1. child' = "dead" /\ UNCHANGED <<sup, session, pipe, store, restart, signal, killAck>>
    BY <1>2 DEF HelperExits
  <2>2. StoreInv' /\ SupInv' /\ RestartInv' /\ PipeInv'
    BY <2>1 DEF TelemetryInv, StoreInv, SupInv, RestartInv, PipeInv
  <2>3. SlotInv'  BY <2>1 DEF TelemetryInv, SlotInv
  <2> QED  BY <2>2, <2>3 DEF TelemetryInv
<1> QED  BY <1>1, <1>2

LEMMA SampleKeeps ==
  ASSUME TelemetryInv, Sample
  PROVE  TelemetryInv'
<1>0. sup.step = "idle" /\ UNCHANGED <<signal, killAck>>  BY Zenon DEF Sample
<1>1. CASE /\ session \/ child = "none"
           /\ session' = TRUE /\ child' = (IF session THEN child ELSE "alive")
           /\ pipe' = Append(Outdated, SampleRequest)
           /\ sup' = [step |-> "sampling", waited |-> 0, outcome |-> "none"]
           /\ UNCHANGED <<store, restart>>
  <2>1. pipe = <<>>  BY <1>0 DEF TelemetryInv, PipeInv
  <2>2. Outdated = <<>>  BY <2>1 DEF Outdated
  <2>3. pipe' = <<SampleRequest>>  BY <1>1, <2>2
  <2>4. SampleRequest \in Message  BY DEF SampleRequest, Message
  <2>5. SupInv' /\ sup'.step = "sampling"  BY <1>1, TelemetryTimesAssumption DEF SupInv
  <2>6. session'  BY <1>1, Zenon
  <2>7. PipeInv'  BY <2>3, <2>4, <2>5, <2>6 DEF PipeInv
  <2>8. SlotInv'
    <3>1. child' \in {"none", "alive", "dying", "dead"}  BY <1>1 DEF TelemetryInv, SlotInv
    <3> QED  BY <1>0, <1>1, <3>1, Zenon DEF TelemetryInv, SlotInv
  <2>9. StoreInv' /\ RestartInv'  BY <1>1 DEF TelemetryInv, StoreInv, RestartInv
  <2> QED  BY <2>5, <2>7, <2>8, <2>9 DEF TelemetryInv
<1>2. CASE /\ store' = Publish(FailureSnapshot("spawn_failed")) /\ restart' = Scheduled
           /\ UNCHANGED <<sup, child, session, pipe>>
  <2>1. "spawn_failed" \in Reasons  BY DEF Reasons
  <2>2. StoreInv'  BY <1>2, <2>1, FailurePublished DEF TelemetryInv
  <2>3. RestartInv'  BY <1>2, RestartsAreTyped DEF TelemetryInv, RestartInv
  <2>4. SupInv' /\ PipeInv' /\ SlotInv'  BY <1>0, <1>2 DEF TelemetryInv, SupInv, PipeInv, SlotInv
  <2> QED  BY <2>2, <2>3, <2>4 DEF TelemetryInv
<1> QED  BY <1>1, <1>2, Zenon DEF Sample

LEMMA CollectedKeeps ==
  ASSUME TelemetryInv, Collected
  PROVE  TelemetryInv'
<1>1. CASE \E failure \in Failures : Failed(failure)  BY <1>1, FailedKeepsInv
<1>2. CASE /\ sup' = AtRest /\ pipe # <<>> /\ pipe' = Tail(pipe)
           /\ UNCHANGED <<child, session, signal, killAck>>
           /\ \/ restart' = NoRestart /\ \E warming \in BOOLEAN : store' = PublishSuccess(warming)
              \/ UNCHANGED restart /\ store' = Publish(FailureSnapshot("reducer_error"))
              \/ restart' = NoRestart /\ store' = Publish(FailureSnapshot("helper_error"))
  <2>1. "reducer_error" \in Reasons /\ "helper_error" \in Reasons  BY DEF Reasons
  <2>2. StoreInv'  BY <1>2, <2>1, FailurePublished, SuccessKeeps DEF TelemetryInv
  <2>3. RestartInv'
    <3>1. restart' = NoRestart \/ restart' = restart  BY <1>2
    <3> QED  BY <3>1, RestartsAreTyped DEF TelemetryInv, RestartInv
  <2>4. SupInv'  BY <1>2, RestTyped DEF SupInv
  <2>5. PICK m \in Message : pipe = <<m>>  BY <1>2 DEF TelemetryInv, PipeInv
  <2>6. pipe' = <<>>  BY <1>2, <2>5
  <2>7. PipeInv'  BY <2>6 DEF PipeInv
  <2>8. SlotInv'  BY <1>2 DEF TelemetryInv, SlotInv
  <2> QED  BY <2>2, <2>3, <2>4, <2>7, <2>8 DEF TelemetryInv
<1>3. {"mismatch", "malformed", "eof", "timeout"} \subseteq Failures  BY DEF Failures
<1> QED  BY <1>1, <1>2, <1>3, Zenon DEF Collected

LEMMA DroppedKeeps ==
  ASSUME TelemetryInv, Dropped
  PROVE  TelemetryInv'
<1>1. /\ sup.step = "dropping" /\ Reap /\ sup' = AtRest
      /\ store' = Publish(FailureSnapshot(sup.outcome)) /\ restart' = Scheduled
      /\ UNCHANGED <<session, pipe, signal, killAck>>
  BY DEF Dropped
<1>2. sup.outcome \in Reasons  BY DEF TelemetryInv, SupInv, Reasons
<1>3. StoreInv'  BY <1>1, <1>2, FailurePublished DEF TelemetryInv
<1>4. RestartInv'  BY <1>1, RestartsAreTyped DEF TelemetryInv, RestartInv
<1>5. SupInv'  BY <1>1, RestTyped DEF SupInv
<1>6. PipeInv'  BY <1>1 DEF TelemetryInv, PipeInv
<1>7. SlotInv'  BY <1>1 DEF TelemetryInv, SlotInv, Reap
<1> QED  BY <1>3, <1>4, <1>5, <1>6, <1>7 DEF TelemetryInv

LEMMA LatchKeeps ==
  ASSUME TelemetryInv, Latch
  PROVE  TelemetryInv'
<1>1. /\ store' = [store EXCEPT !.down = TRUE, !.shown = [NoData EXCEPT !.reason = "shutting_down"]]
      /\ child' = Killed /\ killAck' = "sent" /\ session' = FALSE /\ pipe' = <<>>
      /\ sup' = [AtRest EXCEPT !.step = "reaping"] /\ UNCHANGED <<restart, signal>>
  BY DEF Latch
<1>2. StoreInv'
  <2> PICK s : s = [NoData EXCEPT !.reason = "shutting_down"]  OBVIOUS
  <2>0. "shutting_down" \in Reasons  BY DEF Reasons
  <2>1. s \in Snapshot /\ Empty(s) /\ s.reason = "shutting_down"  BY <2>0, NoDataIsEmpty
  <2>2. store' = [store EXCEPT !.down = TRUE, !.shown = s]  BY <1>1
  <2>3. /\ store' \in [shown : Snapshot, succeeded : Flag, age : 0..MaxStale + 1, down : Flag]
        /\ store'.shown = s
    BY <2>1, <2>2, Flags DEF TelemetryInv, StoreInv
  <2> QED  BY <2>1, <2>3 DEF StoreInv
<1>3. RestartInv' /\ SupInv' /\ PipeInv'  BY <1>1, RestTyped DEF TelemetryInv, RestartInv, SupInv, PipeInv
<1>4. SlotInv'
  <2>1. child' \in {"none", "alive", "dying", "dead"}  BY <1>1, KilledTyped DEF TelemetryInv, SlotInv
  <2> QED  BY <1>1, <2>1, Zenon DEF TelemetryInv, SlotInv
<1> QED  BY <1>2, <1>3, <1>4 DEF TelemetryInv

LEMMA EndsKeeps ==
  ASSUME TelemetryInv, SupervisorEnds
  PROVE  TelemetryInv'
<1>1. /\ sup.step = "reaping" /\ Reap /\ sup' = [AtRest EXCEPT !.step = "ended"]
      /\ UNCHANGED <<session, pipe, store, restart, signal, killAck>>
  BY DEF SupervisorEnds
<1>2. StoreInv' /\ RestartInv' /\ SupInv' /\ PipeInv'
  BY <1>1, RestTyped DEF TelemetryInv, StoreInv, RestartInv, SupInv, PipeInv
<1>3. SlotInv'  BY <1>1 DEF TelemetryInv, SlotInv, Reap
<1> QED  BY <1>2, <1>3 DEF TelemetryInv

LEMMA NextTelemetry ==
  ASSUME TelemetryInv, TelemetryNext \/ UNCHANGED telemetryVars
  PROVE  TelemetryInv'
<1>1. CASE UNCHANGED telemetryVars
  BY <1>1 DEF telemetryVars, TelemetryInv, StoreInv, RestartInv, SupInv, PipeInv, SlotInv
<1> QED
  BY <1>1, ElapseKeeps, ClientAsksKeeps, HelperKeeps, SampleKeeps, CollectedKeeps, DroppedKeeps,
     LatchKeeps, EndsKeeps, Zenon DEF TelemetryNext

LEMMA InvIsHonest ==
  ASSUME TelemetryInv
  PROVE  TelemetryIsHonest
<1> USE DEF TelemetryInv
<1>1. TelemetryTypeOK
  <2>1. sup.step \in {"idle", "sampling", "dropping", "reaping", "ended"}
        /\ sup.waited \in 0..SampleDeadline /\ sup.outcome \in Failures \cup {"none"}
    BY DEF SupInv
  <2>2. pipe # <<>> => session  BY DEF PipeInv
  <2>3. store.age \in 0..MaxStale + 1 /\ store.shown \in Snapshot  BY DEF StoreInv
  <2>4. store.shown.data \in Flag  BY <2>3 DEF Snapshot
  <2>5. restart.pause \in 0..MaxBackoff /\ restart.backoff \in InitialBackoff..MaxBackoff  BY DEF RestartInv
  <2>6. store.shown.data \in BOOLEAN  BY <2>4, Zenon DEF Flag
  <2> QED  BY <2>1, <2>2, <2>3, <2>5, <2>6, Zenon DEF TelemetryTypeOK, SlotInv
<1>2. AnswersAreHonest
  <2>0. /\ store.age \in Nat /\ FreshAfter \in Nat /\ MaxStale \in Nat /\ FreshAfter < MaxStale
    BY TelemetryTimesAssumption DEF StoreInv
  <2>1. CASE store.down \/ ~store.succeeded
    <3>1. Refreshed = store.shown /\ Empty(store.shown)  BY <2>1 DEF Refreshed, StoreInv
    <3>2. store.down => store.shown.reason = "shutting_down"  BY DEF StoreInv
    <3> QED  BY <3>1, <3>2 DEF AnswersAreHonest, Empty, BindingsAvailable
  <2>2. CASE ~store.down /\ store.succeeded
    <3>1. CASE store.age <= FreshAfter  BY <2>0, <2>2, <3>1 DEF AnswersAreHonest
    <3>2. CASE store.age > FreshAfter /\ store.age <= MaxStale
      <4>1. Refreshed.freshness = "stale"  BY <2>0, <2>2, <3>2 DEF Refreshed
      <4> QED  BY <2>2, <3>2, <4>1 DEF AnswersAreHonest
    <3>3. CASE store.age > MaxStale
      <4>1. Refreshed = [NoData EXCEPT !.reason = "telemetry_stale"]  BY <2>0, <2>2, <3>3 DEF Refreshed
      <4>2. Empty(Refreshed)
        <5>1. "telemetry_stale" \in Reasons  BY DEF Reasons
        <5> QED  BY <4>1, <5>1, NoDataIsEmpty
      <4> QED  BY <2>2, <4>2 DEF AnswersAreHonest, Empty
    <3> QED  BY <2>0, <3>1, <3>2, <3>3
  <2> QED  BY <2>1, <2>2
<1>3. ExchangeInStep
  <2>1. CASE pipe = <<>>  BY <2>1 DEF ExchangeInStep
  <2>2. CASE pipe # <<>>
    <3>1. PICK m \in Message : pipe = <<m>>  BY <2>2 DEF PipeInv
    <3>2. sup.step = "sampling"  BY <2>2 DEF PipeInv
    <3>3. m.generation # "then"  BY DEF Message
    <3> QED  BY <3>1, <3>2, <3>3 DEF ExchangeInStep
  <2> QED  BY <2>1, <2>2
<1> QED  BY <1>1, <1>2, <1>3 DEF TelemetryIsHonest

LEMMA InitTelemetry ==
  ASSUME TelemetryInit
  PROVE  TelemetryInv
<1>1. /\ sup = AtRest /\ child = "none" /\ session = FALSE /\ pipe = <<>>
      /\ store = [shown |-> NoData, succeeded |-> FALSE, age |-> 0, down |-> FALSE]
      /\ restart = [pause |-> 0, backoff |-> InitialBackoff] /\ signal = FALSE /\ killAck = "waiting"
  BY Zenon DEF TelemetryInit
<1>2. NoData \in Snapshot /\ Empty(NoData)  BY Flags DEF NoData, Snapshot, Reasons, Empty
<1>3. StoreInv
  <2>1. 0 \in 0..MaxStale + 1  BY TelemetryTimesAssumption
  <2>2. store \in [shown : Snapshot, succeeded : Flag, age : 0..MaxStale + 1, down : Flag]
    BY <1>1, <1>2, <2>1, Flags
  <2>3. store.shown = NoData /\ ~store.down  BY <1>1
  <2> QED  BY <1>2, <2>2, <2>3 DEF StoreInv
<1>4. RestartInv  BY <1>1, TelemetryTimesAssumption DEF RestartInv
<1>5. SupInv /\ PipeInv  BY <1>1, RestTyped DEF SupInv, PipeInv
<1>6. SlotInv  BY <1>1, Zenon DEF SlotInv
<1> QED  BY <1>3, <1>4, <1>5, <1>6 DEF TelemetryInv

\* Clients are told the truth about the age of what they are shown, and every
\* sample is answered by the reply to its own request, for any freshness,
\* deadline and backoff (telemetry.rs run, lib.rs refresh_snapshot).
THEOREM TelemetryStaysHonest == TelemetrySpec => []TelemetryIsHonest
<1>1. TelemetryInit => TelemetryInv  BY InitTelemetry
<1>2. TelemetryInv /\ [TelemetryNext \/ StopTelemetry]_telemetryVars => TelemetryInv'
  <2> SUFFICES ASSUME TelemetryInv, [TelemetryNext \/ StopTelemetry]_telemetryVars  PROVE TelemetryInv'
    OBVIOUS
  <2>1. CASE StopTelemetry
    <3>1. signal' = TRUE /\ UNCHANGED <<sup, child, session, pipe, store, restart, killAck>>
      BY <2>1, Zenon DEF StopTelemetry
    <3>2. StoreInv' /\ RestartInv' /\ SupInv' /\ PipeInv'
      BY <3>1 DEF TelemetryInv, StoreInv, RestartInv, SupInv, PipeInv
    <3>3. SlotInv'  BY <3>1, Zenon DEF TelemetryInv, SlotInv
    <3> QED  BY <3>2, <3>3 DEF TelemetryInv
  <2> QED  BY <2>1, NextTelemetry
<1>3. TelemetryInv => TelemetryIsHonest  BY InvIsHonest
<1> QED  BY <1>1, <1>2, <1>3, PTL DEF TelemetrySpec

\* The tasks there are: the sessions' cleanup is spawned with the server's stop,
\* the reaper's task once the kill is acknowledged.
Spawned ==
  AtStart \cup (IF main \in {"serving", "notes_intent"} THEN {} ELSE {"remote_cleanup"})
          \cup (IF main \in {"draining", "reaping", "unlinking", "done"} THEN {"reaper_task"} ELSE {})

TasksInv ==
  /\ main \in {"serving", "notes_intent", "server", "kill_ack", "draining", "reaping", "unlinking", "done"}
  /\ taskState \in [Spawned -> {"running", "ended", "aborted"}]
  /\ main \in {"reaping", "unlinking", "done"} => \A t \in Spawned : taskState[t] # "running"
  /\ "notes" \in stopTold => taskState["server"] # "running" \/ overdue # "no"

\* The supervisor's end comes with its child's, unless the deadline passed, and
\* the last kill comes after it.
HelperInv ==
  /\ overdue \in {"no", "server", "all"}
  /\ main \in {"reaping", "unlinking", "done"} => sup.step = "ended"
  /\ main \in {"unlinking", "done"} => child # "alive"
  /\ sup.step = "ended" /\ overdue # "all" => child = "none"
  /\ main # "done" => socket

ShutInv == TelemetryInv /\ TasksInv /\ HelperInv

\* What the supervisor's steps leave as it is for the stop.
LEMMA EndedStaysEnded ==
  ASSUME TelemetryInv, TelemetryNext
  PROVE  /\ sup.step = "ended" => sup'.step = "ended" /\ (child # "alive" => child' # "alive")
                                  /\ (child = "none" => child' = "none")
         /\ sup.step # "ended" /\ sup'.step = "ended" => child' = "none"
<1>0. Elapse => sup'.step = sup.step /\ UNCHANGED child  BY DEF Elapse, TelemetryInv, SupInv
<1>1. CASE Elapse \/ ClientAsks \/ HelperAnswers  BY <1>0, <1>1 DEF ClientAsks, HelperAnswers
<1>2. CASE HelperExits  BY <1>2 DEF HelperExits
<1>3. CASE Sample
  <2>1. sup.step = "idle" /\ sup'.step \in {"idle", "sampling"}  BY <1>3 DEF Sample
  <2> QED  BY <2>1
<1>4. CASE Collected
  <2>1. sup.step = "sampling" /\ (sup' = AtRest \/ \E failure \in Failures : Failed(failure))
    BY <1>4, Zenon DEF Collected, Failures
  <2>2. sup'.step \in {"idle", "dropping"}  BY <2>1, RestTyped DEF Failed
  <2> QED  BY <2>1, <2>2
<1>5. CASE Dropped
  <2>1. sup.step = "dropping" /\ sup'.step = "idle"  BY <1>5, RestTyped DEF Dropped
  <2> QED  BY <2>1
<1>6. CASE Latch
  <2>1. sup.step \in {"idle", "sampling"} /\ sup'.step = "reaping"  BY <1>6, RestTyped DEF Latch
  <2> QED  BY <2>1
<1>7. CASE SupervisorEnds
  BY <1>7 DEF SupervisorEnds, Reap
<1> QED  BY <1>1, <1>2, <1>3, <1>4, <1>5, <1>6, <1>7 DEF TelemetryNext

\* A step that takes the child or kills it and leaves the rest of the telemetry.
LEMMA ChildKeeps ==
  ASSUME TelemetryInv, UNCHANGED <<sup, session, pipe, store, restart, signal, killAck>>,
         child' \in {"none", "alive", "dying", "dead"}
  PROVE  TelemetryInv'
<1>1. StoreInv' /\ RestartInv' /\ SupInv' /\ PipeInv'
  BY DEF TelemetryInv, StoreInv, RestartInv, SupInv, PipeInv
<1>2. SlotInv'  BY Zenon DEF TelemetryInv, SlotInv
<1> QED  BY <1>1, <1>2 DEF TelemetryInv

LEMMA SlotTyped ==
  ASSUME TelemetryInv
  PROVE  child \in {"none", "alive", "dying", "dead"}
BY DEF TelemetryInv, SlotInv

LEMMA TaskSpawned ==
  ASSUME TasksInv, NEW t, t \notin Spawned, main' \in {"server", "draining"},
         Spawned' = Spawned \cup {t}, t # "server", taskState' = With(t),
         stopTold' = stopTold \/ (stopTold' = stopTold \cup {"server"}), overdue' = overdue
  PROVE  TasksInv'
<1>1. DOMAIN taskState = Spawned  BY DEF TasksInv
<1>2. taskState' \in [Spawned' -> {"running", "ended", "aborted"}]  BY <1>1 DEF With, TasksInv
<1>3. "server" \in Spawned  BY DEF Spawned, AtStart
<1>4. taskState'["server"] = taskState["server"]  BY <1>1, <1>3 DEF With
<1> QED  BY <1>2, <1>4 DEF TasksInv

LEMMA StopTasks ==
  ASSUME ShutInv, ShutdownNext
  PROVE  TasksInv'
<1> USE DEF ShutInv
<1>0. DOMAIN taskState = Spawned /\ "server" \in Spawned  BY DEF TasksInv, Spawned, AtStart
<1>1. CASE UNCHANGED shutdownVars  BY <1>1 DEF shutdownVars, TasksInv, Spawned
<1>2. ASSUME NEW t, t \in DOMAIN taskState, ~Gone(t),
             taskState' = [taskState EXCEPT ![t] = "ended"], UNCHANGED <<main, stopTold, overdue>>
      PROVE  TasksInv'
  <2>1. main \notin {"reaping", "unlinking", "done"}  BY <1>0, <1>2 DEF TasksInv, Gone
  <2>2. Spawned' = Spawned  BY <1>2 DEF Spawned
  <2> QED  BY <1>0, <1>2, <2>1, <2>2 DEF TasksInv
<1>3. CASE \E t \in Others : TaskEnds(t)  BY <1>2, <1>3 DEF TaskEnds
<1>4. CASE StopBegins  BY <1>4 DEF StopBegins, TasksInv, Spawned
<1>5. CASE ServerStops
  <2>1. main = "notes_intent" /\ main' = "server" /\ stopTold' = stopTold \cup {"server"}
        /\ taskState' = With("remote_cleanup") /\ overdue' = overdue
    BY <1>5 DEF ServerStops
  <2>2. "remote_cleanup" \notin Spawned /\ Spawned' = Spawned \cup {"remote_cleanup"}
    BY <2>1 DEF Spawned, AtStart
  <2> QED  BY <2>1, <2>2, TaskSpawned
<1>6. CASE NotesStop
  <2>1. Spawned' = Spawned  BY <1>6 DEF NotesStop, Spawned
  <2> QED  BY <1>6, <2>1 DEF NotesStop, TasksInv, Gone
<1>7. CASE KillAcknowledged
  <2>1. main = "kill_ack" /\ main' = "draining" /\ stopTold' = stopTold
        /\ taskState' = With("reaper_task") /\ overdue' = overdue
    BY <1>7 DEF KillAcknowledged
  <2>2. "reaper_task" \notin Spawned /\ Spawned' = Spawned \cup {"reaper_task"}
    BY <2>1 DEF Spawned, AtStart
  <2> QED  BY <2>1, <2>2, TaskSpawned
<1>8. CASE ReaperTaskEnds  BY <1>2, <1>8 DEF ReaperTaskEnds
<1>9. CASE Drained
  <2>1. Spawned' = Spawned  BY <1>9 DEF Drained, Spawned
  <2> QED  BY <1>0, <1>9, <2>1 DEF Drained, TasksInv, Gone
<1>10. CASE AbortAll
  <2>1. Spawned' = Spawned  BY <1>10 DEF AbortAll, Spawned
  <2>2. \A t \in Spawned : taskState'[t] # "running" /\ taskState'[t] \in {"running", "ended", "aborted"}
    BY <1>0, <1>10 DEF AbortAll, Gone, TasksInv
  <2>3. taskState' \in [Spawned -> {"running", "ended", "aborted"}]
    BY <1>0, <1>10, <2>2 DEF AbortAll
  <2> QED  BY <1>0, <1>10, <2>1, <2>2, <2>3 DEF AbortAll, TasksInv
<1>11. CASE EnsureReaped \/ RemoveSocket
  <2>1. Spawned' = Spawned  BY <1>11 DEF EnsureReaped, RemoveSocket, Spawned
  <2> QED  BY <1>11, <2>1 DEF EnsureReaped, RemoveSocket, TasksInv
<1>12. CASE DeadlinePasses
  <2>1. Spawned' = Spawned  BY <1>12 DEF DeadlinePasses, Spawned
  <2> QED  BY <1>12, <2>1 DEF DeadlinePasses, TasksInv
<1> QED
  BY <1>1, <1>3, <1>4, <1>5, <1>6, <1>7, <1>8, <1>9, <1>10, <1>11, <1>12 DEF ShutdownNext

LEMMA StopHelper ==
  ASSUME ShutInv, ShutdownNext
  PROVE  HelperInv' /\ TelemetryInv'
<1> USE DEF ShutInv
<1>1. CASE main # "done" /\ TelemetryNext /\ UNCHANGED shutdownVars
  <2>1. TelemetryInv'  BY <1>1, NextTelemetry
  <2>2. HelperInv'  BY <1>1, EndedStaysEnded DEF shutdownVars, HelperInv
  <2> QED  BY <2>1, <2>2
<1>2. CASE (\E t \in Others : TaskEnds(t)) \/ ServerStops \/ NotesStop \/ Drained \/ DeadlinePasses
  <2>1. UNCHANGED telemetryVars /\ socket' = socket
    BY <1>2, Zenon DEF TaskEnds, ServerStops, NotesStop, Drained, DeadlinePasses
  <2>2. TelemetryInv'  BY <2>1, NextTelemetry
  <2>3. HelperInv'
    BY <1>2, <2>1 DEF TaskEnds, ServerStops, NotesStop, Drained, DeadlinePasses, HelperInv, telemetryVars,
       TelemetryGone
  <2> QED  BY <2>2, <2>3
<1>3. CASE StopBegins
  <2>1. signal' = TRUE /\ main = "serving" /\ main' = "notes_intent"
        /\ UNCHANGED <<overdue, socket, sup, child, session, pipe, store, restart, killAck>>
    BY <1>3, Zenon DEF StopBegins
  <2>2. StoreInv' /\ RestartInv' /\ SupInv' /\ PipeInv'
    BY <2>1 DEF TelemetryInv, StoreInv, RestartInv, SupInv, PipeInv
  <2>3. SlotInv'  BY <2>1, Zenon DEF TelemetryInv, SlotInv
  <2>4. HelperInv'  BY <2>1 DEF HelperInv
  <2> QED  BY <2>2, <2>3, <2>4 DEF TelemetryInv
<1>4. CASE KillAcknowledged \/ ReaperTaskEnds \/ EnsureReaped
  <2>1. UNCHANGED <<overdue, socket, sup, session, pipe, store, restart, signal, killAck>>
    BY <1>4, Zenon DEF KillAcknowledged, ReaperTaskEnds, EnsureReaped
  <2>2. child' \in {child, Killed, "none"}
    BY <1>4 DEF KillAcknowledged, ReaperTaskEnds, EnsureReaped, KillHelper, Reap
  <2>3. /\ Killed \in {"none", "dying", "dead"} /\ (child = "none" => Killed = "none")
        /\ child \in {"none", "alive", "dying", "dead"}
    BY SlotTyped, KilledTyped
  <2>4. TelemetryInv'  BY <2>1, <2>2, <2>3, ChildKeeps
  <2>5. CASE KillAcknowledged
    <3>1. main = "kill_ack" /\ main' = "draining"  BY <2>5 DEF KillAcknowledged
    <3> QED  BY <2>1, <2>2, <2>3, <2>4, <3>1 DEF HelperInv
  <2>6. CASE ReaperTaskEnds
    <3>1. main' = main  BY <2>6 DEF ReaperTaskEnds
    <3> QED  BY <2>1, <2>2, <2>3, <2>4, <3>1 DEF HelperInv
  <2>7. CASE EnsureReaped
    <3>1. main = "reaping" /\ main' = "unlinking" /\ child' = Killed  BY <2>7 DEF EnsureReaped, KillHelper
    <3> QED  BY <2>1, <2>3, <2>4, <3>1 DEF HelperInv
  <2> QED  BY <1>4, <2>5, <2>6, <2>7
<1>5. CASE AbortAll
  <2>1. /\ main = "draining" /\ overdue = "all" /\ main' = "reaping"
        /\ sup' = [AtRest EXCEPT !.step = "ended"] /\ session' = FALSE /\ pipe' = <<>>
        /\ UNCHANGED <<overdue, socket, child, store, restart, signal>>
    BY <1>5, Zenon DEF AbortAll
  <2>2. killAck' \in {"waiting", "sent", "dropped"}  BY <1>5 DEF AbortAll, TelemetryInv, SlotInv
  <2>3. StoreInv' /\ RestartInv' /\ SupInv' /\ PipeInv' /\ sup'.step = "ended"
    BY <2>1, RestTyped DEF TelemetryInv, StoreInv, RestartInv, SupInv, PipeInv
  <2>4. SlotInv'  BY <2>1, <2>2, Zenon DEF TelemetryInv, SlotInv
  <2>5. HelperInv'  BY <2>1, <2>3 DEF HelperInv
  <2> QED  BY <2>3, <2>4, <2>5 DEF TelemetryInv
<1>6. CASE RemoveSocket
  <2>1. /\ main = "unlinking" /\ main' = "done" /\ child' = (IF child = "dead" THEN "none" ELSE child)
        /\ UNCHANGED <<overdue, sup, session, pipe, store, restart, signal, killAck>>
    BY <1>6, Zenon DEF RemoveSocket
  <2>2. child' \in {"none", "alive", "dying", "dead"}  BY <2>1, SlotTyped
  <2>3. TelemetryInv'  BY <2>1, <2>2, ChildKeeps
  <2>4. HelperInv'  BY <2>1 DEF HelperInv
  <2> QED  BY <2>3, <2>4
<1> QED  BY <1>1, <1>2, <1>3, <1>4, <1>5, <1>6 DEF ShutdownNext

\* However the daemon stops, within its deadline or not, with a helper that
\* hangs, dies or is being started, the notes outlive the server and no task or
\* unkilled child is left when the socket is removed (shutdown_runtime_until of
\* bins/appd/src/main.rs); the telemetry stays honest throughout.
THEOREM StopsLeaveNothing == ShutdownSpec => [](StopLeavesNothing /\ TelemetryIsHonest)
<1>1. ShutdownInit => ShutInv
  <2> SUFFICES ASSUME ShutdownInit  PROVE ShutInv  OBVIOUS
  <2>1. TelemetryInv  BY InitTelemetry DEF ShutdownInit
  <2>2. /\ main = "serving" /\ taskState = [t \in AtStart |-> "running"] /\ stopTold = {}
        /\ overdue = "no" /\ socket = TRUE /\ sup.step = "idle"
    BY RestTyped DEF ShutdownInit, TelemetryInit
  <2>3. TasksInv  BY <2>2 DEF TasksInv, Spawned
  <2>4. HelperInv  BY <2>2 DEF HelperInv
  <2> QED  BY <2>1, <2>3, <2>4 DEF ShutInv
<1>2. ShutInv /\ [ShutdownNext]_<<shutdownVars, telemetryVars>> => ShutInv'
  <2> SUFFICES ASSUME ShutInv, [ShutdownNext]_<<shutdownVars, telemetryVars>>  PROVE ShutInv'  OBVIOUS
  <2>1. CASE UNCHANGED <<shutdownVars, telemetryVars>>
    <3>1. TelemetryInv'  BY <2>1, NextTelemetry DEF ShutInv
    <3>2. TasksInv' /\ HelperInv'
      BY <2>1 DEF shutdownVars, telemetryVars, ShutInv, TasksInv, Spawned, HelperInv
    <3> QED  BY <3>1, <3>2 DEF ShutInv
  <2> QED  BY <2>1, StopTasks, StopHelper DEF ShutInv
<1>3. ShutInv => StopLeavesNothing /\ TelemetryIsHonest
  <2> SUFFICES ASSUME ShutInv  PROVE StopLeavesNothing /\ TelemetryIsHonest  OBVIOUS
  <2>1. TelemetryIsHonest  BY InvIsHonest DEF ShutInv
  <2>2. NotesOutliveServer  BY DEF ShutInv, TasksInv, NotesOutliveServer, Gone
  <2>3. ~socket => main = "done"  BY DEF ShutInv, HelperInv
  <2>4. main = "done" => Spawned = AtStart \cup {"remote_cleanup", "reaper_task"}  BY DEF Spawned
  <2>5. DOMAIN taskState = Spawned  BY DEF ShutInv, TasksInv
  <2>6. NothingRunsOn
    BY <2>3, <2>4, <2>5 DEF NothingRunsOn, ShutInv, TasksInv, HelperInv, Gone, TelemetryGone
  <2>7. CleanStopReaps  BY <2>3 DEF CleanStopReaps, ShutInv, HelperInv
  <2> QED  BY <2>1, <2>2, <2>6, <2>7 DEF StopLeavesNothing
<1> QED  BY <1>1, <1>2, <1>3, PTL DEF ShutdownSpec

-----------------------------------------------------------------------------
(* Connections and secrets (RemoteConnect). *)

Policies == {"AcceptNew", "Strict", "refused"}

\* An attempt that has begun: all of its fields, the host keys mapped so far, and
\* the checks its profile has passed to get this far.
AttemptShape ==
  /\ attempt = [step |-> attempt.step, profile |-> attempt.profile, mapped |-> attempt.mapped,
                askpass |-> attempt.askpass, transport |-> attempt.transport,
                private |-> attempt.private]
  /\ attempt.mapped \in Seq(Policies)

AttemptPlace ==
  /\ attempt.step \in {"checking", "mapping", "resolving", "starting", "probing", "ready", "failed"}
  /\ attempt.step = "checking" => attempt.askpass = 0
  /\ attempt.step = "mapping" => IsSsh(attempt.profile)
  /\ attempt.step \in {"resolving", "starting"} => ~IsSsh(attempt.profile)

AttemptTransport == attempt.transport => attempt.step \in {"probing", "ready"}

AttemptBounds ==
  /\ attempt.askpass \in 0..Len(attempt.mapped)
  /\ IsSsh(attempt.profile) =>
       attempt.profile.jumps \in Nat /\ Len(attempt.mapped) <= attempt.profile.jumps + 1

AttemptKeys ==
  \A i \in 1..Len(attempt.mapped) : attempt.mapped[i] = "AcceptNew" =>
    /\ i = 1 /\ attempt.profile.kind = "terminal" /\ attempt.profile.accept
    /\ attempt.profile.target.firstUse = "ask"

AttemptSecret ==
  IsSsh(attempt.profile) /\ attempt.step \in {"mapping", "probing", "ready"} =>
    Routable(attempt.profile) /\ (attempt.askpass = 1 => attempt.profile.jumps = 0)

AttemptPrivate ==
  ~IsSsh(attempt.profile) /\ attempt.step \in {"probing", "ready"} =>
    (attempt.profile.protect => attempt.private)

AttemptInv ==
  \/ attempt = Idle
  \/ /\ AttemptShape /\ AttemptPlace /\ AttemptTransport /\ AttemptBounds /\ AttemptKeys
     /\ AttemptSecret /\ AttemptPrivate

\* The item being stored is nobody's yet.
SecretsInv ==
  /\ service \subseteq Secrets /\ told \subseteq Secrets /\ doomed \subseteq told
  /\ told \ doomed \subseteq service
  /\ storing = [step |-> storing.step, item |-> storing.item]
  /\ storing.step \in {"idle", "running", "stored"}
  /\ storing.step # "idle" => storing.item \in Secrets \ told
  /\ storing.step = "stored" => storing.item \in service

LEMMA SecretsStep ==
  ASSUME SecretsInv, SecretsNext \/ UNCHANGED <<service, told, doomed, storing>>
  PROVE  SecretsInv'
<1>1. CASE UNCHANGED <<service, told, doomed, storing>>  BY <1>1 DEF SecretsInv
<1>2. ASSUME NEW i \in Secrets, StoreBegins(i)  PROVE SecretsInv'
  <2>1. storing' = [step |-> "running", item |-> i] /\ i \notin told /\ UNCHANGED <<service, told, doomed>>
    BY <1>2 DEF StoreBegins
  <2> QED  BY <2>1 DEF SecretsInv
<1>3. ASSUME NEW i \in Secrets, DeleteSecret(i)  PROVE SecretsInv'
  <2>1. i \in told /\ doomed' = doomed \cup {i} /\ service' \in {service, service \ {i}}
        /\ UNCHANGED <<told, storing>>
    BY <1>3 DEF DeleteSecret
  <2> QED  BY <2>1 DEF SecretsInv
<1>4. CASE ToolStores
  <2>1. storing.step = "running" /\ storing' = [storing EXCEPT !.step = "stored"]
        /\ service' = service \cup {storing.item} /\ UNCHANGED <<told, doomed>>
    BY <1>4 DEF ToolStores
  <2>2. storing' = [step |-> "stored", item |-> storing.item]  BY <2>1 DEF SecretsInv
  <2> QED  BY <2>1, <2>2 DEF SecretsInv
<1>5. CASE StoreEnds
  <2>1. storing' = [step |-> "idle", item |-> "none"] /\ UNCHANGED <<service, doomed>>
        /\ (told' = told \/ (storing.step = "stored" /\ told' = told \cup {storing.item}))
    BY <1>5 DEF StoreEnds, Nothing
  <2> QED  BY <2>1 DEF SecretsInv
<1> QED  BY <1>1, <1>2, <1>3, <1>4, <1>5 DEF SecretsNext

LEMMA BeginKeeps ==
  ASSUME NEW profile \in SshProfiles \cup OtherProfiles, BeginConnect(profile)
  PROVE  AttemptInv'
<1>1. attempt' = [step |-> "checking", profile |-> profile, mapped |-> <<>>, askpass |-> 0,
                  transport |-> FALSE, private |-> FALSE]
  BY DEF BeginConnect
<1>2. <<>> \in Seq(Policies) /\ Len(<<>>) = 0  OBVIOUS
<1>3. IsSsh(profile) => profile.jumps \in Nat
  <2>1. CASE profile \in SshProfiles
    <3>1. profile.jumps \in 0..MaxJumpHosts + 1  BY <2>1, Zenon DEF SshProfiles
    <3> QED  BY <3>1, JumpHostsAssumption
  <2>2. CASE profile \in OtherProfiles
    <3>1. profile.kind \in {"ftps", "ftp", "smb"}  BY <2>2 DEF OtherProfiles
    <3> QED  BY <3>1 DEF IsSsh
  <2> QED  BY <2>1, <2>2
<1>4. AttemptShape'  BY <1>1, <1>2 DEF AttemptShape
<1>5. AttemptPlace' /\ AttemptBounds'  BY <1>1, <1>2, <1>3 DEF AttemptPlace, AttemptBounds, IsSsh
<1>6. AttemptKeys' /\ AttemptSecret' /\ AttemptPrivate'
  BY <1>1, <1>2 DEF AttemptKeys, AttemptSecret, AttemptPrivate
<1>7. AttemptTransport'  BY <1>1 DEF AttemptTransport
<1> QED  BY <1>4, <1>5, <1>6, <1>7 DEF AttemptInv

LEMMA FailsKeeps ==
  ASSUME AttemptInv, attempt # Idle, AttemptFails
  PROVE  AttemptInv'
<1>1. attempt' = [attempt EXCEPT !.step = "failed", !.transport = FALSE]  BY DEF AttemptFails
<1>2. attempt' = [step |-> "failed", profile |-> attempt.profile, mapped |-> attempt.mapped,
                  askpass |-> attempt.askpass, transport |-> FALSE, private |-> attempt.private]
  BY <1>1 DEF AttemptInv, AttemptShape
<1>3. attempt.mapped \in Seq(Policies)  BY DEF AttemptInv, AttemptShape
<1>4. AttemptShape'  BY <1>2, <1>3 DEF AttemptShape
<1>5. AttemptPlace' /\ AttemptSecret' /\ AttemptPrivate'
  BY <1>2 DEF AttemptPlace, AttemptSecret, AttemptPrivate
<1>6. AttemptBounds'  BY <1>2 DEF AttemptInv, AttemptBounds, IsSsh
<1>7. AttemptKeys'  BY <1>2 DEF AttemptInv, AttemptKeys
<1>8. AttemptTransport'  BY <1>2 DEF AttemptTransport
<1> QED  BY <1>4, <1>5, <1>6, <1>7, <1>8 DEF AttemptInv

\* A step of the attempt that changes its place only.
LEMMA MovesKeeps ==
  ASSUME AttemptInv, attempt # Idle, NEW step, Moves(step),
         step \in {"mapping", "resolving", "starting", "probing", "ready"},
         step = "mapping" => IsSsh(attempt.profile) /\ Routable(attempt.profile) /\ attempt.askpass = 0,
         step \in {"resolving", "starting"} => ~IsSsh(attempt.profile),
         step = "ready" => attempt.step = "probing", step # "probing",
         attempt.transport => step = "ready"
  PROVE  AttemptInv'
<1>1. attempt' = [step |-> step, profile |-> attempt.profile, mapped |-> attempt.mapped,
                  askpass |-> attempt.askpass, transport |-> attempt.transport,
                  private |-> attempt.private]
  BY DEF AttemptInv, AttemptShape, Moves
<1>2. attempt.mapped \in Seq(Policies)  BY DEF AttemptInv, AttemptShape
<1>3. AttemptShape'  BY <1>1, <1>2 DEF AttemptShape
<1>4. AttemptPlace'  BY <1>1 DEF AttemptPlace, IsSsh
<1>5. AttemptBounds'  BY <1>1 DEF AttemptInv, AttemptBounds, IsSsh
<1>6. AttemptKeys'  BY <1>1 DEF AttemptInv, AttemptKeys
<1>7. AttemptTransport'  BY <1>1 DEF AttemptTransport
<1>8. AttemptSecret'  BY <1>1 DEF AttemptInv, AttemptSecret, Routable, IsSsh
<1>9. AttemptPrivate'  BY <1>1 DEF AttemptInv, AttemptPrivate, IsSsh
<1> QED  BY <1>3, <1>4, <1>5, <1>6, <1>7, <1>8, <1>9 DEF AttemptInv

LEMMA CheckKeeps ==
  ASSUME AttemptInv, CheckProfile
  PROVE  AttemptInv'
<1>1. attempt.step = "checking" /\ attempt # Idle  BY DEF CheckProfile, Idle
<1>2. attempt.askpass = 0 /\ ~attempt.transport
  BY <1>1 DEF AttemptInv, AttemptPlace, AttemptTransport
<1>3. \/ AttemptFails
      \/ IsSsh(attempt.profile) /\ Routable(attempt.profile) /\ Moves("mapping")
      \/ ~IsSsh(attempt.profile) /\ Moves("resolving")
  BY Zenon DEF CheckProfile, Otherwise
<1> QED  BY <1>1, <1>2, <1>3, FailsKeeps, MovesKeeps

LEMMA MapKeeps ==
  ASSUME AttemptInv, MapEndpoint
  PROVE  AttemptInv'
<1>1. attempt.step = "mapping" /\ attempt # Idle /\ Unmapped  BY DEF MapEndpoint, Idle
<1> PICK i : i = Len(attempt.mapped) + 1  OBVIOUS
<1>2. PICK e \in IF i = 1 THEN {attempt.profile.target} ELSE Endpoint :
        LET policy == HostKeyPolicy(attempt.profile, e, i) IN
        \/ /\ e.plain /\ policy # "refused" /\ (e.auth = "agent" \/ Resolves)
           /\ attempt' = [attempt EXCEPT !.mapped = Append(@, policy),
                                         !.askpass = IF Prompts(e.auth) THEN i ELSE @]
        \/ /\ ~e.plain \/ policy = "refused" \/ e.auth # "agent"
           /\ AttemptFails
  BY DEF MapEndpoint
<1>3. CASE AttemptFails  BY <1>1, <1>3, FailsKeeps
<1>4. ASSUME ~AttemptFails  PROVE AttemptInv'
  <2> PICK policy : policy = HostKeyPolicy(attempt.profile, e, i)  OBVIOUS
  <2> PICK mapped : mapped = Append(attempt.mapped, policy)  OBVIOUS
  <2> PICK askpass : askpass = IF Prompts(e.auth) THEN i ELSE attempt.askpass  OBVIOUS
  <2>1. attempt' = [attempt EXCEPT !.mapped = mapped, !.askpass = askpass]  BY <1>2, <1>4
  <2>2. /\ AttemptShape /\ AttemptPlace /\ AttemptTransport /\ AttemptBounds /\ AttemptKeys
        /\ AttemptSecret /\ AttemptPrivate
    BY <1>1 DEF AttemptInv
  <2>3. attempt' = [step |-> "mapping", profile |-> attempt.profile, mapped |-> mapped,
                    askpass |-> askpass, transport |-> attempt.transport, private |-> attempt.private]
    BY <1>1, <2>1, <2>2 DEF AttemptShape
  <2>4. /\ IsSsh(attempt.profile) /\ attempt.profile.jumps \in Nat
        /\ attempt.mapped \in Seq(Policies) /\ Len(attempt.mapped) \in Nat /\ i \in Nat
        /\ Len(attempt.mapped) <= attempt.profile.jumps
        /\ attempt.askpass \in 0..Len(attempt.mapped) /\ ~attempt.transport
    BY <1>1, <2>2 DEF AttemptShape, AttemptPlace, AttemptBounds, AttemptTransport, Unmapped
  <2>5. policy \in Policies  BY DEF HostKeyPolicy, Policies
  <2>6. /\ mapped \in Seq(Policies) /\ Len(mapped) = i
        /\ \A j \in 1..Len(mapped) : mapped[j] = IF j = i THEN policy ELSE attempt.mapped[j]
    BY <2>4, <2>5
  <2>7. AttemptShape'  BY <2>3, <2>6 DEF AttemptShape
  <2>8. AttemptPlace'  BY <2>3, <2>4 DEF AttemptPlace, IsSsh
  <2>9. AttemptTransport'  BY <2>3, <2>4 DEF AttemptTransport
  <2>10. AttemptBounds'
    <3>1. askpass \in 0..Len(mapped)  BY <2>4, <2>6
    <3> QED  BY <2>3, <2>4, <2>6, <3>1 DEF AttemptBounds, IsSsh
  <2>11. AttemptKeys'
    <3>1. ASSUME policy = "AcceptNew"
          PROVE  /\ i = 1 /\ attempt.profile.kind = "terminal" /\ attempt.profile.accept
                 /\ attempt.profile.target.firstUse = "ask"
      <4>1. i = 1 /\ attempt.profile.kind = "terminal" /\ attempt.profile.accept /\ e.firstUse = "ask"
        BY <3>1 DEF HostKeyPolicy
      <4> QED  BY <4>1
    <3>2. SUFFICES ASSUME NEW j \in 1..Len(mapped), mapped[j] = "AcceptNew"
                   PROVE  /\ j = 1 /\ attempt.profile.kind = "terminal" /\ attempt.profile.accept
                          /\ attempt.profile.target.firstUse = "ask"
      BY <2>3 DEF AttemptKeys
    <3>3. CASE j = i  BY <2>6, <3>1, <3>2, <3>3
    <3>4. CASE j # i
      <4>1. j \in 1..Len(attempt.mapped) /\ attempt.mapped[j] = "AcceptNew"  BY <2>4, <2>6, <3>2, <3>4
      <4> QED  BY <2>2, <4>1 DEF AttemptKeys
    <3> QED  BY <3>3, <3>4
  <2>12. AttemptSecret'
    <3>1. Routable(attempt.profile) /\ (attempt.askpass = 1 => attempt.profile.jumps = 0)
      BY <1>1, <2>2, <2>4 DEF AttemptSecret
    <3>2. askpass = 1 => attempt.profile.jumps = 0
      <4>1. CASE askpass = attempt.askpass  BY <3>1, <4>1
      <4>2. CASE Prompts(e.auth) /\ i = 1
        <5>1. e = attempt.profile.target  BY <4>2
        <5>2. ~(attempt.profile.jumps > 0)  BY <3>1, <4>2, <5>1 DEF Routable
        <5> QED  BY <2>4, <5>2
      <4> QED  BY <4>1, <4>2
    <3> QED  BY <2>3, <3>1, <3>2 DEF AttemptSecret, Routable
  <2>13. AttemptPrivate'  BY <2>3 DEF AttemptPrivate
  <2> QED  BY <2>7, <2>8, <2>9, <2>10, <2>11, <2>12, <2>13 DEF AttemptInv
<1> QED  BY <1>3, <1>4

LEMMA StartedKeeps ==
  ASSUME AttemptInv, attempt # Idle, NEW step \in {"probing", "ready"}, NEW private,
         attempt' = [attempt EXCEPT !.step = step, !.transport = TRUE, !.private = private],
         IsSsh(attempt.profile) => attempt.step = "mapping",
         ~IsSsh(attempt.profile) => (attempt.profile.protect => private)
  PROVE  AttemptInv'
<1>1. /\ AttemptShape /\ AttemptPlace /\ AttemptTransport /\ AttemptBounds /\ AttemptKeys
      /\ AttemptSecret /\ AttemptPrivate
  BY DEF AttemptInv
<1>2. attempt' = [step |-> step, profile |-> attempt.profile, mapped |-> attempt.mapped,
                  askpass |-> attempt.askpass, transport |-> TRUE, private |-> private]
  BY <1>1 DEF AttemptShape
<1>3. attempt.mapped \in Seq(Policies)  BY <1>1 DEF AttemptShape
<1>4. AttemptShape'  BY <1>2, <1>3 DEF AttemptShape
<1>5. AttemptPlace' /\ AttemptTransport'
  <2>1. attempt'.step = step  BY <1>2
  <2> QED  BY <2>1 DEF AttemptPlace, AttemptTransport
<1>6. AttemptBounds' /\ AttemptKeys'  BY <1>1, <1>2 DEF AttemptBounds, AttemptKeys, IsSsh
<1>7. AttemptSecret'  BY <1>1, <1>2 DEF AttemptSecret, IsSsh, Routable
<1>8. AttemptPrivate'
  <2>1. attempt'.profile = attempt.profile /\ attempt'.private = private  BY <1>2
  <2> QED  BY <2>1, Zenon DEF AttemptPrivate, IsSsh
<1> QED  BY <1>4, <1>5, <1>6, <1>7, <1>8 DEF AttemptInv

LEMMA StartKeeps ==
  ASSUME AttemptInv, StartSsh \/ StartSession
  PROVE  AttemptInv'
<1>1. attempt.step \in {"mapping", "starting"} /\ attempt # Idle  BY DEF StartSsh, StartSession, Idle
<1>2. CASE AttemptFails  BY <1>1, <1>2, FailsKeeps
<1>3. AttemptPlace  BY <1>1 DEF AttemptInv
<1>4. CASE StartSsh /\ ~AttemptFails
  <2> PICK step : step = IF attempt.profile.kind = "terminal" THEN "ready" ELSE "probing"  OBVIOUS
  <2>1. attempt' = [attempt EXCEPT !.step = step, !.transport = TRUE, !.private = TRUE]
    BY <1>4, Zenon DEF StartSsh
  <2>2. step \in {"probing", "ready"} /\ attempt.step = "mapping"  BY <1>4 DEF StartSsh
  <2>3. IsSsh(attempt.profile)  BY <1>3, <2>2 DEF AttemptPlace
  <2> QED  BY <1>1, <2>1, <2>2, <2>3, StartedKeeps, Zenon
<1>5. CASE StartSession /\ ~AttemptFails
  <2> PICK private : private = (attempt.profile.kind = "ftps" \/ attempt.profile.protect)  OBVIOUS
  <2>1. attempt' = [attempt EXCEPT !.step = "probing", !.transport = TRUE, !.private = private]
    BY <1>5, Zenon DEF StartSession
  <2>2. attempt.step = "starting" /\ "probing" \in {"probing", "ready"}  BY <1>5 DEF StartSession
  <2>3. ~IsSsh(attempt.profile)  BY <1>3, <2>2 DEF AttemptPlace
  <2>4. attempt.profile.protect => private  BY Zenon
  <2> QED  BY <1>1, <2>1, <2>2, <2>3, <2>4, StartedKeeps, Zenon
<1> QED  BY <1>2, <1>4, <1>5

LEMMA ConnectStep ==
  ASSUME AttemptInv, ConnectNext
  PROVE  AttemptInv'
<1>1. ASSUME NEW profile \in SshProfiles \cup OtherProfiles, BeginConnect(profile)  PROVE AttemptInv'
  BY <1>1, BeginKeeps
<1>2. CASE ResolvePassword
  <2>1. attempt.step = "resolving" /\ attempt # Idle /\ (Moves("starting") \/ AttemptFails)
    BY <1>2 DEF ResolvePassword, Idle
  <2>2. ~IsSsh(attempt.profile) /\ ~attempt.transport
    BY <2>1 DEF AttemptInv, AttemptPlace, AttemptTransport
  <2> QED  BY <2>1, <2>2, FailsKeeps, MovesKeeps
<1>3. CASE ProbeSession
  <2>1. attempt.step = "probing" /\ attempt # Idle /\ (Moves("ready") \/ AttemptFails)
    BY <1>3 DEF ProbeSession, Idle
  <2> QED  BY <2>1, FailsKeeps, MovesKeeps
<1>4. CASE EndAttempt  BY <1>4 DEF EndAttempt, AttemptInv
<1>5. CASE CancelConnect
  <2>1. attempt' = attempt  BY <1>5 DEF CancelConnect
  <2> QED
    BY <2>1 DEF AttemptInv, AttemptShape, AttemptPlace, AttemptTransport, AttemptBounds, AttemptKeys,
       AttemptSecret, AttemptPrivate, IsSsh, Routable
<1> QED  BY <1>1, <1>2, <1>3, <1>4, <1>5, CheckKeeps, MapKeeps, StartKeeps DEF ConnectNext

ConnectInv == AttemptInv /\ SecretsInv /\ control \in {"live", "cancelled"}

LEMMA NextConnect ==
  ASSUME ConnectInv, [ConnectNext \/ SecretsNext]_connectVars
  PROVE  ConnectInv'
<1>1. CASE ConnectNext
  <2>1. UNCHANGED <<service, told, doomed, storing>> /\ control' \in {control, "live", "cancelled"}
    BY <1>1 DEF ConnectNext, BeginConnect, CheckProfile, MapEndpoint, ResolvePassword, StartSsh, StartSession,
       ProbeSession, EndAttempt, CancelConnect, SecretsAsTheyAre
  <2> QED  BY <1>1, <2>1, ConnectStep, SecretsStep, SMTT(40) DEF ConnectInv
<1>2. ASSUME UNCHANGED <<attempt, control>>  PROVE AttemptInv'
  BY <1>2 DEF ConnectInv, AttemptInv, AttemptShape, AttemptPlace, AttemptTransport, AttemptBounds, AttemptKeys,
     AttemptSecret, AttemptPrivate, IsSsh, Routable
<1>3. CASE SecretsNext
  <2>1. UNCHANGED <<attempt, control>>
    BY <1>3 DEF SecretsNext, StoreBegins, DeleteSecret, ToolStores, StoreEnds
  <2> QED  BY <1>2, <1>3, <2>1, SecretsStep DEF ConnectInv
<1>4. CASE UNCHANGED connectVars
  <2>1. UNCHANGED <<attempt, control>> /\ UNCHANGED <<service, told, doomed, storing>>
    BY <1>4 DEF connectVars
  <2> QED  BY <1>2, <2>1, SecretsStep DEF ConnectInv
<1> QED  BY <1>1, <1>3, <1>4

\* Every connect of the three adapters ends in a session as private as its
\* profile asks or in nothing, the target's secret is offered to no jump host,
\* and what was stored can be read, for any number of jump hosts and secrets.
THEOREM ConnectsStayPrivate == ConnectSpec => []ConnectsArePrivate
<1>1. ConnectInit => ConnectInv
  BY DEF ConnectInit, ConnectInv, AttemptInv, SecretsInv, Nothing
<1>2. ConnectInv /\ [ConnectNext \/ SecretsNext]_connectVars => ConnectInv'  BY NextConnect
<1>3. ConnectInv => ConnectsArePrivate
  <2> SUFFICES ASSUME ConnectInv  PROVE ConnectsArePrivate  OBVIOUS
  <2>1. ReferencesResolve  BY DEF ConnectInv, SecretsInv, ReferencesResolve
  <2>2. control \in {"live", "cancelled"} /\ service \subseteq Secrets /\ told \subseteq Secrets
        /\ doomed \subseteq told
    BY DEF ConnectInv, SecretsInv
  <2>3. CASE attempt = Idle
    <3>1. attempt.step = "idle"  BY <2>3 DEF Idle
    <3> QED
      BY <2>1, <2>2, <3>1 DEF ConnectsArePrivate, ConnectTypeOK, SessionIsAsPrivateAsAsked,
         TargetSecretStaysHome, NoTransportLeft
  <2>4. CASE attempt # Idle
    <3>1. /\ AttemptShape /\ AttemptPlace /\ AttemptTransport /\ AttemptBounds /\ AttemptKeys
          /\ AttemptSecret /\ AttemptPrivate
      BY <2>4 DEF ConnectInv, AttemptInv
    <3>2. ConnectTypeOK  BY <2>2, <3>1 DEF ConnectTypeOK, AttemptPlace, AttemptBounds
    <3>3. SessionIsAsPrivateAsAsked
      <4>1. DOMAIN attempt.mapped = 1..Len(attempt.mapped)  BY <3>1 DEF AttemptShape
      <4> QED  BY <3>1, <4>1 DEF SessionIsAsPrivateAsAsked, AttemptKeys, AttemptPrivate
    <3>4. TargetSecretStaysHome  BY <3>1 DEF TargetSecretStaysHome, AttemptSecret
    <3>5. NoTransportLeft  BY <3>1 DEF NoTransportLeft, AttemptTransport
    <3> QED  BY <2>1, <3>2, <3>3, <3>4, <3>5 DEF ConnectsArePrivate
  <2> QED  BY <2>3, <2>4
<1> QED  BY <1>1, <1>2, <1>3, PTL DEF ConnectSpec

-----------------------------------------------------------------------------
(* The network supervisor (NetworkSupervisor). *)

Busy == thread.at \in {"dumping", "bindings", "reply"}

\* The task, the worker's channel and the oneshot: one collection at a time.
TaskInv ==
  /\ task \in {"waiting", "asked", "joining", "ended"}
  /\ commands \in {<<>>, <<"collect">>, <<"shutdown">>, <<"collect", "shutdown">>}
  /\ answer = <<>> \/ \E a : answer = <<a>>
  /\ task = "waiting" => commands = <<>> /\ answer = <<>> /\ ~Busy
  /\ task = "asked" => /\ commands \in {<<>>, <<"collect">>}
                       /\ Busy => commands = <<>> /\ answer = <<>>
                       /\ answer # <<>> => commands = <<>>
  /\ task = "ended" => WorkerGone

\* The worker, its session and its pipes: a message only while a reply is awaited.
ThreadInv ==
  /\ thread = [at |-> thread.at, dump |-> thread.dump, perApp |-> thread.perApp]
  /\ thread.at \in {"idle", "dumping", "bindings", "reply", "ended", "panicked"}
  /\ collector \in [capability : {"healthy", "degraded", "unsupported"}, session : {"none", "open", "dead"}]
  /\ WorkerGone => collector.session = "none"
  /\ \/ wire = <<>>
     \/ thread.at = "reply" /\ \E m \in [kind : {"request", "reply"}, gen : {"now"}] : wire = <<m>>

\* What is kept says no more than the last collection showed.
Told(s) ==
  /\ s = [freshness |-> s.freshness, system |-> s.system, perApp |-> s.perApp, data |-> s.data,
          apps |-> s.apps, rate |-> s.rate]
  /\ s.system = "healthy" => s.freshness = "fresh" /\ s.rate
  /\ s.apps => s.data /\ s.perApp # "unsupported"

KeptInv ==
  /\ kept = [snapshot |-> kept.snapshot, sampled |-> kept.sampled, age |-> kept.age, failed |-> kept.failed]
  /\ kept.age \in 0..RetainFor + 1
  /\ Told(kept.snapshot)
  /\ kept.snapshot.freshness \in {"fresh", "warming"} => ~kept.failed /\ kept.sampled
  /\ kept.snapshot.data => kept.sampled

LEMMA UnavailableTold ==
  /\ Told(UnavailableSnapshot) /\ ~UnavailableSnapshot.data
  /\ UnavailableSnapshot.freshness = "unknown"
BY DEF Told, UnavailableSnapshot

LEMMA FailedCollection ==
  ASSUME KeptInv, kept' = CollectionFailed
  PROVE  KeptInv'
<1>1. CASE ~kept.sampled
  <2>1. kept' = [kept EXCEPT !.snapshot = UnavailableSnapshot, !.failed = TRUE]  BY <1>1 DEF CollectionFailed
  <2>2. kept' = [snapshot |-> UnavailableSnapshot, sampled |-> kept.sampled, age |-> kept.age, failed |-> TRUE]
    BY <2>1 DEF KeptInv
  <2> QED  BY <2>2, UnavailableTold DEF KeptInv
<1>2. CASE kept.sampled
  <2> PICK s : s = kept.snapshot  OBVIOUS
  <2> PICK p : p = Degraded(s.perApp)  OBVIOUS
  <2> PICK n : n = [s EXCEPT !.freshness = "stale", !.system = "degraded", !.perApp = p]  OBVIOUS
  <2>1. kept' = [kept EXCEPT !.snapshot = n, !.failed = TRUE]
    BY <1>2 DEF CollectionFailed, KeptInv
  <2>2. Told(s)  BY DEF KeptInv
  <2>3. n = [freshness |-> "stale", system |-> "degraded", perApp |-> p, data |-> s.data, apps |-> s.apps,
             rate |-> s.rate]
    BY <2>2 DEF Told
  <2>4. s.perApp # "unsupported" => p # "unsupported"  BY DEF Degraded
  <2>5. Told(n)  BY <2>2, <2>3, <2>4 DEF Told
  <2>6. kept' = [snapshot |-> n, sampled |-> kept.sampled, age |-> kept.age, failed |-> TRUE]
    BY <2>1 DEF KeptInv
  <2>7. n.freshness = "stale"  BY <2>3
  <2>8. /\ kept'.age = kept.age /\ kept'.snapshot = n /\ kept'.sampled = kept.sampled
        /\ kept' = [snapshot |-> kept'.snapshot, sampled |-> kept'.sampled, age |-> kept'.age,
                    failed |-> kept'.failed]
    BY <2>6
  <2> QED  BY <1>2, <2>5, <2>7, <2>8 DEF KeptInv
<1> QED  BY <1>1, <1>2

LEMMA SucceededCollection ==
  ASSUME KeptInv, NEW a, kept' = Succeeded(a)
  PROVE  KeptInv'
<1>1. CASE a.perApp = "unsupported" /\ a.apps  BY <1>1, FailedCollection DEF Succeeded
<1>2. CASE ~(a.perApp = "unsupported" /\ a.apps)
  <2> PICK f : f = IF a.dump = "WarmingUp" THEN "warming" ELSE "fresh"  OBVIOUS
  <2> PICK h : h = IF a.dump = "Known" THEN "healthy" ELSE "degraded"  OBVIOUS
  <2> PICK r : r = (a.dump = "Known")  OBVIOUS
  <2> PICK n : n = [freshness |-> f, system |-> h, perApp |-> a.perApp, data |-> TRUE, apps |-> a.apps,
                    rate |-> r]
    OBVIOUS
  <2>1. kept' = [snapshot |-> n, sampled |-> TRUE, age |-> 0, failed |-> FALSE]
    BY <1>2, Zenon DEF Succeeded
  <2>2. h = "healthy" => f = "fresh" /\ r  OBVIOUS
  <2>3. Told(n)  BY <1>2, <2>2 DEF Told
  <2>4. 0 \in 0..RetainFor + 1  BY NetworkTimesAssumption
  <2> QED  BY <2>1, <2>3, <2>4 DEF KeptInv
<1> QED  BY <1>1, <1>2

LEMMA ShownIsHonest ==
  ASSUME KeptInv
  PROVE  NetworkAnswersAreHonest
<1>0. /\ kept.age \in Nat /\ FreshFor \in Nat /\ RetainFor \in Nat /\ FreshFor <= RetainFor
  BY NetworkTimesAssumption DEF KeptInv
<1> PICK s : s = kept.snapshot  OBVIOUS
<1>1. Told(s)  BY DEF KeptInv
<1>2. CASE ~kept.sampled \/ kept.age <= FreshFor
  <2>1. Shown = s  BY <1>2 DEF Shown
  <2>2. s.freshness \in {"fresh", "warming"} => kept.age <= FreshFor /\ ~kept.failed  BY <1>2 DEF KeptInv
  <2>3. s.data => kept.age <= RetainFor  BY <1>0, <1>2 DEF KeptInv
  <2> QED  BY <1>1, <2>1, <2>2, <2>3 DEF NetworkAnswersAreHonest, Told
<1>3. CASE ~(~kept.sampled \/ kept.age <= FreshFor) /\ kept.age <= RetainFor
  <2> PICK p : p = Degraded(s.perApp)  OBVIOUS
  <2>1. Shown = [s EXCEPT !.freshness = "stale", !.system = "degraded", !.perApp = p]  BY <1>3 DEF Shown
  <2>2. Shown = [freshness |-> "stale", system |-> "degraded", perApp |-> p, data |-> s.data, apps |-> s.apps,
                 rate |-> s.rate]
    BY <1>1, <2>1 DEF Told
  <2>3. s.perApp # "unsupported" => p # "unsupported"  BY DEF Degraded
  <2> QED  BY <1>1, <1>3, <2>2, <2>3 DEF NetworkAnswersAreHonest, Told
<1>4. CASE ~(~kept.sampled \/ kept.age <= FreshFor) /\ ~(kept.age <= RetainFor)
  <2> PICK p : p = Degraded(s.perApp)  OBVIOUS
  <2>1. Shown = [UnavailableSnapshot EXCEPT !.perApp = p]  BY <1>4 DEF Shown
  <2>2. ~Shown.data /\ ~Shown.apps /\ Shown.freshness = "unknown" /\ Shown.system = "unreachable"
    BY <2>1 DEF UnavailableSnapshot
  <2> QED  BY <2>2 DEF NetworkAnswersAreHonest
<1> QED  BY <1>2, <1>3, <1>4

LEMMA KeptStep ==
  ASSUME KeptInv, NetSupNext
  PROVE  KeptInv'
<1>1. CASE UNCHANGED kept  BY <1>1 DEF KeptInv, Told
<1>2. CASE Age
  <2>1. kept.age <= RetainFor /\ kept' = [kept EXCEPT !.age = kept.age + 1]  BY <1>2 DEF Age
  <2> PICK age : age = kept.age + 1  OBVIOUS
  <2>2. age \in 0..RetainFor + 1  BY <2>1, NetworkTimesAssumption DEF KeptInv
  <2>3. kept' = [snapshot |-> kept.snapshot, sampled |-> kept.sampled, age |-> age, failed |-> kept.failed]
    BY <2>1 DEF KeptInv
  <2>4. /\ kept'.snapshot = kept.snapshot /\ kept'.sampled = kept.sampled /\ kept'.failed = kept.failed
        /\ kept'.age = age
        /\ kept' = [snapshot |-> kept'.snapshot, sampled |-> kept'.sampled, age |-> kept'.age,
                    failed |-> kept'.failed]
    BY <2>3
  <2>5. Told(kept'.snapshot)  BY <2>4 DEF KeptInv
  <2> QED  BY <2>2, <2>4, <2>5 DEF KeptInv
<1>3. CASE kept' = CollectionFailed  BY <1>3, FailedCollection
<1>4. CASE \E a : kept' = Succeeded(a)  BY <1>4, SucceededCollection
<1>5. CASE TaskTicks \/ TaskFindsWorkerDead \/ SamplerTaskEnds
  <2>1. kept' = CollectionFailed \/ UNCHANGED kept
    BY <1>5, Zenon DEF TaskTicks, TaskFindsWorkerDead, SamplerTaskEnds
  <2> QED  BY <1>1, <1>3, <2>1
<1>6. CASE TaskPublishes
  <2>1. kept' = CollectionFailed \/ kept' = Succeeded(answer[1])  BY <1>6, Zenon DEF TaskPublishes
  <2> QED  BY <1>3, <1>4, <2>1
<1>7. CASE TaskStops \/ AppdStops  BY <1>1, <1>7 DEF TaskStops, AppdStops
<1>8. CASE WorkerTakes \/ WorkerPanics \/ DumpErrs \/ WorkerDumps \/ WorkerCannotAsk \/ WorkerRequests
  <2>1. UNCHANGED kept
    BY <1>8, Zenon DEF WorkerTakes, WorkerPanics, DumpErrs, WorkerDumps, WorkerCannotAsk, WorkerRequests
  <2> QED  BY <1>1, <2>1
<1>9. CASE HelperReplies \/ HelperDies \/ WorkerGivesUp \/ WorkerReads
  <2>1. UNCHANGED kept  BY <1>9, Zenon DEF HelperReplies, HelperDies, WorkerGivesUp, WorkerReads
  <2> QED  BY <1>1, <2>1
<1> QED  BY <1>2, <1>5, <1>6, <1>7, <1>8, <1>9 DEF NetSupNext

\* What a worker's step does to the thread, its answer and its session.
LEMMA ReplyKeeps ==
  ASSUME ThreadInv, TaskInv, Busy, NEW a, Reply(a), UNCHANGED <<task, commands>>,
         collector' \in [capability : {"healthy", "degraded", "unsupported"}, session : {"none", "open", "dead"}],
         wire' = <<>>
  PROVE  ThreadInv' /\ TaskInv'
<1>1. thread' = [at |-> "idle", dump |-> "none", perApp |-> "none"]  BY DEF Reply, Resting
<1>2. answer' = IF task = "asked" THEN <<a>> ELSE <<>>  BY DEF Reply
<1>3. ~Busy' /\ ~WorkerGone' /\ ~WorkerGone  BY <1>1 DEF Busy, WorkerGone
<1>4. ThreadInv'  BY <1>1, <1>3 DEF ThreadInv
<1>5. TaskInv'  BY <1>2, <1>3 DEF TaskInv
<1> QED  BY <1>4, <1>5

LEMMA CollectorFailsKeeps ==
  ASSUME ThreadInv, TaskInv, Busy, NEW capability \in {"degraded", "unsupported"},
         CollectorFails(capability), UNCHANGED <<task, commands>>
  PROVE  ThreadInv' /\ TaskInv'
<1>1. collector' = [capability |-> capability, session |-> "none"] /\ wire' = <<>>
  BY DEF CollectorFails, AfterFailure, ReplyDropped
<1>2. \E a : Reply(a)  BY Zenon DEF CollectorFails, Sampled
<1> QED  BY <1>1, <1>2, ReplyKeeps

LEMMA WorkerEndsKeeps ==
  ASSUME ThreadInv, TaskInv, NEW at \in {"ended", "panicked"}, WorkerEnds(at), task' = task,
         commands' \in {<<>>, <<"collect">>, <<"shutdown">>, <<"collect", "shutdown">>},
         commands' = commands \/ commands' = <<>>
  PROVE  ThreadInv' /\ TaskInv'
<1>1. /\ thread' = [at |-> at, dump |-> "none", perApp |-> "none"] /\ answer' = answer
      /\ collector' = [collector EXCEPT !.session = "none"] /\ wire' = <<>>
  BY DEF WorkerEnds, Resting, ReplyDropped
<1>2. ~Busy' /\ WorkerGone'  BY <1>1 DEF Busy, WorkerGone
<1>3. ThreadInv'
  <2>1. /\ collector' \in [capability : {"healthy", "degraded", "unsupported"}, session : {"none", "open", "dead"}]
        /\ collector'.session = "none"
    BY <1>1 DEF ThreadInv
  <2> QED  BY <1>1, <2>1 DEF ThreadInv
<1>4. TaskInv'  BY <1>1, <1>2 DEF TaskInv
<1> QED  BY <1>3, <1>4

LEMMA TaskStep ==
  ASSUME ThreadInv, TaskInv, TaskTicks \/ TaskPublishes \/ TaskFindsWorkerDead \/ TaskStops \/ SamplerTaskEnds
  PROVE  ThreadInv' /\ TaskInv'
<1>1. UNCHANGED <<thread, collector, wire>>
  BY DEF TaskTicks, TaskPublishes, TaskFindsWorkerDead, TaskStops, SamplerTaskEnds
<1>2. ThreadInv' /\ (Busy' <=> Busy) /\ (WorkerGone' <=> WorkerGone)  BY <1>1 DEF ThreadInv, Busy, WorkerGone
<1>3. CASE TaskTicks
  <2>0. task = "waiting" /\ commands = <<>> /\ answer = <<>> /\ ~Busy /\ answer' = answer
    BY <1>3 DEF TaskTicks, TaskInv
  <2>1. CASE task' = "joining" /\ commands' = commands  BY <1>2, <2>0, <2>1 DEF TaskInv
  <2>2. CASE task' = "asked" /\ commands' = Append(commands, "collect")
    <3>1. commands' = <<"collect">>  BY <2>0, <2>2
    <3> QED  BY <1>2, <2>0, <2>2, <3>1 DEF TaskInv
  <2> QED  BY <1>3, <2>1, <2>2 DEF TaskTicks, WorkerGone
<1>4. CASE TaskPublishes
  <2>1. task = "asked" /\ answer # <<>> /\ task' = "waiting" /\ answer' = <<>> /\ commands' = commands
    BY <1>4 DEF TaskPublishes
  <2> QED  BY <1>2, <2>1 DEF TaskInv
<1>5. CASE TaskFindsWorkerDead
  <2>1. task' = "joining" /\ answer' = answer /\ commands' = commands  BY <1>5 DEF TaskFindsWorkerDead
  <2> QED  BY <1>2, <2>1 DEF TaskInv
<1>6. CASE TaskStops
  <2>1. task \in {"waiting", "asked"} /\ commands' = Append(commands, "shutdown") /\ task' = "joining"
        /\ answer' = <<>>
    BY <1>6 DEF TaskStops
  <2>2. commands \in {<<>>, <<"collect">>}  BY <2>1 DEF TaskInv
  <2>3. commands' \in {<<"shutdown">>, <<"collect", "shutdown">>}
    <3>1. CASE commands = <<>>
      <4>1. commands' = <<"shutdown">>  BY <2>1, <3>1
      <4> QED  BY <4>1
    <3>2. CASE commands = <<"collect">>
      <4>1. Append(<<"collect">>, "shutdown") = <<"collect", "shutdown">>
        <5> PICK s : s = Append(<<"collect">>, "shutdown")  OBVIOUS
        <5> PICK t : t = <<"collect", "shutdown">>  OBVIOUS
        <5> PICK S : S = {"collect", "shutdown"}  OBVIOUS
        <5>1. s \in Seq(S) /\ Len(s) = 2 /\ s[1] = "collect" /\ s[2] = "shutdown"  OBVIOUS
        <5>2. t \in Seq(S) /\ Len(t) = 2 /\ t[1] = "collect" /\ t[2] = "shutdown"  OBVIOUS
        <5>3. \A i \in 1..Len(s) : s[i] = t[i]  BY <5>1, <5>2
        <5>4. s = t  BY <5>1, <5>2, <5>3, SeqEqual
        <5> QED  BY <5>4
      <4> QED  BY <2>1, <3>2, <4>1, Zenon
    <3> QED  BY <2>2, <3>1, <3>2
  <2> QED  BY <1>2, <2>1, <2>3 DEF TaskInv
<1>7. CASE SamplerTaskEnds
  <2>1. task' = "ended" /\ WorkerGone /\ answer' = answer /\ commands' = commands
    BY <1>7 DEF SamplerTaskEnds, Joined
  <2> QED  BY <1>2, <2>1 DEF TaskInv
<1> QED  BY <1>2, <1>3, <1>4, <1>5, <1>6, <1>7

LEMMA WorkerStep ==
  ASSUME ThreadInv, TaskInv,
         WorkerTakes \/ WorkerPanics \/ DumpErrs \/ WorkerDumps \/ WorkerCannotAsk \/ WorkerRequests
         \/ HelperReplies \/ HelperDies \/ WorkerGivesUp \/ WorkerReads
  PROVE  ThreadInv' /\ TaskInv'
<1>0. /\ collector \in [capability : {"healthy", "degraded", "unsupported"}, session : {"none", "open", "dead"}]
      /\ thread = [at |-> thread.at, dump |-> thread.dump, perApp |-> thread.perApp]
  BY DEF ThreadInv
<1>1. CASE WorkerTakes
  <2>0. thread.at = "idle" /\ commands # <<>> /\ commands' = Tail(commands) /\ task' = task
    BY <1>1 DEF WorkerTakes
  <2>1. CASE Head(commands) = "shutdown" /\ WorkerEnds("ended")
    <3>1. commands = <<"shutdown">>  BY <2>0, <2>1 DEF TaskInv
    <3>2. commands' = <<>>  BY <2>0, <3>1
    <3> QED  BY <2>0, <2>1, <3>2, WorkerEndsKeeps
  <2>2. CASE Head(commands) = "collect" /\ thread' = Resting("dumping") /\ UNCHANGED <<answer, collector, wire>>
    <3>1. commands \in {<<"collect">>, <<"collect", "shutdown">>}  BY <2>0, <2>2 DEF TaskInv
    <3>2. commands' \in {<<>>, <<"shutdown">>} /\ (commands = <<"collect">> => commands' = <<>>)
      <4>1. Tail(<<"collect">>) = <<>> /\ Tail(<<"collect", "shutdown">>) = <<"shutdown">>  OBVIOUS
      <4> QED  BY <2>0, <3>1, <4>1, Zenon
    <3>3. thread' = [at |-> "dumping", dump |-> "none", perApp |-> "none"]  BY <2>2 DEF Resting
    <3>4. Busy' /\ ~WorkerGone' /\ ~WorkerGone  BY <2>0, <3>3 DEF Busy, WorkerGone
    <3>5. ThreadInv'  BY <2>0, <2>2, <3>3, <3>4 DEF ThreadInv
    <3>6. commands # <<>> /\ task # "waiting"  BY <2>0 DEF TaskInv
    <3>7. task = "asked" => commands = <<"collect">> /\ answer = <<>>  BY <2>0, <3>1 DEF TaskInv
    <3>8. TaskInv'  BY <2>0, <2>2, <3>2, <3>4, <3>6, <3>7 DEF TaskInv
    <3> QED  BY <3>5, <3>8
  <2> QED  BY <1>1, <2>1, <2>2 DEF WorkerTakes
<1>2. CASE WorkerPanics
  <2>1. WorkerEnds("panicked") /\ task' = task /\ commands' = commands  BY <1>2 DEF WorkerPanics
  <2> QED  BY <2>1, WorkerEndsKeeps DEF TaskInv
<1>3. CASE DumpErrs
  <2>1. thread.at = "dumping" /\ Reply(NoAnswer) /\ UNCHANGED <<task, commands, collector, wire>>
    BY <1>3 DEF DumpErrs
  <2>2. Busy /\ wire = <<>>  BY <2>1 DEF Busy, ThreadInv
  <2> QED  BY <1>0, <2>1, <2>2, ReplyKeeps
<1>4. CASE WorkerDumps
  <2>1. thread.at = "dumping" /\ UNCHANGED <<task, commands, collector, wire>>  BY <1>4 DEF WorkerDumps
  <2>2. Busy /\ wire = <<>> /\ ~WorkerGone  BY <2>1 DEF Busy, ThreadInv, WorkerGone
  <2>3. CASE \E a : Reply(a)  BY <1>0, <2>1, <2>2, <2>3, ReplyKeeps
  <2>4. CASE \E read : thread' = [at |-> "bindings", dump |-> read, perApp |-> collector.capability]
                       /\ UNCHANGED answer
    <3>1. PICK read : thread' = [at |-> "bindings", dump |-> read, perApp |-> collector.capability]
                      /\ UNCHANGED answer
      BY <2>4
    <3>2. Busy' /\ ~WorkerGone'  BY <3>1 DEF Busy, WorkerGone
    <3>3. ThreadInv'  BY <1>0, <2>1, <2>2, <3>1, <3>2 DEF ThreadInv
    <3>4. TaskInv'  BY <2>1, <2>2, <3>1, <3>2 DEF TaskInv
    <3> QED  BY <3>3, <3>4
  <2> QED  BY <1>4, <2>3, <2>4, Zenon DEF WorkerDumps
<1>5. CASE WorkerCannotAsk \/ WorkerGivesUp
  <2>1. Busy /\ UNCHANGED <<task, commands>>  BY <1>5 DEF WorkerCannotAsk, WorkerGivesUp, Busy
  <2>2. \E capability \in {"degraded", "unsupported"} : CollectorFails(capability)
    BY <1>5, Zenon DEF WorkerCannotAsk, WorkerGivesUp
  <2> QED  BY <2>1, <2>2, CollectorFailsKeeps
<1>6. CASE WorkerRequests
  <2> PICK s : s = IF collector.session = "none" THEN "open" ELSE collector.session  OBVIOUS
  <2>1. /\ thread.at = "bindings" /\ collector' = [collector EXCEPT !.session = s]
        /\ thread' = [thread EXCEPT !.at = "reply"] /\ UNCHANGED <<task, commands, answer>>
    BY <1>6 DEF WorkerRequests
  <2>2. Busy /\ wire = <<>> /\ ~WorkerGone  BY <2>1 DEF Busy, ThreadInv, WorkerGone
  <2>3. [i \in DOMAIN wire |-> [wire[i] EXCEPT !.gen = "then"]] = <<>>  BY <2>2
  <2> PICK m : m = [kind |-> "request", gen |-> "now"]  OBVIOUS
  <2>4. wire' = <<m>> /\ m \in [kind : {"request", "reply"}, gen : {"now"}]  BY <1>6, <2>3 DEF WorkerRequests
  <2>5. thread' = [at |-> "reply", dump |-> thread.dump, perApp |-> thread.perApp]  BY <1>0, <2>1
  <2>6. Busy' /\ ~WorkerGone'  BY <2>5 DEF Busy, WorkerGone
  <2>7. s \in {"none", "open", "dead"}  BY <1>0
  <2>8. collector' \in [capability : {"healthy", "degraded", "unsupported"}, session : {"none", "open", "dead"}]
    BY <1>0, <2>1, <2>7
  <2>9. ThreadInv'  BY <2>4, <2>5, <2>6, <2>8 DEF ThreadInv
  <2>10. TaskInv'  BY <2>1, <2>2, <2>6 DEF TaskInv
  <2> QED  BY <2>9, <2>10
<1>7. CASE HelperReplies
  <2>1. UNCHANGED <<task, commands, thread, answer, collector>>  BY <1>7 DEF HelperReplies
  <2>2. wire # <<>>  BY <1>7 DEF HelperReplies
  <2>3. PICK m \in [kind : {"request", "reply"}, gen : {"now"}] : wire = <<m>>  BY <2>2 DEF ThreadInv
  <2>4. thread.at = "reply"  BY <2>2 DEF ThreadInv
  <2> PICK i : i = CHOOSE j \in DOMAIN wire :
                     /\ wire[j].kind = "request"
                     /\ \A k \in DOMAIN wire : wire[k].kind = "request" => j <= k
    OBVIOUS
  <2>5. i = 1
    <3>1. DOMAIN wire = {1}  BY <2>3
    <3>2. wire[1].kind = "request"  BY <1>7, <3>1 DEF HelperReplies
    <3> QED  BY <3>1, <3>2
  <2>6. wire' = [wire EXCEPT ![1].kind = "reply"]  BY <1>7, <2>5 DEF HelperReplies
  <2> PICK n : n = [m EXCEPT !.kind = "reply"]  OBVIOUS
  <2>7. wire' = <<n>> /\ n \in [kind : {"request", "reply"}, gen : {"now"}]  BY <2>3, <2>6
  <2>8. ThreadInv'  BY <2>1, <2>4, <2>7 DEF ThreadInv, WorkerGone
  <2>9. TaskInv'  BY <2>1 DEF TaskInv, Busy, WorkerGone
  <2> QED  BY <2>8, <2>9
<1>8. CASE HelperDies
  <2>1. /\ collector.session = "open" /\ collector' = [collector EXCEPT !.session = "dead"]
        /\ UNCHANGED <<task, commands, thread, answer, wire>>
    BY <1>8 DEF HelperDies
  <2>2. collector' \in [capability : {"healthy", "degraded", "unsupported"}, session : {"none", "open", "dead"}]
    BY <1>0, <2>1
  <2>3. ~WorkerGone  BY <2>1 DEF ThreadInv
  <2>4. ThreadInv'  BY <2>1, <2>2, <2>3 DEF ThreadInv, WorkerGone
  <2>5. TaskInv'  BY <2>1 DEF TaskInv, Busy, WorkerGone
  <2> QED  BY <2>4, <2>5
<1>9. CASE WorkerReads
  <2>1. thread.at = "reply" /\ wire # <<>> /\ UNCHANGED <<task, commands>>  BY <1>9 DEF WorkerReads
  <2>2. Busy  BY <2>1 DEF Busy
  <2>3. PICK m \in [kind : {"request", "reply"}, gen : {"now"}] : wire = <<m>>  BY <2>1 DEF ThreadInv
  <2>4. Head(wire).gen = "now" /\ Tail(wire) = <<>>  BY <2>3
  <2>5. PICK capability \in {"healthy", "degraded", "unsupported"} :
          /\ collector' = [collector EXCEPT !.capability = capability] /\ wire' = Tail(wire)
          /\ \/ Sampled(thread.perApp, capability # "unsupported")
             \/ capability # "unsupported" /\ Sampled("degraded", FALSE)
    BY <1>9, <2>4 DEF WorkerReads
  <2>6. \E a : Reply(a)  BY <2>5, Zenon DEF Sampled
  <2>7. collector' \in [capability : {"healthy", "degraded", "unsupported"}, session : {"none", "open", "dead"}]
    BY <1>0, <2>5
  <2> QED  BY <2>1, <2>2, <2>4, <2>5, <2>6, <2>7, ReplyKeeps
<1> QED  BY <1>1, <1>2, <1>3, <1>4, <1>5, <1>6, <1>7, <1>8, <1>9

NetSupInv == TaskInv /\ ThreadInv /\ KeptInv

\* What clients are shown of the network is as fresh as it says, every reply
\* answers its own request, and when the task has ended no thread or helper is
\* left, for any times and wherever a stop, a panic or a dying helper comes
\* (NetworkSupervisor::run of bins/appd/src/network.rs).
THEOREM NetworkStaysHonest == NetSupSpec => []NetworkIsHonest
<1>1. NetSupInit => NetSupInv
  <2> SUFFICES ASSUME NetSupInit  PROVE NetSupInv  OBVIOUS
  <2>1. TaskInv  BY DEF NetSupInit, TaskInv, Busy, Resting, WorkerGone
  <2>2. ThreadInv  BY DEF NetSupInit, ThreadInv, Resting, WorkerGone
  <2>3. kept = [snapshot |-> UnavailableSnapshot, sampled |-> FALSE, age |-> 0, failed |-> FALSE]
    BY Zenon DEF NetSupInit
  <2>4. KeptInv
    <3>1. 0 \in 0..RetainFor + 1  BY NetworkTimesAssumption
    <3> QED  BY <2>3, <3>1, UnavailableTold DEF KeptInv
  <2> QED  BY <2>1, <2>2, <2>4 DEF NetSupInv
<1>2. NetSupInv /\ [NetSupNext]_netSupVars => NetSupInv'
  <2> SUFFICES ASSUME NetSupInv, [NetSupNext]_netSupVars  PROVE NetSupInv'  OBVIOUS
  <2>1. ASSUME UNCHANGED <<task, commands, thread, answer, collector, wire>>  PROVE TaskInv' /\ ThreadInv'
    BY <2>1 DEF NetSupInv, TaskInv, ThreadInv, Busy, WorkerGone
  <2>2. CASE UNCHANGED netSupVars
    <3>1. UNCHANGED <<task, commands, thread, answer, collector, wire>> /\ UNCHANGED kept
      BY <2>2 DEF netSupVars
    <3>2. KeptInv'  BY <3>1 DEF NetSupInv, KeptInv, Told
    <3> QED  BY <2>1, <3>1, <3>2 DEF NetSupInv
  <2>3. CASE NetSupNext
    <3>1. CASE Age \/ AppdStops
      <4>1. UNCHANGED <<task, commands, thread, answer, collector, wire>>  BY <3>1 DEF Age, AppdStops
      <4> QED  BY <2>1, <2>3, <4>1, KeptStep DEF NetSupInv
    <3>2. CASE ~(Age \/ AppdStops)
      <4>1. TaskInv' /\ ThreadInv'  BY <2>3, <3>2, TaskStep, WorkerStep, Zenon DEF NetSupNext, NetSupInv
      <4> QED  BY <2>3, <4>1, KeptStep DEF NetSupInv
    <3> QED  BY <3>1, <3>2
  <2> QED  BY <2>2, <2>3
<1>3. NetSupInv => NetworkIsHonest
  <2> SUFFICES ASSUME NetSupInv  PROVE NetworkIsHonest  OBVIOUS
  <2>1. NetworkAnswersAreHonest  BY ShownIsHonest DEF NetSupInv
  <2>2. HelperInStep /\ Len(wire) <= 1
    <3>1. CASE wire = <<>>  BY <3>1 DEF HelperInStep
    <3>2. CASE wire # <<>>
      <4>1. PICK m \in [kind : {"request", "reply"}, gen : {"now"}] : wire = <<m>>
        BY <3>2 DEF NetSupInv, ThreadInv
      <4>2. DOMAIN wire = {1} /\ wire[1].gen = "now" /\ Len(wire) = 1  BY <4>1
      <4> QED  BY <4>2 DEF HelperInStep
    <3> QED  BY <3>1, <3>2
  <2>3. WorkerIsJoined  BY DEF NetSupInv, TaskInv, ThreadInv, WorkerIsJoined
  <2>4. Len(commands) <= 2 /\ Len(answer) <= 1
    <3>1. Len(commands) <= 2
      <4>1. /\ Len(<<>>) <= 2 /\ Len(<<"collect">>) <= 2 /\ Len(<<"shutdown">>) <= 2
            /\ Len(<<"collect", "shutdown">>) <= 2
        OBVIOUS
      <4> QED  BY <4>1, Zenon DEF NetSupInv, TaskInv
    <3>2. CASE answer = <<>>  BY <3>1, <3>2
    <3>3. CASE answer # <<>>
      <4>1. PICK a : answer = <<a>>  BY <3>3 DEF NetSupInv, TaskInv
      <4> QED  BY <3>1, <4>1
    <3> QED  BY <3>2, <3>3
  <2>5. NetSupTypeOK  BY <2>2, <2>4 DEF NetSupTypeOK, NetSupInv, TaskInv, ThreadInv, KeptInv
  <2> QED  BY <2>1, <2>2, <2>3, <2>5 DEF NetworkIsHonest
<1> QED  BY <1>1, <1>2, <1>3, PTL DEF NetSupSpec
-----------------------------------------------------------------------------
(* Interface rates (NetworkSampler). *)

\* What a counter shows in statistics of a width.
Shows(width, counter) ==
  IF width = 64 THEN counter ELSE IF width = 32 THEN counter % Width32 ELSE 0

Statistic == [width : {0, 32, 64}, counter : Nat, total : Nat, readAt : Nat]
Baseline == [at : Nat, width : {0, 32, 64}, counter : Nat, total : Nat, readAt : Nat]
LinkState == [present : Flag, width : {0, 32, 64}, counter : Nat, total : Nat]
Tables == UNION {[S -> Statistic] : S \in SUBSET Links}
Running == [step : {"reading"}, attempt : 1..MaxDumpAttempts, at : Nat, deadline : Nat,
            interrupted : Flag, seen : Tables, ids : SUBSET Links]

\* What a link counts from a reading of it on is no more than what passed since.
Behind(l, r) ==
  /\ r.total <= link[l].total
  /\ Shows(r.width, link[l].counter) - r.counter <= link[l].total - r.total

NetTyped ==
  /\ clock \in [boot : Nat, awake : Nat, kernel : Nat]
  /\ clock.awake <= clock.boot /\ clock.boot <= MaxClock
  /\ link \in [Links -> LinkState]
  /\ dump = NoDump \/ dump \in Running
  /\ sampler.baselines \in UNION {[S -> Baseline] : S \in SUBSET Links}
  /\ sampler.once => sampler.previous \in Nat

\* A baseline lies behind its link, is of the observation before, and its boot
\* time runs ahead of its reading by no more than suspends have made of it.
BaselineInv ==
  \A l \in DOMAIN sampler.baselines :
    /\ Behind(l, sampler.baselines[l]) /\ sampler.once
    /\ sampler.baselines[l].at = sampler.previous
    /\ sampler.baselines[l].at - sampler.baselines[l].readAt <= clock.boot - clock.awake
    /\ dump.step = "reading" =>
         sampler.baselines[l].at - sampler.baselines[l].readAt <= dump.at + DumpDeadline - dump.deadline

\* The same of what a dump has read so far, and how it compares with a baseline.
DumpInv ==
  dump.step = "reading" =>
    /\ clock.awake <= dump.deadline /\ dump.deadline - DumpDeadline <= clock.awake
    /\ dump.at + DumpDeadline - dump.deadline <= clock.boot - clock.awake
    /\ ~dump.interrupted => dump.ids = Present
    /\ DOMAIN dump.seen \subseteq dump.ids
    /\ \A l \in DOMAIN dump.seen :
         /\ Behind(l, dump.seen[l])
         /\ dump.deadline - DumpDeadline <= dump.seen[l].readAt /\ dump.seen[l].readAt <= clock.awake
         /\ (l \in DOMAIN sampler.baselines /\ dump.seen[l].width = sampler.baselines[l].width) =>
              dump.seen[l].counter - sampler.baselines[l].counter
                <= dump.seen[l].total - sampler.baselines[l].total

RatesInv ==
  /\ \A l \in DOMAIN rates.of :
       rates.of[l].state \in States /\ (rates.known => rates.of[l].state = "Known")
  /\ RatesNeverInvent /\ RateWindowIsBounded /\ DumpIsOneMoment

NetInv == NetTyped /\ BaselineInv /\ DumpInv /\ RatesInv

\* Division with remainder.
LEMMA Division ==
  ASSUME NEW c \in Nat, NEW W \in Nat \ {0}
  PROVE  \E q \in Nat, r \in 0..(W - 1) : c = q * W + r
<1> DEFINE Bad == {n \in Nat : \A q \in Nat, r \in 0..(W - 1) : n # q * W + r}
<1>1. SUFFICES ASSUME Bad # {}
               PROVE  FALSE
  OBVIOUS
<1> HIDE DEF Bad
<1>2. PICK n \in Bad : \A m \in Bad : ~(m < n)
  <2>1. Bad \subseteq Nat  BY DEF Bad
  <2>2. PICK n \in Bad : \A m \in Bad : ~(<<m, n>> \in OpToRel(<, Nat))
    BY <1>1, <2>1, NatLessThanWellFounded, WFMin
  <2> QED  BY <2>1, <2>2 DEF OpToRel
<1>3. n \in Nat /\ \A q \in Nat, r \in 0..(W - 1) : n # q * W + r
  BY DEF Bad
<1>4. n # 0
  <2>1. 0 \in Nat /\ 0 \in 0..(W - 1) /\ 0 = 0 * W + 0  OBVIOUS
  <2> QED  BY <1>3, <2>1
<1>5. n - 1 \in Nat /\ n - 1 \notin Bad
  BY <1>2, <1>3, <1>4
<1>6. PICK q \in Nat, r \in 0..(W - 1) : n - 1 = q * W + r
  BY <1>5 DEF Bad
<1>7. CASE r + 1 < W
  <2>1. r + 1 \in 0..(W - 1) /\ n = q * W + (r + 1)  BY <1>3, <1>6, <1>7
  <2> QED  BY <1>3, <2>1
<1>8. CASE r + 1 = W
  <2>1. q + 1 \in Nat /\ 0 \in 0..(W - 1) /\ n = (q + 1) * W + 0  BY <1>3, <1>6, <1>8
  <2> QED  BY <1>3, <2>1
<1> QED  BY <1>6, <1>7, <1>8

LEMMA Remainder ==
  ASSUME NEW W \in Nat \ {0}, NEW q \in Nat, NEW r \in 0..(W - 1)
  PROVE  (q * W + r) % W = r
BY SMTT(30)

\* One more on a counter is at most one more on what it shows modulo W.
LEMMA ModSuccessor ==
  ASSUME NEW c \in Nat, NEW W \in Nat \ {0}
  PROVE  (c + 1) % W <= (c % W) + 1
<1>1. PICK q \in Nat, r \in 0..(W - 1) : c = q * W + r  BY Division
<1>2. c % W = r  BY <1>1, Remainder
<1>3. CASE r + 1 < W
  <2>1. r + 1 \in 0..(W - 1) /\ c + 1 = q * W + (r + 1)  BY <1>1, <1>3
  <2>2. (c + 1) % W = r + 1  BY <2>1, Remainder
  <2> QED  BY <1>2, <2>2
<1>4. CASE r + 1 = W
  <2>1. q + 1 \in Nat /\ 0 \in 0..(W - 1) /\ c + 1 = (q + 1) * W + 0  BY <1>1, <1>4
  <2>2. (c + 1) % W = 0  BY <2>1, Remainder
  <2> QED  BY <1>2, <2>2
<1> QED  BY <1>3, <1>4

LEMMA ShowsSteps ==
  ASSUME NEW w, NEW c \in Nat
  PROVE  /\ Shows(w, c) \in Nat /\ Shows(w, 0) = 0
         /\ Shows(w, c + 1) <= Shows(w, c) + 1
<1>1. c % Width32 \in Nat /\ (c + 1) % Width32 <= (c % Width32) + 1 /\ (c + 1) % Width32 \in Nat
  BY NetAssumption, ModSuccessor
<1>2. 0 % Width32 = 0
  <2>1. 0 * Width32 + 0 = 0 /\ 0 \in 0..(Width32 - 1)  BY NetAssumption
  <2> QED  BY <2>1, NetAssumption, Remainder
<1> QED  BY <1>1, <1>2 DEF Shows

\* Where the counters went on or were reset, a reading stays behind.
LEMMA BehindKept ==
  ASSUME NEW l, NEW r, r.counter \in Nat, r.total \in Nat, link[l] \in LinkState, link'[l] \in LinkState,
         \/ link'[l].counter = link[l].counter + 1 /\ link'[l].total = link[l].total + 1
         \/ link'[l].counter \in {0, link[l].counter} /\ link'[l].total = link[l].total,
         Behind(l, r)
  PROVE  Behind(l, r)'
<1>1. PICK c \in Nat : c = link[l].counter  BY DEF LinkState
<1>2. PICK t \in Nat : t = link[l].total  BY DEF LinkState
<1>3. PICK k \in Nat : k = Shows(r.width, c)  BY ShowsSteps
<1>4. PICK k1 \in Nat : k1 = Shows(r.width, c + 1) /\ k1 <= k + 1  BY <1>3, ShowsSteps
<1>5. Shows(r.width, 0) = 0  BY ShowsSteps
<1>6. r.total <= t /\ k - r.counter <= t - r.total  BY <1>1, <1>2, <1>3 DEF Behind
<1>7. CASE link'[l].counter = link[l].counter + 1 /\ link'[l].total = link[l].total + 1
  <2>1. link'[l].counter = c + 1 /\ link'[l].total = t + 1  BY <1>1, <1>2, <1>7
  <2>2. r.total <= t + 1 /\ k1 - r.counter <= t + 1 - r.total  BY <1>4, <1>6
  <2>3. Shows(r.width, link'[l].counter) = k1  BY <1>4, <2>1
  <2> QED  BY <2>1, <2>2, <2>3 DEF Behind, Shows
<1>8. CASE link'[l].counter \in {0, link[l].counter} /\ link'[l].total = link[l].total
  <2>1. CASE link'[l].counter = 0
    <3>1. 0 - r.counter <= t - r.total  BY <1>6
    <3> QED  BY <1>2, <1>5, <1>6, <1>8, <2>1, <3>1 DEF Behind, Shows
  <2>2. CASE link'[l].counter = link[l].counter
    BY <1>1, <1>2, <1>8, <2>2 DEF Behind, Shows
  <2> QED  BY <1>8, <2>1, <2>2
<1> QED  BY <1>7, <1>8

LEMMA TableIs ==
  ASSUME NEW f \in Tables
  PROVE  DOMAIN f \subseteq Links /\ \A l \in DOMAIN f : f[l] \in Statistic
BY DEF Tables

LEMMA TablePut ==
  ASSUME NEW f \in Tables, NEW l \in Links, NEW s \in Statistic
  PROVE  /\ MapPut(f, l, s) \in Tables /\ DOMAIN MapPut(f, l, s) = DOMAIN f \cup {l}
         /\ MapPut(f, l, s)[l] = s
         /\ \A m \in DOMAIN f : m # l => MapPut(f, l, s)[m] = f[m]
<1>1. MapPut(f, l, s) \in [DOMAIN f \cup {l} -> Statistic]  BY DEF Tables, MapPut
<1>2. DOMAIN f \cup {l} \in SUBSET Links  BY DEF Tables
<1> QED  BY <1>1, <1>2 DEF Tables, MapPut

LEMMA EmptyTable == NoLinks \in Tables /\ DOMAIN NoLinks = {}
<1>1. NoLinks \in [{} -> Statistic]  BY DEF NoLinks
<1> QED  BY <1>1 DEF Tables

LEMMA BaselineIs ==
  ASSUME NetTyped
  PROVE  /\ DOMAIN sampler.baselines \subseteq Links
         /\ \A l \in DOMAIN sampler.baselines :
              sampler.baselines[l] \in Baseline /\ sampler.baselines[l].counter \in Nat
              /\ sampler.baselines[l].total \in Nat /\ sampler.baselines[l].at \in Nat
              /\ sampler.baselines[l].readAt \in Nat
BY DEF NetTyped, Baseline

LEMMA DumpIs ==
  ASSUME NetTyped, dump.step = "reading"
  PROVE  /\ dump \in Running /\ DOMAIN dump.seen \subseteq Links
         /\ \A l \in DOMAIN dump.seen : dump.seen[l] \in Statistic /\ dump.seen[l].counter \in Nat
              /\ dump.seen[l].total \in Nat /\ dump.seen[l].readAt \in Nat
<1>1. NoDump.step # "reading"  BY DEF NoDump
<1>2. dump \in Running  BY <1>1 DEF NetTyped
<1>3. dump.seen \in Tables  BY <1>2 DEF Running
<1> QED  BY <1>2, <1>3, TableIs DEF Statistic

\* What happens in the kernel keeps what was read behind it.
LEMMA KernelKeeps ==
  ASSUME NetInv, NEW l \in Links, KernelStep, UNCHANGED <<sampler, rates>>,
         dump' = dump \/ dump' = Interrupts, Present' # Present => dump' = Interrupts,
         link' \in [Links -> LinkState], \A m \in Links \ {l} : link'[m] = link[m],
         \/ link'[l].counter = link[l].counter + 1 /\ link'[l].total = link[l].total + 1
         \/ link'[l].counter \in {0, link[l].counter} /\ link'[l].total = link[l].total
  PROVE  NetInv'
<1> USE DEF NetInv
<1>1. clock' \in [boot : Nat, awake : Nat, kernel : Nat] /\ clock'.awake = clock.awake /\ clock'.boot = clock.boot
  BY DEF NetTyped, KernelStep
<1>2. ASSUME NEW m \in Links, NEW r, r.counter \in Nat, r.total \in Nat, Behind(m, r)
      PROVE  Behind(m, r)'
  <2>1. link[m] \in LinkState /\ link'[m] \in LinkState  BY DEF NetTyped
  <2>2. CASE m = l  BY <1>2, <2>1, <2>2, BehindKept
  <2>3. CASE m # l
    <3>1. link'[m] = link[m]  BY <2>3
    <3> QED  BY <1>2, <3>1 DEF Behind, Shows
  <2> QED  BY <2>2, <2>3
<1>3. /\ dump' = NoDump \/ dump' \in Running
      /\ dump'.step = dump.step /\ (dump.step = "reading" =>
           /\ dump'.at = dump.at /\ dump'.deadline = dump.deadline /\ dump'.seen = dump.seen
           /\ dump'.ids = dump.ids /\ (~dump'.interrupted => ~dump.interrupted /\ dump' = dump))
  <2>1. CASE dump' = dump  BY <2>1 DEF NetTyped
  <2>2. CASE dump.step # "reading" /\ dump' = Interrupts  BY <2>2 DEF NetTyped, Interrupts
  <2>3. CASE dump.step = "reading" /\ dump' = Interrupts
    <3>1. dump \in Running  BY <2>3, DumpIs
    <3>2. dump' = [dump EXCEPT !.interrupted = TRUE]  BY <2>3 DEF Interrupts
    <3>3. dump' \in Running  BY <3>1, <3>2, Zenon DEF Running, Flag
    <3>4. /\ dump'.step = dump.step /\ dump'.at = dump.at /\ dump'.deadline = dump.deadline
          /\ dump'.seen = dump.seen /\ dump'.ids = dump.ids
      BY <3>1, <3>2 DEF Running
    <3>5. dump'.interrupted  BY <3>1, <3>2, Zenon DEF Running
    <3> QED  BY <3>3, <3>4, <3>5
  <2> QED  BY <2>1, <2>2, <2>3
<1>4. NetTyped'  BY <1>1, <1>3 DEF NetTyped
<1>5. BaselineInv'
  <2> SUFFICES ASSUME NEW m \in DOMAIN sampler.baselines
               PROVE  /\ Behind(m, sampler.baselines[m])' /\ sampler.once
                      /\ sampler.baselines[m].at = sampler.previous
                      /\ sampler.baselines[m].at - sampler.baselines[m].readAt <= clock'.boot - clock'.awake
                      /\ dump'.step = "reading" =>
                           sampler.baselines[m].at - sampler.baselines[m].readAt
                             <= dump'.at + DumpDeadline - dump'.deadline
    BY DEF BaselineInv, Behind, Shows
  <2>1. m \in Links /\ sampler.baselines[m].counter \in Nat /\ sampler.baselines[m].total \in Nat
    BY BaselineIs
  <2>2. Behind(m, sampler.baselines[m])  BY DEF BaselineInv
  <2>3. Behind(m, sampler.baselines[m])'  BY <1>2, <2>1, <2>2 DEF Behind, Shows
  <2> QED  BY <1>1, <1>3, <2>3 DEF BaselineInv
<1>6. DumpInv'
  <2> SUFFICES ASSUME dump.step = "reading"
               PROVE  DumpInv'
    BY <1>3 DEF DumpInv
  <2>1. ~dump'.interrupted => dump'.ids = Present'
    <3>1. CASE Present' = Present  BY <1>3, <3>1 DEF DumpInv
    <3>2. CASE Present' # Present
      <4>1. dump' = [dump EXCEPT !.interrupted = TRUE]  BY <3>2 DEF Interrupts
      <4>2. dump'.interrupted  BY <4>1, DumpIs, Zenon DEF Running
      <4> QED  BY <4>2
    <3> QED  BY <3>1, <3>2
  <2>2. ASSUME NEW m \in DOMAIN dump.seen
        PROVE  Behind(m, dump.seen[m])'
    <3>1. m \in Links /\ dump.seen[m].counter \in Nat /\ dump.seen[m].total \in Nat /\ Behind(m, dump.seen[m])
      BY DumpIs DEF DumpInv
    <3> QED  BY <1>2, <1>3, <3>1 DEF Behind, Shows
  <2>3. \A m \in DOMAIN dump'.seen : Behind(m, dump.seen[m])' BY <1>3, <2>2
  <2> QED  BY <1>1, <1>3, <2>1, <2>3 DEF DumpInv
<1>7. RatesInv'  BY DEF RatesInv, RatesNeverInvent, RateWindowIsBounded, DumpIsOneMoment
<1> QED  BY <1>4, <1>5, <1>6, <1>7

LEMMA TrafficKeeps ==
  ASSUME NetInv, NEW l \in Links,
         Traffic(l) \/ ResetCounter(l) \/ StatisticsChange(l) \/ Hotplug(l)
  PROVE  NetInv'
<1>0. link \in [Links -> LinkState] /\ link[l] \in LinkState  BY DEF NetInv, NetTyped
<1>1. CASE Traffic(l)
  <2>1. /\ KernelStep /\ link' = [link EXCEPT ![l].counter = @ + 1, ![l].total = @ + 1]
        /\ UNCHANGED <<dump, sampler, rates>>
    BY <1>1 DEF Traffic
  <2>0. PICK c \in Nat, t \in Nat : c = link[l].counter /\ t = link[l].total  BY <1>0 DEF LinkState
  <2>9. PICK d \in Nat, u \in Nat : d = c + 1 /\ u = t + 1  OBVIOUS
  <2>2. PICK r : r = [link[l] EXCEPT !.counter = d, !.total = u]  OBVIOUS
  <2>3. /\ r \in LinkState /\ r.counter = link[l].counter + 1 /\ r.total = link[l].total + 1
        /\ r.present = link[l].present
    BY <1>0, <2>0, <2>2, <2>9 DEF LinkState
  <2>4. link' = [link EXCEPT ![l] = r]  BY <1>0, <2>0, <2>1, <2>2, <2>9 DEF LinkState
  <2>5. /\ link' \in [Links -> LinkState] /\ link'[l] = r /\ \A m \in Links \ {l} : link'[m] = link[m]
    BY <1>0, <2>3, <2>4
  <2>6. Present' = Present  BY <2>3, <2>5 DEF Present
  <2> QED  BY <2>1, <2>3, <2>5, <2>6, KernelKeeps
<1>2. CASE ResetCounter(l)
  <2>1. /\ KernelStep /\ link' = [link EXCEPT ![l].counter = 0] /\ UNCHANGED <<dump, sampler, rates>>
    BY <1>2 DEF ResetCounter
  <2>2. PICK r : r = [link[l] EXCEPT !.counter = 0]  OBVIOUS
  <2>3. r \in LinkState /\ r.counter = 0 /\ r.total = link[l].total /\ r.present = link[l].present
    BY <1>0, <2>2 DEF LinkState
  <2>4. link' = [link EXCEPT ![l] = r]  BY <2>1, <2>2
  <2>5. /\ link' \in [Links -> LinkState] /\ link'[l] = r /\ \A m \in Links \ {l} : link'[m] = link[m]
    BY <1>0, <2>3, <2>4
  <2>6. Present' = Present  BY <2>3, <2>5 DEF Present
  <2> QED  BY <2>1, <2>3, <2>5, <2>6, KernelKeeps
<1>3. CASE StatisticsChange(l)
  <2>1. PICK width \in {0, 32, 64} : link' = [link EXCEPT ![l].width = width]
    BY <1>3 DEF StatisticsChange
  <2>0. KernelStep /\ UNCHANGED <<dump, sampler, rates>>  BY <1>3 DEF StatisticsChange
  <2>2. PICK r : r = [link[l] EXCEPT !.width = width]  OBVIOUS
  <2>3. /\ r \in LinkState /\ r.counter = link[l].counter /\ r.total = link[l].total
        /\ r.present = link[l].present
    BY <1>0, <2>2 DEF LinkState
  <2>4. link' = [link EXCEPT ![l] = r]  BY <2>1, <2>2
  <2>5. /\ link' \in [Links -> LinkState] /\ link'[l] = r /\ \A m \in Links \ {l} : link'[m] = link[m]
    BY <1>0, <2>3, <2>4
  <2>6. Present' = Present  BY <2>3, <2>5 DEF Present
  <2> QED  BY <2>0, <2>3, <2>5, <2>6, KernelKeeps
<1>4. CASE Hotplug(l)
  <2>1. /\ KernelStep /\ link' = [link EXCEPT ![l].present = ~@, ![l].counter = 0]
        /\ dump' = Interrupts /\ UNCHANGED <<sampler, rates>>
    BY <1>4 DEF Hotplug
  <2>0. PICK b : b = ~link[l].present  OBVIOUS
  <2>9. b \in Flag  BY <2>0, Zenon DEF Flag
  <2>2. PICK r : r = [link[l] EXCEPT !.present = b, !.counter = 0]  OBVIOUS
  <2>3. r \in LinkState /\ r.counter = 0 /\ r.total = link[l].total
    BY <1>0, <2>2, <2>9 DEF LinkState
  <2>4. link' = [link EXCEPT ![l] = r]  BY <1>0, <2>0, <2>1, <2>2, Zenon DEF LinkState
  <2>5. /\ link' \in [Links -> LinkState] /\ link'[l] = r /\ \A m \in Links \ {l} : link'[m] = link[m]
    BY <1>0, <2>3, <2>4
  <2> QED  BY <2>1, <2>3, <2>5, KernelKeeps
<1> QED  BY <1>1, <1>2, <1>3, <1>4

\* Time passes: the boot time at least as fast as the Instants do.
LEMMA TimeKeeps ==
  ASSUME NetInv, ClockAdvances \/ Suspend
  PROVE  NetInv'
<1> USE NetAssumption DEF NetInv
<1>1. UNCHANGED <<link, dump, sampler, rates>>  BY DEF ClockAdvances, Suspend
<1>2. /\ clock' \in [boot : Nat, awake : Nat, kernel : Nat]
      /\ clock'.awake <= clock'.boot /\ clock'.boot <= MaxClock
      /\ clock.boot - clock.awake <= clock'.boot - clock'.awake
      /\ clock.awake <= clock'.awake
      /\ dump.step = "reading" /\ dump.deadline \in Nat /\ clock.awake <= dump.deadline
           => clock'.awake <= dump.deadline
  <2>1. PICK b \in Nat, a \in Nat : b = clock.boot /\ a = clock.awake  BY DEF NetTyped
  <2>2. CASE ClockAdvances
    <3>1. clock' = [clock EXCEPT !.boot = b + 1, !.awake = a + 1] /\ b < MaxClock
      BY <2>1, <2>2 DEF ClockAdvances
    <3>2. dump.step = "reading" => a < dump.deadline  BY <2>1, <2>2 DEF ClockAdvances
    <3>5. PICK d \in Nat, u \in Nat : d = b + 1 /\ u = a + 1  OBVIOUS
    <3>6. clock' = [clock EXCEPT !.boot = d, !.awake = u]  BY <3>1, <3>5
    <3>3. /\ clock' \in [boot : Nat, awake : Nat, kernel : Nat] /\ clock'.boot = b + 1 /\ clock'.awake = a + 1
      BY <3>5, <3>6 DEF NetTyped
    <3>4. a <= b  BY <2>1 DEF NetTyped
    <3> QED  BY <2>1, <3>1, <3>2, <3>3, <3>4
  <2>3. CASE Suspend
    <3>1. clock' = [clock EXCEPT !.boot = MaxClock] /\ b < MaxClock
      BY <2>1, <2>3 DEF Suspend
    <3> QED  BY <2>1, <3>1 DEF NetTyped
  <2> QED  BY <2>2, <2>3
<1>3. NetTyped'  BY <1>1, <1>2 DEF NetTyped
<1>4. clock.boot \in Nat /\ clock.awake \in Nat /\ clock'.boot \in Nat /\ clock'.awake \in Nat
  BY <1>2 DEF NetTyped
<1>5. BaselineInv'
  <2> SUFFICES ASSUME NEW m \in DOMAIN sampler.baselines
               PROVE  /\ Behind(m, sampler.baselines[m])' /\ sampler.once
                      /\ sampler.baselines[m].at = sampler.previous
                      /\ sampler.baselines[m].at - sampler.baselines[m].readAt <= clock'.boot - clock'.awake
                      /\ dump'.step = "reading" =>
                           sampler.baselines[m].at - sampler.baselines[m].readAt
                             <= dump'.at + DumpDeadline - dump'.deadline
    BY <1>1 DEF BaselineInv, Behind, Shows
  <2>1. sampler.baselines[m].at \in Nat /\ sampler.baselines[m].readAt \in Nat  BY BaselineIs
  <2>2. Behind(m, sampler.baselines[m])'  BY <1>1 DEF BaselineInv, Behind, Shows
  <2> QED  BY <1>1, <1>2, <1>4, <2>1, <2>2 DEF BaselineInv
<1>6. DumpInv'
  <2> SUFFICES ASSUME dump.step = "reading"
               PROVE  DumpInv'
    BY <1>1 DEF DumpInv
  <2>1. Present' = Present  BY <1>1 DEF Present
  <2>2. dump.at \in Nat /\ dump.deadline \in Nat  BY DumpIs DEF Running
  <2>3. \A m \in DOMAIN dump.seen : Behind(m, dump.seen[m])'
    BY <1>1 DEF DumpInv, Behind, Shows
  <2>4. \A m \in DOMAIN dump.seen : dump.seen[m].readAt <= clock'.awake
    BY <1>2, <1>4, DumpIs DEF DumpInv
  <2>5. /\ clock'.awake <= dump.deadline /\ dump.deadline - DumpDeadline <= clock'.awake
        /\ dump.at + DumpDeadline - dump.deadline <= clock'.boot - clock'.awake
    BY <1>2, <1>4, <2>2 DEF DumpInv
  <2> QED  BY <1>1, <2>1, <2>3, <2>4, <2>5 DEF DumpInv
<1>7. RatesInv'  BY <1>1 DEF RatesInv, RatesNeverInvent, RateWindowIsBounded, DumpIsOneMoment
<1> QED  BY <1>3, <1>5, <1>6, <1>7

\* A dump begins, or begins again within the same deadline.
LEMMA AttemptKeeps ==
  ASSUME NetInv, NEW n \in 1..MaxDumpAttempts, NEW at \in Nat, NEW deadline \in Nat,
         dump' = Attempt(n, at, deadline), UNCHANGED <<clock, link, sampler>>,
         rates' \in {rates, NoRates}, clock.awake <= deadline, deadline - DumpDeadline <= clock.awake,
         at + DumpDeadline - deadline <= clock.boot - clock.awake,
         \A l \in DOMAIN sampler.baselines :
           sampler.baselines[l].at - sampler.baselines[l].readAt <= at + DumpDeadline - deadline
  PROVE  NetInv'
<1> USE NetAssumption DEF NetInv
<1>0. FALSE \in Flag  BY Zenon DEF Flag
<1>1. /\ dump'.step = "reading" /\ dump'.at = at /\ dump'.deadline = deadline /\ dump'.seen = NoLinks
      /\ dump'.ids = Present /\ dump' \in Running
  BY <1>0, EmptyTable DEF Attempt, Running, Present
<1>2. NetTyped'  BY <1>1 DEF NetTyped
<1>3. \A m \in DOMAIN sampler.baselines : Behind(m, sampler.baselines[m])' = Behind(m, sampler.baselines[m])
  BY DEF Behind, Shows
<1>4. BaselineInv'  BY <1>1, <1>3 DEF BaselineInv
<1>5. Present' = Present  BY DEF Present
<1>6. DumpInv'  BY <1>1, <1>5, EmptyTable DEF DumpInv
<1>7. RatesInv'
  <2>1. CASE rates' = rates
    BY <2>1 DEF RatesInv, RatesNeverInvent, RateWindowIsBounded, DumpIsOneMoment
  <2>2. CASE rates' = NoRates
    <3>1. DOMAIN rates'.of = {} /\ rates'.ids = {}  BY <2>2, EmptyTable DEF NoRates
    <3> QED  BY <3>1 DEF RatesInv, RatesNeverInvent, RateWindowIsBounded, DumpIsOneMoment
  <2> QED  BY <2>1, <2>2
<1> QED  BY <1>2, <1>4, <1>6, <1>7

LEMMA BeginKeepsNet ==
  ASSUME NetInv, BeginCollect \/ DumpRetries
  PROVE  NetInv'
<1> USE NetAssumption
<1>0. clock.boot \in Nat /\ clock.awake \in Nat /\ clock.awake <= clock.boot  BY DEF NetInv, NetTyped
<1>1. CASE BeginCollect
  <2>1. PICK deadline \in Nat : deadline = clock.awake + DumpDeadline  BY <1>0
  <2>2. /\ dump' = Attempt(1, clock.boot, deadline) /\ rates' = NoRates /\ UNCHANGED <<clock, link, sampler>>
    BY <1>1, <2>1 DEF BeginCollect
  <2>3. /\ clock.awake <= deadline /\ deadline - DumpDeadline <= clock.awake /\ 1 \in 1..MaxDumpAttempts
        /\ clock.boot + DumpDeadline - deadline = clock.boot - clock.awake
    BY <1>0, <2>1
  <2>4. \A l \in DOMAIN sampler.baselines :
          sampler.baselines[l].at - sampler.baselines[l].readAt <= clock.boot + DumpDeadline - deadline
    BY <2>3 DEF NetInv, BaselineInv
  <2>5. clock.boot + DumpDeadline - deadline <= clock.boot - clock.awake  BY <1>0, <2>1
  <2> QED  BY <1>0, <2>2, <2>3, <2>4, <2>5, AttemptKeeps
<1>2. CASE DumpRetries
  <2>1. /\ dump.step = "reading" /\ dump.attempt < MaxDumpAttempts
        /\ dump' = Attempt(dump.attempt + 1, dump.at, dump.deadline) /\ UNCHANGED <<clock, link, sampler, rates>>
    BY <1>2 DEF DumpRetries, Retried
  <2>2. dump.attempt + 1 \in 1..MaxDumpAttempts /\ dump.at \in Nat /\ dump.deadline \in Nat
    BY <2>1, DumpIs DEF NetInv, Running
  <2>3. /\ clock.awake <= dump.deadline /\ dump.deadline - DumpDeadline <= clock.awake
        /\ dump.at + DumpDeadline - dump.deadline <= clock.boot - clock.awake
    BY <2>1 DEF NetInv, DumpInv
  <2>4. \A l \in DOMAIN sampler.baselines :
          sampler.baselines[l].at - sampler.baselines[l].readAt <= dump.at + DumpDeadline - dump.deadline
    BY <2>1 DEF NetInv, BaselineInv
  <2> QED  BY <2>1, <2>2, <2>3, <2>4, AttemptKeeps
<1> QED  BY <1>1, <1>2

LEMMA ReadingShows ==
  ASSUME NEW l \in Links, link[l] \in LinkState
  PROVE  Reading(l) = Shows(link[l].width, link[l].counter) /\ Reading(l) \in Nat
<1>1. link[l].width \in {0, 32, 64} /\ link[l].counter \in Nat  BY DEF LinkState
<1>2. Shows(link[l].width, link[l].counter) \in Nat  BY <1>1, ShowsSteps
<1>3. Reading(l) = Shows(link[l].width, link[l].counter)  BY <1>1 DEF Reading, Shows
<1> QED  BY <1>2, <1>3

LEMMA ReadLinkKeeps ==
  ASSUME NetInv, NEW l \in Links, ReadLink(l)
  PROVE  NetInv'
<1> USE NetAssumption DEF NetInv
<1>1. /\ dump.step = "reading" /\ ~dump.interrupted /\ l \in Present \ DOMAIN dump.seen
      /\ UNCHANGED <<clock, link, sampler, rates>>
  BY DEF ReadLink, DumpHeaderValid
<1>2. PICK s : s = [width |-> link[l].width, counter |-> Reading(l), total |-> link[l].total,
                    readAt |-> clock.awake]
  OBVIOUS
<1>3. dump' = [dump EXCEPT !.seen = MapPut(dump.seen, l, s)]  BY <1>2 DEF ReadLink
<1>4. link[l] \in LinkState /\ clock.awake \in Nat /\ clock.boot \in Nat  BY DEF NetTyped
<1>5. /\ s \in Statistic /\ s.counter = Shows(s.width, link[l].counter) /\ s.total = link[l].total
      /\ s.readAt = clock.awake /\ s.counter \in Nat /\ s.total \in Nat
  BY <1>2, <1>4, ReadingShows DEF Statistic, LinkState
<1>6. dump \in Running /\ dump.seen \in Tables /\ dump.deadline \in Nat /\ dump.at \in Nat
  BY <1>1, DumpIs DEF Running
<1>7. PICK t \in Tables : t = MapPut(dump.seen, l, s)  BY <1>5, <1>6, TablePut
<1>8. DOMAIN t = DOMAIN dump.seen \cup {l} /\ t[l] = s /\ \A m \in DOMAIN dump.seen : t[m] = dump.seen[m]
  <2>1. PICK f \in Tables : f = dump.seen  BY <1>6
  <2>2. PICK g : g = MapPut(f, l, s)  OBVIOUS
  <2>3. DOMAIN g = DOMAIN f \cup {l} /\ g[l] = s /\ \A m \in DOMAIN f : m # l => g[m] = f[m]
    BY <2>2 DEF MapPut
  <2> QED  BY <1>1, <1>7, <2>1, <2>2, <2>3
<1>9. /\ dump' \in Running /\ dump'.seen = t /\ dump'.step = "reading" /\ dump'.at = dump.at
      /\ dump'.deadline = dump.deadline /\ dump'.ids = dump.ids
  <2>1. dump' = [dump EXCEPT !.seen = t]  BY <1>3, <1>7
  <2> QED  BY <1>1, <1>6, <2>1 DEF Running
<1>10. NetTyped'  BY <1>1, <1>9 DEF NetTyped
<1>11. BaselineInv'  BY <1>1, <1>9 DEF BaselineInv, Behind, Shows
<1>12. DumpInv'
  <2>1. Present' = Present /\ dump.ids = Present /\ DOMAIN dump.seen \subseteq dump.ids
    BY <1>1 DEF Present, DumpInv
  <2>2. /\ clock.awake <= dump.deadline /\ dump.deadline - DumpDeadline <= clock.awake
        /\ dump.at + DumpDeadline - dump.deadline <= clock.boot - clock.awake
    BY <1>1 DEF DumpInv
  <2>3. ASSUME NEW m \in DOMAIN t
        PROVE  /\ Behind(m, t[m])'
               /\ dump.deadline - DumpDeadline <= t[m].readAt /\ t[m].readAt <= clock.awake
               /\ (m \in DOMAIN sampler.baselines /\ t[m].width = sampler.baselines[m].width) =>
                    t[m].counter - sampler.baselines[m].counter <= t[m].total - sampler.baselines[m].total
    <3>1. CASE m # l
      <4>1. m \in DOMAIN dump.seen /\ t[m] = dump.seen[m]  BY <1>8, <3>1
      <4> QED  BY <1>1, <1>7, <4>1 DEF DumpInv, Behind, Shows
    <3>2. CASE m = l
      <4>1. t[m] = s  BY <1>8, <3>2
      <4>2. Behind(l, s)  BY <1>5 DEF Behind
      <4>3. Behind(m, t[m])'  BY <1>1, <1>7, <3>2, <4>1, <4>2 DEF Behind, Shows
      <4>5. (l \in DOMAIN sampler.baselines /\ s.width = sampler.baselines[l].width) =>
              s.counter - sampler.baselines[l].counter <= s.total - sampler.baselines[l].total
        BY <1>5 DEF BaselineInv, Behind
      <4> QED  BY <1>4, <1>5, <3>2, <4>1, <2>2, <4>3, <4>5
    <3> QED  BY <3>1, <3>2
  <2>4. DOMAIN t \subseteq dump.ids  BY <1>1, <1>8, <2>1
  <2> QED  BY <1>1, <1>9, <2>1, <2>2, <2>3, <2>4 DEF DumpInv, Behind, Shows
<1>13. RatesInv'  BY <1>1 DEF RatesInv, RatesNeverInvent, RateWindowIsBounded, DumpIsOneMoment
<1> QED  BY <1>10, <1>11, <1>12, <1>13

\* What a complete dump is compared with becomes rates that were measured.
LEMMA ObserveKeeps ==
  ASSUME NetInv, ObserveDump
  PROVE  NetInv'
<1> USE NetAssumption DEF NetInv
<1>1. /\ dump.step = "reading" /\ ~dump.interrupted /\ Present \subseteq DOMAIN dump.seen
      /\ UNCHANGED <<clock, link>> /\ dump' = NoDump
      /\ sampler' = [baselines |-> Baselines, previous |-> dump.at, once |-> TRUE]
  BY DEF ObserveDump, DumpHeaderValid
<1>2. PICK of : of = [l \in DOMAIN dump.seen |-> InterfaceRate(l)]  OBVIOUS
<1>3. rates' = [of |-> of, ids |-> dump.ids, known |-> AggregateKnown(of)]  BY <1>2 DEF ObserveDump
<1>4. dump \in Running /\ dump.at \in Nat /\ dump.deadline \in Nat  BY <1>1, DumpIs DEF Running
<1>5. clock.awake \in Nat /\ clock.boot \in Nat  BY DEF NetTyped
<1>6. DOMAIN of = DOMAIN dump.seen /\ \A l \in DOMAIN of : of[l] = InterfaceRate(l)  BY <1>2
<1>7. ASSUME NEW l \in DOMAIN of
      PROVE  /\ of[l].state \in States
             /\ of[l].state = "Known" =>
                  /\ of[l].bytes \in 0..of[l].passed
                  /\ of[l].elapsed \in 1..MaxRateInterval
                  /\ of[l].window <= of[l].elapsed + DumpDeadline
  <2>1. PICK s : s = dump.seen[l]  OBVIOUS
  <2>2. PICK b : b = sampler.baselines[l]  OBVIOUS
  <2>3. \A st : Unavailable(st).state = st  BY DEF Unavailable
  <2>4. CASE s.width = 0
    <3>1. of[l] = Unavailable("CountersUnavailable")  BY <1>6, <2>1, <2>4 DEF InterfaceRate
    <3> QED  BY <2>3, <3>1 DEF States
  <2>5. CASE s.width # 0 /\ l \notin DOMAIN sampler.baselines
    <3>1. of[l] = Unavailable("WarmingUp")  BY <1>6, <2>1, <2>5 DEF InterfaceRate
    <3> QED  BY <2>3, <3>1 DEF States
  <2>6. CASE s.width # 0 /\ l \in DOMAIN sampler.baselines
    <3>0. of[l] = IF SamplingGap \/ dump.at <= b.at THEN Unavailable("SamplingGap")
                  ELSE IF ResetOrWrap(b, s) THEN Unavailable("CounterResetOrWrap")
                  ELSE [state |-> "Known", bytes |-> s.counter - b.counter, passed |-> s.total - b.total,
                        elapsed |-> dump.at - b.at, window |-> s.readAt - b.readAt]
      BY <1>6, <2>1, <2>2, <2>6 DEF InterfaceRate
    <3>1. CASE SamplingGap \/ dump.at <= b.at  BY <2>3, <3>0, <3>1 DEF States
    <3>2. CASE ~(SamplingGap \/ dump.at <= b.at) /\ ResetOrWrap(b, s)
      BY <2>3, <3>0, <3>2 DEF States
    <3>3. CASE ~(SamplingGap \/ dump.at <= b.at) /\ ~ResetOrWrap(b, s)
      <4>1. /\ of[l].state = "Known" /\ of[l].bytes = s.counter - b.counter
            /\ of[l].passed = s.total - b.total /\ of[l].elapsed = dump.at - b.at
            /\ of[l].window = s.readAt - b.readAt
        BY <3>0, <3>3
      <4>2. /\ s.counter \in Nat /\ s.total \in Nat /\ s.readAt \in Nat /\ b.counter \in Nat
            /\ b.total \in Nat /\ b.at \in Nat /\ b.readAt \in Nat /\ s.width = b.width
            /\ ~(s.counter < b.counter) /\ ~(dump.at <= b.at)
        BY <1>1, <1>6, <2>1, <2>2, <2>6, <3>3, DumpIs, BaselineIs DEF ResetOrWrap
      <4>3. s.counter - b.counter <= s.total - b.total
        BY <1>1, <1>6, <2>1, <2>2, <2>6, <4>2 DEF DumpInv
      <4>4. sampler.once /\ b.at = sampler.previous
        BY <2>2, <2>6 DEF BaselineInv
      <4>5. ~(dump.at - b.at > MaxRateInterval)
        BY <3>3, <4>4 DEF SamplingGap
      <4>6. /\ b.at - b.readAt <= dump.at + DumpDeadline - dump.deadline
            /\ s.readAt <= clock.awake /\ clock.awake <= dump.deadline
        BY <1>1, <1>6, <2>1, <2>2, <2>6 DEF BaselineInv, DumpInv
      <4>7. s.counter - b.counter \in 0..(s.total - b.total)  BY <4>2, <4>3
      <4>8. dump.at - b.at \in 1..MaxRateInterval  BY <1>4, <4>2, <4>5
      <4>9. s.readAt - b.readAt <= dump.at - b.at + DumpDeadline
        BY <1>4, <1>5, <4>2, <4>6
      <4> QED  BY <4>1, <4>7, <4>8, <4>9 DEF States
    <3> QED  BY <3>1, <3>2, <3>3
  <2> QED  BY <2>4, <2>5, <2>6
<1>8. rates'.of = of /\ rates'.ids = dump.ids /\ (rates'.known => \A l \in DOMAIN of : of[l].state = "Known")
  BY <1>3 DEF AggregateKnown
<1>9. RatesInv'
  <2>1. \A l \in DOMAIN rates'.of :
          rates'.of[l].state \in States /\ (rates'.known => rates'.of[l].state = "Known")
    BY <1>7, <1>8
  <2>2. RatesNeverInvent'  BY <1>7, <1>8 DEF RatesNeverInvent
  <2>3. RateWindowIsBounded'  BY <1>7, <1>8 DEF RateWindowIsBounded
  <2>4. DumpIsOneMoment'
    BY <1>1, <1>6, <1>8 DEF DumpInv, DumpIsOneMoment
  <2> QED  BY <2>1, <2>2, <2>3, <2>4 DEF RatesInv
<1>10. DumpInv'  BY <1>1 DEF DumpInv, NoDump
<1>11. PICK S : S = {m \in DOMAIN dump.seen : dump.seen[m].width # 0}  OBVIOUS
<1>12. S \in SUBSET Links /\ S \subseteq DOMAIN dump.seen  BY <1>1, <1>11, DumpIs
<1>13. ASSUME NEW l \in S
       PROVE  /\ sampler'.baselines[l] \in Baseline /\ sampler'.baselines[l].at = dump.at
              /\ sampler'.baselines[l].width = dump.seen[l].width
              /\ sampler'.baselines[l].counter = dump.seen[l].counter
              /\ sampler'.baselines[l].total = dump.seen[l].total
              /\ sampler'.baselines[l].readAt = dump.seen[l].readAt
  <2>1. sampler'.baselines[l] = [at |-> dump.at, width |-> dump.seen[l].width,
          counter |-> dump.seen[l].counter, total |-> dump.seen[l].total, readAt |-> dump.seen[l].readAt]
    BY <1>1, <1>11 DEF Baselines
  <2>2. dump.seen[l] \in Statistic  BY <1>1, <1>12, DumpIs
  <2> QED  BY <1>4, <2>1, <2>2 DEF Statistic, Baseline
<1>14. /\ DOMAIN sampler'.baselines = S /\ sampler'.once /\ sampler'.previous = dump.at
       /\ sampler'.baselines \in [S -> Baseline]
  <2>1. sampler'.once /\ sampler'.previous = dump.at /\ sampler'.baselines = Baselines  BY <1>1
  <2>2. DOMAIN Baselines = S /\ Baselines = [l \in S |-> Baselines[l]]  BY <1>11 DEF Baselines
  <2> QED  BY <1>13, <2>1, <2>2
<1>15. NetTyped'
  BY <1>1, <1>4, <1>12, <1>14 DEF NetTyped
<1>16. BaselineInv'
  <2> SUFFICES ASSUME NEW l \in S
               PROVE  /\ Behind(l, sampler.baselines[l])' /\ sampler'.once
                      /\ sampler'.baselines[l].at = sampler'.previous
                      /\ sampler'.baselines[l].at - sampler'.baselines[l].readAt <= clock'.boot - clock'.awake
                      /\ dump'.step # "reading"
    BY <1>14 DEF BaselineInv
  <2>1. dump'.step # "reading"  BY <1>1 DEF NoDump
  <2>2. Behind(l, dump.seen[l])  BY <1>1, <1>12 DEF DumpInv
  <2>3. Behind(l, sampler.baselines[l])'  BY <1>1, <1>13, <2>2 DEF Behind, Shows
  <2>4. dump.seen[l].readAt \in Nat /\ dump.deadline - DumpDeadline <= dump.seen[l].readAt
        /\ dump.at + DumpDeadline - dump.deadline <= clock.boot - clock.awake
    BY <1>1, <1>12, DumpIs DEF DumpInv
  <2>5. dump.at - dump.seen[l].readAt <= clock.boot - clock.awake  BY <1>4, <1>5, <2>4
  <2> QED  BY <1>1, <1>13, <1>14, <2>1, <2>3, <2>5
<1> QED  BY <1>9, <1>10, <1>15, <1>16

LEMMA DumpFailsKeeps ==
  ASSUME NetInv, DumpFails
  PROVE  NetInv'
<1> USE DEF NetInv
<1>1. dump' = NoDump /\ UNCHANGED <<clock, link, sampler, rates>> /\ dump'.step # "reading"
  BY DEF DumpFails, NoDump
<1>2. NetTyped' /\ DumpInv'  BY <1>1 DEF NetTyped, DumpInv
<1>3. BaselineInv'  BY <1>1 DEF BaselineInv, Behind, Shows
<1>4. RatesInv'  BY <1>1 DEF RatesInv, RatesNeverInvent, RateWindowIsBounded, DumpIsOneMoment
<1> QED  BY <1>2, <1>3, <1>4

LEMMA NetStutters ==
  ASSUME NetInv, UNCHANGED netVars
  PROVE  NetInv'
<1> USE DEF NetInv, netVars
<1>1. NetTyped'  BY DEF NetTyped
<1>2. BaselineInv'  BY DEF BaselineInv, Behind, Shows
<1>3. Present' = Present  BY DEF Present
<1>4. DumpInv'  BY <1>3 DEF DumpInv, Behind, Shows
<1>5. RatesInv'  BY DEF RatesInv, RatesNeverInvent, RateWindowIsBounded, DumpIsOneMoment
<1> QED  BY <1>1, <1>2, <1>4, <1>5

LEMMA InitNet == NetInit => NetInv
<1> SUFFICES ASSUME NetInit PROVE NetInv  OBVIOUS
<1> USE NetAssumption DEF NetInit
<1>0. TRUE \in Flag  BY Zenon DEF Flag
<1>1. link \in [Links -> LinkState]  BY <1>0 DEF LinkState
<1>2. /\ clock \in [boot : Nat, awake : Nat, kernel : Nat] /\ clock.awake <= clock.boot
      /\ clock.boot <= MaxClock
  OBVIOUS
<1>3. /\ sampler.baselines = NoLinks /\ ~sampler.once /\ dump = NoDump /\ dump.step # "reading"
  BY DEF NoDump
<1>4. NoLinks \in [{} -> Baseline] /\ {} \in SUBSET Links  BY DEF NoLinks
<1>5. NetTyped  BY <1>1, <1>2, <1>3, <1>4 DEF NetTyped
<1>6. BaselineInv /\ DumpInv  BY <1>3, EmptyTable DEF BaselineInv, DumpInv
<1>7. DOMAIN rates.of = {} /\ rates.ids = {}  BY EmptyTable DEF NoRates
<1>8. RatesInv  BY <1>7 DEF RatesInv, RatesNeverInvent, RateWindowIsBounded, DumpIsOneMoment
<1> QED  BY <1>5, <1>6, <1>8 DEF NetInv

LEMMA NetInvShows ==
  ASSUME NetInv
  PROVE  NetTypeOK /\ RatesNeverInvent /\ RateWindowIsBounded /\ DumpIsOneMoment
<1> USE DEF NetInv
<1>1. DOMAIN sampler.baselines \subseteq Links  BY BaselineIs
<1>2. dump.step = "reading" => dump.attempt \in 1..MaxDumpAttempts /\ dump.ids \subseteq Links
  BY DumpIs DEF Running
<1> QED  BY <1>1, <1>2 DEF NetTypeOK, NetTyped, RatesInv

\* Whatever the kernel counts, resets, wraps and plugs while dumps are read,
\* interrupted and retried, a rate is made of bytes that passed, over a time that
\* is off by one deadline at most, and of links that were there together
\* (netlink.rs collect_dump_with_retry, sampler.rs interface_rate).
THEOREM RatesStayReal ==
  NetSpec => [](NetTypeOK /\ RatesNeverInvent /\ RateWindowIsBounded /\ DumpIsOneMoment)
<1>1. NetInit => NetInv  BY InitNet
<1>2. NetInv /\ [NetNext]_netVars => NetInv'
  BY TrafficKeeps, TimeKeeps, BeginKeepsNet, ReadLinkKeeps, ObserveKeeps, DumpFailsKeeps, NetStutters
     DEF NetNext
<1>3. NetInv => NetTypeOK /\ RatesNeverInvent /\ RateWindowIsBounded /\ DumpIsOneMoment
  BY NetInvShows
<1> QED  BY <1>1, <1>2, <1>3, PTL DEF NetSpec
-----------------------------------------------------------------------------
(* The applications' byte counters (NetworkCounters). *)

SumOver(f, S) == SumFunctionOnSet(f, S)

\* No store on the CPU has hidden another, or has been refused.
Sure(c, cpu) == <<c, cpu>> \notin maps.overflow /\ <<c, cpu>> \notin overtaken

\* The maps as they are loaded: a cgroup's counter on a CPU is what passed there
\* if it is sure, and never more; a cgroup without an entry has passed nothing,
\* unless the map was full.
MapsLoaded ==
  /\ maps = [attached |-> maps.attached, value |-> maps.value, overflow |-> maps.overflow,
             saturated |-> maps.saturated]
  /\ maps.attached = TRUE
  /\ maps.value = [c \in DOMAIN maps.value |-> maps.value[c]]
  /\ IsFiniteSet(DOMAIN maps.value) /\ DOMAIN maps.value \subseteq Cgroups
  /\ Cardinality(DOMAIN maps.value) <= MaxCgroups
  /\ maps.saturated \subseteq Cpus
  /\ maps.saturated # {} => Cardinality(DOMAIN maps.value) = MaxCgroups
  /\ \A c \in DOMAIN maps.value : maps.value[c] \in [Cpus -> 0..CounterMax]
  /\ \A c \in DOMAIN maps.value, cpu \in Cpus :
       /\ maps.value[c][cpu] <= passed[c][cpu]
       /\ Sure(c, cpu) => maps.value[c][cpu] = passed[c][cpu]
  /\ maps.saturated = {} => \A c \in Cgroups \ DOMAIN maps.value, cpu \in Cpus : passed[c][cpu] = 0

\* A running program has loaded no more than what had passed at its load, and
\* just that if the counter is still sure.
ProgramRuns(p) ==
  LET run == running[p]
  IN /\ maps.attached = TRUE
     /\ run.cgroup \in DOMAIN maps.value /\ run.loaded \in 0..CounterMax /\ run.since \in Nat
     /\ run.loaded <= run.since /\ run.since <= passed[run.cgroup][p[1]]
     /\ Sure(run.cgroup, p[1]) => run.loaded = run.since

ProgramsRun ==
  /\ running = [p \in Cpus \X Contexts |-> running[p]]
  /\ \A p \in Cpus \X Contexts : running[p] # NotRunning => ProgramRuns(p)

Unhidden(c) == \A cpu \in Cpus : <<c, cpu>> \notin overtaken

\* The records of a collection in progress are exact if the map is healthy and
\* nothing was hidden.
RecordsSoFar ==
  /\ DOMAIN collecting.records \subseteq DOMAIN collecting.before
  /\ DOMAIN collecting.before \subseteq DOMAIN collecting.keys
  /\ DOMAIN collecting.keys \subseteq Cgroups
  /\ \A c \in DOMAIN collecting.records :
       /\ collecting.records[c] \in Nat /\ collecting.records[c] <= SumOver(passed[c], Cpus)
       /\ maps.saturated = {} /\ Unhidden(c) => collecting.before[c] <= collecting.records[c]
  /\ \A c \in DOMAIN collecting.before : collecting.before[c] \in Nat

\* The sum so far is of the CPUs read; with what passed on those still to be
\* read it reaches what had passed at the lookup, unless something was hidden.
SumSoFar ==
  collecting.step = "summing" =>
    /\ collecting.cgroup \in DOMAIN maps.value \cap DOMAIN collecting.before
    /\ collecting.cgroup \notin DOMAIN collecting.records
    /\ collecting.cpus \subseteq Cpus /\ collecting.sum \in Nat
    /\ collecting.sum <= SumOver(passed[collecting.cgroup], collecting.cpus)
    /\ Unhidden(collecting.cgroup) =>
         collecting.before[collecting.cgroup]
           <= collecting.sum + SumOver(passed[collecting.cgroup], Cpus \ collecting.cpus)

CollectionRuns ==
  /\ maps.attached = TRUE
  /\ collecting = [step |-> collecting.step, keys |-> collecting.keys, cgroup |-> collecting.cgroup,
                   cpus |-> collecting.cpus, sum |-> collecting.sum, before |-> collecting.before,
                   records |-> collecting.records]
  /\ collecting.step \in {"collecting", "summing"}
  /\ RecordsSoFar /\ SumSoFar

CountersInv ==
  /\ passed \in [Cgroups -> [Cpus -> Nat]]
  /\ (maps = Detached /\ passed = NothingPassed) \/ MapsLoaded
  /\ ProgramsRun
  /\ collecting = NoReading \/ CollectionRuns
  /\ CountersAreExact

LEMMA Attached == maps.attached /\ CountersInv => MapsLoaded
<1>1. Detached.attached = FALSE  BY DEF Detached
<1>2. maps = Detached => maps.attached = FALSE  BY <1>1, Zenon
<1> QED  BY <1>2, Zenon DEF CountersInv

LEMMA Reads == collecting.step \in {"collecting", "summing"} /\ CountersInv => CollectionRuns
<1>1. NoReading.step \notin {"collecting", "summing"}  BY DEF NoReading
<1> QED  BY <1>1 DEF CountersInv

\* What passed on some CPUs is a number.
LEMMA PassedSums ==
  ASSUME passed \in [Cgroups -> [Cpus -> Nat]], NEW c \in Cgroups, NEW S \in SUBSET Cpus
  PROVE  IsFiniteSet(S) /\ (\A x \in S : passed[c][x] \in Nat) /\ SumOver(passed[c], S) \in Nat
<1>1. IsFiniteSet(S) /\ \A x \in S : passed[c][x] \in Nat  BY CountersAssumption, FS_Subset
<1> QED  BY <1>1, SumRecursion DEF SumOver

\* No application is exact.
LEMMA NothingIsExact ==
  ASSUME applications' = NoApplications
  PROVE  CountersAreExact'
<1>1. applications'.of = NoRecords /\ applications'.keys = NoRecords  BY DEF NoApplications
<1>2. DOMAIN NoRecords = {} /\ Range(NoRecords) = {}  BY DEF NoRecords, Range
<1> QED  BY <1>1, <1>2 DEF CountersAreExact

\* What a collection has so far stays right while packets pass.
LEMMA CollectionKept ==
  ASSUME CountersInv, UNCHANGED <<collecting, applications>>,
         passed' \in [Cgroups -> [Cpus -> Nat]],
         \A d \in Cgroups, p \in Cpus : passed[d][p] <= passed'[d][p],
         MapsLoaded, MapsLoaded', maps.saturated \subseteq maps'.saturated,
         DOMAIN maps.value \subseteq DOMAIN maps'.value, overtaken \subseteq overtaken', ProgramsRun'
  PROVE  CountersInv'
<1> USE DEF CountersInv
<1>1. CountersAreExact'  BY DEF CountersAreExact
<1>2. ASSUME NEW d \in Cgroups, NEW S \in SUBSET Cpus
      PROVE  /\ SumOver(passed[d], S) \in Nat /\ SumOver(passed'[d], S) \in Nat
             /\ SumOver(passed[d], S) <= SumOver(passed'[d], S)
  <2>1. IsFiniteSet(S) /\ \A x \in S : passed[d][x] \in Nat /\ passed'[d][x] \in Nat /\ passed[d][x] <= passed'[d][x]
    BY CountersAssumption, FS_Subset
  <2>2. PICK f, e : f = passed[d] /\ e = passed'[d]  OBVIOUS
  <2>3. \A x \in S : f[x] \in Nat /\ e[x] \in Nat /\ f[x] <= e[x]  BY <2>1, <2>2
  <2>4. SumFunctionOnSet(f, S) \in Nat /\ SumFunctionOnSet(e, S) \in Nat  BY <2>1, <2>3, SumRecursion
  <2>5. SumFunctionOnSet(f, S) <= SumFunctionOnSet(e, S)  BY <2>1, <2>3, SumMonotone
  <2> QED  BY <2>2, <2>4, <2>5 DEF SumOver
<1>3. \A c : Unhidden(c)' => Unhidden(c)  BY DEF Unhidden
<1>4. ASSUME CollectionRuns
      PROVE  CollectionRuns'
  <2>1. maps'.attached = TRUE  BY DEF MapsLoaded
  <2>2. /\ RecordsSoFar /\ SumSoFar
        /\ collecting = [step |-> collecting.step, keys |-> collecting.keys, cgroup |-> collecting.cgroup,
                         cpus |-> collecting.cpus, sum |-> collecting.sum, before |-> collecting.before,
                         records |-> collecting.records]
    BY <1>4 DEF CollectionRuns
  <2>3. ASSUME NEW c \in DOMAIN collecting.records
        PROVE  /\ collecting.records[c] \in Nat /\ collecting.records[c] <= SumOver(passed'[c], Cpus)
               /\ maps'.saturated = {} /\ Unhidden(c)' => collecting.before[c] <= collecting.records[c]
    <3>1. c \in Cgroups /\ Cpus \in SUBSET Cpus  BY <2>2 DEF RecordsSoFar
    <3>2. PICK a \in Nat, b \in Nat : a = SumOver(passed[c], Cpus) /\ b = SumOver(passed'[c], Cpus) /\ a <= b
      BY <1>2, <3>1
    <3>3. collecting.records[c] \in Nat /\ collecting.records[c] <= a  BY <2>2, <3>2 DEF RecordsSoFar
    <3>4. collecting.records[c] <= b  BY <3>2, <3>3
    <3>5. maps'.saturated = {} => maps.saturated = {}  OBVIOUS
    <3> QED  BY <1>3, <2>2, <3>2, <3>3, <3>4, <3>5 DEF RecordsSoFar
  <2>4. RecordsSoFar'  BY <2>2, <2>3 DEF RecordsSoFar, SumOver
  <2>5. SumSoFar'
    <3> SUFFICES ASSUME collecting.step = "summing"
                 PROVE  SumSoFar'
      BY DEF SumSoFar
    <3> DEFINE g == collecting.cgroup
               S == collecting.cpus
    <3>1. /\ g \in DOMAIN maps.value \cap DOMAIN collecting.before /\ g \notin DOMAIN collecting.records
          /\ S \subseteq Cpus /\ collecting.sum \in Nat /\ collecting.sum <= SumOver(passed[g], S)
          /\ Unhidden(g) => collecting.before[g] <= collecting.sum + SumOver(passed[g], Cpus \ S)
      BY <2>2 DEF SumSoFar
    <3>2. g \in Cgroups /\ S \in SUBSET Cpus /\ (Cpus \ S) \in SUBSET Cpus  BY <3>1 DEF MapsLoaded
    <3>3. PICK a \in Nat, b \in Nat : a = SumOver(passed[g], S) /\ b = SumOver(passed'[g], S) /\ a <= b
      BY <1>2, <3>2
    <3>4. PICK u \in Nat, v \in Nat :
            u = SumOver(passed[g], Cpus \ S) /\ v = SumOver(passed'[g], Cpus \ S) /\ u <= v
      BY <1>2, <3>2
    <3>5. collecting.before[g] \in Nat  BY <2>2, <3>1 DEF RecordsSoFar
    <3>6. collecting.sum <= b  BY <3>1, <3>3
    <3>7. Unhidden(g)' => collecting.before[g] <= collecting.sum + v
      BY <1>3, <3>1, <3>4, <3>5
    <3>8. g \in DOMAIN maps'.value /\ collecting' = collecting  BY <3>1
    <3>9. SumOver(passed[g], S)' = b /\ SumOver(passed[g], Cpus \ S)' = v
      BY <3>3, <3>4, <3>8 DEF SumOver
    <3>10. /\ collecting.sum <= SumOver(passed[g], S)'
           /\ Unhidden(g)' => collecting.before[g] <= collecting.sum + SumOver(passed[g], Cpus \ S)'
      BY <3>6, <3>7, <3>9
    <3> QED  BY <3>1, <3>8, <3>10 DEF SumSoFar
  <2>6. collecting' = collecting /\ collecting.step \in {"collecting", "summing"}
    BY <1>4 DEF CollectionRuns
  <2> QED  BY <2>1, <2>2, <2>4, <2>5, <2>6 DEF CollectionRuns
<1> QED  BY <1>1, <1>4

\* One more byte has passed on a CPU.
LEMMA PassesOne ==
  ASSUME CountersInv, NEW c \in Cgroups, NEW cpu \in Cpus, Passes(c, cpu)
  PROVE  /\ passed' \in [Cgroups -> [Cpus -> Nat]] /\ passed'[c][cpu] = passed[c][cpu] + 1
         /\ passed[c][cpu] \in Nat
         /\ \A d \in Cgroups, p \in Cpus : <<d, p>> # <<c, cpu>> => passed'[d][p] = passed[d][p]
         /\ \A d \in Cgroups, p \in Cpus : passed[d][p] \in Nat /\ passed[d][p] <= passed'[d][p]
<1>1. passed \in [Cgroups -> [Cpus -> Nat]]  BY DEF CountersInv
<1>2. passed' = [passed EXCEPT ![c] = [passed[c] EXCEPT ![cpu] = passed[c][cpu] + 1]]  BY DEF Passes
<1>3. passed[c] \in [Cpus -> Nat] /\ passed[c][cpu] + 1 \in Nat  BY <1>1
<1>4. [passed[c] EXCEPT ![cpu] = passed[c][cpu] + 1] \in [Cpus -> Nat]  BY <1>3
<1>5. passed' \in [Cgroups -> [Cpus -> Nat]]  BY <1>1, <1>2, <1>4
<1>6. passed'[c][cpu] = passed[c][cpu] + 1  BY <1>1, <1>2, <1>3
<1>7. \A d \in Cgroups, p \in Cpus : <<d, p>> # <<c, cpu>> => passed'[d][p] = passed[d][p]
  <2> SUFFICES ASSUME NEW d \in Cgroups, NEW p \in Cpus, <<d, p>> # <<c, cpu>>
               PROVE  passed'[d][p] = passed[d][p]
    OBVIOUS
  <2>1. CASE d = c  BY <1>1, <1>2, <1>3, <2>1
  <2>2. CASE d # c  BY <1>1, <1>2, <2>2
  <2> QED  BY <2>1, <2>2
<1>8. \A d \in Cgroups, p \in Cpus : passed[d][p] \in Nat /\ passed[d][p] <= passed'[d][p]
  <2> SUFFICES ASSUME NEW d \in Cgroups, NEW p \in Cpus
               PROVE  passed[d][p] \in Nat /\ passed[d][p] <= passed'[d][p]
    OBVIOUS
  <2>1. passed[d][p] \in Nat  BY <1>1
  <2>2. CASE <<d, p>> = <<c, cpu>>  BY <1>3, <1>6, <2>1, <2>2
  <2>3. CASE <<d, p>> # <<c, cpu>>  BY <1>7, <2>1, <2>3
  <2> QED  BY <2>1, <2>2, <2>3
<1> QED  BY <1>3, <1>5, <1>6, <1>7, <1>8

\* The programs that run are not disturbed by a counter that is stored or
\* flagged, if what is sure was sure before.
LEMMA OthersRun ==
  ASSUME CountersInv, NEW p \in Cpus \X Contexts, running[p] # NotRunning, running'[p] = running[p],
         maps'.attached = TRUE, DOMAIN maps.value \subseteq DOMAIN maps'.value,
         MapsLoaded, passed' \in [Cgroups -> [Cpus -> Nat]],
         \A d \in Cgroups, q \in Cpus : passed[d][q] \in Nat /\ passed[d][q] <= passed'[d][q],
         \A d, q : Sure(d, q)' => Sure(d, q)
  PROVE  ProgramRuns(p)'
<1> DEFINE run == running[p]
<1>1. ProgramRuns(p)  BY DEF CountersInv, ProgramsRun
<1>2. /\ run.cgroup \in DOMAIN maps.value /\ run.loaded \in 0..CounterMax /\ run.since \in Nat
      /\ run.loaded <= run.since /\ run.since <= passed[run.cgroup][p[1]]
      /\ Sure(run.cgroup, p[1]) => run.loaded = run.since
  BY <1>1 DEF ProgramRuns
<1>3. run.cgroup \in Cgroups /\ p[1] \in Cpus  BY <1>2 DEF MapsLoaded
<1>4. passed[run.cgroup][p[1]] \in Nat /\ passed[run.cgroup][p[1]] <= passed'[run.cgroup][p[1]]
      /\ passed'[run.cgroup][p[1]] \in Nat
  BY <1>3
<1>5. run.since <= passed'[run.cgroup][p[1]]  BY <1>2, <1>4
<1> QED  BY <1>2, <1>5 DEF ProgramRuns

\* The fields of the loaded maps.
LEMMA MapsFields ==
  ASSUME NEW loaded, NEW value, NEW overflow, NEW saturated,
         loaded = [attached |-> TRUE, value |-> value, overflow |-> overflow, saturated |-> saturated]
  PROVE  /\ loaded.attached = TRUE /\ loaded.value = value /\ loaded.overflow = overflow
         /\ loaded.saturated = saturated
         /\ loaded = [attached |-> loaded.attached, value |-> loaded.value, overflow |-> loaded.overflow,
                      saturated |-> loaded.saturated]
OBVIOUS

\* A program of a cgroup that finds no room marks the map.
LEMMA SaturateKeeps ==
  ASSUME CountersInv, NEW c \in Cgroups, NEW cpu \in Cpus, MapsLoaded, Passes(c, cpu),
         c \notin DOMAIN maps.value, Cardinality(DOMAIN maps.value) = MaxCgroups,
         maps' = [maps EXCEPT !.saturated = @ \cup {cpu}],
         UNCHANGED <<running, overtaken, collecting, applications>>
  PROVE  CountersInv'
<1>1. PICK marked : marked = maps.saturated \cup {cpu}  OBVIOUS
<1>2. maps' = [attached |-> TRUE, value |-> maps.value, overflow |-> maps.overflow, saturated |-> marked]
  BY <1>1 DEF MapsLoaded
<1>3. /\ maps'.attached = TRUE /\ maps'.value = maps.value /\ maps'.overflow = maps.overflow
      /\ maps'.saturated = marked
      /\ maps' = [attached |-> maps'.attached, value |-> maps'.value, overflow |-> maps'.overflow,
                  saturated |-> maps'.saturated]
  BY ONLY <1>2, MapsFields
<1>4. overtaken' = overtaken  OBVIOUS
<1>5. \A d, q : Sure(d, q)' <=> Sure(d, q)  BY <1>4, <1>3 DEF Sure
<1>6. MapsLoaded'
  <2>1. \A d \in DOMAIN maps.value, q \in Cpus : d \in Cgroups /\ passed'[d][q] = passed[d][q]
    BY PassesOne DEF MapsLoaded
  <2>2. maps'.saturated \subseteq Cpus /\ maps'.saturated # {}  BY <1>1, <1>3 DEF MapsLoaded
  <2> QED  BY <1>3, <1>5, <2>1, <2>2 DEF MapsLoaded
<1>7. ProgramsRun'
  <2>1. ASSUME NEW p \in Cpus \X Contexts, running'[p] # NotRunning PROVE ProgramRuns(p)'
    BY <1>3, <1>5, <2>1, PassesOne, OthersRun
  <2> QED  BY <2>1 DEF ProgramsRun, CountersInv
<1>8. maps.saturated \subseteq maps'.saturated  BY <1>1, <1>3
<1> QED  BY <1>3, <1>6, <1>7, <1>8, PassesOne, CollectionKept

\* A program looks its counter up and loads it.
LEMMA LoadKeeps ==
  ASSUME CountersInv, NEW c \in Cgroups, NEW cpu \in Cpus, NEW context \in Contexts,
         LoadCounter(c, cpu, context)
  PROVE  CountersInv'
<1>1. MapsLoaded  BY Attached DEF LoadCounter
<1>2. CASE c \notin DOMAIN maps.value /\ Cardinality(DOMAIN maps.value) = MaxCgroups
  BY <1>1, <1>2, SaturateKeeps DEF LoadCounter
<1>3. CASE ~(c \notin DOMAIN maps.value /\ Cardinality(DOMAIN maps.value) = MaxCgroups)
  <2>1. PICK entries : entries = IF c \in DOMAIN maps.value THEN maps.value
                           ELSE MapPut(maps.value, c, [p \in Cpus |-> 0])
    OBVIOUS
  <2>2. PICK run : run = [at |-> "counting", cgroup |-> c, loaded |-> entries[c][cpu], since |-> passed[c][cpu]]
    OBVIOUS
  <2>3. /\ maps' = [maps EXCEPT !.value = entries] /\ running' = [running EXCEPT ![<<cpu, context>>] = run]
        /\ UNCHANGED <<passed, overtaken, collecting, applications>>
    BY <1>3, <2>1, <2>2 DEF LoadCounter
  <2>4. maps' = [attached |-> TRUE, value |-> entries, overflow |-> maps.overflow, saturated |-> maps.saturated]
    BY <1>1, <2>3 DEF MapsLoaded
  <2>5. /\ maps'.attached = TRUE /\ maps'.value = entries /\ maps'.overflow = maps.overflow
        /\ maps'.saturated = maps.saturated
        /\ maps' = [attached |-> maps'.attached, value |-> maps'.value, overflow |-> maps'.overflow,
                    saturated |-> maps'.saturated]
    BY <2>4
  <2>6. \A d, q : Sure(d, q)' <=> Sure(d, q)  BY <2>3, <2>5 DEF Sure
  <2>7. passed \in [Cgroups -> [Cpus -> Nat]] /\ passed' = passed  BY <2>3 DEF CountersInv
  <2>8. CASE c \in DOMAIN maps.value
    <3>1. entries = maps.value  BY <2>1, <2>8
    <3>2. MapsLoaded'  BY <1>1, <2>5, <2>6, <2>7, <3>1 DEF MapsLoaded
    <3> QED
      <4>1. c \in DOMAIN entries /\ entries[c][cpu] \in 0..CounterMax /\ entries[c][cpu] <= passed[c][cpu]
            /\ (Sure(c, cpu) => entries[c][cpu] = passed[c][cpu])
        BY <1>1, <2>8, <3>1 DEF MapsLoaded
      <4>2. DOMAIN maps.value \subseteq DOMAIN maps'.value  BY <2>5, <3>1
      <4>3. ProgramsRun'
        <5>1. ASSUME NEW p \in Cpus \X Contexts, running'[p] # NotRunning PROVE ProgramRuns(p)'
          <6>1. CASE p = <<cpu, context>>
            <7>1. running'[p] = run /\ p[1] = cpu  BY <2>3, <6>1 DEF CountersInv, ProgramsRun
            <7>2. run.cgroup = c /\ run.loaded = entries[c][cpu] /\ run.since = passed[c][cpu]  BY <2>2
            <7>3. passed[c][cpu] \in Nat  BY <2>7
            <7> QED  BY <2>5, <2>6, <2>7, <4>1, <7>1, <7>2, <7>3 DEF ProgramRuns
          <6>2. CASE p # <<cpu, context>>
            <7>1. running'[p] = running[p]  BY <2>3, <6>2 DEF CountersInv, ProgramsRun
            <7>2. \A d \in Cgroups, q \in Cpus : passed[d][q] \in Nat /\ passed[d][q] <= passed'[d][q]
              BY <2>7
            <7> QED  BY <1>1, <2>5, <2>6, <2>7, <4>2, <5>1, <7>1, <7>2, OthersRun
          <6> QED  BY <6>1, <6>2
        <5>2. running' = [p \in Cpus \X Contexts |-> running'[p]]  BY <2>3 DEF CountersInv, ProgramsRun
        <5> QED  BY <5>1, <5>2 DEF ProgramsRun
      <4>4. \A d \in Cgroups, q \in Cpus : passed[d][q] <= passed'[d][q]  BY <2>7
      <4> QED  BY <1>1, <2>3, <2>5, <2>7, <3>2, <4>2, <4>3, <4>4, CollectionKept
  <2>9. CASE c \notin DOMAIN maps.value
    <3>1. /\ DOMAIN entries = DOMAIN maps.value \cup {c} /\ entries[c] = [p \in Cpus |-> 0]
          /\ \A d \in DOMAIN maps.value : entries[d] = maps.value[d]
          /\ entries = [d \in DOMAIN entries |-> entries[d]]
      BY <2>1, <2>9 DEF MapPut
    <3>2. maps.saturated = {} /\ \A cp \in Cpus : passed[c][cp] = 0
      BY <1>1, <1>3, <2>9 DEF MapsLoaded
    <3>3. IsFiniteSet(DOMAIN entries) /\ Cardinality(DOMAIN entries) <= MaxCgroups
      <4>1. /\ IsFiniteSet(DOMAIN maps.value) /\ Cardinality(DOMAIN maps.value) <= MaxCgroups
            /\ Cardinality(DOMAIN maps.value) # MaxCgroups
        BY <1>1, <1>3, <2>9 DEF MapsLoaded
      <4>2. Cardinality(DOMAIN maps.value) \in Nat /\ MaxCgroups \in Nat
        BY <4>1, CountersAssumption, FS_CardinalityType
      <4>3. IsFiniteSet(DOMAIN entries) /\ Cardinality(DOMAIN entries) = Cardinality(DOMAIN maps.value) + 1
        BY <2>9, <3>1, <4>1, FS_AddElement
      <4> QED  BY <4>1, <4>2, <4>3
    <3>4. entries[c] \in [Cpus -> 0..CounterMax]  BY <3>1, CountersAssumption
    <3>5. ASSUME NEW d \in DOMAIN entries, NEW q \in Cpus
          PROVE  /\ d \in Cgroups /\ entries[d] \in [Cpus -> 0..CounterMax] /\ entries[d][q] <= passed[d][q]
                 /\ Sure(d, q) => entries[d][q] = passed[d][q]
      <4>1. CASE d = c  BY <3>1, <3>2, <3>4, <4>1
      <4>2. CASE d # c  BY <1>1, <3>1, <4>2 DEF MapsLoaded
      <4> QED  BY <4>1, <4>2
    <3>6. MapsLoaded'
      <4>1. \A d \in Cgroups \ DOMAIN entries, q \in Cpus : passed[d][q] = 0
        BY <1>1, <3>1, <3>2 DEF MapsLoaded
      <4>2. DOMAIN entries \subseteq Cgroups /\ \A d \in DOMAIN entries : entries[d] \in [Cpus -> 0..CounterMax]
        BY <1>1, <3>1, <3>4 DEF MapsLoaded
      <4>3. \A d \in DOMAIN maps'.value, q \in Cpus :
              /\ maps'.value[d][q] <= passed'[d][q]
              /\ Sure(d, q)' => maps'.value[d][q] = passed'[d][q]
        BY <2>5, <2>6, <2>7, <3>5
      <4>4. maps'.saturated = {}  BY <2>5, <3>2
      <4> QED  BY <2>5, <2>7, <3>1, <3>3, <4>1, <4>2, <4>3, <4>4 DEF MapsLoaded
    <3>7. c \in DOMAIN entries /\ entries[c][cpu] \in 0..CounterMax /\ entries[c][cpu] <= passed[c][cpu]
          /\ (Sure(c, cpu) => entries[c][cpu] = passed[c][cpu])
      BY <3>1, <3>4, <3>5
    <3>8. DOMAIN maps.value \subseteq DOMAIN maps'.value  BY <2>5, <3>1
    <3>9. ProgramsRun'
      <4>1. ASSUME NEW p \in Cpus \X Contexts, running'[p] # NotRunning PROVE ProgramRuns(p)'
        <5>1. CASE p = <<cpu, context>>
          <6>1. running'[p] = run /\ p[1] = cpu  BY <2>3, <5>1 DEF CountersInv, ProgramsRun
          <6>2. run.cgroup = c /\ run.loaded = entries[c][cpu] /\ run.since = passed[c][cpu]  BY <2>2
          <6>3. passed[c][cpu] \in Nat  BY <2>7
          <6> QED  BY <2>5, <2>6, <2>7, <3>7, <6>1, <6>2, <6>3 DEF ProgramRuns
        <5>2. CASE p # <<cpu, context>>
          <6>1. running'[p] = running[p]  BY <2>3, <5>2 DEF CountersInv, ProgramsRun
          <6>2. \A d \in Cgroups, q \in Cpus : passed[d][q] \in Nat /\ passed[d][q] <= passed'[d][q]
            BY <2>7
          <6> QED  BY <1>1, <2>5, <2>6, <2>7, <3>8, <4>1, <6>1, <6>2, OthersRun
        <5> QED  BY <5>1, <5>2
      <4>2. running' = [p \in Cpus \X Contexts |-> running'[p]]  BY <2>3 DEF CountersInv, ProgramsRun
      <4> QED  BY <4>1, <4>2 DEF ProgramsRun
    <3>10. \A d \in Cgroups, q \in Cpus : passed[d][q] <= passed'[d][q]  BY <2>7
    <3> QED  BY <1>1, <2>3, <2>5, <2>7, <3>6, <3>8, <3>9, <3>10, CollectionKept
  <2> QED  BY <2>8, <2>9
<1> QED  BY <1>2, <1>3

\* A program stores its counter, or flags it.
LEMMA StoreKeeps ==
  ASSUME CountersInv, NEW cpu \in Cpus, NEW context \in Contexts, StoreCounter(cpu, context)
  PROVE  CountersInv'
<1> DEFINE P == <<cpu, context>>
           run == running[P]
           c == run.cgroup
<1>0. P \in Cpus \X Contexts /\ P[1] = cpu /\ running[<<cpu, context>>] = running[P]  OBVIOUS
<1>1. ProgramRuns(P)  BY <1>0 DEF StoreCounter, CountersInv, ProgramsRun
<1>2. /\ maps.attached = TRUE /\ c \in DOMAIN maps.value /\ run.loaded \in 0..CounterMax /\ run.since \in Nat
      /\ run.loaded <= run.since /\ run.since <= passed[c][cpu]
      /\ Sure(c, cpu) => run.loaded = run.since
  BY <1>0, <1>1 DEF ProgramRuns
<1>3. MapsLoaded /\ c \in Cgroups  BY <1>2, Attached DEF MapsLoaded
<1>4. /\ Passes(c, cpu) /\ running' = [running EXCEPT ![P] = NotRunning] /\ UNCHANGED <<collecting, applications>>
      /\ IF WouldOverflow(run.loaded)
         THEN maps' = [maps EXCEPT !.overflow = @ \cup {<<c, cpu>>}] /\ overtaken' = overtaken
         ELSE /\ maps' = [maps EXCEPT !.value[c][cpu] = run.loaded + 1]
              /\ overtaken' = overtaken \cup IF passed[c][cpu] # run.since THEN {<<c, cpu>>} ELSE {}
  BY <1>0 DEF StoreCounter
<1> HIDE DEF c, run, P
<1>5. /\ passed' \in [Cgroups -> [Cpus -> Nat]] /\ passed'[c][cpu] = passed[c][cpu] + 1
      /\ passed[c][cpu] \in Nat
      /\ \A d \in Cgroups, p \in Cpus : <<d, p>> # <<c, cpu>> => passed'[d][p] = passed[d][p]
      /\ \A d \in Cgroups, p \in Cpus : passed[d][p] \in Nat /\ passed[d][p] <= passed'[d][p]
  BY <1>3, <1>4, PassesOne
<1>6. ASSUME maps'.attached = TRUE, DOMAIN maps.value \subseteq DOMAIN maps'.value,
             \A d, q : Sure(d, q)' => Sure(d, q)
      PROVE  ProgramsRun'
  <2>1. ASSUME NEW p \in Cpus \X Contexts, running'[p] # NotRunning PROVE ProgramRuns(p)'
    <3>1. running = [q \in Cpus \X Contexts |-> running[q]]  BY DEF CountersInv, ProgramsRun
    <3>2. p # P /\ running'[p] = running[p]  BY <1>0, <1>4, <2>1, <3>1
    <3> QED  BY <1>3, <1>5, <1>6, <2>1, <3>2, OthersRun
  <2>2. running' = [p \in Cpus \X Contexts |-> running'[p]]  BY <1>4 DEF CountersInv, ProgramsRun
  <2> QED  BY <2>1, <2>2 DEF ProgramsRun
<1>7. ASSUME NEW d \in Cgroups \ DOMAIN maps.value, NEW q \in Cpus
      PROVE  passed'[d][q] = passed[d][q]
  BY <1>2, <1>5
<1>8. CASE WouldOverflow(run.loaded)
  <2>1. maps' = [attached |-> TRUE, value |-> maps.value, overflow |-> maps.overflow \cup {<<c, cpu>>},
                 saturated |-> maps.saturated]
    BY <1>3, <1>4, <1>8 DEF MapsLoaded
  <2>2. /\ maps'.attached = TRUE /\ maps'.value = maps.value
        /\ maps'.overflow = maps.overflow \cup {<<c, cpu>>} /\ maps'.saturated = maps.saturated
        /\ maps' = [attached |-> maps'.attached, value |-> maps'.value, overflow |-> maps'.overflow,
                    saturated |-> maps'.saturated]
    BY <2>1
  <2>3. overtaken' = overtaken  BY <1>4, <1>8
  <2>4. \A d, q : Sure(d, q)' => Sure(d, q) /\ <<d, q>> # <<c, cpu>>  BY <2>2, <2>3 DEF Sure
  <2>5. ASSUME NEW d \in DOMAIN maps.value, NEW q \in Cpus
        PROVE  /\ maps.value[d][q] <= passed'[d][q]
               /\ Sure(d, q)' => maps.value[d][q] = passed'[d][q]
    <3>1. d \in Cgroups /\ maps.value[d][q] \in Nat /\ maps.value[d][q] <= passed[d][q]
          /\ (Sure(d, q) => maps.value[d][q] = passed[d][q])
      BY <1>3, CountersAssumption DEF MapsLoaded
    <3>2. passed[d][q] \in Nat /\ passed[d][q] <= passed'[d][q] /\ passed'[d][q] \in Nat  BY <1>5, <3>1
    <3>3. <<d, q>> # <<c, cpu>> => passed'[d][q] = passed[d][q]  BY <1>5, <3>1
    <3> QED  BY <2>4, <3>1, <3>2, <3>3
  <2>6. MapsLoaded'  BY <1>3, <1>7, <2>2, <2>5 DEF MapsLoaded
  <2>7. ProgramsRun'  BY <1>6, <2>2, <2>4
  <2> QED  BY <1>3, <1>4, <1>5, <2>2, <2>3, <2>6, <2>7, CollectionKept
<1>9. CASE ~WouldOverflow(run.loaded)
  <2>1. PICK f : f = [maps.value[c] EXCEPT ![cpu] = run.loaded + 1]  OBVIOUS
  <2>2. PICK value : value = [maps.value EXCEPT ![c] = f]  OBVIOUS
  <2>3. maps' = [attached |-> TRUE, value |-> value, overflow |-> maps.overflow, saturated |-> maps.saturated]
    BY <1>3, <1>4, <1>9, <2>1, <2>2 DEF MapsLoaded
  <2>4. /\ maps'.attached = TRUE /\ maps'.value = value /\ maps'.overflow = maps.overflow
        /\ maps'.saturated = maps.saturated
        /\ maps' = [attached |-> maps'.attached, value |-> maps'.value, overflow |-> maps'.overflow,
                    saturated |-> maps'.saturated]
    BY <2>3
  <2>5. overtaken' = overtaken \cup IF passed[c][cpu] # run.since THEN {<<c, cpu>>} ELSE {}  BY <1>4, <1>9
  <2>6. \A d, q : Sure(d, q)' => Sure(d, q)  BY <2>4, <2>5 DEF Sure
  <2>7. run.loaded + 1 \in 0..CounterMax  BY <1>2, <1>9, CountersAssumption DEF WouldOverflow
  <2>8. maps.value[c] \in [Cpus -> 0..CounterMax]  BY <1>2, <1>3 DEF MapsLoaded
  <2>9. f \in [Cpus -> 0..CounterMax] /\ f[cpu] = run.loaded + 1
        /\ \A q \in Cpus : q # cpu => f[q] = maps.value[c][q]
    BY <2>1, <2>7, <2>8
  <2>10. /\ DOMAIN value = DOMAIN maps.value /\ value[c] = f
         /\ \A d \in DOMAIN maps.value : d # c => value[d] = maps.value[d]
         /\ value = [d \in DOMAIN value |-> value[d]]
    BY <1>2, <1>3, <2>2 DEF MapsLoaded
  <2>11. ASSUME NEW d \in DOMAIN maps.value, NEW q \in Cpus
         PROVE  /\ value[d][q] <= passed'[d][q]
                /\ Sure(d, q)' => value[d][q] = passed'[d][q]
    <3>1. d \in Cgroups /\ maps.value[d][q] \in Nat /\ maps.value[d][q] <= passed[d][q]
          /\ (Sure(d, q) => maps.value[d][q] = passed[d][q])
      BY <1>3, CountersAssumption DEF MapsLoaded
    <3>2. CASE <<d, q>> = <<c, cpu>>
      <4>1. value[d][q] = run.loaded + 1 /\ passed'[d][q] = passed[c][cpu] + 1  BY <1>5, <2>9, <2>10, <3>2
      <4>2. Sure(d, q)' => passed[c][cpu] = run.since /\ Sure(c, cpu)  BY <2>5, <2>6, <3>2 DEF Sure
      <4>3. run.loaded \in Nat /\ run.since \in Nat /\ passed[c][cpu] \in Nat  BY <1>2, <1>5, CountersAssumption
      <4> QED  BY <1>2, <4>1, <4>2, <4>3
    <3>3. CASE <<d, q>> # <<c, cpu>>
      <4>1. value[d][q] = maps.value[d][q]  BY <2>9, <2>10, <3>3
      <4>2. passed'[d][q] = passed[d][q]  BY <1>5, <3>1, <3>3
      <4> QED  BY <2>6, <3>1, <4>1, <4>2
    <3> QED  BY <3>2, <3>3
  <2>12. \A d \in DOMAIN maps.value : value[d] \in [Cpus -> 0..CounterMax]
    BY <1>3, <2>9, <2>10 DEF MapsLoaded
  <2>13. MapsLoaded'  BY <1>3, <1>7, <2>4, <2>10, <2>11, <2>12 DEF MapsLoaded
  <2>14. ProgramsRun'  BY <1>6, <2>4, <2>6, <2>10
  <2> QED  BY <1>3, <1>4, <1>5, <2>4, <2>5, <2>10, <2>13, <2>14, CollectionKept
<1> QED  BY <1>8, <1>9

LEMMA MapsUnchanged ==
  ASSUME UNCHANGED <<maps, running, passed, overtaken>>
  PROVE  /\ MapsLoaded <=> MapsLoaded'
         /\ ProgramsRun <=> ProgramsRun'
         /\ \A c : Unhidden(c) <=> Unhidden(c)'
BY DEF MapsLoaded, ProgramsRun, ProgramRuns, Sure, Unhidden

LEMMA AbandonKeeps ==
  ASSUME CountersInv, AbandonCollection
  PROVE  CountersInv'
BY MapsUnchanged, NothingIsExact DEF AbandonCollection, CountersInv

\* The next binding is looked up: it has a record of nothing, or its CPUs are read.
LEMMA LookupKeeps ==
  ASSUME CountersInv, NEW c \in Cgroups, LookupBinding(c)
  PROVE  CountersInv'
<1>1. /\ collecting.step = "collecting" /\ c \in DOMAIN collecting.keys \ DOMAIN collecting.records
      /\ UNCHANGED <<maps, running, passed, overtaken, applications>>
  BY DEF LookupBinding, IsNext
<1>2. CollectionRuns  BY <1>1, Reads
<1>3. MapsLoaded  BY <1>2, Attached, Zenon DEF CollectionRuns
<1>4. PICK before : before = MapPut(collecting.before, c, Passed(c))  OBVIOUS
<1>5. Passed(c) \in Nat /\ Passed(c) = SumOver(passed[c], Cpus)
  BY PassedSums DEF CountersInv, Passed, SumOver
<1>6. /\ DOMAIN before = DOMAIN collecting.before \cup {c} /\ before[c] = Passed(c)
      /\ \A d \in DOMAIN collecting.before : d # c => before[d] = collecting.before[d]
  BY <1>4 DEF MapPut
<1>7. /\ collecting = [step |-> collecting.step, keys |-> collecting.keys, cgroup |-> collecting.cgroup,
                       cpus |-> collecting.cpus, sum |-> collecting.sum, before |-> collecting.before,
                       records |-> collecting.records]
      /\ RecordsSoFar /\ maps.attached = TRUE
  BY <1>2 DEF CollectionRuns
<1>8. /\ DOMAIN before \subseteq DOMAIN collecting.keys /\ DOMAIN collecting.records \subseteq DOMAIN before
      /\ DOMAIN collecting.keys \subseteq Cgroups
      /\ \A d \in DOMAIN before : before[d] \in Nat
      /\ \A d \in DOMAIN collecting.records : d # c /\ before[d] = collecting.before[d]
  BY <1>1, <1>5, <1>6, <1>7 DEF RecordsSoFar
<1>9. CountersAreExact'  BY <1>1 DEF CountersAreExact, CountersInv
<1>10. CASE c \notin DOMAIN maps.value
  <2>1. PICK records : records = MapPut(collecting.records, c, 0)  OBVIOUS
  <2>2. collecting' = [[collecting EXCEPT !.before = before] EXCEPT !.records = records]
    BY <1>4, <1>10, <2>1 DEF LookupBinding
  <2>3. collecting' = [step |-> "collecting", keys |-> collecting.keys, cgroup |-> collecting.cgroup,
                       cpus |-> collecting.cpus, sum |-> collecting.sum, before |-> before, records |-> records]
    BY <1>1, <1>7, <2>2
  <2>4. /\ collecting'.step = "collecting" /\ collecting'.keys = collecting.keys
        /\ collecting'.before = before /\ collecting'.records = records
        /\ collecting' = [step |-> collecting'.step, keys |-> collecting'.keys, cgroup |-> collecting'.cgroup,
                          cpus |-> collecting'.cpus, sum |-> collecting'.sum, before |-> collecting'.before,
                          records |-> collecting'.records]
    BY <2>3
  <2>5. /\ DOMAIN records = DOMAIN collecting.records \cup {c} /\ records[c] = 0
        /\ \A d \in DOMAIN collecting.records : d # c => records[d] = collecting.records[d]
    BY <2>1 DEF MapPut
  <2>6. maps.saturated = {} => Passed(c) = 0
    <3>1. SUFFICES ASSUME maps.saturated = {} PROVE SumFunctionOnSet(passed[c], Cpus) = 0
      BY DEF Passed
    <3>2. \A q \in Cpus : passed[c][q] = 0  BY <1>3, <1>10, <3>1 DEF MapsLoaded
    <3>3. PICK f : f = passed[c]  OBVIOUS
    <3>4. \A q \in Cpus : f[q] = 0  BY <3>2, <3>3
    <3>5. SumFunctionOnSet(f, Cpus) = 0  BY <3>4, CountersAssumption, SumOfZeros
    <3> QED  BY <3>3, <3>5
  <2>7. ASSUME NEW d \in DOMAIN records
        PROVE  /\ records[d] \in Nat /\ records[d] <= SumOver(passed[d], Cpus)
               /\ maps.saturated = {} /\ Unhidden(d) => before[d] <= records[d]
    <3>1. CASE d = c  BY <1>5, <1>6, <2>5, <2>6, <3>1
    <3>2. CASE d # c  BY <1>7, <1>8, <2>5, <3>2 DEF RecordsSoFar
    <3> QED  BY <3>1, <3>2
  <2>8. DOMAIN records \subseteq DOMAIN before  BY <1>6, <1>8, <2>5
  <2>9. RecordsSoFar'  BY <1>1, <1>8, <2>4, <2>7, <2>8, MapsUnchanged DEF RecordsSoFar, SumOver
  <2>10. SumSoFar'  BY <2>4 DEF SumSoFar
  <2>11. CollectionRuns'  BY <1>1, <1>7, <2>4, <2>9, <2>10 DEF CollectionRuns
  <2> QED  BY <1>1, <1>9, <2>11, MapsUnchanged DEF CountersInv
<1>11. CASE c \in DOMAIN maps.value
  <2>1. collecting' = [[collecting EXCEPT !.before = before]
                         EXCEPT !.step = "summing", !.cgroup = c, !.cpus = {}, !.sum = 0]
    BY <1>4, <1>11 DEF LookupBinding
  <2>2. collecting' = [step |-> "summing", keys |-> collecting.keys, cgroup |-> c, cpus |-> {}, sum |-> 0,
                       before |-> before, records |-> collecting.records]
    BY <1>7, <2>1
  <2>3. /\ collecting'.step = "summing" /\ collecting'.keys = collecting.keys /\ collecting'.cgroup = c
        /\ collecting'.cpus = {} /\ collecting'.sum = 0
        /\ collecting'.before = before /\ collecting'.records = collecting.records
        /\ collecting' = [step |-> collecting'.step, keys |-> collecting'.keys, cgroup |-> collecting'.cgroup,
                          cpus |-> collecting'.cpus, sum |-> collecting'.sum, before |-> collecting'.before,
                          records |-> collecting'.records]
    BY <2>2
  <2>4. RecordsSoFar'  BY <1>1, <1>7, <1>8, <2>3, MapsUnchanged DEF RecordsSoFar, SumOver
  <2>5. SumOver(passed[c], {}) = 0  BY SumRecursion, FS_EmptySet DEF SumOver
  <2>6. Cpus \ {} = Cpus /\ {} \subseteq Cpus  OBVIOUS
  <2>7. c \in DOMAIN maps.value \cap DOMAIN before /\ c \notin DOMAIN collecting.records
    BY <1>1, <1>6, <1>11
  <2>8. 0 <= SumOver(passed[c], {}) /\ before[c] <= 0 + SumOver(passed[c], Cpus \ {})
    BY <1>5, <1>6, <2>5, <2>6
  <2>9. SumSoFar'  BY <1>1, <2>3, <2>6, <2>7, <2>8 DEF SumSoFar, SumOver
  <2>10. CollectionRuns'  BY <1>1, <1>7, <2>3, <2>4, <2>9 DEF CollectionRuns
  <2> QED  BY <1>1, <1>9, <2>10, MapsUnchanged DEF CountersInv
<1> QED  BY <1>10, <1>11

\* The next CPU's value goes into the sum, and after the last one the record.
LEMMA ReadCpuKeeps ==
  ASSUME CountersInv, NEW cpu \in Cpus, ReadCpu(cpu)
  PROVE  CountersInv'
<1>1. collecting.step = "summing" /\ cpu \notin collecting.cpus  BY DEF ReadCpu, IsNext
<1>2. CollectionRuns  BY <1>1, Reads
<1>3. MapsLoaded  BY <1>2, Attached, Zenon DEF CollectionRuns
<1> DEFINE g == collecting.cgroup
           f == passed[g]
           S == collecting.cpus
           T == S \cup {cpu}
           v == maps.value[g][cpu]
<1>4. PICK sum : sum = collecting.sum + v  OBVIOUS
<1>5. CASE ~AddsUp(cpu, sum)
  <2>1. AbandonCollection  BY <1>4, <1>5 DEF ReadCpu
  <2> QED  BY <2>1, AbandonKeeps
<1>6. CASE AddsUp(cpu, sum)
  <2>1. /\ collecting' = IF T = Cpus
                         THEN [collecting EXCEPT !.step = "collecting",
                                                 !.records = MapPut(collecting.records, g, sum)]
                         ELSE [collecting EXCEPT !.cpus = T, !.sum = sum]
        /\ UNCHANGED <<maps, running, passed, overtaken, applications>>
    BY <1>4, <1>6 DEF ReadCpu
  <2>2. /\ g \in DOMAIN maps.value \cap DOMAIN collecting.before /\ g \notin DOMAIN collecting.records
        /\ S \subseteq Cpus /\ collecting.sum \in Nat /\ collecting.sum <= SumOver(f, S)
        /\ Unhidden(g) => collecting.before[g] <= collecting.sum + SumOver(f, Cpus \ S)
    BY <1>1, <1>2 DEF CollectionRuns, SumSoFar
  <2>3. <<g, cpu>> \notin maps.overflow  BY <1>6 DEF AddsUp
  <2>4. g \in Cgroups /\ passed \in [Cgroups -> [Cpus -> Nat]]  BY <1>3, <2>2 DEF MapsLoaded, CountersInv
  <2>5. /\ v \in Nat /\ v <= f[cpu] /\ f[cpu] \in Nat
        /\ Unhidden(g) => v = f[cpu]
    BY <1>3, <2>2, <2>3, <2>4, CountersAssumption DEF MapsLoaded, Sure, Unhidden
  <2>6. SumOver(f, T) = f[cpu] + SumOver(f, S)
    <3>1. IsFiniteSet(S) /\ \A x \in S \cup {cpu} : f[x] \in Nat  BY <2>2, <2>4, PassedSums
    <3> QED  BY <1>1, <3>1, SumWith DEF SumOver
  <2>7. SumOver(f, Cpus \ S) = f[cpu] + SumOver(f, Cpus \ T)
    <3>1. IsFiniteSet(Cpus \ T) /\ \A x \in (Cpus \ T) \cup {cpu} : f[x] \in Nat  BY <2>2, <2>4, PassedSums
    <3>2. (Cpus \ T) \cup {cpu} = Cpus \ S /\ cpu \notin Cpus \ T  BY <1>1
    <3> QED  BY <3>1, <3>2, SumWith, ZenonT(60) DEF SumOver
  <2>8. PICK a \in Nat, b \in Nat, d \in Nat :
          a = SumOver(f, S) /\ b = SumOver(f, Cpus \ T) /\ d = SumOver(f, T)
    BY <2>2, <2>4, PassedSums
  <2>9. sum \in Nat /\ sum <= d  BY <1>4, <2>2, <2>5, <2>6, <2>8
  <2>10. collecting.before[g] \in Nat  BY <1>2, <2>2 DEF CollectionRuns, RecordsSoFar
  <2>11. Unhidden(g) => collecting.before[g] <= sum + b
    <3>1. SUFFICES ASSUME Unhidden(g) PROVE collecting.before[g] <= sum + b  OBVIOUS
    <3>2. collecting.before[g] <= collecting.sum + (f[cpu] + b) /\ v = f[cpu]
      BY <2>2, <2>5, <2>7, <2>8, <3>1
    <3> QED  BY <1>4, <2>2, <2>5, <2>8, <2>10, <3>2
  <2>12. /\ collecting = [step |-> collecting.step, keys |-> collecting.keys, cgroup |-> collecting.cgroup,
                          cpus |-> collecting.cpus, sum |-> collecting.sum, before |-> collecting.before,
                          records |-> collecting.records]
         /\ RecordsSoFar
    BY <1>2 DEF CollectionRuns
  <2>13. maps'.attached = TRUE  BY <1>3, <2>1 DEF MapsLoaded
  <2>14. CountersAreExact'  BY <2>1 DEF CountersInv, CountersAreExact
  <2> HIDE DEF v
  <2>15. CASE T # Cpus
    <3>1. collecting' = [collecting EXCEPT !.cpus = T, !.sum = sum]  BY <2>1, <2>15
    <3>2. collecting' = [step |-> "summing", keys |-> collecting.keys, cgroup |-> g, cpus |-> T, sum |-> sum,
                         before |-> collecting.before, records |-> collecting.records]
      BY <1>1, <2>12, <3>1
    <3>3. /\ collecting'.step = "summing" /\ collecting'.keys = collecting.keys /\ collecting'.cgroup = g
          /\ collecting'.cpus = T /\ collecting'.sum = sum /\ collecting'.before = collecting.before
          /\ collecting'.records = collecting.records
          /\ collecting' = [step |-> collecting'.step, keys |-> collecting'.keys, cgroup |-> collecting'.cgroup,
                            cpus |-> collecting'.cpus, sum |-> collecting'.sum, before |-> collecting'.before,
                            records |-> collecting'.records]
      BY <3>2
    <3>4. RecordsSoFar'  BY <2>1, <2>12, <3>3, MapsUnchanged DEF RecordsSoFar, SumOver
    <3>5. /\ T \subseteq Cpus /\ sum <= SumOver(f, T)
          /\ Unhidden(g) => collecting.before[g] <= sum + SumOver(f, Cpus \ T)
      BY <2>2, <2>8, <2>9, <2>11
    <3>6. SumSoFar'  BY <2>1, <2>2, <2>9, <3>3, <3>5, MapsUnchanged DEF SumSoFar, SumOver
    <3>7. CollectionRuns'  BY <2>13, <3>3, <3>4, <3>6 DEF CollectionRuns
    <3> QED  BY <2>1, <2>14, <3>7, MapsUnchanged DEF CountersInv
  <2>16. CASE T = Cpus
    <3>1. PICK recs : recs = MapPut(collecting.records, g, sum)  OBVIOUS
    <3>2. collecting' = [collecting EXCEPT !.step = "collecting", !.records = recs]  BY <2>1, <2>16, <3>1
    <3>3. collecting' = [step |-> "collecting", keys |-> collecting.keys, cgroup |-> g, cpus |-> S,
                         sum |-> collecting.sum, before |-> collecting.before, records |-> recs]
      BY <2>12, <3>2
    <3>4. /\ collecting'.step = "collecting" /\ collecting'.keys = collecting.keys
          /\ collecting'.before = collecting.before /\ collecting'.records = recs
          /\ collecting' = [step |-> collecting'.step, keys |-> collecting'.keys, cgroup |-> collecting'.cgroup,
                            cpus |-> collecting'.cpus, sum |-> collecting'.sum, before |-> collecting'.before,
                            records |-> collecting'.records]
      BY <3>3
    <3>5. /\ DOMAIN recs = DOMAIN collecting.records \cup {g} /\ recs[g] = sum
          /\ \A c \in DOMAIN collecting.records : c # g => recs[c] = collecting.records[c]
      BY <3>1 DEF MapPut
    <3>6. sum <= SumOver(passed[g], Cpus)  BY <2>8, <2>9, <2>16
    <3>7. Unhidden(g) => collecting.before[g] <= sum
      <4>1. Cpus \ T = {}  BY <2>16
      <4>2. b = 0
        <5>1. SumFunctionOnSet(f, {}) = 0  BY SumRecursion, FS_EmptySet
        <5> QED  BY <2>8, <4>1, <5>1 DEF SumOver
      <4> QED  BY <2>9, <2>10, <2>11, <4>2
    <3>8. ASSUME NEW c \in DOMAIN recs
          PROVE  /\ recs[c] \in Nat /\ recs[c] <= SumOver(passed[c], Cpus)
                 /\ maps.saturated = {} /\ Unhidden(c) => collecting.before[c] <= recs[c]
      <4>1. CASE c = g  BY <2>9, <3>5, <3>6, <3>7, <4>1
      <4>2. CASE c # g  BY <2>12, <3>5, <4>2 DEF RecordsSoFar
      <4> QED  BY <4>1, <4>2
    <3>9. RecordsSoFar'
      <4>1. DOMAIN recs \subseteq DOMAIN collecting.before  BY <2>2, <2>12, <3>5 DEF RecordsSoFar
      <4> QED  BY <2>1, <2>12, <3>4, <3>8, <4>1, MapsUnchanged DEF RecordsSoFar, SumOver
    <3>10. SumSoFar'  BY <3>4 DEF SumSoFar
    <3>11. CollectionRuns'  BY <2>13, <3>4, <3>9, <3>10 DEF CollectionRuns
    <3> QED  BY <2>1, <2>14, <3>11, MapsUnchanged DEF CountersInv
  <2> QED  BY <2>15, <2>16
<1> QED  BY <1>5, <1>6

LEMMA StartReadingKeeps ==
  ASSUME CountersInv, NEW keys \in Bindings, StartReading(keys)
  PROVE  CountersInv'
<1>1. CASE ~MapHealthy
  <2>1. AbandonCollection  BY <1>1 DEF StartReading
  <2> QED  BY <2>1, AbandonKeeps
<1>2. CASE MapHealthy
  <2>1. /\ collecting' = [step |-> "collecting", keys |-> keys, cgroup |-> 0, cpus |-> {}, sum |-> 0,
                          before |-> NoRecords, records |-> NoRecords]
        /\ applications' = NoApplications /\ UNCHANGED <<maps, running, passed, overtaken>> /\ maps.attached
    BY <1>2 DEF StartReading
  <2>2. MapsLoaded  BY <2>1, Attached
  <2>3. maps'.attached = TRUE  BY <2>1, <2>2 DEF MapsLoaded
  <2>4. DOMAIN NoRecords = {} /\ DOMAIN keys \subseteq Cgroups  BY CountersAssumption DEF NoRecords
  <2>5. /\ collecting'.step = "collecting" /\ collecting'.keys = keys /\ collecting'.before = NoRecords
        /\ collecting'.records = NoRecords
        /\ collecting' = [step |-> collecting'.step, keys |-> collecting'.keys, cgroup |-> collecting'.cgroup,
                          cpus |-> collecting'.cpus, sum |-> collecting'.sum, before |-> collecting'.before,
                          records |-> collecting'.records]
    BY <2>1
  <2>6. RecordsSoFar' /\ SumSoFar'  BY <2>4, <2>5 DEF RecordsSoFar, SumSoFar
  <2>7. CollectionRuns'  BY <2>3, <2>5, <2>6 DEF CollectionRuns
  <2> QED  BY <2>1, <2>7, MapsUnchanged, NothingIsExact DEF CountersInv
<1> QED  BY <1>1, <1>2

\* The answer's records, summed by application, are between what had passed at
\* the lookups and what has passed now.
LEMMA AnswerKeeps ==
  ASSUME CountersInv, AnswerRecords
  PROVE  CountersInv'
<1> DEFINE keys == collecting.keys
           bytes == collecting.records
<1>1. CASE ~(StillHealthy /\ Aggregates(keys, bytes))
  <2>1. AbandonCollection  BY <1>1 DEF AnswerRecords
  <2> QED  BY <2>1, AbandonKeeps
<1>2. CASE StillHealthy /\ Aggregates(keys, bytes)
  <2>1. PICK after : after = [c \in DOMAIN keys |-> Passed(c)]  OBVIOUS
  <2>2. PICK unsure : unsure = {c \in Cgroups : \E cpu \in Cpus : <<c, cpu>> \in overtaken}  OBVIOUS
  <2>3. PICK totals : totals = [app \in Range(keys) |-> TotalOf(app, keys, bytes)]  OBVIOUS
  <2>4. /\ collecting.step = "collecting" /\ DOMAIN bytes = DOMAIN keys
        /\ applications' = [of |-> totals, keys |-> keys, before |-> collecting.before, after |-> after,
                            unsure |-> unsure]
        /\ collecting' = NoReading /\ UNCHANGED <<maps, running, passed, overtaken>>
    BY <1>2, <2>1, <2>2, <2>3 DEF AnswerRecords
  <2>5. RecordsSoFar  BY <2>4, Reads DEF CollectionRuns
  <2>6. maps.saturated = {}  BY <1>2 DEF StillHealthy, MapHealthy
  <2>7. /\ applications'.of = totals /\ applications'.keys = keys /\ applications'.before = collecting.before
        /\ applications'.after = after /\ applications'.unsure = unsure
    BY <2>4
  <2>8. ASSUME NEW app \in Range(keys), NEW its, its = CgroupsOf(app, keys)
        PROVE  /\ totals[app] <= SumFunctionOnSet(after, its)
               /\ its \cap unsure = {} => totals[app] >= SumFunctionOnSet(collecting.before, its)
    <3>1. its \subseteq DOMAIN keys /\ IsFiniteSet(its) /\ DOMAIN keys \subseteq Cgroups
      BY <2>5, <2>8, CountersAssumption, FS_Subset DEF CgroupsOf, RecordsSoFar
    <3>2. ASSUME NEW c \in its
          PROVE  /\ bytes[c] \in Nat /\ after[c] \in Nat /\ collecting.before[c] \in Nat
                 /\ bytes[c] <= after[c]
                 /\ c \notin unsure => collecting.before[c] <= bytes[c]
      <4>1. c \in DOMAIN bytes /\ c \in DOMAIN collecting.before /\ c \in Cgroups
        BY <2>4, <2>5, <3>1 DEF RecordsSoFar
      <4>2. after[c] = SumOver(passed[c], Cpus) /\ after[c] \in Nat
        BY <2>1, <3>1, <4>1, PassedSums DEF Passed, SumOver, CountersInv
      <4>3. c \notin unsure => Unhidden(c)  BY <2>2, <4>1 DEF Unhidden
      <4> QED  BY <2>5, <2>6, <4>1, <4>2, <4>3 DEF RecordsSoFar
    <3>3. totals[app] = SumFunctionOnSet(bytes, its)  BY <2>3, <2>8 DEF TotalOf
    <3>4. PICK e, d : e = bytes /\ d = collecting.before  OBVIOUS
    <3>5. SumFunctionOnSet(e, its) <= SumFunctionOnSet(after, its)
      <4>1. \A x \in its : e[x] \in Nat /\ after[x] \in Nat /\ e[x] <= after[x]  BY <3>2, <3>4
      <4> QED  BY <3>1, <4>1, SumMonotone
    <3>6. ASSUME its \cap unsure = {}
          PROVE  SumFunctionOnSet(d, its) <= SumFunctionOnSet(e, its)
      <4>1. \A x \in its : d[x] \in Nat /\ e[x] \in Nat /\ d[x] <= e[x]  BY <3>2, <3>4, <3>6
      <4> QED  BY <3>1, <4>1, SumMonotone
    <3>7. SumFunctionOnSet(d, its) \in Nat /\ SumFunctionOnSet(e, its) \in Nat
      <4>1. \A x \in its : d[x] \in Nat /\ e[x] \in Nat  BY <3>2, <3>4
      <4> QED  BY <3>1, <4>1, SumRecursion
    <3> QED  BY <3>3, <3>4, <3>5, <3>6, <3>7
  <2>9. DOMAIN totals = Range(keys)  BY <2>3
  <2>10. CountersAreExact'  BY <2>7, <2>8, <2>9 DEF CountersAreExact
  <2> QED  BY <2>4, <2>10, MapsUnchanged DEF CountersInv
<1> QED  BY <1>1, <1>2

\* A helper that comes has counted nothing yet; one that goes takes all with it.
LEMMA AttachKeeps ==
  ASSUME CountersInv, AttachCollector
  PROVE  CountersInv'
<1>1. /\ maps' = [attached |-> TRUE, value |-> NoRecords, overflow |-> {}, saturated |-> {}]
      /\ ~maps.attached /\ collecting' = NoReading /\ UNCHANGED <<running, passed, overtaken, applications>>
  BY DEF AttachCollector
<1>2. /\ maps'.value = NoRecords /\ maps'.overflow = {} /\ maps'.saturated = {} /\ maps'.attached = TRUE
      /\ maps' = [attached |-> maps'.attached, value |-> maps'.value, overflow |-> maps'.overflow,
                  saturated |-> maps'.saturated]
  BY <1>1
<1>3. maps.attached # TRUE /\ passed = NothingPassed
  <2>1. ~MapsLoaded  BY <1>1 DEF MapsLoaded
  <2> QED  BY <1>1, <2>1 DEF CountersInv
<1>4. DOMAIN NoRecords = {} /\ NoRecords = [c \in DOMAIN NoRecords |-> NoRecords[c]]  BY DEF NoRecords
<1>5. IsFiniteSet({}) /\ Cardinality({}) = 0 /\ 0 <= MaxCgroups  BY FS_EmptySet, CountersAssumption
<1>6. \A c \in Cgroups, cpu \in Cpus : passed[c][cpu] = 0  BY <1>3 DEF NothingPassed
<1>7. MapsLoaded'  BY <1>1, <1>2, <1>4, <1>5, <1>6 DEF MapsLoaded
<1>8. ProgramsRun'
  <2>1. \A p \in Cpus \X Contexts : running[p] = NotRunning  BY <1>3 DEF CountersInv, ProgramsRun, ProgramRuns
  <2> QED  BY <1>1, <2>1 DEF CountersInv, ProgramsRun
<1>9. CountersAreExact'  BY <1>1 DEF CountersInv, CountersAreExact
<1> QED  BY <1>1, <1>7, <1>8, <1>9 DEF CountersInv

LEMMA NobodyCounts == NothingPassed \in [Cgroups -> [Cpus -> Nat]]
<1>1. [cpu \in Cpus |-> 0] \in [Cpus -> Nat]  OBVIOUS
<1> QED  BY <1>1 DEF NothingPassed

LEMMA EndsKeepCounters ==
  ASSUME CountersInv, HelperEnds
  PROVE  CountersInv'
<1>1. /\ maps' = Detached /\ running' = NobodyRuns /\ passed' = NothingPassed
      /\ collecting' = NoReading /\ applications' = NoApplications
  BY DEF HelperEnds
<1>2. ProgramsRun'  BY <1>1 DEF ProgramsRun, NobodyRuns
<1> QED  BY <1>1, <1>2, NobodyCounts, NothingIsExact DEF CountersInv

LEMMA NextCounters ==
  ASSUME CountersInv, [CountersNext]_counterVars
  PROVE  CountersInv'
<1>1. CASE UNCHANGED counterVars
  <2>1. UNCHANGED <<maps, running, passed, overtaken, collecting, applications>>  BY <1>1 DEF counterVars
  <2>2. CollectionRuns => CollectionRuns'
    BY <2>1, MapsUnchanged DEF CollectionRuns, RecordsSoFar, SumSoFar, SumOver
  <2> QED  BY <2>1, <2>2, MapsUnchanged DEF CountersInv, CountersAreExact
<1>2. CASE CountersNext
  BY <1>2, LoadKeeps, StoreKeeps, LookupKeeps, ReadCpuKeeps, AttachKeeps, EndsKeepCounters,
     StartReadingKeeps, AnswerKeeps DEF CountersNext
<1> QED  BY <1>1, <1>2

LEMMA InitCounters == CountersInit => CountersInv
<1> SUFFICES ASSUME CountersInit PROVE CountersInv  OBVIOUS
<1>1. ProgramsRun  BY DEF CountersInit, ProgramsRun, NobodyRuns
<1>2. applications.of = NoRecords /\ applications.keys = NoRecords  BY DEF CountersInit, NoApplications
<1>3. DOMAIN NoRecords = {} /\ Range(NoRecords) = {}  BY DEF NoRecords, Range
<1>4. CountersAreExact  BY <1>2, <1>3 DEF CountersAreExact
<1> QED  BY <1>1, <1>4, NobodyCounts DEF CountersInit, CountersInv

LEMMA CountersInvShows ==
  ASSUME CountersInv
  PROVE  CountersTypeOK /\ CountersAreExact
<1>1. maps.attached =>
        /\ Cardinality(DOMAIN maps.value) <= MaxCgroups /\ maps.saturated \subseteq Cpus
        /\ \A c \in DOMAIN maps.value, cpu \in Cpus :
             maps.value[c][cpu] \in 0..CounterMax /\ maps.value[c][cpu] <= passed[c][cpu]
  BY Attached DEF MapsLoaded
<1>2. collecting.step \in {"none", "collecting", "summing"}
  BY DEF CountersInv, CollectionRuns, NoReading
<1> QED  BY <1>1, <1>2 DEF CountersTypeOK, CountersInv

\* Whatever CPUs and contexts the packets are counted in while they are read, and
\* whatever applications the cgroups are bound to, a full map and counters and sums
\* at their width included: an application is shown no more bytes than had passed
\* in its cgroups at the answer, and no fewer than had passed at their lookups
\* unless a store on one of them hid another (network.bpf.c account, collector.rs
\* collect, core.rs aggregate_cgroup_traffic).
THEOREM CountersStayExact == CountersSpec => [](CountersTypeOK /\ CountersAreExact)
<1>1. CountersInit => CountersInv  BY InitCounters
<1>2. CountersInv /\ [CountersNext]_counterVars => CountersInv'  BY NextCounters
<1>3. CountersInv => CountersTypeOK /\ CountersAreExact  BY CountersInvShows
<1> QED  BY <1>1, <1>2, <1>3, PTL DEF CountersSpec

\* Both parts of the network page, for every set of links, cgroups and CPUs, every
\* width of the kernel's statistics, deadline, rate interval and map size: the rates
\* of NetlinkSampler::sample are made of bytes that passed between two dumps of one
\* moment each, and the counters of the eBPF maps are the bytes that passed.
THEOREM NetworkFiguresStayReal == NetworkFiguresSpec => []NetworkFiguresAreReal
<1>1. NetSpec => [](NetTypeOK /\ RatesNeverInvent /\ RateWindowIsBounded /\ DumpIsOneMoment)
  BY RatesStayReal
<1>2. CountersSpec => [](CountersTypeOK /\ CountersAreExact)  BY CountersStayExact
<1> QED  BY <1>1, <1>2, PTL DEF NetworkFiguresSpec, NetworkFiguresAreReal
-----------------------------------------------------------------------------
(* Uploads (RemoteAdapters). *)

\* The first n bytes of a task's source.
Prefix(w, n) == [i \in 1..n |-> Byte(w, i)]

\* The stages in which a write is open.
Writing == {"writing", "stored", "checked"}

Cells == [by : Writers \cup {"nobody"}, at : Nat]

RunState == [stage : Stages, next : Nat, progress : Nat, live : Flag, runs : 0..MaxRuns]

UploadTyped ==
  /\ protocol \in {"sftp", "ftp", "smb"}
  /\ DOMAIN server \subseteq Writers \cup {"final"}
  /\ late \subseteq Requests /\ placed \subseteq Writers /\ confirmed \subseteq Writers
  /\ cut \subseteq Writers /\ (protocol = "ftp" => cut = {})
  /\ up \in [Writers -> RunState]
  /\ staging \in [Writers -> [bytes : Seq(Cells), from : Nat]]
  /\ held \in [Writers -> Seq(Cells)]

\* Between two operations of an open write the offset is the recorded one.  A task
\* that lost bytes has recorded some: it never empties its `.part` again.
RunInv(w) ==
  /\ w \in cut => up[w].progress > 0
  /\ up[w].next <= SizeOf[w] /\ up[w].progress <= SizeOf[w]
  /\ up[w].stage \in Writing => up[w].next = up[w].progress
  /\ up[w].stage \in {"stored", "checked"} => up[w].next = SizeOf[w]

\* A rename the server may still apply.
RenameWaits(w) == \E r \in late : r.kind = "rename" /\ r.by = w

\* A `.part` is a prefix; through SFTP and SMB it has what was ever recorded;
\* one that was checked, or whose rename is on its way, is whole.  Once a late
\* truncate has cut it, its bytes are only where they belong.
PartInv(w) ==
  w \in DOMAIN server =>
    /\ server[w] \in Torn(w)
    /\ w \notin cut =>
         /\ server[w] = Prefix(w, Len(server[w]))
         /\ protocol # "ftp" => up[w].progress <= Len(server[w])
         /\ At(w, "checked") \/ RenameWaits(w) => Len(server[w]) = SizeOf[w]

\* FTP sends no truncate, a late write begins within what is recorded, a late rename
\* was sent when all was recorded, and a new run through FTP then has nothing to append.
LateInv(w) ==
  /\ \A r \in late : r.by = w =>
       /\ r.kind = "truncate" => protocol # "ftp"
       /\ r.kind = "write" => protocol # "ftp" /\ r.at < SizeOf[w] /\ r.at <= up[w].progress
  /\ RenameWaits(w) =>
       /\ up[w].progress = SizeOf[w]
       /\ protocol = "ftp" /\ up[w].stage \in Writing => staging[w].from = SizeOf[w]

\* The staging file holds the source's bytes from where the `.part` ends.
StagedInv(w) ==
  protocol = "ftp" /\ up[w].stage \in Writing =>
    /\ Len(staging[w].bytes) = up[w].next /\ staging[w].from <= up[w].next
    /\ \A i \in 1..up[w].next : i > staging[w].from => staging[w].bytes[i] = Byte(w, i)

\* The first n acknowledged bytes, as far as they were not lost.
Holds(w, content, n) ==
  content \in Torn(w) /\ Len(content) = n /\ (w \notin cut => content = Prefix(w, n))

HeldInv(w) ==
  protocol = "smb" /\ up[w].stage \in Writing => Holds(w, held[w], up[w].next)

WriterInv(w) == RunInv(w) /\ PartInv(w) /\ LateInv(w) /\ StagedInv(w) /\ HeldInv(w)

UploadInv == UploadTyped /\ \A w \in Writers : WriterInv(w)

LEMMA WriterSizes == ASSUME NEW w \in Writers PROVE SizeOf[w] \in Nat /\ w # "final"
BY UploadAssumption

LEMMA PrefixIs ==
  ASSUME NEW w \in Writers, NEW n \in Nat
  PROVE  /\ Prefix(w, n) \in Seq(Cells) /\ Len(Prefix(w, n)) = n
         /\ \A i \in 1..n : Prefix(w, n)[i] = Byte(w, i)
<1>1. \A i \in 1..n : Byte(w, i) \in Cells  BY DEF Byte, Cells
<1> QED  BY <1>1, IsASeq DEF Prefix

LEMMA PrefixOnly ==
  ASSUME NEW w \in Writers, NEW n \in Nat, NEW T, NEW s \in Seq(T), Len(s) = n,
         \A i \in 1..n : s[i] = Byte(w, i)
  PROVE  s = Prefix(w, n)
BY DEF Prefix

LEMMA BodyIs == ASSUME NEW w \in Writers PROVE Body(w) = Prefix(w, SizeOf[w])
BY DEF Body, Prefix

LEMMA PrefixOfPrefix ==
  ASSUME NEW w \in Writers, NEW n \in Nat, NEW m \in 0..n
  PROVE  SubSeq(Prefix(w, n), 1, m) = Prefix(w, m)
<1>1. /\ Prefix(w, n) \in Seq(Cells) /\ Len(Prefix(w, n)) = n
      /\ \A i \in 1..n : Prefix(w, n)[i] = Byte(w, i)
  BY PrefixIs
<1>2. PICK p : p = Prefix(w, n)  OBVIOUS
<1>3. PICK s : s = SubSeq(p, 1, m)  OBVIOUS
<1>4. p \in Seq(Cells) /\ Len(p) = n /\ \A i \in 1..n : p[i] = Byte(w, i)  BY <1>1, <1>2
<1>5. s \in Seq(Cells) /\ Len(s) = m /\ \A i \in 1..m : s[i] = p[i]
  BY <1>3, <1>4, SubSeqProperties
<1>6. s = Prefix(w, m)  BY <1>4, <1>5, PrefixOnly
<1> QED  BY <1>2, <1>3, <1>6

\* A byte written where it belongs, at most one past the end, keeps a prefix.
LEMMA WriteInPlace ==
  ASSUME NEW w \in Writers, NEW m \in Nat, NEW k \in 0..m
  PROVE  /\ k + 1 <= m => WriteAt(Prefix(w, m), k, Byte(w, k + 1)) = Prefix(w, m)
         /\ k = m => WriteAt(Prefix(w, m), k, Byte(w, k + 1)) = Prefix(w, m + 1)
<1>1. /\ Len(Prefix(w, m)) = m /\ \A i \in 1..m : Prefix(w, m)[i] = Byte(w, i)
  BY PrefixIs
<1>2. PICK p : p = Prefix(w, m)  OBVIOUS
<1>3. Len(p) = m /\ \A i \in 1..m : p[i] = Byte(w, i)  BY <1>1, <1>2
<1>4. ASSUME k + 1 <= m  PROVE WriteAt(p, k, Byte(w, k + 1)) = Prefix(w, m)
  <2>1. WriteAt(p, k, Byte(w, k + 1))
          = [i \in 1..m |-> IF i = k + 1 THEN Byte(w, k + 1) ELSE IF i <= m THEN p[i] ELSE Hole]
    BY <1>3, <1>4 DEF WriteAt
  <2> QED  BY <1>3, <2>1 DEF Prefix
<1>5. ASSUME k = m  PROVE WriteAt(p, k, Byte(w, k + 1)) = Prefix(w, m + 1)
  <2>1. WriteAt(p, k, Byte(w, k + 1))
          = [i \in 1..m + 1 |-> IF i = k + 1 THEN Byte(w, k + 1) ELSE IF i <= m THEN p[i] ELSE Hole]
    BY <1>3, <1>5 DEF WriteAt
  <2> QED  BY <1>3, <1>5, <2>1 DEF Prefix
<1> QED  BY <1>2, <1>4, <1>5

LEMMA TornIs ==
  ASSUME NEW w \in Writers, NEW c \in Torn(w)
  PROVE  /\ c \in Seq(Cells) /\ Len(c) \in 0..SizeOf[w]
         /\ \A i \in 1..Len(c) : c[i] \in {Byte(w, i), Hole}
<1>1. PICK n \in 0..SizeOf[w] :
         c \in {[i \in 1..n |-> IF i \in holes THEN Hole ELSE Byte(w, i)] : holes \in SUBSET (1..n)}
  BY Zenon DEF Torn
<1>0. PICK holes \in SUBSET (1..n) : c = [i \in 1..n |-> IF i \in holes THEN Hole ELSE Byte(w, i)]
  BY <1>1
<1>2. n \in Nat  BY WriterSizes
<1>3. \A i \in 1..n : c[i] \in Cells /\ c[i] \in {Byte(w, i), Hole}
  <2>1. Hole \in Cells /\ \A i \in 1..n : Byte(w, i) \in Cells  BY <1>2 DEF Cells, Byte, Hole
  <2>2. \A i \in 1..n : c[i] = IF i \in holes THEN Hole ELSE Byte(w, i)  BY <1>0
  <2> QED  BY <2>1, <2>2
<1>4. c \in Seq(Cells) /\ Len(c) = n  BY <1>0, <1>2, <1>3, IsASeq
<1> QED  BY <1>3, <1>4

LEMMA IsTorn ==
  ASSUME NEW w \in Writers, NEW T, NEW c \in Seq(T), Len(c) <= SizeOf[w],
         \A i \in 1..Len(c) : c[i] \in {Byte(w, i), Hole}
  PROVE  c \in Torn(w)
<1>1. PICK n \in 0..SizeOf[w] : n = Len(c)  BY WriterSizes
<1>2. PICK holes : holes = {i \in 1..n : c[i] = Hole}  OBVIOUS
<1>3. holes \in SUBSET (1..n)  BY <1>2
<1>4. c = [i \in 1..n |-> IF i \in holes THEN Hole ELSE Byte(w, i)]  BY <1>1, <1>2
<1>5. c \in {[i \in 1..n |-> IF i \in h THEN Hole ELSE Byte(w, i)] : h \in SUBSET (1..n)}
  BY <1>3, <1>4, Zenon
<1>6. PICK S : S = {[i \in 1..n |-> IF i \in h THEN Hole ELSE Byte(w, i)] : h \in SUBSET (1..n)}
  OBVIOUS
<1>7. S \in {{[i \in 1..m |-> IF i \in h THEN Hole ELSE Byte(w, i)] : h \in SUBSET (1..m)} :
               m \in 0..SizeOf[w]}
  BY <1>6, Zenon
<1> QED  BY <1>5, <1>6, <1>7, Zenon DEF Torn

LEMMA PrefixIsTorn ==
  ASSUME NEW w \in Writers, NEW n \in 0..SizeOf[w]
  PROVE  Prefix(w, n) \in Torn(w)
<1>1. n \in Nat  BY WriterSizes
<1>2. PICK p : p = Prefix(w, n)  OBVIOUS
<1>3. p \in Seq(Cells) /\ Len(p) = n /\ \A i \in 1..n : p[i] = Byte(w, i)  BY <1>1, <1>2, PrefixIs
<1> QED  BY <1>2, <1>3, IsTorn

\* A byte of the task at one of its places.
LEMMA WriteTorn ==
  ASSUME NEW w \in Writers, NEW c \in Torn(w), NEW k \in Nat, k < SizeOf[w]
  PROVE  /\ WriteAt(c, k, Byte(w, k + 1)) \in Torn(w)
         /\ k = Len(c) => Len(WriteAt(c, k, Byte(w, k + 1))) = k + 1
<1>1. c \in Seq(Cells) /\ Len(c) \in 0..SizeOf[w] /\ SizeOf[w] \in Nat
      /\ \A i \in 1..Len(c) : c[i] \in {Byte(w, i), Hole}
  BY TornIs, WriterSizes
<1>2. PICK m \in 0..SizeOf[w] : /\ m = IF k + 1 > Len(c) THEN k + 1 ELSE Len(c)
                                /\ k = Len(c) => m = k + 1
  BY <1>1
<1>3. PICK d : d = [i \in 1..m |-> IF i = k + 1 THEN Byte(w, k + 1)
                                   ELSE IF i <= Len(c) THEN c[i] ELSE Hole]
  OBVIOUS
<1>4. WriteAt(c, k, Byte(w, k + 1)) = d  BY <1>2, <1>3 DEF WriteAt
<1>5. \A i \in 1..m : d[i] \in {Byte(w, i), Hole}  BY <1>1, <1>3
<1>6. \A i \in 1..m : d[i] \in Cells  BY <1>1, <1>5 DEF Cells, Byte, Hole
<1>7. d \in Seq(Cells) /\ Len(d) = m  BY <1>1, <1>3, <1>6, IsASeq
<1>8. d \in Torn(w)  BY <1>1, <1>5, <1>7, IsTorn
<1> QED  BY <1>2, <1>4, <1>7, <1>8

\* The next byte of a staging file.
LEMMA WriteNext ==
  ASSUME NEW s \in Seq(Cells), NEW b \in Cells
  PROVE  /\ WriteAt(s, Len(s), b) \in Seq(Cells) /\ Len(WriteAt(s, Len(s), b)) = Len(s) + 1
         /\ \A i \in 1..Len(s) : WriteAt(s, Len(s), b)[i] = s[i]
         /\ WriteAt(s, Len(s), b)[Len(s) + 1] = b
<1>1. PICK n \in Nat : n = Len(s)  OBVIOUS
<1>2. PICK f : f = [i \in 1..n + 1 |-> IF i = n + 1 THEN b ELSE IF i <= n THEN s[i] ELSE Hole]
  OBVIOUS
<1>3. WriteAt(s, Len(s), b) = f  BY <1>1, <1>2 DEF WriteAt
<1>4. \A i \in 1..n + 1 : f[i] \in Cells  BY <1>1, <1>2
<1>5. f \in Seq(Cells) /\ Len(f) = n + 1  BY <1>2, <1>4, IsASeq
<1>6. (\A i \in 1..n : f[i] = s[i]) /\ f[n + 1] = b  BY <1>2
<1> QED  BY <1>1, <1>3, <1>5, <1>6

\* What APPE adds to a prefix that ends where the staging file's own bytes begin.
LEMMA AppendRest ==
  ASSUME NEW w \in Writers, NEW n \in Nat, NEW from \in 0..n, NEW s \in Seq(Cells), Len(s) = n,
         \A i \in 1..n : i > from => s[i] = Byte(w, i)
  PROVE  Prefix(w, from) \o SubSeq(s, from + 1, n) = Prefix(w, n)
<1>1. /\ Prefix(w, from) \in Seq(Cells) /\ Len(Prefix(w, from)) = from
      /\ \A i \in 1..from : Prefix(w, from)[i] = Byte(w, i)
  BY PrefixIs
<1>2. PICK p : p = Prefix(w, from)  OBVIOUS
<1>3. p \in Seq(Cells) /\ Len(p) = from /\ \A i \in 1..from : p[i] = Byte(w, i)  BY <1>1, <1>2
<1>4. PICK t : t = SubSeq(s, from + 1, n)  OBVIOUS
<1>5. t \in Seq(Cells) /\ Len(t) = n - from /\ \A i \in 1..(n - from) : t[i] = s[from + i]
  <2>1. t \in Seq(Cells)  BY <1>4, SubSeqProperties
  <2>2. CASE from < n
    <3>1. Len(t) = n - from /\ \A i \in 1..(n - from) : t[i] = s[from + 1 + i - 1]
      BY <1>4, <2>2, SubSeqProperties
    <3> QED  BY <2>1, <3>1
  <2>3. CASE from = n
    <3>1. Len(t) = 0  BY <1>4, <2>3, SubSeqProperties
    <3> QED  BY <2>1, <2>3, <3>1
  <2> QED  BY <2>2, <2>3
<1>6. PICK c : c = p \o t  OBVIOUS
<1>7. /\ c \in Seq(Cells) /\ Len(c) = n /\ \A i \in 1..from : c[i] = p[i]
      /\ \A i \in (from + 1)..n : c[i] = t[i - from]
  BY <1>3, <1>5, <1>6, ConcatProperties
<1>8. \A i \in 1..n : c[i] = Byte(w, i)
  <2> TAKE i \in 1..n
  <2>1. CASE i <= from  BY <1>3, <1>7, <2>1
  <2>2. CASE i > from
    <3>1. i - from \in 1..(n - from) /\ from + (i - from) = i /\ i \in (from + 1)..n  BY <2>2
    <3>2. c[i] = t[i - from] /\ t[i - from] = s[i]  BY <1>5, <1>7, <3>1
    <3> QED  BY <2>2, <3>2
  <2> QED  BY <2>1, <2>2
<1>9. c = Prefix(w, n)  BY <1>7, <1>8, PrefixOnly
<1> QED  BY <1>2, <1>4, <1>6, <1>9

\* What a step leaves of a task it is not about.
Same(v) ==
  /\ up'[v] = up[v] /\ staging'[v] = staging[v] /\ held'[v] = held[v] /\ protocol' = protocol
  /\ v \in DOMAIN server' => v \in DOMAIN server /\ server'[v] = server[v]
  /\ \A r \in late' : r.by = v => r \in late
  /\ v \in cut' <=> v \in cut

Elsewhere(w) == \A v \in Writers : v # w => Same(v)

LEMMA SameKeeps ==
  ASSUME NEW v \in Writers, WriterInv(v), Same(v)
  PROVE  WriterInv(v)'
<1>1. RenameWaits(v)' => RenameWaits(v)  BY DEF RenameWaits, Same
<1>2. RunInv(v)'  BY DEF WriterInv, RunInv, Same
<1>3. PartInv(v)'  BY <1>1 DEF WriterInv, PartInv, Same, At
<1>4. LateInv(v)'  BY <1>1 DEF WriterInv, LateInv, Same
<1>5. StagedInv(v)' /\ HeldInv(v)'  BY DEF WriterInv, StagedInv, HeldInv, Holds, Same
<1> QED  BY <1>2, <1>3, <1>4, <1>5 DEF WriterInv

\* A step of one task that ends its write, or leaves it closed.
LEMMA EndKeeps ==
  ASSUME UploadInv, NEW w \in Writers, Elsewhere(w), UploadTyped', protocol' = protocol, cut' = cut,
         up'[w].stage \notin Writing, up'[w].next <= SizeOf[w], up'[w].progress = up[w].progress,
         \A r \in late' : r \notin late =>
           \/ r.kind = "remove"
           \/ r.kind = "truncate" /\ protocol # "ftp"
           \/ r.kind = "rename" /\ At(w, "checked")
           \/ r.kind = "write" /\ protocol # "ftp" /\ MoreToWrite(w) /\ r.at = up[w].next,
         w \in DOMAIN server' =>
           \/ w \in DOMAIN server /\ server'[w] = server[w]
           \/ w \in cut /\ server'[w] \in Torn(w)
           \/ \E n \in 0..SizeOf[w] :
                /\ server'[w] = Prefix(w, n) /\ late' = late
                /\ RenameWaits(w) => n = SizeOf[w]
                /\ protocol # "ftp" => up[w].progress <= n
  PROVE  UploadInv'
<1>1. WriterInv(w) /\ UploadTyped /\ SizeOf[w] \in Nat  BY WriterSizes DEF UploadInv
<1>2. up[w].next \in Nat /\ up[w].progress \in Nat  BY <1>1 DEF UploadTyped, RunState
<1>3. RunInv(w)'  BY <1>1 DEF WriterInv, RunInv, Writing
<1>4. RenameWaits(w)' => RenameWaits(w) \/ At(w, "checked")  BY DEF RenameWaits
<1>5. At(w, "checked") => up[w].progress = SizeOf[w]  BY <1>1 DEF WriterInv, RunInv, At, Writing
<1>6. PartInv(w)'
  <2>0. ~At(w, "checked")'  BY DEF At, Writing
  <2> SUFFICES ASSUME w \in DOMAIN server'
               PROVE  /\ server'[w] \in Torn(w)
                      /\ w \notin cut =>
                           /\ server'[w] = Prefix(w, Len(server'[w]))
                           /\ protocol # "ftp" => up[w].progress <= Len(server'[w])
                           /\ RenameWaits(w)' => Len(server'[w]) = SizeOf[w]
    BY <2>0 DEF PartInv
  <2>1. CASE w \in DOMAIN server /\ server'[w] = server[w]
    BY <1>1, <1>4, <2>1 DEF WriterInv, PartInv
  <2>2. CASE \E n \in 0..SizeOf[w] :
                /\ server'[w] = Prefix(w, n) /\ late' = late
                /\ RenameWaits(w) => n = SizeOf[w]
                /\ protocol # "ftp" => up[w].progress <= n
    <3>1. PICK n \in 0..SizeOf[w] :
                /\ server'[w] = Prefix(w, n) /\ late' = late
                /\ RenameWaits(w) => n = SizeOf[w]
                /\ protocol # "ftp" => up[w].progress <= n
      BY <2>2
    <3>2. Len(Prefix(w, n)) = n /\ Prefix(w, n) \in Torn(w)  BY <1>1, PrefixIs, PrefixIsTorn
    <3>3. RenameWaits(w)' => RenameWaits(w)  BY <3>1 DEF RenameWaits
    <3> QED  BY <3>1, <3>2, <3>3
  <2>3. CASE w \in cut /\ server'[w] \in Torn(w)  BY <2>3
  <2> QED  BY <2>1, <2>2, <2>3
<1>7. LateInv(w)'
  <2>1. ASSUME NEW r \in late', r.by = w
        PROVE  /\ r.kind = "truncate" => protocol # "ftp"
               /\ r.kind = "write" => protocol # "ftp" /\ r.at < SizeOf[w] /\ r.at <= up[w].progress
    <3>1. CASE r \in late  BY <1>1, <2>1, <3>1 DEF WriterInv, LateInv
    <3>2. CASE r \notin late /\ r.kind = "write"
      <4>1. protocol # "ftp" /\ MoreToWrite(w) /\ r.at = up[w].next  BY <3>2
      <4> QED  BY <1>1, <1>2, <3>2, <4>1 DEF MoreToWrite, At, WriterInv, RunInv, Writing
    <3>3. CASE r \notin late /\ r.kind # "write"  BY <3>3
    <3> QED  BY <3>1, <3>2, <3>3
  <2>2. RenameWaits(w)' => up[w].progress = SizeOf[w]  BY <1>1, <1>4, <1>5 DEF WriterInv, LateInv
  <2> QED  BY <2>1, <2>2 DEF LateInv
<1>8. StagedInv(w)' /\ HeldInv(w)'  BY DEF StagedInv, HeldInv
<1>9. WriterInv(w)'  BY <1>3, <1>6, <1>7, <1>8 DEF WriterInv
<1> QED  BY <1>9, SameKeeps DEF UploadInv, Elsewhere

\* A step of one task after which its write is open.
LEMMA OpenKeeps ==
  ASSUME UploadInv, NEW w \in Writers, Elsewhere(w), UploadTyped', protocol' = protocol,
         late' = late, cut' = cut,
         up'[w].stage \in Writing, up'[w].next <= SizeOf[w], up'[w].progress = up'[w].next,
         up[w].progress <= up'[w].progress,
         up'[w].stage # "writing" => up'[w].next = SizeOf[w],
         w \in DOMAIN server' =>
           \/ w \in cut /\ server'[w] \in Torn(w)
           \/ \E n \in 0..SizeOf[w] :
                /\ server'[w] = Prefix(w, n)
                /\ RenameWaits(w) \/ up'[w].stage = "checked" => n = SizeOf[w]
                /\ protocol # "ftp" => up'[w].progress <= n,
         RenameWaits(w) /\ protocol = "ftp" => staging'[w].from = SizeOf[w],
         StagedInv(w)', HeldInv(w)'
  PROVE  UploadInv'
<1>1. WriterInv(w) /\ UploadTyped /\ SizeOf[w] \in Nat  BY WriterSizes DEF UploadInv
<1>2. up[w].progress \in Nat /\ up'[w].progress \in Nat /\ up'[w].next \in Nat
  BY <1>1 DEF UploadTyped, RunState
<1>3. RunInv(w)'  BY <1>1, <1>2 DEF WriterInv, RunInv, Writing
<1>4. RenameWaits(w)' <=> RenameWaits(w)  BY DEF RenameWaits
<1>5. PartInv(w)'
  <2> SUFFICES ASSUME w \in DOMAIN server'
               PROVE  /\ server'[w] \in Torn(w)
                      /\ w \notin cut =>
                           /\ server'[w] = Prefix(w, Len(server'[w]))
                           /\ protocol # "ftp" => up'[w].progress <= Len(server'[w])
                           /\ up'[w].stage = "checked" \/ RenameWaits(w)' => Len(server'[w]) = SizeOf[w]
    BY DEF PartInv, At
  <2>1. CASE w \in cut /\ server'[w] \in Torn(w)  BY <2>1
  <2>2. CASE \E n \in 0..SizeOf[w] :
                /\ server'[w] = Prefix(w, n)
                /\ RenameWaits(w) \/ up'[w].stage = "checked" => n = SizeOf[w]
                /\ protocol # "ftp" => up'[w].progress <= n
    <3>1. PICK n \in 0..SizeOf[w] :
                /\ server'[w] = Prefix(w, n)
                /\ RenameWaits(w) \/ up'[w].stage = "checked" => n = SizeOf[w]
                /\ protocol # "ftp" => up'[w].progress <= n
      BY <2>2
    <3>2. Len(Prefix(w, n)) = n /\ Prefix(w, n) \in Torn(w)  BY <1>1, PrefixIs, PrefixIsTorn
    <3> QED  BY <1>4, <3>1, <3>2
  <2> QED  BY <2>1, <2>2
<1>6. LateInv(w)'
  <2>1. ASSUME NEW r \in late, r.by = w
        PROVE  /\ r.kind = "truncate" => protocol # "ftp"
               /\ r.kind = "write" => protocol # "ftp" /\ r.at < SizeOf[w] /\ r.at <= up'[w].progress
    <3>1. r.at \in Nat  BY <1>1 DEF UploadTyped, Requests
    <3> QED  BY <1>1, <1>2, <2>1, <3>1 DEF WriterInv, LateInv
  <2>2. RenameWaits(w) => up'[w].progress = SizeOf[w]  BY <1>1, <1>2 DEF WriterInv, LateInv
  <2> QED  BY <1>4, <2>1, <2>2 DEF LateInv
<1>7. WriterInv(w)'  BY <1>3, <1>5, <1>6 DEF WriterInv
<1> QED  BY <1>7, SameKeeps DEF UploadInv, Elsewhere

LEMMA RequestIs ==
  ASSUME NEW kind \in {"truncate", "write", "rename", "remove"}, NEW w \in Writers, NEW at \in Nat
  PROVE  /\ Request(kind, w, at) \in Requests /\ Request(kind, w, at).kind = kind
         /\ Request(kind, w, at).by = w /\ Request(kind, w, at).at = at
BY DEF Request, Requests

\* What the server does to the `.part` files.
LEMMA ApplyDoes ==
  ASSUME UploadTyped, NEW r \in Requests, Apply(r)
  PROVE  /\ DOMAIN server' \subseteq Writers \cup {"final"} /\ placed' \subseteq Writers
         /\ \A v \in Writers : v # r.by /\ v \in DOMAIN server'
                                 => v \in DOMAIN server /\ server'[v] = server[v]
         /\ r.kind = "truncate" => server'[r.by] = <<>>
         /\ r.kind = "write" =>
              /\ r.by \in DOMAIN server' => r.by \in DOMAIN server
              /\ r.by \in DOMAIN server =>
                   server'[r.by] = WriteAt(server[r.by], r.at, Byte(r.by, r.at + 1))
         /\ r.kind \in {"rename", "remove"} => r.by \notin DOMAIN server'
<1>1. PICK w \in Writers : w = r.by  BY DEF Requests
<1>2. w # "final"  BY WriterSizes
<1>3. r.kind \in {"truncate", "write", "rename", "remove"}  BY DEF Requests
<1>4. placed' \subseteq Writers  BY <1>1 DEF Apply, UploadTyped
<1>5. CASE r.kind = "truncate"
  <2>1. server' = Put(w, <<>>)  BY <1>1, <1>5 DEF Apply
  <2> QED  BY <1>1, <1>4, <1>5, <2>1 DEF Put, UploadTyped
<1>6. CASE r.kind = "write"
  <2>1. CASE w \in DOMAIN server
    <3>1. server' = Put(w, WriteAt(server[w], r.at, Byte(w, r.at + 1)))
      BY <1>1, <1>6, <2>1 DEF Apply, Exists
    <3> HIDE DEF WriteAt
    <3> QED  BY <1>1, <1>4, <1>6, <2>1, <3>1 DEF Put, UploadTyped
  <2>2. CASE w \notin DOMAIN server
    <3>1. server' = server  BY <1>1, <1>6, <2>2 DEF Apply, Exists
    <3> QED  BY <1>1, <1>4, <1>6, <2>2, <3>1 DEF UploadTyped
  <2> QED  BY <2>1, <2>2
<1>7. CASE r.kind = "rename"
  <2>1. CASE w \in DOMAIN server
    <3>1. server' = [p \in (DOMAIN server \cup {"final"}) \ {w} |->
                             IF p = "final" THEN server[w] ELSE server[p]]
      BY <1>1, <1>7, <2>1 DEF Apply, Exists
    <3>2. DOMAIN server' = (DOMAIN server \cup {"final"}) \ {w}  BY <3>1
    <3>3. \A v \in Writers : v \in DOMAIN server' => v \in DOMAIN server /\ server'[v] = server[v]
      BY <3>1, WriterSizes
    <3> QED  BY <1>1, <1>4, <1>7, <3>2, <3>3 DEF UploadTyped
  <2>2. CASE w \notin DOMAIN server
    <3>1. server' = server  BY <1>1, <1>7, <2>2 DEF Apply, Exists
    <3> QED  BY <1>1, <1>4, <1>7, <2>2, <3>1 DEF UploadTyped
  <2> QED  BY <2>1, <2>2
<1>8. CASE r.kind = "remove"
  <2>1. CASE w \in DOMAIN server
    <3>1. server' = Without(w)  BY <1>1, <1>8, <2>1 DEF Apply, Exists
    <3> QED  BY <1>1, <1>4, <1>8, <3>1 DEF Without, UploadTyped
  <2>2. CASE w \notin DOMAIN server
    <3>1. server' = server  BY <1>1, <1>8, <2>2 DEF Apply, Exists
    <3> QED  BY <1>1, <1>4, <1>8, <2>2, <3>1 DEF UploadTyped
  <2> QED  BY <2>1, <2>2
<1> QED  BY <1>3, <1>5, <1>6, <1>7, <1>8

\* The run of a task after the steps that only move its stage.
LEMMA GoesDoes ==
  ASSUME UploadTyped, NEW w \in Writers, NEW stage \in Stages, Goes(w, stage) \/ Drops(w, stage)
  PROVE  /\ up' \in [Writers -> RunState] /\ \A v \in Writers : v # w => up'[v] = up[v]
         /\ up'[w].stage = stage /\ up'[w].next = up[w].next /\ up'[w].progress = up[w].progress
<1>1. PICK u : u = up[w]  OBVIOUS
<1>2. u \in RunState  BY <1>1 DEF UploadTyped
<1>3. PICK n : n \in RunState /\ up' = [up EXCEPT ![w] = n] /\ n.stage = stage /\ n.next = u.next
                /\ n.progress = u.progress
  <2>1. CASE Goes(w, stage)
    <3>1. [u EXCEPT !.stage = stage] \in RunState  BY <1>2 DEF RunState
    <3>2. up' = [up EXCEPT ![w] = [u EXCEPT !.stage = stage]]  BY <1>1, <2>1 DEF Goes, UploadTyped
    <3>3. PICK n : n = [u EXCEPT !.stage = stage]  OBVIOUS
    <3>4. n.stage = stage /\ n.next = u.next /\ n.progress = u.progress  BY <1>2, <3>3 DEF RunState
    <3>5. n \in RunState /\ up' = [up EXCEPT ![w] = n]  BY <3>1, <3>2, <3>3
    <3> QED  BY <3>4, <3>5
  <2>2. CASE Drops(w, stage)
    <3>1. [u EXCEPT !.stage = stage, !.live = FALSE] \in RunState  BY <1>2, Flags DEF RunState
    <3>2. up' = [up EXCEPT ![w] = [u EXCEPT !.stage = stage, !.live = FALSE]]
      BY <1>1, <2>2 DEF Drops, UploadTyped
    <3>3. PICK n : n = [u EXCEPT !.stage = stage, !.live = FALSE]  OBVIOUS
    <3>4. n.stage = stage /\ n.next = u.next /\ n.progress = u.progress  BY <1>2, <3>3 DEF RunState
    <3>5. n \in RunState /\ up' = [up EXCEPT ![w] = n]  BY <3>1, <3>2, <3>3
    <3> QED  BY <3>4, <3>5
  <2> QED  BY <2>1, <2>2
<1> QED  BY <1>1, <1>3 DEF UploadTyped

LEMMA BegunDoes ==
  ASSUME UploadTyped, NEW w \in Writers, Begun(w)
  PROVE  /\ up' \in [Writers -> RunState] /\ \A v \in Writers : v # w => up'[v] = up[v]
         /\ up'[w].stage = "writing" /\ up'[w].next = up[w].progress
         /\ up'[w].progress = up[w].progress
<1>1. PICK u : u = up[w]  OBVIOUS
<1>2. u \in RunState  BY <1>1 DEF UploadTyped
<1>3. up' = [up EXCEPT ![w] = [u EXCEPT !.stage = "writing", !.next = u.progress]]
  BY <1>1 DEF Begun, UploadTyped
<1>4. [u EXCEPT !.stage = "writing", !.next = u.progress] \in RunState  BY <1>2 DEF RunState, Stages
<1> QED  BY <1>1, <1>2, <1>3, <1>4 DEF UploadTyped, RunState

LEMMA RecordedDoes ==
  ASSUME UploadTyped, NEW w \in Writers, Recorded(w)
  PROVE  /\ up' \in [Writers -> RunState] /\ \A v \in Writers : v # w => up'[v] = up[v]
         /\ up'[w].next = up[w].next + 1
         /\ \/ up'[w].stage = up[w].stage /\ up'[w].progress = up[w].next + 1
            \/ up'[w].stage = "failed" /\ up'[w].progress = up[w].progress
<1>1. PICK u : u = up[w]  OBVIOUS
<1>2. u \in RunState  BY <1>1 DEF UploadTyped
<1>3. PICK k \in Nat : k = u.next + 1  BY <1>2 DEF RunState
<1>4. CASE up' = [up EXCEPT ![w] = [u EXCEPT !.next = k, !.progress = k]]
  <2>1. [u EXCEPT !.next = k, !.progress = k] \in RunState  BY <1>2 DEF RunState
  <2> QED  BY <1>1, <1>2, <1>3, <1>4, <2>1 DEF UploadTyped, RunState
<1>5. CASE up' = [up EXCEPT ![w] = [u EXCEPT !.next = k, !.stage = "failed"]]
  <2>1. [u EXCEPT !.next = k, !.stage = "failed"] \in RunState  BY <1>2 DEF RunState, Stages
  <2> QED  BY <1>1, <1>2, <1>3, <1>5, <2>1 DEF UploadTyped, RunState
<1> QED  BY <1>1, <1>3, <1>4, <1>5 DEF Recorded, UploadTyped

\* A run that ends, or a stage that is left, without a request.
LEMMA QuitKeeps ==
  ASSUME UploadInv, NEW w \in Writers, NEW stage \in {"idle", "failed"},
         Goes(w, stage) \/ Drops(w, stage), Unserved, UNCHANGED <<protocol, held, cut>>,
         staging' \in [Writers -> [bytes : Seq(Cells), from : Nat]],
         \A v \in Writers : v # w => staging'[v] = staging[v]
  PROVE  UploadInv'
<1>1. UploadTyped /\ RunInv(w) /\ stage \in Stages  BY DEF UploadInv, WriterInv, Stages
<1>2. /\ up' \in [Writers -> RunState] /\ \A v \in Writers : v # w => up'[v] = up[v]
      /\ up'[w].stage = stage /\ up'[w].next = up[w].next /\ up'[w].progress = up[w].progress
  BY <1>1, GoesDoes
<1>3. server' = server /\ late' = late /\ placed' = placed /\ confirmed' = confirmed  BY DEF Unserved
<1>4. UploadTyped'  BY <1>1, <1>2, <1>3 DEF UploadTyped
<1>5. Elsewhere(w)  BY <1>2, <1>3 DEF Elsewhere, Same
<1>6. up'[w].stage \notin Writing /\ up'[w].next <= SizeOf[w]  BY <1>1, <1>2 DEF Writing, RunInv
<1> QED  BY <1>2, <1>3, <1>4, <1>5, <1>6, EndKeeps

\* An operation ends with its request unanswered.
LEMMA InterruptKeeps ==
  ASSUME UploadInv, NEW w \in Writers, NEW r \in Requests, r.by = w,
         Unanswered(r), NEW stage \in {"idle", "failed"}, Goes(w, stage) \/ Drops(w, stage),
         UNCHANGED <<protocol, staging, held, cut>>,
         r.kind = "truncate" => protocol # "ftp",
         r.kind = "rename" => At(w, "checked"),
         r.kind = "write" => protocol # "ftp" /\ MoreToWrite(w) /\ r.at = up[w].next
  PROVE  UploadInv'
<1>1. UploadTyped /\ RunInv(w) /\ stage \in Stages  BY DEF UploadInv, WriterInv, Stages
<1>2. /\ up' \in [Writers -> RunState] /\ \A v \in Writers : v # w => up'[v] = up[v]
      /\ up'[w].stage = stage /\ up'[w].next = up[w].next /\ up'[w].progress = up[w].progress
  BY <1>1, GoesDoes
<1>3. /\ server' = server /\ placed' = placed /\ confirmed' = confirmed
      /\ late' = late \/ late' = late \cup {r}
  BY DEF Unanswered
<1>4. UploadTyped'  BY <1>1, <1>2, <1>3 DEF UploadTyped
<1>5. Elsewhere(w)  BY <1>2, <1>3 DEF Elsewhere, Same
<1>6. up'[w].stage \notin Writing /\ up'[w].next <= SizeOf[w]  BY <1>1, <1>2 DEF Writing, RunInv
<1>7. r.kind \in {"truncate", "write", "rename", "remove"}  BY DEF Requests
<1>8. \A q \in late' : q \notin late =>
           \/ q.kind = "remove"
           \/ q.kind = "truncate" /\ protocol # "ftp"
           \/ q.kind = "rename" /\ At(w, "checked")
           \/ q.kind = "write" /\ protocol # "ftp" /\ MoreToWrite(w) /\ q.at = up[w].next
  BY <1>3, <1>7
<1> QED  BY <1>2, <1>3, <1>4, <1>5, <1>6, <1>8, EndKeeps

\* The `.part` is renamed or removed: it is gone.
LEMMA TakeKeeps ==
  ASSUME UploadInv, NEW w \in Writers, NEW kind \in {"rename", "remove"},
         Apply(Request(kind, w, 0)), NEW stage \in {"idle", "failed"},
         Goes(w, stage) \/ Drops(w, stage), UNCHANGED <<protocol, staging, held, late, cut>>,
         confirmed' \subseteq Writers
  PROVE  UploadInv'
<1>1. UploadTyped /\ RunInv(w) /\ stage \in Stages  BY DEF UploadInv, WriterInv, Stages
<1>2. /\ up' \in [Writers -> RunState] /\ \A v \in Writers : v # w => up'[v] = up[v]
      /\ up'[w].stage = stage /\ up'[w].next = up[w].next /\ up'[w].progress = up[w].progress
  BY <1>1, GoesDoes
<1>3. PICK r \in Requests : r = Request(kind, w, 0) /\ r.kind = kind /\ r.by = w  BY RequestIs
<1>4. /\ DOMAIN server' \subseteq Writers \cup {"final"} /\ placed' \subseteq Writers
      /\ \A v \in Writers : v # w /\ v \in DOMAIN server' => v \in DOMAIN server /\ server'[v] = server[v]
      /\ w \notin DOMAIN server'
  BY <1>1, <1>3, ApplyDoes
<1>5. UploadTyped'  BY <1>1, <1>2, <1>4 DEF UploadTyped
<1>6. Elsewhere(w)  BY <1>2, <1>4 DEF Elsewhere, Same
<1>7. up'[w].stage \notin Writing /\ up'[w].next <= SizeOf[w]  BY <1>1, <1>2 DEF Writing, RunInv
<1> QED  BY <1>2, <1>4, <1>5, <1>6, <1>7, EndKeeps

\* A fresh write empties or creates its `.part`.
LEMMA FreshKeeps ==
  ASSUME UploadInv, NEW w \in Writers, Apply(Request("truncate", w, 0)), up[w].progress = 0,
         protocol # "ftp", UNCHANGED <<protocol, staging, late, confirmed, cut>>,
         \/ Begun(w) /\ held' \in [Writers -> Seq(Cells)] /\ (protocol = "smb" => held'[w] = <<>>)
            /\ \A v \in Writers : v # w => held'[v] = held[v]
         \/ Goes(w, "idle") /\ held' = held
  PROVE  UploadInv'
<1>1. UploadTyped /\ WriterInv(w) /\ SizeOf[w] \in Nat  BY WriterSizes DEF UploadInv
<1>2. PICK r \in Requests : r = Request("truncate", w, 0) /\ r.kind = "truncate" /\ r.by = w
  BY RequestIs
<1>3. /\ DOMAIN server' \subseteq Writers \cup {"final"} /\ placed' \subseteq Writers
      /\ \A v \in Writers : v # w /\ v \in DOMAIN server' => v \in DOMAIN server /\ server'[v] = server[v]
      /\ server'[w] = <<>>
  BY <1>1, <1>2, ApplyDoes
<1>4. Prefix(w, 0) = <<>>
  <2>1. Prefix(w, 0) \in Seq(Cells) /\ Len(Prefix(w, 0)) = 0  BY PrefixIs
  <2> QED  BY <2>1, EmptySeq
<1>5. (RenameWaits(w) => SizeOf[w] = 0) /\ Prefix(w, 0) \in Torn(w) /\ Len(Prefix(w, 0)) = 0
  <2>1. 0 \in 0..SizeOf[w]  BY <1>1
  <2> QED  BY <1>1, <2>1, PrefixIs, PrefixIsTorn DEF WriterInv, LateInv
<1>6. CASE Begun(w) /\ held' \in [Writers -> Seq(Cells)] /\ (protocol = "smb" => held'[w] = <<>>)
           /\ \A v \in Writers : v # w => held'[v] = held[v]
  <2>1. /\ up' \in [Writers -> RunState] /\ \A v \in Writers : v # w => up'[v] = up[v]
        /\ up'[w].stage = "writing" /\ up'[w].next = 0 /\ up'[w].progress = 0
    BY <1>1, <1>6, BegunDoes
  <2>2. UploadTyped'  BY <1>1, <1>3, <1>6, <2>1 DEF UploadTyped
  <2>3. Elsewhere(w)  BY <1>3, <1>6, <2>1 DEF Elsewhere, Same
  <2>4. StagedInv(w)'  BY DEF StagedInv
  <2>5. HeldInv(w)'  BY <1>4, <1>5, <1>6, <2>1 DEF HeldInv, Holds
  <2>6. \E n \in 0..SizeOf[w] :
             /\ server'[w] = Prefix(w, n)
             /\ RenameWaits(w) \/ up'[w].stage = "checked" => n = SizeOf[w]
             /\ protocol # "ftp" => up'[w].progress <= n
    BY <1>1, <1>3, <1>4, <1>5, <2>1
  <2> QED  BY <1>1, <2>1, <2>2, <2>3, <2>4, <2>5, <2>6, OpenKeeps DEF Writing
<1>7. CASE Goes(w, "idle") /\ held' = held
  <2>1. /\ up' \in [Writers -> RunState] /\ \A v \in Writers : v # w => up'[v] = up[v]
        /\ up'[w].stage = "idle" /\ up'[w].next = up[w].next /\ up'[w].progress = up[w].progress
    BY <1>1, <1>7, GoesDoes DEF Stages
  <2>2. UploadTyped'  BY <1>1, <1>3, <1>7, <2>1 DEF UploadTyped
  <2>3. Elsewhere(w)  BY <1>3, <1>7, <2>1 DEF Elsewhere, Same
  <2>4. up'[w].stage \notin Writing /\ up'[w].next <= SizeOf[w]
    BY <1>1, <2>1 DEF Writing, RunInv, WriterInv
  <2>5. \E n \in 0..SizeOf[w] :
                /\ server'[w] = Prefix(w, n) /\ late' = late
                /\ RenameWaits(w) => n = SizeOf[w]
                /\ protocol # "ftp" => up[w].progress <= n
    BY <1>1, <1>3, <1>4, <1>5
  <2> QED  BY <2>1, <2>2, <2>3, <2>4, <2>5, EndKeeps
<1> QED  BY <1>6, <1>7

\* A chunk reaches the `.part`; it is recorded or the run fails.
LEMMA WriteKeeps ==
  ASSUME UploadInv, NEW w \in Writers, MoreToWrite(w), Exists(w), protocol # "ftp",
         Apply(Request("write", w, up[w].next)), UNCHANGED <<protocol, staging, late, confirmed, cut>>,
         \/ Goes(w, "failed") /\ held' = held
         \/ Recorded(w) /\ protocol = "sftp" /\ held' = held
         \/ Recorded(w) /\ MayMatch(w) /\ held' = [held EXCEPT ![w] = server'[w]]
  PROVE  UploadInv'
<1>1. UploadTyped /\ WriterInv(w) /\ SizeOf[w] \in Nat  BY WriterSizes DEF UploadInv
<1>2. /\ up[w].stage = "writing" /\ up[w].next < SizeOf[w] /\ up[w].next \in Nat
      /\ up[w].progress = up[w].next
  BY <1>1 DEF MoreToWrite, At, WriterInv, RunInv, Writing, UploadTyped, RunState
<1>3. PICK r \in Requests :
         r = Request("write", w, up[w].next) /\ r.kind = "write" /\ r.by = w /\ r.at = up[w].next
  BY <1>2, RequestIs
<1>4. /\ server[w] \in Torn(w) /\ Len(server[w]) \in 0..SizeOf[w]
      /\ w \notin cut => /\ server[w] = Prefix(w, Len(server[w])) /\ up[w].next <= Len(server[w])
                         /\ RenameWaits(w) => Len(server[w]) = SizeOf[w]
  <2>1. server[w] \in Torn(w)  BY <1>1 DEF Exists, WriterInv, PartInv
  <2> QED  BY <1>1, <1>2, <2>1, TornIs DEF Exists, WriterInv, PartInv
<1>5. /\ DOMAIN server' \subseteq Writers \cup {"final"} /\ placed' \subseteq Writers
      /\ \A v \in Writers : v # w /\ v \in DOMAIN server' => v \in DOMAIN server /\ server'[v] = server[v]
      /\ server'[w] = WriteAt(server[w], up[w].next, Byte(w, up[w].next + 1))
  <2>1. w \in DOMAIN server  BY DEF Exists
  <2> QED  BY <1>1, <1>3, <2>1, ApplyDoes
<1>6. /\ server'[w] \in Torn(w)
      /\ Len(server[w]) = up[w].next => Len(server'[w]) = up[w].next + 1
  <2>1. PICK k \in Nat : k = up[w].next  BY <1>2
  <2>2. /\ WriteAt(server[w], k, Byte(w, k + 1)) \in Torn(w)
        /\ k = Len(server[w]) => Len(WriteAt(server[w], k, Byte(w, k + 1))) = k + 1
    BY <1>2, <1>4, <2>1, WriteTorn
  <2> QED  BY <1>5, <2>1, <2>2
<1>7. w \notin cut =>
        \E n \in 0..SizeOf[w] :
          /\ server'[w] = Prefix(w, n) /\ up[w].next + 1 <= n
          /\ RenameWaits(w) => n = SizeOf[w]
  <2> SUFFICES ASSUME w \notin cut
               PROVE  \E n \in 0..SizeOf[w] :
                        /\ server'[w] = Prefix(w, n) /\ up[w].next + 1 <= n
                        /\ RenameWaits(w) => n = SizeOf[w]
    OBVIOUS
  <2>0. PICK m \in 0..SizeOf[w] : /\ Len(server[w]) = m /\ server[w] = Prefix(w, m) /\ up[w].next <= m
                                  /\ RenameWaits(w) => m = SizeOf[w]
    BY <1>4
  <2>1. PICK k : k = up[w].next  OBVIOUS
  <2>2. k \in 0..m /\ m \in Nat  BY <1>1, <1>2, <2>0, <2>1
  <2>3. /\ k + 1 <= m => WriteAt(Prefix(w, m), k, Byte(w, k + 1)) = Prefix(w, m)
        /\ k = m => WriteAt(Prefix(w, m), k, Byte(w, k + 1)) = Prefix(w, m + 1)
    BY <2>2, WriteInPlace
  <2>4. server'[w] = WriteAt(Prefix(w, m), k, Byte(w, k + 1))  BY <1>5, <2>0, <2>1
  <2>5. CASE k + 1 <= m  BY <2>0, <2>1, <2>3, <2>4, <2>5
  <2>6. CASE k = m
    <3>1. server'[w] = Prefix(w, m + 1) /\ m + 1 \in 0..SizeOf[w]
      BY <1>1, <1>2, <2>0, <2>1, <2>3, <2>4, <2>6
    <3>2. ~RenameWaits(w)  BY <1>2, <2>0, <2>1, <2>6
    <3> QED  BY <2>1, <2>6, <3>1, <3>2
  <2> QED  BY <2>2, <2>5, <2>6
<1>8. server'[w] \in Seq(Cells)  BY <1>6, TornIs
<1>9. held' \in [Writers -> Seq(Cells)] /\ \A v \in Writers : v # w => held'[v] = held[v]
  BY <1>1, <1>8 DEF UploadTyped
<1>10. ASSUME up' \in [Writers -> RunState], \A v \in Writers : v # w => up'[v] = up[v]
       PROVE  UploadTyped' /\ Elsewhere(w)
  <2>1. UploadTyped'  BY <1>1, <1>5, <1>9, <1>10 DEF UploadTyped
  <2>2. Elsewhere(w)  BY <1>5, <1>9, <1>10 DEF Elsewhere, Same
  <2> QED  BY <2>1, <2>2
<1>11. ASSUME up' \in [Writers -> RunState], \A v \in Writers : v # w => up'[v] = up[v],
              up'[w].stage = "failed", up'[w].next \in {up[w].next, up[w].next + 1},
              up'[w].progress = up[w].progress
       PROVE  UploadInv'
  <2>1. UploadTyped' /\ Elsewhere(w)  BY <1>10, <1>11
  <2>2. up'[w].stage \notin Writing /\ up'[w].next <= SizeOf[w]  BY <1>1, <1>2, <1>11 DEF Writing
  <2>3. \/ w \in cut /\ server'[w] \in Torn(w)
        \/ \E k \in 0..SizeOf[w] :
                /\ server'[w] = Prefix(w, k) /\ late' = late
                /\ RenameWaits(w) => k = SizeOf[w]
                /\ protocol # "ftp" => up[w].progress <= k
    BY <1>1, <1>2, <1>6, <1>7
  <2> QED  BY <1>11, <2>1, <2>2, <2>3, EndKeeps
<1>12. CASE Goes(w, "failed")
  <2>1. /\ up' \in [Writers -> RunState] /\ \A v \in Writers : v # w => up'[v] = up[v]
        /\ up'[w].stage = "failed" /\ up'[w].next = up[w].next /\ up'[w].progress = up[w].progress
    BY <1>1, <1>12, GoesDoes DEF Stages
  <2> QED  BY <1>11, <2>1
<1>13. CASE Recorded(w) /\ \/ protocol = "sftp"
                           \/ MayMatch(w) /\ held' = [held EXCEPT ![w] = server'[w]]
  <2>1. /\ up' \in [Writers -> RunState] /\ \A v \in Writers : v # w => up'[v] = up[v]
        /\ up'[w].next = up[w].next + 1
        /\ \/ up'[w].stage = up[w].stage /\ up'[w].progress = up[w].next + 1
           \/ up'[w].stage = "failed" /\ up'[w].progress = up[w].progress
    BY <1>1, <1>13, RecordedDoes
  <2>2. CASE up'[w].stage = "failed" /\ up'[w].progress = up[w].progress  BY <1>11, <2>1, <2>2
  <2>3. CASE up'[w].stage = up[w].stage /\ up'[w].progress = up[w].next + 1
    <3>1. UploadTyped' /\ Elsewhere(w)  BY <1>10, <2>1
    <3>2. StagedInv(w)'  BY DEF StagedInv
    <3>3. HeldInv(w)'
      <4>1. CASE protocol # "smb"  BY <4>1 DEF HeldInv
      <4>2. CASE protocol = "smb"
        <5>1. MayMatch(w) /\ held'[w] = server'[w]  BY <1>1, <1>13, <4>2 DEF UploadTyped
        <5>2. Len(held[w]) = up[w].next  BY <1>1, <1>2, <4>2 DEF WriterInv, HeldInv, Holds, Writing
        <5>3. Len(server'[w]) = up[w].next + 1  BY <1>6, <5>1, <5>2 DEF MayMatch
        <5>4. w \notin cut => held'[w] = Prefix(w, up[w].next + 1)
          <6> SUFFICES ASSUME w \notin cut PROVE held'[w] = Prefix(w, up[w].next + 1)  OBVIOUS
          <6>1. PICK n \in 0..SizeOf[w] : server'[w] = Prefix(w, n)  BY <1>7
          <6>2. Len(Prefix(w, n)) = n  BY <1>1, PrefixIs
          <6> QED  BY <5>1, <5>3, <6>1, <6>2
        <5> QED  BY <1>6, <2>1, <5>1, <5>3, <5>4 DEF HeldInv, Holds
      <4> QED  BY <4>1, <4>2
    <3>4. \/ w \in cut /\ server'[w] \in Torn(w)
          \/ \E k \in 0..SizeOf[w] :
                /\ server'[w] = Prefix(w, k)
                /\ RenameWaits(w) \/ up'[w].stage = "checked" => k = SizeOf[w]
                /\ protocol # "ftp" => up'[w].progress <= k
      BY <1>2, <1>6, <1>7, <2>3
    <3>5. /\ up'[w].stage = "writing" /\ up'[w].next <= SizeOf[w] /\ up'[w].progress = up'[w].next
          /\ up[w].progress <= up'[w].progress
      BY <1>1, <1>2, <2>1, <2>3
    <3> QED  BY <3>1, <3>2, <3>3, <3>4, <3>5, OpenKeeps DEF Writing
  <2> QED  BY <2>1, <2>2, <2>3
<1> QED  BY <1>12, <1>13

\* A write goes on without a change of the `.part`: it is resumed, or checked.
LEMMA GoOnKeeps ==
  ASSUME UploadInv, NEW w \in Writers, protocol # "ftp", Unserved, UNCHANGED <<protocol, staging, cut>>,
         held' \in [Writers -> Seq(Cells)], \A v \in Writers : v # w => held'[v] = held[v],
         \/ Begun(w) /\ (protocol = "smb" => Holds(w, held'[w], up[w].progress))
         \/ AllWritten(w) /\ Goes(w, "checked") /\ held' = held
  PROVE  UploadInv'
<1>1. UploadTyped /\ WriterInv(w) /\ SizeOf[w] \in Nat  BY WriterSizes DEF UploadInv
<1>2. server' = server /\ late' = late /\ placed' = placed /\ confirmed' = confirmed  BY DEF Unserved
<1>3. up[w].progress \in Nat /\ up[w].next \in Nat /\ up[w].progress <= SizeOf[w]
  BY <1>1 DEF UploadTyped, RunState, WriterInv, RunInv
<1>4. /\ up' \in [Writers -> RunState] /\ \A v \in Writers : v # w => up'[v] = up[v]
      /\ up'[w].next = up[w].progress /\ up'[w].progress = up[w].progress
      /\ \/ up'[w].stage = "writing" /\ (protocol = "smb" => Holds(w, held'[w], up[w].progress))
         \/ /\ up'[w].stage = "checked" /\ up[w].progress = SizeOf[w] /\ up[w].stage = "writing"
            /\ up[w].next = up[w].progress /\ held' = held
  <2>1. CASE Begun(w) /\ (protocol = "smb" => Holds(w, held'[w], up[w].progress))
    BY <1>1, <2>1, BegunDoes
  <2>2. CASE AllWritten(w) /\ Goes(w, "checked") /\ held' = held
    <3>1. /\ up' \in [Writers -> RunState] /\ \A v \in Writers : v # w => up'[v] = up[v]
          /\ up'[w].stage = "checked" /\ up'[w].next = up[w].next /\ up'[w].progress = up[w].progress
      BY <1>1, <2>2, GoesDoes DEF Stages
    <3>2. up[w].stage = "writing" /\ up[w].next = SizeOf[w] /\ up[w].progress = SizeOf[w]
      BY <1>1, <2>2 DEF AllWritten, At, WriterInv, RunInv, Writing
    <3> QED  BY <2>2, <3>1, <3>2
  <2> QED  BY <2>1, <2>2
<1>5. UploadTyped'  BY <1>1, <1>2, <1>4 DEF UploadTyped
<1>6. Elsewhere(w)  BY <1>2, <1>4 DEF Elsewhere, Same
<1>7. StagedInv(w)'  BY DEF StagedInv
<1>8. HeldInv(w)'  BY <1>1, <1>4 DEF WriterInv, HeldInv, Holds, Writing
<1>9. w \in DOMAIN server' =>
           \/ w \in cut /\ server'[w] \in Torn(w)
           \/ \E n \in 0..SizeOf[w] :
                /\ server'[w] = Prefix(w, n)
                /\ RenameWaits(w) \/ up'[w].stage = "checked" => n = SizeOf[w]
                /\ protocol # "ftp" => up'[w].progress <= n
  <2>0. w \in cut /\ w \in DOMAIN server => server[w] \in Torn(w)  BY <1>1 DEF WriterInv, PartInv
  <2> SUFFICES ASSUME w \in DOMAIN server, w \notin cut
               PROVE  \E n \in 0..SizeOf[w] :
                        /\ server[w] = Prefix(w, n)
                        /\ RenameWaits(w) \/ up'[w].stage = "checked" => n = SizeOf[w]
                        /\ protocol # "ftp" => up'[w].progress <= n
    BY <1>2, <2>0
  <2>1. PICK n \in 0..SizeOf[w] : n = Len(server[w]) /\ server[w] = Prefix(w, n)
                                  /\ up[w].progress <= n /\ (RenameWaits(w) => n = SizeOf[w])
    <3>1. server[w] \in Torn(w)  BY <1>1 DEF WriterInv, PartInv
    <3> QED  BY <1>1, <3>1, TornIs DEF WriterInv, PartInv
  <2>2. up'[w].stage = "checked" => n = SizeOf[w]  BY <1>1, <1>4, <2>1
  <2> QED  BY <1>4, <2>1, <2>2
<1>10. up'[w].stage \in Writing /\ up'[w].next <= SizeOf[w] /\ up'[w].progress = up'[w].next
       /\ up[w].progress <= up'[w].progress /\ (up'[w].stage # "writing" => up'[w].next = SizeOf[w])
  BY <1>3, <1>4 DEF Writing
<1> QED  BY <1>2, <1>5, <1>6, <1>7, <1>8, <1>9, <1>10, OpenKeeps

LEMMA PartSize ==
  ASSUME UploadInv, NEW w \in Writers, w \in DOMAIN server
  PROVE  Len(server[w]) \in 0..SizeOf[w]
BY TornIs DEF UploadInv, WriterInv, PartInv

LEMMA StagedIs ==
  ASSUME UploadInv, NEW w \in Writers, protocol = "ftp", up[w].stage \in Writing
  PROVE  /\ staging[w].bytes \in Seq(Cells) /\ staging[w].from \in 0..up[w].next
         /\ Len(staging[w].bytes) = up[w].next /\ up[w].next = up[w].progress
         /\ up[w].next \in Nat /\ up[w].next <= SizeOf[w] /\ SizeOf[w] \in Nat
         /\ \A i \in 1..up[w].next : i > staging[w].from => staging[w].bytes[i] = Byte(w, i)
<1>1. UploadTyped /\ WriterInv(w) /\ SizeOf[w] \in Nat  BY WriterSizes DEF UploadInv
<1>2. staging[w].bytes \in Seq(Cells) /\ staging[w].from \in Nat /\ up[w].next \in Nat
  BY <1>1 DEF UploadTyped, RunState
<1> QED  BY <1>1, <1>2 DEF WriterInv, StagedInv, RunInv

LEMMA FtpBeginKeeps ==
  ASSUME UploadInv, protocol = "ftp", UNCHANGED <<protocol, held, cut>>, NEW w \in Writers, FtpBegin(w)
  PROVE  UploadInv'
<1>1. UploadTyped /\ WriterInv(w) /\ SizeOf[w] \in Nat /\ w \notin cut
  BY WriterSizes DEF UploadInv, UploadTyped
<1>2. Unserved  BY DEF FtpBegin
<1>3. CASE Goes(w, "idle") /\ staging' = staging  BY <1>1, <1>2, <1>3, QuitKeeps DEF UploadTyped
<1>4. CASE /\ staging' = [staging EXCEPT ![w] = [bytes |-> [i \in 1..up[w].progress |-> Hole],
                                                 from |-> up[w].progress]]
           /\ Begun(w)
  <2>1. /\ up' \in [Writers -> RunState] /\ \A v \in Writers : v # w => up'[v] = up[v]
        /\ up'[w].stage = "writing" /\ up'[w].next = up[w].progress
        /\ up'[w].progress = up[w].progress
    BY <1>1, <1>4, BegunDoes
  <2>2. PICK n \in Nat : n = up[w].progress /\ n <= SizeOf[w]
    BY <1>1 DEF UploadTyped, RunState, WriterInv, RunInv
  <2>3. PICK z : z = [i \in 1..n |-> Hole]  OBVIOUS
  <2>4. z \in Seq(Cells) /\ Len(z) = n
    <3>1. Hole \in Cells  BY DEF Hole, Cells
    <3> QED  BY <2>3, <3>1, IsASeq
  <2>5. /\ staging' = [staging EXCEPT ![w] = [bytes |-> z, from |-> n]]  BY <1>4, <2>2, <2>3
  <2>6. /\ staging' \in [Writers -> [bytes : Seq(Cells), from : Nat]]
        /\ staging'[w].bytes = z /\ staging'[w].from = n
        /\ \A v \in Writers : v # w => staging'[v] = staging[v]
    BY <1>1, <2>4, <2>5 DEF UploadTyped
  <2>7. server' = server /\ late' = late /\ placed' = placed /\ confirmed' = confirmed
    BY <1>2 DEF Unserved
  <2>8. UploadTyped'  BY <1>1, <2>1, <2>6, <2>7 DEF UploadTyped
  <2>9. Elsewhere(w)  BY <2>1, <2>6, <2>7 DEF Elsewhere, Same
  <2>10. StagedInv(w)'  BY <2>1, <2>2, <2>4, <2>6 DEF StagedInv
  <2>11. HeldInv(w)'  BY DEF HeldInv
  <2>12. w \in DOMAIN server' =>
           \E k \in 0..SizeOf[w] :
             /\ server'[w] = Prefix(w, k)
             /\ RenameWaits(w) \/ up'[w].stage = "checked" => k = SizeOf[w]
             /\ protocol # "ftp" => up'[w].progress <= k
    BY PartSize, <1>1, <2>1, <2>7 DEF WriterInv, PartInv
  <2>13. RenameWaits(w) => staging'[w].from = SizeOf[w]  BY <1>1, <2>2, <2>6 DEF WriterInv, LateInv
  <2> QED  BY <2>1, <2>2, <2>7, <2>8, <2>9, <2>10, <2>11, <2>12, <2>13, OpenKeeps DEF Writing
<1> QED  BY <1>3, <1>4 DEF FtpBegin

LEMMA FtpWriteKeeps ==
  ASSUME UploadInv, protocol = "ftp", UNCHANGED <<protocol, held, cut>>, NEW w \in Writers, FtpWrite(w)
  PROVE  UploadInv'
<1>1. UploadTyped /\ WriterInv(w) /\ SizeOf[w] \in Nat /\ w \notin cut
  BY WriterSizes DEF UploadInv, UploadTyped
<1>2. Unserved /\ up[w].stage = "writing" /\ up[w].next < SizeOf[w]  BY DEF FtpWrite, MoreToWrite, At
<1>3. CASE Goes(w, "failed") /\ staging' = staging  BY <1>1, <1>2, <1>3, QuitKeeps DEF UploadTyped
<1>4. CASE /\ staging' = [staging EXCEPT ![w].bytes = WriteAt(@, up[w].next, Byte(w, up[w].next + 1))]
           /\ Recorded(w)
  <2>1. /\ up' \in [Writers -> RunState] /\ \A v \in Writers : v # w => up'[v] = up[v]
        /\ up'[w].next = up[w].next + 1
        /\ \/ up'[w].stage = up[w].stage /\ up'[w].progress = up[w].next + 1
           \/ up'[w].stage = "failed" /\ up'[w].progress = up[w].progress
    BY <1>1, <1>4, RecordedDoes
  <2>2. PICK s, n, from : s = staging[w].bytes /\ n = up[w].next /\ from = staging[w].from  OBVIOUS
  <2>3. /\ s \in Seq(Cells) /\ from \in 0..n /\ Len(s) = n /\ n \in Nat /\ n = up[w].progress
        /\ \A i \in 1..n : i > from => s[i] = Byte(w, i)
    BY <1>2, <2>2, StagedIs DEF Writing
  <2>4. PICK t : t = WriteAt(s, n, Byte(w, n + 1))  OBVIOUS
  <2>5. t \in Seq(Cells) /\ Len(t) = n + 1 /\ (\A i \in 1..n : t[i] = s[i]) /\ t[n + 1] = Byte(w, n + 1)
    <3>1. Byte(w, n + 1) \in Cells  BY <2>3 DEF Byte, Cells
    <3>2. PICK b \in Cells : b = Byte(w, n + 1)  BY <3>1
    <3>3. t = WriteAt(s, Len(s), b)  BY <2>3, <2>4, <3>2
    <3>4. s \in Seq(Cells)  BY <2>3
    <3>5. t \in Seq(Cells) /\ Len(t) = Len(s) + 1 /\ (\A i \in 1..Len(s) : t[i] = s[i]) /\ t[Len(s) + 1] = b
      BY <3>3, <3>4, WriteNext, Zenon
    <3> QED  BY <2>3, <3>2, <3>5
  <2>6. staging' = [staging EXCEPT ![w] = [bytes |-> t, from |-> from]]
    <3>1. staging' = [staging EXCEPT ![w].bytes = t]  BY <1>1, <1>4, <2>2, <2>4 DEF UploadTyped
    <3>2. staging[w] \in [bytes : Seq(Cells), from : Nat]  BY <1>1 DEF UploadTyped
    <3>3. [staging[w] EXCEPT !.bytes = t] = [bytes |-> t, from |-> from]  BY <2>2, <3>2
    <3> QED  BY <1>1, <3>1, <3>3 DEF UploadTyped
  <2>7. /\ staging' \in [Writers -> [bytes : Seq(Cells), from : Nat]]
        /\ staging'[w].bytes = t /\ staging'[w].from = from
        /\ \A v \in Writers : v # w => staging'[v] = staging[v]
    BY <1>1, <2>3, <2>5, <2>6 DEF UploadTyped
  <2>8. server' = server /\ late' = late /\ placed' = placed /\ confirmed' = confirmed
    BY <1>2 DEF Unserved
  <2>9. UploadTyped'  BY <1>1, <2>1, <2>7, <2>8 DEF UploadTyped
  <2>10. Elsewhere(w)  BY <2>1, <2>7, <2>8 DEF Elsewhere, Same
  <2>11. CASE up'[w].stage = "failed" /\ up'[w].progress = up[w].progress
    <3>1. up'[w].stage \notin Writing /\ up'[w].next <= SizeOf[w]
      BY <1>1, <1>2, <2>1, <2>2, <2>3, <2>11 DEF Writing
    <3> QED  BY <2>8, <2>9, <2>10, <2>11, <3>1, EndKeeps
  <2>12. CASE up'[w].stage = "writing" /\ up'[w].progress = up[w].next + 1
    <3>1. \A i \in 1..(n + 1) : i > from => t[i] = Byte(w, i)
      <4> TAKE i \in 1..(n + 1)
      <4>1. CASE i = n + 1  BY <2>5, <4>1
      <4>2. CASE i # n + 1
        <5>1. i \in 1..n  BY <2>3, <4>2
        <5> QED  BY <2>3, <2>5, <5>1
      <4> QED  BY <4>1, <4>2
    <3>2. StagedInv(w)'  BY <2>1, <2>2, <2>3, <2>5, <2>7, <3>1 DEF StagedInv
    <3>3. HeldInv(w)'  BY DEF HeldInv
    <3>4. w \in DOMAIN server' =>
           \E k \in 0..SizeOf[w] :
             /\ server'[w] = Prefix(w, k)
             /\ RenameWaits(w) \/ up'[w].stage = "checked" => k = SizeOf[w]
             /\ protocol # "ftp" => up'[w].progress <= k
      BY PartSize, <1>1, <2>8, <2>12 DEF WriterInv, PartInv
    <3>5. RenameWaits(w) => staging'[w].from = SizeOf[w]
      BY <1>1, <1>2, <2>2, <2>7 DEF WriterInv, LateInv, Writing
    <3>6. up'[w].next <= SizeOf[w] /\ up'[w].progress = up'[w].next /\ up[w].progress <= up'[w].progress
      BY <1>1, <1>2, <2>1, <2>2, <2>3, <2>12
    <3> QED  BY <2>8, <2>9, <2>10, <2>12, <3>2, <3>3, <3>4, <3>5, <3>6, OpenKeeps DEF Writing
  <2> QED  BY <1>2, <2>1, <2>11, <2>12
<1> QED  BY <1>3, <1>4 DEF FtpWrite

\* What an upload makes of the `.part` is the whole source.
LEMMA SentIs ==
  ASSUME UploadInv, NEW w \in Writers, protocol = "ftp", AllWritten(w),
         staging[w].from > 0 => RemoteSize(w) = staging[w].from
  PROVE  Sent(w) = Prefix(w, SizeOf[w])
<1>1. up[w].stage \in Writing /\ up[w].next = SizeOf[w]  BY DEF AllWritten, At, Writing
<1>2. PICK s, n, from : s = staging[w].bytes /\ n = SizeOf[w] /\ from = staging[w].from  OBVIOUS
<1>3. /\ s \in Seq(Cells) /\ from \in 0..n /\ Len(s) = n /\ n \in Nat
      /\ \A i \in 1..n : i > from => s[i] = Byte(w, i)
  BY <1>1, <1>2, StagedIs
<1>4. CASE from = 0
  <2>1. \A i \in 1..n : s[i] = Byte(w, i)  BY <1>3, <1>4
  <2>2. s = Prefix(w, n)  BY <1>3, <2>1, PrefixOnly
  <2> QED  BY <1>2, <1>4, <2>2 DEF Sent
<1>5. CASE from # 0
  <2>1. RemoteSize(w) = from  BY <1>2, <1>3, <1>5
  <2>2. w \in DOMAIN server /\ Len(server[w]) = from  BY <1>5, <2>1 DEF RemoteSize, Exists
  <2>3. server[w] = Prefix(w, from)  BY <2>2 DEF UploadInv, UploadTyped, WriterInv, PartInv
  <2>4. Sent(w) = Prefix(w, from) \o SubSeq(s, from + 1, n)  BY <1>2, <1>3, <1>5, <2>3 DEF Sent
  <2>5. Prefix(w, from) \o SubSeq(s, from + 1, n) = Prefix(w, n)  BY <1>3, AppendRest
  <2> QED  BY <1>2, <2>4, <2>5
<1> QED  BY <1>4, <1>5

LEMMA FtpUploadKeeps ==
  ASSUME UploadInv, protocol = "ftp", UNCHANGED <<protocol, held, cut>>, NEW w \in Writers, FtpUpload(w)
  PROVE  UploadInv'
<1>1. UploadTyped /\ WriterInv(w) /\ SizeOf[w] \in Nat /\ w \notin cut
  BY WriterSizes DEF UploadInv, UploadTyped
<1>2. AllWritten(w) /\ UNCHANGED <<late, placed, confirmed, staging>>  BY DEF FtpUpload
<1>3. /\ up[w].stage = "writing" /\ up[w].next = SizeOf[w] /\ up[w].progress = SizeOf[w]
      /\ Len(staging[w].bytes) = SizeOf[w] /\ staging[w].from \in 0..SizeOf[w]
      /\ RenameWaits(w) => staging[w].from = SizeOf[w]
  <2>1. up[w].stage = "writing" /\ up[w].next = SizeOf[w]  BY <1>2 DEF AllWritten, At
  <2> QED  BY <1>1, <2>1, StagedIs DEF Writing, WriterInv, LateInv
<1>4. CASE server' = server /\ Goes(w, "failed")
  BY <1>1, <1>2, <1>4, QuitKeeps DEF UploadTyped, Unserved
<1>5. ASSUME NEW n \in 0..SizeOf[w], server' = Put(w, Prefix(w, n)), RenameWaits(w) => n = SizeOf[w],
             \/ Goes(w, "stored") /\ n = SizeOf[w]
             \/ Goes(w, "failed")
      PROVE  UploadInv'
  <2>1. /\ DOMAIN server' = DOMAIN server \cup {w} /\ server'[w] = Prefix(w, n)
        /\ \A v \in Writers : v # w /\ v \in DOMAIN server' => v \in DOMAIN server /\ server'[v] = server[v]
    <3> HIDE DEF Prefix
    <3> QED  BY <1>5 DEF Put
  <2>2. PICK stage \in {"stored", "failed"} : Goes(w, stage) /\ (stage = "stored" => n = SizeOf[w])
    BY <1>5
  <2>3. /\ up' \in [Writers -> RunState] /\ \A v \in Writers : v # w => up'[v] = up[v]
        /\ up'[w].stage = stage /\ up'[w].next = up[w].next /\ up'[w].progress = up[w].progress
    BY <1>1, <2>2, GoesDoes DEF Stages
  <2>4. UploadTyped'  BY <1>1, <1>2, <2>1, <2>3 DEF UploadTyped
  <2>5. Elsewhere(w)  BY <1>2, <2>1, <2>3 DEF Elsewhere, Same
  <2>6. CASE stage = "failed"
    <3>1. up'[w].stage \notin Writing /\ up'[w].next <= SizeOf[w]  BY <1>1, <1>3, <2>3, <2>6 DEF Writing
    <3> QED  BY <1>2, <1>5, <2>1, <2>3, <2>4, <2>5, <3>1, EndKeeps
  <2>7. CASE stage = "stored"
    <3>1. StagedInv(w)'  BY <1>1, <1>2, <1>3, <2>3 DEF WriterInv, StagedInv, Writing
    <3>2. HeldInv(w)'  BY DEF HeldInv
    <3>3. \E k \in 0..SizeOf[w] :
             /\ server'[w] = Prefix(w, k)
             /\ RenameWaits(w) \/ up'[w].stage = "checked" => k = SizeOf[w]
             /\ protocol # "ftp" => up'[w].progress <= k
      BY <1>5, <2>1, <2>3, <2>7
    <3>4. /\ up'[w].stage \in Writing /\ up'[w].next <= SizeOf[w] /\ up'[w].progress = up'[w].next
          /\ up[w].progress <= up'[w].progress /\ up'[w].next = SizeOf[w]
      BY <1>1, <1>3, <2>3, <2>7 DEF Writing
    <3> QED  BY <1>2, <1>3, <2>4, <2>5, <3>1, <3>2, <3>3, <3>4, OpenKeeps
  <2> QED  BY <2>6, <2>7
<1>6. CASE staging[w].from > 0 => RemoteSize(w) = staging[w].from
  <2>1. Sent(w) = Prefix(w, SizeOf[w])  BY <1>2, <1>6, SentIs
  <2>2. CASE server' = Put(w, Sent(w)) /\ Goes(w, "stored")
    <3>1. server' = Put(w, Prefix(w, SizeOf[w])) /\ SizeOf[w] \in 0..SizeOf[w]  BY <1>1, <2>1, <2>2
    <3> QED  BY <1>5, <2>2, <3>1
  <2>3. CASE /\ \E n \in staging[w].from..Len(staging[w].bytes) : server' = Put(w, SubSeq(Sent(w), 1, n))
             /\ Goes(w, "failed")
    <3>1. PICK n \in staging[w].from..Len(staging[w].bytes) : server' = Put(w, SubSeq(Sent(w), 1, n))
      BY <2>3
    <3>2. n \in 0..SizeOf[w] /\ (RenameWaits(w) => n = SizeOf[w])  BY <1>1, <1>3, <3>1
    <3>3. SubSeq(Sent(w), 1, n) = Prefix(w, n)  BY <1>1, <2>1, <3>2, PrefixOfPrefix
    <3>4. server' = Put(w, Prefix(w, n))  BY <3>1, <3>3
    <3> QED  BY <1>5, <2>3, <3>2, <3>4
  <2> QED  BY <1>4, <1>6, <2>2, <2>3 DEF FtpUpload
<1>7. CASE ~(staging[w].from > 0 => RemoteSize(w) = staging[w].from)
  BY <1>4, <1>7 DEF FtpUpload
<1> QED  BY <1>6, <1>7

LEMMA FtpVerifyKeeps ==
  ASSUME UploadInv, protocol = "ftp", UNCHANGED <<protocol, held, cut>>, NEW w \in Writers, FtpVerify(w)
  PROVE  UploadInv'
<1>1. UploadTyped /\ WriterInv(w) /\ SizeOf[w] \in Nat /\ w \notin cut
  BY WriterSizes DEF UploadInv, UploadTyped
<1>2. Unserved /\ staging' = staging /\ up[w].stage = "stored"  BY DEF FtpVerify, At
<1>3. CASE Goes(w, "failed")  BY <1>1, <1>2, <1>3, QuitKeeps DEF UploadTyped
<1>4. CASE w \in DOMAIN server /\ Len(server[w]) = Len(staging[w].bytes) /\ Goes(w, "checked")
  <2>1. /\ up[w].next = SizeOf[w] /\ up[w].progress = SizeOf[w] /\ Len(staging[w].bytes) = SizeOf[w]
        /\ RenameWaits(w) => staging[w].from = SizeOf[w]
    BY <1>1, <1>2 DEF WriterInv, RunInv, StagedInv, LateInv, Writing
  <2>2. /\ up' \in [Writers -> RunState] /\ \A v \in Writers : v # w => up'[v] = up[v]
        /\ up'[w].stage = "checked" /\ up'[w].next = up[w].next /\ up'[w].progress = up[w].progress
    BY <1>1, <1>4, GoesDoes DEF Stages
  <2>3. server' = server /\ late' = late /\ placed' = placed /\ confirmed' = confirmed
    BY <1>2 DEF Unserved
  <2>4. UploadTyped'  BY <1>1, <1>2, <2>2, <2>3 DEF UploadTyped
  <2>5. Elsewhere(w)  BY <1>2, <2>2, <2>3 DEF Elsewhere, Same
  <2>6. StagedInv(w)'  BY <1>1, <1>2, <2>2 DEF WriterInv, StagedInv, Writing
  <2>7. HeldInv(w)'  BY DEF HeldInv
  <2>8. \E k \in 0..SizeOf[w] :
             /\ server'[w] = Prefix(w, k)
             /\ RenameWaits(w) \/ up'[w].stage = "checked" => k = SizeOf[w]
             /\ protocol # "ftp" => up'[w].progress <= k
    BY PartSize, <1>1, <1>4, <2>1, <2>3 DEF WriterInv, PartInv
  <2>9. /\ up'[w].stage \in Writing /\ up'[w].next <= SizeOf[w] /\ up'[w].progress = up'[w].next
        /\ up[w].progress <= up'[w].progress /\ up'[w].next = SizeOf[w]
    BY <1>1, <2>1, <2>2 DEF Writing
  <2> QED  BY <1>2, <2>1, <2>3, <2>4, <2>5, <2>6, <2>7, <2>8, <2>9, OpenKeeps
<1> QED  BY <1>3, <1>4 DEF FtpVerify, Exists

\* A late request changes the `.part` of its task only, and within what the
\* invariant allows it.
LEMMA LandKeeps ==
  ASSUME UploadInv, Land, UNCHANGED <<protocol, staging, held>>
  PROVE  UploadInv'
<1>1. PICK r \in late :
         /\ Apply(r) /\ late' = late \ {r} /\ UNCHANGED <<confirmed, up>>
         /\ cut' = IF r.kind = "truncate" /\ up[r.by].progress > 0 THEN cut \cup {r.by} ELSE cut
  BY DEF Land
<1>2. UploadTyped /\ r \in Requests  BY DEF UploadInv, UploadTyped
<1>3. PICK w \in Writers : w = r.by  BY <1>2 DEF Requests
<1>4. /\ DOMAIN server' \subseteq Writers \cup {"final"} /\ placed' \subseteq Writers
      /\ \A v \in Writers : v # w /\ v \in DOMAIN server' => v \in DOMAIN server /\ server'[v] = server[v]
      /\ r.kind = "write" =>
           /\ w \in DOMAIN server' => w \in DOMAIN server
           /\ w \in DOMAIN server => server'[w] = WriteAt(server[w], r.at, Byte(w, r.at + 1))
      /\ r.kind \in {"rename", "remove"} => w \notin DOMAIN server'
      /\ r.kind = "truncate" => server'[w] = <<>>
  <2> HIDE DEF WriteAt
  <2> QED  BY <1>1, <1>2, <1>3, ApplyDoes
<1>5. UploadTyped'
  <2>1. r.kind = "truncate" => protocol # "ftp"
    BY <1>2, <1>3 DEF UploadInv, WriterInv, LateInv
  <2>2. cut' \subseteq Writers /\ (protocol = "ftp" => cut' = {})  BY <1>1, <1>2, <1>3, <2>1 DEF UploadTyped
  <2> QED  BY <1>1, <1>2, <1>4, <2>2 DEF UploadTyped
<1>6. Elsewhere(w)  BY <1>1, <1>3, <1>4 DEF Elsewhere, Same
<1>7. WriterInv(w) /\ SizeOf[w] \in Nat  BY WriterSizes DEF UploadInv
<1>8. /\ r.kind \in {"truncate", "write", "rename", "remove"} /\ r.at \in Nat
      /\ up[w].progress \in Nat
  BY <1>2 DEF Requests, UploadTyped, RunState
<1>9. RenameWaits(w)' => RenameWaits(w)  BY <1>1 DEF RenameWaits
<1>10. PartInv(w)'
  <2>1. CASE r.kind = "write" /\ w \in DOMAIN server
    <3>0. cut' = cut  BY <1>1, <2>1
    <3>1. PICK k \in Nat : k = r.at /\ k < SizeOf[w] /\ k <= up[w].progress
      BY <1>3, <1>7, <1>8, <2>1 DEF WriterInv, LateInv
    <3>2. server[w] \in Torn(w)  BY <1>7, <2>1 DEF WriterInv, PartInv
    <3>3. server'[w] = WriteAt(server[w], k, Byte(w, k + 1))  BY <1>4, <2>1, <3>1
    <3>4. server'[w] \in Torn(w)  BY <3>1, <3>2, <3>3, WriteTorn
    <3>5. ASSUME w \notin cut
          PROVE  /\ server'[w] = Prefix(w, Len(server'[w]))
                 /\ protocol # "ftp" => up[w].progress <= Len(server'[w])
                 /\ At(w, "checked") \/ RenameWaits(w) => Len(server'[w]) = SizeOf[w]
      <4>1. PICK m \in 0..SizeOf[w] :
               /\ server[w] = Prefix(w, m) /\ up[w].progress <= m
               /\ At(w, "checked") \/ RenameWaits(w) => m = SizeOf[w]
        <5>1. Len(server[w]) \in 0..SizeOf[w]  BY <3>2, TornIs
        <5>2. protocol # "ftp"  BY <1>3, <1>7, <2>1 DEF WriterInv, LateInv
        <5> QED  BY <1>7, <2>1, <3>5, <5>1, <5>2 DEF WriterInv, PartInv
      <4>2. k \in 0..m /\ m \in Nat  BY <1>7, <1>8, <3>1, <4>1
      <4>3. /\ k + 1 <= m => WriteAt(Prefix(w, m), k, Byte(w, k + 1)) = Prefix(w, m)
            /\ k = m => WriteAt(Prefix(w, m), k, Byte(w, k + 1)) = Prefix(w, m + 1)
        BY <4>2, WriteInPlace
      <4>4. server'[w] = WriteAt(Prefix(w, m), k, Byte(w, k + 1))  BY <3>3, <4>1
      <4>5. PICK n \in 0..SizeOf[w] : server'[w] = Prefix(w, n) /\ m <= n
        <5>1. CASE k + 1 <= m  BY <4>2, <4>3, <4>4, <5>1
        <5>2. CASE k = m
          <6>1. server'[w] = Prefix(w, m + 1) /\ m + 1 \in 0..SizeOf[w]
            BY <1>7, <3>1, <4>2, <4>3, <4>4, <5>2
          <6> QED  BY <4>2, <6>1
        <5> QED  BY <4>2, <5>1, <5>2
      <4>6. Len(Prefix(w, n)) = n  BY <1>7, PrefixIs
      <4> QED  BY <1>7, <1>8, <4>1, <4>5, <4>6
    <3> QED  BY <1>1, <1>9, <3>0, <3>4, <3>5 DEF PartInv, At
  <2>2. CASE w \notin DOMAIN server'  BY <2>2 DEF PartInv
  <2>3. CASE r.kind = "truncate"
    <3>1. Prefix(w, 0) \in Seq(Cells) /\ Len(Prefix(w, 0)) = 0 /\ Prefix(w, 0) \in Torn(w)
      <4>1. 0 \in 0..SizeOf[w]  BY <1>7
      <4> QED  BY <4>1, PrefixIs, PrefixIsTorn
    <3>2. Prefix(w, 0) = <<>>  BY <3>1, EmptySeq
    <3>3. server'[w] = Prefix(w, 0)  BY <1>4, <2>3, <3>2
    <3>4. w \notin cut' => up[w].progress = 0  BY <1>1, <1>3, <1>8, <2>3
    <3>5. At(w, "checked") \/ RenameWaits(w) => up[w].progress = SizeOf[w]
      BY <1>7 DEF At, WriterInv, RunInv, LateInv, Writing
    <3> QED  BY <1>1, <1>7, <1>9, <3>1, <3>3, <3>4, <3>5 DEF PartInv, At
  <2> QED  BY <1>4, <1>8, <2>1, <2>2, <2>3
<1>11. RunInv(w)' /\ StagedInv(w)' /\ HeldInv(w)'
  <2>1. w \in cut' => w \in cut \/ up[w].progress > 0  BY <1>1, <1>3
  <2>2. w \in cut => w \in cut'  BY <1>1
  <2>3. RunInv(w)'  BY <1>1, <1>7, <2>1 DEF WriterInv, RunInv
  <2>4. StagedInv(w)'  BY <1>1, <1>7 DEF WriterInv, StagedInv
  <2>5. HeldInv(w)'  BY <1>1, <1>7, <2>2 DEF WriterInv, HeldInv, Holds
  <2> QED  BY <2>3, <2>4, <2>5
<1>12. LateInv(w)'  BY <1>1, <1>7, <1>9 DEF WriterInv, LateInv
<1>13. WriterInv(w)'  BY <1>10, <1>11, <1>12 DEF WriterInv
<1> QED  BY <1>5, <1>6, <1>13, SameKeeps DEF UploadInv, Elsewhere

LEMMA ClientKeeps ==
  ASSUME UploadInv, ClientStep, UNCHANGED <<protocol, staging, held>>
  PROVE  UploadInv'
<1>0. UploadTyped  BY DEF UploadInv
<1>1. CASE Land  BY <1>1, LandKeeps
<1>2. CASE Intruder /\ cut' = cut
  <2>1. server' = Put("final", OutsidersFile) /\ UNCHANGED <<late, placed, confirmed, up>>
    BY <1>2 DEF Intruder
  <2>2. DOMAIN server' \subseteq Writers \cup {"final"}  BY <1>0, <2>1 DEF Put, UploadTyped
  <2>3. \A v \in Writers : v \in DOMAIN server' => v \in DOMAIN server /\ server'[v] = server[v]
    BY <2>1, WriterSizes DEF Put
  <2>4. UploadTyped'  BY <1>0, <1>2, <2>1, <2>2 DEF UploadTyped
  <2>5. \A v \in Writers : Same(v)  BY <1>2, <2>1, <2>3 DEF Same
  <2> QED  BY <2>4, <2>5, SameKeeps DEF UploadInv
<1>3. ASSUME NEW w \in Writers, OpenSession(w), cut' = cut  PROVE UploadInv'
  <2>1. PICK u : u = up[w]  OBVIOUS
  <2>2. u \in RunState /\ u.runs < MaxRuns /\ MaxRuns \in Nat
    BY <1>0, <1>3, <2>1, UploadAssumption DEF OpenSession, UploadTyped
  <2>3. PICK k \in 0..MaxRuns : k = u.runs + 1  BY <2>2 DEF RunState
  <2>4. up' = [up EXCEPT ![w] = [u EXCEPT !.stage = "connected", !.live = TRUE, !.runs = k]]
    BY <1>0, <1>3, <2>1, <2>3 DEF OpenSession, UploadTyped
  <2>5. PICK n : n = [u EXCEPT !.stage = "connected", !.live = TRUE, !.runs = k]  OBVIOUS
  <2>6. n \in RunState /\ n.stage = "connected" /\ n.next = u.next /\ n.progress = u.progress
    BY <2>2, <2>5, Flags DEF RunState, Stages
  <2>7. /\ up' \in [Writers -> RunState] /\ (\A v \in Writers : v # w => up'[v] = up[v]) /\ up'[w] = n
    BY <1>0, <2>4, <2>5, <2>6 DEF UploadTyped
  <2>8. server' = server /\ late' = late /\ placed' = placed /\ confirmed' = confirmed
    BY <1>3 DEF OpenSession, Unserved
  <2>9. UploadTyped'  BY <1>0, <1>3, <2>7, <2>8 DEF UploadTyped
  <2>10. Elsewhere(w)  BY <1>3, <2>7, <2>8 DEF Elsewhere, Same
  <2>11. /\ up'[w].stage \notin Writing /\ up'[w].next <= SizeOf[w]
         /\ up'[w].progress = up[w].progress
    BY <2>1, <2>6, <2>7 DEF Writing, UploadInv, WriterInv, RunInv
  <2> QED  BY <1>3, <2>8, <2>9, <2>10, <2>11, EndKeeps
<1>4. ASSUME NEW w \in Writers, GiveUp(w), cut' = cut  PROVE UploadInv'
  BY <1>0, <1>4, QuitKeeps DEF GiveUp, UploadTyped
<1> QED  BY <1>1, <1>2, <1>3, <1>4 DEF ClientStep

LEMMA SftpKeeps ==
  ASSUME UploadInv, SftpNext, UNCHANGED <<ftpVars, smbVars>>
  PROVE  UploadInv'
<1>0. UploadTyped /\ protocol = "sftp" /\ UNCHANGED <<protocol, staging, held>>
  BY DEF UploadInv, SftpNext, ftpVars, smbVars
<1>1. CASE ClientStep  BY <1>0, <1>1, ClientKeeps
<1> SUFFICES ASSUME cut' = cut PROVE UploadInv'  BY <1>1 DEF SftpNext
<1>2. ASSUME NEW w \in Writers, SftpBegin(w)  PROVE UploadInv'
  <2>1. PICK r \in Requests : r = Request("truncate", w, 0) /\ r.kind = "truncate" /\ r.by = w
    BY RequestIs
  <2>2. CASE Apply(Request("truncate", w, 0)) /\ UNCHANGED <<late, confirmed>> /\ up[w].progress = 0
             /\ Begun(w)
    BY <1>0, <2>2, FreshKeeps DEF UploadTyped
  <2>3. CASE Unserved /\ Begun(w)  BY <1>0, <2>3, GoOnKeeps DEF UploadTyped
  <2>4. CASE (Goes(w, "idle") \/ Drops(w, "idle")) /\ Unserved
    BY <1>0, <2>4, QuitKeeps DEF UploadTyped
  <2>5. CASE Interrupted(w, Request("truncate", w, 0), "idle")
    BY <1>0, <2>1, <2>5, InterruptKeeps DEF Interrupted
  <2> QED  BY <1>2, <2>2, <2>3, <2>4, <2>5 DEF SftpBegin
<1>3. ASSUME NEW w \in Writers, SftpWrite(w)  PROVE UploadInv'
  <2>0. MoreToWrite(w) /\ up[w].next \in Nat  BY <1>0, <1>3 DEF SftpWrite, UploadTyped, RunState
  <2>1. PICK r \in Requests :
           r = Request("write", w, up[w].next) /\ r.kind = "write" /\ r.by = w /\ r.at = up[w].next
    BY <2>0, RequestIs
  <2>2. CASE /\ Exists(w) /\ Apply(Request("write", w, up[w].next)) /\ UNCHANGED <<late, confirmed>>
             /\ Recorded(w) \/ Goes(w, "failed")
    BY <1>0, <2>0, <2>2, WriteKeeps
  <2>3. CASE Goes(w, "failed") /\ Unserved  BY <1>0, <2>3, QuitKeeps DEF UploadTyped
  <2>4. CASE Interrupted(w, Request("write", w, up[w].next), "failed")
    BY <1>0, <2>0, <2>1, <2>4, InterruptKeeps DEF Interrupted
  <2> QED  BY <1>3, <2>2, <2>3, <2>4 DEF SftpWrite
<1>4. ASSUME NEW w \in Writers, SftpCheck(w)  PROVE UploadInv'
  <2>1. Unserved /\ AllWritten(w)  BY <1>4 DEF SftpCheck
  <2>2. CASE Goes(w, "checked")  BY <1>0, <2>1, <2>2, GoOnKeeps DEF UploadTyped
  <2>3. CASE Goes(w, "failed") \/ Drops(w, "failed")  BY <1>0, <2>1, <2>3, QuitKeeps DEF UploadTyped
  <2> QED  BY <1>4, <2>2, <2>3 DEF SftpCheck
<1>5. ASSUME NEW w \in Writers, SftpRename(w)  PROVE UploadInv'
  <2>1. PICK r \in Requests : r = Request("rename", w, 0) /\ r.kind = "rename" /\ r.by = w
    BY RequestIs
  <2>2. CASE /\ Apply(Request("rename", w, 0)) /\ UNCHANGED late
             /\ \/ Confirm(w)
                \/ (Goes(w, "failed") \/ Drops(w, "failed")) /\ UNCHANGED confirmed
    <3>1. confirmed' \subseteq Writers  BY <1>0, <2>2 DEF Confirm, UploadTyped
    <3> QED  BY <1>0, <2>2, <3>1, TakeKeeps DEF Confirm
  <2>3. CASE Interrupted(w, Request("rename", w, 0), "failed")
    <3>1. At(w, "checked")  BY <1>5 DEF SftpRename
    <3> QED  BY <1>0, <2>1, <2>3, <3>1, InterruptKeeps DEF Interrupted
  <2> QED  BY <1>5, <2>2, <2>3 DEF SftpRename
<1>6. ASSUME NEW w \in Writers, SftpAbort(w)  PROVE UploadInv'
  <2>1. PICK r \in Requests : r = Request("remove", w, 0) /\ r.kind = "remove" /\ r.by = w
    BY RequestIs
  <2>2. CASE Apply(Request("remove", w, 0)) /\ Goes(w, "idle") /\ UNCHANGED <<late, confirmed>>
    BY <1>0, <2>2, TakeKeeps DEF UploadTyped
  <2>3. CASE Interrupted(w, Request("remove", w, 0), "idle")
    BY <1>0, <2>1, <2>3, InterruptKeeps DEF Interrupted
  <2>4. CASE Drops(w, "idle") /\ Unserved  BY <1>0, <2>4, QuitKeeps DEF UploadTyped
  <2> QED  BY <1>6, <2>2, <2>3, <2>4 DEF SftpAbort
<1> QED  BY <1>1, <1>2, <1>3, <1>4, <1>5, <1>6 DEF SftpNext

LEMMA FtpKeeps ==
  ASSUME UploadInv, FtpNext, UNCHANGED smbVars
  PROVE  UploadInv'
<1>0. UploadTyped /\ protocol = "ftp" /\ protocol' = protocol /\ held' = held
  BY DEF UploadInv, FtpNext, smbVars
<1>1. CASE ClientStep /\ UNCHANGED staging  BY <1>0, <1>1, ClientKeeps
<1> SUFFICES ASSUME cut' = cut PROVE UploadInv'  BY <1>1 DEF FtpNext
<1>2. ASSUME NEW w \in Writers, FtpRename(w)  PROVE UploadInv'
  <2>1. PICK r \in Requests : r = Request("rename", w, 0) /\ r.kind = "rename" /\ r.by = w
    BY RequestIs
  <2>2. staging' = staging /\ At(w, "checked")  BY <1>2 DEF FtpRename
  <2>3. CASE /\ Apply(Request("rename", w, 0)) /\ UNCHANGED late
             /\ Confirm(w) \/ (Goes(w, "failed") /\ UNCHANGED confirmed)
    <3>1. confirmed' \subseteq Writers  BY <1>0, <2>3 DEF Confirm, UploadTyped
    <3> QED  BY <1>0, <2>2, <2>3, <3>1, TakeKeeps DEF Confirm
  <2>4. CASE Unanswered(Request("rename", w, 0)) /\ Goes(w, "failed")
    BY <1>0, <2>1, <2>2, <2>4, InterruptKeeps
  <2> QED  BY <1>2, <2>3, <2>4 DEF FtpRename
<1>3. ASSUME NEW w \in Writers, FtpAbort(w)  PROVE UploadInv'
  <2>1. /\ staging' = [staging EXCEPT ![w] = [bytes |-> <<>>, from |-> 0]]
        /\ Drops(w, "idle") /\ Unserved
    BY <1>3 DEF FtpAbort
  <2>2. /\ staging' \in [Writers -> [bytes : Seq(Cells), from : Nat]]
        /\ \A v \in Writers : v # w => staging'[v] = staging[v]
    BY <1>0, <2>1 DEF UploadTyped
  <2> QED  BY <1>0, <2>1, <2>2, QuitKeeps
<1> QED
  BY <1>0, <1>1, <1>2, <1>3, FtpBeginKeeps, FtpWriteKeeps, FtpUploadKeeps, FtpVerifyKeeps DEF FtpNext

LEMMA SmbKeeps ==
  ASSUME UploadInv, SmbNext, UNCHANGED ftpVars
  PROVE  UploadInv'
<1>0. UploadTyped /\ protocol = "smb" /\ protocol' = protocol /\ staging' = staging
  BY DEF UploadInv, SmbNext, ftpVars
<1>1. CASE ClientStep /\ UNCHANGED held  BY <1>0, <1>1, ClientKeeps
<1> SUFFICES ASSUME cut' = cut PROVE UploadInv'  BY <1>1 DEF SmbNext
<1>2. ASSUME NEW w \in Writers, SmbBegin(w)  PROVE UploadInv'
  <2>1. PICK r \in Requests : r = Request("truncate", w, 0) /\ r.kind = "truncate" /\ r.by = w
    BY RequestIs
  <2>2. CASE /\ up[w].progress = 0 /\ Apply(Request("truncate", w, 0)) /\ UNCHANGED <<late, confirmed>>
             /\ \/ Begun(w) /\ held' = [held EXCEPT ![w] = <<>>]
                \/ Goes(w, "idle") /\ UNCHANGED held
    <3>1. ASSUME held' = [held EXCEPT ![w] = <<>>]
          PROVE  /\ held' \in [Writers -> Seq(Cells)] /\ held'[w] = <<>>
                 /\ \A v \in Writers : v # w => held'[v] = held[v]
      BY <1>0, <3>1 DEF UploadTyped
    <3> QED  BY <1>0, <2>2, <3>1, FreshKeeps
  <2>3. CASE /\ up[w].progress > 0 /\ Exists(w) /\ Len(server[w]) = up[w].progress
             /\ Begun(w) /\ held' = [held EXCEPT ![w] = server[w]] /\ Unserved
    <3>1. Holds(w, server[w], up[w].progress)
      BY <1>0, <2>3 DEF Exists, UploadInv, WriterInv, PartInv, Holds
    <3>2. server[w] \in Seq(Cells)  BY <3>1, TornIs DEF Holds
    <3>3. /\ held' \in [Writers -> Seq(Cells)] /\ Holds(w, held'[w], up[w].progress)
          /\ \A v \in Writers : v # w => held'[v] = held[v]
      BY <1>0, <2>3, <3>1, <3>2 DEF UploadTyped
    <3> QED  BY <1>0, <2>3, <3>3, GoOnKeeps
  <2>4. CASE Goes(w, "idle") /\ Unserved /\ UNCHANGED held  BY <1>0, <2>4, QuitKeeps DEF UploadTyped
  <2>5. CASE Unanswered(Request("truncate", w, 0)) /\ Goes(w, "idle") /\ UNCHANGED held
    BY <1>0, <2>1, <2>5, InterruptKeeps
  <2> QED  BY <1>2, <2>2, <2>3, <2>4, <2>5 DEF SmbBegin
<1>3. ASSUME NEW w \in Writers, SmbWrite(w)  PROVE UploadInv'
  <2>0. MoreToWrite(w) /\ up[w].next \in Nat  BY <1>0, <1>3 DEF SmbWrite, UploadTyped, RunState
  <2>1. PICK r \in Requests :
           r = Request("write", w, up[w].next) /\ r.kind = "write" /\ r.by = w /\ r.at = up[w].next
    BY <2>0, RequestIs
  <2>2. CASE /\ Exists(w) /\ Apply(Request("write", w, up[w].next)) /\ UNCHANGED <<late, confirmed>>
             /\ \/ MayMatch(w) /\ Recorded(w) /\ held' = [held EXCEPT ![w] = server'[w]]
                \/ Goes(w, "failed") /\ UNCHANGED held
    BY <1>0, <2>0, <2>2, WriteKeeps
  <2>3. CASE Goes(w, "failed") /\ Unserved /\ UNCHANGED held  BY <1>0, <2>3, QuitKeeps DEF UploadTyped
  <2>4. CASE Unanswered(Request("write", w, up[w].next)) /\ Goes(w, "failed") /\ UNCHANGED held
    BY <1>0, <2>0, <2>1, <2>4, InterruptKeeps
  <2> QED  BY <1>3, <2>2, <2>3, <2>4 DEF SmbWrite
<1>4. ASSUME NEW w \in Writers, SmbCheck(w)  PROVE UploadInv'
  <2>1. Unserved /\ AllWritten(w) /\ UNCHANGED held  BY <1>4 DEF SmbCheck
  <2>2. CASE Goes(w, "checked")  BY <1>0, <2>1, <2>2, GoOnKeeps DEF UploadTyped
  <2>3. CASE Goes(w, "failed")  BY <1>0, <2>1, <2>3, QuitKeeps DEF UploadTyped
  <2> QED  BY <1>4, <2>2, <2>3 DEF SmbCheck
<1>5. ASSUME NEW w \in Writers, SmbRename(w)  PROVE UploadInv'
  <2>1. PICK r \in Requests : r = Request("rename", w, 0) /\ r.kind = "rename" /\ r.by = w
    BY RequestIs
  <2>2. held' = held /\ At(w, "checked")  BY <1>5 DEF SmbRename
  <2>3. CASE /\ Apply(Request("rename", w, 0)) /\ UNCHANGED late
             /\ Confirm(w) \/ (Goes(w, "failed") /\ UNCHANGED confirmed)
    <3>1. confirmed' \subseteq Writers  BY <1>0, <2>3 DEF Confirm, UploadTyped
    <3> QED  BY <1>0, <2>2, <2>3, <3>1, TakeKeeps DEF Confirm
  <2>4. CASE Unanswered(Request("rename", w, 0)) /\ Goes(w, "failed")
    BY <1>0, <2>1, <2>2, <2>4, InterruptKeeps
  <2> QED  BY <1>5, <2>3, <2>4 DEF SmbRename
<1>6. ASSUME NEW w \in Writers, SmbAbort(w)  PROVE UploadInv'
  <2>1. PICK r \in Requests : r = Request("remove", w, 0) /\ r.kind = "remove" /\ r.by = w
    BY RequestIs
  <2>2. held' = held /\ Drops(w, "idle")  BY <1>6 DEF SmbAbort
  <2>3. CASE Apply(Request("remove", w, 0)) /\ UNCHANGED <<late, confirmed>>
    BY <1>0, <2>2, <2>3, TakeKeeps DEF UploadTyped
  <2>4. CASE Unanswered(Request("remove", w, 0))  BY <1>0, <2>1, <2>2, <2>4, InterruptKeeps
  <2> QED  BY <1>6, <2>3, <2>4 DEF SmbAbort
<1> QED  BY <1>1, <1>2, <1>3, <1>4, <1>5, <1>6 DEF SmbNext

LEMMA UploadInitHolds == AdapterInit => UploadInv
<1> SUFFICES ASSUME AdapterInit PROVE UploadInv  OBVIOUS
<1>1. /\ protocol \in {"sftp", "ftp", "smb"} /\ late = {} /\ placed = {} /\ cut = {} /\ confirmed = {}
      /\ server \in {[p \in {} |-> <<>>], [p \in {"final"} |-> OldFile]}
  BY DEF AdapterInit, UploadInit
<1>2. DOMAIN server \subseteq {"final"}  BY <1>1
<1> PICK no \in Flag : no = FALSE  BY Flags, Zenon
<1>3. PICK z : z = [stage |-> "idle", next |-> 0, progress |-> 0, live |-> no, runs |-> 0]  OBVIOUS
<1>4. up = [w \in Writers |-> z]  BY <1>3, Zenon DEF AdapterInit, UploadInit
<1>5. z \in RunState /\ z.stage = "idle" /\ z.next = 0 /\ z.progress = 0
  BY <1>3, UploadAssumption DEF RunState, Stages
<1>6. staging \in [Writers -> [bytes : Seq(Cells), from : Nat]]  BY DEF AdapterInit, FtpInit
<1>7. held \in [Writers -> Seq(Cells)]  BY DEF AdapterInit, SmbInit
<1>8. UploadTyped  BY <1>1, <1>2, <1>4, <1>5, <1>6, <1>7 DEF UploadTyped
<1>9. ASSUME NEW w \in Writers  PROVE WriterInv(w)
  <2>1. w \notin DOMAIN server /\ SizeOf[w] \in Nat  BY <1>2, WriterSizes
  <2>2. up[w].stage = "idle" /\ up[w].next = 0 /\ up[w].progress = 0  BY <1>4, <1>5
  <2>3. RunInv(w)  BY <1>1, <2>1, <2>2 DEF RunInv, Writing
  <2>4. PartInv(w) /\ LateInv(w)  BY <1>1, <2>1 DEF PartInv, LateInv, RenameWaits
  <2>5. StagedInv(w) /\ HeldInv(w)  BY <2>2 DEF StagedInv, HeldInv, Writing
  <2> QED  BY <2>3, <2>4, <2>5 DEF WriterInv
<1> QED  BY <1>8, <1>9 DEF UploadInv

LEMMA UploadInvKept ==
  UploadInv /\ [AdapterNext]_adapterVars => UploadInv'
<1> SUFFICES ASSUME UploadInv, [AdapterNext]_adapterVars PROVE UploadInv'  OBVIOUS
<1>1. CASE AdapterNext  BY <1>1, SftpKeeps, FtpKeeps, SmbKeeps DEF AdapterNext
<1>2. CASE UNCHANGED adapterVars
  <2>1. UNCHANGED <<protocol, server, late, placed, cut, confirmed, up, staging, held>>
    BY <1>2 DEF adapterVars, uploadVars, ftpVars, smbVars
  <2>2. UploadTyped'  BY <2>1 DEF UploadInv, UploadTyped
  <2>3. \A v \in Writers : Same(v)  BY <2>1 DEF Same
  <2> QED  BY <2>2, <2>3, SameKeeps DEF UploadInv
<1> QED  BY <1>1, <1>2

LEMMA UploadInvShows == UploadInv => AcknowledgedIsKept
<1> SUFFICES ASSUME UploadInv PROVE AcknowledgedIsKept  OBVIOUS
<1>0. UploadTyped  BY DEF UploadInv
<1>1. UploadTypeOK
  <2>1. ASSUME NEW w \in Writers
        PROVE  /\ up[w].stage \in Stages /\ up[w].runs \in 0..MaxRuns
               /\ up[w].next \in 0..SizeOf[w] /\ up[w].progress \in 0..SizeOf[w] /\ up[w].live \in Flag
    <3>1. up[w] \in RunState /\ RunInv(w) /\ SizeOf[w] \in Nat
      BY <1>0, WriterSizes DEF UploadTyped, UploadInv, WriterInv
    <3> QED  BY <3>1 DEF RunState, RunInv
  <2>2. \A w \in Writers : up[w].live \in BOOLEAN  BY <2>1, Zenon DEF Flag
  <2> QED  BY <1>0, <2>1, <2>2 DEF UploadTypeOK, UploadTyped
<1>2. PartIsPrefix
  <2> SUFFICES ASSUME NEW w \in DOMAIN server \cap Writers
               PROVE  IF w \in cut THEN server[w] \in Torn(w)
                      ELSE Len(server[w]) <= SizeOf[w] /\ server[w] = SubSeq(Body(w), 1, Len(server[w]))
    BY <1>0 DEF PartIsPrefix, UploadTyped
  <2>1. SizeOf[w] \in Nat /\ WriterInv(w)  BY WriterSizes DEF UploadInv
  <2>2. server[w] \in Torn(w)  BY <2>1 DEF WriterInv, PartInv
  <2>3. CASE w \notin cut
    <3>1. PICK n \in 0..SizeOf[w] : n = Len(server[w]) /\ server[w] = Prefix(w, n)
      BY <2>1, <2>3, PartSize DEF WriterInv, PartInv
    <3>2. SubSeq(Body(w), 1, n) = Prefix(w, n)  BY <2>1, BodyIs, PrefixOfPrefix
    <3> QED  BY <2>1, <2>3, <3>1, <3>2
  <2> QED  BY <2>2, <2>3
<1>3. AckIsStored
  <2> SUFFICES ASSUME protocol = "sftp", NEW w \in Writers \ cut, up[w].stage \in {"writing", "checked"},
                      w \in DOMAIN server
               PROVE  Len(server[w]) >= up[w].next
    BY DEF AckIsStored, Exists
  <2>1. up[w].progress \in Nat /\ SizeOf[w] \in Nat  BY <1>0, WriterSizes DEF UploadTyped, RunState
  <2>2. Len(server[w]) \in 0..SizeOf[w]  BY PartSize
  <2> QED  BY <2>1, <2>2 DEF UploadInv, WriterInv, RunInv, PartInv, Writing
<1>4. StagingCoversAck
  <2> SUFFICES ASSUME protocol = "ftp", NEW w \in Writers, up[w].stage = "writing"
               PROVE  /\ Len(staging[w].bytes) = up[w].next
                      /\ \A i \in 1..up[w].next : staging[w].bytes[i] = Byte(w, i) \/ i <= staging[w].from
    BY DEF StagingCoversAck, At
  <2> QED  BY StagedIs DEF Writing
<1>5. HeldIsAcked
  <2> SUFFICES ASSUME protocol = "smb", NEW w \in Writers, up[w].stage \in {"writing", "checked"}
               PROVE  IF w \in cut THEN held[w] \in Torn(w) /\ Len(held[w]) = up[w].next
                      ELSE held[w] = SubSeq(Body(w), 1, up[w].next)
    BY DEF HeldIsAcked
  <2>1. WriterInv(w) /\ SizeOf[w] \in Nat /\ up[w].next \in Nat /\ up[w].next <= SizeOf[w]
    BY <1>0, WriterSizes DEF UploadInv, UploadTyped, RunState, WriterInv, RunInv
  <2>2. Holds(w, held[w], up[w].next)  BY <2>1 DEF WriterInv, HeldInv, Writing
  <2>3. PICK n \in 0..SizeOf[w] : n = up[w].next  BY <2>1
  <2>4. SubSeq(Body(w), 1, n) = Prefix(w, n)  BY <2>1, BodyIs, PrefixOfPrefix
  <2> QED  BY <2>2, <2>3, <2>4 DEF Holds
<1> QED  BY <1>1, <1>2, <1>3, <1>4, <1>5 DEF AcknowledgedIsKept

\* For every set of tasks, source sizes, numbers of runs, and truncates, writes,
\* renames and removes applied arbitrarily late: what write_chunk of the SFTP, FTP
\* and SMB sessions acknowledged is on the server, in the staging file or in the
\* handle's identity, and a `.part` is a prefix of its source, but for the tasks of
\* which a late truncate took recorded bytes back: their `.part` holds bytes of
\* their source at their places and holes, and FTP knows no such task.
THEOREM AcknowledgedStays == AdapterSpec => []AcknowledgedIsKept
<1>1. AdapterInit => UploadInv  BY UploadInitHolds
<1>2. UploadInv /\ [AdapterNext]_adapterVars => UploadInv'  BY UploadInvKept
<1>3. UploadInv => AcknowledgedIsKept  BY UploadInvShows
<1> QED  BY <1>1, <1>2, <1>3, PTL DEF AdapterSpec

-----------------------------------------------------------------------------
(* The destination of an upload (RemoteReplace). *)

\* The destination as RemoteReplace sees it.
Destination == IF "final" \in DOMAIN server THEN {server["final"]} ELSE {}

\* What a rename of w publishes.
Published(w) == IF w \in cut THEN Torn(w) ELSE {Body(w)}

\* One request either leaves the destination alone or publishes a whole source, or
\* what is left of one that was cut.
LEMMA ApplyPublishes ==
  ASSUME UploadInv, NEW r \in Requests, Apply(r),
         r.kind = "rename" /\ Exists(r.by) /\ r.by \notin cut => Len(server[r.by]) = SizeOf[r.by]
  PROVE  \/ Destination' = Destination /\ placed' = placed /\ ~(r.kind = "rename" /\ Exists(r.by))
         \/ /\ r.kind = "rename" /\ placed' = placed \cup {r.by}
            /\ \E c \in Published(r.by) : Destination' = {c}
<1>1. PICK w \in Writers : w = r.by  BY DEF Requests
<1>2. w # "final"  BY WriterSizes
<1>3. CASE r.kind = "rename" /\ Exists(r.by)
  <2>1. server' = [p \in (DOMAIN server \cup {"final"}) \ {w} |->
                             IF p = "final" THEN server[w] ELSE server[p]]
    BY <1>1, <1>3 DEF Apply
  <2>2. placed' = placed \cup {w}  BY <1>1, <1>3 DEF Apply
  <2>3. server[w] \in Published(w)
    <3>1. server[w] \in Torn(w) /\ (w \notin cut => server[w] = Prefix(w, SizeOf[w]))
      BY <1>1, <1>3 DEF Exists, UploadInv, WriterInv, PartInv
    <3>2. CASE w \in cut  BY <3>1, <3>2 DEF Published
    <3>3. CASE w \notin cut
      <4>1. server[w] = Body(w)  BY <3>1, <3>3, BodyIs
      <4> QED  BY <3>3, <4>1 DEF Published
    <3> QED  BY <3>2, <3>3
  <2>4. "final" \in DOMAIN server' /\ server'["final"] = server[w]  BY <1>2, <2>1
  <2> QED  BY <1>1, <1>3, <2>2, <2>3, <2>4 DEF Destination
<1>4. CASE ~(r.kind = "rename" /\ Exists(r.by))
  <2>1. placed' = placed  BY <1>4 DEF Apply
  <2>2. PICK c : \/ server' = [p \in DOMAIN server \cup {w} |-> IF p = w THEN c ELSE server[p]]
                 \/ server' = [p \in DOMAIN server \ {w} |-> server[p]]
                 \/ server' = server
    <3> HIDE DEF WriteAt
    <3>1. CASE r.kind = "truncate"
      <4>1. server' = [p \in DOMAIN server \cup {w} |-> IF p = w THEN <<>> ELSE server[p]]
        BY <1>1, <3>1 DEF Apply, Put
      <4> QED  BY <4>1
    <3>2. CASE r.kind = "write"
      <4>1. PICK c : c = WriteAt(server[w], r.at, Byte(w, r.at + 1))  OBVIOUS
      <4>2. Exists(w) => server' = [p \in DOMAIN server \cup {w} |-> IF p = w THEN c ELSE server[p]]
        BY <1>1, <3>2, <4>1 DEF Apply, Put
      <4>3. ~Exists(w) => server' = server  BY <1>1, <3>2 DEF Apply
      <4> QED  BY <4>2, <4>3
    <3>3. CASE r.kind = "rename"  BY <1>4, <3>3 DEF Apply
    <3>4. CASE r.kind = "remove"  BY <1>1, <3>4 DEF Apply, Without
    <3> QED  BY <3>1, <3>2, <3>3, <3>4 DEF Requests
  <2>3. /\ "final" \in DOMAIN server' <=> "final" \in DOMAIN server
        /\ "final" \in DOMAIN server => server'["final"] = server["final"]
    BY <1>2, <2>2
  <2> QED  BY <1>4, <2>1, <2>3 DEF Destination
<1> QED  BY <1>3, <1>4

\* What a step does to the destination, and to those who heard of it.
Replaces ==
  \/ /\ Destination' = Destination /\ placed' = placed /\ confirmed' = confirmed
     /\ cut' = cut \/ \E w \in Writers : cut' = cut \cup {w}
  \/ \E w \in Writers : /\ \E c \in Published(w) : Destination' = {c}
                        /\ placed' = placed \cup {w}
                        /\ confirmed' \in {confirmed, confirmed \cup {w}}
                        /\ cut' = cut
  \/ Destination' = {OutsidersFile} /\ UNCHANGED <<placed, confirmed, cut>>

LEMMA StillMoves ==
  ASSUME server' = server, placed' = placed, confirmed' = confirmed, cut' = cut
  PROVE  Replaces
BY DEF Replaces, Destination

\* A request of an open write that is answered.
LEMMA AnsweredMoves ==
  ASSUME UploadInv, NEW w \in Writers, NEW kind \in {"truncate", "write", "rename", "remove"},
         NEW at \in Nat, Apply(Request(kind, w, at)), kind = "rename" => At(w, "checked"), cut' = cut,
         \/ confirmed' = confirmed
         \/ kind = "rename" /\ Exists(w) /\ confirmed' = confirmed \cup {w}
  PROVE  Replaces
<1>1. PICK r \in Requests : r = Request(kind, w, at) /\ r.kind = kind /\ r.by = w  BY RequestIs
<1>2. r.kind = "rename" /\ Exists(r.by) /\ r.by \notin cut => Len(server[r.by]) = SizeOf[r.by]
  BY <1>1 DEF UploadInv, WriterInv, PartInv, Exists
<1>3. \/ Destination' = Destination /\ placed' = placed /\ ~(r.kind = "rename" /\ Exists(r.by))
      \/ placed' = placed \cup {r.by} /\ \E c \in Published(r.by) : Destination' = {c}
  BY <1>1, <1>2, ApplyPublishes
<1> QED  BY <1>1, <1>3 DEF Replaces

LEMMA ClientMoves == UploadInv /\ ClientStep => Replaces
<1> SUFFICES ASSUME UploadInv, ClientStep PROVE Replaces  OBVIOUS
<1>1. CASE Land
  <2>1. PICK r \in late :
           /\ Apply(r) /\ confirmed' = confirmed
           /\ cut' = IF r.kind = "truncate" /\ up[r.by].progress > 0 THEN cut \cup {r.by} ELSE cut
    BY <1>1 DEF Land
  <2>2. r \in Requests /\ r.by \in Writers  BY DEF UploadInv, UploadTyped, Requests
  <2>3. r.kind = "rename" /\ Exists(r.by) /\ r.by \notin cut => Len(server[r.by]) = SizeOf[r.by]
    BY <2>1, <2>2 DEF UploadInv, WriterInv, PartInv, Exists, RenameWaits
  <2>4. \/ Destination' = Destination /\ placed' = placed /\ ~(r.kind = "rename" /\ Exists(r.by))
        \/ /\ r.kind = "rename" /\ placed' = placed \cup {r.by}
           /\ \E c \in Published(r.by) : Destination' = {c}
    BY <2>1, <2>2, <2>3, ApplyPublishes
  <2>5. CASE r.kind = "rename"  BY <2>1, <2>2, <2>4, <2>5 DEF Replaces
  <2>6. CASE r.kind # "rename"
    <3>1. PICK w \in Writers : w = r.by  BY <2>2
    <3>2. cut' = cut \/ cut' = cut \cup {w}  BY <2>1, <3>1
    <3>3. Destination' = Destination /\ placed' = placed  BY <2>4, <2>6
    <3> QED  BY <2>1, <3>2, <3>3 DEF Replaces
  <2> QED  BY <2>5, <2>6
<1>2. CASE Intruder /\ cut' = cut
  <2>1. server' = Put("final", OutsidersFile) /\ placed' = placed /\ confirmed' = confirmed
    BY <1>2 DEF Intruder
  <2>2. "final" \in DOMAIN server' /\ server'["final"] = OutsidersFile
    <3> HIDE DEF OutsidersFile
    <3> QED  BY <2>1 DEF Put
  <2> QED  BY <1>2, <2>1, <2>2 DEF Replaces, Destination
<1>3. CASE cut' = cut /\ \E w \in Writers : OpenSession(w) \/ GiveUp(w)
  BY <1>3, StillMoves DEF OpenSession, GiveUp, Unserved
<1> QED  BY <1>1, <1>2, <1>3 DEF ClientStep

LEMMA SftpMoves == UploadInv /\ SftpNext => Replaces
<1> SUFFICES ASSUME UploadInv, SftpNext PROVE Replaces  OBVIOUS
<1>1. CASE ClientStep  BY <1>1, ClientMoves
<1> SUFFICES ASSUME cut' = cut PROVE Replaces  BY <1>1 DEF SftpNext
<1>2. ASSUME NEW w \in Writers, SftpBegin(w) \/ SftpCheck(w) \/ SftpAbort(w)  PROVE Replaces
  <2>1. \/ Apply(Request("truncate", w, 0)) /\ confirmed' = confirmed
        \/ Apply(Request("remove", w, 0)) /\ confirmed' = confirmed
        \/ server' = server /\ placed' = placed /\ confirmed' = confirmed
    BY <1>2 DEF SftpBegin, SftpCheck, SftpAbort, Unserved, Interrupted, Unanswered
  <2> QED  BY <2>1, AnsweredMoves, StillMoves
<1>3. ASSUME NEW w \in Writers, SftpWrite(w)  PROVE Replaces
  <2>1. up[w].next \in Nat  BY DEF UploadInv, UploadTyped, RunState
  <2>2. \/ Apply(Request("write", w, up[w].next)) /\ confirmed' = confirmed
        \/ server' = server /\ placed' = placed /\ confirmed' = confirmed
    BY <1>3 DEF SftpWrite, Unserved, Interrupted, Unanswered
  <2> QED  BY <2>1, <2>2, AnsweredMoves, StillMoves
<1>4. ASSUME NEW w \in Writers, SftpRename(w)  PROVE Replaces
  <2>1. /\ At(w, "checked")
        /\ \/ /\ Apply(Request("rename", w, 0))
              /\ confirmed' = confirmed \/ (Exists(w) /\ confirmed' = confirmed \cup {w})
           \/ server' = server /\ placed' = placed /\ confirmed' = confirmed
    BY <1>4 DEF SftpRename, Confirm, Interrupted, Unanswered
  <2> QED  BY <2>1, AnsweredMoves, StillMoves
<1> QED  BY <1>1, <1>2, <1>3, <1>4 DEF SftpNext

LEMMA FtpMoves == UploadInv /\ FtpNext => Replaces
<1> SUFFICES ASSUME UploadInv, FtpNext PROVE Replaces  OBVIOUS
<1>1. CASE ClientStep  BY <1>1, ClientMoves
<1> SUFFICES ASSUME cut' = cut PROVE Replaces  BY <1>1 DEF FtpNext
<1>2. ASSUME NEW w \in Writers, FtpBegin(w) \/ FtpWrite(w) \/ FtpVerify(w) \/ FtpAbort(w)  PROVE Replaces
  BY <1>2, StillMoves DEF FtpBegin, FtpWrite, FtpVerify, FtpAbort, Unserved
<1>3. ASSUME NEW w \in Writers, FtpUpload(w)  PROVE Replaces
  <2>1. placed' = placed /\ confirmed' = confirmed /\ w # "final"  BY <1>3, WriterSizes DEF FtpUpload
  <2>2. PICK c : server' = server \/ server' = Put(w, c)
    <3>1. PICK s : s = Sent(w)  OBVIOUS
    <3>2. \/ server' = server
          \/ server' = Put(w, s)
          \/ \E n \in staging[w].from..Len(staging[w].bytes) : server' = Put(w, SubSeq(s, 1, n))
      BY <1>3, <3>1 DEF FtpUpload
    <3> QED  BY <3>2
  <2>3. /\ "final" \in DOMAIN server' <=> "final" \in DOMAIN server
        /\ "final" \in DOMAIN server => server'["final"] = server["final"]
    BY <2>1, <2>2 DEF Put
  <2> QED  BY <2>1, <2>3 DEF Replaces, Destination
<1>4. ASSUME NEW w \in Writers, FtpRename(w)  PROVE Replaces
  <2>1. /\ At(w, "checked")
        /\ \/ /\ Apply(Request("rename", w, 0))
              /\ confirmed' = confirmed \/ (Exists(w) /\ confirmed' = confirmed \cup {w})
           \/ server' = server /\ placed' = placed /\ confirmed' = confirmed
    BY <1>4 DEF FtpRename, Confirm, Unanswered
  <2> QED  BY <2>1, AnsweredMoves, StillMoves
<1> QED  BY <1>1, <1>2, <1>3, <1>4 DEF FtpNext

LEMMA SmbMoves == UploadInv /\ SmbNext => Replaces
<1> SUFFICES ASSUME UploadInv, SmbNext PROVE Replaces  OBVIOUS
<1>1. CASE ClientStep  BY <1>1, ClientMoves
<1> SUFFICES ASSUME cut' = cut PROVE Replaces  BY <1>1 DEF SmbNext
<1>2. ASSUME NEW w \in Writers, SmbBegin(w) \/ SmbCheck(w) \/ SmbAbort(w)  PROVE Replaces
  <2>1. \/ Apply(Request("truncate", w, 0)) /\ confirmed' = confirmed
        \/ Apply(Request("remove", w, 0)) /\ confirmed' = confirmed
        \/ server' = server /\ placed' = placed /\ confirmed' = confirmed
    BY <1>2 DEF SmbBegin, SmbCheck, SmbAbort, Unserved, Unanswered
  <2> QED  BY <2>1, AnsweredMoves, StillMoves
<1>3. ASSUME NEW w \in Writers, SmbWrite(w)  PROVE Replaces
  <2>1. up[w].next \in Nat  BY DEF UploadInv, UploadTyped, RunState
  <2>2. \/ Apply(Request("write", w, up[w].next)) /\ confirmed' = confirmed
        \/ server' = server /\ placed' = placed /\ confirmed' = confirmed
    BY <1>3 DEF SmbWrite, Unserved, Unanswered
  <2> QED  BY <2>1, <2>2, AnsweredMoves, StillMoves
<1>4. ASSUME NEW w \in Writers, SmbRename(w)  PROVE Replaces
  <2>1. /\ At(w, "checked")
        /\ \/ /\ Apply(Request("rename", w, 0))
              /\ confirmed' = confirmed \/ (Exists(w) /\ confirmed' = confirmed \cup {w})
           \/ server' = server /\ placed' = placed /\ confirmed' = confirmed
    BY <1>4 DEF SmbRename, Confirm, Unanswered
  <2> QED  BY <2>1, AnsweredMoves, StillMoves
<1> QED  BY <1>1, <1>2, <1>3, <1>4 DEF SmbNext

LEMMA StepReplaces == UploadInv /\ [AdapterNext]_adapterVars => [Replace!ReplaceNext]_(Replace!replaceVars)
<1> SUFFICES ASSUME UploadInv, [AdapterNext]_adapterVars
             PROVE  [Replace!ReplaceNext]_(Replace!replaceVars)
  OBVIOUS
<1>1. Replaces
  <2>1. CASE AdapterNext  BY <2>1, SftpMoves, FtpMoves, SmbMoves DEF AdapterNext
  <2>2. CASE UNCHANGED adapterVars  BY <2>2, StillMoves DEF adapterVars, uploadVars
  <2> QED  BY <2>1, <2>2
<1>2. CASE /\ Destination' = Destination /\ placed' = placed /\ confirmed' = confirmed
           /\ cut' = cut \/ \E w \in Writers : cut' = cut \cup {w}
  <2>1. CASE cut' = cut  BY <1>2, <2>1 DEF Replace!replaceVars, Destination, Exists
  <2>2. CASE \E w \in Writers : cut' = cut \cup {w}
    <3>1. PICK w \in Writers : cut' = cut \cup {w}  BY <2>2
    <3>2. Replace!Damage(w)  BY <1>2, <3>1 DEF Replace!Damage, Destination, Exists
    <3> QED  BY <3>2 DEF Replace!ReplaceNext
  <2> QED  BY <1>2, <2>1, <2>2
<1>3. ASSUME NEW w \in Writers, NEW c \in Published(w), Destination' = {c}, placed' = placed \cup {w},
             confirmed' \in {confirmed, confirmed \cup {w}}, cut' = cut
      PROVE  Replace!ReplaceNext
  <2>1. c \in Replace!Content(w)  BY <1>3 DEF Published, Replace!Content
  <2>2. CASE confirmed' = confirmed
    <3>1. Replace!Publish(w)  BY <1>3, <2>1, <2>2 DEF Replace!Publish, Destination, Exists
    <3> QED  BY <3>1 DEF Replace!ReplaceNext
  <2>3. CASE confirmed' = confirmed \cup {w}
    <3>1. Replace!PublishAndTell(w)  BY <1>3, <2>1, <2>3 DEF Replace!PublishAndTell, Destination, Exists
    <3> QED  BY <3>1 DEF Replace!ReplaceNext
  <2> QED  BY <1>3, <2>2, <2>3
<1>4. CASE Destination' = {OutsidersFile} /\ UNCHANGED <<placed, confirmed, cut>>
  <2>1. Replace!Intrude  BY <1>4 DEF Replace!Intrude, Destination, Exists
  <2> QED  BY <2>1 DEF Replace!ReplaceNext
<1> QED  BY <1>1, <1>2, <1>3, <1>4 DEF Replaces

\* For every set of tasks, source sizes and runs, whatever is interrupted, resumed or
\* applied late, the SFTP, FTP and SMB sessions implement RemoteReplace: under its
\* final name a file is replaced whole, but by an upload of which a late truncate
\* took recorded bytes back, and commit_write reports success only with or after its
\* own rename.
THEOREM AdaptersImplementReplace == AdapterSpec => ImplementsReplace
<1>1. AdapterInit => Replace!ReplaceInit
  <2> SUFFICES ASSUME AdapterInit PROVE Replace!ReplaceInit  OBVIOUS
  <2>1. server \in {[p \in {} |-> <<>>], [p \in {"final"} |-> OldFile]} /\ placed = {}
       /\ cut = {} /\ confirmed = {}
    BY DEF AdapterInit, UploadInit
  <2>2. Destination \in {{}, {OldFile}}
    <3> HIDE DEF OldFile
    <3> QED  BY <2>1 DEF Destination
  <2> QED  BY <2>1, <2>2 DEF Replace!ReplaceInit, Destination, Exists
<1>2. AdapterInit => UploadInv  BY UploadInitHolds
<1>3. UploadInv /\ [AdapterNext]_adapterVars => UploadInv'  BY UploadInvKept
<1>4. UploadInv /\ [AdapterNext]_adapterVars => [Replace!ReplaceNext]_(Replace!replaceVars)
  BY StepReplaces
<1> QED  BY <1>1, <1>2, <1>3, <1>4, PTL DEF AdapterSpec, ImplementsReplace, Replace!ReplaceSpec
-----------------------------------------------------------------------------
(* Samples of processes (TelemetrySampling). *)

Entries(S, V) == UNION {[T -> V] : T \in SUBSET S}

Lives == [start : Nat, own : Flag, jiffies : Nat]
ReadValues == [start : Nat, cpu : Nat, cgroupOf : Nat, fd : Flag, fdOf : Nat]

Walking ==
  [at : {"next", "status", "cgroup", "fd", "stat2", "status2"}, total : Nat, todo : SUBSET Pids,
   listed : SUBSET Pids, pid : Nat, process : ReadValues \cup {Nobody},
   seen : Entries(Pids, ReadValues), issues : Flag, steady : SUBSET Pids]

\* Nobody's start is later than the last start.
HostInv ==
  /\ alive \in Entries(Pids, Lives)
  /\ host \in [ticks : 0..MaxTicks, starts : Nat, changes : Nat]
  /\ \A p \in DOMAIN alive : alive[p].start <= host.starts

\* x was the start of the process under the id at hand, now or at some time before.
Before(x) == x <= host.starts /\ (scan.pid \in DOMAIN alive => x <= alive[scan.pid].start)

\* What was read is of one process.
Whole(r) == r.cgroupOf = r.start /\ (r.fd => r.fdOf = r.start)

\* The process being read: what was read later is of the same process or a later
\* one, until the final stat has shown that there was none.
EntryInv ==
  scan.at \notin {"none", "next"} =>
    /\ scan.pid \in Pids /\ scan.process \in ReadValues
    /\ Before(scan.process.start) /\ Before(scan.process.cgroupOf) /\ Before(scan.process.fdOf)
    /\ scan.at \in {"fd", "stat2"} => scan.process.start <= scan.process.cgroupOf
    /\ scan.at = "stat2" /\ scan.process.fd => scan.process.start <= scan.process.fdOf
    /\ scan.at = "status2" => Whole(scan.process)

\* A steady process is still to be read, at hand, read or missed with an issue.
Met(p) ==
  \/ p \in scan.todo \/ p \in DOMAIN scan.seen \/ scan.issues = TRUE
  \/ p = scan.pid /\ scan.at # "next"

WalkInv ==
  /\ scan = NoScan \/ scan \in Walking
  /\ EntryInv
  /\ scan.at # "none" =>
       /\ \A p \in DOMAIN scan.seen : Whole(scan.seen[p])
       /\ \A p \in scan.steady : p \in DOMAIN alive /\ alive[p].own = TRUE /\ Met(p)

\* The baseline's counts are kept under the start they were read with.
KeptCountsInv == base.is => \A k \in DOMAIN base.cpu : base.cpu[k].start = k[2]

SumIsWhole == shown.sum = "Known" => \A p \in DOMAIN shown.of : shown.of[p].cpu.state = "Known"
ShownInv == SumIsWhole /\ WholeProcess /\ CpuIsOwn /\ CompleteMissesNobody

SampleInv == HostInv /\ WalkInv /\ KeptCountsInv /\ ShownInv

\* What is in a partial function is of its two sets.
LEMMA EntryIs ==
  ASSUME NEW S, NEW V, NEW f \in Entries(S, V)
  PROVE  DOMAIN f \subseteq S /\ \A p \in DOMAIN f : f[p] \in V
BY DEF Entries

\* What the table of living processes holds.
LEMMA LivesAre ==
  ASSUME NEW f \in Entries(Pids, Lives)
  PROVE  DOMAIN f \subseteq Pids /\ \A q \in DOMAIN f : f[q] \in Lives /\ f[q].start \in Nat
<1>1. DOMAIN f \subseteq Pids /\ \A q \in DOMAIN f : f[q] \in Lives  BY EntryIs
<1>2. \A r \in Lives : r.start \in Nat  BY DEF Lives
<1> QED  BY <1>1, <1>2

\* What a new entry of that table changes.
LEMMA LivesPut ==
  ASSUME NEW f \in Entries(Pids, Lives), NEW p \in Pids, NEW r \in Lives
  PROVE  /\ WithEntry(f, p, r) \in Entries(Pids, Lives) /\ DOMAIN WithEntry(f, p, r) = DOMAIN f \cup {p}
         /\ WithEntry(f, p, r)[p] = r
         /\ \A q \in DOMAIN f : q # p => WithEntry(f, p, r)[q] = f[q]
<1>1. WithEntry(f, p, r) \in [DOMAIN f \cup {p} -> Lives]  BY SMTT(40) DEF Entries, WithEntry
<1>2. DOMAIN f \cup {p} \in SUBSET Pids  BY DEF Entries
<1>3. WithEntry(f, p, r) \in Entries(Pids, Lives)  BY <1>1, <1>2 DEF Entries
<1>4. DOMAIN WithEntry(f, p, r) = DOMAIN f \cup {p}  BY DEF WithEntry
<1>5. WithEntry(f, p, r)[p] = r /\ \A q \in DOMAIN f : q # p => WithEntry(f, p, r)[q] = f[q]  BY DEF WithEntry
<1> QED  BY <1>3, <1>4, <1>5

\* What a new entry of the processes read changes.
LEMMA ReadsPut ==
  ASSUME NEW f \in Entries(Pids, ReadValues), NEW p \in Pids, NEW r \in ReadValues
  PROVE  /\ WithEntry(f, p, r) \in Entries(Pids, ReadValues) /\ DOMAIN WithEntry(f, p, r) = DOMAIN f \cup {p}
         /\ WithEntry(f, p, r)[p] = r
         /\ \A q \in DOMAIN f : q # p => WithEntry(f, p, r)[q] = f[q]
<1>1. WithEntry(f, p, r) \in [DOMAIN f \cup {p} -> ReadValues]  BY SMTT(40) DEF Entries, WithEntry
<1>2. DOMAIN f \cup {p} \in SUBSET Pids  BY DEF Entries
<1>3. WithEntry(f, p, r) \in Entries(Pids, ReadValues)  BY <1>1, <1>2 DEF Entries
<1>4. DOMAIN WithEntry(f, p, r) = DOMAIN f \cup {p}  BY DEF WithEntry
<1>5. WithEntry(f, p, r)[p] = r /\ \A q \in DOMAIN f : q # p => WithEntry(f, p, r)[q] = f[q]  BY DEF WithEntry
<1> QED  BY <1>3, <1>4, <1>5

\* A walk in progress has the type of a walk.
LEMMA ScanIs ==
  ASSUME WalkInv, scan.at # "none"
  PROVE  scan \in Walking /\ DOMAIN scan.seen \subseteq Pids
<1>1. scan \in Walking  BY DEF WalkInv, NoScan
<1>2. scan.seen \in Entries(Pids, ReadValues)  BY <1>1 DEF Walking
<1> QED  BY <1>1, <1>2, EntryIs

\* Before the first sample nothing is shown that could be wrong.
LEMMA SamplingStarts == SamplingInit => SampleInv
<1> SUFFICES ASSUME SamplingInit
             PROVE  SampleInv
  OBVIOUS
<1>1. /\ alive \in [Pids -> Lives] /\ DOMAIN alive = Pids
      /\ \A p \in Pids : alive[p].start = 0
  BY Flags DEF SamplingInit, Lives
<1>2. HostInv
  <2>1. alive \in Entries(Pids, Lives)  BY <1>1 DEF Entries
  <2>2. host \in [ticks : 0..MaxTicks, starts : Nat, changes : Nat]  BY SamplingAssumption DEF SamplingInit
  <2>3. host.starts = 0  BY DEF SamplingInit
  <2> QED  BY <1>1, <2>1, <2>2, <2>3 DEF HostInv
<1>3. WalkInv  BY DEF SamplingInit, WalkInv, EntryInv, NoScan
<1>4. KeptCountsInv  BY DEF SamplingInit, KeptCountsInv, NoBase
<1>5. ShownInv
  BY DEF SamplingInit, ShownInv, SumIsWhole, WholeProcess, CpuIsOwn, CompleteMissesNobody, NothingShown, Nobody
<1> QED  BY <1>2, <1>3, <1>4, <1>5 DEF SampleInv

\* What is shown is judged by itself.
LEMMA ShownKept ==
  ASSUME ShownInv, shown' = shown
  PROVE  ShownInv'
BY DEF ShownInv, SumIsWhole, WholeProcess, CpuIsOwn, CompleteMissesNobody

\* What the host does: starts are later than all before, and whoever is disturbed
\* is steady no more.
LEMMA HostKeeps ==
  ASSUME SampleInv, HostInv', UNCHANGED <<base, shown>>, NEW p, scan' \in {scan, Unsettles(p)},
         host'.starts >= host.starts,
         \A q \in DOMAIN alive' : \/ q \in DOMAIN alive /\ alive'[q].start = alive[q].start
                                  \/ alive'[q].start >= host.starts,
         scan.at # "none" =>
           \A q \in DOMAIN alive \cap scan'.steady : q \in DOMAIN alive' /\ alive'[q].own = alive[q].own
  PROVE  SampleInv'
<1>1. KeptCountsInv' /\ ShownInv'
  BY ShownKept DEF SampleInv, KeptCountsInv
<1>2. CASE scan.at = "none"
  <2>1. scan' = scan  BY <1>2 DEF Unsettles
  <2>2. WalkInv'  BY <1>2, <2>1 DEF SampleInv, WalkInv, EntryInv
  <2> QED  BY <1>1, <2>2 DEF SampleInv
<1>3. CASE scan.at # "none"
  <2>1. scan \in Walking  BY <1>3, ScanIs DEF SampleInv
  <2>2. /\ scan' \in Walking /\ scan'.at = scan.at /\ scan'.pid = scan.pid /\ scan'.process = scan.process
        /\ scan'.seen = scan.seen /\ scan'.todo = scan.todo /\ scan'.issues = scan.issues
        /\ scan'.steady \subseteq scan.steady
    <3>1. CASE scan' = scan  BY <2>1, <3>1
    <3>2. CASE scan' = [scan EXCEPT !.steady = @ \ {p}]  BY <2>1, <3>2 DEF Walking
    <3> QED  BY <1>3, <3>1, <3>2 DEF Unsettles
  <2>3. ASSUME scan.pid \in Pids, NEW x \in Nat, Before(x)
        PROVE  Before(x)'
    <3>1. host.starts \in Nat /\ host'.starts \in Nat  BY DEF SampleInv, HostInv
    <3>2. \A q \in DOMAIN alive : alive[q].start \in Nat
      <4>1. alive \in Entries(Pids, Lives)  BY DEF SampleInv, HostInv
      <4> QED  BY <4>1, LivesAre
    <3>3. \A q \in DOMAIN alive' : alive'[q].start \in Nat
      <4>1. alive' \in Entries(Pids, Lives)  BY DEF HostInv
      <4> QED  BY <4>1, LivesAre
    <3> QED  BY <2>2, <2>3, <3>1, <3>2, <3>3 DEF Before
  <2>4. EntryInv'
    <3>1. SUFFICES ASSUME scan.at \notin {"none", "next"}
                   PROVE  EntryInv'
      BY <2>2 DEF EntryInv
    <3>2. EntryInv  BY DEF SampleInv, WalkInv
    <3>3. scan.pid \in Pids /\ scan.process \in ReadValues  BY <3>1, <3>2 DEF EntryInv
    <3>4. scan.process.start \in Nat /\ scan.process.cgroupOf \in Nat /\ scan.process.fdOf \in Nat
      BY <3>3 DEF ReadValues
    <3>5. Before(scan.process.start)' /\ Before(scan.process.cgroupOf)' /\ Before(scan.process.fdOf)'
      <4>1. PICK a \in Nat, b \in Nat, c \in Nat :
               a = scan.process.start /\ b = scan.process.cgroupOf /\ c = scan.process.fdOf
        BY <3>4
      <4>2. Before(a) /\ Before(b) /\ Before(c)  BY <3>1, <3>2, <4>1 DEF EntryInv
      <4>3. Before(a)' /\ Before(b)' /\ Before(c)'  BY <2>3, <3>3, <4>2
      <4> QED  BY <2>2, <4>1, <4>3 DEF Before
    <3> QED  BY <2>2, <3>1, <3>2, <3>3, <3>5 DEF EntryInv, Whole
  <2>5. \A q \in scan'.steady : q \in DOMAIN alive' /\ alive'[q].own = TRUE /\ Met(q)'
    <3>1. SUFFICES ASSUME NEW q \in scan'.steady
                   PROVE  q \in DOMAIN alive' /\ alive'[q].own = TRUE /\ Met(q)'
      OBVIOUS
    <3>2. q \in scan.steady /\ q \in DOMAIN alive /\ alive[q].own = TRUE /\ Met(q)
      BY <1>3, <2>2 DEF SampleInv, WalkInv
    <3>3. q \in DOMAIN alive' /\ alive'[q].own = alive[q].own  BY <1>3, <3>2
    <3>4. Met(q)'  BY <2>2, <3>2 DEF Met
    <3> QED  BY <3>2, <3>3, <3>4
  <2>6. \A q \in DOMAIN scan'.seen : Whole(scan'.seen[q])  BY <1>3, <2>2 DEF SampleInv, WalkInv
  <2>7. WalkInv'  BY <2>2, <2>4, <2>5, <2>6 DEF WalkInv, Whole
  <2> QED  BY <1>1, <2>7 DEF SampleInv
<1> QED  BY <1>2, <1>3

\* A process that changes during a walk is steady no more.
LEMMA Unsettled ==
  ASSUME SampleInv, NEW p, scan' = Unsettles(p), scan.at # "none"
  PROVE  p \notin scan'.steady
<1>1. scan' = [scan EXCEPT !.steady = @ \ {p}]  BY DEF Unsettles
<1>2. scan \in Walking  BY ScanIs DEF SampleInv
<1> QED  BY <1>1, <1>2 DEF Walking

\* A change on the host counts it, and starts if there was one.
LEMMA ChangesCount ==
  ASSUME NEW n \in Nat, Changes(n), host \in [ticks : 0..MaxTicks, starts : Nat, changes : Nat]
  PROVE  /\ host' \in [ticks : 0..MaxTicks, starts : Nat, changes : Nat]
         /\ host'.starts = host.starts + n /\ host.starts \in Nat
<1>1. PICK t \in 0..MaxTicks, s \in Nat, c \in Nat : host = [ticks |-> t, starts |-> s, changes |-> c]
  <2>1. PICK h \in [ticks : 0..MaxTicks, starts : Nat, changes : Nat] : h = host  OBVIOUS
  <2>2. host = [ticks |-> h.ticks, starts |-> h.starts, changes |-> h.changes]  BY <2>1
  <2> QED  BY <2>1, <2>2
<1>2. PICK s1 \in Nat, c1 \in Nat : s1 = s + n /\ c1 = c + 1  OBVIOUS
<1>3. host' = [ticks |-> t, starts |-> s1, changes |-> c1]
  <2>1. host' = [host EXCEPT !.changes = host.changes + 1, !.starts = host.starts + n]  BY DEF Changes
  <2> QED  BY <1>1, <1>2, <2>1
<1> QED  BY <1>1, <1>2, <1>3

\* What processes do on their own: it only makes later what is read later.
LEMMA HostActs ==
  ASSUME SampleInv, NEW p \in Pids, Exit(p) \/ Start(p) \/ ChangeUser(p) \/ Tick(p)
  PROVE  SampleInv'
<1>1. /\ alive \in Entries(Pids, Lives) /\ host \in [ticks : 0..MaxTicks, starts : Nat, changes : Nat]
      /\ \A q \in DOMAIN alive : alive[q].start <= host.starts
  BY DEF SampleInv, HostInv
<1>2. DOMAIN alive \subseteq Pids /\ \A q \in DOMAIN alive : alive[q] \in Lives /\ alive[q].start \in Nat
  BY <1>1, LivesAre
<1>3. CASE Exit(p)
  <2>1. alive' = [q \in DOMAIN alive \ {p} |-> alive[q]]  BY <1>3 DEF Exit
  <2>2. alive' \in [DOMAIN alive \ {p} -> Lives]  BY <1>2, <2>1
  <2>3. alive' \in Entries(Pids, Lives)  BY <1>2, <2>2 DEF Entries
  <2>4. host' \in [ticks : 0..MaxTicks, starts : Nat, changes : Nat] /\ host'.starts = host.starts
    <3>1. Changes(0) /\ 0 \in Nat  BY <1>3 DEF Exit
    <3> QED  BY <1>1, <3>1, ChangesCount
  <2>5. HostInv'  BY <1>1, <2>1, <2>3, <2>4 DEF HostInv
  <2>6. scan' = Unsettles(p) /\ base' = base /\ shown' = shown  BY <1>3 DEF Exit
  <2>7. scan.at # "none" => p \notin scan'.steady  BY <2>6, Unsettled
  <2>8. \A q \in DOMAIN alive' : q \in DOMAIN alive /\ alive'[q] = alive[q]  BY <2>1
  <2>9. \A q \in DOMAIN alive : q # p => q \in DOMAIN alive' /\ alive'[q] = alive[q]  BY <2>1
  <2>10. host'.starts >= host.starts  BY <1>1, <2>4
  <2> QED  BY <2>5, <2>6, <2>7, <2>8, <2>9, <2>10, HostKeeps
<1>4. CASE Start(p)
  <2>1. PICK r : r = [start |-> host.starts + 1, own |-> TRUE, jiffies |-> 0]  OBVIOUS
  <2>2. p \notin DOMAIN alive /\ alive' = WithEntry(alive, p, r)  BY <1>4, <2>1 DEF Start
  <2>3. r \in Lives /\ r.start = host.starts + 1
    <3>1. PICK n \in Nat : n = host.starts + 1  BY <1>1
    <3>2. r = [start |-> n, own |-> TRUE, jiffies |-> 0]  BY <2>1, <3>1
    <3> QED  BY <3>1, <3>2, Flags DEF Lives
  <2>4. alive' \in Entries(Pids, Lives) /\ DOMAIN alive' = DOMAIN alive \cup {p} /\ alive'[p] = r
        /\ \A q \in DOMAIN alive : q # p => alive'[q] = alive[q]
    <3>1. WithEntry(alive, p, r) \in Entries(Pids, Lives)
          /\ DOMAIN WithEntry(alive, p, r) = DOMAIN alive \cup {p} /\ WithEntry(alive, p, r)[p] = r
          /\ \A q \in DOMAIN alive : q # p => WithEntry(alive, p, r)[q] = alive[q]
      BY <1>1, <2>3, LivesPut, ZenonT(60)
    <3> QED  BY <2>2, <3>1
  <2>5. /\ host' \in [ticks : 0..MaxTicks, starts : Nat, changes : Nat]
        /\ host'.starts = host.starts + 1 /\ host.starts \in Nat
    <3>1. Changes(1) /\ 1 \in Nat  BY <1>4 DEF Start
    <3> QED  BY <1>1, <3>1, ChangesCount
  <2>6. HostInv'  BY <1>1, <1>2, <2>3, <2>4, <2>5 DEF HostInv
  <2>7. scan' = scan /\ base' = base /\ shown' = shown  BY <1>4 DEF Start
  <2>8. host'.starts >= host.starts /\ alive'[p].start >= host.starts  BY <2>3, <2>4, <2>5
  <2>9. \A q \in DOMAIN alive : q # p  BY <2>2
  <2> QED  BY <2>4, <2>6, <2>7, <2>8, <2>9, HostKeeps
<1>5. CASE ChangeUser(p)
  <2>1. p \in DOMAIN alive /\ alive' = [alive EXCEPT ![p].own = FALSE]  BY <1>5 DEF ChangeUser
  <2>2. PICK r \in Lives : r = [alive[p] EXCEPT !.own = FALSE] /\ r.start = alive[p].start
    <3>1. PICK a \in Lives : a = alive[p]  BY <1>2, <2>1
    <3>2. [a EXCEPT !.own = FALSE] \in Lives /\ [a EXCEPT !.own = FALSE].start = a.start  BY Flags DEF Lives
    <3> QED  BY <3>1, <3>2
  <2>3. /\ alive' \in Entries(Pids, Lives) /\ DOMAIN alive' = DOMAIN alive /\ alive'[p] = r
        /\ \A q \in DOMAIN alive : q # p => alive'[q] = alive[q]
    BY <1>1, <2>1, <2>2 DEF Entries
  <2>4. host' \in [ticks : 0..MaxTicks, starts : Nat, changes : Nat] /\ host'.starts = host.starts
    <3>1. Changes(0) /\ 0 \in Nat  BY <1>5 DEF ChangeUser
    <3> QED  BY <1>1, <3>1, ChangesCount
  <2>5. \A q \in DOMAIN alive' : q \in DOMAIN alive /\ alive'[q].start = alive[q].start  BY <2>2, <2>3
  <2>6. HostInv'  BY <1>1, <2>3, <2>4, <2>5 DEF HostInv
  <2>7. scan' = Unsettles(p) /\ base' = base /\ shown' = shown  BY <1>5 DEF ChangeUser
  <2>8. scan.at # "none" => p \notin scan'.steady  BY <2>7, Unsettled
  <2>9. host'.starts >= host.starts  BY <1>1, <2>4
  <2> QED  BY <2>3, <2>5, <2>6, <2>7, <2>8, <2>9, HostKeeps
<1>6. CASE Tick(p)
  <2>1. /\ host' \in [ticks : 0..MaxTicks, starts : Nat, changes : Nat]
        /\ host'.starts = host.starts /\ host.starts \in Nat
    BY <1>1, <1>6, SamplingAssumption DEF Tick
  <2>2. /\ alive' \in Entries(Pids, Lives) /\ DOMAIN alive' = DOMAIN alive
        /\ \A q \in DOMAIN alive : alive'[q].start = alive[q].start /\ alive'[q].own = alive[q].own
    <3>1. CASE p \in DOMAIN alive
      <4>1. alive' = [alive EXCEPT ![p].jiffies = @ + 1]  BY <1>6, <3>1 DEF Tick
      <4>2. PICK r \in Lives : /\ r = [alive[p] EXCEPT !.jiffies = @ + 1] /\ r.start = alive[p].start
                               /\ r.own = alive[p].own
        <5>1. PICK a \in Lives : a = alive[p]  BY <1>2, <3>1
        <5>2. PICK r : r = [a EXCEPT !.jiffies = @ + 1]  OBVIOUS
        <5>3. r \in Lives /\ r.start = a.start /\ r.own = a.own  BY <5>2 DEF Lives
        <5> QED  BY <5>1, <5>2, <5>3
      <4>3. alive' = [alive EXCEPT ![p] = r]  BY <4>1, <4>2
      <4> QED  BY <1>1, <3>1, <4>2, <4>3 DEF Entries
    <3>2. CASE p \notin DOMAIN alive
      BY <1>1, <1>6, <3>2 DEF Tick
    <3> QED  BY <3>1, <3>2
  <2>3. HostInv'  BY <1>1, <2>1, <2>2 DEF HostInv
  <2>4. scan' = scan /\ base' = base /\ shown' = shown  BY <1>6 DEF Tick
  <2>5. host'.starts >= host.starts  BY <2>1
  <2> QED  BY <2>2, <2>3, <2>4, <2>5, HostKeeps
<1> QED  BY <1>3, <1>4, <1>5, <1>6

\* A step of the walk.
LEMMA WalkOn ==
  ASSUME SampleInv, scan.at # "none", UNCHANGED <<alive, host, base, shown>>, scan' \in Walking, EntryInv',
         \A p \in DOMAIN scan'.seen : Whole(scan'.seen[p]),
         scan'.steady = scan.steady, \A p \in scan.steady : Met(p) => Met(p)'
  PROVE  SampleInv'
<1>1. HostInv' /\ KeptCountsInv'  BY DEF SampleInv, HostInv, KeptCountsInv
<1>2. ShownInv'  BY ShownKept DEF SampleInv
<1>3. \A p \in scan'.steady : p \in DOMAIN alive' /\ alive'[p].own = TRUE /\ Met(p)'
  BY DEF SampleInv, WalkInv
<1>4. WalkInv'  BY <1>3 DEF WalkInv, Whole
<1> QED  BY <1>1, <1>2, <1>4 DEF SampleInv

\* A process is given up with an issue, or it had changed.
LEMMA SkipKeeps ==
  ASSUME SampleInv, scan.at # "none", UNCHANGED <<alive, host, base, shown>>,
         NEW issue \in Flag, Skip(issue), issue = TRUE \/ scan.pid \notin scan.steady
  PROVE  SampleInv'
<1>1. scan \in Walking /\ scan.issues \in Flag  BY ScanIs DEF SampleInv, Walking
<1>2. PICK b \in Flag : b = (scan.issues \/ issue)
  <2>1. (scan.issues \/ issue) \in Flag  BY <1>1, Zenon DEF Flag
  <2> QED  BY <2>1
<1>3. (issue = TRUE \/ scan.issues = TRUE) => b = TRUE  BY <1>1, <1>2, Zenon DEF Flag
<1>4. scan' = [scan EXCEPT !.at = "next", !.pid = 0, !.issues = b, !.process = Nobody]  BY <1>2 DEF Skip
<1>5. /\ scan' \in Walking /\ scan'.at = "next" /\ scan'.issues = b
      /\ scan'.todo = scan.todo /\ scan'.seen = scan.seen /\ scan'.steady = scan.steady
  BY <1>1, <1>4 DEF Walking
<1>6. EntryInv'  BY <1>5 DEF EntryInv
<1>7. \A p \in DOMAIN scan'.seen : Whole(scan'.seen[p])  BY <1>5 DEF SampleInv, WalkInv
<1>8. \A p \in scan.steady : Met(p) => Met(p)'  BY <1>3, <1>5 DEF Met
<1> QED  BY <1>5, <1>6, <1>7, <1>8, WalkOn

\* What the invariant says of the entry at hand.
LEMMA AtHand ==
  ASSUME SampleInv, scan.at \notin {"none", "next"}
  PROVE  /\ scan \in Walking /\ scan.pid \in Pids /\ scan.process \in ReadValues /\ EntryInv
         /\ DOMAIN scan.seen \subseteq Pids
         /\ \A p \in DOMAIN scan.seen : Whole(scan.seen[p])
         /\ \A p \in DOMAIN alive : alive[p].start \in Nat /\ alive[p].start <= host.starts
         /\ host.starts \in Nat
<1>1. scan \in Walking /\ DOMAIN scan.seen \subseteq Pids  BY ScanIs DEF SampleInv
<1>2. EntryInv /\ \A p \in DOMAIN scan.seen : Whole(scan.seen[p])  BY DEF SampleInv, WalkInv
<1>3. scan.pid \in Pids /\ scan.process \in ReadValues  BY <1>2 DEF EntryInv
<1>4. alive \in Entries(Pids, Lives) /\ host.starts \in Nat
      /\ \A p \in DOMAIN alive : alive[p].start <= host.starts
  BY DEF SampleInv, HostInv
<1> QED  BY <1>1, <1>2, <1>3, <1>4, LivesAre

\* At the start of a walk everybody listed is steady and still to be read.
LEMMA ScanBegins ==
  ASSUME SampleInv, BeginScan
  PROVE  SampleInv'
<1>1. scan' = [at |-> "next", total |-> host.ticks, todo |-> Pids, listed |-> DOMAIN alive, pid |-> 0,
               process |-> Nobody, seen |-> Nobody, issues |-> FALSE,
               steady |-> {p \in DOMAIN alive : alive[p].own}]
  BY DEF BeginScan
<1>2. DOMAIN alive \subseteq Pids /\ host.ticks \in Nat
  <2>1. alive \in Entries(Pids, Lives) /\ host.ticks \in 0..MaxTicks  BY DEF SampleInv, HostInv
  <2> QED  BY <2>1, LivesAre, SamplingAssumption
<1>3. Nobody \in Entries(Pids, ReadValues) /\ DOMAIN Nobody = {}
  <2>1. Nobody \in [{} -> ReadValues] /\ DOMAIN Nobody = {}  BY DEF Nobody
  <2>2. {} \in SUBSET Pids  OBVIOUS
  <2> QED  BY <2>1, <2>2 DEF Entries
<1>4. PICK st \in SUBSET Pids : st = {p \in DOMAIN alive : alive[p].own}  BY <1>2
<1>5. scan' \in Walking
  <2>1. PICK n \in Nat, d \in SUBSET Pids, e \in Entries(Pids, ReadValues) :
           n = host.ticks /\ d = DOMAIN alive /\ e = Nobody
    BY <1>2, <1>3
  <2>2. scan' = [at |-> "next", total |-> n, todo |-> Pids, listed |-> d, pid |-> 0,
                 process |-> Nobody, seen |-> e, issues |-> FALSE, steady |-> st]
    BY <1>1, <1>4, <2>1
  <2> QED  BY <2>2, Flags DEF Walking
<1>6. EntryInv'  BY <1>1 DEF EntryInv
<1>7. \A p \in DOMAIN scan'.seen : Whole(scan'.seen[p])  BY <1>1, <1>3
<1>8. alive' = alive /\ host' = host /\ base' = base /\ shown' = NothingShown  BY DEF BeginScan
<1>9. \A p \in scan'.steady : p \in DOMAIN alive' /\ alive'[p].own = TRUE /\ Met(p)'
  <2>1. SUFFICES ASSUME NEW p \in st PROVE p \in DOMAIN alive /\ alive[p].own = TRUE /\ Met(p)'
    BY <1>1, <1>4, <1>8
  <2>2. p \in DOMAIN alive /\ alive[p].own  BY <1>4
  <2>3. alive[p].own \in Flag
    <3>1. alive \in Entries(Pids, Lives)  BY DEF SampleInv, HostInv
    <3>2. alive[p] \in Lives  BY <2>2, <3>1, LivesAre
    <3> QED  BY <3>2 DEF Lives
  <2>4. alive[p].own = TRUE  BY <2>2, <2>3, Zenon DEF Flag
  <2>5. Met(p)'  BY <1>1, <1>2, <2>2 DEF Met
  <2> QED  BY <2>2, <2>4, <2>5
<1>10. WalkInv'  BY <1>5, <1>6, <1>7, <1>9 DEF WalkInv, Whole
<1>11. HostInv' /\ KeptCountsInv'  BY <1>8 DEF SampleInv, HostInv, KeptCountsInv
<1>12. ShownInv'
  BY <1>8 DEF ShownInv, SumIsWhole, WholeProcess, CpuIsOwn, CompleteMissesNobody, NothingShown, Nobody
<1> QED  BY <1>10, <1>11, <1>12 DEF SampleInv

\* The first stat fixes the start of the process at hand.
LEMMA StatIsRead ==
  ASSUME SampleInv, NEW p \in Pids, ReadStat(p)
  PROVE  SampleInv'
<1>1. scan.at = "next" /\ p \in scan.todo /\ UNCHANGED <<alive, host, base, shown>>  BY DEF ReadStat
<1>2. scan \in Walking /\ \A q \in DOMAIN scan.seen : Whole(scan.seen[q])
  BY <1>1, ScanIs DEF SampleInv, WalkInv
<1>3. CASE p \in DOMAIN alive /\ scan' = [scan EXCEPT !.todo = @ \ {p}, !.pid = p, !.at = "status",
                !.process = [start |-> alive[p].start, cpu |-> alive[p].jiffies,
                             cgroupOf |-> 0, fd |-> FALSE, fdOf |-> 0]]
  <2>1. PICK a \in Lives : a = alive[p] /\ a.start <= host.starts /\ host.starts \in Nat
    <3>1. alive \in Entries(Pids, Lives)  BY DEF SampleInv, HostInv
    <3>2. alive[p].start <= host.starts  BY <1>3 DEF SampleInv, HostInv
    <3>3. host.starts \in Nat  BY DEF SampleInv, HostInv
    <3>4. alive[p] \in Lives  BY <1>3, <3>1, LivesAre
    <3> QED  BY <3>2, <3>3, <3>4
  <2>2. PICK r : r = [start |-> a.start, cpu |-> a.jiffies, cgroupOf |-> 0, fd |-> FALSE, fdOf |-> 0]
    OBVIOUS
  <2>3. r \in ReadValues /\ r.start = a.start /\ r.cgroupOf = 0 /\ r.fdOf = 0 /\ a.start \in Nat
    <3>1. PICK n \in Nat, c \in Nat : n = a.start /\ c = a.jiffies  BY DEF Lives
    <3>2. r = [start |-> n, cpu |-> c, cgroupOf |-> 0, fd |-> FALSE, fdOf |-> 0]  BY <2>2, <3>1
    <3> QED  BY <3>1, <3>2, Flags DEF ReadValues
  <2>4. scan' = [scan EXCEPT !.todo = @ \ {p}, !.pid = p, !.at = "status", !.process = r]
    BY <1>3, <2>1, <2>2
  <2>5. p \in Nat  BY SamplingAssumption
  <2>6. /\ scan' \in Walking /\ scan'.at = "status" /\ scan'.pid = p /\ scan'.process = r
        /\ scan'.todo = scan.todo \ {p} /\ scan'.seen = scan.seen /\ scan'.steady = scan.steady
        /\ scan'.issues = scan.issues
    BY <1>2, <2>3, <2>4, <2>5 DEF Walking
  <2>7. Before(r.start)' /\ Before(r.cgroupOf)' /\ Before(r.fdOf)'
    BY <1>1, <2>1, <2>3, <2>6 DEF Before
  <2>8. EntryInv'
    <3>1. (Before(scan.process.start) /\ Before(scan.process.cgroupOf) /\ Before(scan.process.fdOf))'
      BY <2>6, <2>7 DEF Before
    <3> QED  BY <2>3, <2>6, <3>1 DEF EntryInv
  <2>9. \A q \in scan.steady : Met(q) => Met(q)'  BY <1>1, <2>6 DEF Met
  <2>10. scan.at # "none"  BY <1>1
  <2> QED  BY <1>1, <1>2, <2>6, <2>8, <2>9, <2>10, WalkOn
<1>4. CASE p \notin DOMAIN alive /\ scan' = [scan EXCEPT !.todo = @ \ {p}, !.issues = TRUE]
  <2>1. /\ scan' \in Walking /\ scan'.at = "next" /\ scan'.seen = scan.seen /\ scan'.steady = scan.steady
        /\ scan'.issues = TRUE
    BY <1>1, <1>2, <1>4, Flags DEF Walking
  <2>2. EntryInv'  BY <2>1 DEF EntryInv
  <2>3. \A q \in scan.steady : Met(q) => Met(q)'  BY <2>1 DEF Met
  <2>4. scan.at # "none"  BY <1>1
  <2> QED  BY <1>1, <1>2, <2>1, <2>2, <2>3, <2>4, WalkOn
<1>5. CASE p \notin scan.steady /\ scan' = [scan EXCEPT !.todo = @ \ {p}]
  <2>1. /\ scan' \in Walking /\ scan'.at = "next" /\ scan'.seen = scan.seen /\ scan'.steady = scan.steady
        /\ scan'.issues = scan.issues /\ scan'.todo = scan.todo \ {p}
    BY <1>1, <1>2, <1>5 DEF Walking
  <2>2. EntryInv'  BY <2>1 DEF EntryInv
  <2>3. \A q \in scan.steady : Met(q) => Met(q)'  BY <1>1, <1>5, <2>1 DEF Met
  <2>4. scan.at # "none"  BY <1>1
  <2> QED  BY <1>1, <1>2, <2>1, <2>2, <2>3, <2>4, WalkOn
<1> QED  BY <1>3, <1>4, <1>5 DEF ReadStat

\* A file of the entry at hand is read, or found gone.
LEMMA FileIsRead ==
  ASSUME SampleInv, scan.at \notin {"none", "next"}, UNCHANGED <<alive, host, base, shown>>,
         NEW r \in ReadValues, NEW at \in {"cgroup", "fd", "stat2", "status2"},
         scan' = [scan EXCEPT !.at = at, !.process = r],
         Before(r.start), Before(r.cgroupOf), Before(r.fdOf),
         at \in {"fd", "stat2"} => r.start <= r.cgroupOf,
         at = "stat2" /\ r.fd => r.start <= r.fdOf,
         at = "status2" => Whole(r)
  PROVE  SampleInv'
<1>1. scan \in Walking /\ scan.pid \in Pids /\ \A p \in DOMAIN scan.seen : Whole(scan.seen[p])  BY AtHand
<1>2. /\ scan' \in Walking /\ scan'.at = at /\ scan'.pid = scan.pid /\ scan'.process = r
      /\ scan'.todo = scan.todo /\ scan'.seen = scan.seen /\ scan'.steady = scan.steady
      /\ scan'.issues = scan.issues
  BY <1>1 DEF Walking
<1>3. EntryInv'
  <2>1. (Before(scan.process.start) /\ Before(scan.process.cgroupOf) /\ Before(scan.process.fdOf))'
    BY <1>2 DEF Before
  <2> QED  BY <1>1, <1>2, <2>1 DEF EntryInv, Whole
<1>4. \A p \in scan.steady : Met(p) => Met(p)'  BY <1>2 DEF Met
<1> QED  BY <1>1, <1>2, <1>3, <1>4, WalkOn

\* An entry that is left out with an issue.
LEMMA EntrySkipped ==
  ASSUME SampleInv, scan.at \notin {"none", "next"}, UNCHANGED <<alive, host, base, shown>>, Skip(TRUE)
  PROVE  SampleInv'
<1>1. TRUE \in Flag /\ scan.at # "none"  BY Flags
<1> QED  BY <1>1, SkipKeeps

\* The status adds the owner: whoever is not ours is left out without an issue.
LEMMA StatusIsRead ==
  ASSUME SampleInv, ReadStatus
  PROVE  SampleInv'
<1>1. scan.at = "status" /\ UNCHANGED <<alive, host, base, shown>>  BY DEF ReadStatus, ReadFile
<1>2. scan.at \notin {"none", "next"}  BY <1>1
<1>3. CASE Skip(TRUE)  BY <1>1, <1>2, <1>3, EntrySkipped
<1>4. CASE scan.pid \in DOMAIN alive /\ alive[scan.pid].own /\ scan' = [scan EXCEPT !.at = "cgroup"]
  <2>1. PICK r \in ReadValues : r = scan.process  BY <1>2, AtHand
  <2>2. scan \in Walking  BY <1>2, AtHand
  <2>3. scan' = [scan EXCEPT !.at = "cgroup", !.process = r]  BY <1>4, <2>1, <2>2 DEF Walking
  <2>4. Before(r.start) /\ Before(r.cgroupOf) /\ Before(r.fdOf)  BY <1>2, <2>1, AtHand DEF EntryInv
  <2> QED  BY <1>1, <1>2, <2>3, <2>4, FileIsRead
<1>5. CASE scan.pid \in DOMAIN alive /\ ~alive[scan.pid].own /\ Skip(FALSE)
  <2>1. scan.pid \notin scan.steady
    <3>1. SUFFICES ASSUME scan.pid \in scan.steady PROVE FALSE  OBVIOUS
    <3>2. alive[scan.pid].own = TRUE  BY <1>1, <3>1 DEF SampleInv, WalkInv
    <3> QED  BY <1>5, <3>2
  <2>2. FALSE \in Flag /\ scan.at # "none"  BY <1>1, Flags
  <2> QED  BY <1>1, <1>5, <2>1, <2>2, SkipKeeps
<1> QED  BY <1>3, <1>4, <1>5, Zenon DEF ReadStatus, ReadFile

\* The cgroup is of the process at hand or of a later one.
LEMMA CgroupIsRead ==
  ASSUME SampleInv, ReadCgroup
  PROVE  SampleInv'
<1>1. scan.at = "cgroup" /\ UNCHANGED <<alive, host, base, shown>>  BY DEF ReadCgroup, ReadFile
<1>2. scan.at \notin {"none", "next"}  BY <1>1
<1>3. CASE Skip(TRUE)  BY <1>1, <1>2, <1>3, EntrySkipped
<1>4. CASE scan.pid \in DOMAIN alive
           /\ scan' = [scan EXCEPT !.at = "fd", !.process.cgroupOf = alive[scan.pid].start]
  <2>1. PICK q \in ReadValues : q = scan.process  BY <1>2, AtHand
  <2>2. PICK n \in Nat : n = alive[scan.pid].start /\ n <= host.starts  BY <1>2, <1>4, AtHand
  <2>3. PICK r : r = [q EXCEPT !.cgroupOf = n]  OBVIOUS
  <2>4. r \in ReadValues /\ r.start = q.start /\ r.cgroupOf = n /\ r.fdOf = q.fdOf  BY <2>3 DEF ReadValues
  <2>5. scan \in Walking  BY <1>2, AtHand
  <2>6. scan' = [scan EXCEPT !.at = "fd", !.process = r]  BY <1>4, <2>1, <2>2, <2>3, <2>5 DEF Walking
  <2>7. Before(q.start) /\ Before(q.fdOf)  BY <1>2, <2>1, AtHand DEF EntryInv
  <2>8. Before(n) /\ q.start <= n  BY <1>4, <2>2, <2>7 DEF Before
  <2>9. Before(r.start) /\ Before(r.cgroupOf) /\ Before(r.fdOf) /\ r.start <= r.cgroupOf
    BY <2>4, <2>7, <2>8
  <2> QED  BY <1>1, <1>2, <2>4, <2>6, <2>9, FileIsRead
<1> QED  BY <1>3, <1>4, Zenon DEF ReadCgroup, ReadFile

\* So are the descriptors, where they could be read.
LEMMA FdsAreRead ==
  ASSUME SampleInv, ReadFds
  PROVE  SampleInv'
<1>1. scan.at = "fd" /\ UNCHANGED <<alive, host, base, shown>>  BY DEF ReadFds
<1>2. scan.at \notin {"none", "next"}  BY <1>1
<1>3. PICK known \in BOOLEAN :
         /\ known => scan.pid \in DOMAIN alive
         /\ scan' = [scan EXCEPT !.at = "stat2", !.process.fd = known,
                                 !.process.fdOf = IF known THEN alive[scan.pid].start ELSE 0]
  BY Zenon DEF ReadFds
<1>4. PICK k \in Flag : k = known  BY Zenon DEF Flag
<1>5. PICK q \in ReadValues : q = scan.process  BY <1>2, AtHand
<1>6. PICK n \in Nat : /\ n = IF known THEN alive[scan.pid].start ELSE 0
                       /\ n <= host.starts /\ (known => n = alive[scan.pid].start)
                       /\ (scan.pid \in DOMAIN alive => n <= alive[scan.pid].start)
  <2>1. /\ \A p \in DOMAIN alive : alive[p].start \in Nat /\ alive[p].start <= host.starts
        /\ host.starts \in Nat
    BY <1>2, AtHand
  <2>2. CASE known  BY <1>3, <2>1, <2>2
  <2>3. CASE ~known  BY <1>3, <2>1, <2>3
  <2> QED  BY <2>2, <2>3
<1>7. PICK r : r = [q EXCEPT !.fd = k, !.fdOf = n]  OBVIOUS
<1>8. /\ r \in ReadValues /\ r.start = q.start /\ r.cgroupOf = q.cgroupOf /\ r.fdOf = n /\ r.fd = k
  BY <1>7 DEF ReadValues
<1>9. scan \in Walking  BY <1>2, AtHand
<1>10. scan' = [scan EXCEPT !.at = "stat2", !.process = r]
  <2>1. scan' = [scan EXCEPT !.at = "stat2", !.process = [[scan.process EXCEPT !.fd = k] EXCEPT !.fdOf = n]]
    BY <1>3, <1>4, <1>6, <1>9 DEF Walking
  <2>2. r = [[q EXCEPT !.fd = k] EXCEPT !.fdOf = n]  BY <1>7
  <2> QED  BY <1>5, <2>1, <2>2
<1>11. Before(q.start) /\ Before(q.cgroupOf) /\ q.start <= q.cgroupOf  BY <1>1, <1>2, <1>5, AtHand DEF EntryInv
<1>12. Before(n)  BY <1>6 DEF Before
<1>13. known => q.start <= n
  <2>1. SUFFICES ASSUME known PROVE q.start <= n  OBVIOUS
  <2>2. scan.pid \in DOMAIN alive /\ n = alive[scan.pid].start  BY <1>3, <1>6, <2>1
  <2> QED  BY <1>11, <2>2 DEF Before
<1>14. Before(r.start) /\ Before(r.cgroupOf) /\ Before(r.fdOf) /\ r.start <= r.cgroupOf
  BY <1>8, <1>11, <1>12
<1>15. r.fd => r.start <= r.fdOf
  <2>1. r.fd = known  BY <1>4, <1>8
  <2>2. r.start = q.start /\ r.fdOf = n  BY <1>8
  <2> QED  BY <1>13, <2>1, <2>2
<1> QED  BY <1>1, <1>2, <1>8, <1>10, <1>14, <1>15, FileIsRead

\* The final stat has the first start: nobody came between.
LEMMA StatIsReadAgain ==
  ASSUME SampleInv, ReadFinalStat
  PROVE  SampleInv'
<1>1. scan.at = "stat2" /\ UNCHANGED <<alive, host, base, shown>>  BY DEF ReadFinalStat, ReadFile
<1>2. scan.at \notin {"none", "next"}  BY <1>1
<1>3. CASE Skip(TRUE)  BY <1>1, <1>2, <1>3, EntrySkipped
<1>4. CASE scan.pid \in DOMAIN alive /\ SameProcess /\ scan' = [scan EXCEPT !.at = "status2"]
  <2>1. PICK r \in ReadValues : r = scan.process  BY <1>2, AtHand
  <2>2. scan \in Walking  BY <1>2, AtHand
  <2>3. scan' = [scan EXCEPT !.at = "status2", !.process = r]  BY <1>4, <2>1, <2>2 DEF Walking
  <2>4. /\ Before(r.start) /\ Before(r.cgroupOf) /\ Before(r.fdOf) /\ r.start <= r.cgroupOf
        /\ (r.fd => r.start <= r.fdOf)
    BY <1>1, <1>2, <2>1, AtHand DEF EntryInv
  <2>5. alive[scan.pid].start = r.start  BY <1>4, <2>1 DEF SameProcess
  <2>6. r.start \in Nat /\ r.cgroupOf \in Nat /\ r.fdOf \in Nat  BY DEF ReadValues
  <2>7. r.cgroupOf <= r.start /\ r.fdOf <= r.start  BY <1>4, <2>4, <2>5 DEF Before
  <2>8. r.cgroupOf = r.start  BY <2>4, <2>6, <2>7
  <2>9. r.fd => r.fdOf = r.start
    <3>1. SUFFICES ASSUME r.fd PROVE r.fdOf = r.start  OBVIOUS
    <3>2. r.start <= r.fdOf  BY <2>4, <3>1
    <3> QED  BY <2>6, <2>7, <3>2
  <2>10. Whole(r)  BY <2>8, <2>9 DEF Whole
  <2> QED  BY <1>1, <1>2, <2>3, <2>4, <2>10, FileIsRead
<1> QED  BY <1>3, <1>4, Zenon DEF ReadFinalStat, ReadFile

\* The final status admits the process to the sample, which is of one process then.
LEMMA StatusIsReadAgain ==
  ASSUME SampleInv, ReadFinalStatus
  PROVE  SampleInv'
<1>1. scan.at = "status2" /\ UNCHANGED <<alive, host, base, shown>>  BY DEF ReadFinalStatus, ReadFile
<1>2. scan.at \notin {"none", "next"}  BY <1>1
<1>3. CASE Skip(TRUE)  BY <1>1, <1>2, <1>3, EntrySkipped
<1>4. CASE scan' = [scan EXCEPT !.at = "next", !.pid = 0, !.process = Nobody,
                              !.seen = WithEntry(@, scan.pid, scan.process)]
  <2>1. /\ scan \in Walking /\ scan.pid \in Pids /\ scan.process \in ReadValues /\ EntryInv
        /\ \A p \in DOMAIN scan.seen : Whole(scan.seen[p])
    BY <1>2, AtHand
  <2>2. scan.seen \in Entries(Pids, ReadValues)  BY <2>1 DEF Walking
  <2>3. PICK f \in Entries(Pids, ReadValues) :
           /\ f = WithEntry(scan.seen, scan.pid, scan.process)
           /\ DOMAIN f = DOMAIN scan.seen \cup {scan.pid} /\ f[scan.pid] = scan.process
           /\ \A p \in DOMAIN scan.seen : p # scan.pid => f[p] = scan.seen[p]
    <3>1. PICK g, p, r : g = scan.seen /\ p = scan.pid /\ r = scan.process  OBVIOUS
    <3>2. g \in Entries(Pids, ReadValues) /\ p \in Pids /\ r \in ReadValues  BY <2>1, <2>2, <3>1
    <3>3. PICK f : f = WithEntry(g, p, r)  OBVIOUS
    <3>4. /\ f \in Entries(Pids, ReadValues) /\ DOMAIN f = DOMAIN g \cup {p} /\ f[p] = r
          /\ \A q \in DOMAIN g : q # p => f[q] = g[q]
      BY <3>2, <3>3, ReadsPut
    <3> QED  BY <3>1, <3>3, <3>4
  <2>4. scan' = [scan EXCEPT !.at = "next", !.pid = 0, !.process = Nobody, !.seen = f]  BY <1>4, <2>3
  <2>5. /\ scan' \in Walking /\ scan'.at = "next" /\ scan'.seen = f /\ scan'.todo = scan.todo
        /\ scan'.steady = scan.steady /\ scan'.issues = scan.issues
    BY <2>1, <2>4 DEF Walking
  <2>6. EntryInv'  BY <2>5 DEF EntryInv
  <2>7. Whole(scan.process)  BY <1>1, <2>1 DEF EntryInv
  <2>8. \A p \in DOMAIN f : Whole(f[p])
    <3>1. SUFFICES ASSUME NEW p \in DOMAIN f PROVE Whole(f[p])  OBVIOUS
    <3>2. CASE p = scan.pid  BY <2>3, <2>7, <3>2
    <3>3. CASE p # scan.pid
      <4>1. p \in DOMAIN scan.seen /\ f[p] = scan.seen[p]  BY <2>3, <3>3
      <4> QED  BY <2>1, <4>1
    <3> QED  BY <3>2, <3>3
  <2>9. \A p \in scan.steady : Met(p) => Met(p)'  BY <2>3, <2>5 DEF Met
  <2> QED  BY <1>1, <1>2, <2>5, <2>6, <2>8, <2>9, WalkOn
<1> QED  BY <1>3, <1>4, Zenon DEF ReadFinalStatus, ReadFile

\* A failed read is an issue, and a failed walk shows nothing.
LEMMA ReadsFail ==
  ASSUME SampleInv, ReadFails \/ ScanFails
  PROVE  SampleInv'
<1>1. CASE ReadFails
  <2>1. scan.at \notin {"none", "next"} /\ Skip(TRUE) /\ UNCHANGED <<alive, host, base, shown>>
    BY <1>1 DEF ReadFails, OnReadError
  <2> QED  BY <2>1, EntrySkipped
<1>2. CASE ScanFails
  <2>1. scan' = NoScan /\ alive' = alive /\ host' = host /\ base' = base /\ shown' = shown
    BY <1>2 DEF ScanFails
  <2>2. HostInv' /\ KeptCountsInv'  BY <2>1 DEF SampleInv, HostInv, KeptCountsInv
  <2>3. ShownInv'  BY <2>1, ShownKept DEF SampleInv
  <2>4. WalkInv'  BY <2>1 DEF WalkInv, EntryInv, NoScan
  <2> QED  BY <2>2, <2>3, <2>4 DEF SampleInv
<1> QED  BY <1>1, <1>2

\* A known share is the difference of two counts of one start.
LEMMA ShareIsOwn ==
  ASSUME KeptCountsInv, NEW p, NEW uptime, CpuOf(p, uptime).state = "Known"
  PROVE  CpuOf(p, uptime).since = scan.seen[p].start
<1>1. Comparable(uptime)  BY DEF CpuOf
<1>2. base.is  BY <1>1, Zenon DEF Comparable
<1>3. BaselineKey(p) \in DOMAIN base.cpu  BY <1>1 DEF CpuOf
<1>4. base.cpu[BaselineKey(p)].start = BaselineKey(p)[2]  BY <1>2, <1>3 DEF KeptCountsInv
<1>5. BaselineKey(p)[2] = scan.seen[p].start  BY DEF BaselineKey
<1>6. CpuOf(p, uptime).since = base.cpu[BaselineKey(p)].start  BY <1>1, <1>3 DEF CpuOf
<1> QED  BY <1>4, <1>5, <1>6

\* What is shown of a walk is whole, compared by start and complete if it says so.
LEMMA SnapshotIsReal ==
  ASSUME SampleInv, scan.at = "next", scan.todo = {}, NEW uptime, Observed(uptime)
  PROVE  ShownInv' /\ KeptCountsInv'
<1>1. PICK of : of = [p \in DOMAIN scan.seen |-> [raw |-> scan.seen[p], cpu |-> CpuOf(p, uptime)]]
  OBVIOUS
<1>2. /\ shown' = [of |-> of, sum |-> SumMetric(of), complete |-> Complete(of, uptime),
                   missed |-> scan.steady \ DOMAIN scan.seen]
      /\ base' = [is |-> TRUE, uptime |-> uptime, total |-> scan.total,
                  cpu |-> [k \in {BaselineKey(p) : p \in DOMAIN scan.seen} |->
                             scan.seen[CHOOSE p \in DOMAIN scan.seen : BaselineKey(p) = k]]]
  BY <1>1 DEF Observed
<1>3. /\ shown'.of = of /\ shown'.sum = SumMetric(of) /\ shown'.complete = Complete(of, uptime)
      /\ shown'.missed = scan.steady \ DOMAIN scan.seen
  BY <1>2
<1>4. /\ DOMAIN of = DOMAIN scan.seen
      /\ \A p \in DOMAIN of : of[p].raw = scan.seen[p] /\ of[p].cpu = CpuOf(p, uptime)
  BY <1>1
<1>5. SumIsWhole'  BY <1>3 DEF SumIsWhole, SumMetric
<1>6. WholeProcess'
  <2>1. \A p \in DOMAIN scan.seen : Whole(scan.seen[p])  BY DEF SampleInv, WalkInv
  <2>2. ASSUME NEW p \in DOMAIN of
        PROVE  of[p].raw.cgroupOf = of[p].raw.start /\ (of[p].raw.fd => of[p].raw.fdOf = of[p].raw.start)
    <3>1. of[p].raw = scan.seen[p] /\ Whole(scan.seen[p])  BY <1>4, <2>1
    <3> QED  BY <3>1 DEF Whole
  <2> QED  BY <1>3, <2>2 DEF WholeProcess
<1>7. CpuIsOwn'
  <2>1. ASSUME NEW p \in DOMAIN of, of[p].cpu.state = "Known"
        PROVE  of[p].cpu.since = of[p].raw.start
    <3>1. of[p].cpu = CpuOf(p, uptime) /\ of[p].raw = scan.seen[p]  BY <1>4
    <3>2. KeptCountsInv  BY DEF SampleInv
    <3> QED  BY <2>1, <3>1, <3>2, ShareIsOwn
  <2> QED  BY <1>3, <2>1 DEF CpuIsOwn
<1>8. CompleteMissesNobody'
  <2>1. SUFFICES ASSUME Complete(of, uptime) PROVE scan.steady \ DOMAIN scan.seen = {}
    BY <1>3 DEF CompleteMissesNobody
  <2>2. ~scan.issues  BY <2>1 DEF Complete
  <2>3. scan.issues # TRUE  BY <2>2
  <2>4. \A p \in scan.steady : Met(p)  BY DEF SampleInv, WalkInv
  <2> QED  BY <2>3, <2>4 DEF Met
<1>9. KeptCountsInv'
  <2>1. PICK counts : counts = [k \in {BaselineKey(p) : p \in DOMAIN scan.seen} |->
                                  scan.seen[CHOOSE p \in DOMAIN scan.seen : BaselineKey(p) = k]]
    OBVIOUS
  <2>2. base'.cpu = counts  BY <1>2, <2>1
  <2>3. ASSUME NEW k \in DOMAIN counts PROVE counts[k].start = k[2]
    <3>1. \E p \in DOMAIN scan.seen : BaselineKey(p) = k  BY <2>1
    <3>2. PICK p \in DOMAIN scan.seen :
             BaselineKey(p) = k /\ p = CHOOSE q \in DOMAIN scan.seen : BaselineKey(q) = k
      BY <3>1
    <3>3. counts[k] = scan.seen[p]  BY <2>1, <3>2
    <3>4. k[2] = scan.seen[p].start  BY <3>2 DEF BaselineKey
    <3> QED  BY <3>3, <3>4
  <2> QED  BY <2>2, <2>3 DEF KeptCountsInv
<1> QED  BY <1>5, <1>6, <1>7, <1>8, <1>9 DEF ShownInv

\* The end of a walk shows it and keeps its counts.
LEMMA ScanEnds ==
  ASSUME SampleInv, EndScan
  PROVE  SampleInv'
<1>1. PICK uptime \in {host.ticks, -1} : Observed(uptime)  BY DEF EndScan
<1>2. scan.at = "next" /\ scan.todo = {} /\ scan' = NoScan /\ alive' = alive /\ host' = host
  BY DEF EndScan
<1>3. ShownInv' /\ KeptCountsInv'  BY <1>1, <1>2, SnapshotIsReal
<1>4. HostInv'  BY <1>2 DEF SampleInv, HostInv
<1>5. WalkInv'  BY <1>2 DEF WalkInv, EntryInv, NoScan
<1> QED  BY <1>3, <1>4, <1>5 DEF SampleInv

\* The invariant is about these variables.
LEMMA SampleStutter ==
  ASSUME SampleInv, UNCHANGED samplingVars
  PROVE  SampleInv'
<1>1. alive' = alive /\ host' = host /\ scan' = scan /\ base' = base /\ shown' = shown  BY DEF samplingVars
<1>2. HostInv' /\ KeptCountsInv'  BY <1>1 DEF SampleInv, HostInv, KeptCountsInv
<1>3. ShownInv'  BY <1>1, ShownKept DEF SampleInv
<1>4. WalkInv'  BY <1>1 DEF SampleInv, WalkInv, EntryInv, Before, Met, Whole
<1> QED  BY <1>2, <1>3, <1>4 DEF SampleInv

\* Every step of the host and of the sampler keeps the invariant.
LEMMA SamplingStep ==
  ASSUME SampleInv, [SamplingNext]_samplingVars
  PROVE  SampleInv'
<1>1. CASE \E p \in Pids : Exit(p) \/ Start(p) \/ ChangeUser(p) \/ Tick(p)  BY <1>1, HostActs
<1>2. CASE \E p \in Pids : ReadStat(p)  BY <1>2, StatIsRead
<1>3. CASE BeginScan  BY <1>3, ScanBegins
<1>4. CASE ReadStatus  BY <1>4, StatusIsRead
<1>5. CASE ReadCgroup  BY <1>5, CgroupIsRead
<1>6. CASE ReadFds  BY <1>6, FdsAreRead
<1>7. CASE ReadFinalStat  BY <1>7, StatIsReadAgain
<1>8. CASE ReadFinalStatus  BY <1>8, StatusIsReadAgain
<1>9. CASE ReadFails \/ ScanFails  BY <1>9, ReadsFail
<1>10. CASE EndScan  BY <1>10, ScanEnds
<1>11. CASE UNCHANGED samplingVars  BY <1>11, SampleStutter
<1> QED  BY <1>1, <1>2, <1>3, <1>4, <1>5, <1>6, <1>7, <1>8, <1>9, <1>10, <1>11 DEF SamplingNext

\* Samples are real, for any processes, bounds and intervals.
LEMMA SamplesAreReal ==
  SamplingSpec => [](SamplingTypeOK /\ WholeProcess /\ CpuIsOwn /\ CompleteMissesNobody)
<1>1. SampleInv => SamplingTypeOK /\ WholeProcess /\ CpuIsOwn /\ CompleteMissesNobody
  <2> SUFFICES ASSUME SampleInv
               PROVE  SamplingTypeOK /\ WholeProcess /\ CpuIsOwn /\ CompleteMissesNobody
    OBVIOUS
  <2>1. WholeProcess /\ CpuIsOwn /\ CompleteMissesNobody  BY DEF SampleInv, ShownInv
  <2>2. alive \in Entries(Pids, Lives) /\ host.ticks \in 0..MaxTicks  BY DEF SampleInv, HostInv
  <2>3. DOMAIN alive \subseteq Pids  BY <2>2, LivesAre
  <2>4. scan.at \in {"none", "next", "status", "cgroup", "fd", "stat2", "status2"}
    <3>1. CASE scan = NoScan  BY <3>1 DEF NoScan
    <3>2. CASE scan \in Walking
      <4>1. scan.at \in {"next", "status", "cgroup", "fd", "stat2", "status2"}  BY <3>2 DEF Walking
      <4> QED  BY <4>1
    <3> QED  BY <3>1, <3>2 DEF SampleInv, WalkInv
  <2>5. SumIsWhole  BY DEF SampleInv, ShownInv
  <2> QED  BY <2>1, <2>2, <2>3, <2>4, <2>5 DEF SamplingTypeOK, SumIsWhole
<1> QED  BY <1>1, SamplingStarts, SamplingStep, PTL DEF SamplingSpec
-----------------------------------------------------------------------------
(* Applications of processes (AppGrouping). *)

Verdicts == {"Unknown", "InheritedParent", "CgroupScope", "DesktopEntryExact"}
Scopes == Desktops \cup Opaques
Assignments == [key : {OwnKey(p) : p \in Processes} \cup {KeyOf(s) : s \in Scopes}, by : Verdicts]

TreeTyped ==
  /\ ppid \in [Processes -> Processes \cup {0}]
  /\ scope \in [Processes -> Scopes \cup {"none"}]

\* A line starts with its process, goes on with the parent's, and stays within
\* every set that is closed under parents.
LEMMA LineIs ==
  ASSUME TreeTyped, NEW p \in Processes
  PROVE  /\ p \in Line(p) /\ Line(p) \subseteq Processes
         /\ \A T \in SUBSET Processes : p \in T /\ Upward(T) => Line(p) \subseteq T
         /\ \A q \in Line(p) : Line(q) \subseteq Line(p)
         /\ ppid[p] # 0 => ppid[p] \in Processes /\ ppid[p] \in Line(p)
<1>1. /\ p \in Line(p) /\ Line(p) \subseteq Processes
      /\ \A T \in SUBSET Processes : p \in T /\ Upward(T) => Line(p) \subseteq T
  BY DEF Line
<1>2. ASSUME NEW q \in Line(p) PROVE Line(q) \subseteq Line(p)
  <2>1. SUFFICES ASSUME NEW x \in Line(q), NEW T \in SUBSET Processes, p \in T, Upward(T) PROVE x \in T
    BY DEF Line
  <2>2. q \in T  BY <2>1 DEF Line
  <2> QED  BY <2>1, <2>2 DEF Line
<1>3. ppid[p] # 0 => ppid[p] \in Processes /\ ppid[p] \in Line(p)
  <2>1. SUFFICES ASSUME ppid[p] # 0 PROVE ppid[p] \in Processes /\ ppid[p] \in Line(p)
    OBVIOUS
  <2>2. ppid[p] \in Processes  BY <2>1 DEF TreeTyped
  <2>3. \A T \in SUBSET Processes : p \in T /\ Upward(T) => ppid[p] \in T  BY <2>1 DEF Upward
  <2> QED  BY <2>2, <2>3 DEF Line
<1> QED  BY <1>1, <1>2, <1>3

\* One level of resolve_process over what the levels above it return.
Level(r) ==
  [S \in SUBSET Processes |->
     [p \in Processes |->
        IF scope[p] # "none" THEN Direct(p)
        ELSE IF p \in S \/ ppid[p] = 0 THEN UnknownOf(p)
        ELSE Inherited(p, r[S \cup {p}][ppid[p]])]]

Resolutions == [SUBSET Processes -> [Processes -> Assignments]]

\* One unfolding of the recursion has the type of the whole.
LEMMA LevelType ==
  ASSUME TreeTyped, NEW r \in Resolutions
  PROVE  Level(r) \in Resolutions
<1>1. ASSUME NEW S \in SUBSET Processes, NEW p \in Processes
      PROVE  (IF scope[p] # "none" THEN Direct(p)
              ELSE IF p \in S \/ ppid[p] = 0 THEN UnknownOf(p)
              ELSE Inherited(p, r[S \cup {p}][ppid[p]])) \in Assignments
  <2>1. UnknownOf(p) \in Assignments
    <3>1. PICK k : k = OwnKey(p)  OBVIOUS
    <3> QED  BY <3>1 DEF UnknownOf, Assignments, Verdicts
  <2>2. scope[p] # "none" => Direct(p) \in Assignments
    <3>1. SUFFICES ASSUME scope[p] # "none" PROVE Direct(p) \in Assignments  OBVIOUS
    <3>2. scope[p] \in Scopes  BY <3>1 DEF TreeTyped
    <3>3. PICK k, b : k = KeyOf(scope[p]) /\ b = IF scope[p] \in Desktops THEN "DesktopEntryExact" ELSE "CgroupScope"
      OBVIOUS
    <3>4. Direct(p) = [key |-> k, by |-> b] /\ b \in Verdicts  BY <3>3 DEF Direct, Verdicts
    <3> QED  BY <3>2, <3>3, <3>4 DEF Assignments
  <2>3. ppid[p] # 0 => Inherited(p, r[S \cup {p}][ppid[p]]) \in Assignments
    <3>1. SUFFICES ASSUME ppid[p] # 0 PROVE Inherited(p, r[S \cup {p}][ppid[p]]) \in Assignments  OBVIOUS
    <3>2. ppid[p] \in Processes /\ S \cup {p} \in SUBSET Processes  BY <3>1 DEF TreeTyped
    <3>3. PICK a \in Assignments : a = r[S \cup {p}][ppid[p]]  BY <3>2 DEF Resolutions
    <3>4. [key |-> a.key, by |-> "InheritedParent"] \in Assignments  BY DEF Assignments, Verdicts
    <3> QED  BY <2>1, <3>3, <3>4 DEF Inherited
  <2> QED  BY <2>1, <2>2, <2>3
<1> QED  BY <1>1 DEF Level, Resolutions

\* One unfolding at S looks at the sets one larger than S.
LEMMA LevelOnly ==
  ASSUME TreeTyped, NEW r, NEW q, NEW S \in SUBSET Processes,
         \A p \in Processes \ S : r[S \cup {p}] = q[S \cup {p}]
  PROVE  Level(r)[S] = Level(q)[S]
<1>1. ASSUME NEW p \in Processes PROVE Level(r)[S][p] = Level(q)[S][p]
  <2>1. CASE p \in S  BY <2>1 DEF Level
  <2>2. CASE p \notin S
    <3>1. r[S \cup {p}] = q[S \cup {p}]  BY <2>2
    <3> QED  BY <3>1 DEF Level
  <2> QED  BY <2>1, <2>2
<1>2. Level(r)[S] = [p \in Processes |-> Level(r)[S][p]] /\ Level(q)[S] = [p \in Processes |-> Level(q)[S][p]]
  BY DEF Level
<1> QED  BY <1>1, <1>2

\* The recursion is well-defined: every level visits one process more.
LEMMA ResolveExists ==
  ASSUME TreeTyped
  PROVE  \E f \in Resolutions : f = Level(f)
<1>1. PICK n \in Nat : n = Cardinality(Processes)  BY GroupingAssumption, FS_CardinalityType
<1>2. PICK N \in Nat : N = n + 2  BY <1>1
<1>3. PICK v0 : v0 = [S \in SUBSET Processes |-> [p \in Processes |-> UnknownOf(p)]]  OBVIOUS
<1>4. v0 \in Resolutions
  <2>1. \A p \in Processes : UnknownOf(p) \in Assignments
    <3>1. SUFFICES ASSUME NEW p \in Processes PROVE UnknownOf(p) \in Assignments  OBVIOUS
    <3>2. PICK k : k = OwnKey(p)  OBVIOUS
    <3> QED  BY <3>2 DEF UnknownOf, Assignments, Verdicts
  <2> QED  BY <1>3, <2>1 DEF Resolutions
<1>5. PICK st : st = [x \in (1..N) \X Resolutions |-> Level(x[2])]  OBVIOUS
<1>6. \A i \in 1..N : \A v \in Resolutions : st[<<i, v>>] = Level(v)  BY <1>5
<1>7. \A i \in 1..N : \A v \in Resolutions : st[<<i, v>>] \in Resolutions  BY <1>6, LevelType
<1>8. PICK g \in [0..N -> Resolutions] : Steps(g, N, v0, st)  BY <1>2, <1>4, <1>7, StepsExist
<1>9. \A i \in 1..N : g[i] = Level(g[i - 1])
  <2>1. SUFFICES ASSUME NEW i \in 1..N PROVE g[i] = Level(g[i - 1])  OBVIOUS
  <2>2. \A j \in 0..N : g[j] = IF j = 0 THEN v0 ELSE st[<<j, g[j - 1]>>]  BY <1>8 DEF Steps
  <2>3. i \in 0..N /\ i # 0 /\ i - 1 \in 0..N  BY <1>2
  <2>4. g[i] = st[<<i, g[i - 1]>>]  BY <2>2, <2>3
  <2> QED  BY <1>6, <1>8, <2>3, <2>4
<1> DEFINE A == {T \in SUBSET Processes :
                   \A k \in 1..(n + 1) : Cardinality(T) < k => g[k + 1][Processes \ T] = g[k][Processes \ T]}
<1>10. ASSUME NEW T \in SUBSET Processes, \A U \in SUBSET T : U # T => U \in A
       PROVE  T \in A
  <2>1. SUFFICES ASSUME NEW k \in 1..(n + 1), Cardinality(T) < k
                 PROVE  g[k + 1][Processes \ T] = g[k][Processes \ T]
    OBVIOUS
  <2>2. PICK S \in SUBSET Processes : S = Processes \ T  OBVIOUS
  <2>3. g[k + 1] = Level(g[k]) /\ g[k] = Level(g[k - 1])
    <3>1. k + 1 \in 1..N /\ k \in 1..N /\ (k + 1) - 1 = k  BY <1>1, <1>2
    <3> QED  BY <1>9, <3>1
  <2>4. ASSUME NEW p \in Processes \ S PROVE g[k][S \cup {p}] = g[k - 1][S \cup {p}]
    <3>1. IsFiniteSet(T) /\ p \in T  BY <2>2, GroupingAssumption, FS_Subset
    <3>2. PICK U \in SUBSET T : U = T \ {p}  OBVIOUS
    <3>3. Cardinality(U) = Cardinality(T) - 1 /\ Cardinality(T) \in Nat /\ Cardinality(U) \in Nat
      <4>1. IsFiniteSet(U) BY <3>1, <3>2, FS_Subset
      <4> QED  BY <3>1, <3>2, <4>1, FS_RemoveElement, FS_CardinalityType
    <3>4. k - 1 \in 1..(n + 1) /\ Cardinality(U) < k - 1 /\ (k - 1) + 1 = k  BY <1>1, <2>1, <3>1, <3>3
    <3>5. U \in A  BY <1>10, <3>1, <3>2
    <3>6. g[(k - 1) + 1][Processes \ U] = g[k - 1][Processes \ U]  BY <3>4, <3>5
    <3>7. Processes \ U = S \cup {p}  BY <2>2, <3>1, <3>2
    <3> QED  BY <3>4, <3>6, <3>7
  <2>5. Level(g[k])[S] = Level(g[k - 1])[S]
    <3>1. PICK r, q : r = g[k] /\ q = g[k - 1]  OBVIOUS
    <3>2. \A p \in Processes \ S : r[S \cup {p}] = q[S \cup {p}]  BY <2>4, <3>1
    <3>3. Level(r)[S] = Level(q)[S]
      <4> HIDE DEF A
      <4> QED  BY <3>2, LevelOnly, ZenonT(60)
    <3> QED  BY <3>1, <3>3
  <2> QED  BY <2>2, <2>3, <2>5
<1>11. \A T \in SUBSET Processes : T \in A
  <2> HIDE DEF A
  <2> QED  BY <1>10, GroupingAssumption, SubsetInduction
<1>12. PICK f \in Resolutions : f = g[n + 1] /\ Level(f) = g[n + 2]
  <2>1. n + 1 \in 0..N /\ n + 2 \in 1..N /\ (n + 2) - 1 = n + 1  BY <1>1, <1>2
  <2> QED  BY <1>8, <1>9, <2>1
<1>13. \A S \in SUBSET Processes : Level(f)[S] = f[S]
  <2>1. SUFFICES ASSUME NEW S \in SUBSET Processes PROVE Level(f)[S] = f[S]  OBVIOUS
  <2>2. PICK T \in SUBSET Processes : T = Processes \ S  OBVIOUS
  <2>3. Cardinality(T) \in Nat /\ Cardinality(T) <= n
    BY <1>1, GroupingAssumption, FS_Subset, FS_CardinalityType
  <2>4. n + 1 \in 1..(n + 1) /\ Cardinality(T) < n + 1 /\ (n + 1) + 1 = n + 2  BY <1>1, <2>3
  <2>5. T \in A  BY <1>11
  <2>6. g[(n + 1) + 1][Processes \ T] = g[n + 1][Processes \ T]  BY <2>4, <2>5
  <2>7. Processes \ T = S  BY <2>2
  <2> QED  BY <1>12, <2>4, <2>6, <2>7
<1>14. Level(f) = f
  <2>1. Level(f) \in Resolutions  BY LevelType
  <2> QED  BY <1>13, <2>1 DEF Resolutions
<1> QED  BY <1>14

\* The recursion over visited processes exists: Resolve is its own unfolding.
LEMMA ResolveIs ==
  ASSUME TreeTyped
  PROVE  \A S \in SUBSET Processes :
           /\ Resolve[S] = [p \in Processes |-> Resolve[S][p]]
           /\ \A p \in Processes :
                Resolve[S][p] = IF scope[p] # "none" THEN Direct(p)
                                ELSE IF p \in S \/ ppid[p] = 0 THEN UnknownOf(p)
                                ELSE Inherited(p, Resolve[S \cup {p}][ppid[p]])
<1>1. Resolve = CHOOSE f : f = Level(f)  BY DEF Resolve, Level
<1>2. Resolve = Level(Resolve)  BY <1>1, ResolveExists
<1>3. PICK r : r = Resolve  OBVIOUS
<1>4. r = Level(r)  BY <1>2, <1>3
<1>5. SUFFICES ASSUME NEW S \in SUBSET Processes
               PROVE  /\ r[S] = [p \in Processes |-> r[S][p]]
                      /\ \A p \in Processes :
                           r[S][p] = IF scope[p] # "none" THEN Direct(p)
                                     ELSE IF p \in S \/ ppid[p] = 0 THEN UnknownOf(p)
                                     ELSE Inherited(p, r[S \cup {p}][ppid[p]])
  BY <1>3
<1>6. PICK h : h = [p \in Processes |->
                      IF scope[p] # "none" THEN Direct(p)
                      ELSE IF p \in S \/ ppid[p] = 0 THEN UnknownOf(p)
                      ELSE Inherited(p, r[S \cup {p}][ppid[p]])]
  OBVIOUS
<1>7. Level(r)[S] = h  BY <1>6 DEF Level
<1>8. r[S] = h  BY <1>4, <1>7
<1> QED  BY <1>6, <1>8

\* The walk up, one parent at a time.
NearestType == [Processes -> Processes \cup {0}]

Further(v) ==
  [p \in Processes |->
     IF ppid[p] = 0 THEN 0
     ELSE IF group[ppid[p]].by = "DesktopEntryExact" THEN ppid[p]
     ELSE IF group[ppid[p]].by = "Unknown" THEN 0
     ELSE v[ppid[p]]]

\* The climb to the nearest desktop entry is its own recurrence.
LEMMA NearestIs ==
  ASSUME TreeTyped, NEW n \in Nat, n = Cardinality(Processes)
  PROVE  /\ Nearest[0] = [p \in Processes |-> 0]
         /\ \A k \in 1..(n + 1) : Nearest[k] = Further(Nearest[k - 1])
<1>1. PICK N \in Nat : N = n + 1  OBVIOUS
<1>2. PICK none : none = [p \in Processes |-> 0]  OBVIOUS
<1>3. none \in NearestType  BY <1>2 DEF NearestType
<1>4. \A v \in NearestType : Further(v) \in NearestType
  BY DEF NearestType, Further, TreeTyped
<1>5. PICK st : st = [x \in (1..N) \X NearestType |-> Further(x[2])]  OBVIOUS
<1>6. \A i \in 1..N : \A v \in NearestType : st[<<i, v>>] = Further(v)  BY <1>5
<1>7. \A i \in 1..N : \A v \in NearestType : st[<<i, v>>] \in NearestType  BY <1>4, <1>6
<1>8. PICK g \in [0..N -> NearestType] : Steps(g, N, none, st)  BY <1>1, <1>3, <1>7, StepsExist
<1>9. /\ g[0] = none
      /\ \A i \in 1..N : g[i] = Further(g[i - 1])
  <2>1. \A j \in 0..N : g[j] = IF j = 0 THEN none ELSE st[<<j, g[j - 1]>>]  BY <1>8 DEF Steps
  <2>2. 0 \in 0..N  BY <1>1
  <2>3. ASSUME NEW i \in 1..N PROVE g[i] = Further(g[i - 1])
    <3>1. i \in 0..N /\ i # 0 /\ i - 1 \in 0..N  BY <1>1
    <3>2. g[i] = st[<<i, g[i - 1]>>]  BY <2>1, <3>1
    <3> QED  BY <1>6, <1>8, <3>1, <3>2
  <2> QED  BY <2>1, <2>2, <2>3
<1>10. g = [k \in 0..(n + 1) |->
              [p \in Processes |->
                 IF k = 0 \/ ppid[p] = 0 THEN 0
                 ELSE IF group[ppid[p]].by = "DesktopEntryExact" THEN ppid[p]
                 ELSE IF group[ppid[p]].by = "Unknown" THEN 0
                 ELSE g[k - 1][ppid[p]]]]
  <2>1. ASSUME NEW k \in 0..(n + 1)
        PROVE  g[k] = [p \in Processes |->
                         IF k = 0 \/ ppid[p] = 0 THEN 0
                         ELSE IF group[ppid[p]].by = "DesktopEntryExact" THEN ppid[p]
                         ELSE IF group[ppid[p]].by = "Unknown" THEN 0
                         ELSE g[k - 1][ppid[p]]]
    <3>1. CASE k = 0  BY <1>2, <1>9, <3>1
    <3>2. CASE k # 0
      <4>1. k \in 1..N  BY <1>1, <3>2
      <4>2. g[k] = Further(g[k - 1])  BY <1>9, <4>1
      <4> QED  BY <3>2, <4>2 DEF Further
    <3> QED  BY <3>1, <3>2
  <2>2. g = [k \in 0..(n + 1) |-> g[k]]  BY <1>1, <1>8
  <2> QED  BY <2>1, <2>2
<1>11. Nearest = CHOOSE f : f = [k \in 0..(n + 1) |->
              [p \in Processes |->
                 IF k = 0 \/ ppid[p] = 0 THEN 0
                 ELSE IF group[ppid[p]].by = "DesktopEntryExact" THEN ppid[p]
                 ELSE IF group[ppid[p]].by = "Unknown" THEN 0
                 ELSE f[k - 1][ppid[p]]]]
  BY DEF Nearest
<1>12. PICK w : /\ w = Nearest
               /\ w = [k \in 0..(n + 1) |->
                        [p \in Processes |->
                           IF k = 0 \/ ppid[p] = 0 THEN 0
                           ELSE IF group[ppid[p]].by = "DesktopEntryExact" THEN ppid[p]
                           ELSE IF group[ppid[p]].by = "Unknown" THEN 0
                           ELSE w[k - 1][ppid[p]]]]
  BY <1>10, <1>11
<1>13. w[0] = [p \in Processes |-> 0]
  <2>1. 0 \in 0..(n + 1)  OBVIOUS
  <2> QED  BY <1>12, <2>1
<1>14. ASSUME NEW k \in 1..(n + 1) PROVE w[k] = Further(w[k - 1])
  <2>1. k \in 0..(n + 1) /\ k # 0  OBVIOUS
  <2>2. PICK u : u = w[k - 1]  OBVIOUS
  <2>3. w[k] = [p \in Processes |->
                  IF k = 0 \/ ppid[p] = 0 THEN 0
                  ELSE IF group[ppid[p]].by = "DesktopEntryExact" THEN ppid[p]
                  ELSE IF group[ppid[p]].by = "Unknown" THEN 0
                  ELSE u[ppid[p]]]
    BY <1>12, <2>1, <2>2, ZenonT(60)
  <2>4. w[k] = Further(u)  BY <2>1, <2>3 DEF Further
  <2> QED  BY <2>2, <2>4
<1> QED  BY <1>12, <1>13, <1>14

\* What the walk up finds is above, and resolved by a desktop entry.
LEMMA NearestIsAbove ==
  ASSUME TreeTyped, NEW p \in Processes, NearestDesktop(p) # 0
  PROVE  NearestDesktop(p) \in Line(p) /\ group[NearestDesktop(p)].by = "DesktopEntryExact"
<1>1. PICK n \in Nat : n = Cardinality(Processes)  BY GroupingAssumption, FS_CardinalityType
<1>2. PICK N \in Nat : N = n + 1  OBVIOUS
<1> DEFINE Found(k) == \A q \in Processes :
              Nearest[k][q] # 0 => Nearest[k][q] \in Line(q) /\ group[Nearest[k][q]].by = "DesktopEntryExact"
           A == {k \in 0..N : Found(k)}
<1>3. 0 \in A
  <2>1. \A q \in Processes : Nearest[0][q] = 0  BY <1>1, NearestIs
  <2> QED  BY <1>2, <2>1
<1>4. ASSUME NEW k \in 1..N, k - 1 \in A PROVE k \in A
  <2>1. SUFFICES ASSUME NEW q \in Processes, Nearest[k][q] # 0
                 PROVE  Nearest[k][q] \in Line(q) /\ group[Nearest[k][q]].by = "DesktopEntryExact"
    BY <1>2
  <2>2. PICK u, v : u = Nearest[k - 1] /\ v = Nearest[k] /\ v = Further(u)  BY <1>1, <1>2, NearestIs
  <2>3. v[q] = IF ppid[q] = 0 THEN 0
               ELSE IF group[ppid[q]].by = "DesktopEntryExact" THEN ppid[q]
               ELSE IF group[ppid[q]].by = "Unknown" THEN 0
               ELSE u[ppid[q]]
    BY <2>2 DEF Further
  <2>4. ppid[q] # 0 /\ ppid[q] \in Processes /\ ppid[q] \in Line(q) /\ Line(ppid[q]) \subseteq Line(q)
    <3>1. ppid[q] # 0  BY <2>1, <2>2, <2>3
    <3> QED  BY <3>1, LineIs
  <2>5. CASE group[ppid[q]].by = "DesktopEntryExact"  BY <2>2, <2>3, <2>4, <2>5
  <2>6. CASE group[ppid[q]].by # "DesktopEntryExact"
    <3>1. v[q] = u[ppid[q]] /\ v[q] # 0  BY <2>1, <2>2, <2>3, <2>4, <2>6
    <3>2. Found(k - 1)  BY <1>4
    <3>3. u[ppid[q]] \in Line(ppid[q]) /\ group[u[ppid[q]]].by = "DesktopEntryExact"  BY <2>2, <2>4, <3>1, <3>2
    <3> QED  BY <2>2, <2>4, <3>1, <3>3
  <2> QED  BY <2>5, <2>6
<1>5. N \in A
  <2> HIDE DEF A
  <2>1. \A i \in 0..N : i \in A  BY <1>2, <1>3, <1>4, CountingUp
  <2> QED  BY <1>2, <2>1
<1>6. NearestDesktop(p) = Nearest[N][p]  BY <1>1, <1>2 DEF NearestDesktop
<1> QED  BY <1>5, <1>6

\* A growing family of sets of at most n members stops growing within n steps.
LEMMA GrowthEnds ==
  ASSUME NEW S, IsFiniteSet(S), NEW n \in Nat, n = Cardinality(S),
         NEW b, \A k \in 0..(n + 1) : b[k] \subseteq S,
         \A k \in 1..(n + 1) : b[k - 1] \subseteq b[k],
         \A k \in 1..n : b[k] = b[k - 1] => b[k + 1] = b[k]
  PROVE  b[n + 1] = b[n]
<1>1. PICK N \in Nat : N = n + 1  OBVIOUS
<1> DEFINE Done(k) == k >= 1 /\ b[k] = b[k - 1]
           A == {k \in 0..N : Done(k) \/ Cardinality(b[k]) >= k}
<1>2. \A k \in 0..N : IsFiniteSet(b[k]) /\ Cardinality(b[k]) \in Nat /\ Cardinality(b[k]) <= n
  <2>1. SUFFICES ASSUME NEW k \in 0..N
                 PROVE  IsFiniteSet(b[k]) /\ Cardinality(b[k]) \in Nat /\ Cardinality(b[k]) <= n
    OBVIOUS
  <2>2. b[k] \in SUBSET S  BY <1>1
  <2> QED  BY <2>2, FS_Subset, FS_CardinalityType
<1>3. 0 \in A
  <2>1. 0 \in 0..N  BY <1>1
  <2>2. Cardinality(b[0]) >= 0  BY <1>2, <2>1
  <2> QED  BY <2>1, <2>2
<1>4. ASSUME NEW k \in 1..N, k - 1 \in A PROVE k \in A
  <2>1. k \in 0..N /\ k - 1 \in 0..N  BY <1>1
  <2>2. CASE b[k] = b[k - 1]  BY <2>1, <2>2
  <2>3. CASE b[k] # b[k - 1]
    <3>1. ~Done(k - 1)
      <4>1. SUFFICES ASSUME k - 1 >= 1, b[k - 1] = b[(k - 1) - 1] PROVE FALSE  OBVIOUS
      <4>2. k - 1 \in 1..n /\ (k - 1) + 1 = k  BY <1>1, <4>1
      <4>3. b[(k - 1) + 1] = b[k - 1]  BY <4>1, <4>2
      <4> QED  BY <2>3, <4>2, <4>3
    <3>2. Cardinality(b[k - 1]) >= k - 1  BY <1>4, <3>1
    <3>3. b[k - 1] \in SUBSET b[k] /\ b[k - 1] # b[k]  BY <1>1, <2>3
    <3>4. Cardinality(b[k - 1]) < Cardinality(b[k])
      <4>1. IsFiniteSet(b[k])  BY <1>2, <2>1
      <4>2. /\ Cardinality(b[k - 1]) <= Cardinality(b[k])
            /\ Cardinality(b[k]) = Cardinality(b[k - 1]) => b[k] = b[k - 1]
        BY <3>3, <4>1, FS_Subset
      <4>3. Cardinality(b[k]) \in Nat /\ Cardinality(b[k - 1]) \in Nat  BY <1>2, <2>1
      <4> QED  BY <3>3, <4>2, <4>3
    <3>5. Cardinality(b[k]) >= k  BY <1>2, <2>1, <3>2, <3>4
    <3> QED  BY <2>1, <3>5
  <2> QED  BY <2>2, <2>3
<1>5. N \in A
  <2> HIDE DEF A
  <2>1. \A i \in 0..N : i \in A  BY <1>1, <1>3, <1>4, CountingUp
  <2> QED  BY <1>1, <2>1
<1>6. Cardinality(b[N]) <= n  BY <1>1, <1>2
<1>7. Done(N)  BY <1>1, <1>2, <1>5, <1>6
<1> QED  BY <1>1, <1>7

\* If it finds nothing, no process on the line is in a desktop entry's scope.
LEMMA NearestMisses ==
  ASSUME TreeTyped, NEW p \in Processes, NearestDesktop(p) = 0, scope[p] \notin Desktops,
         \A q \in Processes : group[q].by = "DesktopEntryExact" <=> scope[q] \in Desktops,
         \A q \in Processes : group[q].by = "Unknown" => \A x \in Line(q) : scope[x] = "none"
  PROVE  \A q \in Line(p) : scope[q] \notin Desktops
<1>1. PICK n \in Nat : n = Cardinality(Processes)  BY GroupingAssumption, FS_CardinalityType
<1>2. PICK b : b = [k \in 0..(n + 1) |-> {x \in Processes : Nearest[k][x] # 0}]  OBVIOUS
<1>3. b[0] = {} /\ \A k \in 0..(n + 1) : b[k] \subseteq Processes
  <2>1. 0 \in 0..(n + 1) /\ \A x \in Processes : Nearest[0][x] = 0  BY <1>1, NearestIs
  <2> QED  BY <1>2, <2>1
<1>4. ASSUME NEW k \in 1..(n + 1), NEW x \in Processes
      PROVE  x \in b[k] <=> /\ ppid[x] # 0
                            /\ \/ group[ppid[x]].by = "DesktopEntryExact"
                               \/ group[ppid[x]].by # "Unknown" /\ ppid[x] \in b[k - 1]
  <2>1. k \in 0..(n + 1) /\ k - 1 \in 0..(n + 1)  OBVIOUS
  <2>2. PICK u, v : u = Nearest[k - 1] /\ v = Nearest[k] /\ v = Further(u)  BY <1>1, NearestIs
  <2>3. v[x] = IF ppid[x] = 0 THEN 0
               ELSE IF group[ppid[x]].by = "DesktopEntryExact" THEN ppid[x]
               ELSE IF group[ppid[x]].by = "Unknown" THEN 0
               ELSE u[ppid[x]]
    BY <2>2 DEF Further
  <2>4. ppid[x] # 0 => ppid[x] \in Processes  BY LineIs
  <2>5. x \in b[k] <=> v[x] # 0  BY <1>2, <2>1, <2>2
  <2>6. ppid[x] # 0 => (ppid[x] \in b[k - 1] <=> u[ppid[x]] # 0)  BY <1>2, <2>1, <2>2, <2>4
  <2> QED  BY <2>3, <2>5, <2>6
<1>5. \A k \in 1..(n + 1) : b[k - 1] \subseteq b[k]
  <2>1. PICK N \in Nat : N = n  OBVIOUS
  <2> DEFINE A == {k \in 0..N : b[k] \subseteq b[k + 1]}
  <2>2. 0 \in A  BY <1>3, <2>1
  <2>3. ASSUME NEW k \in 1..N, k - 1 \in A PROVE k \in A
    <3>1. k \in 0..N /\ k \in 1..(n + 1) /\ k + 1 \in 1..(n + 1) /\ (k + 1) - 1 = k /\ (k - 1) + 1 = k
      BY <2>1
    <3>2. SUFFICES ASSUME NEW x \in b[k] PROVE x \in b[k + 1]  BY <3>1
    <3>3. x \in Processes  BY <1>3, <3>1
    <3>4. b[k - 1] \subseteq b[k]  BY <2>3, <3>1
    <3> QED  BY <1>4, <3>1, <3>2, <3>3, <3>4
  <2>4. \A k \in 0..N : k \in A
    <3>1. \A k \in 1..N : k - 1 \in A => k \in A  BY <2>3
    <3>2. N \in Nat /\ 0 \in A  BY <2>1, <2>2
    <3> HIDE DEF A
    <3> QED  BY <3>1, <3>2, CountingUp
  <2>5. ASSUME NEW k \in 1..(n + 1) PROVE b[k - 1] \subseteq b[k]
    <3>1. k - 1 \in 0..N /\ (k - 1) + 1 = k  BY <2>1
    <3>2. k - 1 \in A  BY <2>4, <3>1
    <3> QED  BY <3>1, <3>2
  <2> QED  BY <2>5
<1>6. \A k \in 1..n : b[k] = b[k - 1] => b[k + 1] = b[k]
  <2>1. SUFFICES ASSUME NEW k \in 1..n, b[k] = b[k - 1] PROVE b[k + 1] = b[k]  OBVIOUS
  <2>2. /\ k \in 1..(n + 1) /\ k + 1 \in 1..(n + 1) /\ (k + 1) - 1 = k
        /\ k \in 0..(n + 1) /\ k + 1 \in 0..(n + 1)
    OBVIOUS
  <2>3. \A x \in Processes : x \in b[k + 1] <=> x \in b[k]
    <3>1. SUFFICES ASSUME NEW x \in Processes PROVE x \in b[k + 1] <=> x \in b[k]  OBVIOUS
    <3>2. x \in b[k + 1] <=> /\ ppid[x] # 0
                             /\ \/ group[ppid[x]].by = "DesktopEntryExact"
                                \/ group[ppid[x]].by # "Unknown" /\ ppid[x] \in b[k]
      BY <1>4, <2>2
    <3>3. x \in b[k] <=> /\ ppid[x] # 0
                         /\ \/ group[ppid[x]].by = "DesktopEntryExact"
                            \/ group[ppid[x]].by # "Unknown" /\ ppid[x] \in b[k - 1]
      BY <1>4, <2>2
    <3> QED  BY <2>1, <3>2, <3>3
  <2> QED  BY <1>3, <2>2, <2>3
<1>7. b[n + 1] = b[n]
  <2>1. PICK S : S = Processes  OBVIOUS
  <2>2. IsFiniteSet(S) /\ n = Cardinality(S) /\ \A k \in 0..(n + 1) : b[k] \subseteq S
    BY <1>1, <1>3, <2>1, GroupingAssumption
  <2> QED  BY <1>5, <1>6, <2>2, GrowthEnds
<1>8. PICK T \in SUBSET Processes :
         T = {x \in Processes : \/ x \notin b[n + 1] /\ group[x].by # "DesktopEntryExact"
                               \/ \A y \in Line(x) : scope[y] = "none"}
  OBVIOUS
<1>9. Upward(T)
  <2>1. SUFFICES ASSUME NEW x \in T, ppid[x] # 0 PROVE ppid[x] \in T  BY DEF Upward
  <2>2. x \in Processes /\ ppid[x] \in Processes /\ Line(ppid[x]) \subseteq Line(x)  BY <2>1, LineIs
  <2>3. CASE \A y \in Line(x) : scope[y] = "none"  BY <1>8, <2>2, <2>3
  <2>4. CASE x \notin b[n + 1]
    <3>1. n + 1 \in 1..(n + 1) /\ (n + 1) - 1 = n  OBVIOUS
    <3>2. /\ group[ppid[x]].by # "DesktopEntryExact"
          /\ group[ppid[x]].by = "Unknown" \/ ppid[x] \notin b[n + 1]
      BY <1>4, <1>7, <2>1, <2>2, <2>4, <3>1
    <3>3. CASE group[ppid[x]].by = "Unknown"  BY <1>8, <2>2, <3>3
    <3>4. CASE ppid[x] \notin b[n + 1]  BY <1>8, <2>2, <3>2, <3>4
    <3> QED  BY <3>2, <3>3, <3>4
  <2> QED  BY <1>8, <2>3, <2>4
<1>10. p \in T
  <2>1. NearestDesktop(p) = Nearest[n + 1][p]  BY <1>1 DEF NearestDesktop
  <2>2. n + 1 \in 0..(n + 1)  OBVIOUS
  <2>3. p \notin b[n + 1]  BY <1>2, <2>1, <2>2
  <2> QED  BY <1>8, <2>3
<1>11. ASSUME NEW q \in Line(p) PROVE scope[q] \notin Desktops
  <2>1. q \in T /\ q \in Processes  BY <1>9, <1>10, LineIs
  <2>2. CASE group[q].by # "DesktopEntryExact"  BY <2>1, <2>2
  <2>3. CASE \A y \in Line(q) : scope[y] = "none"
    <3>1. scope[q] = "none"  BY <2>1, <2>3, LineIs
    <3> QED  BY <3>1, GroupingAssumption
  <2> QED  BY <1>8, <2>1, <2>2, <2>3
<1> QED  BY <1>11

\* A good verdict a on q: by the scope if there is one, else from above.
Judged(q, a) ==
  /\ a.by \in Verdicts
  /\ a.by = "DesktopEntryExact" <=> scope[q] \in Desktops
  /\ a.by = "CgroupScope" => scope[q] \notin Desktops
  /\ a.by = "Unknown" => a.key = OwnKey(q)
  /\ a.by # "Unknown" => \E x \in Line(q) : scope[x] # "none" /\ KeyOf(scope[x]) = a.key

\* The first pass judges every process by its own scope or from above.
LEMMA ResolveJudges ==
  ASSUME TreeTyped, NEW p \in Processes
  PROVE  Judged(p, Resolve[{}][p])
<1> DEFINE A == {T \in SUBSET Processes : \A q \in Processes : Judged(q, Resolve[Processes \ T][q])}
<1>1. ASSUME NEW T \in SUBSET Processes, \A U \in SUBSET T : U # T => U \in A
      PROVE  T \in A
  <2>1. SUFFICES ASSUME NEW q \in Processes PROVE Judged(q, Resolve[Processes \ T][q])  OBVIOUS
  <2>2. PICK S \in SUBSET Processes : S = Processes \ T  OBVIOUS
  <2>3. PICK a : a = Resolve[S][q]  OBVIOUS
  <2>4. a = IF scope[q] # "none" THEN Direct(q)
            ELSE IF q \in S \/ ppid[q] = 0 THEN UnknownOf(q)
            ELSE Inherited(q, Resolve[S \cup {q}][ppid[q]])
    BY <2>3, ResolveIs
  <2>5. q \in Line(q)  BY LineIs
  <2>6. CASE scope[q] # "none"
    <3>1. a.key = KeyOf(scope[q])
          /\ a.by = IF scope[q] \in Desktops THEN "DesktopEntryExact" ELSE "CgroupScope"
      BY <2>4, <2>6 DEF Direct
    <3>2. Judged(q, a)  BY <2>5, <2>6, <3>1 DEF Judged, Verdicts
    <3> QED  BY <2>2, <2>3, <3>2
  <2>7. CASE scope[q] = "none" /\ a = UnknownOf(q)
    <3>1. a.key = OwnKey(q) /\ a.by = "Unknown"  BY <2>7 DEF UnknownOf
    <3>2. Judged(q, a)  BY <2>7, <3>1, GroupingAssumption DEF Judged, Verdicts
    <3> QED  BY <2>2, <2>3, <3>2
  <2>8. CASE scope[q] = "none" /\ q \notin S /\ ppid[q] # 0
             /\ a = Inherited(q, Resolve[S \cup {q}][ppid[q]])
    <3>1. PICK u \in Processes : u = ppid[q] /\ Line(u) \subseteq Line(q)  BY <2>8, LineIs
    <3>2. PICK above : above = Resolve[S \cup {q}][u]  OBVIOUS
    <3>3. Judged(u, above)
      <4>1. PICK U \in SUBSET T : U = T \ {q}  OBVIOUS
      <4>2. U # T /\ Processes \ U = S \cup {q}  BY <2>2, <2>8, <4>1
      <4>3. U \in A  BY <1>1, <4>2
      <4> QED  BY <3>2, <4>2, <4>3
    <3>4. CASE above.by = "Unknown"
      <4>1. a = UnknownOf(q)  BY <2>8, <3>1, <3>2, <3>4 DEF Inherited
      <4> QED  BY <2>7, <2>8, <4>1
    <3>5. CASE above.by # "Unknown"
      <4>1. a.key = above.key /\ a.by = "InheritedParent"  BY <2>8, <3>1, <3>2, <3>5 DEF Inherited
      <4>2. \E x \in Line(q) : scope[x] # "none" /\ KeyOf(scope[x]) = a.key  BY <3>1, <3>3, <3>5, <4>1 DEF Judged
      <4>3. Judged(q, a)  BY <2>8, <4>1, <4>2, GroupingAssumption DEF Judged, Verdicts
      <4> QED  BY <2>2, <2>3, <4>3
    <3> QED  BY <3>4, <3>5
  <2> QED  BY <2>4, <2>6, <2>7, <2>8
<1>2. \A T \in SUBSET Processes : T \in A
  <2> HIDE DEF A
  <2> QED  BY <1>1, GroupingAssumption, SubsetInduction
<1>3. Processes \in A /\ Processes \ Processes = {}  BY <1>2
<1> QED  BY <1>3

\* Who stays unknown has no scope on its line: the walk has ended at the top, at
\* an unknown process or in a cycle.
LEMMA UnknownIsUnscoped ==
  ASSUME TreeTyped, NEW p \in Processes, Resolve[{}][p].by = "Unknown"
  PROVE  \A x \in Line(p) : scope[x] = "none"
<1> DEFINE Bare(C) == Upward(C) /\ \A x \in C : scope[x] = "none"
           Walked(S, q) == \A x \in S : scope[x] = "none" /\ ppid[x] \in S \cup {q, 0}
           A == {T \in SUBSET Processes : \A q \in Processes :
                   Walked(Processes \ T, q) /\ Resolve[Processes \ T][q].by = "Unknown" =>
                     \E C \in SUBSET Processes : Bare(C) /\ q \in C}
<1>1. ASSUME NEW T \in SUBSET Processes, \A U \in SUBSET T : U # T => U \in A
      PROVE  T \in A
  <2>1. PICK S \in SUBSET Processes : S = Processes \ T  OBVIOUS
  <2>2. SUFFICES ASSUME NEW q \in Processes, Walked(S, q), Resolve[S][q].by = "Unknown"
                 PROVE  \E C \in SUBSET Processes : Bare(C) /\ q \in C
    BY <2>1
  <2>3. Resolve[S][q] = IF scope[q] # "none" THEN Direct(q)
                        ELSE IF q \in S \/ ppid[q] = 0 THEN UnknownOf(q)
                        ELSE Inherited(q, Resolve[S \cup {q}][ppid[q]])
    BY ResolveIs
  <2>4. scope[q] = "none"
    <3>1. SUFFICES ASSUME scope[q] # "none" PROVE FALSE  OBVIOUS
    <3>2. Direct(q).by \in {"DesktopEntryExact", "CgroupScope"}  BY DEF Direct
    <3> QED  BY <2>2, <2>3, <3>1, <3>2
  <2>5. CASE q \in S
    <3>1. Bare(S)  BY <2>2, <2>5 DEF Upward
    <3> QED  BY <2>5, <3>1
  <2>6. CASE q \notin S /\ ppid[q] = 0
    <3>1. PICK C \in SUBSET Processes : C = S \cup {q}  OBVIOUS
    <3>2. Bare(C)  BY <2>2, <2>4, <2>6, <3>1 DEF Upward
    <3> QED  BY <3>1, <3>2
  <2>7. CASE q \notin S /\ ppid[q] # 0
    <3>1. PICK u \in Processes : u = ppid[q]  BY <2>7, LineIs
    <3>2. PICK C \in SUBSET Processes : C = S \cup {q}  OBVIOUS
    <3>3. Walked(C, u)  BY <2>2, <2>4, <3>1, <3>2
    <3>4. Resolve[C][u].by = "Unknown"
      <4>1. SUFFICES ASSUME Resolve[C][u].by # "Unknown" PROVE FALSE  OBVIOUS
      <4>2. Resolve[S][q] = Inherited(q, Resolve[C][u])  BY <2>3, <2>4, <2>7, <3>1, <3>2
      <4>3. Inherited(q, Resolve[C][u]).by = "InheritedParent"  BY <4>1 DEF Inherited
      <4> QED  BY <2>2, <4>2, <4>3
    <3>5. \E D \in SUBSET Processes : Bare(D) /\ u \in D
      <4>1. PICK U \in SUBSET T : U = T \ {q}  OBVIOUS
      <4>2. U # T /\ Processes \ U = C  BY <2>1, <2>7, <3>2, <4>1
      <4>3. U \in A  BY <1>1, <4>2
      <4> QED  BY <3>3, <3>4, <4>2, <4>3
    <3>6. PICK D \in SUBSET Processes : Bare(D) /\ u \in D  BY <3>5
    <3>7. PICK E \in SUBSET Processes : E = D \cup {q}  OBVIOUS
    <3>8. Bare(E)  BY <2>4, <3>1, <3>6, <3>7 DEF Upward
    <3> QED  BY <3>7, <3>8
  <2> QED  BY <2>5, <2>6, <2>7
<1>2. \A T \in SUBSET Processes : T \in A
  <2> HIDE DEF A
  <2> QED  BY <1>1, GroupingAssumption, SubsetInduction
<1>3. PICK C \in SUBSET Processes : Bare(C) /\ p \in C
  <2>1. Processes \in A /\ Processes \ Processes = {}  BY <1>2
  <2>2. Walked({}, p)  OBVIOUS
  <2> QED  BY <2>1, <2>2
<1> QED  BY <1>3, LineIs

\* Once resolved, every verdict is good, and what is unknown has no scope above it;
\* once adopted, no opaque scope is left below a desktop entry's.
Resolved ==
  pass # "read" => \A p \in Processes :
    Judged(p, group[p]) /\ (group[p].by = "Unknown" => \A x \in Line(p) : scope[x] = "none")

Adopted ==
  pass \in {"adopted", "done"} => \A p \in Processes :
    group[p].by = "CgroupScope" => \A x \in Line(p) : scope[x] \notin Desktops

GroupInv ==
  /\ TreeTyped /\ pass \in {"read", "resolved", "adopted", "done"}
  /\ pass = "read" => group = [p \in Processes |-> UnknownOf(p)]
  /\ Resolved /\ Adopted /\ ScopesFollowDesktop

\* Before the first pass every process is unknown.
LEMMA GroupingStarts == GroupingInit => GroupInv
BY DEF GroupingInit, GroupInv, TreeTyped, Scopes, Resolved, Adopted, ScopesFollowDesktop

\* Lines and judgements are about parents and scopes, which no pass changes.
LEMMA TreeKept ==
  ASSUME TreeTyped, ppid' = ppid, scope' = scope
  PROVE  /\ TreeTyped' /\ \A p : Line(p)' = Line(p)
         /\ \A p, a : Judged(p, a)' <=> Judged(p, a)
<1>1. TreeTyped'  BY DEF TreeTyped
<1>2. \A p : Line(p)' = Line(p)  BY DEF Line, Upward
<1>3. \A p, a : Judged(p, a)' <=> Judged(p, a)  BY <1>2 DEF Judged
<1> QED  BY <1>1, <1>2, <1>3

\* A pass over a resolved grouping, or the first one.
LEMMA PassKeeps ==
  ASSUME GroupInv, ppid' = ppid, scope' = scope, pass' = "resolved", bound' = bound,
         \A p \in Processes :
           /\ Judged(p, group'[p])
           /\ group'[p].by = "Unknown" => \A x \in Line(p) : scope[x] = "none"
  PROVE  GroupInv'
<1>1. TreeTyped'  BY TreeKept DEF GroupInv
<1>2. Resolved'
  <2>1. ASSUME NEW p \in Processes
        PROVE  (Judged(p, group[p]) /\ (group[p].by = "Unknown" => \A x \in Line(p) : scope[x] = "none"))'
    <3>1. PICK a : a = group'[p]  OBVIOUS
    <3>2. Judged(p, a) /\ (a.by = "Unknown" => \A x \in Line(p) : scope[x] = "none")  BY <3>1
    <3>3. Judged(p, a)' /\ Line(p)' = Line(p)  BY <3>2, TreeKept DEF GroupInv
    <3> QED  BY <3>1, <3>2, <3>3 DEF Judged
  <2> QED  BY <2>1 DEF Resolved
<1>3. Adopted' /\ ScopesFollowDesktop'  BY DEF Adopted, ScopesFollowDesktop
<1> QED  BY <1>1, <1>2, <1>3 DEF GroupInv

\* The first pass leaves judgements.
LEMMA FirstPassKeeps ==
  ASSUME GroupInv, FirstPass
  PROVE  GroupInv'
<1>1. /\ TreeTyped /\ pass' = "resolved" /\ ppid' = ppid /\ scope' = scope /\ group' = Resolve[{}]
      /\ bound' = bound
  BY DEF GroupInv, FirstPass
<1>2. ASSUME NEW p \in Processes
      PROVE  /\ Judged(p, group'[p])
             /\ group'[p].by = "Unknown" => \A x \in Line(p) : scope[x] = "none"
  <2>1. Judged(p, Resolve[{}][p])  BY <1>1, ResolveJudges
  <2>2. Resolve[{}][p].by = "Unknown" => \A x \in Line(p) : scope[x] = "none"  BY <1>1, UnknownIsUnscoped
  <2> QED  BY <1>1, <2>1, <2>2
<1> QED  BY <1>1, <1>2, PassKeeps

\* The second pass leaves no opaque scope below a desktop entry.
LEMMA SecondPassKeeps ==
  ASSUME GroupInv, SecondPass
  PROVE  GroupInv'
<1>1. /\ TreeTyped /\ pass = "resolved" /\ ppid' = ppid /\ scope' = scope /\ bound' = bound
      /\ \A p \in Processes :
           Judged(p, group[p]) /\ (group[p].by = "Unknown" => \A x \in Line(p) : scope[x] = "none")
  BY DEF GroupInv, SecondPass, Resolved
<1>2. CASE \E p \in Processes : Adopts(p)
  <2>1. /\ pass' = "resolved"
        /\ group' = [p \in Processes |->
                       IF Adopts(p) THEN [key |-> group[NearestDesktop(p)].key, by |-> "InheritedParent"]
                       ELSE group[p]]
    BY <1>1, <1>2 DEF SecondPass
  <2>2. ASSUME NEW p \in Processes
        PROVE  /\ Judged(p, group'[p])
               /\ group'[p].by = "Unknown" => \A x \in Line(p) : scope[x] = "none"
    <3>1. CASE ~Adopts(p)  BY <1>1, <2>1, <3>1
    <3>2. CASE Adopts(p)
      <4>1. PICK d : d = NearestDesktop(p)  OBVIOUS
      <4>2. group[p].by = "CgroupScope" /\ d # 0  BY <3>2, <4>1 DEF Adopts
      <4>3. d \in Line(p) /\ group[d].by = "DesktopEntryExact"  BY <1>1, <4>1, <4>2, NearestIsAbove
      <4>4. d \in Processes /\ Line(d) \subseteq Line(p)  BY <1>1, <4>3, LineIs
      <4>5. PICK k : k = group[d].key  OBVIOUS
      <4>6. \E x \in Line(p) : scope[x] # "none" /\ KeyOf(scope[x]) = k
        BY <1>1, <4>3, <4>4, <4>5 DEF Judged
      <4>7. PICK a : a = [key |-> k, by |-> "InheritedParent"]  OBVIOUS
      <4>8. group'[p] = a  BY <2>1, <3>2, <4>1, <4>5, <4>7
      <4>9. scope[p] \notin Desktops  BY <1>1, <4>2 DEF Judged
      <4>10. Judged(p, a) /\ a.by # "Unknown"  BY <4>6, <4>7, <4>9 DEF Judged, Verdicts
      <4> QED  BY <4>8, <4>10
    <3> QED  BY <3>1, <3>2
  <2> QED  BY <1>1, <2>1, <2>2, PassKeeps
<1>3. CASE ~\E p \in Processes : Adopts(p)
  <2>1. pass' = "adopted" /\ group' = group  BY <1>1, <1>3 DEF SecondPass
  <2>2. TreeTyped'  BY <1>1, TreeKept
  <2>3. Resolved'
    BY <1>1, <2>1 DEF Resolved, Judged, Line, Upward
  <2>4. ASSUME NEW p \in Processes, group[p].by = "CgroupScope", NEW x \in Line(p)
        PROVE  scope[x] \notin Desktops
    <3>1. NearestDesktop(p) = 0  BY <1>3, <2>4 DEF Adopts
    <3>2. scope[p] \notin Desktops  BY <1>1, <2>4 DEF Judged
    <3>3. \A q \in Processes : group[q].by = "DesktopEntryExact" <=> scope[q] \in Desktops
      BY <1>1 DEF Judged
    <3>4. \A q \in Processes : group[q].by = "Unknown" => \A y \in Line(q) : scope[y] = "none"  BY <1>1
    <3>5. \A q \in Line(p) : scope[q] \notin Desktops
      BY <1>1, <3>1, <3>2, <3>3, <3>4, NearestMisses
    <3> QED  BY <2>4, <3>5
  <2>5. Adopted'  BY <1>1, <2>1, <2>4 DEF Adopted, Line, Upward
  <2>6. ScopesFollowDesktop'  BY <2>1 DEF ScopesFollowDesktop
  <2> QED  BY <2>1, <2>2, <2>3, <2>5, <2>6 DEF GroupInv
<1> QED  BY <1>2, <1>3

\* The earliest of some processes is one of them.
LEMMA EarliestIs ==
  ASSUME NEW S \in SUBSET Processes, S # {}
  PROVE  Earliest(S) \in S
<1>1. S \subseteq Nat  BY GroupingAssumption
<1>2. \E p \in S : \A q \in S : p <= q
  <2>1. PICK p \in S : \A q \in S : ~(<<q, p>> \in OpToRel(<, Nat))
    BY <1>1, NatLessThanWellFounded, WFMin
  <2>2. \A q \in S : ~(q < p)  BY <1>1, <2>1 DEF OpToRel
  <2>3. \A q \in S : p <= q  BY <1>1, <2>2
  <2> QED  BY <2>3
<1> QED  BY <1>2 DEF Earliest

\* Binding scopes changes no group.
LEMMA ScopesAreBound ==
  ASSUME GroupInv, BindScopes
  PROVE  GroupInv'
<1>1. /\ TreeTyped /\ pass = "adopted" /\ pass' = "done" /\ ppid' = ppid /\ scope' = scope /\ group' = group
      /\ bound' = [s \in {scope[p] : p \in Processes} \ {"none"} |-> Binding(s)]
  BY DEF GroupInv, BindScopes
<1>2. TreeTyped'  BY <1>1, TreeKept
<1>3. Resolved'  BY <1>1 DEF GroupInv, Resolved, Judged, Line, Upward
<1>4. Adopted'  BY <1>1 DEF GroupInv, Adopted, Line, Upward
<1>5. ASSUME NEW s \in DOMAIN bound', NEW p \in Members(s), group[p].key \in DesktopKeys
      PROVE  Binding(s) \in DesktopKeys
  <2>1. PICK D \in SUBSET Processes : D = {q \in Members(s) : group[q].key \in DesktopKeys}  BY DEF Members
  <2>2. D # {} /\ Binding(s) = group[Earliest(D)].key  BY <1>5, <2>1 DEF Binding
  <2>3. Earliest(D) \in D  BY <2>2, EarliestIs
  <2> QED  BY <2>1, <2>2, <2>3
<1>6. ScopesFollowDesktop'
  <2>1. SUFFICES ASSUME NEW s \in DOMAIN bound', NEW p \in Members(s)', group'[p].key \in DesktopKeys
                 PROVE  bound'[s] \in DesktopKeys
    BY DEF ScopesFollowDesktop
  <2>2. p \in Members(s) /\ group[p].key \in DesktopKeys  BY <1>1, <2>1 DEF Members
  <2>3. bound'[s] = Binding(s)  BY <1>1
  <2> QED  BY <1>5, <2>2, <2>3
<1> QED  BY <1>1, <1>2, <1>3, <1>4, <1>6 DEF GroupInv

\* Every pass keeps the invariant.
LEMMA GroupingStep ==
  ASSUME GroupInv, [GroupingNext]_groupingVars
  PROVE  GroupInv'
<1>1. CASE UNCHANGED groupingVars
  <2>1. ppid' = ppid /\ scope' = scope /\ group' = group /\ bound' = bound /\ pass' = pass
    BY <1>1 DEF groupingVars
  <2>2. TreeTyped'  BY <2>1, TreeKept DEF GroupInv
  <2>3. Resolved' /\ Adopted'  BY <2>1 DEF GroupInv, Resolved, Adopted, Judged, Line, Upward
  <2>4. ScopesFollowDesktop'  BY <2>1 DEF GroupInv, ScopesFollowDesktop, Members
  <2> QED  BY <2>1, <2>2, <2>3, <2>4 DEF GroupInv
<1> QED  BY <1>1, FirstPassKeeps, SecondPassKeeps, ScopesAreBound DEF GroupingNext

\* The grouping keeps its promises.
LEMMA GroupsAreReal ==
  GroupingSpec => [](GroupingTypeOK /\ KeysComeFromAbove /\ ScopesFollowDesktop)
<1>1. GroupInv => GroupingTypeOK /\ KeysComeFromAbove /\ ScopesFollowDesktop
  <2> SUFFICES ASSUME GroupInv
               PROVE  GroupingTypeOK /\ KeysComeFromAbove /\ ScopesFollowDesktop
    OBVIOUS
  <2>1. ASSUME NEW p \in Processes
        PROVE  /\ group[p].by \in Verdicts
               /\ group[p].by = "Unknown" <=> group[p].key = OwnKey(p)
    <3>1. CASE pass = "read"
      <4>1. group[p] = UnknownOf(p)  BY <3>1 DEF GroupInv
      <4> QED  BY <4>1 DEF UnknownOf, Verdicts
    <3>2. CASE pass # "read"
      <4>1. Judged(p, group[p])  BY <3>2 DEF GroupInv, Resolved
      <4>2. \A s : KeyOf(s) # OwnKey(p)  BY DEF KeyOf, OwnKey
      <4> QED  BY <4>1, <4>2 DEF Judged
    <3> QED  BY <3>1, <3>2
  <2>2. GroupingTypeOK  BY <2>1 DEF GroupInv, GroupingTypeOK, Verdicts
  <2>3. KeysComeFromAbove
    <3>1. SUFFICES ASSUME pass = "done", NEW p \in Processes
                   PROVE  /\ group[p].by # "Unknown" => \E q \in Line(p) : KeyOf(scope[q]) = group[p].key
                          /\ group[p].by = "CgroupScope" => \A q \in Line(p) : scope[q] \notin Desktops
                          /\ group[p].by = "Unknown" => \A q \in Line(p) : scope[q] = "none"
      BY DEF KeysComeFromAbove
    <3>2. Judged(p, group[p]) /\ (group[p].by = "Unknown" => \A x \in Line(p) : scope[x] = "none")
      BY <3>1 DEF GroupInv, Resolved
    <3>3. group[p].by = "CgroupScope" => \A x \in Line(p) : scope[x] \notin Desktops
      BY <3>1 DEF GroupInv, Adopted
    <3> QED  BY <3>2, <3>3 DEF Judged
  <2> QED  BY <2>2, <2>3 DEF GroupInv
<1> QED  BY <1>1, GroupingStarts, GroupingStep, PTL DEF GroupingSpec

\* Process figures are real: a reported process, its application and its metrics
\* are those of one process, a known share is the difference of its own counts, a
\* complete sample misses nobody, and a process is counted only under a scope of
\* its own line (procfs.rs, identity.rs, sampler.rs).
THEOREM ProcessFiguresStayReal == ProcessFiguresSpec => []ProcessFiguresAreReal
<1>1. /\ SamplingTypeOK /\ WholeProcess /\ CpuIsOwn /\ CompleteMissesNobody
      /\ GroupingTypeOK /\ KeysComeFromAbove /\ ScopesFollowDesktop
      => ProcessFiguresAreReal
  BY DEF ProcessFiguresAreReal
<1> QED  BY <1>1, SamplesAreReal, GroupsAreReal, PTL DEF ProcessFiguresSpec
=============================================================================
