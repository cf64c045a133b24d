--------------------------- MODULE RuntimeProofs ---------------------------
(***************************************************************************)
(* Proofs about what appd does for its clients, for any number of them:    *)
(* the usage query slot (UsageQuery), which implements BusySlot, the       *)
(* requests to cancel a speed test (SpeedTest), the output of a terminal   *)
(* (TerminalStream) and the permits of the server (IpcExchange).           *)
(***************************************************************************)
EXTENDS UsageQuery, SpeedTest, IpcExchange, TerminalStream, FiniteSums,
        FiniteSetTheorems, SequenceTheorems, TLAPS

-----------------------------------------------------------------------------
(* The usage query slot *)

\* The query thread has a request exactly while it is between receive and reply.
Serving == qpc \in {"begin", "begun", "running", "finish", "release"}

ThreadInStep ==
  /\ slot \in {<<>>, <<"Shutdown">>} \cup {<<r>> : r \in Queries}
  /\ Serving <=> qjob \in Queries
  /\ qpc \in {"begun", "running", "finish"} => qctl.current = qjob
  /\ hit => qpc \in {"running", "finish"}
  /\ joiner = "running" <=> ~qctl.stopping
  /\ slot = <<"Shutdown">> \/ qpc \in {"leaving", "exited"} => qctl.stopping

\* Until the thread is stopped one request at most is between reserve and
\* reply, in one place only, and then the flag is set.
OneHolder ==
  ~qctl.stopping =>
    /\ \A r, s \in Holders : r = s
    /\ ~busy => Holders = {}
    /\ \A r \in Queries :
         /\ slot = <<r>> \/ qjob = r => req[r] \in {"waiting", "cancelling", "done"}
         /\ slot = <<r>> => qjob # r

QInv == QueryTypeOK /\ ThreadInStep /\ OneHolder /\ InterruptsHitTheirQuery

\* The empty slot is the first state.
LEMMA QInitInv ==
  ASSUME QueryInit
  PROVE  QInv
<1> USE QueriesAssumption DEF QueryInit
<1>1. QueryTypeOK
  <2>1. Len(slot) = 0
    OBVIOUS
  <2>2. qctl \in [current: Queries \cup {Nobody}, cancelled: Queries \cup {Nobody}, stopping: BOOLEAN]
    OBVIOUS
  <2>3. busy \in BOOLEAN /\ hit \in BOOLEAN
    BY Zenon
  <2>4. req \in [Queries -> {"new", "reserved", "waiting", "cancelling", "done"}]
    OBVIOUS
  <2> QED
    BY <2>1, <2>2, <2>3, <2>4 DEF QueryTypeOK
<1>2. ThreadInStep
  BY DEF ThreadInStep, Serving, Nobody
<1>3. Holders = {}
  BY DEF Holders, Nobody
<1>4. OneHolder /\ InterruptsHitTheirQuery
  BY <1>3 DEF OneHolder, InterruptsHitTheirQuery, Nobody
<1> QED
  BY <1>1, <1>2, <1>4 DEF QInv

\* A request's own steps keep the invariant.
LEMMA RequestKeepsQInv ==
  ASSUME QInv, NEW r \in Queries, Request(r)
  PROVE  QInv'
<1> USE QueriesAssumption DEF QInv, QueryTypeOK, ThreadInStep, InterruptsHitTheirQuery, OneHolder, Holders, Serving,
        Nobody, Go
<1>1. CASE Reserve(r)
  BY <1>1 DEF Reserve
<1>2. CASE Refuse(r)
  BY <1>2 DEF Refuse
<1>3. CASE CheckpointFails(r)
  <2>1. QueryTypeOK' /\ ThreadInStep' /\ InterruptsHitTheirQuery'
    BY <1>3, ZenonT(60) DEF CheckpointFails
  <2>2. ASSUME ~qctl.stopping
        PROVE  Holders' = {}
    <3>1. \A s \in Queries : s # r => req[s] # "reserved" /\ slot # <<s>> /\ qjob # s
      BY <1>3, <2>2 DEF CheckpointFails
    <3>2. slot # <<r>> /\ qjob # r
      BY <1>3, <2>2 DEF CheckpointFails
    <3> QED
      BY <1>3, <3>1, <3>2 DEF CheckpointFails
  <2>3. OneHolder'
    BY <1>3, <2>2 DEF CheckpointFails
  <2> QED
    BY <2>1, <2>3
<1>4. CASE SendReserved(r)
  <2>1. QueryTypeOK'
    <3>1. Len(slot') <= 1
      <4>1. slot' = slot \/ slot' = <<r>>
        BY <1>4 DEF SendReserved
      <4>2. CASE slot' = slot
        <5>1. Len(slot) <= 1
          OBVIOUS
        <5> QED
          BY <4>2, <5>1, Zenon
      <4>3. CASE slot' = <<r>>
        BY <4>3
      <4> QED
        BY <4>1, <4>2, <4>3
    <3>2. busy' \in BOOLEAN
      BY <1>4 DEF SendReserved
    <3> QED
      BY <1>4, <3>1, <3>2 DEF SendReserved
  <2>2. ThreadInStep' /\ InterruptsHitTheirQuery'
    BY <1>4 DEF SendReserved
  <2>3. ASSUME ~qctl.stopping
        PROVE  /\ \A s \in Queries : s # r => req[s] # "reserved" /\ slot # <<s>> /\ qjob # s
               /\ slot # <<r>> /\ qjob # r /\ slot = <<>> /\ qpc # "exited"
    BY <1>4, <2>3 DEF SendReserved
  <2>4. OneHolder'
    <3>1. CASE qctl.stopping
      BY <1>4, <3>1 DEF SendReserved
    <3>2. CASE ~qctl.stopping
      <4>1. /\ slot' = <<r>> /\ req' = [req EXCEPT ![r] = "waiting"]
            /\ UNCHANGED <<busy, qctl, qpc, qjob, hit, joiner>>
        BY <1>4, <2>3, <3>2 DEF SendReserved
      <4>2. \A s \in Queries : slot' = <<s>> => s = r
        BY <4>1
      <4>3. busy
        BY <1>4, <3>2 DEF SendReserved
      <4> QED
        BY <2>3, <3>2, <4>1, <4>2, <4>3
    <3> QED
      BY <3>1, <3>2
  <2> QED
    BY <2>1, <2>2, <2>4
<1>5. CASE GiveUp(r)
  BY <1>5 DEF GiveUp
<1>6. CASE CancelInterrupts(r)
  BY <1>6 DEF CancelInterrupts
<1>7. CASE ServerDeadline(r)
  BY <1>7 DEF ServerDeadline
<1> QED
  BY <1>1, <1>2, <1>3, <1>4, <1>5, <1>6, <1>7 DEF Request

\* So do the steps of the query thread.
LEMMA ThreadKeepsQInv ==
  ASSUME QInv, QueryThread
  PROVE  QInv'
<1> USE QueriesAssumption DEF QInv, QueryTypeOK, ThreadInStep, InterruptsHitTheirQuery, OneHolder, Holders, Serving,
        Nobody
<1>1. CASE LoopTop
  BY <1>1 DEF LoopTop
<1>2. CASE Receive
  BY <1>2 DEF Receive
<1>3. CASE Begin
  BY <1>3 DEF Begin
<1>4. CASE BeginChecks
  BY <1>4 DEF BeginChecks
<1>5. CASE SummaryBuilt
  BY <1>5 DEF SummaryBuilt
<1>6. CASE Finish
  BY <1>6 DEF Finish
<1>7. CASE ReleaseAndReply
  <2>1. /\ qjob \in Queries /\ qjob' = Nobody /\ qpc' = "top" /\ busy' = FALSE
        /\ UNCHANGED <<slot, qctl, hit, joiner>> /\ ~hit
        /\ req' = IF req[qjob] = "waiting" THEN [req EXCEPT ![qjob] = "done"] ELSE req
    BY <1>7 DEF ReleaseAndReply
  <2>2. QueryTypeOK' /\ ThreadInStep' /\ InterruptsHitTheirQuery'
    BY <2>1
  <2>3. ASSUME ~qctl.stopping
        PROVE  Holders' = {}
    <3>1. \A s \in Queries : s # qjob => req[s] # "reserved" /\ slot # <<s>>
      BY <2>1, <2>3
    <3>2. req[qjob] # "reserved" /\ slot # <<qjob>>
      BY <2>1, <2>3
    <3> QED
      BY <2>1, <3>1, <3>2
  <2>4. ASSUME ~qctl.stopping
        PROVE  \A r \in Queries : slot' # <<r>> /\ qjob' # r
    BY <2>1, <2>3, <2>4
  <2>5. OneHolder'
    BY <2>1, <2>3, <2>4
  <2> QED
    BY <2>2, <2>5
<1>8. CASE Leave
  BY <1>8 DEF Leave
<1> QED
  BY <1>1, <1>2, <1>3, <1>4, <1>5, <1>6, <1>7, <1>8 DEF QueryThread

\* And those of the thread that shuts it down.
LEMMA ShutdownKeepsQInv ==
  ASSUME QInv, Shutdown
  PROVE  QInv'
<1> USE QueriesAssumption DEF QInv, QueryTypeOK, ThreadInStep, InterruptsHitTheirQuery, OneHolder, Holders, Serving,
        Nobody
<1>1. CASE StopBegins
  BY <1>1 DEF StopBegins
<1>2. CASE StopInterrupts
  BY <1>2 DEF StopInterrupts
<1>3. CASE StopWakes
  BY <1>3 DEF StopWakes
<1>4. CASE Join
  BY <1>4 DEF Join
<1> QED
  BY <1>1, <1>2, <1>3, <1>4 DEF Shutdown

\* Every step keeps the invariant.
LEMMA QNextInv ==
  ASSUME QInv, [QueryNext]_queryVars
  PROVE  QInv'
<1>1. CASE UNCHANGED queryVars
  BY <1>1 DEF queryVars, QInv, QueryTypeOK, ThreadInStep, OneHolder, InterruptsHitTheirQuery,
              Holders, Serving
<1> QED
  BY <1>1, RequestKeepsQInv, ThreadKeepsQInv, ShutdownKeepsQInv DEF QueryNext

\* What a step does to the holders of the slot before the thread is stopped:
\* nothing, or one takes the free slot, or the one gives it back.
LEMMA HolderStep ==
  ASSUME QInv, [QueryNext]_queryVars, ~qctl.stopping
  PROVE  \/ Holders' = Holders
         \/ Holders = {} /\ \E r \in Queries : Holders' = {r}
         \/ Holders' = {} /\ \E r \in Queries : Holders = {r}
<1> USE QueriesAssumption
    DEF QInv, QueryTypeOK, ThreadInStep, OneHolder, Holders, Serving, Nobody, Go
<1>1. ASSUME NEW r \in Queries, Reserve(r)
      PROVE  Holders = {} /\ Holders' = {r}
  BY <1>1 DEF Reserve
<1>2. ASSUME NEW r \in Queries,
             Refuse(r) \/ GiveUp(r) \/ CancelInterrupts(r)
      PROVE  Holders' = Holders
  BY <1>2 DEF Refuse, GiveUp, CancelInterrupts
<1>3. ASSUME NEW r \in Queries, CheckpointFails(r)
      PROVE  Holders' = {} /\ Holders = {r}
  BY <1>3 DEF CheckpointFails
<1>4. ASSUME NEW r \in Queries, SendReserved(r)
      PROVE  Holders' = Holders
  <2>1. slot = <<>> /\ qpc # "exited"
    BY <1>4 DEF SendReserved
  <2>2. /\ slot' = <<r>> /\ req' = [req EXCEPT ![r] = "waiting"] /\ req[r] = "reserved"
        /\ UNCHANGED qjob
    BY <1>4, <2>1 DEF SendReserved
  <2>3. \A s \in Queries : slot' = <<s>> <=> s = r
    BY <2>2
  <2> QED
    BY <2>1, <2>2, <2>3
<1>5. ASSUME NEW r \in Queries, ServerDeadline(r)
      PROVE  Holders' = Holders \/ (Holders' = {} /\ Holders = {r})
  BY <1>5 DEF ServerDeadline
<1>6. CASE LoopTop \/ Begin \/ BeginChecks \/ SummaryBuilt \/ Finish \/ Leave \/ Shutdown
           \/ UNCHANGED queryVars
  BY <1>6 DEF LoopTop, Begin, BeginChecks, SummaryBuilt, Finish, Leave, Shutdown, StopBegins,
              StopInterrupts, StopWakes, Join, queryVars
<1>7. CASE Receive
  <2>1. PICK r \in Queries : slot = <<r>>
    BY <1>7 DEF Receive
  <2>2. slot' = <<>> /\ qjob' = r /\ UNCHANGED req
    BY <1>7, <2>1 DEF Receive
  <2>3. \A s \in Queries : slot = <<s>> <=> s = r
    BY <2>1
  <2>4. \A s \in Queries : qjob # s
    BY <1>7 DEF Receive
  <2> QED
    BY <2>2, <2>3, <2>4
<1>8. CASE ReleaseAndReply
  <2>1. /\ qjob \in Queries /\ qjob' = Nobody /\ UNCHANGED slot
        /\ req' = IF req[qjob] = "waiting" THEN [req EXCEPT ![qjob] = "done"] ELSE req
    BY <1>8 DEF ReleaseAndReply
  <2>2. Holders = {qjob}
    BY <2>1
  <2>3. Holders' = {}
    BY <2>1, <2>2
  <2> QED
    BY <2>1, <2>2, <2>3
<1> QED
  BY <1>1, <1>2, <1>3, <1>4, <1>5, <1>6, <1>7, <1>8 DEF QueryNext, Request, QueryThread

\* While the thread runs, the abstract holder is the one request that has the
\* slot.
HolderOf(H) ==
  IF H = {} THEN Nobody
  ELSE IF Cardinality(H) = 1 THEN CHOOSE r \in H : TRUE ELSE "several"

LEMMA HolderIs ==
  ASSUME NEW H
  PROVE  /\ H = {} => HolderOf(H) = Nobody
         /\ \A r \in Queries : H = {r} => HolderOf(H) = r
<1>1. ASSUME NEW r \in Queries, H = {r}
      PROVE  HolderOf(H) = r
  <2>1. Cardinality({r}) = 1 /\ (CHOOSE x \in {r} : TRUE) = r /\ {r} # {}
    BY FS_Singleton
  <2> QED
    BY <1>1, <2>1 DEF HolderOf
<1> QED
  BY <1>1 DEF HolderOf

\* Queries keep out of each other's way, for any number of requests: the slot
\* implements BusySlot although the flag is freed before the reply, requests
\* are dropped and cancels arrive late, and no interrupt hits another query.
THEOREM QueriesKeepApart == QuerySpec => QueriesAreApart
<1>1. QueryInit => QInv
  BY QInitInv
<1>2. QInv /\ [QueryNext]_queryVars => QInv'
  BY QNextInv
<1>3. QInv => QueryTypeOK /\ InterruptsHitTheirQuery
  BY DEF QInv
<1>4. QueryInit => Slot!SlotInit
  <2> SUFFICES ASSUME QueryInit
               PROVE  SlotHolder = Nobody
    BY DEF Slot!SlotInit
  <2>1. ~qctl.stopping /\ Holders = {}
    BY QueriesAssumption DEF QueryInit, Holders, Nobody
  <2> QED
    BY <2>1 DEF SlotHolder
<1>5. QInv /\ [QueryNext]_queryVars => [Slot!Take \/ Slot!Give \/ Slot!Close]_SlotHolder
  <2> SUFFICES ASSUME QInv, [QueryNext]_queryVars, SlotHolder' # SlotHolder
               PROVE  Slot!Take \/ Slot!Give \/ Slot!Close
    OBVIOUS
  <2>1. CASE qctl.stopping
    <3>1. qctl'.stopping
      BY <2>1 DEF QueryNext, Request, QueryThread, Shutdown, queryVars, Reserve, Refuse,
         CheckpointFails, SendReserved, GiveUp, CancelInterrupts, ServerDeadline, LoopTop, Receive,
         Begin, BeginChecks, SummaryBuilt, Finish, ReleaseAndReply, Leave, StopBegins,
         StopInterrupts, StopWakes, Join, QInv, QueryTypeOK, ThreadInStep
    <3> QED
      BY <2>1, <3>1 DEF SlotHolder
  <2>2. CASE ~qctl.stopping /\ qctl'.stopping
    <3>1. SlotHolder' = "closed"
      BY <2>2 DEF SlotHolder
    <3> QED
      BY <3>1 DEF Slot!Close
  <2>3. CASE ~qctl.stopping /\ ~qctl'.stopping
    <3>1. SlotHolder = HolderOf(Holders) /\ SlotHolder' = HolderOf(Holders')
      BY <2>3 DEF SlotHolder, HolderOf
    <3>2. Holders' # Holders
      BY <3>1
    <3>3. \/ Holders = {} /\ \E r \in Queries : Holders' = {r}
          \/ Holders' = {} /\ \E r \in Queries : Holders = {r}
      BY <2>3, <3>2, HolderStep
    <3> QED
      BY <3>1, <3>3, HolderIs DEF Slot!Take, Slot!Give
  <2> QED
    BY <2>1, <2>2, <2>3
<1> QED
  BY <1>1, <1>2, <1>3, <1>4, <1>5, PTL DEF QuerySpec, QueriesAreApart, QueriesOneAtATime, Slot!SlotSpec

-----------------------------------------------------------------------------
(* Speed tests *)

\* A run has no End frame and no request has reached it before its stages run;
\* from then on the cancel flag says whether one has.  A request found a run
\* that is on or over.
SpeedInv ==
  /\ SpeedTypeOK /\ EndsTellTheTruth
  /\ runnerPc = "idle" <=> runner = NoClient
  /\ runnerPc \in {"clearing", "stages"} => ends[runner] = "none"
  /\ runnerPc \in {"ending", "ended"} => ends[runner] # "none"
  /\ runnerPc = "clearing" => ~Reached(runner)
  /\ runnerPc = "stages" => (speedCancel <=> Reached(runner))
  /\ runnerPc # "stages" => \A s \in Stages : stage[s] \in {"0", "sent"}
  /\ \A c \in SpeedClients : stream[c] = "new" => ~Reached(c) /\ ends[c] = "none" /\ runner # c
  /\ \A x \in Cancels : /\ cancels[x].pc # "answered" => cancels[x].reached = NoClient
                        /\ LET c == cancels[x].found
                           IN  c # NoClient => c = runner \/ ends[c] # "none"

\* What a send adds is a frame.
LEMMA FramesFit ==
  ASSUME SpeedInv, runner \in SpeedClients, NEW f \in {"empty", "short", "full", "invalid", "end"},
         Send(f)
  PROVE  events' \in [SpeedClients -> Seq({"empty", "short", "full", "invalid", "end"})]
<1>1. events \in [SpeedClients -> Seq({"empty", "short", "full", "invalid", "end"})]
  BY DEF SpeedInv, SpeedTypeOK
<1>2. events[runner] \in Seq({"empty", "short", "full", "invalid", "end"})
  BY <1>1
<1>3. Append(events[runner], f) \in Seq({"empty", "short", "full", "invalid", "end"})
  BY <1>2
<1> QED
  BY <1>1, <1>3 DEF Send

\* What is known of a run and of the requests holds at first.
LEMMA SpeedInvInit == SpeedInit => SpeedInv
<1> USE SpeedAssumption DEF SpeedInit, Stages
<1> SUFFICES ASSUME SpeedInit  PROVE SpeedInv
  OBVIOUS
<1>1. speedBusy = (runner # NoClient) /\ speedCancel \in BOOLEAN
  BY Zenon
<1>2. \A c \in SpeedClients : ~Reached(c)
  BY DEF Reached
<1>3. events \in [SpeedClients -> Seq({"empty", "short", "full", "invalid", "end"})]
  OBVIOUS
<1>4. SpeedTypeOK
  BY <1>1, <1>3 DEF SpeedTypeOK
<1> QED
  BY <1>2, <1>4 DEF SpeedInv, EndsTellTheTruth

\* A step of a run, of a stream or of iperf3 keeps what is known of the requests.
LEMMA RunsKeepInv ==
  ASSUME SpeedInv,
         \/ \E c \in SpeedClients : StartBasic(c) \/ StartRefused(c) \/ StreamGoesOn(c)
         \/ RunnerStep \/ IperfStep \/ UNCHANGED speedVars
  PROVE  SpeedInv'
<1> USE SpeedAssumption DEF SpeedInv, SpeedTypeOK, EndsTellTheTruth, Stages
<1>1. UNCHANGED cancels
  BY DEF StartBasic, StartRefused, StreamGoesOn, ForwardFrame, StreamLost, RunnerStep, SpawnStages,
     MeasureTarget, MeasureBandwidth, MeasurePurity, Measured, SendStage, BuildEnd, SendEnd, FreeBusy,
     IperfStep, Iperf3Start, Iperf3Exits, Iperf3Collected, Iperf3TimesOut, Iperf3Dropped,
     Iperf3Reaped, Iperf3Stop, basicVars, speedVars
<1>2. \A c \in SpeedClients : Reached(c)' <=> Reached(c)
  BY <1>1 DEF Reached
<1>3. ASSUME NEW c \in SpeedClients, StartBasic(c)
      PROVE  SpeedInv'
  <2>1. PICK asked \in SUBSET StageGroup(runKind) :
             stage' = [s \in Stages |-> IF s \in asked THEN "0" ELSE "sent"]
    BY <1>3 DEF StartBasic
  <2>2. /\ stage' \in [Stages -> {"0", "1", "empty", "short", "full", "invalid", "sent"}]
        /\ \A s \in Stages : stage'[s] \in {"0", "sent"}
    BY <2>1
  <2>3. /\ stream' \in [SpeedClients -> {"new", "open", "refused", "broken", "lost", "ended"}]
        /\ \A d \in SpeedClients : stream'[d] = "new" => d # c /\ stream[d] = "new"
    BY <1>3 DEF StartBasic
  <2>4. /\ runner = NoClient /\ runner' = c /\ runnerPc' = "clearing" /\ speedBusy'
        /\ UNCHANGED <<speedCancel, ends, events>> /\ stream[c] = "new"
    BY <1>3 DEF StartBasic
  <2>5. SpeedTypeOK'
    BY <1>1, <2>2, <2>3, <2>4
  <2>6. EndsTellTheTruth'
    BY <1>2, <2>2, <2>4
  <2>7. /\ ends'[runner'] = "none" /\ ~Reached(c)'
        /\ \A d \in SpeedClients : stream'[d] = "new" => ~Reached(d)' /\ ends'[d] = "none" /\ runner' # d
    <3>1. \A d \in SpeedClients : stream[d] = "new" => ~Reached(d) /\ ends[d] = "none"
      OBVIOUS
    <3> HIDE DEF SpeedInv, SpeedTypeOK, EndsTellTheTruth, Stages
    <3>2. ends' = ends /\ runner' = c
      BY <2>4
    <3>3. ~Reached(c)'
      BY <1>2, <2>4, <3>1
    <3> QED
      BY <1>2, <2>3, <2>4, <3>1, <3>2, <3>3
  <2>8. ASSUME NEW x \in Cancels
        PROVE  /\ cancels'[x].pc # "answered" => cancels'[x].reached = NoClient
               /\ cancels'[x].found # NoClient =>
                    cancels'[x].found = runner' \/ ends'[cancels'[x].found] # "none"
    BY <1>1, <2>4
  <2>9. ~Reached(runner)'
    <3> HIDE DEF SpeedInv, SpeedTypeOK, EndsTellTheTruth, Stages
    <3> QED
      BY <2>4, <2>7 DEF Reached
  <2> HIDE DEF SpeedTypeOK, EndsTellTheTruth
  <2> QED
    BY <2>2, <2>4, <2>5, <2>6, <2>7, <2>8, <2>9
<1>4. ASSUME NEW c \in SpeedClients, StartRefused(c)
      PROVE  SpeedInv'
  BY <1>1, <1>2, <1>4 DEF StartRefused
<1>5. ASSUME NEW c \in SpeedClients, ForwardFrame(c)
      PROVE  SpeedInv'
  BY <1>1, <1>2, <1>5 DEF ForwardFrame
<1>6. ASSUME NEW c \in SpeedClients, StreamLost(c)
      PROVE  SpeedInv'
  BY <1>1, <1>2, <1>6 DEF StreamLost
<1>7. CASE SpawnStages
  BY <1>1, <1>2, <1>7 DEF SpawnStages
<1>8. ASSUME NEW s \in Stages, NEW result \in {"1", "empty", "short", "full", "invalid"},
             Measured(s, result), result \in {"empty", "short"} => speedCancel
      PROVE  SpeedInv'
  BY <1>1, <1>2, <1>8 DEF Measured
<1>9. CASE MeasureTarget \/ MeasureBandwidth \/ MeasurePurity
  BY <1>8, <1>9 DEF MeasureTarget, MeasureBandwidth, MeasurePurity
<1>10. ASSUME NEW s \in Stages, SendStage(s)
       PROVE  SpeedInv'
  <2>1. runner \in SpeedClients /\ stage[s] \in {"empty", "short", "full", "invalid", "end"}
    BY <1>10 DEF SendStage
  <2>2. events' \in [SpeedClients -> Seq({"empty", "short", "full", "invalid", "end"})]
    BY <1>10, <2>1, FramesFit DEF SendStage
  <2> QED
    BY <1>1, <1>2, <1>10, <2>1, <2>2 DEF SendStage
<1>11. CASE BuildEnd
  BY <1>1, <1>2, <1>11 DEF BuildEnd
<1>12. CASE SendEnd
  <2>1. runner \in SpeedClients
    BY <1>12 DEF SendEnd
  <2>2. events' \in [SpeedClients -> Seq({"empty", "short", "full", "invalid", "end"})]
    BY <1>12, <2>1, FramesFit DEF SendEnd
  <2> QED
    BY <1>1, <1>2, <1>12, <2>1, <2>2 DEF SendEnd
<1>13. CASE FreeBusy
  BY <1>1, <1>2, <1>13 DEF FreeBusy
<1>14. CASE IperfStep \/ UNCHANGED speedVars
  <2>1. UNCHANGED basicVars
    BY <1>14 DEF IperfStep, Iperf3Start, Iperf3Exits, Iperf3Collected, Iperf3TimesOut,
       Iperf3Dropped, Iperf3Reaped, Iperf3Stop, basicVars, speedVars
  <2> QED
    BY <1>2, <2>1 DEF basicVars
<1> QED
  BY <1>3, <1>4, <1>5, <1>6, <1>7, <1>9, <1>10, <1>11, <1>12, <1>13, <1>14
  DEF RunnerStep, StreamGoesOn

\* A request keeps it too: its store reaches the run whose stages are on.
LEMMA CancelsKeepInv ==
  ASSUME SpeedInv, NEW x \in Cancels, CancelReads(x) \/ CancelStores(x)
  PROVE  SpeedInv'
<1> USE SpeedAssumption DEF SpeedInv, SpeedTypeOK, EndsTellTheTruth, Stages
<1>1. CASE CancelReads(x)
  <2>1. /\ cancels' \in [Cancels -> [pc : {"sent", "read", "answered"},
                                     found : SpeedClients \cup {NoClient},
                                     reached : SpeedClients \cup {NoClient}]]
        /\ cancels[x].pc = "sent" /\ cancels'[x].pc = "read"
        /\ cancels'[x].found = runner /\ cancels'[x].reached = cancels[x].reached
        /\ \A y \in Cancels \ {x} : cancels'[y] = cancels[y]
    BY <1>1 DEF CancelReads
  <2>2. \A c \in SpeedClients : Reached(c)' <=> Reached(c)
    <3> HIDE DEF SpeedInv, SpeedTypeOK, EndsTellTheTruth, Stages
    <3>1. \A y \in Cancels : cancels'[y].reached = cancels[y].reached
      BY <2>1
    <3> QED
      BY <3>1 DEF Reached
  <2>3. UNCHANGED <<runKind, speedBusy, speedCancel, runner, runnerPc, stage, ends, events, stream>>
    BY <1>1 DEF CancelReads
  <2>4. SpeedTypeOK'
    BY <2>1, <2>3
  <2>5. EndsTellTheTruth'
    BY <2>2, <2>3
  <2>6. ASSUME NEW y \in Cancels
        PROVE  /\ cancels'[y].pc # "answered" => cancels'[y].reached = NoClient
               /\ cancels'[y].found # NoClient =>
                    cancels'[y].found = runner' \/ ends'[cancels'[y].found] # "none"
    <3>1. CASE y = x
      BY <2>1, <2>3, <3>1
    <3>2. CASE y # x
      BY <2>1, <2>3, <3>2
    <3> QED
      BY <3>1, <3>2
  <2>7. runner \in SpeedClients => (Reached(runner)' <=> Reached(runner))
    <3> HIDE DEF SpeedInv, SpeedTypeOK, EndsTellTheTruth, Stages
    <3> QED
      BY <2>2, <2>3 DEF Reached
  <2> HIDE DEF SpeedTypeOK, EndsTellTheTruth
  <2> QED
    BY <2>2, <2>3, <2>4, <2>5, <2>6, <2>7 DEF SpeedTypeOK
<1>2. CASE CancelStores(x)
  <2>1. /\ cancels' \in [Cancels -> [pc : {"sent", "read", "answered"},
                                     found : SpeedClients \cup {NoClient},
                                     reached : SpeedClients \cup {NoClient}]]
        /\ cancels[x].reached = NoClient /\ cancels'[x].pc = "answered"
        /\ cancels'[x].found = cancels[x].found
        /\ cancels'[x].reached = IF runnerPc = "stages" THEN runner ELSE NoClient
        /\ \A y \in Cancels \ {x} : cancels'[y] = cancels[y]
    BY <1>2 DEF CancelStores
  <2>2. \A c \in SpeedClients : Reached(c)' <=> Reached(c) \/ (runnerPc = "stages" /\ c = runner)
    <3> HIDE DEF SpeedInv, SpeedTypeOK, EndsTellTheTruth, Stages
    <3>1. \A c \in SpeedClients : Reached(c) => \E y \in Cancels \ {x} : cancels[y].reached = c
      BY <2>1 DEF Reached
    <3>2. ASSUME NEW c \in SpeedClients
          PROVE  Reached(c)' <=> \/ \E y \in Cancels \ {x} : cancels[y].reached = c
                                 \/ cancels'[x].reached = c
      BY <2>1 DEF Reached
    <3>3. \A c \in SpeedClients : cancels'[x].reached = c <=> runnerPc = "stages" /\ c = runner
      BY <2>1
    <3>4. \A c \in SpeedClients : (\E y \in Cancels \ {x} : cancels[y].reached = c) => Reached(c)
      BY DEF Reached
    <3> QED
      BY <3>1, <3>2, <3>3, <3>4
  <2>3. UNCHANGED <<runKind, speedBusy, runner, runnerPc, stage, ends, events, stream>> /\ speedCancel'
    BY <1>2 DEF CancelStores
  <2> QED
    BY <2>1, <2>2, <2>3
<1> QED
  BY <1>1, <1>2

\* Requests to cancel are heard, for any number of them and of clients that
\* start runs, go away and are refused meanwhile: the End frame of a run says
\* whether one reached it, and one that found a run reaches no other unless that
\* run is over.
THEOREM CancelsStayHeard == SpeedSpec => CancelsAreHeard
<1>1. SpeedInv /\ [SpeedNext]_speedVars => SpeedInv'
  BY RunsKeepInv, CancelsKeepInv DEF SpeedNext
<1>2. SpeedInv /\ [SpeedNext]_speedVars => [CancelsReachTheirRun]_speedVars
  <2> SUFFICES ASSUME SpeedInv, [SpeedNext]_speedVars, NEW x \in Cancels,
                      cancels[x].pc = "read", cancels'[x].pc = "answered",
                      cancels[x].found # NoClient
               PROVE  \/ cancels'[x].reached = cancels[x].found
                      \/ ends[cancels[x].found] # "none"
                      \/ runner = cancels[x].found /\ runnerPc = "clearing"
    BY DEF CancelsReachTheirRun
  <2>1. CASE UNCHANGED cancels
    BY <2>1
  <2>2. CASE \E y \in Cancels : CancelReads(y) \/ CancelStores(y)
    <3>1. CancelStores(x)
      BY <2>2 DEF CancelReads, CancelStores, SpeedInv, SpeedTypeOK
    <3> QED
      BY <3>1, SpeedAssumption DEF CancelStores, SpeedInv, SpeedTypeOK
  <2> QED
    BY <2>1, <2>2
    DEF SpeedNext, StartBasic, StartRefused, StreamGoesOn, ForwardFrame, StreamLost, RunnerStep,
        SpawnStages, MeasureTarget, MeasureBandwidth, MeasurePurity, Measured, SendStage, BuildEnd,
        SendEnd, FreeBusy, IperfStep, Iperf3Start, Iperf3Exits, Iperf3Collected, Iperf3TimesOut,
        Iperf3Dropped, Iperf3Reaped, Iperf3Stop, basicVars, speedVars
<1>3. SpeedInv => SpeedTypeOK /\ EndsTellTheTruth
  BY DEF SpeedInv
<1> QED
  BY SpeedInvInit, <1>1, <1>2, <1>3, PTL DEF SpeedSpec, CancelsAreHeard

-----------------------------------------------------------------------------
(* The output of a terminal (TerminalStream) *)

Buffers ==
  /\ written \in Nat /\ lost \in Nat /\ taken \in Nat
  /\ tty \in Seq(Nat) /\ pending \in Seq(Nat) /\ shown \in Seq(Nat) /\ transcript \in Seq(Nat)
  /\ Len(pending) <= MaxCapture /\ Len(transcript) <= MaxCapture

\* Every unit written is in one place.
Counted == written = Len(shown) + lost + taken + Len(pending) + Len(tty)

\* The pty holds the newest units, the queue older ones, the client was shown
\* older ones still, each in order.
TtyOrder == \A i \in 1..Len(tty) : tty[i] = written - Len(tty) + i
PendingOrder ==
  /\ \A i, j \in 1..Len(pending) : i < j => pending[i] < pending[j]
  /\ \A i \in 1..Len(pending) : pending[i] <= written - Len(tty)
ShownOrder ==
  /\ \A i, j \in 1..Len(shown) : i < j => shown[i] < shown[j]
  /\ \A i \in 1..Len(shown) : shown[i] <= written - Len(tty)
  /\ \A i \in 1..Len(shown), j \in 1..Len(pending) : shown[i] < pending[j]

FlowInv == Buffers /\ Counted /\ TtyOrder /\ PendingOrder /\ ShownOrder

\* A stream that is about to end has seen the end of the output.
Over == child \in {"exited", "reaped"}
EndInv ==
  /\ child \in {"running", "hung up", "exited", "reaped"}
  /\ verdict \in {"running", "exited", "reason", "openssh failure", "closed"}
  /\ streamPc \in {"new", "polling", "reading", "status", "ending", "closing", "ended", "broken"}
  /\ finalStatus # "none" => Over
  /\ streamPc \in {"ending", "closing", "ended"} => pending = <<>> /\ tty = <<>> /\ Over

\* Newest is a suffix within the bound.
LEMMA NewestIs ==
  ASSUME NEW s \in Seq(Nat), NEW n, n = Newest(s)
  PROVE  /\ n \in Seq(Nat) /\ Len(n) <= MaxCapture /\ Len(n) <= Len(s)
         /\ \A i \in 1..Len(n) : i + Len(s) - Len(n) \in 1..Len(s) /\ n[i] = s[i + Len(s) - Len(n)]
<1>0. MaxCapture \in Nat /\ MaxCapture > 0 /\ Len(s) \in Nat  BY TerminalAssumption
<1>1. CASE Len(s) > MaxCapture
  <2>0. PICK a : a = Len(s) - MaxCapture + 1  OBVIOUS
  <2>1. n = SubSeq(s, a, Len(s)) /\ a \in Nat /\ a \in 1..Len(s)  BY <1>0, <1>1, <2>0 DEF Newest
  <2>2. /\ n \in Seq(Nat) /\ Len(n) = MaxCapture
        /\ \A i \in 1..Len(n) : n[i] = s[a + i - 1]
    BY <1>0, <1>1, <2>0, <2>1, SMTT(40)
  <2>3. \A i \in 1..Len(n) : i + Len(s) - Len(n) \in 1..Len(s) /\ a + i - 1 = i + Len(s) - Len(n)
    BY <1>0, <1>1, <2>0, <2>1, <2>2
  <2> QED  BY <1>0, <1>1, <2>2, <2>3, SMTT(40)
<1>2. CASE ~(Len(s) > MaxCapture)
  <2>1. n = s  BY <1>2 DEF Newest
  <2> QED  BY <1>0, <1>2, <2>1
<1> QED  BY <1>1, <1>2

\* A poll's capture keeps the order and the count, and finds nothing in empty buffers.
LEMMA CaptureKeeps ==
  ASSUME FlowInv, Capture, UNCHANGED <<written, taken, shown>>
  PROVE  FlowInv' /\ (pending = <<>> /\ tty = <<>> => pending' = <<>> /\ tty' = <<>>)
<1> USE DEF FlowInv
<1>a. PICK n : n = Least(Len(tty), MaxCapture)  OBVIOUS
<1>b. PICK head : head = SubSeq(tty, 1, n)  OBVIOUS
<1>c. PICK all : all = pending \o head  OBVIOUS
<1>0. /\ tty \in Seq(Nat) /\ pending \in Seq(Nat) /\ transcript \in Seq(Nat) /\ shown \in Seq(Nat)
      /\ Len(tty) \in Nat /\ Len(pending) \in Nat /\ Len(shown) \in Nat
      /\ written \in Nat /\ lost \in Nat /\ taken \in Nat
  BY DEF Buffers
<1>1. n \in Nat /\ n <= Len(tty)  BY <1>0, <1>a, TerminalAssumption DEF Least
<1>2. /\ tty' = SubSeq(tty, n + 1, Len(tty)) /\ pending' = Newest(all)
      /\ lost' = lost + Len(all) - Len(pending') /\ transcript' = Newest(transcript \o head)
  BY <1>a, <1>b, <1>c DEF Capture
<1>3. head \in Seq(Nat) /\ Len(head) = n /\ \A i \in 1..n : head[i] = tty[i]  BY <1>0, <1>1, <1>b
<1>4. /\ all \in Seq(Nat) /\ Len(all) = Len(pending) + n
      /\ \A i \in 1..Len(all) : all[i] = IF i <= Len(pending) THEN pending[i] ELSE head[i - Len(pending)]
  <2>0. head \in Seq(Nat) /\ pending \in Seq(Nat)  BY <1>0, <1>3
  <2>1. all \in Seq(Nat) /\ Len(all) = Len(pending) + Len(head)  BY <1>c, <2>0, ConcatProperties
  <2>2. \A i \in 1..Len(pending) + Len(head) :
          all[i] = IF i <= Len(pending) THEN pending[i] ELSE head[i - Len(pending)]
    BY <1>0, <1>3, <1>c, ConcatProperties
  <2> QED  BY <1>3, <2>1, <2>2
<1>5. /\ tty' \in Seq(Nat) /\ Len(tty') = Len(tty) - n
      /\ \A i \in 1..Len(tty') : tty'[i] = tty[i + n]
  BY <1>0, <1>1, <1>2, SMTT(40)
<1>6. /\ pending' \in Seq(Nat) /\ Len(pending') <= MaxCapture /\ Len(pending') <= Len(all)
      /\ \A i \in 1..Len(pending') :
           i + Len(all) - Len(pending') \in 1..Len(all) /\ pending'[i] = all[i + Len(all) - Len(pending')]
  BY <1>2, <1>4, NewestIs
<1>7. transcript' \in Seq(Nat) /\ Len(transcript') <= MaxCapture
  <2>1. transcript \o head \in Seq(Nat)  BY <1>0, <1>3
  <2> QED  BY <1>2, <2>1, NewestIs
<1>8. Len(pending') \in Nat /\ Len(all) \in Nat  BY <1>4, <1>6
<1>9. Buffers'  BY <1>0, <1>2, <1>5, <1>6, <1>7, <1>8, SMTT(40) DEF Buffers
<1>10. Counted'
  <2>1. written = Len(shown) + lost + taken + Len(pending) + Len(tty)  BY DEF Counted
  <2>2. lost' + Len(pending') = lost + Len(pending) + n  BY <1>0, <1>1, <1>2, <1>4, <1>8
  <2>3. lost' \in Nat /\ Len(tty') = Len(tty) - n  BY <1>5, <1>9 DEF Buffers
  <2>4. written = Len(shown) + lost' + taken + Len(pending') + Len(tty')
    <3>1. PICK a \in Nat : a = Len(shown)  BY <1>0
    <3>2. PICK b \in Nat : b = lost'  BY <2>3
    <3>3. PICK c \in Nat : c = Len(pending')  BY <1>8
    <3>4. PICK d \in Nat : d = Len(tty)  BY <1>0
    <3>5. PICK e \in Nat : e = taken  BY <1>0
    <3>6. PICK f \in Nat : f = Len(pending)  BY <1>0
    <3>7. PICK g \in Nat : g = lost  BY <1>0
    <3>8. n \in Nat  BY <1>1
    <3>9. written = a + g + e + f + d /\ b + c = g + f + n
      BY <2>1, <2>2, <3>1, <3>2, <3>3, <3>4, <3>5, <3>6, <3>7
    <3>10. written = a + b + e + c + (d - n)  BY <3>8, <3>9
    <3> QED  BY <2>3, <3>1, <3>2, <3>3, <3>4, <3>5, <3>10
  <2> QED  BY <2>4 DEF Counted
<1>11. TtyOrder'
  <2>1. SUFFICES ASSUME NEW i \in 1..Len(tty')  PROVE tty'[i] = written - Len(tty') + i
    BY DEF TtyOrder
  <2>2. i + n \in 1..Len(tty)  BY <1>0, <1>1, <1>5
  <2>3. tty[i + n] = written - Len(tty) + (i + n)  BY <2>2 DEF TtyOrder
  <2> QED  BY <1>0, <1>1, <1>5, <2>3
<1>12. \A i \in 1..Len(all) : all[i] \in Nat /\ all[i] <= written - Len(tty')
  <2> TAKE i \in 1..Len(all)
  <2>1. CASE i <= Len(pending)
    <3>1. i \in 1..Len(pending) /\ all[i] = pending[i]  BY <1>0, <1>4, <2>1
    <3>2. pending[i] \in Nat /\ pending[i] <= written - Len(tty)  BY <1>0, <3>1 DEF PendingOrder
    <3> QED  BY <1>0, <1>1, <1>5, <3>1, <3>2, SMTT(40)
  <2>2. CASE ~(i <= Len(pending))
    <3>0. PICK k : k = i - Len(pending)  OBVIOUS
    <3>1. k \in 1..n /\ all[i] = head[k]  BY <3>0, <1>0, <1>1, <1>4, <2>2, SMTT(40)
    <3>2. head[k] = tty[k] /\ k \in 1..Len(tty)  BY <1>0, <1>1, <1>3, <3>1, SMTT(40)
    <3>3. tty[k] = written - Len(tty) + k /\ tty[k] \in Nat  BY <1>0, <3>2 DEF TtyOrder
    <3> QED  BY <1>0, <1>1, <1>5, <3>1, <3>2, <3>3
  <2> QED  BY <2>1, <2>2
<1>13. \A i, j \in 1..Len(all) : i < j => all[i] < all[j]
  <2>1. SUFFICES ASSUME NEW i \in 1..Len(all), NEW j \in 1..Len(all), i < j  PROVE all[i] < all[j]
    OBVIOUS
  <2>2. CASE j <= Len(pending)
    <3>1. i \in 1..Len(pending) /\ j \in 1..Len(pending)  BY <1>0, <1>4, <2>1, <2>2
    <3>2. all[i] = pending[i] /\ all[j] = pending[j]  BY <1>0, <1>4, <2>2, <3>1
    <3> QED  BY <2>1, <3>1, <3>2 DEF PendingOrder
  <2>3. CASE ~(j <= Len(pending))
    <3>0. PICK k : k = j - Len(pending)  OBVIOUS
    <3>1. k \in 1..n /\ all[j] = head[k]  BY <3>0, <1>0, <1>1, <1>4, <2>3
    <3>2. head[k] = tty[k] /\ k \in 1..Len(tty)  BY <1>0, <1>1, <1>3, <3>1
    <3>3. tty[k] = written - Len(tty) + k  BY <3>2 DEF TtyOrder
    <3>4. CASE i <= Len(pending)
      <4>1. i \in 1..Len(pending) /\ all[i] = pending[i]  BY <1>0, <1>4, <3>4, SMTT(40)
      <4>2. pending[i] \in Nat /\ pending[i] <= written - Len(tty)  BY <1>0, <4>1 DEF PendingOrder
      <4> QED  BY <1>0, <3>1, <3>2, <3>3, <4>1, <4>2, SMTT(40)
    <3>5. CASE ~(i <= Len(pending))
      <4>0. PICK m : m = i - Len(pending)  OBVIOUS
      <4>a. i \in Nat /\ j \in Nat /\ i < j  BY <1>8, <2>1
      <4>b. m \in 1..n /\ all[i] = head[m]
        <5>1. Len(pending) \in Nat /\ n \in Nat /\ Len(all) = Len(pending) + n  BY <1>0, <1>1, <1>4
        <5>2. m \in 1..n  BY <3>5, <4>0, <4>a, <5>1
        <5> QED  BY <1>4, <3>5, <4>0, <5>2
      <4>c. m < k  BY <1>0, <3>0, <4>0, <4>a
      <4>1. m \in 1..n /\ all[i] = head[m] /\ m < k  BY <4>b, <4>c
      <4>2. head[m] = tty[m] /\ m \in 1..Len(tty)  BY <1>0, <1>1, <1>3, <4>1
      <4>3. tty[m] = written - Len(tty) + m  BY <4>2 DEF TtyOrder
      <4> QED  BY <1>0, <1>1, <3>1, <3>2, <3>3, <4>1, <4>2, <4>3
    <3> QED  BY <3>4, <3>5
  <2> QED  BY <2>2, <2>3
<1>14. PendingOrder'
  <2>a. PICK d : d = Len(all) - Len(pending')  OBVIOUS
  <2>0. d \in Nat /\ \A i \in 1..Len(pending') : i + d \in 1..Len(all) /\ pending'[i] = all[i + d]
    BY <2>a, <1>6, <1>8
  <2>1. \A i, j \in 1..Len(pending') : i < j => pending'[i] < pending'[j]
    <3>1. SUFFICES ASSUME NEW i \in 1..Len(pending'), NEW j \in 1..Len(pending'), i < j
                   PROVE  pending'[i] < pending'[j]
      OBVIOUS
    <3>2. i + d < j + d  BY <1>8, <2>0, <3>1
    <3> QED  BY <1>13, <2>0, <3>2
  <2>2. \A i \in 1..Len(pending') : pending'[i] <= written - Len(tty')  BY <1>12, <2>0
  <2> QED  BY <2>1, <2>2 DEF PendingOrder
<1>15. ShownOrder'
  <2>1. \A i \in 1..Len(shown) : shown[i] \in Nat /\ shown[i] <= written - Len(tty)  BY <1>0 DEF ShownOrder
  <2>2. \A i \in 1..Len(shown) : shown[i] <= written - Len(tty')  BY <1>0, <1>1, <1>5, <2>1, SMTT(40)
  <2>3. ASSUME NEW i \in 1..Len(shown), NEW j \in 1..Len(all)  PROVE shown[i] < all[j]
    <3>1. CASE j <= Len(pending)
      <4>1. j \in 1..Len(pending) /\ all[j] = pending[j]  BY <1>0, <1>4, <3>1
      <4> QED  BY <4>1 DEF ShownOrder
    <3>2. CASE ~(j <= Len(pending))
      <4>0. PICK k : k = j - Len(pending)  OBVIOUS
      <4>1. k \in 1..n /\ all[j] = head[k]  BY <4>0, <1>0, <1>1, <1>4, <3>2
      <4>2. head[k] = tty[k] /\ k \in 1..Len(tty)  BY <1>0, <1>1, <1>3, <4>1
      <4>3. tty[k] = written - Len(tty) + k  BY <4>2 DEF TtyOrder
      <4>4. shown[i] \in Nat /\ shown[i] <= written - Len(tty)  BY <2>1
      <4>5. all[j] = written - Len(tty) + k /\ k \in Nat /\ k > 0  BY <1>0, <4>1, <4>2, <4>3
      <4> QED  BY <1>0, <4>4, <4>5
    <3> QED  BY <3>1, <3>2
  <2>4. \A i \in 1..Len(shown), j \in 1..Len(pending') : shown[i] < pending'[j]  BY <1>6, <2>3
  <2> QED  BY <2>2, <2>4 DEF ShownOrder
<1>16. ASSUME pending = <<>>, tty = <<>>  PROVE pending' = <<>> /\ tty' = <<>>
  <2>1. Len(tty) = 0 /\ Len(pending) = 0  BY <1>16
  <2>2. n = 0  BY <1>0, <1>1, <2>1
  <2>3. Len(all) = 0 /\ Len(tty') = 0  BY <1>4, <1>5, <2>1, <2>2
  <2>4. Len(pending') = 0  BY <1>6, <1>8, <2>3
  <2> QED  BY <1>5, <1>6, <2>3, <2>4
<1> QED  BY <1>9, <1>10, <1>11, <1>14, <1>15, <1>16

\* What a read takes is the oldest unit there is: newer than all that was
\* shown, older than all that is left.
LEMMA TakesOldest ==
  ASSUME FlowInv, ReadResult = "data", TakeUnit, UNCHANGED written
  PROVE  /\ Unit \in Nat /\ lost' = lost
         /\ tty' \in Seq(Nat) /\ pending' \in Seq(Nat) /\ transcript' \in Seq(Nat)
         /\ Len(pending') <= MaxCapture /\ Len(transcript') <= MaxCapture
         /\ Len(pending) + Len(tty) = Len(pending') + Len(tty') + 1
         /\ Len(tty') <= Len(tty)
         /\ TtyOrder' /\ PendingOrder'
         /\ Unit <= written - Len(tty')
         /\ \A i \in 1..Len(shown) : shown[i] < Unit
         /\ \A j \in 1..Len(pending') : Unit < pending'[j]
         /\ \A i \in 1..Len(shown), j \in 1..Len(pending') : shown[i] < pending'[j]
<1> USE DEF FlowInv
<1>0. /\ tty \in Seq(Nat) /\ pending \in Seq(Nat) /\ transcript \in Seq(Nat) /\ shown \in Seq(Nat)
      /\ Len(tty) \in Nat /\ Len(pending) \in Nat /\ Len(shown) \in Nat
      /\ Len(pending) <= MaxCapture /\ Len(transcript) <= MaxCapture /\ written \in Nat
  BY DEF Buffers
<1>a. MaxCapture \in Nat  BY TerminalAssumption
<1>b. lost' = lost  BY DEF TakeUnit
<1>1. CASE pending # <<>>
  <2>1. pending' = Tail(pending) /\ tty' = tty /\ transcript' = transcript /\ Unit = Head(pending)
    BY <1>1 DEF TakeUnit, Unit
  <2>2. /\ Len(pending) > 0 /\ Unit = pending[1] /\ Unit \in Nat /\ pending' \in Seq(Nat)
        /\ Len(pending') = Len(pending) - 1 /\ \A i \in 1..Len(pending') : pending'[i] = pending[i + 1]
    BY <1>0, <1>1, <2>1
  <2>3. /\ \A i, j \in 1..Len(pending) : i < j => pending[i] < pending[j]
        /\ \A i \in 1..Len(pending) : pending[i] <= written - Len(tty)
    BY DEF PendingOrder
  <2>4. \A i \in 1..Len(pending') : i + 1 \in 1..Len(pending) /\ 1 < i + 1  BY <1>0, <2>2
  <2>5. 1 \in 1..Len(pending)  BY <1>0, <2>2
  <2>6. PendingOrder'
    <3>1. ASSUME NEW i \in 1..Len(pending'), NEW j \in 1..Len(pending'), i < j
          PROVE  pending'[i] < pending'[j]
      <4>1. i + 1 < j + 1  BY <1>0, <2>2, <3>1
      <4> QED  BY <2>2, <2>3, <2>4, <4>1
    <3>2. \A i \in 1..Len(pending') : pending'[i] <= written - Len(tty)  BY <2>2, <2>3, <2>4
    <3> QED  BY <2>1, <3>1, <3>2 DEF PendingOrder
  <2>7. TtyOrder'  BY <2>1 DEF TtyOrder
  <2>8. Unit <= written - Len(tty)  BY <2>2, <2>3, <2>5
  <2>9. \A j \in 1..Len(pending') : Unit < pending'[j]  BY <2>2, <2>3, <2>4, <2>5
  <2>10. \A i \in 1..Len(shown), j \in 1..Len(pending) : shown[i] < pending[j]  BY DEF ShownOrder
  <2>11. \A i \in 1..Len(shown) : shown[i] < Unit  BY <2>2, <2>5, <2>10
  <2>12. \A i \in 1..Len(shown), j \in 1..Len(pending') : shown[i] < pending'[j]  BY <2>2, <2>4, <2>10
  <2>13. Len(pending) + Len(tty) = Len(pending') + Len(tty') + 1 /\ Len(tty') <= Len(tty)
    BY <1>0, <2>1, <2>2
  <2>14. Len(pending') <= MaxCapture  BY <1>0, <1>a, <2>2
  <2> QED  BY <1>0, <1>b, <2>1, <2>2, <2>6, <2>7, <2>8, <2>9, <2>11, <2>12, <2>13, <2>14
<1>2. CASE pending = <<>>
  <2>1. tty # <<>>  BY <1>2 DEF ReadResult
  <2>2. /\ pending' = pending /\ tty' = Tail(tty) /\ Unit = Head(tty)
        /\ transcript' = Newest(Append(transcript, Head(tty)))
    BY <1>2 DEF TakeUnit, Unit
  <2>3. /\ Len(tty) > 0 /\ Unit = tty[1] /\ Unit \in Nat /\ tty' \in Seq(Nat)
        /\ Len(tty') = Len(tty) - 1 /\ \A i \in 1..Len(tty') : tty'[i] = tty[i + 1]
    BY <1>0, <2>1, <2>2
  <2>4. \A i \in 1..Len(tty) : tty[i] = written - Len(tty) + i  BY DEF TtyOrder
  <2>5. \A i \in 1..Len(tty') : i + 1 \in 1..Len(tty)  BY <1>0, <2>3
  <2>6. 1 \in 1..Len(tty)  BY <1>0, <2>3
  <2>7. Unit = written - Len(tty) + 1  BY <2>3, <2>4, <2>6
  <2>8. TtyOrder'
    <3>1. ASSUME NEW i \in 1..Len(tty')  PROVE tty'[i] = written - Len(tty') + i
      <4>1. tty'[i] = written - Len(tty) + (i + 1)  BY <2>3, <2>4, <2>5
      <4>2. Len(tty') = Len(tty) - 1 /\ i \in Nat  BY <1>0, <2>3
      <4> QED  BY <1>0, <4>1, <4>2
    <3> QED  BY <3>1 DEF TtyOrder
  <2>9. Len(pending) = 0 /\ Len(pending') = 0  BY <1>2, <2>2
  <2>10. PendingOrder'  BY <2>9 DEF PendingOrder
  <2>11. Unit <= written - Len(tty')  BY <1>0, <2>3, <2>7
  <2>12. \A i \in 1..Len(shown) : shown[i] < Unit
    <3> TAKE i \in 1..Len(shown)
    <3>1. shown[i] \in Nat /\ shown[i] <= written - Len(tty)  BY <1>0 DEF ShownOrder
    <3> QED  BY <1>0, <2>7, <3>1
  <2>13. transcript' \in Seq(Nat) /\ Len(transcript') <= MaxCapture
    <3>1. Append(transcript, Head(tty)) \in Seq(Nat)  BY <1>0, <2>2, <2>3
    <3> QED  BY <2>2, <3>1, NewestIs
  <2>14. Len(pending) + Len(tty) = Len(pending') + Len(tty') + 1 /\ Len(tty') <= Len(tty)
    BY <1>0, <2>3, <2>9
  <2>15. Len(pending') <= MaxCapture /\ pending' \in Seq(Nat)  BY <1>0, <2>2
  <2>16. /\ \A j \in 1..Len(pending') : Unit < pending'[j]
         /\ \A i \in 1..Len(shown), j \in 1..Len(pending') : shown[i] < pending'[j]
    BY <2>9
  <2> QED  BY <1>b, <2>3, <2>8, <2>10, <2>11, <2>12, <2>13, <2>14, <2>15, <2>16
<1> QED  BY <1>1, <1>2

\* A unit that was taken is counted, and shown in its place.
LEMMA TakeKeeps ==
  ASSUME FlowInv, ReadResult = "data", TakeUnit, UNCHANGED written,
         (taken' = taken + 1 /\ shown' = shown) \/ (taken' = taken /\ shown' = Append(shown, Unit))
  PROVE  FlowInv'
<1> USE DEF FlowInv
<1>0. /\ shown \in Seq(Nat) /\ Len(shown) \in Nat /\ Len(tty) \in Nat /\ Len(pending) \in Nat
      /\ written \in Nat /\ lost \in Nat /\ taken \in Nat
  BY DEF Buffers
<1>1. /\ Unit \in Nat /\ lost' = lost
      /\ tty' \in Seq(Nat) /\ pending' \in Seq(Nat) /\ transcript' \in Seq(Nat)
      /\ Len(pending') <= MaxCapture /\ Len(transcript') <= MaxCapture
  BY TakesOldest
<1>2. /\ Len(pending) + Len(tty) = Len(pending') + Len(tty') + 1 /\ Len(tty') <= Len(tty)
      /\ TtyOrder' /\ PendingOrder' /\ Unit <= written - Len(tty')
  BY TakesOldest
<1>3. /\ \A i \in 1..Len(shown) : shown[i] < Unit
      /\ \A j \in 1..Len(pending') : Unit < pending'[j]
      /\ \A i \in 1..Len(shown), j \in 1..Len(pending') : shown[i] < pending'[j]
  BY TakesOldest
<1>4. /\ \A i, j \in 1..Len(shown) : i < j => shown[i] < shown[j]
      /\ \A i \in 1..Len(shown) : shown[i] <= written - Len(tty)
  BY DEF ShownOrder
<1>5. \A i \in 1..Len(shown) : shown[i] <= written - Len(tty')
  <2> TAKE i \in 1..Len(shown)
  <2>1. shown[i] \in Nat /\ shown[i] <= written - Len(tty)  BY <1>0, <1>4
  <2>2. Len(tty') \in Nat  BY <1>1
  <2> QED  BY <1>0, <1>2, <2>1, <2>2
<1>6. /\ shown' \in Seq(Nat) /\ Len(shown') \in Nat /\ taken' \in Nat
      /\ Len(shown') + taken' = Len(shown) + taken + 1
  <2>1. CASE taken' = taken + 1 /\ shown' = shown  BY <1>0, <2>1
  <2>2. CASE taken' = taken /\ shown' = Append(shown, Unit)
    <3>1. shown' \in Seq(Nat) /\ Len(shown') = Len(shown) + 1  BY <1>0, <1>1, <2>2, AppendProperties
    <3> QED  BY <1>0, <2>2, <3>1
  <2> QED  BY <2>1, <2>2
<1>7. Buffers'  BY <1>0, <1>1, <1>6 DEF Buffers
<1>8. Counted'
  <2>1. PICK a \in Nat : a = Len(shown)  BY <1>0
  <2>2. PICK b \in Nat : b = Len(shown')  BY <1>6
  <2>3. PICK c \in Nat : c = Len(pending)  BY <1>0
  <2>4. PICK d \in Nat : d = Len(pending')  BY <1>1
  <2>5. PICK e \in Nat : e = Len(tty)  BY <1>0
  <2>6. PICK f \in Nat : f = Len(tty')  BY <1>1
  <2>7. PICK g \in Nat : g = taken  BY <1>0
  <2>8. PICK h \in Nat : h = taken'  BY <1>6
  <2>9. PICK k \in Nat : k = lost  BY <1>0
  <2>10. written = a + k + g + c + e  BY <2>1, <2>3, <2>5, <2>7, <2>9 DEF Counted
  <2>11. c + e = d + f + 1 /\ b + h = a + g + 1  BY <1>2, <1>6, <2>1, <2>2, <2>3, <2>4, <2>5, <2>6, <2>7, <2>8
  <2>12. written = b + k + h + d + f  BY <2>10, <2>11
  <2> QED  BY <1>1, <2>2, <2>4, <2>6, <2>8, <2>9, <2>12 DEF Counted
<1>9. ShownOrder'
  <2>1. CASE shown' = shown  BY <1>3, <1>4, <1>5, <2>1 DEF ShownOrder
  <2>2. CASE shown' = Append(shown, Unit)
    <3>1. /\ Len(shown') = Len(shown) + 1 /\ shown'[Len(shown) + 1] = Unit
          /\ \A i \in 1..Len(shown) : shown'[i] = shown[i]
      BY <1>0, <1>1, <2>2
    <3>2. \A i \in 1..Len(shown') : i \in 1..Len(shown) \/ i = Len(shown) + 1  BY <1>0, <3>1
    <3>3. ASSUME NEW i \in 1..Len(shown'), NEW j \in 1..Len(shown'), i < j
          PROVE  shown'[i] < shown'[j]
      <4>1. i \in 1..Len(shown)  BY <1>0, <3>1, <3>2, <3>3
      <4>2. shown'[i] = shown[i]  BY <3>1, <4>1
      <4>3. CASE j \in 1..Len(shown)  BY <1>4, <3>1, <3>3, <4>1, <4>2, <4>3
      <4>4. CASE j = Len(shown) + 1  BY <1>3, <3>1, <4>1, <4>2, <4>4
      <4> QED  BY <3>2, <4>3, <4>4
    <3>4. \A i \in 1..Len(shown') : shown'[i] <= written - Len(tty')  BY <1>2, <1>5, <3>1, <3>2
    <3>5. \A i \in 1..Len(shown'), j \in 1..Len(pending') : shown'[i] < pending'[j]
      BY <1>3, <3>1, <3>2
    <3> QED  BY <3>3, <3>4, <3>5 DEF ShownOrder
  <2> QED  BY <2>1, <2>2
<1> QED  BY <1>2, <1>7, <1>8, <1>9

\* The child writes its newest unit at the end of the pty.
LEMMA WriteKeeps ==
  ASSUME FlowInv, ChildWrites
  PROVE  FlowInv'
<1> USE DEF FlowInv
<1>0. /\ tty \in Seq(Nat) /\ pending \in Seq(Nat) /\ shown \in Seq(Nat)
      /\ Len(tty) \in Nat /\ Len(pending) \in Nat /\ Len(shown) \in Nat
      /\ written \in Nat /\ lost \in Nat /\ taken \in Nat
  BY DEF Buffers
<1>1. /\ written' = written + 1 /\ tty' = Append(tty, written + 1)
      /\ UNCHANGED <<pending, lost, transcript, taken, shown>>
  BY DEF ChildWrites
<1>a. written + 1 \in Nat  BY <1>0
<1>2. /\ tty' \in Seq(Nat) /\ Len(tty') = Len(tty) + 1 /\ tty'[Len(tty) + 1] = written + 1
      /\ \A i \in 1..Len(tty) : tty'[i] = tty[i]
  BY <1>0, <1>1, <1>a, AppendProperties
<1>3. Buffers'  BY <1>1, <1>2, <1>a DEF Buffers
<1>4. Counted'
  <2>1. written = Len(shown) + lost + taken + Len(pending) + Len(tty)  BY DEF Counted
  <2>2. written + 1 = Len(shown) + lost + taken + Len(pending) + (Len(tty) + 1)  BY <1>0, <2>1
  <2> QED  BY <1>1, <1>2, <2>2 DEF Counted
<1>5. written' - Len(tty') = written - Len(tty)  BY <1>0, <1>1, <1>2
<1>6. TtyOrder'
  <2>1. ASSUME NEW i \in 1..Len(tty')  PROVE tty'[i] = written - Len(tty) + i
    <3>1. CASE i \in 1..Len(tty)
      <4>1. tty[i] = written - Len(tty) + i  BY <3>1 DEF TtyOrder
      <4> QED  BY <1>2, <3>1, <4>1
    <3>2. CASE i = Len(tty) + 1  BY <1>0, <1>2, <3>2
    <3> QED  BY <1>0, <1>2, <3>1, <3>2
  <2> QED  BY <1>5, <2>1 DEF TtyOrder
<1>7. PendingOrder'  BY <1>1, <1>5 DEF PendingOrder
<1>8. ShownOrder'  BY <1>1, <1>5 DEF ShownOrder
<1> QED  BY <1>3, <1>4, <1>6, <1>7, <1>8

\* Steps that leave the buffers alone keep the flow.
LEMMA IdleKeepsFlow ==
  ASSUME FlowInv, UNCHANGED <<written, tty, pending, lost, transcript, taken, shown>>
  PROVE  FlowInv'
BY DEF FlowInv, Buffers, Counted, TtyOrder, PendingOrder, ShownOrder

\* Every step keeps the flow.
LEMMA FlowStep ==
  ASSUME FlowInv, TerminalNext \/ UNCHANGED terminalVars
  PROVE  FlowInv'
<1>1. CASE ChildWrites  BY <1>1, WriteKeeps
<1>2. CASE ChildHangsUp \/ ChildExits
  BY <1>2, IdleKeepsFlow, Zenon DEF ChildHangsUp, ChildExits, bufferVars
<1>3. CASE PollCommand
  <2>1. Capture /\ UNCHANGED <<written, taken, shown>>  BY <1>3 DEF PollCommand, PollCaptures, ptyVars
  <2> QED  BY <2>1, CaptureKeeps
<1>4. CASE PollAnswered  BY <1>4, IdleKeepsFlow, Zenon DEF PollAnswered, bufferVars
<1>5. CASE ReadCommand
  <2>1. ReadResult = "data" /\ TakeUnit /\ taken' = taken + 1 /\ shown' = shown /\ UNCHANGED written
    BY <1>5 DEF ReadCommand, ptyVars
  <2> QED  BY <2>1, TakeKeeps
<1>6. CASE Close  BY <1>6, IdleKeepsFlow, Zenon DEF Close, bufferVars
<1>7. CASE StreamStarts
  <2>1. Capture /\ UNCHANGED <<written, taken, shown>>  BY <1>7 DEF StreamStarts, PollCaptures, ptyVars
  <2> QED  BY <2>1, CaptureKeeps
<1>8. CASE StreamReads
  <2>1. UNCHANGED <<written, taken>>  BY <1>8 DEF StreamReads, ptyVars
  <2>2. \/ ReadResult = "data" /\ TakeUnit /\ shown' = Append(shown, Unit)
        \/ UNCHANGED <<tty, pending, lost, transcript, shown>>
    BY <1>8, Zenon DEF StreamReads, bufferVars
  <2>3. CASE ReadResult = "data" /\ TakeUnit /\ shown' = Append(shown, Unit)
    BY <2>1, <2>3, TakeKeeps
  <2>4. CASE UNCHANGED <<tty, pending, lost, transcript, shown>>  BY <2>1, <2>4, IdleKeepsFlow
  <2> QED  BY <2>2, <2>3, <2>4
<1>9. CASE StreamPolls
  <2>1. Capture /\ UNCHANGED <<written, taken, shown>>  BY <1>9 DEF StreamPolls, PollCaptures, ptyVars
  <2> QED  BY <2>1, CaptureKeeps
<1>10. CASE StreamSkipsPoll  BY <1>10, IdleKeepsFlow, Zenon DEF StreamSkipsPoll, bufferVars, ptyVars
<1>11. CASE StreamLearns  BY <1>11, IdleKeepsFlow, Zenon DEF StreamLearns, bufferVars
<1>12. CASE StreamBreaks  BY <1>12, IdleKeepsFlow, Zenon DEF StreamBreaks, bufferVars, ptyVars
<1>13. CASE UNCHANGED terminalVars  BY <1>13, IdleKeepsFlow, Zenon DEF terminalVars
<1> QED
  BY <1>1, <1>2, <1>3, <1>4, <1>5, <1>6, <1>7, <1>8, <1>9, <1>10, <1>11, <1>12, <1>13
  DEF TerminalNext, StreamStep

\* Every step keeps what an ending stream knows.
LEMMA EndStep ==
  ASSUME FlowInv, EndInv, TerminalNext \/ UNCHANGED terminalVars
  PROVE  EndInv'
<1> USE DEF EndInv, Over
<1>1. CASE ChildWrites  BY <1>1 DEF ChildWrites
<1>2. CASE ChildHangsUp \/ ChildExits  BY <1>2 DEF ChildHangsUp, ChildExits, bufferVars
<1>c. ASSUME Capture, UNCHANGED <<written, taken, shown>>
      PROVE  pending = <<>> /\ tty = <<>> => pending' = <<>> /\ tty' = <<>>
  BY <1>c, CaptureKeeps
<1>p. PollResult \in {"running", "exited", "reason", "openssh failure"}
      /\ (PollResult # "running" => Over)
  BY DEF PollResult, Classify
<1>3. CASE PollCommand
  <2>1. Capture /\ UNCHANGED <<written, taken, shown>>  BY <1>3 DEF PollCommand, PollCaptures, ptyVars
  <2>2. UNCHANGED <<child, verdict, streamPc, finalStatus>>  BY <1>3 DEF PollCommand, ptyVars
  <2> QED  BY <1>c, <2>1, <2>2
<1>4. CASE PollAnswered  BY <1>4, <1>p DEF PollAnswered, PollWaits, bufferVars
<1>5. CASE ReadCommand
  <2>1. ReadResult = "data" /\ UNCHANGED <<child, verdict, streamPc, finalStatus>>
    BY <1>5 DEF ReadCommand, ptyVars
  <2>2. pending # <<>> \/ tty # <<>>  BY <2>1 DEF ReadResult
  <2> QED  BY <2>1, <2>2
<1>6. CASE Close  BY <1>6 DEF Close, bufferVars
<1>7. CASE StreamStarts
  BY <1>7 DEF StreamStarts, PollCaptures, ptyVars
<1>8. CASE StreamReads
  <2>1. streamPc = "reading" /\ UNCHANGED <<child, verdict, finalStatus>>
    BY <1>8 DEF StreamReads, ptyVars
  <2>2. \/ ReadResult = "data" /\ streamPc' = "status"
        \/ /\ ReadResult = "pending" /\ streamPc' = (IF finalStatus # "none" THEN "ended" ELSE "status")
           /\ UNCHANGED <<tty, pending>>
        \/ /\ ReadResult = "end" /\ streamPc' = (IF finalStatus # "none" THEN "ended" ELSE "ending")
           /\ UNCHANGED <<tty, pending>>
        \/ ReadResult = "error" /\ streamPc' = "broken"
    BY <1>8, Zenon DEF StreamReads, bufferVars
  <2>3. CASE ReadResult = "data" /\ streamPc' = "status"  BY <2>1, <2>3
  <2>4. CASE /\ ReadResult = "pending" /\ streamPc' = (IF finalStatus # "none" THEN "ended" ELSE "status")
             /\ UNCHANGED <<tty, pending>>
    BY <2>1, <2>4 DEF ReadResult
  <2>5. CASE /\ ReadResult = "end" /\ streamPc' = (IF finalStatus # "none" THEN "ended" ELSE "ending")
             /\ UNCHANGED <<tty, pending>>
    BY <2>1, <2>5 DEF ReadResult
  <2>6. CASE ReadResult = "error" /\ streamPc' = "broken"  BY <2>1, <2>6
  <2> QED  BY <2>2, <2>3, <2>4, <2>5, <2>6
<1>9. CASE StreamPolls
  <2>1. Capture /\ UNCHANGED <<written, taken, shown>>  BY <1>9 DEF StreamPolls, PollCaptures, ptyVars
  <2>2. /\ UNCHANGED <<child, verdict, finalStatus>> /\ streamPc \in {"status", "ending"}
        /\ streamPc' = IF streamPc = "ending" THEN "closing" ELSE "polling"
    BY <1>9 DEF StreamPolls, ptyVars
  <2> QED  BY <1>c, <2>1, <2>2
<1>10. CASE StreamSkipsPoll  BY <1>10 DEF StreamSkipsPoll, bufferVars, ptyVars
<1>11. CASE StreamLearns
  <2>1. /\ streamPc \in {"polling", "closing"} /\ verdict' = PollResult
        /\ child' = IF child = "exited" THEN "reaped" ELSE child
        /\ streamPc' = IF streamPc = "closing" /\ verdict' # "running" THEN "ended" ELSE "reading"
        /\ finalStatus' = IF verdict' = "running" THEN "none" ELSE verdict'
        /\ UNCHANGED <<tty, pending>>
    BY <1>11 DEF StreamLearns, PollWaits, bufferVars
  <2> QED  BY <1>p, <2>1
<1>12. CASE StreamBreaks  BY <1>12 DEF StreamBreaks, bufferVars, ptyVars
<1>13. CASE UNCHANGED terminalVars  BY <1>13 DEF terminalVars
<1> QED
  BY <1>1, <1>2, <1>3, <1>4, <1>5, <1>6, <1>7, <1>8, <1>9, <1>10, <1>11, <1>12, <1>13
  DEF TerminalNext, StreamStep

\* For every amount of output and every bound of the captures: the client is
\* shown the units in the order the child wrote them, whoever polls and reads
\* in between, and an End frame comes after all of them (serve_terminal_stream).
THEOREM OutputStaysComplete == TerminalSpec => []OutputIsComplete
<1>1. TerminalInit => FlowInv /\ EndInv
  <2> SUFFICES ASSUME TerminalInit  PROVE FlowInv /\ EndInv
    OBVIOUS
  <2>1. /\ written = 0 /\ tty = <<>> /\ pending = <<>> /\ lost = 0 /\ transcript = <<>>
        /\ taken = 0 /\ shown = <<>> /\ child = "running" /\ verdict = "running"
        /\ streamPc = "new" /\ finalStatus = "none"
    BY DEF TerminalInit
  <2>2. Buffers /\ Counted  BY <2>1, TerminalAssumption DEF Buffers, Counted
  <2>3. TtyOrder /\ PendingOrder /\ ShownOrder  BY <2>1 DEF TtyOrder, PendingOrder, ShownOrder
  <2>4. EndInv  BY <2>1 DEF EndInv, Over
  <2> QED  BY <2>2, <2>3, <2>4 DEF FlowInv
<1>2. FlowInv /\ EndInv /\ [TerminalNext]_terminalVars => FlowInv' /\ EndInv'
  BY FlowStep, EndStep
<1>3. FlowInv /\ EndInv => OutputIsComplete
  <2> SUFFICES ASSUME FlowInv, EndInv  PROVE OutputIsComplete
    OBVIOUS
  <2>1. TerminalTypeOK  BY DEF FlowInv, EndInv, Buffers, TerminalTypeOK
  <2>2. ASSUME NEW i \in 1..Len(shown) - 1  PROVE shown[i] < shown[i + 1]
    <3>1. Len(shown) \in Nat  BY DEF FlowInv, Buffers
    <3>2. i \in 1..Len(shown) /\ i + 1 \in 1..Len(shown) /\ i < i + 1  BY <3>1
    <3> QED  BY <3>2 DEF FlowInv, ShownOrder
  <2>3. ASSUME streamPc = "ended"  PROVE written = Len(shown) + lost + taken
    <3>1. pending = <<>> /\ tty = <<>>  BY <2>3 DEF EndInv
    <3>2. Len(pending) = 0 /\ Len(tty) = 0  BY <3>1
    <3>3. Len(shown) \in Nat /\ lost \in Nat /\ taken \in Nat  BY DEF FlowInv, Buffers
    <3>4. written = Len(shown) + lost + taken + Len(pending) + Len(tty)  BY DEF FlowInv, Counted
    <3> QED  BY <3>2, <3>3, <3>4
  <2> QED  BY <2>1, <2>2, <2>3 DEF OutputIsComplete, EndMeansAll
<1> QED
  BY <1>1, <1>2, <1>3, PTL DEF TerminalSpec

-----------------------------------------------------------------------------
(* The permits of the server (IpcExchange) *)

\* A task holds its permits from the moment it gets them until it ends: its
\* connection's all along, those of its request while the provider runs.
HeldInv ==
  /\ DOMAIN sv = Conns /\ DOMAIN held = Conns /\ kind \in [Conns -> Kinds]
  /\ \A c \in Conns : sv[c] = "reading" => "conns" \in held[c]
  /\ \A c \in Conns : sv[c] = "provider" => "conns" \in held[c] /\ Range(Arms[kind[c]].permits) \subseteq held[c]

\* No pool is overdrawn.
WithinPools == \A p \in DOMAIN Cap : Cardinality(Holding(p)) <= Cap[p]

\* Permits that are given back leave every pool within its size.
LEMMA GivingBack ==
  ASSUME WithinPools, \A c \in Conns : held'[c] \subseteq held[c]
  PROVE  WithinPools'
<1> SUFFICES ASSUME NEW p \in DOMAIN Cap  PROVE Cardinality(Holding(p)') <= Cap[p]
  BY DEF WithinPools
<1>1. IsFiniteSet(Conns) /\ Cap[p] \in Nat  BY IpcAssumption
<1>2. Holding(p) \subseteq Conns /\ Holding(p)' \subseteq Holding(p)  BY DEF Holding
<1>3. IsFiniteSet(Holding(p))  BY <1>1, <1>2, FS_Subset
<1>4. /\ IsFiniteSet(Holding(p)') /\ Cardinality(Holding(p)') <= Cardinality(Holding(p))
  BY <1>2, <1>3, FS_Subset
<1>5. Cardinality(Holding(p)) \in Nat /\ Cardinality(Holding(p)') \in Nat
  BY <1>3, <1>4, FS_CardinalityType
<1> QED  BY <1>1, <1>4, <1>5 DEF WithinPools

\* A permit that is taken while its pool is not full fits.
LEMMA TakingFree ==
  ASSUME WithinPools, NEW c \in Conns, NEW new,
         \A x \in Conns : held'[x] \subseteq held[x] \cup (IF x = c THEN new ELSE {}),
         \A p \in new : ~Full(p)
  PROVE  WithinPools'
<1> SUFFICES ASSUME NEW p \in DOMAIN Cap  PROVE Cardinality(Holding(p)') <= Cap[p]
  BY DEF WithinPools
<1>1. IsFiniteSet(Conns) /\ Cap[p] \in Nat  BY IpcAssumption
<1>2. Holding(p) \subseteq Conns  BY DEF Holding
<1>3. IsFiniteSet(Holding(p))  BY <1>1, <1>2, FS_Subset
<1>4. Cardinality(Holding(p)) \in Nat /\ Cardinality(Holding(p)) <= Cap[p]
  BY <1>3, FS_CardinalityType DEF WithinPools
<1>5. CASE p \notin new
  <2>1. Holding(p)' \subseteq Holding(p)  BY <1>5 DEF Holding
  <2>2. IsFiniteSet(Holding(p)') /\ Cardinality(Holding(p)') <= Cardinality(Holding(p))
    BY <1>3, <2>1, FS_Subset
  <2>3. Cardinality(Holding(p)') \in Nat  BY <2>2, FS_CardinalityType
  <2> QED  BY <1>1, <1>4, <2>2, <2>3
<1>6. CASE p \in new
  <2>1. ~(Cardinality(Holding(p)) >= Cap[p])  BY <1>6 DEF Full
  <2>2. Holding(p)' \subseteq Holding(p) \cup {c}  BY DEF Holding
  <2>3. /\ IsFiniteSet(Holding(p) \cup {c})
        /\ Cardinality(Holding(p) \cup {c}) = Cardinality(Holding(p))
             \/ Cardinality(Holding(p) \cup {c}) = Cardinality(Holding(p)) + 1
    BY <1>3, FS_AddElement
  <2>4. IsFiniteSet(Holding(p)') /\ Cardinality(Holding(p)') <= Cardinality(Holding(p) \cup {c})
    BY <2>2, <2>3, FS_Subset
  <2>5. Cardinality(Holding(p)') \in Nat  BY <2>4, FS_CardinalityType
  <2> QED  BY <1>1, <1>4, <2>1, <2>3, <2>4, <2>5
<1> QED  BY <1>5, <1>6

\* The permits of a request are a sequence.
LEMMA PermitsAre ==
  ASSUME NEW k \in Kinds
  PROVE  Arms[k].permits \in {<<>>, <<"streams">>, <<"streams", "exports">>}
<1>1. k \in {"Health", "Telemetry", "Network", "Usage", "RemoteCapabilities", "SystemInfo", "RemoteProfile",
            "Secret", "RemoteSession", "Terminal", "TerminalStream", "Transfer", "TransferList",
            "LocalHandle", "SpeedTestCancel", "SpeedTestDeep", "Notes", "NotesList", "NotesGet",
            "NotesExport"}
  BY DEF Kinds, Arms
<1> QED
  BY <1>1 DEF Arms, Arm, HealthArm, TelemetryArm, NetworkArm, UsageArm, RemoteCapabilitiesArm,
     SystemInfoArm, RemoteProfileArm, SecretArm, RemoteSessionArm, TerminalArm, TerminalStreamArm,
     TransferArm, TransferListArm, LocalHandleArm, SpeedTestCancelArm, SpeedTestDeepArm, NotesArm,
     NotesListArm, NotesGetArm, NotesExportArm

\* A permit is asked for only where the ones before it are free.
LEMMA PrefixIsFree ==
  ASSUME NEW ps, NEW p \in {ps[i] : i \in {j \in DOMAIN ps : \A m \in 1..j : ~Full(ps[m])}},
         DOMAIN ps \subseteq Nat \ {0}
  PROVE  ~Full(p)
<1>1. PICK i \in DOMAIN ps : p = ps[i] /\ \A m \in 1..i : ~Full(ps[m])  OBVIOUS
<1>2. i \in 1..i  OBVIOUS
<1> QED  BY <1>1, <1>2

\* Every step keeps the permits with their tasks and the pools within their sizes.
LEMMA PermitsStep ==
  ASSUME HeldInv, WithinPools, IpcNext \/ UNCHANGED ipcVars
  PROVE  HeldInv' /\ WithinPools'
<1> USE DEF HeldInv
<1>i. ASSUME UNCHANGED <<kind, sv, held>>  PROVE HeldInv' /\ WithinPools'
  BY <1>i DEF WithinPools, Holding
<1>1. ASSUME NEW c \in Conns, NEW k \in KindsOf[c], NEW r \in {"good", "invalid", "other version"},
             Call(c, k, r)
      PROVE  HeldInv' /\ WithinPools'
  <2>1. /\ sv[c] = "none" /\ kind' = [kind EXCEPT ![c] = k] /\ sv' = [sv EXCEPT ![c] = "backlog"]
        /\ held' = held
    BY <1>1 DEF Call
  <2>2. k \in Kinds  BY <1>1, KindsAssumption
  <2>3. HeldInv'  BY <2>1, <2>2
  <2> QED  BY <2>1, <2>3 DEF WithinPools, Holding
<1>2. ASSUME NEW c \in Conns, Accept(c)  PROVE HeldInv' /\ WithinPools'
  <2>1. kind' = kind  BY <1>2 DEF Accept
  <2>2. CASE sv' = [sv EXCEPT ![c] = "closed"] /\ UNCHANGED held
    BY <2>1, <2>2 DEF WithinPools, Holding
  <2>3. CASE ~Full("conns") /\ sv' = [sv EXCEPT ![c] = "reading"] /\ held' = [held EXCEPT ![c] = {"conns"}]
    <3>1. HeldInv'  BY <2>1, <2>3
    <3>2. \A x \in Conns : held'[x] \subseteq held[x] \cup (IF x = c THEN {"conns"} ELSE {})  BY <2>3
    <3> QED  BY <2>3, <3>1, <3>2, TakingFree
  <2> QED  BY <1>2, <2>2, <2>3 DEF Accept
<1>3. ASSUME NEW c \in Conns, Dispatch(c)  PROVE HeldInv' /\ WithinPools'
  <2>1. kind' = kind /\ sv[c] = "reading"  BY <1>3 DEF Dispatch
  <2>2. \/ sv' = [sv EXCEPT ![c] = "writing"] /\ UNCHANGED held
        \/ /\ held' = [held EXCEPT ![c] = held[c] \cup Acquired(Arms[kind[c]].permits)]
           /\ \/ sv' = [sv EXCEPT ![c] = "writing"] \/ sv' = [sv EXCEPT ![c] = "streaming"]
              \/ /\ sv' = [sv EXCEPT ![c] = "provider"]
                 /\ Acquired(Arms[kind[c]].permits) = Range(Arms[kind[c]].permits)
    BY <1>3 DEF Dispatch
  <2>3. CASE sv' = [sv EXCEPT ![c] = "writing"] /\ UNCHANGED held
    BY <2>1, <2>3 DEF WithinPools, Holding
  <2>4. CASE /\ held' = [held EXCEPT ![c] = held[c] \cup Acquired(Arms[kind[c]].permits)]
             /\ \/ sv' = [sv EXCEPT ![c] = "writing"] \/ sv' = [sv EXCEPT ![c] = "streaming"]
                \/ /\ sv' = [sv EXCEPT ![c] = "provider"]
                   /\ Acquired(Arms[kind[c]].permits) = Range(Arms[kind[c]].permits)
    <3>0. PICK new : new = Acquired(Arms[kind[c]].permits)  OBVIOUS
    <3>1. held' = [held EXCEPT ![c] = held[c] \cup new]  BY <2>4, <3>0
    <3>2. \A x \in Conns : held'[x] \subseteq held[x] \cup (IF x = c THEN new ELSE {})  BY <3>1
    <3>3. \A p \in new : ~Full(p)
      <4>0. PICK ps : ps = Arms[kind[c]].permits  OBVIOUS
      <4>1. new = {ps[i] : i \in {j \in DOMAIN ps : \A m \in 1..j : ~Full(ps[m])}}
        BY <3>0, <4>0 DEF Acquired
      <4>2. kind[c] \in Kinds  OBVIOUS
      <4>3. ps \in {<<>>, <<"streams">>, <<"streams", "exports">>}  BY <4>0, <4>2, PermitsAre
      <4>4. DOMAIN ps \subseteq Nat \ {0}  BY <4>3
      <4> QED  BY <4>1, <4>4, PrefixIsFree
    <3>4. WithinPools'  BY <3>2, <3>3, TakingFree
    <3>5. \A x \in Conns : held[x] \subseteq held'[x]  BY <3>1
    <3>6. \A x \in Conns : x # c => sv'[x] = sv[x]  BY <2>4
    <3>7. sv'[c] # "reading" /\ (sv'[c] = "provider" => Range(Arms[kind[c]].permits) \subseteq held'[c])
      BY <2>4, <3>0, <3>1
    <3>8. DOMAIN sv' = Conns /\ DOMAIN held' = Conns  BY <2>4
    <3> QED  BY <2>1, <3>4, <3>5, <3>6, <3>7, <3>8
  <2> QED  BY <2>2, <2>3, <2>4
<1>e. ASSUME NEW c \in Conns, kind' = kind, sv' = [sv EXCEPT ![c] = "closed"], held' = [held EXCEPT ![c] = {}]
      PROVE  HeldInv' /\ WithinPools'
  <2>1. HeldInv'  BY <1>e
  <2>2. \A x \in Conns : held'[x] \subseteq held[x]  BY <1>e
  <2> QED  BY <2>1, <2>2, GivingBack
<1>w. ASSUME NEW c \in Conns, kind' = kind, sv' = [sv EXCEPT ![c] = "writing"], held' = held
      PROVE  HeldInv' /\ WithinPools'
  BY <1>w DEF WithinPools, Holding
<1>4. ASSUME NEW c \in Conns, Answer(c)  PROVE HeldInv' /\ WithinPools'
  <2>1. /\ kind' = kind
        /\ sv' = [sv EXCEPT ![c] = IF plan'[c] = <<>> THEN "closed" ELSE "writing"]
        /\ held' = [held EXCEPT ![c] = IF plan'[c] = <<>> THEN {} ELSE held[c]]
    BY <1>4 DEF Answer
  <2>2. CASE plan'[c] = <<>>  BY <1>e, <2>1, <2>2
  <2>3. CASE plan'[c] # <<>>
    <3>1. sv' = [sv EXCEPT ![c] = "writing"]  BY <2>1, <2>3
    <3>2. HeldInv' /\ \A x \in Conns : held'[x] = held[x]  BY <2>1, <2>3, <3>1
    <3> QED  BY <3>2, GivingBack
  <2> QED  BY <2>2, <2>3
<1>5. ASSUME NEW c \in Conns, WriteFrame(c)  PROVE HeldInv' /\ WithinPools'
  <2>0. PICK last : last = (Len(plan[c]) = 1 \/ Gone(c))  OBVIOUS
  <2>1. /\ kind' = kind /\ sv[c] = "writing"
        /\ sv' = [sv EXCEPT ![c] = IF last THEN "closed" ELSE sv[c]]
        /\ held' = [held EXCEPT ![c] = IF last THEN {} ELSE held[c]]
    BY <1>5, <2>0 DEF WriteFrame
  <2>2. HeldInv'  BY <2>1
  <2>3. \A x \in Conns : held'[x] \subseteq held[x]  BY <2>1
  <2> QED  BY <2>2, <2>3, GivingBack
<1>6. ASSUME NEW c \in Conns, ConnDeadline(c) \/ StreamCloses(c)  PROVE HeldInv' /\ WithinPools'
  <2>1. kind' = kind /\ sv' = [sv EXCEPT ![c] = "closed"] /\ held' = [held EXCEPT ![c] = {}]
    BY <1>6 DEF ConnDeadline, StreamCloses, CloseTask
  <2> QED  BY <1>e, <2>1
<1>7. ASSUME NEW c \in Conns, ClientStep(c)  PROVE HeldInv' /\ WithinPools'
  <2>1. UNCHANGED <<kind, sv, held>>
    BY <1>7, Zenon DEF ClientStep, SendRequest, ReadFrame, ReadEof, TrailingData, ClientTimeout
  <2> QED  BY <1>i, <2>1
<1>8. CASE StopServing
  <2>1. UNCHANGED <<kind, sv, held>>  BY <1>8 DEF StopServing
  <2> QED  BY <1>i, <2>1
<1>9. CASE ServeEnds
  <2>1. /\ kind' = kind /\ held' = [c \in Conns |-> {}]
        /\ sv' = [c \in Conns |-> IF sv[c] # "none" THEN "closed" ELSE "none"]
    BY <1>9 DEF ServeEnds
  <2>2. HeldInv'  BY <2>1
  <2>3. \A x \in Conns : held'[x] \subseteq held[x]  BY <2>1
  <2> QED  BY <2>2, <2>3, GivingBack
<1>10. CASE UNCHANGED ipcVars
  <2>1. UNCHANGED <<kind, sv, held>>  BY <1>10 DEF ipcVars
  <2> QED  BY <1>i, <2>1
<1> QED
  BY <1>1, <1>2, <1>3, <1>4, <1>5, <1>6, <1>7, <1>8, <1>9, <1>10 DEF IpcNext, ServerStep

\* For any number of connections and any sizes of the pools: whatever order
\* requests come and end in, no more providers run behind a pool than it has
\* permits (the semaphores of handle_connection_inner).
THEOREM PoolsBoundProviders == IpcSpec => []PoolsBoundWork
<1>1. IpcInit => HeldInv /\ WithinPools
  <2> SUFFICES ASSUME IpcInit  PROVE HeldInv /\ WithinPools
    OBVIOUS
  <2>1. /\ kind = [c \in Conns |-> "Health"] /\ sv = [c \in Conns |-> "none"]
        /\ held = [c \in Conns |-> {}]
    BY DEF IpcInit
  <2>a. "Health" \in Kinds  BY DEF Kinds, Arms
  <2>2. HeldInv  BY <2>1, <2>a DEF HeldInv
  <2>3. ASSUME NEW p \in DOMAIN Cap  PROVE Cardinality(Holding(p)) <= Cap[p]
    <3>1. Holding(p) = {}  BY <2>1 DEF Holding
    <3>2. Cardinality(Holding(p)) = 0  BY <3>1, FS_EmptySet
    <3> QED  BY <3>2, IpcAssumption
  <2> QED  BY <2>2, <2>3 DEF WithinPools
<1>2. HeldInv /\ WithinPools /\ [IpcNext]_ipcVars => HeldInv' /\ WithinPools'
  BY PermitsStep
<1>3. HeldInv /\ WithinPools => PoolsBoundWork
  <2> SUFFICES ASSUME HeldInv, WithinPools, NEW p \in DOMAIN Cap,
                      NEW S, S = {c \in Conns : sv[c] = "provider" /\ (p = "conns" \/ p \in Range(Arms[kind[c]].permits))}
               PROVE  Cardinality(S) <= Cap[p]
    BY DEF PoolsBoundWork
  <2>1. S \subseteq Holding(p)  BY DEF HeldInv, Holding
  <2>2. IsFiniteSet(Conns) /\ Cap[p] \in Nat  BY IpcAssumption
  <2>3. IsFiniteSet(Holding(p))
    <3>1. Holding(p) \subseteq Conns  BY DEF Holding
    <3> QED  BY <2>2, <3>1, FS_Subset
  <2>4. IsFiniteSet(S) /\ Cardinality(S) <= Cardinality(Holding(p))  BY <2>1, <2>3, FS_Subset
  <2>5. Cardinality(S) \in Nat /\ Cardinality(Holding(p)) \in Nat  BY <2>3, <2>4, FS_CardinalityType
  <2> QED  BY <2>2, <2>4, <2>5 DEF WithinPools
<1> QED
  BY <1>1, <1>2, <1>3, PTL DEF IpcSpec

-----------------------------------------------------------------------------
(* Frames and plans: sizes *)

\* A bounded set of numbers has a greatest one.
LEMMA HasGreatest ==
  ASSUME NEW n \in Nat, NEW S \in SUBSET (1..n), S # {}
  PROVE  \E x \in S : \A y \in S : y <= x
<1> DEFINE A == {i \in 0..n : (\E x \in S : x <= i) => \E x \in S : x <= i /\ \A y \in S : y <= i => y <= x}
<1>1. 0 \in A  OBVIOUS
<1>2. ASSUME NEW i \in 1..n, i - 1 \in A
      PROVE  i \in A
  <2>1. CASE i \in S
    BY <2>1
  <2>2. CASE i \notin S
    <3>1. \A y \in S : y <= i <=> y <= i - 1  BY <2>2
    <3> QED  BY <1>2, <3>1
  <2> QED  BY <2>1, <2>2
<1> HIDE DEF A
<1>3. \A i \in 0..n : i \in A  BY <1>1, <1>2, CountingUp
<1>4. n \in A  BY <1>3
<1>5. \A x \in S : x <= n  OBVIOUS
<1> QED  BY <1>4, <1>5 DEF A

\* The function that Size defines.
IsSum(g, s) == g = [i \in 0..Len(s) |-> IF i = 0 THEN 0 ELSE g[i - 1] + s[i]]

\* The size in terms of that function.
LEMMA SizeIs ==
  ASSUME NEW s
  PROVE  Size(s) = (CHOOSE g : IsSum(g, s))[Len(s)]
BY DEF Size, IsSum

\* The size is the last of the running totals.
LEMMA SizeTelescopes ==
  ASSUME NEW s, NEW n \in Nat, Len(s) = n, NEW at \in [0..n -> Nat], at[0] = 0,
         \A k \in 1..n : at[k] = at[k - 1] + s[k]
  PROVE  Size(s) = at[n]
<1>1. \A i \in 0..n : at[i] = IF i = 0 THEN 0 ELSE at[i - 1] + s[i]
  <2>1. \A i \in 0..n : i # 0 => i \in 1..n  OBVIOUS
  <2> QED  BY <2>1
<1>2. IsSum(at, s)  BY <1>1 DEF IsSum
<1>3. PICK g : g = CHOOSE x : IsSum(x, s)  OBVIOUS
<1>4. IsSum(g, s)  BY <1>2, <1>3
<1>5. \A i \in 0..n : g[i] = IF i = 0 THEN 0 ELSE g[i - 1] + s[i]  BY <1>4 DEF IsSum
<1> DEFINE A == {i \in 0..n : g[i] = at[i]}
<1>6. 0 \in A  BY <1>5
<1>7. ASSUME NEW i \in 1..n, i - 1 \in A
      PROVE  i \in A
  <2>1. i \in 0..n /\ i # 0  OBVIOUS
  <2>2. g[i] = g[i - 1] + s[i] /\ at[i] = at[i - 1] + s[i]  BY <1>5, <2>1
  <2> QED  BY <1>7, <2>1, <2>2
<1> HIDE DEF A
<1>8. \A i \in 0..n : i \in A  BY <1>6, <1>7, CountingUp
<1>9. n \in A  BY <1>8
<1>10. g[n] = at[n]  BY <1>9 DEF A
<1> QED  BY <1>3, <1>10, SizeIs

\* No records, no size.
LEMMA SizeOfNone == Size(<<>>) = 0
<1>1. PICK s : s = <<>>  OBVIOUS
<1>2. Len(s) = 0  BY <1>1
<1>3. PICK at : at = [i \in 0..0 |-> 0]  OBVIOUS
<1>4. at \in [0..0 -> Nat] /\ at[0] = 0 /\ \A k \in 1..0 : at[k] = at[k - 1] + s[k]  BY <1>3
<1>5. 0 \in Nat  OBVIOUS
<1>6. Size(s) = at[0]  BY <1>2, <1>4, <1>5, SizeTelescopes
<1> QED  BY <1>1, <1>4, <1>6

\* The running totals of a sequence of sizes.
Totals(g, s) == g \in [0..Len(s) -> Nat] /\ g[0] = 0 /\ \A k \in 1..Len(s) : g[k] = g[k - 1] + s[k]

\* There are such totals.
LEMMA TotalsExist ==
  ASSUME NEW s \in Seq(Nat)
  PROVE  \E g : Totals(g, s)
<1>1. PICK n \in Nat : n = Len(s)  OBVIOUS
<1>2. \A i \in 1..n : s[i] \in Nat  BY <1>1
<1>3. PICK st : st = [p \in (1..n) \X Nat |-> p[2] + s[p[1]]]  OBVIOUS
<1>4. \A i \in 1..n : \A v \in Nat : st[<<i, v>>] = v + s[i]  BY <1>3
<1>5. \A i \in 1..n : \A v \in Nat : st[<<i, v>>] \in Nat
  <2>1. ASSUME NEW i \in 1..n, NEW v \in Nat
        PROVE  st[<<i, v>>] \in Nat
    <3>1. PICK x \in Nat : x = s[i]  BY <1>2
    <3>2. st[<<i, v>>] = v + x  BY <1>4, <3>1
    <3> QED  BY <3>2
  <2> QED  BY <2>1
<1>6. PICK g \in [0..n -> Nat] : Steps(g, n, 0, st)
  <2>1. 0 \in Nat  OBVIOUS
  <2> QED  BY <1>5, <2>1, StepsExist
<1>7. \A i \in 0..n : g[i] = IF i = 0 THEN 0 ELSE st[<<i, g[i - 1]>>]  BY <1>6 DEF Steps
<1>8. \A i \in 1..n : g[i] = g[i - 1] + s[i]
  <2>1. SUFFICES ASSUME NEW i \in 1..n PROVE g[i] = g[i - 1] + s[i]
    OBVIOUS
  <2>2. i \in 0..n /\ i # 0 /\ g[i - 1] \in Nat  BY <1>6
  <2> QED  BY <1>4, <1>7, <2>2
<1>9. g[0] = 0
  <2>1. 0 \in 0..n  OBVIOUS
  <2> QED  BY <1>7, <2>1, Zenon
<1> QED  BY <1>1, <1>6, <1>8, <1>9 DEF Totals

\* The last of them is the size.
LEMMA SizeIsTotal ==
  ASSUME NEW s \in Seq(Nat), NEW g, Totals(g, s)
  PROVE  Size(s) = g[Len(s)]
<1>1. PICK n \in Nat : n = Len(s)  OBVIOUS
<1>2. g \in [0..n -> Nat] /\ g[0] = 0 /\ \A k \in 1..n : g[k] = g[k - 1] + s[k]  BY <1>1 DEF Totals
<1> QED  BY <1>1, <1>2, SizeTelescopes

\* Totals grow.
LEMMA TotalsGrow ==
  ASSUME NEW s \in Seq(Nat), NEW g, Totals(g, s), NEW i \in 0..Len(s), NEW j \in 0..Len(s), i <= j
  PROVE  g[i] <= g[j]
<1>1. PICK n \in Nat : n = Len(s)  OBVIOUS
<1>2. g \in [0..n -> Nat] /\ \A k \in 1..n : g[k] = g[k - 1] + s[k] /\ s[k] \in Nat  BY <1>1 DEF Totals
<1> DEFINE A == {k \in 0..n : i <= k => g[i] <= g[k]}
<1>3. i \in 0..n /\ j \in 0..n  BY <1>1
<1>4. 0 \in A
  <2>1. i <= 0 => i = 0  BY <1>3
  <2>2. g[0] \in Nat /\ 0 \in 0..n  BY <1>2
  <2> QED  BY <2>1, <2>2
<1>5. ASSUME NEW k \in 1..n, k - 1 \in A
      PROVE  k \in A
  <2>1. k \in 0..n /\ k - 1 \in 0..n  OBVIOUS
  <2>2. g[k] = g[k - 1] + s[k] /\ s[k] \in Nat /\ g[k] \in Nat /\ g[k - 1] \in Nat /\ g[i] \in Nat
    BY <1>2, <1>3, <2>1
  <2>3. CASE i = k
    BY <2>1, <2>2, <2>3
  <2>4. CASE i # k
    <3>1. i <= k => i <= k - 1  BY <1>3, <2>4
    <3>2. i <= k - 1 => g[i] <= g[k - 1]  BY <1>5
    <3> QED  BY <2>1, <2>2, <3>1, <3>2
  <2> QED  BY <2>3, <2>4
<1> HIDE DEF A
<1>6. \A k \in 0..n : k \in A  BY <1>4, <1>5, CountingUp
<1>7. j \in A  BY <1>3, <1>6
<1> QED  BY <1>7 DEF A

\* A size is a number.
LEMMA SizeType ==
  ASSUME NEW s \in Seq(Nat)
  PROVE  Size(s) \in Nat
<1>1. PICK n \in Nat : n = Len(s)  OBVIOUS
<1>2. PICK g : Totals(g, s)  BY TotalsExist
<1>3. g \in [0..n -> Nat] /\ n \in 0..n  BY <1>1, <1>2 DEF Totals
<1>4. g[n] \in Nat  BY <1>3
<1> QED  BY <1>1, <1>2, <1>4, SizeIsTotal

\* The size of a sequence of units is their number.
LEMMA SizeOfUnits ==
  ASSUME NEW s \in Seq(Nat), \A i \in 1..Len(s) : s[i] = 1
  PROVE  Size(s) = Len(s)
<1>1. PICK n \in Nat : n = Len(s)  OBVIOUS
<1>2. PICK at : at = [i \in 0..n |-> i]  OBVIOUS
<1>3. at \in [0..n -> Nat] /\ at[0] = 0 /\ at[n] = n  BY <1>2
<1>4. \A k \in 1..n : at[k] = at[k - 1] + s[k]
  <2>1. ASSUME NEW k \in 1..n PROVE at[k] = at[k - 1] + s[k]
    <3>1. at[k] = k /\ at[k - 1] = k - 1 /\ s[k] = 1  BY <1>1, <1>2
    <3> QED  BY <3>1
  <2> QED  BY <2>1
<1>5. Size(s) = at[n]  BY <1>1, <1>3, <1>4, SizeTelescopes, SMTT(40)
<1> QED  BY <1>1, <1>3, <1>5

-----------------------------------------------------------------------------
(* Frames and plans: chunks *)

\* A chunk takes nothing, or records that fit its frame and its limit.
LEMMA ChunkLengthIs ==
  ASSUME NEW s \in Seq(Nat)
  PROVE  /\ ChunkLength(s) \in 0..Len(s)
         /\ ChunkLength(s) # 0 => ChunkLength(s) <= MaxChunk /\ Size(SubSeq(s, 1, ChunkLength(s))) <= MaxFrame
<1>1. MaxChunk \in Nat /\ Len(s) \in Nat  BY IpcAssumption
<1>2. PICK fits : fits = {n \in 1..MaxChunk : n <= Len(s) /\ Size(SubSeq(s, 1, n)) <= MaxFrame}  OBVIOUS
<1>3. ChunkLength(s) = IF fits = {} THEN 0 ELSE CHOOSE n \in fits : \A m \in fits : m <= n  BY <1>2 DEF ChunkLength
<1>4. CASE fits = {}
  BY <1>1, <1>3, <1>4
<1>5. CASE fits # {}
  <2>1. fits \in SUBSET (1..MaxChunk)  BY <1>2
  <2>2. \E n \in fits : \A m \in fits : m <= n  BY <1>1, <1>5, <2>1, HasGreatest
  <2>3. PICK l : l = ChunkLength(s)  OBVIOUS
  <2>4. l \in fits  BY <1>3, <1>5, <2>2, <2>3
  <2>5. l \in 1..MaxChunk /\ l <= Len(s) /\ Size(SubSeq(s, 1, l)) <= MaxFrame  BY <1>2, <2>4
  <2> QED  BY <1>1, <2>3, <2>5
<1> QED  BY <1>4, <1>5

\* The chunks cs are what s is cut into at these offsets, none of them empty.
Cuts(cs, s, at) ==
  /\ at \in [0..Len(cs) -> 0..Len(s)] /\ at[0] = 0 /\ at[Len(cs)] = Len(s)
  /\ \A k \in 1..Len(cs) : at[k - 1] < at[k] /\ cs[k] = SubSeq(s, at[k - 1] + 1, at[k])

\* The cut points that RecordChunks defines.
IsCut(g, recs) ==
  g = [k \in 0..Len(recs) |-> IF k = 0 THEN 0 ELSE g[k - 1] + ChunkLength(SubSeq(recs, g[k - 1] + 1, Len(recs)))]

StopsAt(i, recs, g) ==
  (\A k \in 1..i : g[k - 1] < g[k]) /\ (i < Len(recs) => g[i + 1] = g[i])

CutOf(recs) == CHOOSE g : IsCut(g, recs)

StopOf(recs) == CHOOSE i \in 0..Len(recs) : StopsAt(i, recs, CutOf(recs))

\* The chunks in terms of the cut points.
LEMMA RecordChunksAre ==
  ASSUME NEW recs
  PROVE  RecordChunks(recs) = [k \in 1..StopOf(recs) |-> SubSeq(recs, CutOf(recs)[k - 1] + 1, CutOf(recs)[k])]
                              \o (IF CutOf(recs)[StopOf(recs)] < Len(recs) THEN <<TooBig>> ELSE <<>>)
BY DEF RecordChunks, IsCut, StopsAt, CutOf, StopOf

\* The first l entries of a sequence.
LEMMA LeadingIs ==
  ASSUME NEW T, NEW s \in Seq(T), NEW l \in 0..Len(s), NEW a, a = SubSeq(s, 1, l)
  PROVE  a \in Seq(T) /\ Len(a) = l /\ \A i \in 1..l : a[i] = s[i]
<1>1. 1 \in Int /\ l \in Int /\ \A i \in 1..l : s[i] \in T  OBVIOUS
<1>2. /\ a \in Seq(T) /\ Len(a) = (IF 1 <= l THEN l - 1 + 1 ELSE 0)
      /\ \A i \in 1..l - 1 + 1 : a[i] = s[1 + i - 1]
  BY <1>1, SubSeqProperties
<1>3. \A i \in 1..l : i \in 1..l - 1 + 1 /\ 1 + i - 1 = i  OBVIOUS
<1> QED  BY <1>2, <1>3

\* What is left of the records after the first v.
LEMMA RestIs ==
  ASSUME NEW T, NEW s \in Seq(T), NEW v \in 0..Len(s), NEW rest, rest = SubSeq(s, v + 1, Len(s))
  PROVE  /\ rest \in Seq(T) /\ Len(rest) = Len(s) - v
         /\ \A l \in 0..Len(s) - v : SubSeq(rest, 1, l) = SubSeq(s, v + 1, v + l)
<1>1. PICK n \in Nat : n = Len(s)  OBVIOUS
<1>2. v + 1 \in Int /\ n \in Int /\ \A i \in v + 1..n : s[i] \in T  BY <1>1
<1>3. /\ rest \in Seq(T) /\ Len(rest) = (IF v + 1 <= n THEN n - (v + 1) + 1 ELSE 0)
      /\ \A i \in 1..n - (v + 1) + 1 : rest[i] = s[v + 1 + i - 1]
  BY <1>1, <1>2, SubSeqProperties
<1>4. Len(rest) = n - v  BY <1>1, <1>3
<1>5. \A i \in 1..n - v : rest[i] = s[v + i]
  <2>1. \A i \in 1..n - v : i \in 1..n - (v + 1) + 1 /\ v + 1 + i - 1 = v + i  BY <1>1
  <2> QED  BY <1>3, <2>1
<1>6. ASSUME NEW l \in 0..n - v
      PROVE  SubSeq(rest, 1, l) = SubSeq(s, v + 1, v + l)
  <2>1. PICK a, b : a = SubSeq(rest, 1, l) /\ b = SubSeq(s, v + 1, v + l)  OBVIOUS
  <2>2. l \in 0..Len(rest)  BY <1>4
  <2>3. a \in Seq(T) /\ Len(a) = l /\ \A i \in 1..l : a[i] = rest[i]  BY <1>3, <2>1, <2>2, LeadingIs
  <2>4. v + 1 \in Int /\ v + l \in Int /\ \A i \in v + 1..v + l : s[i] \in T  BY <1>1
  <2>5. /\ b \in Seq(T) /\ Len(b) = (IF v + 1 <= v + l THEN v + l - (v + 1) + 1 ELSE 0)
        /\ \A i \in 1..v + l - (v + 1) + 1 : b[i] = s[v + 1 + i - 1]
    BY <2>1, <2>4, SubSeqProperties
  <2>6. Len(a) = l /\ Len(b) = l  BY <1>1, <2>3, <2>5
  <2>7. \A i \in 1..l : a[i] = s[v + i]
    <3>1. \A i \in 1..l : i \in 1..n - v  BY <1>1
    <3> QED  BY <1>5, <2>3, <3>1
  <2>8. \A i \in 1..l : b[i] = s[v + i]
    <3>1. \A i \in 1..l : i \in 1..v + l - (v + 1) + 1 /\ v + 1 + i - 1 = v + i  BY <1>1
    <3> QED  BY <2>5, <3>1
  <2>9. a \in Seq(T) /\ b \in Seq(T)  BY <2>3, <2>5
  <2>10. \A i \in 1..Len(a) : a[i] = b[i]  BY <2>6, <2>7, <2>8
  <2> HIDE <2>1
  <2>11. a = b  BY <2>6, <2>9, <2>10, SeqEqual
  <2> QED  BY <2>1, <2>11
<1> QED  BY <1>1, <1>3, <1>4, <1>6

\* One cut: the next chunk stays within the records, its limit and its frame.
LEMMA NextCut ==
  ASSUME NEW recs \in Seq(Nat), NEW v \in 0..Len(recs), NEW w, w = v + ChunkLength(SubSeq(recs, v + 1, Len(recs)))
  PROVE  /\ w \in v..Len(recs)
         /\ v < w => w - v <= MaxChunk /\ Size(SubSeq(recs, v + 1, w)) <= MaxFrame
<1>1. PICK rest : rest = SubSeq(recs, v + 1, Len(recs))  OBVIOUS
<1>2. /\ rest \in Seq(Nat) /\ Len(rest) = Len(recs) - v
      /\ \A l \in 0..Len(recs) - v : SubSeq(rest, 1, l) = SubSeq(recs, v + 1, v + l)
  BY <1>1, RestIs
<1>3. PICK l : l = ChunkLength(rest)  OBVIOUS
<1>4. l \in 0..Len(rest) /\ (l # 0 => l <= MaxChunk /\ Size(SubSeq(rest, 1, l)) <= MaxFrame)
  BY <1>2, <1>3, ChunkLengthIs
<1>5. l \in 0..Len(recs) - v /\ w = v + l  BY <1>1, <1>2, <1>3, <1>4
<1>6. Len(recs) \in Nat  OBVIOUS
<1>7. w \in v..Len(recs) /\ w - v = l /\ (v < w => l # 0)  BY <1>5, <1>6
<1>8. SubSeq(rest, 1, l) = SubSeq(recs, v + 1, w)  BY <1>2, <1>5
<1> QED  BY <1>4, <1>7, <1>8

\* The cut points are defined: each depends on the one before it only.
LEMMA CutExists ==
  ASSUME NEW recs \in Seq(Nat)
  PROVE  \E g : IsCut(g, recs)
<1>1. PICK n \in Nat : n = Len(recs)  OBVIOUS
<1>2. PICK st : st = [p \in (1..n) \X (0..n) |-> p[2] + ChunkLength(SubSeq(recs, p[2] + 1, n))]  OBVIOUS
<1>3. \A i \in 1..n : \A v \in 0..n : st[<<i, v>>] = v + ChunkLength(SubSeq(recs, v + 1, n))  BY <1>2
<1>4. ASSUME NEW i \in 1..n, NEW v \in 0..n
      PROVE  st[<<i, v>>] \in 0..n
  <2>1. PICK w : w = v + ChunkLength(SubSeq(recs, v + 1, n))  OBVIOUS
  <2>2. w \in v..n  BY <1>1, <2>1, NextCut
  <2> QED  BY <1>3, <2>1, <2>2
<1>5. PICK g \in [0..n -> 0..n] : Steps(g, n, 0, st)
  <2>1. 0 \in 0..n  OBVIOUS
  <2>2. PICK V : V = 0..n  OBVIOUS
  <2>3. 0 \in V /\ \A i \in 1..n : \A v \in V : st[<<i, v>>] \in V  BY <1>4, <2>1, <2>2
  <2>4. \E g \in [0..n -> V] : Steps(g, n, 0, st)  BY <2>3, StepsExist
  <2> QED  BY <2>2, <2>4
<1>6. \A i \in 0..n : g[i] = IF i = 0 THEN 0 ELSE st[<<i, g[i - 1]>>]  BY <1>5 DEF Steps
<1>7. \A i \in 0..n : i # 0 => st[<<i, g[i - 1]>>] = g[i - 1] + ChunkLength(SubSeq(recs, g[i - 1] + 1, n))
  <2>1. SUFFICES ASSUME NEW i \in 0..n, i # 0
                 PROVE  st[<<i, g[i - 1]>>] = g[i - 1] + ChunkLength(SubSeq(recs, g[i - 1] + 1, n))
    OBVIOUS
  <2>2. i \in 1..n /\ g[i - 1] \in 0..n  BY <1>5, <2>1
  <2> QED  BY <1>3, <2>2
<1>8. \A i \in 0..n : g[i] = IF i = 0 THEN 0 ELSE g[i - 1] + ChunkLength(SubSeq(recs, g[i - 1] + 1, n))
  BY <1>6, <1>7, Zenon
<1>9. g = [i \in 0..n |-> IF i = 0 THEN 0 ELSE g[i - 1] + ChunkLength(SubSeq(recs, g[i - 1] + 1, n))]  BY <1>5, <1>8
<1>10. IsCut(g, recs)  BY <1>1, <1>9 DEF IsCut
<1> QED  BY <1>10

\* The chunks of the records: a record fits no frame, or the chunks cut the
\* records and each fits its frame and its limit.
IsChunked(cs, recs) ==
  /\ cs \in Seq(Seq(Int))
  /\ \/ \E k \in 1..Len(cs) : cs[k] = TooBig
     \/ /\ \E at : Cuts(cs, recs, at)
        /\ \A k \in 1..Len(cs) : Size(cs[k]) <= MaxFrame /\ Len(cs[k]) <= MaxChunk

\* The greedy chunks cut the records, or end with the mark of one that fits no frame.
LEMMA RecordChunksCut ==
  ASSUME NEW recs \in Seq(Nat)
  PROVE  IsChunked(RecordChunks(recs), recs)
<1>1. PICK n \in Nat : n = Len(recs)  OBVIOUS
<1>2. PICK g : g = CutOf(recs)  OBVIOUS
<1>3. IsCut(g, recs)  BY <1>2, CutExists DEF CutOf
<1>4. DOMAIN g = 0..n  BY <1>1, <1>3 DEF IsCut
<1>5. \A i \in 0..n : g[i] = IF i = 0 THEN 0 ELSE g[i - 1] + ChunkLength(SubSeq(recs, g[i - 1] + 1, n))
  BY <1>1, <1>3 DEF IsCut
<1>6. g[0] = 0
  <2>1. 0 \in 0..n  OBVIOUS
  <2> QED  BY <1>5, <2>1, Zenon
<1>7. \A i \in 1..n : g[i] = g[i - 1] + ChunkLength(SubSeq(recs, g[i - 1] + 1, n))
  <2>1. \A i \in 1..n : i \in 0..n /\ i # 0  OBVIOUS
  <2> QED  BY <1>5, <2>1, Zenon
<1> DEFINE A == {i \in 0..n : g[i] \in 0..n}
<1>8. 0 \in A  BY <1>6
<1>9. ASSUME NEW i \in 1..n, i - 1 \in A
      PROVE  i \in A
  <2>1. PICK v \in 0..n : v = g[i - 1]  BY <1>9
  <2>2. PICK w : w = v + ChunkLength(SubSeq(recs, v + 1, n))  OBVIOUS
  <2>3. g[i] = w  BY <1>7, <2>1, <2>2
  <2>4. w \in v..n  BY <1>1, <2>2, NextCut
  <2> QED  BY <2>3, <2>4
<1> HIDE DEF A
<1>10. \A i \in 0..n : i \in A  BY <1>8, <1>9, CountingUp
<1>11. \A i \in 0..n : g[i] \in 0..n  BY <1>10 DEF A
<1>12. ASSUME NEW i \in 1..n
       PROVE  /\ g[i - 1] <= g[i]
              /\ g[i - 1] < g[i] => g[i] - g[i - 1] <= MaxChunk /\ Size(SubSeq(recs, g[i - 1] + 1, g[i])) <= MaxFrame
  <2>1. i - 1 \in 0..n  OBVIOUS
  <2>2. PICK v \in 0..n : v = g[i - 1]  BY <1>11, <2>1
  <2>3. PICK w : w = v + ChunkLength(SubSeq(recs, v + 1, n))  OBVIOUS
  <2>4. g[i] = w  BY <1>7, <2>2, <2>3
  <2>5. w \in v..n /\ (v < w => w - v <= MaxChunk /\ Size(SubSeq(recs, v + 1, w)) <= MaxFrame)
    BY <1>1, <2>3, NextCut
  <2> QED  BY <2>2, <2>4, <2>5
<1> DEFINE B == {i \in 0..n : (\A k \in 1..i : g[k - 1] < g[k]) \/ \E j \in 0..n : StopsAt(j, recs, g)}
<1>13. 0 \in B  OBVIOUS
<1>14. ASSUME NEW i \in 1..n, i - 1 \in B
       PROVE  i \in B
  <2>1. SUFFICES ASSUME \A k \in 1..i - 1 : g[k - 1] < g[k]
                 PROVE  (\A k \in 1..i : g[k - 1] < g[k]) \/ \E j \in 0..n : StopsAt(j, recs, g)
    BY <1>14
  <2>2. CASE g[i - 1] < g[i]
    <3>1. \A k \in 1..i : k = i \/ k \in 1..i - 1  OBVIOUS
    <3> QED  BY <2>1, <2>2, <3>1
  <2>3. CASE ~(g[i - 1] < g[i])
    <3>1. i - 1 \in 0..n /\ g[i - 1] \in 0..n /\ g[i] \in 0..n  BY <1>11
    <3>2. g[i] = g[i - 1]  BY <1>12, <2>3, <3>1
    <3>3. StopsAt(i - 1, recs, g)  BY <2>1, <3>2 DEF StopsAt
    <3> QED  BY <3>1, <3>3
  <2> QED  BY <2>2, <2>3
<1> HIDE DEF B
<1>15. n \in B
  <2>1. \A i \in 0..n : i \in B  BY <1>13, <1>14, CountingUp
  <2> QED  BY <2>1
<1>16. \E j \in 0..n : StopsAt(j, recs, g)
  <2>1. CASE \A k \in 1..n : g[k - 1] < g[k]
    <3>1. StopsAt(n, recs, g)  BY <1>1, <2>1 DEF StopsAt
    <3> QED  BY <3>1
  <2> QED  BY <1>15, <2>1 DEF B
<1>17. PICK m : m = StopOf(recs)  OBVIOUS
<1>18. m \in 0..n /\ StopsAt(m, recs, g)  BY <1>1, <1>2, <1>16, <1>17 DEF StopOf
<1>19. PICK whole : whole = [k \in 1..m |-> SubSeq(recs, g[k - 1] + 1, g[k])]  OBVIOUS
<1>20. RecordChunks(recs) = whole \o (IF g[m] < n THEN <<TooBig>> ELSE <<>>)
  BY <1>1, <1>2, <1>17, <1>19, RecordChunksAre
<1>21. \A k \in 1..m : /\ g[k - 1] < g[k] /\ g[k - 1] \in 0..n /\ g[k] \in 0..n
                       /\ g[k] - g[k - 1] <= MaxChunk /\ Size(SubSeq(recs, g[k - 1] + 1, g[k])) <= MaxFrame
  <2>1. ASSUME NEW k \in 1..m
        PROVE  /\ g[k - 1] < g[k] /\ g[k - 1] \in 0..n /\ g[k] \in 0..n
               /\ g[k] - g[k - 1] <= MaxChunk /\ Size(SubSeq(recs, g[k - 1] + 1, g[k])) <= MaxFrame
    <3>1. k \in 1..n /\ k \in 0..n /\ k - 1 \in 0..n  BY <1>18
    <3>2. g[k - 1] < g[k]  BY <1>18 DEF StopsAt
    <3> QED  BY <1>11, <1>12, <3>1, <3>2
  <2> QED  BY <2>1
<1>22. \A k \in 1..m : /\ SubSeq(recs, g[k - 1] + 1, g[k]) \in Seq(Nat)
                       /\ Len(SubSeq(recs, g[k - 1] + 1, g[k])) = g[k] - g[k - 1]
  <2>1. ASSUME NEW k \in 1..m
        PROVE  /\ SubSeq(recs, g[k - 1] + 1, g[k]) \in Seq(Nat)
               /\ Len(SubSeq(recs, g[k - 1] + 1, g[k])) = g[k] - g[k - 1]
    <3>1. PICK v \in 0..n : v = g[k - 1]  BY <1>21
    <3>2. PICK w \in 0..n : w = g[k]  BY <1>21
    <3>3. v < w  BY <1>21, <3>1, <3>2
    <3>4. v + 1 \in Int /\ w \in Int /\ \A i \in v + 1..w : recs[i] \in Nat  BY <1>1, <3>1, <3>2
    <3>5. /\ SubSeq(recs, v + 1, w) \in Seq(Nat)
          /\ Len(SubSeq(recs, v + 1, w)) = IF v + 1 <= w THEN w - (v + 1) + 1 ELSE 0
      BY <3>4, SubSeqProperties
    <3>6. Len(SubSeq(recs, v + 1, w)) = w - v  BY <3>3, <3>5
    <3> QED  BY <3>1, <3>2, <3>5, <3>6
  <2> QED  BY <2>1
<1>23. /\ whole \in Seq(Seq(Int)) /\ Len(whole) = m
       /\ \A k \in 1..m : whole[k] = SubSeq(recs, g[k - 1] + 1, g[k])
  <2>1. \A s \in Seq(Nat) : s \in Seq(Int)  OBVIOUS
  <2>2. \A k \in 1..m : SubSeq(recs, g[k - 1] + 1, g[k]) \in Seq(Int)  BY <1>22, <2>1
  <2>3. whole \in [1..m -> Seq(Int)]  BY <1>19, <2>2
  <2>4. m \in Nat  BY <1>18
  <2>5. whole \in Seq(Seq(Int)) /\ Len(whole) = m  BY <2>3, <2>4
  <2> QED  BY <1>19, <2>5
<1>24. CASE g[m] < n
  <2>1. PICK tooBig \in Seq(Int) : tooBig = TooBig
    <3>1. -1 \in Int  OBVIOUS
    <3>2. << -1 >> \in Seq(Int)  BY <3>1
    <3> QED  BY <3>2 DEF TooBig
  <2>2. RecordChunks(recs) = Append(whole, tooBig)
    <3>1. RecordChunks(recs) = whole \o <<tooBig>>  BY <1>20, <1>24, <2>1
    <3> QED  BY <1>23, <3>1
  <2>3. PICK cs : cs = RecordChunks(recs)  OBVIOUS
  <2>4. cs \in Seq(Seq(Int)) /\ Len(cs) = m + 1 /\ cs[m + 1] = tooBig  BY <1>23, <2>2, <2>3
  <2>5. m + 1 \in 1..Len(cs)  BY <1>18, <2>4
  <2> QED  BY <2>1, <2>3, <2>4, <2>5 DEF IsChunked
<1>25. CASE ~(g[m] < n)
  <2>1. RecordChunks(recs) = whole
    <3>1. RecordChunks(recs) = whole \o <<>>  BY <1>20, <1>25
    <3> QED  BY <1>23, <3>1
  <2>2. g[m] = n  BY <1>11, <1>18, <1>25
  <2>3. PICK at : at = [i \in 0..m |-> g[i]]  OBVIOUS
  <2>4. at \in [0..m -> 0..n] /\ at[0] = 0 /\ at[m] = n
    <3>1. \A i \in 0..m : g[i] \in 0..n  BY <1>11, <1>18
    <3>2. 0 \in 0..m /\ m \in 0..m  BY <1>18
    <3> QED  BY <1>6, <2>2, <2>3, <3>1, <3>2
  <2>5. \A k \in 1..m : at[k - 1] < at[k] /\ whole[k] = SubSeq(recs, at[k - 1] + 1, at[k])
    <3>1. \A k \in 1..m : k - 1 \in 0..m /\ k \in 0..m  BY <1>18
    <3>2. \A k \in 1..m : at[k - 1] = g[k - 1] /\ at[k] = g[k]  BY <2>3, <3>1
    <3> QED  BY <1>21, <1>23, <3>2
  <2>6. Cuts(whole, recs, at)  BY <1>1, <1>23, <2>4, <2>5 DEF Cuts
  <2>7. \A k \in 1..Len(whole) : Size(whole[k]) <= MaxFrame /\ Len(whole[k]) <= MaxChunk
    BY <1>21, <1>22, <1>23
  <2> QED  BY <1>23, <2>1, <2>6, <2>7 DEF IsChunked
<1> QED  BY <1>24, <1>25

\* The first b entries of s are those of t after d.
Agree(s, t, d, b) == b <= Len(s) /\ d + b <= Len(t) /\ \A i \in 1..Len(s) : i <= b => t[d + i] = s[i]

\* The same entries lie between the same offsets of s and, shifted, of t.
SamePart(T, s, t, d, a, b) ==
  /\ SubSeq(t, d + a + 1, d + b) = SubSeq(s, a + 1, b)
  /\ SubSeq(s, a + 1, b) \in Seq(T) /\ Len(SubSeq(s, a + 1, b)) = b - a

\* Where two sequences agree, their parts are equal.
LEMMA SubSeqShifted ==
  ASSUME NEW T, NEW s \in Seq(T), NEW t \in Seq(T), NEW d \in Nat, NEW a \in Nat, NEW b \in Nat, a <= b,
         Agree(s, t, d, b)
  PROVE  SamePart(T, s, t, d, a, b)
<1>0. b <= Len(s) /\ d + b <= Len(t) /\ \A i \in 1..Len(s) : i <= b => t[d + i] = s[i]  BY DEF Agree
<1>1. PICK u, v : u = SubSeq(t, d + a + 1, d + b) /\ v = SubSeq(s, a + 1, b)  OBVIOUS
<1>2. PICK p, q \in Nat : p = d + a + 1 /\ q = d + b  OBVIOUS
<1>3. p \in Int /\ q \in Int /\ \A i \in p..q : t[i] \in T  BY <1>0, <1>2
<1>4. /\ SubSeq(t, p, q) \in Seq(T) /\ Len(SubSeq(t, p, q)) = (IF p <= q THEN q - p + 1 ELSE 0)
      /\ \A i \in 1..q - p + 1 : SubSeq(t, p, q)[i] = t[p + i - 1]
  BY <1>3, SubSeqProperties
<1>5. u = SubSeq(t, p, q)  BY <1>1, <1>2
<1>6. u \in Seq(T) /\ Len(u) = b - a /\ \A i \in 1..b - a : u[i] = t[d + (a + i)]
  <2>1. \A i \in 1..b - a : i \in 1..q - p + 1 /\ p + i - 1 = d + (a + i)  BY <1>2
  <2>2. (IF p <= q THEN q - p + 1 ELSE 0) = b - a  BY <1>2
  <2> QED  BY <1>4, <1>5, <2>1, <2>2
<1>7. a + 1 \in Int /\ b \in Int /\ \A i \in a + 1..b : s[i] \in T  BY <1>0
<1>8. /\ v \in Seq(T) /\ Len(v) = (IF a + 1 <= b THEN b - (a + 1) + 1 ELSE 0)
      /\ \A i \in 1..b - (a + 1) + 1 : v[i] = s[a + 1 + i - 1]
  BY <1>1, <1>7, SubSeqProperties
<1>9. v \in Seq(T) /\ Len(v) = b - a /\ \A i \in 1..b - a : v[i] = s[a + i]
  <2>1. \A i \in 1..b - a : i \in 1..b - (a + 1) + 1 /\ a + 1 + i - 1 = a + i  OBVIOUS
  <2> QED  BY <1>8, <2>1
<1>10. \A i \in 1..b - a : t[d + (a + i)] = s[a + i]
  <2>1. \A i \in 1..b - a : a + i \in 1..Len(s) /\ a + i <= b  BY <1>0
  <2> QED  BY <1>0, <2>1
<1>11. \A i \in 1..Len(u) : u[i] = v[i]  BY <1>6, <1>9, <1>10
<1> HIDE <1>1
<1>12. u = v  BY <1>6, <1>9, <1>11, SeqEqual
<1> QED  BY <1>1, <1>9, <1>12 DEF SamePart

\* Each chunk has the length between its offsets.
LEMMA CutLengths ==
  ASSUME NEW T, NEW s \in Seq(T), NEW cs, Len(cs) \in Nat, NEW at, Cuts(cs, s, at), NEW k \in 1..Len(cs)
  PROVE  /\ at[k - 1] \in 0..Len(s) /\ at[k] \in 0..Len(s) /\ at[k - 1] < at[k]
         /\ cs[k] = SubSeq(s, at[k - 1] + 1, at[k])
         /\ cs[k] \in Seq(T) /\ Len(cs[k]) = at[k] - at[k - 1]
<1>1. k - 1 \in 0..Len(cs) /\ k \in 0..Len(cs)  OBVIOUS
<1>2. /\ at[k - 1] \in 0..Len(s) /\ at[k] \in 0..Len(s) /\ at[k - 1] < at[k]
      /\ cs[k] = SubSeq(s, at[k - 1] + 1, at[k])
  BY <1>1 DEF Cuts
<1>3. PICK a, b \in Nat : a = at[k - 1] /\ b = at[k]  BY <1>2
<1>4. a <= b /\ b <= Len(s) /\ 0 + b <= Len(s) /\ 0 \in Nat  BY <1>2, <1>3
<1>5. Agree(s, s, 0, b)  BY <1>4 DEF Agree
<1>6. SamePart(T, s, s, 0, a, b)  BY <1>4, <1>5, SubSeqShifted
<1> QED  BY <1>2, <1>3, <1>6 DEF SamePart

\* The offsets grow, by one at least.
LEMMA CutsGrow ==
  ASSUME NEW s, Len(s) \in Nat, NEW cs, NEW n \in Nat, n = Len(cs), NEW at, Cuts(cs, s, at)
  PROVE  (\A k \in 0..n : at[k] >= k) /\ \A j, k \in 0..n : j <= k => at[j] <= at[k]
<1>1. \A k \in 0..n : at[k] \in Nat  BY DEF Cuts
<1>2. \A k \in 1..n : at[k - 1] < at[k]  BY DEF Cuts
<1> DEFINE A == {k \in 0..n : at[k] >= k /\ \A j \in 0..k : at[j] <= at[k]}
<1>3. 0 \in A
  <2>1. at[0] = 0  BY DEF Cuts
  <2>2. \A j \in 0..0 : j = 0  OBVIOUS
  <2> QED  BY <2>1, <2>2
<1>4. ASSUME NEW k \in 1..n, k - 1 \in A
      PROVE  k \in A
  <2>1. PICK a, b \in Nat : a = at[k - 1] /\ b = at[k]  BY <1>1
  <2>2. a < b /\ a >= k - 1  BY <1>2, <1>4, <2>1
  <2>3. ASSUME NEW j \in 0..k PROVE at[j] <= b
    <3>1. CASE j = k  BY <2>1, <3>1
    <3>2. CASE j # k
      <4>1. j \in 0..k - 1 /\ j \in 0..n  BY <3>2
      <4>2. PICK c \in Nat : c = at[j]  BY <1>1, <4>1
      <4>3. c <= a  BY <1>4, <2>1, <4>1, <4>2
      <4> QED  BY <2>2, <4>2, <4>3
    <3> QED  BY <3>1, <3>2
  <2> QED  BY <2>1, <2>2, <2>3
<1> HIDE DEF A
<1>5. \A k \in 0..n : k \in A  BY <1>3, <1>4, CountingUp
<1>6. \A k \in 0..n : at[k] >= k /\ \A j \in 0..k : at[j] <= at[k]  BY <1>5 DEF A
<1>7. \A j, k \in 0..n : j <= k => j \in 0..k  OBVIOUS
<1> QED  BY <1>6, <1>7

\* Cutting nothing gives no chunks.
LEMMA NothingCut == \E at : Cuts(<<>>, <<>>, at)
<1>1. PICK s : s = <<>>  OBVIOUS
<1>2. Len(s) = 0  BY <1>1
<1>3. PICK at : at = [k \in 0..0 |-> 0]  OBVIOUS
<1>4. at \in [0..0 -> 0..0] /\ at[0] = 0  BY <1>3
<1>5. \A k \in 1..0 : FALSE  OBVIOUS
<1>6. Cuts(s, s, at)  BY <1>2, <1>4, <1>5 DEF Cuts
<1> QED  BY <1>1, <1>6

\* Two sequences, each cut into chunks.
BothCut(cs1, cs2, s1, s2, at1, at2) ==
  /\ cs1 \in Seq(Seq(Int)) /\ cs2 \in Seq(Seq(Int)) /\ s1 \in Seq(Nat) /\ s2 \in Seq(Nat)
  /\ Cuts(cs1, s1, at1) /\ Cuts(cs2, s2, at2)

\* Two sequences cut one after the other.
LEMMA CutsJoin ==
  ASSUME NEW cs1, NEW cs2, NEW s1, NEW s2, NEW at1, NEW at2, BothCut(cs1, cs2, s1, s2, at1, at2)
  PROVE  \E at : Cuts(cs1 \o cs2, s1 \o s2, at) /\ at[Len(cs1)] = Len(s1)
<1>1. PICK n1, n2, l1, l2 \in Nat : n1 = Len(cs1) /\ n2 = Len(cs2) /\ l1 = Len(s1) /\ l2 = Len(s2)  BY DEF BothCut
<1>2. PICK cs : cs = cs1 \o cs2  OBVIOUS
<1>3. PICK s : s = s1 \o s2  OBVIOUS
<1>4. /\ Len(cs) = n1 + n2 /\ \A k \in 1..n1 : cs[k] = cs1[k]
      /\ \A k \in 1..n2 : cs[n1 + k] = cs2[k]
  BY <1>1, <1>2 DEF BothCut
<1>5. /\ s \in Seq(Nat) /\ Len(s) = l1 + l2 /\ \A k \in 1..l1 : s[k] = s1[k]
      /\ \A k \in 1..l2 : s[l1 + k] = s2[k]
  BY <1>1, <1>3 DEF BothCut
<1>6. PICK at : at = [k \in 0..n1 + n2 |-> IF k <= n1 THEN at1[k] ELSE l1 + at2[k - n1]]  OBVIOUS
<1>7. (\A k \in 0..n1 : at1[k] \in 0..l1) /\ at1[0] = 0 /\ at1[n1] = l1  BY <1>1 DEF BothCut, Cuts
<1>8. (\A k \in 0..n2 : at2[k] \in 0..l2) /\ at2[0] = 0 /\ at2[n2] = l2  BY <1>1 DEF BothCut, Cuts
<1>c1. \A k \in 1..n1 : at1[k - 1] < at1[k] /\ cs1[k] = SubSeq(s1, at1[k - 1] + 1, at1[k])
  <2>1. Cuts(cs1, s1, at1)  BY DEF BothCut
  <2> QED  BY <1>1, <2>1 DEF Cuts
<1>c2. \A k \in 1..n2 : at2[k - 1] < at2[k] /\ cs2[k] = SubSeq(s2, at2[k - 1] + 1, at2[k])
  <2>1. Cuts(cs2, s2, at2)  BY DEF BothCut
  <2> QED  BY <1>1, <2>1 DEF Cuts
<1>9. \A k \in 0..n1 : at[k] = at1[k]  BY <1>1, <1>6
<1>10. \A k \in 0..n2 : at[n1 + k] = l1 + at2[k]
  <2>1. ASSUME NEW k \in 0..n2 PROVE at[n1 + k] = l1 + at2[k]
    <3>1. CASE k = 0
      <4>1. at[n1] = at1[n1]  BY <1>9
      <4> QED  BY <1>7, <1>8, <3>1, <4>1
    <3>2. CASE k # 0
      <4>1. n1 + k \in 0..n1 + n2 /\ ~(n1 + k <= n1) /\ (n1 + k) - n1 = k  BY <3>2
      <4> QED  BY <1>6, <4>1
    <3> QED  BY <3>1, <3>2
  <2> QED  BY <2>1
<1>11. \A k \in 0..n1 + n2 : at[k] \in 0..l1 + l2
  <2>1. ASSUME NEW k \in 0..n1 + n2 PROVE at[k] \in 0..l1 + l2
    <3>1. CASE k <= n1
      <4>1. k \in 0..n1  BY <3>1
      <4>2. at[k] = at1[k] /\ at1[k] \in 0..l1  BY <1>7, <1>9, <4>1
      <4> QED  BY <4>2
    <3>2. CASE ~(k <= n1)
      <4>1. PICK i \in 0..n2 : i = k - n1  BY <3>2
      <4>2. n1 + i = k  BY <4>1
      <4>3. at[k] = l1 + at2[i] /\ at2[i] \in 0..l2  BY <1>8, <1>10, <4>2
      <4> QED  BY <4>3
    <3> QED  BY <3>1, <3>2
  <2> QED  BY <2>1
<1>12. at \in [0..n1 + n2 -> 0..l1 + l2]  BY <1>6, <1>11
<1>13. at[0] = 0 /\ at[n1] = l1 /\ at[n1 + n2] = l1 + l2
  <2>1. 0 \in 0..n1 /\ n1 \in 0..n1 /\ n2 \in 0..n2  OBVIOUS
  <2> QED  BY <1>7, <1>8, <1>9, <1>10, <2>1
<1>14. ASSUME NEW k \in 1..n1
       PROVE  at[k - 1] < at[k] /\ cs[k] = SubSeq(s, at[k - 1] + 1, at[k])
  <2>1. k - 1 \in 0..n1 /\ k \in 0..n1  OBVIOUS
  <2>2. PICK a, b \in Nat : a = at1[k - 1] /\ b = at1[k]  BY <1>7, <2>1
  <2>3. a < b /\ cs1[k] = SubSeq(s1, a + 1, b) /\ b <= l1
    BY <1>7, <1>c1, <2>1, <2>2
  <2>0. PICK z \in Nat : z = 0  OBVIOUS
  <2>4. a <= b /\ b <= Len(s1) /\ z + b <= Len(s)  BY <1>1, <1>5, <2>0, <2>3
  <2>5. Agree(s1, s, z, b)
    <3>1. \A i \in 1..Len(s1) : z + i = i /\ i \in 1..l1  BY <1>1, <2>0
    <3>2. \A i \in 1..Len(s1) : i <= b => s[z + i] = s1[i]  BY <1>5, <3>1
    <3> QED  BY <2>4, <3>2 DEF Agree
  <2>6. SubSeq(s, z + a + 1, z + b) = SubSeq(s1, a + 1, b)
    <3>1. s1 \in Seq(Nat) /\ s \in Seq(Nat)  BY <1>5 DEF BothCut
    <3> HIDE <2>0
    <3>2. SamePart(Nat, s1, s, z, a, b)  BY <3>1, <2>4, <2>5, SubSeqShifted
    <3> QED  BY <3>2 DEF SamePart
  <2>7. z + a + 1 = a + 1 /\ z + b = b  BY <2>0
  <2>8. at[k - 1] = a /\ at[k] = b /\ cs[k] = cs1[k]  BY <1>4, <1>9, <2>1, <2>2
  <2> QED  BY <2>3, <2>6, <2>7, <2>8
<1>15. ASSUME NEW k \in 1..n2
       PROVE  at[(n1 + k) - 1] < at[n1 + k] /\ cs[n1 + k] = SubSeq(s, at[(n1 + k) - 1] + 1, at[n1 + k])
  <2>1. k - 1 \in 0..n2 /\ k \in 0..n2 /\ (n1 + k) - 1 = n1 + (k - 1)  OBVIOUS
  <2>2. PICK a, b \in Nat : a = at2[k - 1] /\ b = at2[k]  BY <1>8, <2>1
  <2>3. a < b /\ cs2[k] = SubSeq(s2, a + 1, b) /\ b <= l2
    BY <1>8, <1>c2, <2>1, <2>2
  <2>4. a <= b /\ b <= Len(s2) /\ l1 + b <= Len(s)  BY <1>1, <1>5, <2>3
  <2>5. Agree(s2, s, l1, b)
    <3>1. \A i \in 1..Len(s2) : i <= b => s[l1 + i] = s2[i]  BY <1>1, <1>5
    <3> QED  BY <2>4, <3>1 DEF Agree
  <2>6. SubSeq(s, l1 + a + 1, l1 + b) = SubSeq(s2, a + 1, b)
    <3>1. s2 \in Seq(Nat) /\ s \in Seq(Nat)  BY <1>5 DEF BothCut
    <3>2. SamePart(Nat, s2, s, l1, a, b)  BY <3>1, <2>4, <2>5, SubSeqShifted
    <3> QED  BY <3>2 DEF SamePart
  <2>7. at[n1 + (k - 1)] = l1 + a /\ at[n1 + k] = l1 + b /\ cs[n1 + k] = cs2[k]  BY <1>4, <1>10, <2>1, <2>2
  <2>8. PICK p, q \in Nat : p = l1 + a /\ q = l1 + b  OBVIOUS
  <2>9. at[(n1 + k) - 1] = p /\ at[n1 + k] = q /\ p < q /\ l1 + a + 1 = p + 1  BY <2>1, <2>3, <2>7, <2>8
  <2> QED  BY <2>3, <2>6, <2>7, <2>8, <2>9
<1>16. ASSUME NEW k \in 1..n1 + n2
       PROVE  at[k - 1] < at[k] /\ cs[k] = SubSeq(s, at[k - 1] + 1, at[k])
  <2>1. CASE k <= n1
    <3>1. k \in 1..n1  BY <2>1
    <3> QED  BY <1>14, <3>1
  <2>2. CASE ~(k <= n1)
    <3>1. PICK i \in 1..n2 : i = k - n1  BY <2>2
    <3>2. n1 + i = k  BY <3>1
    <3> QED  BY <1>15, <3>2
  <2> QED  BY <2>1, <2>2
<1>17. Cuts(cs, s, at)  BY <1>4, <1>5, <1>12, <1>13, <1>16 DEF Cuts
<1> QED  BY <1>1, <1>2, <1>3, <1>13, <1>17

\* The records of the chunks are those of the sequence.
LEMMA CutTotal ==
  ASSUME NEW T, NEW s \in Seq(T), NEW cs, NEW n \in Nat, n = Len(cs), DOMAIN cs = 1..n, NEW at, Cuts(cs, s, at)
  PROVE  Size([k \in DOMAIN cs |-> Len(cs[k])]) = Len(s)
<1>1. PICK lens : lens = [k \in 1..n |-> Len(cs[k])]  OBVIOUS
<1>2. \A k \in 1..n : at[k - 1] \in Nat /\ at[k] \in Nat /\ lens[k] = at[k] - at[k - 1]
  BY <1>1, CutLengths
<1>3. \A k \in 1..n : at[k] = at[k - 1] + lens[k]  BY <1>2
<1>4. \A k \in 1..n : lens[k] \in Int  BY <1>2, SMTT(40)
<1>5. Len(lens) = n
  <2>1. lens \in [1..n -> Int]  BY <1>1, <1>4
  <2> QED  BY <2>1
<1>6. at \in [0..n -> Nat] /\ at[0] = 0 /\ at[n] = Len(s)  BY DEF Cuts
<1>7. Size(lens) = at[n]  BY <1>3, <1>5, <1>6, SizeTelescopes
<1> QED  BY <1>1, <1>6, <1>7

\* The chunks before the k-th end at least one chunk before the last one does.
LEMMA EarlierMultiple ==
  ASSUME NEW n \in Nat, NEW max \in Nat, NEW k \in 1..n
  PROVE  (k - 1) * max \in Int /\ (k - 1) * max <= n * max - max
<1>1. PICK j \in Nat : j = n - k  OBVIOUS
<1>2. PICK q \in Nat : q = j * max  OBVIOUS
<1>3. PICK p \in Int : p = n * max  OBVIOUS
<1>4. k - 1 = n - (j + 1)  BY <1>1
<1>5. (n - (j + 1)) * max = n * max - j * max - max  OBVIOUS
<1>6. (k - 1) * max = p - q - max  BY <1>2, <1>3, <1>4, <1>5
<1> QED  BY <1>2, <1>3, <1>6

\* Equal chunks of MaxFrame units: where they end.
LEMMA ContentCounts ==
  ASSUME NEW l \in Nat, NEW max \in Nat, max # 0, NEW n, n = (l + max - 1) \div max
  PROVE  n \in Nat /\ n * max >= l /\ \A k \in 1..n : (k - 1) * max < l
<1>1. PICK x \in Nat : x = l + max - 1  OBVIOUS
<1>2. n \in Nat /\ max * n <= x /\ x < max * n + max  BY <1>1, DivBounds
<1>3. PICK p \in Int : p = max * n  BY <1>2
<1>4. n * max = p  BY <1>2, <1>3
<1>5. p <= x /\ x < p + max  BY <1>2, <1>3
<1>6. p >= l  BY <1>1, <1>5
<1>7. ASSUME NEW k \in 1..n
      PROVE  (k - 1) * max < l
  <2>1. (k - 1) * max \in Int /\ (k - 1) * max <= n * max - max  BY <1>2, EarlierMultiple
  <2> QED  BY <1>1, <1>4, <1>5, <2>1
<1> QED  BY <1>2, <1>4, <1>6, <1>7

Units(l) == [i \in 1..l |-> 1]

\* A sequence of units.
LEMMA UnitsAre ==
  ASSUME NEW l \in Nat
  PROVE  Units(l) \in Seq(Nat) /\ Len(Units(l)) = l /\ \A i \in 1..l : Units(l)[i] = 1
<1>1. Units(l) \in [1..l -> Nat] /\ \A i \in 1..l : Units(l)[i] = 1  BY DEF Units
<1> QED  BY <1>1

\* The chunks of a content cut its units, and each fits a frame.
LEMMA ContentChunksCut ==
  ASSUME NEW recs \in Seq(Nat), NEW cs, cs = ContentChunks(recs)
  PROVE  /\ cs \in Seq(Seq(Int)) /\ Len(cs) = (Size(recs) + MaxFrame - 1) \div MaxFrame
         /\ \E at : Cuts(cs, Units(Size(recs)), at)
         /\ \A k \in 1..Len(cs) : Size(cs[k]) <= MaxFrame
<1>1. PICK l \in Nat : l = Size(recs)  BY SizeType
<1>2. PICK max \in Nat : max = MaxFrame /\ max # 0  BY IpcAssumption
<1>3. PICK n : n = (l + max - 1) \div max  OBVIOUS
<1>4. n \in Nat /\ n * max >= l /\ \A k \in 1..n : (k - 1) * max < l  BY <1>2, <1>3, ContentCounts
<1>5. PICK bytes : bytes = Units(l)  OBVIOUS
<1>6. bytes \in Seq(Nat) /\ Len(bytes) = l /\ \A i \in 1..l : bytes[i] = 1  BY <1>5, UnitsAre
<1>7. cs = [k \in 1..n |-> SubSeq(bytes, (k - 1) * max + 1, IF k * max > l THEN l ELSE k * max)]
  <2>1. bytes = [i \in 1..Size(recs) |-> 1]  BY <1>1, <1>5 DEF Units
  <2>2. n = (Len(bytes) + MaxFrame - 1) \div MaxFrame  BY <1>2, <1>3, <1>6
  <2> QED  BY <1>2, <1>6, <2>1, <2>2 DEF ContentChunks
<1>8. PICK at : at = [k \in 0..n |-> IF k * max > l THEN l ELSE k * max]  OBVIOUS
<1>9. ASSUME NEW k \in 0..n
      PROVE  k * max \in Nat /\ at[k] \in 0..l
  <2>1. PICK p \in Nat : p = k * max  BY <1>4
  <2>2. at[k] = IF p > l THEN l ELSE p  BY <1>8, <2>1
  <2> QED  BY <2>1, <2>2
<1>10. at \in [0..n -> 0..l]
  <2>1. \A k \in 0..n : at[k] \in 0..l  BY <1>9
  <2> QED  BY <1>8, <2>1
<1>11. at[0] = 0
  <2>1. 0 \in 0..n /\ 0 * max = 0  BY <1>4
  <2> QED  BY <1>8, <2>1
<1>12. at[n] = l
  <2>1. n \in 0..n  BY <1>4
  <2>2. PICK p \in Nat : p = n * max  BY <1>4
  <2>3. p >= l  BY <1>4, <2>2
  <2>4. at[n] = IF p > l THEN l ELSE p  BY <1>8, <2>1, <2>2
  <2> QED  BY <2>3, <2>4
<1>13. ASSUME NEW k \in 1..n
       PROVE  /\ at[k - 1] < at[k] /\ at[k] - at[k - 1] <= max
              /\ cs[k] = SubSeq(bytes, at[k - 1] + 1, at[k])
  <2>1. k - 1 \in 0..n /\ k \in 0..n  BY <1>4
  <2>2. PICK p \in Nat : p = (k - 1) * max  BY <1>9, <2>1
  <2>3. k * max = p + max  BY <1>4, <2>2
  <2>4. p < l  BY <1>4, <2>2
  <2>5. at[k - 1] = IF p > l THEN l ELSE p  BY <1>8, <2>1, <2>2
  <2>6. at[k - 1] = p  BY <2>4, <2>5
  <2>7. at[k] = IF p + max > l THEN l ELSE p + max  BY <1>8, <2>1, <2>3
  <2>8. cs[k] = SubSeq(bytes, p + 1, IF p + max > l THEN l ELSE p + max)  BY <1>7, <2>2, <2>3
  <2>9. cs[k] = SubSeq(bytes, at[k - 1] + 1, at[k])  BY <2>6, <2>7, <2>8
  <2>10. p < at[k] /\ at[k] - p <= max  BY <1>2, <2>4, <2>7
  <2> QED  BY <2>6, <2>9, <2>10
<1>14. ASSUME NEW k \in 1..n
       PROVE  /\ cs[k] \in Seq(Nat) /\ Len(cs[k]) = at[k] - at[k - 1]
              /\ \A i \in 1..Len(cs[k]) : cs[k][i] = 1
  <2>1. k - 1 \in 0..n /\ k \in 0..n  BY <1>4
  <2>2. PICK a, b \in 0..l : a = at[k - 1] /\ b = at[k]  BY <1>9, <2>1
  <2>3. a < b /\ cs[k] = SubSeq(bytes, a + 1, b)  BY <1>13, <2>2
  <2>4. PICK part : part = cs[k]  OBVIOUS
  <2>5. a + 1 \in Int /\ b \in Int /\ \A i \in a + 1..b : bytes[i] \in Nat  BY <1>6, <2>2
  <2>6. /\ part \in Seq(Nat) /\ Len(part) = (IF a + 1 <= b THEN b - (a + 1) + 1 ELSE 0)
        /\ \A i \in 1..b - (a + 1) + 1 : part[i] = bytes[a + 1 + i - 1]
    BY <2>3, <2>4, <2>5, SubSeqProperties
  <2>7. Len(part) = b - a  BY <2>3, <2>6
  <2>8. \A i \in 1..b - a : i \in 1..b - (a + 1) + 1 /\ a + 1 + i - 1 \in 1..l
    <3>1. ASSUME NEW x \in 0..l, NEW y \in 0..l, NEW i \in 1..y - x
          PROVE  i \in 1..y - (x + 1) + 1 /\ x + 1 + i - 1 \in 1..l
      OBVIOUS
    <3> QED  BY <2>2, <3>1
  <2>9. \A i \in 1..b - a : part[i] = 1  BY <1>6, <2>6, <2>8
  <2> QED  BY <2>2, <2>4, <2>6, <2>7, <2>9
<1>15. cs \in Seq(Seq(Int)) /\ Len(cs) = n
  <2>1. \A s \in Seq(Nat) : s \in Seq(Int)  OBVIOUS
  <2>2. \A k \in 1..n : cs[k] \in Seq(Int)  BY <1>14, <2>1
  <2>3. cs \in [1..n -> Seq(Int)]  BY <1>7, <2>2
  <2> QED  BY <1>4, <2>3
<1>16. Cuts(cs, bytes, at)  BY <1>6, <1>10, <1>11, <1>12, <1>13, <1>15 DEF Cuts
<1>17. ASSUME NEW k \in 1..n
       PROVE  Size(cs[k]) <= MaxFrame
  <2>1. Size(cs[k]) = Len(cs[k])  BY <1>14, SizeOfUnits
  <2> QED  BY <1>2, <1>13, <1>14, <2>1
<1> QED  BY <1>1, <1>2, <1>3, <1>5, <1>15, <1>16, <1>17

\* The part of s between two offsets.
IsPart(u, s, a, b) == u \in Seq(Nat) /\ Len(u) = b - a /\ \A i \in 1..b - a : u[i] = s[a + i]

\* SubSeq gives that part.
LEMMA PartIs ==
  ASSUME NEW s \in Seq(Nat), NEW a \in Nat, NEW b \in Nat, a <= b, b <= Len(s), NEW u, u = SubSeq(s, a + 1, b)
  PROVE  IsPart(u, s, a, b)
<1>1. SamePart(Nat, s, s, 0, a, b)
  <2>1. Agree(s, s, 0, b)  BY DEF Agree
  <2> QED  BY <2>1, SubSeqShifted
<1>2. u \in Seq(Nat) /\ Len(u) = b - a  BY <1>1 DEF SamePart
<1>3. ASSUME NEW i \in 1..b - a
      PROVE  u[i] = s[a + i]
  <2>1. PICK p \in Nat : p = a + 1  OBVIOUS
  <2>2. p \in Int /\ b \in Int /\ \A k \in p..b : s[k] \in Nat  BY <2>1
  <2>3. \A k \in 1..b - p + 1 : SubSeq(s, p, b)[k] = s[p + k - 1]  BY <2>2, SubSeqProperties
  <2>4. i \in 1..b - p + 1 /\ p + i - 1 = a + i  BY <2>1
  <2> QED  BY <2>1, <2>3, <2>4
<1> QED  BY <1>2, <1>3 DEF IsPart

\* The size of a part is the difference of two totals.
LEMMA PartSize ==
  ASSUME NEW s \in Seq(Nat), NEW g, Totals(g, s), NEW a \in Nat, NEW b \in Nat, a <= b, b <= Len(s)
  PROVE  Size(SubSeq(s, a + 1, b)) = g[b] - g[a]
<1>1. PICK u : u = SubSeq(s, a + 1, b)  OBVIOUS
<1>2. IsPart(u, s, a, b)  BY <1>1, PartIs
<1>3. PICK n \in Nat : n = Len(s)  OBVIOUS
<1>4. g \in [0..n -> Nat] /\ \A k \in 1..n : g[k] = g[k - 1] + s[k]  BY <1>3 DEF Totals
<1>5. PICK q \in Nat : q = b - a  OBVIOUS
<1>6. \A i \in 0..q : a + i \in 0..n  BY <1>3, <1>5
<1>7. \A i \in 0..q : g[a + i] - g[a] \in Nat
  <2>1. ASSUME NEW i \in 0..q
        PROVE  g[a + i] - g[a] \in Nat
    <3>1. a \in 0..n /\ a + i \in 0..n /\ a <= a + i  BY <1>3, <1>6
    <3>2. g[a] <= g[a + i]  BY <1>3, <3>1, TotalsGrow
    <3>3. g[a] \in Nat /\ g[a + i] \in Nat  BY <1>4, <3>1
    <3> QED  BY <3>2, <3>3
  <2> QED  BY <2>1
<1>8. PICK at : at = [i \in 0..q |-> g[a + i] - g[a]]  OBVIOUS
<1>9. at \in [0..q -> Nat]  BY <1>7, <1>8
<1>10. at[0] = 0 /\ at[q] = g[b] - g[a]
  <2>1. 0 \in 0..q /\ q \in 0..q /\ a + 0 = a /\ a + q = b /\ a \in 0..n  BY <1>3, <1>5
  <2>2. g[a] \in Nat  BY <1>4, <2>1
  <2>3. at[0] = g[a + 0] - g[a] /\ at[q] = g[a + q] - g[a]  BY <1>8, <2>1
  <2>4. at[0] = g[a] - g[a] /\ at[q] = g[b] - g[a]  BY <2>1, <2>3, Zenon
  <2> QED  BY <2>2, <2>4
<1>11. \A k \in 1..q : at[k] = at[k - 1] + u[k]
  <2>1. ASSUME NEW k \in 1..q
        PROVE  at[k] = at[k - 1] + u[k]
    <3>1. k \in 0..q /\ k - 1 \in 0..q /\ a + (k - 1) = (a + k) - 1 /\ a + k \in 1..n  BY <1>3, <1>5
    <3>2. at[k] = g[a + k] - g[a] /\ at[k - 1] = g[(a + k) - 1] - g[a]  BY <1>8, <3>1
    <3>3. u[k] = s[a + k] /\ g[a + k] = g[(a + k) - 1] + s[a + k]
      BY <1>2, <1>4, <1>5, <3>1 DEF IsPart
    <3>4. g[a + k] \in Nat /\ g[(a + k) - 1] \in Nat /\ g[a] \in Nat /\ s[a + k] \in Nat
      <4>1. a + k \in 0..n /\ (a + k) - 1 \in 0..n /\ a \in 0..n  BY <1>3, <1>5, <3>1
      <4>2. \A i \in 1..n : s[i] \in Nat  BY <1>3
      <4>3. s[a + k] \in Nat  BY <3>1, <4>2
      <4> QED  BY <1>4, <4>1, <4>3
    <3> QED  BY <3>2, <3>3, <3>4
  <2> QED  BY <2>1
<1>12. Len(u) = q  BY <1>2, <1>5 DEF IsPart
<1>13. Size(u) = at[q]  BY <1>9, <1>10, <1>11, <1>12, SizeTelescopes
<1> QED  BY <1>1, <1>10, <1>13

\* A beginning is not larger than the whole.
LEMMA PrefixSize ==
  ASSUME NEW s \in Seq(Nat), NEW b \in Nat, b <= Len(s)
  PROVE  Size(SubSeq(s, 1, b)) \in Nat /\ Size(SubSeq(s, 1, b)) <= Size(s)
<1>1. PICK n \in Nat : n = Len(s)  OBVIOUS
<1>2. PICK g : Totals(g, s)  BY TotalsExist
<1>3. g \in [0..n -> Nat] /\ g[0] = 0  BY <1>1, <1>2 DEF Totals
<1>4. PICK z \in Nat : z = 0  OBVIOUS
<1>5. z <= b /\ b <= Len(s) /\ z + 1 = 1  BY <1>4
<1>6. Size(SubSeq(s, z + 1, b)) = g[b] - g[z]  BY <1>2, <1>5, PartSize
<1>7. b \in 0..n /\ n \in 0..n /\ g[b] \in Nat /\ g[n] \in Nat  BY <1>1, <1>3
<1>8. g[b] <= g[n]  BY <1>1, <1>2, <1>7, TotalsGrow
<1>9. Size(s) = g[n]  BY <1>1, <1>2, SizeIsTotal
<1> QED  BY <1>3, <1>4, <1>5, <1>6, <1>7, <1>8, <1>9

-----------------------------------------------------------------------------
(* Frames and plans: what is written satisfies the client *)

\* F carries the content in n chunks, cut at these offsets, m of the first class.
Stream(F, reply, content, n, m, at) ==
  /\ n \in Nat /\ m \in 0..n /\ Len(content) \in Nat
  /\ at \in [0..n -> 0..Len(content)] /\ at[0] = 0 /\ at[n] = Len(content)
  /\ \A k \in 0..n : at[k] >= k
  /\ \A j, k \in 0..n : j <= k => at[j] <= at[k]
  /\ \A k \in 1..n : /\ at[k - 1] < at[k] /\ Size(SubSeq(content, at[k - 1] + 1, at[k])) <= MaxFrame
                     /\ reply # "content" => at[k] - at[k - 1] <= MaxChunk
  /\ Len(F) = n + 2 /\ n + 2 <= MaxFrames /\ n + 2 + Size(content) <= MaxWire
  /\ F[1] = Frame("start", 0, TRUE, <<>>, n, Len(content), at[m])
  /\ F[n + 2] = Frame("end", n + 1, TRUE, <<>>, n, Len(content), at[m])
  /\ \A k \in 1..n : F[k + 1] = Frame(IF k <= m THEN "chunk1" ELSE "chunk2", k, TRUE,
                                      SubSeq(content, at[k - 1] + 1, at[k]), 0, 0, 0)
  /\ IF reply = "content" THEN n = (Len(content) + MaxFrame - 1) \div MaxFrame ELSE Len(content) <= MaxRecords

\* What a server may write in answer to a request.
Good(F, reply, content) ==
  /\ \E T : F \in Seq(T)
  /\ \/ F = <<ErrorFrame>>
     \/ reply = "single" /\ F = <<SingleFrame(content)>> /\ Size(content) <= MaxFrame
     \/ reply # "single" /\ \E n, m, at : Stream(F, reply, content, n, m, at)

\* The error frame answers every request.
LEMMA ErrorIsGood ==
  ASSUME NEW reply, NEW content
  PROVE  Good(<<ErrorFrame>>, reply, content)
<1>1. <<ErrorFrame>> \in Seq({ErrorFrame})  OBVIOUS
<1> QED  BY <1>1 DEF Good

\* One frame before and one after.
LEMMA Bracketed ==
  ASSUME NEW a, NEW b, NEW n \in Nat, NEW T, NEW mid \in [1..n -> T], NEW F, F = <<a>> \o mid \o <<b>>
  PROVE  /\ F \in Seq(T \cup {a, b}) /\ Len(F) = n + 2 /\ F[1] = a /\ F[n + 2] = b
         /\ \A k \in 1..n : F[k + 1] = mid[k]
<1>1. PICK V : V = T \cup {a, b}  OBVIOUS
<1>2. mid \in Seq(V) /\ Len(mid) = n
  <2>1. mid \in [1..n -> V]  BY <1>1
  <2> QED  BY <2>1
<1>3. <<a>> \in Seq(V) /\ Len(<<a>>) = 1 /\ <<a>>[1] = a /\ <<b>> \in Seq(V) /\ Len(<<b>>) = 1 /\ <<b>>[1] = b
  BY <1>1
<1>4. PICK pa, pb : pa = <<a>> /\ pb = <<b>>  OBVIOUS
<1>5. pa \in Seq(V) /\ Len(pa) = 1 /\ pa[1] = a /\ pb \in Seq(V) /\ Len(pb) = 1 /\ pb[1] = b  BY <1>3, <1>4
<1>6. PICK h : h = pa \o mid  OBVIOUS
<1>7. h \in Seq(V) /\ Len(h) = n + 1 /\ h[1] = a /\ \A k \in 1..n : h[k + 1] = mid[k]
  <2>1. /\ pa \o mid \in Seq(V) /\ Len(pa \o mid) = Len(pa) + Len(mid)
        /\ \A i \in 1..Len(pa) + Len(mid) : (pa \o mid)[i] = IF i <= Len(pa) THEN pa[i] ELSE mid[i - Len(pa)]
    BY <1>2, <1>5, ConcatProperties
  <2>2. \A i \in 1..n + 1 : h[i] = IF i <= 1 THEN pa[i] ELSE mid[i - 1]  BY <1>2, <1>5, <1>6, <2>1
  <2>3. \A k \in 1..n : k + 1 \in 1..n + 1 /\ ~(k + 1 <= 1) /\ (k + 1) - 1 = k  OBVIOUS
  <2>4. \A k \in 1..n : h[k + 1] = mid[k]  BY <2>2, <2>3
  <2>5. h[1] = a  BY <1>5, <2>2
  <2> QED  BY <1>2, <1>5, <1>6, <2>1, <2>4, <2>5
<1>8. F = h \o pb  BY <1>4, <1>6
<1>9. /\ F \in Seq(V) /\ Len(F) = n + 2
      /\ \A i \in 1..n + 2 : F[i] = IF i <= n + 1 THEN h[i] ELSE pb[i - (n + 1)]
  <2>1. /\ h \o pb \in Seq(V) /\ Len(h \o pb) = Len(h) + Len(pb)
        /\ \A i \in 1..Len(h) + Len(pb) : (h \o pb)[i] = IF i <= Len(h) THEN h[i] ELSE pb[i - Len(h)]
    BY <1>5, <1>7, ConcatProperties
  <2> QED  BY <1>5, <1>7, <1>8, <2>1
<1>10. F[1] = a /\ F[n + 2] = b
  <2>1. 1 \in 1..n + 2 /\ 1 <= n + 1 /\ n + 2 \in 1..n + 2 /\ ~(n + 2 <= n + 1) /\ (n + 2) - (n + 1) = 1  OBVIOUS
  <2> QED  BY <1>5, <1>7, <1>9, <2>1
<1>11. \A k \in 1..n : F[k + 1] = mid[k]
  <2>1. \A k \in 1..n : k + 1 \in 1..n + 2 /\ k + 1 <= n + 1  OBVIOUS
  <2> QED  BY <1>7, <1>9, <2>1
<1> QED  BY <1>1, <1>9, <1>10, <1>11

\* F is mid with one frame before and one after it.
Brackets(F, a, mid, b, n) ==
  (\E T : F \in Seq(T)) /\ Len(F) = n + 2 /\ F[1] = a /\ F[n + 2] = b /\ \A k \in 1..n : F[k + 1] = mid[k]

\* The frames of a plan lie between its start and its end.
LEMMA BracketsIt ==
  ASSUME NEW a, NEW b, NEW n \in Nat, NEW mid, DOMAIN mid = 1..n, mid = [k \in 1..n |-> mid[k]]
  PROVE  Brackets(<<a>> \o mid \o <<b>>, a, mid, b, n)
<1>1. PICK F : F = <<a>> \o mid \o <<b>>  OBVIOUS
<1>2. PICK T : T = {mid[k] : k \in 1..n}  OBVIOUS
<1>3. mid \in [1..n -> T]  BY <1>2
<1>4. /\ F \in Seq(T \cup {a, b}) /\ Len(F) = n + 2 /\ F[1] = a /\ F[n + 2] = b
      /\ \A k \in 1..n : F[k + 1] = mid[k]
  BY <1>1, <1>3, Bracketed
<1>5. Brackets(F, a, mid, b, n)  BY <1>4 DEF Brackets
<1> QED  BY <1>1, <1>5

\* The frames of a plan, before its limits are checked.
PlanFrames(F, cs, m, n, total, first) ==
  /\ \E T : F \in Seq(T)
  /\ Len(F) = n + 2 /\ DOMAIN F = 1..n + 2
  /\ F[1] = Frame("start", 0, TRUE, <<>>, n, total, first)
  /\ F[n + 2] = Frame("end", n + 1, TRUE, <<>>, n, total, first)
  /\ \A k \in 1..n : F[k + 1] = Frame(IF k <= m THEN "chunk1" ELSE "chunk2", k, TRUE, cs[k], 0, 0, 0)

Records(cs) == Size([k \in DOMAIN cs |-> Len(cs[k])])

\* A plan is its frames, or the error frame if they exceed a limit.
LEMMA PlanIs ==
  ASSUME NEW cs1, NEW cs2, NEW cs, cs = cs1 \o cs2, NEW n \in Nat, n = Len(cs)
  PROVE  \E F : /\ PlanFrames(F, cs, Len(cs1), n, Records(cs), Records(cs1))
                /\ PlanOf(cs1, cs2) = IF Sendable(F) THEN F ELSE <<ErrorFrame>>
<1>1. PICK total, first : total = Records(cs) /\ first = Records(cs1)  OBVIOUS
<1>2. PICK mid : mid = [k \in 1..n |-> Frame(IF k <= Len(cs1) THEN "chunk1" ELSE "chunk2", k, TRUE, cs[k], 0, 0, 0)]
  OBVIOUS
<1>3. DOMAIN mid = 1..n /\ mid = [k \in 1..n |-> mid[k]]  BY <1>2
<1>4. PICK a, b : a = Frame("start", 0, TRUE, <<>>, n, total, first) /\ b = Frame("end", n + 1, TRUE, <<>>, n, total, first)
  OBVIOUS
<1>5. PICK F : F = <<a>> \o mid \o <<b>>  OBVIOUS
<1>6. Brackets(F, a, mid, b, n)  BY <1>3, <1>5, BracketsIt
<1>7. DOMAIN F = 1..n + 2  BY <1>6 DEF Brackets
<1>8. \A k \in 1..n : F[k + 1] = Frame(IF k <= Len(cs1) THEN "chunk1" ELSE "chunk2", k, TRUE, cs[k], 0, 0, 0)
  BY <1>2, <1>6 DEF Brackets
<1>9. PlanFrames(F, cs, Len(cs1), n, total, first)
  <2>1. (\E V : F \in Seq(V)) /\ Len(F) = n + 2 /\ F[1] = a /\ F[n + 2] = b  BY <1>6 DEF Brackets
  <2> QED  BY <1>4, <1>7, <1>8, <2>1 DEF PlanFrames
<1>10. PlanOf(cs1, cs2) = IF Sendable(F) THEN F ELSE <<ErrorFrame>>
  BY <1>1, <1>2, <1>4, <1>5 DEF PlanOf, Records
<1> QED  BY <1>1, <1>9, <1>10

\* A chunk that fits no frame refuses the plan.
LEMMA TooBigIsRefused ==
  ASSUME NEW cs1, NEW cs2, NEW cs, cs = cs1 \o cs2, NEW n \in Nat, n = Len(cs), NEW k \in 1..n, cs[k] = TooBig
  PROVE  PlanOf(cs1, cs2) = <<ErrorFrame>>
<1>1. PICK F : /\ PlanFrames(F, cs, Len(cs1), n, Records(cs), Records(cs1))
               /\ PlanOf(cs1, cs2) = IF Sendable(F) THEN F ELSE <<ErrorFrame>>
  BY PlanIs
<1>2. DOMAIN F = 1..n + 2 /\ F[k + 1] = Frame(IF k <= Len(cs1) THEN "chunk1" ELSE "chunk2", k, TRUE, cs[k], 0, 0, 0)
  BY <1>1 DEF PlanFrames
<1>3. F[k + 1].recs = TooBig  BY <1>2 DEF Frame
<1>4. k + 1 \in DOMAIN F  BY <1>2
<1>5. ~Sendable(F)  BY <1>3, <1>4 DEF Sendable
<1> QED  BY <1>1, <1>5

WireSize(F) == Size([i \in DOMAIN F |-> 1 + Size(F[i].recs)])

\* F is a plan whose n chunks are the parts of s between these offsets.
Carries(F, s, n, at) ==
  /\ \E cs, m, total, first : /\ PlanFrames(F, cs, m, n, total, first)
                              /\ \A k \in 1..n : at[k - 1] < at[k] /\ cs[k] = SubSeq(s, at[k - 1] + 1, at[k])
  /\ at \in [0..n -> 0..Len(s)] /\ at[0] = 0 /\ at[n] = Len(s)

\* Sums of the sizes before and behind a frame.
LEMMA SumsMeet ==
  /\ \A n, x \in Nat : n + 2 + x = (n + 1 + x) + 1
  /\ \A k, x, y \in Nat : (k + 1) + x = (k + y) + (1 + (x - y))
OBVIOUS

\* What the frames of a plan take on the wire.
LEMMA WireIs ==
  ASSUME NEW F, NEW n \in Nat, NEW s \in Seq(Nat), NEW at, Carries(F, s, n, at)
  PROVE  WireSize(F) = n + 2 + Size(s)
<1>0. /\ at \in [0..n -> 0..Len(s)] /\ at[0] = 0 /\ at[n] = Len(s)
      /\ \E cs, m, total, first : /\ PlanFrames(F, cs, m, n, total, first)
                                  /\ \A k \in 1..n : at[k - 1] < at[k] /\ cs[k] = SubSeq(s, at[k - 1] + 1, at[k])
  BY DEF Carries
<1>17. PICK cs, m, total, first : /\ PlanFrames(F, cs, m, n, total, first)
                                  /\ \A k \in 1..n : at[k - 1] < at[k] /\ cs[k] = SubSeq(s, at[k - 1] + 1, at[k])
  BY <1>0
<1>1. PICK l \in Nat : l = Len(s)  OBVIOUS
<1>2. PICK g : Totals(g, s)  BY TotalsExist
<1>3. g \in [0..l -> Nat] /\ g[0] = 0 /\ Size(s) = g[l]  BY <1>1, <1>2, SizeIsTotal DEF Totals
<1>4. PICK u : u = [i \in DOMAIN F |-> 1 + Size(F[i].recs)]  OBVIOUS
<1>5. DOMAIN F = 1..n + 2  BY <1>17 DEF PlanFrames
<1>6. Len(u) = n + 2 /\ \A i \in 1..n + 2 : u[i] = 1 + Size(F[i].recs)  BY <1>4, <1>5
<1>7. u[1] = 1 /\ u[n + 2] = 1
  <2>1. F[1].recs = <<>> /\ F[n + 2].recs = <<>>  BY <1>17 DEF PlanFrames, Frame
  <2>2. 1 \in 1..n + 2 /\ n + 2 \in 1..n + 2  OBVIOUS
  <2> QED  BY <1>6, <2>1, <2>2, SizeOfNone
<1>8. \A k \in 0..n : at[k] \in 0..l /\ g[at[k]] \in Nat  BY <1>0, <1>1, <1>3
<1>9. \A k \in 1..n : u[k + 1] = 1 + (g[at[k]] - g[at[k - 1]])
  <2>1. ASSUME NEW k \in 1..n
        PROVE  u[k + 1] = 1 + (g[at[k]] - g[at[k - 1]])
    <3>1. F[k + 1].recs = cs[k]
      <4>1. PICK body : F[k + 1] = Frame(body, k, TRUE, cs[k], 0, 0, 0)  BY <1>17 DEF PlanFrames
      <4> QED  BY <4>1 DEF Frame
    <3>2. PICK a, b \in Nat : a = at[k - 1] /\ b = at[k]
      <4>1. k - 1 \in 0..n /\ k \in 0..n  OBVIOUS
      <4>2. at[k - 1] \in Nat /\ at[k] \in Nat  BY <1>8, <4>1
      <4> QED  BY <4>2
    <3>3. a <= b /\ b <= Len(s)
      <4>1. k \in 0..n  OBVIOUS
      <4> QED  BY <1>1, <1>8, <1>17, <3>2, <4>1
    <3>4. Size(SubSeq(s, a + 1, b)) = g[b] - g[a]  BY <1>2, <3>3, PartSize
    <3>5. k + 1 \in 1..n + 2  OBVIOUS
    <3> QED  BY <1>6, <1>17, <3>1, <3>2, <3>4, <3>5
  <2> QED  BY <2>1
<1>10. PICK w : w = [i \in 0..n + 2 |-> IF i = 0 THEN 0 ELSE IF i = n + 2 THEN n + 2 + g[l] ELSE i + g[at[i - 1]]]
  OBVIOUS
<1>11. \A i \in 1..n + 1 : w[i] = i + g[at[i - 1]] /\ i - 1 \in 0..n
  <2>1. \A i \in 1..n + 1 : i \in 0..n + 2 /\ i # 0 /\ i # n + 2  OBVIOUS
  <2> QED  BY <1>10, <2>1
<1>12. w[0] = 0 /\ w[n + 2] = n + 2 + g[l]  BY <1>10
<1>13. w \in [0..n + 2 -> Nat]
  <2>1. g[l] \in Nat  BY <1>3
  <2>2. \A i \in 0..n + 2 : w[i] \in Nat
    <3>1. ASSUME NEW i \in 0..n + 2
          PROVE  w[i] \in Nat
      <4>1. CASE i \in 1..n + 1
        <5>1. w[i] = i + g[at[i - 1]] /\ g[at[i - 1]] \in Nat  BY <1>8, <1>11, <4>1
        <5> QED  BY <4>1, <5>1
      <4>2. CASE i = 0 \/ i = n + 2
        BY <1>12, <2>1, <4>2
      <4> QED  BY <4>1, <4>2
    <3> QED  BY <3>1
  <2> QED  BY <1>10, <2>2
<1>14. \A i \in 1..n + 2 : w[i] = w[i - 1] + u[i]
  <2>1. ASSUME NEW i \in 1..n + 2
        PROVE  w[i] = w[i - 1] + u[i]
    <3>1. CASE i = 1
      <4>1. 1 \in 1..n + 1 /\ 1 - 1 = 0  OBVIOUS
      <4>2. w[1] = 1 + g[at[0]]  BY <1>11, <4>1
      <4> QED  BY <1>0, <1>3, <1>7, <1>12, <3>1, <4>1, <4>2
    <3>2. CASE i = n + 2
      <4>1. n + 1 \in 1..n + 1 /\ (n + 1) - 1 = n /\ (n + 2) - 1 = n + 1  OBVIOUS
      <4>2. w[n + 1] = n + 1 + g[at[(n + 1) - 1]]  BY <1>11, <4>1
      <4>3. w[n + 1] = n + 1 + g[l]  BY <1>0, <1>1, <4>1, <4>2, Zenon
      <4>4. PICK x \in Nat : x = g[l]  BY <1>3
      <4>5. n + 2 + x = (n + 1 + x) + 1  BY SumsMeet, Zenon
      <4>6. n + 2 + g[l] = (n + 1 + g[l]) + 1  BY <4>4, <4>5, Zenon
      <4>7. w[n + 2] = w[(n + 2) - 1] + u[n + 2]  BY <1>7, <1>12, <4>1, <4>3, <4>6, Zenon
      <4> QED  BY <3>2, <4>7, Zenon
    <3>3. CASE i # 1 /\ i # n + 2
      <4>1. PICK k \in 1..n : k = i - 1  BY <3>3
      <4>2. i = k + 1 /\ i \in 1..n + 1 /\ k \in 1..n + 1 /\ k \in 0..n /\ k - 1 \in 0..n  BY <4>1
      <4>3. w[i] = i + g[at[i - 1]] /\ w[k] = k + g[at[k - 1]]  BY <1>11, <4>2
      <4>4. PICK x, y \in Nat : x = g[at[k]] /\ y = g[at[k - 1]]  BY <1>8, <4>2
      <4>5. u[i] = 1 + (x - y)  BY <1>9, <4>2, <4>4, Zenon
      <4>6. w[i] = i + x /\ w[i - 1] = k + y  BY <4>1, <4>3, <4>4, Zenon
      <4>7. i + x = (k + y) + (1 + (x - y))
        <5>1. k \in Nat /\ x \in Nat /\ y \in Nat  OBVIOUS
        <5>2. (k + 1) + x = (k + y) + (1 + (x - y))  BY ONLY <5>1, SMTT(60)
        <5> QED  BY <4>2, <5>2, Zenon
      <4> QED  BY <4>5, <4>6, <4>7, Zenon
    <3> QED  BY <3>1, <3>2, <3>3
  <2> QED  BY <2>1
<1>15. PICK h \in Nat : h = n + 2  OBVIOUS
<1>16. Size(u) = w[n + 2]
  <2>1. Len(u) = h /\ w \in [0..h -> Nat] /\ w[0] = 0  BY <1>6, <1>12, <1>13, <1>15, Zenon
  <2>2. \A i \in 1..h : w[i] = w[i - 1] + u[i]  BY <1>14, <1>15, Zenon
  <2>3. Size(u) = w[h]  BY <2>1, <2>2, SizeTelescopes
  <2> QED  BY <1>15, <2>3, Zenon
<1>18. WireSize(F) = Size(u)  BY <1>4 DEF WireSize
<1> QED  BY <1>3, <1>12, <1>16, <1>18, Zenon

CutAt(cs, s, at, k) ==
  at[k - 1] < at[k] /\ cs[k] = SubSeq(s, at[k - 1] + 1, at[k]) /\ Len(cs[k]) = at[k] - at[k - 1]

\* One chunk lies between two cut points.
LEMMA CutPart ==
  ASSUME NEW s, NEW cs, NEW at, NEW k, s \in Seq(Nat) /\ Cuts(cs, s, at), Len(cs) \in Nat /\ k \in 1..Len(cs)
  PROVE  CutAt(cs, s, at, k)
BY CutLengths DEF CutAt

\* An index beyond the first part is one of the second part.
LEMMA SecondPart ==
  ASSUME NEW n1 \in Nat, NEW n2 \in Nat, NEW n, n = n1 + n2, NEW k \in 1..n, ~(k <= n1)
  PROVE  \E i \in 1..n2 : i = k - n1
<1>1. k - n1 \in 1..n2  OBVIOUS
<1> QED  BY <1>1

\* Chunks that the client accepts.
Fit(cs, reply) ==
  \A k \in 1..Len(cs) : Size(cs[k]) <= MaxFrame /\ (reply # "content" => Len(cs[k]) <= MaxChunk)

Declared(n, content, reply) ==
  IF reply = "content" THEN n = (Len(content) + MaxFrame - 1) \div MaxFrame ELSE Len(content) <= MaxRecords

\* A plan of chunks that cut two classes of records satisfies the client.
LEMMA PlanIsGood ==
  ASSUME NEW cs1, NEW cs2, NEW s1, NEW s2, NEW at1, NEW at2, BothCut(cs1, cs2, s1, s2, at1, at2),
         NEW reply, reply # "single", Fit(cs1, reply), Fit(cs2, reply),
         Declared(Len(cs1 \o cs2), s1 \o s2, reply)
  PROVE  Good(PlanOf(cs1, cs2), reply, s1 \o s2)
<1>1. PICK n1, n2, l1 \in Nat : n1 = Len(cs1) /\ n2 = Len(cs2) /\ l1 = Len(s1)  BY DEF BothCut
<1>2. PICK cs : cs = cs1 \o cs2  OBVIOUS
<1>3. PICK s : s = s1 \o s2  OBVIOUS
<1>4. PICK n \in Nat : n = n1 + n2  OBVIOUS
<1>5. /\ cs \in Seq(Seq(Int)) /\ Len(cs) = n /\ DOMAIN cs = 1..n /\ DOMAIN cs1 = 1..n1
      /\ \A k \in 1..n : cs[k] = IF k <= n1 THEN cs1[k] ELSE cs2[k - n1]
  <2>1. cs1 \in Seq(Seq(Int)) /\ cs2 \in Seq(Seq(Int))  BY DEF BothCut
  <2>2. /\ cs1 \o cs2 \in Seq(Seq(Int)) /\ Len(cs1 \o cs2) = Len(cs1) + Len(cs2)
        /\ \A k \in 1..Len(cs1) + Len(cs2) : (cs1 \o cs2)[k] = IF k <= Len(cs1) THEN cs1[k] ELSE cs2[k - Len(cs1)]
    BY <2>1, ConcatProperties
  <2>3. cs \in Seq(Seq(Int)) /\ Len(cs) = n  BY <1>1, <1>2, <1>4, <2>2
  <2>4. \A k \in 1..n : cs[k] = IF k <= n1 THEN cs1[k] ELSE cs2[k - n1]  BY <1>1, <1>2, <1>4, <2>2
  <2>5. DOMAIN cs = 1..n  BY ONLY <2>3, <1>4, SMTT(40)
  <2>6. DOMAIN cs1 = 1..n1  BY ONLY <1>1, <2>1, SMTT(40)
  <2> QED  BY <2>3, <2>4, <2>5, <2>6, Zenon
<1>6. s \in Seq(Nat) /\ s1 \in Seq(Nat) /\ Len(s) \in Nat
  <2>1. s1 \in Seq(Nat) /\ s2 \in Seq(Nat)  BY DEF BothCut
  <2>2. s1 \o s2 \in Seq(Nat)  BY <2>1, ConcatProperties
  <2> QED  BY <1>3, <2>1, <2>2
<1>7. PICK at : Cuts(cs, s, at) /\ at[n1] = l1  BY <1>1, <1>2, <1>3, CutsJoin
<1>8. (\A k \in 0..n : at[k] >= k) /\ \A j, k \in 0..n : j <= k => at[j] <= at[k]
  BY <1>5, <1>6, <1>7, CutsGrow
<1>9. Records(cs) = Len(s) /\ Records(cs1) = l1
  <2>1. Records(cs) = Len(s)  BY <1>5, <1>6, <1>7, CutTotal DEF Records
  <2>2. Cuts(cs1, s1, at1)  BY DEF BothCut
  <2>3. Records(cs1) = Len(s1)  BY <1>1, <1>5, <1>6, <2>2, CutTotal DEF Records
  <2> QED  BY <1>1, <2>1, <2>3
<1>10. PICK F : /\ PlanFrames(F, cs, n1, n, Len(s), at[n1])
                /\ PlanOf(cs1, cs2) = IF Sendable(F) THEN F ELSE <<ErrorFrame>>
  <2>1. n = Len(cs)  BY <1>5
  <2>2. \E F : /\ PlanFrames(F, cs, Len(cs1), n, Records(cs), Records(cs1))
               /\ PlanOf(cs1, cs2) = IF Sendable(F) THEN F ELSE <<ErrorFrame>>
    BY <1>2, <2>1, PlanIs, Zenon
  <2>3. Len(cs1) = n1 /\ Records(cs) = Len(s) /\ Records(cs1) = at[n1]  BY <1>1, <1>7, <1>9
  <2> QED  BY <2>2, <2>3, Zenon
<1>11. CASE ~Sendable(F)
  BY <1>10, <1>11, ErrorIsGood
<1>12. CASE Sendable(F)
  <2>1. Len(F) = n + 2 /\ n + 2 <= MaxFrames  BY <1>10, <1>12 DEF PlanFrames, Sendable
  <2>2. ASSUME NEW k \in 1..n
        PROVE  /\ at[k - 1] < at[k] /\ cs[k] = SubSeq(s, at[k - 1] + 1, at[k]) /\ Size(cs[k]) <= MaxFrame
               /\ reply # "content" => at[k] - at[k - 1] <= MaxChunk
    <3>1. /\ at[k - 1] < at[k] /\ cs[k] = SubSeq(s, at[k - 1] + 1, at[k]) /\ Len(cs[k]) = at[k] - at[k - 1]
      <4>1. Len(cs) \in Nat /\ k \in 1..Len(cs)  BY <1>5
      <4>2. s \in Seq(Nat) /\ Cuts(cs, s, at)  BY <1>6, <1>7
      <4>3. CutAt(cs, s, at, k)  BY <4>1, <4>2, CutPart
      <4> QED  BY <4>3 DEF CutAt
    <3>2. Size(cs[k]) <= MaxFrame /\ (reply # "content" => Len(cs[k]) <= MaxChunk)
      <4>1. CASE k <= n1
        <5>1. k \in 1..Len(cs1) /\ cs[k] = cs1[k]  BY <1>1, <1>5, <4>1
        <5> QED  BY <5>1 DEF Fit
      <4>2. CASE ~(k <= n1)
        <5>1. PICK i \in 1..n2 : i = k - n1  BY <1>4, <4>2, SecondPart
        <5>2. i \in 1..Len(cs2) /\ cs[k] = cs2[i]  BY <1>1, <1>5, <4>2, <5>1
        <5> QED  BY <5>2 DEF Fit
      <4> QED  BY <4>1, <4>2
    <3> QED  BY <3>1, <3>2
  <2>3. \A k \in 1..n : F[k + 1] = Frame(IF k <= n1 THEN "chunk1" ELSE "chunk2", k, TRUE,
                                          SubSeq(s, at[k - 1] + 1, at[k]), 0, 0, 0)
    BY <1>10, <2>2 DEF PlanFrames
  <2>4. n1 \in 0..n  BY <1>4
  <2>5. at \in [0..n -> 0..Len(s)] /\ at[0] = 0 /\ at[n] = Len(s)  BY <1>5, <1>7 DEF Cuts
  <2>6. IF reply = "content" THEN n = (Len(s) + MaxFrame - 1) \div MaxFrame ELSE Len(s) <= MaxRecords
    BY <1>2, <1>3, <1>5 DEF Declared
  <2>7. \A k \in 1..n : /\ at[k - 1] < at[k] /\ Size(SubSeq(s, at[k - 1] + 1, at[k])) <= MaxFrame
                        /\ reply # "content" => at[k] - at[k - 1] <= MaxChunk
    BY <2>2
  <2>8. /\ F[1] = Frame("start", 0, TRUE, <<>>, n, Len(s), at[n1])
        /\ F[n + 2] = Frame("end", n + 1, TRUE, <<>>, n, Len(s), at[n1])
        /\ \E T : F \in Seq(T)
    BY <1>10 DEF PlanFrames
  <2>9. n + 2 + Size(s) <= MaxWire
    <3>1. \A k \in 1..n : at[k - 1] < at[k] /\ cs[k] = SubSeq(s, at[k - 1] + 1, at[k])  BY <2>2
    <3>2. Carries(F, s, n, at)  BY <1>10, <2>5, <3>1 DEF Carries
    <3>3. WireSize(F) = n + 2 + Size(s)  BY <1>6, <3>2, WireIs
    <3> QED  BY <1>12, <3>3 DEF Sendable, WireSize
  <2>10. Stream(F, reply, s, n, n1, at)
    BY <1>6, <1>8, <2>1, <2>3, <2>4, <2>5, <2>6, <2>7, <2>8, <2>9, Zenon DEF Stream
  <2> QED  BY <1>3, <1>10, <1>12, <2>8, <2>10 DEF Good
<1> QED  BY <1>11, <1>12

\* The empty sequence adds nothing.
LEMMA NoneAppended ==
  ASSUME NEW T, NEW s \in Seq(T)
  PROVE  s \o <<>> = s
BY ConcatEmptySeq

\* No records are cut into no chunks.
LEMMA NothingIsChunked == IsChunked(<<>>, <<>>) /\ \A reply : Fit(<<>>, reply)
<1>1. PICK e : e = <<>>  OBVIOUS
<1>2. e \in Seq(Seq(Int)) /\ Len(e) = 0  BY <1>1
<1>3. \A k \in 1..Len(e) : FALSE  BY <1>2
<1>4. PICK at : Cuts(e, e, at)  BY <1>1, NothingCut
<1>5. \E at_1 : Cuts(e, e, at_1)  BY <1>4
<1>6. IsChunked(e, e)  BY <1>2, <1>3, <1>5 DEF IsChunked
<1>7. \A reply : Fit(e, reply)  BY <1>3 DEF Fit
<1> QED  BY <1>1, <1>6, <1>7

\* Two classes of records, chunked one after the other.
LEMMA ChunkedIsGood ==
  ASSUME NEW s1, NEW s2, s1 \in Seq(Nat) /\ s2 \in Seq(Nat), NEW cs1, NEW cs2, IsChunked(cs1, s1), IsChunked(cs2, s2),
         NEW reply, reply # "single", reply # "content", Len(s1 \o s2) <= MaxRecords
  PROVE  Good(PlanOf(cs1, cs2), reply, s1 \o s2)
<1>1. PICK n1, n2 \in Nat : n1 = Len(cs1) /\ n2 = Len(cs2)  BY DEF IsChunked
<1>2. PICK cs : cs = cs1 \o cs2  OBVIOUS
<1>3. PICK n \in Nat : n = n1 + n2  OBVIOUS
<1>4. Len(cs) = n /\ (\A k \in 1..n1 : cs[k] = cs1[k]) /\ \A k \in 1..n2 : cs[n1 + k] = cs2[k]
  <2>1. cs1 \in Seq(Seq(Int)) /\ cs2 \in Seq(Seq(Int))  BY DEF IsChunked
  <2>2. /\ Len(cs1 \o cs2) = Len(cs1) + Len(cs2)
        /\ \A k \in 1..Len(cs1) + Len(cs2) : (cs1 \o cs2)[k] = IF k <= Len(cs1) THEN cs1[k] ELSE cs2[k - Len(cs1)]
    BY <2>1, ConcatProperties
  <2>3. \A k \in 1..n : cs[k] = IF k <= n1 THEN cs1[k] ELSE cs2[k - n1]  BY <1>1, <1>2, <1>3, <2>2
  <2>4. \A k \in 1..n1 : k \in 1..n /\ k <= n1  BY <1>3
  <2>5. \A k \in 1..n2 : n1 + k \in 1..n /\ ~(n1 + k <= n1) /\ (n1 + k) - n1 = k  BY <1>3
  <2>6. \A k \in 1..n1 : cs[k] = cs1[k]  BY <2>3, <2>4
  <2>7. \A k \in 1..n2 : cs[n1 + k] = cs2[k]  BY <2>3, <2>5
  <2> QED  BY <1>1, <1>2, <1>3, <2>2, <2>6, <2>7
<1>5. CASE \E k \in 1..n : cs[k] = TooBig
  <2>1. PICK k \in 1..n : cs[k] = TooBig  BY <1>5
  <2>2. n = Len(cs)  BY <1>4
  <2>3. PlanOf(cs1, cs2) = <<ErrorFrame>>  BY <1>2, <2>1, <2>2, TooBigIsRefused
  <2> QED  BY <2>3, ErrorIsGood
<1>6. CASE ~\E k \in 1..n : cs[k] = TooBig
  <2>1. ~\E k \in 1..n1 : cs1[k] = TooBig
    <3>1. \A k \in 1..n1 : k \in 1..n  BY <1>3
    <3> QED  BY <1>4, <1>6, <3>1
  <2>2. ~\E k \in 1..n2 : cs2[k] = TooBig
    <3>1. \A k \in 1..n2 : n1 + k \in 1..n  BY <1>3
    <3> QED  BY <1>4, <1>6, <3>1
  <2>3. PICK at1 : Cuts(cs1, s1, at1)  BY <1>1, <2>1 DEF IsChunked
  <2>4. PICK at2 : Cuts(cs2, s2, at2)  BY <1>1, <2>2 DEF IsChunked
  <2>5. BothCut(cs1, cs2, s1, s2, at1, at2)  BY <2>3, <2>4 DEF BothCut, IsChunked
  <2>6. Fit(cs1, reply)  BY <1>1, <2>1 DEF IsChunked, Fit
  <2>7. Fit(cs2, reply)  BY <1>1, <2>2 DEF IsChunked, Fit
  <2>8. Declared(Len(cs1 \o cs2), s1 \o s2, reply)  BY DEF Declared
  <2> QED  BY <2>5, <2>6, <2>7, <2>8, PlanIsGood
<1> QED  BY <1>5, <1>6

\* A plan of one class of records satisfies the client.
LEMMA RecordsPlanIsGood ==
  ASSUME NEW recs \in Seq(Nat), NEW reply, reply # "single", reply # "content"
  PROVE  Good(Bounded(recs, PlanOf(RecordChunks(recs), <<>>)), reply, recs)
<1>1. CASE Len(recs) > MaxRecords
  BY <1>1, ErrorIsGood DEF Bounded
<1>2. CASE ~(Len(recs) > MaxRecords)
  <2>1. PICK e : e = <<>>  OBVIOUS
  <2>2. e \in Seq(Nat) /\ recs \o e = recs  BY <2>1, NoneAppended
  <2>3. IsChunked(e, e)  BY <2>1, NothingIsChunked
  <2>4. IsChunked(RecordChunks(recs), recs)  BY RecordChunksCut
  <2>5. Len(recs \o e) <= MaxRecords
    <3>1. Len(recs) \in Nat /\ MaxRecords \in Nat  BY IpcAssumption
    <3> QED  BY <1>2, <2>2, <3>1
  <2>6. Good(PlanOf(RecordChunks(recs), e), reply, recs \o e)  BY <2>2, <2>3, <2>4, <2>5, ChunkedIsGood
  <2> QED  BY <1>2, <2>1, <2>2, <2>6 DEF Bounded
<1> QED  BY <1>1, <1>2

\* t has the first h entries of s, u the others.
Parts(t, u, s, h, q) ==
  /\ s \in Seq(Nat) /\ h \in Nat /\ q \in Nat /\ Len(s) = h + q
  /\ t \in Seq(Nat) /\ Len(t) = h /\ u \in Seq(Nat) /\ Len(u) = q
  /\ (\A i \in 1..h : t[i] = s[i]) /\ \A i \in 1..q : u[i] = s[h + i]

\* Two parts joined are the whole.
LEMMA PartsJoin ==
  ASSUME NEW s, NEW h, NEW q, NEW t, NEW u, Parts(t, u, s, h, q)
  PROVE  t \o u = s
<1>0. s \in Seq(Nat) /\ h \in Nat /\ q \in Nat /\ Len(s) = h + q  BY DEF Parts
<1>1. PICK n \in Nat : n = h + q  BY <1>0
<1>2. PICK v : v = t \o u  OBVIOUS
<1>3. v \in Seq(Nat) /\ Len(v) = n /\ \A i \in 1..n : v[i] = IF i <= h THEN t[i] ELSE u[i - h]
  <2>1. t \in Seq(Nat) /\ u \in Seq(Nat) /\ Len(t) = h /\ Len(u) = q  BY DEF Parts
  <2>2. /\ t \o u \in Seq(Nat) /\ Len(t \o u) = Len(t) + Len(u)
        /\ \A i \in 1..Len(t) + Len(u) : (t \o u)[i] = IF i <= Len(t) THEN t[i] ELSE u[i - Len(t)]
    BY <2>1, ConcatProperties
  <2> QED  BY <1>0, <1>1, <1>2, <2>1, <2>2
<1>4. ASSUME NEW i \in 1..n
      PROVE  v[i] = s[i]
  <2>1. CASE i <= h
    <3>1. i \in 1..h  BY <1>0, <2>1
    <3> QED  BY <1>3, <2>1, <3>1 DEF Parts
  <2>2. CASE ~(i <= h)
    <3>1. PICK j \in 1..q : j = i - h  BY <1>0, <1>1, <2>2, SecondPart
    <3>2. h + j = i  BY <1>0, <3>1
    <3> QED  BY <1>3, <2>2, <3>1, <3>2 DEF Parts
  <2> QED  BY <2>1, <2>2
<1>5. v = s
  <2>1. \A i \in 1..Len(v) : v[i] = s[i]  BY <1>3, <1>4
  <2>2. Len(v) = Len(s)  BY <1>0, <1>1, <1>3
  <2> QED  BY <1>0, <1>3, <2>1, <2>2, SeqEqual
<1> QED  BY <1>2, <1>5

IsLater(T, u, s, m, n) ==
  /\ u \in Seq(T) /\ Len(u) = (IF m <= n THEN n - m + 1 ELSE 0)
  /\ \A i \in 1..n - m + 1 : u[i] = s[m + i - 1]

\* The entries of a sequence from the m-th on.
LEMMA LaterIs ==
  ASSUME NEW T, NEW s \in Seq(T), NEW m \in Nat, m >= 1, NEW n \in Nat, n = Len(s), NEW u, u = SubSeq(s, m, n)
  PROVE  IsLater(T, u, s, m, n)
<1>1. m \in Int /\ n \in Int /\ \A i \in m..n : s[i] \in T  OBVIOUS
<1> QED  BY <1>1, SubSeqProperties DEF IsLater

\* A sequence cut in two.
LEMMA PartsAre ==
  ASSUME NEW s \in Seq(Nat), NEW h \in Nat, NEW q \in Nat, NEW n \in Nat, n = h + q, n = Len(s),
         NEW t, t = SubSeq(s, 1, h), NEW u, u = SubSeq(s, h + 1, n)
  PROVE  Parts(t, u, s, h, q)
<1>1. t \in Seq(Nat) /\ Len(t) = h /\ \A i \in 1..h : t[i] = s[i]
  <2>1. h \in 0..Len(s)  OBVIOUS
  <2> QED  BY <2>1, LeadingIs
<1>2. PICK m \in Nat : m = h + 1  OBVIOUS
<1>3. /\ u \in Seq(Nat) /\ Len(u) = (IF m <= n THEN n - m + 1 ELSE 0)
      /\ \A i \in 1..n - m + 1 : u[i] = s[m + i - 1]
  <2>1. u = SubSeq(s, m, n)  BY <1>2
  <2>2. m >= 1  BY <1>2
  <2>3. IsLater(Nat, u, s, m, n)  BY <2>1, <2>2, LaterIs
  <2> QED  BY <2>3 DEF IsLater
<1>4. \A i \in 1..q : i \in 1..n - m + 1 /\ m + i - 1 = h + i  BY <1>2
<1>5. (IF m <= n THEN n - m + 1 ELSE 0) = q  BY <1>2
<1>6. \A i \in 1..q : u[i] = s[h + i]  BY <1>3, <1>4
<1> QED  BY <1>1, <1>3, <1>5, <1>6 DEF Parts

\* A half and the rest.
LEMMA HalfOf ==
  ASSUME NEW n \in Nat
  PROVE  \E h, q \in Nat : h = n \div 2 /\ n = h + q
<1>1. n \div 2 \in Nat /\ n - n \div 2 \in Nat /\ n = n \div 2 + (n - n \div 2)  OBVIOUS
<1> QED  BY <1>1

\* Interfaces and applications in one plan.
LEMMA NetworkPlanIsGood ==
  ASSUME NEW recs \in Seq(Nat)
  PROVE  Good(NetworkPlan(recs), "network", recs)
<1>0. PICK n \in Nat : n = Len(recs)  OBVIOUS
<1>1. PICK h, q \in Nat : h = n \div 2 /\ n = h + q  BY HalfOf
<1>2. PICK s1, s2 : s1 = SubSeq(recs, 1, h) /\ s2 = SubSeq(recs, h + 1, n)  OBVIOUS
<1>3. s1 \in Seq(Nat) /\ s2 \in Seq(Nat) /\ s1 \o s2 = recs
  <2>1. Parts(s1, s2, recs, h, q)  BY <1>0, <1>1, <1>2, PartsAre
  <2>3. s1 \o s2 = recs  BY <2>1, PartsJoin
  <2> QED  BY <2>1, <2>3 DEF Parts
<1>4. NetworkPlan(recs) = Bounded(recs, PlanOf(RecordChunks(s1), RecordChunks(s2)))  BY <1>0, <1>1, <1>2 DEF NetworkPlan
<1>5. CASE Len(recs) > MaxRecords
  BY <1>4, <1>5, ErrorIsGood DEF Bounded
<1>6. CASE ~(Len(recs) > MaxRecords)
  <2>1. IsChunked(RecordChunks(s1), s1) /\ IsChunked(RecordChunks(s2), s2)  BY <1>3, RecordChunksCut
  <2>2. Len(s1 \o s2) <= MaxRecords
    <3>1. Len(recs) \in Nat /\ MaxRecords \in Nat  BY IpcAssumption
    <3> QED  BY <1>3, <1>6, <3>1
  <2>3. Good(PlanOf(RecordChunks(s1), RecordChunks(s2)), "network", s1 \o s2)  BY <1>3, <2>1, <2>2, ChunkedIsGood
  <2> QED  BY <1>3, <1>4, <1>6, <2>3 DEF Bounded
<1> QED  BY <1>5, <1>6

\* The content of a note or an export.
LEMMA ContentPlanIsGood ==
  ASSUME NEW recs \in Seq(Nat)
  PROVE  Good(ContentPlan(recs), "content", Units(Size(recs)))
<1>1. PICK l \in Nat : l = Size(recs)  BY SizeType
<1>2. PICK u : u = Units(l)  OBVIOUS
<1>3. u \in Seq(Nat) /\ Len(u) = l  BY <1>2, UnitsAre
<1>4. PICK cs : cs = ContentChunks(recs)  OBVIOUS
<1>5. /\ cs \in Seq(Seq(Int)) /\ Len(cs) = (l + MaxFrame - 1) \div MaxFrame
      /\ \E at : Cuts(cs, u, at)
      /\ \A k \in 1..Len(cs) : Size(cs[k]) <= MaxFrame
  BY <1>1, <1>2, <1>4, ContentChunksCut
<1>6. PICK at1 : Cuts(cs, u, at1)  BY <1>5
<1>7. PICK e : e = <<>>  OBVIOUS
<1>8. PICK at2 : Cuts(e, e, at2)  BY <1>7, NothingCut
<1>9. e \in Seq(Seq(Int)) /\ e \in Seq(Nat) /\ cs \o e = cs /\ u \o e = u  BY <1>3, <1>5, <1>7, NoneAppended
<1>10. BothCut(cs, e, u, e, at1, at2)  BY <1>3, <1>5, <1>6, <1>8, <1>9 DEF BothCut
<1>11. Fit(cs, "content") /\ Fit(e, "content")
  <2>1. Fit(cs, "content")  BY <1>5 DEF Fit
  <2> QED  BY <1>7, <2>1, NothingIsChunked
<1>12. Declared(Len(cs \o e), u \o e, "content")  BY <1>3, <1>5, <1>9 DEF Declared
<1>13. Good(PlanOf(cs, e), "content", u \o e)  BY <1>10, <1>11, <1>12, PlanIsGood
<1> QED  BY <1>1, <1>2, <1>4, <1>7, <1>9, <1>13 DEF ContentPlan

Replies == {"single", "telemetry", "network", "usage", "tasks", "notes", "content"}

\* Whatever a provider answers, what is written is nothing or satisfies the client.
LEMMA ReplyIsGood ==
  ASSUME NEW reply \in Replies, NEW recs \in Seq(Nat), Reply(reply, recs) # <<>>
  PROVE  Good(Reply(reply, recs), reply, Content(reply, recs))
<1>1. CASE reply = "single"
  <2>1. Reply(reply, recs) = IF Size(recs) > MaxFrame THEN <<>> ELSE <<SingleFrame(recs)>>  BY <1>1 DEF Reply
  <2>2. Size(recs) <= MaxFrame /\ Reply(reply, recs) = <<SingleFrame(recs)>>
    <3>1. Size(recs) \in Nat /\ MaxFrame \in Nat  BY SizeType, IpcAssumption
    <3> QED  BY <2>1, <3>1
  <2>3. Content(reply, recs) = recs  BY <1>1 DEF Content
  <2>4. <<SingleFrame(recs)>> \in Seq({SingleFrame(recs)})  OBVIOUS
  <2> QED  BY <1>1, <2>2, <2>3, <2>4 DEF Good
<1>2. CASE reply \in {"telemetry", "usage", "tasks", "notes"}
  <2>1. Reply(reply, recs) = Bounded(recs, PlanOf(RecordChunks(recs), <<>>))
    BY <1>2 DEF Reply, TelemetryPlan, UsagePlan, TransferPlan, NotesPagePlan
  <2>2. Content(reply, recs) = recs  BY <1>2 DEF Content
  <2>3. reply # "single" /\ reply # "content"  BY <1>2
  <2> QED  BY <2>1, <2>2, <2>3, RecordsPlanIsGood
<1>3. CASE reply = "network"
  <2>1. Reply(reply, recs) = NetworkPlan(recs) /\ Content(reply, recs) = recs  BY <1>3 DEF Reply, Content
  <2> QED  BY <1>3, <2>1, NetworkPlanIsGood
<1>4. CASE reply = "content"
  <2>1. Reply(reply, recs) = ContentPlan(recs) /\ Content(reply, recs) = Units(Size(recs))
    BY <1>4 DEF Reply, Content, Units
  <2> QED  BY <1>4, <2>1, ContentPlanIsGood
<1> QED  BY <1>1, <1>2, <1>3, <1>4 DEF Replies

-----------------------------------------------------------------------------
(* An exchange: what is written, what is in the socket, what was read *)

\* The frames j + 1 to i of F.
Run(F, j, i) == [k \in 1..i - j |-> F[j + k]]

AllOf(F) == {F[k] : k \in Int}

\* r is the l frames of F after the first j.
IsRun(r, F, j, l) == r \in Seq(AllOf(F)) /\ Len(r) = l /\ \A k \in 1..l : r[k] = F[j + k]

\* A run is made of those frames.
LEMMA RunIs ==
  ASSUME NEW F, NEW j \in Nat, NEW i \in Nat, NEW l \in Nat, i = j + l, NEW r, r = Run(F, j, i)
  PROVE  IsRun(r, F, j, l)
<1>1. PICK T : T = AllOf(F)  OBVIOUS
<1>2. r = [k \in 1..l |-> F[j + k]]
  <2>1. i - j = l  OBVIOUS
  <2> QED  BY <2>1 DEF Run
<1>3. \A k \in 1..l : F[j + k] \in T  BY <1>1 DEF AllOf
<1>4. r \in [1..l -> T] /\ \A k \in 1..l : r[k] = F[j + k]  BY <1>2, <1>3
<1>5. r \in Seq(T) /\ Len(r) = l  BY <1>4
<1> QED  BY <1>1, <1>4, <1>5 DEF IsRun

\* An empty run.
LEMMA RunNone ==
  ASSUME NEW F, NEW i \in Nat
  PROVE  Run(F, i, i) = <<>>
<1>1. PICK r : r = Run(F, i, i)  OBVIOUS
<1>2. PICK l \in Nat : l = 0 /\ i = i + l  OBVIOUS
<1>3. IsRun(r, F, i, l)  BY <1>1, <1>2, RunIs
<1>4. r \in Seq(AllOf(F)) /\ Len(r) = 0  BY <1>2, <1>3 DEF IsRun
<1> QED  BY <1>1, <1>4

\* A run that is not empty.
LEMMA RunSome ==
  ASSUME NEW F, NEW j \in Nat, NEW i \in Nat, j < i
  PROVE  Run(F, j, i) # <<>>
<1>1. PICK r : r = Run(F, j, i)  OBVIOUS
<1>2. PICK l \in Nat : i = j + l /\ l # 0
  <2>1. i - j \in Nat /\ i = j + (i - j) /\ i - j # 0  OBVIOUS
  <2> QED  BY <2>1
<1>3. IsRun(r, F, j, l)  BY <1>1, <1>2, RunIs
<1>4. Len(r) # 0  BY <1>2, <1>3 DEF IsRun
<1> QED  BY <1>1, <1>4

\* All frames.
LEMMA RunWhole ==
  ASSUME NEW T, NEW F \in Seq(T)
  PROVE  Run(F, 0, Len(F)) = F
<1>1. PICK n \in Nat : n = Len(F)  OBVIOUS
<1>2. F = [k \in 1..n |-> F[k]]  BY <1>1
<1>3. Run(F, 0, n) = [k \in 1..n |-> F[k]]  BY DEF Run
<1> QED  BY <1>1, <1>2, <1>3

\* Writing the next frame.
LEMMA RunAppend ==
  ASSUME NEW F, NEW j \in Nat, NEW i \in Nat, j <= i
  PROVE  Append(Run(F, j, i), F[i + 1]) = Run(F, j, i + 1)
<1>1. PICK r, v : r = Run(F, j, i) /\ v = Run(F, j, i + 1)  OBVIOUS
<1>2. PICK T : T = AllOf(F)  OBVIOUS
<1>3. PICK l \in Nat : i = j + l
  <2>1. i - j \in Nat /\ i = j + (i - j)  OBVIOUS
  <2> QED  BY <2>1
<1>4. r \in Seq(T) /\ Len(r) = l /\ \A k \in 1..l : r[k] = F[j + k]
  <2>1. IsRun(r, F, j, l)  BY <1>1, <1>3, RunIs
  <2> QED  BY <1>2, <2>1 DEF IsRun
<1>5. v \in Seq(T) /\ Len(v) = l + 1 /\ \A k \in 1..l + 1 : v[k] = F[j + k]
  <2>1. PICK q, p \in Nat : q = i + 1 /\ p = l + 1  OBVIOUS
  <2>2. v = Run(F, j, q) /\ q = j + p  BY <1>1, <1>3, <2>1
  <2>3. IsRun(v, F, j, p)  BY <2>2, RunIs
  <2> QED  BY <1>2, <2>1, <2>3 DEF IsRun
<1>6. PICK x : x = F[i + 1]  OBVIOUS
<1>7. x \in T  BY <1>2, <1>6 DEF AllOf
<1>8. PICK u : u = Append(r, x)  OBVIOUS
<1>9. u \in Seq(T) /\ Len(u) = l + 1 /\ u[l + 1] = x /\ \A k \in 1..l : u[k] = r[k]
  <2>1. r \in Seq(T) /\ x \in T  BY <1>4, <1>7
  <2>2. /\ Append(r, x) \in Seq(T) /\ Len(Append(r, x)) = Len(r) + 1
        /\ \A k \in 1..Len(r) : Append(r, x)[k] = r[k]
        /\ Append(r, x)[Len(r) + 1] = x
    BY <2>1, AppendProperties
  <2> QED  BY <1>4, <1>8, <2>2
<1>10. ASSUME NEW k \in 1..l + 1
       PROVE  u[k] = v[k]
  <2>1. CASE k \in 1..l
    BY <1>4, <1>5, <1>9, <2>1
  <2>2. CASE k \notin 1..l
    <3>1. k = l + 1 /\ j + k = i + 1  BY <1>3, <2>2
    <3> QED  BY <1>5, <1>6, <1>9, <3>1
  <2> QED  BY <2>1, <2>2
<1>11. u = v
  <2>1. Len(u) = Len(v) /\ \A k \in 1..Len(u) : u[k] = v[k]  BY <1>5, <1>9, <1>10
  <2> QED  BY <1>5, <1>9, <2>1, SeqEqual
<1> QED  BY <1>1, <1>6, <1>8, <1>11

\* Reading the next frame.
LEMMA RunTail ==
  ASSUME NEW F, NEW j \in Nat, NEW i \in Nat, j < i
  PROVE  Head(Run(F, j, i)) = F[j + 1] /\ Tail(Run(F, j, i)) = Run(F, j + 1, i)
<1>1. PICK r, v : r = Run(F, j, i) /\ v = Run(F, j + 1, i)  OBVIOUS
<1>2. PICK T : T = AllOf(F)  OBVIOUS
<1>3. PICK l \in Nat : i = j + 1 + l
  <2>1. i - (j + 1) \in Nat /\ i = j + 1 + (i - (j + 1))  OBVIOUS
  <2> QED  BY <2>1
<1>4. r \in Seq(T) /\ Len(r) = l + 1 /\ \A k \in 1..l + 1 : r[k] = F[j + k]
  <2>1. PICK p \in Nat : p = l + 1  OBVIOUS
  <2>2. i = j + p  BY <1>3, <2>1
  <2>3. IsRun(r, F, j, p)  BY <1>1, <2>2, RunIs
  <2> QED  BY <1>2, <2>1, <2>3 DEF IsRun
<1>5. v \in Seq(T) /\ Len(v) = l /\ \A k \in 1..l : v[k] = F[j + 1 + k]
  <2>1. PICK q \in Nat : q = j + 1  OBVIOUS
  <2>2. v = Run(F, q, i) /\ i = q + l  BY <1>1, <1>3, <2>1
  <2>3. IsRun(v, F, q, l)  BY <2>2, RunIs
  <2> QED  BY <1>2, <2>1, <2>3 DEF IsRun
<1>6. r # <<>>  BY <1>4
<1>7. Head(r) = r[1] /\ Tail(r) \in Seq(T) /\ Len(Tail(r)) = l /\ \A k \in 1..l : Tail(r)[k] = r[k + 1]
  BY <1>4, <1>6
<1>8. Head(r) = F[j + 1]
  <2>1. 1 \in 1..l + 1  OBVIOUS
  <2> QED  BY <1>4, <1>7, <2>1
<1>9. PICK u : u = Tail(r)  OBVIOUS
<1>10. ASSUME NEW k \in 1..l
       PROVE  u[k] = v[k]
  <2>1. k + 1 \in 1..l + 1 /\ j + (k + 1) = j + 1 + k  OBVIOUS
  <2> QED  BY <1>4, <1>5, <1>7, <1>9, <2>1
<1>11. u = v
  <2>1. u \in Seq(T) /\ Len(u) = Len(v) /\ \A k \in 1..Len(u) : u[k] = v[k]  BY <1>5, <1>7, <1>9, <1>10
  <2> QED  BY <1>5, <2>1, SeqEqual
<1> QED  BY <1>1, <1>8, <1>9, <1>11

Early == {"none", "backlog", "reading", "provider", "streaming"}
Waiting == {"idle", "calling", "first"}
Phases == [pc : {"idle", "calling", "first", "data", "ok-eof", "error-eof", "ok", "daemon", "cut", "timeout"},
           next : Nat, frames : Nat, request : {"good", "invalid", "other version"}]

\* The client is between the frames of a stream.
Between(F, j, reply, content, x, g, t, n, m, at) ==
  /\ Stream(F, reply, content, n, m, at)
  /\ j \in 1..n + 1 /\ x.next = j /\ x.frames = j - 1 /\ t = F[1] /\ g = SubSeq(content, 1, at[j - 1])

\* The client has read the first j frames of F.
ClientAt(F, j, reply, content, x, g, t) ==
  /\ x.pc \in Waiting => j = 0 /\ g = <<>>
  /\ x.pc = "data" => reply # "single" /\ \E n, m, at : Between(F, j, reply, content, x, g, t, n, m, at)
  /\ x.pc = "ok-eof" => j = Len(F) /\ g = content
  /\ x.pc = "error-eof" => j = Len(F)
  /\ x.pc = "ok" => g = content

\* The task has written the first i frames of F, the client has read j of them.
WrittenTo(F, i, j, reply, content, s, p, w) ==
  /\ Good(F, reply, content) /\ i \in Nat /\ j \in Nat /\ Len(F) \in Nat /\ j <= i /\ i <= Len(F)
  /\ w = Run(F, j, i)
  /\ IF s = "writing" THEN i < Len(F) /\ p = Run(F, i, Len(F)) ELSE p = <<>>

\* The state of one connection.
ExchangeOf(reply, content, s, p, w, x, g, t) ==
  IF s \in Early THEN p = <<>> /\ w = <<>> /\ g = <<>> /\ x.pc \in Waiting \cup {"timeout"}
  ELSE \E F, i, j : WrittenTo(F, i, j, reply, content, s, p, w) /\ ClientAt(F, j, reply, content, x, g, t)

\* A request that was not answered yet.
LEMMA Unanswered ==
  ASSUME NEW x, NEW g, NEW t, NEW F, NEW reply, NEW content, g = <<>>, x.pc \in Waiting \cup {"timeout"}
  PROVE  ClientAt(F, 0, reply, content, x, g, t)
BY DEF ClientAt, Waiting

\* An answer is a sequence of frames.
LEMMA GoodLength ==
  ASSUME NEW F, NEW reply, NEW content, Good(F, reply, content)
  PROVE  Len(F) \in Nat /\ Run(F, 0, Len(F)) = F
<1>1. PICK T : F \in Seq(T)  BY DEF Good
<1>2. Len(F) \in Nat  BY <1>1
<1> QED  BY <1>1, <1>2, RunWhole

\* The answer becomes frames.
LEMMA ExchangeStarts ==
  ASSUME NEW reply, NEW content, NEW s \in Early, NEW p, NEW w, NEW x, NEW g, NEW t, NEW oldReply, NEW oldContent,
         ExchangeOf(oldReply, oldContent, s, p, w, x, g, t), NEW F, F # <<>>, Good(F, reply, content)
  PROVE  ExchangeOf(reply, content, "writing", F, w, x, g, t)
<1>1. w = <<>> /\ g = <<>> /\ x.pc \in Waiting \cup {"timeout"}  BY DEF ExchangeOf
<1>2. Len(F) \in Nat /\ Run(F, 0, Len(F)) = F  BY GoodLength
<1>3. Len(F) # 0
  <2>1. PICK T : F \in Seq(T)  BY DEF Good
  <2> QED  BY <2>1
<1>4. PICK z \in Nat : z = 0  OBVIOUS
<1>5. Run(F, z, z) = <<>>  BY RunNone
<1>6. WrittenTo(F, z, z, reply, content, "writing", F, w)  BY <1>1, <1>2, <1>3, <1>4, <1>5 DEF WrittenTo
<1>7. ClientAt(F, z, reply, content, x, g, t)  BY <1>1, <1>4, Unanswered
<1>8. "writing" \notin Early  BY DEF Early
<1> QED  BY <1>6, <1>7, <1>8 DEF ExchangeOf

\* The task ends without an answer.
LEMMA ExchangeDropped ==
  ASSUME NEW reply, NEW content, NEW s \in Early, NEW p, NEW w, NEW x, NEW g, NEW t, NEW oldReply, NEW oldContent,
         ExchangeOf(oldReply, oldContent, s, p, w, x, g, t)
  PROVE  ExchangeOf(reply, content, "closed", <<>>, w, x, g, t)
<1>1. w = <<>> /\ g = <<>> /\ x.pc \in Waiting \cup {"timeout"}  BY DEF ExchangeOf
<1>2. PICK F : F = <<ErrorFrame>>  OBVIOUS
<1>3. Good(F, reply, content)  BY <1>2, ErrorIsGood
<1>4. Len(F) \in Nat  BY <1>3, GoodLength
<1>5. PICK z \in Nat : z = 0  OBVIOUS
<1>6. Run(F, z, z) = <<>>  BY RunNone
<1>7. WrittenTo(F, z, z, reply, content, "closed", <<>>, w)  BY <1>1, <1>3, <1>4, <1>5, <1>6 DEF WrittenTo
<1>8. ClientAt(F, z, reply, content, x, g, t)  BY <1>1, <1>5, Unanswered
<1>9. "closed" \notin Early  BY DEF Early
<1> QED  BY <1>7, <1>8, <1>9 DEF ExchangeOf

\* The task ends, whatever it has written.
LEMMA ExchangeCloses ==
  ASSUME NEW reply, NEW content, NEW s, NEW p, NEW w, NEW x, NEW g, NEW t,
         ExchangeOf(reply, content, s, p, w, x, g, t)
  PROVE  ExchangeOf(reply, content, "closed", <<>>, w, x, g, t)
<1>1. CASE s \in Early
  BY <1>1, ExchangeDropped
<1>2. CASE s \notin Early
  <2>1. PICK F, i, j : WrittenTo(F, i, j, reply, content, s, p, w) /\ ClientAt(F, j, reply, content, x, g, t)
    BY <1>2 DEF ExchangeOf
  <2>2. WrittenTo(F, i, j, reply, content, "closed", <<>>, w)  BY <2>1 DEF WrittenTo
  <2>3. "closed" \notin Early  BY DEF Early
  <2> QED  BY <2>1, <2>2, <2>3 DEF ExchangeOf
<1> QED  BY <1>1, <1>2

\* The task writes a frame.
LEMMA ExchangeWrites ==
  ASSUME NEW reply, NEW content, NEW p, NEW w, NEW x, NEW g, NEW t,
         ExchangeOf(reply, content, "writing", p, w, x, g, t)
  PROVE  /\ Len(p) # 1 => ExchangeOf(reply, content, "writing", Tail(p), Append(w, Head(p)), x, g, t)
         /\ Len(p) = 1 => ExchangeOf(reply, content, "closed", <<>>, Append(w, Head(p)), x, g, t)
<1>0. "writing" \notin Early /\ "closed" \notin Early  BY DEF Early
<1>1. PICK F, i, j : WrittenTo(F, i, j, reply, content, "writing", p, w) /\ ClientAt(F, j, reply, content, x, g, t)
  BY <1>0 DEF ExchangeOf
<1>2. PICK n \in Nat : n = Len(F)  BY <1>1 DEF WrittenTo
<1>3. i \in Nat /\ j \in Nat /\ j <= i /\ i < n /\ w = Run(F, j, i) /\ p = Run(F, i, n) /\ Good(F, reply, content)
  BY <1>1, <1>2 DEF WrittenTo
<1>4. Head(p) = F[i + 1] /\ Tail(p) = Run(F, i + 1, n)  BY <1>3, RunTail
<1>5. Append(w, Head(p)) = Run(F, j, i + 1)  BY <1>3, <1>4, RunAppend
<1>6. PICK q \in Nat : q = i + 1  BY <1>3
<1>7. j <= q /\ q <= n  BY <1>3, <1>6
<1>8. ASSUME Len(p) # 1
      PROVE  ExchangeOf(reply, content, "writing", Tail(p), Append(w, Head(p)), x, g, t)
  <2>1. q < n
    <3>1. CASE q = n
      <4>1. PICK l \in Nat : l = 1 /\ n = i + l  BY <1>6, <3>1
      <4>2. IsRun(p, F, i, l)  BY <1>3, <4>1, RunIs
      <4> QED  BY <1>8, <4>1, <4>2 DEF IsRun
    <3> QED  BY <1>7, <3>1
  <2>2. WrittenTo(F, q, j, reply, content, "writing", Tail(p), Append(w, Head(p)))
    BY <1>2, <1>3, <1>4, <1>5, <1>6, <1>7, <2>1 DEF WrittenTo
  <2> QED  BY <1>0, <1>1, <2>2 DEF ExchangeOf
<1>9. WrittenTo(F, q, j, reply, content, "closed", <<>>, Append(w, Head(p)))
  BY <1>2, <1>3, <1>5, <1>6, <1>7 DEF WrittenTo
<1>10. ExchangeOf(reply, content, "closed", <<>>, Append(w, Head(p)), x, g, t)  BY <1>0, <1>1, <1>9 DEF ExchangeOf
<1> QED  BY <1>8, <1>10

\* A record of a call with another phase.
LEMMA PhaseSet ==
  ASSUME NEW x \in Phases, NEW v \in {"first", "ok", "daemon", "cut", "timeout"}, NEW y, y = [x EXCEPT !.pc = v]
  PROVE  y \in Phases /\ y.pc = v
BY DEF Phases

\* The client gives up, or sends its request.
LEMMA ExchangeTimesOut ==
  ASSUME NEW reply, NEW content, NEW s, NEW p, NEW w, NEW x, NEW g, NEW t,
         ExchangeOf(reply, content, s, p, w, x, g, t), NEW y, y.pc = "timeout" \/ (y.pc = "first" /\ x.pc = "calling")
  PROVE  ExchangeOf(reply, content, s, p, w, y, g, t)
<1>1. CASE s \in Early
  BY <1>1 DEF ExchangeOf, Waiting
<1>2. CASE s \notin Early
  <2>1. PICK F, i, j : WrittenTo(F, i, j, reply, content, s, p, w) /\ ClientAt(F, j, reply, content, x, g, t)
    BY <1>2 DEF ExchangeOf
  <2>2. ClientAt(F, j, reply, content, y, g, t)  BY <2>1 DEF ClientAt, Waiting
  <2> QED  BY <1>2, <2>1, <2>2 DEF ExchangeOf
<1> QED  BY <1>1, <1>2

\* The client meets the end of the stream: only after the last frame it has a result.
LEMMA ExchangeEnds ==
  ASSUME NEW reply, NEW content, NEW p, NEW w, NEW x, NEW g, NEW t,
         ExchangeOf(reply, content, "closed", p, w, x, g, t), NEW y,
         (y.pc = "ok" /\ x.pc = "ok-eof") \/ y.pc = "daemon" \/ y.pc = "cut"
  PROVE  ExchangeOf(reply, content, "closed", p, w, y, g, t)
<1>1. "closed" \notin Early  BY DEF Early
<1>2. PICK F, i, j : WrittenTo(F, i, j, reply, content, "closed", p, w) /\ ClientAt(F, j, reply, content, x, g, t)
  BY <1>1 DEF ExchangeOf
<1>3. ClientAt(F, j, reply, content, y, g, t)  BY <1>2 DEF ClientAt, Waiting
<1> QED  BY <1>1, <1>2, <1>3 DEF ExchangeOf

\* Nothing is left behind the last frame.
LEMMA NothingTrails ==
  ASSUME NEW reply, NEW content, NEW s, NEW p, NEW w, NEW x, NEW g, NEW t,
         ExchangeOf(reply, content, s, p, w, x, g, t), x.pc \in {"ok-eof", "error-eof"}
  PROVE  w = <<>>
<1>1. s \notin Early  BY DEF ExchangeOf, Waiting
<1>2. PICK F, i, j : WrittenTo(F, i, j, reply, content, s, p, w) /\ ClientAt(F, j, reply, content, x, g, t)
  BY <1>1 DEF ExchangeOf
<1>3. j = Len(F)  BY <1>2 DEF ClientAt
<1>4. i \in Nat /\ j = i /\ w = Run(F, j, i)  BY <1>2, <1>3 DEF WrittenTo
<1> QED  BY <1>4, RunNone

\* The fields of a frame.
IsFrame(f, body, seq, snap, recs, frames, total, first) ==
  /\ f.body = body /\ f.seq = seq /\ f.snap = snap /\ f.recs = recs /\ f.frames = frames /\ f.total = total
  /\ f.first = first

\* A frame has the fields it was made of.
LEMMA FrameIs ==
  ASSUME NEW body, NEW seq, NEW snap, NEW recs, NEW frames, NEW total, NEW first, NEW f,
         f = Frame(body, seq, snap, recs, frames, total, first)
  PROVE  IsFrame(f, body, seq, snap, recs, frames, total, first)
BY DEF Frame, IsFrame

\* A phase has the fields it was made of.
LEMMA PhaseIs ==
  ASSUME NEW pc \in {"data", "ok-eof", "error-eof"}, NEW next \in Nat, NEW frames \in Nat, NEW y, y = Phase(pc, next, frames)
  PROVE  y \in Phases /\ y.pc = pc /\ y.next = next /\ y.frames = frames
BY DEF Phase, Phases

\* What the client does with a frame, and what it takes from it.
Takes(F, j, reply, content, f, y, g, t) ==
  /\ y \in Phases /\ Size(f.recs) \in Nat /\ Size(f.recs) <= MaxFrame
  /\ ClientAt(F, j, reply, content, y, IF y.pc \in {"data", "ok-eof"} THEN g \o f.recs ELSE g,
              IF f.body = "start" THEN f ELSE t)

\* A start frame declares what the client allows.
LEMMA StartIsAllowed ==
  ASSUME NEW F, NEW reply, NEW content, NEW n, NEW m, NEW at, Stream(F, reply, content, n, m, at)
  PROVE  StartIsValid(reply, F[1])
<1>1. PICK l \in Nat : l = Len(content)  BY DEF Stream
<1>2. /\ n \in Nat /\ m \in 0..n /\ at[0] = 0 /\ at[n] = l /\ n + 2 <= MaxFrames
      /\ at \in [0..n -> 0..l]
      /\ IF reply = "content" THEN n = (l + MaxFrame - 1) \div MaxFrame ELSE l <= MaxRecords
      /\ F[1] = Frame("start", 0, TRUE, <<>>, n, l, at[m])
  BY <1>1 DEF Stream
<1>3. PICK f : f = F[1]  OBVIOUS
<1>4. IsFrame(f, "start", 0, TRUE, <<>>, n, l, at[m])  BY <1>2, <1>3, FrameIs
<1>5. f.snap = TRUE /\ f.frames = n /\ f.total = l /\ f.first = at[m]  BY <1>4 DEF IsFrame
<1>6. n \in 0..n /\ at[n] >= n  BY <1>2 DEF Stream
<1>7. n <= l  BY <1>2, <1>6
<1>8. (l = 0) = (n = 0)  BY <1>1, <1>2, <1>7
<1>9. at[m] <= l  BY <1>2
<1>10. f.snap  BY <1>5
<1> QED  BY <1>2, <1>3, <1>5, <1>7, <1>8, <1>9, <1>10 DEF StartIsValid

\* The first frame of an answer is accepted.
LEMMA FirstIsTaken ==
  ASSUME NEW c, NEW reply, reply = Calls[kind[c]].reply, NEW content \in Seq(Nat), NEW F, Good(F, reply, content),
         NEW f, f = F[1], NEW t
  PROVE  Takes(F, 1, reply, content, f, FirstFrame(c, f), <<>>, t)
<1>0. Size(<<>>) \in Nat /\ Size(<<>>) <= MaxFrame /\ WithinBudget(0, <<>>)
  <2>1. MaxFrame \in Nat /\ MaxWire \in Nat /\ MaxFrame < MaxWire /\ MaxFrames \in Nat \ {0}  BY IpcAssumption
  <2> QED  BY <2>1, SizeOfNone DEF WithinBudget
<1>1. CASE F = <<ErrorFrame>>
  <2>1. f = ErrorFrame /\ Len(F) = 1  BY <1>1
  <2>2. IsFrame(f, "error", 0, FALSE, <<>>, 0, 0, 0)  BY <2>1, FrameIs DEF ErrorFrame
  <2>3. f.seq = 0 /\ f.body = "error" /\ ~f.snap /\ f.recs = <<>>  BY <2>2 DEF IsFrame
  <2>4. FirstFrame(c, f) = Phase("error-eof", 0, 0)  BY <1>0, <2>3 DEF FirstFrame
  <2>5. PICK y : y = FirstFrame(c, f)  OBVIOUS
  <2>6. y \in Phases /\ y.pc = "error-eof"  BY <2>4, <2>5, PhaseIs
  <2>7. ClientAt(F, 1, reply, content, y, <<>>, t)  BY <2>1, <2>6 DEF ClientAt, Waiting
  <2> QED  BY <1>0, <2>3, <2>5, <2>6, <2>7 DEF Takes
<1>2. CASE reply = "single" /\ F = <<SingleFrame(content)>> /\ Size(content) <= MaxFrame
  <2>1. f = SingleFrame(content) /\ Len(F) = 1  BY <1>2
  <2>2. IsFrame(f, "single", 0, FALSE, content, 0, 0, 0)  BY <2>1, FrameIs DEF SingleFrame
  <2>3. f.seq = 0 /\ f.body = "single" /\ ~f.snap /\ f.recs = content  BY <2>2 DEF IsFrame
  <2>10. WithinBudget(0, content)
    <3>1. MaxFrame \in Nat /\ MaxWire \in Nat /\ MaxFrame < MaxWire /\ MaxFrames \in Nat \ {0}  BY IpcAssumption
    <3>2. Size(content) \in Nat /\ Size(content) <= MaxFrame  BY <1>2, SizeType
    <3> QED  BY <3>1, <3>2 DEF WithinBudget
  <2>4. FirstFrame(c, f) = Phase("ok-eof", 0, 0)  BY <1>2, <2>3, <2>10 DEF FirstFrame
  <2>5. PICK y : y = FirstFrame(c, f)  OBVIOUS
  <2>6. y \in Phases /\ y.pc = "ok-eof"  BY <2>4, <2>5, PhaseIs
  <2>7. <<>> \o content = content  BY ConcatEmptySeq
  <2>8. ClientAt(F, 1, reply, content, y, content, t)  BY <2>1, <2>6 DEF ClientAt, Waiting
  <2>9. Size(content) \in Nat  BY SizeType
  <2> QED  BY <1>2, <2>3, <2>5, <2>6, <2>7, <2>8, <2>9 DEF Takes
<1>3. CASE reply # "single" /\ \E n, m, at : Stream(F, reply, content, n, m, at)
  <2>1. PICK n, m, at : Stream(F, reply, content, n, m, at)  BY <1>3
  <2>2. StartIsValid(reply, f)  BY <2>1, StartIsAllowed
  <2>3. IsFrame(f, "start", 0, TRUE, <<>>, n, Len(content), at[m])  BY <2>1, FrameIs DEF Stream
  <2>4. f.seq = 0 /\ f.body = "start" /\ f.recs = <<>>  BY <2>3 DEF IsFrame
  <2>5. FirstFrame(c, f) = Phase("data", 1, 0)  BY <1>0, <1>3, <2>2, <2>4 DEF FirstFrame
  <2>6. PICK y : y = FirstFrame(c, f)  OBVIOUS
  <2>7. y \in Phases /\ y.pc = "data" /\ y.next = 1 /\ y.frames = 0  BY <2>5, <2>6, PhaseIs
  <2>8. PICK e : e = <<>>  OBVIOUS
  <2>9. e \o e = e /\ e = SubSeq(content, 1, 0)  BY <2>8
  <2>10. Between(F, 1, reply, content, y, e, f, n, m, at)
    <3>1. n \in Nat /\ at[0] = 0  BY <2>1 DEF Stream
    <3>2. 1 \in 1..n + 1 /\ 1 - 1 = 0  BY <3>1
    <3> QED  BY <2>1, <2>7, <2>9, <3>1, <3>2 DEF Between
  <2>11. ClientAt(F, 1, reply, content, y, e, f)  BY <1>3, <2>7, <2>10 DEF ClientAt, Waiting
  <2> QED  BY <1>0, <2>4, <2>6, <2>7, <2>8, <2>9, <2>11 DEF Takes
<1> QED  BY <1>1, <1>2, <1>3 DEF Good

\* The next part goes behind what is there.
LEMMA PrefixGrows ==
  ASSUME NEW s \in Seq(Nat), NEW a \in Nat, NEW b \in Nat, a <= b, b <= Len(s)
  PROVE  SubSeq(s, 1, a) \o SubSeq(s, a + 1, b) = SubSeq(s, 1, b)
<1>1. PICK t, u, v : t = SubSeq(s, 1, a) /\ u = SubSeq(s, a + 1, b) /\ v = SubSeq(s, 1, b)  OBVIOUS
<1>2. t \in Seq(Nat) /\ Len(t) = a /\ \A i \in 1..a : t[i] = s[i]
  <2>1. a \in 0..Len(s)  OBVIOUS
  <2> QED  BY <1>1, <2>1, LeadingIs
<1>3. v \in Seq(Nat) /\ Len(v) = b /\ \A i \in 1..b : v[i] = s[i]
  <2>1. b \in 0..Len(s)  OBVIOUS
  <2> QED  BY <1>1, <2>1, LeadingIs
<1>4. IsPart(u, s, a, b)  BY <1>1, PartIs
<1>5. PICK q \in Nat : b = a + q
  <2>1. b - a \in Nat /\ b = a + (b - a)  OBVIOUS
  <2> QED  BY <2>1
<1>6. Parts(t, u, v, a, q)
  <2>1. b - a = q  BY <1>5
  <2>2. u \in Seq(Nat) /\ Len(u) = q /\ \A i \in 1..q : u[i] = s[a + i]  BY <1>4, <2>1 DEF IsPart
  <2>3. \A i \in 1..a : i \in 1..b  BY <1>5
  <2>4. \A i \in 1..q : a + i \in 1..b  BY <1>5
  <2>5. \A i \in 1..a : t[i] = v[i]  BY <1>2, <1>3, <2>3
  <2>6. \A i \in 1..q : u[i] = v[a + i]  BY <1>3, <2>2, <2>4
  <2>7. Len(v) = a + q  BY <1>3, <1>5
  <2> QED  BY <1>2, <1>3, <2>2, <2>5, <2>6, <2>7 DEF Parts
<1>7. t \o u = v  BY <1>6, PartsJoin
<1> QED  BY <1>1, <1>7

\* A data frame carries the next records.
LEMMA ChunkIsTaken ==
  ASSUME NEW c, NEW reply, reply = Calls[kind[c]].reply, reply # "single", NEW content, content \in Seq(Nat), NEW F, NEW j,
         NEW n, NEW m, NEW at, Between(F, j, reply, content, cl[c], got[c], start[c], n, m, at), j # n + 1,
         NEW f, f = F[j + 1]
  PROVE  Takes(F, j + 1, reply, content, f, LaterFrame(c, f), got[c], start[c])
<1>1. Stream(F, reply, content, n, m, at)  BY DEF Between
<1>2. PICK l \in Nat : l = Len(content)  BY <1>1 DEF Stream
<1>3. n \in Nat /\ m \in 0..n /\ at \in [0..n -> 0..l]  BY <1>1, <1>2 DEF Stream
<1>4. j \in 1..n /\ j - 1 \in 0..n /\ j \in 0..n
  <2>1. j \in 1..n + 1  BY DEF Between
  <2>2. n \in Nat /\ j # n + 1  BY <1>3
  <2> QED  BY <2>1, <2>2
<1>5. PICK a, b \in Nat : a = at[j - 1] /\ b = at[j]  BY <1>3, <1>4
<1>6. a < b /\ b <= l /\ (reply # "content" => b - a <= MaxChunk)
  <2>1. at[j - 1] < at[j] /\ (reply # "content" => at[j] - at[j - 1] <= MaxChunk)  BY <1>1, <1>4 DEF Stream
  <2>2. at[j] \in 0..l  BY <1>3, <1>4
  <2> QED  BY <1>5, <2>1, <2>2
<1>7. PICK part : part = SubSeq(content, a + 1, b)  OBVIOUS
<1>8. Size(part) <= MaxFrame /\ f = Frame(IF j <= m THEN "chunk1" ELSE "chunk2", j, TRUE, part, 0, 0, 0)
  BY <1>1, <1>4, <1>5, <1>7 DEF Stream
<1>9. part \in Seq(Nat) /\ Len(part) = b - a
  <2>0. a <= b /\ b <= Len(content)  BY <1>2, <1>6
  <2>1. IsPart(part, content, a, b)  BY <1>7, <2>0, PartIs
  <2> QED  BY <2>1 DEF IsPart
<1>10. cl[c].next = j /\ cl[c].frames = j - 1 /\ start[c] = F[1] /\ got[c] = SubSeq(content, 1, a)  BY <1>5 DEF Between
<1>11. got[c] \in Seq(Nat) /\ Len(got[c]) = a
  <2>1. a \in 0..Len(content)  BY <1>2, <1>6
  <2> QED  BY <1>10, <2>1, LeadingIs
<1>12. PICK body : body = IF j <= m THEN "chunk1" ELSE "chunk2"  OBVIOUS
<1>13. IsFrame(f, body, j, TRUE, part, 0, 0, 0)  BY <1>8, <1>12, FrameIs
<1>14. IsFrame(start[c], "start", 0, TRUE, <<>>, n, l, at[m])  BY <1>1, <1>2, <1>10, FrameIs DEF Stream
<1>15. start[c].frames = n /\ start[c].total = l /\ start[c].first = at[m]  BY <1>14 DEF IsFrame
<1>16. f.body = body /\ f.seq = j /\ f.snap = TRUE /\ f.recs = part  BY <1>13 DEF IsFrame
<1>17. ChunkIsValid(c, f)
  <2>1. Len(f.recs) = b - a /\ Len(got[c]) + Len(f.recs) = b  BY <1>9, <1>11, <1>16
  <2>2. Len(f.recs) > 0  BY <1>6, <2>1
  <2>3. Calls[kind[c]].reply # "content" => Len(f.recs) <= MaxChunk  BY <1>6, <2>1
  <2>4. cl[c].frames + 1 <= start[c].frames  BY <1>3, <1>4, <1>10, <1>15
  <2>5. Len(got[c]) + Len(f.recs) <= start[c].total  BY <1>6, <1>15, <2>1
  <2>6. CASE j <= m
    <3>1. m \in 0..n /\ at[j] <= at[m]  BY <1>1, <1>3, <1>4, <2>6 DEF Stream
    <3>2. f.body = "chunk1" /\ Len(got[c]) + Len(f.recs) <= start[c].first  BY <1>5, <1>12, <1>15, <1>16, <2>1, <2>6, <3>1
    <3> QED  BY <2>2, <2>3, <2>4, <2>5, <3>2 DEF ChunkIsValid
  <2>7. CASE ~(j <= m)
    <3>1. m <= j - 1  BY <1>3, <1>4, <2>7
    <3>2. at[m] <= at[j - 1]  BY <1>1, <1>3, <1>4, <3>1 DEF Stream
    <3>3. at[m] \in Nat  BY <1>3
    <3>4. f.body = "chunk2" /\ Len(got[c]) >= start[c].first  BY <1>5, <1>11, <1>12, <1>15, <1>16, <2>7, <3>2, <3>3
    <3> QED  BY <2>2, <2>3, <2>4, <2>5, <3>4 DEF ChunkIsValid
  <2> QED  BY <2>6, <2>7
<1>21. got[c] \o f.recs = SubSeq(content, 1, b)
  <2>1. a <= b /\ b <= Len(content)  BY <1>2, <1>6
  <2>2. SubSeq(content, 1, a) \o SubSeq(content, a + 1, b) = SubSeq(content, 1, b)  BY <2>1, PrefixGrows
  <2> QED  BY <1>7, <1>10, <1>16, <2>2
<1>26. WithinBudget(cl[c].next, got[c] \o f.recs)
  <2>1. n + 2 <= MaxFrames /\ n + 2 + Size(content) <= MaxWire  BY <1>1 DEF Stream
  <2>2. Size(SubSeq(content, 1, b)) \in Nat /\ Size(SubSeq(content, 1, b)) <= Size(content)
    BY <1>2, <1>6, PrefixSize
  <2>3. Size(content) \in Nat /\ MaxFrames \in Nat /\ MaxWire \in Nat  BY SizeType, IpcAssumption
  <2>4. j + 1 <= n + 2 /\ j + 1 \in Nat /\ n + 2 \in Nat  BY <1>3, <1>4
  <2>5. PICK x, y \in Nat : x = Size(SubSeq(content, 1, b)) /\ y = Size(content)  BY <2>2, <2>3
  <2>6. j + 1 <= MaxFrames /\ j + 1 + x <= MaxWire
    <3>1. x <= y /\ n + 2 + y <= MaxWire  BY <2>1, <2>2, <2>5
    <3> QED  BY <2>1, <2>3, <2>4, <2>5, <3>1
  <2>7. WithinBudget(j, SubSeq(content, 1, b))  BY <2>5, <2>6 DEF WithinBudget
  <2> QED  BY <1>10, <1>21, <2>7
<1>18. LaterFrame(c, f) = Phase("data", j + 1, j)
  <2>1. body \in {"chunk1", "chunk2"}  BY <1>12
  <2>2. cl[c].next + 1 = j + 1 /\ cl[c].frames + 1 = j  BY <1>4, <1>10
  <2>3. LaterFrame(c, f) = Phase("data", cl[c].next + 1, cl[c].frames + 1)  BY <1>10, <1>16, <1>17, <1>26, <2>1 DEF LaterFrame
  <2> QED  BY <2>2, <2>3
<1>19. PICK y : y = LaterFrame(c, f)  OBVIOUS
<1>20. y \in Phases /\ y.pc = "data" /\ y.next = j + 1 /\ y.frames = j
  <2>1. j + 1 \in Nat /\ j \in Nat  BY <1>3, <1>4
  <2> QED  BY <1>18, <1>19, <2>1, PhaseIs
<1>22. Between(F, j + 1, reply, content, y, SubSeq(content, 1, b), start[c], n, m, at)
  <2>1. j + 1 \in 1..n + 1 /\ (j + 1) - 1 = j  BY <1>3, <1>4
  <2> QED  BY <1>1, <1>5, <1>10, <1>20, <2>1 DEF Between
<1>23. ClientAt(F, j + 1, reply, content, y, SubSeq(content, 1, b), start[c])
  BY <1>20, <1>22 DEF ClientAt, Waiting
<1>24. f.body # "start"  BY <1>12, <1>16
<1>25. Size(part) \in Nat  BY <1>9, SizeType
<1> QED  BY <1>8, <1>16, <1>19, <1>20, <1>21, <1>23, <1>24, <1>25 DEF Takes

\* The end frame closes a stream that is complete.
LEMMA EndIsTaken ==
  ASSUME NEW c, NEW reply, reply = Calls[kind[c]].reply, NEW content, content \in Seq(Nat), NEW F, NEW j,
         NEW n, NEW m, NEW at, Between(F, j, reply, content, cl[c], got[c], start[c], n, m, at), j = n + 1,
         NEW f, f = F[j + 1]
  PROVE  Takes(F, j + 1, reply, content, f, LaterFrame(c, f), got[c], start[c])
<1>1. Stream(F, reply, content, n, m, at)  BY DEF Between
<1>2. PICK l \in Nat : l = Len(content)  BY <1>1 DEF Stream
<1>3. n \in Nat /\ at[n] = l /\ Len(F) = n + 2  BY <1>1, <1>2 DEF Stream
<1>4. j - 1 = n /\ j + 1 = n + 2  BY <1>3
<1>5. cl[c].next = j /\ cl[c].frames = n /\ start[c] = F[1] /\ got[c] = SubSeq(content, 1, l)  BY <1>3, <1>4 DEF Between
<1>6. got[c] = content
  <2>1. l \in 0..Len(content)  BY <1>2
  <2>2. got[c] \in Seq(Nat) /\ Len(got[c]) = l /\ \A i \in 1..l : got[c][i] = content[i]  BY <1>5, <2>1, LeadingIs
  <2> QED  BY <1>2, <2>2, SeqEqual
<1>7. IsFrame(start[c], "start", 0, TRUE, <<>>, n, l, at[m])  BY <1>1, <1>2, <1>5, FrameIs DEF Stream
<1>8. start[c].frames = n /\ start[c].total = l /\ start[c].first = at[m]  BY <1>7 DEF IsFrame
<1>9. f = Frame("end", n + 1, TRUE, <<>>, n, l, at[m])  BY <1>1, <1>2, <1>4 DEF Stream
<1>10. IsFrame(f, "end", n + 1, TRUE, <<>>, n, l, at[m])  BY <1>9, FrameIs
<1>11. /\ f.body = "end" /\ f.seq = n + 1 /\ f.snap = TRUE /\ f.recs = <<>> /\ f.frames = n /\ f.total = l
       /\ f.first = at[m]
  BY <1>10 DEF IsFrame
<1>12. EndIsValid(c, f)  BY <1>2, <1>5, <1>6, <1>8, <1>11 DEF EndIsValid
<1>16. got[c] \o f.recs = content  BY <1>6, <1>11, NoneAppended
<1>19. WithinBudget(cl[c].next, got[c] \o f.recs)
  <2>1. n + 2 <= MaxFrames /\ n + 2 + Size(content) <= MaxWire  BY <1>1 DEF Stream
  <2>2. cl[c].next + 1 = n + 2  BY <1>3, <1>5
  <2> QED  BY <1>16, <2>1, <2>2 DEF WithinBudget
<1>13. LaterFrame(c, f) = Phase("ok-eof", 0, 0)  BY <1>5, <1>11, <1>12, <1>19 DEF LaterFrame
<1>14. PICK y : y = LaterFrame(c, f)  OBVIOUS
<1>15. y \in Phases /\ y.pc = "ok-eof"
  <2>1. y = Phase("ok-eof", 0, 0)  BY <1>13, <1>14
  <2> QED  BY <2>1, PhaseIs
<1>17. ClientAt(F, j + 1, reply, content, y, content, start[c])  BY <1>3, <1>4, <1>15 DEF ClientAt, Waiting
<1>18. Size(f.recs) \in Nat /\ Size(f.recs) <= MaxFrame
  <2>1. MaxFrame \in Nat  BY IpcAssumption
  <2> QED  BY <1>11, <2>1, SizeOfNone
<1> QED  BY <1>11, <1>14, <1>15, <1>16, <1>17, <1>18 DEF Takes

\* What the client's next phase is, what it has then, and which start frame.
NextPhase(c, f) ==
  IF Size(f.recs) > MaxFrame THEN Phase("protocol", 0, 0)
  ELSE IF cl[c].pc = "first" THEN FirstFrame(c, f) ELSE LaterFrame(c, f)
Got(c, f, y) == IF y.pc \in {"data", "ok-eof"} THEN got[c] \o f.recs ELSE got[c]
Started(c, f) == IF f.body = "start" THEN f ELSE start[c]

\* The client reads a frame.
LEMMA ExchangeReads ==
  ASSUME NEW c, NEW reply, reply = Calls[kind[c]].reply, NEW content, content \in Seq(Nat), NEW s, NEW p, NEW w, w # <<>>,
         ExchangeOf(reply, content, s, p, w, cl[c], got[c], start[c]), cl[c].pc \in {"first", "data"},
         NEW f, f = Head(w), NEW y, y = NextPhase(c, f)
  PROVE  y \in Phases /\ ExchangeOf(reply, content, s, p, Tail(w), y, Got(c, f, y), Started(c, f))
<1>1. s \notin Early  BY DEF ExchangeOf
<1>2. PICK F, i, j : WrittenTo(F, i, j, reply, content, s, p, w) /\ ClientAt(F, j, reply, content, cl[c], got[c], start[c])
  BY <1>1 DEF ExchangeOf
<1>3. i \in Nat /\ j \in Nat /\ j <= i /\ w = Run(F, j, i)  BY <1>2 DEF WrittenTo
<1>4. j < i
  <2>1. CASE j = i
    BY <1>3, <2>1, RunNone
  <2> QED  BY <1>3, <2>1
<1>5. f = F[j + 1] /\ Tail(w) = Run(F, j + 1, i)  BY <1>3, <1>4, RunTail
<1>6. PICK q \in Nat : q = j + 1  BY <1>3
<1>7. Takes(F, q, reply, content, f, IF cl[c].pc = "first" THEN FirstFrame(c, f) ELSE LaterFrame(c, f), got[c], start[c])
  <2>1. CASE cl[c].pc = "first"
    <3>1. j = 0 /\ got[c] = <<>>  BY <1>2, <2>1 DEF ClientAt, Waiting
    <3>2. f = F[1] /\ q = 1  BY <1>5, <1>6, <3>1
    <3>3. Good(F, reply, content)  BY <1>2 DEF WrittenTo
    <3>4. Takes(F, 1, reply, content, f, FirstFrame(c, f), <<>>, start[c])  BY <3>2, <3>3, FirstIsTaken
    <3> QED  BY <2>1, <3>1, <3>2, <3>4
  <2>2. CASE cl[c].pc = "data"
    <3>1. reply # "single"  BY <1>2, <2>2 DEF ClientAt
    <3>2. PICK n, m, at : Between(F, j, reply, content, cl[c], got[c], start[c], n, m, at)  BY <1>2, <2>2 DEF ClientAt
    <3>3. Takes(F, j + 1, reply, content, f, LaterFrame(c, f), got[c], start[c])
      <4>1. CASE j = n + 1
        BY <1>5, <3>2, <4>1, EndIsTaken
      <4>2. CASE j # n + 1
        BY <1>5, <3>1, <3>2, <4>2, ChunkIsTaken
      <4> QED  BY <4>1, <4>2
    <3> QED  BY <1>6, <2>2, <3>3
  <2> QED  BY <2>1, <2>2
<1>8. y = IF cl[c].pc = "first" THEN FirstFrame(c, f) ELSE LaterFrame(c, f)
  <2>1. Size(f.recs) \in Nat /\ Size(f.recs) <= MaxFrame  BY <1>7 DEF Takes
  <2>2. MaxFrame \in Nat  BY IpcAssumption
  <2>3. ~(Size(f.recs) > MaxFrame)  BY <2>1, <2>2
  <2> QED  BY <2>3 DEF NextPhase
<1>9. Takes(F, q, reply, content, f, y, got[c], start[c])  BY <1>7, <1>8
<1>10. y \in Phases /\ ClientAt(F, q, reply, content, y, Got(c, f, y), Started(c, f))  BY <1>9 DEF Takes, Got, Started
<1>11. WrittenTo(F, i, q, reply, content, s, p, Tail(w))
  <2>1. q <= i  BY <1>3, <1>4, <1>6
  <2>2. Tail(w) = Run(F, q, i)  BY <1>5, <1>6
  <2> QED  BY <1>2, <2>1, <2>2 DEF WrittenTo
<1> QED  BY <1>1, <1>10, <1>11 DEF ExchangeOf

\* The two sides agree on the shape of every reply.
LEMMA RepliesAre ==
  ASSUME NEW k \in Kinds
  PROVE  Calls[k].reply = Arms[k].reply /\ Arms[k].reply \in Replies \cup {"stream"}
<1>1. k \in {"Health", "Telemetry", "Network", "Usage", "RemoteCapabilities", "SystemInfo", "RemoteProfile",
            "Secret", "RemoteSession", "Terminal", "TerminalStream", "Transfer", "TransferList",
            "LocalHandle", "SpeedTestCancel", "SpeedTestDeep", "Notes", "NotesList", "NotesGet",
            "NotesExport"}
  BY DEF Kinds, Arms
<1>2. PICK a, b : a = Arms[k].reply /\ b = Calls[k].reply  OBVIOUS
<1>3. a = CASE k \in {"Telemetry"} -> "telemetry" [] k \in {"Network"} -> "network" [] k \in {"Usage"} -> "usage"
            [] k \in {"TerminalStream"} -> "stream" [] k \in {"TransferList"} -> "tasks" [] k \in {"NotesList"} -> "notes"
            [] k \in {"NotesGet", "NotesExport"} -> "content" [] OTHER -> "single"
  BY <1>1, <1>2 DEF Arms, Arm, HealthArm, TelemetryArm, NetworkArm, UsageArm, RemoteCapabilitiesArm,
     SystemInfoArm, RemoteProfileArm, SecretArm, RemoteSessionArm, TerminalArm, TerminalStreamArm,
     TransferArm, TransferListArm, LocalHandleArm, SpeedTestCancelArm, SpeedTestDeepArm, NotesArm,
     NotesListArm, NotesGetArm, NotesExportArm
<1>4. b = CASE k \in {"Telemetry"} -> "telemetry" [] k \in {"Network"} -> "network" [] k \in {"Usage"} -> "usage"
            [] k \in {"TerminalStream"} -> "stream" [] k \in {"TransferList"} -> "tasks" [] k \in {"NotesList"} -> "notes"
            [] k \in {"NotesGet", "NotesExport"} -> "content" [] OTHER -> "single"
  BY <1>1, <1>2 DEF Calls, Expect, HealthCall, TelemetryCall, NetworkCall, UsageCall, RemoteCapabilitiesCall,
     SystemInfoCall, RemoteProfileCall, SecretCall, RemoteSessionCall, TerminalCall, TransferCall, TransferListCall,
     LocalHandleCall, SpeedTestCancelCall, SpeedTestDeepCall, NotesCall, NotesListCall, NotesContentCall,
     TerminalStreamCall
<1>5. a \in Replies \cup {"stream"}  BY <1>1, <1>3 DEF Replies
<1> QED  BY <1>2, <1>3, <1>4, <1>5

\* A content is a sequence of numbers.
LEMMA ContentType ==
  ASSUME NEW reply, NEW a \in Seq(Nat)
  PROVE  Content(reply, a) \in Seq(Nat)
<1>1. CASE reply = "content"
  <2>1. PICK l \in Nat : l = Size(a)  BY SizeType
  <2>2. Content(reply, a) = Units(l)  BY <1>1, <2>1 DEF Content, Units
  <2> QED  BY <2>2, UnitsAre
<1>2. CASE reply # "content"
  BY <1>2 DEF Content
<1> QED  BY <1>1, <1>2

\* One connection with its task and its call.
Exchanging(k, s, p, a, w, x, g, t) ==
  /\ a \in Seq(Nat) /\ x \in Phases
  /\ s = "provider" => Arms[k].reply # "stream"
  /\ ExchangeOf(Arms[k].reply, Content(Arms[k].reply, a), s, p, w, x, g, t)

ExchangeAt(c) == Exchanging(kind[c], sv[c], plan[c], answer[c], wire[c], cl[c], got[c], start[c])

\* The functions of the connections.
IpcShape ==
  /\ kind \in [Conns -> Kinds] /\ sv \in [Conns -> Early \cup {"writing", "closed"}]
  /\ held \in [Conns -> SUBSET DOMAIN Cap] /\ serving \in {"open", "draining", "returned"}
  /\ answer \in [Conns -> Seq(Nat)] /\ DOMAIN plan = Conns /\ DOMAIN wire = Conns /\ DOMAIN cl = Conns
  /\ DOMAIN got = Conns /\ DOMAIN start = Conns

ExchangeInv == \A c \in Conns : ExchangeAt(c)

\* The other connections are left alone.
Others(c) ==
  \A d \in Conns : d # c =>
    /\ kind'[d] = kind[d] /\ sv'[d] = sv[d] /\ plan'[d] = plan[d] /\ answer'[d] = answer[d]
    /\ wire'[d] = wire[d] /\ cl'[d] = cl[d] /\ got'[d] = got[d] /\ start'[d] = start[d]

\* It is enough to look at the connection that takes the step.
LEMMA OthersStay ==
  ASSUME ExchangeInv, NEW c \in Conns, Others(c),
         Exchanging(kind'[c], sv'[c], plan'[c], answer'[c], wire'[c], cl'[c], got'[c], start'[c])
  PROVE  ExchangeInv'
<1> SUFFICES ASSUME NEW d \in Conns  PROVE ExchangeAt(d)'
  BY DEF ExchangeInv
<1>1. CASE d = c
  BY <1>1 DEF ExchangeAt
<1>2. CASE d # c
  <2>1. ExchangeAt(d)  BY DEF ExchangeInv
  <2> QED  BY <1>2, <2>1 DEF ExchangeAt, Others
<1> QED  BY <1>1, <1>2

\* The permits a request gets are permits.
LEMMA PermitsOf ==
  ASSUME NEW k \in Kinds
  PROVE  Acquired(Arms[k].permits) \subseteq DOMAIN Cap
<1>1. PICK ps : ps = Arms[k].permits  OBVIOUS
<1>2. ps \in {<<>>, <<"streams">>, <<"streams", "exports">>}  BY <1>1, PermitsAre
<1>3. \A i \in DOMAIN ps : ps[i] \in {"streams", "exports"}  BY <1>2
<1>4. DOMAIN Cap = {"conns", "streams", "exports"}  BY IpcAssumption
<1>5. Acquired(ps) \subseteq {"streams", "exports"}  BY <1>3 DEF Acquired
<1> QED  BY <1>1, <1>4, <1>5

\* Call keeps the exchanges.
LEMMA CallKeeps ==
  ASSUME IpcShape, ExchangeInv, NEW c \in Conns, NEW k \in KindsOf[c], NEW r \in {"good", "invalid", "other version"},
         Call(c, k, r)
  PROVE  IpcShape' /\ ExchangeInv'
<1>1. k \in Kinds  BY KindsAssumption
<1>2. /\ sv[c] = "none" /\ kind' = [kind EXCEPT ![c] = k] /\ sv' = [sv EXCEPT ![c] = "backlog"]
      /\ cl' = [cl EXCEPT ![c] = [Phase("calling", 0, 0) EXCEPT !.request = r]]
      /\ UNCHANGED <<held, plan, answer, wire, got, start, serving>>
  BY DEF Call
<1>3. IpcShape'  BY <1>1, <1>2 DEF IpcShape, Early
<1>4. PICK x : x = [Phase("calling", 0, 0) EXCEPT !.request = r]  OBVIOUS
<1>5. x \in Phases /\ x.pc = "calling"  BY <1>4 DEF Phase, Phases
<1>6. kind'[c] = k /\ sv'[c] = "backlog" /\ cl'[c] = x  BY <1>2, <1>4 DEF IpcShape
<1>7. Others(c)  BY <1>2 DEF Others, IpcShape
<1>8. answer[c] \in Seq(Nat) /\ plan[c] = <<>> /\ wire[c] = <<>> /\ got[c] = <<>>
  BY <1>2 DEF ExchangeInv, ExchangeAt, Exchanging, ExchangeOf, Early
<1>9. Exchanging(k, "backlog", plan[c], answer[c], wire[c], x, got[c], start[c])
  BY <1>5, <1>8 DEF Exchanging, ExchangeOf, Early, Waiting
<1>10. Exchanging(kind'[c], sv'[c], plan'[c], answer'[c], wire'[c], cl'[c], got'[c], start'[c])
  BY <1>2, <1>6, <1>9
<1> QED  BY <1>3, <1>7, <1>10, OthersStay

\* Accept keeps the exchanges.
LEMMA AcceptKeeps ==
  ASSUME IpcShape, ExchangeInv, NEW c \in Conns, Accept(c)
  PROVE  IpcShape' /\ ExchangeInv'
<1>1. sv[c] = "backlog" /\ UNCHANGED <<kind, plan, answer, wire, cl, got, start, serving>>  BY DEF Accept
<1>2. ExchangeAt(c)  BY DEF ExchangeInv
<1>3. sv[c] \in Early  BY <1>1 DEF Early
<1>4. CASE sv' = [sv EXCEPT ![c] = "closed"] /\ UNCHANGED held
  <2>1. IpcShape'  BY <1>1, <1>4 DEF IpcShape
  <2>2. Others(c) /\ sv'[c] = "closed"  BY <1>1, <1>4 DEF Others, IpcShape
  <2>3. plan[c] = <<>>  BY <1>2, <1>3 DEF ExchangeAt, Exchanging, ExchangeOf
  <2>4. ExchangeOf(Arms[kind[c]].reply, Content(Arms[kind[c]].reply, answer[c]), "closed", plan[c], wire[c], cl[c], got[c], start[c])
    BY <1>2, <2>3, ExchangeCloses DEF ExchangeAt, Exchanging
  <2>5. Exchanging(kind[c], "closed", plan[c], answer[c], wire[c], cl[c], got[c], start[c])
    BY <1>2, <2>4 DEF ExchangeAt, Exchanging
  <2> QED  BY <1>1, <2>1, <2>2, <2>5, OthersStay
<1>5. CASE sv' = [sv EXCEPT ![c] = "reading"] /\ held' = [held EXCEPT ![c] = {"conns"}]
  <2>1. "conns" \in DOMAIN Cap  BY IpcAssumption
  <2>2. IpcShape'  BY <1>1, <1>5, <2>1 DEF IpcShape, Early
  <2>3. Others(c) /\ sv'[c] = "reading"  BY <1>1, <1>5 DEF Others, IpcShape
  <2>4. Exchanging(kind[c], "reading", plan[c], answer[c], wire[c], cl[c], got[c], start[c])
    BY <1>2, <1>3 DEF ExchangeAt, Exchanging, ExchangeOf, Early
  <2> QED  BY <1>1, <2>2, <2>3, <2>4, OthersStay
<1> QED  BY <1>4, <1>5 DEF Accept

\* A request that is refused gets the error frame.
LEMMA RefusedIsGood ==
  ASSUME NEW c \in Conns, ExchangeAt(c), sv[c] \in Early, NEW a \in Seq(Nat)
  PROVE  Exchanging(kind[c], "writing", <<ErrorFrame>>, a, wire[c], cl[c], got[c], start[c])
<1>1. PICK reply : reply = Arms[kind[c]].reply  OBVIOUS
<1>2. PICK F : F = <<ErrorFrame>>  OBVIOUS
<1>3. Good(F, reply, Content(reply, a))  BY <1>2, ErrorIsGood
<1>4. F # <<>>  BY <1>2
<1>5. ExchangeOf(reply, Content(reply, answer[c]), sv[c], plan[c], wire[c], cl[c], got[c], start[c])
  BY <1>1 DEF ExchangeAt, Exchanging
<1>6. ExchangeOf(reply, Content(reply, a), "writing", F, wire[c], cl[c], got[c], start[c])
  BY <1>3, <1>4, <1>5, ExchangeStarts
<1> QED  BY <1>1, <1>2, <1>6 DEF ExchangeAt, Exchanging

\* Dispatch keeps the exchanges.
LEMMA DispatchKeeps ==
  ASSUME IpcShape, ExchangeInv, NEW c \in Conns, Dispatch(c)
  PROVE  IpcShape' /\ ExchangeInv'
<1>1. sv[c] = "reading" /\ UNCHANGED <<kind, answer, wire, cl, got, start, serving>>  BY DEF Dispatch
<1>2. ExchangeAt(c)  BY DEF ExchangeInv
<1>3. sv[c] \in Early  BY <1>1 DEF Early
<1>4. kind[c] \in Kinds /\ answer[c] \in Seq(Nat)  BY <1>2 DEF IpcShape, ExchangeAt, Exchanging
<1>5. PICK new : new = Acquired(Arms[kind[c]].permits)  OBVIOUS
<1>6. new \subseteq DOMAIN Cap  BY <1>4, <1>5, PermitsOf
<1>7. held' = held \/ held' = [held EXCEPT ![c] = held[c] \cup new]  BY <1>5 DEF Dispatch
<1>8. held' \in [Conns -> SUBSET DOMAIN Cap]
  <2>1. held \in [Conns -> SUBSET DOMAIN Cap]  BY DEF IpcShape
  <2>2. held[c] \cup new \in SUBSET DOMAIN Cap  BY <1>6, <2>1
  <2> QED  BY <1>7, <2>1, <2>2
<1>9. \/ sv' = [sv EXCEPT ![c] = "writing"] /\ plan' = [plan EXCEPT ![c] = <<ErrorFrame>>]
      \/ sv' = [sv EXCEPT ![c] = "streaming"] /\ plan' = [plan EXCEPT ![c] = <<>>]
      \/ /\ sv' = [sv EXCEPT ![c] = "provider"] /\ plan' = [plan EXCEPT ![c] = <<>>]
         /\ Arms[kind[c]].reply # "stream"
  BY DEF Dispatch
<1>10. IpcShape'  BY <1>1, <1>8, <1>9 DEF IpcShape, Early
<1>11. Others(c)  BY <1>1, <1>9 DEF Others, IpcShape
<1>12. CASE sv' = [sv EXCEPT ![c] = "writing"] /\ plan' = [plan EXCEPT ![c] = <<ErrorFrame>>]
  <2>1. sv'[c] = "writing" /\ plan'[c] = <<ErrorFrame>>  BY <1>12 DEF IpcShape
  <2>2. Exchanging(kind[c], "writing", <<ErrorFrame>>, answer[c], wire[c], cl[c], got[c], start[c])
    BY <1>2, <1>3, <1>4, RefusedIsGood
  <2> QED  BY <1>1, <1>10, <1>11, <2>1, <2>2, OthersStay
<1>13. CASE /\ plan' = [plan EXCEPT ![c] = <<>>]
            /\ \/ sv' = [sv EXCEPT ![c] = "streaming"]
               \/ sv' = [sv EXCEPT ![c] = "provider"] /\ Arms[kind[c]].reply # "stream"
  <2>1. plan'[c] = <<>> /\ sv'[c] \in {"streaming", "provider"} /\ (sv'[c] = "provider" => Arms[kind[c]].reply # "stream")
    BY <1>13 DEF IpcShape
  <2>2. PICK s : s = sv'[c]  OBVIOUS
  <2>3. s \in Early  BY <2>1, <2>2 DEF Early
  <2>4. Exchanging(kind[c], s, <<>>, answer[c], wire[c], cl[c], got[c], start[c])
    BY <1>2, <1>3, <2>1, <2>2, <2>3 DEF ExchangeAt, Exchanging, ExchangeOf
  <2> QED  BY <1>1, <1>10, <1>11, <2>1, <2>2, <2>4, OthersStay
<1> QED  BY <1>9, <1>12, <1>13

\* Answer keeps the exchanges: the reply satisfies the client.
LEMMA AnswerKeeps ==
  ASSUME IpcShape, ExchangeInv, NEW c \in Conns, Answer(c)
  PROVE  IpcShape' /\ ExchangeInv'
<1>1. sv[c] = "provider" /\ UNCHANGED <<kind, wire, cl, got, start, serving>>  BY DEF Answer
<1>2. ExchangeAt(c)  BY DEF ExchangeInv
<1>3. sv[c] \in Early  BY <1>1 DEF Early
<1>4. PICK reply : reply = Arms[kind[c]].reply  OBVIOUS
<1>5. reply \in Replies
  <2>1. kind[c] \in Kinds  BY DEF IpcShape
  <2>2. reply # "stream"  BY <1>1, <1>2, <1>4 DEF ExchangeAt, Exchanging
  <2> QED  BY <1>4, <2>1, <2>2, RepliesAre
<1>6. PICK a, F : /\ a \in Seq(Nat) /\ (F # <<>> => Good(F, reply, Content(reply, a)))
                  /\ answer' = [answer EXCEPT ![c] = a] /\ plan' = [plan EXCEPT ![c] = F]
  <2>1. CASE \E recs \in ResultsOf[c] :
               answer' = [answer EXCEPT ![c] = recs] /\ plan' = [plan EXCEPT ![c] = Reply(Arms[kind[c]].reply, recs)]
    <3>1. PICK recs \in ResultsOf[c] :
               answer' = [answer EXCEPT ![c] = recs] /\ plan' = [plan EXCEPT ![c] = Reply(reply, recs)]
      BY <1>4, <2>1
    <3>2. recs \in Seq(Nat)  BY KindsAssumption
    <3>3. Reply(reply, recs) # <<>> => Good(Reply(reply, recs), reply, Content(reply, recs))
      BY <1>5, <3>2, ReplyIsGood
    <3> QED  BY <3>1, <3>2, <3>3
  <2>2. CASE plan' = [plan EXCEPT ![c] = <<ErrorFrame>>] /\ UNCHANGED answer
    <3>1. answer' = [answer EXCEPT ![c] = answer[c]]  BY <2>2 DEF IpcShape
    <3>2. answer[c] \in Seq(Nat)  BY <1>2 DEF ExchangeAt, Exchanging
    <3>3. Good(<<ErrorFrame>>, reply, Content(reply, answer[c]))  BY ErrorIsGood
    <3> QED  BY <2>2, <3>1, <3>2, <3>3
  <2> QED  BY <2>1, <2>2 DEF Answer
<1>7. plan'[c] = F /\ answer'[c] = a  BY <1>6 DEF IpcShape
<1>8. /\ sv' = [sv EXCEPT ![c] = IF F = <<>> THEN "closed" ELSE "writing"]
      /\ held' = [held EXCEPT ![c] = IF F = <<>> THEN {} ELSE held[c]]
  BY <1>7 DEF Answer
<1>9. IpcShape'  BY <1>1, <1>6, <1>8 DEF IpcShape
<1>10. Others(c) /\ sv'[c] = IF F = <<>> THEN "closed" ELSE "writing"  BY <1>1, <1>6, <1>8 DEF Others, IpcShape
<1>11. ExchangeOf(reply, Content(reply, answer[c]), sv[c], plan[c], wire[c], cl[c], got[c], start[c]) /\ cl[c] \in Phases
  BY <1>2, <1>4 DEF ExchangeAt, Exchanging
<1>12. CASE F = <<>>
  <2>1. ExchangeOf(reply, Content(reply, a), "closed", <<>>, wire[c], cl[c], got[c], start[c])
    BY <1>3, <1>11, ExchangeDropped
  <2>2. Exchanging(kind[c], "closed", <<>>, a, wire[c], cl[c], got[c], start[c])
    BY <1>4, <1>6, <1>11, <2>1 DEF Exchanging
  <2> QED  BY <1>1, <1>7, <1>9, <1>10, <1>12, <2>2, OthersStay
<1>13. CASE F # <<>>
  <2>1. Good(F, reply, Content(reply, a))  BY <1>6, <1>13
  <2>2. ExchangeOf(reply, Content(reply, a), "writing", F, wire[c], cl[c], got[c], start[c])
    BY <1>3, <1>11, <1>13, <2>1, ExchangeStarts
  <2>3. Exchanging(kind[c], "writing", F, a, wire[c], cl[c], got[c], start[c])
    BY <1>4, <1>6, <1>11, <2>2 DEF Exchanging
  <2> QED  BY <1>1, <1>7, <1>9, <1>10, <1>13, <2>3, OthersStay
<1> QED  BY <1>12, <1>13

\* A task that ends leaves nothing to write.
LEMMA ClosedKeeps ==
  ASSUME NEW k, NEW s, NEW p, NEW a, NEW w, NEW x, NEW g, NEW t, Exchanging(k, s, p, a, w, x, g, t)
  PROVE  Exchanging(k, "closed", <<>>, a, w, x, g, t)
<1>1. PICK reply, content : reply = Arms[k].reply /\ content = Content(reply, a)  OBVIOUS
<1>2. ExchangeOf(reply, content, s, p, w, x, g, t)  BY <1>1 DEF Exchanging
<1>3. ExchangeOf(reply, content, "closed", <<>>, w, x, g, t)  BY <1>2, ExchangeCloses
<1> QED  BY <1>1, <1>3 DEF Exchanging

\* WriteFrame keeps the exchanges.
LEMMA WriteFrameKeeps ==
  ASSUME IpcShape, ExchangeInv, NEW c \in Conns, WriteFrame(c)
  PROVE  IpcShape' /\ ExchangeInv'
<1>0. PICK last : last = (Len(plan[c]) = 1 \/ Gone(c))  OBVIOUS
<1>1. /\ sv[c] = "writing" /\ UNCHANGED <<kind, answer, cl, got, start, serving>>
      /\ wire' = [wire EXCEPT ![c] = IF Gone(c) THEN wire[c] ELSE Append(wire[c], Head(plan[c]))]
      /\ plan' = [plan EXCEPT ![c] = IF last THEN <<>> ELSE Tail(plan[c])]
      /\ sv' = [sv EXCEPT ![c] = IF last THEN "closed" ELSE sv[c]]
      /\ held' = [held EXCEPT ![c] = IF last THEN {} ELSE held[c]]
  BY <1>0 DEF WriteFrame
<1>2. ExchangeAt(c)  BY DEF ExchangeInv
<1>3. IpcShape'  BY <1>1 DEF IpcShape
<1>4. Others(c)  BY <1>1 DEF Others, IpcShape
<1>5. /\ wire'[c] = IF Gone(c) THEN wire[c] ELSE Append(wire[c], Head(plan[c]))
      /\ plan'[c] = (IF last THEN <<>> ELSE Tail(plan[c])) /\ sv'[c] = IF last THEN "closed" ELSE "writing"
  BY <1>1 DEF IpcShape
<1>6. CASE Gone(c)
  <2>1. wire'[c] = wire[c] /\ plan'[c] = <<>> /\ sv'[c] = "closed"  BY <1>0, <1>5, <1>6
  <2>2. Exchanging(kind[c], "closed", <<>>, answer[c], wire[c], cl[c], got[c], start[c])
    BY <1>2, ClosedKeeps DEF ExchangeAt
  <2> QED  BY <1>1, <1>3, <1>4, <2>1, <2>2, OthersStay
<1>7. CASE ~Gone(c)
  <2>1. PICK reply, content : reply = Arms[kind[c]].reply /\ content = Content(reply, answer[c])  OBVIOUS
  <2>2. ExchangeOf(reply, content, "writing", plan[c], wire[c], cl[c], got[c], start[c])
    BY <1>1, <1>2, <2>1 DEF ExchangeAt, Exchanging
  <2>3. PICK w : w = Append(wire[c], Head(plan[c]))  OBVIOUS
  <2>4. CASE Len(plan[c]) = 1
    <3>1. ExchangeOf(reply, content, "closed", <<>>, w, cl[c], got[c], start[c])  BY <2>2, <2>3, <2>4, ExchangeWrites
    <3>2. Exchanging(kind[c], "closed", <<>>, answer[c], w, cl[c], got[c], start[c])
      BY <1>2, <2>1, <3>1 DEF ExchangeAt, Exchanging
    <3>3. wire'[c] = w /\ plan'[c] = <<>> /\ sv'[c] = "closed"  BY <1>0, <1>5, <1>7, <2>3, <2>4
    <3> QED  BY <1>1, <1>3, <1>4, <3>2, <3>3, OthersStay
  <2>5. CASE Len(plan[c]) # 1
    <3>1. ExchangeOf(reply, content, "writing", Tail(plan[c]), w, cl[c], got[c], start[c])
      BY <2>2, <2>3, <2>5, ExchangeWrites
    <3>2. Exchanging(kind[c], "writing", Tail(plan[c]), answer[c], w, cl[c], got[c], start[c])
      BY <1>2, <2>1, <3>1 DEF ExchangeAt, Exchanging
    <3>3. wire'[c] = w /\ plan'[c] = Tail(plan[c]) /\ sv'[c] = "writing"  BY <1>0, <1>5, <1>7, <2>3, <2>5
    <3> QED  BY <1>1, <1>3, <1>4, <3>2, <3>3, OthersStay
  <2> QED  BY <2>4, <2>5
<1> QED  BY <1>6, <1>7

\* A deadline or the end of a terminal keeps the exchanges.
LEMMA CloseKeeps ==
  ASSUME IpcShape, ExchangeInv, NEW c \in Conns, ConnDeadline(c) \/ StreamCloses(c)
  PROVE  IpcShape' /\ ExchangeInv'
<1>1. /\ sv' = [sv EXCEPT ![c] = "closed"] /\ held' = [held EXCEPT ![c] = {}] /\ plan' = [plan EXCEPT ![c] = <<>>]
      /\ UNCHANGED <<kind, answer, wire, cl, got, start, serving>>
  BY DEF ConnDeadline, StreamCloses, CloseTask
<1>2. ExchangeAt(c)  BY DEF ExchangeInv
<1>3. IpcShape'  BY <1>1 DEF IpcShape
<1>4. Others(c) /\ sv'[c] = "closed" /\ plan'[c] = <<>>  BY <1>1 DEF Others, IpcShape
<1>5. Exchanging(kind[c], "closed", <<>>, answer[c], wire[c], cl[c], got[c], start[c])
  BY <1>2, ClosedKeeps DEF ExchangeAt
<1> QED  BY <1>1, <1>3, <1>4, <1>5, OthersStay

\* The end of serve keeps the exchanges.
LEMMA ServeKeeps ==
  ASSUME IpcShape, ExchangeInv, StopServing \/ ServeEnds
  PROVE  IpcShape' /\ ExchangeInv'
<1>1. CASE StopServing
  <2>1. serving' = "draining" /\ UNCHANGED <<kind, sv, held, plan, answer, wire, cl, got, start>>
    BY <1>1 DEF StopServing
  <2>2. IpcShape'  BY <2>1 DEF IpcShape
  <2>3. ExchangeInv'  BY <2>1 DEF ExchangeInv, ExchangeAt
  <2> QED  BY <2>2, <2>3
<1>2. CASE ServeEnds
  <2>1. /\ sv' = [c \in Conns |-> IF sv[c] # "none" THEN "closed" ELSE "none"]
        /\ held' = [c \in Conns |-> {}] /\ plan' = [c \in Conns |-> <<>>] /\ serving' = "returned"
        /\ UNCHANGED <<kind, answer, wire, cl, got, start>>
    BY <1>2 DEF ServeEnds
  <2>2. IpcShape'  BY <2>1 DEF IpcShape, Early
  <2>3. ASSUME NEW c \in Conns  PROVE ExchangeAt(c)'
    <3>1. ExchangeAt(c)  BY DEF ExchangeInv
    <3>2. plan'[c] = <<>> /\ sv'[c] = IF sv[c] # "none" THEN "closed" ELSE "none"  BY <2>1
    <3>3. CASE sv[c] # "none"
      <4>1. Exchanging(kind[c], "closed", <<>>, answer[c], wire[c], cl[c], got[c], start[c])
        BY <3>1, ClosedKeeps DEF ExchangeAt
      <4> QED  BY <2>1, <3>2, <3>3, <4>1 DEF ExchangeAt
    <3>4. CASE sv[c] = "none"
      <4>1. plan[c] = <<>>  BY <3>1, <3>4 DEF ExchangeAt, Exchanging, ExchangeOf, Early
      <4> QED  BY <2>1, <3>1, <3>2, <3>4, <4>1 DEF ExchangeAt
    <3> QED  BY <3>3, <3>4
  <2> QED  BY <2>2, <2>3 DEF ExchangeInv
<1> QED  BY <1>1, <1>2

\* A step that changes a call and nothing else.
CallsOnly(c, y) ==
  /\ cl' = [cl EXCEPT ![c] = y]
  /\ UNCHANGED <<kind, sv, held, plan, answer, wire, got, start, serving>>

\* Such a step keeps the exchanges if it does so on its connection.
LEMMA CallKeepsOn ==
  ASSUME IpcShape, ExchangeInv, NEW c \in Conns, NEW y \in Phases, CallsOnly(c, y),
         ExchangeOf(Arms[kind[c]].reply, Content(Arms[kind[c]].reply, answer[c]), sv[c], plan[c], wire[c], y, got[c], start[c])
  PROVE  IpcShape' /\ ExchangeInv'
<1>1. IpcShape'  BY DEF CallsOnly, IpcShape
<1>2. Others(c) /\ cl'[c] = y  BY DEF CallsOnly, Others, IpcShape
<1>3. ExchangeAt(c)  BY DEF ExchangeInv
<1>4. Exchanging(kind[c], sv[c], plan[c], answer[c], wire[c], y, got[c], start[c])
  BY <1>3 DEF ExchangeAt, Exchanging
<1>5. UNCHANGED <<kind, sv, plan, answer, wire, got, start>>  BY DEF CallsOnly
<1> QED  BY <1>1, <1>2, <1>4, <1>5, OthersStay

\* SendRequest and ClientTimeout keep the exchanges.
LEMMA WaitKeeps ==
  ASSUME IpcShape, ExchangeInv, NEW c \in Conns, SendRequest(c) \/ ClientTimeout(c)
  PROVE  IpcShape' /\ ExchangeInv'
<1>1. ExchangeAt(c)  BY DEF ExchangeInv
<1>2. PICK v \in {"first", "timeout"} : /\ v = "first" => cl[c].pc = "calling"
                                        /\ CallsOnly(c, [cl[c] EXCEPT !.pc = v])
  <2>1. CASE SendRequest(c)
    <3>1. cl[c].pc = "calling" /\ CallsOnly(c, [cl[c] EXCEPT !.pc = "first"])  BY <2>1 DEF SendRequest, CallsOnly
    <3> QED  BY <3>1
  <2>2. CASE ClientTimeout(c)
    <3>1. CallsOnly(c, [cl[c] EXCEPT !.pc = "timeout"])  BY <2>2 DEF ClientTimeout, CallsOnly
    <3> QED  BY <3>1
  <2> QED  BY <2>1, <2>2
<1>3. PICK y : y = [cl[c] EXCEPT !.pc = v]  OBVIOUS
<1>4. y \in Phases /\ y.pc = v  BY <1>1, <1>3, PhaseSet DEF ExchangeAt, Exchanging
<1>5. PICK reply, content : reply = Arms[kind[c]].reply /\ content = Content(reply, answer[c])  OBVIOUS
<1>6. ExchangeOf(reply, content, sv[c], plan[c], wire[c], cl[c], got[c], start[c])
  BY <1>1, <1>5 DEF ExchangeAt, Exchanging
<1>7. ExchangeOf(reply, content, sv[c], plan[c], wire[c], y, got[c], start[c])
  BY <1>2, <1>4, <1>6, ExchangeTimesOut
<1> QED  BY <1>2, <1>3, <1>4, <1>5, <1>7, CallKeepsOn

\* ReadEof keeps the exchanges.
LEMMA ReadEofKeeps ==
  ASSUME IpcShape, ExchangeInv, NEW c \in Conns, ReadEof(c)
  PROVE  IpcShape' /\ ExchangeInv'
<1>1. ExchangeAt(c)  BY DEF ExchangeInv
<1>2. sv[c] = "closed"  BY DEF ReadEof
<1>3. PICK v \in {"ok", "daemon", "cut"} : /\ v = "ok" => cl[c].pc = "ok-eof"
                                           /\ CallsOnly(c, [cl[c] EXCEPT !.pc = v])
  <2>1. PICK v : v = CASE cl[c].pc = "ok-eof" -> "ok" [] cl[c].pc = "error-eof" -> "daemon" [] OTHER -> "cut"  OBVIOUS
  <2>2. v \in {"ok", "daemon", "cut"} /\ (v = "ok" => cl[c].pc = "ok-eof")  BY <2>1
  <2>3. CallsOnly(c, [cl[c] EXCEPT !.pc = v])  BY <2>1 DEF ReadEof, CallsOnly
  <2> QED  BY <2>2, <2>3
<1>4. PICK y : y = [cl[c] EXCEPT !.pc = v]  OBVIOUS
<1>5. y \in Phases /\ y.pc = v  BY <1>1, <1>4, PhaseSet DEF ExchangeAt, Exchanging
<1>6. PICK reply, content : reply = Arms[kind[c]].reply /\ content = Content(reply, answer[c])  OBVIOUS
<1>7. ExchangeOf(reply, content, "closed", plan[c], wire[c], cl[c], got[c], start[c])
  BY <1>1, <1>2, <1>6 DEF ExchangeAt, Exchanging
<1>8. ExchangeOf(reply, content, "closed", plan[c], wire[c], y, got[c], start[c])
  BY <1>3, <1>5, <1>7, ExchangeEnds
<1> QED  BY <1>2, <1>3, <1>4, <1>5, <1>6, <1>8, CallKeepsOn

\* There is never anything behind the last frame.
LEMMA NoTrailingData ==
  ASSUME ExchangeInv, NEW c \in Conns
  PROVE  ~TrailingData(c)
<1>1. SUFFICES ASSUME TrailingData(c)  PROVE FALSE
  OBVIOUS
<1>2. cl[c].pc \in {"ok-eof", "error-eof"} /\ wire[c] # <<>>  BY <1>1 DEF TrailingData
<1>3. ExchangeOf(Arms[kind[c]].reply, Content(Arms[kind[c]].reply, answer[c]), sv[c], plan[c], wire[c], cl[c], got[c], start[c])
  BY DEF ExchangeInv, ExchangeAt, Exchanging
<1>4. wire[c] = <<>>  BY <1>2, <1>3, NothingTrails
<1> QED  BY <1>2, <1>4

\* ReadFrame keeps the exchanges: every frame is accepted.
LEMMA ReadFrameKeeps ==
  ASSUME IpcShape, ExchangeInv, NEW c \in Conns, ReadFrame(c)
  PROVE  IpcShape' /\ ExchangeInv'
<1>1. ExchangeAt(c)  BY DEF ExchangeInv
<1>2. PICK f : f = Head(wire[c])  OBVIOUS
<1>3. PICK y : y = NextPhase(c, f)  OBVIOUS
<1>4. PICK g, t : g = Got(c, f, y) /\ t = Started(c, f)  OBVIOUS
<1>5. /\ cl[c].pc \in {"first", "data"} /\ wire[c] # <<>>
      /\ cl' = [cl EXCEPT ![c] = y] /\ start' = [start EXCEPT ![c] = t] /\ got' = [got EXCEPT ![c] = g]
      /\ wire' = [wire EXCEPT ![c] = Tail(wire[c])]
      /\ UNCHANGED <<kind, sv, held, plan, answer, serving>>
  BY <1>2, <1>3, <1>4 DEF ReadFrame, NextPhase, Got, Started
<1>6. PICK reply, content : reply = Arms[kind[c]].reply /\ content = Content(reply, answer[c])  OBVIOUS
<1>7. reply = Calls[kind[c]].reply
  <2>1. kind[c] \in Kinds  BY DEF IpcShape
  <2> QED  BY <1>6, <2>1, RepliesAre
<1>8. content \in Seq(Nat)
  <2>1. answer[c] \in Seq(Nat)  BY <1>1 DEF ExchangeAt, Exchanging
  <2> QED  BY <1>6, <2>1, ContentType
<1>9. ExchangeOf(reply, content, sv[c], plan[c], wire[c], cl[c], got[c], start[c])
  BY <1>1, <1>6 DEF ExchangeAt, Exchanging
<1>10. PICK w : w = wire[c]  OBVIOUS
<1>11. y \in Phases /\ ExchangeOf(reply, content, sv[c], plan[c], Tail(w), y, g, t)
  <2>1. w # <<>> /\ f = Head(w) /\ ExchangeOf(reply, content, sv[c], plan[c], w, cl[c], got[c], start[c])
    BY <1>2, <1>5, <1>9, <1>10
  <2>2. y \in Phases /\ ExchangeOf(reply, content, sv[c], plan[c], Tail(w), y, Got(c, f, y), Started(c, f))
    BY <1>3, <1>5, <1>7, <1>8, <2>1, ExchangeReads
  <2> QED  BY <1>4, <2>2
<1>12. IpcShape'  BY <1>5 DEF IpcShape
<1>13. Others(c) /\ cl'[c] = y /\ start'[c] = t /\ got'[c] = g /\ wire'[c] = Tail(w)
  BY <1>5, <1>10 DEF Others, IpcShape
<1>14. Exchanging(kind[c], sv[c], plan[c], answer[c], Tail(w), y, g, t)
  BY <1>1, <1>6, <1>11 DEF ExchangeAt, Exchanging
<1> QED  BY <1>5, <1>12, <1>13, <1>14, OthersStay

\* Every step keeps the exchanges.
LEMMA ExchangeStep ==
  ASSUME IpcShape, ExchangeInv, IpcNext \/ UNCHANGED ipcVars
  PROVE  IpcShape' /\ ExchangeInv'
<1>1. ASSUME NEW c \in Conns, ServerStep(c)  PROVE IpcShape' /\ ExchangeInv'
  BY <1>1, AcceptKeeps, DispatchKeeps, AnswerKeeps, WriteFrameKeeps, CloseKeeps DEF ServerStep
<1>2. ASSUME NEW c \in Conns, ClientStep(c)  PROVE IpcShape' /\ ExchangeInv'
  BY <1>2, WaitKeeps, ReadFrameKeeps, ReadEofKeeps, NoTrailingData DEF ClientStep
<1>3. ASSUME NEW c \in Conns, StreamCloses(c)  PROVE IpcShape' /\ ExchangeInv'
  BY <1>3, CloseKeeps
<1>4. CASE UNCHANGED ipcVars
  BY <1>4 DEF ipcVars, IpcShape, ExchangeInv, ExchangeAt
<1> QED  BY <1>1, <1>2, <1>3, <1>4, CallKeeps, ServeKeeps DEF IpcNext

\* No connection has been made.
LEMMA ExchangeInit ==
  ASSUME IpcInit
  PROVE  IpcShape /\ ExchangeInv
<1>1. PICK x : x = Phase("idle", 0, 0)  OBVIOUS
<1>2. x \in Phases /\ x.pc = "idle"  BY <1>1 DEF Phase, Phases
<1>3. PICK e : e = <<>>  OBVIOUS
<1>4. e \in Seq(Nat)  BY <1>3
<1>5. /\ kind = [c \in Conns |-> "Health"] /\ sv = [c \in Conns |-> "none"] /\ held = [c \in Conns |-> {}]
      /\ plan = [c \in Conns |-> e] /\ answer = [c \in Conns |-> e] /\ wire = [c \in Conns |-> e]
      /\ cl = [c \in Conns |-> x] /\ got = [c \in Conns |-> e] /\ start = [c \in Conns |-> ErrorFrame]
      /\ serving = "open"
  BY <1>1, <1>3 DEF IpcInit
<1>6. "Health" \in Kinds  BY DEF Kinds, Arms
<1>7. IpcShape  BY <1>4, <1>5, <1>6 DEF IpcShape, Early
<1>8. ASSUME NEW c \in Conns  PROVE ExchangeAt(c)
  <2>1. sv[c] = "none" /\ plan[c] = <<>> /\ wire[c] = <<>> /\ got[c] = <<>> /\ cl[c] = x /\ answer[c] \in Seq(Nat)
    BY <1>3, <1>4, <1>5
  <2> QED  BY <1>2, <2>1 DEF ExchangeAt, Exchanging, ExchangeOf, Early, Waiting
<1> QED  BY <1>7, <1>8 DEF ExchangeInv

\* What the exchanges show.
LEMMA ExchangeShows ==
  ASSUME IpcShape, ExchangeInv
  PROVE  IpcTypeOK /\ AcceptedIsWhole /\ PlansSatisfyClients
<1>1. ASSUME NEW c \in Conns  PROVE (sv[c] = "writing") = (plan[c] # <<>>)
  <2>1. PICK reply, content : ExchangeOf(reply, content, sv[c], plan[c], wire[c], cl[c], got[c], start[c])
    BY DEF ExchangeInv, ExchangeAt, Exchanging
  <2>2. CASE sv[c] \in Early
    BY <2>1, <2>2 DEF ExchangeOf, Early
  <2>3. CASE sv[c] \notin Early
    <3>1. PICK F, i, j : WrittenTo(F, i, j, reply, content, sv[c], plan[c], wire[c])  BY <2>1, <2>3 DEF ExchangeOf
    <3>2. CASE sv[c] = "writing"
      <4>1. i \in Nat /\ Len(F) \in Nat /\ i < Len(F) /\ plan[c] = Run(F, i, Len(F))  BY <3>1, <3>2 DEF WrittenTo
      <4> QED  BY <3>2, <4>1, RunSome
    <3>3. CASE sv[c] # "writing"
      BY <3>1, <3>3 DEF WrittenTo
    <3> QED  BY <3>2, <3>3
  <2> QED  BY <2>2, <2>3
<1>2. IpcTypeOK  BY <1>1 DEF IpcTypeOK, IpcShape, Early
<1>3. ASSUME NEW c \in Conns, cl[c].pc = "ok"  PROVE got[c] = Content(Arms[kind[c]].reply, answer[c])
  <2>1. PICK reply, content : reply = Arms[kind[c]].reply /\ content = Content(reply, answer[c])  OBVIOUS
  <2>2. ExchangeOf(reply, content, sv[c], plan[c], wire[c], cl[c], got[c], start[c])
    BY <2>1 DEF ExchangeInv, ExchangeAt, Exchanging
  <2>3. sv[c] \notin Early  BY <1>3, <2>2 DEF ExchangeOf, Waiting
  <2>4. PICK F, j : ClientAt(F, j, reply, content, cl[c], got[c], start[c])  BY <2>2, <2>3 DEF ExchangeOf
  <2> QED  BY <1>3, <2>1, <2>4 DEF ClientAt
<1>4. ASSUME NEW c \in Conns  PROVE cl[c].pc # "protocol"
  <2>1. cl[c] \in Phases  BY DEF ExchangeInv, ExchangeAt, Exchanging
  <2> QED  BY <2>1 DEF Phases
<1> QED  BY <1>2, <1>3, <1>4 DEF AcceptedIsWhole, PlansSatisfyClients

\* For any number of connections, any requests and answers and any limits: a
\* call that returns a result has all of the answer in its order, what the
\* server writes never violates the client's checks, and the pools bound the
\* work (handle_connection_inner, client.rs).
THEOREM ExchangesStayWhole == IpcSpec => []ExchangesAreWhole
<1>1. IpcInit => IpcShape /\ ExchangeInv  BY ExchangeInit
<1>2. IpcShape /\ ExchangeInv /\ [IpcNext]_ipcVars => IpcShape' /\ ExchangeInv'  BY ExchangeStep
<1>3. IpcShape /\ ExchangeInv => IpcTypeOK /\ AcceptedIsWhole /\ PlansSatisfyClients  BY ExchangeShows
<1>4. IpcTypeOK /\ AcceptedIsWhole /\ PlansSatisfyClients /\ PoolsBoundWork => ExchangesAreWhole
  BY DEF ExchangesAreWhole
<1> QED  BY <1>1, <1>2, <1>3, <1>4, PoolsBoundProviders, PTL DEF IpcSpec

=============================================================================
