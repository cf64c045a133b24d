---------------------------- MODULE IpcExchange ----------------------------
(***************************************************************************)
(* The request/response protocol of crates/ipc: server.rs (serve and       *)
(* handle_connection_inner), client.rs (one function per request) and      *)
(* frame.rs.                                                               *)
(*                                                                         *)
(* A connection carries one request.  The server checks it, takes permits, *)
(* calls a provider and writes either one frame or a plan: a start frame   *)
(* that declares totals, data chunks, an end frame.  The client checks     *)
(* every frame and then expects the end of the stream.  Either side may    *)
(* run into its own deadline at any moment; the socket delivers a prefix   *)
(* of what was written.                                                    *)
(*                                                                         *)
(* A record is its encoded size in frame units.  The speed test stream is  *)
(* in SpeedTest, the terminal stream in TerminalStream; here the latter is *)
(* a connection without a deadline.                                        *)
(***************************************************************************)
EXTENDS Naturals, Sequences, FiniteSets, Functions

CONSTANTS
  Conns,          \* connections
  KindsOf,        \* the requests each connection may carry
  ResultsOf,      \* the record sequences its provider may answer
  Cap,            \* "conns": MAX_CONNECTIONS, "streams": MAX_SNAPSHOT_STREAMS, "exports": 1
  Configured,     \* the requests that have a provider
  MaxFrame,       \* MAX_FRAME_PAYLOAD_BYTES
  MaxChunk,       \* MAX_CHUNK_RECORDS
  MaxRecords,     \* MAX_APPLICATION_RECORDS and the pages' limits
  MaxFrames,      \* MAX_RESPONSE_FRAMES
  MaxWire         \* MAX_RESPONSE_WIRE_BYTES

ASSUME IpcAssumption ==
  /\ IsFiniteSet(Conns)
  /\ Cap \in [{"conns", "streams", "exports"} -> Nat \ {0}]
  /\ MaxFrame \in Nat \ {0} /\ MaxChunk \in Nat \ {0} /\ MaxRecords \in Nat
  /\ MaxFrames \in Nat \ {0} /\ MaxWire \in Nat /\ MaxFrame < MaxWire

VARIABLES
  kind,       \* the request of each connection
  sv,         \* the server's task: none, backlog, reading, provider, writing, streaming, closed
  held,       \* permits of the task
  plan,       \* frames it has still to write
  answer,     \* what its provider answered
  wire,       \* frames in the socket
  cl,         \* the client's call
  got,        \* records it has taken from data frames
  start,      \* the start frame it accepted
  serving     \* serve(): open, draining, returned

ipcVars == <<kind, sv, held, plan, answer, wire, cl, got, start, serving>>

-----------------------------------------------------------------------------
(* The arms of handle_connection_inner: whether the command is validated   *)
(* first, the permits taken in order, and the shape of a good reply.       *)

Arm(checked, permits, reply) == [checked |-> checked, permits |-> permits, reply |-> reply]

HealthArm             == Arm(TRUE,  <<>>, "single")
TelemetryArm          == Arm(FALSE, <<"streams">>, "telemetry")
NetworkArm            == Arm(FALSE, <<"streams">>, "network")
UsageArm              == Arm(TRUE,  <<"streams">>, "usage")
RemoteCapabilitiesArm == Arm(FALSE, <<>>, "single")
SystemInfoArm         == Arm(FALSE, <<>>, "single")
RemoteProfileArm      == Arm(TRUE,  <<>>, "single")
SecretArm             == Arm(TRUE,  <<>>, "single")
RemoteSessionArm      == Arm(TRUE,  <<>>, "single")
TerminalArm           == Arm(TRUE,  <<>>, "single")
TerminalStreamArm     == Arm(TRUE,  <<>>, "stream")
TransferArm           == Arm(TRUE,  <<>>, "single")
TransferListArm       == Arm(TRUE,  <<"streams">>, "tasks")
LocalHandleArm        == Arm(TRUE,  <<>>, "single")
SpeedTestCancelArm    == Arm(FALSE, <<>>, "single")
SpeedTestDeepArm      == Arm(TRUE,  <<>>, "single")
NotesArm              == Arm(TRUE,  <<"streams">>, "single")
NotesListArm          == Arm(TRUE,  <<"streams">>, "notes")
NotesGetArm           == Arm(TRUE,  <<"streams">>, "content")
NotesExportArm        == Arm(TRUE,  <<"streams", "exports">>, "content")

\* handle_connection_inner: the match on request.body.
Arms ==
  [Health |-> HealthArm, Telemetry |-> TelemetryArm, Network |-> NetworkArm, Usage |-> UsageArm,
   RemoteCapabilities |-> RemoteCapabilitiesArm, SystemInfo |-> SystemInfoArm,
   RemoteProfile |-> RemoteProfileArm, Secret |-> SecretArm, RemoteSession |-> RemoteSessionArm,
   Terminal |-> TerminalArm, TerminalStream |-> TerminalStreamArm, Transfer |-> TransferArm,
   TransferList |-> TransferListArm, LocalHandle |-> LocalHandleArm,
   SpeedTestCancel |-> SpeedTestCancelArm, SpeedTestDeep |-> SpeedTestDeepArm,
   Notes |-> NotesArm, NotesList |-> NotesListArm, NotesGet |-> NotesGetArm,
   NotesExport |-> NotesExportArm]

Kinds == DOMAIN Arms

ASSUME KindsAssumption == \A c \in Conns : KindsOf[c] \subseteq Kinds /\ ResultsOf[c] \subseteq Seq(Nat)

-----------------------------------------------------------------------------
(* Frames and plans *)

\* ResponseEnvelope and its bodies: start and end frames declare the number of
\* data frames, of records and of those of the first class.
Frame(body, seq, snap, recs, frames, total, first) ==
  [body |-> body, seq |-> seq, snap |-> snap, recs |-> recs, frames |-> frames, total |-> total,
   first |-> first]

ErrorFrame == Frame("error", 0, FALSE, <<>>, 0, 0, 0)     \* write_terminal_error
SingleFrame(recs) == Frame("single", 0, FALSE, recs, 0, 0, 0)

Size(recs) == LET sum[i \in 0..Len(recs)] == IF i = 0 THEN 0 ELSE sum[i - 1] + recs[i] IN sum[Len(recs)]
TooBig == << -1 >>

\* Faulty variant of ChunkLength: one record too many is taken when there is one.
ChunkLengthOffByOne(recs) ==
  LET fits == {n \in 1..MaxChunk : n <= Len(recs) /\ Size(SubSeq(recs, 1, n)) <= MaxFrame}
  IN IF fits = {} THEN 0 ELSE LET n == CHOOSE k \in fits : \A m \in fits : m <= k
                              IN IF n < Len(recs) THEN n + 1 ELSE n

\* The largest count of leading records that fits a frame; 0 if the first does not.
ChunkLength(recs) ==
  LET fits == {n \in 1..MaxChunk : n <= Len(recs) /\ Size(SubSeq(recs, 1, n)) <= MaxFrame}
  IN IF fits = {} THEN 0 ELSE CHOOSE n \in fits : \A m \in fits : m <= n

\* encode_record_chunks: greedy; cut[k] is the offset after k chunks.  A record
\* that fits no frame refuses the plan.
RecordChunks(recs) ==
  LET cut[k \in 0..Len(recs)] ==
        IF k = 0 THEN 0 ELSE cut[k - 1] + ChunkLength(SubSeq(recs, cut[k - 1] + 1, Len(recs)))
      n == CHOOSE i \in 0..Len(recs) :
             (\A k \in 1..i : cut[k - 1] < cut[k]) /\ (i < Len(recs) => cut[i + 1] = cut[i])
  IN [k \in 1..n |-> SubSeq(recs, cut[k - 1] + 1, cut[k])]
     \o (IF cut[n] < Len(recs) THEN <<TooBig>> ELSE <<>>)

\* NotesPlan::content cuts bytes, here units, into equal chunks.
ContentChunks(recs) ==
  LET bytes == [i \in 1..Size(recs) |-> 1]
      n == (Len(bytes) + MaxFrame - 1) \div MaxFrame
  IN [k \in 1..n |-> SubSeq(bytes, (k - 1) * MaxFrame + 1,
                            IF k * MaxFrame > Len(bytes) THEN Len(bytes) ELSE k * MaxFrame)]

\* What a whole response contains.
Content(reply, recs) == IF reply = "content" THEN [i \in 1..Size(recs) |-> 1] ELSE recs

\* validate_encoded_plan: every limit is checked before the first frame is written.
Sendable(frames) ==
  /\ Len(frames) <= MaxFrames
  /\ \A i \in DOMAIN frames : frames[i].recs # TooBig
  /\ Size([i \in DOMAIN frames |-> 1 + Size(frames[i].recs)]) <= MaxWire

\* Start, chunks and end of a plan: sequence numbers in order, one snapshot
\* id.  The first class of records comes before the second.
PlanOf(chunks1, chunks2) ==
  LET chunks == chunks1 \o chunks2
      n == Len(chunks)
      records(cs) == Size([k \in DOMAIN cs |-> Len(cs[k])])
      edge(body, seq) == Frame(body, seq, TRUE, <<>>, n, records(chunks), records(chunks1))
      frames == <<edge("start", 0)>>
                \o [k \in 1..n |-> Frame(IF k <= Len(chunks1) THEN "chunk1" ELSE "chunk2", k, TRUE,
                                         chunks[k], 0, 0, 0)]
                \o <<edge("end", n + 1)>>
  IN IF Sendable(frames) THEN frames ELSE <<ErrorFrame>>

Bounded(recs, p) == IF Len(recs) > MaxRecords THEN <<ErrorFrame>> ELSE p

TelemetryPlan(recs) == Bounded(recs, PlanOf(RecordChunks(recs), <<>>))
UsagePlan(recs)     == Bounded(recs, PlanOf(RecordChunks(recs), <<>>))
TransferPlan(recs)  == Bounded(recs, PlanOf(RecordChunks(recs), <<>>))
NotesPagePlan(recs) == Bounded(recs, PlanOf(RecordChunks(recs), <<>>))
ContentPlan(recs)   == PlanOf(ContentChunks(recs), <<>>)

\* Interfaces are chunked first, then applications.
NetworkPlan(recs) ==
  LET half == Len(recs) \div 2
  IN Bounded(recs, PlanOf(RecordChunks(SubSeq(recs, 1, half)), RecordChunks(SubSeq(recs, half + 1, Len(recs)))))

\* The frames a provider's answer becomes.  A single reply that does not fit
\* a frame is not written at all.
Reply(reply, recs) ==
  CASE reply = "single"    -> IF Size(recs) > MaxFrame THEN <<>> ELSE <<SingleFrame(recs)>>
    [] reply = "telemetry" -> TelemetryPlan(recs)
    [] reply = "network"   -> NetworkPlan(recs)
    [] reply = "usage"     -> UsagePlan(recs)
    [] reply = "tasks"     -> TransferPlan(recs)
    [] reply = "notes"     -> NotesPagePlan(recs)
    [] reply = "content"   -> ContentPlan(recs)

-----------------------------------------------------------------------------
(* The server *)

Holding(p) == {c \in Conns : p \in held[c]}
Full(p) == Cardinality(Holding(p)) >= Cap[p]

\* The accept loop: over the limit the socket is dropped without a word.
Accept(c) ==
  /\ serving = "open" /\ sv[c] = "backlog"
  /\ \/ Full("conns") /\ sv' = [sv EXCEPT ![c] = "closed"] /\ UNCHANGED held
     \/ ~Full("conns") /\ sv' = [sv EXCEPT ![c] = "reading"]
        /\ held' = [held EXCEPT ![c] = {"conns"}]
  /\ UNCHANGED <<kind, plan, answer, wire, cl, got, start, serving>>

\* The permits a request gets when it asks for them in order: all before the
\* first one that is not free.
Acquired(permits) ==
  {permits[i] : i \in {j \in DOMAIN permits : \A k \in 1..j : ~Full(permits[k])}}

\* Faulty variant of Dispatch: "let Ok(_) = try_acquire": the permit is dropped at once.
DispatchWithoutHolding(c) ==
  LET arm == Arms[kind[c]] IN
  /\ sv[c] = "reading" /\ cl[c].pc # "calling"
  /\ sv' = [sv EXCEPT ![c] = IF Acquired(arm.permits) # Range(arm.permits) THEN "writing"
                              ELSE IF arm.reply = "stream" THEN "streaming" ELSE "provider"]
  /\ plan' = [plan EXCEPT ![c] = IF sv'[c] = "writing" THEN <<ErrorFrame>> ELSE <<>>]
  /\ UNCHANGED <<kind, held, answer, wire, cl, got, start, serving>>

\* The request is read: version and identity, the command, the permits, the
\* provider, up to the first await.
Dispatch(c) ==
  LET arm == Arms[kind[c]] IN
  /\ sv[c] = "reading" /\ cl[c].pc # "calling"
  /\ \/ /\ cl[c].request = "other version" \/ (cl[c].request = "invalid" /\ arm.checked)
        /\ plan' = [plan EXCEPT ![c] = <<ErrorFrame>>]
        /\ sv' = [sv EXCEPT ![c] = "writing"]
        /\ UNCHANGED held
     \/ /\ cl[c].request = "good"
        /\ held' = [held EXCEPT ![c] = @ \cup Acquired(arm.permits)]
        /\ LET refused == Acquired(arm.permits) # Range(arm.permits) \/ kind[c] \notin Configured
           IN /\ sv' = [sv EXCEPT ![c] = IF refused THEN "writing"
                                         ELSE IF arm.reply = "stream" THEN "streaming" ELSE "provider"]
              /\ plan' = [plan EXCEPT ![c] = IF refused THEN <<ErrorFrame>> ELSE <<>>]
  /\ UNCHANGED <<kind, answer, wire, cl, got, start, serving>>

\* The provider answers, fails, or answers what the command did not ask for.
Answer(c) ==
  LET arm == Arms[kind[c]] IN
  /\ sv[c] = "provider"
  /\ \/ \E recs \in ResultsOf[c] :
          /\ answer' = [answer EXCEPT ![c] = recs]
          /\ plan' = [plan EXCEPT ![c] = Reply(arm.reply, recs)]
     \/ plan' = [plan EXCEPT ![c] = <<ErrorFrame>>] /\ UNCHANGED answer
  /\ sv' = [sv EXCEPT ![c] = IF plan'[c] = <<>> THEN "closed" ELSE "writing"]
  /\ held' = [held EXCEPT ![c] = IF plan'[c] = <<>> THEN {} ELSE @]
  /\ UNCHANGED <<kind, wire, cl, got, start, serving>>

Gone(c) == cl[c].pc \in {"ok", "daemon", "protocol", "cut", "timeout"}

\* Faulty variant of WriteFrame: the task does not end with the last frame.
WriteFrameKeepsOpen(c) ==
  /\ sv[c] = "writing" /\ plan[c] # <<>>
  /\ wire' = [wire EXCEPT ![c] = Append(@, Head(plan[c]))]
  /\ plan' = [plan EXCEPT ![c] = Tail(@)]
  /\ UNCHANGED <<kind, sv, held, answer, cl, got, start, serving>>

\* write_encoded_plan: frame by frame; the task ends with the last one, or
\* when the client is gone.
WriteFrame(c) ==
  /\ sv[c] = "writing"
  /\ LET last == Len(plan[c]) = 1 \/ Gone(c) IN
     /\ wire' = [wire EXCEPT ![c] = IF Gone(c) THEN @ ELSE Append(@, Head(plan[c]))]
     /\ plan' = [plan EXCEPT ![c] = IF last THEN <<>> ELSE Tail(@)]
     /\ sv' = [sv EXCEPT ![c] = IF last THEN "closed" ELSE @]
     /\ held' = [held EXCEPT ![c] = IF last THEN {} ELSE @]
  /\ UNCHANGED <<kind, answer, cl, got, start, serving>>

CloseTask(c) ==
  /\ sv' = [sv EXCEPT ![c] = "closed"]
  /\ held' = [held EXCEPT ![c] = {}]
  /\ plan' = [plan EXCEPT ![c] = <<>>]

\* Faulty variant of ConnDeadline: the provider is awaited without a timeout.
ConnDeadlineWriting(c) ==
  /\ sv[c] \in {"reading", "writing"}
  /\ CloseTask(c)
  /\ UNCHANGED <<kind, answer, wire, cl, got, start, serving>>

\* timed_io and timeout_at: the request, the provider and the frames have
\* deadlines from accept on; when one passes the task just closes.
ConnDeadline(c) ==
  /\ sv[c] \in {"reading", "provider", "writing"}
  /\ CloseTask(c)
  /\ UNCHANGED <<kind, answer, wire, cl, got, start, serving>>

\* serve_terminal_stream ends with its terminal, its provider or its client.
StreamCloses(c) ==
  /\ sv[c] = "streaming"
  /\ CloseTask(c)
  /\ UNCHANGED <<kind, answer, wire, cl, got, start, serving>>

StopServing ==
  /\ serving = "open" /\ serving' = "draining"
  /\ UNCHANGED <<kind, sv, held, plan, answer, wire, cl, got, start>>

Tasks == {c \in Conns : sv[c] \in {"reading", "provider", "writing", "streaming"}}

\* Faulty variant of ServeEnds: the tasks are drained without a limit.
ServeEndsDrained ==
  /\ serving = "draining" /\ Tasks = {}
  /\ sv' = [c \in Conns |-> IF sv[c] # "none" THEN "closed" ELSE "none"]
  /\ serving' = "returned"
  /\ UNCHANGED <<kind, held, plan, answer, wire, cl, got, start>>

\* All tasks have ended, or SHUTDOWN_GRACE has passed and they are aborted;
\* with the listener goes its backlog.
ServeEnds ==
  /\ serving = "draining"
  /\ sv' = [c \in Conns |-> IF sv[c] # "none" THEN "closed" ELSE "none"]
  /\ held' = [c \in Conns |-> {}] /\ plan' = [c \in Conns |-> <<>>]
  /\ serving' = "returned"
  /\ UNCHANGED <<kind, answer, wire, cl, got, start>>

-----------------------------------------------------------------------------
(* The client.  A call goes through the phases first, data, eof and ends   *)
(* with a result (ok), the daemon's error, a protocol error, a response    *)
(* that was cut off, or a timeout.                                         *)

\* What a request function expects, and whether it checks its command itself
\* before it connects.
Expect(reply, checks) == [reply |-> reply, checks |-> checks]

HealthCall             == Expect("single", FALSE)
TelemetryCall          == Expect("telemetry", FALSE)
NetworkCall            == Expect("network", FALSE)
UsageCall              == Expect("usage", TRUE)
RemoteCapabilitiesCall == Expect("single", FALSE)
SystemInfoCall         == Expect("single", FALSE)
RemoteProfileCall      == Expect("single", TRUE)
SecretCall             == Expect("single", TRUE)
RemoteSessionCall      == Expect("single", TRUE)
TerminalCall           == Expect("single", TRUE)
TransferCall           == Expect("single", TRUE)
TransferListCall       == Expect("tasks", TRUE)
LocalHandleCall        == Expect("single", TRUE)
SpeedTestCancelCall    == Expect("single", FALSE)
SpeedTestDeepCall      == Expect("single", TRUE)
NotesCall              == Expect("single", TRUE)
NotesListCall          == Expect("notes", TRUE)
NotesContentCall       == Expect("content", TRUE)
TerminalStreamCall     == Expect("stream", TRUE)

Calls ==
  [Health |-> HealthCall, Telemetry |-> TelemetryCall, Network |-> NetworkCall, Usage |-> UsageCall,
   RemoteCapabilities |-> RemoteCapabilitiesCall, SystemInfo |-> SystemInfoCall,
   RemoteProfile |-> RemoteProfileCall, Secret |-> SecretCall, RemoteSession |-> RemoteSessionCall,
   Terminal |-> TerminalCall, TerminalStream |-> TerminalStreamCall, Transfer |-> TransferCall,
   TransferList |-> TransferListCall, LocalHandle |-> LocalHandleCall,
   SpeedTestCancel |-> SpeedTestCancelCall, SpeedTestDeep |-> SpeedTestDeepCall,
   Notes |-> NotesCall, NotesList |-> NotesListCall, NotesGet |-> NotesContentCall,
   NotesExport |-> NotesContentCall]

Phase(pc, next, frames) == [pc |-> pc, next |-> next, frames |-> frames, request |-> "good"]

\* connect(), unless the call refuses its own command.
Call(c, k, request) ==
  /\ sv[c] = "none" /\ serving # "returned"
  /\ request = "invalid" => Arms[k].checked /\ ~Calls[k].checks
  /\ kind' = [kind EXCEPT ![c] = k]
  /\ sv' = [sv EXCEPT ![c] = "backlog"]
  /\ cl' = [cl EXCEPT ![c] = [Phase("calling", 0, 0) EXCEPT !.request = request]]
  /\ UNCHANGED <<held, plan, answer, wire, got, start, serving>>

SendRequest(c) ==
  /\ cl[c].pc = "calling"
  /\ cl' = [cl EXCEPT ![c].pc = "first"]
  /\ UNCHANGED <<kind, sv, held, plan, answer, wire, got, start, serving>>

\* validate_stream_declaration with the limits of the kind; for content the
\* exact number of frames.
StartIsValid(reply, f) ==
  /\ f.snap /\ f.frames + 2 <= MaxFrames
  /\ (f.total = 0) = (f.frames = 0)
  /\ f.frames <= f.total /\ f.first <= f.total
  /\ IF reply = "content" THEN f.frames = (f.total + MaxFrame - 1) \div MaxFrame
     ELSE f.total <= MaxRecords

\* WireBudget: what the call may receive, with the frame that comes after n
\* others and brings its records to recs.
WithinBudget(n, recs) == n + 1 <= MaxFrames /\ n + 1 + Size(recs) <= MaxWire

\* The first frame: the single reply, the start of a plan, or an error.
FirstFrame(c, f) ==
  LET reply == Calls[kind[c]].reply IN
  IF f.seq # 0 \/ ~WithinBudget(0, f.recs) THEN Phase("protocol", 0, 0)
  ELSE CASE f.body = "error" /\ ~f.snap -> Phase("error-eof", 0, 0)
         [] f.body = "single" /\ reply = "single" /\ ~f.snap -> Phase("ok-eof", 0, 0)
         [] f.body = "start" /\ reply # "single" /\ StartIsValid(reply, f) -> Phase("data", 1, 0)
         [] OTHER -> Phase("protocol", 0, 0)

\* A data frame, checked against what the start frame declared.  (That the
\* first class is complete is noticed only with the end frame.)
ChunkIsValid(c, f) ==
  LET n == Len(got[c]) + Len(f.recs) IN
  /\ Len(f.recs) > 0
  /\ Calls[kind[c]].reply # "content" => Len(f.recs) <= MaxChunk
  /\ cl[c].frames + 1 <= start[c].frames
  /\ n <= start[c].total
  /\ IF f.body = "chunk1" THEN n <= start[c].first ELSE Len(got[c]) >= start[c].first

\* validate_end and its relatives: the end frame repeats the start frame and
\* both agree with what arrived.
EndIsValid(c, f) ==
  /\ f.total = start[c].total /\ f.frames = start[c].frames /\ f.first = start[c].first
  /\ cl[c].frames = start[c].frames
  /\ Len(got[c]) = start[c].total

\* The budget, validate_stream_envelope, then the body.
LaterFrame(c, f) ==
  IF f.seq # cl[c].next \/ ~f.snap \/ ~WithinBudget(cl[c].next, got[c] \o f.recs) THEN Phase("protocol", 0, 0)
  ELSE CASE f.body \in {"chunk1", "chunk2"} /\ ChunkIsValid(c, f) ->
              Phase("data", cl[c].next + 1, cl[c].frames + 1)
         [] f.body = "end" /\ EndIsValid(c, f) -> Phase("ok-eof", 0, 0)
         [] OTHER -> Phase("protocol", 0, 0)

\* read_frame: a frame longer than the codec takes ends the call.
ReadFrame(c) ==
  /\ cl[c].pc \in {"first", "data"} /\ wire[c] # <<>>
  /\ LET f == Head(wire[c])
         next == IF Size(f.recs) > MaxFrame THEN Phase("protocol", 0, 0)
                 ELSE IF cl[c].pc = "first" THEN FirstFrame(c, f) ELSE LaterFrame(c, f)
     IN /\ cl' = [cl EXCEPT ![c] = next]
        /\ start' = [start EXCEPT ![c] = IF f.body = "start" THEN f ELSE @]
        /\ got' = [got EXCEPT ![c] = IF next.pc \in {"data", "ok-eof"} THEN @ \o f.recs ELSE @]
  /\ wire' = [wire EXCEPT ![c] = Tail(@)]
  /\ UNCHANGED <<kind, sv, held, plan, answer, serving>>

\* Faulty variant of ReadEof: the end of the stream ends the data.
ReadEofAsEnd(c) ==
  /\ cl[c].pc \in {"first", "data", "ok-eof", "error-eof"}
  /\ wire[c] = <<>> /\ sv[c] = "closed"
  /\ cl' = [cl EXCEPT ![c].pc = CASE @ \in {"ok-eof", "data"} -> "ok" [] @ = "error-eof" -> "daemon" [] OTHER -> "cut"]
  /\ UNCHANGED <<kind, sv, held, plan, answer, wire, got, start, serving>>

\* expect_eof after the last frame; in the middle it is snapshot_terminal_missing.
ReadEof(c) ==
  /\ cl[c].pc \in {"first", "data", "ok-eof", "error-eof"}
  /\ wire[c] = <<>> /\ sv[c] = "closed"
  /\ cl' = [cl EXCEPT ![c].pc = CASE @ = "ok-eof" -> "ok" [] @ = "error-eof" -> "daemon" [] OTHER -> "cut"]
  /\ UNCHANGED <<kind, sv, held, plan, answer, wire, got, start, serving>>

\* expect_eof: data after the last frame.
TrailingData(c) ==
  /\ cl[c].pc \in {"ok-eof", "error-eof"} /\ wire[c] # <<>>
  /\ cl' = [cl EXCEPT ![c].pc = "protocol"]
  /\ UNCHANGED <<kind, sv, held, plan, answer, wire, got, start, serving>>

ClientTimeout(c) ==
  /\ cl[c].pc \in {"calling", "first", "data", "ok-eof", "error-eof"}
  /\ cl' = [cl EXCEPT ![c].pc = "timeout"]
  /\ UNCHANGED <<kind, sv, held, plan, answer, wire, got, start, serving>>

-----------------------------------------------------------------------------
IpcInit ==
  /\ kind = [c \in Conns |-> "Health"] /\ sv = [c \in Conns |-> "none"]
  /\ held = [c \in Conns |-> {}] /\ plan = [c \in Conns |-> <<>>]
  /\ answer = [c \in Conns |-> <<>>] /\ wire = [c \in Conns |-> <<>>]
  /\ cl = [c \in Conns |-> Phase("idle", 0, 0)] /\ got = [c \in Conns |-> <<>>]
  /\ start = [c \in Conns |-> ErrorFrame] /\ serving = "open"

ServerStep(c) == Accept(c) \/ Dispatch(c) \/ Answer(c) \/ WriteFrame(c) \/ ConnDeadline(c)

ClientStep(c) == SendRequest(c) \/ ReadFrame(c) \/ ReadEof(c) \/ TrailingData(c) \/ ClientTimeout(c)

IpcNext ==
  \/ \E c \in Conns : \/ \E k \in KindsOf[c], r \in {"good", "invalid", "other version"} : Call(c, k, r)
                      \/ ServerStep(c) \/ ClientStep(c) \/ StreamCloses(c)
  \/ StopServing \/ ServeEnds

IpcSpec == IpcInit /\ [][IpcNext]_ipcVars

-----------------------------------------------------------------------------
\* Variables keep their shapes.
IpcTypeOK ==
  /\ kind \in [Conns -> Kinds]
  /\ sv \in [Conns -> {"none", "backlog", "reading", "provider", "writing", "streaming", "closed"}]
  /\ held \in [Conns -> SUBSET DOMAIN Cap]
  /\ \A c \in Conns : (sv[c] = "writing") = (plan[c] # <<>>)
  /\ serving \in {"open", "draining", "returned"}

\* A call that returns a result returns all of what the provider answered, in
\* order, wherever the server's deadline, an abort or a timeout cut the stream.
AcceptedIsWhole ==
  \A c \in Conns : cl[c].pc = "ok" => got[c] = Content(Arms[kind[c]].reply, answer[c])

\* What the server writes always satisfies the client: the limits that build a
\* plan and the checks that read it agree, so a protocol error is never seen
\* between an appd and a client of the same version.
PlansSatisfyClients == \A c \in Conns : cl[c].pc # "protocol"

\* Whatever order requests come and end in, no more providers run behind a
\* pool than it has permits.
PoolsBoundWork ==
  \A p \in DOMAIN Cap :
    Cardinality({c \in Conns : sv[c] = "provider" /\ (p = "conns" \/ p \in Range(Arms[kind[c]].permits))})
      <= Cap[p]

\* Every accepted connection but a terminal stream ends, also when the
\* provider never answers, the client never reads or no request comes.
ConnectionsEnd ==
  \A c \in Conns : (sv[c] \in {"reading", "provider", "writing"} /\ kind[c] # "TerminalStream") ~> sv[c] = "closed"

\* serve() returns after shutdown although a terminal stream may run for ever.
ServeReturns == serving = "draining" ~> serving = "returned"

\* An exchange is whole or refused: what a client accepts is all of the answer,
\* what the server writes satisfies it, and the pools bound the work
\* (handle_connection_inner, client.rs).
ExchangesAreWhole == IpcTypeOK /\ AcceptedIsWhole /\ PlansSatisfyClients /\ PoolsBoundWork
=============================================================================
