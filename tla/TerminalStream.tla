--------------------------- MODULE TerminalStream ---------------------------
(***************************************************************************)
(* A remote terminal from the ssh child to the client that streams it:     *)
(* PtySession and TerminalSession of crates/remote-ssh, terminal_command   *)
(* of bins/appd/src/remote.rs, serve_terminal_stream of                    *)
(* crates/ipc/src/server.rs and request_terminal_stream of its client.rs.  *)
(*                                                                         *)
(* Nobody reads the pty in the background.  Output leaves it when a read   *)
(* or a poll asks for it: a read hands it on, a poll moves it to a bounded *)
(* queue of unread output and to the transcript that the reason of a       *)
(* disconnect is taken from.  Output units are numbered in the order the   *)
(* child writes them; a child that fails writes the reason last.           *)
(***************************************************************************)
EXTENDS Naturals, Sequences

CONSTANTS
  MaxOutput,     \* units a child writes
  MaxCapture     \* MAX_TERMINAL_OUTPUT_BYTES: a poll's budget, the queue's and transcript's bound

ASSUME TerminalAssumption == MaxOutput \in Nat /\ MaxCapture \in Nat \ {0}

VARIABLES
  child,        \* running, hung up (its tty is closed), exited, reaped
  fails,        \* ssh exits with 255 after writing its reason
  lingers,      \* a process of the child keeps the tty open after it
  written,      \* units written so far
  tty,          \* units in the pty
  pending,      \* BoundedPendingOutput: captured, not read
  lost,         \* units it dropped
  transcript,   \* BoundedTranscript
  poller,       \* a poll between its capture and its try_wait
  verdict,      \* the last state a poll reported
  open,         \* the session is in terminal_sessions
  streamPc,     \* serve_terminal_stream
  finalStatus,  \* its final_status, "none" at first
  taken,        \* units that Read commands of others took
  shown         \* what the streaming client was shown

terminalVars == <<child, fails, lingers, written, tty, pending, lost, transcript, poller, verdict,
                  open, streamPc, finalStatus, taken, shown>>
ptyVars == <<child, fails, lingers, written>>
bufferVars == <<tty, pending, lost, transcript>>

NoPoll == <<"none", "none">>
Newest(s) == IF Len(s) > MaxCapture THEN SubSeq(s, Len(s) - MaxCapture + 1, Len(s)) ELSE s
Least(a, b) == IF a < b THEN a ELSE b

-----------------------------------------------------------------------------
(* The child *)

ChildWrites ==
  /\ child = "running" /\ written < MaxOutput
  /\ written' = written + 1 /\ tty' = Append(tty, written + 1)
  /\ UNCHANGED <<child, fails, lingers, pending, lost, transcript, poller, verdict, open, streamPc,
                 finalStatus, taken, shown>>

\* The last descriptor of the tty goes a moment before the exit can be waited for.
ChildHangsUp ==
  /\ child = "running" /\ (fails => written > 0)
  /\ child' = IF lingers THEN "exited" ELSE "hung up"
  /\ UNCHANGED <<fails, lingers, written, bufferVars, poller, verdict, open, streamPc, finalStatus, taken, shown>>

ChildExits ==
  /\ child = "hung up" /\ child' = "exited"
  /\ UNCHANGED <<fails, lingers, written, bufferVars, poller, verdict, open, streamPc, finalStatus, taken, shown>>

-----------------------------------------------------------------------------
(* TerminalSession.  Its callers hold the session's mutex. *)

Unlocked == poller = NoPoll

\* What read_output finds, after the queue, in the pty.
ReadResult ==
  IF pending # <<>> \/ tty # <<>> THEN "data"
  ELSE IF child = "running" \/ lingers THEN "pending"
  ELSE IF child = "hung up" THEN "error" ELSE "end"

\* One unit: from the queue first, else from the pty, which also feeds the transcript.
TakeUnit ==
  /\ UNCHANGED lost
  /\ IF pending # <<>> THEN pending' = Tail(pending) /\ UNCHANGED <<tty, transcript>>
     ELSE tty' = Tail(tty) /\ transcript' = Newest(Append(transcript, Head(tty))) /\ UNCHANGED pending

Unit == IF pending # <<>> THEN Head(pending) ELSE Head(tty)

\* Faulty variant of Capture: the queue of unread output has no bound.
CaptureUnbounded ==
  LET n == Least(Len(tty), MaxCapture)
  IN /\ tty' = SubSeq(tty, n + 1, Len(tty))
     /\ pending' = pending \o SubSeq(tty, 1, n)
     /\ transcript' = Newest(transcript \o SubSeq(tty, 1, n))
     /\ UNCHANGED lost

\* capture_pending_output: at most the budget.
Capture ==
  LET n == Least(Len(tty), MaxCapture)
      all == pending \o SubSeq(tty, 1, n)
  IN /\ tty' = SubSeq(tty, n + 1, Len(tty))
     /\ pending' = Newest(all)
     /\ lost' = lost + Len(all) - Len(pending')
     /\ transcript' = Newest(transcript \o SubSeq(tty, 1, n))

Exhausted == Len(tty) >= MaxCapture

\* classify_session.
Classify ==
  IF child \notin {"exited", "reaped"} THEN "running"
  ELSE IF ~fails THEN "exited"
  ELSE IF \E i \in DOMAIN transcript : transcript[i] = written THEN "reason" ELSE "openssh failure"

\* poll_state, first half: the capture.  "who" is the stream or a Poll command.
PollCaptures(who) ==
  /\ Unlocked /\ open
  /\ poller' = IF Exhausted THEN <<who, "exhausted">> ELSE <<who, "drained">>
  /\ Capture

\* Second half: the child is waited for, its exit is classified only when the
\* capture drained the pty.
PollResult == IF poller[2] = "exhausted" THEN "running" ELSE Classify

PollWaits ==
  /\ poller # NoPoll
  /\ child' = IF child = "exited" THEN "reaped" ELSE child
  /\ poller' = NoPoll
  /\ verdict' = PollResult

\* PtySession::close: SIGHUP, a grace period, SIGKILL, and the child is reaped.
\* close_terminal_session has taken the session out of the table before.
Close ==
  /\ open /\ open' = FALSE
  /\ Unlocked
  /\ child' = "reaped" /\ verdict' = "closed"
  /\ UNCHANGED <<fails, lingers, written, bufferVars, poller, streamPc, finalStatus, taken, shown>>

-----------------------------------------------------------------------------
(* terminal_command: Poll and Read of other clients *)

PollCommand ==
  /\ PollCaptures("command")
  /\ UNCHANGED <<ptyVars, verdict, open, streamPc, finalStatus, taken, shown>>

PollAnswered ==
  /\ poller # NoPoll /\ poller[1] = "command" /\ PollWaits
  /\ UNCHANGED <<fails, lingers, written, bufferVars, open, streamPc, finalStatus, taken, shown>>

ReadCommand ==
  /\ Unlocked /\ open /\ ReadResult = "data"
  /\ TakeUnit /\ taken' = taken + 1
  /\ UNCHANGED <<ptyVars, poller, verdict, open, streamPc, finalStatus, shown>>

-----------------------------------------------------------------------------
(* serve_terminal_stream: a first poll, then reads; every now and then a   *)
(* poll, until one shows that the terminal has ended.                      *)

StreamStarts ==
  /\ streamPc = "new" /\ PollCaptures("stream") /\ streamPc' = "polling"
  /\ UNCHANGED <<ptyVars, verdict, open, finalStatus, taken, shown>>

StreamReads ==
  /\ streamPc = "reading" /\ Unlocked /\ open
  /\ \/ ReadResult = "data"
        /\ TakeUnit /\ shown' = Append(shown, Unit) /\ streamPc' = "status"
     \/ ReadResult = "pending" /\ streamPc' = (IF finalStatus # "none" THEN "ended" ELSE "status")
        /\ UNCHANGED <<bufferVars, shown>>
     \/ ReadResult = "end" /\ streamPc' = (IF finalStatus # "none" THEN "ended" ELSE "ending")
        /\ UNCHANGED <<bufferVars, shown>>
     \/ ReadResult = "error" /\ streamPc' = "broken" /\ UNCHANGED <<bufferVars, shown>>
  /\ UNCHANGED <<ptyVars, poller, verdict, open, finalStatus, taken>>

\* Faulty variant of StreamPolls: after the end of the output nobody polls.
StreamPollsLate ==
  /\ streamPc = "status" /\ finalStatus = "none" /\ ReadResult = "data" /\ PollCaptures("stream")
  /\ streamPc' = "polling"
  /\ UNCHANGED <<ptyVars, verdict, open, finalStatus, taken, shown>>

\* A status is due every 100 ms, and at once after the end of the output.
StreamPolls ==
  /\ streamPc \in {"status", "ending"} /\ finalStatus = "none" /\ PollCaptures("stream")
  /\ streamPc' = IF streamPc = "ending" THEN "closing" ELSE "polling"
  /\ UNCHANGED <<ptyVars, verdict, open, finalStatus, taken, shown>>

StreamSkipsPoll ==
  /\ streamPc = "status" /\ Unlocked /\ streamPc' = "reading"
  /\ UNCHANGED <<ptyVars, bufferVars, poller, verdict, open, finalStatus, taken, shown>>

\* Faulty variant of StreamLearns: the end is announced with the status.
StreamLearnsAndEnds ==
  /\ streamPc \in {"polling", "closing"} /\ PollWaits
  /\ streamPc' = IF verdict' # "running" THEN "ended" ELSE "reading"
  /\ finalStatus' = IF verdict' = "running" THEN "none" ELSE verdict'
  /\ UNCHANGED <<fails, lingers, written, bufferVars, open, taken, shown>>

\* After a final status the loop reads on until nothing is left.
StreamLearns ==
  /\ streamPc \in {"polling", "closing"} /\ PollWaits
  /\ streamPc' = IF streamPc = "closing" /\ verdict' # "running" THEN "ended" ELSE "reading"
  /\ finalStatus' = IF verdict' = "running" THEN "none" ELSE verdict'
  /\ UNCHANGED <<fails, lingers, written, bufferVars, open, taken, shown>>

\* The session was closed, a provider call timed out, or the client is gone.
StreamBreaks ==
  /\ streamPc \in {"new", "reading", "status", "ending"} /\ ~open
  /\ streamPc' = "broken"
  /\ UNCHANGED <<ptyVars, bufferVars, poller, verdict, open, finalStatus, taken, shown>>

StreamStep == StreamStarts \/ StreamReads \/ StreamPolls \/ StreamSkipsPoll \/ StreamLearns \/ StreamBreaks

\* The 100 ms pass: a status that is due is asked for.
StatusStep == StreamStarts \/ StreamPolls \/ StreamLearns

-----------------------------------------------------------------------------
\* PtySession::spawn and register_terminal_session.
TerminalInit ==
  /\ child = "running" /\ fails \in BOOLEAN /\ lingers \in BOOLEAN
  /\ written = 0 /\ tty = <<>> /\ pending = <<>> /\ lost = 0 /\ transcript = <<>>
  /\ poller = NoPoll /\ verdict = "running" /\ open = TRUE
  /\ streamPc = "new" /\ finalStatus = "none" /\ taken = 0 /\ shown = <<>>

TerminalNext ==
  \/ ChildWrites \/ ChildHangsUp \/ ChildExits
  \/ PollCommand \/ PollAnswered \/ ReadCommand \/ Close \/ StreamStep

TerminalSpec == TerminalInit /\ [][TerminalNext]_terminalVars

-----------------------------------------------------------------------------
\* The variables keep their shapes; no buffer outgrows its bound.
TerminalTypeOK ==
  /\ child \in {"running", "hung up", "exited", "reaped"}
  /\ Len(pending) <= MaxCapture /\ Len(transcript) <= MaxCapture
  /\ verdict \in {"running", "exited", "reason", "openssh failure", "closed"}
  /\ streamPc \in {"new", "polling", "reading", "status", "ending", "closing", "ended", "broken"}

\* The client is shown output in the order the child wrote it, whoever polls
\* or reads in between, and an End frame comes after all of it: every unit was
\* shown, taken by a Read command, or counted as dropped.
EndMeansAll ==
  /\ \A i \in 1..Len(shown) - 1 : shown[i] < shown[i + 1]
  /\ streamPc = "ended" => written = Len(shown) + lost + taken

\* A stream ends, with an End frame or without, once its terminal has ended.
StreamEnds == (child = "reaped" \/ child = "exited") ~> streamPc \in {"ended", "broken"}

\* The unread output stays within its bound, and End means all of it was
\* accounted for (serve_terminal_stream, terminal_bridge.rs).
OutputIsComplete == TerminalTypeOK /\ EndMeansAll
=============================================================================
