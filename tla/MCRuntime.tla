------------------------------ MODULE MCRuntime ------------------------------
(***************************************************************************)
(* The small concurrent parts of appd for TLC.  They share no state, so    *)
(* one run checks them side by side: "part" chooses the module a behaviour *)
(* is about.                                                               *)
(***************************************************************************)
EXTENDS SpeedTest, UsageQuery, IpcExchange, TerminalStream

VARIABLE part

\* One connection carries every request with every small result; in another
\* part three connections compete for the pools.
MCKindsOf == [solo |-> Kinds, c1 |-> {"NotesExport"}, c2 |-> {"NotesExport"}, c3 |-> {"TerminalStream"}]
MCResultsOf == [solo |-> UNION {[1..n -> {1, 2, 4}] : n \in 0..3} \cup {<<1, 1, 1, 1, 1>>},
                c1 |-> {<<>>}, c2 |-> {<<>>}, c3 |-> {<<>>}]
MCCap == [conns |-> 2, streams |-> 2, exports |-> 1]
MCConfigured == Kinds \ {"SpeedTestDeep"}

MCInit ==
  /\ part \in {"speed", "query", "ipc", "pools", "terminal"}
  /\ SpeedInit /\ QueryInit /\ IpcInit /\ TerminalInit
  /\ part # "speed" => runKind = "basic"
  /\ part # "terminal" => ~fails /\ ~lingers

OnSpeed(A) == part = "speed" /\ A /\ UNCHANGED <<part, queryVars, ipcVars, terminalVars>>
OnQuery(A) == part = "query" /\ A /\ UNCHANGED <<part, speedVars, ipcVars, terminalVars>>
OnIpc(A) ==
  /\ part \in {"ipc", "pools"} /\ A /\ UNCHANGED <<part, speedVars, queryVars, terminalVars>>
  /\ \A c \in Conns : (part = "ipc") = (c = "solo") \/ sv'[c] = sv[c]
  /\ part = "pools" => \A c \in Conns : cl'[c].request = "good"
OnTerminal(A) == part = "terminal" /\ A /\ UNCHANGED <<part, speedVars, queryVars, ipcVars>>

MCNext ==
  \/ OnSpeed(SpeedNext)
  \/ OnQuery(QueryNext)
  \/ OnIpc(IpcNext)
  \/ OnTerminal(TerminalNext)

MCVars == <<part, speedVars, queryVars, ipcVars, terminalVars>>

MCSpec ==
  /\ MCInit /\ [][MCNext]_MCVars
  /\ WF_MCVars(OnSpeed(RunnerStep))
  /\ WF_MCVars(OnSpeed(\E c \in SpeedClients : StreamGoesOn(c)))
  /\ WF_MCVars(OnQuery(QueryThread \/ StopInterrupts \/ StopWakes \/ Join))
  /\ \A c \in Conns : WF_MCVars(OnIpc(ConnDeadline(c)))
  /\ WF_MCVars(OnIpc(ServeEnds))
  /\ SF_MCVars(OnTerminal(StreamStep)) /\ WF_MCVars(OnTerminal(PollAnswered))
  /\ SF_MCVars(OnTerminal(StatusStep))

(* What a client waits for ends, whatever the client does: speed test runs,       *)
(* connections, terminal streams, and at shutdown serve() and the query thread.   *)
RequestsEnd == RunEnds /\ ConnectionsEnd /\ StreamEnds /\ ServeReturns /\ ShutdownJoins
=============================================================================
