----------------------------- MODULE MCServices -----------------------------
(***************************************************************************)
(* The remote adapters, the collectors and the daemon's life for TLC.  The *)
(* parts share no state, so one run checks them side by side: "part"       *)
(* chooses the one a behaviour is about.                                   *)
(***************************************************************************)
EXTENDS RemoteAdapters, RemoteRead, FtpsTrace, AppdShutdown,
        NetworkCounters, NetworkSupervisor, AppGrouping

VARIABLE part

MCSizeOf == [w \in Writers |-> IF w = "a" THEN 2 ELSE 1]

(* Two cgroups of one application, three of two, and three of too many. *)
MCBindings ==
  {[c \in {7, 8} |-> "a"], [c \in {7, 8, 9} |-> IF c = 8 THEN "b" ELSE "a"],
   [c \in {7, 8, 9} |-> <<"app", c>>]}

remoteVars == <<adapterVars, readVars, traceVars>>
daemonVars == <<telemetryVars, shutdownVars>>
networkVars == <<netVars, counterVars, netSupVars>>
processVars == <<groupingVars, samplingVars>>

(* The variables of the parts a behaviour is not about have one value. *)
MCInit ==
  /\ part \in {"write", "read", "trace", "telemetry", "daemon", "links", "counters", "network",
               "grouping", "sampling"}
  /\ AdapterInit /\ (part # "write" => protocol = "sftp" /\ server = [p \in {} |-> <<>>])
  /\ ReadInit /\ (part # "read" => /\ object.size = 0 /\ reading.protocol = "sftp"
                                  /\ reading.expects = "nothing")
  /\ IF part = "trace" THEN TraceInit ELSE trace = <<>> /\ edits = 0
  /\ ShutdownInit /\ NetInit /\ CountersInit
  /\ NetSupInit /\ (part # "network" => collector.capability = "degraded")
  /\ IF part = "grouping" THEN GroupingInit
     ELSE /\ ppid = [p \in Processes |-> 0] /\ scope = [p \in Processes |-> "none"]
          /\ group = [p \in Processes |-> UnknownOf(p)] /\ bound = [s \in {} |-> 0] /\ pass = "read"
  /\ SamplingInit

RemoteParts ==
  \/ part = "write" /\ AdapterNext /\ UNCHANGED <<readVars, traceVars>>
  \/ part = "read" /\ ReadNext /\ UNCHANGED <<adapterVars, traceVars>>
  \/ part = "trace" /\ Observe /\ UNCHANGED <<adapterVars, readVars>>

(* In the part about the daemon's stop the supervisor's clocks stand still; its *)
(* deadlines are those of DeadlinePasses.                                       *)
DaemonParts ==
  \/ part = "telemetry" /\ (TelemetryNext \/ StopTelemetry) /\ UNCHANGED shutdownVars
  \/ part = "daemon" /\ ShutdownNext /\ store'.age = 0

NetworkParts ==
  \/ part = "links" /\ NetNext /\ UNCHANGED <<counterVars, netSupVars>>
  \/ part = "counters" /\ CountersNext /\ UNCHANGED <<netVars, netSupVars>>
  \/ part = "network" /\ NetSupNext /\ UNCHANGED <<netVars, counterVars>>

ProcessParts ==
  \/ part = "grouping" /\ GroupingNext /\ UNCHANGED samplingVars
  \/ part = "sampling" /\ SamplingNext /\ UNCHANGED groupingVars

MCNext ==
  /\ UNCHANGED part
  /\ \/ RemoteParts /\ UNCHANGED <<daemonVars, networkVars, processVars>>
     \/ DaemonParts /\ UNCHANGED <<remoteVars, networkVars, processVars>>
     \/ NetworkParts /\ UNCHANGED <<remoteVars, daemonVars, processVars>>
     \/ ProcessParts /\ UNCHANGED <<remoteVars, daemonVars, networkVars>>

MCVars == <<part, remoteVars, daemonVars, networkVars, processVars>>

MCSpec == MCInit /\ [][MCNext]_MCVars
=============================================================================
