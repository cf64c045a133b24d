--------------------------- MODULE RemoteProfiles ---------------------------
(***************************************************************************)
(* The profile store of the remote runtime (bins/appd/src/remote.rs): the  *)
(* commands of several clients, the gate they share with the enqueueing of *)
(* transfers, and the executor's life, which decides where the references  *)
(* of transfers are looked up.                                             *)
(*                                                                         *)
(* A command that changes a profile takes profile_transfer_gate in the     *)
(* request's future, asks whether a transfer names the profile, and then   *)
(* runs the store's transaction on a blocking worker.  Aborting the        *)
(* request drops the gate; the worker runs on.  Enqueue takes the same     *)
(* gate, loads the profile on a blocking worker and then queues the task.  *)
(* While the runtime stops, the requests still being served find the       *)
(* executor gone and use the snapshot of references that was taken when    *)
(* it began to stop.                                                       *)
(***************************************************************************)
EXTENDS Integers, Sequences, FiniteSets

CONSTANTS
  ProfileIds,     \* profile ids: numbers, ordered as the store orders them
  Callers,        \* the connections that send commands
  MaxProfileRevision,    \* bound on the revision of a profile
  MaxTasks,       \* bound on the transfers queued
  PageLimit,      \* the limit of a list query
  Protocols       \* the protocols profiles may have, of "ssh", "sftp", "ftp", "smb"

ASSUME ProfilesAssumption ==
  /\ ProfileIds \subseteq Nat \ {0}
  /\ MaxProfileRevision \in Nat /\ MaxTasks \in Nat
  /\ PageLimit \in Nat \ {0}
  /\ "free" \notin Callers

VARIABLES
  profiles,       \* the rows of remote_profiles
  tasks,          \* the rows of the transfer store, as [id, protocol]
  executor,       \* "absent", "open", "snapshot" (references copied), "closing", "gone"
  inactive,       \* inactive_profile_refs
  gate,           \* the caller that holds profile_transfer_gate, or "free"
  call,           \* the command each caller runs
  worker,         \* blocking store work whose request was aborted
  walk,           \* one client's walk over the pages of the profile list
  bypassed        \* history: a request was aborted, or a task queued after the snapshot

profileVars == <<profiles, tasks, executor, inactive, gate, call, worker, walk, bypassed>>

Row == [protocol : Protocols, jumps : SUBSET ProfileIds, revision : 0..MaxProfileRevision]
None == -1

(* The commands a client can send; expected = None is a create. *)
Upserts ==
  {c \in [op : {"upsert"}, id : ProfileIds, protocol : Protocols,
          jumps : {{}} \cup {{i} : i \in ProfileIds}, expected : None..MaxProfileRevision - 1] :
     c.jumps # {} => c.protocol \in {"ssh", "sftp"} /\ c.jumps # {c.id}}
Deletes == [op : {"delete"}, id : ProfileIds, expected : 0..MaxProfileRevision]
Enqueues == [op : {"enqueue"}, id : ProfileIds]
CallerIdle == [step |-> "idle"]
Stale(c, referenced) == [command |-> c, referenced |-> referenced]
Walks == [after : {0} \cup ProfileIds, seen : Seq(ProfileIds), since : SUBSET ProfileIds,
          done : BOOLEAN]

ReferencedProfiles == {t.id : t \in tasks}
NoWalk == [after |-> 0, seen |-> <<>>, since |-> {}, done |-> TRUE]

ProfilesInit ==
  /\ profiles = [i \in {} |-> {}] /\ tasks = {} /\ executor = "absent" /\ inactive = {}
  /\ gate = "free" /\ call = [k \in Callers |-> CallerIdle] /\ worker = {}
  /\ walk = NoWalk /\ bypassed = FALSE

(* Faulty variant of Ends: the gate outlives the request. *)
EndsKeepingGate(k) == call' = [call EXCEPT ![k] = CallerIdle] /\ UNCHANGED gate
Ends(k) == call' = [call EXCEPT ![k] = CallerIdle] /\ gate' = "free"

(* transfer_profile_is_referenced, under the gate: the executor's tasks while it is  *)
(* open, an error once it is closing, the snapshot when it is gone.                   *)
LooksUp(c) == c.id \in (IF executor \in {"open", "snapshot"} THEN ReferencedProfiles ELSE inactive)

(* Faulty variant of TakeGate: the command does not wait for the gate. *)
TakeGateAtOnce(k) ==
  /\ call[k].step = "idle" /\ executor \in {"open", "snapshot", "gone"}
  /\ \E c \in Upserts \cup Deletes \cup Enqueues :
       /\ executor = "gone" => c.op # "enqueue"
       /\ call' = [call EXCEPT ![k] = [step |-> "gated", command |-> c, referenced |-> LooksUp(c)]]
  /\ UNCHANGED <<profiles, tasks, executor, inactive, gate, worker, walk, bypassed>>

(* A command gets the gate.  While the executor is closing the lookup fails, and so     *)
(* does an enqueue when it is gone: neither changes anything.                            *)
TakeGate(k) ==
  /\ call[k].step = "idle" /\ gate = "free" /\ executor \in {"open", "snapshot", "gone"}
  /\ \E c \in Upserts \cup Deletes \cup Enqueues :
       /\ executor = "gone" => c.op # "enqueue"
       /\ call' = [call EXCEPT ![k] = [step |-> "gated", command |-> c, referenced |-> LooksUp(c)]]
  /\ gate' = k
  /\ UNCHANGED <<profiles, tasks, executor, inactive, worker, walk, bypassed>>

(* profile_is_referenced: another stored profile jumps through it, or a transfer names it. *)
ProfileIsReferenced(id, referenced) ==
  referenced \/ \E i \in DOMAIN profiles \ {id} : id \in profiles[i].jumps

(* RemoteProfileStore::execute under the store's mutex: the rows after command c. *)
Execute(c, referenced) ==
  IF c.op = "delete"
    THEN IF /\ ~ProfileIsReferenced(c.id, referenced) /\ c.id \in DOMAIN profiles
            /\ profiles[c.id].revision = c.expected
           THEN [i \in DOMAIN profiles \ {c.id} |-> profiles[i]] ELSE profiles
    ELSE IF IF c.id \in DOMAIN profiles
              THEN /\ c.expected = profiles[c.id].revision
                   /\ profiles[c.id].protocol # c.protocol => ~ProfileIsReferenced(c.id, referenced)
              ELSE c.expected = None
           THEN [i \in DOMAIN profiles \cup {c.id} |->
                   IF i = c.id THEN [protocol |-> c.protocol, jumps |-> c.jumps,
                                     revision |-> c.expected + 1]
                               ELSE profiles[i]]
           ELSE profiles

(* The rows the walk can count on are those that have existed since it began. *)
Rows(rows) ==
  /\ profiles' = rows
  /\ walk' = [walk EXCEPT !.since = @ \cap DOMAIN rows]

(* The store's transaction of a request that still waits for it; it may fail. *)
Work(k) ==
  /\ call[k].step = "gated" /\ call[k].command.op # "enqueue"
  /\ \E rows \in {profiles, Execute(call[k].command, call[k].referenced)} : Rows(rows)
  /\ Ends(k)
  /\ UNCHANGED <<tasks, executor, inactive, worker, bypassed>>

(* transfer_command: load the profile, refuse one that has no file adapter. *)
Load(k) ==
  /\ call[k].step = "gated" /\ call[k].command.op = "enqueue"
  /\ LET id == call[k].command.id IN
     IF id \in DOMAIN profiles /\ profiles[id].protocol # "ssh"
       THEN /\ call' = [call EXCEPT ![k] = [step |-> "loaded", command |-> call[k].command,
                                            protocol |-> profiles[id].protocol]]
            /\ UNCHANGED gate
       ELSE Ends(k)
  /\ UNCHANGED <<profiles, tasks, executor, inactive, worker, walk, bypassed>>

(* enqueue_public: ensure_open, then the queue's insert. *)
Enqueue(k) ==
  /\ call[k].step = "loaded"
  /\ IF executor \in {"open", "snapshot"} /\ Cardinality(tasks) < MaxTasks
       THEN /\ tasks' = tasks \cup {[id |-> call[k].command.id, protocol |-> call[k].protocol]}
            /\ bypassed' = (bypassed \/ executor = "snapshot")
       ELSE UNCHANGED <<tasks, bypassed>>
  /\ Ends(k)
  /\ UNCHANGED <<profiles, executor, inactive, worker, walk>>

(* The server's grace period runs out: it aborts the requests it still serves; the    *)
(* blocking work a request had begun is not aborted.  (Bound: one such worker at once.) *)
Abort(k) ==
  /\ executor \in {"snapshot", "closing", "gone"} /\ call[k].step # "idle" /\ worker = {}
  /\ call' = [call EXCEPT ![k] = CallerIdle]
  /\ gate' = IF gate = k THEN "free" ELSE gate
  /\ IF call[k].step = "gated" /\ call[k].command.op # "enqueue"
       THEN /\ worker' = worker \cup {Stale(call[k].command, call[k].referenced)}
            /\ bypassed' = TRUE
       ELSE UNCHANGED <<worker, bypassed>>
  /\ UNCHANGED <<profiles, tasks, executor, inactive, walk>>

OrphanWork ==
  /\ \E w \in worker : Rows(Execute(w.command, w.referenced)) /\ worker' = worker \ {w}
  /\ UNCHANGED <<tasks, executor, inactive, gate, call, bypassed>>

(* start_transfer_runner, then the four stages of shutdown_transfer_runner. *)
Turn(from, to) == executor = from /\ executor' = to
StartRunner ==
  /\ Turn("absent", "open") /\ inactive' = ReferencedProfiles
  /\ UNCHANGED <<profiles, tasks, gate, call, worker, walk, bypassed>>
StopRunner ==
  /\ \/ Turn("open", "snapshot") /\ inactive' = ReferencedProfiles
     \/ (Turn("snapshot", "closing") \/ Turn("closing", "gone")) /\ UNCHANGED inactive
  /\ UNCHANGED <<profiles, tasks, gate, call, worker, walk, bypassed>>

(* The process ends and a new one opens the stores.  (Bound: not after a bypass, which *)
(* the properties excuse for good.)                                                     *)
Restart ==
  /\ executor = "gone" /\ ~bypassed /\ executor' = "absent" /\ inactive' = ReferencedProfiles
  /\ gate' = "free" /\ call' = [k \in Callers |-> CallerIdle] /\ worker' = {}
  /\ walk' = NoWalk
  /\ UNCHANGED <<profiles, tasks, bypassed>>

(* The page of a list query: the first PageLimit rows above "after", in id order. *)
After(a) == {i \in DOMAIN profiles : i > a}
Page(a) == {i \in After(a) : Cardinality({j \in After(a) : j < i}) < PageLimit}

(* Faulty variant of NextAfter: the cursor is the first id that was left out. *)
NextAfterSkips(a) == CHOOSE i \in After(a) \ Page(a) : \A j \in After(a) \ Page(a) : i <= j
NextAfter(a) == CHOOSE i \in Page(a) : \A j \in Page(a) : j <= i
InOrder(S) == CHOOSE s \in [1..Cardinality(S) -> S] : \A i, j \in DOMAIN s : i < j => s[i] < s[j]

BeginWalk ==
  /\ walk.done /\ executor # "absent" /\ DOMAIN profiles # {}
  /\ walk' = [after |-> 0, seen |-> <<>>, since |-> DOMAIN profiles, done |-> FALSE]
  /\ UNCHANGED <<profiles, tasks, executor, inactive, gate, call, worker, bypassed>>

ListPage ==
  /\ ~walk.done
  /\ walk' = [walk EXCEPT !.seen = @ \o InOrder(Page(walk.after)),
                          !.done = After(walk.after) = Page(walk.after),
                          !.after = IF After(walk.after) = Page(walk.after) THEN 0
                                    ELSE NextAfter(walk.after)]
  /\ UNCHANGED <<profiles, tasks, executor, inactive, gate, call, worker, bypassed>>

GateNext ==
  \/ \E k \in Callers : TakeGate(k) \/ Work(k) \/ Load(k) \/ Enqueue(k) \/ Abort(k)
  \/ OrphanWork \/ StartRunner \/ StopRunner \/ Restart

ProfilePagesNext ==
  \/ \E k \in Callers : TakeGate(k) \/ Work(k) \/ Load(k) \/ Enqueue(k)
  \/ StartRunner \/ BeginWalk \/ ListPage

ProfilesSpec == ProfilesInit /\ [][GateNext \/ ProfilePagesNext]_profileVars
-----------------------------------------------------------------------------
(* Every variable has its type (remote.rs RemoteProfileStore, TransferRunnerControl); *)
(* the gate is held by a request that has begun its work.                              *)
ProfilesTypeOK ==
  /\ DOMAIN profiles \subseteq ProfileIds /\ \A i \in DOMAIN profiles : profiles[i] \in Row
  /\ tasks \subseteq [id : ProfileIds, protocol : Protocols]
  /\ executor \in {"absent", "open", "snapshot", "closing", "gone"}
  /\ inactive \subseteq ProfileIds
  /\ gate # "free" => call[gate].step \in {"gated", "loaded"}
  /\ walk \in Walks

(* A transfer's profile stays stored, with the protocol the transfer was queued for:   *)
(* profile_command and transfer_command exclude each other by the gate, and a profile  *)
(* a task names is neither deleted nor moved to another protocol, also while the       *)
(* runtime starts and stops.  Only an aborted request whose worker runs on, or a task  *)
(* queued between the snapshot of references and request_shutdown, can break it.       *)
TransfersKeepProfile ==
  bypassed \/ \A t \in tasks : /\ t.id \in DOMAIN profiles
                               /\ profiles[t.id].protocol = t.protocol

(* A walk over the pages of the list, with profiles stored and deleted in between,     *)
(* lists every profile that existed all the time, each once and in order: the cursor   *)
(* is the last id of the page (remote.rs execute, List).                               *)
WalkIsComplete ==
  /\ \A i, j \in DOMAIN walk.seen : i < j => walk.seen[i] < walk.seen[j]
  /\ walk.done => walk.since \subseteq {walk.seen[i] : i \in DOMAIN walk.seen}

\* Profiles can be relied on: by the transfers that name them and by a client
\* that walks the list (profile_command, execute).
ProfilesAreKept == ProfilesTypeOK /\ TransfersKeepProfile /\ WalkIsComplete
=============================================================================
