--------------------------- MODULE RemoteSessions ---------------------------
(***************************************************************************)
(* The remote sessions of RemoteRuntime in bins/appd/src/remote.rs: file   *)
(* sessions and terminals that clients open and close, and the sessions of *)
(* transfers.  They share one semaphore.  A client's session is entered in *)
(* a map with a reaper task of its own, which closes it when it has been   *)
(* idle, or open, for too long; shutdown_sessions drains the maps.         *)
(*                                                                         *)
(* A request runs under a deadline (timeout_at in crates/ipc/src/server.rs)*)
(* and is dropped wherever it is when that passes.  Work handed to         *)
(* spawn_blocking is not dropped with it: the thread runs to its end.      *)
(*                                                                         *)
(* Time is relative: how long a session has been open and idle, and how    *)
(* long a reaper still sleeps.  The adapter at the other end is external.  *)
(***************************************************************************)
EXTENDS Naturals, FiniteSets

CONSTANTS
  Sessions,     \* sessions that may ever be opened
  Terminals,    \* those that are terminals
  Transfers,    \* those that belong to transfer workers
  Blocking,     \* those served by spawn_blocking: all but SFTP
  MaxSessions,  \* MAX_REMOTE_SESSIONS
  IdleTimeout,  \* REMOTE_SESSION_IDLE_TIMEOUT
  MaxLease,     \* REMOTE_SESSION_MAX_LEASE
  MaxClose      \* MAX_REMOTE_CLOSE_CONCURRENCY

ASSUME SessionsAssumption ==
  /\ IsFiniteSet(Sessions)
  /\ Terminals \subseteq Blocking /\ Blocking \subseteq Sessions
  /\ Transfers \subseteq Sessions \ Terminals
  /\ {MaxSessions, IdleTimeout, MaxLease, MaxClose} \subseteq Nat \ {0}

VARIABLES
  admission,  \* session_admission
  stopping,   \* progress of shutdown_sessions
  phase,      \* [Sessions -> Phases]
  waited,     \* sessions whose request is still being served
  permits,    \* sessions that hold a permit of session_capacity
  age,        \* time since opened_at, up to MaxLease
  idle,       \* time since last_activity, up to IdleTimeout
  reaper,     \* [Sessions -> Reapers]
  nap,        \* what is left of the reaper's sleep
  hushed      \* sessions whose reaper_cancel was sent or dropped

times == <<age, idle, nap>>
reapers == <<reaper, hushed>>
sessionVars == <<admission, stopping, phase, waited, permits, times, reapers>>

\* "held": open in a transfer worker; "rejected": being closed because it may
\* not be registered; "closing", "reaping", "leaving": taken out of the map by
\* a request, by its reaper, by the shutdown; "drained": the shutdown has yet
\* to start closing it.
Phases == {"new", "connecting", "connected", "registered", "held", "rejected",
           "closing", "reaping", "drained", "leaving", "closed"}

Reapers == {"none", "look", "sleep", "check", "close", "gone"}

Stops == {"no", "refusing", "files", "terminals", "closing", "done"}

Lesser(m, n) == IF m <= n THEN m ELSE n

SessionsInit ==
  /\ admission = TRUE
  /\ stopping = "no"
  /\ phase = [s \in Sessions |-> "new"]
  /\ waited = {} /\ permits = {}
  /\ age = [s \in Sessions |-> 0] /\ idle = [s \in Sessions |-> 0]
  /\ reaper = [s \in Sessions |-> "none"]
  /\ nap = [s \in Sessions |-> 0]
  /\ hushed = {}

-----------------------------------------------------------------------------
Becomes(s, p) == phase' = [phase EXCEPT ![s] = p]

\* The last owner of the session and of its permit is gone.
Drops(s) ==
  /\ Becomes(s, "closed")
  /\ permits' = permits \ {s}
  /\ waited' = waited \ {s}

\* A permit is reserved before the adapter does any I/O; there is none left
\* when the semaphore is closed or all are taken.
Reserve(s) ==
  /\ phase[s] = "new"
  /\ admission
  /\ Cardinality(permits) < MaxSessions
  /\ Becomes(s, "connecting")
  /\ permits' = permits \cup {s}
  /\ waited' = waited \cup {s}
  /\ UNCHANGED <<admission, stopping, times, reapers>>

ConnectFile(s) == s \notin Terminals \cup Transfers /\ Reserve(s)

OpenTerminal(s) == s \in Terminals /\ Reserve(s)

OpenTransfer(s) == s \in Transfers /\ Reserve(s)

Connect(s) == ConnectFile(s) \/ OpenTerminal(s) \/ OpenTransfer(s)

\* The adapter answers: an error, or a session for a request that may be over.
ConnectEnds(s) ==
  /\ phase[s] = "connecting"
  /\ \/ Drops(s)
     \/ s \in waited /\ Becomes(s, "connected") /\ UNCHANGED <<permits, waited>>
  /\ UNCHANGED <<admission, stopping, times, reapers>>

TurnDown(s) ==
  /\ Becomes(s, "rejected")
  /\ UNCHANGED <<waited, times, reapers>>

\* The entry of the map, made now, and the reaper that is spawned for it.
Register(s) ==
  /\ Becomes(s, "registered")
  /\ waited' = waited \ {s}
  /\ age' = [age EXCEPT ![s] = 0] /\ idle' = [idle EXCEPT ![s] = 0]
  /\ reaper' = [reaper EXCEPT ![s] = "look"]
  /\ UNCHANGED <<nap, hushed>>

\* The admission is checked and the session entered in one critical section.
\* A file session of unusable capabilities is turned down in any case.
RegisterFile(s, admitted) ==
  /\ s \notin Terminals \cup Transfers
  /\ TurnDown(s) \/ (admitted /\ Register(s))

RegisterTerminal(s, admitted) ==
  /\ s \in Terminals
  /\ IF admitted THEN Register(s) ELSE TurnDown(s)

\* The worker of a transfer is given the session with its permit.
HandOut(s, admitted) ==
  /\ s \in Transfers
  /\ IF admitted
     THEN Becomes(s, "held") /\ UNCHANGED <<waited, times, reapers>>
     ELSE TurnDown(s)

Admits(s, admitted) ==
  /\ phase[s] = "connected"
  /\ RegisterFile(s, admitted) \/ RegisterTerminal(s, admitted) \/ HandOut(s, admitted)
  /\ UNCHANGED <<admission, stopping, permits>>

\* Faulty variant of Admit: the admission is not looked at again.
AdmitAlways(s) == Admits(s, TRUE)

Admit(s) == Admits(s, admission)

\* session() and active_terminal_session(): every use of a file session, and
\* what is typed into a terminal; reading from a terminal does not count.
Touch(s) ==
  /\ phase[s] = "registered"
  /\ idle' = [idle EXCEPT ![s] = 0]
  /\ UNCHANGED <<admission, stopping, phase, waited, permits, age, nap, reapers>>

\* The entry leaves the map, and its reaper is told.
TakeOut(s) ==
  /\ phase[s] = "registered"
  /\ Becomes(s, "closing")
  /\ waited' = waited \cup {s}
  /\ hushed' = hushed \cup {s}
  /\ UNCHANGED <<admission, stopping, permits, times, reaper>>

DisconnectFile(s) == s \notin Terminals /\ TakeOut(s)

CloseTerminal(s) == s \in Terminals /\ TakeOut(s)

Disconnect(s) == DisconnectFile(s) \/ CloseTerminal(s)

\* The worker of a transfer is done with its session, or was dropped.
Release(s) ==
  /\ phase[s] = "held"
  /\ Becomes(s, "closing") \/ Becomes(s, "closed")
  /\ permits' = IF phase'[s] = "closed" THEN permits \ {s} ELSE permits
  /\ waited' = IF phase'[s] = "closed" THEN waited \ {s} ELSE waited
  /\ UNCHANGED <<admission, stopping, times, reapers>>

\* A disconnect on a thread of its own; a transfer's runs in the worker.
Detached(s) == phase[s] \in {"rejected", "closing"} /\ s \in Blocking \ Transfers

\* Faulty variant of GiveUp: the permit of a connect goes with the request.
GiveUpPermit(s) ==
  /\ s \in waited
  /\ phase[s] \in {"connecting", "connected", "rejected", "closing"}
  /\ waited' = waited \ {s}
  /\ permits' = permits \ {s}
  /\ IF Detached(s) \/ (phase[s] = "connecting" /\ s \in Blocking)
     THEN UNCHANGED phase ELSE Becomes(s, "closed")
  /\ UNCHANGED <<admission, stopping, times, reapers>>

\* The deadline of the request passes, or its worker is aborted.  A blocking
\* connect keeps its permit (spawn_blocking_holding_permit); a detached
\* disconnect goes on too, but the permit was the request's.
GiveUp(s) ==
  /\ s \in waited
  /\ \/ /\ phase[s] = "connecting" /\ s \in Blocking
        /\ waited' = waited \ {s}
        /\ UNCHANGED <<phase, permits>>
     \/ /\ Detached(s)
        /\ waited' = waited \ {s}
        /\ permits' = permits \ {s}
        /\ UNCHANGED phase
     \/ /\ phase[s] = "connecting" /\ s \notin Blocking
        /\ Drops(s)
     \/ /\ phase[s] \in {"connected", "rejected", "closing"} /\ ~Detached(s)
        /\ Drops(s)
  /\ UNCHANGED <<admission, stopping, times, reapers>>

\* disconnect() or close() returns; its result is of no further use.
CloseEnds(s) ==
  /\ phase[s] \in {"rejected", "closing", "reaping", "leaving"}
  /\ Drops(s)
  /\ reaper' = IF phase[s] = "reaping" THEN [reaper EXCEPT ![s] = "gone"] ELSE reaper
  /\ UNCHANGED <<admission, stopping, times, hushed>>

-----------------------------------------------------------------------------
\* Faulty variant of ExpiryWait: the later of the two deadlines.
ExpiryWaitLater(s) ==
  IF MaxLease - age[s] >= IdleTimeout - idle[s]
  THEN MaxLease - age[s] ELSE IdleTimeout - idle[s]

\* Faulty variant of ExpiryWait: the operands of the subtractions swapped.
ExpiryWaitSwapped(s) == Lesser(age[s] - MaxLease, idle[s] - IdleTimeout)

ExpiryWait(s) == Lesser(MaxLease - age[s], IdleTimeout - idle[s])

\* Faulty variant of Expired: the lease is forgotten.
ExpiredWhenIdle(s) == idle[s] >= IdleTimeout

Expired(s) == age[s] >= MaxLease \/ idle[s] >= IdleTimeout

\* The loop of reap_*_session_when_idle: look how long to wait, under the lock.
ReaperLooks(s) ==
  /\ reaper[s] = "look"
  /\ \/ /\ phase[s] # "registered"
        /\ reaper' = [reaper EXCEPT ![s] = "gone"]
        /\ UNCHANGED nap
     \/ /\ phase[s] = "registered"
        /\ nap' = [nap EXCEPT ![s] = ExpiryWait(s)]
        /\ reaper' = [reaper EXCEPT ![s] = IF ExpiryWait(s) = 0 THEN "check" ELSE "sleep"]
  /\ UNCHANGED <<admission, stopping, phase, waited, permits, age, idle, hushed>>

\* select! between the sleep and the cancellation.
ReaperWakes(s) ==
  /\ reaper[s] = "sleep"
  /\ \/ nap[s] = 0 /\ reaper' = [reaper EXCEPT ![s] = "look"] /\ UNCHANGED nap
     \/ /\ s \in hushed
        /\ reaper' = [reaper EXCEPT ![s] = "gone"]
        /\ nap' = [nap EXCEPT ![s] = 0]
  /\ UNCHANGED <<admission, stopping, phase, waited, permits, age, idle, hushed>>

\* Faulty variant of ReaperChecks: what was seen before the lock was given up
\* still counts.
ReaperTrusts(s) ==
  /\ reaper[s] = "check"
  /\ IF phase[s] = "registered"
     THEN Becomes(s, "reaping") /\ reaper' = [reaper EXCEPT ![s] = "close"]
     ELSE reaper' = [reaper EXCEPT ![s] = "look"] /\ UNCHANGED phase
  /\ UNCHANGED <<admission, stopping, waited, permits, times, hushed>>

\* The second lock: the session is taken out only if it is still expired.
ReaperChecks(s) ==
  /\ reaper[s] = "check"
  /\ IF phase[s] = "registered" /\ Expired(s)
     THEN Becomes(s, "reaping") /\ reaper' = [reaper EXCEPT ![s] = "close"]
     ELSE reaper' = [reaper EXCEPT ![s] = "look"] /\ UNCHANGED phase
  /\ UNCHANGED <<admission, stopping, waited, permits, times, hushed>>

-----------------------------------------------------------------------------
\* shutdown_sessions, step by step.
CloseAdmission ==
  /\ stopping = "no"
  /\ admission' = FALSE
  /\ stopping' = "refusing"
  /\ UNCHANGED <<phase, waited, permits, times, reapers>>

\* shutdown_transfer_runner returns.
RunnerStopped ==
  /\ stopping = "refusing"
  /\ stopping' = "files"
  /\ UNCHANGED <<admission, phase, waited, permits, times, reapers>>

\* Faulty variant of Drain: the reapers are not told.
DrainQuietly(S, next) ==
  /\ stopping' = next
  /\ phase' = [s \in Sessions |->
                 IF s \in S /\ phase[s] = "registered" THEN "drained" ELSE phase[s]]
  /\ UNCHANGED <<admission, waited, permits, times, reapers>>

\* drain() of one of the two maps, with reaper_cancel.send for each entry.
Drain(S, next) ==
  /\ stopping' = next
  /\ phase' = [s \in Sessions |->
                 IF s \in S /\ phase[s] = "registered" THEN "drained" ELSE phase[s]]
  /\ hushed' = hushed \cup {s \in S : phase[s] = "registered"}
  /\ UNCHANGED <<admission, waited, permits, times, reaper>>

DrainFiles == stopping = "files" /\ Drain(Sessions \ Terminals, "terminals")

DrainTerminals == stopping = "terminals" /\ Drain(Terminals, "closing")

Leaving == {s \in Sessions : phase[s] = "leaving"}

\* Faulty variant of ShutdownCloses: one place too few.
ShutdownClosesFewer(s) ==
  /\ stopping = "closing"
  /\ phase[s] = "drained"
  /\ Cardinality(Leaving) + 1 < MaxClose
  /\ Becomes(s, "leaving")
  /\ UNCHANGED <<admission, stopping, waited, permits, times, reapers>>

\* The JoinSet of shutdown_sessions takes MaxClose sessions at a time.
ShutdownCloses(s) ==
  /\ stopping = "closing"
  /\ phase[s] = "drained"
  /\ Cardinality(Leaving) < MaxClose
  /\ Becomes(s, "leaving")
  /\ UNCHANGED <<admission, stopping, waited, permits, times, reapers>>

ShutdownEnds ==
  /\ stopping = "closing"
  /\ \A s \in Sessions : phase[s] \notin {"drained", "leaving"}
  /\ stopping' = "done"
  /\ UNCHANGED <<admission, phase, waited, permits, times, reapers>>

Elapse ==
  /\ age' = [s \in Sessions |-> IF phase[s] = "registered"
                                THEN Lesser(age[s] + 1, MaxLease) ELSE age[s]]
  /\ idle' = [s \in Sessions |-> IF phase[s] = "registered"
                                 THEN Lesser(idle[s] + 1, IdleTimeout) ELSE idle[s]]
  /\ nap' = [s \in Sessions |-> IF nap[s] = 0 THEN 0 ELSE nap[s] - 1]
  /\ UNCHANGED <<admission, stopping, phase, waited, permits, reapers>>

Reaper(s) == ReaperLooks(s) \/ ReaperWakes(s) \/ ReaperChecks(s)

Stopper ==
  \/ RunnerStopped \/ DrainFiles \/ DrainTerminals \/ ShutdownEnds
  \/ \E s \in Sessions : ShutdownCloses(s)

SessionsNext ==
  \/ \E s \in Sessions :
       \/ Connect(s) \/ ConnectEnds(s) \/ Admit(s) \/ Touch(s) \/ Disconnect(s)
       \/ Release(s) \/ GiveUp(s) \/ CloseEnds(s) \/ Reaper(s)
  \/ CloseAdmission \/ Stopper \/ Elapse

SessionsSpec == SessionsInit /\ [][SessionsNext]_sessionVars

\* Time passes, reapers and the shutdown are scheduled, and connecting and
\* closing end (the adapters bound both).
FairSessions ==
  /\ SessionsSpec
  /\ WF_sessionVars(Elapse)
  /\ WF_sessionVars(Stopper)
  /\ \A s \in Sessions : /\ WF_sessionVars(Reaper(s))
                         /\ WF_sessionVars(ConnectEnds(s))
                         /\ WF_sessionVars(Admit(s))
                         /\ WF_sessionVars(CloseEnds(s))

-----------------------------------------------------------------------------
\* The values of the variables; in particular no sleep of a reaper is negative
\* (the saturating subtractions of session_expiry_wait).
SessionsTypeOK ==
  /\ admission \in BOOLEAN
  /\ stopping \in Stops
  /\ phase \in [Sessions -> Phases]
  /\ waited \subseteq Sessions /\ permits \subseteq Sessions
  /\ age \in [Sessions -> 0..MaxLease]
  /\ idle \in [Sessions -> 0..IdleTimeout]
  /\ reaper \in [Sessions -> Reapers]
  /\ nap \in [Sessions -> Nat]
  /\ hushed \subseteq Sessions

Abandoned(s) == Detached(s) /\ s \notin waited

InUse == {s \in Sessions : phase[s] \notin {"new", "closed"} /\ ~Abandoned(s)}

\* Exactly the sessions in use hold a permit, so the capacity neither leaks nor
\* is exceeded: also while a connect nobody waits for any more is running, and
\* with the one exception of a disconnect whose request gave up
\* (spawn_blocking_holding_permit, run_session_future).
CapacityKept == permits = InUse /\ Cardinality(permits) <= MaxSessions

\* Once the shutdown has emptied the two maps nothing is entered again, however
\* late a connect comes back, and when it is over every session it found there
\* has been closed (register_*_session against close_session_admission).
ShutdownIsFinal ==
  /\ stopping \in {"terminals", "closing", "done"} =>
       \A s \in Sessions \ Terminals : phase[s] # "registered"
  /\ stopping \in {"closing", "done"} => \A s \in Terminals : phase[s] # "registered"
  /\ stopping = "done" => \A s \in Sessions : phase[s] \notin {"drained", "leaving"}

\* A registered session always has a reaper that nobody has told to stop and
\* that does not sleep past the idle timeout or the end of the lease
\* (register_*_session, session_expiry_wait).
ReapersWatch ==
  \A s \in Sessions : phase[s] = "registered" =>
    /\ reaper[s] \in {"look", "sleep", "check"}
    /\ s \notin hushed
    /\ reaper[s] = "sleep" => nap[s] <= MaxLease - age[s] /\ nap[s] <= IdleTimeout - idle[s]

\* A reaper that still sleeps when its session is gone has been told, so that
\* opening and closing sessions does not pile up sleeping reapers
\* (reaper_cancel.send wherever an entry leaves its map).
ReapersAreTold ==
  \A s \in Sessions : reaper[s] = "sleep" /\ phase[s] # "registered" => s \in hushed

ReapedOnly == \A s \in Sessions : phase'[s] = "reaping" /\ phase[s] # "reaping" => Expired(s)

\* A reaper closes a session only when it has been idle or open for too long at
\* that moment: a use that came while the reaper looked saves it (the second
\* lock of reap_*_session_when_idle).
ReapedOnlyExpired == [][ReapedOnly]_phase

\* However busy, a session is closed in the end: the lease is absolute
\* (REMOTE_SESSION_MAX_LEASE, counted from opened_at).
LeaseEnds ==
  \A s \in Sessions : phase[s] = "registered" ~> phase[s] = "closed"

\* The shutdown terminates, whatever connects and closes were under way
\* (the JoinSet loop of shutdown_sessions).
ShutdownFinishes == stopping = "refusing" ~> stopping = "done"

\* The reapers do their work and no more: every registered session is watched,
\* no reaper sleeps on for a session that is gone, and only an expired one is
\* reaped (reap_file_session_when_idle and its twin for terminals).
ReapersServe == []ReapersWatch /\ []ReapersAreTold /\ ReapedOnlyExpired

\* Everything ends: sessions by their lease, and the shutdown.
SessionsEnd == LeaseEnds /\ ShutdownFinishes
=============================================================================
