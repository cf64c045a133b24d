------------------------ MODULE RemoteSessionsProofs ------------------------
(***************************************************************************)
(* Theorems about RemoteSessions, for every number of sessions, every      *)
(* capacity and every pair of timeouts, and about RemoteProfiles, for      *)
(* every set of profiles and clients and every page limit.                 *)
(***************************************************************************)
EXTENDS RemoteSessions, RemoteProfiles, FiniteSetTheorems, SequenceTheorems, TLAPS

\* A session not yet admitted has neither a reaper nor anyone to silence one;
\* and only a request that is still served finds its session connected.
Unadmitted ==
  \A s \in Sessions : phase[s] \in {"new", "connecting", "connected"} =>
    /\ reaper[s] = "none" /\ s \notin hushed
    /\ phase[s] = "connected" => s \in waited

\* The admission is closed from the first step of the shutdown on.
AdmissionEnds == admission = (stopping = "no")

\* Only the last two steps of the shutdown leave sessions to be closed.
DrainedLate ==
  \A s \in Sessions : phase[s] \in {"drained", "leaving"} =>
    stopping \in {"terminals", "closing"}

\* Only transfer workers hold sessions outside the maps.
HeldByWorkers == \A s \in Sessions : phase[s] = "held" => s \in Transfers

PermitsTrack == permits = InUse

Bounded == Cardinality(permits) <= MaxSessions

SInv ==
  /\ SessionsTypeOK
  /\ Unadmitted
  /\ AdmissionEnds
  /\ DrainedLate
  /\ HeldByWorkers
  /\ PermitsTrack
  /\ Bounded
  /\ ShutdownIsFinal
  /\ ReapersWatch
  /\ ReapersAreTold

USE SessionsAssumption

\* SInv holds at the start.
LEMMA SInvInit == SessionsInit => SInv
<1> SUFFICES ASSUME SessionsInit PROVE SInv
    OBVIOUS
<1> USE DEF SessionsInit
<1>1. SessionsTypeOK
  BY DEF SessionsTypeOK, Stops, Phases, Reapers
<1>2. Unadmitted /\ AdmissionEnds /\ DrainedLate /\ HeldByWorkers
  BY DEF Unadmitted, AdmissionEnds, DrainedLate, HeldByWorkers
<1>3. PermitsTrack
  BY DEF PermitsTrack, InUse
<1>4. Bounded
  BY FS_EmptySet DEF Bounded
<1>5. ShutdownIsFinal /\ ReapersWatch /\ ReapersAreTold
  BY DEF ShutdownIsFinal, ReapersWatch, ReapersAreTold
<1> QED
  BY <1>1, <1>2, <1>3, <1>4, <1>5 DEF SInv

\* Giving a permit back, or keeping all, keeps the bound.
LEMMA FewerPermits ==
  ASSUME SessionsTypeOK, Bounded, permits' \subseteq permits
  PROVE  Bounded'
<1>1. IsFiniteSet(permits)
  BY FS_Subset DEF SessionsTypeOK
<1>2. Cardinality(permits') <= Cardinality(permits) /\ Cardinality(permits) \in Nat
      /\ Cardinality(permits') \in Nat
  BY <1>1, FS_Subset, FS_CardinalityType
<1> QED
  BY <1>2 DEF Bounded

\* One more permit is within the bound when there was room for it.
LEMMA OneMorePermit ==
  ASSUME SessionsTypeOK, NEW s \in Sessions, Cardinality(permits) < MaxSessions,
         permits' = permits \cup {s}
  PROVE  Bounded'
<1>1. IsFiniteSet(permits)
  BY FS_Subset DEF SessionsTypeOK
<1>2. Cardinality(permits') \in {Cardinality(permits), Cardinality(permits) + 1}
      /\ Cardinality(permits) \in Nat
  BY <1>1, FS_AddElement, FS_CardinalityType
<1> QED
  BY <1>2 DEF Bounded

\* The three ways in which a connected session goes on.
LEMMA AdmitWays ==
  ASSUME NEW s \in Sessions, Admit(s)
  PROVE  /\ phase[s] = "connected" /\ UNCHANGED <<admission, stopping, permits>>
         /\ \/ TurnDown(s)
            \/ admission /\ Register(s)
            \/ s \in Transfers /\ Becomes(s, "held") /\ UNCHANGED <<waited, times, reapers>>
  BY DEF Admit, Admits, RegisterFile, RegisterTerminal, HandOut

\* Every step keeps the types.
LEMMA TypeStep == ASSUME SInv, [SessionsNext]_sessionVars PROVE SessionsTypeOK'
<1> USE DEF SInv, SessionsTypeOK, Stops, Phases, Reapers, times, reapers, Becomes, Drops, Lesser
<1>1. ASSUME NEW s \in Sessions, Connect(s) PROVE SessionsTypeOK'
  BY <1>1 DEF Connect, ConnectFile, OpenTerminal, OpenTransfer, Reserve
<1>2. ASSUME NEW s \in Sessions, ConnectEnds(s) PROVE SessionsTypeOK'
  BY <1>2 DEF ConnectEnds
<1>3. ASSUME NEW s \in Sessions, Admit(s) PROVE SessionsTypeOK'
  BY <1>3 DEF Admit, Admits, RegisterFile, RegisterTerminal,
              HandOut, TurnDown, Register
<1>4. ASSUME NEW s \in Sessions, Touch(s) PROVE SessionsTypeOK'
  BY <1>4 DEF Touch
<1>5. ASSUME NEW s \in Sessions, Disconnect(s) PROVE SessionsTypeOK'
  BY <1>5 DEF Disconnect, DisconnectFile, CloseTerminal, TakeOut
<1>6. ASSUME NEW s \in Sessions, Release(s) PROVE SessionsTypeOK'
  BY <1>6 DEF Release
<1>7. ASSUME NEW s \in Sessions, GiveUp(s) PROVE SessionsTypeOK'
  BY <1>7 DEF GiveUp
<1>8. ASSUME NEW s \in Sessions, CloseEnds(s) PROVE SessionsTypeOK'
  BY <1>8 DEF CloseEnds
<1>9. ASSUME NEW s \in Sessions, ReaperLooks(s) PROVE SessionsTypeOK'
  BY <1>9 DEF ReaperLooks, ExpiryWait
<1>10. ASSUME NEW s \in Sessions, ReaperWakes(s) PROVE SessionsTypeOK'
  BY <1>10 DEF ReaperWakes
<1>11. ASSUME NEW s \in Sessions, ReaperChecks(s) PROVE SessionsTypeOK'
  BY <1>11 DEF ReaperChecks
<1>12. ASSUME CloseAdmission \/ RunnerStopped \/ ShutdownEnds PROVE SessionsTypeOK'
  BY <1>12 DEF CloseAdmission, RunnerStopped, ShutdownEnds
<1>13. ASSUME DrainFiles \/ DrainTerminals PROVE SessionsTypeOK'
  BY <1>13 DEF DrainFiles, DrainTerminals, Drain
<1>14. ASSUME NEW s \in Sessions, ShutdownCloses(s) PROVE SessionsTypeOK'
  BY <1>14 DEF ShutdownCloses
<1>15. ASSUME Elapse PROVE SessionsTypeOK'
  BY <1>15 DEF Elapse
<1>16. ASSUME UNCHANGED sessionVars PROVE SessionsTypeOK'
  BY <1>16 DEF sessionVars
<1> QED
  BY <1>1, <1>2, <1>3, <1>4, <1>5, <1>6, <1>7, <1>8, <1>9, <1>10, <1>11, <1>12, <1>13, <1>14,
     <1>15, <1>16 DEF SessionsNext, Reaper, Stopper

\* The shutdown proceeds in order, and leaves no session behind.
LEMMA StopStep ==
  ASSUME SInv, [SessionsNext]_sessionVars PROVE (AdmissionEnds /\ DrainedLate /\ ShutdownIsFinal)'
<1> USE DEF SInv, SessionsTypeOK, times, reapers, Becomes, Drops,
           AdmissionEnds, DrainedLate, ShutdownIsFinal
<1>1. ASSUME NEW s \in Sessions, Connect(s) PROVE (AdmissionEnds /\ DrainedLate /\ ShutdownIsFinal)'
  BY <1>1 DEF Connect, ConnectFile, OpenTerminal, OpenTransfer, Reserve
<1>2. ASSUME NEW s \in Sessions, ConnectEnds(s) PROVE (AdmissionEnds /\ DrainedLate /\ ShutdownIsFinal)'
  BY <1>2 DEF ConnectEnds
<1>3. ASSUME NEW s \in Sessions, Admit(s) PROVE (AdmissionEnds /\ DrainedLate /\ ShutdownIsFinal)'
  <2>1. CASE TurnDown(s)
    BY <1>3, <2>1, AdmitWays DEF TurnDown
  <2>2. CASE admission /\ Register(s)
    <3>1. stopping = "no"
      BY <2>2
    <3> QED
      BY <1>3, <2>2, <3>1, AdmitWays DEF Register
  <2>3. CASE Becomes(s, "held") /\ UNCHANGED <<waited, times, reapers>>
    BY <1>3, <2>3, AdmitWays
  <2> QED
    BY <1>3, <2>1, <2>2, <2>3, AdmitWays
<1>4. ASSUME NEW s \in Sessions, Touch(s) PROVE (AdmissionEnds /\ DrainedLate /\ ShutdownIsFinal)'
  BY <1>4 DEF Touch
<1>5. ASSUME NEW s \in Sessions, Disconnect(s) PROVE (AdmissionEnds /\ DrainedLate /\ ShutdownIsFinal)'
  BY <1>5 DEF Disconnect, DisconnectFile, CloseTerminal, TakeOut
<1>6. ASSUME NEW s \in Sessions, Release(s) PROVE (AdmissionEnds /\ DrainedLate /\ ShutdownIsFinal)'
  BY <1>6 DEF Release
<1>7. ASSUME NEW s \in Sessions, GiveUp(s) PROVE (AdmissionEnds /\ DrainedLate /\ ShutdownIsFinal)'
  BY <1>7 DEF GiveUp
<1>8. ASSUME NEW s \in Sessions, CloseEnds(s) PROVE (AdmissionEnds /\ DrainedLate /\ ShutdownIsFinal)'
  BY <1>8 DEF CloseEnds
<1>9. ASSUME NEW s \in Sessions, ReaperLooks(s) PROVE (AdmissionEnds /\ DrainedLate /\ ShutdownIsFinal)'
  BY <1>9 DEF ReaperLooks, ExpiryWait
<1>10. ASSUME NEW s \in Sessions, ReaperWakes(s) PROVE (AdmissionEnds /\ DrainedLate /\ ShutdownIsFinal)'
  BY <1>10 DEF ReaperWakes
<1>11. ASSUME NEW s \in Sessions, ReaperChecks(s) PROVE (AdmissionEnds /\ DrainedLate /\ ShutdownIsFinal)'
  BY <1>11 DEF ReaperChecks, Expired
<1>12. ASSUME CloseAdmission PROVE (AdmissionEnds /\ DrainedLate /\ ShutdownIsFinal)'
  BY <1>12 DEF CloseAdmission
<1>13. ASSUME RunnerStopped \/ ShutdownEnds PROVE (AdmissionEnds /\ DrainedLate /\ ShutdownIsFinal)'
  BY <1>13 DEF RunnerStopped, ShutdownEnds
<1>14. ASSUME DrainFiles \/ DrainTerminals PROVE (AdmissionEnds /\ DrainedLate /\ ShutdownIsFinal)'
  BY <1>14 DEF DrainFiles, DrainTerminals, Drain
<1>15. ASSUME NEW s \in Sessions, ShutdownCloses(s) PROVE (AdmissionEnds /\ DrainedLate /\ ShutdownIsFinal)'
  BY <1>15 DEF ShutdownCloses
<1>16. ASSUME Elapse PROVE (AdmissionEnds /\ DrainedLate /\ ShutdownIsFinal)'
  BY <1>16 DEF Elapse
<1>17. ASSUME UNCHANGED sessionVars PROVE (AdmissionEnds /\ DrainedLate /\ ShutdownIsFinal)'
  BY <1>17 DEF sessionVars
<1> QED
  BY <1>1, <1>2, <1>3, <1>4, <1>5, <1>6, <1>7, <1>8, <1>9, <1>10, <1>11, <1>12,
     <1>13, <1>14, <1>15, <1>16, <1>17 DEF SessionsNext, Reaper, Stopper

\* Reapers watch what is registered, and hear of what is gone.
LEMMA ReaperStep ==
  ASSUME SInv, [SessionsNext]_sessionVars PROVE (Unadmitted /\ ReapersWatch /\ ReapersAreTold)'
<1> USE DEF SInv, SessionsTypeOK, times, reapers, Becomes, Drops, Lesser,
           Unadmitted, ReapersWatch, ReapersAreTold
<1>1. ASSUME NEW s \in Sessions, Connect(s) PROVE (Unadmitted /\ ReapersWatch /\ ReapersAreTold)'
  BY <1>1 DEF Connect, ConnectFile, OpenTerminal, OpenTransfer, Reserve
<1>2. ASSUME NEW s \in Sessions, ConnectEnds(s) PROVE (Unadmitted /\ ReapersWatch /\ ReapersAreTold)'
  BY <1>2 DEF ConnectEnds
<1>3. ASSUME NEW s \in Sessions, Admit(s) PROVE (Unadmitted /\ ReapersWatch /\ ReapersAreTold)'
  BY <1>3 DEF Admit, Admits, RegisterFile, RegisterTerminal,
              HandOut, TurnDown, Register
<1>4. ASSUME NEW s \in Sessions, Touch(s) PROVE (Unadmitted /\ ReapersWatch /\ ReapersAreTold)'
  BY <1>4 DEF Touch
<1>5. ASSUME NEW s \in Sessions, Disconnect(s) PROVE (Unadmitted /\ ReapersWatch /\ ReapersAreTold)'
  BY <1>5 DEF Disconnect, DisconnectFile, CloseTerminal, TakeOut
<1>6. ASSUME NEW s \in Sessions, Release(s) PROVE (Unadmitted /\ ReapersWatch /\ ReapersAreTold)'
  BY <1>6 DEF Release
<1>7. ASSUME NEW s \in Sessions, GiveUp(s) PROVE (Unadmitted /\ ReapersWatch /\ ReapersAreTold)'
  BY <1>7 DEF GiveUp, Detached
<1>8. ASSUME NEW s \in Sessions, CloseEnds(s) PROVE (Unadmitted /\ ReapersWatch /\ ReapersAreTold)'
  BY <1>8 DEF CloseEnds
<1>9. ASSUME NEW s \in Sessions, ReaperLooks(s) PROVE (Unadmitted /\ ReapersWatch /\ ReapersAreTold)'
  BY <1>9 DEF ReaperLooks, ExpiryWait
<1>10. ASSUME NEW s \in Sessions, ReaperWakes(s) PROVE (Unadmitted /\ ReapersWatch /\ ReapersAreTold)'
  BY <1>10 DEF ReaperWakes
<1>11. ASSUME NEW s \in Sessions, ReaperChecks(s) PROVE (Unadmitted /\ ReapersWatch /\ ReapersAreTold)'
  BY <1>11 DEF ReaperChecks, Expired
<1>12. ASSUME CloseAdmission PROVE (Unadmitted /\ ReapersWatch /\ ReapersAreTold)'
  BY <1>12 DEF CloseAdmission
<1>13. ASSUME RunnerStopped \/ ShutdownEnds PROVE (Unadmitted /\ ReapersWatch /\ ReapersAreTold)'
  BY <1>13 DEF RunnerStopped, ShutdownEnds
<1>14. ASSUME DrainFiles \/ DrainTerminals PROVE (Unadmitted /\ ReapersWatch /\ ReapersAreTold)'
  BY <1>14 DEF DrainFiles, DrainTerminals, Drain
<1>15. ASSUME NEW s \in Sessions, ShutdownCloses(s) PROVE (Unadmitted /\ ReapersWatch /\ ReapersAreTold)'
  BY <1>15 DEF ShutdownCloses
<1>16. ASSUME Elapse PROVE (Unadmitted /\ ReapersWatch /\ ReapersAreTold)'
  BY <1>16 DEF Elapse
<1>17. ASSUME UNCHANGED sessionVars PROVE (Unadmitted /\ ReapersWatch /\ ReapersAreTold)'
  BY <1>17 DEF sessionVars
<1> QED
  BY <1>1, <1>2, <1>3, <1>4, <1>5, <1>6, <1>7, <1>8, <1>9, <1>10, <1>11, <1>12,
     <1>13, <1>14, <1>15, <1>16, <1>17 DEF SessionsNext, Reaper, Stopper

\* Permits follow the sessions in use.
LEMMA PermitStep ==
  ASSUME SInv, [SessionsNext]_sessionVars PROVE (HeldByWorkers /\ PermitsTrack)'
<1> USE DEF SInv, SessionsTypeOK, times, reapers, Becomes, Drops,
           HeldByWorkers, PermitsTrack, InUse, Abandoned, Detached, Unadmitted
<1>1. ASSUME NEW s \in Sessions, Connect(s) PROVE (HeldByWorkers /\ PermitsTrack)'
  BY <1>1 DEF Connect, ConnectFile, OpenTerminal, OpenTransfer, Reserve
<1>2. ASSUME NEW s \in Sessions, ConnectEnds(s) PROVE (HeldByWorkers /\ PermitsTrack)'
  BY <1>2 DEF ConnectEnds
<1>3. ASSUME NEW s \in Sessions, Admit(s) PROVE (HeldByWorkers /\ PermitsTrack)'
  BY <1>3 DEF Admit, Admits, RegisterFile, RegisterTerminal,
              HandOut, TurnDown, Register
<1>4. ASSUME NEW s \in Sessions, Touch(s) PROVE (HeldByWorkers /\ PermitsTrack)'
  BY <1>4 DEF Touch
<1>5. ASSUME NEW s \in Sessions, Disconnect(s) PROVE (HeldByWorkers /\ PermitsTrack)'
  BY <1>5 DEF Disconnect, DisconnectFile, CloseTerminal, TakeOut
<1>6. ASSUME NEW s \in Sessions, Release(s) PROVE (HeldByWorkers /\ PermitsTrack)'
  BY <1>6 DEF Release
<1>7. ASSUME NEW s \in Sessions, GiveUp(s) PROVE (HeldByWorkers /\ PermitsTrack)'
  BY <1>7 DEF GiveUp
<1>8. ASSUME NEW s \in Sessions, CloseEnds(s) PROVE (HeldByWorkers /\ PermitsTrack)'
  BY <1>8 DEF CloseEnds
<1>9. ASSUME NEW s \in Sessions, ReaperLooks(s) PROVE (HeldByWorkers /\ PermitsTrack)'
  BY <1>9 DEF ReaperLooks, ExpiryWait
<1>10. ASSUME NEW s \in Sessions, ReaperWakes(s) PROVE (HeldByWorkers /\ PermitsTrack)'
  BY <1>10 DEF ReaperWakes
<1>11. ASSUME NEW s \in Sessions, ReaperChecks(s) PROVE (HeldByWorkers /\ PermitsTrack)'
  BY <1>11 DEF ReaperChecks, Expired
<1>12. ASSUME CloseAdmission PROVE (HeldByWorkers /\ PermitsTrack)'
  BY <1>12 DEF CloseAdmission
<1>13. ASSUME RunnerStopped \/ ShutdownEnds PROVE (HeldByWorkers /\ PermitsTrack)'
  BY <1>13 DEF RunnerStopped, ShutdownEnds
<1>14. ASSUME DrainFiles \/ DrainTerminals PROVE (HeldByWorkers /\ PermitsTrack)'
  BY <1>14 DEF DrainFiles, DrainTerminals, Drain
<1>15. ASSUME NEW s \in Sessions, ShutdownCloses(s) PROVE (HeldByWorkers /\ PermitsTrack)'
  BY <1>15 DEF ShutdownCloses
<1>16. ASSUME Elapse PROVE (HeldByWorkers /\ PermitsTrack)'
  BY <1>16 DEF Elapse
<1>17. ASSUME UNCHANGED sessionVars PROVE (HeldByWorkers /\ PermitsTrack)'
  BY <1>17 DEF sessionVars
<1> QED
  BY <1>1, <1>2, <1>3, <1>4, <1>5, <1>6, <1>7, <1>8, <1>9, <1>10, <1>11, <1>12,
     <1>13, <1>14, <1>15, <1>16, <1>17 DEF SessionsNext, Reaper, Stopper

\* The capacity is not exceeded: only Connect takes a permit, and it counts them.
LEMMA BoundStep ==
  ASSUME SInv, [SessionsNext]_sessionVars PROVE Bounded'
<1>1. ASSUME NEW s \in Sessions, Connect(s) PROVE Bounded'
  BY <1>1, OneMorePermit DEF Connect, ConnectFile, OpenTerminal, OpenTransfer, Reserve, SInv
<1>2. CASE permits' \subseteq permits
  BY <1>2, FewerPermits DEF SInv
<1>3. ASSUME NEW s \in Sessions,
             ConnectEnds(s) \/ Admit(s) \/ Touch(s) \/ Disconnect(s) \/ Release(s)
               \/ GiveUp(s) \/ CloseEnds(s) \/ Reaper(s)
      PROVE  permits' \subseteq permits
  BY <1>3 DEF ConnectEnds, Admit, Admits, RegisterFile, RegisterTerminal,
              HandOut, TurnDown, Register, Touch, Disconnect, DisconnectFile,
              CloseTerminal, TakeOut, Release, GiveUp, CloseEnds, Drops,
              Reaper, ReaperLooks, ReaperWakes, ReaperChecks
<1>4. ASSUME CloseAdmission \/ Stopper \/ Elapse \/ UNCHANGED sessionVars
      PROVE  permits' \subseteq permits
  BY <1>4 DEF CloseAdmission, Stopper, RunnerStopped, DrainFiles, DrainTerminals, Drain,
              ShutdownEnds, ShutdownCloses, Elapse, sessionVars
<1> QED
  BY <1>1, <1>2, <1>3, <1>4 DEF SessionsNext

\* SInv is an invariant: the inductive strengthening behind the theorems below.
THEOREM SessionsInvariance == SessionsSpec => []SInv
<1>1. SInv /\ [SessionsNext]_sessionVars => SInv'
  BY TypeStep, StopStep, ReaperStep, PermitStep, BoundStep DEF SInv
<1> QED
  BY SInvInit, <1>1, PTL DEF SessionsSpec

\* Exactly the sessions in use hold one of the shared permits, and there are
\* never more than MAX_REMOTE_SESSIONS of them.
THEOREM CapacityIsKept == SessionsSpec => []CapacityKept
<1>1. SInv => CapacityKept
  BY DEF SInv, PermitsTrack, Bounded, CapacityKept
<1> QED
  BY <1>1, SessionsInvariance, PTL

\* After shutdown_sessions has drained the maps no session is registered again.
THEOREM ShutdownLeavesNothing == SessionsSpec => []ShutdownIsFinal
<1>1. SInv => ShutdownIsFinal
  BY DEF SInv
<1> QED
  BY <1>1, SessionsInvariance, PTL

\* Every registered session has a reaper that wakes in time.
THEOREM ReapersAreOnWatch == SessionsSpec => []ReapersWatch
<1>1. SInv => ReapersWatch
  BY DEF SInv
<1> QED
  BY <1>1, SessionsInvariance, PTL

\* No reaper goes on sleeping, untold, after its session was removed.
THEOREM ReapersHear == SessionsSpec => []ReapersAreTold
<1>1. SInv => ReapersAreTold
  BY DEF SInv
<1> QED
  BY <1>1, SessionsInvariance, PTL

\* Reapers close only sessions whose idle timeout or lease is over.
THEOREM ReapersAreFair == SessionsSpec => ReapedOnlyExpired
<1>1. SInv /\ [SessionsNext]_sessionVars => [ReapedOnly]_phase
  <2> SUFFICES ASSUME SInv, SessionsNext, NEW t \in Sessions, phase'[t] = "reaping",
                      phase[t] # "reaping"
               PROVE  Expired(t)
    BY DEF ReapedOnly, sessionVars
  <2> USE DEF SInv, SessionsTypeOK, Becomes, Drops
  <2>1. ASSUME NEW s \in Sessions, ReaperChecks(s) PROVE Expired(t)
    BY <2>1 DEF ReaperChecks
  <2>2. ASSUME NEW s \in Sessions,
               Connect(s) \/ ConnectEnds(s) \/ Admit(s) \/ Touch(s) \/ Disconnect(s)
                 \/ Release(s) \/ GiveUp(s) \/ CloseEnds(s) \/ ReaperLooks(s)
                 \/ ReaperWakes(s) \/ ShutdownCloses(s)
        PROVE  FALSE
    BY <2>2 DEF Connect, ConnectFile, OpenTerminal, OpenTransfer, Reserve, ConnectEnds, Admit, Admits, RegisterFile, RegisterTerminal,
              HandOut, TurnDown, Register, Touch, Disconnect, DisconnectFile,
              CloseTerminal, TakeOut, Release, GiveUp,
                CloseEnds, ReaperLooks, ReaperWakes, ShutdownCloses
  <2>3. ASSUME CloseAdmission \/ RunnerStopped \/ DrainFiles \/ DrainTerminals
                 \/ ShutdownEnds \/ Elapse
        PROVE  FALSE
    BY <2>3 DEF CloseAdmission, RunnerStopped, DrainFiles, DrainTerminals, Drain,
                ShutdownEnds, Elapse
  <2> QED
    BY <2>1, <2>2, <2>3 DEF SessionsNext, Reaper, Stopper
<1> QED
  BY <1>1, SessionsInvariance, PTL DEF SessionsSpec, ReapedOnlyExpired

\* The reapers do their work and no more: every registered session is watched,
\* no reaper is left sleeping for a session that is gone, and only an expired
\* session is reaped (reap_file_session_when_idle, reap_terminal_session_when_idle).
THEOREM ReapersDoServe == SessionsSpec => ReapersServe
  BY ReapersAreOnWatch, ReapersHear, ReapersAreFair, PTL DEF ReapersServe
-----------------------------------------------------------------------------
(* The profile store, its gate and the walk over its list *)

HIDE SessionsAssumption

Flag == {TRUE, FALSE}

LEMMA Flags == TRUE \in Flag /\ FALSE \in Flag
BY Zenon DEF Flag

\* What the profiles, the tasks and the executor's references are.
StoreTyped ==
  /\ DOMAIN profiles \subseteq ProfileIds /\ \A i \in DOMAIN profiles : profiles[i] \in Row
  /\ IsFiniteSet(DOMAIN profiles)
  /\ tasks \subseteq [id : ProfileIds, protocol : Protocols]
  /\ executor \in {"absent", "open", "snapshot", "closing", "gone"}
  /\ inactive \subseteq ProfileIds
  /\ bypassed \in Flag

\* A request holds the gate exactly while it works, and every command is one a
\* client can send; what runs on after an abort is a change of a profile.
CommandsTyped ==
  /\ call = [k \in Callers |-> call[k]]
  /\ \A k \in Callers :
       /\ call[k].step \in {"idle", "gated", "loaded"}
       /\ call[k].step = "gated" => call[k].command \in Upserts \cup Deletes \cup Enqueues
       /\ call[k].step = "loaded" => call[k].command \in Enqueues /\ call[k].protocol \in Protocols
       /\ call[k].step # "idle" => gate = k
  /\ gate # "free" => gate \in Callers /\ call[gate].step # "idle"
  /\ \A w \in worker : w.command \in Upserts \cup Deletes

\* What request k learnt under the gate is still so while it works: a profile a
\* task names is known to be referenced, and a loaded profile is as it was.
LookupHolds(k) ==
  /\ (/\ call[k].step = "gated" /\ call[k].command.op # "enqueue"
      /\ call[k].command.id \in ReferencedProfiles)
       => call[k].referenced
  /\ call[k].step = "loaded" =>
       /\ call[k].command.id \in DOMAIN profiles
       /\ profiles[call[k].command.id].protocol = call[k].protocol

LookupsHold ==
  bypassed \/
    /\ worker = {}
    /\ \A k \in Callers : LookupHolds(k)
    /\ executor \in {"snapshot", "closing", "gone"} => ReferencedProfiles \subseteq inactive

\* The walk has listed what it passed and has still existed since it began.
WalkAdvances ==
  /\ walk \in [after : {0} \cup ProfileIds, seen : Seq(ProfileIds), since : SUBSET ProfileIds,
               done : Flag]
  /\ walk.since \subseteq DOMAIN profiles
  /\ ~walk.done =>
       /\ \A i \in DOMAIN walk.seen : walk.seen[i] <= walk.after
       /\ \A x \in walk.since : x <= walk.after => \E i \in DOMAIN walk.seen : walk.seen[i] = x

GateInv == StoreTyped /\ CommandsTyped /\ LookupsHold /\ TransfersKeepProfile
WalkInv == WalkAdvances /\ WalkIsComplete

Below(S, x) == {j \in S : j < x}

\* The rank of an element, as a number of smaller ones, grows with the element.
LEMMA BelowGrows ==
  ASSUME NEW S \in SUBSET Nat, IsFiniteSet(S), NEW x \in S
  PROVE  /\ Cardinality(Below(S, x)) \in Nat
         /\ Cardinality(Below(S, x)) < Cardinality(S)
         /\ \A y \in S : x < y => Cardinality(Below(S, x)) < Cardinality(Below(S, y))
<1>1. \A T \in SUBSET S : IsFiniteSet(T) /\ Cardinality(T) \in Nat
  BY FS_Subset, FS_CardinalityType
<1>2. ASSUME NEW T \in SUBSET S, NEW U \in SUBSET T, T # U
      PROVE  Cardinality(U) < Cardinality(T)
  <2>1. U \in SUBSET S  BY <1>2
  <2>2. Cardinality(U) \in Nat /\ Cardinality(T) \in Nat /\ IsFiniteSet(T)  BY <1>1, <2>1
  <2>3. Cardinality(U) <= Cardinality(T) /\ (Cardinality(T) = Cardinality(U) => T = U)
    BY <2>2, FS_Subset
  <2> QED  BY <1>2, <2>2, <2>3
<1>3. Below(S, x) \in SUBSET S /\ x \notin Below(S, x)
  BY DEF Below
<1>4. Cardinality(Below(S, x)) < Cardinality(S)
  BY <1>2, <1>3
<1>5. ASSUME NEW y \in S, x < y
      PROVE  Cardinality(Below(S, x)) < Cardinality(Below(S, y))
  <2>0. \A j \in S : j \in Nat  OBVIOUS
  <2>1. x \in Below(S, y)  BY <1>5 DEF Below
  <2>2. ASSUME NEW j \in Below(S, x) PROVE j \in Below(S, y)
    <3>1. j \in S /\ j < x  BY DEF Below
    <3>2. j \in Nat /\ x \in Nat /\ y \in Nat  BY <2>0, <3>1
    <3>3. j < y  BY <1>5, <3>1, <3>2
    <3> QED  BY <3>1, <3>3 DEF Below
  <2>3. Below(S, y) \in SUBSET S /\ Below(S, x) \in SUBSET Below(S, y)
    BY <2>2 DEF Below
  <2> QED  BY <1>2, <1>3, <2>1, <2>3
<1> QED  BY <1>1, <1>3, <1>4, <1>5

\* A finite set of numbers can be listed in order, and the list is complete.
LEMMA InOrderLists ==
  ASSUME NEW S \in SUBSET Nat, IsFiniteSet(S)
  PROVE  /\ Cardinality(S) \in Nat
         /\ InOrder(S) \in [1..Cardinality(S) -> S]
         /\ \A i, j \in 1..Cardinality(S) : i < j => InOrder(S)[i] < InOrder(S)[j]
         /\ \A x \in S : \E i \in 1..Cardinality(S) : InOrder(S)[i] = x
<1>0. PICK n \in Nat : n = Cardinality(S)  BY FS_CardinalityType
<1>0a. \A x \in S : x \in Nat  OBVIOUS
<1>1. PICK rank : rank = [x \in S |-> Cardinality(Below(S, x)) + 1]  OBVIOUS
<1>2. \A x \in S : rank[x] \in 1..n
  BY <1>0, <1>1, BelowGrows
<1>3. \A x, y \in S : x < y => rank[x] < rank[y]
  BY <1>0, <1>1, BelowGrows
<1>4. /\ IsFiniteSet(1..n) /\ Cardinality(1..n) = n
  BY FS_Interval, <1>0
<1>5. rank \in Injection(S, 1..n)
  BY <1>1, <1>2, <1>3 DEF Injection, IsInjective
<1>6. rank \in Surjection(S, 1..n)
  BY <1>0, <1>4, <1>5, FS_Injection
<1>7. \A i \in 1..n : \E x \in S : rank[x] = i
  BY <1>6 DEF Surjection
<1>8. PICK s : s = [i \in 1..n |-> CHOOSE x \in S : rank[x] = i]  OBVIOUS
<1>9. \A i \in 1..n : s[i] \in S /\ rank[s[i]] = i
  BY <1>7, <1>8
<1>10. s \in [1..n -> S]
  BY <1>8, <1>9
<1>11. ASSUME NEW i \in 1..n, NEW j \in 1..n, i < j PROVE s[i] < s[j]
  <2>1. s[i] \in S /\ s[j] \in S /\ rank[s[i]] = i /\ rank[s[j]] = j  BY <1>9
  <2>2. s[i] \in Nat /\ s[j] \in Nat  BY <1>0a, <2>1
  <2>3. s[i] < s[j] \/ s[i] = s[j] \/ s[j] < s[i]  BY <2>2
  <2>4. ~(s[j] < s[i])
    <3>1. s[j] < s[i] => rank[s[j]] < rank[s[i]]  BY <1>3, <2>1, Zenon
    <3> QED  BY <1>11, <2>1, <3>1
  <2> QED  BY <1>11, <2>1, <2>3, <2>4
<1>12. PICK t : t = InOrder(S)  OBVIOUS
<1>13. t \in [1..n -> S] /\ \A i, j \in DOMAIN t : i < j => t[i] < t[j]
  <2>1. \E u \in [1..n -> S] : \A i, j \in DOMAIN u : i < j => u[i] < u[j]
    BY <1>10, <1>11
  <2> QED  BY <2>1, <1>0, <1>12 DEF InOrder
<1>14. t \in Injection(1..n, S)
  <2>1. ASSUME NEW i \in 1..n, NEW j \in 1..n, t[i] = t[j] PROVE i = j
    <3>1. i < j \/ i = j \/ j < i  OBVIOUS
    <3>2. t[i] \in Nat /\ t[j] \in Nat  BY <1>13
    <3>3. ~(t[i] < t[j]) /\ ~(t[j] < t[i])  BY <2>1, <3>2
    <3> QED  BY <1>13, <3>1, <3>3
  <2> QED  BY <1>13, <2>1 DEF Injection, IsInjective
<1>15. t \in Surjection(1..n, S)
  BY <1>0, <1>4, <1>14, FS_Injection
<1>16. \A x \in S : \E i \in 1..n : t[i] = x
  BY <1>15 DEF Surjection
<1> QED  BY <1>0, <1>12, <1>13, <1>16

\* A finite set of numbers that is not empty has a least and a greatest element.
LEMMA Extremes ==
  ASSUME NEW S \in SUBSET Nat, IsFiniteSet(S), S # {}
  PROVE  /\ \E x \in S : \A y \in S : x <= y
         /\ \E x \in S : \A y \in S : y <= x
<1>0. PICK n \in Nat : n = Cardinality(S)  BY FS_CardinalityType
<1>0a. \A x \in S : x \in Nat  OBVIOUS
<1>1. n # 0  BY <1>0, FS_EmptySet
<1>2. PICK s \in [1..n -> S] :
        /\ \A i, j \in 1..n : i < j => s[i] < s[j]
        /\ \A x \in S : \E i \in 1..n : s[i] = x
  BY <1>0, InOrderLists
<1>3. s[1] \in S /\ \A y \in S : s[1] <= y
  <2>1. 1 \in 1..n  BY <1>1
  <2>2. ASSUME NEW y \in S PROVE s[1] <= y
    <3>1. PICK i \in 1..n : s[i] = y  BY <1>2
    <3>2. s[1] \in S /\ (i = 1 \/ 1 < i)  BY <1>2, <2>1
    <3>3. s[1] \in Nat  BY <1>0a, <3>2
    <3> QED  BY <1>2, <2>1, <3>1, <3>2, <3>3
  <2> QED  BY <2>1, <2>2
<1>4. s[n] \in S /\ \A y \in S : y <= s[n]
  <2>1. n \in 1..n  BY <1>1
  <2>2. ASSUME NEW y \in S PROVE y <= s[n]
    <3>1. PICK i \in 1..n : s[i] = y  BY <1>2
    <3>2. s[n] \in S /\ (i = n \/ i < n)  BY <1>2, <2>1
    <3>3. s[n] \in Nat  BY <1>0a, <3>2
    <3> QED  BY <1>2, <2>1, <3>1, <3>2, <3>3
  <2> QED  BY <2>1, <2>2
<1> QED  BY <1>3, <1>4

\* The page of a list query is finite, leaves out nothing below its last row, and
\* is empty only at the end of the list.
LEMMA PageIsFirst ==
  ASSUME IsFiniteSet(DOMAIN profiles), DOMAIN profiles \subseteq ProfileIds, NEW a \in Nat
  PROVE  /\ Page(a) \in SUBSET After(a) /\ After(a) \in SUBSET ProfileIds
         /\ IsFiniteSet(Page(a))
         /\ \A x \in Page(a) : \A y \in After(a) : y < x => y \in Page(a)
         /\ After(a) # {} => Page(a) # {}
<1> USE ProfilesAssumption
<1>1. After(a) \in SUBSET DOMAIN profiles /\ After(a) \in SUBSET Nat
  BY DEF After
<1>2. IsFiniteSet(After(a))  BY <1>1, FS_Subset
<1>3. \A x : Below(After(a), x) = {j \in After(a) : j < x}  BY DEF Below
<1>4. Page(a) = {i \in After(a) : Cardinality(Below(After(a), i)) < PageLimit}
  BY DEF Page, Below
<1> HIDE DEF Page
<1>5. IsFiniteSet(Page(a))  BY <1>2, <1>4, FS_Subset
<1>6. ASSUME NEW x \in Page(a), NEW y \in After(a), y < x
      PROVE  y \in Page(a)
  <2>1. Cardinality(Below(After(a), y)) < Cardinality(Below(After(a), x))
    BY <1>1, <1>2, <1>4, <1>6, BelowGrows
  <2>2. Cardinality(Below(After(a), y)) \in Nat /\ Cardinality(Below(After(a), x)) \in Nat
    BY <1>1, <1>2, <1>4, <1>6, BelowGrows
  <2> QED  BY <1>4, <2>1, <2>2
<1>7. ASSUME After(a) # {} PROVE Page(a) # {}
  <2>1. PICK x \in After(a) : \A y \in After(a) : x <= y
    BY <1>1, <1>2, <1>7, Extremes
  <2>2. Below(After(a), x) = {}  BY <1>1, <2>1 DEF Below
  <2>3. Cardinality(Below(After(a), x)) = 0  BY <2>2, FS_EmptySet
  <2> QED  BY <1>4, <2>3
<1> QED  BY <1>1, <1>4, <1>5, <1>6, <1>7

\* The invariants of the gate and of the walk give what the run checks.
LEMMA ProfilesInvGives == GateInv /\ WalkInv => ProfilesAreKept
<1> SUFFICES ASSUME GateInv, WalkInv PROVE ProfilesAreKept
    OBVIOUS
<1>1. Flag = BOOLEAN  BY Zenon DEF Flag
<1>2. walk \in Walks  BY <1>1 DEF WalkInv, WalkAdvances, Walks
<1>3. gate # "free" => call[gate].step \in {"gated", "loaded"}
  BY DEF GateInv, CommandsTyped
<1>4. ProfilesTypeOK
  BY <1>2, <1>3 DEF GateInv, StoreTyped, ProfilesTypeOK
<1> QED
  BY <1>4 DEF GateInv, WalkInv, ProfilesAreKept

\* A step that leaves the profiles and the walk alone leaves the walk's invariant.
LEMMA WalkSame == WalkInv /\ UNCHANGED <<profiles, walk>> => WalkInv'
BY DEF WalkInv, WalkAdvances, WalkIsComplete

\* A step that leaves alone all that the gate guards.
LEMMA GateSame ==
  GateInv /\ UNCHANGED <<profiles, tasks, executor, inactive, gate, call, worker, bypassed>> => GateInv'
<1> SUFFICES ASSUME GateInv, UNCHANGED <<profiles, tasks, executor, inactive, gate, call, worker, bypassed>>
             PROVE  GateInv'
    OBVIOUS
<1>1. StoreTyped' /\ CommandsTyped' /\ TransfersKeepProfile'
  BY DEF GateInv, StoreTyped, CommandsTyped, TransfersKeepProfile
<1>2. LookupsHold'
  BY DEF GateInv, LookupsHold, LookupHolds, ReferencedProfiles
<1> QED  BY <1>1, <1>2 DEF GateInv

\* execute stores rows of their type, and keeps every profile but the command's, and
\* that one too, with its protocol, when it is referenced.
LEMMA ExecuteKeeps ==
  ASSUME StoreTyped, NEW c \in Upserts \cup Deletes, NEW r, NEW rows, rows = Execute(c, r)
  PROVE  /\ DOMAIN rows \subseteq ProfileIds /\ IsFiniteSet(DOMAIN rows)
         /\ \A i \in DOMAIN rows : rows[i] \in Row
         /\ \A i \in DOMAIN profiles : (i = c.id => r) =>
              i \in DOMAIN rows /\ rows[i].protocol = profiles[i].protocol
<1> USE ProfilesAssumption
<1>1. c.id \in ProfileIds  BY DEF Upserts, Deletes
<1>2. /\ IsFiniteSet(DOMAIN profiles \ {c.id}) /\ IsFiniteSet(DOMAIN profiles \cup {c.id})
  BY FS_AddElement, FS_RemoveElement DEF StoreTyped
<1>3. CASE rows = profiles
  BY <1>3 DEF StoreTyped
<1>4. CASE c.op = "delete" /\ rows # profiles
  <2>1. /\ rows = [i \in DOMAIN profiles \ {c.id} |-> profiles[i]]
        /\ ~ProfileIsReferenced(c.id, r)
    BY <1>4 DEF Execute
  <2> QED  BY <1>2, <2>1 DEF StoreTyped, ProfileIsReferenced
<1>5. CASE c.op # "delete" /\ rows # profiles
  <2>1. /\ rows = [i \in DOMAIN profiles \cup {c.id} |->
                     IF i = c.id THEN [protocol |-> c.protocol, jumps |-> c.jumps,
                                       revision |-> c.expected + 1]
                                 ELSE profiles[i]]
        /\ c.id \in DOMAIN profiles /\ profiles[c.id].protocol # c.protocol
             => ~ProfileIsReferenced(c.id, r)
    BY <1>5 DEF Execute
  <2>2. c \in Upserts  BY <1>5 DEF Deletes
  <2>3. /\ c.protocol \in Protocols /\ c.jumps \in SUBSET ProfileIds
        /\ c.expected \in None..MaxProfileRevision - 1
    BY <2>2 DEF Upserts
  <2>4. PICK row : row = [protocol |-> c.protocol, jumps |-> c.jumps, revision |-> c.expected + 1]
    OBVIOUS
  <2>5. row \in Row /\ row.protocol = c.protocol  BY <2>3, <2>4 DEF Row, None
  <2>6. DOMAIN rows = DOMAIN profiles \cup {c.id}  BY <2>1
  <2>7. \A i \in DOMAIN rows : rows[i] = IF i = c.id THEN row ELSE profiles[i]
    BY <2>1, <2>4
  <2>8. \A i \in DOMAIN rows : rows[i] \in Row  BY <2>5, <2>6, <2>7 DEF StoreTyped
  <2>9. r => ProfileIsReferenced(c.id, r)  BY DEF ProfileIsReferenced
  <2> QED  BY <1>1, <1>2, <2>1, <2>5, <2>6, <2>7, <2>8, <2>9 DEF StoreTyped
<1> QED  BY <1>3, <1>4, <1>5

\* Storing rows leaves the walk what it can count on.
LEMMA RowsWalk == ASSUME WalkInv, NEW rows, Rows(rows) PROVE WalkInv'
<1>1. walk \in [after : {0} \cup ProfileIds, seen : Seq(ProfileIds), since : SUBSET ProfileIds,
               done : Flag]
  BY DEF WalkInv, WalkAdvances
<1>2. /\ walk' = [walk EXCEPT !.since = walk.since \cap DOMAIN rows] /\ profiles' = rows
  BY DEF Rows
<1>3. PICK kept \in SUBSET ProfileIds : kept = walk.since \cap DOMAIN rows
  BY <1>1
<1>4. /\ walk' \in [after : {0} \cup ProfileIds, seen : Seq(ProfileIds), since : SUBSET ProfileIds,
                    done : Flag]
      /\ walk'.since = kept /\ walk'.done = walk.done /\ walk'.seen = walk.seen
      /\ walk'.after = walk.after
  BY <1>1, <1>2, <1>3
<1>5. WalkAdvances'
  BY <1>2, <1>3, <1>4 DEF WalkInv, WalkAdvances
<1>6. WalkIsComplete'
  BY <1>3, <1>4 DEF WalkInv, WalkIsComplete
<1> QED  BY <1>5, <1>6 DEF WalkInv

\* Rows that keep what tasks name keep the rest of the gate's invariant too, when only
\* requests that have nothing loaded remain.
LEMMA RowsGate ==
  ASSUME GateInv, NEW rows, profiles' = rows, UNCHANGED <<tasks, executor, inactive, bypassed>>,
         DOMAIN rows \subseteq ProfileIds, IsFiniteSet(DOMAIN rows),
         \A i \in DOMAIN rows : rows[i] \in Row,
         ~bypassed => \A i \in ReferencedProfiles \cap DOMAIN profiles :
                        i \in DOMAIN rows /\ rows[i].protocol = profiles[i].protocol
  PROVE  StoreTyped' /\ TransfersKeepProfile'
<1>1. StoreTyped'  BY DEF GateInv, StoreTyped
<1>2. ASSUME ~bypassed PROVE TransfersKeepProfile'
  <2>1. \A t \in tasks : t.id \in DOMAIN profiles /\ profiles[t.id].protocol = t.protocol
    BY <1>2 DEF GateInv, TransfersKeepProfile
  <2>2. \A t \in tasks : t.id \in ReferencedProfiles  BY DEF ReferencedProfiles
  <2> QED  BY <1>2, <2>1, <2>2 DEF TransfersKeepProfile
<1>3. bypassed => TransfersKeepProfile'  BY DEF TransfersKeepProfile
<1> QED  BY <1>1, <1>2, <1>3

\* Once the request that holds the gate has ended, every request is idle.
LEMMA EndsIdle ==
  ASSUME CommandsTyped, NEW k \in Callers, call[k].step # "idle", Ends(k),
         \A w \in worker' : w.command \in Upserts \cup Deletes
  PROVE  CommandsTyped' /\ \A j \in Callers : call'[j].step = "idle" /\ LookupHolds(j)'
<1>1. PICK rest : rest = CallerIdle  OBVIOUS
<1>2. rest.step = "idle"  BY <1>1 DEF CallerIdle
<1>3. call' = [j \in Callers |-> IF j = k THEN rest ELSE call[j]] /\ gate' = "free"
  BY <1>1 DEF Ends, CommandsTyped
<1>4. \A j \in Callers : j # k => call[j].step = "idle"
  BY DEF CommandsTyped
<1>5. \A j \in Callers : call'[j].step = "idle"
  BY <1>2, <1>3, <1>4
<1>6. CommandsTyped'  BY <1>3, <1>5 DEF CommandsTyped
<1> QED  BY <1>5, <1>6 DEF LookupHolds

LEMMA TakeGateStep == ASSUME GateInv, WalkInv, NEW k \in Callers, TakeGate(k) PROVE GateInv' /\ WalkInv'
<1> USE ProfilesAssumption
<1>1. /\ gate = "free" /\ executor \in {"open", "snapshot", "gone"} /\ gate' = k
      /\ UNCHANGED <<profiles, tasks, executor, inactive, worker, walk, bypassed>>
  BY DEF TakeGate
<1>2. PICK c \in Upserts \cup Deletes \cup Enqueues :
        call' = [call EXCEPT ![k] = [step |-> "gated", command |-> c, referenced |-> LooksUp(c)]]
  BY DEF TakeGate
<1>3. PICK r : r = LooksUp(c)  OBVIOUS
<1>4. PICK n : n = [step |-> "gated", command |-> c, referenced |-> r]  OBVIOUS
<1>5. n.step = "gated" /\ n.command = c /\ n.referenced = r  BY <1>4
<1>6. call' = [j \in Callers |-> IF j = k THEN n ELSE call[j]]
  BY <1>2, <1>3, <1>4 DEF GateInv, CommandsTyped
<1>7. \A j \in Callers : call[j].step = "idle"
  BY <1>1 DEF GateInv, CommandsTyped
<1>8. CommandsTyped'
  BY <1>1, <1>5, <1>6, <1>7 DEF GateInv, CommandsTyped
<1>9. StoreTyped' /\ TransfersKeepProfile' /\ WalkInv'
  BY <1>1, WalkSame DEF GateInv, StoreTyped, TransfersKeepProfile
<1>10. ASSUME ~bypassed, c.id \in ReferencedProfiles PROVE r
  <2>1. executor = "gone" => c.id \in inactive
    BY <1>10 DEF GateInv, LookupsHold
  <2>2. LooksUp(c)  BY <1>1, <1>10, <2>1 DEF LooksUp
  <2> QED  BY <1>3, <2>2
<1>11. ASSUME ~bypassed PROVE \A j \in Callers : LookupHolds(j)'
  <2>1. ReferencedProfiles' = ReferencedProfiles  BY <1>1 DEF ReferencedProfiles
  <2>2. LookupHolds(k)'
    <3>1. call'[k] = n  BY <1>6
    <3> QED  BY <1>5, <1>10, <1>11, <2>1, <3>1 DEF LookupHolds
  <2>3. \A j \in Callers : j # k => LookupHolds(j)'
    BY <1>6, <1>7 DEF LookupHolds
  <2> QED  BY <2>2, <2>3
<1>12. LookupsHold'
  <2>1. ReferencedProfiles' = ReferencedProfiles  BY <1>1 DEF ReferencedProfiles
  <2> QED  BY <1>1, <1>11, <2>1 DEF GateInv, LookupsHold
<1> QED  BY <1>8, <1>9, <1>12 DEF GateInv

LEMMA WorkStep == ASSUME GateInv, WalkInv, NEW k \in Callers, Work(k) PROVE GateInv' /\ WalkInv'
<1>1. /\ call[k].step = "gated" /\ call[k].command.op # "enqueue" /\ Ends(k)
      /\ UNCHANGED <<tasks, executor, inactive, worker, bypassed>>
  BY DEF Work
<1>2. PICK c : c = call[k].command  OBVIOUS
<1>3. PICK r : r = call[k].referenced  OBVIOUS
<1>4. PICK rows : rows \in {profiles, Execute(c, r)} /\ Rows(rows)
  BY <1>2, <1>3 DEF Work
<1>5. c \in Upserts \cup Deletes
  BY <1>1, <1>2 DEF GateInv, CommandsTyped, Enqueues
<1>6. StoreTyped  BY DEF GateInv
<1>7. /\ DOMAIN rows \subseteq ProfileIds /\ IsFiniteSet(DOMAIN rows)
      /\ \A i \in DOMAIN rows : rows[i] \in Row
      /\ \A i \in DOMAIN profiles : (i = c.id => r) =>
           i \in DOMAIN rows /\ rows[i].protocol = profiles[i].protocol
  <2>1. CASE rows = profiles  BY <1>6, <2>1 DEF StoreTyped
  <2>2. CASE rows = Execute(c, r)  BY <1>5, <1>6, <2>2, ExecuteKeeps
  <2> QED  BY <1>4, <2>1, <2>2
<1>8. ~bypassed => (c.id \in ReferencedProfiles => r)
  BY <1>1, <1>2, <1>3 DEF GateInv, LookupsHold, LookupHolds
<1>9. ~bypassed => \A i \in ReferencedProfiles \cap DOMAIN profiles :
                     i \in DOMAIN rows /\ rows[i].protocol = profiles[i].protocol
  BY <1>7, <1>8
<1>10. profiles' = rows  BY <1>4 DEF Rows
<1>11. StoreTyped' /\ TransfersKeepProfile'
  BY <1>1, <1>7, <1>9, <1>10, RowsGate
<1>0. \A w \in worker' : w.command \in Upserts \cup Deletes
  BY <1>1 DEF GateInv, CommandsTyped
<1>12. CommandsTyped' /\ \A j \in Callers : call'[j].step = "idle" /\ LookupHolds(j)'
  BY <1>0, <1>1, EndsIdle DEF GateInv
<1>13. LookupsHold'
  <2>1. ReferencedProfiles' = ReferencedProfiles  BY <1>1 DEF ReferencedProfiles
  <2> QED  BY <1>1, <1>12, <2>1 DEF GateInv, LookupsHold
<1>14. WalkInv'  BY <1>4, RowsWalk
<1> QED  BY <1>11, <1>12, <1>13, <1>14 DEF GateInv

LEMMA LoadStep == ASSUME GateInv, WalkInv, NEW k \in Callers, Load(k) PROVE GateInv' /\ WalkInv'
<1>1. /\ call[k].step = "gated" /\ call[k].command.op = "enqueue"
      /\ UNCHANGED <<profiles, tasks, executor, inactive, worker, walk, bypassed>>
  BY DEF Load
<1>2. StoreTyped' /\ TransfersKeepProfile' /\ WalkInv'
  BY <1>1, WalkSame DEF GateInv, StoreTyped, TransfersKeepProfile
<1>3. ReferencedProfiles' = ReferencedProfiles  BY <1>1 DEF ReferencedProfiles
<1>0. \A w \in worker' : w.command \in Upserts \cup Deletes
  BY <1>1 DEF GateInv, CommandsTyped
<1>4. CASE Ends(k)
  <2>1. CommandsTyped' /\ \A j \in Callers : LookupHolds(j)'
    BY <1>0, <1>1, <1>4, EndsIdle DEF GateInv
  <2>2. LookupsHold'  BY <1>1, <1>3, <2>1 DEF GateInv, LookupsHold
  <2> QED  BY <1>2, <2>1, <2>2 DEF GateInv
<1>5. CASE ~Ends(k)
  <2>1. PICK c \in Enqueues : c = call[k].command
    BY <1>1 DEF GateInv, CommandsTyped, Upserts, Deletes
  <2>2. /\ c.id \in DOMAIN profiles /\ UNCHANGED gate
        /\ call' = [call EXCEPT ![k] = [step |-> "loaded", command |-> c,
                                        protocol |-> profiles[c.id].protocol]]
    BY <1>5, <2>1 DEF Load
  <2>3. PICK n : n = [step |-> "loaded", command |-> c, protocol |-> profiles[c.id].protocol]
    OBVIOUS
  <2>4. n.step = "loaded" /\ n.command = c /\ n.protocol = profiles[c.id].protocol
    BY <2>3
  <2>5. profiles[c.id].protocol \in Protocols
    BY <2>2 DEF GateInv, StoreTyped, Row
  <2>6. call' = [j \in Callers |-> IF j = k THEN n ELSE call[j]]
    BY <2>2, <2>3 DEF GateInv, CommandsTyped
  <2>7. CommandsTyped'
    BY <1>1, <2>2, <2>4, <2>5, <2>6 DEF GateInv, CommandsTyped
  <2>8. LookupHolds(k)'
    <3>1. call'[k] = n  BY <2>6
    <3> QED  BY <1>1, <2>2, <2>4, <3>1 DEF LookupHolds
  <2>9. \A j \in Callers : j # k => (LookupHolds(j) => LookupHolds(j)')
    BY <1>1, <1>3, <2>6 DEF LookupHolds
  <2>10. LookupsHold'
    BY <1>1, <1>3, <2>8, <2>9 DEF GateInv, LookupsHold
  <2> QED  BY <1>2, <2>7, <2>10 DEF GateInv
<1> QED  BY <1>4, <1>5

LEMMA EnqueueStep == ASSUME GateInv, WalkInv, NEW k \in Callers, Enqueue(k) PROVE GateInv' /\ WalkInv'
<1>1. /\ call[k].step = "loaded" /\ Ends(k)
      /\ UNCHANGED <<profiles, executor, inactive, worker, walk>>
  BY DEF Enqueue
<1>2. WalkInv'  BY <1>1, WalkSame
<1>0. \A w \in worker' : w.command \in Upserts \cup Deletes
  BY <1>1 DEF GateInv, CommandsTyped
<1>3. CommandsTyped' /\ \A j \in Callers : LookupHolds(j)'
  BY <1>0, <1>1, EndsIdle DEF GateInv
<1>4. PICK c \in Enqueues : c = call[k].command
  BY <1>1 DEF GateInv, CommandsTyped
<1>5. PICK p \in Protocols : p = call[k].protocol
  BY <1>1 DEF GateInv, CommandsTyped
<1>6. CASE UNCHANGED <<tasks, bypassed>>
  <2>1. ReferencedProfiles' = ReferencedProfiles  BY <1>6 DEF ReferencedProfiles
  <2>2. StoreTyped' /\ TransfersKeepProfile'
    BY <1>1, <1>6 DEF GateInv, StoreTyped, TransfersKeepProfile
  <2>3. LookupsHold'  BY <1>1, <1>3, <1>6, <2>1 DEF GateInv, LookupsHold
  <2> QED  BY <1>2, <1>3, <2>2, <2>3 DEF GateInv
<1>7. CASE ~UNCHANGED <<tasks, bypassed>>
  <2>1. /\ executor \in {"open", "snapshot"}
        /\ tasks' = tasks \cup {[id |-> c.id, protocol |-> p]}
        /\ bypassed' = (bypassed \/ executor = "snapshot")
    BY <1>4, <1>5, <1>7 DEF Enqueue
  <2>2. PICK t : t = [id |-> c.id, protocol |-> p]  OBVIOUS
  <2>3. t \in [id : ProfileIds, protocol : Protocols] /\ t.id = c.id /\ t.protocol = p
    BY <2>2 DEF Enqueues
  <2>4. tasks' = tasks \cup {t}  BY <2>1, <2>2
  <2>5. bypassed' \in Flag /\ (bypassed' <=> (bypassed \/ executor = "snapshot"))
    BY <2>1, Zenon DEF Flag
  <2>6. StoreTyped'  BY <1>1, <2>3, <2>4, <2>5 DEF GateInv, StoreTyped
  <2>7. TransfersKeepProfile'
    <3>1. ~bypassed => c.id \in DOMAIN profiles /\ profiles[c.id].protocol = p
      BY <1>1, <1>4, <1>5 DEF GateInv, LookupsHold, LookupHolds
    <3> QED  BY <1>1, <2>3, <2>4, <2>5, <3>1 DEF GateInv, TransfersKeepProfile
  <2>8. LookupsHold'
    BY <1>1, <1>3, <2>1, <2>5 DEF GateInv, LookupsHold
  <2> QED  BY <1>2, <1>3, <2>6, <2>7, <2>8 DEF GateInv
<1> QED  BY <1>6, <1>7

LEMMA AbortStep == ASSUME GateInv, WalkInv, NEW k \in Callers, Abort(k) PROVE GateInv' /\ WalkInv'
<1>1. /\ call[k].step # "idle" /\ worker = {} /\ call' = [call EXCEPT ![k] = CallerIdle]
      /\ UNCHANGED <<profiles, tasks, executor, inactive, walk>>
  BY DEF Abort
<1>2. gate = k  BY <1>1 DEF GateInv, CommandsTyped
<1>3. Ends(k)  BY <1>1, <1>2 DEF Ends, Abort
<1>4. WalkInv'  BY <1>1, WalkSame
<1>5. ReferencedProfiles' = ReferencedProfiles  BY <1>1 DEF ReferencedProfiles
<1>6. CASE call[k].step = "gated" /\ call[k].command.op # "enqueue"
  <2>1. PICK c \in Upserts \cup Deletes : c = call[k].command
    BY <1>6 DEF GateInv, CommandsTyped, Enqueues
  <2>2. PICK w : w = Stale(c, call[k].referenced)  OBVIOUS
  <2>3. w.command = c  BY <2>2 DEF Stale
  <2>4. worker' = {w} /\ bypassed' = TRUE  BY <1>1, <1>6, <2>1, <2>2 DEF Abort
  <2>5. \A v \in worker' : v.command \in Upserts \cup Deletes  BY <2>1, <2>3, <2>4
  <2>6. CommandsTyped'  BY <1>1, <1>3, <2>5, EndsIdle DEF GateInv
  <2>7. bypassed' \in Flag  BY <2>4, Zenon DEF Flag
  <2>8. StoreTyped'  BY <1>1, <2>7 DEF GateInv, StoreTyped
  <2>9. LookupsHold' /\ TransfersKeepProfile'
    BY <2>4 DEF LookupsHold, TransfersKeepProfile
  <2> QED  BY <1>4, <2>6, <2>8, <2>9 DEF GateInv
<1>7. CASE ~(call[k].step = "gated" /\ call[k].command.op # "enqueue")
  <2>1. UNCHANGED <<worker, bypassed>>  BY <1>7 DEF Abort
  <2>2. \A v \in worker' : v.command \in Upserts \cup Deletes  BY <1>1, <2>1
  <2>3. CommandsTyped' /\ \A j \in Callers : LookupHolds(j)'
    BY <1>1, <1>3, <2>2, EndsIdle DEF GateInv
  <2>4. StoreTyped' /\ TransfersKeepProfile'
    BY <1>1, <2>1 DEF GateInv, StoreTyped, TransfersKeepProfile
  <2>5. LookupsHold'  BY <1>1, <1>5, <2>1, <2>3 DEF GateInv, LookupsHold
  <2> QED  BY <1>4, <2>3, <2>4, <2>5 DEF GateInv
<1> QED  BY <1>6, <1>7

LEMMA OrphanStep == ASSUME GateInv, WalkInv, OrphanWork PROVE GateInv' /\ WalkInv'
<1>1. UNCHANGED <<tasks, executor, inactive, gate, call, bypassed>>  BY DEF OrphanWork
<1>2. PICK w \in worker : Rows(Execute(w.command, w.referenced)) /\ worker' = worker \ {w}
  BY DEF OrphanWork
<1>3. bypassed  BY <1>2 DEF GateInv, LookupsHold
<1>4. PICK c \in Upserts \cup Deletes : c = w.command  BY DEF GateInv, CommandsTyped
<1>5. PICK r : r = w.referenced  OBVIOUS
<1>6. PICK rows : rows = Execute(c, r)  OBVIOUS
<1>7. Rows(rows) /\ profiles' = rows  BY <1>2, <1>4, <1>5, <1>6 DEF Rows
<1>8. /\ DOMAIN rows \subseteq ProfileIds /\ IsFiniteSet(DOMAIN rows)
      /\ \A i \in DOMAIN rows : rows[i] \in Row
  BY <1>6, ExecuteKeeps DEF GateInv
<1>9. StoreTyped' /\ TransfersKeepProfile'
  BY <1>1, <1>3, <1>7, <1>8, RowsGate
<1>10. CommandsTyped' /\ LookupsHold'
  BY <1>1, <1>2, <1>3 DEF GateInv, CommandsTyped, LookupsHold
<1>11. WalkInv'  BY <1>7, RowsWalk
<1> QED  BY <1>9, <1>10, <1>11 DEF GateInv

LEMMA RunnerStep == ASSUME GateInv, WalkInv, StartRunner \/ StopRunner PROVE GateInv' /\ WalkInv'
<1>1. UNCHANGED <<profiles, tasks, gate, call, worker, walk, bypassed>>
  BY DEF StartRunner, StopRunner
<1>2. ReferencedProfiles' = ReferencedProfiles  BY <1>1 DEF ReferencedProfiles
<1>3. ReferencedProfiles \subseteq ProfileIds  BY DEF GateInv, StoreTyped, ReferencedProfiles
<1>4. /\ executor' \in {"open", "snapshot", "closing", "gone"}
      /\ \/ inactive' = ReferencedProfiles
         \/ executor \in {"snapshot", "closing"} /\ inactive' = inactive
  BY DEF StartRunner, StopRunner, Turn
<1>5. StoreTyped' /\ CommandsTyped' /\ TransfersKeepProfile'
  BY <1>1, <1>3, <1>4 DEF GateInv, StoreTyped, CommandsTyped, TransfersKeepProfile
<1>6. \A k \in Callers : LookupHolds(k) => LookupHolds(k)'
  BY <1>1, <1>2 DEF LookupHolds
<1>7. LookupsHold'  BY <1>1, <1>2, <1>4, <1>6 DEF GateInv, LookupsHold
<1>8. WalkInv'  BY <1>1, WalkSame
<1> QED  BY <1>5, <1>7, <1>8 DEF GateInv

LEMMA EmptyList == <<>> \in Seq(ProfileIds) /\ DOMAIN <<>> = {}
<1>1. PICK none \in Seq(ProfileIds) : none = <<>>  BY EmptySeq
<1>2. Len(none) = 0  BY <1>1, EmptySeq
<1>3. DOMAIN none = 1..Len(none)  BY LenProperties
<1>4. DOMAIN none = {}  BY <1>2, <1>3
<1> QED  BY <1>1, <1>4

\* A walk that has not begun satisfies the walk's invariant.
LEMMA NoWalkInv == walk = NoWalk => WalkInv
<1> SUFFICES ASSUME walk = NoWalk PROVE WalkInv
    OBVIOUS
<1>1. PICK yes \in Flag : yes = TRUE  BY Flags
<1>2. walk = [after |-> 0, seen |-> <<>>, since |-> {}, done |-> yes]  BY <1>1 DEF NoWalk
<1>3. PICK none \in Seq(ProfileIds) : none = <<>> /\ DOMAIN none = {}  BY EmptyList
<1>4. walk = [after |-> 0, seen |-> none, since |-> {}, done |-> yes]  BY <1>2, <1>3
<1>5. walk \in [after : {0} \cup ProfileIds, seen : Seq(ProfileIds), since : SUBSET ProfileIds,
               done : Flag]
  BY <1>4
<1>6. walk.since = {} /\ DOMAIN walk.seen = {} /\ walk.done = yes  BY <1>3, <1>4
<1> QED  BY <1>1, <1>5, <1>6 DEF WalkInv, WalkAdvances, WalkIsComplete

LEMMA RestartStep == ASSUME GateInv, WalkInv, Restart PROVE GateInv' /\ WalkInv'
<1>1. /\ executor' = "absent" /\ inactive' = ReferencedProfiles /\ gate' = "free"
      /\ call' = [k \in Callers |-> CallerIdle] /\ worker' = {} /\ walk' = NoWalk
      /\ UNCHANGED <<profiles, tasks, bypassed>>
  BY DEF Restart
<1>2. ReferencedProfiles \subseteq ProfileIds  BY DEF GateInv, StoreTyped, ReferencedProfiles
<1>3. \A k \in Callers : call'[k].step = "idle"  BY <1>1 DEF CallerIdle
<1>4. CommandsTyped'  BY <1>1, <1>3 DEF CommandsTyped
<1>5. LookupsHold'  BY <1>1, <1>3 DEF LookupsHold, LookupHolds
<1>6. StoreTyped' /\ TransfersKeepProfile'
  BY <1>1, <1>2 DEF GateInv, StoreTyped, TransfersKeepProfile
<1>7. WalkInv'
  <2>1. (walk = NoWalk)'  BY <1>1 DEF NoWalk
  <2> QED  BY <2>1, NoWalkInv, PTL
<1> QED  BY <1>4, <1>5, <1>6, <1>7 DEF GateInv

LEMMA BeginWalkStep == ASSUME GateInv, WalkInv, BeginWalk PROVE GateInv' /\ WalkInv'
<1>1. PICK no \in Flag : no = FALSE  BY Flags
<1>2. PICK none \in Seq(ProfileIds) : none = <<>> /\ DOMAIN none = {}  BY EmptyList
<1>3. PICK now \in SUBSET ProfileIds : now = DOMAIN profiles  BY DEF GateInv, StoreTyped
<1>4. /\ walk' = [after |-> 0, seen |-> none, since |-> now, done |-> no]
      /\ UNCHANGED <<profiles, tasks, executor, inactive, gate, call, worker, bypassed>>
  BY <1>1, <1>2, <1>3 DEF BeginWalk
<1>5. /\ walk' \in [after : {0} \cup ProfileIds, seen : Seq(ProfileIds), since : SUBSET ProfileIds,
                    done : Flag]
      /\ walk'.since = now /\ DOMAIN walk'.seen = {} /\ walk'.done = no /\ walk'.after = 0
  BY <1>2, <1>4
<1>6. \A x \in walk'.since : ~(x <= walk'.after)
  BY <1>5, ProfilesAssumption
<1>7. WalkInv'
  BY <1>1, <1>3, <1>4, <1>5, <1>6 DEF WalkInv, WalkAdvances, WalkIsComplete
<1> QED  BY <1>4, <1>7, GateSame

LEMMA ListPageStep == ASSUME GateInv, WalkInv, ListPage PROVE GateInv' /\ WalkInv'
<1> USE ProfilesAssumption
<1>1. UNCHANGED <<profiles, tasks, executor, inactive, gate, call, worker, bypassed>> /\ ~walk.done
  BY DEF ListPage
<1>2. /\ walk \in [after : {0} \cup ProfileIds, seen : Seq(ProfileIds), since : SUBSET ProfileIds,
                   done : Flag]
      /\ walk.since \subseteq DOMAIN profiles
  BY DEF WalkInv, WalkAdvances
<1>3. PICK a \in Nat : a = walk.after  BY <1>2
<1>4. PICK P \in SUBSET After(a) : P = Page(a)  BY <1>3, PageIsFirst DEF GateInv, StoreTyped
<1>5. /\ After(a) \in SUBSET ProfileIds /\ IsFiniteSet(P)
      /\ \A x \in P : \A y \in After(a) : y < x => y \in P
      /\ After(a) # {} => P # {}
  BY <1>3, <1>4, PageIsFirst DEF GateInv, StoreTyped
<1>6. P \in SUBSET Nat /\ P \in SUBSET ProfileIds /\ \A x \in P : x > a
  BY <1>4, <1>5 DEF After
<1>7. PICK n \in Nat : n = Cardinality(P)  BY <1>5, FS_CardinalityType
<1>8. PICK s \in [1..n -> P] :
        /\ s = InOrder(P)
        /\ \A i, j \in 1..n : i < j => s[i] < s[j]
        /\ \A x \in P : \E i \in 1..n : s[i] = x
  BY <1>5, <1>6, <1>7, InOrderLists
<1>9. s \in Seq(ProfileIds) /\ Len(s) = n /\ DOMAIN s = 1..n
  <2>1. s \in [1..n -> ProfileIds]  BY <1>6
  <2>2. s \in Seq(ProfileIds)  BY <2>1, SeqDef
  <2>3. DOMAIN s = 1..n /\ DOMAIN s = 1..Len(s) /\ Len(s) \in Nat  BY <2>1, <2>2, LenProperties
  <2>4. 1..n = 1..Len(s)  BY <2>3
  <2>5. Len(s) = n  BY <2>3, <2>4
  <2> QED  BY <2>2, <2>3, <2>5
<1>10. PICK q \in Seq(ProfileIds) : q = walk.seen  BY <1>2
<1>11. PICK z \in Seq(ProfileIds) : z = q \o s  BY <1>9, ConcatProperties
<1>12. /\ Len(z) = Len(q) + n /\ DOMAIN z = 1..Len(z) /\ DOMAIN q = 1..Len(q) /\ Len(q) \in Nat
       /\ \A i \in 1..Len(q) : z[i] = q[i]
       /\ \A i \in 1..n : z[Len(q) + i] = s[i]
  <2>1. Len(z) \in Nat /\ Len(q) \in Nat /\ DOMAIN z = 1..Len(z) /\ DOMAIN q = 1..Len(q)
    BY LenProperties
  <2>2. /\ Len(z) = Len(q) + n
        /\ \A i \in 1..Len(q) + n : z[i] = IF i <= Len(q) THEN q[i] ELSE s[i - Len(q)]
    BY <1>9, <1>11, ConcatProperties, ZenonT(60)
  <2>3. \A i \in 1..Len(q) : z[i] = q[i]  BY <2>1, <2>2
  <2>4. ASSUME NEW i \in 1..n PROVE z[Len(q) + i] = s[i]
    <3>1. PICK j \in 1..Len(q) + n : j = Len(q) + i  BY <2>1
    <3>2. ~(j <= Len(q)) /\ j - Len(q) = i  BY <2>1, <3>1
    <3> QED  BY <2>2, <3>1, <3>2
  <2> QED  BY <2>1, <2>2, <2>3, <2>4
<1>13. \A i \in 1..Len(q) : q[i] <= a
  BY <1>1, <1>3, <1>10, <1>12 DEF WalkInv, WalkAdvances
<1>13a. \A i \in 1..Len(q) : q[i] \in Nat
  <2>1. \A i \in 1..Len(q) : q[i] \in ProfileIds  BY ElementOfSeq
  <2> QED  BY <2>1
<1>14. PICK end \in Flag : end <=> After(a) = P
  BY Flags, Zenon DEF Flag
<1>15. PICK b : b = IF After(a) = P THEN 0 ELSE NextAfter(a)  OBVIOUS
<1>16. After(a) # P => b \in P /\ \A x \in P : x <= b
  <2>1. SUFFICES ASSUME After(a) # P PROVE b \in P /\ \A x \in P : x <= b
        OBVIOUS
  <2>2. P # {}  BY <1>4, <1>5, <2>1
  <2>3. \E x \in P : \A y \in P : y <= x  BY <1>5, <1>6, <2>2, Extremes
  <2>4. b = CHOOSE x \in P : \A y \in P : y <= x  BY <1>4, <1>15, <2>1 DEF NextAfter
  <2> QED  BY <2>3, <2>4
<1>17. b \in {0} \cup ProfileIds  BY <1>6, <1>15, <1>16
<1>18. walk' = [walk EXCEPT !.seen = z, !.done = end, !.after = b]
  <2>1. (After(a) = P) = end  BY <1>14, Zenon DEF Flag
  <2>2. walk' = [walk EXCEPT !.seen = z, !.done = (After(a) = P), !.after = b]
    BY <1>3, <1>4, <1>8, <1>10, <1>11, <1>15 DEF ListPage
  <2> QED  BY <2>1, <2>2
<1>19. /\ walk' \in [after : {0} \cup ProfileIds, seen : Seq(ProfileIds), since : SUBSET ProfileIds,
                     done : Flag]
       /\ walk'.since = walk.since /\ walk'.seen = z /\ walk'.done = end /\ walk'.after = b
  BY <1>2, <1>17, <1>18
<1>20. ASSUME NEW i \in 1..Len(z), i > Len(q)
       PROVE  i - Len(q) \in 1..n /\ z[i] = s[i - Len(q)] /\ z[i] \in P
  <2>0. Len(z) = Len(q) + n /\ Len(q) \in Nat /\ i \in Nat /\ i <= Len(z)  BY <1>12
  <2>1. PICK d \in 1..n : d = i - Len(q)  BY <1>20, <2>0, SMTT(40)
  <2>2. i = Len(q) + d  BY <1>12, <2>1
  <2>3. z[i] = s[d]  BY <1>12, <2>2
  <2> QED  BY <2>1, <2>3
<1>21. ASSUME NEW i \in DOMAIN z, NEW j \in DOMAIN z, i < j
       PROVE  z[i] < z[j]
  <2>0. i \in 1..Len(z) /\ j \in 1..Len(z)  BY <1>12
  <2>1. CASE j <= Len(q)
    <3>1. i \in 1..Len(q) /\ j \in 1..Len(q)  BY <1>12, <1>21, <2>0, <2>1
    <3>2. q[i] < q[j]  BY <1>10, <1>12, <1>21, <3>1 DEF WalkInv, WalkIsComplete
    <3> QED  BY <1>12, <3>1, <3>2
  <2>2. CASE j > Len(q) /\ i <= Len(q)
    <3>1. i \in 1..Len(q)  BY <1>12, <2>0, <2>2
    <3>2. z[i] <= a /\ z[i] \in Nat  BY <1>12, <1>13, <3>1, <1>13a
    <3>3. z[j] \in P  BY <1>20, <2>0, <2>2
    <3>4. z[j] > a /\ z[j] \in Nat  BY <1>6, <3>3
    <3> QED  BY <3>2, <3>4
  <2>3. CASE j > Len(q) /\ i > Len(q)
    <3>1. PICK d \in 1..n : d = i - Len(q) /\ z[i] = s[d]  BY <1>20, <2>0, <2>3
    <3>2. PICK e \in 1..n : e = j - Len(q) /\ z[j] = s[e]  BY <1>20, <2>0, <2>3
    <3>3. d < e  BY <1>12, <1>21, <2>0, <3>1, <3>2
    <3> QED  BY <1>8, <3>1, <3>2, <3>3
  <2> QED  BY <1>12, <2>0, <2>1, <2>2, <2>3
<1>22. ASSUME NEW x \in walk.since, x <= a \/ x \in P
       PROVE  \E i \in DOMAIN z : z[i] = x
  <2>1. CASE x <= a
    <3>1. PICK i \in 1..Len(q) : q[i] = x
      BY <1>1, <1>3, <1>10, <1>12, <2>1 DEF WalkInv, WalkAdvances
    <3> QED  BY <1>12, <3>1
  <2>2. CASE x \in P
    <3>1. PICK d \in 1..n : s[d] = x  BY <1>8, <2>2
    <3>2. PICK i \in 1..Len(z) : i = Len(q) + d  BY <1>12
    <3> QED  BY <1>12, <3>1, <3>2
  <2> QED  BY <1>22, <2>1, <2>2
<1>23. \A x \in walk.since : x \in Nat /\ (x <= a \/ x \in After(a))
  BY <1>2, <1>3 DEF After
<1>24. WalkIsComplete'
  <2>1. end => walk.since \subseteq {z[i] : i \in DOMAIN z}
    BY <1>14, <1>22, <1>23
  <2> QED  BY <1>19, <1>21, <2>1 DEF WalkIsComplete
<1>25. ASSUME ~end
       PROVE  /\ \A i \in DOMAIN z : z[i] <= b
              /\ \A x \in walk.since : x <= b => \E i \in DOMAIN z : z[i] = x
  <2>1. b \in P /\ b \in Nat /\ b > a /\ \A x \in P : x <= b
    BY <1>6, <1>14, <1>16, <1>25
  <2>2. ASSUME NEW i \in DOMAIN z PROVE z[i] <= b
    <3>1. CASE i <= Len(q)
      <4>1. i \in 1..Len(q)  BY <1>12, <3>1
      <4>2. z[i] <= a /\ z[i] \in Nat  BY <1>12, <1>13, <4>1, <1>13a
      <4> QED  BY <2>1, <4>2
    <3>2. CASE i > Len(q)  BY <1>12, <1>20, <2>1, <3>2
    <3> QED  BY <1>12, <3>1, <3>2
  <2>3. ASSUME NEW x \in walk.since, x <= b PROVE x <= a \/ x \in P
    BY <1>5, <1>23, <2>1, <2>3
  <2> QED  BY <1>22, <2>2, <2>3
<1>26. WalkAdvances'
  BY <1>1, <1>2, <1>19, <1>25 DEF WalkAdvances
<1> QED  BY <1>1, <1>24, <1>26, GateSame DEF WalkInv

LEMMA ProfilesInitially == ProfilesInit => GateInv /\ WalkInv
<1> SUFFICES ASSUME ProfilesInit PROVE GateInv /\ WalkInv
    OBVIOUS
<1> USE DEF ProfilesInit
<1>1. WalkInv  BY NoWalkInv
<1>2. bypassed \in Flag /\ ~bypassed  BY Flags
<1>3. StoreTyped  BY <1>2, FS_EmptySet DEF StoreTyped
<1>4. \A k \in Callers : call[k].step = "idle"  BY DEF CallerIdle
<1>5. CommandsTyped  BY <1>4 DEF CommandsTyped
<1>6. LookupsHold /\ TransfersKeepProfile
  BY <1>4 DEF LookupsHold, LookupHolds, TransfersKeepProfile
<1> QED  BY <1>1, <1>3, <1>5, <1>6 DEF GateInv

\* Profiles can be relied on, for any number of profiles, clients and tasks and any page
\* limit: a transfer's profile stays stored with the protocol it was queued for, through
\* every interleaving of commands, enqueues, the stages of a shutdown and restarts, unless
\* a request was aborted in its transaction or a task queued after the snapshot; and a
\* walk over the list's pages lists what existed all the time, once and in order
\* (profile_command, transfer_command, shutdown_transfer_runner, execute).
THEOREM ProfilesStay == ProfilesSpec => []ProfilesAreKept
<1>1. ASSUME GateInv, WalkInv, [GateNext \/ ProfilePagesNext]_profileVars
      PROVE  GateInv' /\ WalkInv'
  <2>1. CASE UNCHANGED profileVars
    BY <1>1, <2>1, GateSame, WalkSame DEF profileVars
  <2>2. ASSUME NEW k \in Callers, TakeGate(k) \/ Work(k) \/ Load(k) \/ Enqueue(k) \/ Abort(k)
        PROVE  GateInv' /\ WalkInv'
    BY <1>1, <2>2, TakeGateStep, WorkStep, LoadStep, EnqueueStep, AbortStep
  <2>3. ASSUME OrphanWork \/ StartRunner \/ StopRunner \/ Restart \/ BeginWalk \/ ListPage
        PROVE  GateInv' /\ WalkInv'
    BY <1>1, <2>3, OrphanStep, RunnerStep, RestartStep, BeginWalkStep, ListPageStep
  <2> QED  BY <1>1, <2>1, <2>2, <2>3 DEF GateNext, ProfilePagesNext
<1> QED
  BY <1>1, ProfilesInitially, ProfilesInvGives, PTL DEF ProfilesSpec
=============================================================================
