-------------------------- MODULE MCTransferQueue --------------------------
(***************************************************************************)
(* Two instances of TransferQueue in one run.  Part "lifecycle": task 1,   *)
(* with two attempts and a size of two bytes, through every operation,     *)
(* restarts and a clock that moves both ways.  Part "limits": tasks 2..5   *)
(* of three profiles compete for two places, one per profile, in a queue   *)
(* of three; their bytes and the clock stand still.                        *)
(***************************************************************************)
EXTENDS TransferQueue

VARIABLE part

ThreeProfiles == [id \in TaskIds |-> CASE id = 3 -> "b" [] id = 5 -> "c" [] OTHER -> "a"]

Attempts == [id \in TaskIds |-> IF id = 1 THEN 2 ELSE 1]

Sizes == [id \in TaskIds |-> IF id = 1 THEN 2 ELSE None]

IdsOf(p) == IF p = "lifecycle" THEN {1} ELSE 2..5

\* The rows of part "limits" change their state only.
StateOnly ==
  \A id \in DOMAIN store' :
    /\ store'[id].bytes = 0
    /\ store'[id].total = None
    /\ store'[id].checkpoint = None
    /\ store'[id].policy = "Fail"
    /\ id \in DOMAIN store /\ store'[id] # store[id] => store'[id].state # store[id].state

MCInit == Init /\ part \in {"lifecycle", "limits"}

MCNext ==
  /\ Next
  /\ DOMAIN store' \subseteq IdsOf(part)
  /\ part = "limits" => clock' = 0 /\ StateOnly
  /\ UNCHANGED part

MCSpec == MCInit /\ [][MCNext]_<<vars, part>>
=============================================================================
