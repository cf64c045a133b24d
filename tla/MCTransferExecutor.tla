------------------------- MODULE MCTransferExecutor -------------------------
(***************************************************************************)
(* Instances of TransferExecutor.                                          *)
(***************************************************************************)
EXTENDS TransferExecutor

OneProfile == [id \in TaskIds |-> "a"]

OwnHandle == [id \in TaskIds |-> id]

OneAttempt == [id \in TaskIds |-> 1]

TwoAttempts == [id \in TaskIds |-> 2]

FirstTwice == [id \in TaskIds |-> IF id = 1 THEN 2 ELSE 1]

SizeOne == [id \in TaskIds |-> 1]

SizeTwo == [id \in TaskIds |-> 2]

NoCap == None

SizeUnknown == [id \in TaskIds |-> None]
=============================================================================
