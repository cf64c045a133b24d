------------------------------ MODULE BusySlot ------------------------------
(***************************************************************************)
(* What a busy flag promises: the work behind it is taken by one client at *)
(* a time, given back before another takes it, and closed at most once.    *)
(* The usage query slot is shown to implement it.                          *)
(***************************************************************************)
CONSTANTS Clients, Free, Closed

VARIABLE holder

SlotInit == holder = Free

Take == holder = Free /\ holder' \in Clients

Give == holder \in Clients /\ holder' = Free

Close == holder # Closed /\ holder' = Closed

SlotSpec == SlotInit /\ [][Take \/ Give \/ Close]_holder
=============================================================================
