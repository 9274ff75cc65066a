---------------------------- MODULE MCSlotRequests ----------------------------
(***************************************************************************)
(* Small instances of SlotRequests: one booking and one cart order compete *)
(* for two slots, whose categories and times let them clash or not.        *)
(***************************************************************************)
EXTENDS SlotRequests, TLC

MCPeople == [r \in Requests |-> 1]
MCWindows == {<<0, 1>>, <<1, 2>>}
MCWindow == {<<0, 1>>}

Symmetry == Permutations(Slots) \cup Permutations(Sessions) \cup Permutations(Categories)
=============================================================================
