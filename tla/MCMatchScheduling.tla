------------------------- MODULE MCMatchScheduling -------------------------
(* Small instances of MatchScheduling. *)
EXTENDS MatchScheduling, TLC

MCCapacity == [s \in Slots |-> 1]
MCSlotTimes == [s \in Slots |-> {2}]
MCTimes == {2, 3}
MatchSymmetry == Permutations(Matches)
=============================================================================
