----------------------------- MODULE MCVetoRoom -----------------------------
(* Two entries, the first with a captain and another starter; formats cut  *)
(* down to the kinds of turns the real ones are made of.                   *)
EXTENDS VetoRoom, TLC

CONSTANTS a, b, captainA, starterA, captainB, tabA, tabB, tabA2,
          m1, m2, m3, m4

MCUsers == {captainA, starterA, captainB}
MCEntryOf == (captainA :> a) @@ (starterA :> a) @@ (captainB :> b)
MCCaptain == (a :> captainA) @@ (b :> captainB)
(* An entry may be represented by another starter than its captain.        *)
MCStarterRep == (a :> starterA) @@ (b :> captainB)
MCUserOf == [tab \in Tabs |-> CASE tab = tabA -> captainA [] tab = tabA2 -> starterA [] OTHER -> captainB]

(* Every kind of turn of the real formats: a ban of two, a pick, the       *)
(* decider and, last as in two of them, the side of the decider.           *)
MCMixed == << Turn("ban", "veto_b", 1, 2, 0), Turn("pick", "veto_a", 1, 1, 0),
              SystemDecider, Turn("side_pick", "veto_b", 1, 1, 3) >>
(* The shortest format.                                                    *)
MCShort == << Turn("ban", "veto_a", 1, 1, 0), SystemDecider >>

MCSymmetry == Permutations(Maps)
=============================================================================
