------------------------------ MODULE MCDraft ------------------------------
(* Two entries of two rounds, and a pool in which one position is so       *)
(* crowded that the cap refuses a captain and the cron.                    *)
EXTENDS Draft, TLC

CONSTANTS k1, k2, p, q, r, q1, q2, o1, o2

MCRegistrations == {k1, k2, p, q, r}
MCApproved == {k1, k2, p, q, r}
MCWilling == {k1, k2}
MCPosition == [x \in MCRegistrations |-> IF x = r THEN "anchor" ELSE "opener"]
MCRank == [x \in MCRegistrations |-> IF x = r THEN 2 ELSE 3]

(* A pool of one, for the runs about operators and about the cron. *)
MCFew == {k1, k2, p}
MCFewRank == [x \in MCFew |-> 1]

MCSymmetry == Permutations({k1, k2}) \cup Permutations({p, q})
              \cup Permutations({q1, q2}) \cup Permutations({o1, o2})
=============================================================================
