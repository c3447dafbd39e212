----------------------------- MODULE MCBetting -----------------------------
(* A small instance of Betting: two back a and one b on the match, which   *)
(* leaves a remainder, and one backs b on its second map.                  *)
EXTENDS Betting

Wager(a, k, s) == [account |-> a, map |-> k, side |-> s]

MCAccounts == 1..3
MCWagers == {Wager(1, 0, "a"), Wager(2, 0, "a"), Wager(3, 0, "b"), Wager(3, 2, "b")}
=============================================================================
