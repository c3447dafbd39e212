---------------------------- MODULE SnakeDraft ----------------------------
(***************************************************************************)
(* What a Rivals draft promises, with no transactions, clocks or requests: *)
(* the turns of the snake come one after another, each turn either drafts  *)
(* one registration nobody has drafted yet or is skipped, and when the     *)
(* last turn is over nothing is drafted any more.  Module Draft, which     *)
(* models the server actions and the cron, is shown to implement it.       *)
(***************************************************************************)
EXTENDS Naturals

CONSTANTS
    Players,    \* the registrations that can be drafted
    Turns,      \* how many turns a full draft has, at least one
    Nobody      \* no player: the turn drafted nobody (yet)

VARIABLES
    turn,       \* 0 before the draft starts, Turns + 1 once it is over
    drafted     \* the player each turn drafted

snakeVars == <<turn, drafted>>

SnakeInit ==
    /\ turn = 0
    /\ drafted = [t \in 1..Turns |-> Nobody]

Open ==
    /\ turn = 0
    /\ turn' = 1
    /\ UNCHANGED drafted

(* The player drafted in this turn was drafted in no other turn. *)
Draw(p) ==
    /\ turn \in 1..Turns
    /\ \A t \in 1..Turns : drafted[t] # p
    /\ drafted' = [drafted EXCEPT ![turn] = p]
    /\ turn' = turn + 1

Pass ==
    /\ turn \in 1..Turns
    /\ turn' = turn + 1
    /\ UNCHANGED drafted

SnakeNext == Open \/ Pass \/ \E p \in Players : Draw(p)

SnakeSpec == SnakeInit /\ [][SnakeNext]_snakeVars
=============================================================================
