------------------------------ MODULE VetoLog ------------------------------
(***************************************************************************)
(* What a veto room promises, with no transactions, clocks, commands or    *)
(* retries: a log of steps.  Answers are only ever added, behind those on  *)
(* record and to turns that still lack one; the map plan appears with the  *)
(* last of them; an administrator may cut the log back to the beginning of *)
(* a turn until a map is played; the maps of the plan are played, in any   *)
(* order; and the end of the match may drop those that were not.           *)
(* Module VetoRoom is shown to implement it.                               *)
(***************************************************************************)
EXTENDS Naturals

CONSTANTS
    Turns,          \* the turns of the format; turn 0 chooses the roles
    NoEntry,        \* nobody has been given the role of VETO A
    Answered(_, _), \* whether these steps answer this turn
    MapPlan(_)      \* the plan that these steps amount to

VARIABLES
    vetoA,          \* the entry that is VETO A
    steps,          \* the log
    plan,           \* the maps to be played
    played,         \* the orders of those that have begun
    over            \* the match has ended

logVars == <<vetoA, steps, plan, played, over>>

Finished(role, log) == role # NoEntry /\ \A t \in Turns : Answered(log, t)

LogInit ==
    /\ vetoA = NoEntry
    /\ steps = {}
    /\ plan = {}
    /\ played = {}
    /\ ~over

(* One transaction may bring several answers: those of turns that ran out  *)
(* of time, the answer it was sent for, and the decider after it.          *)
Append ==
    /\ ~over
    /\ plan = {}
    /\ vetoA # NoEntry => vetoA' = vetoA
    /\ steps \subseteq steps'
    /\ \A s \in steps' \ steps :
          /\ vetoA' # NoEntry
          /\ ~Answered(steps, s.turn)
          /\ \A r \in steps : s.order > r.order
    /\ plan' = IF Finished(vetoA', steps') THEN MapPlan(steps') ELSE {}
    /\ UNCHANGED <<played, over>>

Cut(t) ==
    /\ ~over
    /\ played = {}
    /\ vetoA' = IF t = 0 THEN NoEntry ELSE vetoA
    /\ steps' = {s \in steps : s.turn < t}
    /\ plan' = {}
    /\ UNCHANGED <<played, over>>

(* A map begins when it is started, or when its result comes first.        *)
Play(p) ==
    /\ ~over
    /\ played' = played \cup {p.order}
    /\ UNCHANGED <<vetoA, steps, plan, over>>

(* The end may come with the result of a map, and may drop the others.     *)
End ==
    /\ ~over
    /\ over' = TRUE
    /\ played' \in {played} \cup {played \cup {p.order} : p \in plan}
    /\ plan' \in {plan, {p \in plan : p.order \in played'}}
    /\ UNCHANGED <<vetoA, steps>>

LogNext == Append \/ (\E t \in {0} \cup Turns : Cut(t)) \/ (\E p \in plan : Play(p)) \/ End

LogSpec == LogInit /\ [][LogNext]_logVars
=============================================================================
