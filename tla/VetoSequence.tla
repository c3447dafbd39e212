---------------------------- MODULE VetoSequence ----------------------------
(***************************************************************************)
(* The map veto ("BP") of one match as data: the turns of each format, the *)
(* turn a set of match_veto_steps rows has reached, the maps still to be   *)
(* chosen, and the map plan that a finished sequence amounts to.           *)
(*                                                                         *)
(* A turn is named by its position in the format; turn 0 is                *)
(* "choose-veto-team-a", in which the privileged entry names VETO A.       *)
(***************************************************************************)
EXTENDS Integers, Sequences, FiniteSets, FiniteSetsExt

CONSTANTS
    EntryA, EntryB,  \* the two competition entries of the match
    NoEntry,
    Maps,            \* mapPoolSnapshot
    Format,          \* the turn definitions of the match's format
    RoleTime         \* durationSeconds of turn 0

Entries == {EntryA, EntryB}
Other(e) == IF e = EntryA THEN EntryB ELSE EntryA
Sides == {"ct", "t"}
NoSide == "none"
Opposite(side) == IF side = "t" THEN "ct" ELSE "t"
NoTurn == -1

-----------------------------------------------------------------------------
(* Formats *)

Turn(action, actor, duration, count, from) ==
    [action |-> action, actor |-> actor, duration |-> duration,
     count |-> count, from |-> from]
Choice(action, actor, duration) == Turn(action, actor, duration, 1, 0)
SideOf(from, actor) == Turn("side_pick", actor, 45, 1, from)
SystemDecider == Turn("decider", "system", 0, 1, 0)

(* mapFromTurnKey is the position of the turn whose map gets a side.       *)
VetoTurnDefinitions ==
    [bo1 |-> << Turn("ban", "veto_a", 60, 2, 0), Turn("ban", "veto_b", 75, 3, 0),
                Choice("ban", "veto_a", 45), SystemDecider, SideOf(4, "veto_b") >>,
     bo3 |-> << Choice("ban", "veto_a", 45), Choice("ban", "veto_b", 45),
                Choice("pick", "veto_a", 45), SideOf(3, "veto_b"),
                Choice("pick", "veto_b", 45), SideOf(5, "veto_a"),
                Choice("ban", "veto_b", 45), Choice("ban", "veto_a", 45),
                SystemDecider, SideOf(9, "veto_b") >>,
     bo5 |-> << Choice("ban", "veto_a", 45), Choice("ban", "veto_b", 45),
                Choice("pick", "veto_a", 45), SideOf(3, "veto_b"),
                Choice("pick", "veto_b", 45), SideOf(5, "veto_a"),
                Choice("pick", "veto_a", 45), SideOf(7, "veto_b"),
                Choice("pick", "veto_b", 45), SideOf(9, "veto_a"),
                SystemDecider >>]

TurnDefinitions ==
    [action : {"ban", "pick", "side_pick", "decider"}, actor : {"veto_a", "veto_b", "system"},
     duration : Nat, count : Nat \ {0}, from : Nat]

TurnsOf(format, actions) == {t \in DOMAIN format : format[t].action \in actions}
MapsTaken(format, turns) ==
    Cardinality(UNION {{t} \X (1..format[t].count) : t \in turns})

(* A format can be played out on a pool: it plans a map, the system        *)
(* decider finds exactly one map left, a side is picked once and on a map  *)
(* that was chosen before it, by the entry that did not choose the map,    *)
(* and every human turn has a time limit.                                  *)
WellFormed(format, pool) ==
    /\ format \in Seq(TurnDefinitions)
    /\ TurnsOf(format, {"pick", "decider"}) # {}
    /\ \A t \in DOMAIN format :
          /\ (format[t].action = "decider") <=> (format[t].actor = "system")
          /\ format[t].actor # "system" => format[t].duration > 0
          /\ format[t].action \in {"side_pick", "decider"} => format[t].count = 1
    /\ \A t \in TurnsOf(format, {"decider"}) :
          MapsTaken(format, {u \in TurnsOf(format, {"ban", "pick"}) : u < t}) = pool - 1
    /\ \A t \in TurnsOf(format, {"side_pick"}) :
          /\ format[t].from \in TurnsOf(format, {"pick", "decider"})
          /\ format[t].from < t
          /\ format[t].actor # format[format[t].from].actor
    /\ \A t, u \in TurnsOf(format, {"side_pick"}) :
          format[t].from = format[u].from => t = u
    /\ MapsTaken(format, TurnsOf(format, {"ban", "pick", "decider"})) <= pool

MapCount(format) == MapsTaken(format, TurnsOf(format, {"pick", "decider"}))

MapPoolSize == 7
MaxReconcileTurns == 16

(* The three formats of the code fit its pool of seven, plan one, three    *)
(* and five maps, and fit, with turn 0, in one reconcile loop.             *)
ASSUME FormatAssumption ==
    /\ \A f \in DOMAIN VetoTurnDefinitions :
          /\ WellFormed(VetoTurnDefinitions[f], MapPoolSize)
          /\ Len(VetoTurnDefinitions[f]) + 1 < MaxReconcileTurns
    /\ MapCount(VetoTurnDefinitions.bo1) = 1
    /\ MapCount(VetoTurnDefinitions.bo3) = 3
    /\ MapCount(VetoTurnDefinitions.bo5) = 5

ASSUME VetoAssumption ==
    /\ EntryA # EntryB
    /\ NoEntry \notin Entries
    /\ Maps \cap Sides = {}
    /\ RoleTime \in Nat \ {0}
    /\ Len(Format) > 0
    /\ WellFormed(Format, Cardinality(Maps))

-----------------------------------------------------------------------------
(* Where a sequence stands *)

Turns == 1..Len(Format)
ActionOf(step) == Format[step.turn].action
StepsAt(steps, t) == {s \in steps : s.turn = t}
Answered(steps, t) == Cardinality(StepsAt(steps, t)) >= Format[t].count

(* deriveCurrentVetoTurn: the first turn with an answer missing, or NoTurn *)
(* when there is none (or nobody to begin).                                *)
CurrentTurn(privileged, vetoA, steps) ==
    IF privileged = NoEntry THEN NoTurn
    ELSE IF vetoA = NoEntry THEN 0
    ELSE IF \A t \in Turns : Answered(steps, t) THEN NoTurn
    ELSE Min({t \in Turns : ~Answered(steps, t)})

IsSystem(t) == t # 0 /\ Format[t].actor = "system"
Duration(t) == IF t = 0 THEN RoleTime ELSE Format[t].duration

(* resolveActorEntry, and the privileged entry for turn 0.                 *)
ActorEntry(privileged, vetoA, t) ==
    IF t = 0 THEN privileged
    ELSE IF Format[t].actor = "system" \/ vetoA = NoEntry THEN NoEntry
    ELSE IF Format[t].actor = "veto_a" THEN vetoA
    ELSE Other(vetoA)

(* Variant: only banned maps are out. *)
MapsNotBanned(steps) == Maps \ {s.map : s \in {x \in steps : ActionOf(x) = "ban"}}

EligibleMaps(steps) == Maps \ {s.map : s \in {x \in steps : ActionOf(x) # "side_pick"}}

NextOrder(steps) == 1 + Max({0} \cup {s.order : s \in steps})

(* The map a side is picked on.                                            *)
MapToSide(steps, t) == (CHOOSE s \in steps : s.turn = Format[t].from).map

-----------------------------------------------------------------------------
(* projectVetoMapPlan: the picks in their order, then the decider.         *)

MapSteps(steps) == {s \in steps : ActionOf(s) \in {"pick", "decider"}}
PlaysBefore(s, r) ==
    IF ActionOf(s) = ActionOf(r) THEN s.order < r.order ELSE ActionOf(s) = "pick"

StartSide(steps, map) ==
    LET picked == {s \in steps : ActionOf(s) = "side_pick" /\ s.map = map}
    IN  IF picked = {} THEN NoSide
        ELSE LET s == CHOOSE x \in picked : TRUE
             IN  IF s.entry = EntryA THEN s.side ELSE Opposite(s.side)

MapPlan(steps) ==
    {[order |-> 1 + Cardinality({r \in MapSteps(steps) : PlaysBefore(r, s)}),
      map |-> s.map,
      pickedBy |-> IF ActionOf(s) = "pick" THEN s.entry ELSE NoEntry,
      sideA |-> StartSide(steps, s.map)] : s \in MapSteps(steps)}
=============================================================================
