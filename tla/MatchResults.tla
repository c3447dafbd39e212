---------------------------- MODULE MatchResults ----------------------------
(***************************************************************************)
(* The result of one match of an event: its status, the maps its veto has  *)
(* planned, their results, and the score of the series (lib/matches/       *)
(* results.ts, completion.ts, map-start.ts, map-score-correction.ts,       *)
(* series-score-correction.ts, lib/match-corrections/service.ts).          *)
(*                                                                         *)
(* Results come by hand and from a live source, in any order; a series     *)
(* ends with the map that decides it; later a map, the series or the whole *)
(* result may be corrected.  Every operation holds the season and match    *)
(* row locks from its first read to its commit, so each is one action.     *)
(* A map's score is abstracted to its winner, and what happens to the      *)
(* matches that follow from this one is left to MajorPlayoff.              *)
(***************************************************************************)
EXTENDS Naturals, FiniteSets

CONSTANTS
    MaxMaps,         \* getMaxMaps(format): 1, 3 or 5
    MaxPlans,        \* bound: how often the veto makes a plan
    MaxCorrections   \* bound: corrections of a map or of the result

ASSUME ResultsAssumption ==
    /\ MaxMaps \in {1, 3, 5}
    /\ MaxPlans \in Nat
    /\ MaxCorrections \in Nat

VARIABLES
    status,       \* matches.status, or "deleted"
    gameplay,     \* matches.gameplayStartedAt is set
    maps,         \* the match_maps row of each mapOrder, or NoMap
    plan,         \* counts the map plans, whose rows are new each time
    score,        \* matches.scoreA and scoreB
    forfeit,      \* matches.isForfeit
    ruled,        \* history: the score is one the administrators declared
    corrections   \* bound

resultVars == <<status, gameplay, maps, plan, score, forfeit, ruled, corrections>>

Sides == {"a", "b"}
Orders == 1..MaxMaps
NoMap == [exists |-> FALSE, started |-> FALSE, winner |-> "none"]
PlannedMap == [exists |-> TRUE, started |-> FALSE, winner |-> "none"]
MapRows == [exists : BOOLEAN, started : BOOLEAN, winner : Sides \cup {"none"}]
Scores == [a : 0..MaxMaps, b : 0..MaxMaps]
NoScore == [a |-> 0, b |-> 0]

OtherSide(s) == IF s = "a" THEN "b" ELSE "a"
Over == status \in {"finished", "cancelled", "deleted"}

ResultsTypeOK ==
    /\ status \in {"scheduled", "in_progress", "finished", "cancelled", "deleted"}
    /\ gameplay \in BOOLEAN
    /\ maps \in [Orders -> MapRows]
    /\ plan \in Nat
    /\ score \in Scores
    /\ forfeit \in BOOLEAN
    /\ ruled \in BOOLEAN
    /\ corrections \in Nat

-----------------------------------------------------------------------------
(* Rules (result-rules.ts) *)

Threshold == MaxMaps \div 2 + 1

Wins(rows, s) == Cardinality({k \in Orders : rows[k].winner = s})

SeriesScore(rows) == [a |-> Wins(rows, "a"), b |-> Wins(rows, "b")]

(* Variant: the number of maps played decides. *)
SeriesPlayedOut(rows) ==
    Cardinality({k \in Orders : rows[k].winner \in Sides}) = MaxMaps

SeriesFinished(rows) == \E s \in Sides : Wins(rows, s) >= Threshold

(* validateSeriesScore, and the check matches_series_score_shape *)
LegalScore(sc) ==
    \/ sc.a = Threshold /\ sc.b < Threshold
    \/ sc.b = Threshold /\ sc.a < Threshold

SeriesWinner(sc) == IF sc.a > sc.b THEN "a" ELSE "b"

Scored(k) == maps[k].winner \in Sides

(* The first map in order that is not complete *)
NextMap(k) ==
    /\ maps[k].exists /\ ~Scored(k)
    /\ \A j \in 1..(k - 1) : maps[j].exists => Scored(j)

With(k, s) == [maps EXCEPT ![k].winner = s]

(* persistCompletedMatchInTx deletes the plans nobody used. *)
Used(rows) ==
    [k \in Orders |-> IF rows[k].started \/ rows[k].winner \in Sides THEN rows[k] ELSE NoMap]

-----------------------------------------------------------------------------
(* Before the first map *)

ResultsInit ==
    /\ status = "scheduled"
    /\ gameplay = FALSE
    /\ maps = [k \in Orders |-> NoMap]
    /\ plan = 0
    /\ score = NoScore
    /\ forfeit = FALSE
    /\ ruled = FALSE
    /\ corrections = 0

StartMatch ==
    /\ status = "scheduled"
    /\ status' = "in_progress"
    /\ UNCHANGED <<gameplay, maps, plan, score, forfeit, ruled, corrections>>

(* The veto is complete: VetoRoom!Planned. *)
PlanMaps ==
    /\ status = "in_progress"
    /\ \A k \in Orders : ~maps[k].exists
    /\ plan < MaxPlans
    /\ maps' = [k \in Orders |-> PlannedMap]
    /\ plan' = plan + 1
    /\ UNCHANGED <<status, gameplay, score, forfeit, ruled, corrections>>

(* The veto is rewound before the first map: VetoRoom!Rewound. *)
DropPlan ==
    /\ status = "in_progress"
    /\ ~gameplay
    /\ \A k \in Orders : maps[k] = PlannedMap
    /\ maps' = [k \in Orders |-> NoMap]
    /\ UNCHANGED <<status, gameplay, plan, score, forfeit, ruled, corrections>>

(* startCanonicalMapInTx *)
StartMap(k) ==
    /\ status = "in_progress"
    /\ NextMap(k)
    /\ ~maps[k].started
    /\ maps' = [maps EXCEPT ![k].started = TRUE]
    /\ gameplay' = TRUE
    /\ UNCHANGED <<status, plan, score, forfeit, ruled, corrections>>

Cancel ==
    /\ status \in {"scheduled", "in_progress"}
    /\ status' = "cancelled"
    /\ UNCHANGED <<gameplay, maps, plan, score, forfeit, ruled, corrections>>

Delete ==
    /\ status = "scheduled"
    /\ status' = "deleted"
    /\ UNCHANGED <<gameplay, maps, plan, score, forfeit, ruled, corrections>>

-----------------------------------------------------------------------------
(* Results *)

Finish(rows, sc) ==
    /\ status' = "finished"
    /\ maps' = rows
    /\ score' = sc

(* recordMapResultInTx of a match of an event: no map must come before     *)
(* another, and a map that was never started can have a result.            *)
RecordMap(k, s) ==
    LET rows == With(k, s)
    IN  /\ status = "in_progress"
        /\ maps[k].exists /\ ~Scored(k)
        /\ IF SeriesFinished(rows)
           THEN Finish(Used(rows), SeriesScore(rows))
           ELSE maps' = rows /\ UNCHANGED <<status, score>>
        /\ UNCHANGED <<gameplay, plan, forfeit, ruled, corrections>>

ForfeitScore(loser) ==
    IF loser = "a" THEN [a |-> 0, b |-> Threshold] ELSE [a |-> Threshold, b |-> 0]

(* forfeitMatch *)
Forfeit(loser) ==
    /\ status \in {"scheduled", "in_progress"}
    /\ Finish(Used(maps), ForfeitScore(loser))
    /\ forfeit' = TRUE
    /\ UNCHANGED <<gameplay, plan, ruled, corrections>>

-----------------------------------------------------------------------------
(* Corrections *)

CountCorrection ==
    /\ corrections < MaxCorrections
    /\ corrections' = corrections + 1

(* Variant: the correction of a running series may decide it. *)
CanCorrectAnyMap(k) ==
    LET rows == With(k, OtherSide(maps[k].winner))
    IN  status = "in_progress" \/ LegalScore(SeriesScore(rows))

(* correctMapScoreInTx: it may neither end a series nor change the winner  *)
(* of one that has ended, nor give it a score the table refuses.           *)
CanCorrectMap(k) ==
    LET rows == With(k, OtherSide(maps[k].winner))
    IN  CASE status = "in_progress" -> ~SeriesFinished(rows)
          [] status = "finished" -> /\ LegalScore(SeriesScore(rows))
                                    /\ SeriesWinner(SeriesScore(rows)) = SeriesWinner(score)
          [] OTHER -> FALSE

CorrectMap(k) ==
    LET rows == With(k, OtherSide(maps[k].winner))
    IN  /\ Scored(k)
        /\ ~forfeit
        /\ CanCorrectMap(k)
        /\ CountCorrection
        /\ maps' = rows
        /\ IF status = "finished"
           THEN score' = SeriesScore(rows) /\ ruled' = FALSE
           ELSE UNCHANGED <<score, ruled>>
        /\ UNCHANGED <<status, gameplay, plan, forfeit>>

(* planEarlySeriesFinish: the results have no gap, the corrected series is *)
(* decided by the last of them, and no later map has begun.                *)
EndsSeries(k) ==
    LET rows == With(k, OtherSide(maps[k].winner))
    IN  \E n \in Orders :
            /\ \A j \in Orders : Scored(j) <=> j <= n
            /\ \A j \in Orders : j > n => ~maps[j].started
            /\ SeriesFinished(rows)
            /\ ~SeriesFinished([rows EXCEPT ![n].winner = "none"])

(* correctSeriesAfterMapScoreChangeInTx keeps the plans (preserveMapPlans) *)
CorrectSeries(k) ==
    LET rows == With(k, OtherSide(maps[k].winner))
    IN  /\ status = "in_progress"
        /\ Scored(k)
        /\ EndsSeries(k)
        /\ CountCorrection
        /\ Finish(rows, SeriesScore(rows))
        /\ UNCHANGED <<gameplay, plan, forfeit, ruled>>

(* applyResultCorrectionInTx where nothing that follows from the match     *)
(* stands in the way; the maps keep what they say.                         *)
CorrectResult(sc, ff) ==
    /\ status = "finished"
    /\ LegalScore(sc)
    /\ ff => sc \in {ForfeitScore(s) : s \in Sides}
    /\ sc # score \/ ff # forfeit
    /\ CountCorrection
    /\ score' = sc
    /\ forfeit' = ff
    /\ ruled' = TRUE
    /\ UNCHANGED <<status, gameplay, maps, plan>>

ResultsNext ==
    \/ StartMatch \/ PlanMaps \/ DropPlan \/ Cancel \/ Delete
    \/ \E k \in Orders : StartMap(k) \/ CorrectMap(k) \/ CorrectSeries(k)
    \/ \E k \in Orders, s \in Sides : RecordMap(k, s)
    \/ \E s \in Sides : Forfeit(s)
    \/ \E sc \in Scores, ff \in BOOLEAN : CorrectResult(sc, ff)

ResultsSpec == ResultsInit /\ [][ResultsNext]_resultVars

-----------------------------------------------------------------------------
(* Properties *)

(* Whatever the order in which the results of the maps came and were       *)
(* corrected, a running series is undecided, and one that ended on its     *)
(* maps has the legal score they add up to.                                *)
SeriesFollowsMaps ==
    /\ status = "in_progress" => \A s \in Sides : Wins(maps, s) < Threshold
    /\ status = "finished" => LegalScore(score)
    /\ (status = "finished" /\ ~forfeit /\ ~ruled) => score = SeriesScore(maps)
=============================================================================
