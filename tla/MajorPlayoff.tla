---------------------------- MODULE MajorPlayoff ----------------------------
(***************************************************************************)
(* The playoff of a Major (lib/major/playoff-runtime.ts, playoff.ts): four *)
(* quarterfinals are created from the seeds, and an administrator creates  *)
(* every later round from the results of the one before it, until the      *)
(* final results are published.                                            *)
(*                                                                         *)
(* Meanwhile matches are played, given up, cancelled and deleted, and a    *)
(* result from which later rounds were created may be corrected, which     *)
(* deletes those of its descendants that have not begun (lib/match-        *)
(* corrections/service.ts).  Every operation holds the row of the season,  *)
(* so each is one action.  How a match comes by its result is the subject  *)
(* of MatchResults; here the score is abstracted to the winner.            *)
(***************************************************************************)
EXTENDS Naturals, Sequences

VARIABLES
    started,     \* the playoff's major_stage_runs row exists
    thirdPlace,  \* its snapshot's hasThirdPlaceMatch
    match,       \* the matches row of each managedKey, or NoMatch
    prepared,    \* scheduled matches that proposals, lineups or steps refer to
    result       \* the major_final_results row, or NoResult

vars == <<started, thirdPlace, match, prepared, result>>

Seeds == 1..8
Quarterfinals == {"qf-1", "qf-2", "qf-3", "qf-4"}
Semifinals == {"sf-1", "sf-2"}
Finals == {"final-1", "third-1"}
Slots == Quarterfinals \cup Semifinals \cup Finals

Statuses == {"none", "scheduled", "in_progress", "finished", "cancelled"}
NoTeam == 0
Pairs == (Seeds \cup {NoTeam}) \X (Seeds \cup {NoTeam})
NoMatch == [status |-> "none", teams |-> <<NoTeam, NoTeam>>, winner |-> NoTeam]
Scheduled(pair) == [status |-> "scheduled", teams |-> pair, winner |-> NoTeam]
NoResult == [status |-> "none", placements |-> <<>>]

PlayoffTypeOK ==
    /\ started \in BOOLEAN
    /\ thirdPlace \in BOOLEAN
    /\ match \in [Slots -> [status : Statuses, teams : Pairs, winner : Seeds \cup {NoTeam}]]
    /\ \A s \in Slots :
          /\ IF match[s].status = "none" THEN match[s] = NoMatch
                                         ELSE match[s].teams \in Seeds \X Seeds
          /\ match[s].status = "finished" <=> match[s].winner # NoTeam
          /\ match[s].winner # NoTeam => match[s].winner \in {match[s].teams[1], match[s].teams[2]}
    /\ prepared \subseteq {s \in Slots : match[s].status = "scheduled"}
    /\ result.status \in {"none", "pending_confirmation", "confirmed"}
    /\ result.status = "none" <=> result = NoResult

-----------------------------------------------------------------------------
(* The bracket *)

(* QUARTERFINAL_SEED_PAIRS *)
SeedPair(s) ==
    IF s = "qf-1" THEN <<1, 8>> ELSE
    IF s = "qf-2" THEN <<4, 5>> ELSE
    IF s = "qf-3" THEN <<2, 7>> ELSE <<3, 6>>

(* The two matches that decide who plays in slot s of a later round *)
Sources(s) ==
    IF s = "sf-1" THEN <<"qf-1", "qf-2">> ELSE
    IF s = "sf-2" THEN <<"qf-3", "qf-4">> ELSE <<"sf-1", "sf-2">>

(* The semifinal a quarterfinal leads to *)
NextSemifinal(s) == IF s \in {"qf-1", "qf-2"} THEN "sf-1" ELSE "sf-2"

(* Variant: the match for the third place is forgotten. *)
DescendantsOnPath(s) ==
    IF s \in Quarterfinals THEN {NextSemifinal(s), "final-1"} ELSE
    IF s \in Semifinals THEN {"final-1"} ELSE {}

(* playoffDescendants *)
Descendants(s) ==
    IF s \in Quarterfinals THEN {NextSemifinal(s)} \cup Finals ELSE
    IF s \in Semifinals THEN Finals ELSE {}

Exists(s) == match[s].status # "none"
Finished(s) == match[s].status = "finished"
Winner(s) == match[s].winner
Loser(s) == IF match[s].teams[1] = match[s].winner THEN match[s].teams[2] ELSE match[s].teams[1]

(* Variant: the match for the third place is one of the winners too. *)
AdvancesWinner(from, s) == Winner(from)

(* Who goes from slot `from` to slot s *)
Advances(from, s) == IF s = "third-1" THEN Loser(from) ELSE Winner(from)
Expected(s) == <<Advances(Sources(s)[1], s), Advances(Sources(s)[2], s)>>

SamePair(s, pair) ==
    match[s].teams = pair \/ match[s].teams = <<pair[2], pair[1]>>

(* finalizeMajorPlayoffRoundInTransaction, before it looks at the round *)
QuarterfinalsMatchSeeds ==
    started /\ \A s \in Quarterfinals : Exists(s) /\ SamePair(s, SeedPair(s))

SemifinalsMatchWinners ==
    /\ \A s \in Semifinals : Exists(s)
    /\ \A s \in Quarterfinals : Finished(s)
    /\ \A s \in Semifinals : SamePair(s, Expected(s))

(* Those of the last round that the snapshot asks for *)
LastRound == IF thirdPlace THEN Finals ELSE {"final-1"}

(* buildFinalMajorPlacements, the groups the playoff decides *)
Placements ==
    LET first == {Winner("final-1")}
        second == {Loser("final-1")}
        semifinalists == {Loser(s) : s \in Semifinals}
        quarterfinalists == {Loser(s) : s \in Quarterfinals}
    IN  IF thirdPlace
        THEN <<first, second, {Winner("third-1")}, {Loser("third-1")}, quarterfinalists>>
        ELSE <<first, second, semifinalists, quarterfinalists>>

-----------------------------------------------------------------------------
(* The rounds *)

PlayoffInit ==
    /\ started = FALSE
    /\ thirdPlace = FALSE
    /\ match = [s \in Slots |-> NoMatch]
    /\ prepared = {}
    /\ result = NoResult

(* startMajorPlayoffInTransaction; a second call changes nothing. *)
StartPlayoff ==
    /\ ~started
    /\ started' = TRUE
    /\ thirdPlace' \in BOOLEAN
    /\ match' = [s \in Slots |-> IF s \in Quarterfinals THEN Scheduled(SeedPair(s)) ELSE NoMatch]
    /\ UNCHANGED <<prepared, result>>

Create(slots) ==
    match' = [s \in Slots |-> IF s \in slots THEN Scheduled(Expected(s)) ELSE match[s]]

(* Round "quarterfinal": the semifinals that are missing *)
CreateSemifinals ==
    /\ QuarterfinalsMatchSeeds
    /\ \A s \in Quarterfinals : Finished(s)
    /\ \A s \in Semifinals : Exists(s) => SamePair(s, Expected(s))
    /\ Create({s \in Semifinals : ~Exists(s)})
    /\ UNCHANGED <<started, thirdPlace, prepared, result>>

(* Round "semifinal": a final that exists ends it, and the insert fails on *)
(* matches_major_stage_run_managed_key_unique where only the match for the *)
(* third place is left.                                                    *)
CreateFinals ==
    /\ QuarterfinalsMatchSeeds
    /\ SemifinalsMatchWinners
    /\ \A s \in LastRound : ~Exists(s)
    /\ \A s \in Semifinals : Finished(s)
    /\ Create(LastRound)
    /\ UNCHANGED <<started, thirdPlace, prepared, result>>

(* Round "final": projectMajorPlayoff checks the whole bracket. *)
PublishResult ==
    /\ QuarterfinalsMatchSeeds
    /\ SemifinalsMatchWinners
    /\ result = NoResult
    /\ \A s \in Semifinals \cup LastRound : Finished(s)
    /\ \A s \in LastRound : SamePair(s, Expected(s))
    /\ result' = [status |-> "pending_confirmation", placements |-> Placements]
    /\ UNCHANGED <<started, thirdPlace, match, prepared>>

(* confirmMajorFinalResultInTx *)
ConfirmResult ==
    /\ result.status = "pending_confirmation"
    /\ result' = [status |-> "confirmed", placements |-> result.placements]
    /\ UNCHANGED <<started, thirdPlace, match, prepared>>

-----------------------------------------------------------------------------
(* The matches *)

(* Other rows come to refer to a scheduled match: a proposed time, a       *)
(* lineup that was submitted.                                              *)
Prepare(s) ==
    /\ match[s].status = "scheduled"
    /\ prepared' = prepared \cup {s}
    /\ UNCHANGED <<started, thirdPlace, match, result>>

(* Variant: the references outlive the match as it was planned. *)
PlayKeepingReferences(s, row) ==
    /\ match' = [match EXCEPT ![s] = row]
    /\ UNCHANGED <<started, thirdPlace, prepared, result>>

Play(s, row) ==
    /\ match' = [match EXCEPT ![s] = row]
    /\ prepared' = prepared \ {s}
    /\ UNCHANGED <<started, thirdPlace, result>>

StartMatch(s) ==
    /\ match[s].status = "scheduled"
    /\ Play(s, [status |-> "in_progress", teams |-> match[s].teams, winner |-> NoTeam])

FinishedRow(s, team) == [status |-> "finished", teams |-> match[s].teams, winner |-> team]

(* MatchResults!RecordMap of the map that ends the series, and Forfeit *)
FinishMatch(s) ==
    /\ match[s].status \in {"scheduled", "in_progress"}
    /\ \E i \in 1..2 : Play(s, FinishedRow(s, match[s].teams[i]))

CancelMatch(s) ==
    /\ match[s].status \in {"scheduled", "in_progress"}
    /\ Play(s, [status |-> "cancelled", teams |-> match[s].teams, winner |-> NoTeam])

(* deleteMatch also deletes what refers to the match. *)
DeleteMatch(s) ==
    /\ match[s].status = "scheduled"
    /\ Play(s, NoMatch)

-----------------------------------------------------------------------------
(* Corrections of the winner (lib/match-corrections/service.ts) *)

(* classifyDownstreamManagedMatches *)
Downstream(s) == {d \in Descendants(s) : Exists(d)}

(* Variant: only a match that has ended stands in the way. *)
UnblockedUntilFinished(s) ==
    /\ result = NoResult
    /\ \A d \in Downstream(s) : ~Finished(d)

(* planLockedResultCorrectionInTx finds no reason to block; the playoff is *)
(* the last stage, so no later one has begun.                              *)
Unblocked(s) ==
    /\ result = NoResult
    /\ \A d \in Downstream(s) : match[d].status = "scheduled"

(* applyResultCorrectionInTx deletes the rows of matches alone: a foreign  *)
(* key of anything that refers to one of them rolls everything back.       *)
CorrectWinner(s) ==
    /\ Finished(s)
    /\ Unblocked(s)
    /\ Downstream(s) \cap prepared = {}
    /\ match' = [d \in Slots |->
          IF d = s THEN FinishedRow(s, Loser(s))
          ELSE IF d \in Downstream(s) /\ match[d].status = "scheduled" THEN NoMatch
          ELSE match[d]]
    /\ UNCHANGED <<started, thirdPlace, prepared, result>>

PlayoffNext ==
    \/ StartPlayoff \/ CreateSemifinals \/ CreateFinals \/ PublishResult \/ ConfirmResult
    \/ \E s \in Slots :
          \/ Prepare(s) \/ StartMatch(s) \/ FinishMatch(s)
          \/ CancelMatch(s) \/ DeleteMatch(s) \/ CorrectWinner(s)

PlayoffSpec == PlayoffInit /\ [][PlayoffNext]_vars

-----------------------------------------------------------------------------
(* Properties *)

(* Whatever was corrected, deleted and created again: everything in the    *)
(* bracket follows from results that stand.  The teams of a match are      *)
(* those its two sources send there, now, and the published placements are *)
(* those of the matches as they now are.                                   *)
BracketFollowsResults ==
    /\ \A s \in Semifinals \cup Finals : Exists(s) =>
          /\ Finished(Sources(s)[1]) /\ Finished(Sources(s)[2])
          /\ match[s].teams = Expected(s)
    /\ result # NoResult =>
          /\ \A s \in Quarterfinals \cup Semifinals \cup LastRound : Finished(s)
          /\ result.placements = Placements

PlacedOnce(team, placements) ==
    \E i \in DOMAIN placements :
      \A j \in DOMAIN placements : team \in placements[j] <=> j = i

(* The groups of the published placements name each of the eight teams,    *)
(* and none of them twice (buildFinalMajorPlacements): no team is lost     *)
(* between the rounds, or sent into two matches of one.                    *)
EveryTeamPlacedOnce ==
    result # NoResult => \A team \in Seeds : PlacedOnce(team, result.placements)

(* "Replaceable downstream matches are explicitly invalidated"             *)
(* (service.ts:518): a correction whose plan blocks nothing can be         *)
(* applied.  It cannot once a time was proposed for, or a lineup submitted *)
(* to, a match it has to delete.                                           *)
RecoverableIsRecovered ==
    \A s \in Slots : (Finished(s) /\ Unblocked(s)) => ENABLED CorrectWinner(s)
=============================================================================
