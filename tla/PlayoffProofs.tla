--------------------------- MODULE PlayoffProofs ---------------------------
(***************************************************************************)
(* The bracket always follows from results that stand: proofs about        *)
(* MajorPlayoff.  The type invariant and BracketFollowsResults are         *)
(* inductive together: a match that has not ended has no descendant, so    *)
(* playing it disturbs nothing, and a correction deletes the descendants   *)
(* of the match it corrects.                                               *)
(***************************************************************************)
EXTENDS MajorPlayoff, TLAPS

Later == Semifinals \cup Finals
Rows == [status : Statuses, teams : Pairs, winner : Seeds \cup {NoTeam}]

RowOK(row) ==
    /\ row \in Rows
    /\ IF row.status = "none" THEN row = NoMatch ELSE row.teams \in Seeds \X Seeds
    /\ row.status = "finished" <=> row.winner # NoTeam
    /\ row.winner # NoTeam => row.winner \in {row.teams[1], row.teams[2]}

(* The playoff has matches only once it has started, and its quarterfinals *)
(* are between the teams of their seeds.                                   *)
StartedFirst == started \/ \A s \in Slots : match[s] = NoMatch
SeedsPlay == \A s \in Quarterfinals : Exists(s) => match[s].teams = SeedPair(s)

Inv == PlayoffTypeOK /\ BracketFollowsResults /\ StartedFirst /\ SeedsPlay

(* The two sources of a later slot are other, earlier slots. *)
LEMMA SourceSlots ==
    ASSUME NEW d \in Later
    PROVE  /\ Sources(d)[1] \in Quarterfinals \cup Semifinals
           /\ Sources(d)[2] \in Quarterfinals \cup Semifinals
           /\ Sources(d)[1] # d /\ Sources(d)[2] # d
           /\ d \in Finals => Sources(d) = <<"sf-1", "sf-2">>
           /\ d \in Semifinals => Sources(d)[1] \in Quarterfinals /\ Sources(d)[2] \in Quarterfinals
  BY DEF Later, Sources, Quarterfinals, Semifinals, Finals

(* A slot is a descendant of its sources, and of theirs. *)
LEMMA SourcesPrecede ==
    ASSUME NEW d \in Later, NEW s \in {Sources(d)[1], Sources(d)[2]}
    PROVE  d \in Descendants(s)
  BY DEF Later, Sources, Descendants, NextSemifinal, Quarterfinals, Semifinals, Finals

(* What follows a slot is later, never itself, and ends in the finals. *)
LEMMA DescendantSlots ==
    ASSUME NEW s \in Slots
    PROVE  /\ Descendants(s) \subseteq Later
           /\ s \notin Descendants(s)
           /\ s \in Quarterfinals \cup Semifinals => Finals \subseteq Descendants(s)
  BY DEF Later, Slots, Descendants, NextSemifinal, Quarterfinals, Semifinals, Finals

(* The row of a slot is one the matches table may hold. *)
LEMMA RowsOK ==
    ASSUME PlayoffTypeOK, NEW s \in Slots
    PROVE  RowOK(match[s])
  BY DEF PlayoffTypeOK, RowOK, Rows

(* Planned matches are rows. *)
LEMMA ScheduledOK ==
    ASSUME NEW pair \in Seeds \X Seeds
    PROVE  RowOK(Scheduled(pair)) /\ Scheduled(pair).status = "scheduled" /\ Scheduled(pair).teams = pair
  BY DEF RowOK, Rows, Scheduled, Statuses, Pairs, Seeds, NoTeam, NoMatch

(* Both teams of a finished match are seeds. *)
LEMMA TeamsOfFinished ==
    ASSUME PlayoffTypeOK, NEW s \in Slots, Finished(s)
    PROVE  Winner(s) \in Seeds /\ Loser(s) \in Seeds
  <1>1. /\ match[s].teams \in Seeds \X Seeds
        /\ match[s].winner \in {match[s].teams[1], match[s].teams[2]}
    BY RowsOK DEF RowOK, Finished
  <1>. QED BY <1>1 DEF Winner, Loser

(* Once both its sources are finished, a later slot awaits two teams. *)
LEMMA ExpectedTeams ==
    ASSUME PlayoffTypeOK, NEW d \in Later, Finished(Sources(d)[1]), Finished(Sources(d)[2])
    PROVE  Expected(d) \in Seeds \X Seeds
  <1>1. Sources(d)[1] \in Slots /\ Sources(d)[2] \in Slots
    BY SourceSlots DEF Slots
  <1>. QED BY <1>1, TeamsOfFinished DEF Expected, Advances

-----------------------------------------------------------------------------
(* Placements read only the matches that decide them. *)
LEMMA PlacementsKept ==
    ASSUME thirdPlace' = thirdPlace,
           \A s \in Quarterfinals \cup Semifinals \cup LastRound : match'[s] = match[s]
    PROVE  Placements' = Placements
  <1>1. \A s \in Quarterfinals \cup Semifinals \cup LastRound :
           Winner(s)' = Winner(s) /\ Loser(s)' = Loser(s)
    BY DEF Winner, Loser
  <1>2. {Loser(s) : s \in Quarterfinals}' = {Loser(s) : s \in Quarterfinals}
    BY <1>1
  <1>3. {Loser(s) : s \in Semifinals}' = {Loser(s) : s \in Semifinals}
    BY <1>1
  <1>4. /\ Winner("final-1")' = Winner("final-1")
        /\ Loser("final-1")' = Loser("final-1")
    BY <1>1 DEF LastRound, Finals
  <1>5. thirdPlace => /\ Winner("third-1")' = Winner("third-1")
                      /\ Loser("third-1")' = Loser("third-1")
    BY <1>1 DEF LastRound, Finals
  <1>. QED BY <1>2, <1>3, <1>4, <1>5 DEF Placements

(* Typed rows make a typed state. *)
LEMMA TypedByRows ==
    ASSUME PlayoffTypeOK,
           match' \in [Slots -> Rows],
           \A s \in Slots : RowOK(match'[s]),
           started' \in BOOLEAN, thirdPlace' \in BOOLEAN,
           prepared' \subseteq {s \in Slots : match'[s].status = "scheduled"},
           result' = result
    PROVE  PlayoffTypeOK'
  BY DEF PlayoffTypeOK, RowOK, Rows

(* A step that changes nothing keeps the invariant. *)
LEMMA StutterKeepsInv ==
    ASSUME Inv, UNCHANGED vars
    PROVE  Inv'
  <1>. USE DEF Inv, vars
  <1>1. PlayoffTypeOK' /\ StartedFirst'
    BY DEF PlayoffTypeOK, StartedFirst
  <1>2. SeedsPlay'
    BY DEF SeedsPlay, Exists
  <1>3. LastRound' = LastRound /\ Placements' = Placements
    BY PlacementsKept DEF LastRound
  <1>4. \A s \in Later : Expected(s)' = Expected(s)
    BY DEF Expected, Advances, Winner, Loser
  <1>. QED BY <1>1, <1>2, <1>3, <1>4 DEF BracketFollowsResults, Finished, Exists, Later

(* Playing, giving up, cancelling or deleting a match that has not ended *)
LEMMA PlayKeepsInv ==
    ASSUME Inv, NEW s \in Slots, match[s].status \in {"scheduled", "in_progress"},
           NEW row, RowOK(row), row = NoMatch \/ row.teams = match[s].teams,
           Play(s, row)
    PROVE  Inv'
  <1>. USE DEF Inv
  <1>1. /\ match' \in [Slots -> Rows]
        /\ match'[s] = row
        /\ \A d \in Slots : d # s => match'[d] = match[d]
    BY DEF Play, PlayoffTypeOK, RowOK, Rows
  <1>2. PlayoffTypeOK'
    <2>1. \A d \in Slots : RowOK(match'[d])
      BY <1>1, RowsOK
    <2>2. prepared' \subseteq {d \in Slots : match'[d].status = "scheduled"}
      BY <1>1 DEF Play, PlayoffTypeOK
    <2>. QED BY <1>1, <2>1, <2>2, TypedByRows DEF Play, PlayoffTypeOK
  <1>3. ASSUME NEW d \in Later, Exists(d)'
        PROVE  Finished(Sources(d)[1])' /\ Finished(Sources(d)[2])' /\ match'[d].teams = Expected(d)'
    <2>1. Exists(d)
      BY <1>1, <1>3 DEF Exists, Later, Slots
    <2>2. /\ Finished(Sources(d)[1]) /\ Finished(Sources(d)[2])
          /\ match[d].teams = Expected(d)
      BY <2>1 DEF BracketFollowsResults, Later
    <2>3. Sources(d)[1] # s /\ Sources(d)[2] # s
      BY <2>2 DEF Finished
    <2>4. /\ match'[Sources(d)[1]] = match[Sources(d)[1]]
          /\ match'[Sources(d)[2]] = match[Sources(d)[2]]
      BY <1>1, <2>3, SourceSlots DEF Slots
    <2>5. match'[d].teams = match[d].teams
      BY <1>1, <1>3 DEF Exists, NoMatch, Later, Slots
    <2>6. Expected(d)' = Expected(d)
      BY <2>4 DEF Expected, Advances, Winner, Loser
    <2>. QED BY <2>2, <2>4, <2>5, <2>6 DEF Finished
  <1>4. ASSUME result' # NoResult
        PROVE  /\ \A d \in Quarterfinals \cup Semifinals \cup LastRound' : Finished(d)'
               /\ result'.placements = Placements'
    <2>1. /\ \A d \in Quarterfinals \cup Semifinals \cup LastRound : Finished(d)
          /\ result.placements = Placements
      BY <1>4 DEF BracketFollowsResults, Play
    <2>2. s \notin Quarterfinals \cup Semifinals \cup LastRound
      BY <2>1 DEF Finished
    <2>3. LastRound' = LastRound /\ LastRound \subseteq Finals
      BY DEF LastRound, Play, Finals
    <2>4. \A d \in Quarterfinals \cup Semifinals \cup LastRound : match'[d] = match[d]
      BY <1>1, <2>2, <2>3 DEF Slots
    <2>5. Placements' = Placements
      BY <2>4, PlacementsKept DEF Play
    <2>. QED BY <2>1, <2>3, <2>4, <2>5 DEF Finished, Play
  <1>5. StartedFirst'
    BY DEF StartedFirst, Play, NoMatch
  <1>6. SeedsPlay'
    BY <1>1 DEF SeedsPlay, Exists, NoMatch, Slots
  <1>. QED BY <1>2, <1>3, <1>4, <1>5, <1>6 DEF BracketFollowsResults, Later

(* Creating matches of a later round from sources that have ended *)
LEMMA CreateKeepsInv ==
    ASSUME Inv, started, result = NoResult, NEW slots \in SUBSET Later,
           \A d \in slots : ~Exists(d) /\ Finished(Sources(d)[1]) /\ Finished(Sources(d)[2]),
           Create(slots), UNCHANGED <<started, thirdPlace, prepared, result>>
    PROVE  Inv'
  <1>. USE DEF Inv
  <1>1. /\ match' = [d \in Slots |-> IF d \in slots THEN Scheduled(Expected(d)) ELSE match[d]]
        /\ slots \subseteq Slots
    BY DEF Create, Later, Slots
  <1>2. ASSUME NEW d \in slots
        PROVE  /\ match'[d] = Scheduled(Expected(d))
               /\ RowOK(match'[d])
               /\ match'[d].status = "scheduled" /\ match'[d].teams = Expected(d)
    BY <1>1, ExpectedTeams, ScheduledOK
  <1>3. \A d \in Slots \ slots : match'[d] = match[d]
    BY <1>1
  <1>4. \A d \in Slots : RowOK(match'[d])
    BY <1>2, <1>3, RowsOK
  <1>5. PlayoffTypeOK'
    <2>1. match' \in [Slots -> Rows]
      BY <1>1, <1>4 DEF RowOK
    <2>2. prepared' \subseteq {d \in Slots : match'[d].status = "scheduled"}
      BY <1>2, <1>3 DEF PlayoffTypeOK
    <2>. QED BY <1>4, <2>1, <2>2, TypedByRows DEF PlayoffTypeOK
  <1>6. \A s \in Slots : Finished(s) => match'[s] = match[s]
    BY <1>3 DEF Exists, Finished
  <1>7. ASSUME NEW d \in Later, Exists(d)'
        PROVE  Finished(Sources(d)[1])' /\ Finished(Sources(d)[2])' /\ match'[d].teams = Expected(d)'
    <2>1. /\ Finished(Sources(d)[1]) /\ Finished(Sources(d)[2])
          /\ match'[d].teams = Expected(d)
      BY <1>2, <1>3, <1>7 DEF BracketFollowsResults, Exists, Later, Slots
    <2>2. /\ match'[Sources(d)[1]] = match[Sources(d)[1]]
          /\ match'[Sources(d)[2]] = match[Sources(d)[2]]
      BY <1>6, <2>1, SourceSlots DEF Slots
    <2>3. Expected(d)' = Expected(d)
      BY <2>2 DEF Expected, Advances, Winner, Loser
    <2>. QED BY <2>1, <2>2, <2>3 DEF Finished
  <1>8. SeedsPlay'
    <2>1. \A s \in Quarterfinals : match'[s] = match[s]
      BY <1>3 DEF Quarterfinals, Later, Semifinals, Finals, Slots
    <2>. QED BY <2>1 DEF SeedsPlay, Exists
  <1>. QED BY <1>5, <1>7, <1>8 DEF BracketFollowsResults, Later, StartedFirst

(* A round is created once, by the operation on the round before it. *)
LEMMA RoundsKeepInv ==
    ASSUME Inv, CreateSemifinals \/ CreateFinals
    PROVE  Inv'
  <1>. USE DEF Inv
  <1>1. started
    BY DEF CreateSemifinals, CreateFinals, QuarterfinalsMatchSeeds
  <1>2. CASE CreateSemifinals
    <2>. DEFINE slots == {s \in Semifinals : ~Exists(s)}
    <2>1. /\ \A s \in Quarterfinals : Finished(s)
          /\ Create(slots)
          /\ UNCHANGED <<started, thirdPlace, prepared, result>>
      BY <1>2 DEF CreateSemifinals
    <2>2. slots \in SUBSET Later
      BY DEF Later
    <2>3. \A d \in slots : ~Exists(d) /\ Finished(Sources(d)[1]) /\ Finished(Sources(d)[2])
      BY <2>1, <2>2, SourceSlots
    <2>4. CASE result = NoResult
      <3>. HIDE DEF slots
      <3>. QED BY <1>1, <2>1, <2>2, <2>3, <2>4, CreateKeepsInv
    <2>5. CASE result # NoResult
      <3>1. slots = {}
        BY <2>5 DEF BracketFollowsResults, Finished, Exists
      <3>2. match' = match
        BY <2>1, <3>1 DEF Create, PlayoffTypeOK
      <3>. QED BY <2>1, <3>2, StutterKeepsInv DEF vars
    <2>. QED BY <2>4, <2>5
  <1>3. CASE CreateFinals
    <2>1. /\ \A s \in Semifinals : Finished(s)
          /\ \A s \in LastRound : ~Exists(s)
          /\ Create(LastRound)
          /\ UNCHANGED <<started, thirdPlace, prepared, result>>
      BY <1>3 DEF CreateFinals
    <2>2. LastRound \in SUBSET Later /\ LastRound \subseteq Finals /\ LastRound # {}
      BY DEF LastRound, Later, Finals
    <2>3. \A d \in LastRound : ~Exists(d) /\ Finished(Sources(d)[1]) /\ Finished(Sources(d)[2])
      BY <2>1, <2>2, SourceSlots DEF Semifinals
    <2>4. result = NoResult
      BY <2>1, <2>2 DEF BracketFollowsResults, Finished, Exists
    <2>. QED BY <1>1, <2>1, <2>2, <2>3, <2>4, CreateKeepsInv
  <1>. QED BY <1>2, <1>3

(* Starting the playoff keeps the invariant: the seeds meet in the         *)
(* quarterfinals, and nothing else exists.                                 *)
LEMMA StartKeepsInv ==
    ASSUME Inv, StartPlayoff
    PROVE  Inv'
  <1>. USE DEF Inv
  <1>1. /\ match' = [s \in Slots |-> IF s \in Quarterfinals THEN Scheduled(SeedPair(s)) ELSE NoMatch]
        /\ started' /\ thirdPlace' \in BOOLEAN /\ started' \in BOOLEAN
        /\ prepared' = prepared /\ result' = result
        /\ \A s \in Slots : match[s] = NoMatch
    BY DEF StartPlayoff, StartedFirst
  <1>2. \A s \in Slots : SeedPair(s) \in Seeds \X Seeds
    BY DEF SeedPair, Seeds
  <1>3. RowOK(NoMatch)
    BY DEF RowOK, Rows, NoMatch, Statuses, Pairs, Seeds, NoTeam
  <1>4. ASSUME NEW s \in Slots
        PROVE  RowOK(match'[s])
    BY <1>1, <1>2, <1>3, ScheduledOK
  <1>5. result = NoResult
    BY <1>1 DEF BracketFollowsResults, Finished, Quarterfinals, Slots, NoMatch
  <1>6. PlayoffTypeOK'
    <2>1. match' \in [Slots -> Rows]
      BY <1>1, <1>4 DEF RowOK
    <2>2. prepared = {}
      BY <1>1 DEF PlayoffTypeOK, NoMatch
    <2>. QED BY <1>1, <1>4, <2>1, <2>2, TypedByRows
  <1>7. \A d \in Later : ~Exists(d)'
    BY <1>1 DEF Exists, Later, Slots, Quarterfinals, Semifinals, Finals, NoMatch
  <1>8. SeedsPlay'
    BY <1>1, <1>2, ScheduledOK DEF SeedsPlay, Slots
  <1>. QED BY <1>1, <1>5, <1>6, <1>7, <1>8 DEF BracketFollowsResults, Later, StartedFirst

(* What can be told of a published result: it is that of the bracket. *)
LEMMA PublishKeepsInv ==
    ASSUME Inv, PublishResult \/ ConfirmResult
    PROVE  Inv'
  <1>. USE DEF Inv
  <1>1. UNCHANGED <<started, thirdPlace, match, prepared>>
    BY DEF PublishResult, ConfirmResult
  <1>2. /\ result'.status \in {"pending_confirmation", "confirmed"}
        /\ result'.placements = Placements
        /\ \A s \in Quarterfinals \cup Semifinals \cup LastRound : Finished(s)
    <2>1. CASE PublishResult
      BY <2>1 DEF PublishResult, SemifinalsMatchWinners
    <2>2. CASE ConfirmResult
      <3>1. result # NoResult
        BY <2>2 DEF ConfirmResult, NoResult
      <3>. QED BY <2>2, <3>1 DEF ConfirmResult, BracketFollowsResults
    <2>. QED BY <2>1, <2>2
  <1>3. result' # NoResult
    BY <1>2 DEF NoResult
  <1>4. PlayoffTypeOK'
    BY <1>1, <1>2, <1>3 DEF PlayoffTypeOK
  <1>5. StartedFirst' /\ SeedsPlay'
    BY <1>1 DEF StartedFirst, SeedsPlay, Exists
  <1>6. LastRound' = LastRound /\ Placements' = Placements
    BY <1>1, PlacementsKept DEF LastRound
  <1>7. \A s \in Later : Expected(s)' = Expected(s)
    BY <1>1 DEF Expected, Advances, Winner, Loser
  <1>. QED BY <1>1, <1>2, <1>4, <1>5, <1>6, <1>7 DEF BracketFollowsResults, Finished, Exists, Later

(* Preparing a match keeps the invariant: no row changes. *)
LEMMA PrepareKeepsInv ==
    ASSUME Inv, NEW s \in Slots, Prepare(s)
    PROVE  Inv'
  <1>. USE DEF Inv
  <1>1. UNCHANGED <<started, thirdPlace, match, result>>
    BY DEF Prepare
  <1>2. PlayoffTypeOK'
    BY DEF Prepare, PlayoffTypeOK
  <1>3. StartedFirst' /\ SeedsPlay'
    BY <1>1 DEF StartedFirst, SeedsPlay, Exists
  <1>4. LastRound' = LastRound /\ Placements' = Placements
    BY <1>1, PlacementsKept DEF LastRound
  <1>5. \A d \in Later : Expected(d)' = Expected(d)
    BY <1>1 DEF Expected, Advances, Winner, Loser
  <1>. QED BY <1>1, <1>2, <1>3, <1>4, <1>5 DEF BracketFollowsResults, Finished, Exists, Later

(* A correction deletes whatever was created from what it corrects. *)
LEMMA CorrectKeepsInv ==
    ASSUME Inv, NEW s \in Slots, CorrectWinner(s)
    PROVE  Inv'
  <1>. USE DEF Inv
  <1>1. /\ Finished(s) /\ result = NoResult /\ Downstream(s) \cap prepared = {}
        /\ \A d \in Downstream(s) : match[d].status = "scheduled"
        /\ UNCHANGED <<started, thirdPlace, prepared, result>>
    BY DEF CorrectWinner, Unblocked
  <1>2. match' = [d \in Slots |->
                    IF d = s THEN FinishedRow(s, Loser(s))
                    ELSE IF d \in Downstream(s) THEN NoMatch ELSE match[d]]
    BY <1>1 DEF CorrectWinner
  <1>3. /\ match[s].teams \in Seeds \X Seeds
        /\ Loser(s) \in Seeds /\ Loser(s) \in {match[s].teams[1], match[s].teams[2]}
    BY <1>1, RowsOK, TeamsOfFinished DEF RowOK, Loser, Finished
  <1>4. /\ RowOK(FinishedRow(s, Loser(s)))
        /\ FinishedRow(s, Loser(s)).status = "finished"
        /\ FinishedRow(s, Loser(s)).teams = match[s].teams
    BY <1>3 DEF RowOK, Rows, FinishedRow, Statuses, Pairs, Seeds, NoTeam
  <1>5. RowOK(NoMatch) /\ NoMatch.status = "none"
    BY DEF RowOK, Rows, NoMatch, Statuses, Pairs, Seeds, NoTeam
  <1>6. \A d \in Slots : RowOK(match'[d])
    BY <1>2, <1>4, <1>5, RowsOK
  <1>7. PlayoffTypeOK'
    <2>1. match' \in [Slots -> Rows]
      BY <1>2, <1>6 DEF RowOK
    <2>2. prepared' \subseteq {d \in Slots : match'[d].status = "scheduled"}
      BY <1>1, <1>2 DEF PlayoffTypeOK, Finished
    <2>. QED BY <1>1, <1>6, <2>1, <2>2, TypedByRows DEF PlayoffTypeOK
  <1>8. ASSUME NEW d \in Later, Exists(d)'
        PROVE  Finished(Sources(d)[1])' /\ Finished(Sources(d)[2])' /\ match'[d].teams = Expected(d)'
    <2>1. d \in Slots
      BY DEF Later, Slots
    <2>2. Exists(d) /\ d \notin Downstream(s) /\ match'[d].teams = match[d].teams
      BY <1>2, <1>1, <1>4, <1>5, <1>8, <2>1, DescendantSlots DEF Exists, Finished, Downstream
    <2>3. d \notin Descendants(s)
      BY <2>2 DEF Downstream
    <2>4. /\ Finished(Sources(d)[1]) /\ Finished(Sources(d)[2])
          /\ match[d].teams = Expected(d)
      BY <2>2 DEF BracketFollowsResults, Later
    <2>5. Sources(d)[1] \in Slots /\ Sources(d)[2] \in Slots
      BY SourceSlots DEF Slots
    <2>6. Sources(d)[1] # s /\ Sources(d)[2] # s
      BY <2>3, SourcesPrecede
    <2>7. Sources(d)[1] \notin Downstream(s) /\ Sources(d)[2] \notin Downstream(s)
      BY <1>1, <2>4 DEF Finished
    <2>8. /\ match'[Sources(d)[1]] = match[Sources(d)[1]]
          /\ match'[Sources(d)[2]] = match[Sources(d)[2]]
      BY <1>2, <2>5, <2>6, <2>7
    <2>9. Expected(d)' = Expected(d)
      BY <2>8 DEF Expected, Advances, Winner, Loser
    <2>. QED BY <2>2, <2>4, <2>8, <2>9 DEF Finished
  <1>9. StartedFirst'
    BY <1>1 DEF StartedFirst, Finished, NoMatch
  <1>10. SeedsPlay'
    <2>1. \A d \in Quarterfinals : d \notin Downstream(s)
      BY DescendantSlots DEF Downstream, Later, Quarterfinals, Semifinals, Finals
    <2>. QED BY <1>1, <1>2, <1>4, <2>1 DEF SeedsPlay, Exists, Finished, Slots
  <1>. QED BY <1>1, <1>7, <1>8, <1>9, <1>10 DEF BracketFollowsResults, Later

(* Playing, finishing, cancelling or deleting a match keeps the invariant: *)
(* only an unfinished row changes.                                         *)
LEMMA MatchesKeepInv ==
    ASSUME Inv, NEW s \in Slots, StartMatch(s) \/ FinishMatch(s) \/ CancelMatch(s) \/ DeleteMatch(s)
    PROVE  Inv'
  <1>. DEFINE status == match[s].status
              teams == match[s].teams
  <1>1. status \in {"scheduled", "in_progress"}
    BY DEF StartMatch, FinishMatch, CancelMatch, DeleteMatch
  <1>2. teams \in Seeds \X Seeds
    BY <1>1, RowsOK DEF RowOK, Inv
  <1>3. \E row :
           /\ Play(s, row) /\ RowOK(row)
           /\ row = NoMatch \/ row.teams = match[s].teams
    <2>. USE DEF RowOK, Rows, Statuses, Pairs, Seeds, NoTeam
    <2>1. CASE StartMatch(s)
      BY <1>2, <2>1 DEF StartMatch
    <2>2. CASE CancelMatch(s)
      BY <1>2, <2>2 DEF CancelMatch
    <2>3. CASE DeleteMatch(s)
      BY <2>3 DEF DeleteMatch, NoMatch
    <2>4. CASE FinishMatch(s)
      <3>1. PICK i \in 1..2 : Play(s, FinishedRow(s, teams[i]))
        BY <2>4 DEF FinishMatch
      <3>2. teams[i] \in Seeds /\ teams[i] \in {teams[1], teams[2]}
        BY <1>2
      <3>3. RowOK(FinishedRow(s, teams[i])) /\ FinishedRow(s, teams[i]).teams = teams
        BY <1>2, <3>2 DEF FinishedRow
      <3>. QED BY <3>1, <3>3
    <2>. QED BY <2>1, <2>2, <2>3, <2>4
  <1>. QED BY <1>1, <1>3, PlayKeepsInv

(* Before the playoff starts, the invariant holds: there is no match. *)
LEMMA InitInv ==
    ASSUME PlayoffInit
    PROVE  Inv
  BY DEF PlayoffInit, Inv, PlayoffTypeOK, BracketFollowsResults, StartedFirst, SeedsPlay, NoMatch, NoResult,
         Exists, Statuses, Pairs, Seeds, NoTeam, Slots, Quarterfinals, Semifinals, Finals

(* Every step keeps the invariant. *)
LEMMA NextInv ==
    ASSUME Inv, [PlayoffNext]_vars
    PROVE  Inv'
  BY StutterKeepsInv, StartKeepsInv, RoundsKeepInv, PublishKeepsInv, PrepareKeepsInv,
     MatchesKeepInv, CorrectKeepsInv DEF PlayoffNext

(* The invariant, for every behaviour *)
LEMMA InvHolds == PlayoffSpec => []Inv
  BY InitInv, NextInv, PTL DEF PlayoffSpec

(* The type invariant of the playoff holds in every behaviour. *)
THEOREM PlayoffTyped == PlayoffSpec => []PlayoffTypeOK
  <1>1. Inv => PlayoffTypeOK
    BY DEF Inv
  <1>. QED BY <1>1, InvHolds, PTL

(* Whatever matches are corrected, deleted and created again (CorrectWinner, *)
(* DeleteMatch, CreateSemifinals, CreateFinals), every match is between the  *)
(* teams its sources send there, and the published placements are those of   *)
(* the bracket as it stands.                                                 *)
THEOREM BracketAlwaysFollowsResults == PlayoffSpec => []BracketFollowsResults
  <1>1. Inv => BracketFollowsResults
    BY DEF Inv
  <1>. QED BY <1>1, InvHolds, PTL

(* Of the teams a and b, one won the match s and the other lost it. *)
Decided(s, a, b) ==
    \/ Winner(s) = a /\ Loser(s) = b
    \/ Winner(s) = b /\ Loser(s) = a

(* Of the two teams of a finished match, one won and the other lost. *)
LEMMA TwoTeams ==
    ASSUME PlayoffTypeOK, NEW s \in Slots, Finished(s), NEW a, NEW b, a # b,
           match[s].teams = <<a, b>>
    PROVE  Decided(s, a, b)
  BY RowsOK DEF RowOK, Winner, Loser, Finished, Decided

(* The teams of the quarterfinals are those of the seeds. *)
LEMMA QuarterfinalTeams ==
    ASSUME Inv, \A s \in Quarterfinals : Finished(s)
    PROVE  \A s \in Quarterfinals :
              Decided(s, SeedPair(s)[1], SeedPair(s)[2])
  <1>. SUFFICES ASSUME NEW s \in Quarterfinals
                PROVE  Decided(s, SeedPair(s)[1], SeedPair(s)[2])
    OBVIOUS
  <1>1. s \in Slots /\ match[s].teams = SeedPair(s)
    BY DEF Inv, SeedsPlay, Slots, Exists, Finished
  <1>2. SeedPair(s) = <<SeedPair(s)[1], SeedPair(s)[2]>> /\ SeedPair(s)[1] # SeedPair(s)[2]
    BY DEF SeedPair
  <1>. HIDE DEF Quarterfinals
  <1>3. match[s].teams = <<SeedPair(s)[1], SeedPair(s)[2]>>
    BY <1>1, <1>2
  <1>. QED BY <1>1, <1>2, <1>3, TwoTeams DEF Inv

(* The teams of a later match are those its sources send there. *)
LEMMA LaterTeams ==
    ASSUME Inv, NEW s \in Later, Finished(s), NEW a, NEW b, a # b, Expected(s) = <<a, b>>
    PROVE  Decided(s, a, b)
  <1>1. s \in Slots /\ match[s].teams = <<a, b>>
    BY DEF Inv, BracketFollowsResults, Later, Slots, Exists, Finished
  <1>. QED BY <1>1, TwoTeams DEF Inv

(* A team is in one of four groups, or one of five. *)
LEMMA OneOfFour ==
    ASSUME NEW team, NEW p1, NEW p2, NEW p3, NEW p4,
           \/ team \in p1 /\ team \notin p2 /\ team \notin p3 /\ team \notin p4
           \/ team \notin p1 /\ team \in p2 /\ team \notin p3 /\ team \notin p4
           \/ team \notin p1 /\ team \notin p2 /\ team \in p3 /\ team \notin p4
           \/ team \notin p1 /\ team \notin p2 /\ team \notin p3 /\ team \in p4
    PROVE  PlacedOnce(team, <<p1, p2, p3, p4>>)
  <1>. DEFINE p == <<p1, p2, p3, p4>>
  <1>1. DOMAIN p = 1..4 /\ p[1] = p1 /\ p[2] = p2 /\ p[3] = p3 /\ p[4] = p4
    OBVIOUS
  <1>2. \A j \in 1..4 : j = 1 \/ j = 2 \/ j = 3 \/ j = 4
    OBVIOUS
  <1>. HIDE DEF p
  <1>3. PlacedOnce(team, p)
    BY <1>1, <1>2 DEF PlacedOnce
  <1>. QED BY <1>3 DEF p

(* A team in exactly one of five places is placed once among five. *)
LEMMA OneOfFive ==
    ASSUME NEW team, NEW p1, NEW p2, NEW p3, NEW p4, NEW p5,
           \/ team \in p1 /\ team \notin p2 /\ team \notin p3 /\ team \notin p4 /\ team \notin p5
           \/ team \notin p1 /\ team \in p2 /\ team \notin p3 /\ team \notin p4 /\ team \notin p5
           \/ team \notin p1 /\ team \notin p2 /\ team \in p3 /\ team \notin p4 /\ team \notin p5
           \/ team \notin p1 /\ team \notin p2 /\ team \notin p3 /\ team \in p4 /\ team \notin p5
           \/ team \notin p1 /\ team \notin p2 /\ team \notin p3 /\ team \notin p4 /\ team \in p5
    PROVE  PlacedOnce(team, <<p1, p2, p3, p4, p5>>)
  <1>. DEFINE p == <<p1, p2, p3, p4, p5>>
  <1>1. DOMAIN p = 1..5 /\ p[1] = p1 /\ p[2] = p2 /\ p[3] = p3 /\ p[4] = p4 /\ p[5] = p5
    OBVIOUS
  <1>2. \A j \in 1..5 : j = 1 \/ j = 2 \/ j = 3 \/ j = 4 \/ j = 5
    OBVIOUS
  <1>. HIDE DEF p
  <1>3. PlacedOnce(team, p)
    BY <1>1, <1>2 DEF PlacedOnce
  <1>. QED BY <1>3 DEF p

(* Every team of the bracket loses one match, or two with a match for the   *)
(* third place, except the one that wins the final.                         *)
LEMMA BracketPartition ==
    ASSUME Inv, result # NoResult
    PROVE  EveryTeamPlacedOnce
  <1>1. /\ \A s \in Quarterfinals \cup Semifinals \cup LastRound : Finished(s)
        /\ result.placements = Placements
        /\ LastRound \subseteq Finals /\ "final-1" \in LastRound
        /\ thirdPlace => "third-1" \in LastRound
    BY DEF Inv, BracketFollowsResults, LastRound, Finals
  <1>2. /\ Decided("qf-1", 1, 8)
        /\ Decided("qf-2", 4, 5)
        /\ Decided("qf-3", 2, 7)
        /\ Decided("qf-4", 3, 6)
    <2>1. /\ "qf-1" \in Quarterfinals /\ SeedPair("qf-1")[1] = 1 /\ SeedPair("qf-1")[2] = 8
          /\ "qf-2" \in Quarterfinals /\ SeedPair("qf-2")[1] = 4 /\ SeedPair("qf-2")[2] = 5
          /\ "qf-3" \in Quarterfinals /\ SeedPair("qf-3")[1] = 2 /\ SeedPair("qf-3")[2] = 7
          /\ "qf-4" \in Quarterfinals /\ SeedPair("qf-4")[1] = 3 /\ SeedPair("qf-4")[2] = 6
      BY DEF SeedPair, Quarterfinals
    <2>2. \A s \in Quarterfinals :
              Decided(s, SeedPair(s)[1], SeedPair(s)[2])
      BY <1>1, QuarterfinalTeams
    <2>3. Decided("qf-1", 1, 8)
      BY <2>1, <2>2, Zenon
    <2>4. Decided("qf-2", 4, 5)
      BY <2>1, <2>2, Zenon
    <2>5. Decided("qf-3", 2, 7)
      BY <2>1, <2>2, Zenon
    <2>6. Decided("qf-4", 3, 6)
      BY <2>1, <2>2, Zenon
    <2>. QED BY <2>3, <2>4, <2>5, <2>6
  <1>3. /\ Decided("sf-1", Winner("qf-1"), Winner("qf-2"))
        /\ Decided("sf-2", Winner("qf-3"), Winner("qf-4"))
    <2>1. /\ Expected("sf-1") = <<Winner("qf-1"), Winner("qf-2")>>
          /\ Expected("sf-2") = <<Winner("qf-3"), Winner("qf-4")>>
      BY DEF Expected, Advances, Sources
    <2>2. Winner("qf-1") # Winner("qf-2") /\ Winner("qf-3") # Winner("qf-4")
      BY <1>2 DEF Decided
    <2>3. "sf-1" \in Later /\ Finished("sf-1") /\ "sf-2" \in Later /\ Finished("sf-2")
      BY <1>1 DEF Later, Semifinals
    <2>4. Decided("sf-1", Winner("qf-1"), Winner("qf-2"))
      BY <2>1, <2>2, <2>3, LaterTeams, Zenon
    <2>5. Decided("sf-2", Winner("qf-3"), Winner("qf-4"))
      BY <2>1, <2>2, <2>3, LaterTeams, Zenon
    <2>. QED BY <2>4, <2>5
  <1>4. Decided("final-1", Winner("sf-1"), Winner("sf-2"))
    <2>1. Expected("final-1") = <<Winner("sf-1"), Winner("sf-2")>>
      BY DEF Expected, Advances, Sources
    <2>2. Winner("sf-1") # Winner("sf-2")
      BY <1>2, <1>3 DEF Decided
    <2>3. "final-1" \in Later /\ Finished("final-1")
      BY <1>1 DEF Later
    <2>. QED BY <2>1, <2>2, <2>3, LaterTeams, Zenon
  <1>5. ASSUME thirdPlace
        PROVE  Decided("third-1", Loser("sf-1"), Loser("sf-2"))
    <2>1. Expected("third-1") = <<Loser("sf-1"), Loser("sf-2")>>
      BY DEF Expected, Advances, Sources
    <2>2. Loser("sf-1") # Loser("sf-2")
      BY <1>2, <1>3 DEF Decided
    <2>3. "third-1" \in Later /\ Finished("third-1")
      BY <1>1, <1>5 DEF Later
    <2>. QED BY <2>1, <2>2, <2>3, LaterTeams, Zenon
  <1>6. /\ {Loser(s) : s \in Semifinals} = {Loser("sf-1"), Loser("sf-2")}
        /\ {Loser(s) : s \in Quarterfinals} = {Loser("qf-1"), Loser("qf-2"), Loser("qf-3"), Loser("qf-4")}
    BY DEF Semifinals, Quarterfinals
  <1>7. ASSUME NEW team \in Seeds
        PROVE  PlacedOnce(team, result.placements)
    <2>. DEFINE first == {Winner("final-1")}
                second == {Loser("final-1")}
                semis == {Loser("sf-1"), Loser("sf-2")}
                quarters == {Loser("qf-1"), Loser("qf-2"), Loser("qf-3"), Loser("qf-4")}
                third == {Winner("third-1")}
                fourth == {Loser("third-1")}
    <2>1. team \in {1, 2, 3, 4, 5, 6, 7, 8}
      BY DEF Seeds
    <2>2. \/ team \in first /\ team \notin second /\ team \notin semis /\ team \notin quarters
          \/ team \notin first /\ team \in second /\ team \notin semis /\ team \notin quarters
          \/ team \notin first /\ team \notin second /\ team \in semis /\ team \notin quarters
          \/ team \notin first /\ team \notin second /\ team \notin semis /\ team \in quarters
      BY <1>2, <1>3, <1>4, <2>1, SMTT(60) DEF Decided
    <2>3. CASE ~thirdPlace
      <3>1. result.placements = <<first, second, semis, quarters>>
        BY <1>1, <1>6, <2>3 DEF Placements
      <3>. HIDE DEF first, second, semis, quarters
      <3>2. PlacedOnce(team, <<first, second, semis, quarters>>)
        BY <2>2, OneOfFour
      <3>. QED BY <3>1, <3>2
    <2>4. CASE thirdPlace
      <3>1. result.placements = <<first, second, third, fourth, quarters>>
        BY <1>1, <1>6, <2>4 DEF Placements
      <3>2. (team \in semis <=> team \in third \/ team \in fourth) /\ ~(team \in third /\ team \in fourth)
        <4>1. Decided("third-1", Loser("sf-1"), Loser("sf-2"))
          BY <1>5, <2>4
        <4>2. Loser("sf-1") # Loser("sf-2")
          BY <1>2, <1>3 DEF Decided
        <4>. QED BY <4>1, <4>2 DEF Decided
      <3>. HIDE DEF first, second, third, fourth, semis, quarters
      <3>3. PlacedOnce(team, <<first, second, third, fourth, quarters>>)
        BY <2>2, <3>2, OneOfFive
      <3>. QED BY <3>1, <3>3
    <2>. QED BY <2>3, <2>4
  <1>. QED BY <1>7 DEF EveryTeamPlacedOnce

(* Whoever is corrected, deleted and created again, the placements that are *)
(* published (PublishResult, buildFinalMajorPlacements) name every team of  *)
(* the playoff exactly once.                                                *)
THEOREM EveryTeamAlwaysPlacedOnce == PlayoffSpec => []EveryTeamPlacedOnce
  <1>1. Inv => EveryTeamPlacedOnce
    BY BracketPartition DEF EveryTeamPlacedOnce
  <1>. QED BY <1>1, InvHolds, PTL

=============================================================================
