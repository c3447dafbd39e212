---------------------------- MODULE ResultsProofs ---------------------------
(***************************************************************************)
(* Proofs about MatchResults.  A result changes the winner of one map, so  *)
(* a running series that was undecided is decided, if at all, by exactly   *)
(* the threshold; that needs the invariant that it was undecided, and that *)
(* a match that has not begun has no results.                              *)
(***************************************************************************)
EXTENDS MatchResults, FiniteSetTheorems, TLAPS

ResultsInv ==
    /\ ResultsTypeOK
    /\ SeriesFollowsMaps
    /\ status \in {"scheduled", "deleted"} => \A k \in Orders : maps[k] = NoMap

-----------------------------------------------------------------------------
(* Counting wins *)

(* A side wins between none and all of the maps. *)
LEMMA WinsType ==
    ASSUME NEW rows, NEW s
    PROVE  Wins(rows, s) \in 0..MaxMaps
<1> DEFINE W == {k \in Orders : rows[k].winner = s}
<1>1. MaxMaps \in Nat
  BY ResultsAssumption
<1>2. IsFiniteSet(Orders) /\ Cardinality(Orders) = MaxMaps
  BY <1>1, FS_Interval DEF Orders
<1>3. W \subseteq Orders
  OBVIOUS
<1> HIDE DEF W
<1>4. IsFiniteSet(W) /\ Cardinality(W) <= Cardinality(Orders)
  BY <1>2, <1>3, FS_Subset
<1>5. Cardinality(W) \in Nat
  BY <1>4, FS_CardinalityType
<1>6. Cardinality(W) \in 0..MaxMaps
  BY <1>1, <1>2, <1>4, <1>5
<1> QED
  BY <1>6 DEF Wins, W

(* Who wins depends on the winners alone. *)
LEMMA WinsOfWinners ==
    ASSUME NEW rows, NEW other, \A k \in Orders : rows[k].winner = other[k].winner, NEW s
    PROVE  Wins(rows, s) = Wins(other, s)
<1>1. {k \in Orders : rows[k].winner = s} = {k \in Orders : other[k].winner = s}
  OBVIOUS
<1> QED
  BY <1>1 DEF Wins

(* Giving one map another winner adds at most one win to a side, and none  *)
(* to a side that is not the winner.                                       *)
LEMMA WinsStep ==
    ASSUME NEW rows, NEW other, NEW n \in Orders, NEW s,
           \A k \in Orders \ {n} : rows[k].winner = other[k].winner
    PROVE  /\ Wins(other, s) <= Wins(rows, s) + 1
           /\ other[n].winner # s => Wins(other, s) <= Wins(rows, s)
<1> DEFINE R == {k \in Orders : rows[k].winner = s}
           O == {k \in Orders : other[k].winner = s}
<1>1. MaxMaps \in Nat
  BY ResultsAssumption
<1>2. IsFiniteSet(Orders)
  BY <1>1, FS_Interval DEF Orders
<1>3. O \subseteq R \cup {n} /\ R \subseteq Orders /\ (other[n].winner # s => O \subseteq R)
  OBVIOUS
<1> HIDE DEF R, O
<1>4. IsFiniteSet(R) /\ Cardinality(R) \in Nat
  BY <1>2, <1>3, FS_Subset, FS_CardinalityType
<1>5. IsFiniteSet(R \cup {n}) /\ Cardinality(R \cup {n}) <= Cardinality(R) + 1
  BY <1>4, FS_AddElement
<1>6. Cardinality(O) <= Cardinality(R \cup {n}) /\ IsFiniteSet(O)
  BY <1>3, <1>5, FS_Subset
<1>7. other[n].winner # s => Cardinality(O) <= Cardinality(R)
  BY <1>3, <1>4, FS_Subset
<1>8. Cardinality(O) \in Nat /\ Cardinality(R \cup {n}) \in Nat
  BY <1>5, <1>6, FS_CardinalityType
<1>9. Cardinality(O) <= Cardinality(R) + 1
  BY <1>4, <1>5, <1>6, <1>8
<1> QED
  BY <1>7, <1>9 DEF Wins, R, O

(* More than half of the maps is at least one and no more than all. *)
LEMMA ThresholdType == Threshold \in 1..MaxMaps
BY ResultsAssumption DEF Threshold

(* The score of a series is a score. *)
LEMMA ScoreType == \A rows : SeriesScore(rows) \in Scores
BY WinsType DEF SeriesScore, Scores

(* The result that decides an undecided series gives it a legal score. *)
LEMMA DecidedScore ==
    ASSUME NEW rows, NEW other, NEW n \in Orders,
           \A k \in Orders \ {n} : rows[k].winner = other[k].winner,
           ~SeriesFinished(rows), SeriesFinished(other)
    PROVE  LegalScore(SeriesScore(other))
<1>1. \A s : Wins(rows, s) \in Nat /\ Wins(other, s) \in Nat
  BY WinsType, ResultsAssumption
<1>2. Threshold \in Nat
  BY ThresholdType, ResultsAssumption
<1>3. \A s \in Sides : Wins(rows, s) < Threshold
  BY <1>1, <1>2 DEF SeriesFinished
<1>4. PICK s \in Sides : Wins(other, s) >= Threshold
  BY DEF SeriesFinished
<1>5. other[n].winner = s /\ Wins(other, s) <= Wins(rows, s) + 1
  <2>1. /\ Wins(other, s) <= Wins(rows, s) + 1
        /\ other[n].winner # s => Wins(other, s) <= Wins(rows, s)
    BY WinsStep
  <2>2. Wins(rows, s) < Threshold /\ Wins(rows, s) \in Nat /\ Wins(other, s) \in Nat
    BY <1>1, <1>3
  <2> QED
    BY <1>2, <1>4, <2>1, <2>2
<1>6. Wins(other, s) = Threshold
  BY <1>1, <1>2, <1>3, <1>4, <1>5
<1>7. \A t \in Sides : t # s => Wins(other, t) < Threshold
  <2> SUFFICES ASSUME NEW t \in Sides, t # s PROVE Wins(other, t) < Threshold
    OBVIOUS
  <2>1. Wins(other, t) <= Wins(rows, t)
    BY <1>5, WinsStep
  <2> QED
    BY <1>1, <1>2, <1>3, <2>1
<1> QED
  BY <1>4, <1>6, <1>7 DEF LegalScore, SeriesScore, Sides

(* The score of a forfeit is a legal score. *)
LEMMA ForfeitType ==
    ASSUME NEW s \in Sides
    PROVE  ForfeitScore(s) \in Scores /\ LegalScore(ForfeitScore(s))
<1>1. Threshold \in 1..MaxMaps /\ MaxMaps \in Nat
  BY ThresholdType, ResultsAssumption
<1> QED
  BY <1>1 DEF ForfeitScore, Scores, LegalScore

-----------------------------------------------------------------------------
(* Maps *)

(* Setting a winner keeps the type of the rows and the other winners. *)
LEMMA WithType ==
    ASSUME ResultsTypeOK, NEW k \in Orders, NEW s \in Sides
    PROVE  /\ With(k, s) \in [Orders -> MapRows]
           /\ \A j \in Orders \ {k} : maps[j].winner = With(k, s)[j].winner
<1>1. [maps[k] EXCEPT !.winner = s] \in MapRows
  BY DEF ResultsTypeOK, MapRows
<1> QED
  BY <1>1 DEF With, ResultsTypeOK

(* Deleting the plans nobody used keeps the winners. *)
LEMMA UsedType ==
    ASSUME NEW rows \in [Orders -> MapRows]
    PROVE  /\ Used(rows) \in [Orders -> MapRows]
           /\ \A s \in Sides : Wins(Used(rows), s) = Wins(rows, s)
<1>1. NoMap \in MapRows
  BY DEF NoMap, MapRows
<1>2. Used(rows) \in [Orders -> MapRows]
  BY <1>1 DEF Used
<1>3. ASSUME NEW k \in Orders PROVE Used(rows)[k].winner = rows[k].winner
  <2>1. rows[k].winner \in Sides \cup {"none"}
    BY DEF MapRows
  <2>2. CASE rows[k].started \/ rows[k].winner \in Sides
    BY <2>2 DEF Used
  <2>3. CASE ~(rows[k].started \/ rows[k].winner \in Sides)
    BY <2>1, <2>3 DEF Used, NoMap
  <2> QED
    BY <2>2, <2>3
<1>4. \A s \in Sides : Wins(Used(rows), s) = Wins(rows, s)
  BY <1>3, WinsOfWinners
<1> QED
  BY <1>2, <1>4

(* The other side of a scored map is a side. *)
LEMMA OtherSideType == \A s \in Sides : OtherSide(s) \in Sides
BY DEF OtherSide, Sides

-----------------------------------------------------------------------------
(* Steps *)

(* A correction of map k: the winner of one map, and the result a finished *)
(* series gets, are of their types.                                        *)
LEMMA CorrectedType ==
    ASSUME ResultsTypeOK, NEW k \in Orders, Scored(k)
    PROVE  /\ With(k, OtherSide(maps[k].winner)) \in [Orders -> MapRows]
           /\ \A j \in Orders \ {k} :
                 maps[j].winner = With(k, OtherSide(maps[k].winner))[j].winner
<1>1. OtherSide(maps[k].winner) \in Sides
  BY OtherSideType DEF Scored
<1> QED
  BY <1>1, WithType

(* Every action keeps the types. *)
LEMMA ResultsTypeStep == ResultsTypeOK /\ [ResultsNext]_resultVars => ResultsTypeOK'
<1> SUFFICES ASSUME ResultsTypeOK, [ResultsNext]_resultVars PROVE ResultsTypeOK'
  OBVIOUS
<1>1. NoMap \in MapRows /\ PlannedMap \in MapRows
  BY DEF NoMap, PlannedMap, MapRows
<1>2. CASE StartMatch
  BY <1>2 DEF StartMatch, ResultsTypeOK
<1>3. CASE PlanMaps
  BY <1>1, <1>3 DEF PlanMaps, ResultsTypeOK
<1>4. CASE DropPlan
  BY <1>1, <1>4 DEF DropPlan, ResultsTypeOK
<1>5. CASE Cancel
  BY <1>5 DEF Cancel, ResultsTypeOK
<1>6. CASE Delete
  BY <1>6 DEF Delete, ResultsTypeOK
<1>7. ASSUME NEW k \in Orders, StartMap(k) PROVE ResultsTypeOK'
  <2>1. [maps EXCEPT ![k].started = TRUE] \in [Orders -> MapRows]
    BY DEF ResultsTypeOK, MapRows
  <2> QED
    BY <1>7, <2>1 DEF StartMap, ResultsTypeOK
<1>8. ASSUME NEW k \in Orders, CorrectMap(k) PROVE ResultsTypeOK'
  <2>1. With(k, OtherSide(maps[k].winner)) \in [Orders -> MapRows]
    BY <1>8, CorrectedType DEF CorrectMap
  <2>2. score' \in Scores /\ ruled' \in BOOLEAN
    BY <1>8, ScoreType DEF CorrectMap, ResultsTypeOK
  <2> QED
    BY <1>8, <2>1, <2>2 DEF CorrectMap, CountCorrection, ResultsTypeOK
<1>9. ASSUME NEW k \in Orders, CorrectSeries(k) PROVE ResultsTypeOK'
  BY <1>9, CorrectedType, ScoreType DEF CorrectSeries, CountCorrection, Finish, ResultsTypeOK
<1>10. ASSUME NEW k \in Orders, NEW s \in Sides, RecordMap(k, s) PROVE ResultsTypeOK'
  <2>1. With(k, s) \in [Orders -> MapRows]
    BY WithType
  <2>2. Used(With(k, s)) \in [Orders -> MapRows]
    BY <2>1, UsedType
  <2> QED
    BY <1>10, <2>1, <2>2, ScoreType DEF RecordMap, Finish, ResultsTypeOK
<1>11. ASSUME NEW s \in Sides, Forfeit(s) PROVE ResultsTypeOK'
  BY <1>11, UsedType, ForfeitType DEF Forfeit, Finish, ResultsTypeOK
<1>12. ASSUME NEW sc \in Scores, NEW ff \in BOOLEAN, CorrectResult(sc, ff) PROVE ResultsTypeOK'
  BY <1>12 DEF CorrectResult, CountCorrection, ResultsTypeOK
<1>13. CASE UNCHANGED resultVars
  BY <1>13 DEF resultVars, ResultsTypeOK
<1> QED
  BY <1>2, <1>3, <1>4, <1>5, <1>6, <1>7, <1>8, <1>9, <1>10, <1>11, <1>12, <1>13 DEF ResultsNext

(* Where nothing changes but what the invariant does not speak of *)
LEMMA SameResult ==
    ASSUME ResultsInv, ResultsTypeOK', maps' = maps, status' = status \/ status' = "cancelled",
           UNCHANGED <<score, forfeit, ruled>>
    PROVE  ResultsInv'
BY DEF ResultsInv, SeriesFollowsMaps, Wins, LegalScore, SeriesScore

(* The rows of a running match may change as long as it stays undecided. *)
LEMMA Undecided ==
    ASSUME ResultsTypeOK', status' = "in_progress",
           \A s \in Sides : Wins(maps', s) < Threshold
    PROVE  ResultsInv'
BY DEF ResultsInv, SeriesFollowsMaps, Wins

(* A series that is not finished by some rows is undecided by them. *)
LEMMA NotFinished ==
    ASSUME NEW rows, ~SeriesFinished(rows)
    PROVE  \A s \in Sides : Wins(rows, s) < Threshold
<1>1. \A s \in Sides : Wins(rows, s) \in Nat
  BY WinsType, ResultsAssumption
<1>2. Threshold \in Nat
  BY ThresholdType, ResultsAssumption
<1> QED
  BY <1>1, <1>2 DEF SeriesFinished

(* Rows without winners decide nothing. *)
LEMMA NoWinners ==
    ASSUME NEW rows, \A k \in Orders : rows[k].winner = "none"
    PROVE  \A s \in Sides : Wins(rows, s) < Threshold
<1> SUFFICES ASSUME NEW s \in Sides PROVE Wins(rows, s) < Threshold
  OBVIOUS
<1>1. {k \in Orders : rows[k].winner = s} = {}
  BY DEF Sides
<1>2. Wins(rows, s) = 0
  BY <1>1, FS_EmptySet DEF Wins
<1>3. Threshold \in 1..MaxMaps /\ MaxMaps \in Nat
  BY ThresholdType, ResultsAssumption
<1> QED
  BY <1>2, <1>3

(* A match that ends on its maps, by whichever step, has the score they    *)
(* add up to.                                                              *)
LEMMA EndsOnMaps ==
    ASSUME ResultsTypeOK', status' = "finished", LegalScore(score'), score' = SeriesScore(maps')
    PROVE  ResultsInv'
BY DEF ResultsInv, SeriesFollowsMaps, SeriesScore, Wins, LegalScore

(* A match whose score is declared has a legal one. *)
LEMMA EndsByRuling ==
    ASSUME ResultsTypeOK', status' = "finished", LegalScore(score'), forfeit' \/ ruled'
    PROVE  ResultsInv'
BY DEF ResultsInv, SeriesFollowsMaps, LegalScore

(* Every step keeps the invariant. *)
LEMMA ResultsStep == ResultsInv /\ [ResultsNext]_resultVars => ResultsInv'
<1> SUFFICES ASSUME ResultsInv, [ResultsNext]_resultVars PROVE ResultsInv'
  OBVIOUS
<1>1. ResultsTypeOK /\ ResultsTypeOK'
  BY ResultsTypeStep DEF ResultsInv
<1>2. CASE StartMatch
  <2>1. \A k \in Orders : maps'[k].winner = "none"
    BY <1>2 DEF StartMatch, ResultsInv, NoMap
  <2> QED
    BY <1>1, <1>2, <2>1, NoWinners, Undecided DEF StartMatch
<1>3. CASE PlanMaps
  <2>1. \A k \in Orders : maps'[k].winner = "none"
    BY <1>3 DEF PlanMaps, PlannedMap
  <2> QED
    BY <1>1, <1>3, <2>1, NoWinners, Undecided DEF PlanMaps
<1>4. CASE DropPlan
  <2>1. \A k \in Orders : maps'[k].winner = "none"
    BY <1>4 DEF DropPlan, NoMap
  <2> QED
    BY <1>1, <1>4, <2>1, NoWinners, Undecided DEF DropPlan
<1>5. CASE Cancel
  BY <1>1, <1>5, SameResult DEF Cancel
<1>6. CASE Delete
  BY <1>1, <1>6 DEF Delete, ResultsInv, SeriesFollowsMaps
<1>7. ASSUME NEW k \in Orders, StartMap(k) PROVE ResultsInv'
  <2>1. \A j \in Orders : maps'[j].winner = maps[j].winner
    BY <1>1, <1>7 DEF StartMap, ResultsTypeOK, MapRows
  <2>2. \A s \in Sides : Wins(maps', s) = Wins(maps, s)
    BY <2>1, WinsOfWinners
  <2>3. \A s \in Sides : Wins(maps, s) < Threshold
    BY <1>7 DEF StartMap, ResultsInv, SeriesFollowsMaps
  <2> QED
    BY <1>1, <1>7, <2>2, <2>3, Undecided DEF StartMap
<1>8. ASSUME NEW k \in Orders, CorrectMap(k) PROVE ResultsInv'
  <2>1. CASE status = "in_progress"
    <3>1. ~SeriesFinished(maps') /\ status' = "in_progress"
      BY <1>8, <2>1 DEF CorrectMap, CanCorrectMap
    <3> QED
      BY <1>1, <3>1, NotFinished, Undecided
  <2>2. CASE status = "finished"
    BY <1>1, <1>8, <2>2, EndsOnMaps DEF CorrectMap, CanCorrectMap
  <2>3. status \in {"in_progress", "finished"}
    BY <1>8 DEF CorrectMap, CanCorrectMap
  <2> QED
    BY <2>1, <2>2, <2>3
<1>9. ASSUME NEW k \in Orders, CorrectSeries(k) PROVE ResultsInv'
  <2> DEFINE rows == With(k, OtherSide(maps[k].winner))
  <2>1. PICK n \in Orders :
           SeriesFinished(rows) /\ ~SeriesFinished([rows EXCEPT ![n].winner = "none"])
    BY <1>9 DEF CorrectSeries, EndsSeries
  <2>2. rows \in [Orders -> MapRows]
    BY <1>1, <1>9, CorrectedType DEF CorrectSeries
  <2>3. \A j \in Orders \ {n} : [rows EXCEPT ![n].winner = "none"][j].winner = rows[j].winner
    BY <2>2
  <2> HIDE DEF rows
  <2>4. LegalScore(SeriesScore(rows))
    BY <2>1, <2>3, DecidedScore
  <2>5. status' = "finished" /\ score' = SeriesScore(rows) /\ maps' = rows
    BY <1>9 DEF CorrectSeries, Finish, rows
  <2> QED
    BY <1>1, <2>4, <2>5, EndsOnMaps
<1>10. ASSUME NEW k \in Orders, NEW s \in Sides, RecordMap(k, s) PROVE ResultsInv'
  <2> DEFINE rows == With(k, s)
  <2>1. rows \in [Orders -> MapRows] /\ \A j \in Orders \ {k} : maps[j].winner = rows[j].winner
    BY <1>1, WithType
  <2>2. ~SeriesFinished(maps)
    <3>1. \A t \in Sides : Wins(maps, t) < Threshold /\ Wins(maps, t) \in Nat
      BY <1>10, WinsType, ResultsAssumption DEF RecordMap, ResultsInv, SeriesFollowsMaps
    <3>2. Threshold \in Nat
      BY ThresholdType, ResultsAssumption
    <3> QED
      BY <3>1, <3>2 DEF SeriesFinished
  <2> HIDE DEF rows
  <2>3. CASE SeriesFinished(rows)
    <3>1. LegalScore(SeriesScore(rows))
      BY <2>1, <2>2, <2>3, DecidedScore
    <3>2. status' = "finished" /\ score' = SeriesScore(rows) /\ maps' = Used(rows)
      BY <1>10, <2>3 DEF RecordMap, Finish, rows
    <3>3. SeriesScore(Used(rows)) = SeriesScore(rows)
      BY <2>1, UsedType DEF SeriesScore, Sides
    <3> QED
      BY <1>1, <3>1, <3>2, <3>3, EndsOnMaps
  <2>4. CASE ~SeriesFinished(rows)
    <3>1. status' = "in_progress" /\ maps' = rows
      BY <1>10, <2>4 DEF RecordMap, rows
    <3> QED
      BY <1>1, <2>4, <3>1, NotFinished, Undecided
  <2> QED
    BY <2>3, <2>4
<1>11. ASSUME NEW s \in Sides, Forfeit(s) PROVE ResultsInv'
  BY <1>1, <1>11, ForfeitType, EndsByRuling DEF Forfeit, Finish
<1>12. ASSUME NEW sc \in Scores, NEW ff \in BOOLEAN, CorrectResult(sc, ff) PROVE ResultsInv'
  BY <1>1, <1>12, EndsByRuling DEF CorrectResult
<1>13. CASE UNCHANGED resultVars
  BY <1>1, <1>13 DEF resultVars, ResultsInv, SeriesFollowsMaps, Wins, LegalScore, SeriesScore
<1> QED
  BY <1>2, <1>3, <1>4, <1>5, <1>6, <1>7, <1>8, <1>9, <1>10, <1>11, <1>12, <1>13 DEF ResultsNext

(* A match that was just created satisfies the invariant. *)
LEMMA ResultsStart == ResultsInit => ResultsInv
<1> SUFFICES ASSUME ResultsInit PROVE ResultsInv
  OBVIOUS
<1>1. NoMap \in MapRows /\ NoScore \in Scores
  BY ResultsAssumption DEF NoMap, MapRows, NoScore, Scores
<1> QED
  BY <1>1 DEF ResultsInit, ResultsInv, ResultsTypeOK, SeriesFollowsMaps

-----------------------------------------------------------------------------
(* Theorems *)

(* The types of the result of a match hold for every length of a series    *)
(* and whatever is recorded, forfeited and corrected.                      *)
THEOREM ResultsTyped == ResultsSpec => []ResultsTypeOK
<1>1. ResultsInv => ResultsTypeOK
  BY DEF ResultsInv
<1> QED
  BY <1>1, ResultsStart, ResultsStep, PTL DEF ResultsSpec

(* For every length of a series: in whatever order results come and are    *)
(* corrected, a running series is undecided and a finished one has a legal *)
(* score, the one its maps add up to unless it was declared.               *)
THEOREM SeriesAlwaysFollowsMaps == ResultsSpec => []SeriesFollowsMaps
<1>1. ResultsInv => SeriesFollowsMaps
  BY DEF ResultsInv
<1> QED
  BY <1>1, ResultsStart, ResultsStep, PTL DEF ResultsSpec
=============================================================================
