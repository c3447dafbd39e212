---------------------------- MODULE DraftProofs ----------------------------
(***************************************************************************)
(* Proofs about Draft.  Types and the shape of the draft_state row are     *)
(* inductive together: the row has a current entry exactly while a round   *)
(* is played, season and rosters follow the row, and an open transaction   *)
(* that checked the row without a lock can only have found it started.     *)
(* The order of the picks, the rosters and the caps build on that.         *)
(***************************************************************************)
EXTENDS Draft, SequenceTheorems, FiniteSetTheorems, TLAPS

(* The draft_state row, the season and the rosters. *)
Shape ==
    /\ draft.round = 0 => draft = NoDraft
    /\ draft.entry = NoEntry <=> draft.round \in {0, TotalRounds + 1}
    /\ season = "voting" => draft.round = 0 /\ picks = <<>> /\ rosterStatus = "none"
    /\ season = "playing" <=> draft.round = TotalRounds + 1
    /\ season = "playing" <=> rosterStatus = "frozen"

(* What a transaction saw of them is still true. *)
TxShape ==
    \A w \in Workers :
      /\ tx[w].op = "start" => season # "voting"
      /\ tx[w].op \in {"pause", "resume"} => draft.round # 0

DraftInv == TypeOK /\ Shape /\ TxShape

-----------------------------------------------------------------------------
(* The snake *)

(* Slots and entries of a round are each other's inverse. *)
LEMMA SnakeInverse ==
    ASSUME NEW k \in Nat, NEW s \in Entries
    PROVE  /\ EntryAt(s, k) \in Entries
           /\ SnakeSlot(s, k) \in Entries
           /\ SnakeSlot(EntryAt(s, k), k) = s
BY DraftAssumption DEF Entries, EntryAt, SnakeSlot

(* Entries, and slots, are counted from 1 to Teams. *)
LEMMA EntryRange ==
    /\ 1 \in Entries
    /\ Entries \subseteq 0..Teams
    /\ \A s \in Entries : s \in Nat \ {0} /\ s \in Nat /\ s # NoEntry
    /\ \A s \in Entries : s < Teams => s + 1 \in Entries
    /\ \A s \in Entries : ~(s < Teams) => s = Teams
BY DraftAssumption DEF Entries, NoEntry

(* A round has Teams turns. *)
LEMMA RoundLength ==
    ASSUME NEW k \in Nat
    PROVE  /\ (k - 1) * Teams + Teams = k * Teams
           /\ ((k + 1) - 1) * Teams = k * Teams
           /\ k * Teams \in Nat
           /\ (k - 1) * Teams \in Int
           /\ k >= 1 => (k - 1) * Teams \in Nat
           /\ k * Teams = Teams * k
<1>1. Teams \in Nat
  BY DraftAssumption
<1>2. ASSUME NEW b \in Nat
      PROVE  /\ (k - 1) * b + b = k * b
             /\ ((k + 1) - 1) * b = k * b
             /\ k * b \in Nat
             /\ (k - 1) * b \in Int
             /\ k * b = b * k
  OBVIOUS
<1>3. ASSUME NEW b \in Nat, k >= 1
      PROVE  (k - 1) * b \in Nat
  BY <1>3
<1> QED
  BY <1>1, <1>2, <1>3

(* The turns are numbered in the order of the snake. *)
LEMMA TurnInside ==
    ASSUME NEW k \in Nat, NEW e \in Entries, SnakeSlot(e, k) < Teams
    PROVE  TurnNumber(k, EntryAt(SnakeSlot(e, k) + 1, k)) = TurnNumber(k, e) + 1
<1>0. SnakeSlot(e, k) \in Entries
  BY SnakeInverse, Zenon
<1>1. SnakeSlot(e, k) + 1 \in Entries /\ SnakeSlot(e, k) \in Nat
  BY <1>0, EntryRange, Zenon
<1>2. SnakeSlot(EntryAt(SnakeSlot(e, k) + 1, k), k) = SnakeSlot(e, k) + 1
  BY <1>1, SnakeInverse
<1>3. ASSUME NEW i \in Int, NEW j \in Nat
      PROVE  i + (j + 1) = (i + j) + 1
  OBVIOUS
<1>4. (k - 1) * Teams \in Int
  BY RoundLength
<1> QED
  BY <1>1, <1>2, <1>3, <1>4 DEF TurnNumber

(* The first turn of a round follows the last of the round before. *)
LEMMA TurnAcross ==
    ASSUME NEW k \in Nat, NEW e \in Entries, ~(SnakeSlot(e, k) < Teams)
    PROVE  /\ TurnNumber(k, e) = k * Teams
           /\ TurnNumber(k + 1, EntryAt(1, k + 1)) = k * Teams + 1
<1>1. SnakeSlot(e, k) = Teams
  BY SnakeInverse, EntryRange, Zenon
<1>2. 1 \in Entries /\ k + 1 \in Nat
  BY EntryRange
<1>3. SnakeSlot(EntryAt(1, k + 1), k + 1) = 1
  BY <1>2, SnakeInverse
<1> QED
  BY <1>1, <1>3, RoundLength DEF TurnNumber

(* Turns are numbered from 1. *)
LEMMA TurnType ==
    ASSUME NEW k \in Nat \ {0}, NEW e \in Entries
    PROVE  TurnNumber(k, e) \in Nat \ {0}
<1>1. SnakeSlot(e, k) \in Nat \ {0}
  BY SnakeInverse, EntryRange, Zenon
<1>2. (k - 1) * Teams \in Nat
  BY RoundLength
<1> QED
  BY <1>1, <1>2 DEF TurnNumber

-----------------------------------------------------------------------------
(* The next turn *)

(* A turn is played in a round, and while the season drafts. *)
LEMMA InRound ==
    ASSUME TypeOK, Shape, draft.entry # NoEntry
    PROVE  /\ draft.round \in 1..TotalRounds
           /\ draft.entry \in Entries
           /\ season = "drafting"
BY DraftAssumption DEF TypeOK, Shape, Drafts, NoEntry, Entries

(* Advance moves to the next turn, or ends draft, season and rosters. *)
LEMMA AdvanceTurn ==
    ASSUME TypeOK, Shape, draft.entry # NoEntry, NEW at \in Nat, Advance(at)
    PROVE  /\ draft' \in Drafts
           /\ draft'.round # 0
           /\ draft'.entry = NoEntry <=> draft'.round = TotalRounds + 1
           /\ IF draft'.round = TotalRounds + 1
              THEN season' = "playing" /\ rosterStatus' = "frozen"
              ELSE season' = season /\ rosterStatus' = rosterStatus
           /\ CurrentTurn' = CurrentTurn + 1
<1>1. draft.round \in 1..TotalRounds /\ draft.entry \in Entries
  BY InRound
<1>2. CurrentTurn = TurnNumber(draft.round, draft.entry)
  BY <1>1 DEF CurrentTurn
<1>3. /\ at + RoundTimeout \in Nat /\ TotalRounds \in Nat \ {0}
      /\ Entries \subseteq 0..Teams /\ \A e \in Entries : e # NoEntry
  BY DraftAssumption, EntryRange
<1>4. CASE InsideRound
  <2> DEFINE e == EntryAt(SnakeSlot(draft.entry, draft.round) + 1, draft.round)
  <2>1. SnakeSlot(draft.entry, draft.round) + 1 \in Entries
    <3>1. SnakeSlot(draft.entry, draft.round) \in Entries
      BY <1>1, SnakeInverse
    <3> QED
      BY <1>4, <3>1, EntryRange DEF InsideRound
  <2>2. e \in Entries
    BY <1>1, <2>1, SnakeInverse
  <2>3. NextTurn(draft.round, e, at)
    BY <1>4 DEF Advance, AtRoundEnd, AtDraftEnd
  <2>4. TurnNumber(draft.round, e) = TurnNumber(draft.round, draft.entry) + 1
    BY <1>1, <1>4, TurnInside DEF InsideRound
  <2> HIDE DEF e
  <2> QED
    BY <1>1, <1>2, <1>3, <2>2, <2>3, <2>4 DEF NextTurn, Drafts, CurrentTurn
<1>5. CASE AtRoundEnd
  <2> DEFINE e == EntryAt(1, draft.round + 1)
  <2>1. e \in Entries /\ draft.round + 1 \in 1..TotalRounds
    BY <1>1, <1>3, <1>5, SnakeInverse, EntryRange DEF AtRoundEnd
  <2>2. NextTurn(draft.round + 1, e, at)
    BY <1>1, <1>3, <1>5 DEF Advance, AtRoundEnd, AtDraftEnd
  <2>3. TurnNumber(draft.round + 1, e) = TurnNumber(draft.round, draft.entry) + 1
    BY <1>1, <1>5, TurnAcross DEF AtRoundEnd, InsideRound
  <2> HIDE DEF e
  <2> QED
    BY <1>1, <1>2, <1>3, <2>1, <2>2, <2>3 DEF NextTurn, Drafts, CurrentTurn
<1>6. CASE AtDraftEnd
  <2>1. FinalizeDraft
    BY <1>1, <1>3, <1>6 DEF Advance, AtRoundEnd, AtDraftEnd
  <2>2. TurnNumber(draft.round, draft.entry) = TotalRounds * Teams
    BY <1>1, <1>6, TurnAcross DEF AtDraftEnd, InsideRound
  <2>3. TotalRounds * Teams = Turns
    BY DraftAssumption DEF Turns
  <2> QED
    <3>1. /\ draft' = [round |-> TotalRounds + 1, entry |-> 0, deadline |-> 0, active |-> FALSE]
          /\ season' = "playing" /\ rosterStatus' = "frozen"
      BY <2>1 DEF FinalizeDraft, NoEntry, NoDeadline
    <3>2. draft' \in Drafts
      BY <1>3, <3>1, EntryRange, DraftAssumption DEF Drafts
    <3>3. CurrentTurn' = Turns + 1
      BY <1>3, <3>1 DEF CurrentTurn, NoEntry
    <3>4. CurrentTurn + 1 = Turns + 1
      BY <1>2, <2>2, <2>3
    <3> QED
      BY <1>3, <3>1, <3>2, <3>3, <3>4 DEF NoEntry
<1> QED
  BY <1>4, <1>5, <1>6 DEF Advance

-----------------------------------------------------------------------------
(* The steps *)

Rows == <<season, captain, draft, picks, roster, starters, rosterStatus>>

(* A transaction that picks, with what it was called with or read. *)
SomePick ==
    \E e \in Entries, r \in Registrations, q \in Requests \cup AutoRequests,
       auto \in BOOLEAN, at \in Nat :
      ExecuteDraftPick(e, r, q, auto, at)

(* What the automatic pick chooses from are registrations. *)
LEMMA ChoicesApproved == \A e \in Entries : AutoPickChoices(e) \subseteq Registrations
<1> SUFFICES ASSUME NEW e \in Entries PROVE AutoPickChoices(e) \subseteq Registrations
  OBVIOUS
<1>1. Candidates \subseteq Registrations
  BY DraftAssumption DEF Candidates
<1>2. Vacant(e) \subseteq Registrations /\ Eligible(e) \subseteq Registrations
  BY <1>1 DEF Vacant, Eligible
<1> QED
  BY <1>2 DEF AutoPickChoices, Best

(* A captain's commit picks with what the captain sent. *)
LEMMA CaptainPicks ==
    ASSUME TypeOK, NEW w \in Captains, CommitPick(w)
    PROVE  SomePick
<1>1. w \in Workers
  BY DEF Workers
<1>2. tx[w] \in Transactions /\ tx[w].op = "pick"
  BY <1>1 DEF TypeOK, CommitPick
<1>3. /\ tx[w].entry \in Entries /\ tx[w].registration \in Registrations
      /\ tx[w].request \in Requests /\ tx[w].at \in Nat
  BY <1>2 DEF Transactions
<1>4. ExecuteDraftPick(tx[w].entry, tx[w].registration, tx[w].request, FALSE, tx[w].at)
  BY DEF CommitPick
<1> HIDE DEF SomePick
<1> QED
  BY <1>3, <1>4 DEF SomePick

(* The cron's commit picks for the current entry. *)
LEMMA CronPicks ==
    ASSUME TypeOK, Shape, CommitAuto
    PROVE  SomePick
<1> DEFINE q == [entry |-> draft.entry, round |-> draft.round, deadline |-> draft.deadline]
<1>1. PICK r \in AutoPickChoices(draft.entry) :
        ExecuteDraftPick(draft.entry, r, q, TRUE, tx[Cron].at)
  BY DEF CommitAuto
<1>2. draft.round \in 1..TotalRounds /\ draft.entry \in Entries
  BY InRound DEF CommitAuto
<1>3. Cron \in Workers
  BY DEF Workers
<1>4. tx[Cron] \in Transactions /\ tx[Cron].op = "auto"
  BY <1>3 DEF TypeOK, CommitAuto
<1>5. tx[Cron].at \in Nat
  BY <1>4 DEF Transactions
<1>6. r \in Registrations
  BY <1>2, ChoicesApproved
<1>7. q \in AutoRequests
  BY <1>2 DEF AutoRequests, TypeOK, Drafts
<1> HIDE DEF q
<1> QED
  BY <1>1, <1>2, <1>5, <1>6, <1>7 DEF SomePick

(* Every step confirms, starts, picks, skips, pauses, resumes or changes   *)
(* nothing but transactions and the clock.                                 *)
LEMMA StepCases ==
    ASSUME TypeOK, Shape, [Next]_vars
    PROVE  \/ ConfirmCaptains
           \/ SomePick
           \/ \E w \in Operators : CommitStart(w) \/ CommitSkip(w) \/ CommitPause(w) \/ CommitResume(w)
           \/ UNCHANGED Rows
<1>1. ASSUME NEW w \in Captains, CaptainStep(w) PROVE SomePick \/ UNCHANGED Rows
  BY <1>1, CaptainPicks DEF CaptainStep, BeginPick, Begin, Rows
<1>2. ASSUME NEW w \in Operators, OperatorStep(w)
      PROVE  \/ CommitStart(w) \/ CommitSkip(w) \/ CommitPause(w) \/ CommitResume(w)
             \/ UNCHANGED Rows
  BY <1>2 DEF OperatorStep, BeginStart, BeginSkip, BeginPause, BeginResume, Begin, Rows
<1>3. ASSUME BeginAuto \/ CommitAuto PROVE SomePick \/ UNCHANGED Rows
  BY <1>3, CronPicks DEF BeginAuto, Begin, Rows
<1>4. ASSUME NEW w \in Workers, Rollback(w) PROVE UNCHANGED Rows
  BY <1>4 DEF Rollback, Rows
<1>5. ASSUME Tick \/ UNCHANGED vars PROVE UNCHANGED Rows
  BY <1>5 DEF Tick, vars, Rows
<1> QED
  BY <1>1, <1>2, <1>3, <1>4, <1>5 DEF Next

-----------------------------------------------------------------------------
(* Types and shape *)

(* Transactions keep their types. *)
LEMMA TxStep ==
    ASSUME DraftInv, [Next]_vars
    PROVE  tx' \in [Workers -> Transactions] /\ now' \in Nat
<1>1. /\ tx \in [Workers -> Transactions] /\ now \in Nat
      /\ \A w \in Operators : w \in Workers
      /\ \A w \in Captains : w \in Workers
      /\ Cron \in Workers
  BY DEF DraftInv, TypeOK, Workers
<1>2. /\ Idle \in Transactions
      /\ \A o \in {"start", "skip", "pause", "resume"} : [op |-> o] \in Transactions
      /\ [op |-> "auto", at |-> now] \in Transactions
  BY <1>1 DEF Idle, Transactions
<1>3. ASSUME NEW w, End(w) PROVE tx' \in [Workers -> Transactions]
  BY <1>1, <1>2, <1>3 DEF End
<1>4. ASSUME NEW w \in Workers, NEW t \in Transactions, Begin(w, t)
      PROVE  tx' \in [Workers -> Transactions] /\ now' = now
  BY <1>1, <1>4 DEF Begin
<1>5. ASSUME NEW w \in Captains, CaptainStep(w) PROVE tx' \in [Workers -> Transactions] /\ now' = now
  <2>1. ASSUME NEW e \in Entries, NEW r \in Registrations, NEW q \in Requests, BeginPick(w, e, r, q)
        PROVE  tx' \in [Workers -> Transactions] /\ now' = now
    <3>1. [op |-> "pick", at |-> now, entry |-> e, registration |-> r, request |-> q] \in Transactions
      BY <1>1 DEF Transactions
    <3> QED
      BY <1>1, <1>4, <2>1, <3>1 DEF BeginPick
  <2>2. ASSUME CommitPick(w) PROVE tx' \in [Workers -> Transactions] /\ now' = now
    BY <1>3, <2>2 DEF CommitPick, ExecuteDraftPick
  <2> QED
    BY <1>5, <2>1, <2>2 DEF CaptainStep
<1>6. ASSUME NEW w \in Operators, OperatorStep(w)
      PROVE  tx' \in [Workers -> Transactions] /\ now' = now
  <2>1. ASSUME BeginStart(w) \/ BeginSkip(w) \/ BeginPause(w) \/ BeginResume(w)
        PROVE  tx' \in [Workers -> Transactions] /\ now' = now
    BY <1>1, <1>2, <1>4, <2>1 DEF BeginStart, BeginSkip, BeginPause, BeginResume
  <2>2. ASSUME CommitStart(w) \/ CommitSkip(w) \/ CommitPause(w) \/ CommitResume(w)
        PROVE  tx' \in [Workers -> Transactions] /\ now' = now
    BY <1>3, <2>2 DEF CommitStart, CommitSkip, CommitPause, CommitResume
  <2> QED
    BY <1>6, <2>1, <2>2 DEF OperatorStep
<1>7. ASSUME BeginAuto \/ CommitAuto PROVE tx' \in [Workers -> Transactions] /\ now' = now
  BY <1>1, <1>2, <1>3, <1>4, <1>7 DEF BeginAuto, CommitAuto, ExecuteDraftPick
<1>8. ASSUME NEW w \in Workers, Rollback(w) PROVE tx' \in [Workers -> Transactions] /\ now' = now
  BY <1>3, <1>8 DEF Rollback
<1>9. ASSUME ConfirmCaptains \/ Tick \/ UNCHANGED vars
      PROVE  tx' \in [Workers -> Transactions] /\ now' \in Nat
  BY <1>1, <1>9 DEF ConfirmCaptains, Tick, vars
<1> QED
  BY <1>1, <1>5, <1>6, <1>7, <1>8, <1>9 DEF Next

(* A pick keeps the types and the shape, and moves on by one turn. *)
LEMMA PickStep ==
    ASSUME TypeOK, Shape,
           NEW e \in Entries, NEW r \in Registrations, NEW q \in Requests \cup AutoRequests,
           NEW auto \in BOOLEAN, NEW at \in Nat, ExecuteDraftPick(e, r, q, auto, at)
    PROVE  /\ draft.entry = e /\ draft.round \in 1..TotalRounds
           /\ season = "drafting" /\ r \notin Drafted
           /\ [entry |-> e, registration |-> r, round |-> draft.round,
               auto |-> auto, request |-> q] \in Picks
           /\ picks' = Append(picks, [entry |-> e, registration |-> r, round |-> draft.round,
                                      auto |-> auto, request |-> q])
           /\ AddMember(e, r) /\ CanPickPosition(e, r) /\ captain' = captain
           /\ Advance(at)
<1>1. /\ AcceptsPick(e, r, q) /\ draft.entry = e
      /\ picks' = Append(picks, [entry |-> e, registration |-> r, round |-> draft.round,
                                 auto |-> auto, request |-> q])
      /\ AddMember(e, r) /\ CanPickPosition(e, r) /\ captain' = captain /\ Advance(at)
      /\ r \notin Drafted
  BY DEF ExecuteDraftPick, AcceptsPick
<1>2. draft.round \in 1..TotalRounds /\ season = "drafting"
  BY <1>1, EntryRange, InRound
<1>3. [entry |-> e, registration |-> r, round |-> draft.round,
       auto |-> auto, request |-> q] \in Picks
  BY <1>2 DEF Picks
<1> QED
  BY <1>1, <1>2, <1>3

(* The rows keep their types and their shape. *)
LEMMA RowStep ==
    ASSUME DraftInv, [Next]_vars
    PROVE  Shape' /\ (tx' \in [Workers -> Transactions] /\ now' \in Nat => TypeOK')
<1>1. TypeOK /\ Shape
  BY DEF DraftInv
<1>2. CASE ConfirmCaptains
  <2>1. PICK seed \in [Entries -> Willing] :
          /\ captain' = seed
          /\ roster' = [e \in Entries |-> {seed[e]}]
          /\ starters' = [e \in Entries |-> {seed[e]}]
    BY <1>2 DEF ConfirmCaptains
  <2>2. Willing \subseteq Registrations
    BY DraftAssumption
  <2>3. /\ captain' \in [Entries -> Registrations \cup {NoOne}]
        /\ roster' \in [Entries -> SUBSET Registrations]
        /\ starters' \in [Entries -> SUBSET Registrations]
    BY <2>1, <2>2
  <2>4. draft.round # TotalRounds + 1
    BY <1>1, <1>2 DEF Shape, ConfirmCaptains
  <2> QED
    BY <1>1, <1>2, <2>3, <2>4 DEF ConfirmCaptains, TypeOK, Shape
<1>3. ASSUME NEW e \in Entries, NEW r \in Registrations, NEW q \in Requests \cup AutoRequests,
             NEW auto \in BOOLEAN, NEW at \in Nat, ExecuteDraftPick(e, r, q, auto, at)
      PROVE  Shape' /\ (tx' \in [Workers -> Transactions] /\ now' \in Nat => TypeOK')
  <2>1. /\ draft.entry # NoEntry /\ Advance(at) /\ season = "drafting"
        /\ AddMember(e, r) /\ captain' = captain /\ draft.round \in 1..TotalRounds
    BY <1>1, <1>3, PickStep, EntryRange
  <2>2. picks' \in Seq(Picks)
    <3>1. PICK p \in Picks : picks' = Append(picks, p)
      BY <1>1, <1>3, PickStep
    <3> QED
      BY <1>1, <3>1 DEF TypeOK
  <2>3. /\ draft' \in Drafts /\ draft'.round # 0
        /\ draft'.entry = NoEntry <=> draft'.round = TotalRounds + 1
        /\ IF draft'.round = TotalRounds + 1
           THEN season' = "playing" /\ rosterStatus' = "frozen"
           ELSE season' = season /\ rosterStatus' = rosterStatus
    BY <1>1, <2>1, AdvanceTurn
  <2>4. season # "playing" /\ rosterStatus # "frozen"
    BY <1>1, <2>1 DEF Shape
  <2>5. Shape'
    BY <2>1, <2>3, <2>4 DEF Shape
  <2>6. /\ roster' \in [Entries -> SUBSET Registrations]
        /\ starters' \in [Entries -> SUBSET Registrations]
    BY <1>1, <2>1 DEF AddMember, TypeOK
  <2> QED
    BY <1>1, <2>1, <2>2, <2>3, <2>5, <2>6 DEF TypeOK
<1>4. ASSUME NEW w \in Operators, CommitStart(w)
      PROVE  Shape' /\ (tx' \in [Workers -> Transactions] /\ now' \in Nat => TypeOK')
  <2>1. EntryAt(1, 1) \in Entries /\ EntryAt(1, 1) # NoEntry /\ EntryAt(1, 1) \in 0..Teams
    BY SnakeInverse, EntryRange
  <2>2. w \in Workers /\ tx[w].op = "start"
    BY <1>4 DEF CommitStart, Workers
  <2>3. season # "voting"
    BY <2>2 DEF DraftInv, TxShape
  <2>4. draft.round = 0 /\ season # "playing"
    BY <1>1, <1>4, DraftAssumption DEF CommitStart, NoDraft, Shape
  <2>5. now + RoundTimeout \in Nat
    BY <1>1, DraftAssumption DEF TypeOK
  <2>6. /\ draft'.round = 1 /\ draft'.entry = EntryAt(1, 1)
        /\ draft' \in Drafts
        /\ UNCHANGED <<season, captain, picks, roster, starters, rosterStatus>>
    BY <1>4, <2>1, <2>5, DraftAssumption DEF CommitStart, Drafts
  <2>7. 1 # TotalRounds + 1
    BY DraftAssumption
  <2>8. Shape'
    BY <1>1, <2>1, <2>3, <2>4, <2>6, <2>7 DEF Shape
  <2> QED
    BY <1>1, <2>6, <2>8 DEF TypeOK
<1>5. ASSUME NEW w \in Operators, CommitSkip(w)
      PROVE  Shape' /\ (tx' \in [Workers -> Transactions] /\ now' \in Nat => TypeOK')
  <2>1. /\ draft.entry # NoEntry /\ Advance(now) /\ now \in Nat
        /\ UNCHANGED <<captain, picks, roster, starters>>
    BY <1>1, <1>5 DEF CommitSkip, TypeOK
  <2>2. /\ draft' \in Drafts /\ draft'.round # 0
        /\ draft'.entry = NoEntry <=> draft'.round = TotalRounds + 1
        /\ IF draft'.round = TotalRounds + 1
           THEN season' = "playing" /\ rosterStatus' = "frozen"
           ELSE season' = season /\ rosterStatus' = rosterStatus
    BY <1>1, <2>1, AdvanceTurn
  <2>3. season = "drafting" /\ rosterStatus # "frozen"
    BY <1>1, <2>1, InRound DEF Shape
  <2>4. Shape'
    BY <2>2, <2>3 DEF Shape
  <2> QED
    BY <1>1, <2>1, <2>2, <2>4 DEF TypeOK
<1>6. ASSUME NEW w \in Operators, CommitPause(w) \/ CommitResume(w)
      PROVE  Shape' /\ (tx' \in [Workers -> Transactions] /\ now' \in Nat => TypeOK')
  <2>1. w \in Workers /\ tx[w].op \in {"pause", "resume"}
    BY <1>6 DEF CommitPause, CommitResume, Workers
  <2>2. draft.round # 0
    BY <2>1 DEF DraftInv, TxShape
  <2>3. now + RoundTimeout \in Nat
    BY <1>1, DraftAssumption DEF TypeOK
  <2>4. /\ draft' \in Drafts /\ draft'.round = draft.round /\ draft'.entry = draft.entry
        /\ UNCHANGED <<season, captain, picks, roster, starters, rosterStatus>>
    BY <1>1, <1>6, <2>3 DEF CommitPause, CommitResume, TypeOK, Drafts
  <2>5. Shape'
    BY <1>1, <2>2, <2>4 DEF Shape
  <2> QED
    BY <1>1, <2>4, <2>5 DEF TypeOK
<1>7. CASE UNCHANGED Rows
  BY <1>1, <1>7 DEF Rows, Shape, TypeOK
<1> QED
  BY <1>1, <1>2, <1>3, <1>4, <1>5, <1>6, <1>7, StepCases DEF SomePick

(* No season goes back to voting, and no draft to its beginning. *)
LEMMA NoWayBack ==
    ASSUME DraftInv, [Next]_vars
    PROVE  /\ season # "voting" => season' # "voting"
           /\ draft.round # 0 => draft'.round # 0
<1>1. TypeOK /\ Shape
  BY DEF DraftInv
<1>2. ASSUME NEW at \in Nat, draft.entry # NoEntry, Advance(at)
      PROVE  /\ season # "voting" => season' # "voting"
             /\ draft'.round # 0
  <2>1. /\ draft'.round # 0
        /\ IF draft'.round = TotalRounds + 1
           THEN season' = "playing" /\ rosterStatus' = "frozen"
           ELSE season' = season /\ rosterStatus' = rosterStatus
    BY <1>1, <1>2, AdvanceTurn
  <2> QED
    BY <2>1
<1>3. CASE ConfirmCaptains
  BY <1>3 DEF ConfirmCaptains
<1>4. CASE SomePick
  <2>1. PICK e \in Entries, r \in Registrations, q \in Requests \cup AutoRequests,
             auto \in BOOLEAN, at \in Nat :
          ExecuteDraftPick(e, r, q, auto, at)
    BY <1>4 DEF SomePick
  <2>2. draft.entry # NoEntry /\ Advance(at)
    BY <1>1, <2>1, PickStep, EntryRange
  <2> QED
    BY <1>2, <2>2
<1>5. ASSUME NEW w \in Operators, CommitSkip(w)
      PROVE  /\ season # "voting" => season' # "voting"
             /\ draft'.round # 0
  BY <1>1, <1>2, <1>5 DEF CommitSkip, TypeOK
<1>6. ASSUME NEW w \in Operators, CommitStart(w) \/ CommitPause(w) \/ CommitResume(w)
      PROVE  season' = season /\ (draft.round # 0 => draft'.round # 0)
  <2>1. CASE CommitStart(w)
    BY <2>1 DEF CommitStart, NoDraft
  <2>2. CASE CommitPause(w) \/ CommitResume(w)
    BY <1>1, <2>2 DEF CommitPause, CommitResume, TypeOK, Drafts
  <2> QED
    BY <1>6, <2>1, <2>2
<1>7. CASE UNCHANGED Rows
  BY <1>7 DEF Rows
<1> QED
  BY <1>1, <1>3, <1>4, <1>5, <1>6, <1>7, StepCases

(* What a transaction saw stays true until it commits. *)
LEMMA TxShapeStep ==
    ASSUME DraftInv, [Next]_vars
    PROVE  TxShape'
<1>1. tx \in [Workers -> Transactions] /\ tx' \in [Workers -> Transactions]
  BY TxStep DEF DraftInv, TypeOK
<1>2. \A w \in Workers :
        \/ tx'[w] = tx[w] \/ tx'[w].op \in {"idle", "skip", "auto", "pick"}
        \/ tx'[w].op = "start" /\ season = "drafting"
        \/ tx'[w].op \in {"pause", "resume"} /\ draft.round # 0
  <2>1. ASSUME NEW v, End(v)
        PROVE  \A w \in Workers : tx'[w] = tx[w] \/ tx'[w].op \in {"idle", "skip", "auto", "pick"}
    BY <1>1, <2>1 DEF End, Idle
  <2>2. ASSUME NEW v, NEW t, Begin(v, t)
        PROVE  \A w \in Workers : tx'[w] = tx[w] \/ tx'[w] = t
    BY <1>1, <2>2 DEF Begin
  <2>3. ASSUME NEW v \in Captains, CaptainStep(v)
        PROVE  \A w \in Workers : tx'[w] = tx[w] \/ tx'[w].op \in {"idle", "skip", "auto", "pick"}
    <3>1. ASSUME NEW e \in Entries, NEW r \in Registrations, NEW q \in Requests, BeginPick(v, e, r, q)
          PROVE  \A w \in Workers : tx'[w] = tx[w] \/ tx'[w].op = "pick"
      <4>1. Begin(v, [op |-> "pick", at |-> now, entry |-> e, registration |-> r, request |-> q])
        BY <3>1 DEF BeginPick
      <4> QED
        BY <2>2, <4>1
    <3>2. CASE CommitPick(v)
      BY <2>1, <3>2 DEF CommitPick
    <3> QED
      BY <2>3, <3>1, <3>2 DEF CaptainStep
  <2>4. ASSUME NEW v \in Operators, BeginStart(v) \/ BeginSkip(v)
        PROVE  \A w \in Workers : \/ tx'[w] = tx[w] \/ tx'[w].op = "skip"
                                  \/ tx'[w].op = "start" /\ season = "drafting"
    BY <2>2, <2>4 DEF BeginStart, BeginSkip
  <2>5. ASSUME NEW v \in Operators, BeginPause(v) \/ BeginResume(v)
        PROVE  \A w \in Workers : \/ tx'[w] = tx[w]
                                  \/ tx'[w].op \in {"pause", "resume"} /\ draft.round # 0
    <3>1. draft.round # 0
      BY <2>5 DEF BeginPause, BeginResume, DraftInv, Shape, NoDraft
    <3> QED
      BY <2>2, <2>5, <3>1 DEF BeginPause, BeginResume
  <2>6. ASSUME NEW v \in Operators,
               CommitStart(v) \/ CommitSkip(v) \/ CommitPause(v) \/ CommitResume(v)
        PROVE  \A w \in Workers : tx'[w] = tx[w] \/ tx'[w].op \in {"idle", "skip", "auto", "pick"}
    BY <2>1, <2>6 DEF CommitStart, CommitSkip, CommitPause, CommitResume
  <2>7. ASSUME BeginAuto \/ CommitAuto
        PROVE  \A w \in Workers : tx'[w] = tx[w] \/ tx'[w].op \in {"idle", "skip", "auto", "pick"}
    <3>1. CASE BeginAuto
      <4>1. Begin(Cron, [op |-> "auto", at |-> now])
        BY <3>1 DEF BeginAuto
      <4> QED
        BY <2>2, <4>1
    <3>2. CASE CommitAuto
      BY <2>1, <3>2 DEF CommitAuto
    <3> QED
      BY <2>7, <3>1, <3>2
  <2>8. ASSUME NEW v \in Workers, Rollback(v)
        PROVE  \A w \in Workers : tx'[w] = tx[w] \/ tx'[w].op \in {"idle", "skip", "auto", "pick"}
    BY <2>1, <2>8 DEF Rollback
  <2>9. ASSUME ConfirmCaptains \/ Tick \/ UNCHANGED vars PROVE tx' = tx
    BY <2>9 DEF ConfirmCaptains, Tick, vars
  <2> QED
    BY <2>3, <2>4, <2>5, <2>6, <2>7, <2>8, <2>9 DEF Next, OperatorStep
<1> QED
  BY <1>2, NoWayBack DEF TxShape, DraftInv

(* The invariant is inductive. *)
LEMMA InvStep == DraftInv /\ [Next]_vars => DraftInv'
BY TxStep, RowStep, TxShapeStep DEF DraftInv

(* Nothing has been confirmed, started or picked. *)
LEMMA InvInit == Init => DraftInv
<1> SUFFICES ASSUME Init PROVE DraftInv
  OBVIOUS
<1>1. /\ draft = [round |-> 0, entry |-> 0, deadline |-> 0, active |-> FALSE]
      /\ picks = <<>> /\ season = "voting" /\ rosterStatus = "none"
  BY DEF Init, NoDraft, NoEntry, NoDeadline
<1>2. draft \in Drafts /\ 0 # TotalRounds + 1
  BY <1>1, DraftAssumption DEF Drafts
<1>3. tx \in [Workers -> Transactions] /\ \A w \in Workers : tx[w].op = "idle"
  BY DEF Init, Idle, Transactions
<1>4. TypeOK
  BY <1>1, <1>2, <1>3 DEF Init, TypeOK
<1>5. Shape
  BY <1>1, <1>2 DEF Shape, NoDraft, NoEntry, NoDeadline
<1>6. TxShape
  BY <1>3 DEF TxShape
<1> QED
  BY <1>4, <1>5, <1>6 DEF DraftInv

(* It holds in every reachable state. *)
LEMMA Invariance == Spec => []DraftInv
BY InvInit, InvStep, PTL DEF Spec

-----------------------------------------------------------------------------
(* Results *)

(* The rows of the draft, the season, the rosters and the transactions     *)
(* keep their types for any numbers of entries, rounds and connections.    *)
THEOREM TypeCorrect == Spec => []TypeOK
<1>1. DraftInv => TypeOK
  BY DEF DraftInv
<1> QED
  BY <1>1, Invariance, PTL

(* The season plays exactly when the draft is over and rosters are frozen, *)
(* whatever transactions overtook each other.                              *)
THEOREM PlayingFrozen == Spec => []PlayingMeansFrozen
<1>1. DraftInv => PlayingMeansFrozen
  BY DEF DraftInv, Shape, PlayingMeansFrozen
<1> QED
  BY <1>1, Invariance, PTL

(* The effect of a step on the turn. *)
LEMMA TurnStep ==
    ASSUME DraftInv, [Next]_vars
    PROVE  /\ CurrentTurn' \in {CurrentTurn, CurrentTurn + 1}
           /\ CurrentTurn \in Nat
<1>1. TypeOK /\ Shape
  BY DEF DraftInv
<1>2. CurrentTurn \in Nat
  <2>1. CASE draft.entry # NoEntry
    <3>1. draft.round \in Nat \ {0} /\ draft.entry \in Entries
      BY <1>1, <2>1, InRound
    <3> QED
      BY <2>1, <3>1, TurnType DEF CurrentTurn
  <2>2. CASE draft.entry = NoEntry
    <3>1. Turns \in Nat
      BY RoundLength, DraftAssumption DEF Turns
    <3> QED
      BY <2>2, <3>1 DEF CurrentTurn
  <2> QED
    BY <2>1, <2>2
<1>3. ASSUME NEW at \in Nat, draft.entry # NoEntry, Advance(at)
      PROVE  CurrentTurn' = CurrentTurn + 1
  BY <1>1, <1>3, AdvanceTurn
<1>4. ASSUME ConfirmCaptains PROVE CurrentTurn' = CurrentTurn
  BY <1>4 DEF ConfirmCaptains, CurrentTurn
<1>5. ASSUME SomePick PROVE CurrentTurn' = CurrentTurn + 1
  <2>1. PICK e \in Entries, r \in Registrations, q \in Requests \cup AutoRequests,
             auto \in BOOLEAN, at \in Nat :
          ExecuteDraftPick(e, r, q, auto, at)
    BY <1>5 DEF SomePick
  <2>2. draft.entry # NoEntry /\ Advance(at)
    BY <1>1, <2>1, PickStep, EntryRange
  <2> QED
    BY <1>3, <2>2
<1>6. ASSUME NEW w \in Operators, CommitSkip(w) PROVE CurrentTurn' = CurrentTurn + 1
  BY <1>1, <1>3, <1>6 DEF CommitSkip, TypeOK
<1>7. ASSUME NEW w \in Operators, CommitStart(w) PROVE CurrentTurn' = CurrentTurn + 1
  <2>1. /\ draft.round = 0 /\ draft'.round = 1 /\ draft'.entry = EntryAt(1, 1)
    BY <1>7 DEF CommitStart, NoDraft
  <2>2. EntryAt(1, 1) # NoEntry /\ SnakeSlot(EntryAt(1, 1), 1) = 1
    BY EntryRange, SnakeInverse
  <2>3. (1 - 1) * Teams = 0
    <3>1. ASSUME NEW b \in Nat PROVE (1 - 1) * b = 0
      OBVIOUS
    <3> QED
      BY <3>1, DraftAssumption
  <2>4. TurnNumber(1, EntryAt(1, 1)) = 1
    BY <2>2, <2>3 DEF TurnNumber
  <2> QED
    BY <2>1, <2>2, <2>4 DEF CurrentTurn
<1>8. ASSUME NEW w \in Operators, CommitPause(w) \/ CommitResume(w)
      PROVE  CurrentTurn' = CurrentTurn
  <2>1. draft'.round = draft.round /\ draft'.entry = draft.entry
    BY <1>1, <1>8 DEF CommitPause, CommitResume, TypeOK, Drafts
  <2> QED
    BY <2>1 DEF CurrentTurn
<1>9. ASSUME UNCHANGED Rows PROVE CurrentTurn' = CurrentTurn
  BY <1>9 DEF Rows, CurrentTurn
<1> QED
  BY <1>1, <1>2, <1>4, <1>5, <1>6, <1>7, <1>8, <1>9, StepCases

(* No commit takes a turn back or passes one over, for any numbers of      *)
(* entries, rounds and connections.                                        *)
THEOREM OneTurnAtATime == Spec => TurnByTurn
<1>1. DraftInv /\ [Next]_vars => [CurrentTurn' \in {CurrentTurn, CurrentTurn + 1}]_vars
  BY TurnStep
<1> QED
  BY <1>1, Invariance, PTL DEF Spec, TurnByTurn

(* Steps other than a pick leave the picks alone, and rosters too once     *)
(* they are seeded.                                                        *)
LEMMA OnlyPicksPick ==
    ASSUME DraftInv, [Next]_vars
    PROVE  \/ SomePick
           \/ season = "voting" /\ ConfirmCaptains /\ picks' = picks
           \/ /\ UNCHANGED <<captain, picks, roster, starters>>
              /\ season = "voting" => season' = "voting"
<1>1. TypeOK /\ Shape
  BY DEF DraftInv
<1>2. CASE ConfirmCaptains
  BY <1>2 DEF ConfirmCaptains
<1>3. ASSUME NEW w \in Operators,
             CommitStart(w) \/ CommitSkip(w) \/ CommitPause(w) \/ CommitResume(w)
      PROVE  /\ UNCHANGED <<captain, picks, roster, starters>>
             /\ season = "voting" => season' = "voting"
  <2>1. CommitSkip(w) => season # "voting"
    BY <1>1, InRound DEF CommitSkip
  <2> QED
    BY <1>3, <2>1 DEF CommitStart, CommitSkip, CommitPause, CommitResume
<1>4. CASE UNCHANGED Rows
  BY <1>4 DEF Rows
<1> QED
  BY <1>1, <1>2, <1>3, <1>4, StepCases

(* Once the season plays no transaction, however early it began, changes a *)
(* pick, a roster or a starter.                                            *)
THEOREM RostersFrozen == Spec => RostersStayFrozen
<1>1. ASSUME DraftInv, [Next]_vars, season = "playing"
      PROVE  UNCHANGED <<picks, roster, starters, season>>
  <2>1. TypeOK /\ Shape /\ draft.entry = NoEntry
    BY <1>1 DEF DraftInv, Shape
  <2>2. ~SomePick
    <3> SUFFICES ASSUME NEW e \in Entries, NEW r \in Registrations,
                        NEW q \in Requests \cup AutoRequests,
                        NEW auto \in BOOLEAN, NEW at \in Nat, ExecuteDraftPick(e, r, q, auto, at)
                 PROVE  FALSE
      BY DEF SomePick
    <3> QED
      BY <2>1, PickStep, EntryRange
  <2>3. UNCHANGED <<captain, picks, roster, starters>>
    BY <1>1, <2>2, OnlyPicksPick
  <2>4. season' = season
    BY <1>1, <2>1, <2>2, StepCases
       DEF ConfirmCaptains, CommitStart, CommitSkip, CommitPause, CommitResume, Rows
  <2> QED
    BY <2>3, <2>4
<1>2. DraftInv /\ [Next]_vars =>
        [season = "playing" => UNCHANGED <<picks, roster, starters, season>>]_vars
  BY <1>1
<1> QED
  BY <1>2, Invariance, PTL DEF Spec, RostersStayFrozen

-----------------------------------------------------------------------------
(* The order of the picks *)

(* What a pick appends, in one place. *)
LEMMA Appended ==
    ASSUME DraftInv, SomePick
    PROVE  \E p \in Picks :
             /\ picks' = Append(picks, p)
             /\ Len(picks) \in Nat /\ DOMAIN picks = 1..Len(picks)
             /\ DOMAIN picks' = 1..(Len(picks) + 1)
             /\ \A i \in DOMAIN picks : picks'[i] = picks[i]
             /\ picks'[Len(picks) + 1] = p
             /\ TurnNumber(p.round, p.entry) = CurrentTurn
             /\ CurrentTurn' = CurrentTurn + 1
             /\ p.registration \notin Drafted
             /\ p.round = draft.round /\ captain' = captain /\ season = "drafting"
             /\ CanPickPosition(p.entry, p.registration)
             /\ AddMember(p.entry, p.registration)
<1>1. TypeOK /\ Shape
  BY DEF DraftInv
<1>2. PICK e \in Entries, r \in Registrations, q \in Requests \cup AutoRequests,
           auto \in BOOLEAN, at \in Nat :
        ExecuteDraftPick(e, r, q, auto, at)
  BY DEF SomePick
<1> DEFINE p == [entry |-> e, registration |-> r, round |-> draft.round,
                 auto |-> auto, request |-> q]
<1>3. /\ p \in Picks /\ picks' = Append(picks, p)
      /\ draft.entry = e /\ draft.round \in 1..TotalRounds
      /\ r \notin Drafted /\ Advance(at) /\ draft.entry # NoEntry
  BY <1>1, <1>2, PickStep, EntryRange
<1>4. CurrentTurn' = CurrentTurn + 1
  BY <1>1, <1>3, AdvanceTurn
<1>5. TurnNumber(p.round, p.entry) = CurrentTurn
  BY <1>3 DEF CurrentTurn
<1>6. /\ p.registration \notin Drafted /\ p.round = draft.round
      /\ p.entry = e /\ p.registration = r
  BY <1>3
<1> HIDE DEF p
<1>7. picks \in Seq(Picks)
  BY <1>1 DEF TypeOK
<1>8. /\ Len(picks) \in Nat /\ DOMAIN picks = 1..Len(picks)
      /\ DOMAIN picks' = 1..(Len(picks) + 1)
      /\ \A i \in DOMAIN picks : picks'[i] = picks[i]
      /\ picks'[Len(picks) + 1] = p
  BY <1>3, <1>7
<1>9. /\ captain' = captain /\ season = "drafting" /\ CanPickPosition(e, r) /\ AddMember(e, r)
  BY <1>1, <1>2, PickStep
<1> QED
  BY <1>3, <1>4, <1>5, <1>6, <1>8, <1>9

(* The turn of a pick is a number. *)
LEMMA PickTurnType ==
    ASSUME TypeOK, NEW i \in DOMAIN picks
    PROVE  PickTurn(i) \in Nat
<1>1. picks[i] \in Picks
  BY DEF TypeOK
<1>2. picks[i].round \in Nat \ {0} /\ picks[i].entry \in Entries
  BY <1>1 DEF Picks
<1> QED
  BY <1>2, TurnType DEF PickTurn

(* A pick is made in the current turn, behind which all the others are.    *)
LEMMA SnakeStep == DraftInv /\ PicksInSnakeOrder /\ [Next]_vars => PicksInSnakeOrder'
<1> SUFFICES ASSUME DraftInv, PicksInSnakeOrder, [Next]_vars
             PROVE  PicksInSnakeOrder'
  OBVIOUS
<1>1. TypeOK /\ CurrentTurn \in Nat /\ CurrentTurn' \in {CurrentTurn, CurrentTurn + 1}
  BY TurnStep DEF DraftInv
<1>2. CASE picks' = picks
  <2>1. \A i : PickTurn(i)' = PickTurn(i)
    BY <1>2 DEF PickTurn, TurnNumber, SnakeSlot
  <2>2. \A i \in DOMAIN picks : PickTurn(i) < CurrentTurn'
    BY <1>1, PickTurnType DEF PicksInSnakeOrder
  <2> QED
    BY <1>2, <2>1, <2>2 DEF PicksInSnakeOrder
<1>3. CASE SomePick
  <2>1. PICK p \in Picks :
          /\ Len(picks) \in Nat /\ DOMAIN picks = 1..Len(picks)
          /\ DOMAIN picks' = 1..(Len(picks) + 1)
          /\ \A i \in DOMAIN picks : picks'[i] = picks[i]
          /\ picks'[Len(picks) + 1] = p
          /\ TurnNumber(p.round, p.entry) = CurrentTurn
          /\ CurrentTurn' = CurrentTurn + 1
    BY <1>3, Appended
  <2>0. PICK n \in Nat : n = Len(picks) + 1
    BY <2>1
  <2>2. \A i \in DOMAIN picks : PickTurn(i)' = PickTurn(i) /\ PickTurn(i) \in Nat
    BY <1>1, <2>1, PickTurnType DEF PickTurn, TurnNumber, SnakeSlot
  <2>3. PickTurn(n)' = CurrentTurn
    BY <2>0, <2>1 DEF PickTurn
  <2>4. \A i \in DOMAIN picks' : i \in DOMAIN picks \/ i = n
    BY <2>0, <2>1
  <2>5. \A i \in DOMAIN picks : PickTurn(i) < CurrentTurn /\ i < n
    BY <2>0, <2>1 DEF PicksInSnakeOrder
  <2>6. \A i \in DOMAIN picks' : PickTurn(i)' < CurrentTurn'
    <3>1. \A i \in DOMAIN picks : PickTurn(i)' < CurrentTurn + 1
      BY <1>1, <2>2, <2>5
    <3>2. PickTurn(n)' < CurrentTurn + 1
      BY <1>1, <2>3
    <3> QED
      BY <2>1, <2>4, <3>1, <3>2
  <2>7. ASSUME NEW i \in DOMAIN picks', NEW j \in DOMAIN picks', i < j
        PROVE  PickTurn(i)' < PickTurn(j)'
    <3>1. i \in DOMAIN picks
      BY <2>0, <2>1, <2>4, <2>7
    <3>2. CASE j = n
      <4>1. PickTurn(i)' < CurrentTurn
        BY <2>2, <2>5, <3>1
      <4> QED
        BY <2>3, <3>2, <4>1
    <3>3. CASE j \in DOMAIN picks
      BY <2>2, <2>7, <3>1, <3>3 DEF PicksInSnakeOrder
    <3> QED
      BY <2>4, <3>2, <3>3
  <2> QED
    BY <2>6, <2>7 DEF PicksInSnakeOrder
<1> QED
  BY <1>2, <1>3, OnlyPicksPick

(* For any numbers of entries and rounds, the picks follow the snake, one  *)
(* to a turn, and none is ahead of the turn the draft is at.               *)
THEOREM InSnakeOrder == Spec => []PicksInSnakeOrder
<1>1. Init => PicksInSnakeOrder
  BY DEF Init, PicksInSnakeOrder
<1> QED
  BY <1>1, SnakeStep, Invariance, PTL DEF Spec

(* A target that is among the picks is refused. *)
LEMMA OnceStep == DraftInv /\ NobodyDraftedTwice /\ [Next]_vars => NobodyDraftedTwice'
<1> SUFFICES ASSUME DraftInv, NobodyDraftedTwice, [Next]_vars
             PROVE  NobodyDraftedTwice'
  OBVIOUS
<1>1. CASE picks' = picks
  BY <1>1 DEF NobodyDraftedTwice
<1>2. CASE SomePick
  <2>1. PICK p \in Picks :
          /\ Len(picks) \in Nat /\ DOMAIN picks = 1..Len(picks)
          /\ DOMAIN picks' = 1..(Len(picks) + 1)
          /\ \A i \in DOMAIN picks : picks'[i] = picks[i]
          /\ picks'[Len(picks) + 1] = p
          /\ p.registration \notin Drafted
    BY <1>2, Appended
  <2>2. \A i \in DOMAIN picks : picks'[i].registration # p.registration
    BY <2>1 DEF Drafted
  <2>3. \A i \in DOMAIN picks' : i \in DOMAIN picks \/ i = Len(picks) + 1
    BY <2>1
  <2> QED
    BY <2>1, <2>2, <2>3 DEF NobodyDraftedTwice
<1> QED
  BY <1>1, <1>2, OnlyPicksPick

(* No registration is drafted twice, by whichever two transactions.        *)
THEOREM DraftedOnce == Spec => []NobodyDraftedTwice
<1>1. Init => NobodyDraftedTwice
  BY DEF Init, NobodyDraftedTwice
<1> QED
  BY <1>1, OnceStep, Invariance, PTL DEF Spec

-----------------------------------------------------------------------------
(* The rosters *)

PickedBy(e) == {picks[i].registration : i \in {j \in DOMAIN picks : picks[j].entry = e}}

StartedBy(e) ==
    {picks[i].registration : i \in {j \in DOMAIN picks :
        picks[j].entry = e /\ picks[j].round <= StarterRounds}}

(* A pick enters draft_picks and the roster of its entry alike.            *)
LEMMA RosterStep == DraftInv /\ RostersMatchPicks /\ [Next]_vars => RostersMatchPicks'
<1> SUFFICES ASSUME DraftInv, RostersMatchPicks, [Next]_vars, season' # "voting",
                    NEW f \in Entries
             PROVE  /\ roster'[f] = {captain'[f]} \cup PickedBy(f)'
                    /\ starters'[f] = {captain'[f]} \cup StartedBy(f)'
  BY DEF RostersMatchPicks, PickedBy, StartedBy
<1>1. season # "voting" =>
        /\ roster[f] = {captain[f]} \cup PickedBy(f)
        /\ starters[f] = {captain[f]} \cup StartedBy(f)
  BY DEF RostersMatchPicks, PickedBy, StartedBy
<1>2. CASE season = "voting" /\ ConfirmCaptains /\ picks' = picks
  <2>1. picks' = <<>>
    BY <1>2 DEF DraftInv, Shape
  <2>2. PickedBy(f)' = {} /\ StartedBy(f)' = {}
    BY <2>1 DEF PickedBy, StartedBy
  <2>3. roster'[f] = {captain'[f]} /\ starters'[f] = {captain'[f]}
    BY <1>2 DEF ConfirmCaptains
  <2> QED
    BY <2>2, <2>3
<1>3. CASE /\ UNCHANGED <<captain, picks, roster, starters>>
           /\ season = "voting" => season' = "voting"
  <2>1. PickedBy(f)' = PickedBy(f) /\ StartedBy(f)' = StartedBy(f)
    BY <1>3 DEF PickedBy, StartedBy
  <2> QED
    BY <1>1, <1>3, <2>1
<1>4. CASE SomePick
  <2>1. PICK p \in Picks :
          /\ Len(picks) \in Nat /\ DOMAIN picks = 1..Len(picks)
          /\ DOMAIN picks' = 1..(Len(picks) + 1)
          /\ \A i \in DOMAIN picks : picks'[i] = picks[i]
          /\ picks'[Len(picks) + 1] = p
          /\ p.round = draft.round /\ captain' = captain /\ season = "drafting"
          /\ AddMember(p.entry, p.registration)
    BY <1>4, Appended
  <2>2. PICK n \in Nat : n = Len(picks) + 1
    BY <2>1
  <2>3. /\ DOMAIN picks' = DOMAIN picks \cup {n}
        /\ picks'[n] = p
    BY <2>1, <2>2
  <2>4. PickedBy(f)' = IF p.entry = f THEN PickedBy(f) \cup {p.registration} ELSE PickedBy(f)
    <3>1. PickedBy(f)' = {picks'[i].registration : i \in {j \in DOMAIN picks' : picks'[j].entry = f}}
      BY DEF PickedBy
    <3> QED
      BY <2>1, <2>3, <3>1 DEF PickedBy
  <2>5. StartedBy(f)' = IF p.entry = f /\ p.round <= StarterRounds
                        THEN StartedBy(f) \cup {p.registration} ELSE StartedBy(f)
    <3>1. StartedBy(f)' = {picks'[i].registration : i \in {j \in DOMAIN picks' :
                             picks'[j].entry = f /\ picks'[j].round <= StarterRounds}}
      BY DEF StartedBy
    <3> QED
      BY <2>1, <2>3, <3>1 DEF StartedBy
  <2>6. /\ roster'[f] = IF p.entry = f THEN roster[f] \cup {p.registration} ELSE roster[f]
        /\ starters'[f] = IF p.entry = f /\ p.round <= StarterRounds
                          THEN starters[f] \cup {p.registration} ELSE starters[f]
    BY <2>1 DEF AddMember, DraftInv, TypeOK
  <2> QED
    BY <1>1, <2>1, <2>4, <2>5, <2>6
<1> QED
  BY <1>2, <1>3, <1>4, OnlyPicksPick

(* For any numbers of entries, rounds and connections, a roster is the     *)
(* captain and the picks of its entry, and its starters those of the       *)
(* starter rounds.                                                         *)
THEOREM RostersMatch == Spec => []RostersMatchPicks
<1>1. Init => RostersMatchPicks
  BY DEF Init, RostersMatchPicks
<1> QED
  BY <1>1, RosterStep, Invariance, PTL DEF Spec

SamePosition(S, r) == {m \in S : Position[m] = Position[r]}

(* Members of one position are finitely many. *)
LEMMA CountType ==
    ASSUME NEW S \in SUBSET Registrations, NEW r
    PROVE  IsFiniteSet(SamePosition(S, r)) /\ Cardinality(SamePosition(S, r)) \in Nat
<1>1. SamePosition(S, r) \subseteq Registrations
  BY DEF SamePosition
<1> HIDE DEF SamePosition
<1> QED
  BY <1>1, DraftAssumption, FS_Subset, FS_CardinalityType

(* One member more is one more of its position at most. *)
LEMMA CountAdded ==
    ASSUME NEW S \in SUBSET Registrations, NEW p \in Registrations, NEW r,
           Position[r] = Position[p]
    PROVE  Cardinality(SamePosition(S \cup {p}, r)) <= Cardinality(SamePosition(S, p)) + 1
<1> DEFINE A == SamePosition(S, p)
<1>1. SamePosition(S \cup {p}, r) = A \cup {p}
  BY DEF SamePosition
<1>2. IsFiniteSet(A) /\ Cardinality(A) \in Nat
  BY CountType
<1> HIDE DEF A
<1>3. Cardinality(A \cup {p}) = IF p \in A THEN Cardinality(A) ELSE Cardinality(A) + 1
  BY <1>2, FS_AddElement, Zenon
<1>4. Cardinality(A \cup {p}) <= Cardinality(A) + 1
  BY <1>2, <1>3
<1> QED
  BY <1>1, <1>4 DEF A

(* The cap is checked for the position of the target, the only one whose   *)
(* count grows.                                                            *)
LEMMA CapStep == DraftInv /\ PositionCap /\ [Next]_vars => PositionCap'
<1> SUFFICES ASSUME DraftInv, PositionCap, [Next]_vars, NEW e \in Entries, NEW r \in roster'[e]
             PROVE  Cardinality(SamePosition(roster'[e], r)) <= PositionLimit
  BY DEF PositionCap, PositionCount, SamePosition
<1>1. \A q \in roster[e] : Cardinality(SamePosition(roster[e], q)) <= PositionLimit
  BY DEF PositionCap, PositionCount, SamePosition
<1>2. roster[e] \in SUBSET Registrations
  BY DEF DraftInv, TypeOK
<1>3. ASSUME ConfirmCaptains
      PROVE  Cardinality(SamePosition(roster'[e], r)) <= PositionLimit
  <2>1. SamePosition(roster'[e], r) = {r}
    BY <1>3 DEF ConfirmCaptains, SamePosition
  <2>2. Cardinality({r}) = 1
    BY FS_Singleton
  <2> QED
    BY <2>1, <2>2, DraftAssumption
<1>4. CASE SomePick
  <2>1. PICK p \in Picks :
          /\ CanPickPosition(p.entry, p.registration)
          /\ AddMember(p.entry, p.registration)
    BY <1>4, Appended
  <2>2. p.registration \in Registrations
    BY DEF Picks
  <2>3. CASE e # p.entry
    <3>1. roster'[e] = roster[e]
      BY <2>1, <2>3 DEF AddMember, DraftInv, TypeOK
    <3> QED
      BY <1>1, <3>1
  <2>4. CASE e = p.entry
    <3>1. roster'[e] = roster[e] \cup {p.registration}
      BY <2>1, <2>4 DEF AddMember, DraftInv, TypeOK
    <3>2. Cardinality(SamePosition(roster[e], p.registration)) < PositionLimit
      BY <2>1, <2>4 DEF CanPickPosition, PositionCount, SamePosition
    <3>3. CASE Position[r] = Position[p.registration]
      <4>1. Cardinality(SamePosition(roster'[e], r))
              <= Cardinality(SamePosition(roster[e], p.registration)) + 1
        BY <1>2, <2>2, <3>1, <3>3, CountAdded
      <4>2. Cardinality(SamePosition(roster[e], p.registration)) \in Nat
        BY <1>2, CountType
      <4>3. Cardinality(SamePosition(roster'[e], r)) \in Nat
        <5>1. roster'[e] \in SUBSET Registrations
          BY <1>2, <2>2, <3>1
        <5> QED
          BY <5>1, CountType
      <4> QED
        BY <3>2, <4>1, <4>2, <4>3, DraftAssumption
    <3>4. CASE Position[r] # Position[p.registration]
      <4>1. r \in roster[e] /\ SamePosition(roster'[e], r) = SamePosition(roster[e], r)
        BY <3>1, <3>4 DEF SamePosition
      <4> QED
        BY <1>1, <4>1
    <3> QED
      BY <3>3, <3>4
  <2> QED
    BY <2>3, <2>4
<1>5. CASE UNCHANGED roster
  BY <1>1, <1>5
<1> QED
  BY <1>3, <1>4, <1>5, OnlyPicksPick

(* No entry ever has more than PositionLimit members of one position, for  *)
(* any limit, entries and rounds.                                          *)
THEOREM CapHolds == Spec => []PositionCap
<1>1. Init => PositionCap
  BY DEF Init, PositionCap
<1> QED
  BY <1>1, CapStep, Invariance, PTL DEF Spec

-----------------------------------------------------------------------------
(* The draft implements SnakeDraft *)

(* The refinement mapping of Draft: what each turn drafted. *)
DraftedBy(t) == IF DraftedIn(t) = {} THEN NoOne
                ELSE picks[CHOOSE i \in DraftedIn(t) : TRUE].registration

(* A turn in a round is one of the turns of the draft. *)
LEMMA TurnRange ==
    ASSUME NEW k \in 1..TotalRounds, NEW e \in Entries
    PROVE  TurnNumber(k, e) \in 1..Turns
<1>1. SnakeSlot(e, k) \in Nat \ {0} /\ SnakeSlot(e, k) <= Teams
  <2>1. SnakeSlot(e, k) \in Entries
    BY SnakeInverse
  <2> QED
    BY <2>1, DraftAssumption DEF Entries
<1>2. ASSUME NEW a \in Nat, NEW b \in Nat, a <= b, NEW c \in Nat PROVE a * c <= c * b
  <2>1. PICK d \in Nat : b = a + d
    <3>1. b - a \in Nat /\ b = a + (b - a)
      BY <1>2
    <3> QED
      BY <3>1
  <2>2. c * b = a * c + c * d /\ c * d \in Nat /\ a * c \in Nat
    BY <2>1
  <2> QED
    BY <2>2
<1>3. k * Teams <= Turns
  BY <1>2, DraftAssumption DEF Turns
<1>4. /\ (k - 1) * Teams + Teams = k * Teams /\ k * Teams \in Nat
      /\ (k - 1) * Teams \in Nat
  BY RoundLength
<1>5. TurnNumber(k, e) = (k - 1) * Teams + SnakeSlot(e, k)
  BY DEF TurnNumber
<1>6. Turns \in Nat /\ Teams \in Nat
  BY RoundLength, DraftAssumption DEF Turns
<1> HIDE DEF Turns
<1>7. ASSUME NEW a \in Nat, NEW c \in Nat, NEW u \in Nat, NEW v \in Nat, NEW x \in Nat \ {0},
             x <= c, a + c = u, u <= v
      PROVE  a + x \in 1..v
  BY <1>7
<1> QED
  BY <1>1, <1>3, <1>4, <1>5, <1>6, <1>7

(* A pick fills its turn, which was empty, with somebody new. *)
LEMMA PickDraws ==
    ASSUME DraftInv, PicksInSnakeOrder, SomePick
    PROVE  /\ CurrentTurn \in 1..Turns
           /\ CurrentTurn' = CurrentTurn + 1
           /\ \E p \in Registrations :
                /\ \A t \in 1..Turns : DraftedBy(t) # p
                /\ \A t \in 1..Turns :
                     DraftedBy(t)' = IF t = CurrentTurn THEN p ELSE DraftedBy(t)
<1>1. PICK p \in Picks :
        /\ Len(picks) \in Nat /\ DOMAIN picks = 1..Len(picks)
        /\ DOMAIN picks' = 1..(Len(picks) + 1)
        /\ \A i \in DOMAIN picks : picks'[i] = picks[i]
        /\ picks'[Len(picks) + 1] = p
        /\ TurnNumber(p.round, p.entry) = CurrentTurn
        /\ CurrentTurn' = CurrentTurn + 1
        /\ p.registration \notin Drafted
  BY Appended
<1>2. PICK n \in Nat : n = Len(picks) + 1
  BY <1>1
<1>3. p.registration \in Registrations /\ p.round \in 1..TotalRounds /\ p.entry \in Entries
  BY DEF Picks
<1>4. CurrentTurn \in 1..Turns
  BY <1>1, <1>3, TurnRange
<1>5. /\ DOMAIN picks' = DOMAIN picks \cup {n} /\ n \notin DOMAIN picks
      /\ picks'[n] = p
  BY <1>1, <1>2
<1>6. PickTurn(n)' = CurrentTurn /\ \A i \in DOMAIN picks : PickTurn(i)' = PickTurn(i)
  BY <1>1, <1>5 DEF PickTurn
<1>7. \A i \in DOMAIN picks : PickTurn(i) # CurrentTurn
  <2>1. \A i \in DOMAIN picks : PickTurn(i) < CurrentTurn
    BY DEF PicksInSnakeOrder
  <2>2. \A i \in DOMAIN picks : PickTurn(i) \in Nat
    BY PickTurnType DEF DraftInv
  <2>3. CurrentTurn \in Nat
    BY <1>1, <1>3, TurnType
  <2> QED
    BY <2>1, <2>2, <2>3
<1>8. ASSUME NEW t \in 1..Turns PROVE DraftedBy(t) # p.registration
  <2>1. CASE DraftedIn(t) = {}
    BY <1>3, <2>1, DraftAssumption DEF DraftedBy
  <2>2. CASE DraftedIn(t) # {}
    <3>1. (CHOOSE i \in DraftedIn(t) : TRUE) \in DOMAIN picks
      BY <2>2 DEF DraftedIn
    <3> QED
      BY <1>1, <2>2, <3>1 DEF DraftedBy, Drafted
  <2> QED
    BY <2>1, <2>2
<1>9. ASSUME NEW t \in 1..Turns
      PROVE  DraftedBy(t)' = IF t = CurrentTurn THEN p.registration ELSE DraftedBy(t)
  <2>0. /\ DraftedIn(t)' = {i \in DOMAIN picks' : PickTurn(i)' = t}
        /\ DraftedBy(t)' = IF DraftedIn(t)' = {} THEN NoOne
                          ELSE picks'[CHOOSE i \in DraftedIn(t)' : TRUE].registration
    BY DEF DraftedBy, DraftedIn
  <2>1. CASE t = CurrentTurn
    <3>1. DraftedIn(t)' = {n}
      BY <1>5, <1>6, <1>7, <2>0, <2>1
    <3>2. (CHOOSE i \in {n} : TRUE) = n
      OBVIOUS
    <3> QED
      BY <1>5, <2>0, <2>1, <3>1, <3>2
  <2>2. CASE t # CurrentTurn
    <3>1. DraftedIn(t)' = DraftedIn(t)
      BY <1>5, <1>6, <2>0, <2>2 DEF DraftedIn
    <3>2. DraftedIn(t) # {} => (CHOOSE i \in DraftedIn(t) : TRUE) \in DOMAIN picks
      BY DEF DraftedIn
    <3>3. DraftedBy(t) = IF DraftedIn(t) = {} THEN NoOne
                         ELSE picks[CHOOSE i \in DraftedIn(t) : TRUE].registration
      BY DEF DraftedBy
    <3>4. DraftedBy(t)' = IF DraftedIn(t) = {} THEN NoOne
                          ELSE picks'[CHOOSE i \in DraftedIn(t) : TRUE].registration
      BY <2>0, <3>1
    <3>5. DraftedIn(t) # {} => picks'[CHOOSE i \in DraftedIn(t) : TRUE]
                                 = picks[CHOOSE i \in DraftedIn(t) : TRUE]
      BY <1>1, <3>2
    <3> QED
      BY <2>2, <3>3, <3>4, <3>5
  <2> QED
    BY <2>1, <2>2
<1> QED
  BY <1>1, <1>3, <1>4, <1>8, <1>9

(* Steps that do not pick draft nobody. *)
LEMMA NothingDrawn ==
    ASSUME picks' = picks, NEW t \in 1..Turns
    PROVE  DraftedBy(t)' = DraftedBy(t)
BY DEF DraftedBy, DraftedIn, PickTurn, TurnNumber, SnakeSlot

(* Every step of the draft is one of the abstract draft or a stutter.      *)
LEMMA RefinementStep ==
    ASSUME DraftInv, PicksInSnakeOrder, [Next]_vars
    PROVE  [Abstract!SnakeNext]_(Abstract!snakeVars)
<1> DEFINE D == [t \in 1..Turns |-> DraftedBy(t)]
<1>1. TypeOK /\ Shape
  BY DEF DraftInv
<1>2. /\ Abstract!snakeVars = <<CurrentTurn, D>>
      /\ Abstract!snakeVars' = <<CurrentTurn', D'>>
  BY DEF Abstract!snakeVars, DraftedBy
<1>3. picks' = picks => D' = D
  BY NothingDrawn
<1>4. CASE SomePick
  <2>1. CurrentTurn \in 1..Turns /\ CurrentTurn' = CurrentTurn + 1
    BY <1>4, PickDraws
  <2>2. PICK p \in Registrations :
          /\ \A t \in 1..Turns : DraftedBy(t) # p
          /\ \A t \in 1..Turns : DraftedBy(t)' = IF t = CurrentTurn THEN p ELSE DraftedBy(t)
    BY <1>4, PickDraws
  <2>3. D' = [D EXCEPT ![CurrentTurn] = p] /\ \A t \in 1..Turns : D[t] # p
    BY <2>1, <2>2
  <2>4. Abstract!Draw(p)
    BY <2>1, <2>3 DEF Abstract!Draw, DraftedBy
  <2> QED
    BY <2>4 DEF Abstract!SnakeNext
<1>5. ASSUME NEW w \in Operators, CommitSkip(w) PROVE Abstract!Pass
  <2>1. /\ draft.entry # NoEntry /\ Advance(now) /\ now \in Nat /\ picks' = picks
    BY <1>1, <1>5 DEF CommitSkip, TypeOK
  <2>2. draft.round \in 1..TotalRounds /\ draft.entry \in Entries
    BY <1>1, <2>1, InRound
  <2>3. CurrentTurn \in 1..Turns
    BY <2>1, <2>2, TurnRange DEF CurrentTurn
  <2>4. CurrentTurn' = CurrentTurn + 1
    BY <1>1, <2>1, AdvanceTurn
  <2> QED
    BY <1>3, <2>1, <2>3, <2>4 DEF Abstract!Pass, DraftedBy
<1>6. ASSUME NEW w \in Operators, CommitStart(w) PROVE Abstract!Open
  <2>1. picks' = picks /\ draft.round = 0 /\ draft'.round = 1 /\ draft'.entry = EntryAt(1, 1)
    BY <1>6 DEF CommitStart, NoDraft
  <2>2. CurrentTurn = 0 /\ CurrentTurn' # 0
    <3>1. EntryAt(1, 1) \in Entries /\ EntryAt(1, 1) # NoEntry
      BY EntryRange, SnakeInverse
    <3>2. TurnNumber(1, EntryAt(1, 1)) \in Nat \ {0}
      BY <3>1, TurnType
    <3> QED
      BY <2>1, <3>1, <3>2 DEF CurrentTurn
  <2>3. CurrentTurn' = 1
    BY <2>2, TurnStep
  <2> QED
    BY <1>3, <2>1, <2>2, <2>3 DEF Abstract!Open, DraftedBy
<1>7. ASSUME ConfirmCaptains \/ UNCHANGED Rows
             \/ \E w \in Operators : CommitPause(w) \/ CommitResume(w)
      PROVE  UNCHANGED Abstract!snakeVars
  <2>1. draft'.round = draft.round /\ draft'.entry = draft.entry /\ picks' = picks
    BY <1>1, <1>7 DEF ConfirmCaptains, Rows, CommitPause, CommitResume, TypeOK, Drafts
  <2>2. CurrentTurn' = CurrentTurn
    BY <2>1 DEF CurrentTurn
  <2> QED
    BY <1>2, <1>3, <2>1, <2>2
<1> QED
  BY <1>1, <1>4, <1>5, <1>6, <1>7, StepCases DEF Abstract!SnakeNext

(* With every transaction, clock and connection forgotten, the draft is    *)
(* the abstract one: each turn drafts one new registration or passes.      *)
THEOREM Refinement == Spec => ImplementsSnakeDraft
<1>1. Init => Abstract!SnakeInit
  <2> SUFFICES ASSUME Init PROVE Abstract!SnakeInit
    OBVIOUS
  <2>1. CurrentTurn = 0
    BY DEF Init, NoDraft, CurrentTurn
  <2>2. \A t : DraftedIn(t) = {}
    BY DEF Init, DraftedIn
  <2> QED
    BY <2>1, <2>2 DEF Abstract!SnakeInit
<1>2. DraftInv /\ PicksInSnakeOrder /\ [Next]_vars => [Abstract!SnakeNext]_(Abstract!snakeVars)
  BY RefinementStep
<1> QED
  BY <1>1, <1>2, Invariance, InSnakeOrder, PTL DEF Spec, ImplementsSnakeDraft, Abstract!SnakeSpec
=============================================================================
