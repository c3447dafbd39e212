------------------------------- MODULE Draft -------------------------------
(***************************************************************************)
(* The Rivals snake draft: confirmCaptains forms the entries, startDraft   *)
(* opens the clock, captains pick (pickPlayer), the cron picks for a       *)
(* captain whose time is up, an operator skips, pauses and resumes, and    *)
(* the last turn freezes the event rosters and starts the season.          *)
(*                                                                         *)
(* Every operation is a database transaction that reads some rows before   *)
(* it holds a lock.  Such a transaction is two steps here: Begin... takes  *)
(* what it read and the instant it called new Date() into tx[w]; Commit... *)
(* runs what follows SELECT ... FOR UPDATE on draft_state (or, for the     *)
(* operations that never lock, the blind UPDATE).  Commits of one season   *)
(* are serialised by that row.                                             *)
(*                                                                         *)
(* An entry is named by its formationOrder, which a unique index makes an  *)
(* identity within the season.  The instant 0 and the entry 0 stand for    *)
(* SQL NULL, and round 0 for "no draft_state row".                         *)
(***************************************************************************)
EXTENDS Integers, Sequences, FiniteSets

CONSTANTS
    Registrations,   \* season_registrations rows of the season
    Approved,        \* those whose status is "approved"
    Willing,         \* those that may be seeded as captains
    Position,        \* primaryPosition of a registration
    Rank,            \* the auto-pick preference order, higher is better
    Teams,           \* DRAFT_TEAMS
    TotalRounds,     \* DRAFT_TOTAL_ROUNDS
    StarterRounds,   \* last round of isStarterRound
    PositionLimit,   \* DRAFT_POSITION_LIMIT_PER_TEAM
    RoundTimeout,    \* DRAFT_ROUND_TIMEOUT_SECONDS
    Requests,        \* clientRequestId values captains send
    Captains,        \* connections that carry pickPlayer calls
    Operators,       \* connections that carry season-admin calls
    Cron,            \* the connection of the draft-timeout job
    NoOne,           \* no captain seeded yet
    MaxTime,         \* bound on the clock
    TurnReserve      \* bound: clock a resume must leave for each turn to come

Entries == 1..Teams
Turns == Teams * TotalRounds
NoEntry == 0
NoDeadline == 0
Workers == Captains \cup Operators \cup {Cron}

ASSUME DraftAssumption ==
    /\ Teams \in Nat \ {0}
    /\ TotalRounds \in Nat \ {0}
    /\ StarterRounds \in Nat
    /\ PositionLimit \in Nat \ {0}
    /\ RoundTimeout \in Nat \ {0}
    /\ MaxTime \in Nat
    /\ TurnReserve \in Nat
    /\ IsFiniteSet(Registrations)
    /\ Willing \subseteq Approved
    /\ Approved \subseteq Registrations
    /\ Rank \in [Registrations -> Nat]
    /\ NoOne \notin Registrations

VARIABLES
    season,      \* seasons.status
    captain,     \* sourceRegistrationId of each entry
    draft,       \* the draft_state row
    picks,       \* draft_picks in pickNumber order
    roster,      \* current event_roster_members of each entry
    starters,    \* those with isPrimaryStarter
    rosterStatus,\* event_rosters.status, the same for every entry
    now,         \* the clock
    tx           \* the transaction each connection has open

vars == <<season, captain, draft, picks, roster, starters, rosterStatus, now, tx>>

-----------------------------------------------------------------------------
(* Types *)

NoDraft == [round |-> 0, entry |-> NoEntry, deadline |-> NoDeadline, active |-> FALSE]

Drafts == [round : 0..TotalRounds + 1, entry : 0..Teams, deadline : Nat, active : BOOLEAN]

(* An auto pick's request id is derived from the turn it answers. *)
AutoRequests == [entry : Entries, round : 1..TotalRounds, deadline : Nat]

Picks == [entry : Entries, registration : Registrations, round : 1..TotalRounds,
          auto : BOOLEAN, request : Requests \cup AutoRequests]

Idle == [op |-> "idle"]

Transactions ==
    [op : {"idle", "start", "skip", "pause", "resume"}]
      \cup [op : {"auto"}, at : Nat]
      \cup [op : {"pick"}, at : Nat, entry : Entries, registration : Registrations,
            request : Requests]

TypeOK ==
    /\ season \in {"voting", "drafting", "playing"}
    /\ captain \in [Entries -> Registrations \cup {NoOne}]
    /\ draft \in Drafts
    /\ picks \in Seq(Picks)
    /\ roster \in [Entries -> SUBSET Registrations]
    /\ starters \in [Entries -> SUBSET Registrations]
    /\ rosterStatus \in {"none", "preparing", "frozen"}
    /\ now \in Nat
    /\ tx \in [Workers -> Transactions]

-----------------------------------------------------------------------------
(* lib/draft/rules.ts and lib/draft/auto-pick.ts *)

(* getSnakeOrder: odd rounds run through the entries backwards. *)
SnakeSlot(e, k) == IF k % 2 = 1 THEN Teams + 1 - e ELSE e
EntryAt(s, k)   == IF k % 2 = 1 THEN Teams + 1 - s ELSE s

(* getNextEntryId, as three cases: the rest of the round, the first entry  *)
(* of the next round, and (null) the end of the draft.                     *)
InsideRound == SnakeSlot(draft.entry, draft.round) < Teams

(* Variant: one round too many. *)
AtRoundEndToo == ~InsideRound /\ draft.round <= TotalRounds

AtRoundEnd  == ~InsideRound /\ draft.round < TotalRounds
AtDraftEnd  == ~InsideRound /\ draft.round = TotalRounds

Drafted == {picks[i].registration : i \in DOMAIN picks}

PositionCount(e, r) == Cardinality({m \in roster[e] : Position[m] = Position[r]})

(* Variant: the cap admits one too many. *)
CanPickPositionToo(e, r) == PositionCount(e, r) <= PositionLimit

CanPickPosition(e, r) == PositionCount(e, r) < PositionLimit

Candidates == {r \in Approved : r \notin Drafted /\ \A e \in Entries : captain[e] # r}

(* selectAutoPickCandidate: the best candidate of a vacant position, or    *)
(* else of any position below its cap.  Rank is the comparator's order;    *)
(* candidates it does not separate are equally possible.                   *)
Vacant(e)   == {r \in Candidates : PositionCount(e, r) = 0}
Eligible(e) == {r \in Candidates : CanPickPosition(e, r)}
Best(S)     == {r \in S : \A q \in S : Rank[q] <= Rank[r]}

(* Variant: no fallback once every position is filled. *)
AutoPickVacant(e) == Best(Vacant(e))

AutoPickChoices(e) == Best(IF Vacant(e) # {} THEN Vacant(e) ELSE Eligible(e))

-----------------------------------------------------------------------------
(* Transactions *)

Begin(w, t) ==
    /\ tx[w] = Idle
    /\ tx' = [tx EXCEPT ![w] = t]
    /\ UNCHANGED <<season, captain, draft, picks, roster, starters, rosterStatus, now>>

End(w) == tx' = [tx EXCEPT ![w] = Idle]

(* A refusal, an idempotent replay and a lost connection all end the       *)
(* transaction with nothing written.                                       *)
Rollback(w) ==
    /\ tx[w] # Idle
    /\ End(w)
    /\ UNCHANGED <<season, captain, draft, picks, roster, starters, rosterStatus, now>>

-----------------------------------------------------------------------------
(* confirmCaptains seeds the entries.  The unique index on formationOrder  *)
(* lets one of several concurrent confirmations commit, so it is one step. *)
(* Which of the willing candidates are seeded depends on votes and ratings.*)
ConfirmCaptains ==
    /\ season = "voting"
    /\ \E seed \in [Entries -> Willing] :
         /\ \A e, f \in Entries : seed[e] = seed[f] => e = f
         /\ captain' = seed
         /\ roster' = [e \in Entries |-> {seed[e]}]
         /\ starters' = [e \in Entries |-> {seed[e]}]
    /\ rosterStatus' = "preparing"
    /\ season' = "drafting"
    /\ UNCHANGED <<draft, picks, now, tx>>

BeginStart(w) ==
    /\ season = "drafting"
    /\ draft = NoDraft
    /\ Begin(w, [op |-> "start"])

(* The insert; seasonId is unique in draft_state, so a second one fails. *)
CommitStart(w) ==
    /\ tx[w] = [op |-> "start"]
    /\ draft = NoDraft
    /\ draft' = [round |-> 1, entry |-> EntryAt(1, 1), deadline |-> now + RoundTimeout,
                 active |-> TRUE]
    /\ End(w)
    /\ UNCHANGED <<season, captain, picks, roster, starters, rosterStatus, now>>

-----------------------------------------------------------------------------
(* The part shared by executeDraftPick and skipDraftTurn: on to the next   *)
(* turn, or finalizeDraft.                                                 *)

NextTurn(k, e, at) ==
    /\ draft' = [round |-> k, entry |-> e, deadline |-> at + RoundTimeout, active |-> TRUE]
    /\ UNCHANGED <<season, rosterStatus>>

(* Variants: the rosters stay open; the draft state is not closed either. *)
FinalizeUnfrozen ==
    /\ draft' = [round |-> TotalRounds + 1, entry |-> NoEntry, deadline |-> NoDeadline,
                 active |-> FALSE]
    /\ season' = "playing"
    /\ UNCHANGED rosterStatus

FinalizeSeasonOnly ==
    /\ season' = "playing"
    /\ UNCHANGED <<draft, rosterStatus>>

FinalizeDraft ==
    /\ draft' = [round |-> TotalRounds + 1, entry |-> NoEntry, deadline |-> NoDeadline,
                 active |-> FALSE]
    /\ season' = "playing"
    /\ rosterStatus' = "frozen"

(* Variant: the next round is opened in the order of this one. *)
AdvanceSameOrder(at) ==
    \/ /\ InsideRound
       /\ NextTurn(draft.round, EntryAt(SnakeSlot(draft.entry, draft.round) + 1, draft.round), at)
    \/ AtRoundEnd /\ NextTurn(draft.round + 1, EntryAt(1, draft.round), at)
    \/ AtDraftEnd /\ FinalizeDraft

Advance(at) ==
    \/ /\ InsideRound
       /\ NextTurn(draft.round, EntryAt(SnakeSlot(draft.entry, draft.round) + 1, draft.round), at)
    \/ AtRoundEnd /\ NextTurn(draft.round + 1, EntryAt(1, draft.round + 1), at)
    \/ AtDraftEnd /\ FinalizeDraft

(* executeDraftPick once the draft_state row is locked: the checks on the  *)
(* target, then the pick, the membership and the next turn.  A frozen      *)
(* roster refuses the insert (trigger event_roster_members_frozen_...).    *)

(* Variants: the current entry is not compared; a drafted target is let in. *)
AcceptsAnyTurn(e, r, request) ==
    /\ \A i \in DOMAIN picks : picks[i].request # request
    /\ draft.active
    /\ draft.entry # NoEntry
    /\ r # captain[e]
    /\ r \in Approved \ Drafted
    /\ CanPickPosition(e, r)
    /\ rosterStatus = "preparing"

AcceptsDrafted(e, r, request) ==
    /\ \A i \in DOMAIN picks : picks[i].request # request
    /\ draft.active
    /\ draft.entry = e
    /\ r # captain[e]
    /\ r \in Approved
    /\ CanPickPosition(e, r)
    /\ rosterStatus = "preparing"

AcceptsPick(e, r, request) ==
    /\ \A i \in DOMAIN picks : picks[i].request # request
    /\ draft.active
    /\ draft.entry = e
    /\ r # captain[e]
    /\ r \in Approved \ Drafted
    /\ CanPickPosition(e, r)
    /\ rosterStatus = "preparing"

(* Variant: every pick becomes a primary starter. *)
AddStarter(e, r) ==
    /\ roster' = [roster EXCEPT ![e] = @ \cup {r}]
    /\ starters' = [starters EXCEPT ![e] = @ \cup {r}]

AddMember(e, r) ==
    /\ roster' = [roster EXCEPT ![e] = @ \cup {r}]
    /\ starters' = [starters EXCEPT ![e] =
                      IF draft.round <= StarterRounds THEN @ \cup {r} ELSE @]

ExecuteDraftPick(e, r, request, auto, at) ==
    /\ AcceptsPick(e, r, request)
    /\ picks' = Append(picks, [entry |-> e, registration |-> r, round |-> draft.round,
                               auto |-> auto, request |-> request])
    /\ AddMember(e, r)
    /\ Advance(at)
    /\ UNCHANGED <<captain, now>>

-----------------------------------------------------------------------------
(* pickPlayer, called by the captain of entry e.  The season is read and   *)
(* the clock taken before the lock is waited for.                          *)
BeginPick(w, e, r, q) ==
    /\ season = "drafting"
    /\ Begin(w, [op |-> "pick", at |-> now, entry |-> e, registration |-> r, request |-> q])

CommitPick(w) ==
    /\ tx[w].op = "pick"
    /\ draft.deadline # NoDeadline
    /\ draft.deadline > tx[w].at
    /\ ExecuteDraftPick(tx[w].entry, tx[w].registration, tx[w].request, FALSE, tx[w].at)
    /\ End(w)

(* runDraftTimeoutCron selects the overdue drafts; runAutoPickForSeason    *)
(* looks again under the lock.                                             *)
BeginAuto ==
    /\ season = "drafting"
    /\ draft.active
    /\ draft.deadline # NoDeadline
    /\ draft.deadline < now
    /\ Begin(Cron, [op |-> "auto", at |-> now])

CommitAuto ==
    /\ tx[Cron].op = "auto"
    /\ draft.entry # NoEntry
    /\ draft.deadline # NoDeadline
    /\ draft.deadline <= tx[Cron].at
    /\ \E r \in AutoPickChoices(draft.entry) :
         ExecuteDraftPick(draft.entry, r,
                          [entry |-> draft.entry, round |-> draft.round,
                           deadline |-> draft.deadline],
                          TRUE, tx[Cron].at)
    /\ End(Cron)

(* skipDraftTurn, the operator's way on when nobody is eligible. *)
BeginSkip(w) ==
    /\ season = "drafting"
    /\ Begin(w, [op |-> "skip"])

CommitSkip(w) ==
    /\ tx[w] = [op |-> "skip"]
    /\ draft.active
    /\ draft.entry # NoEntry
    /\ Advance(now)
    /\ End(w)
    /\ UNCHANGED <<captain, picks, roster, starters, now>>

(* pauseDraft and resumeDraft check the row without locking it and then    *)
(* update it by id, whatever it has become in between.                     *)
BeginPause(w) ==
    /\ draft.active
    /\ Begin(w, [op |-> "pause"])

CommitPause(w) ==
    /\ tx[w] = [op |-> "pause"]
    /\ draft' = [draft EXCEPT !.active = FALSE]
    /\ End(w)
    /\ UNCHANGED <<season, captain, picks, roster, starters, rosterStatus, now>>

(* Bound on the model: with a positive TurnReserve resumes stop while the  *)
(* clock can still see every remaining turn time out.                      *)
ClockLeft == now + TurnReserve * (Turns - Len(picks)) <= MaxTime

BeginResume(w) ==
    /\ draft.round # 0
    /\ ~draft.active
    /\ draft.entry # NoEntry
    /\ ClockLeft
    /\ Begin(w, [op |-> "resume"])

CommitResume(w) ==
    /\ tx[w] = [op |-> "resume"]
    /\ draft' = [draft EXCEPT !.active = TRUE, !.deadline = now + RoundTimeout]
    /\ End(w)
    /\ UNCHANGED <<season, captain, picks, roster, starters, rosterStatus, now>>

(* Time passes.  It matters to this module only until a deadline is over.  *)
Tick ==
    /\ draft.active
    /\ now <= draft.deadline
    /\ now < MaxTime
    /\ now' = now + 1
    /\ UNCHANGED <<season, captain, draft, picks, roster, starters, rosterStatus, tx>>

-----------------------------------------------------------------------------

Init ==
    /\ season = "voting"
    /\ captain = [e \in Entries |-> NoOne]
    /\ draft = NoDraft
    /\ picks = <<>>
    /\ roster = [e \in Entries |-> {}]
    /\ starters = [e \in Entries |-> {}]
    /\ rosterStatus = "none"
    /\ now = 0
    /\ tx = [w \in Workers |-> Idle]

CaptainStep(w) ==
    \/ \E e \in Entries, r \in Registrations, q \in Requests : BeginPick(w, e, r, q)
    \/ CommitPick(w)

OperatorStep(w) ==
    \/ BeginStart(w)  \/ CommitStart(w)
    \/ BeginSkip(w)   \/ CommitSkip(w)
    \/ BeginPause(w)  \/ CommitPause(w)
    \/ BeginResume(w) \/ CommitResume(w)

Next ==
    \/ ConfirmCaptains
    \/ \E w \in Captains : CaptainStep(w)
    \/ \E w \in Operators : OperatorStep(w)
    \/ BeginAuto \/ CommitAuto
    \/ \E w \in Workers : Rollback(w)
    \/ Tick

Spec == Init /\ [][Next]_vars

(* The job runs every minute and not all of its transactions fail. *)
Fairness ==
    /\ WF_vars(Tick)
    /\ WF_vars(BeginAuto)
    /\ SF_vars(CommitAuto)
    /\ WF_vars(Rollback(Cron))

FairSpec == Spec /\ Fairness

-----------------------------------------------------------------------------
(* Properties *)

(* Where a turn stands in the whole draft, 1 to Turns. *)
TurnNumber(k, e) == (k - 1) * Teams + SnakeSlot(e, k)

PickTurn(i) == TurnNumber(picks[i].round, picks[i].entry)

CurrentTurn == IF draft.round = 0 THEN 0
               ELSE IF draft.entry = NoEntry THEN Turns + 1
               ELSE TurnNumber(draft.round, draft.entry)

(* The picks follow the snake, at most one to a turn, and none is ahead of *)
(* the turn the draft is at: whatever a captain, the cron and an operator  *)
(* do about the same turn at once, executeDraftPick lets one of them in.   *)
PicksInSnakeOrder ==
    /\ \A i, j \in DOMAIN picks : i < j => PickTurn(i) < PickTurn(j)
    /\ \A i \in DOMAIN picks : PickTurn(i) < CurrentTurn

(* draft_picks and event_roster_members tell the same story: a roster is   *)
(* the captain and the picks of the entry, and its primary starters are    *)
(* the captain and the picks of the starter rounds.                        *)
RostersMatchPicks ==
    season # "voting" =>
      \A e \in Entries :
        /\ roster[e] = {captain[e]} \cup
             {picks[i].registration : i \in {j \in DOMAIN picks : picks[j].entry = e}}
        /\ starters[e] = {captain[e]} \cup
             {picks[i].registration : i \in {j \in DOMAIN picks :
                 picks[j].entry = e /\ picks[j].round <= StarterRounds}}

(* rules.ts:87: no entry has more than PositionLimit members of one        *)
(* primary position, its captain included.                                 *)
PositionCap ==
    \A e \in Entries : \A r \in roster[e] : PositionCount(e, r) <= PositionLimit

(* No registration is drafted by two entries. *)
NobodyDraftedTwice ==
    \A i, j \in DOMAIN picks : picks[i].registration = picks[j].registration => i = j

(* The season plays exactly when the draft is over and the rosters are     *)
(* frozen, although every transaction looked at the season before it held  *)
(* the draft_state lock.                                                   *)
PlayingMeansFrozen ==
    /\ season = "playing" <=> rosterStatus = "frozen"
    /\ season = "playing" <=> draft.round = TotalRounds + 1

(* A turn is never taken back and none is passed over: each commit moves   *)
(* the draft to the next turn or leaves it where it is, late resumes and   *)
(* pauses included.                                                        *)
TurnByTurn == [][CurrentTurn' \in {CurrentTurn, CurrentTurn + 1}]_vars

(* Once the season plays, no transaction still under way changes a pick,   *)
(* a roster or a starter.                                                  *)
RostersStayFrozen ==
    [][season = "playing" => UNCHANGED <<picks, roster, starters, season>>]_vars

(* An overdue turn with an eligible registration ends, unless an operator  *)
(* pauses the draft: the cron answers for a captain who does not.          *)
OverdueTurnEnds ==
    \A t \in 1..Turns :
      (CurrentTurn = t /\ draft.active /\ Eligible(draft.entry) # {})
        ~> (CurrentTurn # t \/ ~draft.active)

(* state.ts:196 calls a row without a current entry an abnormal state that *)
(* must not be resumed.                                                    *)
ActiveDraftHasEntry == draft.active => draft.entry # NoEntry

(* The draft implements the abstract one. *)
DraftedIn(t) == {i \in DOMAIN picks : PickTurn(i) = t}

Abstract == INSTANCE SnakeDraft WITH
    Players <- Registrations,
    Nobody  <- NoOne,
    turn    <- CurrentTurn,
    drafted <- [t \in 1..Turns |->
                  IF DraftedIn(t) = {} THEN NoOne
                  ELSE picks[CHOOSE i \in DraftedIn(t) : TRUE].registration]

ImplementsSnakeDraft == Abstract!SnakeSpec
=============================================================================
