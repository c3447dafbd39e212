# RivalHub verification

RivalHub is a Next.js and PostgreSQL platform for amateur CS2 events: people
register for a season, captains are voted in and draft their teams, matches are
scheduled, vetoed, played, reported and predicted on. This directory holds TLA+
models of the parts whose correctness depends on the order in which
transactions, callbacks and scheduled jobs run, TLC configurations that check
them on small instances, and proofs, checked by TLAPS, for every value of the
constants.

Paths below are relative to the repository (`src/lib/...` is the application's
library, `drizzle/` the migrations).

## 1. The system

All state is in PostgreSQL. The writers are server actions (one HTTP request,
one or several transactions), and scheduled jobs that a minute cron starts when
a cheap query finds work (`src/lib/scheduler`). There are many processes and no
memory shared between them: every race is a race between transactions, and
between a transaction and what its process read before it. The default
isolation level is READ COMMITTED, so a statement sees what was committed when
it started and only `SELECT ... FOR UPDATE`, unique indexes and conditional
updates protect a decision. Two locks recur: the `draft_state` row serialises
the draft of a season, and the `seasons` row serialises the mutations of its
matches (`docs/operations/match-lock-order.md`).

### Inventory

| Component | State | Operations | Hard behaviour | Correct when |
|---|---|---|---|---|
| Snake draft (`lib/draft`, `actions/draft`) | `draft_state`, `draft_picks`, event rosters, season status | start, pick, automatic pick, skip, pause, resume, finalise | a captain, the cron and an operator answer the same turn; pause and resume take no lock; the season is read before the lock | one pick per turn in snake order, rosters agree with picks and are frozen when the season plays |
| Captain voting and confirmation (`actions/captains.ts`) | votes, entries, rosters | vote, retract, confirm | confirmation against a season going back | every entry has one captain, formed once |
| Match scheduling and coverage (`lib/matches/scheduling.ts`, `coverage.ts`, `time-auto-award.ts`) | proposals, holds, allocations, `scheduledAt`, deadline | propose, accept, reject, administrator schedule, deadlines, acceptance by silence | a job that selects and later settles; expiring holds; capacity; checks outside the transaction | no slot oversold, coverage follows the schedule, silence never moves a match |
| Projection delivery (`lib/matches/projection-invalidation`) | watermark per match, caches | register, deliver, dispatch, rotate | crash or failure between commit, invalidation and acknowledgement; concurrent deliverers | nothing acknowledged is stale; nothing reachable stays pending |
| Veto room (`lib/matches/veto-room`) | session with its revision, steps, timeout incidents, appeals, map plan | ask to start, answer, time out, pause, resume, rewind, appeal, resolve | a timeout, its settlement and a late answer; commands stamped before they wait for the lock; lost answers sent again; rewinds that delete what a retry would be recognised by | the steps follow the format, the turn shown is on the clock, a command takes effect once, nothing changes once maps are played |
| Match lifecycle and results (`lib/matches/lifecycle.ts`, `results.ts`, `completion.ts`) | status, maps, score | start, start a map, record a map, forfeit, cancel, delete | results from two sources, in any order; a forfeit over maps already played | a running series is undecided, an ended one has the legal score of its maps |
| Match rosters (`lib/match-rosters`, `lib/event-rosters`) | lineups, substitutions | submit, default, lock | a default lineup against a late submission | five eligible players, no changes after the start |
| Result corrections (`lib/match-corrections`, `lib/matches/map-score-correction.ts`) | maps, score, later matches | correct a map, a series, a result; recover what followed | a changed winner moves the end of a series, or invalidates later rounds | what remains follows from the corrected result |
| Season lifecycle (`lib/seasons`) | season status, deadlines | publish, advance, revert, archive | automatic advance against an administrator | status moves along its graph; derived rows match it |
| Registrations (`lib/registrations`, `actions/register.ts`) | registrations, reviews | register, withdraw, review | review of a row read without a lock | nobody drafted is rejected afterwards |
| BET (`lib/bet`) | markets, stakes, settlement revisions, ledger, dirty flag | stake, lock, settle, reverse, void | a late job settles a result that was corrected again; a stake at the start of a map | each revision takes back the one before it, pots are paid out whole, nothing is staked on what has begun |
| Predictions and Pick'Em (`lib/predictions`) | predictions, scores, outboxes | predict, lock, settle, reconcile | reopened results, repeated jobs | scored exactly by the final result |
| Free predictions (`lib/free-predictions`) | entries, scores | predict, settle | as above, smaller | as above |
| Mizar (`lib/mizar`) | installation leases, sequence numbers, facts | handshake, ingest, expire | duplicated and reordered batches, two installations | each fact applied once, in order, by the lease holder |
| Swiss (`lib/swiss`) | rounds, records | pair, advance | forced rematches | pairs are a perfect matching of equal records where one exists |
| Major (`lib/major`) | stage runs, managed matches, final result | start a stage, create the next round, publish, confirm | rounds created in part; a result corrected after rounds were created from it | every match is between the teams that results now standing send there |
| Competition entries (`lib/competition-entries`) | entries, invitations, claims | invite, accept, withdraw | two entries claim a player | an active claim per player and season |

The remaining components (bracket adapter, qualification, teams, identity
merge, education, discipline, post-event, community awards, content, telemetry,
statistics, authentication, scripts, demo integration and pages) keep little
state of their own or are reading, presentation or operations; `PROJECT.json`
lists each with the reason it is not modelled.

### Interactions

* Confirmation forms the entries and rosters the draft fills, and the last turn
  of the draft freezes them and starts the season: one module, `Draft`.
* Scheduling writes `scheduledAt` and the lifecycle reads it; both hold the
  season lock. The lifecycle leaves proposals and coverage behind, which the
  scheduling job must clear: `Leave` in `MatchScheduling` is that interface.
* The finished veto is the match's map plan and its start is the match's start:
  `VetoRoom` has the transitions of the match that the room makes or that end
  it, the lineups the start asks for, and the entries' previous match, which
  blocks it.
* Veto, roster and map-plan changes fire the trigger of migration 0097; the
  delivery of their invalidations is asynchronous: `CommitFacts` in
  `ProjectionDelivery` is that interface.
* Results feed BET through a trigger that locks pools and marks the program
  dirty in the transaction of the official write (migration triggers
  `rivalhub_bet_official_outbox`): `Betting` extends `MatchResults` and joins
  each of its steps to `Official`. Predictions use an outbox of the same kind.
* A playoff reads the results of its matches and creates the next ones; a
  correction deletes them again: `MajorPlayoff`, where `FinishMatch` and
  `CorrectWinner` stand for what `MatchResults` does to one match in detail.

## 2. What is modelled

| Module | What it is | Length |
|---|---|---|
| `SnakeDraft` | abstract specification of a draft: turns, each drafting somebody new or passing | 46 |
| `Draft` | the draft as transactions of captains, operators and the cron; shown to implement `SnakeDraft` | 486 |
| `MatchScheduling` | proposals, answers, coverage, deadlines, acceptance by silence | 395 |
| `ProjectionDelivery` | watermarks, deliverers, dispatcher, failures | 295 |
| `VetoSequence` | the formats, the turn a set of steps has reached, the map plan of a finished sequence | 158 |
| `VetoLog` | abstract specification of a veto room: a log of answers that grows, may be cut back before play, and ends in a plan | 76 |
| `VetoRoom` | the room of one match: start, turns, timeouts, administrators, appeals; shown to implement `VetoLog` | 979 |
| `MatchResults` | the maps and the score of one match, every order of results, forfeits, corrections | 263 |
| `Betting` | markets, stakes, settlements and the ledger beside the result they follow; extends `MatchResults` | 355 |
| `MajorPlayoff` | the eight-team bracket of a Major: rounds, result, corrections that undo rounds | 280 |
| `MCDraft`, `MCMatchScheduling`, `MCProjectionDelivery`, `MCVetoRoom`, `MCBetting` | the instances TLC checks (`MajorPlayoff` has no constants and is its own) | |
| `DraftProofs`, `SchedulingProofs`, `DeliveryProofs`, `ResultsProofs`, `BettingProofs`, `PlayoffProofs` | theorems and proofs | |
| `VetoSequenceProofs`, `VetoProofs` | the theory of veto sequences, and the theorems about the room that rest on it | |

A definition marked *Variant* is not part of the model. It is a plausible
mistake in the definition after it (a dropped guard, a missing reset, a swapped
order) that the property named in `PROJECT.json` has to notice.

### Draft

An operation of the draft reads the season (and sometimes `draft_state`) before
it waits for the lock, and takes `new Date()` there too. So each is two
actions: `Begin…` puts what was read into `tx[w]`, one open transaction for
each connection `w`; `Commit…` is everything that follows
`SELECT … FOR UPDATE`, in one step because commits of one season exclude each
other. `pauseDraft` and `resumeDraft` do not lock: their `Commit…` is the blind
`UPDATE … WHERE id`. `Rollback` is a refusal, an idempotent replay, or a lost
connection.

| Code | Actions |
|---|---|
| `confirmCaptains` | `ConfirmCaptains` (which willing candidates are seeded is left open) |
| `startDraft` | `BeginStart`, `CommitStart` |
| `pickPlayer` → `executeDraftPick` | `BeginPick`, `CommitPick` |
| `runDraftTimeoutCron`, `runAutoPickForSeason` → `executeDraftPick` | `BeginAuto`, `CommitAuto` |
| `skipDraftTurn`, `pauseDraft`, `resumeDraft` | `BeginSkip` … `CommitResume` |
| `getNextEntryId`, `finalizeDraft` | `Advance`, in the commits above |
| `selectAutoPickCandidate` | `AutoPickChoices` (the order of equal candidates is left open) |

Entries are named by their formation order; SQL null is 0; round 0 stands for
"no `draft_state` row". Nothing but the draft writes these rows in the model:
reviews of registrations and reverting the season are other components (see
the hazards).

### MatchScheduling

Each transaction locks the season first and keeps it, so it is one action:
`ProposeTime`, `Accept`, `Reject`, `SetAdminSchedule`. Two things escape that
lock and are two steps. The cron selects overdue proposals (`SelectOverdue`)
and settles each later (`Settle`: `SettleExpired`, `SettleAccepted` or
`SettleSkipped`). The deadline actions check rows they read before their
transaction (`CheckDeadline`, `CheckRoundDeadline`) and then write
(`WriteDeadline`). A match has at most one pending proposal and one unreleased
hold and allocation (partial unique indexes), so each is a function of the
match. Representatives are abstracted to the two sides of a match. The season is
a live one: `lockMatchInTx` throws once it is archived, for the cron as well, so a
proposal left open then stays open, and `StaleProposalEnds` does not speak of it.

### ProjectionDelivery

`CommitFacts` is a transaction whose trigger registers a new generation.
A deliverer is a request or the dispatcher; `ReadWatermark`, `Invalidate`,
`Acknowledge` are its three separate calls, with `InvalidateFails`, `GiveUp`
(the acknowledgement throws or the request dies), `DispatcherReadFails`,
`RotateFails` and `Crash` between them. `stalePages` and `staleStats` are
ghosts: which matches have a committed fact the cached pages, or the shared
statistics, do not show. The order of `updated_at` is a permutation (`place`).

### VetoSequence, VetoRoom and VetoLog

`VetoSequence` is the data of a veto (`veto-sequence.ts`): `VetoTurnDefinitions`
are the three real formats, `CurrentTurn` the turn that a set of
`match_veto_steps` has reached, `MapPlan` what a finished sequence means. That
the formats are playable (the decider finds one map left, each side is picked
by the entry that did not choose the map, the turns fit the reconcile loop of
sixteen) is `FormatAssumption`, evaluated in every run.

`VetoRoom` is `veto-room/service.ts`. Every operation locks the season and the
match, so two never interleave and most are one action. A reconcile is not: it
is a loop that may start the session, then time turns out, append the decider
and complete the plan. Its transaction is `work`, a private copy of the room,
one pass of the loop to a step (`StartSession`, `SkipStart`, `TimeOutRole`,
`TimeOutTurn`, `AppendDecider`, `CompletePlan`, `NotDue`, `OutOfPlay`), and only
`Commit`, or the end of the command, publishes it. A refusal (`StartRefused`,
`RefuseAnswer`) is an exception and drops the copy, timeouts found due on the
way included, as the rolled-back transaction does.

| Code | Actions |
|---|---|
| `submitVetoCommandReceipt` | `Send` (with the revision and turn the client was shown), `Receive` (the stamp taken before the locks), then `RepeatAnswer`, or `BeginAnswer` and after the reconcile `IgnoreAnswer`, `RefuseAnswer`, `ChooseRole` or `AnswerTurn` |
| `requestVetoStartReceipt` | `BeginStartRequest` (or `DropUnderStrength`, when an entry has no five starters for a default lineup), then `IgnoreStartRequest`, `RefuseStartRequest` or `RecordStartRequest` |
| `reconcileVetoSessionInTx`, `tryStartSessionInTx`, `completeMapPlanInTx` | the steps above |
| reads of the page; `runMatchVetoTimeoutJob` | `VisitRoom`; `RunTimeoutJob` (only when `JobDue`, the query of the runner, finds the room) |
| `setManualPrivilegedEntry`, `changeRepresentativeInTx`, `persistMatchRosterInTx` | `SetPrivileged`, `SetRepresentative`, `SubmitLineup` |
| `pauseVetoRoom`, `resumeVetoRoom`, `rewindVetoRoom` | `Pause`, `Resume`, `Rewind` |
| `submitVetoAppeal`, `resolveVetoAppeal` | `SubmitAppeal`, `RejectAppeal`, `AcceptAppeal` |
| `startCanonicalMapInTx`, `recordMapResultInTx` | `PlayMap` (the first map that has not begun), `RecordMap` (any map of the plan; the result that decides the series ends the match) |
| `persistCompletedMatchInTx` of a forfeit, a cancellation, `ingestMizarReliable` | `Finish`, `Cancel`, `ObserveMatchStarted` |

A client keeps the command it sent until it gives up or sends another, so the
same command may be received again after an answer that was lost, a rewind or a
restart; `answered` is the history of those that took effect. `roleAnswered` is
history too: the session row keeps who is VETO A, not whether an answer or the
clock chose it, and a drawn role is no step, so without it no property could
ask for the incident of a drawn role. `played` is the set of the orders of the
maps that have begun, because a later map may be scored first. The options of a
timeout are drawn at random in the code and are any choice in the model. Left out: the creation of the session row (a room always
has one), test matches, the historical backfill of steps, the automatic closing of
appeals once play has begun (`closeVetoAppealsAfterGameplayInTx` returns at once
while `lifecycle-contract.json` has publisher version 0), the validity of a payload
beyond the map and the side it names, and who may be put in a lineup. A default
lineup that cannot be made for want of five starters rolls back the visit, the
job or the intervention that asked for it, which is a step that does not happen.

`VetoLog` is what is left of the room without transactions, clocks, commands and
retries: `vetoA`, `steps`, `plan`, `played` and `over`, which `VetoRoom` maps to
the fields of the saved row (`over` is the status `ended`). A commit that saves
answers, one or several at once, is `Append`; a rewind or an accepted appeal is
`Cut`; `PlayMap` and `RecordMap` are `Play`, in any order of the maps, or `End` when
the result is the last; `Cancel` and `Finish` are `End`; every other step of
the room, a pause and a refused command among them, changes nothing there. What
the log promises of the order of things (no step is taken back or added behind
another's back, the plan stands once a map is played) is one property of the
room, `ImplementsVetoLog`.

### MatchResults

One match of an event, with the row locks of season and match held from the
first read to the commit, so each operation is one action.

| Code | Actions |
|---|---|
| `applyMatchStatusTransitionInTx` | `StartMatch`, `Cancel` |
| the veto's map plan, written, or dropped by a rewind | `PlanMaps`, `DropPlan` |
| `startCanonicalMapInTx`, `deleteScheduledMatchAndDependentsInTx` | `StartMap`, `Delete` |
| `recordMapResultInTx`, `persistCompletedMatchInTx` | `RecordMap`, `Finish` (the last result ends the series and deletes the maps nobody used) |
| forfeits | `Forfeit` |
| corrections of a map, of the map that then ends the series, of the whole result | `CorrectMap`, `CorrectSeries`, `CorrectResult` |

The score of a map is abstracted to its winner. `ruled` is a history variable:
the score is one that administrators declared, which need not be the maps'.
Left out: independent and test matches, the names and round scores of maps, and
adjudication records.

### Betting

`Betting` EXTENDS `MatchResults`: each step is a step of the match together
with what the trigger does in the same transaction (`Official`: pools of
subjects that have begun are locked, the program is dirty), or one of
`Stake`, `Close`, `Void` and `Job`. The last three end in `Reconcile`, which
publishes the markets that have a subject, locks those that have to be, and for
each market whose outcome changed writes a new revision: reversals of the rows
of the one before, and payments. A market belongs to a map of one map plan, so
a rewind of the veto makes new markets and refunds the old ones. The division of
a pot (`Share`, `Remainder`, `Rank`, `Bonus`) is the code's: whole points by
proportion, what is left over to the largest remainders, ties by account.
Left out: the markets on the event, the veto, round totals and exact scores,
daily relief, grants by stage, the pause of the program, legacy starts, request
ids of stakes, and the job's second settlement of a map whose round score was
corrected without another winner (equal payments under a new revision).

### MajorPlayoff

Every operation holds the season row, so each is one action: `StartPlayoff`,
`CreateSemifinals`, `CreateFinals`, `PublishResult` (one function of the code,
`finalizeMajorPlayoffRoundInTransaction`, by its expected round) and
`ConfirmResult`; of the matches `StartMatch`, `FinishMatch`, `CancelMatch`,
`DeleteMatch`; and `CorrectWinner`, the correction that changes the winner of a
finished match and deletes its descendants if none has begun. `prepared` is the
set of scheduled matches that other rows refer to (a proposed time, a lineup);
only foreign keys read it. Left out: the Swiss stages before the playoff and
their recovery, corrections that keep the winner (nothing here changes), the
administrator's check that the season still allows mutations, and formats.

## 3. What is checked

| Run | Instance | Shows |
|---|---|---|
| `draft` | 2 entries, 2 rounds, 2 willing captains and 3 others, a captain connection, an operator, the cron, 2 request ids, clock to 3 | all safety properties and the refinement of `SnakeDraft`, with every transaction split at its lock |
| `draft_live` | clock to 8, an operator | an overdue turn with an eligible registration ends |
| `draft_abnormal` | 2 operators, 1 request id, 1 player to draft | **finding**: a late resume re-activates a finished draft |
| `delivery` | 2 matches, one unreachable, batches of one, a request and the dispatcher, at most 2 generations of a match | acknowledged means fresh; acknowledgements move forward; the reachable match is delivered |
| `scheduling` | 2 matches, both sides, one slot for one match, clock to the end of every proposal | capacity, coverage, holds, silence |
| `scheduling_live` | one match with a deadline editor | stale proposals end; silence never moves the match |
| `deadline_race` | one match, one editor | **finding**: a deadline before the scheduled time |
| `veto_admin` | one client, 3 maps, ban of two, decider, side; two interventions out of pause, rewind and appeal; maps are played and the match may end at any time | retries and late commands around pauses and rewinds: applied once, revision names the session, turns start in order, every step and every choice of roles that a timeout made is on record; the refinement of `VetoLog`: steps are only appended, only a rewind before play cuts them back, maps freeze sequence and plan |
| `veto_live` | one client, 2 maps, a ban and the decider; two interventions out of lineup, lost eligibility, privileged entry, representative and another match; the live source may start the match | an agreed match starts; the start was agreed by those who represent; a turn nobody answers ends |
| `betting` | a best of three, 3 accounts of one point, stakes on the match and on its second map, one map plan, one correction | settlements are reversed exactly, pots are paid out whole, clean means paid, no stake on what has begun, the series follows its maps |
| `playoff` | the whole bracket, with and without a match for the third place; no bound | the bracket follows from results that stand; published placements name every team once |
| `playoff_recovery` | the same | **finding**: a correction nothing blocks cannot be applied |

Why these bounds are enough to be interesting. Two entries and two rounds have
every kind of turn: the middle and the end of a round, the double turn where
the snake reverses, the end of the draft. One connection of each kind lets any
two operations overlap on one turn, and two operators let two blind updates
overlap. A position limit of 2 is reached by a captain and one pick, so the cap refuses
a third. Two matches and one place make every allocation a competition, and a
hold time shorter than the run lets holds expire and be reclaimed. One
unreachable match and a batch of one is the least instance in which a dispatcher
without rotation starves. The proofs then cover every size of these three modules, and of
the room, the match, the betting and the playoff below.

`betting` (about half a million states): a best of three has a series that a correction
shortens, lengthens or turns; two winners against one loser leave a remainder;
an account in two markets would spend a point twice; and one correction after
the end with the job anywhere in between gives up to three revisions of a
market. An administrator may close or void one map's market; that the match may
be corrected only once is a bound the proofs remove. `playoff` has about ten
thousand states and is the whole system: its size is fixed in the code.

The rooms are cut in two because their operations multiply. The formats of
the instances have one turn of each kind that the real ones have: a turn of
several choices that may be half answered, a ban, the decider with and without
a side. Durations, settlement and windows are one unit
(settlement none in `veto_live`), so a turn can be answered in time, after its
deadline, and after the settlement, and one reconcile can find several
deadlines passed. Two interventions allow a pause with a rewind in it, an
appeal with its acceptance, a stale lineup after the entries were named; a
third repeats these. The client of `veto_admin` meets every
intervention between sending, receipt and execution.

Named bounds: `MaxTime` (clock of `Draft` and `MatchScheduling`), `TurnReserve`
(in `draft_live`, resumes stop while the clock can still let every remaining
turn time out; 0 elsewhere, where the guard only ends resumes at the end of
time), `MaxGeneration`; and of `VetoRoom`, `MaxTime`, `Operations` (the optional
operations of a run) and `MaxInterventions` (how many of them); of `MatchResults` and `Betting`,
`MaxPlans`, `MaxCorrections`, `MaxStakes`, `Wagers` and `Operated` (who may stake on what,
and which markets an administrator touches). Symmetry is used where the run has no liveness
property. Deadlock is not checked where the system may stop: a finished draft,
matches all over at the end of the clock, watermarks at `MaxGeneration`, a
match that is over and settled, and a playoff whose result is confirmed. It
is checked in every run of `VetoRoom`: a room can always be visited.

### Fairness

* `draft_live`: time passes, the minute cron starts a pick for an overdue turn
  (`WF BeginAuto`), a transaction that stays open is ended (`WF Rollback(Cron)`)
  and the commit does not lose against other writers or fail every time
  (`SF CommitAuto`). Nothing is assumed of captains and operators.
* `delivery`: the veto job is due whenever a watermark is pending
  (`WF SelectBatch`). The calls for one match fail sometimes, not each time
  (`SF` per match), except the invalidation of an unreachable match, which
  always fails; an invalidation always returns or throws.
* `scheduling_live`: the job is due whenever a proposal is overdue, it goes
  through what it selected, and time passes. Nothing is assumed of people.

* `veto_live`: a transaction that has its locks runs to its end (`WF` of the
  reconcile and command steps), time passes (`SF Tick`: the model's clock stands
  still during a transaction, which says nothing of the real one), and the job,
  started every minute while its query finds the room, gets the season lock some
  time (`SF RunTimeoutJob`: PostgreSQL queues for a row lock). Nothing is assumed
  of people.

### Findings

1. `resumeDraft` (`actions/draft/state.ts:199`) checks `draft_state` without a
   lock and updates by id. When the last turn ends in between, the draft is
   active with no current entry, which the same function calls abnormal at
   line 196. `ImplementsSnakeDraft`, `RostersStayFrozen` and `PlayingMeansFrozen` hold
   nevertheless: nothing can be picked from that state.
2. `updateMatchCompletionDeadline` (`actions/matches/results.ts:186`) compares
   the deadline with a match row it read before its transaction: a time
   accepted in between ends up after the deadline, which line 193 forbids.
   `batchSetCompletionDeadline` (line 269) makes no such comparison, without any
   race (not a run of its own).
3. `applyResultCorrectionInTx` (`lib/match-corrections/service.ts:610`) deletes
   the `matches` rows of the later matches it invalidates and nothing else.
   Proposed times and lineups refer to a match with `ON DELETE no action`
   (`drizzle/migrations/0000_v2_baseline.sql:348`, `353`), so as soon as captains begin to
   prepare a semifinal, correcting its quarterfinal fails on a foreign key,
   although the plan shows nothing that blocks it and the comment (line 517)
   promises that such matches are invalidated. The branch for qualifications,
   one line above, deletes the dependent rows first.

Met on the way, without a run: a `match_started` event of the live source sets
a scheduled match in progress (`lib/mizar/reliable.ts:299`), while the comment on
`updateMatchStatus` (`actions/matches/results.ts:36`) says of the manual
transition that an online match starts in its veto room. The room then never
starts (`tryStartSessionInTx` wants a scheduled match) and no map can be
started in it; `veto_live` contains the step. And `deleteMatch` refuses matches
of the bracket by `bracketNodeId`, which the managed matches of a Major do not
have: a quarterfinal, or the match for the third place, that is deleted by hand
is never created again, and the playoff cannot be finished.

## 4. What is proved

Every safety property that a passing run checks, type invariants and action
properties included, is a theorem for every value of the constants. The
assumptions are the named `ASSUME`s: `DraftAssumption` (positive
sizes, finitely many registrations, the auto-pick order is a ranking),
`DeliveryAssumption` (finitely many matches, the dispatcher is not a request),
`SchedulingAssumption` (finitely many matches, positive capacities, and
`HoldTime <= ResponseTime`, the code's 15 minutes and 24 hours, which
`SilenceIsNotCovered` needs), `ResultsAssumption` (a series of one, three or five
maps), `BettingAssumption` (finitely many accounts, which are numbers) and, for
the veto room, `VetoAssumption` and `RoomAssumption`. The central part of these is
`WellFormed`: a format that can be played on the pool it has. It is what
`FormatAssumption` evaluates for the three formats of the code, so the theorems
hold for the real ones; that no map is named like a side keeps the two kinds of
options of an incident apart.

**DraftProofs.** The properties are not inductive: that the picks are behind the
current turn says nothing of a resume that will write `draft_state` later. The
invariant `DraftInv` is `TypeOK` and two parts. `Shape` ties round, entry,
season and roster status together (a finished draft has round
`TotalRounds + 1`, no entry, frozen rosters) and holds what the properties say
about picks and rosters. `TxShape` says what an open transaction may still
believe: a start was begun while drafting, and a pause or resume only where a
`draft_state` row exists. From `DraftInv` follow `TypeCorrect`, `PlayingFrozen`, `OneTurnAtATime`,
`RostersFrozen`, `InSnakeOrder`, `DraftedOnce`, `RostersMatch`, `CapHolds`; the
snake itself is a small theory of `TurnNumber` (it is injective, and `Advance`
adds one). `Refinement` proves `Spec => ImplementsSnakeDraft`: the turn maps to
`CurrentTurn`, the drafted registration of a turn to the pick of that turn;
commits of picks map to `Draw`, skips to `Pass`, the start to `Open`, everything
else stutters.

**SchedulingProofs.** `SchedulingInv` is `TypeOK`, `HoldSound` (a hold is the
pending proposal's and expires within `HoldTime` of its creation) and
`AllocationSound`. `NotOversold` is an argument about cardinalities: what a hold
adds to a slot is what `Occupied` counted, once expired holds are gone.
`SilenceUncovered` needs the expiry in `HoldSound`: when silence may accept,
the hold is over. Also `TypeCorrect`, `HoldsFollow`, `CoverageFollows`,
`SilenceKeepsTimes`.

**DeliveryProofs.** `DeliveryInv` is `TypeOK`, `RowSound` (published never
passes generation), `StaleIsPending` and `DeliverySound` (a deliverer that has
invalidated at the current generation left nothing stale; what it read covers
every fact up to the generation it read). `Fresh` and `PublishedForward` follow.

**ResultsProofs.** `ResultsInv` is `ResultsTypeOK`, `SeriesFollowsMaps` and that
a match that has not started has no maps. The work is in counting: a result
adds a win to one side and none to the other (`WinsStep`), so a series that was
undecided before the last map is decided by it with a legal score, whatever
the order; the same lemmas carry a correction that ends a series earlier.

**BettingProofs.** `BettingKeepsResults`: a behaviour with betting is one of
`MatchResults`, whose theorems it inherits. `BettingInv` adds to `ResultsInv`
the shape of the books, `HistoryReversed` and `CleanInv`: while the program is
not dirty every market's settled outcome is the one the official rows now give.
The trigger is what makes it inductive: a write that changes an outcome is one
that marks the program. `CleanAlwaysPaid` then follows by reading `Outcome`,
`HistoryAlwaysReversed` by the arithmetic of revisions, and
`StakesAlwaysStopAtStart` by comparing `Admits` with what has begun.

`PotsAlwaysReturned` says what all this is worth in points, and needs three
things.

* *Sums.* `Pool`, `Total` and `SumRows` are sums of the library, which are
  recursions over sets. `SumUnfolds` proves the recursion from its definition
  (two ways to add up agree, `AddsUnique`, and one exists, `AddsExists`); the rest
  (`SumTakes`: any element may be taken first; `SumLinear`, `SumUnion`,
  `SumRenamed`) follow, each from the least subset on which it fails.
* *Pools.* `PoolShared`: for any stakes, the payouts of a pool with a winner add
  up to its total. Rounding the shares down leaves no more points than there
  are winners (`LeftoverType`), and exactly as many winners as points have a
  rank below that number (`BonusCount`), because the ranks of a finite strict
  order are 0, 1, 2 and so on (`Ranks`, `FirstRanks`).
* *Books.* `MoneyInv`, inductive beside `BettingInv`: the rows of the latest
  revision of a market are exactly what its outcome pays on the stakes it has
  (`MarketOK`), and for any set of accounts all rows of the market are worth
  what the rows of its latest revision are worth. A stake cannot disturb that
  since a market whose outcome is not pending is locked; a reconciliation adds
  the reversals of the old latest rows and the new ones (`RevisionAdds`). Taking
  every set of accounts gives both the pot and what each account has of it.

`BettingAlwaysTyped` is read off the same invariant.

**PlayoffProofs.** `BracketFollowsResults` is inductive with the type invariant
and two facts, `StartedFirst` and `SeedsPlay` (no match before the start;
quarterfinals are between their seeds). A match that has not ended has no
descendants, so playing, cancelling or deleting it disturbs nothing
(`PlayKeepsInv`); a correction deletes every descendant of what it corrects
(`SourcesPrecede`, `CorrectKeepsInv`). `EveryTeamAlwaysPlacedOnce` follows from
the bracket alone, match by match: whoever wins, the losers of its matches and
the winner of the final are the eight seeds.

**VetoSequenceProofs.** The theory of a set of steps, with no room around it.
`Legal` is the strengthening of `StepsFollowFormat`: the orders are 1 to the
number of steps; a step of a turn is after all steps of the turns before it, which
are complete; nobody chooses a map twice; and a side belongs to the map of its
turn. `AddSteps` (an answer of the current turn that leaves it short or just
full), `KeepBefore` (a rewind) and `StepsUpToCurrent` are what every operation
needs: legal sequences lead to legal sequences, and the current turn is the one
after them. `FairPlan` is about the finished ones: `projectVetoMapPlan` gives
each picked map and the decider one place, in an order without gaps
(`PlayOrders`), no banned map, and the side that the other entry answered.

**VetoProofs.** A reconcile works on a copy of the room, over several steps of
the model, so an invariant of the saved room alone is not inductive. `VetoInv`
says of the room and of the copy that they are in order (`RoomOK`: a legal
sequence, drawn steps and drawn roles on record, a plan exactly when complete, a clock that is not
in the future), that the copy may replace the room at any moment (`Since`), and
what each step of the transaction may rely on. `MayReplace` is the conjunction of
the action properties (`Allowed`: the revision tells two sessions apart, no turn
starts before the one it follows, nothing moves once a map is played, a start was
agreed) and of `Logged`, a step of `VetoLog`. So each is proved for a whole
transaction, whatever timeouts it found due on the way, when one step of it is
proved to keep `Since`. `Since` has `Grown` in the place of `Logged`, because the
copy may lack the plan that its last answer calls for: it says only that steps were
added and roles kept, which composes (`GrownThen`). Between two legal sequences
that is enough: what was added lies behind what was there and at turns that lacked
an answer (`NewSteps`), and with the plan in place the whole transaction is one
`Append` (`GrownIsLogged`). Two facts were missing
until the proof asked for them: a command that carries the room's present
revision was stamped after the turn on the clock began (`CommandOK`), because
whatever starts a turn raises the revision; and a request in `answered` names a
revision below the room's (`AnswersOK`), which is why a retry after a rewind
cannot find its revision current again. There is one lemma to an action, and
`NextKeeps` collects them. From it follow `StepsAreLegal`, `PlansAreFair`,
`TurnsAreTimed`, `TimeoutsRecorded`, `CommandsApplyOnce`, `VetoType` and, of the
steps, `RevisionsNameSessions`, `GameplayFreezes`, `StartsInOrder`, `StartsAgreed`
and the refinement `RoomImplementsLog`, for any format that is well formed, any number of browser tabs
and users, and without the bounds on interventions and time that TLC's two runs
need.

Induction over data appears in these proofs without the library's induction
theorems, whose operator parameters the provers cannot instantiate: a set of
counterexamples is a set like any other, so it has a least element (`LeastNat`,
`LeastSubset`, both from the well-foundedness of an explicit relation), and the
induction step is what contradicts it.

**Only model-checked**: the liveness properties `OverdueTurnEnds`,
`ReachableDelivered`, `StaleProposalEnds`, `AgreedMatchStarts` and `TurnEnds`
(fairness and ENABLED are out of the prover's reach). TLC's instances are all the
evidence for them; and the findings are counterexamples of TLC's, which need no
proof.

## 5. Plan

| Order | Module | Content | Abstract specification, properties, theorems |
|---|---|---|---|
| done | `Draft`, `SnakeDraft` | above | all safety proved |
| done | `MatchScheduling`, `ProjectionDelivery` | above | all safety proved |
| done | `VetoSequence`, `VetoRoom`, `VetoLog` | above | all safety and the refinement proved |
| done | `MatchResults`, `Betting`, `MajorPlayoff` | above | all safety proved |
| 1 | `SeasonFormation` | registrations, review, votes, confirmation, advance and revert; composed with `Draft` through `ConfirmCaptains` | nobody in a roster is rejected; entries exist only after voting |
| 2 | `MajorSwiss` | the Swiss stages before the playoff and their recovery | no match rests on a revoked round |
| 3 | `Predictions` | locking, outbox, reconciliation | eventually scored by the final result |
| 4 | `MizarFeed` | leases, sequence numbers, duplicated and reordered batches | each fact applied once and in order |
| 5 | `CompetitionEntries` | invitations, claims | one active claim per player |
| 6 | `SwissPairing` | pairing against a reference definition | no rematch when one can be avoided |

Runs stay at two or three actors and two objects. Each new module gets one
run, with its liveness property in it where the instance stays small, and the
safety and liveness runs of an older module are merged when a place is needed;
each gets a proof module for its invariant.
