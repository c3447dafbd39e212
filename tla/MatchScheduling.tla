-------------------------- MODULE MatchScheduling --------------------------
(***************************************************************************)
(* Negotiating when a match is played, and the official broadcast coverage *)
(* that may come with the time (lib/matches/scheduling.ts, coverage.ts,    *)
(* time-rules.ts, time-auto-award.ts).                                     *)
(*                                                                         *)
(* A captain proposes a time; the opponent accepts or rejects it; a first  *)
(* proposal nobody answers for ResponseTime is accepted by the cron; an    *)
(* administrator overrides everything.  A proposal may hold a place in a   *)
(* coverage slot for HoldTime.  Every one of these transactions keeps the  *)
(* season row locked from its start to its commit, so each is one action.  *)
(* What is not covered by that lock is: the cron chooses the proposals it  *)
(* will settle in a query of its own, and the completion deadline of a     *)
(* match is checked against a match row read before the transaction.       *)
(***************************************************************************)
EXTENDS Naturals, FiniteSets

CONSTANTS
    Matches,         \* the matches of one season
    Slots,           \* its official coverage slots
    Capacity,        \* matches a slot can cover
    SlotTimes,       \* the times inside a slot, startsAt .. endsAt - 1
    ResponseTime,    \* time the opponent has to answer (24 h)
    Notice,          \* notice an automatic acceptance leaves (2 h)
    HoldTime,        \* life of a coverage hold (15 min)
    Times,           \* times that are proposed or set as deadlines
    Editors,         \* administrators setting the deadline of one match
    BatchEditors,    \* administrators setting the deadlines of a round
    NoTime,          \* null, for times
    NoSlot,          \* no coverage asked for
    MaxTime          \* bound on the clock

Sides == {"a", "b"}

ASSUME SchedulingAssumption ==
    /\ IsFiniteSet(Matches)
    /\ Capacity \in [Slots -> Nat \ {0}]
    /\ SlotTimes \in [Slots -> SUBSET Nat]
    /\ ResponseTime \in Nat /\ Notice \in Nat /\ HoldTime \in Nat
    /\ HoldTime <= ResponseTime
    /\ Times \subseteq Nat
    /\ MaxTime \in Nat
    /\ NoTime \notin Nat
    /\ NoSlot \notin Slots

VARIABLES
    status,       \* matches.status, finished and cancelled both "over"
    scheduledAt,  \* matches.scheduledAt
    source,       \* resolution of the proposal that set scheduledAt
    deadline,     \* matches.completionDeadline
    pending,      \* the pending match_time_proposals row
    hold,         \* the coverage_holds row that is not released
    allocation,   \* the coverage_allocations row that is not released
    sweep,        \* proposals the cron has selected and not settled yet
    edit,         \* deadline changes that were checked and not written yet
    now

vars == <<status, scheduledAt, source, deadline, pending, hold, allocation, sweep, edit, now>>

NoProposal == [side |-> "none"]
NoHold == [slot |-> NoSlot]
NoAllocation == [slot |-> NoSlot]
NoEdit == {}

Proposals == [side : Sides, time : Nat, created : Nat]

Resolutions == {"none", "participant_accept", "auto_timeout", "admin_force"}

TypeOK ==
    /\ status \in [Matches -> {"scheduled", "in_progress", "over"}]
    /\ scheduledAt \in [Matches -> Nat \cup {NoTime}]
    /\ source \in [Matches -> Resolutions]
    /\ deadline \in [Matches -> Nat \cup {NoTime}]
    /\ pending \in [Matches -> Proposals \cup {NoProposal}]
    /\ hold \in [Matches -> [slot : Slots, time : Nat, expires : Nat] \cup {NoHold}]
    /\ allocation \in [Matches -> [slot : Slots, time : Nat] \cup {NoAllocation}]
    /\ sweep \subseteq Matches \X Proposals
    /\ edit \in [Editors \cup BatchEditors -> SUBSET (Matches \X (Nat \cup {NoTime}))]
    /\ now \in Nat

-----------------------------------------------------------------------------
(* Rules (time-rules.ts) *)

WithinDeadline(m, time) == IF deadline[m] = NoTime THEN TRUE ELSE time <= deadline[m]

(* assertProposedTimeFitsDeadline *)
FitsDeadline(m, time) == now < time /\ WithinDeadline(m, time)

(* Variant: a match that has a time already is moved as well. *)
CanAutoMove(m, p) ==
    /\ status[m] = "scheduled"
    /\ p.created + ResponseTime + Notice <= p.time
    /\ WithinDeadline(m, p.time)
    /\ now + Notice <= p.time
    /\ p.created + ResponseTime <= now

(* canAutoAcceptProposal: a first schedule, the whole response time spent, *)
(* and still Notice left to the match.                                     *)
CanAutoAccept(m, p) ==
    /\ status[m] = "scheduled"
    /\ scheduledAt[m] = NoTime
    /\ p.created + ResponseTime + Notice <= p.time
    /\ WithinDeadline(m, p.time)
    /\ now + Notice <= p.time
    /\ p.created + ResponseTime <= now

-----------------------------------------------------------------------------
(* Coverage (coverage.ts), on the state before the transaction *)

Expired(n, s) == hold[n].slot = s /\ hold[n].expires <= now

(* Variant: confirmed coverage is not counted. *)
OccupiedByHolds(m, s) ==
    Cardinality({n \in Matches \ {m} : hold[n].slot = s /\ ~Expired(n, s)})

Occupied(m, s) ==
    Cardinality({n \in Matches \ {m} : hold[n].slot = s /\ ~Expired(n, s)})
      + Cardinality({n \in Matches \ {m} : allocation[n].slot = s})

(* holdCoverageInTx: expired holds of the slot are reclaimed, the match's  *)
(* own hold is replaced and its own allocation is not counted.             *)
HoldCoverage(m, s, time) ==
    /\ time \in SlotTimes[s]
    /\ Occupied(m, s) < Capacity[s]
    /\ hold' = [n \in Matches |->
         IF n = m THEN [slot |-> s, time |-> time, expires |-> now + HoldTime]
         ELSE IF Expired(n, s) THEN NoHold ELSE hold[n]]

(* Variant: a partial reset. *)
ClearHoldSlot(m) == hold' = [hold EXCEPT ![m].slot = NoSlot]

ReleaseHold(m) == hold' = [hold EXCEPT ![m] = NoHold]

ReleaseAllocation(m) == allocation' = [allocation EXCEPT ![m] = NoAllocation]

(* Variants: without a hold the old allocation stays; an expired hold is   *)
(* converted too.                                                          *)
AllocateIfHeld(m, time) ==
    /\ allocation' = [allocation EXCEPT ![m] =
         IF hold[m] # NoHold /\ hold[m].expires > now /\ hold[m].time = time
         THEN [slot |-> hold[m].slot, time |-> time] ELSE @]
    /\ ReleaseHold(m)

AllocateExpired(m, time) ==
    /\ allocation' = [allocation EXCEPT ![m] =
         IF hold[m] # NoHold /\ hold[m].time = time
         THEN [slot |-> hold[m].slot, time |-> time] ELSE NoAllocation]
    /\ ReleaseHold(m)

(* allocateHeldCoverageInTx: the previous allocation goes in any case; an  *)
(* expired hold, or one for another time, is released for nothing.         *)
AllocateHeldCoverage(m, time) ==
    /\ allocation' = [allocation EXCEPT ![m] =
         IF hold[m] # NoHold /\ hold[m].expires > now /\ hold[m].time = time
         THEN [slot |-> hold[m].slot, time |-> time] ELSE NoAllocation]
    /\ ReleaseHold(m)

-----------------------------------------------------------------------------
(* Captains *)

ProposeTime(m, side, time, slot) ==
    /\ status[m] = "scheduled"
    /\ FitsDeadline(m, time)
    /\ IF slot = NoSlot THEN ReleaseHold(m) ELSE HoldCoverage(m, slot, time)
    /\ pending' = [pending EXCEPT ![m] = [side |-> side, time |-> time, created |-> now]]
    /\ UNCHANGED <<status, scheduledAt, source, deadline, allocation, sweep, edit, now>>

(* The match is scheduled, its proposal pending and the other side's. *)
MayRespond(m, side) ==
    /\ status[m] = "scheduled"
    /\ pending[m] # NoProposal
    /\ pending[m].side # side

(* acceptProposalInTx *)
AcceptProposal(m, resolution) ==
    /\ pending' = [pending EXCEPT ![m] = NoProposal]
    /\ scheduledAt' = [scheduledAt EXCEPT ![m] = pending[m].time]
    /\ source' = [source EXCEPT ![m] = resolution]

Accept(m, side) ==
    /\ MayRespond(m, side)
    /\ FitsDeadline(m, pending[m].time)
    /\ AllocateHeldCoverage(m, pending[m].time)
    /\ AcceptProposal(m, "participant_accept")
    /\ UNCHANGED <<status, deadline, sweep, edit, now>>

Reject(m, side) ==
    /\ MayRespond(m, side)
    /\ pending' = [pending EXCEPT ![m] = NoProposal]
    /\ ReleaseHold(m)
    /\ UNCHANGED <<status, scheduledAt, source, deadline, allocation, sweep, edit, now>>

-----------------------------------------------------------------------------
(* Administrators *)

(* setAdminSchedule; saving the time the match already has changes nothing *)
(* unless it is forced, and then it keeps the allocation.                  *)
SetAdminSchedule(m, time, intent) ==
    /\ status[m] = "scheduled"
    /\ IF time = NoTime THEN TRUE ELSE FitsDeadline(m, time)
    /\ time = scheduledAt[m] => intent = "force"
    /\ ReleaseHold(m)
    /\ IF time = scheduledAt[m] /\ time # NoTime THEN UNCHANGED allocation ELSE ReleaseAllocation(m)
    /\ pending' = [pending EXCEPT ![m] = NoProposal]
    /\ scheduledAt' = [scheduledAt EXCEPT ![m] = time]
    /\ source' = [source EXCEPT ![m] = IF time = NoTime THEN "none" ELSE "admin_force"]
    /\ UNCHANGED <<status, deadline, sweep, edit, now>>

(* updateMatchCompletionDeadline up to its transaction: the match is read  *)
(* and checked without a lock.                                             *)
CheckDeadline(e, m, time) ==
    /\ edit[e] = NoEdit
    /\ status[m] # "over"
    /\ IF time = NoTime THEN TRUE ELSE now < time
    /\ IF NoTime \in {time, scheduledAt[m]} THEN TRUE ELSE scheduledAt[m] <= time
    /\ edit' = [edit EXCEPT ![e] = {<<m, time>>}]
    /\ UNCHANGED <<status, scheduledAt, source, deadline, pending, hold, allocation, sweep, now>>

(* batchSetCompletionDeadline up to its transaction: the matches of the    *)
(* round that are not over, whatever they are scheduled at.                *)
CheckRoundDeadline(e, time) ==
    /\ edit[e] = NoEdit
    /\ now < time
    /\ edit' = [edit EXCEPT ![e] = {m \in Matches : status[m] # "over"} \X {time}]
    /\ UNCHANGED <<status, scheduledAt, source, deadline, pending, hold, allocation, sweep, now>>

(* The transaction of either. *)
WriteDeadline(e) ==
    /\ edit[e] # NoEdit
    /\ deadline' = [m \in Matches |->
         IF \E x \in edit[e] : x[1] = m
         THEN (CHOOSE x \in edit[e] : x[1] = m)[2] ELSE deadline[m]]
    /\ edit' = [edit EXCEPT ![e] = NoEdit]
    /\ UNCHANGED <<status, scheduledAt, source, pending, hold, allocation, sweep, now>>

(* The match starts, or is cancelled or finished: none of these touches    *)
(* proposals, holds or allocations.                                        *)
Leave(m) ==
    /\ status[m] # "over"
    /\ \E s \in {"in_progress", "over"} \ {status[m]} : status' = [status EXCEPT ![m] = s]
    /\ UNCHANGED <<scheduledAt, source, deadline, pending, hold, allocation, sweep, edit, now>>

-----------------------------------------------------------------------------
(* The cron (autoAcceptExpiredProposals, autoAcceptSingleProposal) *)

IsOverdue(m) ==
    IF pending[m] = NoProposal THEN FALSE ELSE pending[m].created + ResponseTime <= now

SelectOverdue ==
    /\ sweep = {}
    /\ \E m \in Matches : IsOverdue(m)
    /\ sweep' = {<<m, pending[m]>> : m \in {n \in Matches : IsOverdue(n)}}
    /\ UNCHANGED <<status, scheduledAt, source, deadline, pending, hold, allocation, edit, now>>

(* One selected proposal p of m, in a transaction of its own.              *)
Settles(m, p) ==
    /\ <<m, p>> \in sweep
    /\ sweep' = sweep \ {<<m, p>>}
    /\ UNCHANGED <<status, deadline, edit, now>>

(* Variant: only a match that has left ends its proposals. *)
MootOnceLeft(m, p) == status[m] # "scheduled"

(* The match is not waiting for a time any more, or not for this one. *)
Moot(m, p) == status[m] # "scheduled" \/ ~FitsDeadline(m, p.time)

(* Variant: the hold outlives the proposal. *)
SettleExpiredOnly(m, p) ==
    /\ Settles(m, p)
    /\ pending[m] = p
    /\ Moot(m, p)
    /\ pending' = [pending EXCEPT ![m] = NoProposal]
    /\ UNCHANGED <<hold, allocation, scheduledAt, source>>

SettleExpired(m, p) ==
    /\ Settles(m, p)
    /\ pending[m] = p
    /\ Moot(m, p)
    /\ pending' = [pending EXCEPT ![m] = NoProposal]
    /\ ReleaseHold(m)
    /\ UNCHANGED <<allocation, scheduledAt, source>>

SettleAccepted(m, p) ==
    /\ Settles(m, p)
    /\ pending[m] = p
    /\ ~Moot(m, p)
    /\ CanAutoAccept(m, p)
    /\ AllocateHeldCoverage(m, p.time)
    /\ AcceptProposal(m, "auto_timeout")

(* Answered or replaced since it was selected, or it needs consent. *)
SettleSkipped(m, p) ==
    /\ Settles(m, p)
    /\ pending[m] # p \/ (~Moot(m, p) /\ ~CanAutoAccept(m, p))
    /\ UNCHANGED <<pending, hold, allocation, scheduledAt, source>>

Settle(m, p) == SettleExpired(m, p) \/ SettleAccepted(m, p) \/ SettleSkipped(m, p)

Tick ==
    /\ now < MaxTime
    /\ now' = now + 1
    /\ UNCHANGED <<status, scheduledAt, source, deadline, pending, hold, allocation, sweep, edit>>

-----------------------------------------------------------------------------

Init ==
    /\ status = [m \in Matches |-> "scheduled"]
    /\ scheduledAt = [m \in Matches |-> NoTime]
    /\ source = [m \in Matches |-> "none"]
    /\ deadline = [m \in Matches |-> NoTime]
    /\ pending = [m \in Matches |-> NoProposal]
    /\ hold = [m \in Matches |-> NoHold]
    /\ allocation = [m \in Matches |-> NoAllocation]
    /\ sweep = {}
    /\ edit = [e \in Editors \cup BatchEditors |-> NoEdit]
    /\ now = 0

Next ==
    \/ \E m \in Matches, side \in Sides :
         \/ \E time \in Times, slot \in Slots \cup {NoSlot} : ProposeTime(m, side, time, slot)
         \/ Accept(m, side)
         \/ Reject(m, side)
    \/ \E m \in Matches, time \in Times \cup {NoTime}, intent \in {"save", "force"} :
         SetAdminSchedule(m, time, intent)
    \/ \E e \in Editors, m \in Matches, time \in Times \cup {NoTime} : CheckDeadline(e, m, time)
    \/ \E e \in BatchEditors, time \in Times : CheckRoundDeadline(e, time)
    \/ \E e \in Editors \cup BatchEditors : WriteDeadline(e)
    \/ \E m \in Matches : Leave(m)
    \/ SelectOverdue
    \/ \E x \in sweep : Settle(x[1], x[2])
    \/ Tick

Spec == Init /\ [][Next]_vars

(* The cron is due whenever a proposal is ResponseTime old, and time goes  *)
(* on; nobody else has to act.                                             *)
FairSpec ==
    /\ Spec
    /\ WF_vars(SelectOverdue)
    /\ WF_vars(\E x \in sweep : Settle(x[1], x[2]))
    /\ WF_vars(Tick)

-----------------------------------------------------------------------------
(* Properties *)

(* Confirmed coverage and holds together never promise more matches than   *)
(* a slot can cover, though expired holds stay until another match asks    *)
(* for the slot and a match may hold again where it is already covered.    *)
SlotNotOversold ==
    \A s \in Slots :
      Cardinality({m \in Matches : hold[m].slot = s \/ allocation[m].slot = s}) <= Capacity[s]

(* Coverage that is confirmed is for the time the match is scheduled at,   *)
(* inside its slot: whatever moves the match gives up coverage of the old  *)
(* time in the same transaction.                                           *)
CoverageFollowsSchedule ==
    \A m \in Matches : allocation[m] # NoAllocation =>
      allocation[m].time = scheduledAt[m] /\ scheduledAt[m] \in SlotTimes[allocation[m].slot]

(* A hold belongs to the proposal that is pending: replacing, answering,   *)
(* overriding or expiring a proposal leaves no hold behind.                *)
HoldFollowsProposal ==
    \A m \in Matches : hold[m] # NoHold =>
      pending[m] # NoProposal /\ hold[m].time = pending[m].time

(* A time accepted by silence is never covered: the hold was given for     *)
(* HoldTime, which is over when the response time is.                      *)
SilenceIsNotCovered ==
    \A m \in Matches : source[m] = "auto_timeout" => allocation[m] = NoAllocation

(* The cron never moves a match that has a time: silence may give a match  *)
(* its first time, to a proposal that was open for the whole response time *)
(* and with the notice still left, even if the proposal it selected was    *)
(* replaced or the match scheduled before it got the lock.                 *)
SilenceNeverReschedules ==
    [][\A m \in Matches :
         (source'[m] = "auto_timeout" /\ (source[m] # "auto_timeout" \/ scheduledAt'[m] # scheduledAt[m]))
           => /\ scheduledAt[m] = NoTime
              /\ pending[m].created + ResponseTime <= now
              /\ now + Notice <= scheduledAt'[m]]_vars

(* No proposal stays open once its own time is past and the response time  *)
(* too, even after the match has started or been cancelled; with           *)
(* HoldFollowsProposal, neither does its hold.  This is about live seasons:*)
(* lockMatchInTx throws once a season is archived, for the cron as well.   *)
StaleProposalEnds ==
    \A m \in Matches, p \in [side : Sides, time : Times, created : 0..MaxTime] :
      (pending[m] = p /\ p.time <= now /\ p.created + ResponseTime <= now) ~> pending[m] # p

(* The check of updateMatchCompletionDeadline as a statement about the     *)
(* match: its deadline is not earlier than the time it is scheduled at.    *)
ScheduledBeforeDeadline ==
    \A m \in Matches :
      status[m] = "scheduled" /\ scheduledAt[m] # NoTime => WithinDeadline(m, scheduledAt[m])
=============================================================================
