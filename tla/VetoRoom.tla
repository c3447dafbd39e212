------------------------------ MODULE VetoRoom ------------------------------
(***************************************************************************)
(* The veto room of one match: the two entries ask to start, the room      *)
(* starts the match, the turns of the format are answered by the entries'  *)
(* representatives or, when a deadline has passed, by the system, and the  *)
(* finished sequence becomes the match's map plan.  Season administrators  *)
(* pause, resume and rewind the room and resolve appeals against timeouts. *)
(*                                                                         *)
(* Every operation runs in a transaction that holds the season and match   *)
(* row locks, so two of them never interleave.  What does interleave:      *)
(*   - a client sends the revision and turn it saw earlier;                *)
(*   - the server stamps a command with the database clock before it       *)
(*     waits for the lock, and the lock may come much later;               *)
(*   - a client whose answer was lost sends the same command again.        *)
(* A transaction that reconciles the room works on a copy (work.room), one *)
(* step per pass of the loop; nothing of it is visible before it commits,  *)
(* and an error drops it.  The clock stands still while it runs: it has    *)
(* read its instants by then.                                              *)
(***************************************************************************)
EXTENDS VetoSequence

CONSTANTS
    Users,             \* the starters of both entries
    EntryOf,           \* the entry a user plays for
    Captain,           \* representativeUserId of an entry
    DefaultRep,        \* isVetoRepresentative in a default lineup
    NoUser,
    Tabs,              \* clients that carry commands
    UserOf,            \* the user behind a client
    InitialLineup,     \* "none", or "ok" when both were submitted earlier
    InitialPrivileged, \* the higher seed, or NoEntry for a manual match
    ScheduledAt,       \* matches.scheduledAt, or NoTime
    OpenWindow,        \* the room opens this long before scheduledAt
    ForceGrace,        \* and may be forced this long after it
    Settlement,        \* TIMEOUT_SETTLEMENT_MS
    Operations,        \* bound: the optional operations a run explores
    MaxTime,           \* bound on the clock
    MaxInterventions   \* bound on the optional operations of one run

NoTime == -1
NoRequest == <<>>
AllOperations == {"privilege", "representative", "lineup", "eligibility", "pause",
                  "rewind", "appeal", "play", "end", "telemetry", "other"}

ASSUME RoomAssumption ==
    /\ EntryOf \in [Users -> Entries]
    /\ \A e \in Entries : Captain[e] \in Users /\ EntryOf[Captain[e]] = e
    /\ \A e \in Entries : DefaultRep[e] \in {u \in Users : EntryOf[u] = e} \cup {NoUser}
    /\ NoUser \notin Users
    /\ UserOf \in [Tabs -> Users]
    /\ InitialLineup \in {"none", "ok"}
    /\ InitialPrivileged \in Entries \cup {NoEntry}
    /\ ScheduledAt \in Nat \cup {NoTime}
    /\ OpenWindow \in Nat
    /\ ForceGrace \in Nat
    /\ Settlement \in Nat
    /\ Operations \subseteq AllOperations
    /\ MaxTime \in Nat
    /\ MaxInterventions \in Nat

VARIABLES
    room,      \* the match, its lineups, session, steps, incidents and plan
    work,      \* the transaction that holds the locks, or Idle
    inbox,     \* the command each client sends, and when it was received
    answered,  \* history: the commands that took effect, and the revision
    other,     \* the entries' other match: running, and when one last ended
    now,       \* clock_timestamp()
    acts       \* bound: the optional operations so far

vars == <<room, work, inbox, answered, other, now, acts>>

-----------------------------------------------------------------------------
(* State *)

Times == Nat \cup {NoTime}
TurnKeys == 0..Len(Format) \cup {NoTurn}
Requests == Tabs \X Nat

(* match_veto_steps.  The action type is that of the turn.                 *)
Steps == [order : Nat, turn : Turns, map : Maps, entry : Entries \cup {NoEntry},
          side : Sides \cup {NoSide}, source : {"participant", "timeout", "system"},
          req : Requests \cup {NoRequest}]

(* match_veto_timeout_incidents, each with the state of its last appeal.   *)
Incidents == [turn : 0..Len(Format), entry : Entries, deadline : Nat,
              chosen : SUBSET (Entries \cup Maps \cup Sides),
              appeal : {"none", "pending", "accepted", "rejected"}]

(* match_maps before they are scored.                                      *)
Plans == [order : Nat, map : Maps, pickedBy : Entries \cup {NoEntry}, sideA : Sides \cup {NoSide}]

(* matches, match_rosters and match_veto_sessions.  "ended" stands for     *)
(* finished and cancelled; lineup is "stale" once a starter has lost       *)
(* eligibility; played are the orders of the maps that were started or     *)
(* scored.  roleAnswered is history: an answer, not the clock, chose VETO A.*)
Rooms == [status : {"scheduled", "in_progress", "ended"},
          lineup : [Entries -> {"none", "ok", "stale"}],
          rep : [Entries -> Users \cup {NoUser}],
          request : [Entries -> Users \cup {NoUser}],
          privileged : Entries \cup {NoEntry},
          vetoA : Entries \cup {NoEntry}, roleAnswered : BOOLEAN,
          started : BOOLEAN, completed : BOOLEAN,
          key : TurnKeys, start : Times, deadline : Times, paused : Times,
          revision : Nat,
          steps : SUBSET Steps, incidents : SUBSET Incidents,
          plan : SUBSET Plans, played : SUBSET Nat]

NoCommand == [kind |-> "none", revision |-> 0, key |-> NoTurn, at |-> NoTime]
Commands == [kind : {"none", "start", "answer"}, revision : Nat, key : TurnKeys, at : Times]

Idle == [step |-> "idle"]
Works == [step : {"start", "turns", "command"}, then : {"command", "commit"},
          by : Tabs \cup {NoUser}, cmd : Commands, at : Nat, room : Rooms, applied : BOOLEAN]

RequestId(tab, cmd) == <<tab, cmd.revision>>

(* A reconcile at instant at, on behalf of nobody, or of a client whose    *)
(* command is due once the room is up to date.                             *)
Reconcile(r, at) ==
    [step |-> "start", then |-> "commit", by |-> NoUser, cmd |-> NoCommand,
     at |-> at, room |-> r, applied |-> FALSE]
ReconcileFor(tab, r, at) ==
    [Reconcile(r, at) EXCEPT !.then = "command", !.by = tab, !.cmd = inbox[tab]]

(* currentTurn of a session *)
Current(r) ==
    IF ~r.started \/ r.completed THEN NoTurn
    ELSE CurrentTurn(r.privileged, r.vetoA, r.steps)
Actor(r, t) == ActorEntry(r.privileged, r.vetoA, t)

(* updateSessionInTx with the fields of a turn that is on the clock, or of *)
(* one that is not.                                                        *)
OnTheClock(r, t, start) ==
    [r EXCEPT !.key = t, !.start = start, !.deadline = start + Duration(t), !.revision = @ + 1]
OffTheClock(r, t) ==
    [r EXCEPT !.key = t, !.start = NoTime, !.deadline = NoTime, !.revision = @ + 1]

(* materializeDefaultLineupsInTx.  The clock starts inside the two hours   *)
(* before scheduledAt in which default lineups are due.  It throws for an  *)
(* entry that lacks five primary starters, which undoes the visit, the job *)
(* or the intervention it began, or drops the command (DropUnderStrength). *)
Materialized(r, force) ==
    IF r.status = "scheduled" /\ (force \/ ScheduledAt # NoTime)
    THEN [r EXCEPT !.lineup = [e \in Entries |-> IF @[e] = "none" THEN "ok" ELSE @[e]],
                   !.rep = [e \in Entries |-> IF r.lineup[e] = "none" THEN DefaultRep[e] ELSE @[e]]]
    ELSE r

-----------------------------------------------------------------------------
(* Starting: tryStartSessionInTx *)

Blocked == ScheduledAt # NoTime /\ other.busy
ForceAt ==
    IF ScheduledAt = NoTime \/ Blocked THEN NoTime
    ELSE ForceGrace + IF other.endedAt >= ScheduledAt - OpenWindow
                      THEN Max({ScheduledAt, other.endedAt}) ELSE ScheduledAt
MayForce(at) == ForceAt # NoTime /\ at >= ForceAt

(* Variant: a request stands although the representative has changed. *)
AnyRepAsked(r, e) == r.request[e] # NoUser

RepAsked(r, e) == r.request[e] # NoUser /\ r.request[e] = r.rep[e]
CaptainAsked(r, e) == r.request[e] # NoUser /\ r.request[e] = Captain[e]
BothRepsAsked(r) == \A e \in Entries : RepAsked(r, e)

MayStart(r, at) ==
    /\ ~r.started
    /\ r.status = "scheduled"
    /\ r.privileged # NoEntry
    /\ ~Blocked
    /\ ScheduledAt # NoTime => at >= ScheduledAt - OpenWindow
    /\ \/ BothRepsAsked(r)
       \/ MayForce(at) /\ \E e \in Entries : RepAsked(r, e) \/ CaptainAsked(r, e)
    /\ \A e \in Entries : r.lineup[e] # "none"

(* freezeEffectiveLineupsForStartInTx refuses a lineup with a starter who  *)
(* is no longer eligible, and with it everything the transaction did.      *)
StartRefused ==
    /\ work.step = "start"
    /\ MayStart(work.room, work.at)
    /\ \E e \in Entries : work.room.lineup[e] = "stale"
    /\ work' = Idle
    /\ UNCHANGED <<room, inbox, answered, other, now, acts>>

StartSession ==
    /\ work.step = "start"
    /\ MayStart(work.room, work.at)
    /\ \A e \in Entries : work.room.lineup[e] = "ok"
    /\ work' = [work EXCEPT !.step = "turns",
                            !.room = OnTheClock([@ EXCEPT !.status = "in_progress", !.started = TRUE],
                                                0, work.at)]
    /\ UNCHANGED <<room, inbox, answered, other, now, acts>>

SkipStart ==
    /\ work.step = "start"
    /\ ~MayStart(work.room, work.at)
    /\ work' = [work EXCEPT !.step = "turns"]
    /\ UNCHANGED <<room, inbox, answered, other, now, acts>>

-----------------------------------------------------------------------------
(* The loop of reconcileVetoSessionInTx *)

Commit(r) ==
    /\ room' = r
    /\ work' = Idle
    /\ answered' = IF work.applied
                   THEN answered \cup {[req |-> RequestId(work.by, work.cmd), revision |-> r.revision]}
                   ELSE answered

(* The reconcile returns to the operation that called it.                  *)
Return(r) ==
    \/ work.then = "commit" /\ Commit(r)
    \/ /\ work.then = "command"
       /\ work' = [work EXCEPT !.step = "command", !.room = r]
       /\ UNCHANGED <<room, answered>>

InPlay(r) ==
    /\ r.started
    /\ ~r.completed
    /\ r.paused = NoTime
    /\ r.status # "ended"

Looping == work.step = "turns" /\ InPlay(work.room)

OutOfPlay ==
    /\ work.step = "turns"
    /\ ~InPlay(work.room)
    /\ Return(work.room)
    /\ UNCHANGED <<inbox, other, now, acts>>

(* completeMapPlanInTx *)
Planned(r) == [OffTheClock(r, NoTurn) EXCEPT !.plan = MapPlan(r.steps), !.completed = TRUE]

CompletePlan ==
    /\ Looping
    /\ Current(work.room) = NoTurn
    /\ Return(Planned(work.room))
    /\ UNCHANGED <<inbox, other, now, acts>>

(* Variant: the next turn waits for a reconcile to be timed. *)
AdvancedUntimed(r, start) ==
    LET next == Current(r)
    IN  IF next = NoTurn THEN Planned(r) ELSE OffTheClock(r, next)

(* advanceAfterLogicalTurnInTx *)
Advanced(r, start) ==
    LET next == Current(r)
    IN  IF next = NoTurn THEN Planned(r)
        ELSE IF IsSystem(next) THEN OffTheClock(r, next)
        ELSE OnTheClock(r, next, start)

Step(r, t, i, map, side, source, req) ==
    [order |-> NextOrder(r.steps) + i - 1, turn |-> t, map |-> map,
     entry |-> Actor(r, t), side |-> side, source |-> source, req |-> req]

(* appendSystemDeciderInTx.  WellFormed leaves it one map; the next turn   *)
(* has its full time from now.                                             *)
AppendDecider ==
    LET r == work.room
        t == Current(r)
    IN  /\ Looping
        /\ t # NoTurn
        /\ IsSystem(t)
        /\ \E map \in EligibleMaps(r.steps) :
              LET chosen == [r EXCEPT !.steps = @ \cup {Step(r, t, 1, map, NoSide, "system", NoRequest)}]
              IN  work' = [work EXCEPT !.room = Advanced(OffTheClock(chosen, t), work.at)]
        /\ UNCHANGED <<room, inbox, answered, other, now, acts>>

Due(r, t, at) ==
    /\ r.deadline # NoTime
    /\ r.key = t
    /\ at >= r.deadline + Settlement

NotDue ==
    LET r == work.room
        t == Current(r)
    IN  /\ Looping
        /\ t # NoTurn
        /\ ~IsSystem(t)
        /\ ~Due(r, t, work.at)
        /\ Return(IF r.key = t THEN r ELSE [r EXCEPT !.key = t, !.revision = @ + 1])
        /\ UNCHANGED <<inbox, other, now, acts>>

(* Variant: the incident is always the privileged entry's. *)
IncidentOfPrivileged(r, t, chosen) ==
    [turn |-> t, entry |-> r.privileged, deadline |-> r.deadline, chosen |-> chosen, appeal |-> "none"]

Incident(r, t, chosen) ==
    [turn |-> t, entry |-> Actor(r, t), deadline |-> r.deadline, chosen |-> chosen, appeal |-> "none"]

(* Variant: a drawn role leaves no incident. *)
TimeOutRoleUnrecorded ==
    LET r == work.room
    IN  /\ Looping
        /\ Current(r) = 0
        /\ Due(r, 0, work.at)
        /\ \E e \in Entries :
              work' = [work EXCEPT !.room = OnTheClock([r EXCEPT !.vetoA = e], 1, r.deadline)]
        /\ UNCHANGED <<room, inbox, answered, other, now, acts>>

(* The role is the privileged entry's to choose; out of time, it is drawn. *)
TimeOutRole ==
    LET r == work.room
    IN  /\ Looping
        /\ Current(r) = 0
        /\ Due(r, 0, work.at)
        /\ \E e \in Entries :
              work' = [work EXCEPT !.room =
                         OnTheClock([r EXCEPT !.vetoA = e, !.incidents = @ \cup {Incident(r, 0, {e})}],
                                    1, r.deadline)]
        /\ UNCHANGED <<room, inbox, answered, other, now, acts>>

(* chooseVetoOptions draws as many maps as the turn still lacks, or a side.*)
Draws(r, t) ==
    LET missing == Format[t].count - Cardinality(StepsAt(r.steps, t))
    IN  IF Format[t].action = "side_pick" THEN {<<side>> : side \in Sides}
        ELSE {d \in [1..missing -> EligibleMaps(r.steps)] :
                 \A i, j \in 1..missing : d[i] = d[j] => i = j}

TimeOutTurn ==
    LET r == work.room
        t == Current(r)
    IN  /\ Looping
        /\ t > 0
        /\ ~IsSystem(t)
        /\ Due(r, t, work.at)
        /\ \E draw \in Draws(r, t) :
              LET drawn == {Step(r, t, i,
                                 IF draw[i] \in Sides THEN MapToSide(r.steps, t) ELSE draw[i],
                                 IF draw[i] \in Sides THEN draw[i] ELSE NoSide,
                                 "timeout", NoRequest) : i \in DOMAIN draw}
                  noted == [r EXCEPT !.steps = @ \cup drawn,
                                     !.incidents = @ \cup {Incident(r, t, {draw[i] : i \in DOMAIN draw})}]
              IN  work' = [work EXCEPT !.room = Advanced(OffTheClock(noted, t), r.deadline)]
        /\ UNCHANGED <<room, inbox, answered, other, now, acts>>

ReconcileStep ==
    \/ StartRefused \/ StartSession \/ SkipStart
    \/ OutOfPlay \/ CompletePlan \/ AppendDecider \/ NotDue \/ TimeOutRole \/ TimeOutTurn

-----------------------------------------------------------------------------
(* Reconciling: a visit to the room, or the match-veto job *)

(* The closing of open appeals that comes first does nothing: its contract *)
(* is not published (lifecycle-contract.json).                             *)
VisitRoom ==
    /\ work = Idle
    /\ work' = Reconcile(Materialized(room, FALSE), now)
    /\ UNCHANGED <<room, inbox, answered, other, now, acts>>

(* Variants: rooms in play are left out; both entries must have asked. *)
JobDueBeforeStart ==
    /\ room.status = "scheduled"
    /\ ~room.started
    /\ \E e \in Entries : room.request[e] # NoUser
    /\ ScheduledAt # NoTime => now >= ScheduledAt - OpenWindow

JobDueWhenBothAsked ==
    \/ /\ room.status = "in_progress"
       /\ InPlay(room)
       /\ room.deadline # NoTime
       /\ now > room.deadline + Settlement
    \/ /\ room.status = "scheduled"
       /\ ~room.started
       /\ \A e \in Entries : room.request[e] # NoUser
       /\ ScheduledAt # NoTime => now >= ScheduledAt - OpenWindow

(* The rooms runMatchVetoTimeoutJob selects.                               *)
JobDue ==
    \/ /\ room.status = "in_progress"
       /\ InPlay(room)
       /\ room.deadline # NoTime
       /\ now > room.deadline + Settlement
    \/ /\ room.status = "scheduled"
       /\ ~room.started
       /\ \E e \in Entries : room.request[e] # NoUser
       /\ ScheduledAt # NoTime => now >= ScheduledAt - OpenWindow

RunTimeoutJob == JobDue /\ VisitRoom

-----------------------------------------------------------------------------
(* Commands *)

(* A client acts on the room it sees: it asks for the start, or answers    *)
(* the turn that is shown.                                                 *)
Send(tab) ==
    /\ work = Idle
    /\ inbox[tab].at = NoTime
    /\ room.started => room.key # NoTurn
    /\ inbox' = [inbox EXCEPT ![tab] =
                   [kind |-> IF room.started THEN "answer" ELSE "start",
                    revision |-> room.revision, key |-> room.key, at |-> NoTime]]
    /\ inbox' # inbox
    /\ UNCHANGED <<room, work, answered, other, now, acts>>

(* The command, or a repetition of it, reaches the server, which takes     *)
(* receivedAt and asks for the locks.                                      *)
Receive(tab) ==
    /\ work = Idle
    /\ inbox[tab].kind # "none"
    /\ inbox[tab].at = NoTime
    /\ inbox' = [inbox EXCEPT ![tab].at = now]
    /\ UNCHANGED <<room, work, answered, other, now, acts>>

(* A step that carries the clientRequestId is in the room already.         *)
RepeatAnswer(tab) ==
    /\ work = Idle
    /\ inbox[tab].kind = "answer"
    /\ inbox[tab].at # NoTime
    /\ \E s \in room.steps : s.req = RequestId(tab, inbox[tab])
    /\ inbox' = [inbox EXCEPT ![tab].at = NoTime]
    /\ UNCHANGED <<room, work, answered, other, now, acts>>

BeginAnswer(tab) ==
    /\ work = Idle
    /\ inbox[tab].kind = "answer"
    /\ inbox[tab].at # NoTime
    /\ \A s \in room.steps : s.req # RequestId(tab, inbox[tab])
    /\ work' = ReconcileFor(tab, Materialized(room, FALSE), inbox[tab].at)
    /\ inbox' = [inbox EXCEPT ![tab].at = NoTime]
    /\ UNCHANGED <<room, answered, other, now, acts>>

(* A start request reconciles at the instant it got the locks.             *)
BeginStartRequest(tab) ==
    /\ work = Idle
    /\ inbox[tab].kind = "start"
    /\ inbox[tab].at # NoTime
    /\ work' = ReconcileFor(tab, Materialized(room, ScheduledAt = NoTime), now)
    /\ inbox' = [inbox EXCEPT ![tab].at = NoTime]
    /\ UNCHANGED <<room, answered, other, now, acts>>

(* materializeDefaultLineupsInTx throws, and the command is gone.          *)
DropUnderStrength(tab) ==
    /\ work = Idle
    /\ inbox[tab].kind = "start"
    /\ inbox[tab].at # NoTime
    /\ room.status = "scheduled"
    /\ \E e \in Entries : room.lineup[e] = "none"
    /\ inbox' = [inbox EXCEPT ![tab].at = NoTime]
    /\ UNCHANGED <<room, work, answered, other, now, acts>>

Commanded(kind) == work.step = "command" /\ work.cmd.kind = kind
(* Variants: the turn alone is compared. *)
FreshKey(r, cmd) == r.key = cmd.key
FreshTurnOnly(r, cmd) == r.key = cmd.key /\ Current(r) = cmd.key

Fresh(r, cmd) == r.revision = cmd.revision /\ r.key = cmd.key
FreshTurn(r, cmd) == Fresh(r, cmd) /\ Current(r) = cmd.key

(* An error drops the transaction, its reconcile included.                 *)
Throw ==
    /\ work' = Idle
    /\ UNCHANGED <<room, inbox, answered, other, now, acts>>

(* The command has no effect of its own; what the reconcile did stays.     *)
Ignore ==
    /\ Commit(work.room)
    /\ UNCHANGED <<inbox, other, now, acts>>

(* The command has its effect, and the room is reconciled again.           *)
Apply(r) ==
    /\ work' = [work EXCEPT !.step = "start", !.then = "commit", !.applied = TRUE, !.room = r]
    /\ UNCHANGED <<room, inbox, answered, other, now, acts>>

(* requestVetoStartReceipt *)
OpenFor(r, cmd, user) ==
    LET e == EntryOf[user]
    IN  /\ r.status = "scheduled"
        /\ r.privileged # NoEntry
        /\ \A f \in Entries : r.lineup[f] # "none"
        /\ \/ r.rep[e] = user
           \/ MayForce(cmd.at) /\ Captain[e] = user
        /\ ScheduledAt # NoTime => cmd.at >= ScheduledAt - OpenWindow

IgnoreStartRequest ==
    LET r == work.room
        user == UserOf[work.by]
    IN  /\ Commanded("start")
        /\ \/ r.started
           \/ ~Fresh(r, work.cmd)
           \/ OpenFor(r, work.cmd, user) /\ r.request[EntryOf[user]] = user
        /\ Ignore

RefuseStartRequest ==
    /\ Commanded("start")
    /\ ~work.room.started
    /\ Fresh(work.room, work.cmd)
    /\ ~OpenFor(work.room, work.cmd, UserOf[work.by])
    /\ Throw

RecordStartRequest ==
    LET r == work.room
        user == UserOf[work.by]
    IN  /\ Commanded("start")
        /\ ~r.started
        /\ Fresh(r, work.cmd)
        /\ OpenFor(r, work.cmd, user)
        /\ r.request[EntryOf[user]] # user
        /\ Apply([r EXCEPT !.request[EntryOf[user]] = user, !.revision = @ + 1])

(* submitVetoCommandReceipt *)
MayAnswer(r, cmd, user) ==
    /\ InPlay(r)
    /\ r.status = "in_progress"
    /\ Actor(r, cmd.key) # NoEntry
    /\ r.rep[Actor(r, cmd.key)] = user
InTime(r, cmd) == r.deadline # NoTime /\ cmd.at <= r.deadline

IgnoreAnswer ==
    LET r == work.room
    IN  /\ Commanded("answer")
        /\ \/ ~FreshTurn(r, work.cmd)
           \/ MayAnswer(r, work.cmd, UserOf[work.by]) /\ ~InTime(r, work.cmd)
        /\ Ignore

(* Not open, not the representative, or a payload the turn does not take.  *)
RefuseAnswer ==
    /\ Commanded("answer")
    /\ FreshTurn(work.room, work.cmd)
    /\ Throw

Accepts(r) ==
    /\ FreshTurn(r, work.cmd)
    /\ MayAnswer(r, work.cmd, UserOf[work.by])
    /\ InTime(r, work.cmd)

ChooseRole ==
    LET r == work.room
    IN  /\ Commanded("answer")
        /\ Accepts(r)
        /\ work.cmd.key = 0
        /\ \E e \in Entries :
              Apply(OnTheClock([r EXCEPT !.vetoA = e, !.roleAnswered = TRUE], 1, work.cmd.at))

(* The turn goes on while it lacks maps; its successor starts the moment   *)
(* the answer was received.                                                *)
Follow(r, t, at) ==
    LET next == Current(r)
    IN  IF next = t THEN [r EXCEPT !.revision = @ + 1]
        ELSE IF next = NoTurn \/ IsSystem(next) THEN OffTheClock(r, next)
        ELSE OnTheClock(r, next, at)

AnswersTo(r, t) ==
    IF Format[t].action = "side_pick" THEN {MapToSide(r.steps, t)} \X Sides
    ELSE EligibleMaps(r.steps) \X {NoSide}

AnswerTurn ==
    LET r == work.room
        t == work.cmd.key
    IN  /\ Commanded("answer")
        /\ Accepts(r)
        /\ t > 0
        /\ \E choice \in AnswersTo(r, t) :
              LET step == Step(r, t, 1, choice[1], choice[2], "participant",
                               RequestId(work.by, work.cmd))
              IN  Apply(Follow([r EXCEPT !.steps = @ \cup {step}], t, work.cmd.at))

CommandStep ==
    \/ IgnoreStartRequest \/ RefuseStartRequest \/ RecordStartRequest
    \/ IgnoreAnswer \/ RefuseAnswer \/ ChooseRole \/ AnswerTurn

-----------------------------------------------------------------------------
(* Administrators and captains *)

(* A short transaction that writes the room directly.                      *)
Write(r) ==
    /\ work = Idle
    /\ room' = r
    /\ UNCHANGED <<work, inbox, answered, other, now>>

May(operation) ==
    /\ operation \in Operations
    /\ acts < MaxInterventions
    /\ acts' = acts + 1

SetPrivileged(e) ==
    /\ May("privilege")
    /\ InitialPrivileged = NoEntry
    /\ room.status = "scheduled"
    /\ ~room.started
    /\ room.privileged # e
    /\ Write([Materialized(room, FALSE) EXCEPT !.privileged = e, !.revision = @ + 1])

(* changeRepresentativeInTx also withdraws the entry's start request.      *)
SetRepresentative(u) ==
    LET e == EntryOf[u]
        r == Materialized(room, FALSE)
    IN  /\ May("representative")
        /\ room.status # "ended"
        /\ ~room.started => room.status = "scheduled"
        /\ r.lineup[e] # "none"
        /\ r.rep[e] # u
        /\ Write([r EXCEPT !.rep[e] = u, !.request[e] = NoUser, !.revision = @ + 1])

(* persistMatchRosterInTx: a new lineup names its representative without   *)
(* touching the session.                                                   *)
SubmitLineup(e, u) ==
    /\ May("lineup")
    /\ room.status = "scheduled"
    /\ u # NoUser => EntryOf[u] = e
    /\ Write([room EXCEPT !.lineup[e] = "ok", !.rep[e] = u])

LoseEligibility(e) ==
    /\ May("eligibility")
    /\ room.lineup[e] = "ok"
    /\ Write([room EXCEPT !.lineup[e] = "stale"])

Pause ==
    /\ May("pause")
    /\ InPlay(room)
    /\ room.status = "in_progress"
    /\ room.played = {}
    /\ Write([room EXCEPT !.paused = now, !.revision = @ + 1])

(* Variants: the pause is taken off; a rewound turn gets no clock; the     *)
(* revision stays.                                                         *)
ResumedEarlier(r) ==
    [r EXCEPT !.paused = NoTime,
              !.start = IF @ = NoTime THEN NoTime ELSE @ - (now - r.paused),
              !.deadline = IF @ = NoTime THEN NoTime ELSE @ - (now - r.paused),
              !.revision = @ + 1]

ResumedSame(r) ==
    [r EXCEPT !.paused = NoTime,
              !.start = IF @ = NoTime THEN NoTime ELSE @ + (now - r.paused),
              !.deadline = IF @ = NoTime THEN NoTime ELSE @ + (now - r.paused),
              !.revision = @ + 1]

ResumedQuietly(r) == [ResumedSame(r) EXCEPT !.revision = r.revision]

(* The pause is given back, except to a turn that was rewound: it starts   *)
(* anew.                                                                   *)
Resumed(r) ==
    LET t == Current(r)
        anew == r.deadline = NoTime /\ t # NoTurn /\ Actor(r, t) # NoEntry
        lost == now - r.paused
    IN  [r EXCEPT !.paused = NoTime,
                  !.start = IF anew THEN now ELSE IF @ = NoTime THEN NoTime ELSE @ + lost,
                  !.deadline = IF anew THEN now + Duration(t)
                               ELSE IF @ = NoTime THEN NoTime ELSE @ + lost,
                  !.revision = @ + 1]

Resume ==
    /\ work = Idle
    /\ room.paused # NoTime
    /\ room.started
    /\ ~room.completed
    /\ room.status = "in_progress"
    /\ work' = Reconcile(Resumed(room), now)
    /\ UNCHANGED <<room, inbox, answered, other, now, acts>>

(* Variants: a started map is no obstacle; only the target's steps go;     *)
(* the map plan stays.                                                     *)
CanRewindAnytime(r) == r.started /\ r.status = "in_progress"
RewoundTurnOnly(r, t) ==
    [OffTheClock(r, t) EXCEPT !.steps = {s \in @ : s.turn # t},
                              !.plan = {},
                              !.vetoA = IF t = 0 THEN NoEntry ELSE @,
                              !.roleAnswered = @ /\ t # 0,
                              !.completed = FALSE,
                              !.paused = now]

RewoundWithPlan(r, t) ==
    [OffTheClock(r, t) EXCEPT !.steps = {s \in @ : s.turn < t},
                              !.vetoA = IF t = 0 THEN NoEntry ELSE @,
                              !.roleAnswered = @ /\ t # 0,
                              !.completed = FALSE,
                              !.paused = now]

(* rewindVetoInTx, to any turn of the format, refused once a map has begun.*)
CanRewind(r) == r.started /\ r.status = "in_progress" /\ r.played = {}
Rewound(r, t) ==
    [OffTheClock(r, t) EXCEPT !.steps = {s \in @ : s.turn < t},
                              !.plan = {},
                              !.vetoA = IF t = 0 THEN NoEntry ELSE @,
                              !.roleAnswered = @ /\ t # 0,
                              !.completed = FALSE,
                              !.paused = now]

Rewind(t) ==
    /\ May("rewind")
    /\ CanRewind(room)
    /\ Write(Rewound(room, t))

WithAppeal(r, i, state) ==
    [r EXCEPT !.incidents = (@ \ {i}) \cup {[i EXCEPT !.appeal = state]}]

SubmitAppeal(i) ==
    /\ May("appeal")
    /\ room.status # "ended"
    /\ room.played = {}
    /\ i.appeal # "pending"
    /\ Write(WithAppeal(room, i, "pending"))

RejectAppeal(i) ==
    /\ i.appeal = "pending"
    /\ room.played = {}
    /\ Write(WithAppeal(room, i, "rejected"))
    /\ UNCHANGED acts

AcceptAppeal(i) ==
    /\ i.appeal = "pending"
    /\ CanRewind(room)
    /\ Write(Rewound(WithAppeal(room, i, "accepted"), i.turn))
    /\ UNCHANGED acts

-----------------------------------------------------------------------------
(* The rest of the system *)

(* startCanonicalMapInTx starts the first map that is not completed.       *)
PlayMap ==
    /\ "play" \in Operations
    /\ room.status = "in_progress"
    /\ room.completed
    /\ \E p \in room.plan :
          /\ p.order \notin room.played
          /\ 1..(p.order - 1) \subseteq room.played
          /\ Write([room EXCEPT !.played = @ \cup {p.order}])
    /\ UNCHANGED acts

Unused(plan, played) == {p \in plan : p.order \notin played}

(* recordMapResultInTx takes the result of any map of the plan, and the one*)
(* that decides the series ends the match and deletes the unused maps.  A  *)
(* side or a picker named with the score belongs to the result: the plan   *)
(* is what the veto left.                                                  *)
RecordMap ==
    /\ "play" \in Operations
    /\ room.status = "in_progress"
    /\ room.completed
    /\ \E p \in room.plan :
          LET scored == [room EXCEPT !.played = @ \cup {p.order}]
          IN  \/ Write(scored)
              \/ Write([scored EXCEPT !.status = "ended", !.plan = @ \ Unused(@, scored.played)])
    /\ UNCHANGED acts

Cancel ==
    /\ "end" \in Operations
    /\ room.status \in {"scheduled", "in_progress"}
    /\ Write([room EXCEPT !.status = "ended"])
    /\ UNCHANGED acts

(* A forfeit ends it too: persistCompletedMatchInTx deletes unused maps.   *)
Finish ==
    /\ "end" \in Operations
    /\ room.status \in {"scheduled", "in_progress"}
    /\ Write([room EXCEPT !.status = "ended", !.plan = @ \ Unused(@, room.played)])
    /\ UNCHANGED acts

(* The live source reports a match that has started, with lineups that     *)
(* agree: the match is set in progress (mizar/reliable.ts).                *)
ObserveMatchStarted ==
    LET r == Materialized(room, TRUE)
    IN  /\ "telemetry" \in Operations
        /\ room.status = "scheduled"
        /\ \A e \in Entries : r.lineup[e] = "ok"
        /\ Write([r EXCEPT !.status = "in_progress"])
    /\ UNCHANGED acts

OtherMatchStarts ==
    /\ "other" \in Operations
    /\ work = Idle
    /\ ~other.busy
    /\ other.endedAt = NoTime
    /\ other' = [other EXCEPT !.busy = TRUE]
    /\ UNCHANGED <<room, work, inbox, answered, now, acts>>

OtherMatchEnds ==
    /\ work = Idle
    /\ other.busy
    /\ other' = [busy |-> FALSE, endedAt |-> now]
    /\ UNCHANGED <<room, work, inbox, answered, now, acts>>

Tick ==
    /\ work = Idle
    /\ now < MaxTime
    /\ now' = now + 1
    /\ UNCHANGED <<room, work, inbox, answered, other, acts>>

-----------------------------------------------------------------------------

Init ==
    /\ room = [status |-> "scheduled",
               lineup |-> [e \in Entries |-> InitialLineup],
               rep |-> [e \in Entries |-> IF InitialLineup = "ok" THEN DefaultRep[e] ELSE NoUser],
               request |-> [e \in Entries |-> NoUser],
               privileged |-> InitialPrivileged,
               vetoA |-> NoEntry, roleAnswered |-> FALSE,
               started |-> FALSE, completed |-> FALSE,
               key |-> NoTurn, start |-> NoTime, deadline |-> NoTime, paused |-> NoTime,
               revision |-> 0, steps |-> {}, incidents |-> {}, plan |-> {}, played |-> {}]
    /\ work = Idle
    /\ inbox = [tab \in Tabs |-> NoCommand]
    /\ answered = {}
    /\ other = [busy |-> FALSE, endedAt |-> NoTime]
    /\ now = 0
    /\ acts = 0

CommandOf(tab) ==
    \/ Send(tab) \/ Receive(tab) \/ RepeatAnswer(tab) \/ BeginAnswer(tab)
    \/ BeginStartRequest(tab) \/ DropUnderStrength(tab)

Administer ==
    \/ \E e \in Entries : SetPrivileged(e) \/ LoseEligibility(e)
    \/ \E u \in Users : SetRepresentative(u)
    \/ \E e \in Entries, u \in Users \cup {NoUser} : SubmitLineup(e, u)
    \/ Pause \/ Resume
    \/ \E t \in 0..Len(Format) : Rewind(t)
    \/ \E i \in room.incidents : SubmitAppeal(i) \/ RejectAppeal(i) \/ AcceptAppeal(i)

Environment ==
    PlayMap \/ RecordMap \/ Cancel \/ Finish \/ ObserveMatchStarted \/ OtherMatchStarts \/ OtherMatchEnds

Next ==
    \/ ReconcileStep \/ CommandStep
    \/ VisitRoom
    \/ \E tab \in Tabs : CommandOf(tab)
    \/ Administer
    \/ Environment
    \/ Tick

Spec == Init /\ [][Next]_vars

(* A transaction that has its locks runs to its end; the clock goes on     *)
(* whatever else happens, and the match-veto job, which waits in the queue *)
(* for the season's row lock, gets its turn.                               *)
Fairness ==
    /\ WF_vars(ReconcileStep)
    /\ WF_vars(CommandStep)
    /\ SF_vars(Tick)
    /\ SF_vars(RunTimeoutJob)

FairSpec == Spec /\ Fairness

-----------------------------------------------------------------------------
(* Properties *)

(* The variables have the shapes of the rows they stand for.               *)
TypeOK ==
    /\ room \in Rooms
    /\ work = Idle \/ work \in Works
    /\ inbox \in [Tabs -> Commands]
    /\ answered \subseteq [req : Requests, revision : Nat]
    /\ other \in [busy : BOOLEAN, endedAt : Times]
    /\ now \in 0..MaxTime
    /\ acts \in 0..MaxInterventions

(* Whatever answers, timeouts, rewinds and retries there were, the steps   *)
(* of the room are a legal beginning of its format: consecutive orders,    *)
(* turn by turn with no turn left short or overfilled, each by the entry   *)
(* whose turn it is, no map chosen twice, and sides picked on the map of   *)
(* the turn they belong to.                                                *)
StepsFollowFormat ==
    LET steps == room.steps
    IN  /\ {s.order : s \in steps} = 1..Cardinality(steps)
        /\ \A s, r \in steps : s.order < r.order => s.turn <= r.turn
        /\ \A s \in steps :
              /\ \A t \in Turns : t < s.turn => Answered(steps, t)
              /\ Cardinality(StepsAt(steps, s.turn)) <= Format[s.turn].count
              /\ s.entry = Actor(room, s.turn)
              /\ ActionOf(s) = "side_pick" =>
                    \E r \in steps : r.turn = Format[s.turn].from /\ r.map = s.map
        /\ \A s, r \in steps :
              {ActionOf(s), ActionOf(r)} \cap {"side_pick"} = {} /\ s.map = r.map => s = r

(* A finished sequence, and only that, leaves a map plan: as many maps as  *)
(* the format plays, in order, none twice and none banned, and where one   *)
(* entry chose the map the other chose the side it starts on.              *)
PlanIsFair ==
    room.status = "in_progress" =>
        /\ room.completed <=> room.plan # {}
        /\ room.completed =>
              /\ Cardinality(room.plan) = MapCount(Format)
              /\ {p.order : p \in room.plan} = 1..MapCount(Format)
              /\ \A p, q \in room.plan : p.map = q.map => p = q
              /\ \A s \in room.steps : ActionOf(s) = "ban" => \A p \in room.plan : p.map # s.map
              /\ \A p \in room.plan, s \in room.steps :
                    ActionOf(s) = "side_pick" /\ s.map = p.map =>
                        /\ s.entry # p.pickedBy
                        /\ p.sideA = IF s.entry = EntryA THEN s.side ELSE Opposite(s.side)

(* A room in play always has its current turn on the clock, for exactly    *)
(* its time: the turn that is shown is the turn that is due, and no turn   *)
(* is left without a deadline, where neither job nor command would end it. *)
TurnIsOnTheClock ==
    InPlay(room) /\ room.status = "in_progress" =>
        /\ room.key = Current(room)
        /\ room.key # NoTurn
        /\ ~IsSystem(room.key)
        /\ room.start # NoTime
        /\ room.deadline = room.start + Duration(room.key)

(* Nothing is done in an entry's name without a record it can appeal       *)
(* against: every step that a timeout made, and a VETO A that no answer    *)
(* chose, is in an incident of that turn and entry, and stays there        *)
(* through pauses, rewinds and appeals.                                    *)
TimeoutsOnRecord ==
    /\ \A s \in room.steps : s.source = "timeout" =>
          \E i \in room.incidents :
              /\ i.turn = s.turn
              /\ i.entry = s.entry
              /\ {s.map, s.side} \cap i.chosen # {}
    /\ room.vetoA # NoEntry /\ ~room.roleAnswered =>
          \E i \in room.incidents :
              /\ i.turn = 0
              /\ i.entry = Actor(room, 0)
              /\ i.chosen = {room.vetoA}

(* A command takes effect once, however often it is sent, also when a      *)
(* rewind has deleted the step that would show it.                         *)
AppliedOnce ==
    \A x, y \in answered : x.req = y.req => x = y

(* What a client sees of a room                                            *)
Session(r) ==
    <<r.privileged, r.vetoA, r.request, r.started, r.completed,
      r.key, r.start, r.deadline, r.paused, r.steps>>

(* A revision names one state of the session row and its steps: whatever   *)
(* changes the roles, the requests, the turn, its clock or the steps goes  *)
(* with a new, higher revision.  Representatives, lineups and the status   *)
(* of the match are no part of it; a command is checked against those as   *)
(* they are when it runs.                                                  *)
RevisionNamesSession ==
    [][ /\ room'.revision >= room.revision
        /\ Session(room') # Session(room) => room'.revision > room.revision ]_vars

(* From the first map on the sequence is finished and fixed, and with it   *)
(* the roles and the plan; the end of the match only drops maps that were  *)
(* not played.                                                             *)
GameplayFreezesVeto ==
    [][ room.played # {} =>
          /\ room'.completed
          /\ room'.steps = room.steps
          /\ room'.vetoA = room.vetoA
          /\ {p \in room'.plan : p.order \in room.played} = {p \in room.plan : p.order \in room.played}
          /\ room'.status # "ended" => room'.plan = room.plan ]_vars

(* The room as a log of steps *)
Log == INSTANCE VetoLog WITH
          vetoA <- room.vetoA,
          steps <- room.steps,
          plan <- room.plan,
          played <- room.played,
          over <- (room.status = "ended")

(* Whatever timeouts, retries, stale commands and interventions there are, *)
(* the committed room is VetoLog's: steps are only added, behind the ones  *)
(* on record and to turns that lack an answer, the plan comes with the     *)
(* last, only a rewind takes steps back, never once a map is being played, *)
(* and only the end of the match takes a map out of the plan.              *)
ImplementsVetoLog == Log!LogSpec

(* Turns never start in the past of one another, although commands carry   *)
(* the instant of their receipt and wait for the lock: no entry is charged *)
(* time that the other one used.                                           *)
TurnsStartInOrder ==
    [][ room.start # NoTime /\ room'.start # NoTime => room'.start >= room.start ]_vars

(* A confirmation counts only while it is the current representative's,    *)
(* or, once the room may be forced, the captain's.                         *)
StartIsAgreed ==
    [][ ~room.started /\ room'.started =>
          /\ room.status = "scheduled"
          /\ \E e \in Entries : room'.request[e] # NoUser /\ room'.request[e] \in {room'.rep[e], Captain[e]}
          /\ \/ \A e \in Entries : room'.request[e] # NoUser /\ room'.request[e] = room'.rep[e]
             \/ MayForce(now) ]_vars

(* A match whose start has been agreed, or may be forced, does not wait    *)
(* for its players to come back: the job starts it, also when it was       *)
(* blocked by another match, or lacked time or lineups, when the request   *)
(* was made.                                                               *)
ReadyToStart == MayStart(room, now) /\ \A e \in Entries : room.lineup[e] = "ok"
AgreedMatchStarts == ReadyToStart ~> ~ReadyToStart

(* A turn that is on the clock ends, by an answer, a timeout, a pause, a   *)
(* rewind or the end of the match, if the clock gets past its deadline.    *)
OnClock(d) == InPlay(room) /\ room.status = "in_progress" /\ room.deadline = d
TurnEnds == \A d \in 0..(MaxTime - Settlement - 1) : OnClock(d) ~> ~OnClock(d)
=============================================================================
