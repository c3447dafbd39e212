----------------------------- MODULE VetoProofs -----------------------------
(***************************************************************************)
(* Proofs about VetoRoom.  The invariant says of a room, committed or in   *)
(* the hands of a transaction, that its steps are a legal beginning of the *)
(* format (Legal), that its plan is the one they amount to (PlanOK), and   *)
(* which clock its current turn has (Ticking, Winding); and of a           *)
(* transaction, how its copy differs from the room it will replace         *)
(* (Since).                                                                *)
(***************************************************************************)
EXTENDS VetoSequenceProofs

-----------------------------------------------------------------------------
(* A room *)

(* Nothing has happened in a room that has not started. *)
BeforeStart(r) ==
    IF r.started THEN r.status # "scheduled" /\ r.privileged # NoEntry
    ELSE /\ r.vetoA = NoEntry /\ ~r.completed
         /\ r.key = NoTurn /\ r.start = NoTime /\ r.deadline = NoTime /\ r.paused = NoTime
         /\ r.steps = {}

PlanOK(r) ==
    IF r.completed
    THEN /\ CurrentTurn(r.privileged, r.vetoA, r.steps) = NoTurn
         /\ r.status # "ended" => r.plan = MapPlan(r.steps)
    ELSE r.plan = {} /\ r.played = {}

(* The step s shows something of what was chosen. *)
Touches(s, chosen) == {s.map, s.side} \cap chosen # {}

(* What a timeout did is on record. *)
OnRecord(s, incidents) ==
    s.source = "timeout" =>
        \E i \in incidents :
            /\ i.turn = s.turn
            /\ i.entry = s.entry
            /\ Touches(s, i.chosen)

(* The role e that was drawn in the name of an entry is on record too.     *)
RoleDrawn(e, actor, incidents) ==
    \E i \in incidents : i.turn = 0 /\ i.entry = actor /\ i.chosen = {e}

Recorded(r) ==
    /\ \A s \in r.steps : OnRecord(s, r.incidents)
    /\ r.vetoA # NoEntry /\ ~r.roleAnswered => RoleDrawn(r.vetoA, Actor(r, 0), r.incidents)

(* A turn that has its time *)
Timed(r, t) ==
    t # NoTurn /\ ~IsSystem(t) /\ r.start # NoTime /\ r.deadline = r.start + Duration(t)

(* The clock of a room: started in the past and, while it is paused, held  *)
(* where it was, or taken off by a rewind.                                 *)
ClockOK(r, at) ==
    /\ r.start = NoTime <=> r.deadline = NoTime
    /\ r.start <= at
    /\ r.paused <= at
    /\ r.paused # NoTime =>
          /\ r.started /\ ~r.completed
          /\ r.start <= r.paused
          /\ Current(r) # NoTurn
          /\ r.start # NoTime => Timed(r, Current(r))

SequenceOK(r) ==
    /\ r \in Rooms
    /\ Legal(r.privileged, r.vetoA, r.steps)
    /\ BeforeStart(r)
    /\ PlanOK(r)
    /\ Recorded(r)

RoomOK(r, at) == SequenceOK(r) /\ ClockOK(r, at)

(* The clock of a room in play that nobody works on, and of one that a     *)
(* reconcile has still to bring forward.                                   *)
Ticking(r) == InPlay(r) => r.key = Current(r) /\ Timed(r, Current(r))
Pending(r) == InPlay(r) /\ Current(r) # NoTurn /\ IsSystem(Current(r))
Winding(r) == InPlay(r) => Current(r) = NoTurn \/ Pending(r) \/ Timed(r, Current(r))

-----------------------------------------------------------------------------
(* A room that replaces another *)

(* A client that is shown q after r sees a change by the revision.         *)
Moved(r, q) ==
    /\ q.revision >= r.revision
    /\ Session(q) # Session(r) => q.revision > r.revision

Onward(r, q) == r.start # NoTime /\ q.start # NoTime => q.start >= r.start

Frozen(r, q) ==
    /\ q.completed
    /\ q.steps = r.steps
    /\ q.vetoA = r.vetoA
    /\ {p \in q.plan : p.order \in r.played} = {p \in r.plan : p.order \in r.played}
    /\ q.status # "ended" => q.plan = r.plan

Agreed(r, force) ==
    /\ \E e \in Entries : r.request[e] # NoUser /\ r.request[e] \in {r.rep[e], Captain[e]}
    /\ (\A e \in Entries : r.request[e] # NoUser /\ r.request[e] = r.rep[e]) \/ force

Starts(r, q, force) == ~r.started /\ q.started => r.status = "scheduled" /\ Agreed(q, force)

Allowed(r, q, force) ==
    /\ Moved(r, q)
    /\ Onward(r, q)
    /\ r.played # {} => Frozen(r, q)
    /\ Starts(r, q, force)

(* The steps of VetoLog, from the room r to the room q *)
SameLog(r, q) ==
    /\ q.vetoA = r.vetoA /\ q.steps = r.steps /\ q.plan = r.plan /\ q.played = r.played
    /\ q.status = "ended" <=> r.status = "ended"

Appends(r, q) ==
    /\ r.status # "ended" /\ q.status # "ended" /\ r.plan = {}
    /\ r.vetoA # NoEntry => q.vetoA = r.vetoA
    /\ r.steps \subseteq q.steps
    /\ \A s \in q.steps \ r.steps :
          /\ q.vetoA # NoEntry
          /\ ~Answered(r.steps, s.turn)
          /\ \A o \in r.steps : s.order > o.order
    /\ q.plan = IF Log!Finished(q.vetoA, q.steps) THEN MapPlan(q.steps) ELSE {}
    /\ q.played = r.played

Cuts(r, q, t) ==
    /\ r.status # "ended" /\ q.status # "ended" /\ r.played = {}
    /\ q.vetoA = IF t = 0 THEN NoEntry ELSE r.vetoA
    /\ q.steps = {s \in r.steps : s.turn < t}
    /\ q.plan = {} /\ q.played = r.played

Plays(r, q) ==
    /\ r.status # "ended" /\ q.status # "ended"
    /\ \E p \in r.plan : q.played = r.played \cup {p.order}
    /\ q.vetoA = r.vetoA /\ q.steps = r.steps /\ q.plan = r.plan

Ends(r, q) ==
    /\ r.status # "ended" /\ q.status = "ended"
    /\ q.played \in {r.played} \cup {r.played \cup {p.order} : p \in r.plan}
    /\ q.plan \in {r.plan, {p \in r.plan : p.order \in q.played}}
    /\ q.vetoA = r.vetoA /\ q.steps = r.steps

Logged(r, q) ==
    \/ SameLog(r, q) \/ Appends(r, q) \/ Plays(r, q) \/ Ends(r, q)
    \/ \E t \in {0} \cup Turns : Cuts(r, q, t)

MayReplace(r, q, force) == Allowed(r, q, force) /\ Logged(r, q)

(* What a transaction has made of a room: answers only, and none once the  *)
(* sequence is complete or the match is over                               *)
Grown(r, q) ==
    /\ q.played = r.played
    /\ q.status = "ended" <=> r.status = "ended"
    /\ IF r.completed \/ r.status = "ended"
       THEN /\ q.vetoA = r.vetoA /\ q.steps = r.steps /\ q.plan = r.plan
            /\ q.completed = r.completed
       ELSE r.steps \subseteq q.steps /\ (r.vetoA # NoEntry => q.vetoA = r.vetoA)

Since(r, q, force) ==
    /\ Allowed(r, q, force)
    /\ Grown(r, q)
    /\ IF q.started THEN TRUE ELSE ~r.started /\ q.status = r.status

-----------------------------------------------------------------------------
(* The invariant *)

(* What a command carries, against the room as it is: a client sees no     *)
(* revision ahead of the room's, and one that acts on the present revision *)
(* acts after the turn on the clock began.                                 *)
CommandOK(cmd, r, at) ==
    /\ cmd \in Commands
    /\ cmd.revision <= r.revision
    /\ cmd.at <= at
    /\ cmd.at # NoTime /\ cmd.revision = r.revision => r.start <= cmd.at

(* A transaction w that works on the room r *)
WorkOK(w, r, at, force) ==
    /\ w \in Works
    /\ RoomOK(w.room, at)
    /\ Since(r, w.room, force)
    /\ w.at <= at
    /\ w.step = "command" => Ticking(w.room) /\ w.then = "command"
    /\ w.step # "command" => Winding(w.room) /\ (Pending(w.room) => r.start <= w.at)
    /\ w.then = "command" =>
          /\ w.by \in Tabs
          /\ ~w.applied
          /\ w.cmd.kind \in {"start", "answer"}
          /\ CommandOK(w.cmd, r, at)
          /\ w.cmd.at # NoTime
          /\ w.cmd.kind = "answer" => w.at = w.cmd.at
    /\ w.applied =>
          /\ w.by \in Tabs
          /\ w.cmd.revision = r.revision
          /\ w.room.revision > r.revision

AnswersOK(answers, r) ==
    /\ answers \subseteq [req : Requests, revision : Nat]
    /\ \A x \in answers : x.req[2] < r.revision
    /\ \A x, y \in answers : x.req = y.req => x = y

VetoInv ==
    /\ RoomOK(room, now)
    /\ Ticking(room)
    /\ work = Idle \/ WorkOK(work, room, now, MayForce(now))
    /\ inbox \in [Tabs -> Commands]
    /\ \A tab \in Tabs : CommandOK(inbox[tab], room, now)
    /\ AnswersOK(answered, room)
    /\ other \in [busy : BOOLEAN, endedAt : Times]
    /\ now \in 0..MaxTime
    /\ acts \in 0..MaxInterventions

-----------------------------------------------------------------------------
(* The fields an operation leaves alone *)

Sequence(r) ==
    <<r.status, r.privileged, r.vetoA, r.roleAnswered, r.started, r.completed,
      r.steps, r.incidents, r.plan, r.played>>
People(r) == <<r.lineup, r.rep, r.request>>

(* The time given for a turn, or for the choice of roles, is a number. *)
LEMMA DurationType ==
    \A t \in {0} \cup Turns : Duration(t) \in Nat /\ (IsSystem(t) => t # 0) /\ t \in TurnKeys /\ t # NoTurn
BY FormatType, VetoAssumption DEF Duration, IsSystem, TurnKeys, Turns, NoTurn

(* A room grows by changes of its clock, and step by step. *)
LEMMA SequenceGrows ==
    ASSUME NEW r, NEW q, Sequence(q) = Sequence(r)
    PROVE  Grown(r, q)
BY DEF Sequence, Grown

(* What has grown twice has grown. *)
LEMMA GrownThen ==
    ASSUME NEW r, NEW w, NEW q, Grown(r, w), Grown(w, q)
    PROVE  Grown(r, q)
BY DEF Grown

(* Opening a turn sets its clock and advances the revision; the sequence   *)
(* and the people stay.                                                    *)
LEMMA OnTheClockFields ==
    ASSUME NEW r \in Rooms, NEW t \in {0} \cup Turns, NEW start \in Nat
    PROVE  LET q == OnTheClock(r, t, start)
           IN  /\ q \in Rooms
               /\ Sequence(q) = Sequence(r) /\ People(q) = People(r)
               /\ q.paused = r.paused /\ q.revision = r.revision + 1
               /\ q.key = t /\ q.start = start /\ q.deadline = start + Duration(t)
<1>1. t \in TurnKeys /\ start \in Times /\ start + Duration(t) \in Times
  BY DurationType DEF Times
<1>2. r.revision \in Nat /\ r.revision + 1 \in Nat
  BY DEF Rooms
<1>3. OnTheClock(r, t, start) \in Rooms
  BY <1>1, <1>2 DEF OnTheClock, Rooms
<1> QED
  BY <1>2, <1>3 DEF OnTheClock, Rooms, Sequence, People

(* Closing a turn clears its clock and advances the revision; the sequence *)
(* and the people stay.                                                    *)
LEMMA OffTheClockFields ==
    ASSUME NEW r \in Rooms, NEW t \in TurnKeys
    PROVE  LET q == OffTheClock(r, t)
           IN  /\ q \in Rooms
               /\ Sequence(q) = Sequence(r) /\ People(q) = People(r)
               /\ q.paused = r.paused /\ q.revision = r.revision + 1
               /\ q.key = t /\ q.start = NoTime /\ q.deadline = NoTime
<1>1. NoTime \in Times
  BY DEF Times
<1>2. r.revision \in Nat /\ r.revision + 1 \in Nat
  BY DEF Rooms
<1>3. OffTheClock(r, t) \in Rooms
  BY <1>1, <1>2 DEF OffTheClock, Rooms
<1> QED
  BY <1>2, <1>3 DEF OffTheClock, Rooms, Sequence, People

(* Lineups taken over for a match still scheduled change no sequence,      *)
(* clock or revision.                                                      *)
LEMMA MaterializedFields ==
    ASSUME NEW r \in Rooms, NEW force
    PROVE  LET q == Materialized(r, force)
           IN  /\ q \in Rooms
               /\ Sequence(q) = Sequence(r) /\ q.request = r.request
               /\ q.key = r.key /\ q.start = r.start /\ q.deadline = r.deadline
               /\ q.paused = r.paused /\ q.revision = r.revision
BY RoomAssumption DEF Materialized, Rooms, Sequence

(* The clock, the revision and the lineups say nothing of the sequence. *)
LEMMA SameSequence ==
    ASSUME NEW r \in Rooms, NEW q \in Rooms, SequenceOK(r), Sequence(q) = Sequence(r),
           ~r.started => /\ q.key = r.key /\ q.start = r.start
                         /\ q.deadline = r.deadline /\ q.paused = r.paused
    PROVE  /\ SequenceOK(q)
           /\ Current(q) = Current(r)
           /\ q.paused = r.paused => (InPlay(q) <=> InPlay(r))
<1>1. /\ q.status = r.status /\ q.privileged = r.privileged /\ q.vetoA = r.vetoA
      /\ q.started = r.started /\ q.completed = r.completed /\ q.steps = r.steps
      /\ q.incidents = r.incidents /\ q.plan = r.plan /\ q.played = r.played
      /\ q.roleAnswered = r.roleAnswered
  BY DEF Sequence
<1>2. Legal(q.privileged, q.vetoA, q.steps)
  BY <1>1 DEF SequenceOK
<1>3. BeforeStart(q)
  BY <1>1 DEF SequenceOK, BeforeStart
<1>4. PlanOK(q) /\ Recorded(q)
  BY <1>1 DEF SequenceOK, PlanOK, Recorded, Actor
<1> QED
  BY <1>1, <1>2, <1>3, <1>4 DEF SequenceOK, Current, InPlay

(* The current turn of a room *)
LEMMA RoomTurn ==
    ASSUME NEW r \in Rooms, SequenceOK(r)
    PROVE  /\ Current(r) \in {NoTurn, 0} \cup Turns
           /\ Current(r) \in TurnKeys
           /\ Current(r) # NoTurn =>
                 /\ r.started /\ ~r.completed /\ r.privileged # NoEntry
                 /\ Current(r) = CurrentTurn(r.privileged, r.vetoA, r.steps)
                 /\ Current(r) \in {0} \cup Turns
                 /\ Current(r) = 0 <=> r.vetoA = NoEntry
           /\ InPlay(r) => /\ r.started /\ ~r.completed /\ r.privileged # NoEntry
                           /\ r.status = "in_progress" /\ r.paused = NoTime
                           /\ r.plan = {} /\ r.played = {}
                           /\ Current(r) = CurrentTurn(r.privileged, r.vetoA, r.steps)
<1>1. /\ r.started \in BOOLEAN /\ r.completed \in BOOLEAN
      /\ r.status \in {"scheduled", "in_progress", "ended"}
  BY DEF Rooms
<1>2. BeforeStart(r) /\ PlanOK(r)
  BY DEF SequenceOK
<1>3. CurrentTurn(r.privileged, r.vetoA, r.steps) \in {NoTurn, 0} \cup Turns
  BY CurrentIs
<1>4. r.privileged # NoEntry => (CurrentTurn(r.privileged, r.vetoA, r.steps) = 0 <=> r.vetoA = NoEntry)
  BY CurrentIs
<1>5. r.privileged = NoEntry => CurrentTurn(r.privileged, r.vetoA, r.steps) = NoTurn
  BY CurrentIs
<1>6. {NoTurn, 0} \cup Turns \subseteq TurnKeys
  BY FormatType DEF TurnKeys, Turns
<1>7. InPlay(r) => /\ r.started /\ ~r.completed /\ r.privileged # NoEntry
                   /\ r.status = "in_progress" /\ r.paused = NoTime /\ r.plan = {} /\ r.played = {}
  BY <1>1, <1>2 DEF InPlay, BeforeStart, PlanOK
<1>8. Current(r) = IF ~r.started \/ r.completed THEN NoTurn
                   ELSE CurrentTurn(r.privileged, r.vetoA, r.steps)
  BY DEF Current
<1> QED
  BY <1>1, <1>3, <1>4, <1>5, <1>6, <1>7, <1>8

(* A turn put on the clock *)
LEMMA OnTheClockOK ==
    ASSUME NEW r \in Rooms, SequenceOK(r), r.started, r.paused = NoTime,
           NEW t \in {0} \cup Turns, NEW start \in Nat, NEW at \in Nat, start <= at
    PROVE  LET q == OnTheClock(r, t, start)
           IN  RoomOK(q, at) /\ Current(q) = Current(r) /\ (t = Current(r) => Winding(q))
<1> DEFINE q == OnTheClock(r, t, start)
<1>1. /\ q \in Rooms /\ Sequence(q) = Sequence(r) /\ q.paused = r.paused
      /\ q.start = start /\ q.deadline = start + Duration(t)
  BY OnTheClockFields
<1> HIDE DEF q
<1>2. SequenceOK(q) /\ Current(q) = Current(r)
  BY <1>1, SameSequence
<1>3. start # NoTime /\ start + Duration(t) # NoTime /\ NoTime <= at
  BY DurationType DEF NoTime
<1>4. ClockOK(q, at)
  BY <1>1, <1>3 DEF ClockOK
<1>5. t = Current(r) => Winding(q)
  BY <1>1, <1>2, <1>3 DEF Winding, Pending, Timed
<1> QED
  BY <1>2, <1>4, <1>5 DEF RoomOK, q

(* A turn taken off the clock *)
LEMMA OffTheClockOK ==
    ASSUME NEW r \in Rooms, SequenceOK(r), r.started, r.paused = NoTime,
           NEW t \in TurnKeys, NEW at \in Nat
    PROVE  LET q == OffTheClock(r, t)
           IN  RoomOK(q, at) /\ Current(q) = Current(r) /\ (InPlay(q) <=> InPlay(r))
<1> DEFINE q == OffTheClock(r, t)
<1>1. /\ q \in Rooms /\ Sequence(q) = Sequence(r) /\ q.paused = r.paused
      /\ q.start = NoTime /\ q.deadline = NoTime
  BY OffTheClockFields
<1> HIDE DEF q
<1>2. SequenceOK(q) /\ Current(q) = Current(r) /\ (InPlay(q) <=> InPlay(r))
  BY <1>1, SameSequence
<1>3. ClockOK(q, at)
  BY <1>1 DEF ClockOK, NoTime
<1> QED
  BY <1>2, <1>3 DEF RoomOK, q

(* The plan of a legal sequence is a plan. *)
LEMMA MapPlanType ==
    ASSUME NEW p, NEW v, NEW steps, Legal(p, v, steps)
    PROVE  MapPlan(steps) \in SUBSET Plans
<1> SUFFICES ASSUME NEW s \in MapSteps(steps)
             PROVE  [order |-> 1 + Cardinality({r \in MapSteps(steps) : PlaysBefore(r, s)}),
                     map |-> s.map,
                     pickedBy |-> IF ActionOf(s) = "pick" THEN s.entry ELSE NoEntry,
                     sideA |-> StartSide(steps, s.map)] \in Plans
  BY DEF MapPlan
<1>1. s \in Steps
  BY DEF MapSteps, Legal
<1>2. 1 + Cardinality({r \in MapSteps(steps) : PlaysBefore(r, s)}) \in Nat
  <2>1. {r \in MapSteps(steps) : PlaysBefore(r, s)} \in SUBSET steps
    BY DEF MapSteps
  <2>2. Cardinality({r \in MapSteps(steps) : PlaysBefore(r, s)}) \in Nat
    BY <2>1, LegalType, FS_Subset, FS_CardinalityType
  <2> QED
    BY <2>2
<1>3. StartSide(steps, s.map) \in Sides \cup {NoSide}
  <2> DEFINE picked == {x \in steps : ActionOf(x) = "side_pick" /\ x.map = s.map}
  <2>1. CASE picked = {}
    BY <2>1 DEF StartSide
  <2>2. CASE picked # {}
    <3>1. PICK x \in picked : x = CHOOSE y \in picked : TRUE
      BY <2>2
    <3>2. x.side \in Sides \cup {NoSide}
      BY DEF Legal, Steps
    <3>3. StartSide(steps, s.map) = IF x.entry = EntryA THEN x.side ELSE Opposite(x.side)
      BY <2>2, <3>1 DEF StartSide
    <3> QED
      BY <3>2, <3>3 DEF Opposite, Sides
  <2> QED
    BY <2>1, <2>2
<1> QED
  BY <1>1, <1>2, <1>3 DEF Plans, Steps

(* A sequence that is complete leaves its plan and stops the clock. *)
LEMMA PlannedOK ==
    ASSUME NEW r \in Rooms, SequenceOK(r), InPlay(r), Current(r) = NoTurn, NEW at \in Nat
    PROVE  LET q == Planned(r)
           IN  /\ RoomOK(q, at) /\ q.started /\ q.completed /\ Grown(r, q)
               /\ People(q) = People(r) /\ q.revision = r.revision + 1 /\ q.start = NoTime
<1> DEFINE o == OffTheClock(r, NoTurn)
           q == Planned(r)
<1>1. /\ r.started /\ ~r.completed /\ r.privileged # NoEntry /\ r.status = "in_progress"
      /\ r.paused = NoTime /\ CurrentTurn(r.privileged, r.vetoA, r.steps) = NoTurn
  BY RoomTurn
<1>2. /\ o \in Rooms /\ Sequence(o) = Sequence(r) /\ People(o) = People(r) /\ o.paused = r.paused
      /\ o.revision = r.revision + 1 /\ o.start = NoTime /\ o.deadline = NoTime
  BY OffTheClockFields DEF TurnKeys
<1>3. q = [o EXCEPT !.plan = MapPlan(r.steps), !.completed = TRUE]
  BY DEF Planned
<1>4. MapPlan(r.steps) \in SUBSET Plans
  BY MapPlanType DEF SequenceOK
<1> HIDE DEF o, q
<1>5. q \in Rooms
  BY <1>2, <1>3, <1>4 DEF Rooms
<1>6. /\ q.status = r.status /\ q.privileged = r.privileged /\ q.vetoA = r.vetoA
      /\ q.started /\ q.completed /\ q.steps = r.steps
      /\ q.incidents = r.incidents /\ q.plan = MapPlan(r.steps) /\ q.paused = NoTime
      /\ q.played = r.played /\ q.roleAnswered = r.roleAnswered
      /\ People(q) = People(r) /\ q.revision = r.revision + 1 /\ q.start = NoTime /\ q.deadline = NoTime
  BY <1>1, <1>2, <1>3, <1>5 DEF Rooms, Sequence, People
<1>7. Legal(q.privileged, q.vetoA, q.steps) /\ Recorded(q)
  BY <1>6 DEF SequenceOK, Recorded, Actor
<1>8. BeforeStart(q) /\ PlanOK(q)
  BY <1>1, <1>6 DEF BeforeStart, PlanOK
<1>9. ClockOK(q, at)
  BY <1>6 DEF ClockOK, NoTime
<1>10. Grown(r, q)
  BY <1>1, <1>6 DEF Grown
<1> QED
  BY <1>5, <1>6, <1>7, <1>8, <1>9, <1>10 DEF RoomOK, SequenceOK, q

(* After a turn the room goes on to the next, or is complete. *)
LEMMA AdvancedOK ==
    ASSUME NEW r \in Rooms, SequenceOK(r), InPlay(r), NEW t \in TurnKeys,
           NEW start \in Nat, NEW at \in Nat, start <= at
    PROVE  LET q == Advanced(OffTheClock(r, t), start)
           IN  /\ RoomOK(q, at) /\ Winding(q) /\ q.started /\ Grown(r, q)
               /\ People(q) = People(r) /\ q.revision > r.revision /\ q.start \in {NoTime, start}
<1> DEFINE o == OffTheClock(r, t)
           next == Current(o)
           q == Advanced(o, start)
<1> SUFFICES /\ RoomOK(q, at) /\ Winding(q) /\ q.started /\ Grown(r, q)
             /\ People(q) = People(r) /\ q.revision > r.revision /\ q.start \in {NoTime, start}
  OBVIOUS
<1>1. r.started /\ r.paused = NoTime /\ r.revision \in Nat
  BY RoomTurn DEF Rooms
<1>2. /\ o \in Rooms /\ Sequence(o) = Sequence(r) /\ People(o) = People(r)
      /\ o.paused = r.paused /\ o.revision = r.revision + 1
  BY OffTheClockFields
<1>3. SequenceOK(o) /\ InPlay(o)
  BY <1>1, OffTheClockOK DEF RoomOK
<1>4. o.started /\ o.paused = NoTime /\ Grown(r, o)
  BY <1>1, <1>2, SequenceGrows DEF Sequence
<1> HIDE DEF o
<1>5. CASE next = NoTurn
  <2>1. q = Planned(o)
    BY <1>5 DEF Advanced
  <2>2. /\ RoomOK(q, at) /\ q.started /\ q.completed /\ People(q) = People(o)
        /\ q.revision = o.revision + 1 /\ q.start = NoTime /\ Grown(o, q)
    BY <1>2, <1>3, <1>5, <2>1, PlannedOK
  <2>3. Winding(q)
    BY <2>2 DEF Winding, InPlay
  <2>4. Grown(r, q)
    BY <1>4, <2>2, GrownThen
  <2> QED
    BY <1>1, <1>2, <2>2, <2>3, <2>4
<1>6. CASE next # NoTurn /\ IsSystem(next)
  <2>1. q = OffTheClock(o, next)
    BY <1>6 DEF Advanced
  <2>2. next \in TurnKeys
    BY <1>2, <1>3, RoomTurn
  <2>3. RoomOK(q, at) /\ Current(q) = next /\ (InPlay(q) <=> InPlay(o))
    BY <1>2, <1>3, <1>4, <2>1, <2>2, OffTheClockOK
  <2>4. /\ Sequence(q) = Sequence(o) /\ People(q) = People(o) /\ q.revision = o.revision + 1
        /\ q.start = NoTime
    BY <1>2, <2>1, <2>2, OffTheClockFields
  <2>5. q.started
    BY <1>4, <2>4 DEF Sequence
  <2>6. Winding(q)
    BY <1>6, <2>3 DEF Winding, Pending
  <2>7. Grown(r, q)
    BY <1>4, <2>4, SequenceGrows, GrownThen
  <2> QED
    BY <1>1, <1>2, <2>3, <2>4, <2>5, <2>6, <2>7
<1>7. CASE next # NoTurn /\ ~IsSystem(next)
  <2>1. q = OnTheClock(o, next, start)
    BY <1>7 DEF Advanced
  <2>2. next \in {0} \cup Turns
    BY <1>2, <1>3, <1>7, RoomTurn
  <2>3. RoomOK(q, at) /\ Winding(q)
    BY <1>2, <1>3, <1>4, <2>1, <2>2, OnTheClockOK
  <2> HIDE DEF q, next
  <2>4. /\ Sequence(q) = Sequence(o) /\ People(q) = People(o) /\ q.revision = o.revision + 1
        /\ q.start = start
    BY <1>2, <2>1, <2>2, OnTheClockFields
  <2>5. q.started
    BY <1>4, <2>4 DEF Sequence
  <2>6. Grown(r, q)
    BY <1>4, <2>4, SequenceGrows, GrownThen
  <2> QED
    BY <1>1, <1>2, <2>3, <2>4, <2>5, <2>6
<1> QED
  BY <1>5, <1>6, <1>7

(* Steps added to a room in play *)
WithSteps(r, steps, incidents) == [r EXCEPT !.steps = steps, !.incidents = incidents]

(* A room with them is as sound as it was. *)
LEMMA AddedOK ==
    ASSUME NEW r \in Rooms, SequenceOK(r), InPlay(r),
           NEW steps, NEW incidents \in SUBSET Incidents,
           Legal(r.privileged, r.vetoA, steps), r.incidents \subseteq incidents,
           r.steps \subseteq steps,
           \A s \in steps \ r.steps : OnRecord(s, incidents),
           NEW q, q = WithSteps(r, steps, incidents)
    PROVE  /\ q \in Rooms /\ SequenceOK(q) /\ InPlay(q)
           /\ q.started = r.started /\ q.paused = r.paused
           /\ q.privileged = r.privileged /\ q.vetoA = r.vetoA /\ q.steps = steps
           /\ People(q) = People(r) /\ q.revision = r.revision
           /\ q.key = r.key /\ q.start = r.start /\ q.deadline = r.deadline
           /\ Grown(r, q)
<1>1. steps \in SUBSET Steps
  BY DEF Legal
<1>2. q \in Rooms
  BY <1>1 DEF Rooms, WithSteps
<1>3. /\ q.status = r.status /\ q.privileged = r.privileged /\ q.vetoA = r.vetoA
      /\ q.started = r.started /\ q.completed = r.completed /\ q.steps = steps
      /\ q.incidents = incidents /\ q.plan = r.plan /\ q.played = r.played
      /\ q.key = r.key /\ q.start = r.start /\ q.deadline = r.deadline /\ q.paused = r.paused
      /\ q.revision = r.revision /\ People(q) = People(r) /\ q.roleAnswered = r.roleAnswered
  BY DEF Rooms, People, WithSteps
<1>4. InPlay(q)
  BY <1>3 DEF InPlay
<1>5. BeforeStart(q) /\ PlanOK(q)
  BY <1>3 DEF SequenceOK, BeforeStart, PlanOK, InPlay
<1>6. Recorded(q)
  <2>1. \A s \in r.steps : OnRecord(s, incidents)
    BY DEF SequenceOK, Recorded, OnRecord
  <2>2. q.vetoA # NoEntry /\ ~q.roleAnswered => RoleDrawn(q.vetoA, Actor(q, 0), incidents)
    BY <1>3 DEF SequenceOK, Recorded, RoleDrawn, Actor
  <2> QED
    BY <1>3, <2>1, <2>2 DEF Recorded
<1>7. Grown(r, q)
  BY <1>3 DEF Grown, InPlay
<1> QED
  BY <1>2, <1>3, <1>4, <1>5, <1>6, <1>7 DEF SequenceOK

(* What turn 0 leaves alone when it gives a room its roles *)
BesidesRole(r) ==
    <<r.status, r.privileged, r.started, r.completed, r.steps, r.plan, r.played,
      r.key, r.start, r.deadline, r.paused, r.revision, People(r)>>

(* The turn after it is turn 1. *)
LEMMA RoleOK ==
    ASSUME NEW r \in Rooms, SequenceOK(r), InPlay(r), Current(r) = 0,
           NEW q \in Rooms, BesidesRole(q) = BesidesRole(r), q.vetoA \in Entries,
           ~q.roleAnswered => RoleDrawn(q.vetoA, Actor(r, 0), q.incidents)
    PROVE  /\ SequenceOK(q) /\ InPlay(q)
           /\ q.started = r.started /\ q.paused = r.paused
           /\ People(q) = People(r) /\ q.revision = r.revision
           /\ Current(q) = 1 /\ Grown(r, q)
<1> DEFINE e == q.vetoA
<1>2. /\ q.status = r.status /\ q.privileged = r.privileged
      /\ q.started = r.started /\ q.completed = r.completed /\ q.steps = r.steps
      /\ q.plan = r.plan /\ q.played = r.played
      /\ q.key = r.key /\ q.start = r.start /\ q.deadline = r.deadline /\ q.paused = r.paused
      /\ q.revision = r.revision /\ People(q) = People(r)
  BY DEF BesidesRole
<1>3. r.started /\ ~r.completed /\ r.privileged # NoEntry /\ r.vetoA = NoEntry
  BY RoomTurn DEF NoTurn
<1>4. r.steps = {} /\ e # NoEntry
  BY <1>3, VetoAssumption DEF SequenceOK, Legal
<1>5. Legal(q.privileged, q.vetoA, q.steps)
  BY <1>2, <1>3, <1>4 DEF SequenceOK, Legal
<1>6. InPlay(q)
  BY <1>2 DEF InPlay
<1>7. BeforeStart(q) /\ PlanOK(q)
  BY <1>2, <1>3, <1>4 DEF SequenceOK, BeforeStart, PlanOK
<1>7a. Actor(q, 0) = Actor(r, 0)
  BY <1>2 DEF Actor, ActorEntry
<1>7b. Recorded(q)
  BY <1>2, <1>4, <1>7a DEF Recorded
<1>8. Current(q) = CurrentTurn(q.privileged, e, {})
  BY <1>2, <1>3, <1>4 DEF Current
<1>9. \A t \in Turns : ~Answered({}, t)
  <2> TAKE t \in Turns
  <2>1. StepsAt({}, t) = {} /\ Format[t].count \in Nat \ {0}
    BY FormatType DEF StepsAt
  <2> QED
    BY <2>1, FS_EmptySet DEF Answered
<1>10. Current(q) = 1
  <2>1. 1 \in Turns /\ Turns \subseteq Nat \ {0}
    BY FormatType
  <2>2. CurrentTurn(q.privileged, e, {}) \in Turns
    BY <1>2, <1>3, <1>4, <1>9, <2>1, CurrentIs
  <2>3. \A u \in Turns : u < CurrentTurn(q.privileged, e, {}) => Answered({}, u)
    BY <2>2, CurrentIs
  <2>4. ~(1 < CurrentTurn(q.privileged, e, {}))
    BY <1>9, <2>1, <2>3
  <2>5. CurrentTurn(q.privileged, e, {}) \in Nat \ {0}
    BY <2>1, <2>2
  <2> QED
    BY <1>8, <2>4, <2>5
<1>11. Grown(r, q)
  BY <1>2, <1>3, <1>4 DEF Grown, InPlay
<1> QED
  BY <1>2, <1>5, <1>6, <1>7, <1>7b, <1>10, <1>11 DEF SequenceOK

-----------------------------------------------------------------------------
(* Replacing a room *)

(* A later copy still replaces the room. *)
LEMMA SinceThen ==
    ASSUME NEW r \in Rooms, NEW w \in Rooms, NEW q \in Rooms, NEW force,
           Since(r, w, force), Moved(w, q), Onward(r, q),
           w.completed => Sequence(q) = Sequence(w),
           w.started => q.started /\ People(q) = People(w),
           q.started => w.started,
           ~q.started => q.status = w.status,
           Grown(w, q)
    PROVE  Since(r, q, force)
<1>1. r.revision \in Nat /\ w.revision \in Nat /\ q.revision \in Nat
  BY DEF Rooms
<1>2. Moved(r, q)
  BY <1>1 DEF Since, Allowed, Moved
<1>3. r.played # {} => Frozen(r, q)
  BY DEF Since, Allowed, Frozen, Sequence
<1>4. Starts(r, q, force) /\ IF q.started THEN TRUE ELSE ~r.started /\ q.status = r.status
  BY DEF Since, Allowed, Starts, Agreed, People
<1>5. Grown(r, q)
  BY DEF Since, Grown
<1> QED
  BY <1>2, <1>3, <1>4, <1>5 DEF Since, Allowed

(* A room replaces itself. *)
LEMMA SinceItself ==
    ASSUME NEW r \in Rooms, SequenceOK(r), NEW force
    PROVE  Since(r, r, force) /\ MayReplace(r, r, force)
<1>1. r.revision \in Nat /\ r.start \in Int /\ r.played \in SUBSET Nat /\ r.completed \in BOOLEAN
  BY DEF Rooms, Times, NoTime
<1>2. r.played # {} => r.completed
  BY <1>1 DEF SequenceOK, PlanOK
<1>3. Allowed(r, r, force)
  BY <1>1, <1>2 DEF Allowed, Moved, Onward, Frozen, Starts
<1>4. Grown(r, r) /\ Logged(r, r)
  BY DEF Grown, Logged, SameLog
<1> QED
  BY <1>3, <1>4 DEF Since, MayReplace

(* What a client has sent stays acceptable or becomes stale. *)
LEMMA CommandStays ==
    ASSUME NEW r \in Rooms, NEW q \in Rooms, Moved(r, q), NEW at, NEW cmd, CommandOK(cmd, r, at)
    PROVE  CommandOK(cmd, q, at)
<1>1. r.revision \in Nat /\ q.revision \in Nat /\ cmd.revision \in Nat
  BY DEF Rooms, CommandOK, Commands
<1>2. cmd.revision <= r.revision /\ r.revision <= q.revision
  BY DEF Moved, CommandOK
<1>3. cmd.revision = q.revision => q.revision = r.revision
  BY <1>1, <1>2
<1>4. q.revision = r.revision => q.start = r.start
  BY <1>1 DEF Moved, Session
<1> QED
  BY <1>1, <1>2, <1>3, <1>4 DEF CommandOK

(* What the invariant says of the saved room and of the one being worked   *)
(* on                                                                      *)
LEMMA InvFacts ==
    ASSUME VetoInv
    PROVE  /\ room \in Rooms /\ SequenceOK(room) /\ ClockOK(room, now)
           /\ now \in Nat /\ now <= MaxTime
           /\ work # Idle => /\ WorkOK(work, room, now, MayForce(now))
                             /\ work \in Works /\ work.room \in Rooms
                             /\ SequenceOK(work.room) /\ ClockOK(work.room, now)
                             /\ work.at \in Nat /\ work.at <= now
                             /\ work.applied \in BOOLEAN
                             /\ work.step \in {"start", "turns", "command"}
                             /\ work.then \in {"command", "commit"}
BY RoomAssumption DEF VetoInv, RoomOK, SequenceOK, WorkOK, Works

(* A step of a transaction that is yet to commit replaces no saved room. *)
LEMMA WorkStep ==
    ASSUME VetoInv, UNCHANGED <<room, inbox, answered, other, now, acts>>,
           work' = Idle \/ WorkOK(work', room, now, MayForce(now))
    PROVE  VetoInv' /\ MayReplace(room, room', MayForce(now))
<1>1. MayForce(now)' <=> MayForce(now)
  BY DEF MayForce, ForceAt, Blocked
<1>2. MayReplace(room, room', MayForce(now))
  BY InvFacts, SinceItself DEF Since
<1>3. work' = Idle \/ WorkOK(work', room', now', MayForce(now)')
  BY <1>1 DEF WorkOK, Since, Allowed, Starts, Agreed
<1>4. VetoInv'
  BY <1>3 DEF VetoInv
<1> QED
  BY <1>2, <1>4

(* An answered turn that grows no further *)
LEMMA NewSteps ==
    ASSUME NEW p, NEW v, NEW w, NEW old, NEW new, Legal(p, v, old), NEW o, Legal(o, w, new),
           old \subseteq new, NEW s \in new, s \notin old
    PROVE  /\ w # NoEntry
           /\ ~Answered(old, s.turn)
           /\ \A x \in old : s.order > x.order
<1>1. w # NoEntry
  BY DEF Legal
<1>2. s.turn \in Turns /\ s.order \in Nat
  BY DEF Legal, Steps
<1>3. ~Answered(old, s.turn)
  <2> DEFINE t == s.turn
             was == StepsAt(old, t)
             is == StepsAt(new, t)
  <2> SUFFICES ASSUME Answered(old, t) PROVE FALSE
    OBVIOUS
  <2>1. was \in SUBSET is /\ is \in SUBSET new /\ s \in is /\ s \notin was
    BY DEF StepsAt
  <2>2. Cardinality(was) >= Format[t].count /\ Cardinality(is) <= Format[t].count /\ IsFiniteSet(new)
    BY <1>2 DEF Answered, Legal
  <2>3. Format[t].count \in Nat
    BY <1>2, FormatType
  <2> HIDE DEF was, is, t
  <2>4. IsFiniteSet(is)
    BY <2>1, <2>2, FS_Subset
  <2>5. IsFiniteSet(was) /\ Cardinality(was) <= Cardinality(is) /\ (Cardinality(was) = Cardinality(is) => was = is)
    BY <2>1, <2>4, FS_Subset
  <2>6. Cardinality(was) \in Nat /\ Cardinality(is) \in Nat
    BY <2>4, <2>5, FS_CardinalityType
  <2> QED
    BY <2>1, <2>2, <2>3, <2>5, <2>6
<1>4. \A x \in old : s.order > x.order
  <2>1. Ordered(old, Cardinality(old)) /\ Ordered(new, Cardinality(new)) /\ IsFiniteSet(old)
    BY DEF Legal
  <2>2. Cardinality(old) \in Nat
    BY <2>1, FS_CardinalityType
  <2>3. /\ 1..Cardinality(old) = {x.order : x \in old}
        /\ \A x, y \in new : x.order = y.order => x = y
        /\ s.order >= 1
    BY <1>2, <2>1 DEF Ordered
  <2>4. s.order > Cardinality(old)
    <3> SUFFICES ASSUME s.order <= Cardinality(old) PROVE FALSE
      BY <1>2, <2>2
    <3>1. PICK x \in old : x.order = s.order
      BY <1>2, <2>2, <2>3
    <3> QED
      BY <2>3, <3>1
  <2>5. \A x \in old : x.order \in 1..Cardinality(old)
    BY <2>3
  <2> QED
    BY <1>2, <2>2, <2>4, <2>5
<1> QED
  BY <1>1, <1>3, <1>4

(* What a transaction has made of a room is what VetoLog adds at once. *)
LEMMA GrownIsLogged ==
    ASSUME NEW r \in Rooms, SequenceOK(r), NEW q \in Rooms, SequenceOK(q), NEW at, ClockOK(q, at),
           Ticking(q), Grown(r, q)
    PROVE  Logged(r, q)
<1>1. CASE r.completed \/ r.status = "ended"
  BY <1>1 DEF Grown, Logged, SameLog
<1>2. CASE ~r.completed /\ r.status # "ended"
  <2>1. /\ r.plan = {} /\ q.status # "ended" /\ r.steps \subseteq q.steps
        /\ (r.vetoA # NoEntry => q.vetoA = r.vetoA) /\ q.played = r.played
    BY <1>2 DEF SequenceOK, PlanOK, Grown
  <2>2. \A s \in q.steps \ r.steps :
          q.vetoA # NoEntry /\ ~Answered(r.steps, s.turn) /\ \A o \in r.steps : s.order > o.order
    <3> TAKE s \in q.steps \ r.steps
    <3>1. Legal(r.privileged, r.vetoA, r.steps) /\ Legal(q.privileged, q.vetoA, q.steps)
      BY DEF SequenceOK
    <3> QED
      BY <2>1, <3>1, NewSteps
  <2>3. q.completed \in BOOLEAN /\ q.started \in BOOLEAN /\ q.status \in {"scheduled", "in_progress", "ended"}
    BY DEF Rooms
  <2>4. BeforeStart(q) /\ PlanOK(q)
    BY DEF SequenceOK
  <2>5. q.plan = IF Log!Finished(q.vetoA, q.steps) THEN MapPlan(q.steps) ELSE {}
    <3>1. CASE q.completed
      <4>1. q.privileged # NoEntry /\ CurrentTurn(q.privileged, q.vetoA, q.steps) = NoTurn
            /\ q.plan = MapPlan(q.steps)
        BY <2>1, <2>4, <3>1 DEF BeforeStart, PlanOK
      <4>2. Log!Finished(q.vetoA, q.steps)
        BY <4>1, CurrentIs DEF Log!Finished
      <4> QED
        BY <4>1, <4>2
    <3>2. CASE ~q.completed /\ ~q.started
      <4>1. q.vetoA = NoEntry /\ q.plan = {}
        BY <2>4, <3>2 DEF BeforeStart, PlanOK
      <4>2. ~Log!Finished(q.vetoA, q.steps)
        BY <4>1 DEF Log!Finished
      <4> QED
        BY <4>1, <4>2
    <3>3. CASE ~q.completed /\ q.started
      <4>1. Current(q) # NoTurn /\ q.plan = {}
        BY <2>1, <2>4, <3>3 DEF ClockOK, Ticking, InPlay, Timed, PlanOK
      <4>2. CurrentTurn(q.privileged, q.vetoA, q.steps) # NoTurn /\ q.privileged # NoEntry
        BY <4>1, RoomTurn
      <4>3. ~Log!Finished(q.vetoA, q.steps)
        BY <4>2, CurrentIs DEF Log!Finished
      <4> QED
        BY <4>1, <4>3
    <3> QED
      BY <2>3, <3>1, <3>2, <3>3
  <2>6. Appends(r, q)
    BY <1>2, <2>1, <2>2, <2>5 DEF Appends
  <2> QED
    BY <2>6 DEF Logged
<1> QED
  BY <1>1, <1>2

(* A commit that replaces the room *)
LEMMA CommitStep ==
    ASSUME VetoInv, work # Idle, NEW q, Commit(q), UNCHANGED <<inbox, other, now, acts>>,
           RoomOK(q, now), Since(room, q, MayForce(now)), Ticking(q),
           work.applied => q.revision > room.revision
    PROVE  VetoInv' /\ MayReplace(room, room', MayForce(now))
<1>1. room' = q /\ work' = Idle
  BY DEF Commit
<1>2. /\ q \in Rooms /\ room \in Rooms /\ Moved(room, q)
      /\ q.revision \in Nat /\ room.revision \in Nat /\ q.revision >= room.revision
  BY InvFacts DEF RoomOK, SequenceOK, Since, Allowed, Moved, Rooms
<1>3. \A tab \in Tabs : CommandOK(inbox[tab], q, now)
  BY <1>2, CommandStays DEF VetoInv
<1>4. AnswersOK(answered', q)
  <2>1. /\ answered \subseteq [req : Requests, revision : Nat]
        /\ \A x \in answered : x.req[2] < room.revision
        /\ \A x, y \in answered : x.req = y.req => x = y
    BY DEF VetoInv, AnswersOK
  <2>2. \A x \in answered : x.req[2] \in Nat
    BY <2>1 DEF Requests
  <2>3. \A x \in answered : x.req[2] < q.revision
    BY <1>2, <2>1, <2>2
  <2>4. CASE ~work.applied
    BY <2>1, <2>3, <2>4 DEF Commit, AnswersOK
  <2>5. CASE work.applied
    <3> DEFINE x == [req |-> RequestId(work.by, work.cmd), revision |-> q.revision]
    <3>1. answered' = answered \cup {x}
      BY <2>5 DEF Commit
    <3>2. work.by \in Tabs /\ work.cmd.revision = room.revision
      BY <2>5, InvFacts DEF WorkOK
    <3>3. x.req = <<work.by, work.cmd.revision>> /\ x.req \in Requests /\ x.req[2] = room.revision
      BY <1>2, <3>2 DEF RequestId, Requests
    <3>4. x \in [req : Requests, revision : Nat] /\ x.req[2] < q.revision
      BY <1>2, <2>5, <3>3
    <3> HIDE DEF x
    <3>5. \A y \in answered : y.req # x.req
      BY <1>2, <2>1, <2>2, <3>3
    <3> QED
      BY <2>1, <2>3, <3>1, <3>4, <3>5 DEF AnswersOK
  <2> QED
    BY <2>4, <2>5, InvFacts
<1>5. VetoInv'
  BY <1>1, <1>3, <1>4 DEF VetoInv
<1>6. Logged(room, q)
  <2>1. SequenceOK(room) /\ SequenceOK(q) /\ ClockOK(q, now) /\ Grown(room, q)
    BY InvFacts DEF RoomOK, Since
  <2> QED
    BY <1>2, <2>1, GrownIsLogged
<1> QED
  BY <1>1, <1>5, <1>6 DEF Since, MayReplace

(* An administrator's write *)
LEMMA WriteStep ==
    ASSUME VetoInv, NEW q, Write(q), RoomOK(q, now), MayReplace(room, q, MayForce(now)), Ticking(q),
           acts' \in 0..MaxInterventions
    PROVE  VetoInv' /\ MayReplace(room, room', MayForce(now))
<1>1. room' = q /\ work' = Idle /\ UNCHANGED <<inbox, answered, other, now>>
  BY DEF Write
<1>2. /\ q \in Rooms /\ room \in Rooms /\ Moved(room, q)
      /\ q.revision \in Nat /\ room.revision \in Nat /\ q.revision >= room.revision
  BY InvFacts DEF RoomOK, SequenceOK, MayReplace, Allowed, Moved, Rooms
<1>3. \A tab \in Tabs : CommandOK(inbox[tab], q, now)
  BY <1>2, CommandStays DEF VetoInv
<1>4. AnswersOK(answered, q)
  <2>1. /\ answered \subseteq [req : Requests, revision : Nat]
        /\ \A x \in answered : x.req[2] < room.revision
        /\ \A x, y \in answered : x.req = y.req => x = y
    BY DEF VetoInv, AnswersOK
  <2>2. \A x \in answered : x.req[2] \in Nat
    BY <2>1 DEF Requests
  <2>3. \A x \in answered : x.req[2] < q.revision
    BY <1>2, <2>1, <2>2
  <2> QED
    BY <2>1, <2>3 DEF AnswersOK
<1>5. VetoInv'
  BY <1>1, <1>3, <1>4 DEF VetoInv
<1> QED
  BY <1>1, <1>5

(* A transaction whose reconcile has brought its room up to date *)
LEMMA BroughtForward ==
    ASSUME NEW r, NEW w, NEW v \in Works, NEW at, NEW force, WorkOK(w, r, at, force), w.then = "command",
           v.step = "command", v.then = "command", v.by = w.by, v.cmd = w.cmd, v.at = w.at,
           v.applied = w.applied,
           RoomOK(v.room, at), Since(r, v.room, force), Ticking(v.room)
    PROVE  WorkOK(v, r, at, force)
<1>1. /\ w.at <= at /\ w.by \in Tabs /\ ~w.applied /\ w.cmd.kind \in {"start", "answer"}
      /\ CommandOK(w.cmd, r, at) /\ w.cmd.at # NoTime /\ (w.cmd.kind = "answer" => w.at = w.cmd.at)
  BY DEF WorkOK
<1>2. CommandOK(v.cmd, r, at)
  BY <1>1, Zenon
<1> QED
  BY <1>1, <1>2 DEF WorkOK

(* A reconcile that returns its room *)
LEMMA ReturnStep ==
    ASSUME VetoInv, work # Idle, work.step = "turns", NEW q, Return(q),
           UNCHANGED <<inbox, other, now, acts>>,
           RoomOK(q, now), Since(room, q, MayForce(now)), Ticking(q),
           q.revision >= work.room.revision
    PROVE  VetoInv' /\ MayReplace(room, room', MayForce(now))
<1>1. WorkOK(work, room, now, MayForce(now)) /\ work \in Works /\ work.room \in Rooms /\ room \in Rooms
  BY InvFacts
<1>2. work.room.revision \in Nat /\ q.revision \in Nat /\ room.revision \in Nat
  BY <1>1 DEF Rooms, RoomOK, SequenceOK
<1>3. CASE work.then = "commit" /\ Commit(q)
  BY <1>1, <1>2, <1>3, CommitStep DEF WorkOK
<1>4. CASE work.then = "command" /\ work' = [work EXCEPT !.step = "command", !.room = q]
           /\ UNCHANGED <<room, answered>>
  <2>1. q \in Rooms
    BY DEF RoomOK, SequenceOK
  <2>2. work' \in Works
    BY <1>1, <1>4, <2>1 DEF Works
  <2>3. /\ work'.step = "command" /\ work'.room = q /\ work'.then = "command" /\ work'.by = work.by
        /\ work'.cmd = work.cmd /\ work'.at = work.at /\ work'.applied = work.applied
    BY <1>1, <1>4 DEF Works
  <2>4. ~work.applied
    BY <1>1, <1>4 DEF WorkOK
  <2>5. RoomOK(work'.room, now) /\ Since(room, work'.room, MayForce(now)) /\ Ticking(work'.room)
    BY <2>3, Zenon
  <2>6. WorkOK(work', room, now, MayForce(now))
    BY <1>1, <1>4, <2>2, <2>3, <2>5, BroughtForward
  <2> QED
    BY <1>4, <2>6, WorkStep
<1> QED
  BY <1>3, <1>4 DEF Return

-----------------------------------------------------------------------------
(* The reconcile loop *)

(* A transaction that has gone round the loop once *)
LEMMA Looped ==
    ASSUME NEW r, NEW w \in Works, NEW v \in Works, NEW at, NEW force, WorkOK(w, r, at, force),
           w.step # "command", v.step = "turns", v.then = w.then, v.by = w.by, v.cmd = w.cmd,
           v.at = w.at, v.applied = w.applied,
           RoomOK(v.room, at), Since(r, v.room, force), r.revision \in Nat,
           Winding(v.room), Pending(v.room) => r.start <= w.at,
           v.room.revision >= w.room.revision
    PROVE  WorkOK(v, r, at, force)
<1>1. /\ w.at <= at
      /\ w.then = "command" =>
          /\ w.by \in Tabs /\ ~w.applied /\ w.cmd.kind \in {"start", "answer"}
          /\ CommandOK(w.cmd, r, at) /\ w.cmd.at # NoTime /\ (w.cmd.kind = "answer" => w.at = w.cmd.at)
      /\ w.applied =>
          w.by \in Tabs /\ w.cmd.revision = r.revision /\ w.room.revision > r.revision
  BY DEF WorkOK
<1>2. CommandOK(v.cmd, r, at) <=> CommandOK(w.cmd, r, at)
  BY Zenon
<1>3. w.room.revision \in Nat /\ v.room.revision \in Nat
  BY DEF Works, Rooms
<1> QED
  BY <1>1, <1>2, <1>3 DEF WorkOK

(* A turn of the reconciliation loop leaves a copy that may still replace  *)
(* the saved room.                                                         *)
LEMMA LoopStep ==
    ASSUME VetoInv, work # Idle, work.step \in {"start", "turns"}, NEW q,
           \/ work' = [work EXCEPT !.step = "turns", !.room = q]
           \/ work.step = "turns" /\ work' = [work EXCEPT !.room = q],
           UNCHANGED <<room, inbox, answered, other, now, acts>>,
           RoomOK(q, now), Since(room, q, MayForce(now)), Winding(q),
           Pending(q) => room.start <= work.at, q.revision >= work.room.revision
    PROVE  VetoInv' /\ MayReplace(room, room', MayForce(now))
<1>1. WorkOK(work, room, now, MayForce(now)) /\ work \in Works /\ room \in Rooms /\ q \in Rooms
  BY InvFacts DEF RoomOK, SequenceOK
<1>2. work' \in Works
  BY <1>1 DEF Works
<1>3. /\ work'.step = "turns" /\ work'.room = q /\ work'.then = work.then /\ work'.by = work.by
      /\ work'.cmd = work.cmd /\ work'.at = work.at /\ work'.applied = work.applied
  BY <1>1 DEF Works
<1>4. /\ RoomOK(work'.room, now) /\ Since(room, work'.room, MayForce(now)) /\ Winding(work'.room)
      /\ (Pending(work'.room) => room.start <= work.at)
  BY <1>3, Zenon
<1>5. work'.room.revision >= work.room.revision /\ room.revision \in Nat
  BY <1>1, <1>3 DEF Rooms
<1>6. WorkOK(work', room, now, MayForce(now))
  BY <1>1, <1>2, <1>3, <1>4, <1>5, Looped
<1> QED
  BY <1>6, WorkStep

(* A room in play that has gone forward since *)
LEMMA ForwardSince ==
    ASSUME NEW r \in Rooms, NEW w \in Rooms, NEW q \in Rooms, NEW force, Since(r, w, force),
           w.started, ~w.completed, q.started, People(q) = People(w), q.revision > w.revision, Onward(r, q),
           Grown(w, q)
    PROVE  Since(r, q, force)
<1>1. w.revision \in Nat /\ q.revision \in Nat
  BY DEF Rooms
<1>2. Moved(w, q)
  BY <1>1 DEF Moved
<1> QED
  BY <1>2, SinceThen

(* A room that may be forced at one instant may be forced later. *)
LEMMA ForceStays ==
    ASSUME other \in [busy : BOOLEAN, endedAt : Times], NEW a \in Nat, NEW b \in Nat, a <= b, MayForce(a)
    PROVE  MayForce(b)
<1>1. other.endedAt \in Int /\ ScheduledAt \in Int /\ ForceGrace \in Int
  BY RoomAssumption DEF Times, NoTime
<1>2. Max({ScheduledAt, other.endedAt}) \in Int
  <2> DEFINE pair == {ScheduledAt, other.endedAt}
  <2>1. \E x \in pair : \A y \in pair : x >= y
    BY <1>1
  <2>2. Max(pair) \in pair
    BY <2>1 DEF Max
  <2> QED
    BY <1>1, <2>2
<1>3. ForceAt \in Int
  BY <1>1, <1>2 DEF ForceAt, NoTime
<1> QED
  BY <1>3 DEF MayForce

(* A match that starts has nothing behind it. *)
LEMMA StartedOK ==
    ASSUME NEW r \in Rooms, SequenceOK(r), ~r.started, r.privileged # NoEntry
    PROVE  LET q == [r EXCEPT !.status = "in_progress", !.started = TRUE]
           IN  /\ q \in Rooms /\ SequenceOK(q) /\ q.started /\ q.paused = NoTime
               /\ q.status = "in_progress" /\ Current(q) = 0
               /\ People(q) = People(r) /\ q.revision = r.revision
<1> DEFINE q == [r EXCEPT !.status = "in_progress", !.started = TRUE]
<1>1. q \in Rooms
  BY DEF Rooms
<1>2. /\ q.status = "in_progress" /\ q.privileged = r.privileged /\ q.vetoA = r.vetoA
      /\ q.started /\ q.completed = r.completed /\ q.steps = r.steps
      /\ q.incidents = r.incidents /\ q.plan = r.plan /\ q.played = r.played /\ q.paused = r.paused
      /\ People(q) = People(r) /\ q.revision = r.revision
  BY DEF Rooms, People
<1> HIDE DEF q
<1>3. r.vetoA = NoEntry /\ ~r.completed /\ r.paused = NoTime
  BY DEF SequenceOK, BeforeStart
<1>4. Legal(q.privileged, q.vetoA, q.steps) /\ Recorded(q)
  BY <1>2, <1>3 DEF SequenceOK, Recorded
<1>5. BeforeStart(q) /\ PlanOK(q)
  BY <1>2, <1>3 DEF SequenceOK, BeforeStart, PlanOK
<1>6. CurrentTurn(q.privileged, q.vetoA, q.steps) = 0
  BY <1>2, <1>3, CurrentIs
<1>7. Current(q) = 0
  BY <1>2, <1>3, <1>6 DEF Current
<1> QED
  BY <1>1, <1>2, <1>3, <1>4, <1>5, <1>7 DEF SequenceOK, q

(* Starting the session opens the choice of roles on the clock and keeps   *)
(* the invariant.                                                          *)
LEMMA StartSessionStep ==
    ASSUME VetoInv, StartSession
    PROVE  VetoInv' /\ MayReplace(room, room', MayForce(now))
<1> DEFINE r == work.room
           b == [r EXCEPT !.status = "in_progress", !.started = TRUE]
           q == OnTheClock(b, 0, work.at)
<1>1. /\ work.step = "start" /\ MayStart(r, work.at)
      /\ work' = [work EXCEPT !.step = "turns", !.room = q]
      /\ UNCHANGED <<room, inbox, answered, other, now, acts>>
  BY DEF StartSession
<1>2. work # Idle
  BY <1>1 DEF Idle
<1>3. /\ room \in Rooms /\ r \in Rooms /\ SequenceOK(r) /\ SequenceOK(room)
      /\ Since(room, r, MayForce(now)) /\ work.at \in Nat /\ now \in Nat /\ work.at <= now
      /\ ClockOK(room, now)
  BY <1>2, InvFacts DEF WorkOK
<1>4. ~r.started /\ r.status = "scheduled" /\ r.privileged # NoEntry
  BY <1>1 DEF MayStart
<1>5. /\ b \in Rooms /\ SequenceOK(b) /\ b.started /\ b.paused = NoTime /\ Current(b) = 0
      /\ People(b) = People(r) /\ b.revision = r.revision
  BY <1>3, <1>4, StartedOK
<1>5b. /\ b.vetoA = r.vetoA /\ b.steps = r.steps /\ b.played = r.played
       /\ b.status = "in_progress"
  BY <1>3 DEF Rooms
<1> HIDE DEF b
<1>6. RoomOK(q, now) /\ Winding(q) /\ Current(q) = 0
  BY <1>3, <1>5, OnTheClockOK
<1>7. /\ q \in Rooms /\ Sequence(q) = Sequence(b) /\ People(q) = People(b)
      /\ q.revision = b.revision + 1 /\ q.start = work.at
  <2>1. PICK t \in {0} \cup Turns : t = 0
    OBVIOUS
  <2>2. q = OnTheClock(b, t, work.at)
    BY <2>1
  <2>3. b \in Rooms /\ work.at \in Nat
    BY <1>3, <1>5
  <2> HIDE DEF r, q
  <2> QED
    BY <2>2, <2>3, OnTheClockFields
<1> HIDE DEF q
<1>8. q.started /\ r.revision \in Nat /\ room.revision \in Nat
  BY <1>3, <1>5, <1>7 DEF Sequence, Rooms
<1>9. ~room.started /\ room.status = "scheduled"
  BY <1>3, <1>4 DEF Since
<1>10. room.start = NoTime /\ room.played = {}
  BY <1>3, <1>9 DEF SequenceOK, BeforeStart, PlanOK
<1>11. Agreed(r, MayForce(now))
  <2>1. CASE BothRepsAsked(r)
    BY <2>1 DEF Agreed, BothRepsAsked, RepAsked, Entries
  <2>2. CASE MayForce(work.at) /\ \E e \in Entries : RepAsked(r, e) \/ CaptainAsked(r, e)
    <3>1. MayForce(now)
      BY <1>3, <2>2, ForceStays DEF VetoInv
    <3> QED
      BY <2>2, <3>1 DEF Agreed, RepAsked, CaptainAsked
  <2> QED
    BY <1>1, <2>1, <2>2 DEF MayStart
<1>12. Agreed(q, MayForce(now))
  BY <1>5, <1>7, <1>11 DEF Agreed, People
<1>13. Moved(room, q)
  BY <1>3, <1>5, <1>7, <1>8 DEF Since, Allowed, Moved
<1>14. Since(room, q, MayForce(now))
  <2>1. Grown(room, q)
    <3>1. Grown(room, r) /\ ~r.completed
      BY <1>3, <1>4 DEF Since, SequenceOK, BeforeStart
    <3>2. q.vetoA = r.vetoA /\ q.steps = r.steps /\ q.played = r.played /\ q.status # "ended"
      BY <1>3, <1>5b, <1>7 DEF Sequence
    <3> QED
      BY <1>9, <1>10, <3>1, <3>2 DEF Grown
  <2> QED
    BY <1>8, <1>9, <1>10, <1>12, <1>13, <2>1 DEF Since, Allowed, Onward, Starts
<1>15. ~Pending(q)
  BY <1>6 DEF Pending, IsSystem
<1>16. q.revision >= r.revision
  BY <1>5, <1>7, <1>8
<1> QED
  BY <1>1, <1>2, <1>6, <1>14, <1>15, <1>16, LoopStep

(* A room that may not start goes on to its turns unchanged. *)
LEMMA SkipStartStep ==
    ASSUME VetoInv, SkipStart
    PROVE  VetoInv' /\ MayReplace(room, room', MayForce(now))
<1> DEFINE q == work.room
<1>1. /\ work.step = "start" /\ work' = [work EXCEPT !.step = "turns"]
      /\ UNCHANGED <<room, inbox, answered, other, now, acts>>
  BY DEF SkipStart
<1>2. work # Idle
  BY <1>1 DEF Idle
<1>3. work \in Works /\ WorkOK(work, room, now, MayForce(now)) /\ q.revision \in Nat
  BY <1>2, InvFacts DEF Rooms
<1>4. work' = [work EXCEPT !.step = "turns", !.room = q]
  BY <1>1, <1>3 DEF Works
<1>5. /\ RoomOK(q, now) /\ Since(room, q, MayForce(now)) /\ Winding(q)
      /\ (Pending(q) => room.start <= work.at) /\ q.revision >= work.room.revision
  BY <1>1, <1>3 DEF WorkOK
<1> HIDE DEF q
<1> QED
  BY <1>1, <1>2, <1>4, <1>5, LoopStep

(* A room that is not in play leaves the loop as it is. *)
LEMMA OutOfPlayStep ==
    ASSUME VetoInv, OutOfPlay
    PROVE  VetoInv' /\ MayReplace(room, room', MayForce(now))
<1> DEFINE q == work.room
<1>1. /\ work.step = "turns" /\ ~InPlay(q) /\ Return(q) /\ UNCHANGED <<inbox, other, now, acts>>
  BY DEF OutOfPlay
<1>2. work # Idle
  BY <1>1 DEF Idle
<1>3. WorkOK(work, room, now, MayForce(now)) /\ q.revision \in Nat
  BY <1>2, InvFacts DEF Rooms
<1>4. RoomOK(q, now) /\ Since(room, q, MayForce(now)) /\ Ticking(q) /\ q.revision >= work.room.revision
  BY <1>1, <1>3 DEF WorkOK, Ticking
<1> HIDE DEF q
<1> QED
  BY <1>1, <1>2, <1>4, ReturnStep

(* What the loop works on: a room in play *)
LEMMA LoopFacts ==
    ASSUME VetoInv, Looping
    PROVE  /\ work # Idle /\ work.step = "turns"
           /\ work.room \in Rooms /\ room \in Rooms /\ SequenceOK(work.room) /\ InPlay(work.room)
           /\ ClockOK(work.room, now) /\ ClockOK(room, now)
           /\ work.room.started /\ ~work.room.completed
           /\ Since(room, work.room, MayForce(now)) /\ Winding(work.room)
           /\ (Pending(work.room) => room.start <= work.at)
           /\ work.room.revision \in Nat
           /\ work.at \in Nat /\ now \in Nat /\ work.at <= now
           /\ work.room.start \in Times /\ work.room.deadline \in Times /\ room.start \in Times
<1>1. work.step = "turns" /\ InPlay(work.room)
  BY DEF Looping
<1>2. work # Idle
  BY <1>1 DEF Idle
<1>3. WorkOK(work, room, now, MayForce(now)) /\ work.room \in Rooms /\ room \in Rooms
  BY <1>2, InvFacts
<1>4. work.room.revision \in Nat /\ work.room.start \in Times /\ work.room.deadline \in Times /\ room.start \in Times
  BY <1>3 DEF Rooms
<1> QED
  BY <1>1, <1>2, <1>3, <1>4, InvFacts DEF WorkOK, InPlay

(* With no turn left, the loop ends with the plan of maps. *)
LEMMA CompletePlanStep ==
    ASSUME VetoInv, CompletePlan
    PROVE  VetoInv' /\ MayReplace(room, room', MayForce(now))
<1> DEFINE r == work.room
           q == Planned(r)
<1>1. /\ Looping /\ Current(r) = NoTurn /\ Return(q) /\ UNCHANGED <<inbox, other, now, acts>>
  BY DEF CompletePlan
<1>2. /\ r \in Rooms /\ room \in Rooms /\ SequenceOK(r) /\ InPlay(r) /\ r.started /\ ~r.completed
      /\ Since(room, r, MayForce(now)) /\ work # Idle /\ work.step = "turns" /\ now \in Nat
      /\ r.revision \in Nat
  BY <1>1, LoopFacts
<1> HIDE DEF r
<1>3. /\ RoomOK(q, now) /\ q.started /\ q.completed /\ Grown(r, q)
      /\ People(q) = People(r) /\ q.revision = r.revision + 1 /\ q.start = NoTime
  BY <1>1, <1>2, PlannedOK
<1> HIDE DEF q
<1>4. q \in Rooms /\ q.revision > r.revision /\ q.revision >= r.revision
  BY <1>2, <1>3 DEF RoomOK, SequenceOK
<1>5. Since(room, q, MayForce(now))
  BY <1>2, <1>3, <1>4, ForwardSince DEF Onward
<1>6. Ticking(q)
  BY <1>3 DEF Ticking, InPlay
<1> QED
  BY <1>1, <1>2, <1>3, <1>4, <1>5, <1>6, ReturnStep DEF r

(* A turn whose time is not up ends the loop, named as the current one. *)
LEMMA NotDueStep ==
    ASSUME VetoInv, NotDue
    PROVE  VetoInv' /\ MayReplace(room, room', MayForce(now))
<1> DEFINE r == work.room
           t == Current(r)
           k == [r EXCEPT !.key = t, !.revision = @ + 1]
<1>1. /\ Looping /\ t # NoTurn /\ ~IsSystem(t) /\ UNCHANGED <<inbox, other, now, acts>>
      /\ Return(IF r.key = t THEN r ELSE k)
  BY DEF NotDue
<1>2. /\ r \in Rooms /\ room \in Rooms /\ SequenceOK(r) /\ InPlay(r) /\ r.started /\ ~r.completed
      /\ Since(room, r, MayForce(now)) /\ work # Idle /\ work.step = "turns" /\ now \in Nat
      /\ r.revision \in Nat /\ ClockOK(r, now) /\ Winding(r)
  BY <1>1, LoopFacts
<1>3. t \in TurnKeys
  BY <1>2, RoomTurn
<1>4. Timed(r, t)
  BY <1>1, <1>2 DEF Winding, Pending
<1>5. CASE r.key = t
  <2>1. Ticking(r) /\ RoomOK(r, now) /\ Return(r) /\ r.revision >= work.room.revision
    BY <1>1, <1>2, <1>4, <1>5 DEF Ticking, RoomOK
  <2> HIDE DEF r
  <2> QED
    BY <1>1, <1>2, <2>1, ReturnStep
<1>6. CASE r.key # t
  <2> r.revision + 1 \in Nat
    BY <1>2
  <2>1. k \in Rooms
    BY <1>2, <1>3 DEF Rooms
  <2>2. /\ Sequence(k) = Sequence(r) /\ People(k) = People(r) /\ k.start = r.start
        /\ k.deadline = r.deadline /\ k.paused = r.paused /\ k.revision = r.revision + 1 /\ k.key = t
    BY <1>2 DEF Rooms, Sequence, People
  <2>3. Return(k) /\ r = work.room
    BY <1>1, <1>6
  <2> HIDE DEF k
  <2>4. SequenceOK(k) /\ Current(k) = t /\ InPlay(k)
    BY <1>2, <2>1, <2>2, SameSequence
  <2>5. Timed(k, t)
    BY <1>4, <2>2 DEF Timed
  <2>6. RoomOK(k, now) /\ Ticking(k)
    BY <1>2, <2>2, <2>4, <2>5 DEF RoomOK, Ticking, ClockOK, InPlay, Sequence
  <2>7. k.started /\ k.revision > r.revision /\ k.revision >= r.revision
    BY <1>2, <2>2 DEF Sequence
  <2>g. Grown(r, k)
    BY <2>2, SequenceGrows
  <2>8. Onward(room, k)
    BY <1>2, <2>2 DEF Since, Allowed, Onward
  <2>9. Since(room, k, MayForce(now))
    BY <1>2, <2>1, <2>2, <2>7, <2>8, <2>g, ForwardSince
  <2> HIDE DEF r, t
  <2> QED
    BY <1>1, <1>2, <2>3, <2>6, <2>7, <2>9, ReturnStep
<1> QED
  BY <1>5, <1>6

(* The actor of a turn *)
LEMMA ActorType ==
    ASSUME NEW r \in Rooms, NEW t \in {0} \cup Turns
    PROVE  /\ Actor(r, t) \in Entries \cup {NoEntry}
           /\ t # 0 /\ r.vetoA # NoEntry /\ ~IsSystem(t) => Actor(r, t) \in Entries
<1>1. r.privileged \in Entries \cup {NoEntry} /\ r.vetoA \in Entries \cup {NoEntry}
  BY DEF Rooms
<1> QED
  BY <1>1 DEF Actor, ActorEntry, Other, Entries, IsSystem

(* A step for the current turn *)
LEMMA StepIs ==
    ASSUME NEW r \in Rooms, SequenceOK(r), NEW t \in Turns, t = Current(r), NEW i \in Nat \ {0},
           NEW map \in Maps, NEW side \in Sides \cup {NoSide},
           NEW source \in {"participant", "timeout", "system"}, NEW req \in Requests \cup {NoRequest}
    PROVE  LET s == Step(r, t, i, map, side, source, req)
           IN  /\ s \in Steps
               /\ s.order = Cardinality(r.steps) + i /\ s.turn = t /\ s.map = map /\ s.side = side
               /\ s.entry = Actor(r, t) /\ s.entry = ActorEntry(r.privileged, r.vetoA, t)
               /\ s.source = source
<1>1. NextOrder(r.steps) = Cardinality(r.steps) + 1 /\ Cardinality(r.steps) \in Nat
  BY NextOrderIs, LegalType DEF SequenceOK
<1>2. NextOrder(r.steps) + i - 1 = Cardinality(r.steps) + i /\ Cardinality(r.steps) + i \in Nat
  BY <1>1
<1>3. Actor(r, t) \in Entries \cup {NoEntry}
  BY ActorType
<1>4. Actor(r, t) = ActorEntry(r.privileged, r.vetoA, t)
  BY DEF Actor
<1>5. Step(r, t, i, map, side, source, req) =
        [order |-> Cardinality(r.steps) + i, turn |-> t, map |-> map,
         entry |-> Actor(r, t), side |-> side, source |-> source, req |-> req]
  BY <1>2, Zenon DEF Step
<1> HIDE DEF Step
<1> QED
  BY <1>2, <1>3, <1>4, <1>5 DEF Steps

(* An answer to the current turn *)
LEMMA AddOne ==
    ASSUME NEW r \in Rooms, SequenceOK(r), NEW t \in Turns, t = Current(r),
           NEW s \in Steps, s.order = Cardinality(r.steps) + 1, s.turn = t, s.entry = Actor(r, t),
           IF Format[t].action = "side_pick" THEN s.map = MapToSide(r.steps, t)
           ELSE s.map \in EligibleMaps(r.steps)
    PROVE  Legal(r.privileged, r.vetoA, r.steps \cup {s})
<1> DEFINE p == r.privileged
           v == r.vetoA
           steps == r.steps
           new == {s}
           k == 1
<1>1. Legal(p, v, steps) /\ Cardinality(steps) \in Nat /\ Cardinality(StepsAt(steps, t)) \in Nat
  BY LegalType DEF SequenceOK
<1>2. t = CurrentTurn(p, v, steps)
  <2> t # NoTurn
    BY FormatType DEF NoTurn
  <2> QED
    BY RoomTurn
<1>3. Cardinality(StepsAt(steps, t)) + k <= Format[t].count
  <2>1. ~(Cardinality(StepsAt(steps, t)) >= Format[t].count)
    BY <1>2, CurrentIs DEF Answered
  <2> QED
    BY <1>1, <2>1, FormatType
<1>4. {x.order : x \in new} = Cardinality(steps) + 1..Cardinality(steps) + k
  BY <1>1
<1>5. new \subseteq Steps /\ \A x \in new : x.turn = t /\ x.entry = ActorEntry(p, v, t)
  BY DEF Actor
<1>6. /\ Format[t].action = "side_pick" => \A x \in new : x.map = MapToSide(steps, t)
      /\ Format[t].action # "side_pick" =>
            /\ \A x \in new : x.map \in EligibleMaps(steps)
            /\ \A x, y \in new : x.map = y.map => x = y
  OBVIOUS
<1>7. k \in Nat /\ \A x, y \in new : x.order = y.order => x = y
  OBVIOUS
<1> HIDE DEF p, v, steps, new, k
<1>8. Legal(p, v, steps \cup new)
  BY <1>1, <1>2, <1>3, <1>4, <1>5, <1>6, <1>7, AddSteps
<1> QED
  BY <1>8 DEF p, v, steps, new

(* A turn that the loop has answered *)
LEMMA AdvanceStep ==
    ASSUME VetoInv, Looping, NEW b \in Rooms, SequenceOK(b), InPlay(b), Grown(work.room, b),
           People(b) = People(work.room), b.revision = work.room.revision,
           NEW t \in TurnKeys, NEW start \in Nat, room.start <= start, start <= work.at,
           work' = [work EXCEPT !.room = Advanced(OffTheClock(b, t), start)],
           UNCHANGED <<room, inbox, answered, other, now, acts>>
    PROVE  VetoInv' /\ MayReplace(room, room', MayForce(now))
<1> DEFINE r == work.room
           q == Advanced(OffTheClock(b, t), start)
<1>1. /\ r \in Rooms /\ room \in Rooms /\ r.started /\ ~r.completed
      /\ Since(room, r, MayForce(now)) /\ work # Idle /\ work.step = "turns" /\ now \in Nat
      /\ r.revision \in Nat /\ work.at \in Nat /\ work.at <= now /\ room.start \in Times
  BY LoopFacts
<1>2. work' = [work EXCEPT !.room = q]
  OBVIOUS
<1>3. /\ RoomOK(q, now) /\ Winding(q) /\ q.started /\ Grown(r, q)
      /\ People(q) = People(b) /\ q.revision > b.revision /\ q.start \in {NoTime, start}
  <2>1. start <= now
    BY <1>1
  <2>2. /\ RoomOK(q, now) /\ Winding(q) /\ q.started /\ Grown(b, q)
        /\ People(q) = People(b) /\ q.revision > b.revision /\ q.start \in {NoTime, start}
    BY <1>1, <2>1, AdvancedOK
  <2>3. Grown(r, b)
    OBVIOUS
  <2> QED
    BY <2>2, <2>3, GrownThen
<1> HIDE DEF q
<1>4. q \in Rooms /\ q.revision \in Nat
  BY <1>3 DEF RoomOK, SequenceOK, Rooms
<1>5. q.revision > r.revision /\ q.revision >= r.revision
  BY <1>1, <1>3, <1>4
<1>6. Onward(room, q)
  BY <1>3 DEF Onward
<1>7. Since(room, q, MayForce(now))
  BY <1>1, <1>3, <1>4, <1>5, <1>6, ForwardSince
<1>8. room.start <= work.at
  BY <1>1 DEF Times, NoTime
<1> QED
  BY <1>1, <1>2, <1>3, <1>5, <1>7, <1>8, LoopStep

(* The system's own turn adds the decider, and the loop goes on. *)
LEMMA AppendDeciderStep ==
    ASSUME VetoInv, AppendDecider
    PROVE  VetoInv' /\ MayReplace(room, room', MayForce(now))
<1> DEFINE r == work.room
           t == Current(r)
<1>1. /\ Looping /\ t # NoTurn /\ IsSystem(t) /\ UNCHANGED <<room, inbox, answered, other, now, acts>>
  BY DEF AppendDecider
<1>2. PICK map \in EligibleMaps(r.steps) :
         LET chosen == [r EXCEPT !.steps = @ \cup {Step(r, t, 1, map, NoSide, "system", NoRequest)}]
         IN  work' = [work EXCEPT !.room = Advanced(OffTheClock(chosen, t), work.at)]
  BY DEF AppendDecider
<1>3. /\ r \in Rooms /\ SequenceOK(r) /\ InPlay(r) /\ work.at \in Nat
      /\ (Pending(r) => room.start <= work.at)
  BY <1>1, LoopFacts
<1> DEFINE s == Step(r, t, 1, map, NoSide, "system", NoRequest)
           b == WithSteps(r, r.steps \cup {s}, r.incidents)
<1>4. b = [r EXCEPT !.steps = @ \cup {s}]
  BY <1>3 DEF Rooms, WithSteps
<1>5. work' = [work EXCEPT !.room = Advanced(OffTheClock(b, t), work.at)]
  BY <1>2, <1>4
<1>6. t \in Turns /\ t \in TurnKeys /\ Format[t].actor = "system"
  BY <1>1, <1>3, RoomTurn DEF IsSystem
<1>7. Pending(r)
  BY <1>1, <1>3 DEF Pending
<1>8. Format[t].action # "side_pick"
  BY <1>6, FormatType
<1>9. map \in Maps
  BY DEF EligibleMaps
<1> HIDE DEF r, t
<1>10. s \in Steps /\ s.order = Cardinality(r.steps) + 1 /\ s.turn = t /\ s.map = map /\ s.entry = Actor(r, t)
       /\ s.source = "system"
  <2>1. /\ t = Current(r) /\ 1 \in Nat \ {0} /\ NoSide \in Sides \cup {NoSide}
        /\ "system" \in {"participant", "timeout", "system"} /\ NoRequest \in Requests \cup {NoRequest}
    BY DEF t
  <2>2. \A i \in Nat \ {0}, source \in {"participant", "timeout", "system"} :
           LET x == Step(r, t, i, map, NoSide, source, NoRequest)
           IN  /\ x \in Steps /\ x.order = Cardinality(r.steps) + i /\ x.turn = t /\ x.map = map
               /\ x.entry = Actor(r, t) /\ x.source = source
    <3> TAKE i \in Nat \ {0}, source \in {"participant", "timeout", "system"}
    <3> QED
      BY <1>3, <1>6, <1>9, <2>1, StepIs
  <2> QED
    BY <2>1, <2>2
<1> HIDE DEF s
<1>11. Legal(r.privileged, r.vetoA, r.steps \cup {s})
  BY <1>3, <1>6, <1>8, <1>10, AddOne DEF t
<1>12. /\ b \in Rooms /\ SequenceOK(b) /\ InPlay(b) /\ Grown(r, b)
       /\ People(b) = People(r) /\ b.revision = r.revision
  <2>1. r.incidents \in SUBSET Incidents
    BY <1>3 DEF Rooms
  <2> DEFINE steps == r.steps \cup {s}
  <2>2. \A x \in steps \ r.steps : OnRecord(x, r.incidents)
    BY <1>10 DEF OnRecord
  <2>3. r.steps \subseteq steps /\ Legal(r.privileged, r.vetoA, steps)
    BY <1>11
  <2>4. b = WithSteps(r, steps, r.incidents) /\ r.incidents \subseteq r.incidents
    OBVIOUS
  <2> HIDE DEF steps, b
  <2> QED
    BY <1>3, <2>1, <2>2, <2>3, <2>4, AddedOK
<1> HIDE DEF b
<1> QED
  BY <1>1, <1>3, <1>5, <1>6, <1>7, <1>12, AdvanceStep DEF r

(* A turn that is out of time started no earlier than the room shows, and  *)
(* ended before the transaction's instant.                                 *)
LEMMA DueFacts ==
    ASSUME VetoInv, Looping, Current(work.room) # NoTurn, ~IsSystem(Current(work.room)),
           Due(work.room, Current(work.room), work.at)
    PROVE  work.room.deadline \in Nat /\ work.room.deadline <= work.at /\ room.start <= work.room.deadline
<1> DEFINE r == work.room
           t == Current(r)
<1>1. /\ r \in Rooms /\ SequenceOK(r) /\ InPlay(r) /\ Winding(r) /\ ClockOK(r, now)
      /\ Since(room, r, MayForce(now)) /\ work.at \in Nat
      /\ r.start \in Times /\ r.deadline \in Times /\ room.start \in Times
  BY LoopFacts
<1>2. Timed(r, t)
  BY <1>1 DEF Winding, Pending
<1>3. t \in {0} \cup Turns
  BY <1>1, RoomTurn
<1> HIDE DEF r, t
<1>4. /\ r.start \in Nat /\ Duration(t) \in Nat /\ r.deadline = r.start + Duration(t)
  BY <1>1, <1>2, <1>3, DurationType DEF Timed, Times
<1>5. room.start <= r.start
  BY <1>1, <1>4 DEF Since, Allowed, Onward, Times, NoTime
<1>6. r.deadline + Settlement <= work.at
  BY <1>1, <1>4, RoomAssumption DEF Due, r, t
<1> QED
  BY <1>1, <1>4, <1>5, <1>6, RoomAssumption DEF r, Times, NoTime

(* The incident of the current turn *)
LEMMA IncidentType ==
    ASSUME NEW r \in Rooms, NEW t \in {0} \cup Turns, r.deadline \in Nat, Actor(r, t) \in Entries,
           NEW chosen \in SUBSET (Entries \cup Maps \cup Sides)
    PROVE  r.incidents \cup {Incident(r, t, chosen)} \in SUBSET Incidents
<1>1. t \in 0..Len(Format) /\ r.incidents \subseteq Incidents
  <2> Len(Format) \in Nat
    BY VetoAssumption DEF WellFormed
  <2> QED
    BY DEF Rooms, Turns
<1> QED
  BY <1>1 DEF Incident, Incidents

(* A choice of roles whose time is up is made by the system and recorded   *)
(* as an incident.                                                         *)
LEMMA TimeOutRoleStep ==
    ASSUME VetoInv, TimeOutRole
    PROVE  VetoInv' /\ MayReplace(room, room', MayForce(now))
<1> DEFINE r == work.room
<1>1. Looping /\ Current(r) = 0 /\ Due(r, 0, work.at) /\ UNCHANGED <<room, inbox, answered, other, now, acts>>
  BY DEF TimeOutRole
<1>2. PICK e \in Entries :
         work' = [work EXCEPT !.room =
                    OnTheClock([r EXCEPT !.vetoA = e, !.incidents = @ \cup {Incident(r, 0, {e})}],
                               1, r.deadline)]
  BY DEF TimeOutRole
<1> DEFINE all == r.incidents \cup {Incident(r, 0, {e})}
           b == [r EXCEPT !.vetoA = e, !.incidents = all]
           q == OnTheClock(b, 1, r.deadline)
<1>3. /\ r \in Rooms /\ room \in Rooms /\ SequenceOK(r) /\ InPlay(r) /\ r.started /\ ~r.completed
      /\ Since(room, r, MayForce(now)) /\ work # Idle /\ work.step = "turns" /\ now \in Nat
      /\ r.revision \in Nat /\ work.at \in Nat /\ work.at <= now /\ room.start \in Times
  BY <1>1, LoopFacts
<1>4. r.deadline \in Nat /\ r.deadline <= work.at /\ room.start <= r.deadline
  BY <1>1, DueFacts DEF NoTurn, IsSystem
<1>6. work' = [work EXCEPT !.room = q]
  BY <1>2
<1>7. all \in SUBSET Incidents
  <2>1. Actor(r, 0) \in Entries
    <3>1. r.privileged # NoEntry
      BY <1>1, <1>3, RoomTurn DEF NoTurn
    <3> QED
      BY <1>3, <3>1 DEF Actor, ActorEntry, Rooms
  <2> HIDE DEF r
  <2> QED
    BY <1>3, <1>4, <2>1, IncidentType
<1>7a. /\ b \in Rooms /\ BesidesRole(b) = BesidesRole(r) /\ b.vetoA = e /\ b.incidents = all
  BY <1>3, <1>7 DEF Rooms, BesidesRole, People
<1>7b. RoleDrawn(e, Actor(r, 0), all)
  <2>1. /\ Incident(r, 0, {e}).turn = 0 /\ Incident(r, 0, {e}).entry = Actor(r, 0)
        /\ Incident(r, 0, {e}).chosen = {e}
    BY DEF Incident
  <2> QED
    BY <2>1 DEF RoleDrawn
<1> HIDE DEF r, all, b
<1>8. /\ b \in Rooms /\ SequenceOK(b) /\ InPlay(b) /\ People(b) = People(r) /\ b.revision = r.revision
      /\ Current(b) = 1 /\ b.started = r.started /\ b.paused = r.paused /\ Grown(r, b)
  BY <1>1, <1>3, <1>7a, <1>7b, RoleOK
<1>9. 1 \in {0} \cup Turns /\ r.deadline <= now /\ b.started /\ b.paused = NoTime
  BY <1>3, <1>4, <1>8, FormatType DEF InPlay
<1>10. RoomOK(q, now) /\ Winding(q)
  BY <1>3, <1>4, <1>8, <1>9, OnTheClockOK
<1>11. /\ q \in Rooms /\ Sequence(q) = Sequence(b) /\ People(q) = People(b)
       /\ q.revision = b.revision + 1 /\ q.start = r.deadline
  BY <1>4, <1>8, <1>9, OnTheClockFields
<1> HIDE DEF q
<1>12. q.started /\ q.revision > r.revision /\ q.revision >= r.revision /\ Onward(room, q)
  BY <1>3, <1>4, <1>8, <1>9, <1>11 DEF Sequence, Onward
<1>g. Grown(r, q)
  BY <1>8, <1>11, SequenceGrows, GrownThen
<1>13. Since(room, q, MayForce(now))
  BY <1>3, <1>8, <1>11, <1>12, <1>g, ForwardSince
<1>14. room.start <= work.at
  BY <1>3, <1>4 DEF Times, NoTime
<1> QED
  BY <1>1, <1>3, <1>6, <1>10, <1>12, <1>13, <1>14, LoopStep DEF r

(* The steps of a draw *)
Drawn(r, t, draw) ==
    {Step(r, t, i,
          IF draw[i] \in Sides THEN MapToSide(r.steps, t) ELSE draw[i],
          IF draw[i] \in Sides THEN draw[i] ELSE NoSide,
          "timeout", NoRequest) : i \in DOMAIN draw}

(* What was drawn *)
Chosen(draw) == {draw[i] : i \in DOMAIN draw}

(* A draw answers the turn completely, and is made of what its steps show. *)
LEMMA DrawnOK ==
    ASSUME NEW r \in Rooms, SequenceOK(r), NEW t \in Turns, t = Current(r), ~IsSystem(t),
           NEW draw \in Draws(r, t)
    PROVE  /\ Legal(r.privileged, r.vetoA, r.steps \cup Drawn(r, t, draw))
           /\ Chosen(draw) \subseteq Maps \cup Sides
           /\ \A s \in Drawn(r, t, draw) :
                 /\ s.turn = t /\ s.entry = Actor(r, t)
                 /\ Touches(s, Chosen(draw))
<1> DEFINE p == r.privileged
           v == r.vetoA
           steps == r.steps
           new == Drawn(r, t, draw)
           n == Cardinality(steps)
           m == Cardinality(StepsAt(steps, t))
           k == Format[t].count - m
           map(i) == IF draw[i] \in Sides THEN MapToSide(steps, t) ELSE draw[i]
           side(i) == IF draw[i] \in Sides THEN draw[i] ELSE NoSide
           step(i) == Step(r, t, i, map(i), side(i), "timeout", NoRequest)
<1>1. Legal(p, v, steps) /\ n \in Nat /\ m \in Nat
  BY LegalType DEF SequenceOK
<1>2. t = CurrentTurn(p, v, steps)
  <2> t # NoTurn
    BY FormatType DEF NoTurn
  <2> QED
    BY RoomTurn
<1>3. k \in Nat \ {0} /\ m + k <= Format[t].count /\ (Format[t].action = "side_pick" => k = 1)
  <2>1. ~(m >= Format[t].count)
    BY <1>2, CurrentIs DEF Answered
  <2>2. Format[t].count \in Nat \ {0} /\ (Format[t].action = "side_pick" => Format[t].count = 1)
    BY FormatType
  <2> HIDE DEF m
  <2> QED
    BY <1>1, <2>1, <2>2
<1>4. Draws(r, t) = IF Format[t].action = "side_pick" THEN {<<x>> : x \in Sides}
                    ELSE {d \in [1..k -> EligibleMaps(steps)] : \A i, j \in 1..k : d[i] = d[j] => i = j}
  BY DEF Draws
<1>5. new = {step(i) : i \in DOMAIN draw}
  BY DEF Drawn
<1> HIDE DEF p, v, steps, new, n, m, k
<1>6. /\ DOMAIN draw = 1..k
      /\ Format[t].action = "side_pick" =>
            \A i \in 1..k : draw[i] \in Sides /\ map(i) = MapToSide(steps, t) /\ side(i) = draw[i]
      /\ Format[t].action # "side_pick" =>
            /\ \A i \in 1..k : draw[i] \in EligibleMaps(steps) /\ map(i) = draw[i] /\ side(i) = NoSide
            /\ \A i, j \in 1..k : map(i) = map(j) => i = j
  <2>1. CASE Format[t].action = "side_pick"
    <3>1. PICK x \in Sides : draw = <<x>>
      BY <1>4, <2>1
    <3>2. DOMAIN draw = 1..1 /\ draw[1] = x
      BY <3>1
    <3> QED
      BY <1>3, <2>1, <3>2
  <2>2. CASE Format[t].action # "side_pick"
    <3>1. draw \in [1..k -> EligibleMaps(steps)] /\ \A i, j \in 1..k : draw[i] = draw[j] => i = j
      BY <1>4, <2>2
    <3>2. EligibleMaps(steps) \subseteq Maps
      BY DEF EligibleMaps
    <3>3. \A i \in 1..k : draw[i] \in EligibleMaps(steps) /\ draw[i] \notin Sides
      BY <3>1, <3>2, VetoAssumption
    <3> QED
      BY <2>2, <3>1, <3>3
  <2> QED
    BY <2>1, <2>2
<1>7. \A i \in 1..k : map(i) \in Maps /\ side(i) \in Sides \cup {NoSide} /\ draw[i] \in {map(i), side(i)}
                      /\ draw[i] \in Maps \cup Sides
  <2>1. CASE Format[t].action = "side_pick"
    <3>1. \E q \in steps : q.turn = Format[t].from /\ q.map = MapToSide(steps, t)
      BY <1>1, <1>2, <2>1, SideMap
    <3>2. steps \subseteq Steps
      BY <1>1 DEF Legal
    <3>3. MapToSide(steps, t) \in Maps
      BY <3>1, <3>2 DEF Steps
    <3> QED
      BY <1>6, <2>1, <3>3
  <2>2. CASE Format[t].action # "side_pick"
    <3>1. EligibleMaps(steps) \subseteq Maps
      BY DEF EligibleMaps
    <3> QED
      BY <1>6, <2>2, <3>1
  <2> QED
    BY <2>1, <2>2
<1> HIDE DEF map, side
<1>8. \A i \in 1..k :
         LET s == step(i)
         IN  /\ s \in Steps /\ s.order = n + i /\ s.turn = t /\ s.map = map(i) /\ s.side = side(i)
             /\ s.entry = Actor(r, t) /\ s.entry = ActorEntry(p, v, t)
  <2> TAKE i \in 1..k
  <2>1. i \in Nat \ {0} /\ map(i) \in Maps /\ side(i) \in Sides \cup {NoSide}
    BY <1>3, <1>7
  <2> QED
    BY <2>1, StepIs DEF n, p, v, steps
<1> HIDE DEF step
<1>9. /\ new \subseteq Steps
      /\ \A s \in new : s.turn = t /\ s.entry = ActorEntry(p, v, t)
      /\ {s.order : s \in new} = n + 1..n + k
      /\ \A s, q \in new : s.order = q.order => s = q
  <2>1. new = {step(i) : i \in 1..k}
    BY <1>5, <1>6
  <2>2. {s.order : s \in new} = {n + i : i \in 1..k}
    BY <1>8, <2>1
  <2>3. {n + i : i \in 1..k} = n + 1..n + k
    <3>1. \A x \in n + 1..n + k : x - n \in 1..k /\ x = n + (x - n)
      BY <1>1, <1>3
    <3>2. \A i \in 1..k : n + i \in n + 1..n + k
      BY <1>1, <1>3
    <3> QED
      BY <3>1, <3>2
  <2>4. \A i, j \in 1..k : n + i = n + j => i = j
    BY <1>1, <1>3
  <2> QED
    BY <1>8, <2>1, <2>2, <2>3, <2>4
<1>10. /\ Format[t].action = "side_pick" => \A s \in new : s.map = MapToSide(steps, t)
       /\ Format[t].action # "side_pick" =>
            /\ \A s \in new : s.map \in EligibleMaps(steps)
            /\ \A s, q \in new : s.map = q.map => s = q
  BY <1>5, <1>6, <1>8
<1>11. k \in Nat
  BY <1>3
<1>12. Legal(p, v, steps \cup new)
  BY <1>1, <1>2, <1>3, <1>9, <1>10, <1>11, AddSteps DEF n, m
<1>13. \A s \in new : /\ s.turn = t /\ s.entry = Actor(r, t)
                      /\ Touches(s, Chosen(draw))
  BY <1>5, <1>6, <1>7, <1>8 DEF Chosen, Touches
<1>14. Chosen(draw) \subseteq Maps \cup Sides
  BY <1>6, <1>7 DEF Chosen
<1> QED
  BY <1>12, <1>13, <1>14 DEF p, v, steps, new

(* A turn whose time is up is drawn from what is left and recorded as an   *)
(* incident.                                                               *)
LEMMA TimeOutTurnStep ==
    ASSUME VetoInv, TimeOutTurn
    PROVE  VetoInv' /\ MayReplace(room, room', MayForce(now))
<1> DEFINE r == work.room
           t == Current(r)
<1>1. /\ Looping /\ t > 0 /\ ~IsSystem(t) /\ Due(r, t, work.at)
      /\ UNCHANGED <<room, inbox, answered, other, now, acts>>
  BY DEF TimeOutTurn
<1>2. PICK draw \in Draws(r, t) :
         work' = [work EXCEPT !.room =
                    Advanced(OffTheClock([r EXCEPT !.steps = @ \cup Drawn(r, t, draw),
                                                   !.incidents = @ \cup {Incident(r, t, Chosen(draw))}],
                                         t), r.deadline)]
  BY DEF TimeOutTurn, Drawn, Chosen
<1> DEFINE chosen == Chosen(draw)
           steps == r.steps \cup Drawn(r, t, draw)
           all == r.incidents \cup {Incident(r, t, chosen)}
           b == WithSteps(r, steps, all)
<1>3. /\ r \in Rooms /\ SequenceOK(r) /\ InPlay(r)
  BY <1>1, LoopFacts
<1>4. b = [r EXCEPT !.steps = @ \cup Drawn(r, t, draw), !.incidents = @ \cup {Incident(r, t, chosen)}]
  BY <1>3 DEF Rooms, WithSteps
<1>5. work' = [work EXCEPT !.room = Advanced(OffTheClock(b, t), r.deadline)]
  BY <1>2, <1>4
<1>6. t \in Turns /\ t \in TurnKeys /\ t # NoTurn
  BY <1>1, <1>3, RoomTurn DEF NoTurn
<1>7. r.deadline \in Nat /\ r.deadline <= work.at /\ room.start <= r.deadline
  BY <1>1, <1>6, DueFacts
<1>8. /\ Legal(r.privileged, r.vetoA, steps)
      /\ chosen \subseteq Maps \cup Sides
      /\ \A s \in Drawn(r, t, draw) : s.turn = t /\ s.entry = Actor(r, t) /\ Touches(s, chosen)
  <2>1. t = Current(r) /\ draw \in Draws(r, t)
    OBVIOUS
  <2> HIDE DEF r, t
  <2>2. /\ Legal(r.privileged, r.vetoA, r.steps \cup Drawn(r, t, draw))
        /\ Chosen(draw) \subseteq Maps \cup Sides
        /\ \A s \in Drawn(r, t, draw) :
              s.turn = t /\ s.entry = Actor(r, t) /\ Touches(s, Chosen(draw))
    BY <1>1, <1>3, <1>6, <2>1, DrawnOK
  <2> QED
    BY <2>2
<1>9. r.vetoA # NoEntry
  <2>1. t \in Nat \ {0}
    BY <1>6, FormatType
  <2> QED
    BY <1>3, <1>6, <2>1, RoomTurn
<1>10. Actor(r, t) \in Entries
  <2>1. t \in {0} \cup Turns /\ t # 0
    BY <1>6, FormatType
  <2> HIDE DEF r
  <2> QED
    BY <1>1, <1>3, <1>9, <2>1, ActorType
<1>11. all \in SUBSET Incidents
  <2>1. t \in {0} \cup Turns /\ chosen \in SUBSET (Entries \cup Maps \cup Sides)
    BY <1>6, <1>8
  <2> HIDE DEF r, chosen
  <2> QED
    BY <1>3, <1>7, <1>10, <2>1, IncidentType
<1>12. \A s \in steps \ r.steps : OnRecord(s, all)
  <2> SUFFICES ASSUME NEW s \in Drawn(r, t, draw) PROVE OnRecord(s, all)
    OBVIOUS
  <2>1. s.turn = t /\ s.entry = Actor(r, t) /\ Touches(s, chosen)
    BY <1>8
  <2> DEFINE i == Incident(r, t, chosen)
  <2>2. i \in all /\ i.turn = t /\ i.entry = Actor(r, t) /\ i.chosen = chosen
    BY DEF Incident
  <2> HIDE DEF i, all, chosen
  <2> QED
    BY <2>1, <2>2 DEF OnRecord
<1> HIDE DEF r, t, chosen
<1>13. r.steps \subseteq steps /\ r.incidents \subseteq all
  OBVIOUS
<1> HIDE DEF steps, all
<1>14. /\ b \in Rooms /\ SequenceOK(b) /\ InPlay(b) /\ Grown(r, b)
       /\ People(b) = People(r) /\ b.revision = r.revision
  BY <1>3, <1>8, <1>11, <1>12, <1>13, AddedOK DEF b
<1> HIDE DEF b
<1> QED
  BY <1>1, <1>5, <1>6, <1>7, <1>14, AdvanceStep DEF r

(* No pass of a reconcile breaks the invariant. *)
LEMMA ReconcileKeeps ==
    ASSUME VetoInv, ReconcileStep
    PROVE  VetoInv' /\ MayReplace(room, room', MayForce(now))
<1>1. CASE StartRefused
  <2>1. work' = Idle /\ UNCHANGED <<room, inbox, answered, other, now, acts>>
    BY <1>1 DEF StartRefused
  <2> QED
    BY <2>1, WorkStep
<1> QED
  BY <1>1, StartSessionStep, SkipStartStep, OutOfPlayStep, CompletePlanStep, AppendDeciderStep,
     NotDueStep, TimeOutRoleStep, TimeOutTurnStep DEF ReconcileStep

-----------------------------------------------------------------------------
(* Visits and commands *)

(* A client's command is sent, received or taken. *)
LEMMA InboxStep ==
    ASSUME VetoInv, UNCHANGED <<room, answered, other, now, acts>>,
           NEW tab \in Tabs, NEW cmd, CommandOK(cmd, room, now), inbox' = [inbox EXCEPT ![tab] = cmd],
           work' = Idle \/ WorkOK(work', room, now, MayForce(now))
    PROVE  VetoInv' /\ MayReplace(room, room', MayForce(now))
<1>1. MayForce(now)' <=> MayForce(now)
  BY DEF MayForce, ForceAt, Blocked
<1>2. MayReplace(room, room', MayForce(now))
  BY InvFacts, SinceItself DEF Since
<1>3. work' = Idle \/ WorkOK(work', room', now', MayForce(now)')
  BY <1>1 DEF WorkOK, Since, Allowed, Starts, Agreed
<1>4. inbox \in [Tabs -> Commands] /\ \A x \in Tabs : CommandOK(inbox[x], room, now)
  BY DEF VetoInv
<1>5. cmd \in Commands
  BY DEF CommandOK
<1>6. inbox' \in [Tabs -> Commands] /\ \A x \in Tabs : inbox'[x] = IF x = tab THEN cmd ELSE inbox[x]
  BY <1>4, <1>5
<1>7. \A x \in Tabs : CommandOK(inbox'[x], room, now)
  BY <1>4, <1>6
<1>8. VetoInv'
  BY <1>3, <1>6, <1>7 DEF VetoInv
<1> QED
  BY <1>2, <1>8

(* A reconcile that begins on a copy of the room *)
LEMMA BegunOK ==
    ASSUME VetoInv, NEW q, RoomOK(q, now), Since(room, q, MayForce(now)), Winding(q),
           NEW at \in Nat, at <= now, Pending(q) => room.start <= at
    PROVE  WorkOK(Reconcile(q, at), room, now, MayForce(now))
<1> DEFINE w == Reconcile(q, at)
<1>1. NoCommand \in Commands
  BY DEF NoCommand, Commands, TurnKeys, Times
<1>2. q \in Rooms
  BY DEF RoomOK, SequenceOK
<1>3. /\ w \in Works /\ w.step = "start" /\ w.then = "commit" /\ w.room = q /\ w.at = at
      /\ w.applied = FALSE
  BY <1>1, <1>2 DEF Reconcile, Works
<1> HIDE DEF w
<1>4. RoomOK(w.room, now) /\ Since(room, w.room, MayForce(now)) /\ Winding(w.room)
      /\ (Pending(w.room) => room.start <= at)
  BY <1>3, Zenon
<1>5. WorkOK(w, room, now, MayForce(now))
  BY <1>3, <1>4 DEF WorkOK
<1> QED
  BY <1>5 DEF w

(* The same on behalf of a client's command *)
LEMMA BegunForOK ==
    ASSUME VetoInv, NEW q, RoomOK(q, now), Since(room, q, MayForce(now)), Winding(q),
           NEW at \in Nat, at <= now, Pending(q) => room.start <= at,
           NEW tab \in Tabs, inbox[tab].kind \in {"start", "answer"}, inbox[tab].at # NoTime,
           inbox[tab].kind = "answer" => at = inbox[tab].at
    PROVE  WorkOK(ReconcileFor(tab, q, at), room, now, MayForce(now))
<1> DEFINE w == ReconcileFor(tab, q, at)
           cmd == inbox[tab]
<1>1. cmd \in Commands /\ CommandOK(cmd, room, now)
  BY DEF VetoInv
<1>2. q \in Rooms
  BY DEF RoomOK, SequenceOK
<1>3. /\ Reconcile(q, at) \in Works /\ Reconcile(q, at).step = "start" /\ Reconcile(q, at).room = q
      /\ Reconcile(q, at).at = at /\ Reconcile(q, at).applied = FALSE
  <2>1. NoCommand \in Commands
    BY DEF NoCommand, Commands, TurnKeys, Times
  <2> QED
    BY <1>2, <2>1 DEF Reconcile, Works
<1>4. /\ w \in Works /\ w.step = "start" /\ w.then = "command" /\ w.room = q /\ w.at = at
      /\ w.applied = FALSE /\ w.by = tab /\ w.cmd = cmd
  BY <1>1, <1>3 DEF ReconcileFor, Works
<1>5. cmd.kind \in {"start", "answer"} /\ cmd.at # NoTime /\ (cmd.kind = "answer" => at = cmd.at)
  OBVIOUS
<1> HIDE DEF w, cmd
<1>6. RoomOK(w.room, now) /\ Since(room, w.room, MayForce(now)) /\ Winding(w.room)
      /\ (Pending(w.room) => room.start <= at) /\ CommandOK(w.cmd, room, now)
  BY <1>1, <1>4, Zenon
<1>7. WorkOK(w, room, now, MayForce(now))
  BY <1>4, <1>5, <1>6 DEF WorkOK
<1> QED
  BY <1>7 DEF w

(* Default lineups change nothing that the sequence depends on. *)
LEMMA MaterializedOK ==
    ASSUME VetoInv, NEW force
    PROVE  LET q == Materialized(room, force)
           IN  /\ RoomOK(q, now) /\ Since(room, q, MayForce(now)) /\ Ticking(q)
               /\ Winding(q) /\ ~Pending(q)
<1> DEFINE q == Materialized(room, force)
<1>1. /\ room \in Rooms /\ SequenceOK(room) /\ ClockOK(room, now) /\ Ticking(room)
      /\ Since(room, room, MayForce(now))
  BY InvFacts, SinceItself DEF VetoInv
<1>2. /\ q \in Rooms
      /\ Sequence(q) = Sequence(room) /\ q.request = room.request
      /\ q.key = room.key /\ q.start = room.start /\ q.deadline = room.deadline
      /\ q.paused = room.paused /\ q.revision = room.revision
  BY <1>1, MaterializedFields
<1> HIDE DEF q
<1>3. SequenceOK(q) /\ Current(q) = Current(room) /\ (InPlay(q) <=> InPlay(room))
  BY <1>1, <1>2, SameSequence
<1>4. RoomOK(q, now)
  BY <1>1, <1>2, <1>3 DEF RoomOK, ClockOK, Timed, Sequence
<1>5. Ticking(q)
  BY <1>1, <1>2, <1>3 DEF Ticking, Timed
<1>6. Winding(q) /\ ~Pending(q)
  BY <1>5 DEF Ticking, Winding, Pending, Timed
<1>7. Since(room, q, MayForce(now))
  BY <1>1, <1>2 DEF Since, Allowed, Moved, Onward, Frozen, Starts, Session, Sequence, Grown
<1> QED
  BY <1>4, <1>5, <1>6, <1>7 DEF q

(* Whoever opens the room starts a reconciliation of the saved one. *)
LEMMA VisitStep ==
    ASSUME VetoInv, VisitRoom
    PROVE  VetoInv' /\ MayReplace(room, room', MayForce(now))
<1> DEFINE q == Materialized(room, FALSE)
<1>1. work' = Reconcile(q, now) /\ UNCHANGED <<room, inbox, answered, other, now, acts>>
  BY DEF VisitRoom
<1>2. RoomOK(q, now) /\ Since(room, q, MayForce(now)) /\ Winding(q) /\ ~Pending(q)
  BY MaterializedOK
<1> HIDE DEF q
<1>3. now \in Nat
  BY InvFacts
<1>4. WorkOK(work', room, now, MayForce(now))
  BY <1>1, <1>2, <1>3, BegunOK
<1> QED
  BY <1>1, <1>4, WorkStep

(* No command on its way breaks the invariant. *)
LEMMA CommandOfKeeps ==
    ASSUME VetoInv, NEW tab \in Tabs, CommandOf(tab)
    PROVE  VetoInv' /\ MayReplace(room, room', MayForce(now))
<1> DEFINE cmd == inbox[tab]
           taken == [cmd EXCEPT !.at = NoTime]
<1>1. /\ cmd \in Commands /\ CommandOK(cmd, room, now) /\ cmd.at \in Times
      /\ room \in Rooms /\ room.revision \in Nat /\ room.key \in TurnKeys /\ room.start \in Times
      /\ room.start <= now /\ now \in Nat /\ inbox \in [Tabs -> Commands] /\ cmd.revision \in Nat
  BY InvFacts DEF VetoInv, Commands, Rooms, ClockOK
<1>2. CommandOK(taken, room, now)
  <2>1. /\ taken \in Commands /\ taken.revision = cmd.revision /\ taken.at = NoTime
    BY <1>1 DEF Commands, Times
  <2> HIDE DEF taken, cmd
  <2> QED
    BY <1>1, <2>1 DEF CommandOK, NoTime
<1>3. CASE Send(tab)
  <2> DEFINE sent == [kind |-> IF room.started THEN "answer" ELSE "start",
                      revision |-> room.revision, key |-> room.key, at |-> NoTime]
  <2>1. /\ work = Idle /\ inbox' = [inbox EXCEPT ![tab] = sent]
        /\ UNCHANGED <<room, work, answered, other, now, acts>>
    BY <1>3 DEF Send
  <2>2. sent \in Commands /\ sent.revision = room.revision /\ sent.at = NoTime
    BY <1>1 DEF Commands, Times
  <2> HIDE DEF sent
  <2>3. CommandOK(sent, room, now)
    BY <1>1, <2>2 DEF CommandOK, NoTime
  <2> QED
    BY <2>1, <2>3, InboxStep
<1>4. CASE Receive(tab)
  <2> DEFINE got == [cmd EXCEPT !.at = now]
  <2>1. /\ work = Idle /\ inbox' = [inbox EXCEPT ![tab] = got]
        /\ UNCHANGED <<room, work, answered, other, now, acts>>
    BY <1>1, <1>4 DEF Receive
  <2>2. got \in Commands /\ got.revision = cmd.revision /\ got.at = now
    BY <1>1 DEF Commands, Times
  <2> HIDE DEF got, cmd
  <2>3. CommandOK(got, room, now)
    BY <1>1, <2>2 DEF CommandOK
  <2> QED
    BY <2>1, <2>3, InboxStep
<1>5. CASE RepeatAnswer(tab)
  <2>1. /\ work = Idle /\ inbox' = [inbox EXCEPT ![tab] = taken]
        /\ UNCHANGED <<room, work, answered, other, now, acts>>
    BY <1>1, <1>5 DEF RepeatAnswer
  <2> HIDE DEF taken
  <2> QED
    BY <1>2, <2>1, InboxStep
<1>6. CASE BeginAnswer(tab)
  <2> DEFINE q == Materialized(room, FALSE)
  <2>1. /\ inbox' = [inbox EXCEPT ![tab] = taken] /\ cmd.kind = "answer" /\ cmd.at # NoTime
        /\ work' = ReconcileFor(tab, q, cmd.at)
        /\ UNCHANGED <<room, answered, other, now, acts>>
    BY <1>1, <1>6 DEF BeginAnswer
  <2>2. cmd.at \in Nat /\ cmd.at <= now
    BY <1>1, <2>1 DEF CommandOK, Times
  <2>3. RoomOK(q, now) /\ Since(room, q, MayForce(now)) /\ Winding(q) /\ ~Pending(q)
    BY MaterializedOK
  <2> HIDE DEF q, taken
  <2>4. WorkOK(work', room, now, MayForce(now))
    BY <2>1, <2>2, <2>3, BegunForOK
  <2> QED
    BY <1>2, <2>1, <2>4, InboxStep
<1>7. CASE BeginStartRequest(tab)
  <2> DEFINE q == Materialized(room, ScheduledAt = NoTime)
  <2>1. /\ inbox' = [inbox EXCEPT ![tab] = taken] /\ cmd.kind = "start" /\ cmd.at # NoTime
        /\ work' = ReconcileFor(tab, q, now)
        /\ UNCHANGED <<room, answered, other, now, acts>>
    BY <1>1, <1>7 DEF BeginStartRequest
  <2>2. RoomOK(q, now) /\ Since(room, q, MayForce(now)) /\ Winding(q) /\ ~Pending(q)
    BY MaterializedOK
  <2> HIDE DEF q, taken
  <2>3. WorkOK(work', room, now, MayForce(now))
    BY <1>1, <2>1, <2>2, BegunForOK
  <2> QED
    BY <1>2, <2>1, <2>3, InboxStep
<1>8. CASE DropUnderStrength(tab)
  <2>1. /\ work = Idle /\ inbox' = [inbox EXCEPT ![tab] = taken]
        /\ UNCHANGED <<room, work, answered, other, now, acts>>
    BY <1>1, <1>8 DEF DropUnderStrength
  <2> HIDE DEF taken
  <2> QED
    BY <1>2, <2>1, InboxStep
<1> QED
  BY <1>3, <1>4, <1>5, <1>6, <1>7, <1>8 DEF CommandOf

(* What a command finds once the room has been brought forward *)
LEMMA CommandFacts ==
    ASSUME VetoInv, work.step = "command"
    PROVE  /\ work # Idle /\ work \in Works /\ work.then = "command" /\ ~work.applied /\ work.by \in Tabs
           /\ work.room \in Rooms /\ room \in Rooms /\ RoomOK(work.room, now) /\ Ticking(work.room)
           /\ SequenceOK(work.room) /\ SequenceOK(room) /\ ClockOK(work.room, now)
           /\ Since(room, work.room, MayForce(now))
           /\ work.cmd \in Commands /\ CommandOK(work.cmd, room, now) /\ work.cmd.at \in Nat
           /\ work.cmd.at <= now /\ now \in Nat
           /\ work.cmd.kind \in {"start", "answer"}
           /\ work.cmd.kind = "answer" => work.at = work.cmd.at
           /\ work.room.revision \in Nat /\ room.revision \in Nat /\ room.start \in Times
           /\ work.room.start \in Times /\ work.cmd.revision \in Nat /\ work.at \in Nat /\ work.at <= now
<1>1. work # Idle
  BY DEF Idle
<1>2. WorkOK(work, room, now, MayForce(now))
  BY <1>1, InvFacts
<1>3. work \in Works /\ work.then = "command" /\ ~work.applied /\ work.by \in Tabs
      /\ RoomOK(work.room, now) /\ Ticking(work.room) /\ Since(room, work.room, MayForce(now))
      /\ CommandOK(work.cmd, room, now) /\ work.cmd.at # NoTime /\ work.cmd.kind \in {"start", "answer"}
      /\ (work.cmd.kind = "answer" => work.at = work.cmd.at)
  BY <1>2 DEF WorkOK
<1>4. work.cmd \in Commands /\ work.cmd.at <= now /\ work.cmd.at \in Nat /\ work.cmd.revision \in Nat
  BY <1>3 DEF CommandOK, Commands, Times
<1>5. work.room \in Rooms /\ room \in Rooms
  BY <1>1, InvFacts
<1>6. work.room.revision \in Nat /\ room.revision \in Nat /\ room.start \in Times /\ work.room.start \in Times
  BY <1>5 DEF Rooms
<1> QED
  BY <1>1, <1>3, <1>4, <1>5, <1>6, InvFacts

(* A command that is not stale finds the room its client saw. *)
LEMMA FreshFacts ==
    ASSUME VetoInv, work.step = "command", Fresh(work.room, work.cmd)
    PROVE  /\ work.cmd.revision = room.revision /\ work.room.revision = room.revision
           /\ work.room.start = room.start /\ room.start <= work.cmd.at
<1>1. /\ work.cmd.revision = work.room.revision /\ work.cmd.revision <= room.revision
      /\ work.room.revision >= room.revision
  BY CommandFacts DEF Fresh, CommandOK, Since, Allowed, Moved
<1>2. work.cmd.revision = room.revision /\ work.room.revision = room.revision
  BY <1>1, CommandFacts
<1>3. Session(work.room) = Session(room)
  BY <1>2, CommandFacts DEF Since, Allowed, Moved
<1>4. work.room.start = room.start
  BY <1>3 DEF Session
<1>5. room.start <= work.cmd.at
  BY <1>2, CommandFacts DEF CommandOK, NoTime
<1> QED
  BY <1>2, <1>4, <1>5

(* A command that no longer applies commits the reconciliation alone. *)
LEMMA IgnoreStep ==
    ASSUME VetoInv, work.step = "command", Ignore
    PROVE  VetoInv' /\ MayReplace(room, room', MayForce(now))
<1> DEFINE q == work.room
<1>1. Commit(q) /\ UNCHANGED <<inbox, other, now, acts>>
  BY DEF Ignore
<1>2. /\ work # Idle /\ RoomOK(q, now) /\ Since(room, q, MayForce(now)) /\ Ticking(q) /\ ~work.applied
  BY CommandFacts
<1> HIDE DEF q
<1> QED
  BY <1>1, <1>2, CommitStep

(* A command that has its effect *)
LEMMA ApplyStep ==
    ASSUME VetoInv, work.step = "command", NEW q, Apply(q), RoomOK(q, now),
           Since(room, q, MayForce(now)), Winding(q), Pending(q) => room.start <= work.at,
           work.cmd.revision = room.revision, q.revision > room.revision
    PROVE  VetoInv' /\ MayReplace(room, room', MayForce(now))
<1>1. /\ work' = [work EXCEPT !.step = "start", !.then = "commit", !.applied = TRUE, !.room = q]
      /\ UNCHANGED <<room, inbox, answered, other, now, acts>>
  BY DEF Apply
<1>2. work \in Works /\ q \in Rooms /\ work.by \in Tabs /\ work.at <= now
  BY CommandFacts DEF RoomOK, SequenceOK
<1>3. work' \in Works
  BY <1>1, <1>2 DEF Works
<1>4. /\ work'.step = "start" /\ work'.room = q /\ work'.then = "commit" /\ work'.by = work.by
      /\ work'.cmd = work.cmd /\ work'.at = work.at
  BY <1>1, <1>2 DEF Works
<1>5. RoomOK(work'.room, now) /\ Since(room, work'.room, MayForce(now)) /\ Winding(work'.room)
      /\ (Pending(work'.room) => room.start <= work'.at) /\ work'.room.revision > room.revision
  BY <1>4, Zenon
<1>6. WorkOK(work', room, now, MayForce(now))
  BY <1>2, <1>3, <1>4, <1>5 DEF WorkOK
<1> QED
  BY <1>1, <1>6, WorkStep

(* A start request is written for its own entry, and the room reconciled   *)
(* again.                                                                  *)
LEMMA RecordStartRequestStep ==
    ASSUME VetoInv, RecordStartRequest
    PROVE  VetoInv' /\ MayReplace(room, room', MayForce(now))
<1> DEFINE r == work.room
           user == UserOf[work.by]
           e == EntryOf[user]
           q == [r EXCEPT !.request[e] = user, !.revision = @ + 1]
<1>1. work.step = "command" /\ ~r.started /\ Fresh(r, work.cmd) /\ Apply(q)
  BY DEF RecordStartRequest, Commanded
<1>2. /\ r \in Rooms /\ room \in Rooms /\ SequenceOK(r) /\ SequenceOK(room) /\ ClockOK(r, now)
      /\ Since(room, r, MayForce(now)) /\ r.revision \in Nat /\ room.revision \in Nat /\ work.by \in Tabs
      /\ now \in Nat
  BY <1>1, CommandFacts
<1>3. work.cmd.revision = room.revision /\ r.revision = room.revision
  BY <1>1, FreshFacts
<1>4. user \in Users /\ e \in Entries
  BY <1>2, RoomAssumption
<1>5. r.revision + 1 \in Nat
  BY <1>2
<1>6. q \in Rooms
  BY <1>2, <1>4, <1>5 DEF Rooms
<1>7. /\ Sequence(q) = Sequence(r) /\ q.key = r.key /\ q.start = r.start
      /\ q.deadline = r.deadline /\ q.paused = r.paused /\ q.revision = r.revision + 1
  BY <1>2 DEF Rooms, Sequence
<1> HIDE DEF q, r
<1>8. SequenceOK(q) /\ Current(q) = Current(r)
  BY <1>2, <1>6, <1>7, SameSequence
<1>9. ~q.started /\ q.status = r.status
  BY <1>1, <1>7 DEF Sequence
<1>10. ~room.started /\ room.status = r.status /\ q.start = NoTime /\ r.paused = NoTime /\ r.deadline = NoTime
  BY <1>1, <1>2, <1>7 DEF Since, SequenceOK, BeforeStart
<1>11. RoomOK(q, now)
  BY <1>2, <1>7, <1>8, <1>10 DEF RoomOK, ClockOK, NoTime
<1>12. ~InPlay(q)
  BY <1>9 DEF InPlay
<1>13. Winding(q) /\ ~Pending(q)
  BY <1>12 DEF Winding, Pending
<1>14. q.revision > room.revision /\ Moved(room, q)
  BY <1>2, <1>3, <1>7 DEF Moved
<1>15. room.played = {}
  BY <1>2, <1>10 DEF SequenceOK, PlanOK, BeforeStart
<1>16. Since(room, q, MayForce(now))
  <2>1. Grown(room, q)
    BY <1>2, <1>7 DEF Since, Grown, Sequence
  <2> QED
    BY <1>9, <1>10, <1>14, <1>15, <2>1 DEF Since, Allowed, Onward, Starts
<1> QED
  BY <1>1, <1>3, <1>11, <1>13, <1>14, <1>16, ApplyStep

(* What an answer that is accepted finds *)
LEMMA AcceptFacts ==
    ASSUME VetoInv, work.step = "command", work.cmd.kind = "answer", Accepts(work.room)
    PROVE  /\ InPlay(work.room) /\ work.room.started /\ ~work.room.completed /\ work.room.paused = NoTime
           /\ Current(work.room) = work.cmd.key /\ work.cmd.key # NoTurn
           /\ Timed(work.room, work.cmd.key)
           /\ work.cmd.revision = room.revision /\ work.room.revision = room.revision
           /\ work.room.start = room.start /\ room.start <= work.cmd.at /\ work.at = work.cmd.at
<1>1. InPlay(work.room) /\ Fresh(work.room, work.cmd) /\ Current(work.room) = work.cmd.key
  BY DEF Accepts, MayAnswer, FreshTurn
<1>2. Timed(work.room, Current(work.room))
  BY <1>1, CommandFacts DEF Ticking
<1>3. Current(work.room) # NoTurn
  BY <1>2 DEF Timed
<1> QED
  BY <1>1, <1>2, <1>3, FreshFacts, CommandFacts DEF InPlay

(* An answer to the choice of roles opens the first turn of the sequence. *)
LEMMA ChooseRoleStep ==
    ASSUME VetoInv, ChooseRole
    PROVE  VetoInv' /\ MayReplace(room, room', MayForce(now))
<1> DEFINE r == work.room
           at == work.cmd.at
<1>1. work.step = "command" /\ work.cmd.kind = "answer" /\ Accepts(r) /\ work.cmd.key = 0
  BY DEF ChooseRole, Commanded
<1>2. PICK e \in Entries : Apply(OnTheClock([r EXCEPT !.vetoA = e, !.roleAnswered = TRUE], 1, at))
  BY DEF ChooseRole
<1> DEFINE b == [r EXCEPT !.vetoA = e, !.roleAnswered = TRUE]
           q == OnTheClock(b, 1, at)
<1>3. /\ r \in Rooms /\ room \in Rooms /\ SequenceOK(r) /\ Since(room, r, MayForce(now))
      /\ r.revision \in Nat /\ room.revision \in Nat /\ now \in Nat /\ at \in Nat /\ at <= now
      /\ work.at = at /\ room.start \in Times
  BY <1>1, CommandFacts DEF Rooms
<1>4. /\ InPlay(r) /\ r.started /\ ~r.completed /\ r.paused = NoTime /\ Current(r) = 0
      /\ work.cmd.revision = room.revision /\ r.revision = room.revision /\ room.start <= at
  BY <1>1, AcceptFacts
<1>5. /\ b \in Rooms /\ BesidesRole(b) = BesidesRole(r) /\ b.vetoA = e /\ b.roleAnswered
  BY <1>3 DEF Rooms, BesidesRole, People
<1>6. Apply(q)
  BY <1>2
<1> HIDE DEF r, at, b
<1>7. /\ b \in Rooms /\ SequenceOK(b) /\ InPlay(b) /\ People(b) = People(r) /\ b.revision = r.revision
      /\ Current(b) = 1 /\ b.started = r.started /\ b.paused = r.paused /\ Grown(r, b)
  BY <1>3, <1>4, <1>5, RoleOK
<1>8. 1 \in {0} \cup Turns /\ b.started /\ b.paused = NoTime
  BY <1>4, <1>7, FormatType
<1>9. RoomOK(q, now) /\ Winding(q)
  BY <1>3, <1>7, <1>8, OnTheClockOK
<1>10. /\ q \in Rooms /\ Sequence(q) = Sequence(b) /\ People(q) = People(b)
       /\ q.revision = b.revision + 1 /\ q.start = at
  <2> b \in Rooms /\ 1 \in {0} \cup Turns /\ at \in Nat
    BY <1>3, <1>7, <1>8
  <2> QED
    BY OnTheClockFields
<1> HIDE DEF q
<1>11. q.started /\ q.revision > r.revision /\ q.revision > room.revision /\ Onward(room, q)
  BY <1>3, <1>4, <1>7, <1>8, <1>10 DEF Sequence, Onward
<1>g. Grown(r, q)
  BY <1>7, <1>10, SequenceGrows, GrownThen
<1>12. Since(room, q, MayForce(now))
  BY <1>3, <1>4, <1>7, <1>10, <1>11, <1>g, ForwardSince
<1> QED
  BY <1>1, <1>3, <1>4, <1>6, <1>9, <1>11, <1>12, ApplyStep

(* The room after an answer: the turn goes on, or its successor begins. *)
LEMMA FollowOK ==
    ASSUME NEW r \in Rooms, SequenceOK(r), InPlay(r), NEW t \in Turns, Timed(r, t),
           NEW at \in Nat, NEW limit \in Nat, at <= limit, ClockOK(r, limit)
    PROVE  LET q == Follow(r, t, at)
           IN  /\ q \in Rooms /\ RoomOK(q, limit) /\ Winding(q) /\ q.started /\ Grown(r, q)
               /\ People(q) = People(r) /\ q.revision = r.revision + 1 /\ q.start \in {NoTime, at, r.start}
<1> DEFINE next == Current(r)
           q == Follow(r, t, at)
<1>1. r.started /\ r.paused = NoTime /\ r.revision \in Nat /\ r.start \in Times /\ r.deadline \in Times
  BY RoomTurn DEF Rooms
<1>2. CASE next = t
  <2>1. q = [r EXCEPT !.revision = @ + 1]
    BY <1>2 DEF Follow
  <2>2. r.revision + 1 \in Nat
    BY <1>1
  <2>3. q \in Rooms
    BY <2>1, <2>2 DEF Rooms
  <2>4. /\ Sequence(q) = Sequence(r) /\ People(q) = People(r) /\ q.start = r.start
        /\ q.deadline = r.deadline /\ q.paused = r.paused /\ q.revision = r.revision + 1
    BY <2>1 DEF Rooms, Sequence, People
  <2> HIDE DEF q
  <2>5. SequenceOK(q) /\ Current(q) = t
    BY <1>1, <1>2, <2>3, <2>4, SameSequence
  <2>6. Timed(q, t) /\ q.started
    BY <1>1, <2>4 DEF Timed, Sequence
  <2>7. ClockOK(q, limit)
    BY <1>1, <2>4 DEF ClockOK
  <2> QED
    BY <2>3, <2>4, <2>5, <2>6, <2>7, SequenceGrows DEF RoomOK, Winding, q
<1>3. CASE next # t /\ (next = NoTurn \/ IsSystem(next))
  <2>1. q = OffTheClock(r, next)
    BY <1>3 DEF Follow
  <2>2. next \in TurnKeys
    BY RoomTurn
  <2>3. RoomOK(q, limit) /\ Current(q) = next
    BY <1>1, <2>1, <2>2, OffTheClockOK
  <2>4. /\ q \in Rooms /\ Sequence(q) = Sequence(r) /\ People(q) = People(r)
        /\ q.revision = r.revision + 1 /\ q.start = NoTime
    BY <2>1, <2>2, OffTheClockFields
  <2> HIDE DEF q
  <2>5. Winding(q) /\ q.started
    BY <1>1, <1>3, <2>3, <2>4 DEF Winding, Pending, Sequence
  <2> QED
    BY <2>3, <2>4, <2>5, SequenceGrows DEF q
<1>4. CASE next # t /\ next # NoTurn /\ ~IsSystem(next)
  <2>1. q = OnTheClock(r, next, at)
    BY <1>4 DEF Follow
  <2>2. next \in {0} \cup Turns
    BY <1>4, RoomTurn
  <2>3. RoomOK(q, limit) /\ Winding(q)
    BY <1>1, <2>1, <2>2, OnTheClockOK
  <2>4. /\ q \in Rooms /\ Sequence(q) = Sequence(r) /\ People(q) = People(r)
        /\ q.revision = r.revision + 1 /\ q.start = at
    <3> HIDE DEF next
    <3> QED
      BY <2>1, <2>2, OnTheClockFields
  <2> HIDE DEF q
  <2>5. q.started
    BY <1>1, <2>4 DEF Sequence
  <2> QED
    BY <2>3, <2>4, <2>5, SequenceGrows DEF q
<1> QED
  BY <1>2, <1>3, <1>4

(* An answer to the current turn adds its legal steps and is applied once. *)
LEMMA AnswerTurnStep ==
    ASSUME VetoInv, AnswerTurn
    PROVE  VetoInv' /\ MayReplace(room, room', MayForce(now))
<1> DEFINE r == work.room
           t == work.cmd.key
           at == work.cmd.at
           id == RequestId(work.by, work.cmd)
<1>1. work.step = "command" /\ work.cmd.kind = "answer" /\ Accepts(r) /\ t > 0
  BY DEF AnswerTurn, Commanded
<1>2. PICK choice \in AnswersTo(r, t) :
         Apply(Follow([r EXCEPT !.steps = @ \cup {Step(r, t, 1, choice[1], choice[2], "participant", id)}], t, at))
  BY DEF AnswerTurn
<1> DEFINE map == choice[1]
           side == choice[2]
           s == Step(r, t, 1, map, side, "participant", id)
           steps == r.steps \cup {s}
           all == r.incidents
           b == WithSteps(r, steps, all)
           q == Follow(b, t, at)
<1>3. /\ r \in Rooms /\ room \in Rooms /\ SequenceOK(r) /\ Since(room, r, MayForce(now))
      /\ r.revision \in Nat /\ room.revision \in Nat /\ now \in Nat /\ at \in Nat /\ at <= now
      /\ work.at = at /\ all \in SUBSET Incidents /\ room.start \in Times /\ work.by \in Tabs
      /\ work.cmd.revision \in Nat /\ ClockOK(r, now)
  BY <1>1, CommandFacts DEF Rooms
<1>4. /\ InPlay(r) /\ r.started /\ ~r.completed /\ r.paused = NoTime /\ Current(r) = t /\ Timed(r, t)
      /\ work.cmd.revision = room.revision /\ r.revision = room.revision /\ room.start <= at
      /\ r.start = room.start /\ t # NoTurn
  BY <1>1, AcceptFacts
<1>5. b = [r EXCEPT !.steps = @ \cup {s}]
  BY <1>3 DEF Rooms, WithSteps
<1>6. Apply(q)
  BY <1>2, <1>5
<1>7. id \in Requests \cup {NoRequest}
  BY <1>3 DEF RequestId, Requests
<1> HIDE DEF r, t, at, id, all
<1>8. t \in Turns /\ t \in TurnKeys
  <2>1. t \in {NoTurn, 0} \cup Turns /\ t \in TurnKeys
    BY <1>3, <1>4, RoomTurn
  <2> QED
    BY <1>1, <1>4, <2>1
<1>9. /\ map \in Maps /\ side \in Sides \cup {NoSide}
      /\ IF Format[t].action = "side_pick" THEN map = MapToSide(r.steps, t) ELSE map \in EligibleMaps(r.steps)
  <2>1. CASE Format[t].action = "side_pick"
    <3>1. map = MapToSide(r.steps, t) /\ side \in Sides
      BY <2>1 DEF AnswersTo
    <3>2. Legal(r.privileged, r.vetoA, r.steps) /\ t = CurrentTurn(r.privileged, r.vetoA, r.steps)
      BY <1>3, <1>4, RoomTurn DEF SequenceOK
    <3>3. \E x \in r.steps : x.turn = Format[t].from /\ x.map = MapToSide(r.steps, t)
      BY <1>8, <2>1, <3>2, SideMap
    <3>4. MapToSide(r.steps, t) \in Maps
      BY <3>2, <3>3 DEF Legal, Steps
    <3> QED
      BY <2>1, <3>1, <3>4
  <2>2. CASE Format[t].action # "side_pick"
    <3>1. map \in EligibleMaps(r.steps) /\ side = NoSide
      BY <2>2 DEF AnswersTo
    <3>2. EligibleMaps(r.steps) \subseteq Maps
      BY DEF EligibleMaps
    <3> QED
      BY <2>2, <3>1, <3>2
  <2> QED
    BY <2>1, <2>2
<1> HIDE DEF map, side
<1>10. s \in Steps /\ s.order = Cardinality(r.steps) + 1 /\ s.turn = t /\ s.map = map /\ s.entry = Actor(r, t)
       /\ s.source = "participant"
  <2>1. t = Current(r) /\ 1 \in Nat \ {0} /\ "participant" \in {"participant", "timeout", "system"}
    BY <1>4
  <2>2. \A i \in Nat \ {0}, source \in {"participant", "timeout", "system"} :
           LET x == Step(r, t, i, map, side, source, id)
           IN  /\ x \in Steps /\ x.order = Cardinality(r.steps) + i /\ x.turn = t /\ x.map = map
               /\ x.entry = Actor(r, t) /\ x.source = source
    <3> TAKE i \in Nat \ {0}, source \in {"participant", "timeout", "system"}
    <3> QED
      BY <1>3, <1>7, <1>8, <1>9, <2>1, StepIs
  <2> QED
    BY <2>1, <2>2 DEF s
<1> HIDE DEF s
<1>11. Legal(r.privileged, r.vetoA, steps)
  BY <1>3, <1>4, <1>8, <1>9, <1>10, AddOne
<1>12. /\ b \in Rooms /\ SequenceOK(b) /\ InPlay(b) /\ Grown(r, b)
       /\ People(b) = People(r) /\ b.revision = r.revision
       /\ b.start = r.start /\ b.deadline = r.deadline /\ b.paused = r.paused
  <2>1. \A x \in steps \ r.steps : OnRecord(x, all)
    BY <1>10 DEF OnRecord
  <2>2. r.steps \subseteq steps /\ r.incidents \subseteq all
    BY DEF all
  <2> HIDE DEF steps, b
  <2>3. b = WithSteps(r, steps, all)
    BY DEF b
  <2> QED
    BY <1>3, <1>4, <1>11, <2>1, <2>2, <2>3, AddedOK
<1> HIDE DEF b
<1>13. Timed(b, t) /\ ClockOK(b, now)
  BY <1>3, <1>4, <1>12 DEF Timed, ClockOK
<1>14. /\ q \in Rooms /\ RoomOK(q, now) /\ Winding(q) /\ q.started /\ Grown(b, q)
       /\ People(q) = People(b) /\ q.revision = b.revision + 1 /\ q.start \in {NoTime, at, b.start}
  BY <1>3, <1>8, <1>12, <1>13, FollowOK
<1> HIDE DEF q
<1>15. q.revision > r.revision /\ q.revision > room.revision /\ Onward(room, q)
  BY <1>3, <1>4, <1>12, <1>14 DEF Onward, Times, NoTime
<1>g. Grown(r, q)
  BY <1>12, <1>14, GrownThen
<1>16. Since(room, q, MayForce(now))
  BY <1>3, <1>4, <1>12, <1>14, <1>15, <1>g, ForwardSince
<1> QED
  BY <1>1, <1>3, <1>4, <1>6, <1>14, <1>15, <1>16, ApplyStep

(* No command breaks the invariant. *)
LEMMA CommandKeeps ==
    ASSUME VetoInv, CommandStep
    PROVE  VetoInv' /\ MayReplace(room, room', MayForce(now))
<1>1. CASE IgnoreStartRequest \/ IgnoreAnswer
  BY <1>1, IgnoreStep DEF IgnoreStartRequest, IgnoreAnswer, Commanded
<1>2. CASE RefuseStartRequest \/ RefuseAnswer
  <2>1. work' = Idle /\ UNCHANGED <<room, inbox, answered, other, now, acts>>
    BY <1>2 DEF RefuseStartRequest, RefuseAnswer, Throw
  <2> QED
    BY <2>1, WorkStep
<1> QED
  BY <1>1, <1>2, RecordStartRequestStep, ChooseRoleStep, AnswerTurnStep DEF CommandStep

-----------------------------------------------------------------------------
(* Administrators and captains *)

(* A write that leaves the sequence and the clock alone *)
LEMMA AsideOK ==
    ASSUME VetoInv, NEW q \in Rooms, Sequence(q) = Sequence(room), q.key = room.key,
           q.start = room.start, q.deadline = room.deadline, q.paused = room.paused, Moved(room, q)
    PROVE  RoomOK(q, now) /\ MayReplace(room, q, MayForce(now)) /\ Ticking(q)
<1>1. /\ room \in Rooms /\ SequenceOK(room) /\ ClockOK(room, now) /\ Ticking(room)
      /\ Since(room, room, MayForce(now))
  BY InvFacts, SinceItself DEF VetoInv
<1>2. SequenceOK(q) /\ Current(q) = Current(room) /\ (InPlay(q) <=> InPlay(room))
  BY <1>1, SameSequence
<1>3. RoomOK(q, now)
  BY <1>1, <1>2 DEF RoomOK, ClockOK, Timed, Sequence
<1>4. Ticking(q)
  BY <1>1, <1>2 DEF Ticking, Timed
<1>5. MayReplace(room, q, MayForce(now))
  BY <1>1 DEF Since, Allowed, Onward, Frozen, Starts, Sequence, MayReplace, Logged, SameLog
<1> QED
  BY <1>3, <1>4, <1>5

(* What an administrator finds *)
LEMMA RoomFacts ==
    ASSUME VetoInv
    PROVE  /\ room \in Rooms /\ SequenceOK(room) /\ ClockOK(room, now) /\ Ticking(room)
           /\ BeforeStart(room) /\ PlanOK(room) /\ Recorded(room)
           /\ Legal(room.privileged, room.vetoA, room.steps)
           /\ room.revision \in Nat /\ room.revision + 1 \in Nat /\ room.played \in SUBSET Nat
           /\ room.start \in Times /\ room.deadline \in Times /\ room.paused \in Times
           /\ room.started \in BOOLEAN /\ room.completed \in BOOLEAN
           /\ room.status \in {"scheduled", "in_progress", "ended"}
           /\ room.plan \in SUBSET Plans /\ room.incidents \in SUBSET Incidents
           /\ now \in Nat /\ now \in Times
           /\ acts \in 0..MaxInterventions
<1>1. room \in Rooms /\ SequenceOK(room) /\ ClockOK(room, now) /\ now \in Nat
  BY InvFacts
<1>2. /\ room.revision \in Nat /\ room.played \in SUBSET Nat
      /\ room.start \in Times /\ room.deadline \in Times /\ room.paused \in Times
      /\ room.started \in BOOLEAN /\ room.completed \in BOOLEAN
      /\ room.status \in {"scheduled", "in_progress", "ended"}
      /\ room.plan \in SUBSET Plans /\ room.incidents \in SUBSET Incidents
  BY <1>1 DEF Rooms
<1> QED
  BY <1>1, <1>2 DEF VetoInv, SequenceOK, Times

(* One more optional operation *)
LEMMA MayActs ==
    ASSUME VetoInv, NEW operation, May(operation)
    PROVE  acts' \in 0..MaxInterventions
BY RoomAssumption DEF May, VetoInv

(* An administrator names the privileged entry only of a session that has  *)
(* not started.                                                            *)
LEMMA SetPrivilegedStep ==
    ASSUME VetoInv, NEW e \in Entries, SetPrivileged(e)
    PROVE  VetoInv' /\ MayReplace(room, room', MayForce(now))
<1> DEFINE r == Materialized(room, FALSE)
           q == [r EXCEPT !.privileged = e, !.revision = @ + 1]
<1>1. /\ ~room.started /\ Write(q) /\ acts' \in 0..MaxInterventions
  BY MayActs DEF SetPrivileged
<1>2. /\ room \in Rooms /\ BeforeStart(room) /\ PlanOK(room) /\ ClockOK(room, now)
      /\ Legal(room.privileged, room.vetoA, room.steps)
      /\ room.revision + 1 \in Nat /\ room.revision \in Nat /\ now \in Nat
  BY RoomFacts
<1>3. /\ r \in Rooms /\ Sequence(r) = Sequence(room) /\ r.request = room.request
      /\ r.key = room.key /\ r.start = room.start /\ r.deadline = room.deadline
      /\ r.paused = room.paused /\ r.revision = room.revision
  BY <1>2, MaterializedFields
<1> HIDE DEF r
<1>4. q \in Rooms
  BY <1>2, <1>3 DEF Rooms
<1>5. /\ q.privileged = e /\ q.vetoA = room.vetoA /\ q.started = room.started
      /\ q.completed = room.completed /\ q.steps = room.steps /\ q.plan = room.plan
      /\ q.played = room.played /\ q.status = room.status /\ q.start = room.start /\ q.key = room.key
      /\ q.deadline = room.deadline /\ q.paused = room.paused /\ q.revision = room.revision + 1
  BY <1>3 DEF Rooms, Sequence
<1> HIDE DEF q
<1>6. /\ room.vetoA = NoEntry /\ ~room.completed /\ room.key = NoTurn /\ room.start = NoTime
      /\ room.deadline = NoTime /\ room.paused = NoTime /\ room.steps = {} /\ room.played = {}
      /\ room.plan = {}
  BY <1>1, <1>2 DEF BeforeStart, PlanOK
<1>7. Legal(q.privileged, q.vetoA, q.steps)
  BY <1>2, <1>5, <1>6 DEF Legal
<1>8. SequenceOK(q)
  BY <1>1, <1>4, <1>5, <1>6, <1>7 DEF SequenceOK, BeforeStart, PlanOK, Recorded
<1>9. RoomOK(q, now)
  BY <1>2, <1>5, <1>6, <1>8 DEF RoomOK, ClockOK, NoTime
<1>10. MayReplace(room, q, MayForce(now)) /\ Ticking(q)
  BY <1>1, <1>2, <1>5, <1>6 DEF MayReplace, Allowed, Moved, Onward, Starts, Ticking, InPlay, Logged, SameLog
<1> QED
  BY <1>1, <1>9, <1>10, WriteStep

(* A new representative takes the place, and the start request, of the old *)
(* one.                                                                    *)
LEMMA SetRepresentativeStep ==
    ASSUME VetoInv, NEW u \in Users, SetRepresentative(u)
    PROVE  VetoInv' /\ MayReplace(room, room', MayForce(now))
<1> DEFINE e == EntryOf[u]
           r == Materialized(room, FALSE)
           q == [r EXCEPT !.rep[e] = u, !.request[e] = NoUser, !.revision = @ + 1]
<1>1. Write(q) /\ acts' \in 0..MaxInterventions
  BY MayActs DEF SetRepresentative
<1>2. room \in Rooms /\ room.revision + 1 \in Nat /\ room.revision \in Nat /\ e \in Entries
  BY RoomFacts, RoomAssumption
<1>3. /\ r \in Rooms /\ Sequence(r) = Sequence(room)
      /\ r.key = room.key /\ r.start = room.start /\ r.deadline = room.deadline
      /\ r.paused = room.paused /\ r.revision = room.revision
  BY <1>2, MaterializedFields
<1> HIDE DEF r, e
<1>4. q \in Rooms
  BY <1>2, <1>3 DEF Rooms
<1>5. /\ Sequence(q) = Sequence(r) /\ q.key = r.key /\ q.start = r.start
      /\ q.deadline = r.deadline /\ q.paused = r.paused /\ q.revision = r.revision + 1
  BY <1>3 DEF Rooms, Sequence
<1> HIDE DEF q
<1>6. Moved(room, q)
  BY <1>2, <1>3, <1>5 DEF Moved
<1>7. RoomOK(q, now) /\ MayReplace(room, q, MayForce(now)) /\ Ticking(q)
  BY <1>3, <1>4, <1>5, <1>6, AsideOK
<1> QED
  BY <1>1, <1>7, WriteStep

(* A change of lineup or of eligibility touches no turn. *)
LEMMA LineupStep ==
    ASSUME VetoInv, NEW e \in Entries,
           (\E u \in Users \cup {NoUser} : SubmitLineup(e, u)) \/ LoseEligibility(e)
    PROVE  VetoInv' /\ MayReplace(room, room', MayForce(now))
<1>1. PICK lineup \in {"ok", "stale"}, u \in Users \cup {NoUser} :
         Write([room EXCEPT !.lineup[e] = lineup, !.rep[e] = u])
  <2>1. room \in Rooms
    BY RoomFacts
  <2>2. CASE \E u \in Users \cup {NoUser} : SubmitLineup(e, u)
    BY <2>2 DEF SubmitLineup
  <2>3. CASE LoseEligibility(e)
    <3>1. room.rep[e] \in Users \cup {NoUser}
      BY <2>1 DEF Rooms
    <3>2. [room EXCEPT !.lineup[e] = "stale"] = [room EXCEPT !.lineup[e] = "stale", !.rep[e] = room.rep[e]]
      BY <2>1 DEF Rooms
    <3>3. Write([room EXCEPT !.lineup[e] = "stale", !.rep[e] = room.rep[e]])
      BY <2>3, <3>2, Zenon DEF LoseEligibility
    <3> QED
      BY <3>1, <3>3
  <2> QED
    BY <2>2, <2>3
<1> DEFINE q == [room EXCEPT !.lineup[e] = lineup, !.rep[e] = u]
<1>2. room \in Rooms /\ room.revision \in Nat
  BY RoomFacts
<1>3. q \in Rooms
  BY <1>2 DEF Rooms
<1>4. /\ Sequence(q) = Sequence(room) /\ q.key = room.key /\ q.start = room.start
      /\ q.deadline = room.deadline /\ q.paused = room.paused /\ q.revision = room.revision
      /\ q.request = room.request
  BY <1>2 DEF Rooms, Sequence
<1>5. Write(q)
  BY <1>1
<1> HIDE DEF q
<1>6. Moved(room, q)
  BY <1>2, <1>4 DEF Moved, Session, Sequence
<1>7. RoomOK(q, now) /\ MayReplace(room, q, MayForce(now)) /\ Ticking(q)
  BY <1>3, <1>4, <1>6, AsideOK
<1>8. acts' \in 0..MaxInterventions
  BY MayActs DEF SubmitLineup, LoseEligibility
<1> QED
  BY <1>5, <1>7, <1>8, WriteStep

(* A pause is set once, in play, and moves no clock. *)
LEMMA PauseStep ==
    ASSUME VetoInv, Pause
    PROVE  VetoInv' /\ MayReplace(room, room', MayForce(now))
<1> DEFINE q == [room EXCEPT !.paused = now, !.revision = @ + 1]
<1>1. InPlay(room) /\ room.played = {} /\ Write(q) /\ acts' \in 0..MaxInterventions
  BY MayActs DEF Pause
<1>2. /\ room \in Rooms /\ SequenceOK(room) /\ ClockOK(room, now) /\ Ticking(room)
      /\ room.revision + 1 \in Nat /\ room.revision \in Nat /\ now \in Times /\ now \in Nat
      /\ room.start \in Times
  BY RoomFacts
<1>3. q \in Rooms
  BY <1>2 DEF Rooms
<1>4. /\ Sequence(q) = Sequence(room) /\ q.key = room.key /\ q.start = room.start
      /\ q.deadline = room.deadline /\ q.paused = now /\ q.revision = room.revision + 1
  BY <1>2 DEF Rooms, Sequence
<1> HIDE DEF q
<1>5. room.started /\ ~room.completed
  BY <1>1 DEF InPlay
<1>6. SequenceOK(q) /\ Current(q) = Current(room) /\ q.started /\ ~q.completed
  BY <1>2, <1>3, <1>4, <1>5, SameSequence DEF Sequence
<1>7. Timed(room, Current(room))
  BY <1>1, <1>2 DEF Ticking
<1>8. ClockOK(q, now)
  BY <1>2, <1>4, <1>6, <1>7 DEF ClockOK, Timed
<1>9. ~InPlay(q)
  BY <1>2, <1>4 DEF InPlay, NoTime
<1>10. MayReplace(room, q, MayForce(now))
  <2>1. Logged(room, q)
    BY <1>4 DEF Logged, SameLog, Sequence
  <2> QED
    BY <1>1, <1>2, <1>4, <1>5, <2>1 DEF MayReplace, Allowed, Moved, Onward, Starts, Times, NoTime
<1> QED
  BY <1>1, <1>6, <1>8, <1>9, <1>10, WriteStep DEF RoomOK, Ticking

(* A pause that is given back moves the clock on, and a turn that was      *)
(* rewound starts anew.                                                    *)
LEMMA ResumeStep ==
    ASSUME VetoInv, Resume
    PROVE  VetoInv' /\ MayReplace(room, room', MayForce(now))
<1> DEFINE t == Current(room)
           q == Resumed(room)
           lost == now - room.paused
           anew == room.deadline = NoTime /\ t # NoTurn /\ Actor(room, t) # NoEntry
           start == IF anew THEN now ELSE IF room.start = NoTime THEN NoTime ELSE room.start + lost
           deadline == IF anew THEN now + Duration(t)
                       ELSE IF room.deadline = NoTime THEN NoTime ELSE room.deadline + lost
<1>1. /\ work = Idle /\ room.paused # NoTime /\ room.started /\ ~room.completed
      /\ work' = Reconcile(q, now) /\ UNCHANGED <<room, inbox, answered, other, now, acts>>
  BY DEF Resume
<1>2. /\ room \in Rooms /\ SequenceOK(room) /\ ClockOK(room, now) /\ BeforeStart(room)
      /\ room.revision + 1 \in Nat /\ room.revision \in Nat /\ now \in Nat
      /\ room.start \in Times /\ room.deadline \in Times /\ room.paused \in Times
  BY RoomFacts
<1>3. /\ room.start <= room.paused /\ room.paused <= now /\ t # NoTurn
      /\ (room.start = NoTime <=> room.deadline = NoTime)
      /\ (room.start # NoTime => Timed(room, t))
  BY <1>1, <1>2 DEF ClockOK
<1>4. t \in {0} \cup Turns /\ (t = 0 <=> room.vetoA = NoEntry) /\ room.privileged # NoEntry
  BY <1>2, <1>3, RoomTurn
<1>5. Duration(t) \in Nat
  BY <1>4, DurationType
<1>6. lost \in Nat
  BY <1>1, <1>2, <1>3 DEF Times
<1>7. Actor(room, t) = NoEntry <=> IsSystem(t)
  <2>1. room.privileged \in Entries /\ room.vetoA \in Entries \cup {NoEntry} /\ NoEntry \notin Entries
    BY <1>2, <1>4, VetoAssumption DEF Rooms
  <2>2. t # 0 => Other(room.vetoA) \in Entries
    BY DEF Other, Entries
  <2> QED
    BY <1>4, <2>1, <2>2 DEF Actor, ActorEntry, IsSystem
<1>8. start \in Times /\ deadline \in Times
  BY <1>2, <1>5, <1>6 DEF Times
<1>9. q = [room EXCEPT !.paused = NoTime, !.start = start, !.deadline = deadline, !.revision = @ + 1]
  BY <1>2 DEF Resumed, Rooms
<1> HIDE DEF t, lost, start, deadline
<1>10. NoTime \in Times
  BY DEF Times
<1>11. q \in Rooms
  BY <1>2, <1>8, <1>9, <1>10 DEF Rooms
<1>12. /\ Sequence(q) = Sequence(room) /\ People(q) = People(room)
       /\ q.start = start /\ q.deadline = deadline /\ q.paused = NoTime /\ q.revision = room.revision + 1
  BY <1>2, <1>9 DEF Rooms, Sequence, People
<1> HIDE DEF q
<1>13. SequenceOK(q) /\ Current(q) = t /\ q.started /\ Grown(room, q)
  BY <1>1, <1>2, <1>11, <1>12, SameSequence, SequenceGrows DEF Sequence, t
<1>14. CASE room.start = NoTime /\ ~IsSystem(t)
  <2>1. start = now /\ deadline = now + Duration(t)
    BY <1>3, <1>7, <1>14 DEF start, deadline
  <2>2. Timed(q, t) /\ ClockOK(q, now)
    BY <1>2, <1>3, <1>5, <1>12, <1>14, <2>1 DEF Timed, ClockOK, NoTime
  <2>3. Winding(q) /\ ~Pending(q) /\ Onward(room, q)
    BY <1>13, <1>14, <2>2 DEF Winding, Pending, Onward
  <2> QED
    BY <2>2, <2>3, <1>1, <1>2, <1>11, <1>12, <1>13, SinceItself, ForwardSince, BegunOK, WorkStep DEF RoomOK
<1>15. CASE room.start = NoTime /\ IsSystem(t)
  <2>1. start = NoTime /\ deadline = NoTime
    BY <1>3, <1>7, <1>15 DEF start, deadline
  <2>2. ClockOK(q, now) /\ Winding(q) /\ Onward(room, q)
    BY <1>2, <1>3, <1>12, <1>13, <1>15, <2>1 DEF ClockOK, NoTime, Winding, Pending, Onward
  <2>3. room.start <= now
    BY <1>2 DEF ClockOK
  <2> QED
    BY <2>2, <2>3, <1>1, <1>2, <1>11, <1>12, <1>13, SinceItself, ForwardSince, BegunOK, WorkStep DEF RoomOK
<1>16. CASE room.start # NoTime
  <2>1. start = room.start + lost /\ deadline = room.deadline + lost /\ room.start \in Nat
    BY <1>2, <1>3, <1>16 DEF start, deadline, Times
  <2>2. ~IsSystem(t) /\ room.deadline = room.start + Duration(t)
    BY <1>3, <1>16 DEF Timed
  <2>3. start <= now /\ start >= room.start /\ start # NoTime /\ deadline # NoTime
        /\ deadline = start + Duration(t)
    BY <1>2, <1>3, <1>5, <1>6, <2>1, <2>2 DEF lost, NoTime, Times
  <2>4. Timed(q, t) /\ ClockOK(q, now)
    BY <1>2, <1>3, <1>12, <2>2, <2>3 DEF Timed, ClockOK, NoTime
  <2>5. Winding(q) /\ ~Pending(q) /\ Onward(room, q)
    BY <1>12, <1>13, <2>2, <2>3, <2>4 DEF Winding, Pending, Onward
  <2> QED
    BY <2>4, <2>5, <1>1, <1>2, <1>11, <1>12, <1>13, SinceItself, ForwardSince, BegunOK, WorkStep DEF RoomOK
<1> QED
  BY <1>14, <1>15, <1>16

(* A rewound room is paused before the turn, and its plan is gone. *)
LEMMA RewoundOK ==
    ASSUME NEW r \in Rooms, SequenceOK(r), CanRewind(r), NEW t \in 0..Len(Format), now \in Nat
    PROVE  LET q == Rewound(r, t)
           IN  /\ RoomOK(q, now) /\ Ticking(q) /\ q.started
               /\ q.revision = r.revision + 1 /\ q.start = NoTime
<1> DEFINE kept == {s \in r.steps : s.turn < t}
           v == IF t = 0 THEN NoEntry ELSE r.vetoA
           a == r.roleAnswered /\ t # 0
           o == OffTheClock(r, t)
           q == Rewound(r, t)
<1>1. t \in Nat /\ t \in TurnKeys /\ t \in {0} \cup Turns
  <2> Len(Format) \in Nat
    BY VetoAssumption DEF WellFormed
  <2> QED
    BY DEF TurnKeys, Turns
<1>2. r.started /\ r.status = "in_progress" /\ r.played = {} /\ r.privileged # NoEntry
  BY DEF CanRewind, SequenceOK, BeforeStart
<1>3. Legal(r.privileged, v, kept) /\ CurrentTurn(r.privileged, v, kept) # NoTurn
  <2> DEFINE p == r.privileged
             w == r.vetoA
             steps == r.steps
  <2>1. Legal(p, w, steps) /\ p # NoEntry
    BY <1>2 DEF SequenceOK
  <2> HIDE DEF p, w, steps
  <2>2. LET less == {s \in steps : s.turn < t}
        IN  /\ Legal(p, IF t = 0 THEN NoEntry ELSE w, less)
            /\ CurrentTurn(p, IF t = 0 THEN NoEntry ELSE w, less) # NoTurn
    BY <1>1, <2>1, KeepBefore
  <2> QED
    BY <2>2 DEF p, w, steps
<1>4. /\ o \in Rooms /\ Sequence(o) = Sequence(r)
      /\ o.revision = r.revision + 1 /\ o.start = NoTime /\ o.deadline = NoTime
  BY <1>1, OffTheClockFields
<1>5. o.steps = r.steps /\ o.vetoA = r.vetoA /\ o.roleAnswered = r.roleAnswered
  BY <1>4 DEF Sequence
<1>6. q = [o EXCEPT !.steps = kept, !.plan = {}, !.vetoA = v, !.roleAnswered = a,
                      !.completed = FALSE, !.paused = now]
  BY <1>5 DEF Rewound
<1>7. /\ kept \in SUBSET Steps /\ v \in Entries \cup {NoEntry} /\ now \in Times /\ {} \in SUBSET Plans
      /\ a \in BOOLEAN
  BY <1>3 DEF Legal, Rooms, Times
<1>8. kept \subseteq r.steps /\ (v # NoEntry /\ ~a => v = r.vetoA /\ ~r.roleAnswered)
  BY <1>1
<1> HIDE DEF kept, v, a, o
<1>9. q \in Rooms
  BY <1>4, <1>6, <1>7 DEF Rooms
<1>10. /\ q.status = r.status /\ q.privileged = r.privileged /\ q.vetoA = v /\ q.started = r.started
       /\ q.completed = FALSE /\ q.steps = kept /\ q.incidents = r.incidents /\ q.plan = {}
       /\ q.played = r.played /\ q.start = NoTime /\ q.deadline = NoTime /\ q.paused = now
       /\ q.revision = r.revision + 1 /\ q.roleAnswered = a
  BY <1>4, <1>6 DEF Rooms, Sequence
<1> HIDE DEF q
<1>11. Recorded(q)
  BY <1>8, <1>10 DEF SequenceOK, Recorded, Actor, ActorEntry
<1>12. SequenceOK(q)
  BY <1>2, <1>3, <1>9, <1>10, <1>11 DEF SequenceOK, BeforeStart, PlanOK
<1>13. Current(q) # NoTurn
  BY <1>2, <1>3, <1>10 DEF Current
<1>14. ClockOK(q, now) /\ now # NoTime
  BY <1>2, <1>10, <1>13 DEF ClockOK, NoTime
<1>15. Ticking(q)
  BY <1>10, <1>14 DEF Ticking, InPlay
<1> QED
  BY <1>2, <1>10, <1>12, <1>14, <1>15 DEF RoomOK, q

(* What a rewind leaves of the log *)
LEMMA RewoundLog ==
    ASSUME NEW r \in Rooms, NEW t \in 0..Len(Format)
    PROVE  LET q == Rewound(r, t)
           IN  /\ q.vetoA = IF t = 0 THEN NoEntry ELSE r.vetoA
               /\ q.steps = {s \in r.steps : s.turn < t}
               /\ q.plan = {} /\ q.played = r.played /\ q.status = r.status
BY DEF Rewound, OffTheClock, Rooms

(* An appeal changes an incident's state, and what is on record stays.     *)
LEMMA AppealOK ==
    ASSUME NEW r \in Rooms, SequenceOK(r), NEW i \in r.incidents,
           NEW state \in {"none", "pending", "accepted", "rejected"}
    PROVE  LET q == WithAppeal(r, i, state)
           IN  /\ q \in Rooms /\ SequenceOK(q) /\ Current(q) = Current(r) /\ (InPlay(q) <=> InPlay(r))
               /\ (CanRewind(q) <=> CanRewind(r)) /\ People(q) = People(r)
               /\ q.key = r.key /\ q.start = r.start /\ q.deadline = r.deadline /\ q.paused = r.paused
               /\ q.revision = r.revision /\ q.started = r.started /\ q.completed = r.completed
               /\ q.steps = r.steps /\ q.vetoA = r.vetoA /\ q.privileged = r.privileged
               /\ q.plan = r.plan /\ q.played = r.played /\ q.status = r.status
<1> DEFINE j == [i EXCEPT !.appeal = state]
           all == (r.incidents \ {i}) \cup {j}
           q == WithAppeal(r, i, state)
<1>1. r.incidents \subseteq Incidents
  BY DEF Rooms
<1>2. j \in Incidents /\ j.turn = i.turn /\ j.entry = i.entry /\ j.chosen = i.chosen
  BY <1>1 DEF Incidents
<1>3. \A s : OnRecord(s, r.incidents) => OnRecord(s, all)
  <2> SUFFICES ASSUME NEW s, NEW x \in r.incidents, x.turn = s.turn, x.entry = s.entry, Touches(s, x.chosen)
               PROVE  \E y \in all : y.turn = s.turn /\ y.entry = s.entry /\ Touches(s, y.chosen)
    BY DEF OnRecord
  <2>1. CASE x = i
    BY <1>2, <2>1
  <2>2. CASE x # i
    BY <2>2
  <2> QED
    BY <2>1, <2>2
<1>3a. \A e, f : RoleDrawn(e, f, r.incidents) => RoleDrawn(e, f, all)
  <2> SUFFICES ASSUME NEW e, NEW f, NEW x \in r.incidents, x.turn = 0, x.entry = f, x.chosen = {e}
               PROVE  \E y \in all : y.turn = 0 /\ y.entry = f /\ y.chosen = {e}
    BY DEF RoleDrawn
  <2>1. CASE x = i
    BY <1>2, <2>1
  <2>2. CASE x # i
    BY <2>2
  <2> QED
    BY <2>1, <2>2
<1>4. all \subseteq Incidents
  BY <1>1, <1>2
<1>5. q = [r EXCEPT !.incidents = all]
  BY DEF WithAppeal
<1> HIDE DEF j, all
<1>6. q \in Rooms
  BY <1>4, <1>5 DEF Rooms
<1>7. /\ People(q) = People(r)
      /\ q.key = r.key /\ q.start = r.start /\ q.deadline = r.deadline /\ q.paused = r.paused
      /\ q.revision = r.revision /\ q.started = r.started /\ q.completed = r.completed
      /\ q.steps = r.steps /\ q.vetoA = r.vetoA /\ q.privileged = r.privileged
      /\ q.plan = r.plan /\ q.played = r.played /\ q.status = r.status /\ q.incidents = all
      /\ q.roleAnswered = r.roleAnswered
  BY <1>5 DEF Rooms, People
<1> HIDE DEF q
<1>8. Recorded(q)
  BY <1>3, <1>3a, <1>7 DEF SequenceOK, Recorded, Actor
<1>9. SequenceOK(q)
  BY <1>6, <1>7, <1>8 DEF SequenceOK, BeforeStart, PlanOK
<1> QED
  BY <1>6, <1>7, <1>9 DEF Current, InPlay, CanRewind, q

(* A rewind keeps the turns before the named one and pauses there, with no *)
(* clock.                                                                  *)
LEMMA RewindStep ==
    ASSUME VetoInv, NEW t \in 0..Len(Format), Rewind(t)
    PROVE  VetoInv' /\ MayReplace(room, room', MayForce(now))
<1> DEFINE q == Rewound(room, t)
<1>1. CanRewind(room) /\ Write(q) /\ acts' \in 0..MaxInterventions
  BY MayActs DEF Rewind
<1>2. room \in Rooms /\ SequenceOK(room) /\ now \in Nat /\ room.revision \in Nat
  BY RoomFacts
<1>3. /\ RoomOK(q, now) /\ Ticking(q) /\ q.started
      /\ q.revision = room.revision + 1 /\ q.start = NoTime
  BY <1>1, <1>2, RewoundOK
<1> HIDE DEF q
<1>4. MayReplace(room, q, MayForce(now))
  <2>1. Allowed(room, q, MayForce(now))
    BY <1>1, <1>2, <1>3 DEF CanRewind, Allowed, Moved, Onward, Starts
  <2>2. t \in {0} \cup Turns
    BY FormatType DEF Turns
  <2>3. Cuts(room, q, t)
    BY <1>1, <1>2, RewoundLog DEF CanRewind, Cuts, q
  <2> QED
    BY <2>1, <2>2, <2>3 DEF MayReplace, Logged
<1> QED
  BY <1>1, <1>3, <1>4, WriteStep

(* An appeal submitted or rejected changes what is recorded of its         *)
(* incident, and nothing else.                                             *)
LEMMA AppealStep ==
    ASSUME VetoInv, NEW i \in room.incidents, SubmitAppeal(i) \/ RejectAppeal(i)
    PROVE  VetoInv' /\ MayReplace(room, room', MayForce(now))
<1>1. PICK state \in {"pending", "rejected"} :
         Write(WithAppeal(room, i, state)) /\ acts' \in 0..MaxInterventions /\ room.played = {}
  BY MayActs, RoomFacts DEF SubmitAppeal, RejectAppeal
<1> DEFINE q == WithAppeal(room, i, state)
<1>2. /\ room \in Rooms /\ SequenceOK(room) /\ ClockOK(room, now) /\ Ticking(room)
      /\ room.revision \in Nat /\ room.start \in Times
  BY RoomFacts
<1>3. /\ q \in Rooms /\ SequenceOK(q) /\ Current(q) = Current(room) /\ (InPlay(q) <=> InPlay(room))
      /\ People(q) = People(room)
      /\ q.key = room.key /\ q.start = room.start /\ q.deadline = room.deadline /\ q.paused = room.paused
      /\ q.revision = room.revision /\ q.started = room.started /\ q.completed = room.completed
      /\ q.steps = room.steps /\ q.vetoA = room.vetoA /\ q.privileged = room.privileged
      /\ q.plan = room.plan /\ q.played = room.played /\ q.status = room.status
  BY <1>2, AppealOK
<1>4. Write(q)
  BY <1>1
<1> HIDE DEF q
<1>5. RoomOK(q, now) /\ Ticking(q)
  BY <1>2, <1>3 DEF RoomOK, ClockOK, Timed, Ticking
<1>6. Session(q) = Session(room)
  BY <1>3 DEF Session, People
<1>7. MayReplace(room, q, MayForce(now))
  BY <1>1, <1>2, <1>3, <1>6 DEF MayReplace, Allowed, Moved, Onward, Starts, Times, NoTime, Logged, SameLog
<1> QED
  BY <1>1, <1>4, <1>5, <1>7, WriteStep

(* An accepted appeal rewinds to the turn of its incident, which stays on  *)
(* record.                                                                 *)
LEMMA AcceptAppealStep ==
    ASSUME VetoInv, NEW i \in room.incidents, AcceptAppeal(i)
    PROVE  VetoInv' /\ MayReplace(room, room', MayForce(now))
<1> DEFINE b == WithAppeal(room, i, "accepted")
           t == i.turn
           q == Rewound(b, t)
<1>1. CanRewind(room) /\ Write(q) /\ acts' \in 0..MaxInterventions
  BY RoomFacts DEF AcceptAppeal
<1>2. room \in Rooms /\ SequenceOK(room) /\ now \in Nat /\ room.revision \in Nat /\ room.incidents \in SUBSET Incidents
  BY RoomFacts
<1>3. t \in 0..Len(Format)
  BY <1>2 DEF Incidents
<1>4. /\ b \in Rooms /\ SequenceOK(b) /\ (CanRewind(b) <=> CanRewind(room))
      /\ b.revision = room.revision /\ b.started = room.started
      /\ b.steps = room.steps /\ b.vetoA = room.vetoA /\ b.played = room.played /\ b.status = room.status
  BY <1>2, AppealOK
<1> HIDE DEF b, t
<1>5. /\ RoomOK(q, now) /\ Ticking(q) /\ q.started
      /\ q.revision = b.revision + 1 /\ q.start = NoTime
  BY <1>1, <1>2, <1>3, <1>4, RewoundOK
<1> HIDE DEF q
<1>6. MayReplace(room, q, MayForce(now))
  <2>1. Allowed(room, q, MayForce(now))
    BY <1>1, <1>2, <1>4, <1>5 DEF CanRewind, Allowed, Moved, Onward, Starts
  <2>2. t \in {0} \cup Turns
    BY <1>3, FormatType DEF Turns
  <2>3. Cuts(room, q, t)
    BY <1>1, <1>2, <1>3, <1>4, RewoundLog DEF CanRewind, Cuts, q
  <2> QED
    BY <2>1, <2>2, <2>3 DEF MayReplace, Logged
<1> QED
  BY <1>1, <1>5, <1>6, WriteStep

(* No administrator breaks the invariant. *)
LEMMA AdministerKeeps ==
    ASSUME VetoInv, Administer
    PROVE  VetoInv' /\ MayReplace(room, room', MayForce(now))
<1>1. CASE \E e \in Entries : SetPrivileged(e) \/ LoseEligibility(e)
  BY <1>1, SetPrivilegedStep, LineupStep
<1>2. CASE \E u \in Users : SetRepresentative(u)
  BY <1>2, SetRepresentativeStep
<1>3. CASE \E e \in Entries, u \in Users \cup {NoUser} : SubmitLineup(e, u)
  BY <1>3, LineupStep
<1>4. CASE Pause \/ Resume
  BY <1>4, PauseStep, ResumeStep
<1>5. CASE \E t \in 0..Len(Format) : Rewind(t)
  BY <1>5, RewindStep
<1>6. CASE \E i \in room.incidents : SubmitAppeal(i) \/ RejectAppeal(i) \/ AcceptAppeal(i)
  BY <1>6, AppealStep, AcceptAppealStep
<1> QED
  BY <1>1, <1>2, <1>3, <1>4, <1>5, <1>6 DEF Administer

-----------------------------------------------------------------------------
(* The rest of the system *)

(* A map that begins after the plan is complete leaves the sequence as it  *)
(* is.                                                                     *)
LEMMA BegunMapOK ==
    ASSUME VetoInv, room.completed, room.status = "in_progress", NEW p \in room.plan,
           NEW q, q = [room EXCEPT !.played = @ \cup {p.order}],
           Write(q), acts' \in 0..MaxInterventions
    PROVE  VetoInv' /\ MayReplace(room, room', MayForce(now))
<1>1. /\ room \in Rooms /\ SequenceOK(room) /\ ClockOK(room, now) /\ room.revision \in Nat
      /\ room.played \in SUBSET Nat /\ room.start \in Times /\ room.plan \in SUBSET Plans
  BY RoomFacts DEF Rooms
<1>2. room.played \cup {p.order} \in SUBSET Nat
  BY <1>1 DEF Plans
<1>3. q \in Rooms
  BY <1>1, <1>2 DEF Rooms
<1>4. /\ q.status = room.status /\ q.privileged = room.privileged /\ q.vetoA = room.vetoA
      /\ q.roleAnswered = room.roleAnswered
      /\ q.started = room.started /\ q.completed = room.completed /\ q.steps = room.steps
      /\ q.incidents = room.incidents /\ q.plan = room.plan /\ q.request = room.request
      /\ q.key = room.key /\ q.start = room.start /\ q.deadline = room.deadline /\ q.paused = room.paused
      /\ q.revision = room.revision /\ q.played = room.played \cup {p.order}
  BY <1>1 DEF Rooms
<1>5. SequenceOK(q)
  BY <1>1, <1>3, <1>4 DEF SequenceOK, BeforeStart, PlanOK, Recorded, Actor
<1>6. ClockOK(q, now) /\ Ticking(q)
  BY <1>1, <1>4 DEF ClockOK, Ticking, InPlay
<1>7. MayReplace(room, q, MayForce(now))
  <2>1. Allowed(room, q, MayForce(now))
    <3>1. Session(q) = Session(room)
      BY <1>4 DEF Session
    <3>2. Moved(room, q)
      BY <1>1, <1>4, <3>1 DEF Moved
    <3>3. Onward(room, q)
      BY <1>1, <1>4 DEF Onward, Times, NoTime
    <3>4. Frozen(room, q) /\ Starts(room, q, MayForce(now))
      BY <1>4 DEF Frozen, Starts
    <3> QED
      BY <3>2, <3>3, <3>4 DEF Allowed
  <2>2. Plays(room, q)
    BY <1>4 DEF Plays
  <2> QED
    BY <2>1, <2>2 DEF MayReplace, Logged
<1> QED
  BY <1>5, <1>6, <1>7, WriteStep DEF RoomOK

(* The end of a match, which the result of a map may bring, closes its     *)
(* room with the maps that were played.                                    *)
LEMMA EndedOK ==
    ASSUME VetoInv, room.status # "ended",
           NEW played \in {room.played} \cup {room.played \cup {p.order} : p \in room.plan},
           NEW plan \in {room.plan, {p \in room.plan : p.order \in played}},
           NEW q, q = [room EXCEPT !.status = "ended", !.played = played, !.plan = plan],
           Write(q), acts' \in 0..MaxInterventions
    PROVE  VetoInv' /\ MayReplace(room, room', MayForce(now))
<1>1. /\ room \in Rooms /\ SequenceOK(room) /\ ClockOK(room, now) /\ room.revision \in Nat
      /\ room.played \in SUBSET Nat /\ room.start \in Times /\ room.plan \in SUBSET Plans
      /\ BeforeStart(room) /\ PlanOK(room)
  BY RoomFacts DEF Rooms
<1>2. /\ room.played \subseteq played
      /\ room.plan = {} => played = room.played
      /\ played \in SUBSET Nat
  BY <1>1 DEF Plans
<1>3. /\ plan \in SUBSET Plans
      /\ {p \in plan : p.order \in room.played} = {p \in room.plan : p.order \in room.played}
      /\ (room.plan = {} => plan = {})
  BY <1>1, <1>2
<1>4. q \in Rooms
  BY <1>1, <1>2, <1>3 DEF Rooms
<1>5. /\ q.status = "ended" /\ q.privileged = room.privileged /\ q.vetoA = room.vetoA
      /\ q.roleAnswered = room.roleAnswered
      /\ q.started = room.started /\ q.completed = room.completed /\ q.steps = room.steps
      /\ q.incidents = room.incidents /\ q.plan = plan /\ q.request = room.request
      /\ q.played = played
      /\ q.key = room.key /\ q.start = room.start /\ q.deadline = room.deadline /\ q.paused = room.paused
      /\ q.revision = room.revision
  BY <1>1 DEF Rooms
<1>6. PlanOK(q) /\ BeforeStart(q) /\ Recorded(q)
  BY <1>1, <1>2, <1>3, <1>5 DEF SequenceOK, BeforeStart, PlanOK, Recorded, Actor
<1>7. SequenceOK(q)
  BY <1>1, <1>4, <1>5, <1>6 DEF SequenceOK
<1>8. Current(q) = Current(room)
  BY <1>5 DEF Current
<1>9. ClockOK(q, now) /\ Ticking(q)
  BY <1>1, <1>5, <1>8 DEF ClockOK, Timed, Ticking, InPlay
<1>10. room.played # {} => room.completed
  BY <1>1 DEF PlanOK
<1>11. MayReplace(room, q, MayForce(now))
  <2>1. Allowed(room, q, MayForce(now))
    BY <1>1, <1>3, <1>5, <1>10 DEF Allowed, Moved, Session, Onward, Starts, Frozen, Times, NoTime
  <2>2. Ends(room, q)
    BY <1>5 DEF Ends
  <2> QED
    BY <2>1, <2>2 DEF MayReplace, Logged
<1> QED
  BY <1>7, <1>9, <1>11, WriteStep DEF RoomOK

(* A map that is started, or whose result arrives, keeps the invariant.    *)
LEMMA MapStep ==
    ASSUME VetoInv, PlayMap \/ RecordMap
    PROVE  VetoInv' /\ MayReplace(room, room', MayForce(now))
<1>1. /\ room \in Rooms /\ room.completed /\ room.status = "in_progress"
      /\ acts' \in 0..MaxInterventions
  BY RoomFacts DEF PlayMap, RecordMap
<1>2. PICK p \in room.plan :
         LET begun == [room EXCEPT !.played = @ \cup {p.order}]
         IN  \/ Write(begun)
             \/ Write([begun EXCEPT !.status = "ended", !.plan = @ \ Unused(@, begun.played)])
  BY DEF PlayMap, RecordMap
<1> DEFINE begun == [room EXCEPT !.played = @ \cup {p.order}]
           played == room.played \cup {p.order}
           plan == {x \in room.plan : x.order \in played}
<1>3. CASE Write(begun)
  <2> HIDE DEF begun
  <2>1. begun = [room EXCEPT !.played = @ \cup {p.order}]
    BY DEF begun
  <2> QED
    BY <1>1, <1>3, <2>1, BegunMapOK
<1>4. CASE Write([begun EXCEPT !.status = "ended", !.plan = @ \ Unused(@, begun.played)])
  <2> DEFINE q == [room EXCEPT !.status = "ended", !.played = played, !.plan = plan]
  <2>1. begun.plan = room.plan /\ begun.played = played
    BY <1>1 DEF Rooms
  <2>2. room.plan \ Unused(room.plan, played) = plan
    BY DEF Unused
  <2>3. [begun EXCEPT !.status = "ended", !.plan = plan] = q
    BY <1>1 DEF Rooms
  <2>4. [begun EXCEPT !.status = "ended", !.plan = @ \ Unused(@, begun.played)] = q
    BY <2>1, <2>2, <2>3
  <2>5. Write(q)
    BY <1>4, <2>4, Zenon
  <2>6. played \in {room.played} \cup {room.played \cup {x.order} : x \in room.plan}
    OBVIOUS
  <2>7. plan \in {room.plan, {x \in room.plan : x.order \in played}}
    OBVIOUS
  <2>8. q = [room EXCEPT !.status = "ended", !.played = played, !.plan = plan]
    OBVIOUS
  <2> HIDE DEF q, plan, played
  <2> QED
    BY <1>1, <2>5, <2>6, <2>7, <2>8, EndedOK
<1> QED
  BY <1>2, <1>3, <1>4

(* A match that is cancelled, or ends by a forfeit, closes its room.       *)
LEMMA EndStep ==
    ASSUME VetoInv, Cancel \/ Finish
    PROVE  VetoInv' /\ MayReplace(room, room', MayForce(now))
<1>1. /\ room \in Rooms /\ acts' \in 0..MaxInterventions /\ room.status # "ended"
  BY RoomFacts DEF Cancel, Finish
<1> DEFINE kept == {p \in room.plan : p.order \in room.played}
<1>2. PICK plan \in {room.plan, kept} : Write([room EXCEPT !.status = "ended", !.plan = plan])
  <2>1. CASE Cancel
    <3>1. [room EXCEPT !.status = "ended"] = [room EXCEPT !.status = "ended", !.plan = room.plan]
      BY <1>1 DEF Rooms
    <3>2. Write([room EXCEPT !.status = "ended", !.plan = room.plan])
      BY <2>1, <3>1, Zenon DEF Cancel
    <3> QED
      BY <3>2
  <2>2. CASE Finish
    <3>1. room.plan \ Unused(room.plan, room.played) = kept
      BY DEF Unused
    <3>2. [room EXCEPT !.status = "ended", !.plan = @ \ Unused(@, room.played)]
            = [room EXCEPT !.status = "ended", !.plan = kept]
      BY <3>1
    <3>3. Write([room EXCEPT !.status = "ended", !.plan = kept])
      BY <2>2, <3>2, Zenon DEF Finish
    <3> QED
      BY <3>3
  <2> QED
    BY <2>1, <2>2
<1> DEFINE q == [room EXCEPT !.status = "ended", !.played = room.played, !.plan = plan]
<1>3. q = [room EXCEPT !.status = "ended", !.plan = plan]
  BY <1>1 DEF Rooms
<1>4. Write(q)
  BY <1>2, <1>3, Zenon
<1>5. /\ room.played \in {room.played} \cup {room.played \cup {p.order} : p \in room.plan}
      /\ plan \in {room.plan, {p \in room.plan : p.order \in room.played}}
      /\ q = [room EXCEPT !.status = "ended", !.played = room.played, !.plan = plan]
  OBVIOUS
<1> HIDE DEF q, kept
<1> QED
  BY <1>1, <1>4, <1>5, EndedOK

(* A match seen to start elsewhere takes its room into progress without a  *)
(* session.                                                                *)
LEMMA ObserveStep ==
    ASSUME VetoInv, ObserveMatchStarted
    PROVE  VetoInv' /\ MayReplace(room, room', MayForce(now))
<1> DEFINE r == Materialized(room, TRUE)
           q == [r EXCEPT !.status = "in_progress"]
<1>1. room.status = "scheduled" /\ Write(q) /\ acts' \in 0..MaxInterventions
  BY RoomFacts DEF ObserveMatchStarted
<1>2. /\ room \in Rooms /\ SequenceOK(room) /\ ClockOK(room, now) /\ room.revision \in Nat
      /\ BeforeStart(room) /\ PlanOK(room) /\ room.start \in Times /\ room.played \in SUBSET Nat
  BY RoomFacts
<1>3. /\ r \in Rooms /\ Sequence(r) = Sequence(room) /\ r.request = room.request
      /\ r.key = room.key /\ r.start = room.start /\ r.deadline = room.deadline
      /\ r.paused = room.paused /\ r.revision = room.revision
  BY <1>2, MaterializedFields
<1> HIDE DEF r
<1>4. q \in Rooms
  BY <1>3 DEF Rooms
<1>5. /\ q.privileged = room.privileged /\ q.vetoA = room.vetoA
      /\ q.started = room.started /\ q.completed = room.completed /\ q.steps = room.steps
      /\ q.incidents = room.incidents /\ q.plan = room.plan /\ q.request = room.request
      /\ q.played = room.played
      /\ q.key = room.key /\ q.start = room.start /\ q.deadline = room.deadline /\ q.paused = room.paused
      /\ q.revision = room.revision /\ q.status = "in_progress" /\ q.played = room.played
  BY <1>3 DEF Rooms, Sequence
<1> HIDE DEF q
<1>6. /\ ~room.started /\ ~room.completed /\ room.paused = NoTime /\ room.played = {}
      /\ room.vetoA = NoEntry
  BY <1>1, <1>2 DEF BeforeStart, PlanOK
<1>7. SequenceOK(q)
  BY <1>2, <1>4, <1>5, <1>6 DEF SequenceOK, BeforeStart, PlanOK, Recorded
<1>8. ClockOK(q, now) /\ Ticking(q)
  BY <1>2, <1>5, <1>6 DEF ClockOK, Ticking, InPlay
<1>9. MayReplace(room, q, MayForce(now))
  BY <1>1, <1>2, <1>5, <1>6 DEF MayReplace, Allowed, Moved, Session, Onward, Starts, Times, NoTime, Logged, SameLog
<1> QED
  BY <1>1, <1>7, <1>8, <1>9, WriteStep DEF RoomOK

(* What happens to another match of the entries concerns this room only    *)
(* through its start.                                                      *)
LEMMA OtherStep ==
    ASSUME VetoInv, OtherMatchStarts \/ OtherMatchEnds
    PROVE  VetoInv' /\ MayReplace(room, room', MayForce(now))
<1>1. work' = Idle /\ UNCHANGED <<room, inbox, answered, now, acts>>
  BY DEF OtherMatchStarts, OtherMatchEnds
<1>2. other' \in [busy : BOOLEAN, endedAt : Times]
  <2>1. other \in [busy : BOOLEAN, endedAt : Times] /\ now \in Times
    BY RoomFacts DEF VetoInv
  <2>2. CASE OtherMatchStarts
    BY <2>1, <2>2 DEF OtherMatchStarts
  <2>3. CASE OtherMatchEnds
    BY <2>1, <2>3 DEF OtherMatchEnds
  <2> QED
    BY <2>2, <2>3
<1>3. MayReplace(room, room', MayForce(now))
  BY <1>1, InvFacts, SinceItself DEF Since
<1>4. VetoInv'
  BY <1>1, <1>2 DEF VetoInv
<1> QED
  BY <1>3, <1>4

(* The match and its surroundings do not break the invariant. *)
LEMMA EnvironmentKeeps ==
    ASSUME VetoInv, Environment
    PROVE  VetoInv' /\ MayReplace(room, room', MayForce(now))
BY MapStep, EndStep, ObserveStep, OtherStep DEF Environment

(* Time passes between transactions. *)
LEMMA TickKeeps ==
    ASSUME VetoInv, Tick
    PROVE  VetoInv' /\ MayReplace(room, room', MayForce(now))
<1>1. work' = Idle /\ now' = now + 1 /\ now < MaxTime /\ UNCHANGED <<room, inbox, answered, other, acts>>
  BY DEF Tick
<1>2. /\ room \in Rooms /\ SequenceOK(room) /\ ClockOK(room, now) /\ now \in Nat
      /\ room.start \in Times /\ room.paused \in Times
  BY RoomFacts
<1>3. ClockOK(room, now + 1)
  BY <1>2 DEF ClockOK, Times, NoTime
<1>4. \A tab \in Tabs : CommandOK(inbox[tab], room, now + 1)
  <2> TAKE tab \in Tabs
  <2>1. CommandOK(inbox[tab], room, now) /\ inbox[tab] \in Commands
    BY DEF VetoInv
  <2>2. inbox[tab].at \in Times
    BY <2>1 DEF Commands
  <2> QED
    BY <1>2, <2>1, <2>2 DEF CommandOK, Times, NoTime
<1>5. RoomOK(room, now + 1) /\ now + 1 \in 0..MaxTime
  BY <1>1, <1>2, <1>3, RoomAssumption DEF RoomOK
<1>6. MayReplace(room, room', MayForce(now))
  BY <1>1, <1>2, SinceItself DEF Since
<1>7. VetoInv'
  BY <1>1, <1>4, <1>5 DEF VetoInv
<1> QED
  BY <1>6, <1>7

-----------------------------------------------------------------------------
(* The invariant and what follows from it *)

(* A match that has just been scheduled *)
LEMMA InitHolds ==
    ASSUME Init
    PROVE  VetoInv
<1>1. /\ room.status = "scheduled" /\ room.privileged = InitialPrivileged /\ room.vetoA = NoEntry
      /\ ~room.started /\ ~room.completed /\ room.key = NoTurn /\ room.start = NoTime
      /\ room.deadline = NoTime /\ room.paused = NoTime /\ room.revision = 0 /\ room.steps = {}
      /\ room.incidents = {} /\ room.plan = {} /\ room.played = {}
  BY DEF Init
<1>2. room \in Rooms
  <2>1. NoTurn \in TurnKeys /\ NoTime \in Times
    BY DEF TurnKeys, Times
  <2>2. [e \in Entries |-> InitialLineup] \in [Entries -> {"none", "ok", "stale"}]
    BY RoomAssumption
  <2>3. [e \in Entries |-> IF InitialLineup = "ok" THEN DefaultRep[e] ELSE NoUser]
            \in [Entries -> Users \cup {NoUser}]
    BY RoomAssumption
  <2> QED
    BY <2>1, <2>2, <2>3, RoomAssumption DEF Init, Rooms
<1>3. Legal(InitialPrivileged, NoEntry, {})
  <2>1. IsFiniteSet({}) /\ Cardinality({}) = 0
    BY FS_EmptySet
  <2>2. Ordered({}, 0)
    BY DEF Ordered
  <2>3. \A t \in Turns : Cardinality(StepsAt({}, t)) <= Format[t].count
    <3> TAKE t \in Turns
    <3>1. StepsAt({}, t) = {} /\ Format[t].count \in Nat
      BY FormatType DEF StepsAt
    <3> QED
      BY <2>1, <3>1
  <2>4. Ordered({}, Cardinality({}))
    BY <2>1, <2>2, Zenon
  <2> QED
    BY <2>1, <2>3, <2>4 DEF Legal
<1>4. SequenceOK(room)
  BY <1>1, <1>2, <1>3 DEF SequenceOK, BeforeStart, PlanOK, Recorded
<1>5. now = 0 /\ work = Idle /\ acts = 0 /\ answered = {} /\ inbox = [tab \in Tabs |-> NoCommand]
      /\ other = [busy |-> FALSE, endedAt |-> NoTime]
  BY DEF Init
<1>6. RoomOK(room, now) /\ Ticking(room)
  BY <1>1, <1>4, <1>5 DEF RoomOK, ClockOK, Ticking, InPlay, NoTime
<1>7. NoCommand \in Commands /\ CommandOK(NoCommand, room, now)
  BY <1>1, <1>5 DEF NoCommand, Commands, CommandOK, TurnKeys, Times, NoTime
<1>8. AnswersOK(answered, room)
  BY <1>5 DEF AnswersOK
<1>9. other \in [busy : BOOLEAN, endedAt : Times]
  BY <1>5 DEF Times
<1> QED
  BY <1>5, <1>6, <1>7, <1>8, <1>9, RoomAssumption DEF VetoInv

(* Every step keeps the invariant, and leaves a room that may follow the   *)
(* one before it.                                                          *)
LEMMA NextKeeps ==
    ASSUME VetoInv, [Next]_vars
    PROVE  VetoInv' /\ MayReplace(room, room', MayForce(now))
<1>1. CASE UNCHANGED vars
  BY <1>1, WorkStep, InvFacts DEF vars, VetoInv
<1>2. CASE \E tab \in Tabs : CommandOf(tab)
  BY <1>2, CommandOfKeeps
<1> QED
  BY <1>1, <1>2, ReconcileKeeps, CommandKeeps, VisitStep, AdministerKeeps, EnvironmentKeeps,
     TickKeeps DEF Next

(* The invariant holds of the veto room, whatever its players, officials   *)
(* and jobs do.                                                            *)
THEOREM VetoInvariant == Spec => []VetoInv
<1>1. Init => VetoInv
  BY InitHolds
<1>2. VetoInv /\ [Next]_vars => VetoInv'
  BY NextKeeps
<1> QED
  BY <1>1, <1>2, PTL DEF Spec

(* The rows of the room keep their shapes. *)
THEOREM VetoType == Spec => []TypeOK
<1>1. VetoInv => TypeOK
  BY DEF VetoInv, TypeOK, RoomOK, SequenceOK, WorkOK, AnswersOK
<1> QED
  BY <1>1, VetoInvariant, PTL

(* The recorded steps are a legal beginning of the format after any mix of *)
(* answers, timeouts, rewinds and retries.                                 *)
THEOREM StepsAreLegal == Spec => []StepsFollowFormat
<1>1. VetoInv => StepsFollowFormat
  <2> SUFFICES ASSUME VetoInv PROVE StepsFollowFormat
    OBVIOUS
  <2> DEFINE steps == room.steps
  <2>1. Legal(room.privileged, room.vetoA, steps)
    BY RoomFacts
  <2>2. {s.order : s \in steps} = 1..Cardinality(steps)
    BY <2>1 DEF Legal, Ordered
  <2>3. \A s \in steps : s.turn \in Turns
    BY <2>1, LegalType
  <2>4. \A s \in steps : s.entry = Actor(room, s.turn)
    BY <2>1 DEF Legal, Actor
  <2>5. \A s, r \in steps :
           {ActionOf(s), ActionOf(r)} \cap {"side_pick"} = {} /\ s.map = r.map => s = r
    BY <2>1 DEF Legal
  <2>6. /\ \A s, q \in steps : s.order < q.order => s.turn <= q.turn
        /\ \A s \in steps : \A t \in Turns : t < s.turn => Answered(steps, t)
        /\ \A t \in Turns : Cardinality(StepsAt(steps, t)) <= Format[t].count
        /\ \A s \in steps : ActionOf(s) = "side_pick" =>
              \E q \in steps : q.turn = Format[s.turn].from /\ q.map = s.map
    BY <2>1 DEF Legal
  <2> QED
    BY <2>2, <2>3, <2>4, <2>5, <2>6 DEF StepsFollowFormat
<1> QED
  BY <1>1, VetoInvariant, PTL

(* A room in play has its current turn on the clock for its full time. *)
THEOREM TurnsAreTimed == Spec => []TurnIsOnTheClock
<1>1. VetoInv => TurnIsOnTheClock
  BY DEF VetoInv, TurnIsOnTheClock, Ticking, Timed
<1> QED
  BY <1>1, VetoInvariant, PTL

(* What a timeout did in an entry's name, a step or the choice of the      *)
(* roles, can be appealed against.                                         *)
THEOREM TimeoutsRecorded == Spec => []TimeoutsOnRecord
<1>1. VetoInv => TimeoutsOnRecord
  BY RoomFacts DEF TimeoutsOnRecord, Recorded, OnRecord, Touches, RoleDrawn
<1> QED
  BY <1>1, VetoInvariant, PTL

(* A command that is sent again has no second effect. *)
THEOREM CommandsApplyOnce == Spec => []AppliedOnce
<1>1. VetoInv => AppliedOnce
  BY DEF VetoInv, AppliedOnce, AnswersOK
<1> QED
  BY <1>1, VetoInvariant, PTL

(* What a client is shown changes only with the revision, which only grows.*)
THEOREM RevisionsNameSessions == Spec => RevisionNamesSession
<1>1. VetoInv /\ [Next]_vars =>
         /\ room'.revision >= room.revision
         /\ Session(room') # Session(room) => room'.revision > room.revision
  BY NextKeeps DEF MayReplace, Allowed, Moved
<1> QED
  BY <1>1, VetoInvariant, PTL DEF Spec, RevisionNamesSession

(* Once a map is being played, nothing of the sequence or the plan moves. *)
THEOREM GameplayFreezes == Spec => GameplayFreezesVeto
<1>1. VetoInv /\ [Next]_vars =>
         (room.played # {} =>
            /\ room'.completed
            /\ room'.steps = room.steps
            /\ room'.vetoA = room.vetoA
            /\ {p \in room'.plan : p.order \in room.played} = {p \in room.plan : p.order \in room.played}
            /\ room'.status # "ended" => room'.plan = room.plan)
  BY NextKeeps DEF MayReplace, Allowed, Frozen
<1> QED
  BY <1>1, VetoInvariant, PTL DEF Spec, GameplayFreezesVeto

(* No turn starts before the one it follows. *)
THEOREM StartsInOrder == Spec => TurnsStartInOrder
<1>1. VetoInv /\ [Next]_vars =>
         (room.start # NoTime /\ room'.start # NoTime => room'.start >= room.start)
  BY NextKeeps DEF MayReplace, Allowed, Onward
<1> QED
  BY <1>1, VetoInvariant, PTL DEF Spec, TurnsStartInOrder

(* A match starts on the confirmations that count, or by force when it may.*)
THEOREM StartsAgreed == Spec => StartIsAgreed
<1>1. VetoInv /\ [Next]_vars =>
         (~room.started /\ room'.started =>
            /\ room.status = "scheduled"
            /\ \E e \in Entries : room'.request[e] # NoUser /\ room'.request[e] \in {room'.rep[e], Captain[e]}
            /\ \/ \A e \in Entries : room'.request[e] # NoUser /\ room'.request[e] = room'.rep[e]
               \/ MayForce(now))
  BY NextKeeps DEF MayReplace, Allowed, Starts, Agreed
<1> QED
  BY <1>1, VetoInvariant, PTL DEF Spec, StartIsAgreed

(* The plan of a finished sequence is the one its picks and sides amount   *)
(* to, after timeouts, rewinds and a paused clock as well as without.      *)
THEOREM PlansAreFair == Spec => []PlanIsFair
<1>1. VetoInv => PlanIsFair
  <2> SUFFICES ASSUME VetoInv, room.status = "in_progress"
               PROVE  /\ room.completed <=> room.plan # {}
                      /\ room.completed => PlanIsFair
    BY DEF PlanIsFair
  <2>1. Legal(room.privileged, room.vetoA, room.steps) /\ BeforeStart(room) /\ PlanOK(room)
    BY RoomFacts
  <2>2. CASE ~room.completed
    BY <2>1, <2>2 DEF PlanOK
  <2>3. CASE room.completed
    <3>1. room.privileged # NoEntry
      BY <2>1, <2>3 DEF BeforeStart
    <3>2. CurrentTurn(room.privileged, room.vetoA, room.steps) = NoTurn /\ room.plan = MapPlan(room.steps)
      BY <2>1, <2>3 DEF PlanOK
    <3>3. \A t \in Turns : Answered(room.steps, t)
      BY <3>1, <3>2, CurrentIs
    <3>4. /\ room.plan # {}
          /\ Cardinality(room.plan) = MapCount(Format)
          /\ {x.order : x \in room.plan} = 1..MapCount(Format)
          /\ \A x, y \in room.plan : x.map = y.map => x = y
          /\ \A s \in room.steps : ActionOf(s) = "ban" => \A x \in room.plan : x.map # s.map
          /\ \A x \in room.plan, s \in room.steps :
                ActionOf(s) = "side_pick" /\ s.map = x.map =>
                    /\ s.entry # x.pickedBy
                    /\ x.sideA = IF s.entry = EntryA THEN s.side ELSE Opposite(s.side)
      BY <2>1, <3>2, <3>3, FairPlan
    <3> QED
      BY <2>3, <3>4 DEF PlanIsFair
  <2> QED
    BY <2>2, <2>3
<1> QED
  BY <1>1, VetoInvariant, PTL

-----------------------------------------------------------------------------
(* The room implements VetoLog *)

(* A room that may follow another follows it as VetoLog has it. *)
LEMMA LogStep ==
    ASSUME Logged(room, room')
    PROVE  [Log!LogNext]_(Log!logVars)
<1>1. CASE SameLog(room, room')
  BY <1>1 DEF SameLog, Log!logVars
<1>2. CASE Appends(room, room')
  <2>1. Log!Append
    BY <1>2 DEF Appends, Log!Append
  <2> QED
    BY <2>1 DEF Log!LogNext
<1>3. CASE \E t \in {0} \cup Turns : Cuts(room, room', t)
  <2>1. PICK t \in {0} \cup Turns : Cuts(room, room', t)
    BY <1>3
  <2>2. Log!Cut(t)
    BY <2>1 DEF Cuts, Log!Cut
  <2> QED
    BY <2>2 DEF Log!LogNext
<1>4. CASE Plays(room, room')
  <2>1. PICK p \in room.plan : room'.played = room.played \cup {p.order}
    BY <1>4 DEF Plays
  <2>2. Log!Play(p)
    BY <1>4, <2>1 DEF Plays, Log!Play
  <2> QED
    BY <2>2 DEF Log!LogNext
<1>5. CASE Ends(room, room')
  <2>1. Log!End
    BY <1>5 DEF Ends, Log!End
  <2> QED
    BY <2>1 DEF Log!LogNext
<1> QED
  BY <1>1, <1>2, <1>3, <1>4, <1>5 DEF Logged

(* The room, with its transactions, deadlines, repeated and late commands  *)
(* and interventions, implements the log that VetoLog specifies.           *)
THEOREM RoomImplementsLog == Spec => ImplementsVetoLog
<1>1. Init => Log!LogInit
  BY DEF Init, Log!LogInit
<1>2. VetoInv /\ [Next]_vars => [Log!LogNext]_(Log!logVars)
  BY NextKeeps, LogStep DEF MayReplace
<1> QED
  BY <1>1, <1>2, VetoInvariant, PTL DEF Spec, ImplementsVetoLog, Log!LogSpec
=============================================================================
