-------------------------- MODULE SchedulingProofs -------------------------
(***************************************************************************)
(* Proofs about MatchScheduling.  The inductive invariant ties the hold of *)
(* a match to its pending proposal (same time, inside the slot, given when *)
(* the proposal was made) and its allocation to its schedule.              *)
(***************************************************************************)
EXTENDS MatchScheduling, FiniteSetTheorems, TLAPS

Holds == [slot : Slots, time : Nat, expires : Nat]
Allocations == [slot : Slots, time : Nat]

-----------------------------------------------------------------------------
(* Types *)

(* A coverage step leaves holds and allocations of their types. *)
LEMMA HoldCoverageType ==
    ASSUME TypeOK, NEW m \in Matches, NEW s \in Slots, NEW time \in Times,
           HoldCoverage(m, s, time)
    PROVE  hold' \in [Matches -> Holds \cup {NoHold}]
<1>1. [slot |-> s, time |-> time, expires |-> now + HoldTime] \in Holds
  BY SchedulingAssumption DEF Holds, TypeOK
<1> QED
  BY <1>1 DEF HoldCoverage, TypeOK, Holds

(* Giving a hold up keeps the type of the table. *)
LEMMA ReleaseHoldType ==
    ASSUME TypeOK, NEW m \in Matches, ReleaseHold(m)
    PROVE  hold' \in [Matches -> Holds \cup {NoHold}]
BY DEF ReleaseHold, TypeOK, Holds

(* Converting a hold, or dropping it, does too. *)
LEMMA AllocateType ==
    ASSUME TypeOK, NEW m \in Matches, NEW time \in Nat, AllocateHeldCoverage(m, time)
    PROVE  /\ allocation' \in [Matches -> Allocations \cup {NoAllocation}]
           /\ hold' \in [Matches -> Holds \cup {NoHold}]
<1>1. hold[m] # NoHold => hold[m].slot \in Slots
  BY DEF TypeOK
<1>2. hold[m] # NoHold => [slot |-> hold[m].slot, time |-> time] \in Allocations
  BY <1>1 DEF Allocations
<1> QED
  BY <1>2, ReleaseHoldType DEF AllocateHeldCoverage, TypeOK, Allocations

(* A pending proposal has its fields. *)
LEMMA PendingType ==
    ASSUME TypeOK, NEW m \in Matches, pending[m] # NoProposal
    PROVE  /\ pending[m] \in Proposals
           /\ pending[m].time \in Nat
           /\ pending[m].created \in Nat
BY DEF TypeOK, Proposals

(* Every action keeps the types. *)
LEMMA TypeStep == TypeOK /\ [Next]_vars => TypeOK'
<1> SUFFICES ASSUME TypeOK, [Next]_vars PROVE TypeOK'
  OBVIOUS
<1> USE DEF Holds, Allocations
<1>1. ASSUME NEW m \in Matches, NEW side \in Sides, NEW time \in Times,
             NEW slot \in Slots \cup {NoSlot}, ProposeTime(m, side, time, slot)
      PROVE  TypeOK'
  <2>1. hold' \in [Matches -> Holds \cup {NoHold}]
    BY <1>1, HoldCoverageType, ReleaseHoldType DEF ProposeTime
  <2>2. [side |-> side, time |-> time, created |-> now] \in Proposals
    BY SchedulingAssumption DEF Proposals, TypeOK
  <2> QED
    BY <1>1, <2>1, <2>2 DEF ProposeTime, TypeOK
<1>2. ASSUME NEW m \in Matches, NEW side \in Sides, Accept(m, side) PROVE TypeOK'
  <2>1. pending[m].time \in Nat
    BY <1>2, PendingType DEF Accept, MayRespond
  <2>2. /\ allocation' \in [Matches -> Allocations \cup {NoAllocation}]
        /\ hold' \in [Matches -> Holds \cup {NoHold}]
    BY <1>2, <2>1, AllocateType DEF Accept
  <2> QED
    BY <1>2, <2>1, <2>2 DEF Accept, AcceptProposal, TypeOK, Resolutions
<1>3. ASSUME NEW m \in Matches, NEW side \in Sides, Reject(m, side) PROVE TypeOK'
  BY <1>3, ReleaseHoldType DEF Reject, TypeOK
<1>4. ASSUME NEW m \in Matches, NEW time \in Times \cup {NoTime},
             NEW intent \in {"save", "force"}, SetAdminSchedule(m, time, intent)
      PROVE  TypeOK'
  <2>1. allocation' \in [Matches -> Allocations \cup {NoAllocation}]
    BY <1>4 DEF SetAdminSchedule, ReleaseAllocation, TypeOK
  <2>2. time \in Nat \cup {NoTime}
    BY SchedulingAssumption
  <2>3. source' \in [Matches -> Resolutions]
    BY <1>4 DEF SetAdminSchedule, TypeOK, Resolutions
  <2> QED
    BY <1>4, <2>1, <2>2, <2>3, ReleaseHoldType DEF SetAdminSchedule, TypeOK
<1>5. ASSUME NEW e \in Editors, NEW m \in Matches, NEW time \in Times \cup {NoTime},
             CheckDeadline(e, m, time)
      PROVE  TypeOK'
  BY <1>5, SchedulingAssumption DEF CheckDeadline, TypeOK
<1>6. ASSUME NEW e \in BatchEditors, NEW time \in Times, CheckRoundDeadline(e, time)
      PROVE  TypeOK'
  <2>1. {m \in Matches : status[m] # "over"} \X {time} \in SUBSET (Matches \X (Nat \cup {NoTime}))
    BY SchedulingAssumption
  <2> QED
    BY <1>6, <2>1 DEF CheckRoundDeadline, TypeOK
<1>7. ASSUME NEW e \in Editors \cup BatchEditors, WriteDeadline(e) PROVE TypeOK'
  <2>1. edit[e] \in SUBSET (Matches \X (Nat \cup {NoTime}))
    BY DEF TypeOK
  <2>2. ASSUME NEW m \in Matches, \E x \in edit[e] : x[1] = m
        PROVE  (CHOOSE x \in edit[e] : x[1] = m)[2] \in Nat \cup {NoTime}
    <3>1. (CHOOSE x \in edit[e] : x[1] = m) \in edit[e]
      BY <2>2
    <3> QED
      BY <2>1, <3>1
  <2>3. deadline' \in [Matches -> Nat \cup {NoTime}]
    BY <1>7, <2>2 DEF WriteDeadline, TypeOK
  <2>4. edit' \in [Editors \cup BatchEditors -> SUBSET (Matches \X (Nat \cup {NoTime}))]
    BY <1>7 DEF WriteDeadline, NoEdit, TypeOK
  <2> QED
    BY <1>7, <2>3, <2>4 DEF WriteDeadline, TypeOK
<1>8. ASSUME NEW m \in Matches, Leave(m) PROVE TypeOK'
  BY <1>8 DEF Leave, TypeOK
<1>9. ASSUME SelectOverdue PROVE TypeOK'
  <2>1. \A m \in Matches : IsOverdue(m) => <<m, pending[m]>> \in Matches \X Proposals
    BY PendingType DEF IsOverdue
  <2>2. sweep' \subseteq Matches \X Proposals
    BY <1>9, <2>1 DEF SelectOverdue
  <2> QED
    BY <1>9, <2>2 DEF SelectOverdue, TypeOK
<1>10. ASSUME NEW x \in sweep, Settle(x[1], x[2]) PROVE TypeOK'
  <2> DEFINE m == x[1]
  <2> DEFINE p == x[2]
  <2>1. m \in Matches /\ p \in Proposals /\ p.time \in Nat
    BY DEF TypeOK, Proposals
  <2>2. CASE SettleExpired(m, p)
    BY <2>1, <2>2, ReleaseHoldType DEF SettleExpired, Settles, TypeOK
  <2>3. CASE SettleAccepted(m, p)
    <3>1. pending[m] # NoProposal
      BY <2>1, <2>3 DEF SettleAccepted, Proposals, NoProposal, Sides
    <3>2. pending[m].time \in Nat
      BY <2>1, <3>1, PendingType
    <3>3. /\ allocation' \in [Matches -> Allocations \cup {NoAllocation}]
          /\ hold' \in [Matches -> Holds \cup {NoHold}]
      BY <2>1, <2>3, AllocateType DEF SettleAccepted
    <3> QED
      BY <2>1, <2>3, <3>2, <3>3 DEF SettleAccepted, Settles, AcceptProposal, TypeOK, Resolutions
  <2>4. CASE SettleSkipped(m, p)
    BY <2>4 DEF SettleSkipped, Settles, TypeOK
  <2> QED
    BY <1>10, <2>2, <2>3, <2>4 DEF Settle
<1>11. ASSUME Tick PROVE TypeOK'
  BY <1>11 DEF Tick, TypeOK
<1>12. ASSUME UNCHANGED vars PROVE TypeOK'
  BY <1>12 DEF vars, TypeOK
<1> QED
  BY <1>1, <1>2, <1>3, <1>4, <1>5, <1>6, <1>7, <1>8, <1>9, <1>10, <1>11, <1>12 DEF Next

(* Nothing is proposed, held or scheduled at first. *)
LEMMA TypeInit == Init => TypeOK
BY DEF Init, TypeOK, Resolutions, NoEdit

(* TypeOK for any matches, slots, times and administrators. *)
THEOREM TypeCorrect == Spec => []TypeOK
BY TypeInit, TypeStep, PTL DEF Spec

-----------------------------------------------------------------------------
(* The inductive invariant *)

(* A hold is the pending proposal's: same time, inside the slot, and given *)
(* for HoldTime when the proposal was made.                                *)
HoldSound(m) ==
    hold[m] # NoHold =>
      /\ pending[m] # NoProposal
      /\ hold[m].time = pending[m].time
      /\ hold[m].time \in SlotTimes[hold[m].slot]
      /\ hold[m].expires = pending[m].created + HoldTime

AllocationSound(m) ==
    allocation[m] # NoAllocation =>
      /\ allocation[m].time = scheduledAt[m]
      /\ scheduledAt[m] \in SlotTimes[allocation[m].slot]
      /\ source[m] # "auto_timeout"

Sound(m) == HoldSound(m) /\ AllocationSound(m)

SchedulingInv == TypeOK /\ \A m \in Matches : Sound(m)

(* Init has no holds and no allocations. *)
LEMMA InvInit == Init => \A m \in Matches : Sound(m)
BY DEF Init, Sound, HoldSound, AllocationSound

(* A match none of whose rows a step touches stays sound. *)
LEMMA Untouched ==
    ASSUME SchedulingInv, NEW m \in Matches,
           hold'[m] = hold[m], pending'[m] = pending[m], allocation'[m] = allocation[m],
           scheduledAt'[m] = scheduledAt[m], source'[m] = source[m]
    PROVE  Sound(m)'
BY DEF SchedulingInv, Sound, HoldSound, AllocationSound

(* Acceptance turns a live hold into coverage of the accepted time; an     *)
(* acceptance by silence finds the hold expired.                           *)
LEMMA InvAccept ==
    ASSUME SchedulingInv, NEW m \in Matches, NEW resolution \in Resolutions,
           pending[m] # NoProposal,
           resolution = "auto_timeout" => pending[m].created + ResponseTime <= now,
           AllocateHeldCoverage(m, pending[m].time),
           AcceptProposal(m, resolution)
    PROVE  \A n \in Matches : Sound(n)'
<1>1. ASSUME NEW n \in Matches, n # m PROVE Sound(n)'
  BY <1>1, Untouched DEF AllocateHeldCoverage, ReleaseHold, AcceptProposal, SchedulingInv, TypeOK
<1>2. /\ pending[m].time \in Nat /\ pending[m].created \in Nat
      /\ HoldTime \in Nat /\ ResponseTime \in Nat /\ HoldTime <= ResponseTime /\ now \in Nat
  BY PendingType, SchedulingAssumption DEF SchedulingInv, TypeOK
<1>3. HoldSound(m)'
  BY DEF AllocateHeldCoverage, ReleaseHold, HoldSound, SchedulingInv, TypeOK
<1>4. /\ scheduledAt'[m] = pending[m].time /\ source'[m] = resolution
      /\ allocation'[m] = IF hold[m] # NoHold /\ hold[m].expires > now
                             /\ hold[m].time = pending[m].time
                          THEN [slot |-> hold[m].slot, time |-> pending[m].time]
                          ELSE NoAllocation
  BY DEF AllocateHeldCoverage, AcceptProposal, SchedulingInv, TypeOK
<1>5. AllocationSound(m)'
  <2>1. CASE hold[m] # NoHold /\ hold[m].expires > now /\ hold[m].time = pending[m].time
    <3>1. hold[m].time \in SlotTimes[hold[m].slot] /\ hold[m].expires = pending[m].created + HoldTime
      BY <2>1 DEF SchedulingInv, Sound, HoldSound
    <3>2. resolution # "auto_timeout"
      BY <1>2, <2>1, <3>1
    <3> QED
      BY <1>4, <2>1, <3>1, <3>2 DEF AllocationSound
  <2>2. CASE ~(hold[m] # NoHold /\ hold[m].expires > now /\ hold[m].time = pending[m].time)
    BY <1>4, <2>2 DEF AllocationSound
  <2> QED
    BY <2>1, <2>2
<1> QED
  BY <1>1, <1>3, <1>5 DEF Sound

(* A proposal takes its hold with it when it is answered or overridden.    *)
LEMMA InvDropProposal ==
    ASSUME SchedulingInv, NEW m \in Matches, ReleaseHold(m),
           pending' = [pending EXCEPT ![m] = NoProposal],
           UNCHANGED <<scheduledAt, source, allocation>>
    PROVE  \A n \in Matches : Sound(n)'
<1>1. ASSUME NEW n \in Matches, n # m PROVE Sound(n)'
  BY <1>1, Untouched DEF ReleaseHold, SchedulingInv, TypeOK
<1>2. Sound(m)'
  BY DEF ReleaseHold, Sound, HoldSound, AllocationSound, SchedulingInv, TypeOK
<1> QED
  BY <1>1, <1>2

(* A new proposal comes with a hold of its own or with none. *)
LEMMA InvPropose ==
    ASSUME SchedulingInv, NEW m \in Matches, NEW side \in Sides, NEW time \in Times,
           NEW slot \in Slots \cup {NoSlot}, ProposeTime(m, side, time, slot)
    PROVE  \A n \in Matches : Sound(n)'
<1>1. /\ UNCHANGED <<scheduledAt, source, allocation>>
      /\ pending'[m] = [side |-> side, time |-> time, created |-> now]
      /\ \A n \in Matches : n # m => pending'[n] = pending[n]
  BY DEF ProposeTime, SchedulingInv, TypeOK
<1>2. \A n \in Matches : AllocationSound(n)'
  BY <1>1 DEF SchedulingInv, Sound, AllocationSound
<1>3. ASSUME NEW n \in Matches, n # m PROVE HoldSound(n)'
  <2>1. hold'[n] = hold[n] \/ hold'[n] = NoHold
    BY <1>3 DEF ProposeTime, ReleaseHold, HoldCoverage, SchedulingInv, TypeOK
  <2> QED
    BY <1>1, <1>3, <2>1 DEF SchedulingInv, Sound, HoldSound
<1>4. HoldSound(m)'
  <2>1. CASE slot = NoSlot
    BY <2>1 DEF ProposeTime, ReleaseHold, HoldSound, SchedulingInv, TypeOK
  <2>2. CASE slot # NoSlot
    <3>1. /\ time \in SlotTimes[slot]
          /\ hold'[m] = [slot |-> slot, time |-> time, expires |-> now + HoldTime]
      BY <2>2 DEF ProposeTime, HoldCoverage
    <3>2. pending'[m] # NoProposal
      BY <1>1 DEF NoProposal
    <3> QED
      BY <1>1, <3>1, <3>2 DEF HoldSound
  <2> QED
    BY <2>1, <2>2
<1> QED
  BY <1>2, <1>3, <1>4 DEF Sound

(* An administrator's time gives up coverage of any other time. *)
LEMMA InvAdmin ==
    ASSUME SchedulingInv, NEW m \in Matches, NEW time \in Times \cup {NoTime},
           NEW intent \in {"save", "force"}, SetAdminSchedule(m, time, intent)
    PROVE  \A n \in Matches : Sound(n)'
<1>1. ASSUME NEW n \in Matches, n # m PROVE Sound(n)'
  BY <1>1, Untouched DEF SetAdminSchedule, ReleaseHold, ReleaseAllocation, SchedulingInv, TypeOK
<1>2. HoldSound(m)'
  BY DEF SetAdminSchedule, ReleaseHold, HoldSound, SchedulingInv, TypeOK
<1>3. /\ scheduledAt'[m] = time
      /\ source'[m] \in {"none", "admin_force"}
      /\ \/ allocation'[m] = allocation[m] /\ time = scheduledAt[m]
         \/ allocation'[m] = NoAllocation
  BY DEF SetAdminSchedule, ReleaseAllocation, SchedulingInv, TypeOK
<1>4. AllocationSound(m)'
  BY <1>3 DEF SchedulingInv, Sound, AllocationSound
<1> QED
  BY <1>1, <1>2, <1>4 DEF Sound

(* Every action keeps the invariant. *)
LEMMA InvStep == SchedulingInv /\ [Next]_vars => SchedulingInv'
<1> SUFFICES ASSUME SchedulingInv, [Next]_vars PROVE \A n \in Matches : Sound(n)'
  BY TypeStep DEF SchedulingInv
<1>1. ASSUME NEW m \in Matches, NEW side \in Sides, Accept(m, side)
      PROVE  \A n \in Matches : Sound(n)'
  BY <1>1, InvAccept DEF Accept, MayRespond, Resolutions
<1>2. ASSUME NEW m \in Matches, NEW side \in Sides, Reject(m, side)
      PROVE  \A n \in Matches : Sound(n)'
  BY <1>2, InvDropProposal DEF Reject
<1>3. ASSUME NEW x \in sweep, Settle(x[1], x[2])
      PROVE  \A n \in Matches : Sound(n)'
  <2> DEFINE m == x[1]
  <2> DEFINE p == x[2]
  <2>1. m \in Matches /\ p \in Proposals
    BY DEF SchedulingInv, TypeOK
  <2>2. CASE SettleExpired(m, p)
    BY <2>1, <2>2, InvDropProposal DEF SettleExpired
  <2>3. CASE SettleAccepted(m, p)
    <3>1. /\ pending[m] = p /\ pending[m] # NoProposal
          /\ pending[m].created + ResponseTime <= now
      BY <2>1, <2>3 DEF SettleAccepted, CanAutoAccept, Proposals, NoProposal, Sides
    <3>2. AllocateHeldCoverage(m, pending[m].time) /\ AcceptProposal(m, "auto_timeout")
      BY <2>3 DEF SettleAccepted
    <3> QED
      BY <2>1, <3>1, <3>2, InvAccept DEF Resolutions
  <2>4. CASE SettleSkipped(m, p)
    BY <2>4, Untouched DEF SettleSkipped
  <2> QED
    BY <1>3, <2>2, <2>3, <2>4 DEF Settle
<1>4. CASE UNCHANGED <<scheduledAt, source, pending, hold, allocation>>
  BY <1>4, Untouched
<1> QED
  BY <1>1, <1>2, <1>3, <1>4, InvPropose, InvAdmin
     DEF Next, vars, CheckDeadline, CheckRoundDeadline, WriteDeadline, Leave, SelectOverdue, Tick

(* The invariant holds in every reachable state. *)
LEMMA Invariance == Spec => []SchedulingInv
<1>1. Init => SchedulingInv
  BY TypeInit, InvInit DEF SchedulingInv
<1> QED
  BY <1>1, InvStep, PTL DEF Spec

-----------------------------------------------------------------------------
(* Results *)

(* No hold outlives the proposal it was given to, for any matches, slots   *)
(* and times.                                                              *)
THEOREM HoldsFollow == Spec => []HoldFollowsProposal
<1>1. SchedulingInv => HoldFollowsProposal
  BY DEF SchedulingInv, Sound, HoldSound, HoldFollowsProposal
<1> QED
  BY <1>1, Invariance, PTL

(* Confirmed coverage is always for the time the match is scheduled at.    *)
THEOREM CoverageFollows == Spec => []CoverageFollowsSchedule
<1>1. SchedulingInv => CoverageFollowsSchedule
  BY DEF SchedulingInv, Sound, AllocationSound, CoverageFollowsSchedule
<1> QED
  BY <1>1, Invariance, PTL

(* No time accepted by silence is covered, as long as a hold does not live *)
(* longer than the response time.                                          *)
THEOREM SilenceUncovered == Spec => []SilenceIsNotCovered
<1>1. SchedulingInv => SilenceIsNotCovered
  BY DEF SchedulingInv, Sound, AllocationSound, SilenceIsNotCovered
<1> QED
  BY <1>1, Invariance, PTL

-----------------------------------------------------------------------------
(* Slots are not oversold *)

Promised(s) == {m \in Matches : hold[m].slot = s \/ allocation[m].slot = s}

(* The matches promised a slot are finitely many. *)
LEMMA PromisedFinite ==
    ASSUME NEW s \in Slots
    PROVE  IsFiniteSet(Promised(s)) /\ Cardinality(Promised(s)) \in Nat
BY SchedulingAssumption, FS_Subset, FS_CardinalityType DEF Promised

(* A step that promises a slot to no further match does not oversell it.   *)
LEMMA NoNewPromise ==
    ASSUME NEW s \in Slots, SlotNotOversold, Promised(s)' \subseteq Promised(s)
    PROVE  Cardinality(Promised(s)') <= Capacity[s]
<1>1. /\ Cardinality(Promised(s)) <= Capacity[s]
      /\ Capacity[s] \in Nat
  BY SchedulingAssumption DEF SlotNotOversold, Promised
<1>2. /\ IsFiniteSet(Promised(s)') /\ Cardinality(Promised(s)') \in Nat
      /\ Cardinality(Promised(s)') <= Cardinality(Promised(s))
  BY PromisedFinite, FS_Subset, FS_CardinalityType
<1> QED
  BY <1>1, <1>2, PromisedFinite

(* A hold is given when the other matches leave a place. *)
LEMMA HoldFits ==
    ASSUME TypeOK, NEW m \in Matches, NEW s \in Slots, NEW time \in Times,
           HoldCoverage(m, s, time), allocation' = allocation
    PROVE  Cardinality(Promised(s)') <= Capacity[s]
<1> DEFINE H == {n \in Matches \ {m} : hold[n].slot = s /\ ~Expired(n, s)}
<1> DEFINE A == {n \in Matches \ {m} : allocation[n].slot = s}
<1>1. /\ IsFiniteSet(H) /\ Cardinality(H) \in Nat
      /\ IsFiniteSet(A) /\ Cardinality(A) \in Nat
  <2>1. IsFiniteSet(Matches) /\ H \subseteq Matches /\ A \subseteq Matches
    BY SchedulingAssumption
  <2> HIDE DEF H, A
  <2> QED
    BY <2>1, FS_Subset, FS_CardinalityType
<1>2. Cardinality(H) + Cardinality(A) < Capacity[s] /\ Capacity[s] \in Nat
  BY SchedulingAssumption DEF HoldCoverage, Occupied
<1>3. Promised(s)' \subseteq (H \cup A) \cup {m}
  <2>1. \A n \in Matches : n # m =>
          hold'[n] = IF Expired(n, s) THEN NoHold ELSE hold[n]
    BY DEF HoldCoverage
  <2>2. NoHold.slot # s
    BY SchedulingAssumption DEF NoHold
  <2>3. ASSUME NEW n \in Promised(s)', n # m PROVE n \in H \cup A
    BY <2>1, <2>2, <2>3 DEF Promised
  <2> QED
    BY <2>3
<1> HIDE DEF H, A
<1>4. /\ IsFiniteSet(H \cup A) /\ Cardinality(H \cup A) \in Nat
      /\ Cardinality(H \cup A) <= Cardinality(H) + Cardinality(A)
  <2>1. /\ IsFiniteSet(H \cup A) /\ IsFiniteSet(H \cap A)
        /\ Cardinality(H \cup A) = Cardinality(H) + Cardinality(A) - Cardinality(H \cap A)
    BY <1>1, FS_Union, FS_Intersection
  <2>2. Cardinality(H \cap A) \in Nat /\ Cardinality(H \cup A) \in Nat
    BY <2>1, FS_CardinalityType
  <2> QED
    BY <1>1, <2>1, <2>2
<1>5. /\ IsFiniteSet((H \cup A) \cup {m})
      /\ Cardinality((H \cup A) \cup {m}) \in Nat
      /\ Cardinality((H \cup A) \cup {m}) <= Cardinality(H \cup A) + 1
  <2>1. /\ IsFiniteSet((H \cup A) \cup {m})
        /\ Cardinality((H \cup A) \cup {m}) =
             IF m \in H \cup A THEN Cardinality(H \cup A) ELSE Cardinality(H \cup A) + 1
    BY <1>4, FS_AddElement, Zenon
  <2> QED
    BY <1>4, <2>1
<1>6. Cardinality(Promised(s)') \in Nat
      /\ Cardinality(Promised(s)') <= Cardinality((H \cup A) \cup {m})
  BY <1>3, <1>5, FS_Subset, FS_CardinalityType
<1> QED
  BY <1>1, <1>2, <1>4, <1>5, <1>6

(* Accepting a proposal promises nothing its hold had not promised. *)
LEMMA AcceptPromises ==
    ASSUME TypeOK, NEW m \in Matches, NEW time, AllocateHeldCoverage(m, time), NEW s \in Slots
    PROVE  Promised(s)' \subseteq Promised(s)
<1>1. NoAllocation.slot # s /\ NoHold.slot # s
  BY SchedulingAssumption DEF NoAllocation, NoHold
<1>2. /\ hold'[m] = NoHold
      /\ allocation'[m].slot \in {hold[m].slot, NoAllocation.slot}
      /\ \A n \in Matches : n # m => hold'[n] = hold[n] /\ allocation'[n] = allocation[n]
  BY DEF AllocateHeldCoverage, ReleaseHold, TypeOK
<1> QED
  BY <1>1, <1>2 DEF Promised

(* A step that only gives holds and allocations up promises nothing. *)
LEMMA ReleasePromises ==
    ASSUME NEW s \in Slots,
           \A n \in Matches : hold'[n] = hold[n] \/ hold'[n] = NoHold,
           \A n \in Matches : allocation'[n] = allocation[n] \/ allocation'[n] = NoAllocation
    PROVE  Promised(s)' \subseteq Promised(s)
<1>1. NoAllocation.slot # s /\ NoHold.slot # s
  BY SchedulingAssumption DEF NoAllocation, NoHold
<1> QED
  BY <1>1 DEF Promised

(* Only a proposal that asks for coverage adds a promise, and it is given  *)
(* one only where a place is left.                                         *)
LEMMA NotOversoldStep == TypeOK /\ SlotNotOversold /\ [Next]_vars => SlotNotOversold'
<1> SUFFICES ASSUME TypeOK, SlotNotOversold, [Next]_vars, NEW s \in Slots
             PROVE  Cardinality(Promised(s)') <= Capacity[s]
  BY DEF SlotNotOversold, Promised
<1>1. ASSUME NEW m \in Matches, NEW side \in Sides, NEW time \in Times,
             NEW slot \in Slots \cup {NoSlot}, ProposeTime(m, side, time, slot)
      PROVE  Cardinality(Promised(s)') <= Capacity[s]
  <2>1. allocation' = allocation
    BY <1>1 DEF ProposeTime
  <2>2. CASE slot = NoSlot
    BY <1>1, <2>1, <2>2, ReleasePromises, NoNewPromise DEF ProposeTime, ReleaseHold, TypeOK
  <2>3. CASE slot = s
    BY <1>1, <2>1, <2>3, HoldFits, SchedulingAssumption DEF ProposeTime
  <2>4. CASE slot # NoSlot /\ slot # s
    <3>1. hold'[m].slot # s
      BY <1>1, <2>4 DEF ProposeTime, HoldCoverage
    <3>2. \A n \in Matches : n # m => hold'[n] = hold[n] \/ hold'[n] = NoHold
      BY <1>1, <2>4 DEF ProposeTime, HoldCoverage
    <3>3. NoHold.slot # s
      BY SchedulingAssumption DEF NoHold
    <3>4. Promised(s)' \subseteq Promised(s)
      BY <2>1, <3>1, <3>2, <3>3 DEF Promised
    <3> QED
      BY <3>4, NoNewPromise
  <2> QED
    BY <2>2, <2>3, <2>4
<1>2. ASSUME NEW m \in Matches, NEW side \in Sides, Accept(m, side)
      PROVE  Cardinality(Promised(s)') <= Capacity[s]
  BY <1>2, AcceptPromises, NoNewPromise DEF Accept
<1>3. ASSUME NEW m \in Matches, NEW side \in Sides, Reject(m, side)
      PROVE  Cardinality(Promised(s)') <= Capacity[s]
  BY <1>3, ReleasePromises, NoNewPromise DEF Reject, ReleaseHold, TypeOK
<1>4. ASSUME NEW m \in Matches, NEW time \in Times \cup {NoTime},
             NEW intent \in {"save", "force"}, SetAdminSchedule(m, time, intent)
      PROVE  Cardinality(Promised(s)') <= Capacity[s]
  BY <1>4, ReleasePromises, NoNewPromise
     DEF SetAdminSchedule, ReleaseHold, ReleaseAllocation, TypeOK
<1>5. ASSUME NEW x \in sweep, Settle(x[1], x[2])
      PROVE  Cardinality(Promised(s)') <= Capacity[s]
  <2>1. x[1] \in Matches
    BY DEF TypeOK
  <2>2. CASE SettleAccepted(x[1], x[2])
    BY <2>1, <2>2, AcceptPromises, NoNewPromise DEF SettleAccepted
  <2>3. CASE SettleExpired(x[1], x[2]) \/ SettleSkipped(x[1], x[2])
    BY <2>1, <2>3, ReleasePromises, NoNewPromise
       DEF SettleExpired, SettleSkipped, ReleaseHold, TypeOK
  <2> QED
    BY <1>5, <2>2, <2>3 DEF Settle
<1>6. CASE UNCHANGED <<hold, allocation>>
  BY <1>6, ReleasePromises, NoNewPromise
<1> QED
  BY <1>1, <1>2, <1>3, <1>4, <1>5, <1>6
     DEF Next, vars, CheckDeadline, CheckRoundDeadline, WriteDeadline, Leave, SelectOverdue, Tick

(* For any slots and capacities, holds and confirmed coverage together     *)
(* never promise a slot to more matches than it can cover.                 *)
THEOREM NotOversold == Spec => []SlotNotOversold
<1>1. Init => SlotNotOversold
  <2> SUFFICES ASSUME Init, NEW s \in Slots
               PROVE  Cardinality(Promised(s)) <= Capacity[s]
    BY DEF SlotNotOversold, Promised
  <2>1. Promised(s) = {}
    BY SchedulingAssumption DEF Init, Promised, NoHold, NoAllocation
  <2> QED
    BY <2>1, FS_EmptySet, SchedulingAssumption
<1> QED
  BY <1>1, NotOversoldStep, TypeCorrect, PTL DEF Spec

-----------------------------------------------------------------------------
(* Acceptance by silence *)

(* Only the cron settles a proposal by silence, and only under its rule.   *)
LEMMA SilenceStep ==
    ASSUME TypeOK, [Next]_vars, NEW m \in Matches, source'[m] = "auto_timeout",
           source[m] # "auto_timeout" \/ scheduledAt'[m] # scheduledAt[m]
    PROVE  /\ scheduledAt[m] = NoTime
           /\ pending[m].created + ResponseTime <= now
           /\ now + Notice <= scheduledAt'[m]
<1>1. ASSUME NEW n \in Matches, NEW side \in Sides, Accept(n, side) PROVE FALSE
  BY <1>1 DEF Accept, AcceptProposal, TypeOK
<1>2. ASSUME NEW n \in Matches, NEW time \in Times \cup {NoTime},
             NEW intent \in {"save", "force"}, SetAdminSchedule(n, time, intent)
      PROVE  FALSE
  BY <1>2 DEF SetAdminSchedule, TypeOK
<1>3. ASSUME NEW x \in sweep, Settle(x[1], x[2])
      PROVE  /\ scheduledAt[m] = NoTime
             /\ pending[m].created + ResponseTime <= now
             /\ now + Notice <= scheduledAt'[m]
  <2>1. SettleAccepted(x[1], x[2])
    BY <1>3 DEF Settle, SettleExpired, SettleSkipped
  <2>2. x[1] \in Matches
    BY DEF TypeOK
  <2>3. m = x[1]
    BY <2>1, <2>2 DEF SettleAccepted, AcceptProposal, TypeOK
  <2> QED
    BY <2>1, <2>2, <2>3 DEF SettleAccepted, AcceptProposal, CanAutoAccept, TypeOK
<1>4. CASE UNCHANGED <<scheduledAt, source>>
  BY <1>4
<1> QED
  BY <1>1, <1>2, <1>3, <1>4
     DEF Next, vars, ProposeTime, Reject, CheckDeadline, CheckRoundDeadline, WriteDeadline,
         Leave, SelectOverdue, Tick

(* Silence gives a match its first time only, after the whole response     *)
(* time and with the notice left, whatever was selected before the lock.   *)
THEOREM SilenceKeepsTimes == Spec => SilenceNeverReschedules
<1>1. TypeOK /\ [Next]_vars =>
        [\A m \in Matches :
           (source'[m] = "auto_timeout" /\ (source[m] # "auto_timeout" \/ scheduledAt'[m] # scheduledAt[m]))
             => /\ scheduledAt[m] = NoTime
                /\ pending[m].created + ResponseTime <= now
                /\ now + Notice <= scheduledAt'[m]]_vars
  BY SilenceStep
<1> QED
  BY <1>1, TypeCorrect, PTL DEF Spec, SilenceNeverReschedules
=============================================================================
