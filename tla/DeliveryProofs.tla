-------------------------- MODULE DeliveryProofs --------------------------
(***************************************************************************)
(* Proofs about ProjectionDelivery.  The inductive invariant says what a   *)
(* deliverer's private copy of a watermark is worth: while no other fact   *)
(* was committed it is the watermark itself, and a deliverer that has      *)
(* invalidated by it has left nothing of that match stale.                 *)
(***************************************************************************)
EXTENDS ProjectionDelivery, FiniteSetTheorems, TLAPS

(* The row itself: pending facts are never an empty set. *)
RowSound ==
    \A m \in Matches :
      /\ watermark[m].published <= watermark[m].generation
      /\ Pending(m) => watermark[m].facts # {}

(* What is stale is pending, and stale statistics are pending with facts   *)
(* that make whoever delivers them invalidate the statistics.              *)
StaleIsPending ==
    /\ \A m \in stalePages : Pending(m)
    /\ \A m \in staleStats : Pending(m) /\ ~NonHistorical(live[m], watermark[m].facts)

(* A delivery d is up to date when its generation is still the match's. *)
UpToDate(d) ==
    /\ delivery[d].step # "none"
    /\ delivery[d].generation = watermark[delivery[d].match].generation

DeliverySound(d) ==
    /\ delivery[d].step # "none" =>
         delivery[d].generation <= watermark[delivery[d].match].generation
    /\ UpToDate(d) =>
         /\ delivery[d].facts = watermark[delivery[d].match].facts
         /\ delivery[d].match \in staleStats => ~NonHistorical(delivery[d].live, delivery[d].facts)
    /\ UpToDate(d) /\ delivery[d].step = "invalidated" =>
         delivery[d].match \notin stalePages \cup staleStats

DeliveryInv ==
    /\ TypeOK
    /\ RowSound
    /\ StaleIsPending
    /\ \A d \in Deliverers : DeliverySound(d)

-----------------------------------------------------------------------------
(* Types *)

(* An open delivery has all of its fields, of their types. *)
LEMMA OpenDelivery ==
    ASSUME TypeOK, NEW d \in Deliverers, delivery[d].step # "none"
    PROVE  /\ delivery[d] \in [step : {"read", "invalidated"}, match : Matches,
                               generation : Nat, facts : SUBSET Facts, live : BOOLEAN]
           /\ delivery[d].match \in Matches
           /\ delivery[d].generation \in Nat
           /\ delivery[d].facts \subseteq Facts
           /\ delivery[d].live \in BOOLEAN
BY DEF TypeOK, Deliveries

(* updated_at only reorders the matches. *)
LEMMA PlaceType ==
    ASSUME TypeOK, NEW m \in Matches
    PROVE  ToTheBack(m) \in [Matches -> Nat]
<1>1. Cardinality(Matches) \in Nat
  BY DeliveryAssumption, FS_CardinalityType
<1>2. ASSUME NEW n \in Matches, place[n] > place[m]
      PROVE  place[n] - 1 \in Nat
  BY <1>2 DEF TypeOK
<1> QED
  BY <1>1, <1>2 DEF ToTheBack, TypeOK

(* The delivery a read leaves behind. *)
LEMMA ReadType ==
    ASSUME TypeOK, NEW d \in Deliverers, NEW m \in Matches, ReadWatermark(d, m)
    PROVE  delivery' \in [Deliverers -> Deliveries]
<1>1. watermark[m] \in Watermarks /\ live[m] \in BOOLEAN
  BY DEF TypeOK
<1>2. [step |-> "read", match |-> m, generation |-> watermark[m].generation,
       facts |-> watermark[m].facts, live |-> live[m]] \in Deliveries
  BY <1>1 DEF Deliveries, Watermarks
<1>3. NoDelivery \in Deliveries
  BY DEF NoDelivery, Deliveries
<1> QED
  BY <1>2, <1>3 DEF ReadWatermark, TypeOK

(* A delivery that is over leaves the table of deliveries well-typed. *)
LEMMA DoneType ==
    ASSUME TypeOK, NEW d \in Deliverers, Done(d)
    PROVE  delivery' \in [Deliverers -> Deliveries]
BY DEF Done, TypeOK, NoDelivery, Deliveries

(* The dispatcher is one of the deliverers. *)
LEMMA DispatcherDelivers == Dispatcher \in Deliverers
BY DEF Deliverers

(* Every action keeps the types. *)
LEMMA TypeStep == TypeOK /\ [Next]_vars => TypeOK'
<1> SUFFICES ASSUME TypeOK, [Next]_vars PROVE TypeOK'
  OBVIOUS
<1>1. ASSUME NEW m \in Matches, EndMatch(m) PROVE TypeOK'
  BY <1>1 DEF EndMatch, TypeOK
<1>2. ASSUME NEW m \in Matches, NEW facts \in (SUBSET Facts) \ {{}}, CommitFacts(m, facts)
      PROVE  TypeOK'
  <2>1. watermark[m] \in Watermarks
    BY DEF TypeOK
  <2>2. watermark' \in [Matches -> Watermarks]
    BY <1>2, <2>1 DEF CommitFacts, Enqueue, Watermarks, TypeOK
  <2>3. place' \in [Matches -> Nat]
    BY <1>2, PlaceType DEF CommitFacts, Enqueue
  <2> QED
    BY <1>2, <2>2, <2>3 DEF CommitFacts, TypeOK
<1>3. ASSUME NEW d \in Requests, NEW m \in Matches, RequestReads(d, m) PROVE TypeOK'
  <2>1. delivery' \in [Deliverers -> Deliveries]
    BY <1>3, ReadType DEF RequestReads, Deliverers
  <2> QED
    BY <1>3, <2>1 DEF RequestReads, TypeOK
<1>4. ASSUME NEW d \in Deliverers, Invalidate(d) PROVE TypeOK'
  <2>1. [delivery[d] EXCEPT !.step = "invalidated"] \in Deliveries
    BY <1>4, OpenDelivery DEF Invalidate, Deliveries
  <2>2. delivery' \in [Deliverers -> Deliveries]
    BY <1>4, <2>1 DEF Invalidate, TypeOK
  <2>3. staleStats' \subseteq Matches
    BY <1>4 DEF Invalidate, InvalidateStatistics, TypeOK
  <2> QED
    BY <1>4, <2>2, <2>3 DEF Invalidate, TypeOK
<1>5. ASSUME NEW d \in Deliverers, InvalidateFails(d) PROVE TypeOK'
  <2>1. delivery' \in [Deliverers -> Deliveries]
    BY <1>5, DoneType DEF InvalidateFails
  <2>2. staleStats' \subseteq Matches
    BY <1>5 DEF InvalidateFails, InvalidateStatistics, TypeOK
  <2> QED
    BY <1>5, <2>1, <2>2 DEF InvalidateFails, TypeOK
<1>6. ASSUME NEW d \in Deliverers, Acknowledge(d) PROVE TypeOK'
  <2>1. delivery[d].match \in Matches /\ delivery[d].generation \in Nat
    BY <1>6, OpenDelivery DEF Acknowledge
  <2>2. watermark' \in [Matches -> Watermarks]
    BY <1>6, <2>1 DEF Acknowledge, TypeOK, Watermarks
  <2>3. delivery' \in [Deliverers -> Deliveries]
    BY <1>6, DoneType DEF Acknowledge
  <2> QED
    BY <1>6, <2>2, <2>3 DEF Acknowledge, TypeOK
<1>7. ASSUME NEW d \in Deliverers, GiveUp(d) PROVE TypeOK'
  <2>1. delivery' \in [Deliverers -> Deliveries]
    BY <1>7, DoneType DEF GiveUp
  <2> QED
    BY <1>7, <2>1 DEF GiveUp, TypeOK
<1>8. ASSUME SelectBatch PROVE TypeOK'
  <2>1. \A m \in Matches : [match |-> m, generation |-> watermark[m].generation] \in Rows
    BY DEF Rows, TypeOK, Watermarks
  <2>2. batch' \subseteq Rows
    BY <1>8, <2>1 DEF SelectBatch, Selected
  <2> QED
    BY <1>8, <2>2 DEF SelectBatch, TypeOK
<1>9. ASSUME NEW m \in Matches, DispatcherReads(m) PROVE TypeOK'
  <2>1. PICK row \in batch : NextRow(row) /\ ReadWatermark(Dispatcher, m)
    BY <1>9 DEF DispatcherReads
  <2>2. row \in Rows
    BY DEF TypeOK
  <2>3. delivery' \in [Deliverers -> Deliveries]
    BY <2>1, ReadType, DispatcherDelivers
  <2> QED
    BY <2>1, <2>2, <2>3 DEF NextRow, TypeOK
<1>10. ASSUME Rotate PROVE TypeOK'
  <2>1. PICK row \in attempt :
          /\ Attempted(row)
          /\ place' = IF watermark[row.match].generation = row.generation /\ Pending(row.match)
                      THEN ToTheBack(row.match) ELSE place
    BY <1>10 DEF Rotate
  <2>2. row.match \in Matches
    BY DEF TypeOK, Rows
  <2>3. place' \in [Matches -> Nat]
    BY <2>1, <2>2, PlaceType DEF TypeOK
  <2> QED
    BY <2>1, <2>3 DEF Attempted, TypeOK
<1>11. ASSUME DispatcherReadFails \/ RotateFails PROVE TypeOK'
  BY <1>11 DEF DispatcherReadFails, NextRow, RotateFails, Attempted, TypeOK
<1>12. ASSUME Crash PROVE TypeOK'
  <2>1. delivery' \in [Deliverers -> Deliveries]
    BY <1>12, DoneType, DispatcherDelivers DEF Crash
  <2> QED
    BY <1>12, <2>1 DEF Crash, TypeOK
<1>13. ASSUME UNCHANGED vars PROVE TypeOK'
  BY <1>13 DEF vars, TypeOK
<1> QED
  BY <1>1, <1>2, <1>3, <1>4, <1>5, <1>6, <1>7, <1>8, <1>9, <1>10, <1>11, <1>12, <1>13 DEF Next

(* Nothing is pending, read or selected at first. *)
LEMMA TypeInit == Init => TypeOK
<1> SUFFICES ASSUME Init PROVE TypeOK
  OBVIOUS
<1>1. 1..Cardinality(Matches) \subseteq Nat
  BY DeliveryAssumption, FS_CardinalityType
<1>2. place \in [Matches -> Nat]
  BY <1>1 DEF Init
<1>3. watermark \in [Matches -> Watermarks]
  BY DEF Init, Watermarks
<1>4. delivery \in [Deliverers -> Deliveries]
  BY DEF Init, NoDelivery, Deliveries
<1> QED
  BY <1>2, <1>3, <1>4 DEF Init, TypeOK

(* TypeOK holds for any number of matches, deliverers and generations: no  *)
(* order of commits, deliveries and rotations makes a malformed watermark, *)
(* delivery or batch.                                                      *)
THEOREM TypeCorrect == Spec => []TypeOK
BY TypeInit, TypeStep, PTL DEF Spec

-----------------------------------------------------------------------------
(* The inductive invariant *)

(* Nothing is committed, stale or delivered at first. *)
LEMMA InvInit == Init => RowSound /\ StaleIsPending /\ \A d \in Deliverers : DeliverySound(d)
BY DEF Init, RowSound, StaleIsPending, DeliverySound, UpToDate, NoDelivery, Pending

(* A step that leaves watermarks, caches and liveness alone, and whose     *)
(* deliveries are the old ones or none, keeps the invariant.               *)
LEMMA InvDropped ==
    ASSUME DeliveryInv,
           UNCHANGED <<live, watermark, stalePages, staleStats>>,
           \A d \in Deliverers : delivery'[d] = delivery[d] \/ delivery'[d] = NoDelivery
    PROVE  RowSound' /\ StaleIsPending' /\ \A d \in Deliverers : DeliverySound(d)'
<1>1. RowSound' /\ StaleIsPending'
  BY DEF DeliveryInv, RowSound, StaleIsPending, Pending, NonHistorical
<1>2. ASSUME NEW d \in Deliverers PROVE DeliverySound(d)'
  <2>1. CASE delivery'[d] = delivery[d]
    BY <2>1 DEF DeliveryInv, DeliverySound, UpToDate, NonHistorical
  <2>2. CASE delivery'[d] = NoDelivery
    BY <2>2 DEF NoDelivery, DeliverySound, UpToDate
  <2> QED
    BY <2>1, <2>2
<1> QED
  BY <1>1, <1>2

(* The end of one delivery leaves the others alone. *)
LEMMA DoneDeliveries ==
    ASSUME TypeOK, NEW d \in Deliverers, Done(d)
    PROVE  \A e \in Deliverers : delivery'[e] = IF e = d THEN NoDelivery ELSE delivery[e]
BY DEF Done, TypeOK

(* A commit makes every delivery of its match out of date, and the facts   *)
(* it joins to pending ones keep their demand on the statistics.           *)
LEMMA InvCommit ==
    ASSUME DeliveryInv, NEW m \in Matches, NEW facts \in (SUBSET Facts) \ {{}},
           CommitFacts(m, facts)
    PROVE  RowSound' /\ StaleIsPending' /\ \A d \in Deliverers : DeliverySound(d)'
<1>1. /\ watermark \in [Matches -> Watermarks]
      /\ \A n \in Matches : watermark[n].generation \in Nat /\ watermark[n].published \in Nat
  BY DEF DeliveryInv, TypeOK, Watermarks
<1>2. /\ watermark'[m].generation = watermark[m].generation + 1
      /\ watermark'[m].published = watermark[m].published
      /\ watermark'[m].facts = IF watermark[m].published = watermark[m].generation
                               THEN facts ELSE watermark[m].facts \cup facts
      /\ \A n \in Matches : n # m => watermark'[n] = watermark[n]
  BY <1>1 DEF CommitFacts, Enqueue
<1>3. RowSound'
  BY <1>1, <1>2 DEF RowSound, DeliveryInv, Pending
<1>4. /\ live' = live /\ delivery' = delivery /\ stalePages' = stalePages \cup {m}
      /\ staleStats' \subseteq staleStats \cup {m}
      /\ m \in staleStats' => m \in staleStats \/ ~NonHistorical(live[m], facts)
  BY DEF CommitFacts
<1>5. Pending(m)'
  BY <1>1, <1>2 DEF Pending, RowSound, DeliveryInv
<1>6. \A n \in Matches : n # m => (Pending(n)' <=> Pending(n))
  BY <1>2 DEF Pending
<1>7. m \in staleStats' => ~NonHistorical(live[m], watermark'[m].facts)
  <2>1. CASE ~NonHistorical(live[m], facts)
    BY <1>2, <2>1 DEF NonHistorical
  <2>2. CASE m \in staleStats
    <3>1. Pending(m) /\ ~NonHistorical(live[m], watermark[m].facts) /\ watermark[m].facts # {}
      BY <2>2 DEF DeliveryInv, StaleIsPending, RowSound
    <3>2. watermark'[m].facts = watermark[m].facts \cup facts
      BY <1>1, <1>2, <3>1 DEF Pending
    <3> QED
      BY <3>1, <3>2 DEF NonHistorical
  <2> QED
    BY <1>4, <2>1, <2>2
<1>8. stalePages \subseteq Matches /\ staleStats \subseteq Matches
  BY DEF DeliveryInv, TypeOK
<1>9. StaleIsPending'
  <2>1. \A n \in stalePages' : Pending(n)'
    BY <1>4, <1>5, <1>6, <1>8 DEF DeliveryInv, StaleIsPending
  <2>2. \A n \in staleStats' : Pending(n)' /\ ~NonHistorical(live'[n], watermark'[n].facts)
    BY <1>2, <1>4, <1>5, <1>6, <1>7, <1>8 DEF DeliveryInv, StaleIsPending
  <2> QED
    BY <2>1, <2>2 DEF StaleIsPending, NonHistorical
<1>10. ASSUME NEW d \in Deliverers PROVE DeliverySound(d)'
  <2>1. CASE delivery[d].step = "none"
    BY <1>4, <2>1 DEF DeliverySound, UpToDate
  <2>2. CASE delivery[d].step # "none" /\ delivery[d].match = m
    <3>1. delivery[d].generation \in Nat /\ delivery[d].generation <= watermark[m].generation
      BY <2>2, OpenDelivery DEF DeliveryInv, DeliverySound
    <3>2. delivery[d].generation < watermark'[m].generation
      BY <1>1, <1>2, <3>1
    <3>3. ~UpToDate(d)'
      BY <1>1, <1>2, <1>4, <2>2, <3>1, <3>2 DEF UpToDate
    <3> QED
      BY <1>1, <1>2, <1>4, <2>2, <3>1, <3>2, <3>3 DEF DeliverySound
  <2>3. CASE delivery[d].step # "none" /\ delivery[d].match # m
    <3>1. delivery[d].match \in Matches
      BY <2>3, OpenDelivery DEF DeliveryInv
    <3>2. watermark'[delivery[d].match] = watermark[delivery[d].match]
      BY <1>2, <2>3, <3>1
    <3>3. DeliverySound(d)
      BY DEF DeliveryInv
    <3> QED
      BY <1>4, <2>3, <3>2, <3>3 DEF DeliverySound, UpToDate, NonHistorical
  <2> QED
    BY <2>1, <2>2, <2>3
<1> QED
  BY <1>3, <1>9, <1>10

(* A copy taken now is the watermark. *)
LEMMA InvRead ==
    ASSUME DeliveryInv, NEW d \in Deliverers, NEW m \in Matches, ReadWatermark(d, m),
           UNCHANGED <<live, watermark, stalePages, staleStats>>
    PROVE  RowSound' /\ StaleIsPending' /\ \A e \in Deliverers : DeliverySound(e)'
<1>1. CASE ~Pending(m)
  <2>1. \A e \in Deliverers : delivery'[e] = delivery[e] \/ delivery'[e] = NoDelivery
    BY <1>1 DEF ReadWatermark, DeliveryInv, TypeOK
  <2> QED
    BY <2>1, InvDropped
<1>2. CASE Pending(m)
  <2>1. RowSound' /\ StaleIsPending'
    BY DEF DeliveryInv, RowSound, StaleIsPending, Pending, NonHistorical
  <2>2. /\ delivery'[d].step = "read" /\ delivery'[d].match = m
        /\ delivery'[d].generation = watermark[m].generation
        /\ delivery'[d].facts = watermark[m].facts /\ delivery'[d].live = live[m]
        /\ \A e \in Deliverers : e # d => delivery'[e] = delivery[e]
    BY <1>2 DEF ReadWatermark, DeliveryInv, TypeOK
  <2>3. watermark[m].generation \in Nat
    BY DEF DeliveryInv, TypeOK, Watermarks
  <2>4. DeliverySound(d)'
    BY <2>2, <2>3 DEF DeliveryInv, StaleIsPending, DeliverySound, UpToDate, NonHistorical
  <2>5. ASSUME NEW e \in Deliverers, e # d PROVE DeliverySound(e)'
    BY <2>2, <2>5 DEF DeliveryInv, DeliverySound, UpToDate, NonHistorical
  <2> QED
    BY <2>1, <2>4, <2>5
<1> QED
  BY <1>1, <1>2

(* Invalidating the statistics by an up-to-date copy leaves none of its    *)
(* match's facts stale: if they are spared, nothing asked for them.        *)
LEMMA StatisticsFresh ==
    ASSUME DeliveryInv, NEW d \in Deliverers, delivery[d].step = "read", InvalidateStatistics(d)
    PROVE  /\ staleStats' \subseteq staleStats
           /\ UpToDate(d) => delivery[d].match \notin staleStats'
BY DEF InvalidateStatistics, DeliveryInv, DeliverySound

(* Invalidation makes nothing stale, and its deliverer safe to acknowledge.*)
LEMMA InvInvalidate ==
    ASSUME DeliveryInv, NEW d \in Deliverers, Invalidate(d)
    PROVE  RowSound' /\ StaleIsPending' /\ \A e \in Deliverers : DeliverySound(e)'
<1>1. /\ live' = live /\ watermark' = watermark /\ delivery[d].step = "read"
      /\ stalePages' = stalePages \ {delivery[d].match}
      /\ staleStats' \subseteq staleStats
      /\ UpToDate(d) => delivery[d].match \notin staleStats'
  BY StatisticsFresh DEF Invalidate
<1>2. RowSound' /\ StaleIsPending'
  BY <1>1 DEF DeliveryInv, RowSound, StaleIsPending, Pending, NonHistorical
<1>3. /\ delivery'[d].step = "invalidated"
      /\ delivery'[d].match = delivery[d].match
      /\ delivery'[d].generation = delivery[d].generation
      /\ delivery'[d].facts = delivery[d].facts
      /\ delivery'[d].live = delivery[d].live
      /\ \A e \in Deliverers : e # d => delivery'[e] = delivery[e]
  <2>1. delivery[d] \in [step : {"read", "invalidated"}, match : Matches,
                         generation : Nat, facts : SUBSET Facts, live : BOOLEAN]
    BY <1>1, OpenDelivery DEF DeliveryInv
  <2> QED
    BY <2>1 DEF Invalidate, DeliveryInv, TypeOK
<1>4. DeliverySound(d)'
  BY <1>1, <1>3 DEF DeliveryInv, DeliverySound, UpToDate, NonHistorical
<1>5. ASSUME NEW e \in Deliverers, e # d PROVE DeliverySound(e)'
  BY <1>1, <1>3, <1>5 DEF DeliveryInv, DeliverySound, UpToDate, NonHistorical
<1> QED
  BY <1>2, <1>4, <1>5

(* A failed invalidation may have refreshed the statistics, nothing else.  *)
LEMMA InvFails ==
    ASSUME DeliveryInv, NEW d \in Deliverers, InvalidateFails(d)
    PROVE  RowSound' /\ StaleIsPending' /\ \A e \in Deliverers : DeliverySound(e)'
<1>1. /\ live' = live /\ watermark' = watermark /\ stalePages' = stalePages
      /\ staleStats' \subseteq staleStats
  BY DEF InvalidateFails, InvalidateStatistics
<1>2. RowSound' /\ StaleIsPending'
  BY <1>1 DEF DeliveryInv, RowSound, StaleIsPending, Pending, NonHistorical
<1>3. \A e \in Deliverers : delivery'[e] = IF e = d THEN NoDelivery ELSE delivery[e]
  BY DoneDeliveries DEF DeliveryInv, InvalidateFails
<1>4. ASSUME NEW e \in Deliverers PROVE DeliverySound(e)'
  <2>1. CASE e = d
    BY <1>3, <2>1 DEF NoDelivery, DeliverySound, UpToDate
  <2>2. CASE e # d
    BY <1>1, <1>3, <2>2 DEF DeliveryInv, DeliverySound, UpToDate, NonHistorical
  <2> QED
    BY <2>1, <2>2
<1> QED
  BY <1>2, <1>4

(* An acknowledgement is of an up-to-date invalidation, which left nothing *)
(* of the match stale, or changes no watermark.                            *)
LEMMA InvAcknowledge ==
    ASSUME DeliveryInv, NEW d \in Deliverers, Acknowledge(d)
    PROVE  RowSound' /\ StaleIsPending' /\ \A e \in Deliverers : DeliverySound(e)'
<1> DEFINE m == delivery[d].match
<1>1. /\ live' = live /\ stalePages' = stalePages /\ staleStats' = staleStats
      /\ delivery[d].step = "invalidated"
  BY DEF Acknowledge
<1>2. m \in Matches /\ delivery[d].generation \in Nat
  BY <1>1, OpenDelivery DEF DeliveryInv
<1>3. \A e \in Deliverers : delivery'[e] = IF e = d THEN NoDelivery ELSE delivery[e]
  BY DoneDeliveries DEF DeliveryInv, Acknowledge
<1>4. CASE watermark[m].generation # delivery[d].generation
  <2>1. watermark' = watermark
    BY <1>4 DEF Acknowledge
  <2> QED
    BY <1>1, <1>3, <2>1, InvDropped
<1>5. CASE watermark[m].generation = delivery[d].generation
  <2>1. m \notin stalePages \cup staleStats
    BY <1>1, <1>5 DEF DeliveryInv, DeliverySound, UpToDate
  <2>2. /\ watermark[m] \in Watermarks
        /\ watermark' = [watermark EXCEPT ![m].published = delivery[d].generation]
    BY <1>2, <1>5 DEF Acknowledge, DeliveryInv, TypeOK
  <2>3. /\ \A n \in Matches : /\ watermark'[n].generation = watermark[n].generation
                              /\ watermark'[n].facts = watermark[n].facts
                              /\ n # m => watermark'[n] = watermark[n]
        /\ watermark'[m].published = watermark[m].generation
    BY <1>2, <1>5, <2>2 DEF DeliveryInv, TypeOK, Watermarks
  <2>4. RowSound'
    BY <1>2, <1>5, <2>3 DEF DeliveryInv, RowSound, Pending
  <2>5. stalePages \subseteq Matches /\ staleStats \subseteq Matches
    BY DEF DeliveryInv, TypeOK
  <2>6. StaleIsPending'
    BY <1>1, <2>1, <2>3, <2>5 DEF DeliveryInv, StaleIsPending, Pending, NonHistorical
  <2>7. ASSUME NEW e \in Deliverers PROVE DeliverySound(e)'
    <3>1. CASE delivery'[e] = NoDelivery
      BY <3>1 DEF NoDelivery, DeliverySound, UpToDate
    <3>2. CASE delivery'[e] = delivery[e] /\ delivery[e].step # "none"
      <4>1. delivery[e].match \in Matches
        BY <3>2, OpenDelivery DEF DeliveryInv
      <4> QED
        BY <1>1, <2>3, <3>2, <4>1 DEF DeliveryInv, DeliverySound, UpToDate, NonHistorical
    <3>3. CASE delivery'[e] = delivery[e] /\ delivery[e].step = "none"
      BY <3>3 DEF DeliverySound, UpToDate
    <3> QED
      BY <1>3, <3>1, <3>2, <3>3
  <2> QED
    BY <2>4, <2>6, <2>7
<1> QED
  BY <1>4, <1>5

(* The end of a match makes no demand on the statistics weaker. *)
LEMMA InvEnd ==
    ASSUME DeliveryInv, NEW m \in Matches, EndMatch(m)
    PROVE  RowSound' /\ StaleIsPending' /\ \A e \in Deliverers : DeliverySound(e)'
<1>1. /\ UNCHANGED <<watermark, stalePages, staleStats, delivery>>
      /\ \A n \in Matches : live'[n] => live[n]
  BY DEF EndMatch, DeliveryInv, TypeOK
<1>2. stalePages \subseteq Matches /\ staleStats \subseteq Matches
  BY DEF DeliveryInv, TypeOK
<1>3. RowSound' /\ StaleIsPending'
  BY <1>1, <1>2 DEF DeliveryInv, RowSound, StaleIsPending, Pending, NonHistorical
<1>4. \A e \in Deliverers : DeliverySound(e)'
  BY <1>1 DEF DeliveryInv, DeliverySound, UpToDate, NonHistorical
<1> QED
  BY <1>3, <1>4

(* Every action keeps the invariant. *)
LEMMA InvStep == DeliveryInv /\ [Next]_vars => DeliveryInv'
<1> SUFFICES ASSUME DeliveryInv, [Next]_vars
             PROVE  RowSound' /\ StaleIsPending' /\ \A d \in Deliverers : DeliverySound(d)'
  BY TypeStep DEF DeliveryInv
<1>1. ASSUME NEW d \in Requests, NEW m \in Matches, RequestReads(d, m)
      PROVE  RowSound' /\ StaleIsPending' /\ \A e \in Deliverers : DeliverySound(e)'
  <2>1. ReadWatermark(d, m) /\ UNCHANGED <<live, watermark, stalePages, staleStats>>
    BY <1>1 DEF RequestReads
  <2> QED
    BY <2>1, InvRead DEF Deliverers
<1>2. ASSUME NEW d \in Deliverers, GiveUp(d) \/ (d = Dispatcher /\ Crash)
      PROVE  RowSound' /\ StaleIsPending' /\ \A e \in Deliverers : DeliverySound(e)'
  <2>1. Done(d) /\ UNCHANGED <<live, watermark, stalePages, staleStats>>
    BY <1>2 DEF GiveUp, Crash
  <2>2. \A e \in Deliverers : delivery'[e] = delivery[e] \/ delivery'[e] = NoDelivery
    BY <2>1, DoneDeliveries DEF DeliveryInv
  <2> QED
    BY <2>1, <2>2, InvDropped
<1>3. ASSUME SelectBatch \/ DispatcherReadFails
      PROVE  RowSound' /\ StaleIsPending' /\ \A e \in Deliverers : DeliverySound(e)'
  BY <1>3, InvDropped DEF SelectBatch, DispatcherReadFails, NextRow
<1>4. ASSUME NEW m \in Matches, DispatcherReads(m)
      PROVE  RowSound' /\ StaleIsPending' /\ \A e \in Deliverers : DeliverySound(e)'
  <2>1. ReadWatermark(Dispatcher, m) /\ UNCHANGED <<live, watermark, stalePages, staleStats>>
    BY <1>4 DEF DispatcherReads, NextRow
  <2> QED
    BY <2>1, InvRead, DispatcherDelivers
<1>5. ASSUME Rotate \/ RotateFails
      PROVE  RowSound' /\ StaleIsPending' /\ \A e \in Deliverers : DeliverySound(e)'
  BY <1>5, InvDropped DEF Rotate, RotateFails, Attempted
<1>6. ASSUME UNCHANGED vars
      PROVE  RowSound' /\ StaleIsPending' /\ \A e \in Deliverers : DeliverySound(e)'
  BY <1>6, InvDropped DEF vars
<1> QED
  BY <1>1, <1>2, <1>3, <1>4, <1>5, <1>6, InvCommit, InvEnd, InvInvalidate, InvFails,
     InvAcknowledge, DispatcherDelivers DEF Next

(* The invariant holds in every reachable state. *)
LEMMA Invariance == Spec => []DeliveryInv
<1>1. Init => DeliveryInv
  BY TypeInit, InvInit DEF DeliveryInv
<1> QED
  BY <1>1, InvStep, PTL DEF Spec

-----------------------------------------------------------------------------
(* Results *)

(* For any matches, deliverers and orders of their steps, a watermark with *)
(* nothing pending means caches that show every committed fact.            *)
THEOREM Fresh == Spec => []FreshWhenPublished
<1>1. DeliveryInv => FreshWhenPublished
  BY DEF DeliveryInv, StaleIsPending, FreshWhenPublished
<1> QED
  BY <1>1, Invariance, PTL

(* No acknowledgement takes another back or claims more than was committed.*)
THEOREM PublishedForward == Spec => PublishedMovesForward
<1>1. ASSUME DeliveryInv, DeliveryInv', [Next]_vars, NEW m \in Matches
      PROVE  /\ watermark'[m].published >= watermark[m].published
             /\ watermark'[m].published <= watermark'[m].generation
  <2>1. watermark'[m].published <= watermark'[m].generation
    BY <1>1 DEF DeliveryInv, RowSound
  <2>2. /\ watermark[m].published \in Nat /\ watermark[m].generation \in Nat
        /\ watermark[m].published <= watermark[m].generation
        /\ watermark \in [Matches -> Watermarks] /\ watermark[m] \in Watermarks
    BY <1>1 DEF DeliveryInv, RowSound, TypeOK, Watermarks
  <2>3. watermark'[m].published \in {watermark[m].published, watermark[m].generation}
    <3>1. ASSUME NEW n \in Matches, NEW facts \in (SUBSET Facts) \ {{}}, CommitFacts(n, facts)
          PROVE  watermark'[m].published = watermark[m].published
      BY <2>2, <3>1 DEF CommitFacts, Enqueue, Watermarks
    <3>2. ASSUME NEW d \in Deliverers, Acknowledge(d)
          PROVE  watermark'[m].published \in {watermark[m].published, watermark[m].generation}
      <4>1. delivery[d].match \in Matches
        BY <1>1, <3>2, OpenDelivery DEF Acknowledge, DeliveryInv
      <4> QED
        BY <2>2, <3>2, <4>1 DEF Acknowledge, Watermarks
    <3>3. CASE watermark' = watermark
      BY <3>3
    <3> QED
      BY <1>1, <3>1, <3>2, <3>3 DEF Next, vars, EndMatch, RequestReads, Invalidate,
         InvalidateFails, GiveUp, Crash, SelectBatch, DispatcherReads, DispatcherReadFails,
         NextRow, Rotate, RotateFails, Attempted
  <2> QED
    BY <2>1, <2>2, <2>3
<1>2. DeliveryInv /\ DeliveryInv' /\ [Next]_vars
        => [\A m \in Matches :
              /\ watermark'[m].published >= watermark[m].published
              /\ watermark'[m].published <= watermark'[m].generation]_vars
  BY <1>1
<1> QED
  BY <1>2, Invariance, PTL DEF Spec, PublishedMovesForward
=============================================================================
