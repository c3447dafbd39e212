------------------------ MODULE ProjectionDelivery ------------------------
(***************************************************************************)
(* Delivery of cache invalidations after a commit that changed what the    *)
(* public pages of a match show (lib/matches/projection-invalidation).     *)
(*                                                                         *)
(* A trigger registers every change of a veto, roster or map row in the    *)
(* same transaction: the match's watermark gets a new generation and the   *)
(* category of the fact.  Whoever delivers (the request that committed, a  *)
(* later reconcile, or the scheduled dispatcher) reads the watermark,      *)
(* invalidates the caches, and acknowledges the generation it read with a  *)
(* compare-and-set.  The three steps are separate database or cache calls: *)
(* anything may commit, fail or crash between them.                        *)
(***************************************************************************)
EXTENDS Integers, FiniteSets

CONSTANTS
    Matches,         \* matches that belong to a season
    Narrow,          \* categories that spare statistics: lineups, appeals, veto_step
    Broad,           \* the others: map_plan and the historical veto
    Requests,        \* requests that deliver after their own commit
    Dispatcher,      \* the scheduled dispatcher, another deliverer
    Unreachable,     \* matches whose cache invalidation always throws
    BatchLimit,      \* rows one dispatcher run selects (50)
    MaxGeneration    \* bound on the generations of one match

Deliverers == Requests \cup {Dispatcher}

Facts == Narrow \cup Broad

ASSUME DeliveryAssumption ==
    /\ IsFiniteSet(Matches)
    /\ Narrow \cap Broad = {}
    /\ Dispatcher \notin Requests
    /\ Unreachable \subseteq Matches
    /\ BatchLimit \in Nat \ {0}
    /\ MaxGeneration \in [Matches -> Nat]

VARIABLES
    live,        \* the match is scheduled or in_progress
    watermark,   \* match_veto_invalidations, generation 0 for no row
    place,       \* the place of each match in the order of updated_at
    stalePages,  \* matches with a committed fact their cached pages do not show
    staleStats,  \* matches with a committed fact the statistics do not show
    delivery,    \* what each deliverer has read and done
    batch,       \* rows the dispatcher has selected and not attempted yet
    attempt      \* the row it attempts, or none

vars == <<live, watermark, place, stalePages, staleStats, delivery, batch, attempt>>

Watermarks == [generation : Nat, published : Nat, facts : SUBSET Facts]

NoDelivery == [step |-> "none"]

Rows == [match : Matches, generation : Nat]

Deliveries ==
    [step : {"none"}]
      \cup [step : {"read", "invalidated"}, match : Matches, generation : Nat,
            facts : SUBSET Facts, live : BOOLEAN]

TypeOK ==
    /\ live \in [Matches -> BOOLEAN]
    /\ watermark \in [Matches -> Watermarks]
    /\ place \in [Matches -> Nat]
    /\ stalePages \subseteq Matches
    /\ staleStats \subseteq Matches
    /\ delivery \in [Deliverers -> Deliveries]
    /\ batch \subseteq Rows
    /\ attempt \subseteq Rows

Pending(m) == watermark[m].generation > watermark[m].published

(* Variant: every other row moves up. *)
ToTheBackOfAll(m) ==
    [n \in Matches |-> IF n = m THEN Cardinality(Matches) ELSE place[n] - 1]

(* updated_at = clock_timestamp(): only the order matters, so the matches  *)
(* keep the places 1 to Cardinality(Matches).                              *)
ToTheBack(m) ==
    [n \in Matches |-> IF n = m THEN Cardinality(Matches)
                       ELSE IF place[n] > place[m] THEN place[n] - 1 ELSE place[n]]

-----------------------------------------------------------------------------
(* Committed facts *)

(* planMatchProjectionInvalidation: statistics may stay warm only for a    *)
(* match not over yet and facts that are all known to be narrow.           *)
NonHistorical(isLive, facts) == isLive /\ facts # {} /\ facts \subseteq Narrow

(* The trigger fires for each row; the effect of a whole transaction is    *)
(* one generation and the union of its categories, joined to those not     *)
(* published yet.                                                          *)
Enqueue(m, facts) ==
    /\ watermark' = [watermark EXCEPT ![m] =
         [generation |-> @.generation + 1,
          published  |-> @.published,
          facts      |-> IF @.published = @.generation THEN facts ELSE @.facts \cup facts]]
    /\ place' = ToTheBack(m)

CommitFacts(m, facts) ==
    /\ watermark[m].generation < MaxGeneration[m]
    /\ Enqueue(m, facts)
    /\ stalePages' = stalePages \cup {m}
    /\ staleStats' = IF NonHistorical(live[m], facts) THEN staleStats ELSE staleStats \cup {m}
    /\ UNCHANGED <<live, delivery, batch, attempt>>

(* finished or cancelled, by an operation that refreshes its own pages *)
EndMatch(m) ==
    /\ live[m]
    /\ live' = [live EXCEPT ![m] = FALSE]
    /\ UNCHANGED <<watermark, place, stalePages, staleStats, delivery, batch, attempt>>

-----------------------------------------------------------------------------
(* deliverMatchProjectionInvalidation *)

ReadWatermark(d, m) ==
    delivery' = [delivery EXCEPT ![d] =
      IF Pending(m)
      THEN [step |-> "read", match |-> m, generation |-> watermark[m].generation,
            facts |-> watermark[m].facts, live |-> live[m]]
      ELSE NoDelivery]

Done(d) == delivery' = [delivery EXCEPT ![d] = NoDelivery]

RequestReads(d, m) ==
    /\ delivery[d] = NoDelivery
    /\ Pending(m)
    /\ ReadWatermark(d, m)
    /\ UNCHANGED <<live, watermark, place, stalePages, staleStats, batch, attempt>>

InvalidateStatistics(d) ==
    staleStats' = IF NonHistorical(delivery[d].live, delivery[d].facts) THEN staleStats ELSE {}

(* revalidateMatchProjectionPaths returned.  The statistics tag is shared  *)
(* by all matches; the pages are this match's.                             *)
Invalidate(d) ==
    /\ delivery[d].step = "read"
    /\ delivery[d].match \notin Unreachable
    /\ InvalidateStatistics(d)
    /\ stalePages' = stalePages \ {delivery[d].match}
    /\ delivery' = [delivery EXCEPT ![d].step = "invalidated"]
    /\ UNCHANGED <<live, watermark, place, batch, attempt>>

(* It threw, before or after the statistics tag, which comes first. *)
InvalidateFails(d) ==
    /\ delivery[d].step = "read"
    /\ InvalidateStatistics(d) \/ UNCHANGED staleStats
    /\ Done(d)
    /\ UNCHANGED <<live, watermark, place, stalePages, batch, attempt>>

(* Variants: whatever the generation is now is acknowledged; the one that  *)
(* was read is, though another may have been since.                        *)
AcknowledgeCurrent(d) ==
    /\ delivery[d].step = "invalidated"
    /\ watermark' = [watermark EXCEPT ![delivery[d].match].published =
                       watermark[delivery[d].match].generation]
    /\ Done(d)
    /\ UNCHANGED <<live, place, stalePages, staleStats, batch, attempt>>

AcknowledgeBlindly(d) ==
    /\ delivery[d].step = "invalidated"
    /\ watermark' = [watermark EXCEPT ![delivery[d].match].published = delivery[d].generation]
    /\ Done(d)
    /\ UNCHANGED <<live, place, stalePages, staleStats, batch, attempt>>

(* The acknowledgement: published_generation, if the generation is still   *)
(* the one that was read.                                                  *)
Acknowledge(d) ==
    /\ delivery[d].step = "invalidated"
    /\ LET m == delivery[d].match
           g == delivery[d].generation
       IN  watermark' = IF watermark[m].generation = g
                        THEN [watermark EXCEPT ![m].published = g]
                        ELSE watermark
    /\ Done(d)
    /\ UNCHANGED <<live, place, stalePages, staleStats, batch, attempt>>

(* The acknowledgement throws, or the process of a request dies. *)
GiveUp(d) ==
    /\ delivery[d] # NoDelivery
    /\ Done(d)
    /\ UNCHANGED <<live, watermark, place, stalePages, staleStats, batch, attempt>>

-----------------------------------------------------------------------------
(* dispatchMatchProjectionInvalidations *)

(* The BatchLimit rows that are pending and oldest. *)
Selected == {m \in Matches : Pending(m) /\
               Cardinality({n \in Matches : Pending(n) /\ place[n] < place[m]}) < BatchLimit}

SelectBatch ==
    /\ batch = {} /\ attempt = {}
    /\ \E m \in Matches : Pending(m)
    /\ batch' = {[match |-> m, generation |-> watermark[m].generation] : m \in Selected}
    /\ UNCHANGED <<live, watermark, place, stalePages, staleStats, delivery, attempt>>

NextRow(row) ==
    /\ attempt = {}
    /\ row \in batch
    /\ attempt' = {row}
    /\ batch' = batch \ {row}
    /\ UNCHANGED <<live, watermark, place, stalePages, staleStats>>

(* The next row of the batch; which one comes first is left open. *)
DispatcherReads(m) ==
    \E row \in batch : row.match = m /\ NextRow(row) /\ ReadWatermark(Dispatcher, m)

(* The query throws; the loop goes on to the end of this row's turn. *)
DispatcherReadFails == (\E row \in batch : NextRow(row)) /\ UNCHANGED delivery

Attempted(row) ==
    /\ row \in attempt
    /\ delivery[Dispatcher] = NoDelivery
    /\ attempt' = {}
    /\ UNCHANGED <<live, watermark, stalePages, staleStats, delivery, batch>>

(* Variant: a failed row keeps its place. *)
RotateInPlace == \E row \in attempt : Attempted(row) /\ UNCHANGED place

(* After the attempt, whatever its outcome: a row still pending at the     *)
(* generation that was selected goes to the back.                          *)
Rotate ==
    \E row \in attempt :
      /\ Attempted(row)
      /\ place' = IF watermark[row.match].generation = row.generation /\ Pending(row.match)
                  THEN ToTheBack(row.match) ELSE place

(* The update throws: the row keeps its place and the loop goes on. *)
RotateFails == \E row \in attempt : Attempted(row) /\ UNCHANGED place

(* The dispatcher's process dies between two steps. *)
Crash ==
    /\ batch \cup attempt # {}
    /\ Done(Dispatcher)
    /\ batch' = {} /\ attempt' = {}
    /\ UNCHANGED <<live, watermark, place, stalePages, staleStats>>

-----------------------------------------------------------------------------

Init ==
    /\ live = [m \in Matches |-> TRUE]
    /\ watermark = [m \in Matches |-> [generation |-> 0, published |-> 0, facts |-> {}]]
    /\ place \in {p \in [Matches -> 1..Cardinality(Matches)] :
                    \A m, n \in Matches : p[m] = p[n] => m = n}
    /\ stalePages = {}
    /\ staleStats = {}
    /\ delivery = [d \in Deliverers |-> NoDelivery]
    /\ batch = {}
    /\ attempt = {}

Next ==
    \/ \E m \in Matches : EndMatch(m)
    \/ \E m \in Matches, facts \in (SUBSET Facts) \ {{}} : CommitFacts(m, facts)
    \/ \E d \in Requests, m \in Matches : RequestReads(d, m)
    \/ \E d \in Deliverers : Invalidate(d) \/ InvalidateFails(d) \/ Acknowledge(d) \/ GiveUp(d)
    \/ \E m \in Matches : DispatcherReads(m)
    \/ SelectBatch \/ DispatcherReadFails \/ Rotate \/ RotateFails \/ Crash

Spec == Init /\ [][Next]_vars

(* The veto job is due whenever a row is pending, and for no match does    *)
(* the same call fail every time, but the invalidation of an unreachable.  *)
Fairness ==
    /\ WF_vars(SelectBatch)
    /\ SF_vars(Rotate)
    /\ SF_vars(Invalidate(Dispatcher) \/ InvalidateFails(Dispatcher))
    /\ \A m \in Matches : SF_vars(DispatcherReads(m))
    /\ \A m \in Matches \ Unreachable :
         /\ SF_vars(Invalidate(Dispatcher) /\ delivery[Dispatcher].match = m)
         /\ SF_vars(Acknowledge(Dispatcher) /\ delivery[Dispatcher].match = m)

FairSpec == Spec /\ Fairness

-----------------------------------------------------------------------------
(* Properties *)

(* A watermark with nothing pending means fresh caches: no committed fact  *)
(* is acknowledged by a delivery that invalidated too early or too little, *)
(* however deliverers, commits, failures and crashes interleave.           *)
FreshWhenPublished ==
    \A m \in Matches : ~Pending(m) => m \notin stalePages \cup staleStats

(* Published generations never go back and never pass the generation: a    *)
(* slow deliverer cannot undo or overtake the acknowledgement of another.  *)
PublishedMovesForward ==
    [][\A m \in Matches :
         /\ watermark'[m].published >= watermark[m].published
         /\ watermark'[m].published <= watermark'[m].generation]_vars

(* A match whose caches can be invalidated does not stay pending, though   *)
(* others fail forever and the batch is too small for all of them: failed  *)
(* rows rotate to the back.                                                *)
ReachableDelivered ==
    \A m \in Matches \ Unreachable : Pending(m) ~> ~Pending(m)
=============================================================================
