-------------------------- MODULE VetoSequenceProofs --------------------------
(***************************************************************************)
(* Facts about the sequences of VetoSequence: what makes a set of steps a  *)
(* legal beginning of the format, what adding steps and taking them back   *)
(* does to it, and the map plan that a finished one amounts to.            *)
(***************************************************************************)
EXTENDS VetoRoom, FiniteSetTheorems, FunctionTheorems, WellFoundedInduction, TLAPS

-----------------------------------------------------------------------------
(* Numbers and orders *)

(* The orders of the steps are consecutive, each given once. *)
Ordered(steps, n) ==
    /\ {s.order : s \in steps} = 1..n
    /\ \A s, q \in steps : s.order = q.order => s = q

Below == {p \in Nat \X Nat : p[1] < p[2]}

(* No sequence of natural numbers goes down forever. *)
LEMMA BelowWellFounded == IsWellFoundedOn(Below, Nat)
BY NatLessThanWellFounded DEF OpToRel, Below

(* A set of natural numbers has a least one: the form of induction that    *)
(* needs no operator.                                                      *)
LEMMA LeastNat ==
    ASSUME NEW T \in SUBSET Nat, T # {}
    PROVE  \E x \in T : \A y \in T : x <= y
<1>1. PICK x \in T : \A y \in T : ~(<<y, x>> \in Below)
  BY BelowWellFounded, WFMin
<1>2. ASSUME NEW y \in T PROVE x <= y
  <2>1. ~(<<y, x>> \in Below)
    BY <1>1
  <2>2. x \in Nat /\ y \in Nat
    OBVIOUS
  <2>3. y < x => <<y, x>> \in Below
    BY <2>2 DEF Below
  <2> QED
    BY <2>1, <2>2, <2>3
<1> QED
  BY <1>2

(* Min finds it. *)
LEMMA MinOfNats ==
    ASSUME NEW T \in SUBSET Nat, T # {}
    PROVE  Min(T) \in T /\ \A y \in T : Min(T) <= y
<1>1. PICK x \in T : \A y \in T : x <= y
  BY LeastNat
<1> QED
  BY <1>1 DEF Min

(* An initial part of 1..n is an interval. *)
LEMMA InitialPart ==
    ASSUME NEW n \in Nat, NEW T \in SUBSET (1..n), \A x \in T : \A y \in 1..n : y < x => y \in T
    PROVE  \E m \in 0..n : T = 1..m
<1> DEFINE out == (1..n + 1) \ T
<1>1. n + 1 \in out /\ out \in SUBSET Nat
  OBVIOUS
<1>2. PICK x \in out : \A y \in out : x <= y
  BY <1>1, LeastNat
<1>3. x \in 1..n + 1 /\ x \notin T
  OBVIOUS
<1>4. \A y \in 1..x - 1 : y \in T
  BY <1>2, <1>3
<1>5. \A y \in T : y \in 1..x - 1
  BY <1>3
<1>6. T = 1..x - 1
  BY <1>4, <1>5
<1>7. x - 1 \in 0..n
  BY <1>3
<1> QED
  BY <1>6, <1>7

(* Steps with n consecutive orders are n steps. *)
LEMMA ConsecutiveCount ==
    ASSUME NEW steps, NEW b \in Nat, NEW n \in Nat, {s.order : s \in steps} = b + 1..b + n,
           \A s, q \in steps : s.order = q.order => s = q
    PROVE  IsFiniteSet(steps) /\ Cardinality(steps) = n
<1> DEFINE f == [k \in 1..n |-> CHOOSE s \in steps : s.order = b + k]
<1>1. \A k \in 1..n : b + k \in {s.order : s \in steps}
  OBVIOUS
<1>2. \A k \in 1..n : f[k] \in steps /\ f[k].order = b + k
  BY <1>1
<1>3. \A s \in steps : s.order - b \in 1..n /\ f[s.order - b] = s
  <2> TAKE s \in steps
  <2>1. s.order \in b + 1..b + n
    OBVIOUS
  <2>2. s.order - b \in 1..n /\ b + (s.order - b) = s.order
    BY <2>1
  <2>3. f[s.order - b] \in steps /\ f[s.order - b].order = s.order
    BY <1>2, <2>2
  <2> QED
    BY <2>2, <2>3
<1>4. f \in [1..n -> steps]
  BY <1>2
<1>5. \A i, j \in 1..n : f[i] = f[j] => i = j
  <2> SUFFICES ASSUME NEW i \in 1..n, NEW j \in 1..n, f[i] = f[j] PROVE i = j
    OBVIOUS
  <2>1. b + i = b + j
    BY <1>2
  <2> QED
    BY <2>1
<1> HIDE DEF f
<1>6. f \in Bijection(1..n, steps)
  BY <1>3, <1>4, <1>5 DEF Bijection, Injection, Surjection, IsInjective
<1>7. ExistsBijection(1..n, steps)
  BY <1>6 DEF ExistsBijection
<1>8. IsFiniteSet(steps)
  BY <1>7, FS_NatBijection
<1> QED
  BY <1>7, <1>8, FS_CountingElements

(* Steps whose orders are 1 to n are n steps. *)
LEMMA OrderedCount ==
    ASSUME NEW steps, NEW n \in Nat, Ordered(steps, n)
    PROVE  IsFiniteSet(steps) /\ Cardinality(steps) = n
<1>1. {s.order : s \in steps} = 0 + 1..0 + n
  BY DEF Ordered
<1> QED
  BY <1>1, ConsecutiveCount DEF Ordered

-----------------------------------------------------------------------------
(* Legal sequences *)

(* The steps are a beginning of the format, by the entries of the roles. *)
Legal(p, v, steps) ==
    /\ steps \subseteq Steps
    /\ IsFiniteSet(steps)
    /\ Ordered(steps, Cardinality(steps))
    /\ \A s, q \in steps : s.order < q.order => s.turn <= q.turn
    /\ \A s \in steps : \A t \in Turns : t < s.turn => Answered(steps, t)
    /\ \A t \in Turns : Cardinality(StepsAt(steps, t)) <= Format[t].count
    /\ \A s \in steps : s.entry = ActorEntry(p, v, s.turn)
    /\ \A s \in steps : ActionOf(s) = "side_pick" =>
          \E q \in steps : q.turn = Format[s.turn].from /\ q.map = s.map
    /\ \A s, q \in steps :
          ActionOf(s) # "side_pick" /\ ActionOf(q) # "side_pick" /\ s.map = q.map => s = q
    /\ p = NoEntry \/ v = NoEntry => steps = {}

-----------------------------------------------------------------------------
(* The format *)

(* What a turn of the format says, and that there is a first turn *)
LEMMA FormatType ==
    /\ DOMAIN Format = Turns
    /\ 1 \in Turns
    /\ Turns \subseteq Nat \ {0}
    /\ \A t \in Turns :
          /\ Format[t].action \in {"ban", "pick", "side_pick", "decider"}
          /\ Format[t].actor \in {"veto_a", "veto_b", "system"}
          /\ Format[t].duration \in Nat
          /\ Format[t].count \in Nat \ {0}
          /\ Format[t].action = "decider" <=> Format[t].actor = "system"
          /\ Format[t].action \in {"side_pick", "decider"} => Format[t].count = 1
<1>1. Format \in Seq(TurnDefinitions) /\ Len(Format) > 0
  BY VetoAssumption DEF WellFormed
<1>2. DOMAIN Format = Turns /\ Len(Format) \in Nat /\ \A t \in Turns : Format[t] \in TurnDefinitions
  BY <1>1 DEF Turns
<1>3. \A t \in Turns :
         /\ Format[t].action = "decider" <=> Format[t].actor = "system"
         /\ Format[t].action \in {"side_pick", "decider"} => Format[t].count = 1
  BY <1>2, VetoAssumption DEF WellFormed
<1> QED
  BY <1>1, <1>2, <1>3 DEF TurnDefinitions, Turns

(* A side is picked on the map of an earlier turn, and once. *)
LEMMA SideTurns ==
    \A t \in Turns : Format[t].action = "side_pick" =>
        /\ Format[t].from \in Turns
        /\ Format[t].from < t
        /\ Format[Format[t].from].action \in {"pick", "decider"}
        /\ Format[t].actor # Format[Format[t].from].actor
        /\ \A u \in Turns : Format[u].action = "side_pick" /\ Format[u].from = Format[t].from => u = t
<1>1. DOMAIN Format = Turns
  BY FormatType
<1>2. \A t \in TurnsOf(Format, {"side_pick"}) :
         /\ Format[t].from \in TurnsOf(Format, {"pick", "decider"})
         /\ Format[t].from < t
         /\ Format[t].actor # Format[Format[t].from].actor
  BY VetoAssumption DEF WellFormed
<1>3. \A t, u \in TurnsOf(Format, {"side_pick"}) : Format[t].from = Format[u].from => t = u
  BY VetoAssumption DEF WellFormed
<1> QED
  BY <1>1, <1>2, <1>3 DEF TurnsOf

(* The current turn of a sequence is the first one with an answer missing. *)
LEMMA CurrentIs ==
    ASSUME NEW p, NEW v, NEW steps
    PROVE  LET t == CurrentTurn(p, v, steps)
           IN  /\ t \in {NoTurn, 0} \cup Turns
               /\ p = NoEntry => t = NoTurn
               /\ p # NoEntry => (t = 0 <=> v = NoEntry)
               /\ t \in Turns => /\ p # NoEntry /\ v # NoEntry
                                 /\ ~Answered(steps, t)
                                 /\ \A u \in Turns : u < t => Answered(steps, u)
               /\ t = NoTurn /\ p # NoEntry =>
                     v # NoEntry /\ \A u \in Turns : Answered(steps, u)
<1> DEFINE missing == {t \in Turns : ~Answered(steps, t)}
<1>1. missing \in SUBSET Nat /\ Turns \subseteq Nat \ {0} /\ missing \subseteq Turns
  BY FormatType
<1>2. (\A t \in Turns : Answered(steps, t)) <=> missing = {}
  OBVIOUS
<1>3. missing # {} => Min(missing) \in missing /\ \A y \in missing : Min(missing) <= y
  BY <1>1, MinOfNats
<1>4. missing # {} => /\ Min(missing) \in Turns
                      /\ ~Answered(steps, Min(missing))
                      /\ \A u \in Turns : u < Min(missing) => Answered(steps, u)
  BY <1>1, <1>3
<1>5. CurrentTurn(p, v, steps) =
         IF p = NoEntry THEN NoTurn
         ELSE IF v = NoEntry THEN 0
         ELSE IF missing = {} THEN NoTurn ELSE Min(missing)
  BY <1>2 DEF CurrentTurn
<1> HIDE DEF missing
<1> QED
  BY <1>1, <1>2, <1>4, <1>5 DEF NoTurn

-----------------------------------------------------------------------------
(* The steps *)

(* What a legal sequence is made of *)
LEMMA LegalType ==
    ASSUME NEW p, NEW v, NEW steps, Legal(p, v, steps)
    PROVE  /\ IsFiniteSet(steps)
           /\ Cardinality(steps) \in Nat
           /\ \A s \in steps : /\ s \in Steps
                                /\ s.order \in 1..Cardinality(steps) /\ s.turn \in Turns /\ s.turn \in Nat
           /\ \A t : /\ IsFiniteSet(StepsAt(steps, t)) /\ Cardinality(StepsAt(steps, t)) \in Nat
                     /\ Cardinality(StepsAt(steps, t)) = 0 <=> StepsAt(steps, t) = {}
<1>1. IsFiniteSet(steps) /\ Cardinality(steps) \in Nat
  BY FS_CardinalityType DEF Legal
<1>2. ASSUME NEW s \in steps
      PROVE  s \in Steps /\ s.order \in 1..Cardinality(steps) /\ s.turn \in Turns /\ s.turn \in Nat
  BY FormatType DEF Legal, Steps, Ordered
<1>3. ASSUME NEW t
      PROVE  /\ IsFiniteSet(StepsAt(steps, t)) /\ Cardinality(StepsAt(steps, t)) \in Nat
             /\ Cardinality(StepsAt(steps, t)) = 0 <=> StepsAt(steps, t) = {}
  <2>1. StepsAt(steps, t) \in SUBSET steps
    BY DEF StepsAt
  <2>2. IsFiniteSet(StepsAt(steps, t))
    BY <1>1, <2>1, FS_Subset
  <2> QED
    BY <2>2, FS_CardinalityType, FS_EmptySet
<1> QED
  BY <1>1, <1>2, <1>3

(* An answered turn has a step. *)
LEMMA AnsweredHasStep ==
    ASSUME NEW p, NEW v, NEW steps, Legal(p, v, steps), NEW t \in Turns, Answered(steps, t)
    PROVE  \E s \in steps : s.turn = t
<1>1. Cardinality(StepsAt(steps, t)) # 0
  BY FormatType, LegalType DEF Answered
<1>2. StepsAt(steps, t) # {}
  BY <1>1, LegalType
<1> QED
  BY <1>2 DEF StepsAt

(* The next step takes the next order. *)
LEMMA NextOrderIs ==
    ASSUME NEW p, NEW v, NEW steps, Legal(p, v, steps)
    PROVE  NextOrder(steps) = Cardinality(steps) + 1
<1> DEFINE n == Cardinality(steps)
<1>1. n \in Nat /\ {s.order : s \in steps} = 1..n
  BY LegalType DEF Legal, Ordered
<1>2. {0} \cup {s.order : s \in steps} = 0..n
  BY <1>1
<1> HIDE DEF n
<1>3. n \in 0..n /\ \A y \in 0..n : n >= y
  BY <1>1
<1>4. Max(0..n) = n
  BY <1>1, <1>3 DEF Max
<1>5. Max({0} \cup {s.order : s \in steps}) = n
  BY <1>2, <1>4, Zenon
<1>6. NextOrder(steps) = 1 + n
  BY <1>5, Zenon DEF NextOrder
<1> QED
  BY <1>1, <1>6 DEF n

(* No step is ahead of the current turn. *)
LEMMA StepsUpToCurrent ==
    ASSUME NEW p, NEW v, NEW steps, Legal(p, v, steps), CurrentTurn(p, v, steps) \in Turns, NEW s \in steps
    PROVE  s.turn <= CurrentTurn(p, v, steps)
<1>1. s.turn \in Turns /\ \A t \in Turns : t < s.turn => Answered(steps, t)
  BY LegalType DEF Legal
<1>2. ~Answered(steps, CurrentTurn(p, v, steps))
  BY CurrentIs
<1>3. s.turn \in Nat /\ CurrentTurn(p, v, steps) \in Nat
  BY <1>1, FormatType
<1>4. ~(CurrentTurn(p, v, steps) < s.turn)
  BY <1>1, <1>2
<1> QED
  BY <1>3, <1>4

(* The map a side is due on is the map of the turn it names. *)
LEMMA SideMap ==
    ASSUME NEW p, NEW v, NEW steps, Legal(p, v, steps), NEW t \in Turns, t = CurrentTurn(p, v, steps),
           Format[t].action = "side_pick"
    PROVE  \E q \in steps : q.turn = Format[t].from /\ q.map = MapToSide(steps, t)
<1>1. Format[t].from \in Turns /\ Format[t].from < t
  BY SideTurns
<1>2. Answered(steps, Format[t].from)
  BY <1>1, CurrentIs
<1>3. \E q \in steps : q.turn = Format[t].from
  BY <1>1, <1>2, AnsweredHasStep
<1> QED
  BY <1>3 DEF MapToSide

(* Steps that answer the current turn, in the orders that follow, leave a  *)
(* legal sequence.                                                         *)
LEMMA AddSteps ==
    ASSUME NEW p, NEW v, NEW steps, Legal(p, v, steps),
           NEW t \in Turns, t = CurrentTurn(p, v, steps),
           NEW k \in Nat, NEW new, new \subseteq Steps,
           \A s \in new : s.turn = t /\ s.entry = ActorEntry(p, v, t),
           {s.order : s \in new} = Cardinality(steps) + 1..Cardinality(steps) + k,
           \A s, q \in new : s.order = q.order => s = q,
           Cardinality(StepsAt(steps, t)) + k <= Format[t].count,
           Format[t].action = "side_pick" => \A s \in new : s.map = MapToSide(steps, t),
           Format[t].action # "side_pick" =>
               /\ \A s \in new : s.map \in EligibleMaps(steps)
               /\ \A s, q \in new : s.map = q.map => s = q
    PROVE  Legal(p, v, steps \cup new)
<1> DEFINE n == Cardinality(steps)
           all == steps \cup new
<1>1. /\ n \in Nat /\ IsFiniteSet(steps)
      /\ \A s \in steps : s.order \in 1..n /\ s.turn \in Turns /\ s.turn <= t /\ s.turn \in Nat
  BY LegalType, StepsUpToCurrent
<1>2. t \in Nat /\ p # NoEntry /\ v # NoEntry /\ ~Answered(steps, t)
      /\ \A u \in Turns : u < t => Answered(steps, u)
  BY CurrentIs, FormatType
<1>3. \A s \in new : s.order \in n + 1..n + k /\ s.turn = t
  OBVIOUS
<1>4. IsFiniteSet(new) /\ Cardinality(new) = k
  BY <1>1, ConsecutiveCount
<1>5. Ordered(all, n + k)
  <2>1. {s.order : s \in steps} = 1..n /\ \A s, q \in steps : s.order = q.order => s = q
    BY DEF Legal, Ordered
  <2>2. {s.order : s \in all} = (1..n) \cup (n + 1..n + k)
    BY <2>1
  <2>3. (1..n) \cup (n + 1..n + k) = 1..n + k
    BY <1>1
  <2>4. \A s, q \in all : s.order = q.order => s = q
    BY <1>1, <1>3, <2>1
  <2> QED
    BY <2>2, <2>3, <2>4 DEF Ordered
<1>6. IsFiniteSet(all) /\ Cardinality(all) = n + k
  BY <1>1, <1>5, OrderedCount
<1>7. \A s, q \in all : s.order < q.order => s.turn <= q.turn
  <2>1. \A s, q \in steps : s.order < q.order => s.turn <= q.turn
    BY DEF Legal
  <2> SUFFICES ASSUME NEW s \in all, NEW q \in all, s.order < q.order PROVE s.turn <= q.turn
    OBVIOUS
  <2>2. CASE q \in new
    BY <1>1, <1>2, <1>3, <2>2
  <2>3. CASE q \in steps /\ s \in new
    BY <1>1, <1>3, <2>3
  <2> QED
    BY <2>1, <2>2, <2>3
<1>8. \A u : u # t => StepsAt(all, u) = StepsAt(steps, u)
  BY <1>3 DEF StepsAt
<1>9. StepsAt(all, t) = StepsAt(steps, t) \cup new /\ StepsAt(steps, t) \cap new = {}
  BY <1>1, <1>3 DEF StepsAt
<1>10. Cardinality(StepsAt(all, t)) <= Format[t].count
  <2>1. IsFiniteSet(StepsAt(steps, t)) /\ Cardinality(StepsAt(steps, t)) \in Nat
    BY LegalType
  <2>2. Cardinality(StepsAt(steps, t) \cup new) =
            Cardinality(StepsAt(steps, t)) + Cardinality(new) - Cardinality(StepsAt(steps, t) \cap new)
    BY <1>4, <2>1, FS_Union
  <2>3. Cardinality(StepsAt(steps, t) \cap new) = 0
    BY <1>9, FS_EmptySet
  <2>4. Cardinality(StepsAt(all, t)) = Cardinality(StepsAt(steps, t) \cup new)
    BY <1>9, Zenon
  <2> HIDE DEF all
  <2>5. Cardinality(StepsAt(all, t)) = Cardinality(StepsAt(steps, t)) + k
    BY <1>4, <2>1, <2>2, <2>3, <2>4
  <2> QED
    BY <2>5
<1>11. \A u \in Turns : Cardinality(StepsAt(all, u)) <= Format[u].count
  BY <1>8, <1>10 DEF Legal
<1>12. \A s \in all : \A u \in Turns : u < s.turn => Answered(all, u)
  <2> SUFFICES ASSUME NEW s \in all, NEW u \in Turns, u < s.turn PROVE Answered(all, u)
    OBVIOUS
  <2>1. u \in Nat /\ s.turn <= t /\ s.turn \in Nat
    BY <1>1, <1>2, <1>3, FormatType
  <2>2. u < t
    BY <1>2, <2>1
  <2>3. Answered(steps, u)
    BY <1>2, <2>2
  <2> QED
    BY <1>8, <2>2, <2>3, <1>2, <2>1 DEF Answered
<1>13. \A s \in all : s.entry = ActorEntry(p, v, s.turn)
  BY DEF Legal
<1>14. \A s \in all : ActionOf(s) = "side_pick" =>
          \E q \in all : q.turn = Format[s.turn].from /\ q.map = s.map
  <2> SUFFICES ASSUME NEW s \in all, ActionOf(s) = "side_pick"
               PROVE  \E q \in all : q.turn = Format[s.turn].from /\ q.map = s.map
    OBVIOUS
  <2>1. CASE s \in steps
    BY <2>1 DEF Legal
  <2>2. CASE s \in new
    <3>1. s.turn = t /\ Format[t].action = "side_pick" /\ s.map = MapToSide(steps, t)
      BY <2>2 DEF ActionOf
    <3>2. \E q \in steps : q.turn = Format[t].from /\ q.map = MapToSide(steps, t)
      BY <3>1, SideMap
    <3> QED
      BY <3>1, <3>2
  <2> QED
    BY <2>1, <2>2
<1>15. \A s, q \in all : ActionOf(s) # "side_pick" /\ ActionOf(q) # "side_pick" /\ s.map = q.map => s = q
  <2>1. \A s, q \in steps : ActionOf(s) # "side_pick" /\ ActionOf(q) # "side_pick" /\ s.map = q.map => s = q
    BY DEF Legal
  <2>2. \A s \in new : ActionOf(s) # "side_pick" =>
            /\ \A q \in new : s.map = q.map => s = q
            /\ \A q \in steps : ActionOf(q) # "side_pick" => s.map # q.map
    BY <1>3 DEF ActionOf, EligibleMaps
  <2> QED
    BY <2>1, <2>2
<1>16. all \subseteq Steps
  BY DEF Legal
<1> HIDE DEF all
<1>17. Legal(p, v, all)
  BY <1>2, <1>5, <1>6, <1>7, <1>11, <1>12, <1>13, <1>14, <1>15, <1>16 DEF Legal
<1> QED
  BY <1>17 DEF all

(* The steps of the turns before a turn are a legal sequence, and leave    *)
(* that turn or one before it to be answered.                              *)
LEMMA KeepBefore ==
    ASSUME NEW p, NEW v, NEW steps, Legal(p, v, steps), NEW t \in Nat
    PROVE  LET kept == {s \in steps : s.turn < t}
           IN  /\ Legal(p, IF t = 0 THEN NoEntry ELSE v, kept)
               /\ p # NoEntry /\ t \in {0} \cup Turns =>
                     CurrentTurn(p, IF t = 0 THEN NoEntry ELSE v, kept) # NoTurn
<1> DEFINE kept == {s \in steps : s.turn < t}
           n == Cardinality(steps)
           w == IF t = 0 THEN NoEntry ELSE v
<1>1. /\ n \in Nat /\ IsFiniteSet(steps)
      /\ \A s \in steps : s.order \in 1..n /\ s.turn \in Turns /\ s.turn \in Nat
  BY LegalType
<1>2. {s.order : s \in steps} = 1..n /\ \A s, q \in steps : s.order = q.order => s = q
  BY DEF Legal, Ordered
<1>3. \A s, q \in steps : s.order < q.order => s.turn <= q.turn
  BY DEF Legal
<1>4. \E m \in 0..n : {s.order : s \in kept} = 1..m
  <2> DEFINE T == {s.order : s \in kept}
  <2>1. T \in SUBSET (1..n)
    BY <1>1
  <2>2. ASSUME NEW x \in T, NEW y \in 1..n, y < x PROVE y \in T
    <3>1. PICK s \in kept : s.order = x
      OBVIOUS
    <3>2. PICK q \in steps : q.order = y
      BY <1>2
    <3>3. q.turn <= s.turn
      BY <1>3, <2>2, <3>1, <3>2
    <3>4. q \in kept
      BY <1>1, <3>3
    <3> QED
      BY <3>2, <3>4
  <2> HIDE DEF T
  <2>3. \E m \in 0..n : T = 1..m
    BY <1>1, <2>1, <2>2, InitialPart
  <2> QED
    BY <2>3 DEF T
<1>5. PICK m \in 0..n : {s.order : s \in kept} = 1..m
  BY <1>4
<1>6. m \in Nat /\ Ordered(kept, m)
  BY <1>2, <1>5 DEF Ordered
<1>7. IsFiniteSet(kept) /\ Cardinality(kept) = m
  BY <1>6, OrderedCount
<1>8. \A u \in Turns : u < t => StepsAt(kept, u) = StepsAt(steps, u)
  BY DEF StepsAt
<1>9. \A u \in Turns : u >= t => StepsAt(kept, u) = {}
  BY <1>1 DEF StepsAt
<1>10. \A s \in kept : \A u \in Turns : u < s.turn => Answered(kept, u)
  <2> SUFFICES ASSUME NEW s \in kept, NEW u \in Turns, u < s.turn PROVE Answered(kept, u)
    OBVIOUS
  <2>1. u < t
    BY <1>1, FormatType
  <2>2. Answered(steps, u)
    BY DEF Legal
  <2> QED
    BY <1>8, <2>1, <2>2 DEF Answered
<1>11. \A u \in Turns : Cardinality(StepsAt(kept, u)) <= Format[u].count
  <2> TAKE u \in Turns
  <2>1. u \in Nat /\ Format[u].count \in Nat
    BY FormatType
  <2>2. Cardinality(StepsAt(steps, u)) <= Format[u].count
    BY DEF Legal
  <2>3. CASE u < t
    BY <1>8, <2>2, <2>3
  <2>4. CASE u >= t
    BY <1>9, <2>1, <2>4, FS_EmptySet
  <2> QED
    BY <2>1, <2>3, <2>4
<1>12. t = 0 => kept = {}
  BY <1>1
<1>13. \A s \in kept : s.entry = ActorEntry(p, w, s.turn)
  BY <1>12 DEF Legal
<1>14. \A s \in kept : ActionOf(s) = "side_pick" =>
          \E q \in kept : q.turn = Format[s.turn].from /\ q.map = s.map
  <2> SUFFICES ASSUME NEW s \in kept, ActionOf(s) = "side_pick"
               PROVE  \E q \in kept : q.turn = Format[s.turn].from /\ q.map = s.map
    OBVIOUS
  <2>1. PICK q \in steps : q.turn = Format[s.turn].from /\ q.map = s.map
    BY DEF Legal
  <2>2. Format[s.turn].from < s.turn
    BY <1>1, SideTurns DEF ActionOf
  <2>3. q.turn \in Nat /\ s.turn \in Nat /\ s.turn < t
    BY <1>1
  <2> QED
    BY <2>1, <2>2, <2>3
<1>15. \A s, q \in kept : ActionOf(s) # "side_pick" /\ ActionOf(q) # "side_pick" /\ s.map = q.map => s = q
  BY DEF Legal
<1>16. kept \subseteq Steps /\ (p = NoEntry \/ w = NoEntry => kept = {})
  BY <1>12 DEF Legal
<1>17. p # NoEntry /\ t \in {0} \cup Turns => CurrentTurn(p, w, kept) # NoTurn
  <2> SUFFICES ASSUME p # NoEntry, t \in Turns, CurrentTurn(p, w, kept) = NoTurn PROVE FALSE
    BY CurrentIs DEF NoTurn
  <2>1. Answered(kept, t)
    BY CurrentIs
  <2>2. StepsAt(kept, t) = {}
    BY <1>9
  <2> QED
    BY <2>1, <2>2, FS_EmptySet, FormatType DEF Answered
<1>18. \A s, q \in kept : s.order < q.order => s.turn <= q.turn
  BY <1>3
<1> HIDE DEF kept, w
<1>19. Legal(p, w, kept)
  BY <1>6, <1>7, <1>10, <1>11, <1>13, <1>14, <1>15, <1>16, <1>18 DEF Legal
<1> QED
  BY <1>17, <1>19 DEF kept, w

-----------------------------------------------------------------------------
(* The plan of a finished sequence *)

PlayOrder(steps, s) == 1 + Cardinality({r \in MapSteps(steps) : PlaysBefore(r, s)})

(* The picks and the decider are played in one order, without ties. *)
LEMMA PlaysInOrder ==
    ASSUME NEW p, NEW v, NEW steps, Legal(p, v, steps)
    PROVE  \A s, q \in MapSteps(steps) :
              /\ ~PlaysBefore(s, s)
              /\ s # q => PlaysBefore(s, q) \/ PlaysBefore(q, s)
              /\ \A r \in MapSteps(steps) : PlaysBefore(r, s) /\ PlaysBefore(s, q) => PlaysBefore(r, q)
<1>1. \A s \in MapSteps(steps) : s \in steps /\ s.order \in Nat /\ ActionOf(s) \in {"pick", "decider"}
  BY LegalType DEF MapSteps
<1>2. \A s, q \in MapSteps(steps) : s.order = q.order => s = q
  BY <1>1 DEF Legal, Ordered
<1> QED
  BY <1>1, <1>2 DEF PlaysBefore

(* So the places they are played in are 1, 2, 3 and on. *)
LEMMA PlayOrders ==
    ASSUME NEW p, NEW v, NEW steps, Legal(p, v, steps)
    PROVE  LET chosen == MapSteps(steps)
           IN  /\ IsFiniteSet(chosen) /\ Cardinality(chosen) \in Nat
               /\ \A s \in chosen : PlayOrder(steps, s) \in 1..Cardinality(chosen)
               /\ \A s, q \in chosen : PlayOrder(steps, s) = PlayOrder(steps, q) => s = q
               /\ \A k \in 1..Cardinality(chosen) : \E s \in chosen : PlayOrder(steps, s) = k
<1> DEFINE chosen == MapSteps(steps)
<1> DEFINE n == Cardinality(chosen)
<1> DEFINE before(s) == {r \in chosen : PlaysBefore(r, s)}
<1>1. IsFiniteSet(chosen) /\ n \in Nat
  <2>1. chosen \in SUBSET steps /\ IsFiniteSet(steps)
    BY DEF MapSteps, Legal
  <2> QED
    BY <2>1, FS_Subset, FS_CardinalityType
<1>2. \A s \in chosen : s \notin before(s)
  BY PlaysInOrder
<1>3. \A s \in chosen : IsFiniteSet(before(s)) /\ Cardinality(before(s)) \in Nat /\ Cardinality(before(s)) < n
  <2> TAKE s \in chosen
  <2>1. before(s) \in SUBSET chosen /\ before(s) # chosen
    BY <1>2
  <2> HIDE DEF before, chosen
  <2>2. IsFiniteSet(before(s)) /\ Cardinality(before(s)) <= n /\ Cardinality(before(s)) # n
    BY <1>1, <2>1, FS_Subset
  <2>3. Cardinality(before(s)) \in Nat
    BY <2>2, FS_CardinalityType
  <2> QED
    BY <1>1, <2>2, <2>3
<1>4. \A s, q \in chosen : PlaysBefore(s, q) => Cardinality(before(s)) < Cardinality(before(q))
  <2> SUFFICES ASSUME NEW s \in chosen, NEW q \in chosen, PlaysBefore(s, q)
               PROVE  Cardinality(before(s)) < Cardinality(before(q))
    OBVIOUS
  <2>1. before(s) \in SUBSET before(q)
    BY PlaysInOrder
  <2>2. s \in before(q) /\ s \notin before(s)
    BY <1>2
  <2>3. before(s) # before(q)
    BY <2>2
  <2> HIDE DEF before
  <2>4. Cardinality(before(s)) <= Cardinality(before(q)) /\ Cardinality(before(s)) # Cardinality(before(q))
    BY <1>3, <2>1, <2>3, FS_Subset
  <2>5. Cardinality(before(s)) \in Nat /\ Cardinality(before(q)) \in Nat
    BY <1>3
  <2> QED
    BY <2>4, <2>5
<1>5. \A s \in chosen : PlayOrder(steps, s) = 1 + Cardinality(before(s))
  BY DEF PlayOrder
<1>6. \A s \in chosen : PlayOrder(steps, s) \in 1..n
  <2> TAKE s \in chosen
  <2> HIDE DEF before, chosen, n
  <2> QED
    BY <1>1, <1>3, <1>5
<1>7. \A s, q \in chosen : PlayOrder(steps, s) = PlayOrder(steps, q) => s = q
  <2> SUFFICES ASSUME NEW s \in chosen, NEW q \in chosen, PlayOrder(steps, s) = PlayOrder(steps, q), s # q
               PROVE  FALSE
    OBVIOUS
  <2>1. PlaysBefore(s, q) \/ PlaysBefore(q, s)
    BY PlaysInOrder
  <2> HIDE DEF before, chosen, n
  <2>2. Cardinality(before(s)) < Cardinality(before(q)) \/ Cardinality(before(q)) < Cardinality(before(s))
    BY <1>4, <2>1
  <2>3. Cardinality(before(s)) \in Nat /\ Cardinality(before(q)) \in Nat
    BY <1>3
  <2>4. 1 + Cardinality(before(s)) = 1 + Cardinality(before(q))
    BY <1>5
  <2> QED
    BY <2>2, <2>3, <2>4
<1>8. \A k \in 1..n : \E s \in chosen : PlayOrder(steps, s) = k
  <2> DEFINE f == [s \in chosen |-> PlayOrder(steps, s)]
  <2> HIDE DEF before, chosen, n
  <2>1. f \in Injection(chosen, 1..n)
    BY <1>6, <1>7, Fun_IsInj
  <2>2. IsFiniteSet(1..n) /\ Cardinality(1..n) = n
    BY <1>1, FS_Interval
  <2>3. f \in Surjection(chosen, 1..n)
    BY <2>1, <2>2, FS_Injection DEF n
  <2>4. \A k \in 1..n : \E s \in chosen : f[s] = k
    <3> HIDE DEF f
    <3> QED
      BY <2>3, Fun_SurjectionProperties
  <2> QED
    BY <2>4
<1> HIDE DEF chosen
<1> QED
  BY <1>1, <1>6, <1>7, <1>8 DEF chosen

(* A finished sequence chooses the maps of its plan, no more and no less:  *)
(* its picks and its decider stand for the places the format has for them. *)
LEMMA PlanIsComplete ==
    ASSUME NEW p, NEW v, NEW steps, Legal(p, v, steps), \A t \in Turns : Answered(steps, t)
    PROVE  Cardinality(MapSteps(steps)) = MapCount(Format)
<1> DEFINE turns == TurnsOf(Format, {"pick", "decider"})
<1> DEFINE places == UNION {{t} \X (1..Format[t].count) : t \in turns}
<1> DEFINE chosen == MapSteps(steps)
<1> DEFINE place == [t \in Turns |-> CHOOSE f : f \in Bijection(StepsAt(steps, t), 1..Format[t].count)]
<1>1. turns = {t \in Turns : Format[t].action \in {"pick", "decider"}}
  BY FormatType DEF TurnsOf
<1>2. \A t \in Turns : place[t] \in Bijection(StepsAt(steps, t), 1..Format[t].count)
  <2> TAKE t \in Turns
  <2> DEFINE S == StepsAt(steps, t)
  <2>1. IsFiniteSet(S) /\ Cardinality(S) \in Nat /\ Format[t].count \in Nat
    BY LegalType, FormatType
  <2>2. Cardinality(S) = Format[t].count
    BY <2>1 DEF Legal, Answered
  <2> HIDE DEF S
  <2>3. ExistsBijection(1..Format[t].count, S)
    BY <2>1, <2>2, FS_CardinalityType
  <2>4. ExistsBijection(S, 1..Format[t].count)
    BY <2>3, Fun_ExistsBijSymmetric
  <2>5. \E f : f \in Bijection(S, 1..Format[t].count)
    BY <2>4 DEF ExistsBijection
  <2> QED
    BY <2>5 DEF S
<1>3. \A t \in Turns :
         /\ \A s \in StepsAt(steps, t) : place[t][s] \in 1..Format[t].count
         /\ \A s, q \in StepsAt(steps, t) : place[t][s] = place[t][q] => s = q
         /\ \A k \in 1..Format[t].count : \E s \in StepsAt(steps, t) : place[t][s] = k
  <2> TAKE t \in Turns
  <2> DEFINE g == place[t]
  <2> DEFINE S == StepsAt(steps, t)
  <2> DEFINE T == 1..Format[t].count
  <2>1. g \in Bijection(S, T)
    BY <1>2
  <2> HIDE DEF g, S, T
  <2>2. /\ g \in [S -> T]
        /\ \A s, q \in S : g[s] = g[q] => s = q
        /\ \A k \in T : \E s \in S : g[s] = k
    BY <2>1, Fun_BijectionProperties
  <2>3. \A s \in S : g[s] \in T
    BY <2>2
  <2> QED
    BY <2>2, <2>3 DEF g, S, T
<1>4. \A s \in chosen : s.turn \in turns /\ s.turn \in Turns /\ s \in StepsAt(steps, s.turn)
  BY <1>1, LegalType DEF MapSteps, ActionOf, StepsAt
<1>5. \A t \in turns : t \in Turns /\ \A s \in StepsAt(steps, t) : s.turn = t /\ s \in chosen
  BY <1>1 DEF MapSteps, ActionOf, StepsAt
<1> HIDE DEF turns, chosen, place
<1> DEFINE f == [s \in chosen |-> <<s.turn, place[s.turn][s]>>]
<1>6. \A s \in chosen : f[s] \in places
  BY <1>3, <1>4
<1>7. \A s, q \in chosen : f[s] = f[q] => s = q
  <2> SUFFICES ASSUME NEW s \in chosen, NEW q \in chosen, f[s] = f[q] PROVE s = q
    OBVIOUS
  <2>1. f[s] = <<s.turn, place[s.turn][s]>> /\ f[q] = <<q.turn, place[q.turn][q]>>
    OBVIOUS
  <2> QED
    BY <1>3, <1>4, <2>1
<1>8. \A x \in places : \E s \in chosen : f[s] = x
  <2> TAKE x \in places
  <2>1. PICK t \in turns : x \in {t} \X (1..Format[t].count)
    OBVIOUS
  <2>2. x = <<t, x[2]>> /\ x[2] \in 1..Format[t].count
    BY <2>1
  <2>3. PICK s \in StepsAt(steps, t) : place[t][s] = x[2]
    BY <1>3, <1>5, <2>2
  <2>4. s \in chosen /\ s.turn = t
    BY <1>5
  <2> QED
    BY <2>2, <2>3, <2>4
<1>9. IsFiniteSet(chosen)
  BY PlayOrders DEF chosen
<1>10. f \in [chosen -> places]
  BY <1>6
<1> HIDE DEF f, places
<1>11. f \in Bijection(chosen, places)
  BY <1>7, <1>8, <1>10, Fun_IsBij
<1>12. ExistsBijection(chosen, places)
  BY <1>11 DEF ExistsBijection
<1>13. Cardinality(places) = Cardinality(chosen)
  BY <1>9, <1>12, FS_Bijection
<1>14. MapCount(Format) = Cardinality(places)
  BY DEF MapCount, MapsTaken, places, turns
<1> QED
  BY <1>13, <1>14 DEF chosen

(* Nobody picks the side of a map it chose, and the side of a map is       *)
(* picked in one step only.                                                *)
LEMMA SideIsAnswered ==
    ASSUME NEW p, NEW v, NEW steps, Legal(p, v, steps),
           NEW s \in steps, ActionOf(s) = "side_pick", NEW r \in MapSteps(steps), s.map = r.map
    PROVE  /\ s.turn \in Turns /\ r.turn = Format[s.turn].from
           /\ s.entry # IF ActionOf(r) = "pick" THEN r.entry ELSE NoEntry
           /\ \A y \in steps : ActionOf(y) = "side_pick" /\ y.map = s.map => y = s
<1>1. r \in steps /\ ActionOf(r) \in {"pick", "decider"} /\ r.turn \in Turns /\ s.turn \in Turns
  BY LegalType DEF MapSteps
<1>2. ASSUME NEW y \in steps, ActionOf(y) = "side_pick", y.map = r.map
      PROVE  r.turn = Format[y.turn].from
  <2>1. PICK q \in steps : q.turn = Format[y.turn].from /\ q.map = y.map
    BY <1>2 DEF Legal
  <2>2. y.turn \in Turns
    BY LegalType
  <2>3. ActionOf(q) \in {"pick", "decider"}
    BY <1>2, <2>1, <2>2, SideTurns DEF ActionOf
  <2>4. q = r
    BY <1>1, <1>2, <2>1, <2>3 DEF Legal
  <2> QED
    BY <2>1, <2>4
<1>3. r.turn = Format[s.turn].from
  BY <1>2
<1>4. s.entry # IF ActionOf(r) = "pick" THEN r.entry ELSE NoEntry
  <2>1. s.entry = ActorEntry(p, v, s.turn) /\ r.entry = ActorEntry(p, v, r.turn) /\ v # NoEntry
    BY <1>1 DEF Legal
  <2>2. /\ s.turn # 0 /\ r.turn # 0
        /\ Format[s.turn].actor \in {"veto_a", "veto_b"}
        /\ ActionOf(r) = "pick" => Format[r.turn].actor \in {"veto_a", "veto_b"}
    BY <1>1, FormatType DEF ActionOf
  <2>3. Format[s.turn].actor # Format[r.turn].actor
    BY <1>1, <1>3, SideTurns DEF ActionOf
  <2>4. Other(v) # v /\ Other(v) # NoEntry
    BY VetoAssumption DEF Other, Entries
  <2>5. s.entry = IF Format[s.turn].actor = "veto_a" THEN v ELSE Other(v)
    BY <2>1, <2>2 DEF ActorEntry
  <2>6. ActionOf(r) = "pick" => r.entry = IF Format[r.turn].actor = "veto_a" THEN v ELSE Other(v)
    BY <2>1, <2>2 DEF ActorEntry
  <2> QED
    BY <2>1, <2>2, <2>3, <2>4, <2>5, <2>6
<1>5. ASSUME NEW y \in steps, ActionOf(y) = "side_pick", y.map = s.map
      PROVE  y = s
  <2>1. y.turn \in Turns /\ r.turn = Format[y.turn].from
    BY <1>2, <1>5, LegalType
  <2>2. y.turn = s.turn
    BY <1>1, <1>3, <1>5, <2>1, SideTurns DEF ActionOf
  <2>3. s \in StepsAt(steps, s.turn) /\ y \in StepsAt(steps, s.turn)
    BY <2>2 DEF StepsAt
  <2>4. Cardinality(StepsAt(steps, s.turn)) <= 1
    BY <1>1, FormatType DEF Legal, ActionOf
  <2>5. Cardinality(StepsAt(steps, s.turn)) = 1 /\ IsFiniteSet(StepsAt(steps, s.turn))
    BY <2>3, <2>4, LegalType
  <2>6. \E x : StepsAt(steps, s.turn) = {x}
    BY <2>5, FS_Singleton
  <2> QED
    BY <2>3, <2>6
<1> QED
  BY <1>1, <1>3, <1>4, <1>5

PlanEntry(steps, s) ==
    [order |-> PlayOrder(steps, s),
     map |-> s.map,
     pickedBy |-> IF ActionOf(s) = "pick" THEN s.entry ELSE NoEntry,
     sideA |-> StartSide(steps, s.map)]

(* The plan of a finished sequence has the places of its format, each with *)
(* a map of its own that nobody banned, and the sides as they were picked, *)
(* by the entry that did not pick the map.                                 *)
LEMMA FairPlan ==
    ASSUME NEW p, NEW v, NEW steps, Legal(p, v, steps), \A t \in Turns : Answered(steps, t)
    PROVE  LET plan == MapPlan(steps)
           IN  /\ plan # {}
               /\ Cardinality(plan) = MapCount(Format)
               /\ {x.order : x \in plan} = 1..MapCount(Format)
               /\ \A x, y \in plan : x.map = y.map => x = y
               /\ \A s \in steps : ActionOf(s) = "ban" => \A x \in plan : x.map # s.map
               /\ \A x \in plan, s \in steps :
                     ActionOf(s) = "side_pick" /\ s.map = x.map =>
                         /\ s.entry # x.pickedBy
                         /\ x.sideA = IF s.entry = EntryA THEN s.side ELSE Opposite(s.side)
<1> DEFINE chosen == MapSteps(steps)
<1> DEFINE plan == MapPlan(steps)
<1> DEFINE n == MapCount(Format)
<1>1. plan = {PlanEntry(steps, s) : s \in chosen}
  BY DEF MapPlan, PlanEntry, PlayOrder
<1>2. n = Cardinality(chosen) /\ n \in Nat
  BY PlanIsComplete, PlayOrders
<1>3. \A s \in chosen : /\ PlanEntry(steps, s).order = PlayOrder(steps, s)
                        /\ PlanEntry(steps, s).map = s.map
                        /\ PlanEntry(steps, s).pickedBy = IF ActionOf(s) = "pick" THEN s.entry ELSE NoEntry
                        /\ PlanEntry(steps, s).sideA = StartSide(steps, s.map)
  BY DEF PlanEntry
<1>4. chosen \subseteq steps /\ \A s \in chosen : ActionOf(s) \in {"pick", "decider"}
  BY DEF MapSteps
<1>5. /\ \A s \in chosen : PlayOrder(steps, s) \in 1..n
      /\ \A s, q \in chosen : PlayOrder(steps, s) = PlayOrder(steps, q) => s = q
      /\ \A k \in 1..n : \E s \in chosen : PlayOrder(steps, s) = k
  BY <1>2, PlayOrders
<1>6. plan # {}
  <2>1. PICK t \in Turns : Format[t].action \in {"pick", "decider"}
    BY VetoAssumption, FormatType DEF WellFormed, TurnsOf
  <2>2. PICK s \in steps : s.turn = t
    BY AnsweredHasStep
  <2>3. s \in chosen
    BY <2>1, <2>2 DEF MapSteps, ActionOf
  <2> QED
    BY <1>1, <2>3
<1> HIDE DEF chosen, plan, n
<1>7. {x.order : x \in plan} = 0 + 1..0 + n
  <2>1. \A k \in 1..n : \E x \in plan : x.order = k
    BY <1>1, <1>3, <1>5
  <2>2. \A x \in plan : x.order \in 1..n
    BY <1>1, <1>3, <1>5
  <2>3. 0 + 1..0 + n = 1..n
    BY <1>2
  <2> QED
    BY <2>1, <2>2, <2>3
<1>8. \A x, y \in plan : x.order = y.order => x = y
  BY <1>1, <1>3, <1>5
<1>9. Cardinality(plan) = n
  BY <1>2, <1>7, <1>8, ConsecutiveCount
<1>10. \A x, y \in plan : x.map = y.map => x = y
  <2>1. \A s, q \in chosen : s.map = q.map => s = q
    BY <1>4 DEF Legal
  <2> QED
    BY <1>1, <1>3, <2>1
<1>11. \A s \in steps : ActionOf(s) = "ban" => \A x \in plan : x.map # s.map
  <2>1. \A s \in steps, q \in chosen : ActionOf(s) = "ban" => s.map # q.map
    BY <1>4 DEF Legal
  <2> QED
    BY <1>1, <1>3, <2>1
<1>12. ASSUME NEW x \in plan, NEW s \in steps, ActionOf(s) = "side_pick", s.map = x.map
       PROVE  /\ s.entry # x.pickedBy
              /\ x.sideA = IF s.entry = EntryA THEN s.side ELSE Opposite(s.side)
  <2>1. PICK r \in chosen : x = PlanEntry(steps, r)
    BY <1>1
  <2>2. /\ x.map = r.map /\ x.sideA = StartSide(steps, r.map)
        /\ x.pickedBy = IF ActionOf(r) = "pick" THEN r.entry ELSE NoEntry
    BY <1>3, <2>1
  <2>3. /\ s.entry # IF ActionOf(r) = "pick" THEN r.entry ELSE NoEntry
        /\ \A y \in steps : ActionOf(y) = "side_pick" /\ y.map = s.map => y = s
    BY <1>12, <2>2, SideIsAnswered DEF chosen
  <2> DEFINE picked == {y \in steps : ActionOf(y) = "side_pick" /\ y.map = r.map}
  <2>4. picked = {s}
    BY <1>12, <2>2, <2>3
  <2>5. (CHOOSE y \in picked : TRUE) = s
    BY <2>4
  <2>6. StartSide(steps, r.map) = IF s.entry = EntryA THEN s.side ELSE Opposite(s.side)
    BY <2>4, <2>5 DEF StartSide
  <2> QED
    BY <2>2, <2>3, <2>6
<1>13. {x.order : x \in plan} = 1..n
  BY <1>2, <1>7
<1> QED
  BY <1>6, <1>9, <1>10, <1>11, <1>12, <1>13 DEF plan, n
=============================================================================
