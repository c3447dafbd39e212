---------------------------- MODULE BettingProofs ---------------------------
(***************************************************************************)
(* Proofs about Betting.  A betting step changes no official row, so the   *)
(* match of Betting is the match of MatchResults.  What a settlement wrote *)
(* is reversed by the revision that supersedes it, because the rows of the *)
(* latest revision of a market are all there is to reverse; and what a     *)
(* clean program has settled is the outcome of the rows as they are,       *)
(* because a stake reaches no market whose outcome it could change.        *)
(*                                                                         *)
(* What the rows of a market add up to (PotsReturned) rests on three       *)
(* things: facts about sums over finite sets, each by its least            *)
(* counterexample; the pools of pool.ts, where the floors of the shares    *)
(* leave fewer points than there are remainders to round up; and the       *)
(* invariant MoneyInv, by which the rows of a market are worth the rows of *)
(* its latest revision, and those are what its outcome pays.               *)
(***************************************************************************)
EXTENDS Betting, ResultsProofs, FunctionTheorems, WellFoundedInduction

-----------------------------------------------------------------------------
(* Sums *)

Pick(s) == CHOOSE x \in s : TRUE
Adds(f, w, S) == f = [s \in SUBSET S |-> IF s = {} THEN 0 ELSE w[Pick(s)] + f[s \ {Pick(s)}]]
Adder(w, S) == CHOOSE f : Adds(f, w, S)
Sum(w, S) == Adder(w, S)[S]

(* The sum of the library, written with the recursion it stands for: a     *)
(* chosen element, and the sum of the rest.                                *)
LEMMA SumIs == \A w : SumFunction(w) = Sum(w, DOMAIN w)
BY DEF SumFunction, SumFunctionOnSet, FoldFunctionOnSet, MapThenFoldSet, Sum, Adder, Adds, Pick

(* A set of subsets of a finite set has a least one. *)
LEMMA LeastSubset ==
    ASSUME NEW S, IsFiniteSet(S), NEW B \in SUBSET SUBSET S, B # {}
    PROVE  \E T \in B : \A U \in SUBSET T : U # T => U \notin B
<1>1. \A T \in SUBSET S : IsFiniteSet(T)
  BY FS_Subset
<1>2. B \subseteq FiniteSubsetsOf(S)
  BY <1>1 DEF FiniteSubsetsOf
<1>3. PICK T \in B : \A U \in B : ~(<<U, T>> \in StrictSubsetOrdering(S))
  BY <1>2, FS_StrictSubsetOrderingWellFounded, WFMin
<1>4. ASSUME NEW U \in SUBSET T, U # T, U \in B PROVE FALSE
  <2>1. <<U, T>> \in StrictSubsetOrdering(S)
    BY <1>4 DEF StrictSubsetOrdering
  <2> QED
    BY <1>3, <1>4, <2>1
<1> QED
  BY <1>4

(* Two ways to add up agree on the subsets they have in common. *)
LEMMA AddsUnique ==
    ASSUME NEW w, NEW S, NEW T, NEW f, NEW g, IsFiniteSet(S), Adds(f, w, S), Adds(g, w, T)
    PROVE  \A s \in SUBSET S : s \in SUBSET T => f[s] = g[s]
<1> DEFINE bad == {s \in SUBSET S : s \in SUBSET T /\ f[s] # g[s]}
<1> SUFFICES ASSUME bad # {} PROVE FALSE
  OBVIOUS
<1>1. PICK s \in bad : \A u \in SUBSET s : u # s => u \notin bad
  <2>1. bad \in SUBSET SUBSET S
    OBVIOUS
  <2> HIDE DEF bad
  <2> QED
    BY <2>1, LeastSubset
<1> DEFINE rest == s \ {Pick(s)}
<1>2. /\ f[s] = IF s = {} THEN 0 ELSE w[Pick(s)] + f[rest]
      /\ g[s] = IF s = {} THEN 0 ELSE w[Pick(s)] + g[rest]
  BY DEF Adds
<1>3. s # {}
  BY <1>2
<1>4. Pick(s) \in s
  BY <1>3 DEF Pick
<1>5. rest \in SUBSET s /\ rest # s
  BY <1>4
<1>6. f[rest] = g[rest]
  BY <1>1, <1>5
<1> QED
  BY <1>2, <1>3, <1>6

(* There is a way to add up over any finite set. *)
LEMMA AddsExists ==
    ASSUME NEW w, NEW S, IsFiniteSet(S)
    PROVE  Adds(Adder(w, S), w, S)
<1> DEFINE bad == {s \in SUBSET S : ~ \E f : Adds(f, w, s)}
<1>1. ASSUME bad # {} PROVE FALSE
  <2>1. PICK t \in bad : \A u \in SUBSET t : u # t => u \notin bad
    <3>1. bad \in SUBSET SUBSET S
      OBVIOUS
    <3> HIDE DEF bad
    <3> QED
      BY <1>1, <3>1, LeastSubset
  <2>2. t \in SUBSET S /\ ~ \E f : Adds(f, w, t)
    OBVIOUS
  <2>3. \A u \in SUBSET t : IsFiniteSet(u)
    BY <2>2, FS_Subset
  <2>4. \A u \in SUBSET t : u # t => Adds(Adder(w, u), w, u)
    BY <2>1, <2>2 DEF Adder
  <2> DEFINE rest(s) == s \ {Pick(s)}
  <2> DEFINE f == [s \in SUBSET t |-> IF s = {} THEN 0 ELSE w[Pick(s)] + Adder(w, rest(s))[rest(s)]]
  <2> HIDE DEF bad
  <2>5. \A s \in SUBSET t : s # {} => rest(s) \in SUBSET s /\ rest(s) # s /\ rest(s) \in SUBSET t /\ rest(s) # t
    <3> SUFFICES ASSUME NEW s \in SUBSET t, s # {}
                 PROVE  rest(s) \in SUBSET s /\ rest(s) # s /\ rest(s) \in SUBSET t /\ rest(s) # t
      OBVIOUS
    <3>1. Pick(s) \in s
      BY DEF Pick
    <3> QED
      BY <3>1
  <2>6. \A u \in SUBSET t : u # t => f[u] = Adder(w, u)[u]
    <3> SUFFICES ASSUME NEW u \in SUBSET t, u # t PROVE f[u] = Adder(w, u)[u]
      OBVIOUS
    <3> DEFINE g == Adder(w, u)
    <3>1. Adds(g, w, u)
      BY <2>4
    <3>2. g[u] = IF u = {} THEN 0 ELSE w[Pick(u)] + g[rest(u)]
      BY <3>1 DEF Adds
    <3>3. u # {} => g[rest(u)] = Adder(w, rest(u))[rest(u)]
      <4> SUFFICES ASSUME u # {} PROVE g[rest(u)] = Adder(w, rest(u))[rest(u)]
        OBVIOUS
      <4>1. rest(u) \in SUBSET u /\ rest(u) \in SUBSET t /\ rest(u) # t
        BY <2>5
      <4>2. Adds(Adder(w, rest(u)), w, rest(u)) /\ IsFiniteSet(rest(u))
        BY <2>3, <2>4, <4>1
      <4> HIDE DEF g, rest
      <4> QED
        BY <3>1, <4>1, <4>2, AddsUnique
    <3>4. f[u] = IF u = {} THEN 0 ELSE w[Pick(u)] + Adder(w, rest(u))[rest(u)]
      OBVIOUS
    <3> HIDE DEF g, rest, f
    <3> QED
      BY <3>2, <3>3, <3>4 DEF g
  <2>7. \A s \in SUBSET t : f[s] = IF s = {} THEN 0 ELSE w[Pick(s)] + f[rest(s)]
    <3> TAKE s \in SUBSET t
    <3>1. f[s] = IF s = {} THEN 0 ELSE w[Pick(s)] + Adder(w, rest(s))[rest(s)]
      OBVIOUS
    <3>2. s # {} => f[rest(s)] = Adder(w, rest(s))[rest(s)]
      BY <2>5, <2>6
    <3> HIDE DEF f, rest
    <3> QED
      BY <3>1, <3>2
  <2>8. f = [s \in SUBSET t |-> f[s]]
    OBVIOUS
  <2>9. Adds(f, w, t)
    <3> HIDE DEF f
    <3> QED
      BY <2>7, <2>8 DEF Adds
  <2> QED
    BY <2>2, <2>9
<1>2. S \notin bad
  BY <1>1
<1> QED
  BY <1>2 DEF Adder

(* The sum over nothing is 0, and one more element adds what it counts. *)
LEMMA SumUnfolds ==
    ASSUME NEW w, NEW S, IsFiniteSet(S)
    PROVE  Sum(w, S) = IF S = {} THEN 0 ELSE w[Pick(S)] + Sum(w, S \ {Pick(S)})
<1> DEFINE rest == S \ {Pick(S)}
<1>1. Adds(Adder(w, S), w, S)
  BY AddsExists
<1>2. Adder(w, S)[S] = IF S = {} THEN 0 ELSE w[Pick(S)] + Adder(w, S)[rest]
  BY <1>1 DEF Adds
<1>3. rest \in SUBSET S /\ IsFiniteSet(rest)
  BY FS_Subset
<1> HIDE DEF rest
<1>4. Adds(Adder(w, rest), w, rest)
  BY <1>3, AddsExists
<1>5. Adder(w, rest)[rest] = Adder(w, S)[rest]
  BY <1>1, <1>3, <1>4, AddsUnique
<1> QED
  BY <1>2, <1>5 DEF Sum, rest

(* Nothing adds up to nothing. *)
LEMMA SumEmpty == \A w : Sum(w, {}) = 0
BY SumUnfolds, FS_EmptySet

(* A sum of integers is one. *)
LEMMA SumType ==
    ASSUME NEW w, NEW S, IsFiniteSet(S), \A x \in S : w[x] \in Int
    PROVE  Sum(w, S) \in Int
<1> DEFINE bad == {s \in SUBSET S : Sum(w, s) \notin Int}
<1>1. ASSUME bad # {} PROVE FALSE
  <2>1. PICK t \in bad : \A u \in SUBSET t : u # t => u \notin bad
    <3>1. bad \in SUBSET SUBSET S
      OBVIOUS
    <3> HIDE DEF bad
    <3> QED
      BY <1>1, <3>1, LeastSubset
  <2> DEFINE rest == t \ {Pick(t)}
  <2>2. t \in SUBSET S /\ IsFiniteSet(t)
    BY FS_Subset
  <2>3. Sum(w, t) = IF t = {} THEN 0 ELSE w[Pick(t)] + Sum(w, rest)
    BY <2>2, SumUnfolds
  <2>4. t # {}
    BY <2>3
  <2>5. Pick(t) \in t
    BY <2>4 DEF Pick
  <2>6. Sum(w, rest) \in Int
    BY <2>1, <2>2, <2>5
  <2>7. w[Pick(t)] \in Int
    BY <2>2, <2>5
  <2>8. Sum(w, t) \in Int
    BY <2>3, <2>4, <2>6, <2>7
  <2> QED
    BY <2>8
<1>2. S \notin bad
  BY <1>1
<1> QED
  BY <1>2

(* The order in which a sum is taken does not matter. *)
LEMMA SumTakes ==
    ASSUME NEW w, NEW S, IsFiniteSet(S), \A x \in S : w[x] \in Int, NEW x \in S
    PROVE  Sum(w, S) = w[x] + Sum(w, S \ {x})
<1> DEFINE bad == {s \in SUBSET S : \E y \in s : Sum(w, s) # w[y] + Sum(w, s \ {y})}
<1>1. ASSUME bad # {} PROVE FALSE
  <2>1. PICK t \in bad : \A u \in SUBSET t : u # t => u \notin bad
    <3>1. bad \in SUBSET SUBSET S
      OBVIOUS
    <3> HIDE DEF bad
    <3> QED
      BY <1>1, <3>1, LeastSubset
  <2>2. t \in SUBSET S /\ IsFiniteSet(t)
    BY FS_Subset
  <2>3. PICK y \in t : Sum(w, t) # w[y] + Sum(w, t \ {y})
    OBVIOUS
  <2> DEFINE z == Pick(t)
  <2>4. z \in t
    BY <2>3 DEF Pick
  <2>5. Sum(w, t) = w[z] + Sum(w, t \ {z})
    BY <2>2, <2>3, SumUnfolds
  <2> HIDE DEF z
  <2>6. z # y
    BY <2>3, <2>5
  <2>7. /\ Sum(w, t \ {z}) = w[y] + Sum(w, (t \ {z}) \ {y})
        /\ Sum(w, t \ {y}) = w[z] + Sum(w, (t \ {y}) \ {z})
    <3>1. t \ {z} \in SUBSET S /\ t \ {z} \notin bad /\ t \ {y} \in SUBSET S /\ t \ {y} \notin bad
      BY <2>1, <2>2, <2>4
    <3>2. y \in t \ {z} /\ z \in t \ {y}
      BY <2>4, <2>6
    <3> QED
      BY <3>1, <3>2
  <2>8. (t \ {z}) \ {y} = (t \ {y}) \ {z}
    OBVIOUS
  <2> DEFINE both == (t \ {z}) \ {y}
  <2>9. Sum(w, both) \in Int
    <3>1. both \in SUBSET S /\ IsFiniteSet(both)
      BY <2>2, FS_Subset
    <3> HIDE DEF both
    <3> QED
      BY <3>1, SumType
  <2>10. w[z] \in Int /\ w[y] \in Int
    BY <2>2, <2>4
  <2>11. Sum(w, t) = w[z] + (w[y] + Sum(w, both)) /\ Sum(w, t \ {y}) = w[z] + Sum(w, both)
    BY <2>5, <2>7, <2>8
  <2> HIDE DEF both, bad
  <2>12. Sum(w, t) = w[y] + Sum(w, t \ {y})
    BY <2>9, <2>10, <2>11
  <2> QED
    BY <2>3, <2>12
<1>2. S \notin bad
  BY <1>1
<1> QED
  BY <1>2

(* A sum is linear in what it adds. *)
LEMMA SumLinear ==
    ASSUME NEW u, NEW v, NEW w, NEW c \in Int, NEW S, IsFiniteSet(S),
           \A x \in S : u[x] \in Int /\ v[x] \in Int /\ w[x] = c * u[x] + v[x]
    PROVE  Sum(w, S) = c * Sum(u, S) + Sum(v, S)
<1> DEFINE bad == {s \in SUBSET S : Sum(w, s) # c * Sum(u, s) + Sum(v, s)}
<1>1. ASSUME bad # {} PROVE FALSE
  <2>1. PICK t \in bad : \A z \in SUBSET t : z # t => z \notin bad
    <3>1. bad \in SUBSET SUBSET S
      OBVIOUS
    <3> HIDE DEF bad
    <3> QED
      BY <1>1, <3>1, LeastSubset
  <2>2. t \in SUBSET S /\ IsFiniteSet(t) /\ Sum(w, t) # c * Sum(u, t) + Sum(v, t)
    BY FS_Subset
  <2>3. t # {}
    <3>1. t = {} => Sum(w, t) = 0 /\ Sum(u, t) = 0 /\ Sum(v, t) = 0
      BY SumEmpty
    <3>2. t = {} => Sum(w, t) = c * Sum(u, t) + Sum(v, t)
      BY <3>1
    <3> QED
      BY <2>2, <3>2
  <2>4. PICK x \in t : TRUE
    BY <2>3
  <2> DEFINE rest == t \ {x}
  <2>5. rest \in SUBSET S /\ IsFiniteSet(rest) /\ rest \notin bad
    BY <2>1, <2>2, <2>4, FS_Subset
  <2>6. Sum(w, rest) = c * Sum(u, rest) + Sum(v, rest)
    BY <2>5
  <2>7. \A y \in t : u[y] \in Int /\ v[y] \in Int /\ w[y] \in Int /\ w[y] = c * u[y] + v[y]
    BY <2>2
  <2>8. Sum(w, t) = w[x] + Sum(w, rest) /\ Sum(u, t) = u[x] + Sum(u, rest) /\ Sum(v, t) = v[x] + Sum(v, rest)
    BY <2>2, <2>7, SumTakes
  <2>9. Sum(u, rest) \in Int /\ Sum(v, rest) \in Int
    <3>1. \A y \in rest : u[y] \in Int /\ v[y] \in Int
      BY <2>7
    <3> HIDE DEF rest
    <3> QED
      BY <2>5, <3>1, SumType
  <2>10. u[x] \in Int /\ v[x] \in Int /\ w[x] = c * u[x] + v[x]
    BY <2>7
  <2> HIDE DEF rest, bad
  <2>11. c * (u[x] + Sum(u, rest)) = c * u[x] + c * Sum(u, rest)
    BY <2>9, <2>10
  <2>12. c * u[x] \in Int /\ c * Sum(u, rest) \in Int
    BY <2>9, <2>10
  <2>13. Sum(w, t) = (c * u[x] + c * Sum(u, rest)) + (v[x] + Sum(v, rest))
    BY <2>6, <2>8, <2>9, <2>10, <2>12
  <2> QED
    BY <2>2, <2>8, <2>11, <2>13
<1>2. S \notin bad
  BY <1>1
<1> QED
  BY <1>2

(* Adding in each place adds up. *)
LEMMA SumPlus ==
    ASSUME NEW u, NEW v, NEW w, NEW S, IsFiniteSet(S),
           \A x \in S : u[x] \in Int /\ v[x] \in Int /\ w[x] = u[x] + v[x]
    PROVE  Sum(w, S) = Sum(u, S) + Sum(v, S)
<1>1. PICK c \in Int : c = 1
  OBVIOUS
<1>2. \A x \in S : u[x] \in Int /\ v[x] \in Int /\ w[x] = c * u[x] + v[x]
  BY <1>1
<1>3. Sum(w, S) = c * Sum(u, S) + Sum(v, S)
  BY <1>2, SumLinear
<1>4. Sum(u, S) \in Int
  BY SumType
<1>5. c * Sum(u, S) = Sum(u, S)
  BY <1>1, <1>4
<1> QED
  BY <1>3, <1>5

(* It depends on what is added only. *)
LEMMA SumSame ==
    ASSUME NEW u, NEW w, NEW S, IsFiniteSet(S), \A x \in S : u[x] \in Int /\ w[x] = u[x]
    PROVE  Sum(w, S) = Sum(u, S)
<1>1. \A x \in S : w[x] = 0 * u[x] + u[x]
  OBVIOUS
<1>2. Sum(w, S) = 0 * Sum(u, S) + Sum(u, S)
  BY <1>1, SumLinear
<1>3. Sum(u, S) \in Int
  BY SumType
<1> QED
  BY <1>2, <1>3

(* Adding nothing makes nothing. *)
LEMMA SumZero ==
    ASSUME NEW w, NEW S, IsFiniteSet(S), \A x \in S : w[x] = 0
    PROVE  Sum(w, S) = 0
<1>1. \A x \in S : w[x] \in Int /\ w[x] = -1 * w[x] + w[x]
  OBVIOUS
<1>2. Sum(w, S) = -1 * Sum(w, S) + Sum(w, S) /\ Sum(w, S) \in Int
  BY <1>1, SumLinear, SumType
<1> QED
  BY <1>2

(* More in each place is more in all. *)
LEMMA SumOrder ==
    ASSUME NEW u, NEW w, NEW S, IsFiniteSet(S), \A x \in S : u[x] \in Int /\ w[x] \in Int /\ u[x] <= w[x]
    PROVE  Sum(u, S) <= Sum(w, S)
<1> DEFINE bad == {s \in SUBSET S : ~(Sum(u, s) <= Sum(w, s))}
<1>1. ASSUME bad # {} PROVE FALSE
  <2>1. PICK t \in bad : \A z \in SUBSET t : z # t => z \notin bad
    <3>1. bad \in SUBSET SUBSET S
      OBVIOUS
    <3> HIDE DEF bad
    <3> QED
      BY <1>1, <3>1, LeastSubset
  <2>2. t \in SUBSET S /\ IsFiniteSet(t) /\ ~(Sum(u, t) <= Sum(w, t))
    BY FS_Subset
  <2>3. t # {}
    <3>1. t = {} => Sum(u, t) = 0 /\ Sum(w, t) = 0
      BY SumEmpty
    <3> QED
      BY <2>2, <3>1
  <2>4. PICK x \in t : TRUE
    BY <2>3
  <2> DEFINE rest == t \ {x}
  <2>5. rest \in SUBSET S /\ IsFiniteSet(rest) /\ rest \notin bad
    BY <2>1, <2>2, <2>4, FS_Subset
  <2>6. \A y \in t : u[y] \in Int /\ w[y] \in Int /\ u[y] <= w[y]
    BY <2>2
  <2>7. Sum(u, t) = u[x] + Sum(u, rest) /\ Sum(w, t) = w[x] + Sum(w, rest)
    BY <2>2, <2>6, SumTakes
  <2>8. Sum(u, rest) \in Int /\ Sum(w, rest) \in Int
    <3>1. \A y \in rest : u[y] \in Int /\ w[y] \in Int
      BY <2>6
    <3> HIDE DEF rest
    <3> QED
      BY <2>5, <3>1, SumType
  <2>9. Sum(u, rest) <= Sum(w, rest)
    BY <2>5
  <2> HIDE DEF rest, bad
  <2> QED
    BY <2>2, <2>6, <2>7, <2>8, <2>9
<1>2. S \notin bad
  BY <1>1
<1> QED
  BY <1>2

(* Ones add up to how many there are. *)
LEMMA SumOnes ==
    ASSUME NEW w, NEW S, IsFiniteSet(S), NEW T \in SUBSET S,
           \A x \in S : w[x] = IF x \in T THEN 1 ELSE 0
    PROVE  Sum(w, S) = Cardinality(T)
<1> DEFINE bad == {s \in SUBSET S : Sum(w, s) # Cardinality(s \cap T)}
<1>1. ASSUME bad # {} PROVE FALSE
  <2>1. PICK t \in bad : \A z \in SUBSET t : z # t => z \notin bad
    <3>1. bad \in SUBSET SUBSET S
      OBVIOUS
    <3> HIDE DEF bad
    <3> QED
      BY <1>1, <3>1, LeastSubset
  <2>2. t \in SUBSET S /\ IsFiniteSet(t) /\ Sum(w, t) # Cardinality(t \cap T)
    BY FS_Subset
  <2>3. t # {}
    <3>1. t = {} => Sum(w, t) = 0 /\ t \cap T = {}
      BY SumEmpty
    <3> QED
      BY <2>2, <3>1, FS_EmptySet
  <2>4. PICK x \in t : TRUE
    BY <2>3
  <2> DEFINE rest == t \ {x}
  <2>5. rest \in SUBSET S /\ IsFiniteSet(rest) /\ rest \notin bad
    BY <2>1, <2>2, <2>4, FS_Subset
  <2>6. \A y \in t : w[y] \in Int /\ w[y] = IF y \in T THEN 1 ELSE 0
    BY <2>2
  <2>7. Sum(w, t) = w[x] + Sum(w, rest)
    BY <2>2, <2>6, SumTakes
  <2>8. Sum(w, rest) = Cardinality(rest \cap T)
    BY <2>5
  <2> DEFINE old == rest \cap T
  <2>9. IsFiniteSet(old) /\ Cardinality(old) \in Nat
    <3>1. IsFiniteSet(old)
      BY <2>5, FS_Intersection
    <3> QED
      BY <3>1, FS_CardinalityType
  <2>10. x \notin old /\ (t \cap T) = IF x \in T THEN old \cup {x} ELSE old
    BY <2>4
  <2> HIDE DEF rest, bad, old
  <2>11. Cardinality(t \cap T) = IF x \in T THEN Cardinality(old) + 1 ELSE Cardinality(old)
    BY <2>9, <2>10, FS_AddElement
  <2>12. w[x] = IF x \in T THEN 1 ELSE 0
    BY <2>6
  <2> QED
    BY <2>2, <2>7, <2>8, <2>9, <2>11, <2>12 DEF old
<1>2. S \notin bad /\ S \cap T = T
  BY <1>1
<1> QED
  BY <1>2

(* Two sets apart add up to their union. *)
LEMMA SumUnion ==
    ASSUME NEW w, NEW S, NEW T, IsFiniteSet(S), IsFiniteSet(T), S \cap T = {},
           \A x \in S \cup T : w[x] \in Int
    PROVE  Sum(w, S \cup T) = Sum(w, S) + Sum(w, T)
<1> DEFINE bad == {s \in SUBSET T : Sum(w, S \cup s) # Sum(w, S) + Sum(w, s)}
<1>1. ASSUME bad # {} PROVE FALSE
  <2>1. PICK t \in bad : \A z \in SUBSET t : z # t => z \notin bad
    <3>1. bad \in SUBSET SUBSET T
      OBVIOUS
    <3> HIDE DEF bad
    <3> QED
      BY <1>1, <3>1, LeastSubset
  <2>2. t \in SUBSET T /\ IsFiniteSet(t) /\ Sum(w, S \cup t) # Sum(w, S) + Sum(w, t)
    BY FS_Subset
  <2>3. Sum(w, S) \in Int
    BY SumType
  <2>4. t # {}
    <3> SUFFICES ASSUME t = {} PROVE FALSE
      OBVIOUS
    <3>1. S \cup t = S /\ Sum(w, t) = 0
      BY SumEmpty
    <3>2. Sum(w, S \cup t) = Sum(w, S)
      BY <3>1, Zenon
    <3> QED
      BY <2>2, <2>3, <3>1, <3>2
  <2>5. PICK x \in t : TRUE
    BY <2>4
  <2> DEFINE rest == t \ {x}
  <2>6. rest \in SUBSET T /\ IsFiniteSet(rest) /\ rest \notin bad
    BY <2>1, <2>2, <2>5, FS_Subset
  <2>7. IsFiniteSet(S \cup t)
    BY <2>2, FS_Union
  <2>8. (S \cup t) \ {x} = S \cup rest /\ x \in S \cup t
    BY <2>2, <2>5
  <2>9. Sum(w, t) = w[x] + Sum(w, rest) /\ Sum(w, S \cup t) = w[x] + Sum(w, S \cup rest)
    <3>1. \A y \in S \cup t : w[y] \in Int
      BY <2>2
    <3>2. Sum(w, S \cup t) = w[x] + Sum(w, (S \cup t) \ {x})
      BY <2>7, <2>8, <3>1, SumTakes
    <3>3. Sum(w, t) = w[x] + Sum(w, rest)
      BY <2>2, <3>1, SumTakes
    <3> QED
      BY <2>8, <3>2, <3>3
  <2>10. Sum(w, rest) \in Int /\ w[x] \in Int
    <3>1. \A y \in rest : w[y] \in Int
      BY <2>2
    <3>2. w[x] \in Int
      BY <2>2
    <3> HIDE DEF rest
    <3> QED
      BY <2>6, <3>1, <3>2, SumType
  <2>11. Sum(w, S \cup rest) = Sum(w, S) + Sum(w, rest)
    BY <2>6
  <2> HIDE DEF rest, bad
  <2> QED
    BY <2>2, <2>3, <2>9, <2>10, <2>11
<1>2. T \notin bad
  BY <1>1
<1> QED
  BY <1>2

(* A sum may be taken over other names of what it adds. *)
LEMMA SumRenamed ==
    ASSUME NEW u, NEW w, NEW S, NEW T, IsFiniteSet(S), NEW h \in Bijection(S, T),
           \A x \in S : u[x] \in Int /\ u[x] = w[h[x]]
    PROVE  IsFiniteSet(T) /\ Sum(u, S) = Sum(w, T)
<1> DEFINE image(s) == {h[x] : x \in s}
<1> DEFINE bad == {s \in SUBSET S : Sum(u, s) # Sum(w, image(s))}
<1>1. h \in [S -> T] /\ (\A x, y \in S : h[x] = h[y] => x = y) /\ (\A y \in T : \E x \in S : h[x] = y)
  BY Fun_BijectionProperties
<1>2. IsFiniteSet(T)
  <2>1. ExistsBijection(S, T)
    BY DEF ExistsBijection
  <2> QED
    BY <2>1, FS_Bijection
<1>3. ASSUME bad # {} PROVE FALSE
  <2>1. PICK t \in bad : \A z \in SUBSET t : z # t => z \notin bad
    <3>1. bad \in SUBSET SUBSET S
      OBVIOUS
    <3> HIDE DEF bad
    <3> QED
      BY <1>3, <3>1, LeastSubset
  <2>2. t \in SUBSET S /\ IsFiniteSet(t) /\ Sum(u, t) # Sum(w, image(t))
    BY FS_Subset
  <2>3. t # {}
    <3>1. t = {} => Sum(u, t) = 0 /\ image(t) = {}
      BY SumEmpty
    <3> QED
      BY <2>2, <3>1, SumEmpty
  <2>4. PICK x \in t : TRUE
    BY <2>3
  <2> DEFINE rest == t \ {x}
  <2>5. rest \in SUBSET S /\ IsFiniteSet(rest) /\ rest \notin bad
    BY <2>1, <2>2, <2>4, FS_Subset
  <2>6. \A y \in t : u[y] \in Int /\ u[y] = w[h[y]]
    BY <2>2
  <2>7. Sum(u, t) = u[x] + Sum(u, rest)
    BY <2>2, <2>6, SumTakes
  <2>8. image(t) \in SUBSET T /\ h[x] \in image(t) /\ image(t) \ {h[x]} = image(rest)
    BY <1>1, <2>2, <2>4
  <2>9. \A y \in image(t) : w[y] \in Int
    BY <2>6
  <2>10. IsFiniteSet(image(t))
    BY <1>2, <2>8, FS_Subset
  <2> HIDE DEF image
  <2>11. Sum(w, image(t)) = w[h[x]] + Sum(w, image(rest))
    <3> DEFINE I == image(t)
    <3> DEFINE y == h[x]
    <3>1. IsFiniteSet(I) /\ y \in I /\ \A z \in I : w[z] \in Int
      BY <2>8, <2>9, <2>10
    <3> HIDE DEF I, y
    <3>2. Sum(w, I) = w[y] + Sum(w, I \ {y})
      BY <3>1, SumTakes
    <3> QED
      BY <2>8, <3>2 DEF I, y
  <2>12. Sum(u, rest) = Sum(w, image(rest)) /\ u[x] = w[h[x]]
    BY <2>5, <2>6
  <2> QED
    BY <2>2, <2>7, <2>11, <2>12
<1>4. image(S) = T
  BY <1>1
<1> HIDE DEF image
<1>5. Sum(u, S) = Sum(w, image(S))
  BY <1>3
<1> QED
  BY <1>2, <1>4, <1>5

-----------------------------------------------------------------------------
(* Pools *)

(* before is a strict total order of S.                                    *)
StrictlyOrders(before, S) ==
    \A x, y \in S :
        /\ <<x, x>> \notin before
        /\ x # y => <<x, y>> \in before \/ <<y, x>> \in before
        /\ \A z \in S : <<z, x>> \in before /\ <<x, y>> \in before => <<z, y>> \in before

(* How many members of S are before each                                   *)
Places(before, S) == [x \in S |-> Cardinality({y \in S : <<y, x>> \in before})]

(* A strict total order on a finite set puts its members in places.        *)
LEMMA Ranks ==
    ASSUME NEW S, IsFiniteSet(S), NEW before, StrictlyOrders(before, S)
    PROVE  Places(before, S) \in Bijection(S, 0..Cardinality(S) - 1)
<1> DEFINE ahead(x) == {y \in S : <<y, x>> \in before}
<1> DEFINE n == Cardinality(S)
<1> DEFINE f == [x \in S |-> Cardinality(ahead(x))]
<1>0. /\ \A x \in S : <<x, x>> \notin before
      /\ \A x, y \in S : x # y => <<x, y>> \in before \/ <<y, x>> \in before
      /\ \A x, y, z \in S : <<z, x>> \in before /\ <<x, y>> \in before => <<z, y>> \in before
  BY DEF StrictlyOrders
<1>1. n \in Nat
  BY FS_CardinalityType
<1>2. \A x \in S : Cardinality(ahead(x)) \in 0..n - 1
  <2> TAKE x \in S
  <2>1. ahead(x) \in SUBSET S /\ ahead(x) # S
    BY <1>0
  <2> HIDE DEF ahead
  <2>2. IsFiniteSet(ahead(x)) /\ Cardinality(ahead(x)) <= n /\ Cardinality(ahead(x)) # n
    BY <2>1, FS_Subset
  <2>3. Cardinality(ahead(x)) \in Nat
    BY <2>2, FS_CardinalityType
  <2> QED
    BY <1>1, <2>2, <2>3
<1>3. \A x, y \in S : <<x, y>> \in before => Cardinality(ahead(x)) < Cardinality(ahead(y))
  <2> SUFFICES ASSUME NEW x \in S, NEW y \in S, <<x, y>> \in before
               PROVE  Cardinality(ahead(x)) < Cardinality(ahead(y))
    OBVIOUS
  <2>1. ahead(x) \in SUBSET ahead(y) /\ ahead(x) # ahead(y) /\ ahead(y) \in SUBSET S
    BY <1>0
  <2>2. Cardinality(ahead(x)) \in Int /\ Cardinality(ahead(y)) \in Int
    BY <1>2
  <2> HIDE DEF ahead
  <2>3. IsFiniteSet(ahead(y))
    BY <2>1, FS_Subset
  <2>4. Cardinality(ahead(x)) <= Cardinality(ahead(y)) /\ Cardinality(ahead(x)) # Cardinality(ahead(y))
    BY <2>1, <2>3, FS_Subset
  <2> QED
    BY <2>2, <2>4
<1>4. f \in [S -> 0..n - 1]
  BY <1>2
<1>5. \A x, y \in S : f[x] = f[y] => x = y
  <2> SUFFICES ASSUME NEW x \in S, NEW y \in S, Cardinality(ahead(x)) = Cardinality(ahead(y)), x # y
               PROVE  FALSE
    OBVIOUS
  <2>1. <<x, y>> \in before \/ <<y, x>> \in before
    BY <1>0
  <2>2. Cardinality(ahead(x)) \in Int /\ Cardinality(ahead(y)) \in Int
    BY <1>1, <1>2
  <2> HIDE DEF ahead
  <2> QED
    BY <1>3, <2>1, <2>2
<1>f. f = Places(before, S)
  BY DEF Places
<1> HIDE DEF f, n
<1>6. f \in Injection(S, 0..n - 1)
  BY <1>4, <1>5, Fun_IsInj
<1>7. IsFiniteSet(0..n - 1) /\ Cardinality(0..n - 1) = n
  BY <1>1, FS_Interval
<1>8. f \in Surjection(S, 0..n - 1)
  BY <1>6, <1>7, FS_Injection DEF n
<1>9. f \in Bijection(S, 0..n - 1)
  BY <1>6, <1>8, Fun_IsBij
<1> QED
  BY <1>9, <1>f DEF n

(* So k of them are before place k. *)
LEMMA FirstRanks ==
    ASSUME NEW S, IsFiniteSet(S), NEW f \in Bijection(S, 0..Cardinality(S) - 1), NEW k \in 0..Cardinality(S)
    PROVE  Cardinality({x \in S : f[x] < k}) = k
<1> DEFINE n == Cardinality(S)
<1> DEFINE first == {x \in S : f[x] < k}
<1> DEFINE g == [x \in first |-> f[x]]
<1>1. n \in Nat
  BY FS_CardinalityType
<1>2. /\ f \in [S -> 0..n - 1]
      /\ \A x, y \in S : f[x] = f[y] => x = y
      /\ \A i \in 0..n - 1 : \E x \in S : f[x] = i
  <2> DEFINE T == 0..n - 1
  <2>1. f \in Bijection(S, T)
    OBVIOUS
  <2> HIDE DEF T
  <2>2. f \in [S -> T] /\ (\A x, y \in S : f[x] = f[y] => x = y) /\ (\A i \in T : \E x \in S : f[x] = i)
    BY <2>1, Fun_BijectionProperties
  <2> QED
    BY <2>2 DEF T
<1>3. g \in [first -> 0..k - 1]
  BY <1>1, <1>2
<1>4. \A x, y \in first : g[x] = g[y] => x = y
  BY <1>2
<1>5. \A i \in 0..k - 1 : \E x \in first : g[x] = i
  <2> TAKE i \in 0..k - 1
  <2>1. i \in 0..n - 1
    BY <1>1
  <2>2. PICK x \in S : f[x] = i
    BY <1>2, <2>1
  <2>3. x \in first
    BY <2>2
  <2> QED
    BY <2>2, <2>3
<1>6. first \in SUBSET S
  OBVIOUS
<1> HIDE DEF first, g
<1>7. g \in Bijection(first, 0..k - 1)
  BY <1>3, <1>4, <1>5, Fun_IsBij
<1>8. ExistsBijection(first, 0..k - 1) /\ IsFiniteSet(first)
  BY <1>6, <1>7, FS_Subset DEF ExistsBijection
<1>9. Cardinality(0..k - 1) = k
  BY <1>1, FS_Interval
<1> QED
  BY <1>8, <1>9, FS_Bijection DEF first

PotOK(pot) == \A a \in Accounts : pot[a].amount \in Nat
Amounts(pot) == [a \in Accounts |-> pot[a].amount]

(* The accounts of a program, and the backers of each side, are finitely   *)
(* many.                                                                   *)
LEMMA AccountsFinite ==
    /\ IsFiniteSet(Accounts) /\ Accounts \subseteq Nat
    /\ \A T \in SUBSET Accounts : IsFiniteSet(T)
    /\ \A pot, s : Backers(pot, s) \in SUBSET Accounts /\ IsFiniteSet(Backers(pot, s))
<1>1. IsFiniteSet(Accounts) /\ Accounts \subseteq Nat
  BY BettingAssumption
<1>2. \A T \in SUBSET Accounts : IsFiniteSet(T)
  BY <1>1, FS_Subset
<1>3. \A pot, s : Backers(pot, s) \in SUBSET Accounts
  BY DEF Backers
<1> QED
  BY <1>1, <1>2, <1>3

(* A pool is part of the pot. *)
LEMMA PoolType ==
    ASSUME NEW pot, PotOK(pot), NEW s
    PROVE  /\ Total(pot) = Sum(Amounts(pot), Accounts)
           /\ Pool(pot, s) = Sum(Amounts(pot), Backers(pot, s))
           /\ Pool(pot, s) \in Nat /\ Total(pot) \in Nat /\ Pool(pot, s) <= Total(pot)
<1> DEFINE W == Backers(pot, s)
<1> DEFINE R == Accounts \ W
<1> DEFINE w == Amounts(pot)
<1> DEFINE g == [a \in W |-> pot[a].amount]
<1> DEFINE none == [a \in Accounts |-> 0]
<1>1. W \in SUBSET Accounts /\ R \in SUBSET Accounts /\ IsFiniteSet(W) /\ IsFiniteSet(R) /\ W \cap R = {} /\ W \cup R = Accounts
  BY AccountsFinite
<1>2. \A a \in Accounts : w[a] \in Nat /\ none[a] = 0
  BY DEF Amounts, PotOK
<1>3. Total(pot) = Sum(w, Accounts)
  BY SumIs DEF Total, Amounts
<1>4. Pool(pot, s) = Sum(g, W)
  BY SumIs DEF Pool
<1>5. \A a \in W : g[a] = w[a] /\ w[a] \in Int
  BY <1>1, <1>2 DEF Amounts
<1> HIDE DEF W, R, g, w, none
<1>6. Sum(g, W) = Sum(w, W)
  BY <1>1, <1>5, SumSame
<1>7. Sum(w, Accounts) = Sum(w, W) + Sum(w, R)
  <2>1. \A a \in W \cup R : w[a] \in Int
    BY <1>1, <1>2
  <2>2. Sum(w, W \cup R) = Sum(w, W) + Sum(w, R)
    BY <1>1, <2>1, SumUnion
  <2> QED
    BY <1>1, <2>2
<1>8. \A T \in SUBSET Accounts : Sum(w, T) \in Nat
  <2> TAKE T \in SUBSET Accounts
  <2>1. IsFiniteSet(T) /\ \A a \in T : none[a] \in Int /\ w[a] \in Int /\ none[a] <= w[a] /\ none[a] = 0
    BY <1>2, AccountsFinite
  <2>2. Sum(none, T) <= Sum(w, T) /\ Sum(w, T) \in Int /\ Sum(none, T) = 0
    BY <2>1, SumOrder, SumType, SumZero
  <2> QED
    BY <2>2
<1>9. Sum(w, W) \in Nat /\ Sum(w, R) \in Nat
  BY <1>1, <1>8
<1> QED
  BY <1>3, <1>4, <1>6, <1>7, <1>9 DEF w, W

(* What a division leaves *)
LEMMA Divides ==
    ASSUME NEW d \in Nat, NEW q \in Nat \ {0}
    PROVE  /\ d \div q \in Nat /\ d % q \in Nat /\ d % q <= q - 1
           /\ d = q * (d \div q) + (d % q)
<1>1. d % q \in 0..q - 1
  OBVIOUS
<1>2. d \div q \in Int
  OBVIOUS
<1>3. d = q * (d \div q) + (d % q)
  BY SMTT(30)
<1>4. d \div q >= 0
  OBVIOUS
<1>5. d % q \in Nat /\ d % q <= q - 1
  BY <1>1
<1>6. d \div q \in Nat
  BY <1>2, <1>4
<1> QED
  BY <1>3, <1>5, <1>6, Zenon

(* What is left of a pool that is shared is a point for some winners. *)
LEMMA LeftoverType ==
    ASSUME NEW pot, PotOK(pot), NEW s, Pool(pot, s) # 0
    PROVE  LET W == Backers(pot, s)
           IN  /\ \A a \in W : Share(pot, s, a) \in Nat /\ Remainder(pot, s, a) \in Nat
               /\ Leftover(pot, s) \in 0..Cardinality(W)
<1> DEFINE W == Backers(pot, s)
<1> DEFINE P == Pool(pot, s)
<1> DEFINE L == Total(pot) - P
<1> DEFINE due == [a \in W |-> Due(pot, s, a)]
<1> DEFINE share == [a \in W |-> Share(pot, s, a)]
<1> DEFINE rem == [a \in W |-> Remainder(pot, s, a)]
<1> DEFINE w == Amounts(pot)
<1> DEFINE none == [a \in W |-> 0]
<1> DEFINE one == [a \in W |-> 1]
<1> DEFINE most == [a \in W |-> P - 1]
<1>1. P \in Nat \ {0} /\ L \in Nat /\ P = Sum(w, W)
  BY PoolType
<1>2. IsFiniteSet(W) /\ W \subseteq Accounts
  BY AccountsFinite
<1>3. \A a \in W : w[a] \in Nat /\ w[a] = pot[a].amount
  BY <1>2 DEF Amounts, PotOK
<1>4. \A a \in W : Due(pot, s, a) = L * w[a] /\ Due(pot, s, a) \in Nat
  <2> TAKE a \in W
  <2>1. w[a] \in Nat /\ Due(pot, s, a) = w[a] * L
    BY <1>3 DEF Due
  <2> HIDE DEF w, L
  <2>2. w[a] * L = L * w[a] /\ w[a] * L \in Nat
    BY <1>1, <2>1
  <2> QED
    BY <2>1, <2>2
<1>5. \A a \in W : /\ Share(pot, s, a) \in Nat
                    /\ Remainder(pot, s, a) \in Nat
                    /\ Remainder(pot, s, a) <= P - 1
                    /\ Due(pot, s, a) = P * Share(pot, s, a) + Remainder(pot, s, a)
  <2> TAKE a \in W
  <2> DEFINE d == Due(pot, s, a)
  <2>1. Share(pot, s, a) = d \div P /\ Remainder(pot, s, a) = d % P
    BY DEF Share, Remainder
  <2>2. d \in Nat
    BY <1>4
  <2> HIDE DEF P, d
  <2>3. /\ d \div P \in Nat /\ d % P \in Nat /\ d % P <= P - 1
        /\ d = P * (d \div P) + (d % P)
    BY <1>1, <2>2, Divides
  <2> QED
    BY <2>1, <2>3, Zenon DEF d
<1>6. Leftover(pot, s) = L - Sum(share, W)
  BY SumIs DEF Leftover
<1>7. \A a \in W : /\ due[a] = Due(pot, s, a) /\ share[a] = Share(pot, s, a)
                    /\ rem[a] = Remainder(pot, s, a) /\ none[a] = 0 /\ one[a] = 1 /\ most[a] = P - 1
  OBVIOUS
<1> HIDE DEF W, P, L, due, share, rem, w, none, one, most
<1>8. Sum(due, W) = L * P
  <2>1. \A a \in W : w[a] \in Int /\ none[a] \in Int /\ due[a] = L * w[a] + none[a]
    BY <1>1, <1>3, <1>4, <1>7
  <2>2. Sum(due, W) = L * Sum(w, W) + Sum(none, W)
    BY <1>1, <1>2, <2>1, SumLinear
  <2>3. Sum(none, W) = 0
    BY <1>2, <1>7, SumZero
  <2> QED
    BY <1>1, <2>2, <2>3
<1>9. Sum(due, W) = P * Sum(share, W) + Sum(rem, W)
  <2>1. \A a \in W : share[a] \in Int /\ rem[a] \in Int /\ due[a] = P * share[a] + rem[a]
    BY <1>5, <1>7
  <2> QED
    BY <1>1, <1>2, <2>1, SumLinear
<1>10. Sum(share, W) \in Int
  BY <1>2, <1>5, <1>7, SumType
<1>11. Cardinality(W) \in Nat
  BY <1>2, FS_CardinalityType
<1>12. Sum(rem, W) \in Int /\ 0 <= Sum(rem, W) /\ Sum(rem, W) <= (P - 1) * Cardinality(W)
  <2>1. Sum(one, W) = Cardinality(W)
    BY <1>2, <1>7, SumOnes
  <2>2. \A a \in W : one[a] \in Int /\ none[a] \in Int /\ most[a] = (P - 1) * one[a] + none[a]
    BY <1>1, <1>7
  <2>3. Sum(most, W) = (P - 1) * Sum(one, W) + Sum(none, W)
    BY <1>1, <1>2, <2>2, SumLinear
  <2>4. Sum(none, W) = 0
    BY <1>2, <1>7, SumZero
  <2>5. \A a \in W : /\ rem[a] \in Int /\ most[a] \in Int /\ none[a] \in Int
                      /\ rem[a] <= most[a] /\ none[a] <= rem[a]
    BY <1>1, <1>5, <1>7
  <2>6. Sum(none, W) <= Sum(rem, W) /\ Sum(rem, W) <= Sum(most, W) /\ Sum(rem, W) \in Int
    BY <1>2, <2>5, SumOrder, SumType
  <2>7. (P - 1) * Cardinality(W) \in Int
    BY <1>1, <1>11
  <2> QED
    BY <2>1, <2>3, <2>4, <2>6, <2>7
<1> DEFINE k == L - Sum(share, W)
<1>13. k \in Int /\ P * k = Sum(rem, W)
  <2>1. P * k = P * L - P * Sum(share, W) /\ P * L = L * P
    BY <1>1, <1>10
  <2> QED
    BY <1>1, <1>8, <1>9, <1>10, <1>12, <2>1
<1> HIDE DEF k
<1>14. 0 <= k
  <2> SUFFICES ASSUME k <= -1 PROVE FALSE
    BY <1>13
  <2>1. P * k <= P * (-1)
    BY <1>1, <1>13
  <2> QED
    BY <1>1, <1>12, <1>13, <2>1
<1>15. k <= Cardinality(W)
  <2> DEFINE c == Cardinality(W)
  <2> SUFFICES ASSUME k >= c + 1 PROVE FALSE
    BY <1>11, <1>13
  <2>1. c \in Nat /\ P * k <= (P - 1) * c
    BY <1>11, <1>12, <1>13
  <2> HIDE DEF c
  <2>2. P * k >= P * (c + 1)
    BY <1>1, <1>13, <2>1
  <2>3. P * (c + 1) = (P - 1) * c + c + P
    BY <1>1, <2>1
  <2>4. PICK x \in Int, y \in Int : x = (P - 1) * c /\ y = P * k
    BY <1>1, <1>13, <2>1
  <2>5. y <= x /\ y >= P * (c + 1) /\ P * (c + 1) = x + c + P
    BY <2>1, <2>2, <2>3, <2>4
  <2>6. y >= x + c + P
    BY <2>5
  <2> QED
    BY <1>1, <2>1, <2>4, <2>5, <2>6
<1> QED
  BY <1>5, <1>6, <1>11, <1>13, <1>14, <1>15 DEF k, W

(* As many winners get a point as there are points left. *)
LEMMA BonusCount ==
    ASSUME NEW pot, PotOK(pot), NEW s, Pool(pot, s) # 0
    PROVE  /\ \A a \in Accounts : Bonus(pot, s, a) \in {0, 1}
           /\ Cardinality({a \in Backers(pot, s) : Bonus(pot, s, a) = 1}) = Leftover(pot, s)
<1> DEFINE W == Backers(pot, s)
<1> DEFINE ahead(a, b) == \/ Remainder(pot, s, a) > Remainder(pot, s, b)
                          \/ (Remainder(pot, s, a) = Remainder(pot, s, b) /\ a < b)
<1> DEFINE before == {p \in W \X W : ahead(p[1], p[2])}
<1> DEFINE f == [x \in W |-> Cardinality({y \in W : <<y, x>> \in before})]
<1>1. IsFiniteSet(W) /\ \A a \in W : a \in Nat /\ Remainder(pot, s, a) \in Nat
  BY AccountsFinite, LeftoverType
<1>2. \A x, y \in W : <<x, y>> \in before <=> ahead(x, y)
  OBVIOUS
<1>3. \A x, y \in W :
         /\ ~ahead(x, x)
         /\ x # y => ahead(x, y) \/ ahead(y, x)
         /\ \A z \in W : ahead(z, x) /\ ahead(x, y) => ahead(z, y)
  BY <1>1
<1>4. \A x \in W : f[x] = Rank(pot, s, x)
  <2> TAKE x \in W
  <2>1. {y \in W : <<y, x>> \in before} = {y \in W : ahead(y, x)}
    BY <1>2
  <2>2. f[x] = Cardinality({y \in W : <<y, x>> \in before})
    OBVIOUS
  <2>3. Rank(pot, s, x) = Cardinality({y \in W : ahead(y, x)})
    BY DEF Rank
  <2> QED
    BY <2>1, <2>2, <2>3
<1>5. StrictlyOrders(before, W)
  <2> HIDE DEF ahead, before, W
  <2> QED
    BY <1>2, <1>3 DEF StrictlyOrders
<1>6. f \in Bijection(W, 0..Cardinality(W) - 1)
  <2>1. f = Places(before, W)
    BY DEF Places
  <2>2. IsFiniteSet(W)
    BY <1>1
  <2> HIDE DEF ahead, before, W, f
  <2>3. Places(before, W) \in Bijection(W, 0..Cardinality(W) - 1)
    BY <1>5, <2>2, Ranks
  <2> QED
    BY <2>1, <2>3
<1>7. Leftover(pot, s) \in 0..Cardinality(W)
  BY LeftoverType
<1> HIDE DEF f
<1>8. Cardinality({x \in W : f[x] < Leftover(pot, s)}) = Leftover(pot, s)
  <2> HIDE DEF W
  <2> QED
    BY <1>1, <1>6, <1>7, FirstRanks
<1>9. {x \in W : f[x] < Leftover(pot, s)} = {a \in W : Bonus(pot, s, a) = 1}
  BY <1>4 DEF Bonus
<1> QED
  BY <1>8, <1>9 DEF Bonus

(* A settled pot goes to its winners, to the point, and no winner loses.   *)
LEMMA PoolShared ==
    ASSUME NEW pot, PotOK(pot), NEW o, o.state = "settled", Pool(pot, o.winner) # 0
    PROVE  /\ \A a \in Accounts :
                 /\ Payout(pot, o, a) \in Nat
                 /\ IF pot[a].side = o.winner THEN Payout(pot, o, a) >= pot[a].amount
                                              ELSE Payout(pot, o, a) = 0
           /\ Sum([a \in Accounts |-> Payout(pot, o, a)], Accounts) = Total(pot)
<1> DEFINE s == o.winner
<1> DEFINE W == Backers(pot, s)
<1> DEFINE R == Accounts \ W
<1> DEFINE pay == [a \in Accounts |-> Payout(pot, o, a)]
<1> DEFINE w == Amounts(pot)
<1> DEFINE share == [a \in W |-> Share(pot, s, a)]
<1> DEFINE bonus == [a \in W |-> Bonus(pot, s, a)]
<1> DEFINE extra == [a \in W |-> share[a] + bonus[a]]
<1>1. /\ IsFiniteSet(W) /\ W \subseteq Accounts /\ W \cup R = Accounts /\ IsFiniteSet(R) /\ W \cap R = {}
  BY AccountsFinite
<1>2. \A a \in Accounts : a \in W <=> pot[a].side = s
  BY DEF Backers
<1>3. \A a \in W : /\ w[a] = pot[a].amount /\ w[a] \in Nat
                    /\ share[a] = Share(pot, s, a) /\ share[a] \in Nat
                    /\ bonus[a] = Bonus(pot, s, a) /\ bonus[a] \in {0, 1}
                    /\ extra[a] = share[a] + bonus[a] /\ extra[a] \in Nat
  <2> TAKE a \in W
  <2>1. w[a] = pot[a].amount /\ w[a] \in Nat
    BY <1>1 DEF Amounts, PotOK
  <2>2. Share(pot, s, a) \in Nat /\ Bonus(pot, s, a) \in {0, 1}
    BY <1>1, LeftoverType, BonusCount
  <2> QED
    BY <2>1, <2>2
<1>4. \A a \in W : pay[a] = w[a] + extra[a]
  BY <1>1, <1>2, <1>3 DEF Payout
<1>5. \A a \in R : pay[a] = 0
  BY <1>2 DEF Payout
<1>6. \A a \in Accounts : pay[a] = Payout(pot, o, a)
  OBVIOUS
<1>7. Pool(pot, s) = Sum(w, W) /\ Pool(pot, s) \in Nat /\ Total(pot) \in Nat
  BY PoolType
<1>8. Sum(share, W) = Total(pot) - Pool(pot, s) - Leftover(pot, s)
  <2>1. Leftover(pot, s) = Total(pot) - Pool(pot, s) - Sum(share, W)
    BY SumIs DEF Leftover
  <2> HIDE DEF W, share
  <2>2. Sum(share, W) \in Int
    BY <1>1, <1>3, SumType
  <2> QED
    BY <1>7, <2>1, <2>2
<1>9. Sum(bonus, W) = Leftover(pot, s)
  <2> DEFINE T == {a \in W : Bonus(pot, s, a) = 1}
  <2>1. \A a \in W : bonus[a] = IF a \in T THEN 1 ELSE 0
    BY <1>3
  <2>2. T \in SUBSET W
    OBVIOUS
  <2>3. Cardinality(T) = Leftover(pot, s)
    BY BonusCount
  <2> HIDE DEF T, W, bonus
  <2> QED
    BY <1>1, <2>1, <2>2, <2>3, SumOnes
<1>10. Leftover(pot, s) \in Int
  <2>1. Leftover(pot, s) \in 0..Cardinality(W) /\ Cardinality(W) \in Nat
    BY <1>1, LeftoverType, FS_CardinalityType
  <2> QED
    BY <2>1
<1> HIDE DEF W, R, pay, w, share, bonus, extra
<1>11. Sum(extra, W) = Sum(share, W) + Sum(bonus, W)
  <2>1. \A a \in W : share[a] \in Int /\ bonus[a] \in Int /\ extra[a] = share[a] + bonus[a]
    BY <1>3
  <2> QED
    BY <1>1, <2>1, SumPlus
<1>12. Sum(pay, W) = Sum(w, W) + Sum(extra, W)
  <2>1. \A a \in W : w[a] \in Int /\ extra[a] \in Int /\ pay[a] = w[a] + extra[a]
    BY <1>3, <1>4
  <2> QED
    BY <1>1, <2>1, SumPlus
<1>13. Sum(pay, R) = 0
  BY <1>1, <1>5, SumZero
<1>14. Sum(pay, Accounts) = Sum(pay, W) + Sum(pay, R)
  <2>1. \A a \in W \cup R : pay[a] \in Int
    BY <1>3, <1>4, <1>5
  <2>2. Sum(pay, W \cup R) = Sum(pay, W) + Sum(pay, R)
    BY <1>1, <2>1, SumUnion
  <2> QED
    BY <1>1, <2>2
<1>15. Sum(pay, Accounts) = Total(pot)
  BY <1>7, <1>8, <1>9, <1>10, <1>11, <1>12, <1>13, <1>14
<1>16. \A a \in Accounts : /\ pay[a] \in Nat
                            /\ IF pot[a].side = s THEN pay[a] >= pot[a].amount ELSE pay[a] = 0
  BY <1>1, <1>2, <1>3, <1>4, <1>5 DEF R
<1> QED
  BY <1>6, <1>15, <1>16 DEF pay

-----------------------------------------------------------------------------
(* The books *)

(* Rows of the ledger, whatever their amounts *)
IsRow(r) ==
    /\ r = [account |-> r.account, market |-> r.market, kind |-> r.kind,
            revision |-> r.revision, by |-> r.by, amount |-> r.amount]
    /\ r.market \in Markets
    /\ r.kind \in {"settlement", "reversal"}
    /\ r.revision \in Nat /\ r.by \in Nat

PlansCounted ==
    /\ plan <= MaxPlans
    /\ \A k \in Orders : maps[k].exists => plan >= 1

BookInv ==
    /\ published \subseteq Markets
    /\ \A m \in Markets : batch[m].revision \in Nat
    /\ batch = [m \in Markets |-> batch[m]]
    /\ \A r \in ledger : IsRow(r)
    /\ stakes = [m \in Markets |-> stakes[m]]

CleanInv == ~dirty => \A m \in published : batch[m].outcome = Outcome(m, voided)

BettingInv ==
    /\ ResultsInv
    /\ PlansCounted
    /\ BookInv
    /\ HistoryReversed
    /\ CleanInv

-----------------------------------------------------------------------------
(* The match of Betting *)

(* A betting step is a step of the match, or leaves it alone. *)
LEMMA ResultsOfBetting == [BettingNext]_vars => [ResultsNext]_resultVars
BY DEF BettingNext, Official, OfficialElsewhere, Job, Close, Void, Stake, vars

(* The maps of a match come from a counted plan. *)
LEMMA PlansCountedStep ==
    ResultsInv /\ PlansCounted /\ [ResultsNext]_resultVars => PlansCounted'
<1> SUFFICES ASSUME ResultsInv, PlansCounted, [ResultsNext]_resultVars PROVE PlansCounted'
  OBVIOUS
<1>1. /\ plan \in Nat /\ MaxPlans \in Nat /\ maps \in [Orders -> MapRows]
  BY ResultsAssumption DEF ResultsInv, ResultsTypeOK
<1>2. CASE PlanMaps
  BY <1>1, <1>2 DEF PlanMaps, PlansCounted
<1>3. CASE \/ StartMatch \/ Cancel \/ Delete \/ UNCHANGED resultVars
           \/ \E sc \in Scores, ff \in BOOLEAN : CorrectResult(sc, ff)
  BY <1>3 DEF StartMatch, Cancel, Delete, CorrectResult, resultVars, PlansCounted
<1>4. CASE DropPlan
  BY <1>4 DEF DropPlan, PlansCounted, NoMap
<1>5. ASSUME NEW k \in Orders, StartMap(k) PROVE PlansCounted'
  BY <1>1, <1>5 DEF StartMap, PlansCounted, MapRows
<1>6. ASSUME NEW k \in Orders, NEW s \in Sides, NEW j \in Orders
      PROVE  With(k, s)[j].exists = maps[j].exists
  BY <1>1 DEF With, MapRows
<1>7. ASSUME NEW rows, NEW j \in Orders, Used(rows)[j].exists PROVE rows[j].exists
  BY <1>7 DEF Used, NoMap
<1>8. ASSUME NEW k \in Orders, Scored(k), NEW j \in Orders
      PROVE  With(k, OtherSide(maps[k].winner))[j].exists = maps[j].exists
  BY <1>6, <1>8, OtherSideType DEF Scored
<1>9. ASSUME NEW k \in Orders, CorrectMap(k) PROVE PlansCounted'
  BY <1>8, <1>9 DEF CorrectMap, PlansCounted
<1>10. ASSUME NEW k \in Orders, CorrectSeries(k) PROVE PlansCounted'
  BY <1>8, <1>10 DEF CorrectSeries, Finish, PlansCounted
<1>11. ASSUME NEW k \in Orders, NEW s \in Sides, RecordMap(k, s) PROVE PlansCounted'
  <2>1. \A j \in Orders : maps'[j].exists => maps[j].exists
    BY <1>6, <1>7, <1>11 DEF RecordMap, Finish
  <2> QED
    BY <1>11, <2>1 DEF RecordMap, PlansCounted
<1>12. ASSUME NEW s \in Sides, Forfeit(s) PROVE PlansCounted'
  <2>1. \A j \in Orders : maps'[j].exists => maps[j].exists
    BY <1>7, <1>12 DEF Forfeit, Finish
  <2> QED
    BY <1>12, <2>1 DEF Forfeit, PlansCounted
<1> QED
  BY <1>2, <1>3, <1>4, <1>5, <1>9, <1>10, <1>11, <1>12 DEF ResultsNext

(* What is published is a market. *)
LEMMA PublishableType ==
    ASSUME ResultsInv, PlansCounted, NEW appeal PROVE Publishable(appeal) \subseteq Markets
<1>1. plan \in Nat /\ MaxPlans \in Nat
  BY ResultsAssumption DEF ResultsInv, ResultsTypeOK
<1>2. \A k \in Orders : NextMap(k) => plan \in 1..MaxPlans
  BY <1>1 DEF NextMap, PlansCounted
<1>3. \A k \in Orders : NextMap(k) => MapMarket(k) \in Markets
  BY <1>2 DEF MapMarket, Markets
<1> QED
  BY <1>3 DEF Publishable, Markets

-----------------------------------------------------------------------------
(* Reconciliation *)

(* The reversal of a row is a row, and names it. *)
LEMMA ReversalType ==
    ASSUME NEW r, IsRow(r), NEW by \in Nat
    PROVE  /\ IsRow(Reversal(r, by))
           /\ Reversal(r, by).market = r.market
           /\ Reversal(r, by).kind = "reversal"
           /\ Reversal(r, by).revision = r.revision
           /\ Reversal(r, by).by = by
BY DEF Reversal, IsRow

(* A row of a settlement is a row of that market and revision. *)
LEMMA SettlementType ==
    ASSUME NEW m \in Markets, NEW outcome, NEW by \in Nat, NEW r \in Settlements(m, outcome, by)
    PROVE  IsRow(r) /\ r.market = m /\ r.kind = "settlement" /\ r.revision = by /\ r.by = by
<1>1. PICK a \in Stakers(m) :
         r = [account |-> a, market |-> m, kind |-> "settlement", revision |-> by, by |-> by,
              amount |-> Payout(stakes[m], outcome, a)]
  BY DEF Settlements
<1> QED
  BY <1>1 DEF IsRow

(* What a reconciliation leaves in the tables *)
LEMMA Reconciled ==
    ASSUME BettingInv, NEW appeal, NEW lock, NEW void, Reconcile(appeal, lock, void)
    PROVE  LET due == {m \in published' : Changed(m, void)}
           IN  /\ published' \subseteq Markets
               /\ batch' = [m \in Markets |-> batch'[m]]
               /\ \A m \in Markets : batch[m].revision \in Nat
               /\ \A m \in due : batch'[m].revision = NextRevision(m)
               /\ \A m \in Markets \ due : batch'[m] = batch[m]
               /\ \A m \in due : \A r \in Superseded(m) :
                     Reversal(r, NextRevision(m)) \in ledger'
               /\ ledger \subseteq ledger'
               /\ \A r \in ledger' \ ledger : \E m \in due :
                     \/ \E q \in Superseded(m) : r = Reversal(q, NextRevision(m))
                     \/ r \in Settlements(m, Outcome(m, void), NextRevision(m))
<1> DEFINE due == {m \in published' : Changed(m, void)}
<1>1. published' = published \cup Publishable(appeal)
  BY DEF Reconcile
<1>2. published' \subseteq Markets
  BY <1>1, PublishableType DEF BettingInv, BookInv
<1>3. batch' = [m \in Markets |->
                  IF m \in due THEN [revision |-> NextRevision(m), outcome |-> Outcome(m, void)]
                                ELSE batch[m]]
  BY <1>1 DEF Reconcile
<1>4. ledger' = ledger \cup Reversals(due) \cup Payments(due, void)
  BY <1>1 DEF Reconcile
<1>5. \A m \in Markets : batch[m].revision \in Nat
  BY DEF BettingInv, BookInv
<1>6. due \subseteq Markets
  BY <1>2
<1> HIDE DEF due
<1>7. /\ \A m \in due : batch'[m].revision = NextRevision(m)
      /\ \A m \in Markets \ due : batch'[m] = batch[m]
      /\ batch' = [m \in Markets |-> batch'[m]]
  BY <1>3, <1>6
<1>8. \A m \in due : \A r \in Superseded(m) : Reversal(r, NextRevision(m)) \in Reversals(due)
  BY DEF Reversals
<1>9. \A r \in ledger' \ ledger : r \in Reversals(due) \/ r \in Payments(due, void)
  BY <1>4
<1>10. \A r \in Reversals(due) : \E m \in due :
          \E q \in Superseded(m) : r = Reversal(q, NextRevision(m))
  BY DEF Reversals
<1>11. \A r \in Payments(due, void) : \E m \in due :
          r \in Settlements(m, Outcome(m, void), NextRevision(m))
  BY DEF Payments
<1>12. \A r \in ledger' \ ledger : \E m \in due :
          \/ \E q \in Superseded(m) : r = Reversal(q, NextRevision(m))
          \/ r \in Settlements(m, Outcome(m, void), NextRevision(m))
  BY <1>9, <1>10, <1>11
<1> QED
  BY <1>2, <1>4, <1>5, <1>7, <1>8, <1>12 DEF due

(* A reconciliation reverses what it supersedes, and nothing else. *)
LEMMA ReconcileHistory ==
    ASSUME BettingInv, NEW appeal, NEW lock, NEW void, Reconcile(appeal, lock, void)
    PROVE  BookInv' /\ HistoryReversed'
<1> DEFINE due == {m \in published' : Changed(m, void)}
<1>1. /\ published' \subseteq Markets
      /\ batch' = [m \in Markets |-> batch'[m]]
      /\ \A m \in Markets : batch[m].revision \in Nat
      /\ \A m \in due : batch'[m].revision = NextRevision(m)
      /\ \A m \in Markets \ due : batch'[m] = batch[m]
  BY Reconciled
<1>2. \A m \in due : \A r \in Superseded(m) : Reversal(r, NextRevision(m)) \in ledger'
  BY Reconciled
<1>3. ledger \subseteq ledger'
  BY Reconciled
<1>4. \A r \in ledger' \ ledger : \E m \in due :
         \/ \E q \in Superseded(m) : r = Reversal(q, NextRevision(m))
         \/ r \in Settlements(m, Outcome(m, void), NextRevision(m))
  BY Reconciled
<1>5. due \subseteq Markets
  BY <1>1
<1> HIDE DEF due
<1>6. \A m \in Markets : /\ batch'[m].revision \in Nat
                         /\ batch[m].revision <= batch'[m].revision
                         /\ m \notin due => batch'[m].revision = batch[m].revision
  BY <1>1 DEF NextRevision
<1>7. \A r \in ledger : IsRow(r)
  BY DEF BettingInv, BookInv
<1>8. ASSUME NEW r \in ledger
      PROVE  /\ r.by <= batch'[r.market].revision
             /\ r.kind = "settlement" =>
                   /\ r.by = r.revision
                   /\ r.revision < batch'[r.market].revision =>
                         Reversal(r, r.revision + 1) \in ledger'
             /\ r.kind = "reversal" =>
                   /\ r.by = r.revision + 1
                   /\ \E q \in ledger' : q.kind = "settlement" /\ r = Reversal(q, q.revision + 1)
  <2>1. r.market \in Markets /\ r.revision \in Nat /\ r.by \in Nat
    BY <1>7 DEF IsRow
  <2>2. /\ r.by <= batch[r.market].revision
        /\ r.kind = "settlement" =>
              /\ r.by = r.revision
              /\ r.revision < batch[r.market].revision => Reversal(r, r.revision + 1) \in ledger
        /\ r.kind = "reversal" =>
              /\ r.by = r.revision + 1
              /\ \E q \in ledger : q.kind = "settlement" /\ r = Reversal(q, q.revision + 1)
    BY DEF BettingInv, HistoryReversed
  <2>3. batch[r.market].revision \in Nat /\ batch'[r.market].revision \in Nat
        /\ batch[r.market].revision <= batch'[r.market].revision
    BY <1>1, <1>6, <2>1
  <2>4. r.by <= batch'[r.market].revision
    BY <2>1, <2>2, <2>3
  <2>5. ASSUME r.kind = "settlement", r.revision < batch'[r.market].revision
        PROVE  Reversal(r, r.revision + 1) \in ledger'
    <3>1. CASE r.revision < batch[r.market].revision
      BY <1>3, <2>2, <2>5, <3>1
    <3>2. CASE r.revision = batch[r.market].revision
      <4>1. r.market \in due
        BY <1>6, <2>1, <2>3, <2>5, <3>2
      <4>2. r \in Superseded(r.market)
        BY <2>5, <3>2 DEF Superseded
      <4> QED
        BY <1>2, <3>2, <4>1, <4>2 DEF NextRevision
    <3> QED
      BY <2>1, <2>2, <2>3, <2>5, <3>1, <3>2
  <2> QED
    BY <1>3, <2>2, <2>4, <2>5
<1>9. ASSUME NEW r \in ledger' \ ledger
      PROVE  /\ IsRow(r)
             /\ r.by <= batch'[r.market].revision
             /\ r.kind = "settlement" =>
                   /\ r.by = r.revision
                   /\ r.revision < batch'[r.market].revision =>
                         Reversal(r, r.revision + 1) \in ledger'
             /\ r.kind = "reversal" =>
                   /\ r.by = r.revision + 1
                   /\ \E q \in ledger' : q.kind = "settlement" /\ r = Reversal(q, q.revision + 1)
  <2>1. PICK m \in due :
           \/ \E q \in Superseded(m) : r = Reversal(q, NextRevision(m))
           \/ r \in Settlements(m, Outcome(m, void), NextRevision(m))
    BY <1>4, <1>9
  <2>2. m \in Markets /\ NextRevision(m) \in Nat /\ NextRevision(m) = batch[m].revision + 1
        /\ batch'[m].revision = NextRevision(m) /\ batch[m].revision \in Nat
    BY <1>1, <1>5 DEF NextRevision
  <2>3. CASE r \in Settlements(m, Outcome(m, void), NextRevision(m))
    <3>1. /\ IsRow(r) /\ r.market = m /\ r.kind = "settlement"
          /\ r.revision = NextRevision(m) /\ r.by = NextRevision(m)
      BY <2>2, <2>3, SettlementType
    <3> QED
      BY <2>2, <3>1
  <2>4. CASE \E q \in Superseded(m) : r = Reversal(q, NextRevision(m))
    <3>1. PICK q \in Superseded(m) : r = Reversal(q, NextRevision(m))
      BY <2>4
    <3>2. q \in ledger /\ q.market = m /\ q.kind = "settlement" /\ q.revision = batch[m].revision
      BY DEF Superseded
    <3>3. /\ IsRow(r) /\ r.market = m /\ r.kind = "reversal"
          /\ r.revision = batch[m].revision /\ r.by = NextRevision(m)
      BY <1>7, <2>2, <3>1, <3>2, ReversalType
    <3>4. q \in ledger' /\ r = Reversal(q, q.revision + 1)
      BY <1>3, <2>2, <3>1, <3>2
    <3> QED
      BY <2>2, <3>2, <3>3, <3>4
  <2> QED
    BY <2>1, <2>3, <2>4
<1>10. HistoryReversed'
  BY <1>8, <1>9 DEF HistoryReversed
<1>11. \A r \in ledger' : IsRow(r)
  BY <1>7, <1>9
<1>12. stakes' = stakes
  BY DEF Reconcile
<1>13. BookInv'
  BY <1>1, <1>6, <1>11, <1>12 DEF BookInv, IsRow, BettingInv, Markets, Orders, MatchMarket
<1> QED
  BY <1>10, <1>13

(* Marking as void what is void changes the outcome of nothing. *)
LEMMA VoidedOutcome ==
    ASSUME NEW m, NEW before, NEW after,
           m \in before => m \in after,
           m \in after => m \in before \/ ResolveBetFact(m, before).state = "void"
    PROVE  Outcome(m, after) = Outcome(m, before)
<1>1. ResolveBetFact(m, after) = ResolveBetFact(m, before)
  <2>1. CASE m \in after <=> m \in before
    BY <2>1 DEF ResolveBetFact
  <2>2. CASE m \in after /\ m \notin before
    <3>1. ResolveBetFact(m, before).state = "void"
      BY <2>2
    <3>2. m \in before \/ ~SubjectMatches(m) \/ forfeit \/ status = "cancelled" \/ status = "finished"
      BY <3>1 DEF ResolveBetFact, Fact
    <3>3. ResolveBetFact(m, after) = Fact("void", Nobody, NoScore)
      BY <2>2 DEF ResolveBetFact
    <3>4. ResolveBetFact(m, before) = Fact("void", Nobody, NoScore)
      BY <2>2, <3>1 DEF ResolveBetFact, Fact
    <3> QED
      BY <3>3, <3>4
  <2> QED
    BY <2>1, <2>2
<1> QED
  BY <1>1 DEF Outcome

(* A step that leaves the match and the stakes of a market alone leaves    *)
(* its outcome alone.                                                      *)
LEMMA SameOutcome ==
    ASSUME NEW m, UNCHANGED resultVars, stakes'[m] = stakes[m]
    PROVE  Outcome(m, voided)' = Outcome(m, voided')
<1>1. ResolveBetFact(m, voided)' = ResolveBetFact(m, voided')
  BY DEF resultVars, ResolveBetFact, SubjectMatches, MapMarket, Scored
<1> QED
  BY <1>1 DEF Outcome

(* What a reconciliation leaves settled is the outcome as it is. *)
LEMMA ReconcileClean ==
    ASSUME BettingInv, NEW appeal, NEW lock, NEW void, Reconcile(appeal, lock, void),
           UNCHANGED resultVars
    PROVE  CleanInv'
<1> SUFFICES ASSUME NEW m \in published' PROVE batch'[m].outcome = Outcome(m, voided)'
  BY DEF CleanInv
<1>1. published' = published \cup Publishable(appeal)
  BY DEF Reconcile
<1>2. m \in Markets
  BY <1>1, PublishableType DEF BettingInv, BookInv
<1>3. batch'[m].outcome = Outcome(m, void)
  <2>1. CASE Changed(m, void)
    BY <1>1, <1>2, <2>1 DEF Reconcile
  <2>2. CASE ~Changed(m, void)
    BY <1>1, <1>2, <2>2 DEF Reconcile, Changed
  <2> QED
    BY <2>1, <2>2
<1>4. voided' = void \cup {x \in published' : ResolveBetFact(x, void).state = "void"}
  BY <1>1 DEF Reconcile
<1>5. Outcome(m, voided') = Outcome(m, void)
  BY <1>4, VoidedOutcome
<1>6. stakes' = stakes
  BY DEF Reconcile
<1>7. Outcome(m, voided)' = Outcome(m, voided')
  BY <1>6, SameOutcome
<1> QED
  BY <1>3, <1>5, <1>7

(* A stake reaches only a market that waits for its outcome. *)
LEMMA StakeClean ==
    ASSUME BettingInv, NEW a \in Accounts, NEW m \in Markets, NEW s \in Sides, Stake(a, m, s)
    PROVE  CleanInv'
<1> SUFFICES ASSUME ~dirty, NEW x \in published PROVE batch[x].outcome = Outcome(x, voided)'
  BY DEF CleanInv, Stake
<1>1. batch[x].outcome = Outcome(x, voided) /\ x \in Markets
  BY DEF BettingInv, CleanInv, BookInv
<1>2. UNCHANGED resultVars /\ voided' = voided
  BY DEF Stake
<1>3. CASE x # m
  <2>1. stakes'[x] = stakes[x]
    BY <1>1, <1>3 DEF Stake, BettingInv, BookInv
  <2> QED
    BY <1>1, <1>2, <2>1, SameOutcome
<1>4. CASE x = m
  <2>1. ResolveBetFact(m, voided).state = "pending"
    BY DEF Stake, Admits
  <2>2. ResolveBetFact(m, voided)' = ResolveBetFact(m, voided)
    BY <1>2 DEF resultVars, ResolveBetFact, SubjectMatches, MapMarket, Scored
  <2> QED
    BY <1>1, <1>4, <2>1, <2>2 DEF Outcome
<1> QED
  BY <1>3, <1>4

-----------------------------------------------------------------------------
(* The invariant *)

(* Nothing is published, staked or written when the match is created. *)
LEMMA BettingStart == BettingInit => BettingInv
<1> SUFFICES ASSUME BettingInit PROVE BettingInv
  OBVIOUS
<1>1. ResultsInv /\ PlansCounted
  BY ResultsStart, ResultsAssumption DEF BettingInit, ResultsInit, PlansCounted, NoMap
<1>2. BookInv /\ HistoryReversed /\ CleanInv
  BY DEF BettingInit, BookInv, HistoryReversed, CleanInv
<1> QED
  BY <1>1, <1>2 DEF BettingInv

(* Every step keeps the invariant. *)
LEMMA BettingStep == BettingInv /\ [BettingNext]_vars => BettingInv'
<1> SUFFICES ASSUME BettingInv, [BettingNext]_vars PROVE BettingInv'
  OBVIOUS
<1>1. ResultsInv' /\ PlansCounted'
  BY ResultsOfBetting, ResultsStep, PlansCountedStep DEF BettingInv
<1>2. ASSUME UNCHANGED <<published, stakes, batch, ledger>> PROVE BookInv' /\ HistoryReversed'
  BY <1>2 DEF BettingInv, BookInv, HistoryReversed, IsRow, Markets, Orders, MatchMarket, Reversal
<1>3. CASE Official
  BY <1>1, <1>2, <1>3 DEF Official, Marked, CleanInv, BettingInv
<1>4. CASE OfficialElsewhere
  BY <1>1, <1>2, <1>4 DEF OfficialElsewhere, CleanInv, BettingInv
<1>5. ASSUME NEW appeal, NEW lock, NEW void, Reconcile(appeal, lock, void), UNCHANGED resultVars
      PROVE  BettingInv'
  BY <1>1, <1>5, ReconcileHistory, ReconcileClean DEF BettingInv
<1>6. CASE Job
  BY <1>5, <1>6 DEF Job
<1>7. ASSUME NEW m \in Markets, Close(m) \/ Void(m) PROVE BettingInv'
  BY <1>5, <1>7 DEF Close, Void
<1>8. ASSUME NEW a \in Accounts, NEW m \in Markets, NEW s \in Sides, Stake(a, m, s)
      PROVE  BettingInv'
  <2>1. stakes' = [x \in Markets |-> stakes'[x]]
    BY <1>8 DEF Stake, BettingInv, BookInv
  <2>2. UNCHANGED <<published, batch, ledger>>
    BY <1>8 DEF Stake
  <2>3. BookInv' /\ HistoryReversed'
    BY <2>1, <2>2 DEF BettingInv, BookInv, HistoryReversed, IsRow, Markets, Orders, MatchMarket, Reversal
  <2> QED
    BY <1>1, <1>8, <2>3, StakeClean DEF BettingInv
<1>9. CASE UNCHANGED vars
  <2>1. UNCHANGED resultVars /\ UNCHANGED betVars
    BY <1>9 DEF vars
  <2>2. CleanInv'
    <3>1. \A m : Outcome(m, voided)' = Outcome(m, voided')
      BY <2>1, SameOutcome DEF betVars
    <3> QED
      BY <2>1, <3>1 DEF betVars, CleanInv, BettingInv
  <2> QED
    BY <1>1, <1>2, <2>1, <2>2 DEF betVars, BettingInv
<1>10. \A w \in Wagers : w.account \in Accounts /\ w.side \in Sides
  BY BettingAssumption
<1> QED
  BY <1>3, <1>4, <1>6, <1>7, <1>8, <1>9, <1>10 DEF BettingNext

(* The invariant, for every behaviour *)
LEMMA BettingInvariant == BettingSpec => []BettingInv
BY BettingStart, BettingStep, PTL DEF BettingSpec

-----------------------------------------------------------------------------
(* What the rows add up to *)

AmountsOf(rows) == [r \in rows |-> r.amount]
Whole(rows) == IsFiniteSet(rows) /\ \A r \in rows : r.amount \in Int

(* Rows that are added to others add what they are worth. *)
LEMMA RowsUnion ==
    ASSUME NEW R, NEW Q, Whole(R), Whole(Q), R \cap Q = {}
    PROVE  Whole(R \cup Q) /\ SumRows(R \cup Q) = SumRows(R) + SumRows(Q)
<1> DEFINE U == R \cup Q
<1> DEFINE w == AmountsOf(U)
<1>1. IsFiniteSet(R) /\ IsFiniteSet(Q) /\ IsFiniteSet(U)
  BY FS_Union DEF Whole
<1>2. \A r \in U : w[r] = r.amount /\ w[r] \in Int
  BY DEF Whole, AmountsOf
<1>3. \A T \in SUBSET U : IsFiniteSet(T) => SumRows(T) = Sum(w, T)
  <2> SUFFICES ASSUME NEW T \in SUBSET U, IsFiniteSet(T) PROVE SumRows(T) = Sum(w, T)
    OBVIOUS
  <2> DEFINE g == AmountsOf(T)
  <2>1. SumRows(T) = Sum(g, T)
    BY SumIs DEF SumRows, AmountsOf
  <2>2. \A r \in T : w[r] \in Int /\ g[r] = w[r]
    BY <1>2 DEF AmountsOf
  <2> HIDE DEF g, w
  <2> QED
    BY <2>1, <2>2, SumSame
<1>4. R \in SUBSET U /\ Q \in SUBSET U /\ U \in SUBSET U
  OBVIOUS
<1>5. SumRows(R) = Sum(w, R) /\ SumRows(Q) = Sum(w, Q) /\ SumRows(U) = Sum(w, U)
  BY <1>1, <1>3, <1>4
<1>6. Sum(w, U) = Sum(w, R) + Sum(w, Q)
  <2> HIDE DEF w
  <2> QED
    BY <1>1, <1>2, SumUnion
<1> QED
  BY <1>1, <1>2, <1>5, <1>6 DEF Whole

(* Rows of whole points are worth whole points, and so is every part of    *)
(* them.                                                                   *)
LEMMA RowsType ==
    ASSUME NEW R, Whole(R)
    PROVE  SumRows(R) \in Int /\ \A T \in SUBSET R : Whole(T)
<1> DEFINE w == AmountsOf(R)
<1>1. SumRows(R) = Sum(w, R)
  BY SumIs DEF SumRows, AmountsOf
<1>2. IsFiniteSet(R) /\ \A r \in R : w[r] \in Int
  BY DEF Whole, AmountsOf
<1>3. \A T \in SUBSET R : Whole(T)
  BY FS_Subset DEF Whole
<1> HIDE DEF w
<1> QED
  BY <1>1, <1>2, <1>3, SumType

(* The reversals of rows take back what they are worth. *)
LEMMA RowsReversed ==
    ASSUME NEW R, Whole(R), \A r \in R : IsRow(r), NEW by,
           \A r, q \in R : r.kind = q.kind /\ r.by = q.by
    PROVE  LET back == {Reversal(r, by) : r \in R}
           IN  Whole(back) /\ SumRows(back) = -SumRows(R)
<1> DEFINE back == {Reversal(r, by) : r \in R}
<1> DEFINE h == [r \in R |-> Reversal(r, by)]
<1> DEFINE w == AmountsOf(R)
<1> DEFINE u == [r \in R |-> -r.amount]
<1> DEFINE g == AmountsOf(back)
<1> DEFINE none == [r \in R |-> 0]
<1>1. IsFiniteSet(R) /\ \A r \in R : r.amount \in Int
  BY DEF Whole
<1>2. \A r \in R : w[r] = r.amount /\ u[r] = -r.amount /\ none[r] = 0
  BY DEF AmountsOf
<1>3. \A r \in R : h[r] \in back /\ h[r] = Reversal(r, by) /\ g[h[r]] = u[r]
  BY DEF AmountsOf, Reversal
<1>4. \A r, q \in R : h[r] = h[q] => r = q
  <2> SUFFICES ASSUME NEW r \in R, NEW q \in R, h[r] = h[q] PROVE r = q
    OBVIOUS
  <2>1. Reversal(r, by) = Reversal(q, by)
    OBVIOUS
  <2>2. r.account = q.account /\ r.market = q.market /\ r.revision = q.revision /\ -r.amount = -q.amount
    BY <2>1 DEF Reversal
  <2>3. r.amount = q.amount
    BY <1>1, <2>2
  <2> QED
    BY <2>2, <2>3 DEF IsRow
<1>5. h \in Bijection(R, back)
  <2>1. h \in [R -> back] /\ \A x \in back : \E r \in R : h[r] = x
    OBVIOUS
  <2> HIDE DEF h, back
  <2> QED
    BY <1>4, <2>1, Fun_IsBij
<1>6. SumRows(back) = Sum(g, back) /\ SumRows(R) = Sum(w, R)
  BY SumIs DEF SumRows, AmountsOf
<1>7. \A x \in back : x.amount \in Int
  BY <1>1 DEF Reversal
<1> HIDE DEF back, h, w, u, g, none
<1>8. IsFiniteSet(back) /\ Sum(u, R) = Sum(g, back)
  BY <1>1, <1>2, <1>3, <1>5, SumRenamed
<1>9. Sum(none, R) = Sum(u, R) + Sum(w, R)
  BY <1>1, <1>2, SumPlus
<1>10. Sum(none, R) = 0 /\ Sum(u, R) \in Int /\ Sum(w, R) \in Int
  BY <1>1, <1>2, SumZero, SumType
<1>11. Sum(g, back) = -Sum(w, R)
  BY <1>8, <1>9, <1>10
<1> QED
  BY <1>6, <1>7, <1>8, <1>11 DEF back, Whole

StakeOK(x) == x = NoStake \/ (x.side \in Sides /\ x.amount \in Nat \ {0})
StakesOK(pot) == \A a \in Accounts : StakeOK(pot[a])

(* Whoever is paid by a settlement backed the pool that won it. *)
Decided(pot, o) == o.state = "settled" => o.winner \in Sides /\ Pool(pot, o.winner) # 0

Payouts(pot, o) == [a \in Accounts |-> Payout(pot, o, a)]

(* What a settlement pays, to each and to all *)
LEMMA PaidOut ==
    ASSUME NEW pot, StakesOK(pot), NEW o, Decided(pot, o), o.state \in {"settled", "refunded"}
    PROVE  /\ Sum(Payouts(pot, o), Accounts) = Total(pot)
           /\ \A a \in Accounts :
                 /\ Payouts(pot, o)[a] = Payout(pot, o, a) /\ Payout(pot, o, a) \in Nat
                 /\ pot[a] = NoStake => Payout(pot, o, a) = 0
                 /\ o.state = "refunded" => Payout(pot, o, a) = pot[a].amount
                 /\ o.state = "settled" =>
                       IF pot[a].side = o.winner THEN Payout(pot, o, a) >= pot[a].amount
                                                 ELSE Payout(pot, o, a) = 0
<1>1. PotOK(pot)
  BY DEF PotOK, StakesOK, StakeOK, NoStake
<1>2. CASE o.state = "refunded"
  <2>1. Payouts(pot, o) = Amounts(pot)
    BY <1>2 DEF Payouts, Amounts, Payout
  <2>2. Sum(Payouts(pot, o), Accounts) = Total(pot)
    BY <1>1, <2>1, PoolType
  <2> QED
    BY <1>1, <1>2, <2>2 DEF Payouts, Payout, PotOK, NoStake
<1>3. CASE o.state = "settled"
  <2>1. o.winner \in Sides /\ Pool(pot, o.winner) # 0
    BY <1>3 DEF Decided
  <2>2. /\ \A a \in Accounts :
              /\ Payout(pot, o, a) \in Nat
              /\ IF pot[a].side = o.winner THEN Payout(pot, o, a) >= pot[a].amount
                                           ELSE Payout(pot, o, a) = 0
        /\ Sum([a \in Accounts |-> Payout(pot, o, a)], Accounts) = Total(pot)
    BY <1>1, <1>3, <2>1, PoolShared
  <2>3. \A a \in Accounts : pot[a] = NoStake => pot[a].side # o.winner
    BY <2>1 DEF NoStake, Nobody, Sides
  <2> QED
    BY <1>3, <2>2, <2>3 DEF Payouts
<1> QED
  BY <1>2, <1>3

(* The rows of a settlement are worth what it pays. *)
LEMMA RowsPaid ==
    ASSUME NEW m \in Markets, StakesOK(stakes[m]), NEW o, Decided(stakes[m], o),
           o.state \in {"pending", "settled", "refunded"}, NEW by, NEW A \in SUBSET Accounts
    PROVE  LET rows == {r \in Settlements(m, o, by) : r.account \in A}
           IN  /\ Whole(rows)
               /\ SumRows(rows) = IF o.state = "pending" THEN 0 ELSE Sum(Payouts(stakes[m], o), A)
<1> DEFINE rows == {r \in Settlements(m, o, by) : r.account \in A}
<1>1. CASE o.state = "pending"
  <2>1. rows = {}
    BY <1>1 DEF Settlements
  <2>2. SumRows({}) = Sum(AmountsOf({}), {})
    BY SumIs DEF SumRows, AmountsOf
  <2>3. Whole({}) /\ SumRows({}) = 0
    BY <2>2, SumEmpty, FS_EmptySet DEF Whole
  <2> QED
    BY <1>1, <2>1, <2>3
<1>2. CASE o.state \in {"settled", "refunded"}
  <2> DEFINE row(a) == [account |-> a, market |-> m, kind |-> "settlement", revision |-> by, by |-> by,
                        amount |-> Payout(stakes[m], o, a)]
  <2> DEFINE paid == A \cap Stakers(m)
  <2> DEFINE rest == A \ paid
  <2> DEFINE h == [a \in paid |-> row(a)]
  <2> DEFINE pay == Payouts(stakes[m], o)
  <2> DEFINE g == AmountsOf(rows)
  <2>1. /\ paid \cup rest = A /\ paid \cap rest = {} /\ paid \subseteq Accounts /\ rest \subseteq Accounts
        /\ IsFiniteSet(paid) /\ IsFiniteSet(rest)
    BY AccountsFinite
  <2>2. \A a \in Accounts : pay[a] = Payout(stakes[m], o, a) /\ pay[a] \in Nat
    BY <1>2, PaidOut
  <2>3. \A a \in rest : pay[a] = 0
    BY <1>2, <2>1, <2>2, PaidOut DEF Stakers
  <2>4. rows = {row(a) : a \in paid}
    <3>1. Settlements(m, o, by) = {row(a) : a \in Stakers(m)}
      BY <1>2 DEF Settlements
    <3>2. \A a : row(a).account = a
      OBVIOUS
    <3> HIDE DEF row
    <3> QED
      BY <3>1, <3>2
  <2>5. \A a \in paid : h[a] \in rows /\ h[a].account = a /\ h[a].amount = pay[a] /\ g[h[a]] = h[a].amount
    BY <2>1, <2>2, <2>4 DEF AmountsOf
  <2>6. h \in Bijection(paid, rows)
    <3>1. h \in [paid -> rows] /\ \A r \in rows : \E a \in paid : h[a] = r
      BY <2>4
    <3>2. \A a, b \in paid : h[a] = h[b] => a = b
      BY <2>5
    <3> HIDE DEF h, paid, rows
    <3> QED
      BY <3>1, <3>2, Fun_IsBij
  <2>7. SumRows(rows) = Sum(g, rows)
    BY SumIs DEF SumRows, AmountsOf
  <2>8. \A r \in rows : r.amount \in Int
    BY <2>1, <2>2, <2>4
  <2> HIDE DEF rows, paid, rest, h, pay, g
  <2>9. IsFiniteSet(rows) /\ Sum(pay, paid) = Sum(g, rows)
    <3>1. \A a \in paid : pay[a] \in Int /\ pay[a] = g[h[a]]
      BY <2>1, <2>2, <2>5
    <3> QED
      BY <2>1, <2>6, <3>1, SumRenamed
  <2>10. Sum(pay, rest) = 0
    BY <2>1, <2>3, SumZero
  <2>11. Sum(pay, A) = Sum(pay, paid) + Sum(pay, rest)
    <3>1. \A a \in paid \cup rest : pay[a] \in Int
      BY <2>1, <2>2
    <3>2. Sum(pay, paid \cup rest) = Sum(pay, paid) + Sum(pay, rest)
      BY <2>1, <3>1, SumUnion
    <3> QED
      BY <2>1, <3>2
  <2>12. Sum(pay, paid) \in Int
    <3>1. \A a \in paid : pay[a] \in Int
      BY <2>1, <2>2
    <3> QED
      BY <2>1, <3>1, SumType
  <2>13. SumRows(rows) = Sum(pay, A) /\ Whole(rows)
    BY <2>7, <2>8, <2>9, <2>10, <2>11, <2>12 DEF Whole
  <2> QED
    BY <1>2, <2>13 DEF rows, pay
<1> QED
  BY <1>1, <1>2

RowsOf(m, A) == {r \in ledger : r.market = m /\ r.account \in A}
LatestOf(m, A) == {r \in Superseded(m) : r.account \in A}

(* A published market: its stakes are what its outcome was reached with,   *)
(* since none come after it; the rows of its latest revision are what that *)
(* outcome pays; and the rows of each account are worth the latest ones.   *)
MarketOK(m) ==
    /\ batch[m].revision \in Nat \ {0}
    /\ batch[m].outcome \in Outcomes
    /\ batch[m].outcome.state # "pending" => m \in locked
    /\ Decided(stakes[m], batch[m].outcome)
    /\ Superseded(m) = Settlements(m, batch[m].outcome, batch[m].revision)
    /\ \A A \in SUBSET Accounts : SumRows(RowsOf(m, A)) = SumRows(LatestOf(m, A))

Fresh(m) ==
    /\ batch[m] = [revision |-> 0, outcome |-> NoOutcome]
    /\ \A r \in ledger : r.market # m

MoneyInv ==
    /\ IsFiniteSet(ledger) /\ ledger \subseteq Rows
    /\ locked \subseteq published /\ voided \subseteq locked
    /\ dirty \in BOOLEAN
    /\ placed \in Nat
    /\ \A m \in Markets : StakesOK(stakes[m]) /\ stakes[m] = [a \in Accounts |-> stakes[m][a]]
    /\ \A m \in Markets \ published : Fresh(m)
    /\ \A m \in published : MarketOK(m)

(* The outcome of a market by the rows as they are *)
LEMMA OutcomeType ==
    ASSUME BettingInv, NEW m \in Markets, NEW void
    PROVE  /\ Outcome(m, void) \in Outcomes
           /\ Outcome(m, void).state \in {"pending", "settled", "refunded"}
           /\ Outcome(m, void).state = "pending" <=> ResolveBetFact(m, void).state = "pending"
           /\ Decided(stakes[m], Outcome(m, void))
<1> DEFINE fact == ResolveBetFact(m, void)
<1>1. m # MatchMarket => m.map \in Orders
  BY DEF Markets, MatchMarket
<1>2. score \in Scores /\ NoScore \in Scores /\ Nobody \notin Sides
  BY ResultsAssumption DEF BettingInv, ResultsInv, ResultsTypeOK, Scores, NoScore, Nobody, Sides
<1>3. /\ fact.state \in {"pending", "void", "confirmed"}
      /\ fact.winner \in Sides \cup {Nobody}
      /\ fact.score \in Scores
      /\ fact.state = "confirmed" => fact.winner \in Sides
  BY <1>1, <1>2 DEF ResolveBetFact, Fact, SeriesWinner, Sides, Scored
<1> HIDE DEF fact
<1>4. Outcome(m, void) =
         [state |-> IF fact.state = "pending" THEN "pending"
                    ELSE IF fact.state = "void" THEN "refunded"
                    ELSE IF Pool(stakes[m], fact.winner) \in {0, Total(stakes[m])} THEN "refunded" ELSE "settled",
          winner |-> fact.winner, score |-> fact.score]
  BY <1>3 DEF Outcome, fact
<1> QED
  BY <1>3, <1>4 DEF Outcomes, Decided, fact

(* What a reconciliation adds to the rows of one market *)
LEMMA LedgerOf ==
    ASSUME BettingInv, NEW appeal, NEW lock, NEW void, Reconcile(appeal, lock, void), NEW m \in Markets
    PROVE  {r \in ledger' : r.market = m} =
              {r \in ledger : r.market = m} \cup
              IF m \in published' /\ Changed(m, void)
              THEN {Reversal(r, NextRevision(m)) : r \in Superseded(m)}
                   \cup Settlements(m, Outcome(m, void), NextRevision(m))
              ELSE {}
<1> DEFINE due == {x \in published' : Changed(x, void)}
<1>1. published' = published \cup Publishable(appeal)
  BY DEF Reconcile
<1>2. ledger' = ledger \cup Reversals(due) \cup Payments(due, void)
  BY <1>1 DEF Reconcile
<1>3. due \subseteq Markets /\ \A x \in Markets : NextRevision(x) \in Nat
  BY <1>1, PublishableType DEF BettingInv, BookInv, NextRevision
<1> HIDE DEF due
<1>4. \A r \in Reversals(due) : \E x \in due : \E q \in Superseded(x) : r = Reversal(q, NextRevision(x))
  BY DEF Reversals
<1>5. \A x \in due : \A q \in Superseded(x) : Reversal(q, NextRevision(x)).market = x
  BY DEF Superseded, Reversal
<1>6. \A x \in due : \A r \in Settlements(x, Outcome(x, void), NextRevision(x)) : r.market = x
  BY <1>3, SettlementType
<1>7. \A r \in Payments(due, void) : \E x \in due : r \in Settlements(x, Outcome(x, void), NextRevision(x))
  BY DEF Payments
<1>8. m \in due => /\ {Reversal(r, NextRevision(m)) : r \in Superseded(m)} \subseteq Reversals(due)
                   /\ Settlements(m, Outcome(m, void), NextRevision(m)) \subseteq Payments(due, void)
  BY DEF Reversals, Payments
<1>9. {r \in Reversals(due) : r.market = m} =
          IF m \in due THEN {Reversal(r, NextRevision(m)) : r \in Superseded(m)} ELSE {}
  BY <1>4, <1>5, <1>8
<1>10. {r \in Payments(due, void) : r.market = m} =
          IF m \in due THEN Settlements(m, Outcome(m, void), NextRevision(m)) ELSE {}
  BY <1>6, <1>7, <1>8
<1>11. m \in due <=> m \in published' /\ Changed(m, void)
  BY DEF due
<1> QED
  BY <1>2, <1>9, <1>10, <1>11

(* The rows of a market are numbered up to its latest revision. *)
LEMMA RowsNumbered ==
    ASSUME BettingInv, NEW m \in Markets, NEW r \in ledger, r.market = m
    PROVE  /\ r.by <= batch[m].revision
           /\ r.by \in Nat /\ batch[m].revision \in Nat
           /\ r.kind = "settlement" => r.by = r.revision
BY DEF BettingInv, BookInv, HistoryReversed, IsRow

(* The rows that a revision of one market writes add up to what it pays,   *)
(* less what the revision before it paid.                                  *)
LEMMA RevisionAdds ==
    ASSUME BettingInv, MoneyInv, NEW m \in Markets, NEW o, o \in Outcomes, Decided(stakes[m], o),
           o.state \in {"pending", "settled", "refunded"}, NEW A \in SUBSET Accounts,
           SumRows(RowsOf(m, A)) = SumRows(LatestOf(m, A))
    PROVE  LET n == NextRevision(m)
               back == {Reversal(r, n) : r \in LatestOf(m, A)}
               paid == {r \in Settlements(m, o, n) : r.account \in A}
           IN  SumRows(RowsOf(m, A) \cup back \cup paid) = SumRows(paid)
<1> DEFINE n == NextRevision(m)
<1> DEFINE back == {Reversal(r, n) : r \in LatestOf(m, A)}
<1> DEFINE paid == {r \in Settlements(m, o, n) : r.account \in A}
<1>1. n \in Nat /\ batch[m].revision \in Nat /\ n = batch[m].revision + 1
  BY DEF NextRevision, BettingInv, BookInv
<1>2. Whole(ledger)
  BY DEF MoneyInv, Rows, Whole
<1>3. RowsOf(m, A) \subseteq ledger /\ LatestOf(m, A) \subseteq ledger
  BY DEF RowsOf, LatestOf, Superseded
<1>4. /\ Whole(RowsOf(m, A)) /\ Whole(LatestOf(m, A))
      /\ SumRows(RowsOf(m, A)) \in Int /\ SumRows(LatestOf(m, A)) \in Int
  BY <1>2, <1>3, RowsType
<1>5. Whole(back) /\ SumRows(back) = -SumRows(LatestOf(m, A))
  <2>1. \A r \in LatestOf(m, A) : IsRow(r)
    BY <1>3 DEF BettingInv, BookInv
  <2>2. \A r \in LatestOf(m, A) : r.kind = "settlement" /\ r.by = batch[m].revision
    BY RowsNumbered DEF LatestOf, Superseded
  <2>3. \A r, q \in LatestOf(m, A) : r.kind = q.kind /\ r.by = q.by
    BY <2>2
  <2> QED
    BY <1>4, <2>1, <2>3, RowsReversed
<1>6. Whole(paid)
  <2>1. StakesOK(stakes[m])
    BY DEF MoneyInv
  <2> QED
    BY <2>1, RowsPaid
<1>7. SumRows(paid) \in Int
  BY <1>6, RowsType
<1>8. \A r \in RowsOf(m, A) : r.by <= batch[m].revision /\ r.by \in Nat
  BY RowsNumbered DEF RowsOf
<1>9. \A r \in back : r.by = n /\ r.kind = "reversal"
  BY DEF Reversal
<1>10. \A r \in paid : r.by = n /\ r.kind = "settlement"
  BY <1>1, SettlementType
<1> HIDE DEF n, back, paid
<1>11. RowsOf(m, A) \cap back = {} /\ (RowsOf(m, A) \cup back) \cap paid = {}
  BY <1>1, <1>8, <1>9, <1>10
<1>12. /\ Whole(RowsOf(m, A) \cup back)
       /\ SumRows(RowsOf(m, A) \cup back) = SumRows(RowsOf(m, A)) + SumRows(back)
  BY <1>4, <1>5, <1>11, RowsUnion
<1>13. SumRows((RowsOf(m, A) \cup back) \cup paid) = SumRows(RowsOf(m, A) \cup back) + SumRows(paid)
  BY <1>6, <1>11, <1>12, RowsUnion
<1>14. SumRows((RowsOf(m, A) \cup back) \cup paid) = SumRows(paid)
  BY <1>4, <1>5, <1>7, <1>12, <1>13
<1> QED
  BY <1>14 DEF n, back, paid

(* A market that is due: its new revision reverses the old rows and pays. *)
LEMMA DueReconciled ==
    ASSUME BettingInv, MoneyInv, NEW appeal, NEW lock, NEW void, Reconcile(appeal, lock, void),
           NEW m \in published', Changed(m, void), m \in Markets,
           \A A \in SUBSET Accounts : SumRows(RowsOf(m, A)) = SumRows(LatestOf(m, A))
    PROVE  /\ batch'[m] = [revision |-> NextRevision(m), outcome |-> Outcome(m, void)]
           /\ Superseded(m)' = Settlements(m, Outcome(m, void), NextRevision(m))
           /\ \A A \in SUBSET Accounts : SumRows(RowsOf(m, A)') = SumRows(LatestOf(m, A)')
<1> DEFINE n == NextRevision(m)
<1> DEFINE o == Outcome(m, void)
<1> DEFINE back(A) == {Reversal(r, n) : r \in LatestOf(m, A)}
<1> DEFINE paid(A) == {r \in Settlements(m, o, n) : r.account \in A}
<1>1. batch'[m] = [revision |-> n, outcome |-> o]
  BY DEF Reconcile
<1>2. {r \in ledger' : r.market = m} = {r \in ledger : r.market = m}
          \cup {Reversal(r, n) : r \in Superseded(m)} \cup Settlements(m, o, n)
  BY LedgerOf
<1>3. n \in Nat /\ batch[m].revision \in Nat /\ n = batch[m].revision + 1
  BY DEF NextRevision, BettingInv, BookInv
<1>4. \A r \in Settlements(m, o, n) : r.market = m /\ r.kind = "settlement" /\ r.revision = n
  BY <1>3, SettlementType
<1>5. \A r \in ledger : r.market = m /\ r.kind = "settlement" =>
          r.revision \in Nat /\ r.revision <= batch[m].revision
  BY RowsNumbered
<1>6. \A r : Reversal(r, n).kind = "reversal" /\ Reversal(r, n).account = r.account
  BY DEF Reversal
<1>7. Superseded(m)' = Settlements(m, o, n)
  <2>1. Superseded(m)' = {r \in {x \in ledger' : x.market = m} : r.kind = "settlement" /\ r.revision = n}
    BY <1>1 DEF Superseded
  <2> HIDE DEF n, o
  <2> QED
    BY <1>2, <1>3, <1>4, <1>5, <1>6, <2>1
<1>8. ASSUME NEW A \in SUBSET Accounts
      PROVE  SumRows(RowsOf(m, A)') = SumRows(LatestOf(m, A)')
  <2>1. RowsOf(m, A)' = {r \in {x \in ledger' : x.market = m} : r.account \in A}
    BY DEF RowsOf
  <2>2. {Reversal(r, n) : r \in LatestOf(m, A)} =
           {x \in {Reversal(r, n) : r \in Superseded(m)} : x.account \in A}
    BY <1>6 DEF LatestOf
  <2>3. RowsOf(m, A)' = RowsOf(m, A) \cup back(A) \cup paid(A)
    <3> HIDE DEF n, o
    <3> QED
      BY <1>2, <2>1, <2>2 DEF RowsOf
  <2>4. LatestOf(m, A)' = paid(A)
    BY <1>7 DEF LatestOf
  <2>5. /\ o \in Outcomes /\ Decided(stakes[m], o)
        /\ o.state \in {"pending", "settled", "refunded"}
    BY OutcomeType
  <2>6. SumRows(RowsOf(m, A) \cup back(A) \cup paid(A)) = SumRows(paid(A))
    <3> HIDE DEF o
    <3> QED
      BY <2>5, RevisionAdds
  <2> HIDE DEF back, paid
  <2> QED
    BY <2>3, <2>4, <2>6
<1> QED
  BY <1>1, <1>7, <1>8

(* A market that is not due keeps its rows. *)
LEMMA NotDueReconciled ==
    ASSUME BettingInv, NEW appeal, NEW lock, NEW void, Reconcile(appeal, lock, void),
           NEW m \in Markets, ~(m \in published' /\ Changed(m, void))
    PROVE  /\ batch'[m] = batch[m]
           /\ {r \in ledger' : r.market = m} = {r \in ledger : r.market = m}
           /\ Superseded(m)' = Superseded(m)
           /\ \A A : RowsOf(m, A)' = RowsOf(m, A) /\ LatestOf(m, A)' = LatestOf(m, A)
<1>1. batch'[m] = batch[m]
  BY DEF Reconcile
<1>2. {r \in ledger' : r.market = m} = {r \in ledger : r.market = m}
  BY LedgerOf
<1>3. Superseded(m)' = Superseded(m)
  <2>1. Superseded(m)' = {r \in {x \in ledger' : x.market = m} :
                             r.kind = "settlement" /\ r.revision = batch[m].revision}
    BY <1>1 DEF Superseded
  <2> QED
    BY <1>2, <2>1 DEF Superseded
<1>4. ASSUME NEW A PROVE RowsOf(m, A)' = RowsOf(m, A) /\ LatestOf(m, A)' = LatestOf(m, A)
  <2>1. RowsOf(m, A)' = {r \in {x \in ledger' : x.market = m} : r.account \in A}
    BY DEF RowsOf
  <2>2. RowsOf(m, A)' = RowsOf(m, A)
    BY <1>2, <2>1 DEF RowsOf
  <2> QED
    BY <1>3, <2>2 DEF LatestOf
<1> QED
  BY <1>1, <1>2, <1>3, <1>4

(* The rows of a market nobody has published yet *)
LEMMA FreshRows ==
    ASSUME NEW m \in Markets, Fresh(m)
    PROVE  /\ Superseded(m) = {}
           /\ \A A : SumRows(RowsOf(m, A)) = SumRows(LatestOf(m, A))
<1>1. Superseded(m) = {} /\ \A A : RowsOf(m, A) = {} /\ LatestOf(m, A) = {}
  BY DEF Fresh, Superseded, RowsOf, LatestOf
<1> QED
  BY <1>1

(* After a reconciliation, every published market is in order. *)
LEMMA MarketReconciled ==
    ASSUME BettingInv, MoneyInv, NEW appeal, NEW lock, NEW void, Reconcile(appeal, lock, void),
           locked \subseteq lock, NEW m \in published'
    PROVE  MarketOK(m)'
<1>1. published' = published \cup Publishable(appeal) /\ stakes' = stakes
  BY DEF Reconcile
<1>2. m \in Markets
  BY <1>1, PublishableType DEF BettingInv, BookInv
<1>3. \A A \in SUBSET Accounts : SumRows(RowsOf(m, A)) = SumRows(LatestOf(m, A))
  BY <1>2, FreshRows DEF MoneyInv, MarketOK
<1>4. batch[m].revision \in Nat
  BY <1>2 DEF BettingInv, BookInv
<1>5. locked' = lock \cup {x \in published' : \/ MarketIsLocked(x, void)
                                              \/ ResolveBetFact(x, void).state # "pending"}
  BY <1>1 DEF Reconcile
<1>6. CASE Changed(m, void)
  <2>1. /\ batch'[m] = [revision |-> NextRevision(m), outcome |-> Outcome(m, void)]
        /\ Superseded(m)' = Settlements(m, Outcome(m, void), NextRevision(m))
        /\ \A A \in SUBSET Accounts : SumRows(RowsOf(m, A)') = SumRows(LatestOf(m, A)')
    BY <1>2, <1>3, <1>6, DueReconciled
  <2>2. /\ Outcome(m, void) \in Outcomes
        /\ Outcome(m, void).state = "pending" <=> ResolveBetFact(m, void).state = "pending"
        /\ Decided(stakes[m], Outcome(m, void))
    BY <1>2, OutcomeType
  <2>3. NextRevision(m) \in Nat \ {0}
    BY <1>4 DEF NextRevision
  <2>4. /\ batch'[m].revision = NextRevision(m) /\ batch'[m].outcome = Outcome(m, void)
    BY <2>1
  <2>5. Superseded(m)' = Settlements(m, batch[m].outcome, batch[m].revision)'
    BY <1>1, <2>1, <2>4 DEF Settlements, Stakers
  <2>6. (Decided(stakes[m], batch[m].outcome))'
    BY <1>1, <2>2, <2>4
  <2>7. batch'[m].outcome.state # "pending" => m \in locked'
    BY <1>5, <2>2, <2>4
  <2>8. \A A \in SUBSET Accounts : (SumRows(RowsOf(m, A)) = SumRows(LatestOf(m, A)))'
    BY <2>1 DEF SumRows
  <2> QED
    BY <2>2, <2>3, <2>4, <2>5, <2>6, <2>7, <2>8 DEF MarketOK
<1>7. CASE ~Changed(m, void)
  <2>1. m \in published
    <3>1. Outcome(m, void).state # "none"
      BY <1>2, OutcomeType
    <3>2. Outcome(m, void) # NoOutcome
      BY <3>1 DEF NoOutcome
    <3> QED
      BY <1>2, <1>7, <3>2 DEF MoneyInv, Fresh, Changed
  <2>2. MarketOK(m)
    BY <2>1 DEF MoneyInv
  <2>3. /\ batch'[m] = batch[m] /\ Superseded(m)' = Superseded(m)
        /\ \A A : RowsOf(m, A)' = RowsOf(m, A) /\ LatestOf(m, A)' = LatestOf(m, A)
    BY <1>2, <1>7, NotDueReconciled
  <2>4. Superseded(m)' = Settlements(m, batch[m].outcome, batch[m].revision)'
    BY <1>1, <2>2, <2>3 DEF Settlements, Stakers, MarketOK
  <2>5. (Decided(stakes[m], batch[m].outcome))'
    BY <1>1, <2>2, <2>3 DEF MarketOK
  <2>6. batch'[m].outcome.state # "pending" => m \in locked'
    BY <1>5, <2>2, <2>3 DEF MarketOK
  <2>7. \A A \in SUBSET Accounts : (SumRows(RowsOf(m, A)) = SumRows(LatestOf(m, A)))'
    BY <1>3, <2>3 DEF SumRows
  <2> QED
    BY <2>2, <2>3, <2>4, <2>5, <2>6, <2>7 DEF MarketOK
<1> QED
  BY <1>6, <1>7

(* The values of a function on a finite set are finitely many. *)
LEMMA ValuesFinite ==
    ASSUME NEW S, IsFiniteSet(S), NEW f
    PROVE  IsFiniteSet({f[x] : x \in S})
<1> DEFINE T == {f[x] : x \in S}
<1> DEFINE g == [x \in S |-> f[x]]
<1>1. g \in [S -> T] /\ \A y \in T : \E x \in S : g[x] = y
  OBVIOUS
<1> HIDE DEF g, T
<1>2. g \in Surjection(S, T)
  BY <1>1, Fun_IsSurj
<1>3. IsFiniteSet(T)
  BY <1>2, FS_Surjection
<1> QED
  BY <1>3 DEF T

(* Finitely many finite sets have finitely many elements. *)
LEMMA FamilyFinite ==
    ASSUME NEW S, IsFiniteSet(S), NEW f, \A x \in S : IsFiniteSet(f[x])
    PROVE  IsFiniteSet(UNION {f[x] : x \in S})
<1> DEFINE T == {f[x] : x \in S}
<1>1. IsFiniteSet(T)
  BY ValuesFinite
<1>2. \A t \in T : IsFiniteSet(t)
  OBVIOUS
<1> HIDE DEF T
<1>3. IsFiniteSet(UNION T)
  BY <1>1, <1>2, FS_UNION
<1> QED
  BY <1>3 DEF T

(* An event has finitely many markets on a match. *)
LEMMA MarketsFinite == IsFiniteSet(Markets)
<1> DEFINE P == Orders \X (1..MaxPlans)
<1> DEFINE M == [map : Orders, plan : 1..MaxPlans]
<1> DEFINE f == [p \in P |-> [map |-> p[1], plan |-> p[2]]]
<1>1. IsFiniteSet(Orders) /\ IsFiniteSet(1..MaxPlans)
  BY ResultsAssumption, FS_Interval DEF Orders
<1>2. IsFiniteSet(P)
  BY <1>1, FS_Product
<1>3. M = {f[p] : p \in P}
  <2>1. ASSUME NEW m \in M PROVE \E p \in P : f[p] = m
    <3>1. <<m.map, m.plan>> \in P /\ f[<<m.map, m.plan>>] = [map |-> m.map, plan |-> m.plan]
      OBVIOUS
    <3>2. m = [map |-> m.map, plan |-> m.plan]
      OBVIOUS
    <3> QED
      BY <3>1, <3>2
  <2>2. \A p \in P : f[p] \in M
    OBVIOUS
  <2> QED
    BY <2>1, <2>2
<1> HIDE DEF f, P, M
<1>4. IsFiniteSet(M)
  BY <1>2, <1>3, ValuesFinite
<1>5. IsFiniteSet({MatchMarket} \cup M)
  BY <1>4, FS_Singleton, FS_Union
<1> QED
  BY <1>5 DEF Markets, M

(* Finitely many rows of their types are written. *)
LEMMA LedgerReconciled ==
    ASSUME BettingInv, MoneyInv, NEW appeal, NEW lock, NEW void, Reconcile(appeal, lock, void)
    PROVE  IsFiniteSet(ledger') /\ ledger' \subseteq Rows
<1> DEFINE due == {x \in published' : Changed(x, void)}
<1> DEFINE back == [m \in due |-> {Reversal(r, NextRevision(m)) : r \in Superseded(m)}]
<1> DEFINE paid == [m \in due |-> Settlements(m, Outcome(m, void), NextRevision(m))]
<1>1. published' = published \cup Publishable(appeal)
  BY DEF Reconcile
<1>2. ledger' = ledger \cup Reversals(due) \cup Payments(due, void)
  BY <1>1 DEF Reconcile
<1>3. due \subseteq Markets /\ \A x \in Markets : NextRevision(x) \in Nat
  BY <1>1, PublishableType DEF BettingInv, BookInv, NextRevision
<1>4. IsFiniteSet(due)
  BY <1>3, MarketsFinite, FS_Subset
<1>5. ASSUME NEW m \in due PROVE IsFiniteSet(back[m]) /\ back[m] \subseteq Rows
  <2> DEFINE g == [r \in Superseded(m) |-> Reversal(r, NextRevision(m))]
  <2>1. Superseded(m) \subseteq ledger /\ IsFiniteSet(Superseded(m))
    BY FS_Subset DEF Superseded, MoneyInv
  <2>2. back[m] = {g[r] : r \in Superseded(m)}
    OBVIOUS
  <2>3. IsFiniteSet({g[r] : r \in Superseded(m)})
    <3> HIDE DEF g
    <3> QED
      BY <2>1, ValuesFinite
  <2>4. \A r \in Superseded(m) : Reversal(r, NextRevision(m)) \in Rows
    BY <1>3, <2>1 DEF MoneyInv, Rows, Reversal
  <2> QED
    BY <2>2, <2>3, <2>4
<1>6. ASSUME NEW m \in due PROVE IsFiniteSet(paid[m]) /\ paid[m] \subseteq Rows
  <2> DEFINE o == Outcome(m, void)
  <2> DEFINE n == NextRevision(m)
  <2> DEFINE g == [a \in Stakers(m) |->
                     [account |-> a, market |-> m, kind |-> "settlement", revision |-> n, by |-> n,
                      amount |-> Payout(stakes[m], o, a)]]
  <2>1. /\ o.state \in {"pending", "settled", "refunded"} /\ Decided(stakes[m], o)
        /\ StakesOK(stakes[m]) /\ n \in Nat /\ m \in Markets
    BY <1>3, OutcomeType DEF MoneyInv
  <2>2. paid[m] = Settlements(m, o, n)
    OBVIOUS
  <2>3. CASE o.state = "pending"
    <3>1. Settlements(m, o, n) = {}
      BY <2>3 DEF Settlements
    <3> HIDE DEF o, n, paid
    <3> QED
      BY <2>2, <3>1, FS_EmptySet
  <2>4. CASE o.state # "pending"
    <3>1. Settlements(m, o, n) = {g[a] : a \in Stakers(m)}
      BY <2>4 DEF Settlements
    <3>2. Stakers(m) \subseteq Accounts /\ IsFiniteSet(Stakers(m))
      BY AccountsFinite DEF Stakers
    <3> HIDE DEF o, n
    <3>3. \A a \in Accounts : Payout(stakes[m], o, a) \in Nat
      BY <2>1, <2>4, PaidOut
    <3>4. \A a \in Stakers(m) : g[a] \in Rows
      BY <2>1, <3>2, <3>3 DEF Rows
    <3> HIDE DEF g, paid
    <3> QED
      BY <2>2, <3>1, <3>2, <3>4, ValuesFinite
  <2> QED
    BY <2>3, <2>4
<1>7. Reversals(due) = UNION {back[m] : m \in due} /\ Payments(due, void) = UNION {paid[m] : m \in due}
  BY DEF Reversals, Payments
<1> HIDE DEF due, back, paid
<1>8. IsFiniteSet(Reversals(due)) /\ IsFiniteSet(Payments(due, void))
  BY <1>4, <1>5, <1>6, <1>7, FamilyFinite
<1>9. Reversals(due) \subseteq Rows /\ Payments(due, void) \subseteq Rows
  BY <1>5, <1>6, <1>7
<1>10. IsFiniteSet(ledger \cup Reversals(due)) /\ IsFiniteSet((ledger \cup Reversals(due)) \cup Payments(due, void))
  BY <1>8, FS_Union DEF MoneyInv
<1> QED
  BY <1>2, <1>9, <1>10 DEF MoneyInv

(* The same rows and stakes are as much in order with more pools locked. *)
LEMMA MoneyKept ==
    ASSUME BettingInv, MoneyInv, UNCHANGED <<published, stakes, batch, ledger>>, locked \subseteq locked',
           locked' \subseteq published, voided' \subseteq locked', dirty' \in BOOLEAN, placed' \in Nat
    PROVE  MoneyInv'
<1>1. ASSUME NEW m \in published PROVE MarketOK(m)'
  <2>1. MarketOK(m)
    BY DEF MoneyInv
  <2>2. Superseded(m)' = Superseded(m)
    BY DEF Superseded
  <2>3. Settlements(m, batch[m].outcome, batch[m].revision)'
           = Settlements(m, batch[m].outcome, batch[m].revision)
    BY DEF Settlements, Stakers
  <2>4. ASSUME NEW A \in SUBSET Accounts PROVE (SumRows(RowsOf(m, A)) = SumRows(LatestOf(m, A)))'
    <3>1. RowsOf(m, A)' = RowsOf(m, A) /\ LatestOf(m, A)' = LatestOf(m, A)
      BY <2>2 DEF RowsOf, LatestOf
    <3>2. SumRows(RowsOf(m, A)) = SumRows(LatestOf(m, A))
      BY <2>1 DEF MarketOK
    <3> QED
      BY <3>1, <3>2
  <2> QED
    BY <2>1, <2>2, <2>3, <2>4 DEF MarketOK
<1>2. \A m \in Markets \ published : Fresh(m)'
  BY DEF MoneyInv, Fresh
<1>3. \A m \in Markets : (StakesOK(stakes[m]))' /\ (stakes[m] = [a \in Accounts |-> stakes[m][a]])'
  BY DEF MoneyInv
<1>4. Markets' = Markets
  BY DEF Markets, Orders, MatchMarket
<1>5. (IsFiniteSet(ledger) /\ ledger \subseteq Rows)'
  BY DEF MoneyInv, Rows, Markets, Orders, MatchMarket
<1> QED
  BY <1>1, <1>2, <1>3, <1>4, <1>5 DEF MoneyInv

(* A reconciliation leaves the books in order. *)
LEMMA MoneyReconcile ==
    ASSUME BettingInv, MoneyInv, NEW appeal, NEW lock, NEW void, Reconcile(appeal, lock, void),
           locked \subseteq lock, lock \subseteq published, void \subseteq lock
    PROVE  MoneyInv'
<1>1. /\ published' = published \cup Publishable(appeal) /\ stakes' = stakes
      /\ dirty' = FALSE /\ placed' = placed
      /\ voided' = void \cup {x \in published' : ResolveBetFact(x, void).state = "void"}
      /\ locked' = lock \cup {x \in published' : \/ MarketIsLocked(x, void)
                                                 \/ ResolveBetFact(x, void).state # "pending"}
  BY DEF Reconcile
<1>2. published \subseteq published' /\ published' \subseteq Markets
  BY <1>1, PublishableType DEF BettingInv, BookInv
<1>3. locked' \subseteq published' /\ voided' \subseteq locked'
  BY <1>1, <1>2
<1>4. \A m \in published' : MarketOK(m)'
  BY MarketReconciled
<1>5. ASSUME NEW m \in Markets \ published' PROVE Fresh(m)'
  <2>1. Fresh(m)
    BY <1>2 DEF MoneyInv
  <2>2. batch'[m] = batch[m] /\ {r \in ledger' : r.market = m} = {r \in ledger : r.market = m}
    BY NotDueReconciled
  <2>3. \A r \in ledger : r.market # m
    BY <2>1 DEF Fresh
  <2>4. \A r \in ledger' : r.market # m
    BY <2>2, <2>3
  <2> QED
    BY <2>1, <2>2, <2>4 DEF Fresh
<1>6. IsFiniteSet(ledger') /\ ledger' \subseteq Rows
  BY LedgerReconciled
<1>7. Rows' = Rows /\ Markets' = Markets
  BY DEF Rows, Markets, Orders, MatchMarket
<1>8. \A m \in Markets : (StakesOK(stakes[m]))' /\ (stakes[m] = [a \in Accounts |-> stakes[m][a]])'
  BY <1>1 DEF MoneyInv
<1>9. dirty' \in BOOLEAN /\ placed' \in Nat
  BY <1>1 DEF MoneyInv
<1> QED
  BY <1>3, <1>4, <1>5, <1>6, <1>7, <1>8, <1>9 DEF MoneyInv

(* What an account has to spend is a whole number of points. *)
LEMMA BalanceType ==
    ASSUME MoneyInv, NEW a \in Accounts
    PROVE  Balance(a) \in Int
<1> DEFINE g == [m \in Markets |-> Amount(m, a)]
<1> DEFINE mine == {r \in ledger : r.account = a}
<1>1. \A m \in Markets : g[m] \in Int
  <2>1. \A m \in Markets : StakeOK(stakes[m][a])
    BY DEF MoneyInv, StakesOK
  <2>2. \A m \in Markets : stakes[m][a].amount \in Int
    BY <2>1 DEF StakeOK, NoStake
  <2> QED
    BY <2>2 DEF Amount
<1>2. SumFunction(g) = Sum(g, Markets)
  BY SumIs
<1>3. Sum(g, Markets) \in Int
  <2> HIDE DEF g
  <2> QED
    BY <1>1, MarketsFinite, SumType
<1>4. Whole(ledger)
  BY DEF MoneyInv, Rows, Whole
<1>5. SumRows(mine) \in Int
  <2>1. Whole(mine)
    BY <1>4, RowsType
  <2> HIDE DEF mine
  <2> QED
    BY <2>1, RowsType
<1>6. Balance(a) = Initial - SumFunction(g) + SumRows(mine)
  BY DEF Balance
<1>7. Initial \in Nat
  BY BettingAssumption
<1> HIDE DEF g, mine
<1> QED
  BY <1>2, <1>3, <1>5, <1>6, <1>7

(* A stake is of points, and of a market that has nothing to pay yet. *)
LEMMA MoneyStake ==
    ASSUME BettingInv, MoneyInv, NEW a \in Accounts, NEW m \in Markets, NEW s \in Sides, Stake(a, m, s)
    PROVE  MoneyInv'
<1>1. PICK n \in {1, Balance(a)} :
         /\ CanAfford(a, n)
         /\ stakes' = [stakes EXCEPT ![m][a] = [side |-> s, amount |-> stakes[m][a].amount + n]]
  BY DEF Stake
<1>2. n \in Nat \ {0}
  BY <1>1, BalanceType DEF CanAfford
<1>3. UNCHANGED <<published, locked, voided, batch, ledger, dirty>> /\ placed' = placed + 1
  BY DEF Stake
<1>4. m \in published /\ m \notin locked
  BY DEF Stake, Admits
<1>5. /\ stakes[m][a].amount \in Nat
      /\ \A x \in Markets : stakes[x] = [b \in Accounts |-> stakes[x][b]]
      /\ stakes = [x \in Markets |-> stakes[x]]
  BY DEF MoneyInv, StakesOK, StakeOK, NoStake, BettingInv, BookInv
<1>6. /\ \A x \in Markets : x # m => stakes'[x] = stakes[x]
      /\ stakes'[m] = [stakes[m] EXCEPT ![a] = [side |-> s, amount |-> stakes[m][a].amount + n]]
  BY <1>1, <1>5
<1>7. /\ stakes'[m] = [b \in Accounts |-> stakes'[m][b]]
      /\ \A b \in Accounts : b # a => stakes'[m][b] = stakes[m][b]
      /\ stakes'[m][a] = [side |-> s, amount |-> stakes[m][a].amount + n]
  BY <1>5, <1>6
<1>8. StakeOK(stakes'[m][a])
  BY <1>2, <1>5, <1>7 DEF StakeOK
<1>9. \A x \in Markets : StakesOK(stakes'[x]) /\ stakes'[x] = [b \in Accounts |-> stakes'[x][b]]
  BY <1>5, <1>6, <1>7, <1>8 DEF MoneyInv, StakesOK
<1>10. ASSUME NEW x \in published PROVE MarketOK(x)'
  <2>1. MarketOK(x) /\ x \in Markets
    BY DEF MoneyInv, BettingInv, BookInv
  <2>2. Superseded(x)' = Superseded(x)
    BY <1>3 DEF Superseded
  <2>3. Settlements(x, batch[x].outcome, batch[x].revision)'
           = Settlements(x, batch[x].outcome, batch[x].revision)
    <3>1. CASE x = m
      <4>1. batch[x].outcome.state = "pending"
        BY <1>4, <2>1, <3>1 DEF MarketOK
      <4> QED
        BY <1>3, <4>1 DEF Settlements
    <3>2. CASE x # m
      BY <1>3, <1>6, <2>1, <3>2 DEF Settlements, Stakers
    <3> QED
      BY <3>1, <3>2
  <2>4. (Decided(stakes[x], batch[x].outcome))'
    <3>1. CASE x = m
      <4>1. batch[x].outcome.state = "pending"
        BY <1>4, <2>1, <3>1 DEF MarketOK
      <4> QED
        BY <1>3, <4>1 DEF Decided
    <3>2. CASE x # m
      BY <1>3, <1>6, <2>1, <3>2 DEF MarketOK
    <3> QED
      BY <3>1, <3>2
  <2>5. ASSUME NEW A \in SUBSET Accounts PROVE (SumRows(RowsOf(x, A)) = SumRows(LatestOf(x, A)))'
    <3>1. RowsOf(x, A)' = RowsOf(x, A) /\ LatestOf(x, A)' = LatestOf(x, A)
      BY <1>3, <2>2 DEF RowsOf, LatestOf
    <3>2. SumRows(RowsOf(x, A)) = SumRows(LatestOf(x, A))
      BY <2>1 DEF MarketOK
    <3> QED
      BY <3>1, <3>2
  <2> QED
    BY <1>3, <2>1, <2>2, <2>3, <2>4, <2>5 DEF MarketOK
<1>11. \A x \in Markets \ published : Fresh(x)'
  BY <1>3 DEF MoneyInv, Fresh
<1>12. Rows' = Rows /\ Markets' = Markets
  BY DEF Rows, Markets, Orders, MatchMarket
<1> QED
  BY <1>3, <1>9, <1>10, <1>11, <1>12 DEF MoneyInv

(* Nobody has staked or been paid when the match is created. *)
LEMMA MoneyStart == BettingInit => MoneyInv
BY FS_EmptySet DEF BettingInit, MoneyInv, Fresh, StakesOK, StakeOK, NoStake

(* Every step keeps the books in order. *)
LEMMA MoneyStep == BettingInv /\ MoneyInv /\ [BettingNext]_vars => MoneyInv'
<1> SUFFICES ASSUME BettingInv, MoneyInv, [BettingNext]_vars PROVE MoneyInv'
  OBVIOUS
<1>1. CASE Official
  <2>1. locked \subseteq locked' /\ locked' \subseteq published /\ voided' \subseteq locked'
    BY <1>1 DEF Official, MoneyInv
  <2> QED
    BY <1>1, <2>1, MoneyKept DEF Official, Marked, MoneyInv
<1>2. CASE OfficialElsewhere
  BY <1>2, MoneyKept DEF OfficialElsewhere, MoneyInv
<1>3. CASE Job
  BY <1>3, MoneyReconcile DEF Job, MoneyInv
<1>4. ASSUME NEW m \in Markets, Close(m) \/ Void(m) PROVE MoneyInv'
  BY <1>4, MoneyReconcile DEF Close, Void, MoneyInv
<1>5. ASSUME NEW w \in Wagers, NEW m \in Markets, Stake(w.account, m, w.side) PROVE MoneyInv'
  BY <1>5, MoneyStake, BettingAssumption
<1>6. CASE UNCHANGED vars
  BY <1>6, MoneyKept DEF vars, betVars, MoneyInv
<1> QED
  BY <1>1, <1>2, <1>3, <1>4, <1>5, <1>6 DEF BettingNext

(* The books are in order in every behaviour. *)
LEMMA MoneyInvariant == BettingSpec => []MoneyInv
BY MoneyStart, MoneyStep, BettingInvariant, PTL DEF BettingSpec

-----------------------------------------------------------------------------
(* Theorems *)

(* Betting composes with the result of the match and changes nothing of    *)
(* it: every behaviour of the two is a behaviour of the match alone.       *)
THEOREM BettingKeepsResults == BettingSpec => ResultsSpec
<1>1. BettingInit => ResultsInit
  BY DEF BettingInit
<1> QED
  BY <1>1, ResultsOfBetting, PTL DEF BettingSpec, ResultsSpec

(* For any accounts, wagers and number of corrections, every superseded    *)
(* settlement row is reversed exactly by the next revision.                *)
THEOREM HistoryAlwaysReversed == BettingSpec => []HistoryReversed
<1>1. BettingInv => HistoryReversed
  BY DEF BettingInv
<1> QED
  BY <1>1, BettingInvariant, PTL

(* The score of a legal result names its winner. *)
LEMMA WinnerScoredMore ==
    ASSUME NEW sc \in Scores, LegalScore(sc)
    PROVE  SeriesWinner(sc) \in Sides /\ sc[SeriesWinner(sc)] > sc[OtherSide(SeriesWinner(sc))]
BY ThresholdType, ResultsAssumption DEF Scores, LegalScore, SeriesWinner, Sides, OtherSide

(* A program that is not dirty owes nothing and has settled every market   *)
(* by the result as it is, for any accounts, wagers and corrections.       *)
THEOREM CleanAlwaysPaid == BettingSpec => []CleanMeansPaid
<1>1. BettingInv => CleanMeansPaid
  <2> SUFFICES ASSUME BettingInv, ~dirty, NEW m \in published
               PROVE  /\ status \in {"finished", "cancelled", "deleted"} \/ forfeit =>
                            batch[m].outcome.state # "pending"
                      /\ batch[m].outcome.state = "settled" =>
                            IF m = MatchMarket
                            THEN /\ status = "finished" /\ ~forfeit
                                 /\ score[batch[m].outcome.winner]
                                       > score[OtherSide(batch[m].outcome.winner)]
                            ELSE maps[m.map].winner = batch[m].outcome.winner
    BY DEF CleanMeansPaid
  <2> DEFINE fact == ResolveBetFact(m, voided)
  <2>1. batch[m].outcome = Outcome(m, voided)
    BY DEF BettingInv, CleanInv
  <2>2. /\ batch[m].outcome.winner = fact.winner
        /\ batch[m].outcome.state = "settled" => fact.state = "confirmed"
        /\ batch[m].outcome.state = "pending" => fact.state = "pending"
    <3>1. fact.state \in {"pending", "void", "confirmed"}
      BY DEF ResolveBetFact, Fact
    <3> QED
      BY <2>1, <3>1 DEF Outcome
  <2>3. status \in {"finished", "cancelled", "deleted"} \/ forfeit => fact.state # "pending"
    BY DEF ResolveBetFact, Fact, SubjectMatches
  <2>4. ASSUME fact.state = "confirmed", m = MatchMarket
        PROVE  /\ status = "finished" /\ ~forfeit
               /\ score[fact.winner] > score[OtherSide(fact.winner)]
    <3>1. status = "finished" /\ ~forfeit /\ fact.winner = SeriesWinner(score)
      BY <2>4 DEF ResolveBetFact, Fact
    <3>2. score \in Scores /\ LegalScore(score)
      BY <3>1 DEF BettingInv, ResultsInv, ResultsTypeOK, SeriesFollowsMaps
    <3> QED
      BY <3>1, <3>2, WinnerScoredMore
  <2>5. ASSUME fact.state = "confirmed", m # MatchMarket
        PROVE  maps[m.map].winner = fact.winner
    BY <2>5 DEF ResolveBetFact, Fact
  <2> HIDE DEF fact
  <2> QED
    BY <2>2, <2>3, <2>4, <2>5
<1> QED
  BY <1>1, BettingInvariant, PTL

(* No stake reaches a market once what it is about is known to have begun, *)
(* whenever the markets were published and the job last ran.               *)
THEOREM StakesAlwaysStopAtStart == BettingSpec => StakesStopAtStart
<1> DEFINE Stopped ==
        \A m \in Markets : stakes'[m] # stakes[m] =>
          /\ status \in {"scheduled", "in_progress"} /\ ~forfeit
          /\ m.map \in {0, 1} =>
                ~gameplay /\ \A k \in Orders : ~maps[k].started /\ maps[k].winner = Nobody
          /\ m.map # 0 =>
                /\ ~maps[m.map].started /\ maps[m.map].winner = Nobody
                /\ \A s \in Sides :
                      Cardinality({k \in Orders : maps[k].winner = s}) < MaxMaps \div 2 + 1
<1>1. BettingInv /\ [BettingNext]_vars => [Stopped]_vars
  <2> SUFFICES ASSUME BettingInv, BettingNext, NEW m \in Markets, stakes'[m] # stakes[m]
               PROVE  /\ status \in {"scheduled", "in_progress"} /\ ~forfeit
                      /\ m.map \in {0, 1} =>
                            /\ ~gameplay
                            /\ \A k \in Orders : ~maps[k].started /\ maps[k].winner = Nobody
                      /\ m.map # 0 =>
                            /\ ~maps[m.map].started /\ maps[m.map].winner = Nobody
                            /\ \A s \in Sides :
                                  Cardinality({k \in Orders : maps[k].winner = s})
                                    < MaxMaps \div 2 + 1
    OBVIOUS
  <2>1. PICK w \in Wagers, x \in Markets : Stake(w.account, x, w.side)
    BY DEF BettingNext, Official, OfficialElsewhere, Job, Close, Void, Reconcile
  <2>2. x = m
    BY <2>1 DEF Stake, BettingInv, BookInv
  <2>3. ~MarketIsLocked(m, voided)
    BY <2>1, <2>2 DEF Stake, Admits
  <2>4. ResultsTypeOK
    BY DEF BettingInv, ResultsInv
  <2>5. \A k \in Orders : ~Scored(k) => maps[k].winner = Nobody
    BY <2>4 DEF ResultsTypeOK, MapRows, Scored, Nobody
  <2>6. status \in {"scheduled", "in_progress"} /\ ~forfeit
    BY <2>3, <2>4 DEF MarketIsLocked, Over, ResultsTypeOK
  <2>7. ASSUME m.map \in {0, 1}
        PROVE  ~gameplay /\ \A k \in Orders : ~maps[k].started /\ maps[k].winner = Nobody
    BY <2>3, <2>5, <2>7 DEF MarketIsLocked, Begun, Played
  <2>8. ASSUME m.map # 0
        PROVE  /\ ~maps[m.map].started /\ maps[m.map].winner = Nobody
               /\ \A s \in Sides : Wins(maps, s) < Threshold
    <3>1. m # MatchMarket /\ m.map \in Orders
      BY <2>8 DEF Markets, MatchMarket
    <3>2. ~SeriesFinished(maps) /\ ~Played(m.map)
      BY <2>3, <3>1 DEF MarketIsLocked
    <3> QED
      BY <2>5, <3>1, <3>2, NotFinished DEF Played
  <2> QED
    BY <2>6, <2>7, <2>8 DEF Wins, Threshold
<1> QED
  BY <1>1, BettingInvariant, PTL DEF BettingSpec, StakesStopAtStart

(* The sum of one number is that number. *)
LEMMA SumOne ==
    ASSUME NEW w, NEW x, w[x] \in Int
    PROVE  Sum(w, {x}) = w[x]
<1> DEFINE S == {x}
<1>1. IsFiniteSet(S) /\ (\A y \in S : w[y] \in Int) /\ x \in S /\ S \ {x} = {}
  BY FS_Singleton
<1> HIDE DEF S
<1>2. Sum(w, S) = w[x] + Sum(w, S \ {x})
  BY <1>1, SumTakes
<1>3. Sum(w, S) = w[x]
  BY <1>1, <1>2, SumEmpty
<1> QED
  BY <1>3 DEF S

(* Every table of the program holds what its columns may hold, for any     *)
(* accounts, wagers, stakes and corrections.                               *)
THEOREM BettingAlwaysTyped == BettingSpec => []BettingTypeOK
<1>1. BettingInv /\ MoneyInv => BettingTypeOK
  <2> SUFFICES ASSUME BettingInv, MoneyInv PROVE BettingTypeOK
    OBVIOUS
  <2>1. ResultsTypeOK /\ published \subseteq Markets
    BY DEF BettingInv, ResultsInv, BookInv
  <2>2. \A m \in Markets, a \in Accounts :
           \/ stakes[m][a] = NoStake
           \/ stakes[m][a].side \in Sides /\ stakes[m][a].amount \in Nat \ {0}
    BY DEF MoneyInv, StakesOK, StakeOK
  <2>3. \A m \in Markets :
           IF m \in published
           THEN batch[m].revision \in Nat \ {0} /\ batch[m].outcome \in Outcomes
           ELSE batch[m] = [revision |-> 0, outcome |-> NoOutcome]
    BY DEF MoneyInv, MarketOK, Fresh
  <2> QED
    BY <2>1, <2>2, <2>3 DEF MoneyInv, BettingTypeOK
<1> QED
  BY <1>1, BettingInvariant, MoneyInvariant, PTL

(* However often a result is corrected and a market reconciled, the rows   *)
(* of the market add up to its stakes to the point, remainders included;   *)
(* who is refunded has his stake back, who wins does not lose, and who     *)
(* loses has nothing.                                                      *)
THEOREM PotsAlwaysReturned == BettingSpec => []PotsReturned
<1>1. BettingInv /\ MoneyInv => PotsReturned
  <2> SUFFICES ASSUME BettingInv, MoneyInv, NEW m \in published
               PROVE  LET rows == {r \in ledger : r.market = m}
                          net(a) == SumRows({r \in rows : r.account = a})
                          o == batch[m].outcome
                      IN  /\ SumRows(rows) = IF o.state = "pending" THEN 0 ELSE Total(stakes[m])
                          /\ o.state = "refunded" => \A a \in Accounts : net(a) = Amount(m, a)
                          /\ o.state = "settled" =>
                                \A a \in Accounts : IF stakes[m][a].side = o.winner
                                                    THEN net(a) >= Amount(m, a) ELSE net(a) = 0
    BY DEF PotsReturned
  <2> DEFINE rows == {r \in ledger : r.market = m}
  <2> DEFINE o == batch[m].outcome
  <2> DEFINE pot == stakes[m]
  <2>1. m \in Markets /\ MarketOK(m) /\ StakesOK(pot)
    BY DEF BettingInv, BookInv, MoneyInv
  <2>2. o.state \in {"pending", "settled", "refunded"} /\ Decided(pot, o)
    BY <2>1 DEF MarketOK, Outcomes
  <2>3. ASSUME NEW A \in SUBSET Accounts
        PROVE  SumRows(RowsOf(m, A)) = IF o.state = "pending" THEN 0 ELSE Sum(Payouts(pot, o), A)
    <3>1. SumRows(RowsOf(m, A)) = SumRows(LatestOf(m, A))
      BY <2>1 DEF MarketOK
    <3>2. LatestOf(m, A) = {r \in Settlements(m, o, batch[m].revision) : r.account \in A}
      BY <2>1 DEF MarketOK, LatestOf
    <3> HIDE DEF o
    <3> QED
      BY <2>1, <2>2, <3>1, <3>2, RowsPaid
  <2>4. rows = RowsOf(m, Accounts)
    BY DEF RowsOf, MoneyInv, Rows
  <2>5. \A a \in Accounts : {r \in rows : r.account = a} = RowsOf(m, {a})
    BY DEF RowsOf
  <2>6. o.state # "pending" =>
           /\ Sum(Payouts(pot, o), Accounts) = Total(pot)
           /\ \A a \in Accounts :
                 /\ Payouts(pot, o)[a] = Payout(pot, o, a) /\ Payout(pot, o, a) \in Nat
                 /\ o.state = "refunded" => Payout(pot, o, a) = pot[a].amount
                 /\ o.state = "settled" =>
                       IF pot[a].side = o.winner THEN Payout(pot, o, a) >= pot[a].amount
                                                 ELSE Payout(pot, o, a) = 0
    <3> HIDE DEF o, pot
    <3> QED
      BY <2>1, <2>2, PaidOut
  <2>7. SumRows(rows) = IF o.state = "pending" THEN 0 ELSE Total(pot)
    <3>1. Accounts \in SUBSET Accounts
      OBVIOUS
    <3> HIDE DEF o, pot, rows
    <3> QED
      BY <2>3, <2>4, <2>6, <3>1
  <2>8. ASSUME o.state # "pending", NEW a \in Accounts
        PROVE  SumRows({r \in rows : r.account = a}) = Payout(pot, o, a)
    <3>1. {a} \in SUBSET Accounts
      OBVIOUS
    <3> HIDE DEF o, pot, rows
    <3>2. Payouts(pot, o)[a] \in Int
      BY <2>6, <2>8
    <3>3. Sum(Payouts(pot, o), {a}) = Payouts(pot, o)[a]
      BY <3>2, SumOne
    <3> QED
      BY <2>3, <2>5, <2>6, <2>8, <3>1, <3>3
  <2> QED
    BY <2>6, <2>7, <2>8 DEF Amount
<1> QED
  BY <1>1, BettingInvariant, MoneyInvariant, PTL
=============================================================================
