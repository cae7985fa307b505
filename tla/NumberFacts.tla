---------------------------- MODULE NumberFacts -----------------------------
(***************************************************************************)
(* What several proofs need of numbers, finite sets and sums over them.    *)
(* The library's theorem on least members is about well-founded orders;    *)
(* the initial segments 0 .. n, as finite sets, are what it is applied to. *)
(* A sum is a fold, and a fold a function defined by what it is on smaller *)
(* sets: that there is one such function, and only one, is proved here.    *)
(***************************************************************************)
EXTENDS Naturals, FiniteSetsExt, FiniteSetTheorems, TLAPS

\* A set of numbers that is not empty has a least member: "the next platform" is one of
\* those still to be run.
LEMMA Least ==
  ASSUME NEW Q, Q \subseteq Nat, Q # {}
  PROVE  \E m \in Q : \A q \in Q : m <= q
<1> DEFINE T == {0 .. q : q \in Q}
<1>1. T \subseteq FiniteSubsetsOf(Nat)
  <2> SUFFICES ASSUME NEW q \in Q PROVE 0 .. q \in FiniteSubsetsOf(Nat)
    OBVIOUS
  <2>1. q \in Nat
    OBVIOUS
  <2>2. IsFiniteSet(0 .. q)
    BY <2>1, FS_Interval
  <2>3. 0 .. q \in SUBSET Nat
    BY <2>1
  <2> QED BY <2>2, <2>3 DEF FiniteSubsetsOf
<1>2. T # {}
  <2>1. PICK q \in Q : TRUE
    OBVIOUS
  <2>2. 0 .. q \in T
    OBVIOUS
  <2> QED BY <2>2
<1>3. IsWellFoundedOn(StrictSubsetOrdering(Nat), FiniteSubsetsOf(Nat))
  BY FS_StrictSubsetOrderingWellFounded
<1> HIDE DEF T
<1>4. PICK X \in T : \A Y \in T : ~ (<<Y, X>> \in StrictSubsetOrdering(Nat))
  BY <1>1, <1>2, <1>3, WFMin
<1>5. PICK m \in Q : X = 0 .. m
  BY DEF T
<1>6. ASSUME NEW q \in Q, ~ m <= q PROVE FALSE
  <2>1. m \in Nat /\ q \in Nat /\ q < m
    BY <1>6
  <2>2. 0 .. q \subseteq 0 .. m /\ m \in 0 .. m /\ m \notin 0 .. q
    BY <2>1
  <2>3. 0 .. q \in T /\ 0 .. q \in SUBSET Nat /\ 0 .. m \in SUBSET Nat
    BY <2>1 DEF T
  <2>4. <<0 .. q, 0 .. m>> \in StrictSubsetOrdering(Nat)
    BY <2>2, <2>3 DEF StrictSubsetOrdering
  <2> QED BY <1>4, <1>5, <2>3, <2>4
<1> QED BY <1>6

\* A set that grows by others that were not in it.
LEMMA Grows ==
  ASSUME NEW S, NEW T, IsFiniteSet(S), IsFiniteSet(T), S \cap T = {}
  PROVE  /\ IsFiniteSet(S \cup T)
         /\ Cardinality(S) \in Nat /\ Cardinality(T) \in Nat
         /\ Cardinality(S \cup T) = Cardinality(S) + Cardinality(T)
<1>1. Cardinality(S) \in Nat /\ Cardinality(T) \in Nat
  BY FS_CardinalityType
<1>2. IsFiniteSet(S \cup T)
  BY FS_Union
<1>3. Cardinality(S \cup T) = Cardinality(S) + Cardinality(T) - Cardinality(S \cap T)
  BY FS_Union
<1>4. Cardinality(S \cap T) = 0
  BY FS_EmptySet
<1> QED BY <1>1, <1>2, <1>3, <1>4

\* A set whose members are all marked alike.
LEMMA Marked ==
  ASSUME NEW S, IsFiniteSet(S), NEW t
  PROVE  IsFiniteSet(S \X {t}) /\ Cardinality(S \X {t}) = Cardinality(S)
<1>1. IsFiniteSet({t}) /\ Cardinality({t}) = 1
  BY FS_Singleton
<1>2. IsFiniteSet(S \X {t}) /\ Cardinality(S \X {t}) = Cardinality(S) * Cardinality({t})
  BY <1>1, FS_Product
<1>3. Cardinality(S) \in Nat
  BY FS_CardinalityType
<1> QED BY <1>1, <1>2, <1>3

\* The first so many numbers are so many, and no other such set is.
LEMMA Prefix ==
  ASSUME NEW n \in Nat
  PROVE  /\ IsFiniteSet(1 .. n) /\ Cardinality(1 .. n) = n
         /\ \A S \in SUBSET (1 .. n) : /\ IsFiniteSet(S) /\ Cardinality(S) \in 0 .. n
                                       /\ Cardinality(S) = n => S = 1 .. n
<1>1. n \in Int /\ 1 \in Int
  OBVIOUS
<1>2. IsFiniteSet(1 .. n) /\ Cardinality(1 .. n) = n
  BY <1>1, FS_Interval
<1>3. ASSUME NEW S \in SUBSET (1 .. n)
      PROVE  /\ IsFiniteSet(S) /\ Cardinality(S) \in 0 .. n
             /\ Cardinality(S) = n => S = 1 .. n
  <2>1. /\ IsFiniteSet(S) /\ Cardinality(S) <= Cardinality(1 .. n)
        /\ Cardinality(1 .. n) = Cardinality(S) => S = 1 .. n
    BY <1>2, FS_Subset
  <2>2. Cardinality(S) \in Nat
    BY <2>1, FS_CardinalityType
  <2> QED BY <1>2, <2>1, <2>2
<1> QED BY <1>2, <1>3

---------------------------------------------------------------------------
(* Sums                                                                    *)

\* A sum of natural numbers is the size of as many pairs.
Pile(g, S) == UNION {{x} \X (1 .. g[x]) : x \in S}

\* One more member is one more slice.
LEMMA PileGrows ==
  ASSUME NEW g, NEW S, NEW x \in S, g[x] \in Nat, IsFiniteSet(Pile(g, S \ {x}))
  PROVE  /\ IsFiniteSet(Pile(g, S))
         /\ Cardinality(Pile(g, S)) = g[x] + Cardinality(Pile(g, S \ {x}))
<1> DEFINE new == {x} \X (1 .. g[x])
           old == Pile(g, S \ {x})
<1>1. Pile(g, S) = old \cup new /\ old \cap new = {}
  BY DEF Pile
<1>2. IsFiniteSet(new) /\ Cardinality(new) = g[x]
  <2>1. IsFiniteSet(1 .. g[x]) /\ Cardinality(1 .. g[x]) = g[x]
    BY Prefix
  <2>2. IsFiniteSet({x}) /\ Cardinality({x}) = 1
    BY FS_Singleton
  <2>3. IsFiniteSet(new) /\ Cardinality(new) = Cardinality({x}) * Cardinality(1 .. g[x])
    BY <2>1, <2>2, FS_Product
  <2> QED BY <2>1, <2>2, <2>3
<1>3. IsFiniteSet(old)
  OBVIOUS
<1> HIDE DEF new, old
<1>4. IsFiniteSet(old \cup new) /\ Cardinality(old) \in Nat
      /\ Cardinality(old \cup new) = Cardinality(old) + Cardinality(new)
  BY <1>1, <1>2, <1>3, Grows
<1> QED BY <1>1, <1>2, <1>4 DEF old

\* A pile is a finite union of finite slices.
LEMMA PileFinite ==
  ASSUME NEW S, IsFiniteSet(S), NEW g, \A x \in S : g[x] \in Nat
  PROVE  IsFiniteSet(Pile(g, S)) /\ Cardinality(Pile(g, S)) \in Nat
<1> DEFINE Slices == {{x} \X (1 .. g[x]) : x \in S}
<1>1. IsFiniteSet(Slices)
  <2> DEFINE f == [x \in S |-> {x} \X (1 .. g[x])]
  <2>1. f \in Surjection(S, Slices)
    BY DEF Surjection
  <2> QED BY <2>1, FS_Surjection
<1>2. \A s \in Slices : IsFiniteSet(s)
  <2> SUFFICES ASSUME NEW x \in S PROVE IsFiniteSet({x} \X (1 .. g[x]))
    OBVIOUS
  <2>1. IsFiniteSet(1 .. g[x]) /\ IsFiniteSet({x})
    BY Prefix, FS_Singleton
  <2> QED BY <2>1, FS_Product
<1>3. IsFiniteSet(UNION Slices)
  BY <1>1, <1>2, FS_UNION
<1> QED BY <1>3, FS_CardinalityType DEF Pile

\* The equation by which a fold adds the members up, one at a time.
Pick(s) == CHOOSE x \in s : TRUE
AddsUp(h, g, S) ==
  h = [s \in SUBSET S |-> IF s = {} THEN 0 ELSE g[Pick(s)] + h[s \ {Pick(s)}]]

\* The sizes of the piles are such a function.
LEMMA PileAddsUp ==
  ASSUME NEW S, IsFiniteSet(S), NEW g, \A x \in S : g[x] \in Nat
  PROVE  AddsUp([s \in SUBSET S |-> Cardinality(Pile(g, s))], g, S)
<1> DEFINE h == [s \in SUBSET S |-> Cardinality(Pile(g, s))]
<1> SUFFICES ASSUME NEW s \in SUBSET S
             PROVE  h[s] = IF s = {} THEN 0 ELSE g[Pick(s)] + h[s \ {Pick(s)}]
  BY DEF AddsUp
<1>1. CASE s = {}
  <2>1. Pile(g, s) = {}
    BY <1>1 DEF Pile
  <2> QED BY <1>1, <2>1, FS_EmptySet
<1>2. CASE s # {}
  <2>1. Pick(s) \in s
    BY <1>2 DEF Pick
  <2>2. IsFiniteSet(s \ {Pick(s)})
    BY FS_Subset
  <2>3. IsFiniteSet(Pile(g, s \ {Pick(s)}))
    BY <2>1, <2>2, PileFinite
  <2>4. Cardinality(Pile(g, s)) = g[Pick(s)] + Cardinality(Pile(g, s \ {Pick(s)}))
    BY <2>1, <2>3, PileGrows
  <2> QED BY <1>2, <2>4
<1> QED BY <1>1, <1>2

\* One function only does: where two differ they differ on a smallest set, but there both
\* add the same number to what they are on a smaller one.
LEMMA AddsUpOnce ==
  ASSUME NEW S, IsFiniteSet(S), NEW g, NEW h, NEW k, AddsUp(h, g, S), AddsUp(k, g, S)
  PROVE  h = k
<1>1. \A s \in SUBSET S : IsFiniteSet(s) /\ Cardinality(s) \in Nat
  BY FS_Subset, FS_CardinalityType
<1> DEFINE Apart == {s \in SUBSET S : h[s] # k[s]}
           Sizes == {Cardinality(s) : s \in Apart}
<1>2. ASSUME Apart # {} PROVE FALSE
  <2>1. Sizes \subseteq Nat /\ Sizes # {}
    BY <1>1, <1>2
  <2>2. PICK m \in Sizes : \A q \in Sizes : m <= q
    <3> HIDE DEF Sizes
    <3> QED BY <2>1, Least
  <2>3. PICK s \in Apart : Cardinality(s) = m
    OBVIOUS
  <2>4. s # {} /\ Pick(s) \in s
    BY DEF AddsUp, Pick
  <2>5. Cardinality(s \ {Pick(s)}) = Cardinality(s) - 1
    BY <1>1, <2>4, FS_RemoveElement
  <2>6. s \ {Pick(s)} \notin Apart
    BY <1>1, <2>1, <2>2, <2>3, <2>5
  <2>7. h[s \ {Pick(s)}] = k[s \ {Pick(s)}]
    BY <2>6
  <2> QED BY <2>4, <2>7 DEF AddsUp
<1>3. \A s \in SUBSET S : h[s] = k[s]
  BY <1>2
<1> QED BY <1>3 DEF AddsUp

\* So the fold is the size of the pile.
LEMMA SumIsPile ==
  ASSUME NEW S, IsFiniteSet(S), NEW g, \A x \in S : g[x] \in Nat
  PROVE  SumFunctionOnSet(g, S) = Cardinality(Pile(g, S))
<1> DEFINE h == [s \in SUBSET S |-> Cardinality(Pile(g, s))]
<1>1. AddsUp(h, g, S)
  BY PileAddsUp
<1>2. \A k : AddsUp(k, g, S) => k = h
  BY <1>1, AddsUpOnce
<1> HIDE DEF h
<1>3. (CHOOSE k : AddsUp(k, g, S)) = h
  BY <1>1, <1>2
<1>4. SumFunctionOnSet(g, S) = (CHOOSE k : AddsUp(k, g, S))[S]
  BY DEF SumFunctionOnSet, FoldFunctionOnSet, MapThenFoldSet, AddsUp, Pick
<1> QED BY <1>3, <1>4 DEF h

\* What follows says of sums what is known of piles.  A sum of numbers is one.
LEMMA SumNat ==
  ASSUME NEW S, IsFiniteSet(S), NEW g, \A x \in S : g[x] \in Nat
  PROVE  SumFunctionOnSet(g, S) \in Nat
BY SumIsPile, PileFinite

\* Nor is there anything in no set.
LEMMA SumEmpty == \A g : SumFunctionOnSet(g, {}) = 0
<1> SUFFICES ASSUME NEW g PROVE SumFunctionOnSet(g, {}) = 0
  OBVIOUS
<1>1. Pile(g, {}) = {}
  BY DEF Pile
<1> QED BY <1>1, SumIsPile, FS_EmptySet

\* A sum depends on the numbers added up and on nothing else.
LEMMA SumSame ==
  ASSUME NEW S, IsFiniteSet(S), NEW g, \A x \in S : g[x] \in Nat,
         NEW h, \A x \in S : h[x] = g[x]
  PROVE  SumFunctionOnSet(h, S) = SumFunctionOnSet(g, S)
<1>1. Pile(h, S) = Pile(g, S)
  BY DEF Pile
<1> QED BY <1>1, SumIsPile

\* Any member can be the last to be added.
LEMMA SumOne ==
  ASSUME NEW S, IsFiniteSet(S), NEW g, \A x \in S : g[x] \in Nat, NEW x \in S
  PROVE  SumFunctionOnSet(g, S) = g[x] + SumFunctionOnSet(g, S \ {x})
<1>1. IsFiniteSet(S \ {x})
  BY FS_RemoveElement
<1>2. IsFiniteSet(Pile(g, S \ {x}))
  BY <1>1, PileFinite
<1>3. Cardinality(Pile(g, S)) = g[x] + Cardinality(Pile(g, S \ {x}))
  BY <1>2, PileGrows
<1>4. /\ SumFunctionOnSet(g, S) = Cardinality(Pile(g, S))
      /\ SumFunctionOnSet(g, S \ {x}) = Cardinality(Pile(g, S \ {x}))
  BY <1>1, SumIsPile
<1> QED BY <1>3, <1>4

\* When one number changes, the sum changes as it does.
LEMMA SumChange ==
  ASSUME NEW S, IsFiniteSet(S), NEW g, \A y \in S : g[y] \in Nat, NEW x \in S,
         NEW h, h[x] \in Nat, \A y \in S \ {x} : h[y] = g[y]
  PROVE  SumFunctionOnSet(h, S) + g[x] = SumFunctionOnSet(g, S) + h[x]
<1>1. IsFiniteSet(S \ {x})
  BY FS_RemoveElement
<1>2. SumFunctionOnSet(h, S \ {x}) = SumFunctionOnSet(g, S \ {x})
  BY <1>1, SumSame
<1>3. SumFunctionOnSet(g, S \ {x}) \in Nat
  BY <1>1, SumNat
<1>4. SumFunctionOnSet(g, S) = g[x] + SumFunctionOnSet(g, S \ {x})
  BY SumOne
<1>5. SumFunctionOnSet(h, S) = h[x] + SumFunctionOnSet(h, S \ {x})
  <2>1. \A y \in S : h[y] \in Nat
    OBVIOUS
  <2> QED BY <2>1, SumOne
<1> QED BY <1>2, <1>3, <1>4, <1>5

\* Two sets without a common member add up.
LEMMA SumJoin ==
  ASSUME NEW S, NEW T, IsFiniteSet(S), IsFiniteSet(T), S \cap T = {},
         NEW g, \A x \in S \cup T : g[x] \in Nat
  PROVE  SumFunctionOnSet(g, S \cup T) = SumFunctionOnSet(g, S) + SumFunctionOnSet(g, T)
<1>1. Pile(g, S \cup T) = Pile(g, S) \cup Pile(g, T) /\ Pile(g, S) \cap Pile(g, T) = {}
  BY DEF Pile
<1>2. IsFiniteSet(Pile(g, S)) /\ IsFiniteSet(Pile(g, T))
  BY PileFinite
<1>3. IsFiniteSet(S \cup T)
  BY FS_Union
<1>4. Cardinality(Pile(g, S \cup T)) = Cardinality(Pile(g, S)) + Cardinality(Pile(g, T))
  BY <1>1, <1>2, Grows
<1>5. /\ SumFunctionOnSet(g, S \cup T) = Cardinality(Pile(g, S \cup T))
      /\ SumFunctionOnSet(g, S) = Cardinality(Pile(g, S))
      /\ SumFunctionOnSet(g, T) = Cardinality(Pile(g, T))
  BY <1>3, SumIsPile
<1> QED BY <1>4, <1>5

\* More is added up to more.
LEMMA SumLeq ==
  ASSUME NEW S, NEW T, IsFiniteSet(T), S \subseteq T, NEW g, NEW h,
         \A x \in T : g[x] \in Nat /\ h[x] \in Nat, \A x \in S : g[x] <= h[x]
  PROVE  SumFunctionOnSet(g, S) <= SumFunctionOnSet(h, T)
<1>1. IsFiniteSet(S) /\ IsFiniteSet(Pile(h, T))
  BY FS_Subset, PileFinite
<1>2. Pile(g, S) \subseteq Pile(h, T)
  <2> SUFFICES ASSUME NEW x \in S PROVE {x} \X (1 .. g[x]) \subseteq Pile(h, T)
    BY DEF Pile
  <2>1. 1 .. g[x] \subseteq 1 .. h[x]
    OBVIOUS
  <2> QED BY <2>1 DEF Pile
<1>3. Cardinality(Pile(g, S)) <= Cardinality(Pile(h, T))
  BY <1>1, <1>2, FS_Subset
<1> QED BY <1>1, <1>3, SumIsPile

\* Nothing added up is nothing.
LEMMA SumZero ==
  ASSUME NEW S, IsFiniteSet(S), NEW g, \A x \in S : g[x] = 0
  PROVE  SumFunctionOnSet(g, S) = 0
<1>1. Pile(g, S) = {}
  BY DEF Pile
<1>2. \A x \in S : g[x] \in Nat
  OBVIOUS
<1> QED BY <1>1, <1>2, SumIsPile, FS_EmptySet
==============================================================================
