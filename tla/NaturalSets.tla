---------------------------- MODULE NaturalSets ----------------------------
(***************************************************************************)
(* Facts of naturals and finite sets that the library states only with an  *)
(* operator as a parameter, here for a property given as a set: the least  *)
(* and the greatest element, induction up to a bound, that a function      *)
(* defined step by step exists, the best element of a finite set, and sums *)
(* over finite sets.  The least: x is mapped to 0 .. x, or to the elements *)
(* above it, and strict inclusion of finite sets is well-founded.          *)
(***************************************************************************)
EXTENDS Naturals, FiniteSetsExt, FiniteSetTheorems, TLAPS

LEMMA LeastExists ==
  ASSUME NEW S \in SUBSET Nat, S # {}
  PROVE  \E z \in S : \A y \in S : z =< y
<1> DEFINE segments == {0..x : x \in S}
<1>1. segments \subseteq FiniteSubsetsOf(Nat)
  <2>1. ASSUME NEW x \in S PROVE IsFiniteSet(0..x) /\ 0..x \in SUBSET Nat
    BY FS_Interval
  <2> QED BY <2>1 DEF FiniteSubsetsOf
<1>2. segments # {}
  OBVIOUS
<1>3. IsWellFoundedOn(StrictSubsetOrdering(Nat), FiniteSubsetsOf(Nat))
  BY FS_StrictSubsetOrderingWellFounded
<1>4. PICK low \in segments : \A s \in segments : <<s, low>> \notin StrictSubsetOrdering(Nat)
  <2> HIDE DEF segments
  <2> QED BY <1>1, <1>2, <1>3, WFMin, Zenon
<1>5. PICK x \in S : low = 0..x
  BY <1>4
<1>6. ASSUME NEW y \in S, y < x PROVE FALSE
  <2>1. 0..y \subseteq 0..x /\ 0..y # 0..x
    BY <1>6
  <2>2. <<0..y, 0..x>> \in StrictSubsetOrdering(Nat)
    BY <2>1 DEF StrictSubsetOrdering
  <2> QED BY <1>4, <1>5, <2>2
<1>7. \E z \in S : \A y \in S : z =< y
  BY <1>6
<1> QED BY <1>7

LEMMA LeastNatural ==
  ASSUME NEW S \in SUBSET Nat, S # {}
  PROVE  Min(S) \in S
  BY LeastExists DEF Min

LEMMA LeastBelow ==
  ASSUME NEW S \in SUBSET Nat, NEW x \in S
  PROVE  Min(S) =< x
  BY LeastExists DEF Min

LEMMA GreatestExists ==
  ASSUME NEW S \in SUBSET Nat, IsFiniteSet(S), S # {}
  PROVE  \E z \in S : \A y \in S : z >= y
<1> DEFINE Above(x) == {y \in S : y > x}
           tails == {Above(x) : x \in S}
<1>1. tails \subseteq FiniteSubsetsOf(Nat)
  <2>1. ASSUME NEW x \in S PROVE IsFiniteSet(Above(x)) /\ Above(x) \in SUBSET Nat
    BY FS_Subset
  <2> QED BY <2>1 DEF FiniteSubsetsOf
<1>2. tails # {}
  OBVIOUS
<1>3. IsWellFoundedOn(StrictSubsetOrdering(Nat), FiniteSubsetsOf(Nat))
  BY FS_StrictSubsetOrderingWellFounded
<1>4. PICK low \in tails : \A s \in tails : <<s, low>> \notin StrictSubsetOrdering(Nat)
  <2> HIDE DEF tails
  <2> QED BY <1>1, <1>2, <1>3, WFMin, Zenon
<1>5. PICK x \in S : low = Above(x)
  BY <1>4
<1>6. ASSUME NEW y \in S, y > x PROVE FALSE
  <2>1. \A v \in S : v \in Nat
    OBVIOUS
  <2>2. \A v \in Above(y) : v \in Above(x)
    BY <1>6, <2>1
  <2>3. y \in Above(x) /\ Above(x) \subseteq Nat /\ Above(y) \subseteq Nat
    BY <1>6
  <2>4. y \notin Above(y)
    <3>1. ~(y > y)
      BY <2>1
    <3> QED BY <3>1
  <2> HIDE DEF Above
  <2>5. <<Above(y), Above(x)>> \in StrictSubsetOrdering(Nat)
    BY <2>2, <2>3, <2>4 DEF StrictSubsetOrdering
  <2> QED BY <1>4, <1>5, <2>5
<1>7. \E z \in S : \A y \in S : z >= y
  BY <1>6
<1> QED BY <1>7

(* Induction from 0 to N, with the property as a set *)
LEMMA Climbs ==
  ASSUME NEW N \in Nat, NEW S, 0 \in S, \A n \in 1..N : n - 1 \in S => n \in S
  PROVE  0..N \subseteq S
<1> DEFINE missed == {n \in 0..N : n \notin S}
<1>1. SUFFICES ASSUME missed # {} PROVE FALSE
  OBVIOUS
<1>2. PICK z \in missed : \A y \in missed : z =< y
  <2>1. missed \in SUBSET Nat
    OBVIOUS
  <2> HIDE DEF missed
  <2> QED BY <1>1, <2>1, LeastExists
<1>3. z \in 1..N /\ z - 1 \in 0..N /\ z - 1 \notin missed
  BY <1>2
<1> QED BY <1>2, <1>3

(* What is defined step by step from 0 to N exists. *)
StepsKeep(step, V, N) == \A n \in 1..N : \A v \in V : step[n][v] \in V
StepsFollow(g, start, step, V, N) ==
  g \in [0..N -> V] /\ g[0] = start /\ \A n \in 1..N : g[n] = step[n][g[n - 1]]

LEMMA StepsExist ==
  ASSUME NEW N \in Nat, NEW V, NEW start \in V, NEW step, StepsKeep(step, V, N)
  PROVE  \E g : StepsFollow(g, start, step, V, N)
<1> USE DEF StepsKeep, StepsFollow
<1> DEFINE Steps(g, n) == g \in [0..n -> V] /\ g[0] = start /\ \A m \in 1..n : g[m] = step[m][g[m - 1]]
           defined == {n \in 0..N : \E g : Steps(g, n)}
<1>1. 0 \in defined
  <2>1. Steps([n \in 0..0 |-> start], 0)
    OBVIOUS
  <2> HIDE DEF Steps
  <2> QED BY <2>1
<1>2. ASSUME NEW n \in 1..N, n - 1 \in defined PROVE n \in defined
  <2>1. PICK g : Steps(g, n - 1)
    BY <1>2
  <2> DEFINE h == [m \in 0..n |-> IF m = n THEN step[n][g[n - 1]] ELSE g[m]]
  <2>2. g[n - 1] \in V
    BY <2>1
  <2>3. h \in [0..n -> V] /\ h[0] = start
    BY <2>1, <2>2
  <2>4. ASSUME NEW m \in 1..n PROVE h[m] = step[m][h[m - 1]]
    <3>1. CASE m = n
      BY <3>1
    <3>2. CASE m # n
      BY <2>1, <3>2
    <3> QED BY <3>1, <3>2
  <2>5. Steps(h, n)
    BY <2>3, <2>4
  <2> QED BY <2>5, SMTT(40)
<1>3. 0..N \subseteq defined
  <2> HIDE DEF defined
  <2> QED BY <1>1, <1>2, Climbs
<1>4. N \in defined
  BY <1>3
<1> QED BY <1>4

(* The best of finitely many, of which any two can be compared *)
LEMMA BestExists ==
  ASSUME NEW S, IsFiniteSet(S), S # {}, NEW R,
         \A x, y \in S : <<x, y>> \in R \/ <<y, x>> \in R,
         \A x, y, z \in S : <<x, y>> \in R /\ <<y, z>> \in R => <<x, z>> \in R
  PROVE  \E z \in S : \A y \in S : <<z, y>> \in R
<1> DEFINE Better(x) == {y \in S : <<x, y>> \notin R}
           tails == {Better(x) : x \in S}
<1>1. tails \subseteq FiniteSubsetsOf(S)
  <2>1. ASSUME NEW x \in S PROVE IsFiniteSet(Better(x)) /\ Better(x) \in SUBSET S
    BY FS_Subset
  <2> QED BY <2>1 DEF FiniteSubsetsOf
<1>2. tails # {}
  <2>1. PICK x \in S : TRUE
    OBVIOUS
  <2> HIDE DEF Better
  <2> QED BY <2>1
<1>3. IsWellFoundedOn(StrictSubsetOrdering(S), FiniteSubsetsOf(S))
  BY FS_StrictSubsetOrderingWellFounded
<1>4. PICK low \in tails : \A s \in tails : <<s, low>> \notin StrictSubsetOrdering(S)
  <2> HIDE DEF tails
  <2> QED BY <1>1, <1>2, <1>3, WFMin, Zenon
<1>5. PICK x \in S : low = Better(x)
  BY <1>4
<1>6. ASSUME NEW y \in S, <<x, y>> \notin R PROVE FALSE
  <2>1. Better(y) \subseteq Better(x)
    BY <1>6
  <2>2. y \in Better(x) /\ y \notin Better(y)
    BY <1>6
  <2>3. <<Better(y), Better(x)>> \in StrictSubsetOrdering(S)
    BY <2>1, <2>2 DEF StrictSubsetOrdering
  <2> QED BY <1>4, <1>5, <2>3
<1> QED BY <1>6

(* The values of a function on a finite set are finitely many. *)
LEMMA ValuesFinite ==
  ASSUME NEW S, IsFiniteSet(S), NEW f
  PROVE  IsFiniteSet({f[x] : x \in S})
<1> DEFINE T == {f[x] : x \in S}
           g == [x \in S |-> f[x]]
<1>1. g \in Surjection(S, T)
  BY DEF Surjection
<1> HIDE DEF T, g
<1>2. IsFiniteSet(T)
  BY <1>1, FS_Surjection
<1> QED BY <1>2 DEF T
-----------------------------------------------------------------------------
(* Sums over finite sets *)

(* g has the sum of f over every subset of S, one element after the other. *)
Picked(s) == CHOOSE x \in s : TRUE
Sums(g, f, S) == g = [s \in SUBSET S |-> IF s = {} THEN 0 ELSE f[Picked(s)] + g[s \ {Picked(s)}]]

LEMMA SumChosen ==
  ASSUME NEW f, NEW S
  PROVE  SumFunctionOnSet(f, S) = (CHOOSE g : Sums(g, f, S))[S]
  BY DEF SumFunctionOnSet, FoldFunctionOnSet, MapThenFoldSet, Sums, Picked

LEMMA Sizes ==
  ASSUME NEW S, IsFiniteSet(S), NEW s \in SUBSET S
  PROVE  /\ IsFiniteSet(s) /\ Cardinality(s) \in Nat /\ Cardinality(s) \in 0..Cardinality(S)
         /\ Cardinality(s) = 0 <=> s = {}
<1>1. IsFiniteSet(s) /\ Cardinality(s) =< Cardinality(S)
  BY FS_Subset
<1>2. Cardinality(s) \in Nat /\ Cardinality(S) \in Nat
  BY <1>1, FS_CardinalityType
<1>3. Cardinality(s) = 0 <=> s = {}
  BY <1>1, FS_EmptySet
<1> QED BY <1>1, <1>2, <1>3

LEMMA Smaller ==
  ASSUME NEW S, IsFiniteSet(S), NEW s \in SUBSET S, s # {}
  PROVE  /\ Picked(s) \in s /\ s \ {Picked(s)} \in SUBSET S
         /\ Cardinality(s \ {Picked(s)}) = Cardinality(s) - 1
<1>1. Picked(s) \in s
  BY DEF Picked
<1>2. IsFiniteSet(s)
  BY Sizes
<1> QED BY <1>1, <1>2, FS_RemoveElement

(* Induction over the subsets of a finite set, with the property as a set *)
LEMMA Gathers ==
  ASSUME NEW S, IsFiniteSet(S), NEW P, {} \in P,
         \A s \in SUBSET S : \A x \in S : x \notin s /\ s \in P => s \cup {x} \in P
  PROVE  S \in P
<1> DEFINE N == Cardinality(S)
           Good(n) == \A s \in SUBSET S : Cardinality(s) = n => s \in P
           done == {n \in 0..N : Good(n)}
<1>1. N \in Nat
  BY FS_CardinalityType
<1>2. Good(0)
  BY Sizes
<1>3. ASSUME NEW n \in 1..N, Good(n - 1) PROVE Good(n)
  <2>1. SUFFICES ASSUME NEW s \in SUBSET S, Cardinality(s) = n PROVE s \in P
    OBVIOUS
  <2>2. s # {}
    BY <2>1, Sizes
  <2>3. Picked(s) \in s /\ s \ {Picked(s)} \in SUBSET S /\ Cardinality(s \ {Picked(s)}) = n - 1
    BY <2>1, <2>2, Smaller
  <2>4. s \ {Picked(s)} \in P
    BY <1>3, <2>3
  <2>5. s = (s \ {Picked(s)}) \cup {Picked(s)}
    BY <2>3
  <2> QED BY <2>3, <2>4, <2>5
<1>4. 0..N \subseteq done
  <2>1. 0 \in done
    BY <1>1, <1>2
  <2>2. ASSUME NEW n \in 1..N, n - 1 \in done PROVE n \in done
    BY <1>1, <1>3, <2>2
  <2> HIDE DEF done, N
  <2> QED BY <1>1, <2>1, <2>2, Climbs
<1>5. Good(N)
  <2> HIDE DEF Good
  <2> QED BY <1>1, <1>4
<1> QED BY <1>5

LEMMA SumsExist ==
  ASSUME NEW f, NEW S, IsFiniteSet(S)
  PROVE  \E g : Sums(g, f, S)
<1> DEFINE N == Cardinality(S)
           Upto(g, n) == \A s \in SUBSET S : Cardinality(s) =< n =>
                            g[s] = IF s = {} THEN 0 ELSE f[Picked(s)] + g[s \ {Picked(s)}]
           done == {n \in 0..N : \E g : Upto(g, n)}
<1>1. N \in Nat
  BY FS_CardinalityType
<1>2. Upto([s \in SUBSET S |-> 0], 0)
  BY Sizes
<1>3. ASSUME NEW n \in 1..N, \E g : Upto(g, n - 1) PROVE \E g : Upto(g, n)
  <2>1. PICK g : Upto(g, n - 1)
    BY <1>3
  <2> DEFINE h == [s \in SUBSET S |-> IF Cardinality(s) = n THEN f[Picked(s)] + g[s \ {Picked(s)}] ELSE g[s]]
  <2>2. ASSUME NEW s \in SUBSET S, Cardinality(s) =< n
        PROVE  h[s] = IF s = {} THEN 0 ELSE f[Picked(s)] + h[s \ {Picked(s)}]
    <3>1. CASE s = {}
      <4>1. Cardinality(s) = 0
        BY <3>1, Sizes
      <4>2. g[s] = 0
        BY <2>1, <3>1, <4>1
      <4> QED BY <3>1, <4>1, <4>2
    <3>2. CASE s # {}
      <4>1. s \ {Picked(s)} \in SUBSET S /\ Cardinality(s \ {Picked(s)}) = Cardinality(s) - 1
        BY <3>2, Smaller
      <4>2. Cardinality(s) \in Nat
        BY Sizes
      <4>3. h[s \ {Picked(s)}] = g[s \ {Picked(s)}]
        BY <2>2, <4>1, <4>2
      <4>4. CASE Cardinality(s) = n
        BY <3>2, <4>3, <4>4
      <4>5. CASE Cardinality(s) # n
        <5>1. g[s] = f[Picked(s)] + g[s \ {Picked(s)}]
          BY <2>1, <2>2, <3>2, <4>2, <4>5
        <5> QED BY <3>2, <4>3, <4>5, <5>1
      <4> QED BY <4>4, <4>5
    <3> QED BY <3>1, <3>2
  <2>3. Upto(h, n)
    BY <2>2
  <2> HIDE DEF Upto, h
  <2> QED BY <2>3
<1>4. 0..N \subseteq done
  <2>1. 0 \in done
    <3> HIDE DEF Upto
    <3> QED BY <1>1, <1>2
  <2>2. ASSUME NEW n \in 1..N, n - 1 \in done PROVE n \in done
    <3> HIDE DEF Upto
    <3> QED BY <1>1, <1>3, <2>2
  <2> HIDE DEF done, N
  <2> QED BY <1>1, <2>1, <2>2, Climbs
<1>5. PICK g : Upto(g, N)
  <2> HIDE DEF Upto
  <2> QED BY <1>1, <1>4
<1> DEFINE h == [s \in SUBSET S |-> g[s]]
<1>6. ASSUME NEW s \in SUBSET S
      PROVE  h[s] = IF s = {} THEN 0 ELSE f[Picked(s)] + h[s \ {Picked(s)}]
  <2>1. Cardinality(s) \in 0..N
    BY Sizes
  <2>2. g[s] = IF s = {} THEN 0 ELSE f[Picked(s)] + g[s \ {Picked(s)}]
    BY <1>1, <1>5, <2>1
  <2>3. s # {} => s \ {Picked(s)} \in SUBSET S
    OBVIOUS
  <2> QED BY <2>2, <2>3
<1>7. Sums(h, f, S)
  BY <1>6 DEF Sums
<1> QED BY <1>7

Summable(f, S) == IsFiniteSet(S) /\ \A x \in S : f[x] \in Int

LEMMA SumsNumber ==
  ASSUME NEW f, NEW S, Summable(f, S), NEW g, Sums(g, f, S)
  PROVE  g[{}] = 0 /\ \A s \in SUBSET S : g[s] \in Int
<1> DEFINE N == Cardinality(S)
           Good(n) == \A s \in SUBSET S : Cardinality(s) = n => g[s] \in Int
           done == {n \in 0..N : Good(n)}
<1>1. N \in Nat /\ IsFiniteSet(S)
  BY FS_CardinalityType DEF Summable
<1>2. g[{}] = 0
  BY DEF Sums
<1>3. Good(0)
  BY <1>1, <1>2, Sizes
<1>4. ASSUME NEW n \in 1..N, Good(n - 1) PROVE Good(n)
  <2>1. SUFFICES ASSUME NEW s \in SUBSET S, Cardinality(s) = n PROVE g[s] \in Int
    OBVIOUS
  <2>2. s # {}
    BY <1>1, <2>1, Sizes
  <2>3. Picked(s) \in s /\ s \ {Picked(s)} \in SUBSET S /\ Cardinality(s \ {Picked(s)}) = n - 1
    BY <1>1, <2>1, <2>2, Smaller
  <2>4. g[s] = f[Picked(s)] + g[s \ {Picked(s)}]
    BY <2>2 DEF Sums
  <2>5. f[Picked(s)] \in Int /\ g[s \ {Picked(s)}] \in Int
    BY <1>4, <2>3 DEF Summable
  <2> QED BY <2>4, <2>5
<1>5. 0..N \subseteq done
  <2>1. 0 \in done
    BY <1>1, <1>3
  <2>2. ASSUME NEW n \in 1..N, n - 1 \in done PROVE n \in done
    <3> HIDE DEF Good
    <3> QED BY <1>1, <1>4, <2>2
  <2> HIDE DEF done, N
  <2> QED BY <1>1, <2>1, <2>2, Climbs
<1>6. ASSUME NEW s \in SUBSET S PROVE g[s] \in Int
  <2>1. Cardinality(s) \in 0..N
    BY <1>1, Sizes
  <2> QED BY <1>5, <2>1
<1> QED BY <1>2, <1>6

(* Any element may be the first. *)
LEMMA SumsTake ==
  ASSUME NEW f, NEW S, Summable(f, S), NEW g, Sums(g, f, S)
  PROVE  \A s \in SUBSET S : \A y \in s : g[s] = f[y] + g[s \ {y}]
<1> DEFINE N == Cardinality(S)
           Taken(s) == \A y \in s : g[s] = f[y] + g[s \ {y}]
           Good(n) == \A s \in SUBSET S : Cardinality(s) = n => Taken(s)
           done == {n \in 0..N : Good(n)}
<1>1. N \in Nat /\ IsFiniteSet(S) /\ \A s \in SUBSET S : g[s] \in Int
  BY FS_CardinalityType, SumsNumber DEF Summable
<1>3. Good(0)
  BY <1>1, Sizes
<1>4. ASSUME NEW n \in 1..N, Good(n - 1) PROVE Good(n)
  <2>1. SUFFICES ASSUME NEW s \in SUBSET S, Cardinality(s) = n, NEW y \in s
                 PROVE  g[s] = f[y] + g[s \ {y}]
    OBVIOUS
  <2>2. s # {}
    OBVIOUS
  <2> DEFINE p == Picked(s)
  <2>3. p \in s /\ s \ {p} \in SUBSET S /\ Cardinality(s \ {p}) = n - 1
    BY <1>1, <2>1, <2>2, Smaller
  <2>4. g[s] = f[p] + g[s \ {p}]
    BY <2>2 DEF Sums
  <2> HIDE DEF p
  <2>5. CASE y = p
    BY <2>4, <2>5
  <2>6. CASE y # p
    <3>1. s \ {y} \in SUBSET S /\ Cardinality(s \ {y}) = n - 1
      <4>1. IsFiniteSet(s)
        BY <1>1, Sizes
      <4> QED BY <2>1, <4>1, FS_RemoveElement
    <3>2. Taken(s \ {y}) /\ Taken(s \ {p})
      <4> HIDE DEF Taken
      <4> QED BY <1>4, <2>3, <3>1
    <3>3. p \in s \ {y} /\ y \in s \ {p} /\ (s \ {y}) \ {p} = (s \ {p}) \ {y}
      BY <2>1, <2>3, <2>6
    <3>4. g[s \ {y}] = f[p] + g[(s \ {p}) \ {y}]
      BY <3>2, <3>3
    <3>5. g[s \ {p}] = f[y] + g[(s \ {p}) \ {y}]
      BY <3>2, <3>3
    <3>6. f[y] \in Int /\ f[p] \in Int /\ g[(s \ {p}) \ {y}] \in Int
      BY <1>1, <2>3 DEF Summable
    <3> QED BY <2>4, <3>4, <3>5, <3>6
  <2> QED BY <2>5, <2>6
<1>5. 0..N \subseteq done
  <2>1. 0 \in done
    BY <1>1, <1>3
  <2>2. ASSUME NEW n \in 1..N, n - 1 \in done PROVE n \in done
    <3> HIDE DEF Good
    <3> QED BY <1>1, <1>4, <2>2
  <2> HIDE DEF done, N
  <2> QED BY <1>1, <2>1, <2>2, Climbs
<1>6. ASSUME NEW s \in SUBSET S PROVE Taken(s)
  <2>1. Cardinality(s) \in 0..N
    BY <1>1, Sizes
  <2> HIDE DEF Taken
  <2> QED BY <1>5, <2>1
<1> QED BY <1>6

(* The sum depends on the set only, not on where the recursion began. *)
LEMMA SumsAgree ==
  ASSUME NEW f, NEW h, NEW S, NEW T \in SUBSET S, IsFiniteSet(S), \A x \in T : f[x] = h[x],
         NEW g, Sums(g, f, S), NEW k, Sums(k, h, T)
  PROVE  g[T] = k[T]
<1> DEFINE N == Cardinality(T)
           Good(n) == \A s \in SUBSET T : Cardinality(s) = n => g[s] = k[s]
           done == {n \in 0..N : Good(n)}
<1>1. N \in Nat /\ IsFiniteSet(T)
  BY FS_Subset, FS_CardinalityType
<1>2. Good(0)
  BY <1>1, Sizes DEF Sums
<1>3. ASSUME NEW n \in 1..N, Good(n - 1) PROVE Good(n)
  <2>1. SUFFICES ASSUME NEW s \in SUBSET T, Cardinality(s) = n PROVE g[s] = k[s]
    OBVIOUS
  <2>2. s # {}
    BY <1>1, <2>1, Sizes
  <2>3. Picked(s) \in s /\ s \ {Picked(s)} \in SUBSET T /\ Cardinality(s \ {Picked(s)}) = n - 1
    BY <1>1, <2>1, <2>2, Smaller
  <2>4. g[s] = f[Picked(s)] + g[s \ {Picked(s)}] /\ k[s] = h[Picked(s)] + k[s \ {Picked(s)}]
    BY <2>2 DEF Sums
  <2>5. g[s \ {Picked(s)}] = k[s \ {Picked(s)}] /\ f[Picked(s)] = h[Picked(s)]
    BY <1>3, <2>3
  <2> QED BY <2>4, <2>5
<1>4. 0..N \subseteq done
  <2>1. 0 \in done
    BY <1>1, <1>2
  <2>2. ASSUME NEW n \in 1..N, n - 1 \in done PROVE n \in done
    <3> HIDE DEF Good
    <3> QED BY <1>1, <1>3, <2>2
  <2> HIDE DEF done, N
  <2> QED BY <1>1, <2>1, <2>2, Climbs
<1> QED BY <1>1, <1>4

(* What a sum is, whatever order it is computed in *)
LEMMA SumGiven ==
  ASSUME NEW f, NEW S, IsFiniteSet(S)
  PROVE  \E g : Sums(g, f, S) /\ g[S] = SumFunctionOnSet(f, S)
<1> DEFINE g == CHOOSE g : Sums(g, f, S)
<1>1. Sums(g, f, S)
  BY SumsExist
<1>2. SumFunctionOnSet(f, S) = g[S]
  BY SumChosen
<1> HIDE DEF g
<1> QED BY <1>1, <1>2

LEMMA SumSame ==
  ASSUME NEW f, NEW h, NEW S, IsFiniteSet(S), \A x \in S : f[x] = h[x]
  PROVE  SumFunctionOnSet(f, S) = SumFunctionOnSet(h, S)
<1>1. PICK g : Sums(g, f, S) /\ g[S] = SumFunctionOnSet(f, S)
  BY SumGiven
<1>2. PICK k : Sums(k, h, S) /\ k[S] = SumFunctionOnSet(h, S)
  BY SumGiven
<1>3. g[S] = k[S]
  BY <1>1, <1>2, SumsAgree
<1> QED BY <1>1, <1>2, <1>3

LEMMA SumNone ==
  ASSUME NEW f
  PROVE  SumFunctionOnSet(f, {}) = 0
<1>1. IsFiniteSet({})
  BY FS_EmptySet
<1>2. PICK g : Sums(g, f, {}) /\ g[{}] = SumFunctionOnSet(f, {})
  BY <1>1, SumGiven
<1> QED BY <1>2 DEF Sums

LEMMA SumNumber ==
  ASSUME NEW f, NEW S, Summable(f, S)
  PROVE  SumFunctionOnSet(f, S) \in Int
<1>1. PICK g : Sums(g, f, S) /\ g[S] = SumFunctionOnSet(f, S)
  BY SumGiven DEF Summable
<1> QED BY <1>1, SumsNumber

LEMMA SumAdd ==
  ASSUME NEW f, NEW S, NEW x, x \notin S, Summable(f, S \cup {x})
  PROVE  SumFunctionOnSet(f, S \cup {x}) = f[x] + SumFunctionOnSet(f, S)
<1> DEFINE T == S \cup {x}
<1>1. PICK g : Sums(g, f, T) /\ g[T] = SumFunctionOnSet(f, T)
  BY SumGiven DEF Summable
<1>2. g[T] = f[x] + g[T \ {x}] /\ T \ {x} = S
  BY <1>1, SumsTake
<1>3. IsFiniteSet(T) /\ IsFiniteSet(S) /\ S \in SUBSET T
  BY FS_Subset DEF Summable
<1>4. PICK k : Sums(k, f, S) /\ k[S] = SumFunctionOnSet(f, S)
  BY <1>3, SumGiven
<1>5. g[S] = k[S]
  BY <1>1, <1>3, <1>4, SumsAgree
<1> QED BY <1>1, <1>2, <1>4, <1>5

LEMMA SumUnion ==
  ASSUME NEW f, NEW S, NEW T, S \cap T = {}, Summable(f, S \cup T)
  PROVE  SumFunctionOnSet(f, S \cup T) = SumFunctionOnSet(f, S) + SumFunctionOnSet(f, T)
<1> DEFINE P == {t \in SUBSET T : SumFunctionOnSet(f, S \cup t) = SumFunctionOnSet(f, S) + SumFunctionOnSet(f, t)}
<1>1. IsFiniteSet(T) /\ Summable(f, S) /\ \A t \in SUBSET T : Summable(f, S \cup t) /\ Summable(f, t)
  BY FS_Subset DEF Summable
<1>2. SumFunctionOnSet(f, S) \in Int /\ \A t \in SUBSET T : SumFunctionOnSet(f, t) \in Int
  BY <1>1, SumNumber
<1>3. {} \in P
  BY <1>2, SumNone
<1>4. ASSUME NEW t \in SUBSET T, NEW x \in T, x \notin t, t \in P
      PROVE  t \cup {x} \in P
  <2>1. SumFunctionOnSet(f, t \cup {x}) = f[x] + SumFunctionOnSet(f, t)
    BY <1>1, <1>4, SumAdd
  <2>2. SumFunctionOnSet(f, (S \cup t) \cup {x}) = f[x] + SumFunctionOnSet(f, S \cup t)
    <3>1. Summable(f, S \cup (t \cup {x})) /\ (S \cup t) \cup {x} = S \cup (t \cup {x})
      BY <1>1
    <3>2. x \notin S \cup t
      BY <1>4
    <3> QED BY <3>1, <3>2, SumAdd
  <2>3. (S \cup t) \cup {x} = S \cup (t \cup {x}) /\ f[x] \in Int
    BY DEF Summable
  <2>4. SumFunctionOnSet(f, S \cup t) = SumFunctionOnSet(f, S) + SumFunctionOnSet(f, t)
    BY <1>4
  <2>5. SumFunctionOnSet(f, S \cup (t \cup {x})) = SumFunctionOnSet(f, S) + SumFunctionOnSet(f, t \cup {x})
    BY <1>2, <2>1, <2>2, <2>3, <2>4, SMTT(40)
  <2> QED BY <2>5
<1>5. T \in P
  <2> HIDE DEF P
  <2> QED BY <1>1, <1>3, <1>4, Gathers
<1> QED BY <1>5

(* One element for each k: the same sum over either *)
LEMMA SumImage ==
  ASSUME NEW K, IsFiniteSet(K), NEW r, \A k, l \in K : r[k] = r[l] => k = l,
         NEW h, NEW v, \A k \in K : v[k] = h[r[k]] /\ v[k] \in Int
  PROVE  SumFunctionOnSet(h, {r[k] : k \in K}) = SumFunctionOnSet(v, K)
<1> DEFINE Image(s) == {r[k] : k \in s}
           P == {s \in SUBSET K : SumFunctionOnSet(h, Image(s)) = SumFunctionOnSet(v, s)}
<1>1. {} \in P
  <2>1. Image({}) = {}
    OBVIOUS
  <2> HIDE DEF Image
  <2> QED BY <2>1, SumNone
<1>2. ASSUME NEW s \in SUBSET K, NEW x \in K, x \notin s, s \in P
      PROVE  s \cup {x} \in P
  <2>1. Image(s \cup {x}) = Image(s) \cup {r[x]} /\ r[x] \notin Image(s)
    BY <1>2
  <2>2. IsFiniteSet(s)
    BY FS_Subset
  <2>3. IsFiniteSet(Image(s))
    BY <2>2, ValuesFinite
  <2>4. IsFiniteSet(Image(s) \cup {r[x]}) /\ IsFiniteSet(s \cup {x})
    BY <2>2, <2>3, FS_AddElement
  <2>5. \A y \in Image(s \cup {x}) : h[y] \in Int
    <3>1. \A k \in K : h[r[k]] \in Int
      OBVIOUS
    <3>2. s \cup {x} \in SUBSET K
      OBVIOUS
    <3> QED BY <3>1, <3>2
  <2>6. Summable(h, Image(s) \cup {r[x]}) /\ Summable(v, s \cup {x})
    BY <2>1, <2>4, <2>5 DEF Summable
  <2>7. SumFunctionOnSet(h, Image(s)) = SumFunctionOnSet(v, s)
    BY <1>2
  <2> HIDE DEF Image
  <2>8. SumFunctionOnSet(h, Image(s) \cup {r[x]}) = h[r[x]] + SumFunctionOnSet(h, Image(s))
    BY <2>1, <2>6, SumAdd
  <2>9. SumFunctionOnSet(v, s \cup {x}) = v[x] + SumFunctionOnSet(v, s)
    BY <1>2, <2>6, SumAdd
  <2>10. v[x] = h[r[x]]
    OBVIOUS
  <2> QED BY <2>1, <2>7, <2>8, <2>9, <2>10
<1>3. K \in P
  <2> HIDE DEF P
  <2> QED BY <1>1, <1>2, Gathers
<1> QED BY <1>3

(* Each element is in the group of its key. *)
Group(S, key, k) == {x \in S : key[x] = k}

LEMMA SumGroups ==
  ASSUME NEW f, NEW S, Summable(f, S), NEW key, NEW K, IsFiniteSet(K), \A x \in S : key[x] \in K,
         NEW v, \A k \in K : v[k] = SumFunctionOnSet(f, Group(S, key, k))
  PROVE  SumFunctionOnSet(v, K) = SumFunctionOnSet(f, S)
<1> DEFINE Of(s) == {x \in S : key[x] \in s}
           Part(k) == Group(S, key, k)
           P == {s \in SUBSET K : SumFunctionOnSet(v, s) = SumFunctionOnSet(f, Of(s))}
<1>1. \A T \in SUBSET S : Summable(f, T)
  BY FS_Subset DEF Summable
<1>2. {} \in P
  <2>1. Of({}) = {}
    OBVIOUS
  <2> HIDE DEF Of
  <2> QED BY <2>1, SumNone
<1>3. ASSUME NEW s \in SUBSET K, NEW k \in K, k \notin s, s \in P
      PROVE  s \cup {k} \in P
  <2>1. Of(s \cup {k}) = Of(s) \cup Part(k) /\ Of(s) \cap Part(k) = {} /\ Of(s \cup {k}) \in SUBSET S
    BY <1>3 DEF Group
  <2>2. v[k] = SumFunctionOnSet(f, Part(k)) /\ \A l \in K : Part(l) \in SUBSET S
    BY DEF Group
  <2>3. \A l \in K : v[l] \in Int
    <3>1. ASSUME NEW l \in K PROVE v[l] \in Int
      <4>1. Part(l) \in SUBSET S /\ v[l] = SumFunctionOnSet(f, Part(l))
        BY DEF Group
      <4> HIDE DEF Part
      <4> QED BY <1>1, <4>1, SumNumber
    <3> QED BY <3>1
  <2>4. IsFiniteSet(s \cup {k})
    BY FS_Subset
  <2>5. Summable(v, s \cup {k})
    BY <2>3, <2>4 DEF Summable
  <2>6. SumFunctionOnSet(v, s \cup {k}) = v[k] + SumFunctionOnSet(v, s)
    BY <1>3, <2>5, SumAdd
  <2>7. SumFunctionOnSet(v, s) = SumFunctionOnSet(f, Of(s))
    BY <1>3
  <2>8. Of(s) \in SUBSET S /\ Part(k) \in SUBSET S
    BY DEF Group
  <2> HIDE DEF Of, Part
  <2>9. SumFunctionOnSet(f, Of(s) \cup Part(k)) = SumFunctionOnSet(f, Of(s)) + SumFunctionOnSet(f, Part(k))
    BY <1>1, <2>1, SumUnion
  <2>10. SumFunctionOnSet(f, Of(s)) \in Int /\ SumFunctionOnSet(f, Part(k)) \in Int
    BY <1>1, <2>8, SumNumber
  <2>11. SumFunctionOnSet(v, s \cup {k}) = SumFunctionOnSet(f, Of(s \cup {k}))
    <3>1. SumFunctionOnSet(f, Of(s \cup {k})) = SumFunctionOnSet(f, Of(s)) + SumFunctionOnSet(f, Part(k))
      BY <2>1, <2>9, Zenon
    <3>2. SumFunctionOnSet(v, s \cup {k}) = SumFunctionOnSet(f, Part(k)) + SumFunctionOnSet(f, Of(s))
      BY <2>2, <2>6, <2>7, Zenon
    <3> DEFINE a == SumFunctionOnSet(f, Of(s))
               b == SumFunctionOnSet(f, Part(k))
    <3>3. a + b = b + a
      <4>1. a \in Int /\ b \in Int
        BY <2>10
      <4> HIDE DEF a, b
      <4> QED BY <4>1
    <3> QED BY <3>1, <3>2, <3>3, Zenon
  <2> QED BY <2>11
<1>4. K \in P
  <2> HIDE DEF P
  <2> QED BY <1>2, <1>3, Gathers
<1>5. Of(K) = S
  OBVIOUS
<1> HIDE DEF Of
<1> QED BY <1>4, <1>5

LEMMA SumNatural ==
  ASSUME NEW f, NEW S, IsFiniteSet(S), \A x \in S : f[x] \in Nat
  PROVE  /\ SumFunctionOnSet(f, S) \in Nat
         /\ \A x \in S : f[x] =< SumFunctionOnSet(f, S)
<1> DEFINE P == {s \in SUBSET S : SumFunctionOnSet(f, s) \in Nat}
<1>1. \A s \in SUBSET S : Summable(f, s)
  BY FS_Subset DEF Summable
<1>2. {} \in P
  BY SumNone
<1>3. ASSUME NEW s \in SUBSET S, NEW x \in S, x \notin s, s \in P PROVE s \cup {x} \in P
  <2>1. SumFunctionOnSet(f, s \cup {x}) = f[x] + SumFunctionOnSet(f, s)
    <3>1. Summable(f, s \cup {x}) /\ x \notin s
      BY <1>1, <1>3
    <3> QED BY <3>1, SumAdd
  <2> QED BY <1>3, <2>1
<1>4. \A T \in SUBSET S : SumFunctionOnSet(f, T) \in Nat
  <2>1. ASSUME NEW T \in SUBSET S PROVE T \in P
    <3>1. IsFiniteSet(T) /\ \A s \in SUBSET T : \A x \in T : x \notin s /\ s \in P => s \cup {x} \in P
      BY <1>3, FS_Subset
    <3> HIDE DEF P
    <3> QED BY <1>2, <3>1, Gathers
  <2> QED BY <2>1
<1>5. ASSUME NEW x \in S PROVE f[x] =< SumFunctionOnSet(f, S)
  <2>1. (S \ {x}) \cup {x} = S /\ x \notin S \ {x}
    OBVIOUS
  <2>2. SumFunctionOnSet(f, S) = f[x] + SumFunctionOnSet(f, S \ {x})
    BY <1>1, <2>1, SumAdd
  <2>3. SumFunctionOnSet(f, S \ {x}) \in Nat
    BY <1>4
  <2> QED BY <2>2, <2>3
<1> QED BY <1>4, <1>5

LEMMA SumPlus ==
  ASSUME NEW f, NEW h, NEW S, Summable(f, S), Summable(h, S), NEW v, \A x \in S : v[x] = f[x] + h[x]
  PROVE  SumFunctionOnSet(v, S) = SumFunctionOnSet(f, S) + SumFunctionOnSet(h, S)
<1> DEFINE P == {s \in SUBSET S : SumFunctionOnSet(v, s) = SumFunctionOnSet(f, s) + SumFunctionOnSet(h, s)}
<1>1. \A s \in SUBSET S : Summable(f, s) /\ Summable(h, s) /\ Summable(v, s)
  BY FS_Subset DEF Summable
<1>2. {} \in P
  BY SumNone
<1>3. ASSUME NEW s \in SUBSET S, NEW x \in S, x \notin s, s \in P PROVE s \cup {x} \in P
  <2>1. /\ SumFunctionOnSet(f, s \cup {x}) = f[x] + SumFunctionOnSet(f, s)
        /\ SumFunctionOnSet(h, s \cup {x}) = h[x] + SumFunctionOnSet(h, s)
        /\ SumFunctionOnSet(v, s \cup {x}) = v[x] + SumFunctionOnSet(v, s)
    <3>1. Summable(f, s \cup {x}) /\ Summable(h, s \cup {x}) /\ Summable(v, s \cup {x}) /\ x \notin s
      BY <1>1, <1>3
    <3> QED BY <3>1, SumAdd
  <2>2. SumFunctionOnSet(f, s) \in Int /\ SumFunctionOnSet(h, s) \in Int
    BY <1>1, SumNumber
  <2>3. f[x] \in Int /\ h[x] \in Int /\ v[x] = f[x] + h[x]
    BY DEF Summable
  <2>4. SumFunctionOnSet(v, s) = SumFunctionOnSet(f, s) + SumFunctionOnSet(h, s)
    BY <1>3
  <2>5. SumFunctionOnSet(v, s \cup {x}) = SumFunctionOnSet(f, s \cup {x}) + SumFunctionOnSet(h, s \cup {x})
    BY <2>1, <2>2, <2>3, <2>4
  <2> QED BY <2>5
<1>4. S \in P
  <2>1. IsFiniteSet(S)
    BY DEF Summable
  <2> HIDE DEF P
  <2> QED BY <1>2, <1>3, <2>1, Gathers
<1> QED BY <1>4

LEMMA SumZero ==
  ASSUME NEW f, NEW S, IsFiniteSet(S), \A x \in S : f[x] = 0
  PROVE  SumFunctionOnSet(f, S) = 0
<1> DEFINE P == {s \in SUBSET S : SumFunctionOnSet(f, s) = 0}
<1>1. \A s \in SUBSET S : Summable(f, s)
  BY FS_Subset DEF Summable
<1>2. {} \in P
  BY SumNone
<1>3. ASSUME NEW s \in SUBSET S, NEW x \in S, x \notin s, s \in P PROVE s \cup {x} \in P
  <2>1. SumFunctionOnSet(f, s \cup {x}) = f[x] + SumFunctionOnSet(f, s)
    <3>1. Summable(f, s \cup {x}) /\ x \notin s
      BY <1>1, <1>3
    <3> QED BY <3>1, SumAdd
  <2> QED BY <1>3, <2>1
<1>4. S \in P
  <2> HIDE DEF P
  <2> QED BY <1>2, <1>3, Gathers
<1> QED BY <1>4

LEMMA SumLess ==
  ASSUME NEW f, NEW h, NEW S, IsFiniteSet(S), \A x \in S : f[x] \in Nat /\ h[x] \in Nat /\ f[x] =< h[x]
  PROVE  SumFunctionOnSet(f, S) \in Nat /\ SumFunctionOnSet(h, S) \in Nat
         /\ SumFunctionOnSet(f, S) =< SumFunctionOnSet(h, S)
<1> DEFINE rest == [x \in S |-> h[x] - f[x]]
<1>1. \A x \in S : rest[x] \in Nat /\ h[x] = f[x] + rest[x]
  OBVIOUS
<1> HIDE DEF rest
<1>2. Summable(f, S) /\ Summable(rest, S)
  BY <1>1 DEF Summable
<1>3. SumFunctionOnSet(h, S) = SumFunctionOnSet(f, S) + SumFunctionOnSet(rest, S)
  BY <1>1, <1>2, SumPlus
<1>4. SumFunctionOnSet(f, S) \in Nat /\ SumFunctionOnSet(rest, S) \in Nat /\ SumFunctionOnSet(h, S) \in Nat
  BY <1>1, SumNatural
<1> QED BY <1>3, <1>4

(* The size of a set is a sum. *)
LEMMA SumOnes ==
  ASSUME NEW f, NEW S, IsFiniteSet(S), \A x \in S : f[x] = 1
  PROVE  SumFunctionOnSet(f, S) = Cardinality(S)
<1> DEFINE P == {s \in SUBSET S : SumFunctionOnSet(f, s) = Cardinality(s)}
<1>1. \A s \in SUBSET S : IsFiniteSet(s) /\ Summable(f, s)
  BY FS_Subset DEF Summable
<1>2. {} \in P
  BY SumNone, FS_EmptySet
<1>3. ASSUME NEW s \in SUBSET S, NEW x \in S, x \notin s, s \in P PROVE s \cup {x} \in P
  <2>1. SumFunctionOnSet(f, s \cup {x}) = f[x] + SumFunctionOnSet(f, s)
    <3>1. Summable(f, s \cup {x}) /\ x \notin s
      BY <1>1, <1>3
    <3> QED BY <3>1, SumAdd
  <2>2. Cardinality(s \cup {x}) = Cardinality(s) + 1 /\ Cardinality(s) \in Nat
    BY <1>1, <1>3, FS_AddElement, FS_CardinalityType
  <2> QED BY <1>3, <2>1, <2>2
<1>4. S \in P
  <2> HIDE DEF P
  <2> QED BY <1>2, <1>3, Gathers
<1> QED BY <1>4

(* Parts of a whole, each rounded: the sum is off by half a unit for each at most. *)
LEMMA SumRounded ==
  ASSUME NEW n, NEW v, NEW d \in Nat, NEW S, Summable(n, S), Summable(v, S),
         \A x \in S : 2 * (d * v[x]) =< 2 * n[x] + d /\ 2 * n[x] =< 2 * (d * v[x]) + d
  PROVE  LET N == SumFunctionOnSet(n, S)
             V == SumFunctionOnSet(v, S)
         IN  2 * (d * V) =< 2 * N + d * Cardinality(S) /\ 2 * N =< 2 * (d * V) + d * Cardinality(S)
<1> DEFINE Near(s) == /\ 2 * (d * SumFunctionOnSet(v, s)) =< 2 * SumFunctionOnSet(n, s) + d * Cardinality(s)
                      /\ 2 * SumFunctionOnSet(n, s) =< 2 * (d * SumFunctionOnSet(v, s)) + d * Cardinality(s)
           P == {s \in SUBSET S : Near(s)}
<1>1. \A s \in SUBSET S : Summable(n, s) /\ Summable(v, s) /\ IsFiniteSet(s)
  BY FS_Subset DEF Summable
<1>2. Near({})
  BY SumNone, FS_EmptySet
<1>3. ASSUME NEW s \in SUBSET S, NEW x \in S, x \notin s, Near(s) PROVE Near(s \cup {x})
  <2>1. /\ SumFunctionOnSet(n, s \cup {x}) = n[x] + SumFunctionOnSet(n, s)
        /\ SumFunctionOnSet(v, s \cup {x}) = v[x] + SumFunctionOnSet(v, s)
    <3>1. Summable(n, s \cup {x}) /\ Summable(v, s \cup {x}) /\ x \notin s
      BY <1>1, <1>3
    <3> QED BY <3>1, SumAdd
  <2>2. SumFunctionOnSet(n, s) \in Int /\ SumFunctionOnSet(v, s) \in Int
    BY <1>1, SumNumber
  <2>3. n[x] \in Int /\ v[x] \in Int
    BY DEF Summable
  <2>4. Cardinality(s \cup {x}) = Cardinality(s) + 1 /\ Cardinality(s) \in Nat
    BY <1>1, <1>3, FS_AddElement, FS_CardinalityType
  <2> DEFINE V == SumFunctionOnSet(v, s)
             C == Cardinality(s)
             y == v[x]
  <2>5. d * (y + V) = d * y + d * V /\ d * (C + 1) = d * C + d
    <3>1. y \in Int /\ V \in Int /\ C \in Int /\ d \in Int
      BY <2>2, <2>3, <2>4
    <3> HIDE DEF V, C, y
    <3> QED BY <3>1
  <2>6. d * y \in Int /\ d * V \in Int /\ d * C \in Int
    BY <2>2, <2>3, <2>4
  <2>7. 2 * (d * y) =< 2 * n[x] + d /\ 2 * n[x] =< 2 * (d * y) + d
    OBVIOUS
  <2>8. /\ 2 * (d * V) =< 2 * SumFunctionOnSet(n, s) + d * C
        /\ 2 * SumFunctionOnSet(n, s) =< 2 * (d * V) + d * C
    BY <1>3
  <2> DEFINE a == d * y
             b == d * V
             c == d * C
             M == SumFunctionOnSet(n, s)
  <2>9. /\ 2 * (a + b) =< 2 * (n[x] + M) + (c + d)
        /\ 2 * (n[x] + M) =< 2 * (a + b) + (c + d)
    <3>1. a \in Int /\ b \in Int /\ c \in Int /\ M \in Int /\ n[x] \in Int /\ d \in Int
      BY <2>2, <2>3, <2>6
    <3>2. 2 * a =< 2 * n[x] + d /\ 2 * n[x] =< 2 * a + d
      BY <2>7
    <3>3. 2 * b =< 2 * M + c /\ 2 * M =< 2 * b + c
      BY <2>8
    <3> HIDE DEF a, b, c, M
    <3> QED BY <3>1, <3>2, <3>3
  <2> QED BY <2>1, <2>4, <2>5, <2>9
<1>4. S \in P
  <2>1. IsFiniteSet(S)
    BY DEF Summable
  <2>2. {} \in P
    BY <1>2
  <2>3. ASSUME NEW s \in SUBSET S, NEW x \in S, x \notin s, s \in P PROVE s \cup {x} \in P
    <3> HIDE DEF Near
    <3> QED BY <1>3, <2>3
  <2> HIDE DEF P
  <2> QED BY <2>1, <2>2, <2>3, Gathers
<1> QED BY <1>4

LEMMA SumTimes ==
  ASSUME NEW f, NEW S, Summable(f, S), NEW c \in Int, NEW v, \A x \in S : v[x] = c * f[x]
  PROVE  SumFunctionOnSet(v, S) = c * SumFunctionOnSet(f, S)
<1> DEFINE P == {s \in SUBSET S : SumFunctionOnSet(v, s) = c * SumFunctionOnSet(f, s)}
<1>1. \A s \in SUBSET S : Summable(f, s) /\ Summable(v, s)
  BY FS_Subset DEF Summable
<1>2. {} \in P
  BY SumNone
<1>3. ASSUME NEW s \in SUBSET S, NEW x \in S, x \notin s, s \in P PROVE s \cup {x} \in P
  <2>1. /\ SumFunctionOnSet(f, s \cup {x}) = f[x] + SumFunctionOnSet(f, s)
        /\ SumFunctionOnSet(v, s \cup {x}) = v[x] + SumFunctionOnSet(v, s)
    <3>1. Summable(f, s \cup {x}) /\ Summable(v, s \cup {x}) /\ x \notin s
      BY <1>1, <1>3
    <3> QED BY <3>1, SumAdd
  <2>2. SumFunctionOnSet(f, s) \in Int
    BY <1>1, SumNumber
  <2>3. f[x] \in Int /\ v[x] = c * f[x]
    BY DEF Summable
  <2>4. SumFunctionOnSet(v, s) = c * SumFunctionOnSet(f, s)
    BY <1>3
  <2> DEFINE a == f[x]
             b == SumFunctionOnSet(f, s)
  <2>5. c * (a + b) = c * a + c * b
    <3>1. a \in Int /\ b \in Int
      BY <2>2, <2>3
    <3> HIDE DEF a, b
    <3> QED BY <3>1
  <2>6. SumFunctionOnSet(v, s \cup {x}) = c * SumFunctionOnSet(f, s \cup {x})
    BY <2>1, <2>3, <2>4, <2>5
  <2> QED BY <2>6
<1>4. S \in P
  <2>1. IsFiniteSet(S)
    BY DEF Summable
  <2> HIDE DEF P
  <2> QED BY <1>2, <1>3, <2>1, Gathers
<1> QED BY <1>4

LEMMA ImageSize ==
  ASSUME NEW K, IsFiniteSet(K), NEW r, \A k, l \in K : r[k] = r[l] => k = l
  PROVE  Cardinality({r[k] : k \in K}) = Cardinality(K)
<1> DEFINE T == {r[k] : k \in K}
           g == [k \in K |-> r[k]]
<1>1. g \in Bijection(K, T)
  BY DEF Bijection, Injection, Surjection, IsInjective
<1> HIDE DEF T, g
<1>2. ExistsBijection(K, T)
  BY <1>1 DEF ExistsBijection
<1>3. Cardinality(T) = Cardinality(K)
  BY <1>2, FS_Bijection
<1> QED BY <1>3 DEF T

LEMMA Cancels ==
  ASSUME NEW p \in Nat, p > 0, NEW x \in Int, NEW y \in Int, p * x =< p * y
  PROVE  x =< y
<1>1. SUFFICES ASSUME y + 1 =< x PROVE FALSE
  OBVIOUS
<1>2. p * (y + 1) =< p * x
  BY <1>1
<1>3. p * (y + 1) = p * y + p
  OBVIOUS
<1>4. p * y \in Int /\ p * x \in Int
  OBVIOUS
<1> QED BY <1>2, <1>3, <1>4

(* A table with a row for each key, and the sum of a column of it *)
RowsFor(r, K) == {r[k] : k \in K}
Tabulates(r, K, g, f, S, key) ==
    /\ Summable(f, S) /\ IsFiniteSet(K) /\ \A x \in S : key[x] \in K
    /\ \A k, l \in K : r[k] = r[l] => k = l
    /\ \A k \in K : g[r[k]] = SumFunctionOnSet(f, Group(S, key, k))

LEMMA SumTable ==
  ASSUME NEW r, NEW K, NEW g, NEW f, NEW S, NEW key, Tabulates(r, K, g, f, S, key)
  PROVE  SumFunctionOnSet(g, RowsFor(r, K)) = SumFunctionOnSet(f, S)
<1> DEFINE v == [k \in K |-> SumFunctionOnSet(f, Group(S, key, k))]
<1>1. \A k \in K : v[k] = SumFunctionOnSet(f, Group(S, key, k)) /\ v[k] = g[r[k]]
  BY DEF Tabulates
<1>2. \A k \in K : v[k] \in Int
  <2>1. ASSUME NEW k \in K PROVE v[k] \in Int
    <3> DEFINE some == Group(S, key, k)
    <3>1. Summable(f, some)
      BY FS_Subset DEF Tabulates, Summable, Group
    <3>2. v[k] = SumFunctionOnSet(f, some)
      OBVIOUS
    <3> HIDE DEF some, v
    <3> QED BY <3>1, <3>2, SumNumber
  <2> QED BY <2>1
<1> HIDE DEF v
<1>3. SumFunctionOnSet(v, K) = SumFunctionOnSet(f, S)
  BY <1>1, SumGroups DEF Tabulates
<1>4. \A k \in K : v[k] = g[r[k]] /\ v[k] \in Int
  BY <1>1, <1>2
<1>5. SumFunctionOnSet(g, {r[k] : k \in K}) = SumFunctionOnSet(v, K)
  BY <1>4, SumImage DEF Tabulates
<1> QED BY <1>3, <1>5 DEF RowsFor

(* What is nothing may be left out. *)
LEMMA SumRest ==
  ASSUME NEW f, NEW S, Summable(f, S), NEW T \in SUBSET S, \A x \in S \ T : f[x] = 0
  PROVE  Summable(f, T) /\ SumFunctionOnSet(f, T) = SumFunctionOnSet(f, S)
<1> DEFINE U == S \ T
<1>1. T \cup U = S /\ T \cap U = {}
  OBVIOUS
<1>2. IsFiniteSet(U) /\ Summable(f, T)
  BY FS_Subset DEF Summable
<1>3. \A x \in U : f[x] = 0
  OBVIOUS
<1> HIDE DEF U
<1>4. SumFunctionOnSet(f, U) = 0
  BY <1>2, <1>3, SumZero
<1>5. SumFunctionOnSet(f, S) = SumFunctionOnSet(f, T) + SumFunctionOnSet(f, U)
  <2>1. Summable(f, T \cup U)
    BY <1>1
  <2>2. SumFunctionOnSet(f, T \cup U) = SumFunctionOnSet(f, T) + SumFunctionOnSet(f, U)
    BY <1>1, <2>1, SumUnion
  <2> QED BY <1>1, <2>2, Zenon
<1>6. SumFunctionOnSet(f, T) \in Int
  BY <1>2, SumNumber
<1> QED BY <1>2, <1>4, <1>5, <1>6

(* A part of naturals has no greater sum. *)
LEMMA SumPart ==
  ASSUME NEW f, NEW S, IsFiniteSet(S), \A x \in S : f[x] \in Nat, NEW T \in SUBSET S
  PROVE  SumFunctionOnSet(f, T) \in Nat /\ SumFunctionOnSet(f, T) =< SumFunctionOnSet(f, S)
<1> DEFINE U == S \ T
<1>1. T \cup U = S /\ T \cap U = {}
  OBVIOUS
<1>2. IsFiniteSet(U) /\ IsFiniteSet(T) /\ (\A x \in U : f[x] \in Nat) /\ \A x \in T : f[x] \in Nat
  BY FS_Subset
<1> HIDE DEF U
<1>3. SumFunctionOnSet(f, T) \in Nat /\ SumFunctionOnSet(f, U) \in Nat
  BY <1>2, SumNatural
<1>4. SumFunctionOnSet(f, S) = SumFunctionOnSet(f, T) + SumFunctionOnSet(f, U)
  <2>1. Summable(f, T \cup U)
    BY <1>1 DEF Summable
  <2>2. SumFunctionOnSet(f, T \cup U) = SumFunctionOnSet(f, T) + SumFunctionOnSet(f, U)
    BY <1>1, <2>1, SumUnion
  <2> QED BY <1>1, <2>2, Zenon
<1> QED BY <1>3, <1>4
=============================================================================
