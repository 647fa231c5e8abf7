----------------------- MODULE ReservationLedgerProofs -----------------------
(***************************************************************************)
(* What follows from the promises of ReservationLedger, for finitely many  *)
(* requests, any nodes and any works.  The laws of sums come first: they   *)
(* are proved by descent on the size of a set, since a sum is a fold over  *)
(* the set in an order that CHOOSE picks.                                  *)
(***************************************************************************)
EXTENDS ReservationLedger, TLAPS, FiniteSetTheorems, WellFoundedInduction

-----------------------------------------------------------------------------
(* The laws of sums over finite sets.  A fold takes the elements of a set  *)
(* in an order of its own: pick[s] is the one that it takes of s.          *)

Picks(pick, U) == \A s \in SUBSET U : s # {} => pick[s] \in s

\* The equations of the fold that sums f over the subsets of U.
Sums(F, f, pick, U) ==
    F = [s \in SUBSET U |-> IF s = {} THEN 0 ELSE f[pick[s]] + F[s \ {pick[s]}]]

\* Every set of numbers that is not empty has a least element.
LEMMA Least ==
    ASSUME NEW S \in SUBSET Nat, S # {}
    PROVE  \E m \in S : \A k \in S : m <= k
<1>1. PICK m \in S : \A k \in S : ~(<<k, m>> \in OpToRel(<, Nat))
    BY WFMin, NatLessThanWellFounded, Zenon
<1>2. \A k \in S : ~(k < m)
    BY <1>1 DEF OpToRel
<1> QED
    BY <1>2

\* Infinite descent: a set of numbers without a least element is empty.
LEMMA Descent ==
    ASSUME NEW S \in SUBSET Nat, \A n \in S : \E k \in S : k < n
    PROVE  S = {}
<1>1. ASSUME S # {} PROVE FALSE
  <2>1. PICK m \in S : \A k \in S : m <= k
      BY <1>1, Least
  <2>2. PICK k \in S : k < m
      OBVIOUS
  <2>3. m \in Nat /\ k \in Nat /\ m <= k
      BY <2>1
  <2> QED
      BY <2>2, <2>3
<1> QED
    BY <1>1

\* The size of a subset, with and without one of its elements.
LEMMA Sizes ==
    ASSUME NEW U, IsFiniteSet(U), NEW s \in SUBSET U
    PROVE  /\ Cardinality(s) \in Nat /\ Cardinality(s) <= Cardinality(U)
           /\ IsFiniteSet(s)
           /\ Cardinality(s) = 0 <=> s = {}
           /\ \A x \in s : Cardinality(s \ {x}) = Cardinality(s) - 1
BY FS_Subset, FS_CardinalityType, FS_EmptySet, FS_RemoveElement

\* The equations have a solution: one for the sets of up to n elements gives
\* one for those of n + 1.
LEMMA SumsExist ==
    ASSUME NEW U, IsFiniteSet(U), NEW f, \A x \in U : f[x] \in Int,
           NEW pick, Picks(pick, U)
    PROVE  \E F : Sums(F, f, pick, U)
<1> DEFINE rhs(F, s) == IF s = {} THEN 0 ELSE f[pick[s]] + F[s \ {pick[s]}]
           UpTo(n) == \E F \in [SUBSET U -> Int] :
                         \A s \in SUBSET U : Cardinality(s) <= n => F[s] = rhs(F, s)
           Bad == {n \in Nat : ~UpTo(n)}
<1>1. Bad = {}
  <2> SUFFICES ASSUME NEW n \in Nat, ~UpTo(n) PROVE n - 1 \in Nat /\ ~UpTo(n - 1)
    <3>1. \A n \in Bad : n - 1 \in Bad /\ n - 1 < n
      <4> HIDE DEF UpTo
      <4> QED
          OBVIOUS
    <3> HIDE DEF UpTo
    <3> QED
        BY <3>1, Descent
  <2>1. n # 0
    <3> DEFINE zero == [s \in SUBSET U |-> 0]
    <3>1. \A s \in SUBSET U : Cardinality(s) <= 0 => zero[s] = rhs(zero, s)
        BY Sizes
    <3>2. zero \in [SUBSET U -> Int]
        OBVIOUS
    <3> HIDE DEF zero
    <3> QED
        BY <3>1, <3>2
  <2>2. ASSUME NEW F \in [SUBSET U -> Int],
               \A s \in SUBSET U : Cardinality(s) <= n - 1 => F[s] = rhs(F, s)
        PROVE  FALSE
    <3> DEFINE G == [s \in SUBSET U |-> rhs(F, s)]
    <3>1. G \in [SUBSET U -> Int]
      <4> SUFFICES ASSUME NEW s \in SUBSET U PROVE rhs(F, s) \in Int
          OBVIOUS
      <4>1. s # {} => pick[s] \in U /\ s \ {pick[s]} \in SUBSET U
          BY DEF Picks
      <4> QED
          BY <4>1
    <3>2. ASSUME NEW s \in SUBSET U, Cardinality(s) <= n PROVE G[s] = rhs(G, s)
      <4>1. CASE s = {}
          BY <4>1
      <4>2. CASE s # {}
        <5> DEFINE t == s \ {pick[s]}
        <5>1. pick[s] \in s /\ t \in SUBSET U
            BY <4>2 DEF Picks
        <5>2. Cardinality(t) = Cardinality(s) - 1 /\ Cardinality(s) \in Nat
            BY <5>1, Sizes
        <5>3. Cardinality(t) <= n - 1
            BY <3>2, <5>2
        <5>4. G[t] = F[t]
            BY <2>2, <5>1, <5>3
        <5> QED
            BY <4>2, <5>4
      <4> QED
          BY <4>1, <4>2
    <3> HIDE DEF G
    <3> QED
        BY <3>1, <3>2
  <2>3. ~UpTo(n - 1)
      BY <2>2
  <2> HIDE DEF UpTo
  <2> QED
      BY <2>1, <2>3
<1>2. UpTo(Cardinality(U))
  <2>1. Cardinality(U) \in Nat
      BY Sizes
  <2> HIDE DEF UpTo
  <2> QED
      BY <1>1, <2>1
<1>3. PICK F \in [SUBSET U -> Int] :
         \A s \in SUBSET U : Cardinality(s) <= Cardinality(U) => F[s] = rhs(F, s)
    BY <1>2
<1>4. \A s \in SUBSET U : F[s] = rhs(F, s)
    BY <1>3, Sizes
<1>5. F = [s \in SUBSET U |-> rhs(F, s)]
    BY <1>4
<1> QED
    BY <1>5 DEF Sums

\* The solution sums f: in whatever order the fold takes the elements, adding
\* an element to a set adds its value to the sum.
LEMMA SumsAdd ==
    ASSUME NEW U, IsFiniteSet(U), NEW f, \A x \in U : f[x] \in Int,
           NEW pick, Picks(pick, U), NEW F, Sums(F, f, pick, U)
    PROVE  /\ F[{}] = 0
           /\ \A s \in SUBSET U : F[s] \in Int
           /\ \A s \in SUBSET U : \A x \in U \ s : F[s \cup {x}] = f[x] + F[s]
<1>0. /\ F[{}] = 0
      /\ \A s \in SUBSET U : s # {} => /\ F[s] = f[pick[s]] + F[s \ {pick[s]}]
                                      /\ pick[s] \in s /\ s \ {pick[s]} \in SUBSET U
                                      /\ f[pick[s]] \in Int
    BY DEF Sums, Picks
<1>1. \A s \in SUBSET U : F[s] \in Int
  <2> DEFINE Bad == {n \in Nat : \E s \in SUBSET U : Cardinality(s) = n /\ F[s] \notin Int}
  <2>1. ASSUME NEW s \in SUBSET U, F[s] \notin Int
        PROVE  \E t \in SUBSET U : F[t] \notin Int /\ Cardinality(t) < Cardinality(s)
    <3>0. 0 \in Int
        OBVIOUS
    <3>1. s # {}
        BY <1>0, <2>1, <3>0, Zenon
    <3> DEFINE t == s \ {pick[s]}
    <3>2. t \in SUBSET U /\ Cardinality(t) = Cardinality(s) - 1 /\ Cardinality(s) \in Nat
        BY <1>0, <3>1, Sizes
    <3>3. ASSUME F[t] \in Int PROVE FALSE
      <4>1. F[s] = f[pick[s]] + F[t] /\ f[pick[s]] \in Int
          BY <1>0, <3>1
      <4> HIDE DEF t
      <4> QED
          BY <2>1, <3>3, <4>1
    <3> QED
        BY <3>2, <3>3
  <2>2. \A n \in Bad : \E k \in Bad : k < n
      BY <2>1, Sizes
  <2>3. Bad = {}
    <3> HIDE DEF Bad
    <3>1. Bad \in SUBSET Nat
        BY DEF Bad
    <3> QED
        BY <2>2, <3>1, Descent
  <2> QED
      BY <2>3, Sizes
<1>2. \A s \in SUBSET U : \A x \in U \ s : F[s \cup {x}] = f[x] + F[s]
  <2> DEFINE Bad == {n \in Nat : \E s \in SUBSET U : \E x \in U \ s :
                        Cardinality(s) = n /\ F[s \cup {x}] # f[x] + F[s]}
  <2>1. ASSUME NEW s \in SUBSET U, NEW x \in U \ s, F[s \cup {x}] # f[x] + F[s]
        PROVE  \E u \in SUBSET U : \E y \in U \ u :
                  F[u \cup {y}] # f[y] + F[u] /\ Cardinality(u) < Cardinality(s)
    <3> DEFINE t == s \cup {x}
               p == pick[t]
               u == s \ {p}
    <3>1. F[t] = f[p] + F[t \ {p}] /\ p \in t /\ f[p] \in Int
        BY <1>0
    <3>2. p # x
        BY <2>1, <3>1
    <3>3. /\ p \in s /\ t \ {p} = u \cup {x} /\ s = u \cup {p}
          /\ u \in SUBSET U /\ x \in U \ u /\ p \in U \ u
        BY <3>1, <3>2
    <3>4. Cardinality(u) = Cardinality(s) - 1 /\ Cardinality(s) \in Nat
        BY <3>3, Sizes
    <3>5. F[u] \in Int /\ f[x] \in Int
        BY <1>1, <3>3
    <3>6. ASSUME F[u \cup {x}] = f[x] + F[u], F[u \cup {p}] = f[p] + F[u]
          PROVE  FALSE
      <4>1. F[t] = f[p] + (f[x] + F[u])
          BY <3>1, <3>3, <3>6, Zenon
      <4>2. F[s] = f[p] + F[u]
          BY <3>3, <3>6, Zenon
      <4> HIDE DEF p, u
      <4> QED
          BY <2>1, <3>1, <3>5, <4>1, <4>2
    <3> HIDE DEF p, u
    <3>7. \E y \in U \ u : F[u \cup {y}] # f[y] + F[u]
        BY <3>3, <3>6
    <3>8. Cardinality(u) < Cardinality(s)
        BY <3>4
    <3> QED
        BY <3>3, <3>7, <3>8
  <2>2. ASSUME NEW n \in Bad PROVE \E k \in Bad : k < n
    <3>1. PICK s \in SUBSET U : Cardinality(s) = n /\ \E x \in U \ s : F[s \cup {x}] # f[x] + F[s]
        OBVIOUS
    <3>2. PICK u \in SUBSET U : Cardinality(u) < n /\ \E y \in U \ u : F[u \cup {y}] # f[y] + F[u]
        BY <2>1, <3>1
    <3>3. Cardinality(u) \in Bad
        BY <3>2, Sizes
    <3> QED
        BY <3>2, <3>3
  <2>3. Bad = {}
    <3> HIDE DEF Bad
    <3>1. Bad \in SUBSET Nat
        BY DEF Bad
    <3> QED
        BY <2>2, <3>1, Descent
  <2> QED
      BY <2>3, Sizes
<1> QED
    BY <1>0, <1>1, <1>2

\* Two such folds agree on a set on which their functions do.
LEMMA SumsAgree ==
    ASSUME NEW U, IsFiniteSet(U), NEW f, \A x \in U : f[x] \in Int,
           NEW V, IsFiniteSet(V), NEW g, \A x \in V : g[x] \in Int,
           NEW pick, Picks(pick, U), NEW F, Sums(F, f, pick, U),
           NEW choose, Picks(choose, V), NEW G, Sums(G, g, choose, V),
           NEW S \in SUBSET (U \cap V), \A x \in S : f[x] = g[x]
    PROVE  F[S] = G[S]
<1> DEFINE Bad == {n \in Nat : \E s \in SUBSET S : Cardinality(s) = n /\ F[s] # G[s]}
<1>0. /\ F[{}] = 0 /\ \A s \in SUBSET U : \A x \in U \ s : F[s \cup {x}] = f[x] + F[s]
      /\ G[{}] = 0 /\ \A s \in SUBSET V : \A x \in V \ s : G[s \cup {x}] = g[x] + G[s]
    BY SumsAdd
<1>1. ASSUME NEW s \in SUBSET S, F[s] # G[s]
      PROVE  \E t \in SUBSET S : F[t] # G[t] /\ Cardinality(t) < Cardinality(s)
  <2>1. PICK x \in s : TRUE
      BY <1>0, <1>1
  <2> DEFINE t == s \ {x}
  <2>2. /\ s = t \cup {x} /\ t \in SUBSET S /\ t \in SUBSET U /\ t \in SUBSET V
        /\ x \in U \ t /\ x \in V \ t /\ f[x] = g[x]
      BY <2>1
  <2>3. Cardinality(t) = Cardinality(s) - 1 /\ Cardinality(s) \in Nat
      BY <2>1, Sizes
  <2> HIDE DEF t
  <2>4. F[s] = f[x] + F[t] /\ G[s] = g[x] + G[t]
      BY <1>0, <2>2
  <2> QED
      BY <1>1, <2>2, <2>3, <2>4
<1>2. \A n \in Bad : \E k \in Bad : k < n
    BY <1>1, Sizes
<1>3. Bad = {}
  <2> HIDE DEF Bad
  <2>1. Bad \in SUBSET Nat
      BY DEF Bad
  <2> QED
      BY <1>2, <2>1, Descent
<1> QED
    BY <1>3, Sizes

\* SumOf is such a fold, which takes whatever element CHOOSE does.
Chosen(U) == [s \in SUBSET U |-> CHOOSE x \in s : TRUE]

\* It picks an element of each set.
LEMMA ChosenPicks == \A U : Picks(Chosen(U), U)
BY DEF Picks, Chosen

\* The sum of a set is the value there of such a fold.
LEMMA SumOfSums ==
    ASSUME NEW U, IsFiniteSet(U), NEW f, \A x \in U : f[x] \in Int
    PROVE  \E F : Sums(F, f, Chosen(U), U) /\ SumOf(f, U) = F[U]
<1> DEFINE Fold(F) == F = [s \in SUBSET U |->
                             IF s = {} THEN 0
                             ELSE f[CHOOSE x \in s : TRUE] + F[s \ {CHOOSE x \in s : TRUE}]]
<1>1. SumOf(f, U) = (CHOOSE F : Fold(F))[U]
    BY DEF SumOf, MapThenSumSet, MapThenFoldSet
<1>2. ASSUME NEW F, Sums(F, f, Chosen(U), U) PROVE Fold(F)
    BY <1>2 DEF Sums, Chosen
<1>3. ASSUME NEW F, Fold(F) PROVE Sums(F, f, Chosen(U), U)
    BY <1>3 DEF Sums, Chosen
<1> HIDE DEF Fold
<1>4. \E F : Fold(F)
  <2>1. \E F : Sums(F, f, Chosen(U), U)
      BY SumsExist, ChosenPicks
  <2> QED
      BY <1>2, <2>1
<1>5. Fold(CHOOSE F : Fold(F))
    BY <1>4
<1> QED
    BY <1>1, <1>3, <1>5

\* The empty sum.
LEMMA SumEmpty == ASSUME NEW f PROVE SumOf(f, {}) = 0
<1>1. IsFiniteSet({}) /\ \A x \in {} : f[x] \in Int
    BY FS_EmptySet
<1> QED
    BY <1>1, SumOfSums DEF Sums

\* The sum over a set is the value there of a fold over any larger set.
LEMMA SumIsFold ==
    ASSUME NEW U, IsFiniteSet(U), NEW f, \A x \in U : f[x] \in Int,
           NEW pick, Picks(pick, U), NEW F, Sums(F, f, pick, U), NEW S \in SUBSET U
    PROVE  SumOf(f, S) = F[S]
<1>1. IsFiniteSet(S) /\ \A x \in S : f[x] \in Int
    BY FS_Subset
<1>2. PICK G : Sums(G, f, Chosen(S), S) /\ SumOf(f, S) = G[S]
    BY <1>1, SumOfSums
<1>3. S \in SUBSET (S \cap U)
    OBVIOUS
<1> QED
    BY <1>1, <1>2, <1>3, ChosenPicks, SumsAgree

\* Another element adds its value.
LEMMA SumAdd ==
    ASSUME NEW S, IsFiniteSet(S), NEW x, x \notin S,
           NEW f, \A y \in S \cup {x} : f[y] \in Int
    PROVE  SumOf(f, S \cup {x}) = f[x] + SumOf(f, S)
<1> DEFINE U == S \cup {x}
<1>1. IsFiniteSet(U)
    BY FS_AddElement
<1>2. PICK F : Sums(F, f, Chosen(U), U)
    BY <1>1, SumsExist, ChosenPicks
<1>3. S \in SUBSET U /\ U \in SUBSET U /\ x \in U \ S
    OBVIOUS
<1> HIDE DEF U
<1>4. SumOf(f, U) = F[U] /\ SumOf(f, S) = F[S]
    BY <1>1, <1>2, <1>3, ChosenPicks, SumIsFold DEF U
<1>5. F[S \cup {x}] = f[x] + F[S]
    BY <1>1, <1>2, <1>3, ChosenPicks, SumsAdd DEF U
<1> QED
    BY <1>4, <1>5 DEF U

\* The sum of integers is an integer.
LEMMA SumType ==
    ASSUME NEW S, IsFiniteSet(S), NEW f, \A x \in S : f[x] \in Int
    PROVE  SumOf(f, S) \in Int
<1>1. PICK F : Sums(F, f, Chosen(S), S) /\ SumOf(f, S) = F[S]
    BY SumOfSums
<1> QED
    BY <1>1, ChosenPicks, SumsAdd

\* A sum depends on the values at the elements only.
LEMMA SumAgree ==
    ASSUME NEW S, IsFiniteSet(S), NEW f, NEW g,
           \A x \in S : f[x] \in Int /\ f[x] = g[x]
    PROVE  SumOf(f, S) = SumOf(g, S)
<1>1. PICK F : Sums(F, f, Chosen(S), S) /\ SumOf(f, S) = F[S]
    BY SumOfSums
<1>2. PICK G : Sums(G, g, Chosen(S), S) /\ SumOf(g, S) = G[S]
    BY SumOfSums
<1>3. S \in SUBSET (S \cap S)
    OBVIOUS
<1> QED
    BY <1>1, <1>2, <1>3, ChosenPicks, SumsAgree

\* An element can be split off.
LEMMA SumRemove ==
    ASSUME NEW S, IsFiniteSet(S), NEW x \in S, NEW f, \A y \in S : f[y] \in Int
    PROVE  SumOf(f, S) = f[x] + SumOf(f, S \ {x})
<1> DEFINE T == S \ {x}
<1>1. S = T \cup {x} /\ x \notin T /\ IsFiniteSet(T)
    BY FS_RemoveElement
<1> HIDE DEF T
<1>2. SumOf(f, T \cup {x}) = f[x] + SumOf(f, T)
    BY <1>1, SumAdd
<1> QED
    BY <1>1, <1>2 DEF T

\* The sum of one value.
LEMMA SumSingle ==
    ASSUME NEW x, NEW f, f[x] \in Int
    PROVE  SumOf(f, {x}) = f[x]
<1>1. SumOf(f, {} \cup {x}) = f[x] + SumOf(f, {})
    BY SumAdd, FS_EmptySet
<1>2. {} \cup {x} = {x} /\ SumOf(f, {}) = 0
    BY SumEmpty
<1> QED
    BY <1>1, <1>2

\* Values that are not negative have a sum that is not.
LEMMA SumNat ==
    ASSUME NEW S, IsFiniteSet(S), NEW f, \A x \in S : f[x] \in Nat
    PROVE  SumOf(f, S) \in Nat
<1> DEFINE Bad == {n \in Nat : \E s \in SUBSET S : Cardinality(s) = n /\ SumOf(f, s) \notin Nat}
<1>1. ASSUME NEW s \in SUBSET S, SumOf(f, s) \notin Nat
      PROVE  \E t \in SUBSET S : SumOf(f, t) \notin Nat /\ Cardinality(t) < Cardinality(s)
  <2>1. PICK x \in s : TRUE
      BY <1>1, SumEmpty
  <2> DEFINE t == s \ {x}
  <2>2. /\ t \in SUBSET S /\ IsFiniteSet(s) /\ f[x] \in Nat
        /\ Cardinality(t) = Cardinality(s) - 1 /\ Cardinality(s) \in Nat
      BY <2>1, Sizes
  <2>3. SumOf(f, s) = f[x] + SumOf(f, t)
      BY <2>1, <2>2, SumRemove
  <2> HIDE DEF t
  <2> QED
      BY <1>1, <2>2, <2>3
<1>2. \A n \in Bad : \E k \in Bad : k < n
    BY <1>1, Sizes
<1>3. Bad = {}
  <2> HIDE DEF Bad
  <2>1. Bad \in SUBSET Nat
      BY DEF Bad
  <2> QED
      BY <1>2, <2>1, Descent
<1> QED
    BY <1>3, Sizes

\* The sums of two disjoint sets add up.
LEMMA SumUnion ==
    ASSUME NEW S, IsFiniteSet(S), NEW T, IsFiniteSet(T), S \cap T = {},
           NEW f, \A x \in S \cup T : f[x] \in Int
    PROVE  SumOf(f, S \cup T) = SumOf(f, S) + SumOf(f, T)
<1> DEFINE Off(t) == SumOf(f, S \cup t) # SumOf(f, S) + SumOf(f, t)
           Bad == {n \in Nat : \E t \in SUBSET T : Cardinality(t) = n /\ Off(t)}
<1>0. SumOf(f, S) \in Int
    BY SumType
<1>1. ASSUME NEW t \in SUBSET T, Off(t)
      PROVE  \E u \in SUBSET T : Off(u) /\ Cardinality(u) < Cardinality(t)
  <2>1. PICK x \in t : TRUE
    <3>1. t # {}
      <4> SUFFICES ASSUME t = {} PROVE FALSE
          OBVIOUS
      <4>1. S \cup t = S /\ SumOf(f, t) = 0
          BY SumEmpty
      <4> QED
          BY <1>0, <1>1, <4>1
    <3> QED
        BY <3>1
  <2> DEFINE u == t \ {x}
  <2>2. /\ u \in SUBSET T /\ IsFiniteSet(t) /\ IsFiniteSet(u) /\ f[x] \in Int
        /\ Cardinality(u) = Cardinality(t) - 1 /\ Cardinality(t) \in Nat
      BY <2>1, Sizes
  <2>3. SumOf(f, t) = f[x] + SumOf(f, u) /\ SumOf(f, u) \in Int
      BY <2>1, <2>2, SumRemove, SumType
  <2>4. SumOf(f, S \cup t) = f[x] + SumOf(f, S \cup u) /\ SumOf(f, S \cup u) \in Int
    <3>1. S \cup t = (S \cup u) \cup {x} /\ x \notin S \cup u
        BY <2>1
    <3>2. IsFiniteSet(S \cup u) /\ \A y \in (S \cup u) \cup {x} : f[y] \in Int
        BY <2>1, <2>2, FS_Union
    <3> QED
        BY <3>1, <3>2, SumAdd, SumType
  <2> HIDE DEF u
  <2>5. Off(u)
      BY <1>0, <1>1, <2>2, <2>3, <2>4
  <2> HIDE DEF Off
  <2> QED
      BY <2>2, <2>5
<1> HIDE DEF Off
<1>2. \A n \in Bad : \E k \in Bad : k < n
    BY <1>1, Sizes
<1>3. Bad = {}
  <2> HIDE DEF Bad
  <2>1. Bad \in SUBSET Nat
      BY DEF Bad
  <2> QED
      BY <1>2, <2>1, Descent
<1>4. ~Off(T)
    BY <1>3, Sizes
<1> QED
    BY <1>4 DEF Off

\* The sum is linear.
LEMMA SumLinear ==
    ASSUME NEW S, IsFiniteSet(S), NEW f, NEW g, NEW h, NEW a \in Int, NEW b \in Int,
           \A x \in S : f[x] \in Int /\ g[x] \in Int /\ h[x] = a * f[x] + b * g[x]
    PROVE  SumOf(h, S) = a * SumOf(f, S) + b * SumOf(g, S)
<1> DEFINE Off(t) == SumOf(h, t) # a * SumOf(f, t) + b * SumOf(g, t)
           Bad == {n \in Nat : \E t \in SUBSET S : Cardinality(t) = n /\ Off(t)}
<1>1. ASSUME NEW t \in SUBSET S, Off(t)
      PROVE  \E u \in SUBSET S : Off(u) /\ Cardinality(u) < Cardinality(t)
  <2>1. PICK x \in t : TRUE
    <3>1. t # {}
      <4> SUFFICES ASSUME t = {} PROVE FALSE
          OBVIOUS
      <4>1. SumOf(h, t) = 0 /\ SumOf(f, t) = 0 /\ SumOf(g, t) = 0
          BY SumEmpty
      <4>2. 0 = a * 0 + b * 0
          OBVIOUS
      <4> QED
          BY <1>1, <4>1, <4>2
    <3> QED
        BY <3>1
  <2> DEFINE u == t \ {x}
  <2>2. /\ u \in SUBSET S /\ IsFiniteSet(t) /\ IsFiniteSet(u) /\ f[x] \in Int /\ g[x] \in Int
        /\ Cardinality(u) = Cardinality(t) - 1 /\ Cardinality(t) \in Nat
      BY <2>1, Sizes
  <2>3. \A y \in S : h[y] \in Int
    <3>1. \A p, q \in Int : a * p + b * q \in Int
        OBVIOUS
    <3> QED
        BY <3>1
  <2>4. /\ SumOf(f, t) = f[x] + SumOf(f, u) /\ SumOf(f, u) \in Int
        /\ SumOf(g, t) = g[x] + SumOf(g, u) /\ SumOf(g, u) \in Int
        /\ SumOf(h, t) = h[x] + SumOf(h, u) /\ SumOf(h, u) \in Int
        /\ h[x] = a * f[x] + b * g[x]
      BY <2>1, <2>2, <2>3, SumRemove, SumType
  <2>5. ASSUME NEW p \in Int, NEW q \in Int, NEW r \in Int, NEW s \in Int
        PROVE  (a * p + b * q) + (a * r + b * s) = a * (p + r) + b * (q + s)
    <3>1. a * (p + r) = a * p + a * r /\ b * (q + s) = b * q + b * s
        OBVIOUS
    <3>2. a * p \in Int /\ a * r \in Int /\ b * q \in Int /\ b * s \in Int
        OBVIOUS
    <3> QED
        BY <3>1, <3>2
  <2> HIDE DEF u
  <2>6. ASSUME ~Off(u) PROVE FALSE
    <3>1. SumOf(h, t) = (a * f[x] + b * g[x]) + (a * SumOf(f, u) + b * SumOf(g, u))
        BY <2>4, <2>6
    <3>2. SumOf(h, t) = a * (f[x] + SumOf(f, u)) + b * (g[x] + SumOf(g, u))
        BY <2>2, <2>4, <2>5, <3>1
    <3> QED
        BY <1>1, <2>4, <3>2
  <2> QED
      BY <2>2, <2>6
<1> HIDE DEF Off
<1>2. \A n \in Bad : \E k \in Bad : k < n
    BY <1>1, Sizes
<1>3. Bad = {}
  <2> HIDE DEF Bad
  <2>1. Bad \in SUBSET Nat
      BY DEF Bad
  <2> QED
      BY <1>2, <2>1, Descent
<1>4. ~Off(S)
    BY <1>3, Sizes
<1> QED
    BY <1>4 DEF Off

-----------------------------------------------------------------------------
(* The ledger.                                                             *)

Finite == IsFiniteSet(Requests) /\ None \notin Nodes /\ Works \subseteq Nat

LEMMA LedgerInit == Finite /\ Init => TypeOK /\ Balanced
<1> SUFFICES ASSUME Finite, Init PROVE TypeOK /\ Balanced
    OBVIOUS
<1>1. TypeOK
    BY DEF Init, TypeOK
<1>2. \A n \in Nodes : HeldOn(n) = {}
    BY DEF Init, HeldOn, Finite
<1>3. \A n \in Nodes : Cardinality(HeldOn(n)) = 0 /\ SumOf(share, HeldOn(n)) = 0
    BY <1>2, FS_EmptySet, SumEmpty
<1>4. Balanced
    BY <1>3 DEF Init, Balanced
<1> QED
    BY <1>1, <1>4

\* A group's reservations add, node by node, the members sent there and their
\* work; a release takes exactly one holder away, and its share.
LEMMA LedgerStep ==
    Finite /\ TypeOK /\ Balanced /\ [Next]_vars => TypeOK' /\ Balanced'
<1> SUFFICES ASSUME Finite, TypeOK, Balanced, [Next]_vars
             PROVE  TypeOK' /\ Balanced'
    OBVIOUS
<1> USE DEF Finite
<1>0. \A S \in SUBSET Requests : IsFiniteSet(S) /\ Cardinality(S) \in Nat
    BY FS_Subset, FS_CardinalityType
<1>1. CASE Reserve
  <2>0. PICK S \in SUBSET (Requests \ served) :
        \E pick \in [S -> Nodes], w \in [S -> Works] :
          /\ S # {}
          /\ held' = [r \in Requests |-> IF r \in S THEN pick[r] ELSE held[r]]
          /\ served' = served \cup S
          /\ share' = [r \in Requests |-> IF r \in S THEN w[r] ELSE share[r]]
          /\ load' = [n \in Nodes |->
                LET new == {r \in S : pick[r] = n}
                IN  [active |-> load[n].active + Cardinality(new),
                     work   |-> load[n].work + SumOf(w, new)]]
      BY <1>1 DEF Reserve
  <2>1. PICK pick \in [S -> Nodes], w \in [S -> Works] :
          /\ held' = [r \in Requests |-> IF r \in S THEN pick[r] ELSE held[r]]
          /\ served' = served \cup S
          /\ share' = [r \in Requests |-> IF r \in S THEN w[r] ELSE share[r]]
          /\ load' = [n \in Nodes |->
                LET new == {r \in S : pick[r] = n}
                IN  [active |-> load[n].active + Cardinality(new),
                     work   |-> load[n].work + SumOf(w, new)]]
      BY <2>0
  <2> DEFINE new(n) == {r \in S : pick[r] = n}
  <2>2. /\ \A n \in Nodes : new(n) \in SUBSET Requests /\ HeldOn(n) \in SUBSET Requests
        /\ \A n \in Nodes : new(n) \in SUBSET S /\ HeldOn(n) \in SUBSET (Requests \ S)
      BY DEF HeldOn, Balanced
  <2>3. \A n \in Nodes : HeldOn(n)' = HeldOn(n) \cup new(n)
    <3>1. \A r \in Requests : held'[r] = IF r \in S THEN pick[r] ELSE held[r]
        BY <2>1
    <3>2. \A r \in S : held[r] = None
        BY DEF Balanced
    <3> QED
        BY <3>1, <3>2 DEF HeldOn
  <2>4. share' \in [Requests -> Nat] /\ \A r \in S : w[r] \in Nat
      BY <2>1 DEF TypeOK
  <2>5. \A n \in Nodes : load'[n] = [active |-> load[n].active + Cardinality(new(n)),
                                    work   |-> load[n].work + SumOf(w, new(n))]
      BY <2>1
  <2>6. ASSUME NEW n \in Nodes
        PROVE  /\ Cardinality(new(n)) \in Nat /\ SumOf(w, new(n)) \in Nat
               /\ load'[n] = [active |-> Cardinality(HeldOn(n)'), work |-> SumOf(share', HeldOn(n)')]
    <3> DEFINE old == HeldOn(n)
               add == new(n)
    <3>1. old \cap add = {} /\ IsFiniteSet(old) /\ IsFiniteSet(add) /\ add \in SUBSET S
          /\ old \in SUBSET (Requests \ S)
        BY <1>0, <2>2
    <3>2. /\ load[n] = [active |-> Cardinality(old), work |-> SumOf(share, old)]
          /\ HeldOn(n)' = old \cup add
          /\ load'[n] = [active |-> load[n].active + Cardinality(add),
                         work   |-> load[n].work + SumOf(w, add)]
        BY <2>3, <2>5 DEF Balanced
    <3> HIDE DEF old, add
    <3>3. /\ \A r \in old : share'[r] = share[r] /\ share[r] \in Nat
          /\ \A r \in add : share'[r] = w[r] /\ w[r] \in Nat
      <4>1. \A r \in Requests : share'[r] = IF r \in S THEN w[r] ELSE share[r]
          BY <2>1
      <4> QED
          BY <2>4, <3>1, <4>1 DEF TypeOK
    <3>4. SumOf(share', old) = SumOf(share, old) /\ SumOf(share', add) = SumOf(w, add)
      <4>1. SumOf(share', old) = SumOf(share, old)
          BY <3>1, <3>3, SumAgree
      <4>2. SumOf(share', add) = SumOf(w, add)
          BY <3>1, <3>3, SumAgree
      <4> QED
          BY <4>1, <4>2
    <3>5. SumOf(share', old \cup add) = SumOf(share', old) + SumOf(share', add)
      <4>1. \A r \in old \cup add : share'[r] \in Int
          BY <3>3
      <4> QED
          BY <3>1, <4>1, SumUnion
    <3>6. Cardinality(old \cup add) = Cardinality(old) + Cardinality(add)
      <4>1. Cardinality(old \cup add) =
               Cardinality(old) + Cardinality(add) - Cardinality({})
          BY <3>1, FS_Union
      <4>2. Cardinality(old) \in Nat /\ Cardinality(add) \in Nat
          BY <3>1, FS_CardinalityType
      <4> QED
          BY <4>1, <4>2, FS_EmptySet
    <3>7. SumOf(w, add) \in Nat
        BY <3>1, <3>3, SumNat
    <3>8. Cardinality(add) \in Nat
        BY <3>1, FS_CardinalityType
    <3>9. load[n].active = Cardinality(old) /\ load[n].work = SumOf(share, old)
        BY <3>2
    <3>10. /\ load'[n] = [active |-> Cardinality(old) + Cardinality(add),
                          work   |-> SumOf(share, old) + SumOf(w, add)]
           /\ Cardinality(HeldOn(n)') = Cardinality(old) + Cardinality(add)
           /\ SumOf(share', HeldOn(n)') = SumOf(share, old) + SumOf(w, add)
        BY <3>2, <3>4, <3>5, <3>6, <3>9, Zenon
    <3> QED
        BY <3>7, <3>8, <3>10, Zenon DEF add
  <2>7. TypeOK'
    <3>1. \A n \in Nodes : load[n].active \in Nat /\ load[n].work \in Nat
        BY DEF TypeOK
    <3>2. \A n \in Nodes : Cardinality(new(n)) \in Nat /\ SumOf(w, new(n)) \in Nat
        BY <2>6
    <3> HIDE DEF new
    <3>3. ASSUME NEW n \in Nodes PROVE load'[n] \in [active : Nat, work : Nat]
      <4> DEFINE more == Cardinality(new(n))
                 extra == SumOf(w, new(n))
      <4>1. load'[n] = [active |-> load[n].active + more, work |-> load[n].work + extra]
          BY <2>5
      <4>2. more \in Nat /\ extra \in Nat
          BY <3>2
      <4> HIDE DEF more, extra
      <4> QED
          BY <3>1, <4>1, <4>2
    <3>4. load' \in [Nodes -> [active : Nat, work : Nat]]
        BY <2>1, <3>3
    <3>5. held' \in [Requests -> Nodes \cup {None}] /\ served' \subseteq Requests
        BY <2>1 DEF TypeOK
    <3> QED
        BY <2>4, <3>4, <3>5 DEF TypeOK
  <2>8. \A r \in Requests : held'[r] # None => r \in served'
      BY <2>1 DEF Balanced
  <2> QED
      BY <2>6, <2>7, <2>8 DEF Balanced
<1>2. ASSUME NEW r \in Requests, Release(r) PROVE TypeOK' /\ Balanced'
  <2>1. PICK n \in Nodes : n = held[r]
      BY <1>2 DEF Release, TypeOK
  <2>2. HeldOn(n)' = HeldOn(n) \ {r} /\ r \in HeldOn(n) /\ HeldOn(n) \in SUBSET Requests
    <3>1. held' = [held EXCEPT ![r] = None]
        BY <1>2 DEF Release
    <3>2. \A s \in Requests : held'[s] = IF s = r THEN None ELSE held[s]
        BY <3>1 DEF TypeOK
    <3> QED
        BY <2>1, <3>2 DEF HeldOn
  <2>3. \A m \in Nodes \ {n} : HeldOn(m)' = HeldOn(m)
      BY <1>2, <2>1 DEF Release, TypeOK, HeldOn
  <2>4. /\ Cardinality(HeldOn(n)) = Cardinality(HeldOn(n)') + 1
        /\ Cardinality(HeldOn(n)') \in Nat
    <3>1. Cardinality(HeldOn(n) \ {r}) = Cardinality(HeldOn(n)) - 1
        BY <1>0, <2>2, FS_RemoveElement
    <3>2. HeldOn(n) \ {r} \in SUBSET Requests
        BY <2>2
    <3> QED
        BY <1>0, <2>2, <3>1, <3>2
  <2>5. /\ SumOf(share, HeldOn(n)) = share[r] + SumOf(share, HeldOn(n)')
        /\ SumOf(share, HeldOn(n)') \in Nat /\ share[r] \in Nat
    <3>1. IsFiniteSet(HeldOn(n)) /\ IsFiniteSet(HeldOn(n)')
        BY <1>0, <2>2, FS_Subset
    <3>2. \A s \in HeldOn(n) : share[s] \in Nat
        BY <2>2 DEF TypeOK
    <3>3. SumOf(share, HeldOn(n)) = share[r] + SumOf(share, HeldOn(n) \ {r})
        BY <2>2, <3>1, <3>2, SumRemove
    <3>4. \A s \in HeldOn(n)' : share[s] \in Nat
        BY <2>2, <3>2
    <3>5. SumOf(share, HeldOn(n)') \in Nat
        BY <3>1, <3>4, SumNat
    <3> QED
        BY <2>2, <3>2, <3>3, <3>5
  <2>6. load' = [load EXCEPT ![n] = [active |-> load[n].active - 1,
                                     work |-> load[n].work - share[r]]]
      BY <1>2, <2>1 DEF Release
  <2>7. /\ load'[n] = [active |-> Cardinality(HeldOn(n)'), work |-> SumOf(share, HeldOn(n)')]
        /\ \A m \in Nodes \ {n} : load'[m] = load[m]
        /\ load' \in [Nodes -> [active : Nat, work : Nat]]
    <3>1. load[n] = [active |-> Cardinality(HeldOn(n)), work |-> SumOf(share, HeldOn(n))]
        BY DEF Balanced
    <3>2. /\ load[n].active - 1 = Cardinality(HeldOn(n)')
          /\ load[n].work - share[r] = SumOf(share, HeldOn(n)')
        BY <2>4, <2>5, <3>1
    <3> QED
        BY <2>4, <2>5, <2>6, <3>2 DEF TypeOK
  <2>8. TypeOK'
      BY <1>2, <2>7 DEF Release, TypeOK
  <2>9. \A m \in Nodes :
           load'[m] = [active |-> Cardinality(HeldOn(m)'), work |-> SumOf(share', HeldOn(m)')]
    <3>1. share' = share
        BY <1>2 DEF Release
    <3>2. \A m \in Nodes \ {n} :
             load[m] = [active |-> Cardinality(HeldOn(m)), work |-> SumOf(share, HeldOn(m))]
        BY DEF Balanced
    <3> QED
        BY <2>3, <2>7, <3>1, <3>2, Zenon
  <2> QED
      BY <1>2, <2>8, <2>9 DEF Balanced, Release, TypeOK
<1>3. CASE UNCHANGED vars
    BY <1>3 DEF vars, TypeOK, Balanced, HeldOn
<1> QED
    BY <1>1, <1>2, <1>3 DEF Next

\* Whatever implements the ledger has, at every moment, a load on each node
\* equal to the number and the work of the requests that hold a reservation
\* there.
THEOREM LedgerBalanced == Finite /\ Spec => [](TypeOK /\ Balanced)
<1>1. Finite /\ Init => TypeOK /\ Balanced
    BY LedgerInit
<1>2. Finite /\ (TypeOK /\ Balanced) /\ [Next]_vars => (TypeOK /\ Balanced)'
    BY LedgerStep
<1> QED
  <2>1. CASE Finite
    <3>1. Init => TypeOK /\ Balanced
        BY <1>1, <2>1
    <3>2. (TypeOK /\ Balanced) /\ [Next]_vars => (TypeOK /\ Balanced)'
        BY <1>2, <2>1
    <3> QED
        BY <3>1, <3>2, PTL DEF Spec
  <2> QED
      BY <2>1
=============================================================================
