------------------------ MODULE QueueFeedbackProofs -------------------------
(***************************************************************************)
(* The queue estimator and its feeding, for any nodes, any sizes of the    *)
(* windows, any works, rates and number of requests.                       *)
(*                                                                         *)
(* First the laws of least squares and of the windows, and the estimator;  *)
(* then plans and streams; then the detector, for any chunks of any body;  *)
(* last what the samples tell of the engine.                               *)
(***************************************************************************)
EXTENDS QueueFeedback, TLAPS, FiniteSetTheorems, SequenceTheorems

\* Only the laws of sums are taken from the ledger.
Laws == INSTANCE ReservationLedgerProofs WITH
            Works <- Shares, held <- route, served <- ended, share <- heard, load <- inflight

LEMMA SameSum == \A f, S : Laws!SumOf(f, S) = SumOf(f, S)
BY DEF Laws!SumOf, SumOf, Laws!MapThenSumSet, MapThenSumSet,
       Laws!MapThenFoldSet, MapThenFoldSet

LEMMA SameFinite == \A S : Laws!IsFiniteSet(S) <=> IsFiniteSet(S)
BY DEF Laws!IsFiniteSet, IsFiniteSet

LEMMA Interval == \A a, b \in Int : Laws!IsFiniteSet(a..b)
BY FS_Interval, SameFinite

\* A set of numbers that goes on from zero.
LEMMA Induct ==
    ASSUME NEW n \in Nat, NEW P, 0 \in P, \A i \in 1..n : i - 1 \in P => i \in P
    PROVE  \A i \in 0..n : i \in P
<1> DEFINE Bad == {i \in 0..n : i \notin P}
<1>1. ASSUME Bad # {} PROVE FALSE
  <2>1. Bad \in SUBSET Nat
      OBVIOUS
  <2>2. PICK m \in Bad : \A k \in Bad : m <= k
    <3> HIDE DEF Bad
    <3> QED
        BY <1>1, <2>1, Laws!Least
  <2>3. m \in 1..n /\ m - 1 \in 0..n /\ m - 1 \notin Bad
      BY <2>2
  <2> QED
      BY <2>2, <2>3
<1> QED
    BY <1>1

\* A prefix is the one before it and an element more.
LEMMA PrefixGrows ==
    ASSUME NEW S, NEW s \in Seq(S)
    PROVE  /\ Len(s) \in Nat /\ SubSeq(s, 1, 0) = <<>> /\ SubSeq(s, 1, Len(s)) = s
           /\ \A i \in 1..Len(s) :
                /\ SubSeq(s, 1, i) = Append(SubSeq(s, 1, i - 1), s[i]) /\ s[i] \in S
                /\ SubSeq(s, 1, i - 1) \in Seq(S) /\ SubSeq(s, 1, i) \in Seq(S)
<1>1. Len(s) \in Nat /\ \A j \in 1..Len(s) : s[j] \in S
    BY LenProperties
<1>2. SubSeq(s, 1, 0) = <<>>
    BY SubSeqEmpty
<1>3. SubSeq(s, 1, Len(s)) = s
    BY SubSeqFull
<1>4. ASSUME NEW i \in 0..Len(s)
      PROVE  /\ SubSeq(s, 1, i) \in Seq(S) /\ Len(SubSeq(s, 1, i)) = i
             /\ \A j \in 1..i : SubSeq(s, 1, i)[j] = s[j]
  <2>1. i \in Int /\ 1 \in Int /\ \A j \in 1..i : s[j] \in S
      BY <1>1
  <2>2. /\ SubSeq(s, 1, i) \in Seq(S)
        /\ Len(SubSeq(s, 1, i)) = IF 1 <= i THEN i - 1 + 1 ELSE 0
        /\ \A j \in 1 .. i - 1 + 1 : SubSeq(s, 1, i)[j] = s[1 + j - 1]
      BY <2>1, SubSeqProperties
  <2>3. i - 1 + 1 = i /\ \A j \in 1..i : 1 + j - 1 = j
      BY <1>1
  <2>4. Len(SubSeq(s, 1, i)) = i
      BY <1>1, <2>2
  <2> QED
      BY <2>2, <2>3, <2>4
<1>5. ASSUME NEW i \in 1..Len(s) PROVE SubSeq(s, 1, i) = Append(SubSeq(s, 1, i - 1), s[i])
  <2> DEFINE u == SubSeq(s, 1, i - 1)
             v == SubSeq(s, 1, i)
  <2>1. /\ u \in Seq(S) /\ Len(u) = i - 1 /\ \A j \in 1..(i - 1) : u[j] = s[j]
        /\ v \in Seq(S) /\ Len(v) = i /\ \A j \in 1..i : v[j] = s[j] /\ s[i] \in S
    <3>1. i - 1 \in 0..Len(s) /\ i \in 0..Len(s)
        BY <1>1
    <3> QED
        BY <1>1, <1>4, <3>1
  <2> HIDE DEF u, v
  <2>2. Append(u, s[i]) \in Seq(S) /\ Len(Append(u, s[i])) = i
        /\ \A j \in 1..i : Append(u, s[i])[j] = s[j]
      BY <2>1
  <2>3. v = Append(u, s[i])
      BY <2>1, <2>2, SeqEqual
  <2> QED
      BY <2>3 DEF u, v
<1>6. \A i \in 1..Len(s) : i - 1 \in 0..Len(s) /\ i \in 0..Len(s)
    BY <1>1
<1> QED
    BY <1>1, <1>2, <1>3, <1>4, <1>5, <1>6

\* A set of sequences that goes on from the empty one.
LEMMA SeqInduct ==
    ASSUME NEW S, NEW P, <<>> \in P,
           \A u \in Seq(S) : u \in P => \A x \in S : Append(u, x) \in P
    PROVE  \A s \in Seq(S) : s \in P
<1> SUFFICES ASSUME NEW s \in Seq(S) PROVE s \in P
    OBVIOUS
<1> DEFINE Q == {i \in 0..Len(s) : SubSeq(s, 1, i) \in P}
<1>1. Len(s) \in Nat /\ SubSeq(s, 1, 0) = <<>> /\ SubSeq(s, 1, Len(s)) = s
    BY PrefixGrows
<1>2. 0 \in Q
  <2>1. SubSeq(s, 1, 0) \in P
      BY <1>1, Zenon
  <2>2. 0 \in 0..Len(s)
      BY <1>1
  <2> QED
      BY <2>1, <2>2, Zenon
<1>3. ASSUME NEW i \in 1..Len(s), i - 1 \in Q PROVE i \in Q
  <2>1. /\ SubSeq(s, 1, i) = Append(SubSeq(s, 1, i - 1), s[i]) /\ SubSeq(s, 1, i - 1) \in Seq(S)
        /\ s[i] \in S /\ i \in 0..Len(s)
      BY <1>1, PrefixGrows
  <2> QED
      BY <1>3, <2>1
<1>4. Len(s) \in Q
  <2> HIDE DEF Q
  <2>1. \A i \in 0..Len(s) : i \in Q
      BY <1>1, <1>2, <1>3, Induct
  <2> QED
      BY <1>1, <2>1
<1> QED
    BY <1>1, <1>4

\* F has a first value, and goes on with the step G.
Follows(F, n, T, base, G) ==
    F \in [0..n -> T] /\ F[0] = base /\ \A i \in 1..n : F[i] = G[<<i, F[i - 1]>>]

\* A function of the numbers up to n from a first value and a step.
LEMMA Recursion ==
    ASSUME NEW n \in Nat, NEW T, NEW base \in T, NEW G \in [(1..n) \X T -> T]
    PROVE  \E F : Follows(F, n, T, base, G)
<1> DEFINE UpTo(k) == \E F : Follows(F, k, T, base, G)
           P == {k \in 0..n : UpTo(k)}
<1>0. \A i \in 1..n : \A x \in T : G[<<i, x>>] \in T
    OBVIOUS
<1>1. UpTo(0)
  <2> DEFINE f == [i \in 0..0 |-> base]
  <2>1. f \in [0..0 -> T] /\ f[0] = base /\ \A i \in 1..0 : f[i] = G[<<i, f[i - 1]>>]
      OBVIOUS
  <2> HIDE DEF f
  <2>2. Follows(f, 0, T, base, G)
      BY <2>1 DEF Follows
  <2> QED
      BY <2>2
<1>2. ASSUME NEW k \in 1..n, UpTo(k - 1) PROVE UpTo(k)
  <2>1. PICK f \in [0..(k - 1) -> T] :
          f[0] = base /\ \A i \in 1..(k - 1) : f[i] = G[<<i, f[i - 1]>>]
    <3>1. PICK f : Follows(f, k - 1, T, base, G)
        BY <1>2
    <3> QED
        BY <3>1 DEF Follows
  <2> DEFINE g == [i \in 0..k |-> IF i = k THEN G[<<k, f[k - 1]>>] ELSE f[i]]
  <2>2. f[k - 1] \in T /\ G[<<k, f[k - 1]>>] \in T
      BY <1>0
  <2>3. \A i \in 0..(k - 1) : g[i] = f[i] /\ f[i] \in T
      OBVIOUS
  <2>4. g[k] = G[<<k, f[k - 1]>>] /\ g = [i \in 0..k |-> g[i]]
      OBVIOUS
  <2> HIDE DEF g
  <2>5. \A i \in 0..k : i = k \/ i \in 0..(k - 1)
      OBVIOUS
  <2>6. g \in [0..k -> T]
      BY <2>2, <2>3, <2>4, <2>5
  <2>7. g[0] = base
      BY <2>1, <2>3
  <2>8. \A i \in 1..k : g[i] = G[<<i, g[i - 1]>>]
    <3> SUFFICES ASSUME NEW i \in 1..k PROVE g[i] = G[<<i, g[i - 1]>>]
        OBVIOUS
    <3>1. g[i - 1] = f[i - 1]
        BY <2>3
    <3>2. CASE i = k
        BY <2>4, <3>1, <3>2
    <3>3. CASE i # k
      <4>1. i \in 1..(k - 1) /\ i \in 0..(k - 1)
          BY <3>3
      <4> QED
          BY <2>1, <2>3, <3>1, <4>1
    <3> QED
        BY <3>2, <3>3
  <2>9. Follows(g, k, T, base, G)
      BY <2>6, <2>7, <2>8 DEF Follows
  <2> QED
      BY <2>9
<1>3. \A k \in 0..n : k \in P
  <2> HIDE DEF UpTo
  <2>1. 0 \in P
      BY <1>1
  <2>2. \A k \in 1..n : k - 1 \in P => k \in P
      BY <1>2
  <2> HIDE DEF P
  <2> QED
      BY <2>1, <2>2, Induct
<1>4. n \in P
    BY <1>3
<1> QED
    BY <1>4

LEMMA MaxIs ==
    ASSUME NEW L \in Nat, NEW S \in SUBSET (1..L), S # {}
    PROVE  Max(S) \in S /\ \A k \in S : Max(S) >= k
<1> DEFINE T == {L - k : k \in S}
<1>1. T \in SUBSET Nat /\ T # {}
  <2>1. \A k \in S : L - k \in Nat
      OBVIOUS
  <2>2. PICK k \in S : TRUE
      OBVIOUS
  <2>3. L - k \in T
      OBVIOUS
  <2> QED
      BY <2>1, <2>3
<1> HIDE DEF T
<1>2. PICK m \in T : \A k \in T : m <= k
    BY <1>1, Laws!Least
<1>3. PICK x \in S : m = L - x
    BY DEF T
<1>4. ASSUME NEW y \in S PROVE x >= y
  <2>1. L - y \in T
      BY DEF T
  <2>2. m <= L - y
      BY <1>2, <2>1
  <2>3. x \in 1..L /\ y \in 1..L
      OBVIOUS
  <2> QED
      BY <1>3, <2>2, <2>3
<1> QED
    BY <1>4 DEF Max

-----------------------------------------------------------------------------
(* Sums over sequences.                                                    *)

\* The fold of Total is a sum over the positions.
LEMMA TotalIs ==
    ASSUME NEW n \in Nat, NEW v, DOMAIN v = 1..n, \A i \in 1..n : v[i] \in Int
    PROVE  Total(v) = Laws!SumOf(v, 1..n)
<1> DEFINE U == 1..n
           pick == [s \in SUBSET U |-> Max(s)]
           Fold(F) == F = [s \in SUBSET DOMAIN v |->
                             IF s = {} THEN 0 ELSE v[Max(s)] + F[s \ {Max(s)}]]
<1>1. Total(v) = (CHOOSE F : Fold(F))[DOMAIN v]
    BY DEF Total, FoldLeft, MapThenFoldSet
<1>2. Laws!Picks(pick, U)
    BY MaxIs DEF Laws!Picks
<1>3. Laws!IsFiniteSet(U) /\ \A i \in U : v[i] \in Int
    BY Interval
<1>4. \A F : Laws!Sums(F, v, pick, U) <=> Fold(F)
    BY DEF Laws!Sums
<1> HIDE DEF pick, Fold, U
<1>5. \E F : Laws!Sums(F, v, pick, U)
    BY <1>2, <1>3, Laws!SumsExist
<1>6. Fold(CHOOSE F : Fold(F))
    BY <1>4, <1>5
<1>7. Laws!SumOf(v, U) = (CHOOSE F : Fold(F))[U]
  <2> DEFINE G == CHOOSE F : Fold(F)
  <2>1. Laws!Sums(G, v, pick, U) /\ U \in SUBSET U
      BY <1>4, <1>6
  <2> HIDE DEF G
  <2>2. Laws!SumOf(v, U) = G[U]
      BY <1>2, <1>3, <2>1, Laws!SumIsFold
  <2> QED
      BY <2>2 DEF G
<1> QED
    BY <1>1, <1>7 DEF U

\* A sum of positive numbers is positive.
LEMMA SumPositive ==
    ASSUME NEW S, Laws!IsFiniteSet(S), S # {}, NEW f, \A x \in S : f[x] \in Nat \ {0}
    PROVE  Laws!SumOf(f, S) \in Nat \ {0}
<1>1. PICK x \in S : TRUE
    OBVIOUS
<1> DEFINE T == S \ {x}
<1>2. Laws!IsFiniteSet(T)
    BY SameFinite, FS_RemoveElement
<1>3. Laws!SumOf(f, T) \in Nat
  <2>1. \A y \in T : f[y] \in Nat
      OBVIOUS
  <2> HIDE DEF T
  <2> QED
      BY <1>2, <2>1, Laws!SumNat
<1>4. Laws!SumOf(f, S) = f[x] + Laws!SumOf(f, T)
  <2>1. \A y \in S : f[y] \in Int
      OBVIOUS
  <2> QED
      BY <2>1, Laws!SumRemove
<1> QED
    BY <1>3, <1>4

-----------------------------------------------------------------------------
(* Least squares.                                                          *)

\* A sequence of samples with work that can be divided by.
Window(w) ==
    /\ Len(w) \in Nat /\ DOMAIN w = 1..Len(w) /\ w = [i \in DOMAIN w |-> w[i]]
    /\ \A i \in 1..Len(w) : w[i].work \in Nat \ {0} /\ w[i].delay \in Nat

WorkDelay(w) == [i \in DOMAIN w |-> w[i].work * w[i].delay]
WorkWork(w) == [i \in DOMAIN w |-> w[i].work * w[i].work]
DelayDelay(w) == [i \in DOMAIN w |-> w[i].delay * w[i].delay]

\* The sum of the values of f at the positions of w.
Over(f, w) == Laws!SumOf(f, 1..Len(w))

LEMMA NonEmpty == \A w : Window(w) /\ w # <<>> => 1 \in 1..Len(w)
BY DEF Window

LEMMA Products ==
    ASSUME NEW w, Window(w)
    PROVE  /\ \A i \in 1..Len(w) : /\ WorkDelay(w)[i] = w[i].work * w[i].delay
                                   /\ WorkDelay(w)[i] \in Nat
                                   /\ WorkWork(w)[i] = w[i].work * w[i].work
                                   /\ WorkWork(w)[i] \in Nat \ {0}
                                   /\ DelayDelay(w)[i] = w[i].delay * w[i].delay
                                   /\ DelayDelay(w)[i] \in Nat
           /\ Over(WorkDelay(w), w) \in Nat /\ Over(WorkWork(w), w) \in Nat
           /\ Over(DelayDelay(w), w) \in Nat
           /\ w # <<>> => Over(WorkWork(w), w) \in Nat \ {0}
           /\ Laws!IsFiniteSet(1..Len(w))
<1>1. \A i \in 1..Len(w) : /\ WorkDelay(w)[i] = w[i].work * w[i].delay
                           /\ WorkWork(w)[i] = w[i].work * w[i].work
                           /\ DelayDelay(w)[i] = w[i].delay * w[i].delay
    BY DEF Window, WorkDelay, WorkWork, DelayDelay
<1>2. /\ \A a, b \in Nat : a * b \in Nat
      /\ \A a \in Nat \ {0} : a * a \in Nat \ {0}
    OBVIOUS
<1>3. \A i \in 1..Len(w) : /\ WorkDelay(w)[i] \in Nat
                           /\ WorkWork(w)[i] \in Nat \ {0}
                           /\ DelayDelay(w)[i] \in Nat
  <2> SUFFICES ASSUME NEW i \in 1..Len(w)
               PROVE  /\ WorkDelay(w)[i] \in Nat
                      /\ WorkWork(w)[i] \in Nat \ {0}
                      /\ DelayDelay(w)[i] \in Nat
      OBVIOUS
  <2>1. w[i].work \in Nat \ {0} /\ w[i].delay \in Nat
      BY DEF Window
  <2>2. w[i].work \in Nat
      BY <2>1
  <2>3. /\ w[i].work * w[i].delay \in Nat /\ w[i].delay * w[i].delay \in Nat
        /\ w[i].work * w[i].work \in Nat \ {0}
      BY <1>2, <2>1, <2>2
  <2>4. /\ WorkDelay(w)[i] = w[i].work * w[i].delay
        /\ WorkWork(w)[i] = w[i].work * w[i].work
        /\ DelayDelay(w)[i] = w[i].delay * w[i].delay
      BY <1>1
  <2> QED
      BY <2>3, <2>4, Zenon
<1>4. Laws!IsFiniteSet(1..Len(w))
  <2>1. 1 \in Int /\ Len(w) \in Int
      BY DEF Window
  <2> QED
      BY <2>1, Interval
<1>5. /\ Over(WorkDelay(w), w) \in Nat /\ Over(WorkWork(w), w) \in Nat
      /\ Over(DelayDelay(w), w) \in Nat
    BY <1>3, <1>4, Laws!SumNat DEF Over
<1>6. w # <<>> => Over(WorkWork(w), w) \in Nat \ {0}
  <2>1. w # <<>> => 1..Len(w) # {}
      BY NonEmpty
  <2> QED
      BY <1>3, <1>4, <2>1, SumPositive DEF Over
<1> QED
    BY <1>1, <1>3, <1>4, <1>5, <1>6

LEMMA SlopeIs ==
    ASSUME NEW w, Window(w)
    PROVE  Slope(w) = [num |-> Over(WorkDelay(w), w), den |-> Over(WorkWork(w), w)]
<1>1. /\ DOMAIN WorkDelay(w) = 1..Len(w) /\ \A i \in 1..Len(w) : WorkDelay(w)[i] \in Int
      /\ DOMAIN WorkWork(w) = 1..Len(w) /\ \A i \in 1..Len(w) : WorkWork(w)[i] \in Int
      /\ Len(w) \in Nat
    BY Products DEF Window, WorkDelay, WorkWork
<1>2. Slope(w) = [num |-> Total(WorkDelay(w)), den |-> Total(WorkWork(w))]
    BY DEF Slope, WorkDelay, WorkWork
<1>3. Total(WorkDelay(w)) = Over(WorkDelay(w), w) /\ Total(WorkWork(w)) = Over(WorkWork(w), w)
    BY <1>1, TotalIs DEF Over
<1> QED
    BY <1>2, <1>3

\* The error is a quadratic function of the slope.
LEMMA ErrorIs ==
    ASSUME NEW w, Window(w), NEW a \in Int, NEW b \in Int
    PROVE  Error(w, a, b) = (b * b) * Over(DelayDelay(w), w)
                            + ((0 - 2 * (a * b)) * Over(WorkDelay(w), w)
                               + (a * a) * Over(WorkWork(w), w))
<1> DEFINE miss(i) == b * w[i].delay - a * w[i].work
           e == [i \in DOMAIN w |-> miss(i) * miss(i)]
           g == [i \in DOMAIN w |-> (0 - 2 * (a * b)) * WorkDelay(w)[i] + (a * a) * WorkWork(w)[i]]
<1>1. Error(w, a, b) = Total(e)
    BY DEF Error
<1>2. Len(w) \in Nat /\ DOMAIN w = 1..Len(w)
    BY DEF Window
<1>3. ASSUME NEW i \in 1..Len(w)
      PROVE  /\ WorkDelay(w)[i] \in Int /\ WorkWork(w)[i] \in Int /\ DelayDelay(w)[i] \in Int
             /\ g[i] \in Int /\ e[i] \in Int
             /\ g[i] = (0 - 2 * (a * b)) * WorkDelay(w)[i] + (a * a) * WorkWork(w)[i]
             /\ e[i] = (b * b) * DelayDelay(w)[i] + 1 * g[i]
  <2>1. w[i].work \in Int /\ w[i].delay \in Int
      BY DEF Window
  <2>2. (b * w[i].delay - a * w[i].work) * (b * w[i].delay - a * w[i].work)
           = (b * b) * (w[i].delay * w[i].delay)
             + ((0 - 2 * (a * b)) * (w[i].work * w[i].delay) + (a * a) * (w[i].work * w[i].work))
    <3>1. \A x, y \in Int : (b * y - a * x) * (b * y - a * x)
                                = (b * b) * (y * y) + ((0 - 2 * (a * b)) * (x * y) + (a * a) * (x * x))
        OBVIOUS
    <3> QED
        BY <2>1, <3>1
  <2>3. /\ WorkDelay(w)[i] = w[i].work * w[i].delay
        /\ WorkWork(w)[i] = w[i].work * w[i].work
        /\ DelayDelay(w)[i] = w[i].delay * w[i].delay
      BY Products
  <2>4. g[i] = (0 - 2 * (a * b)) * WorkDelay(w)[i] + (a * a) * WorkWork(w)[i]
      BY <1>2
  <2>5. e[i] = (b * w[i].delay - a * w[i].work) * (b * w[i].delay - a * w[i].work)
      BY <1>2
  <2> HIDE DEF g, e
  <2>6. e[i] = (b * b) * DelayDelay(w)[i] + g[i]
      BY <2>2, <2>3, <2>4, <2>5
  <2>7. /\ WorkDelay(w)[i] \in Int /\ WorkWork(w)[i] \in Int /\ DelayDelay(w)[i] \in Int
      BY Products
  <2>8. \A p, q, r, s \in Int : p * q + r * s \in Int
      OBVIOUS
  <2>9. b * b \in Int /\ a * a \in Int /\ 0 - 2 * (a * b) \in Int
      OBVIOUS
  <2>10. g[i] \in Int
      BY <2>4, <2>7, <2>8, <2>9
  <2>11. e[i] \in Int /\ 1 * g[i] = g[i]
    <3>1. \A p, q, r \in Int : p * q + r \in Int /\ 1 * r = r
        OBVIOUS
    <3> QED
        BY <2>6, <2>7, <2>9, <2>10, <3>1
  <2> QED
      BY <2>4, <2>6, <2>7, <2>10, <2>11
<1>4. DOMAIN e = 1..Len(w)
    BY <1>2
<1> HIDE DEF e, g
<1>5. Total(e) = Over(e, w)
    BY <1>2, <1>3, <1>4, TotalIs DEF Over
<1> DEFINE bb == b * b
           aa == a * a
           ab == 0 - 2 * (a * b)
<1>6. bb \in Int /\ aa \in Int /\ ab \in Int /\ 1 \in Int /\ Laws!IsFiniteSet(1..Len(w))
    BY Products
<1>7. \A i \in 1..Len(w) :
        /\ WorkDelay(w)[i] \in Int /\ WorkWork(w)[i] \in Int /\ DelayDelay(w)[i] \in Int
        /\ g[i] \in Int /\ e[i] \in Int
        /\ g[i] = ab * WorkDelay(w)[i] + aa * WorkWork(w)[i]
        /\ e[i] = bb * DelayDelay(w)[i] + 1 * g[i]
    BY <1>3
<1> DEFINE S == 1..Len(w)
           wd == WorkDelay(w)
           ww == WorkWork(w)
           dd == DelayDelay(w)
<1> HIDE DEF aa, bb, ab, S, wd, ww, dd
<1>8. /\ Over(e, w) = bb * Over(DelayDelay(w), w) + 1 * Over(g, w)
      /\ Over(g, w) = ab * Over(WorkDelay(w), w) + aa * Over(WorkWork(w), w)
  <2>1. \A i \in S : /\ wd[i] \in Int /\ ww[i] \in Int /\ dd[i] \in Int
                     /\ g[i] \in Int
                     /\ g[i] = ab * wd[i] + aa * ww[i]
                     /\ e[i] = bb * dd[i] + 1 * g[i]
      BY <1>7 DEF S, wd, ww, dd
  <2>2. Laws!IsFiniteSet(S)
      BY <1>6 DEF S
  <2>3. Laws!SumOf(e, S) = bb * Laws!SumOf(dd, S) + 1 * Laws!SumOf(g, S)
      BY <1>6, <2>1, <2>2, Laws!SumLinear
  <2>4. Laws!SumOf(g, S) = ab * Laws!SumOf(wd, S) + aa * Laws!SumOf(ww, S)
    <3>1. \A i \in S : wd[i] \in Int /\ ww[i] \in Int /\ g[i] = ab * wd[i] + aa * ww[i]
        BY <2>1
    <3> QED
        BY <1>6, <2>2, <3>1, Laws!SumLinear
  <2> QED
      BY <2>3, <2>4 DEF Over, S, wd, ww, dd
<1>9. 1 * Over(g, w) = Over(g, w)
  <2>1. Over(g, w) \in Int
      BY <1>3, Products, Laws!SumType DEF Over
  <2> QED
      BY <2>1
<1> QED
    BY <1>1, <1>5, <1>8, <1>9 DEF aa, bb, ab

\* With N and W the sums that the slope divides, the errors of n / d and of
\* N / W differ by W (n W - d N)^2.
LEMMA LeastSquares ==
    ASSUME NEW w, Window(w), w # <<>>, NEW n \in Nat, NEW d \in Nat
    PROVE  Error(w, Slope(w).num, Slope(w).den) * d * d
             <= Error(w, n, d) * Slope(w).den * Slope(w).den
<1> DEFINE N == Over(WorkDelay(w), w)
           W == Over(WorkWork(w), w)
           D == Over(DelayDelay(w), w)
<1>1. Slope(w).num = N /\ Slope(w).den = W
    BY SlopeIs
<1>2. N \in Int /\ W \in Nat /\ D \in Int
    BY Products
<1>3. \A a, b \in Int :
        Error(w, a, b) = (b * b) * D + ((0 - 2 * (a * b)) * N + (a * a) * W)
    BY ErrorIs
<1> HIDE DEF N, W, D
<1>4. Error(w, N, W) = (W * W) * D + ((0 - 2 * (N * W)) * N + (N * N) * W)
    BY <1>2, <1>3
<1>5. Error(w, n, d) = (d * d) * D + ((0 - 2 * (n * d)) * N + (n * n) * W)
    BY <1>3
<1> DEFINE E == Error(w, N, W)
           F == Error(w, n, d)
           x == n * W - d * N
<1>6. x \in Int /\ x * x >= 0 /\ W * (x * x) >= 0
    BY <1>2
<1>7. F * W * W - E * d * d = W * (x * x)
    BY <1>2, <1>4, <1>5
<1>8. F \in Int /\ E \in Int
    BY <1>2, <1>4, <1>5
<1>9. F * W * W \in Int /\ E * d * d \in Int /\ W * (x * x) \in Int
    BY <1>2, <1>6, <1>8
<1> HIDE DEF E, F, x
<1>10. E * d * d <= F * W * W
    BY <1>6, <1>7, <1>9
<1> QED
    BY <1>1, <1>10 DEF E, F

-----------------------------------------------------------------------------
(* What a window holds.                                                    *)

Samples == [work : Nat \ {0}, delay : Nat]
Entries == [node : Nodes, work : Nat \ {0}, delay : Nat]

\* How much of a history a deque has kept.
Size(s) == IF Len(s) < History THEN Len(s) ELSE History

LEMMA RecentIs ==
    ASSUME NEW S, NEW s \in Seq(S)
    PROVE  /\ Len(s) \in Nat /\ Size(s) \in 0..Len(s) /\ Size(s) <= History
           /\ Recent(s) \in Seq(S) /\ Len(Recent(s)) = Size(s)
           /\ \A i \in 1..Size(s) : Recent(s)[i] = s[Len(s) - Size(s) + i]
<1>1. Len(s) \in Nat /\ History \in Nat \ {0} /\ \A i \in 1..Len(s) : s[i] \in S
    BY EstimatorAssumption DEF EstimatorAssumption
<1> DEFINE from == Max2(1, Len(s) + 1 - History)
<1>2. from \in Int /\ from >= 1 /\ from = Len(s) - Size(s) + 1 /\ Size(s) \in 0..Len(s)
      /\ Size(s) <= History
  <2>1. ASSUME NEW L \in Nat, NEW H \in Nat \ {0}
        PROVE  LET m == IF L < H THEN L ELSE H
                   f == IF 1 > L + 1 - H THEN 1 ELSE L + 1 - H
               IN  f \in Int /\ f >= 1 /\ f = L - m + 1 /\ m \in 0..L /\ m <= H
      OBVIOUS
  <2>2. /\ Size(s) = IF Len(s) < History THEN Len(s) ELSE History
        /\ from = IF 1 > Len(s) + 1 - History THEN 1 ELSE Len(s) + 1 - History
      BY DEF Max2, Size
  <2> HIDE DEF from
  <2> QED
      BY <1>1, <2>1, <2>2
<1>3. Recent(s) = SubSeq(s, from, Len(s))
    BY DEF Recent
<1> HIDE DEF from
<1>4. /\ SubSeq(s, from, Len(s)) \in Seq(S)
      /\ Len(SubSeq(s, from, Len(s))) = IF from <= Len(s) THEN Len(s) - from + 1 ELSE 0
      /\ \A i \in 1..(Len(s) - from + 1) : SubSeq(s, from, Len(s))[i] = s[from + i - 1]
  <2>1. \A i \in from..Len(s) : s[i] \in S
      BY <1>1, <1>2
  <2> QED
      BY <1>1, <1>2, <2>1, SubSeqProperties
<1>5. /\ Len(s) - from + 1 = Size(s) /\ (~(from <= Len(s)) => Size(s) = 0)
      /\ \A i \in 1..Size(s) : from + i - 1 = Len(s) - Size(s) + i
  <2>1. ASSUME NEW L \in Nat, NEW m \in 0..L, NEW f \in Int, f = L - m + 1
        PROVE  /\ L - f + 1 = m /\ (~(f <= L) => m = 0)
               /\ \A i \in 1..m : f + i - 1 = L - m + i
      BY <2>1
  <2> QED
      BY <1>1, <1>2, <2>1
<1> QED
    BY <1>1, <1>2, <1>3, <1>4, <1>5

\* The window has the works and the delays of the last entries.
Shows(w, s) ==
    /\ Len(w) = Size(s)
    /\ \A i \in 1..Size(s) : /\ w[i].work = s[Len(s) - Size(s) + i].work
                             /\ w[i].delay = s[Len(s) - Size(s) + i].delay

\* What is in the deque after an append, and where.
LEMMA PushIs ==
    ASSUME NEW w \in Seq(Samples), NEW x \in Samples
    PROVE  LET m == IF Len(w) < History THEN Len(w) + 1 ELSE History
           IN  /\ Push(w, x) \in Seq(Samples) /\ Len(Push(w, x)) = m /\ m <= History /\ m \in Nat
               /\ \A i \in 1..m : Push(w, x)[i] = IF i = m THEN x ELSE w[Len(w) + 1 - m + i]
               /\ \A i \in 1..m : i # m => Len(w) + 1 - m + i \in 1..Len(w)
<1> DEFINE all == Append(w, x)
           m == IF Len(w) < History THEN Len(w) + 1 ELSE History
<1>1. Len(w) \in Nat /\ History \in Nat \ {0}
    BY EstimatorAssumption DEF EstimatorAssumption
<1>2. /\ all \in Seq(Samples) /\ Len(all) = Len(w) + 1
      /\ \A j \in 1..(Len(w) + 1) : all[j] = IF j = Len(w) + 1 THEN x ELSE w[j]
    OBVIOUS
<1>3. Push(w, x) = Recent(all)
    BY DEF Push, Recent
<1>4. m = Size(all) /\ m \in Nat /\ m <= History /\ m <= Len(w) + 1
    BY <1>1, <1>2 DEF Size
<1> HIDE DEF all, m
<1>5. /\ Recent(all) \in Seq(Samples) /\ Len(Recent(all)) = m
      /\ \A i \in 1..m : Recent(all)[i] = all[Len(w) + 1 - m + i]
  <2>1. /\ Recent(all) \in Seq(Samples) /\ Len(Recent(all)) = m
        /\ \A i \in 1..m : Recent(all)[i] = all[Len(all) - m + i]
      BY <1>2, <1>4, RecentIs
  <2>2. \A i \in 1..m : Len(all) - m + i = Len(w) + 1 - m + i
      BY <1>1, <1>2, <1>4
  <2> QED
      BY <2>1, <2>2
<1>6. \A i \in 1..m : /\ Len(w) + 1 - m + i \in 1..(Len(w) + 1)
                      /\ Len(w) + 1 - m + i = Len(w) + 1 <=> i = m
                      /\ i # m => Len(w) + 1 - m + i \in 1..Len(w)
    BY <1>1, <1>4
<1>7. \A i \in 1..m : Recent(all)[i] = IF i = m THEN x ELSE w[Len(w) + 1 - m + i]
    BY <1>2, <1>5, <1>6
<1> QED
    BY <1>3, <1>4, <1>5, <1>6, <1>7 DEF m

\* A deque and the history it is taken from go on alike.
LEMMA PushShows ==
    ASSUME NEW w \in Seq(Samples), NEW x \in Samples, NEW s \in Seq(Entries), NEW y \in Entries,
           Shows(w, s), y.work = x.work, y.delay = x.delay
    PROVE  Shows(Push(w, x), Append(s, y))
<1> DEFINE t == Append(s, y)
           m == IF Len(w) < History THEN Len(w) + 1 ELSE History
<1>1. Len(w) \in Nat /\ Len(s) \in Nat /\ History \in Nat \ {0}
    BY EstimatorAssumption DEF EstimatorAssumption
<1>2. /\ Len(t) = Len(s) + 1
      /\ \A j \in 1..(Len(s) + 1) : t[j] = IF j = Len(s) + 1 THEN y ELSE s[j]
    OBVIOUS
<1> HIDE DEF t
<1>3. Len(w) = Size(s) /\ Size(s) = IF Len(s) < History THEN Len(s) ELSE History
    BY DEF Shows, Size
<1>4. m = Size(t) /\ m \in Nat /\ m <= Len(w) + 1
    BY <1>1, <1>2, <1>3 DEF Size
<1>5. /\ Len(Push(w, x)) = m
      /\ \A i \in 1..m : Push(w, x)[i] = IF i = m THEN x ELSE w[Len(w) + 1 - m + i]
    BY PushIs
<1> HIDE DEF m
<1>6. ASSUME NEW i \in 1..m
      PROVE  /\ Push(w, x)[i].work = t[Len(t) - m + i].work
             /\ Push(w, x)[i].delay = t[Len(t) - m + i].delay
  <2>1. CASE i = m
    <3>1. Len(t) - m + i = Len(s) + 1 /\ Len(s) + 1 \in 1..(Len(s) + 1)
        BY <1>1, <1>2, <1>4, <2>1
    <3>2. t[Len(t) - m + i] = y
        BY <1>2, <3>1
    <3> QED
        BY <1>5, <2>1, <3>2
  <2>2. CASE i # m
    <3> DEFINE j == Len(w) + 1 - m + i
    <3>1. /\ j \in 1..Size(s) /\ Len(s) - Size(s) + j = Len(t) - m + i
          /\ Len(t) - m + i \in 1..(Len(s) + 1) /\ Len(t) - m + i # Len(s) + 1
      <4>1. m = IF Len(s) + 1 < History THEN Len(s) + 1 ELSE History
          BY <1>2, <1>4 DEF Size
      <4>2. Size(s) \in Nat
          BY <1>1, <1>3
      <4>3. /\ Size(s) + 1 - m + i \in 1..Size(s)
            /\ Len(s) - Size(s) + (Size(s) + 1 - m + i) = (Len(s) + 1) - m + i
            /\ (Len(s) + 1) - m + i \in 1..(Len(s) + 1) /\ (Len(s) + 1) - m + i # Len(s) + 1
        <5> DEFINE L == Len(s)
                   z == Size(s)
        <5>1. /\ L \in Nat /\ z \in Nat /\ History \in Nat \ {0}
              /\ z = IF L < History THEN L ELSE History
              /\ m = IF L + 1 < History THEN L + 1 ELSE History
            BY <1>1, <1>3, <4>1, <4>2
        <5>2. i \in Int /\ 1 <= i /\ i <= m /\ i # m
            BY <1>4, <2>2
        <5> HIDE DEF L, z, j
        <5>3. /\ z + 1 - m + i \in 1..z /\ L - z + (z + 1 - m + i) = (L + 1) - m + i
              /\ (L + 1) - m + i \in 1..(L + 1) /\ (L + 1) - m + i # L + 1
            BY <5>1, <5>2
        <5> QED
            BY <5>3 DEF L, z
      <4>4. j = Size(s) + 1 - m + i /\ Len(t) = Len(s) + 1
          BY <1>2, <1>3
      <4> HIDE DEF j
      <4> QED
          BY <4>3, <4>4
    <3>2. Push(w, x)[i] = w[j]
        BY <1>5, <2>2
    <3> HIDE DEF j
    <3>3. /\ w[j].work = s[Len(s) - Size(s) + j].work
          /\ w[j].delay = s[Len(s) - Size(s) + j].delay
        BY <3>1 DEF Shows
    <3>4. t[Len(t) - m + i] = s[Len(s) - Size(s) + j]
        BY <1>2, <3>1
    <3> QED
        BY <3>2, <3>3, <3>4
  <2> QED
      BY <2>1, <2>2
<1>7. Shows(Push(w, x), t)
    BY <1>4, <1>5, <1>6 DEF Shows
<1> QED
    BY <1>7 DEF t

-----------------------------------------------------------------------------
(* The samples of a node, by the equations of the function in OfNode.      *)

Kept(F, s, n) ==
    F = [i \in 0 .. Len(s) |->
            IF i = 0 THEN <<>>
            ELSE IF s[i].node = n THEN Append(F[i - 1], s[i]) ELSE F[i - 1]]

KeptOf(s, n) == (CHOOSE F : Kept(F, s, n))[Len(s)]

LEMMA OfNodeIs == \A n : OfNode(n) = KeptOf(accepted, n)
BY DEF OfNode, KeptOf, Kept

LEMMA KeptAt ==
    ASSUME NEW s, Len(s) \in Nat, NEW n, NEW F, Kept(F, s, n)
    PROVE  /\ F[0] = <<>>
           /\ \A i \in 1..Len(s) :
                F[i] = IF s[i].node = n THEN Append(F[i - 1], s[i]) ELSE F[i - 1]
<1> DEFINE go(i) == IF s[i].node = n THEN Append(F[i - 1], s[i]) ELSE F[i - 1]
<1>1. F = [i \in 0..Len(s) |-> IF i = 0 THEN <<>> ELSE go(i)]
    BY DEF Kept
<1> HIDE DEF go
<1>2. \A i \in 0..Len(s) : F[i] = IF i = 0 THEN <<>> ELSE go(i)
    BY <1>1
<1>3. 0 \in 0..Len(s) /\ \A i \in 1..Len(s) : i \in 0..Len(s) /\ i # 0
    OBVIOUS
<1> QED
    BY <1>2, <1>3 DEF go

\* The equations have a solution, built entry by entry.
LEMMA KeptExists ==
    ASSUME NEW s, Len(s) \in Nat, NEW n
    PROVE  \E F : Kept(F, s, n)
<1> DEFINE go(F, i) == IF s[i].node = n THEN Append(F[i - 1], s[i]) ELSE F[i - 1]
           UpTo(k) == \E F : F = [i \in 0..k |-> IF i = 0 THEN <<>> ELSE go(F, i)]
           Bad == {k \in Nat : ~UpTo(k)}
<1>1. UpTo(0)
  <2> DEFINE f == [i \in 0..0 |-> <<>>]
  <2>1. f = [i \in 0..0 |-> IF i = 0 THEN <<>> ELSE go(f, i)]
      OBVIOUS
  <2> QED
      BY <2>1
<1>2. ASSUME NEW k \in Nat, UpTo(k) PROVE UpTo(k + 1)
  <2>1. PICK f : f = [i \in 0..k |-> IF i = 0 THEN <<>> ELSE go(f, i)]
      BY <1>2
  <2> DEFINE g == [i \in 0..(k + 1) |-> IF i \in 0..k THEN f[i] ELSE go(f, k + 1)]
  <2>2. \A i \in 0..k : g[i] = f[i]
      OBVIOUS
  <2>3. \A i \in 1..(k + 1) : g[i - 1] = f[i - 1]
      BY <2>2
  <2>4. \A i \in 1..(k + 1) : go(g, i) = go(f, i)
    <3> HIDE DEF g
    <3> QED
        BY <2>3
  <2>5. \A i \in 0..(k + 1) : g[i] = IF i = 0 THEN <<>> ELSE go(f, i)
    <3> HIDE DEF go
    <3>1. \A i \in 0..k : f[i] = IF i = 0 THEN <<>> ELSE go(f, i)
        BY <2>1
    <3>2. \A i \in 0..(k + 1) : i \in 0..k \/ (i = k + 1 /\ i # 0)
        OBVIOUS
    <3> QED
        BY <3>1, <3>2
  <2>6. g = [i \in 0..(k + 1) |-> IF i = 0 THEN <<>> ELSE go(g, i)]
    <3>1. g = [i \in 0..(k + 1) |-> g[i]]
        OBVIOUS
    <3> HIDE DEF g, go
    <3> QED
        BY <2>4, <2>5, <3>1
  <2> QED
      BY <2>6
<1>3. Bad = {}
  <2> SUFFICES ASSUME Bad # {} PROVE FALSE
      OBVIOUS
  <2> HIDE DEF UpTo
  <2>1. Bad \in SUBSET Nat
      OBVIOUS
  <2>2. PICK m \in Bad : \A k \in Bad : m <= k
    <3> HIDE DEF Bad
    <3> QED
        BY <2>1, Laws!Least
  <2>3. m # 0 /\ m - 1 \in Nat /\ m - 1 \notin Bad
      BY <1>1, <2>2
  <2>4. UpTo(m - 1) /\ m = (m - 1) + 1
      BY <2>3
  <2>5. UpTo(m)
      BY <1>2, <2>3, <2>4
  <2> QED
      BY <2>2, <2>5
<1>4. UpTo(Len(s))
  <2> HIDE DEF UpTo
  <2> QED
      BY <1>3
<1> QED
    BY <1>4 DEF Kept

\* An entry of the node is added to those of the node, another is not.
LEMMA KeptAppend ==
    ASSUME NEW s \in Seq(Entries), NEW y \in Entries, NEW n
    PROVE  /\ KeptOf(<<>>, n) = <<>>
           /\ KeptOf(Append(s, y), n) = IF y.node = n THEN Append(KeptOf(s, n), y) ELSE KeptOf(s, n)
<1>1. KeptOf(<<>>, n) = <<>>
  <2> DEFINE E == CHOOSE E : Kept(E, <<>>, n)
  <2>1. Len(<<>>) = 0
      OBVIOUS
  <2>2. Kept(E, <<>>, n)
      BY <2>1, KeptExists
  <2>3. KeptOf(<<>>, n) = E[0]
      BY <2>1 DEF KeptOf
  <2> HIDE DEF E
  <2> QED
      BY <2>1, <2>2, <2>3, KeptAt
<1> DEFINE t == Append(s, y)
           F == CHOOSE F : Kept(F, s, n)
           G == CHOOSE G : Kept(G, t, n)
           Bad == {i \in 0..Len(s) : F[i] # G[i]}
<1>2. /\ Len(s) \in Nat /\ Len(t) = Len(s) + 1 /\ t[Len(s) + 1] = y
      /\ \A i \in 1..Len(s) : t[i] = s[i]
    OBVIOUS
<1> HIDE DEF t
<1>3. Kept(F, s, n) /\ Kept(G, t, n)
    BY <1>2, KeptExists
<1>4. KeptOf(s, n) = F[Len(s)] /\ KeptOf(t, n) = G[Len(s) + 1]
    BY <1>2 DEF KeptOf
<1> HIDE DEF F, G
<1>5. /\ F[0] = <<>> /\ G[0] = <<>>
      /\ \A i \in 1..Len(s) : F[i] = IF s[i].node = n THEN Append(F[i - 1], s[i]) ELSE F[i - 1]
      /\ \A i \in 1..(Len(s) + 1) : G[i] = IF t[i].node = n THEN Append(G[i - 1], t[i]) ELSE G[i - 1]
    BY <1>2, <1>3, KeptAt
<1>6. Bad = {}
  <2> SUFFICES ASSUME Bad # {} PROVE FALSE
      OBVIOUS
  <2>1. Bad \in SUBSET Nat
      BY <1>2
  <2>2. PICK m \in Bad : \A k \in Bad : m <= k
    <3> HIDE DEF Bad
    <3> QED
        BY <2>1, Laws!Least
  <2>3. m \in 1..Len(s) /\ m \in 1..(Len(s) + 1) /\ m - 1 \in 0..Len(s) /\ m - 1 \notin Bad
      BY <1>2, <1>5, <2>2
  <2>4. F[m - 1] = G[m - 1] /\ t[m] = s[m]
      BY <1>2, <2>3
  <2>5. F[m] = G[m]
      BY <1>5, <2>3, <2>4
  <2> QED
      BY <2>2, <2>5
<1>7. F[Len(s)] = G[Len(s)]
    BY <1>2, <1>6
<1>8. Len(s) + 1 \in 1..(Len(s) + 1) /\ (Len(s) + 1) - 1 = Len(s)
    BY <1>2
<1>9. G[Len(s) + 1] = IF y.node = n THEN Append(G[Len(s)], y) ELSE G[Len(s)]
    BY <1>2, <1>5, <1>8
<1> QED
    BY <1>1, <1>4, <1>7, <1>9 DEF t

-----------------------------------------------------------------------------
(* The estimator: each window shows the last entries of a history.         *)

EstimatorInv ==
    /\ accepted \in Seq(Entries)
    /\ cluster \in Seq(Samples) /\ Shows(cluster, accepted)
    /\ local \in [Nodes -> Seq(Samples)]
    /\ \A n \in Nodes : KeptOf(accepted, n) \in Seq(Entries) /\ Shows(local[n], KeptOf(accepted, n))

LEMMA EstimatorInit == EmptyWindows => EstimatorInv
<1> SUFFICES ASSUME EmptyWindows PROVE EstimatorInv
    OBVIOUS
<1>1. accepted = <<>> /\ cluster = <<>> /\ local = [n \in Nodes |-> <<>>]
    BY DEF EmptyWindows
<1>2. /\ <<>> \in Seq(Entries) /\ <<>> \in Seq(Samples)
      /\ Shows(<<>>, <<>>)
    BY EstimatorAssumption DEF EstimatorAssumption, Shows, Size
<1>3. \A n : KeptOf(<<>>, n) = <<>>
  <2> DEFINE E(n) == CHOOSE E : Kept(E, <<>>, n)
  <2>1. Len(<<>>) = 0
      OBVIOUS
  <2>2. \A n : Kept(E(n), <<>>, n)
      BY <2>1, KeptExists
  <2>3. \A n : KeptOf(<<>>, n) = E(n)[0]
      BY <2>1 DEF KeptOf
  <2> HIDE DEF E
  <2> QED
      BY <2>1, <2>2, <2>3, KeptAt
<1> QED
    BY <1>1, <1>2, <1>3 DEF EstimatorInv

\* What a sample does to the windows.
Sampled(n, x) ==
    /\ cluster' = Push(cluster, x)
    /\ local' = [local EXCEPT ![n] = Push(@, x)]
    /\ accepted' = Append(accepted, [node |-> n, work |-> x.work, delay |-> x.delay])

LEMMA ObserveIs ==
    ASSUME NEW n \in Nodes, NEW work \in Int, NEW delay \in Int, Observe(n, work, delay)
    PROVE  \/ UNCHANGED estimator
           \/ /\ work > 0
              /\ [work |-> work, delay |-> Max2(0, delay)] \in Samples
              /\ Sampled(n, [work |-> work, delay |-> Max2(0, delay)])
<1>1. Max2(0, delay) \in Nat
    BY DEF Max2
<1> DEFINE d == Max2(0, delay)
           x == [work |-> work, delay |-> d]
<1>2. CASE work <= 0
    BY <1>2 DEF Observe
<1>3. CASE ~(work <= 0)
  <2>1. /\ cluster' = Push(cluster, x)
        /\ local' = [local EXCEPT ![n] = Push(@, x)]
        /\ accepted' = Append(accepted, [node |-> n, work |-> work, delay |-> d])
      BY <1>3 DEF Observe
  <2> HIDE DEF d
  <2>2. x \in Samples /\ work > 0
      BY <1>1, <1>3 DEF Samples, d
  <2>3. x.work = work /\ x.delay = d
      OBVIOUS
  <2>4. Sampled(n, x)
      BY <2>1, <2>3 DEF Sampled
  <2> QED
      BY <2>2, <2>4 DEF d
<1> QED
    BY <1>2, <1>3

LEMMA EstimatorStep ==
    ASSUME EstimatorInv, NEW n \in Nodes, NEW x \in Samples, Sampled(n, x)
    PROVE  EstimatorInv'
<1> DEFINE y == [node |-> n, work |-> x.work, delay |-> x.delay]
<1>1. /\ cluster' = Push(cluster, x)
      /\ local' = [local EXCEPT ![n] = Push(@, x)]
      /\ accepted' = Append(accepted, y)
    BY DEF Sampled
<1>2. y \in Entries /\ y.work = x.work /\ y.delay = x.delay /\ y.node = n
    BY DEF Entries, Samples
<1> HIDE DEF y
<1>3. accepted' \in Seq(Entries)
    BY <1>1, <1>2 DEF EstimatorInv
<1>4. cluster' \in Seq(Samples) /\ Shows(cluster', accepted')
    BY <1>1, <1>2, PushIs, PushShows DEF EstimatorInv
<1>5. \A m \in Nodes : local[m] \in Seq(Samples)
    BY DEF EstimatorInv
<1>6. /\ DOMAIN local' = Nodes
      /\ \A m \in Nodes : local'[m] = IF m = n THEN Push(local[n], x) ELSE local[m]
    BY <1>1 DEF EstimatorInv
<1>7. local' \in [Nodes -> Seq(Samples)]
  <2>1. Push(local[n], x) \in Seq(Samples)
      BY <1>5, PushIs
  <2>2. \A m \in Nodes : local'[m] \in Seq(Samples)
      BY <1>5, <1>6, <2>1
  <2>3. local' = [m \in Nodes |-> local'[m]]
      BY <1>1 DEF EstimatorInv
  <2> QED
      BY <2>2, <2>3
<1>8. ASSUME NEW m \in Nodes
      PROVE  KeptOf(accepted', m) \in Seq(Entries) /\ Shows(local'[m], KeptOf(accepted', m))
  <2>1. KeptOf(accepted', m) = IF n = m THEN Append(KeptOf(accepted, m), y) ELSE KeptOf(accepted, m)
      BY <1>1, <1>2, KeptAppend DEF EstimatorInv
  <2>2. KeptOf(accepted, m) \in Seq(Entries) /\ Shows(local[m], KeptOf(accepted, m))
      BY DEF EstimatorInv
  <2>3. CASE m = n
    <3>1. /\ KeptOf(accepted', m) = Append(KeptOf(accepted, m), y)
          /\ local'[m] = Push(local[m], x)
        BY <1>6, <2>1, <2>3
    <3>2. Append(KeptOf(accepted, m), y) \in Seq(Entries)
        BY <1>2, <2>2
    <3>3. Shows(Push(local[m], x), Append(KeptOf(accepted, m), y))
        BY <1>2, <1>5, <2>2, PushShows
    <3> QED
        BY <3>1, <3>2, <3>3
  <2>4. CASE m # n
      BY <1>6, <2>1, <2>2, <2>4
  <2> QED
      BY <2>3, <2>4
<1> QED
    BY <1>3, <1>4, <1>7, <1>8 DEF EstimatorInv

LEMMA EstimatorTypes == EstimatorInv => TypeOK
<1> SUFFICES ASSUME EstimatorInv PROVE TypeOK
    OBVIOUS
<1>1. ASSUME NEW s \in Seq(Entries) PROVE Size(s) <= History
    BY RecentIs
<1> QED
    BY <1>1 DEF EstimatorInv, TypeOK, Shows, Samples

\* Sequences of samples can be used as windows.
LEMMA SamplesWindow == \A w \in Seq(Samples) : Window(w)
<1> SUFFICES ASSUME NEW w \in Seq(Samples) PROVE Window(w)
    OBVIOUS
<1>1. Len(w) \in Nat /\ DOMAIN w = 1..Len(w) /\ \A i \in 1..Len(w) : w[i] \in Samples
    OBVIOUS
<1> QED
    BY <1>1 DEF Samples, Window

\* The slope of the window that predict_ms takes is that of least squares over
\* the entries that it should rest on.
LEMMA EstimatorOptimal == EstimatorInv /\ LocalMin <= History => PredictionIsLeastSquares
<1> SUFFICES ASSUME EstimatorInv, LocalMin <= History, NEW n \in Nodes, Relevant(n) # <<>>,
                    NEW f \in Fractions
             PROVE  Error(Relevant(n), Predicted(n).num, Predicted(n).den) * f.den * f.den
                      <= Error(Relevant(n), f.num, f.den) * Predicted(n).den * Predicted(n).den
    BY DEF PredictionIsLeastSquares
<1>1. PICK s \in Seq(Entries) :
        Estimate(n) \in Seq(Samples) /\ Shows(Estimate(n), s) /\ Relevant(n) = Recent(s)
  <2> DEFINE own == KeptOf(accepted, n)
  <2>1. /\ own \in Seq(Entries) /\ OfNode(n) = own /\ Len(local[n]) = Size(own)
        /\ local[n] \in Seq(Samples) /\ Shows(local[n], own)
      BY OfNodeIs DEF EstimatorInv, Shows
  <2> HIDE DEF own
  <2>2. Len(own) \in Nat /\ LocalMin \in Nat /\ History \in Nat
      BY <2>1, EstimatorAssumption DEF EstimatorAssumption
  <2>3. Len(local[n]) < LocalMin <=> Len(own) < LocalMin
      BY <2>1, <2>2 DEF Size
  <2>4. CASE Len(own) < LocalMin
    <3>1. Estimate(n) = cluster /\ Relevant(n) = Recent(accepted)
        BY <2>1, <2>3, <2>4 DEF Estimate, Relevant
    <3> QED
        BY <3>1 DEF EstimatorInv
  <2>5. CASE ~(Len(own) < LocalMin)
    <3>1. Estimate(n) = local[n] /\ Relevant(n) = Recent(own)
        BY <2>1, <2>3, <2>5 DEF Estimate, Relevant
    <3> QED
        BY <2>1, <3>1
  <2> QED
      BY <2>4, <2>5
<1> DEFINE w == Estimate(n)
           v == Relevant(n)
<1>2. /\ Len(v) = Size(s) /\ DOMAIN v = 1..Len(v) /\ v # <<>> /\ Size(s) \in Nat
      /\ \A i \in 1..Size(s) : v[i] = s[Len(s) - Size(s) + i]
    BY <1>1, RecentIs
<1>3. /\ Window(w) /\ Len(w) = Size(s) /\ DOMAIN w = 1..Len(w)
      /\ \A i \in 1..Size(s) : w[i].work = v[i].work /\ w[i].delay = v[i].delay
    BY <1>1, <1>2, SamplesWindow DEF Shows
<1>4. w # <<>>
  <2>1. Len(v) # 0
      BY <1>1, <1>2, RecentIs, EmptySeq
  <2> QED
      BY <1>2, <1>3, <2>1
<1>5. Predicted(n) = Slope(w)
    BY <1>4 DEF Predicted
<1> HIDE DEF w, v
<1>6. ASSUME NEW a, NEW b PROVE Error(v, a, b) = Error(w, a, b)
  <2> DEFINE e(u, i) == (b * u[i].delay - a * u[i].work) * (b * u[i].delay - a * u[i].work)
  <2>1. Error(v, a, b) = Total([i \in 1..Size(s) |-> e(v, i)])
        /\ Error(w, a, b) = Total([i \in 1..Size(s) |-> e(w, i)])
      BY <1>2, <1>3 DEF Error
  <2>2. \A i \in 1..Size(s) : e(v, i) = e(w, i)
      BY <1>3
  <2> HIDE DEF e
  <2>3. [i \in 1..Size(s) |-> e(v, i)] = [i \in 1..Size(s) |-> e(w, i)]
      BY <2>2
  <2> QED
      BY <2>1, <2>3
<1>7. f.num \in Nat /\ f.den \in Nat
    BY DEF Fractions
<1>8. Error(w, Slope(w).num, Slope(w).den) * f.den * f.den
        <= Error(w, f.num, f.den) * Slope(w).den * Slope(w).den
    BY <1>3, <1>4, <1>7, LeastSquares
<1> QED
    BY <1>5, <1>6, <1>8 DEF v

-----------------------------------------------------------------------------
(* The slope of samples whose ratios are known.                            *)

\* The ratio of all samples is at least r: so is the slope.
LEMMA SlopeAtLeast ==
    ASSUME NEW w, Window(w), NEW r \in Int, \A i \in 1..Len(w) : w[i].delay >= r * w[i].work
    PROVE  Over(WorkDelay(w), w) >= r * Over(WorkWork(w), w)
<1> DEFINE S == 1..Len(w)
           wd == WorkDelay(w)
           ww == WorkWork(w)
           c == 0 - r
           above == [i \in S |-> 1 * wd[i] + c * ww[i]]
<1>1. ASSUME NEW i \in S
      PROVE  wd[i] \in Int /\ ww[i] \in Int /\ 1 * wd[i] + c * ww[i] \in Nat
  <2>1. /\ w[i].work \in Nat /\ w[i].delay \in Int /\ w[i].delay >= r * w[i].work
        /\ wd[i] = w[i].work * w[i].delay /\ ww[i] = w[i].work * w[i].work
    <3>1. w[i].work \in Nat /\ w[i].delay \in Int
        BY DEF Window
    <3>2. wd[i] = w[i].work * w[i].delay /\ ww[i] = w[i].work * w[i].work
        BY Products
    <3> QED
        BY <3>1, <3>2
  <2>2. \A a \in Nat : \A d \in Int :
          d >= r * a => /\ a * d \in Int /\ a * a \in Int
                        /\ 1 * (a * d) + (0 - r) * (a * a) \in Nat
    <3> SUFFICES ASSUME NEW a \in Nat, NEW d \in Int, d >= r * a
                 PROVE  /\ a * d \in Int /\ a * a \in Int
                        /\ 1 * (a * d) + (0 - r) * (a * a) \in Nat
        OBVIOUS
    <3>1. a * (d - r * a) >= 0
        OBVIOUS
    <3>2. a * (d - r * a) = 1 * (a * d) + (0 - r) * (a * a)
        OBVIOUS
    <3> QED
        BY <3>1, <3>2
  <2> HIDE DEF wd, ww
  <2> QED
      BY <2>1, <2>2
<1>2. c \in Int /\ 1 \in Int /\ Laws!IsFiniteSet(S)
    BY Products
<1> HIDE DEF S, wd, ww, c
<1>3. \A i \in S : /\ wd[i] \in Int /\ ww[i] \in Int /\ above[i] = 1 * wd[i] + c * ww[i]
                   /\ above[i] \in Nat
    BY <1>1
<1> HIDE DEF above
<1>4. Laws!SumOf(above, S) = 1 * Laws!SumOf(wd, S) + c * Laws!SumOf(ww, S)
    BY <1>2, <1>3, Laws!SumLinear
<1>5. Laws!SumOf(above, S) \in Nat
    BY <1>2, <1>3, Laws!SumNat
<1>6. Laws!SumOf(wd, S) \in Int /\ Laws!SumOf(ww, S) \in Int
    BY <1>2, <1>3, Laws!SumType
<1>7. ASSUME NEW N \in Int, NEW W \in Int, 1 * N + (0 - r) * W \in Nat PROVE N >= r * W
    BY <1>7
<1>8. Laws!SumOf(wd, S) >= r * Laws!SumOf(ww, S)
    BY <1>4, <1>5, <1>6, <1>7 DEF c
<1> QED
    BY <1>8 DEF Over, S, wd, ww

\* The ratio of all samples is r: so is the slope.
LEMMA SlopeEquals ==
    ASSUME NEW w, Window(w), NEW r \in Int, \A i \in 1..Len(w) : w[i].delay = r * w[i].work
    PROVE  Over(WorkDelay(w), w) = r * Over(WorkWork(w), w)
<1> DEFINE S == 1..Len(w)
           wd == WorkDelay(w)
           ww == WorkWork(w)
<1>1. ASSUME NEW i \in S
      PROVE  wd[i] \in Int /\ ww[i] \in Int /\ wd[i] = r * ww[i] + 0 * ww[i]
  <2>1. /\ w[i].work \in Nat /\ w[i].delay = r * w[i].work
        /\ wd[i] = w[i].work * w[i].delay /\ ww[i] = w[i].work * w[i].work
      BY Products DEF Window
  <2>2. \A a \in Nat : /\ a * (r * a) \in Int /\ a * a \in Int
                       /\ a * (r * a) = r * (a * a) + 0 * (a * a)
      OBVIOUS
  <2> HIDE DEF wd, ww
  <2> QED
      BY <2>1, <2>2
<1>2. r \in Int /\ 0 \in Int /\ Laws!IsFiniteSet(S)
    BY Products
<1> HIDE DEF S, wd, ww
<1>3. Laws!SumOf(wd, S) = r * Laws!SumOf(ww, S) + 0 * Laws!SumOf(ww, S)
    BY <1>1, <1>2, Laws!SumLinear
<1>4. Laws!SumOf(ww, S) \in Int
    BY <1>1, <1>2, Laws!SumType
<1>5. Laws!SumOf(wd, S) = r * Laws!SumOf(ww, S)
    BY <1>3, <1>4
<1> QED
    BY <1>5 DEF Over, S, wd, ww

\* A combination of the sums that is positive for each sample is positive.
LEMMA Combined ==
    ASSUME NEW w, Window(w), w # <<>>, NEW a \in Int, NEW b \in Int,
           \A i \in 1..Len(w) :
              a * (w[i].work * w[i].delay) + b * (w[i].work * w[i].work) \in Nat \ {0}
    PROVE  a * Over(WorkDelay(w), w) + b * Over(WorkWork(w), w) \in Nat \ {0}
<1> DEFINE S == 1..Len(w)
           wd == WorkDelay(w)
           ww == WorkWork(w)
           both == [i \in S |-> a * wd[i] + b * ww[i]]
<1>1. \A i \in S : wd[i] \in Int /\ ww[i] \in Int /\ a * wd[i] + b * ww[i] \in Nat \ {0}
  <2> SUFFICES ASSUME NEW i \in S
               PROVE  wd[i] \in Int /\ ww[i] \in Int /\ a * wd[i] + b * ww[i] \in Nat \ {0}
      OBVIOUS
  <2>1. wd[i] = w[i].work * w[i].delay /\ ww[i] = w[i].work * w[i].work
        /\ wd[i] \in Int /\ ww[i] \in Int
      BY Products
  <2>2. a * (w[i].work * w[i].delay) + b * (w[i].work * w[i].work) \in Nat \ {0}
      OBVIOUS
  <2> HIDE DEF wd, ww
  <2> QED
      BY <2>1, <2>2
<1>2. Laws!IsFiniteSet(S) /\ S # {}
    BY NonEmpty, Products
<1> HIDE DEF S, wd, ww
<1>3. \A i \in S : /\ wd[i] \in Int /\ ww[i] \in Int /\ both[i] = a * wd[i] + b * ww[i]
                   /\ both[i] \in Nat \ {0}
    BY <1>1
<1> HIDE DEF both
<1>4. Laws!SumOf(both, S) = a * Laws!SumOf(wd, S) + b * Laws!SumOf(ww, S)
    BY <1>2, <1>3, Laws!SumLinear
<1>5. Laws!SumOf(both, S) \in Nat \ {0}
    BY <1>2, <1>3, SumPositive
<1> QED
    BY <1>4, <1>5 DEF Over, S, wd, ww

\* The ratio of each sample is that of some node: the slope is between theirs.
LEMMA SlopeBetween ==
    ASSUME NEW w, Window(w), w # <<>>, NEW ratio, \A m \in Nodes : ratio[m] \in Int,
           \A i \in 1..Len(w) : \E m \in Nodes : w[i].delay = ratio[m] * w[i].work
    PROVE  /\ \E m \in Nodes : ratio[m] * Over(WorkWork(w), w) <= Over(WorkDelay(w), w)
           /\ \E m \in Nodes : ratio[m] * Over(WorkWork(w), w) >= Over(WorkDelay(w), w)
<1> DEFINE N == Over(WorkDelay(w), w)
           W == Over(WorkWork(w), w)
<1>1. N \in Int /\ W \in Int
    BY Products
<1> HIDE DEF N, W
<1>2. ASSUME \A m \in Nodes : ~(ratio[m] * W <= N) PROVE FALSE
  <2>1. ASSUME NEW i \in 1..Len(w)
        PROVE  W * (w[i].work * w[i].delay) + (0 - N) * (w[i].work * w[i].work) \in Nat \ {0}
    <3>1. PICK m \in Nodes : w[i].delay = ratio[m] * w[i].work
        OBVIOUS
    <3>2. w[i].work \in Nat \ {0} /\ ratio[m] \in Int /\ ratio[m] * W > N
        BY <1>1, <1>2 DEF Window
    <3>3. \A u \in Nat \ {0} : \A k \in Int :
            k * W > N => W * (u * (k * u)) + (0 - N) * (u * u) \in Nat \ {0}
      <4> SUFFICES ASSUME NEW u \in Nat \ {0}, NEW k \in Int, k * W > N
                   PROVE  W * (u * (k * u)) + (0 - N) * (u * u) \in Nat \ {0}
          OBVIOUS
      <4>1. u * u \in Nat \ {0} /\ k * W - N \in Nat \ {0}
          BY <1>1
      <4>2. (u * u) * (k * W - N) \in Nat \ {0}
        <5>1. \A p, q \in Nat \ {0} : p * q \in Nat \ {0}
            OBVIOUS
        <5> QED
            BY <4>1, <5>1
      <4>3. (u * u) * (k * W - N) = W * (u * (k * u)) + (0 - N) * (u * u)
          BY <1>1
      <4> QED
          BY <4>2, <4>3
    <3> QED
        BY <3>1, <3>2, <3>3
  <2> DEFINE a == W
             b == 0 - N
  <2>2. a \in Int /\ b \in Int
      BY <1>1
  <2>3. \A i \in 1..Len(w) :
          a * (w[i].work * w[i].delay) + b * (w[i].work * w[i].work) \in Nat \ {0}
      BY <2>1
  <2> HIDE DEF a, b
  <2>4. a * Over(WorkDelay(w), w) + b * Over(WorkWork(w), w) \in Nat \ {0}
      BY <2>2, <2>3, Combined
  <2>5. W * N + (0 - N) * W \in Nat \ {0}
      BY <2>4 DEF N, W, a, b
  <2> QED
      BY <1>1, <2>5
<1>3. ASSUME \A m \in Nodes : ~(ratio[m] * W >= N) PROVE FALSE
  <2>1. ASSUME NEW i \in 1..Len(w)
        PROVE  (0 - W) * (w[i].work * w[i].delay) + N * (w[i].work * w[i].work) \in Nat \ {0}
    <3>1. PICK m \in Nodes : w[i].delay = ratio[m] * w[i].work
        OBVIOUS
    <3>2. w[i].work \in Nat \ {0} /\ ratio[m] \in Int /\ ratio[m] * W < N
        BY <1>1, <1>3 DEF Window
    <3>3. \A u \in Nat \ {0} : \A k \in Int :
            k * W < N => (0 - W) * (u * (k * u)) + N * (u * u) \in Nat \ {0}
      <4> SUFFICES ASSUME NEW u \in Nat \ {0}, NEW k \in Int, k * W < N
                   PROVE  (0 - W) * (u * (k * u)) + N * (u * u) \in Nat \ {0}
          OBVIOUS
      <4>1. u * u \in Nat \ {0} /\ N - k * W \in Nat \ {0}
          BY <1>1
      <4>2. (u * u) * (N - k * W) \in Nat \ {0}
        <5>1. \A p, q \in Nat \ {0} : p * q \in Nat \ {0}
            OBVIOUS
        <5> QED
            BY <4>1, <5>1
      <4>3. (u * u) * (N - k * W) = (0 - W) * (u * (k * u)) + N * (u * u)
          BY <1>1
      <4> QED
          BY <4>2, <4>3
    <3> QED
        BY <3>1, <3>2, <3>3
  <2> DEFINE a == 0 - W
             b == N
  <2>2. a \in Int /\ b \in Int
      BY <1>1
  <2>3. \A i \in 1..Len(w) :
          a * (w[i].work * w[i].delay) + b * (w[i].work * w[i].work) \in Nat \ {0}
      BY <2>1
  <2> HIDE DEF a, b
  <2>4. a * Over(WorkDelay(w), w) + b * Over(WorkWork(w), w) \in Nat \ {0}
      BY <2>2, <2>3, Combined
  <2>5. (0 - W) * N + N * W \in Nat \ {0}
      BY <2>4 DEF N, W, a, b
  <2> QED
      BY <1>1, <2>5
<1> QED
    BY <1>2, <1>3 DEF N, W

\* What a deque holds after an append was in it before, or is the new sample.
LEMMA PushIn ==
    ASSUME NEW w \in Seq(Samples), NEW x \in Samples, NEW X,
           \A i \in 1..Len(w) : w[i] \in X, x \in X
    PROVE  \A i \in 1..Len(Push(w, x)) : Push(w, x)[i] \in X
<1> DEFINE m == IF Len(w) < History THEN Len(w) + 1 ELSE History
           p == Push(w, x)
           at(i) == Len(w) + 1 - m + i
<1>1. /\ Len(p) = m
      /\ \A i \in 1..m : p[i] = IF i = m THEN x ELSE w[at(i)]
      /\ \A i \in 1..m : i # m => at(i) \in 1..Len(w)
    BY PushIs
<1> HIDE DEF m, p, at
<1>2. \A i \in 1..Len(p) : p[i] \in X
    BY <1>1
<1> QED
    BY <1>2 DEF p

-----------------------------------------------------------------------------
(* What the reservations and the samples are.                              *)

Planned == 1 .. next - 1
OpenOn(n) == {r \in Planned : r \notin ended /\ route[r].node = n}
Reserved == [r \in Requests |-> IF r < next THEN route[r].share ELSE 0]

\* A planned request has a node, a work, and saw no more work on its node than
\* is ahead of it; the work in flight is that of the open requests.
FeedbackInv ==
    /\ next \in 1 .. MaxRequests + 1 /\ ended \subseteq Planned
    /\ \A r \in Planned : /\ route[r].node \in Nodes /\ route[r].share \in Nat
                           /\ route[r].seen \in Nat /\ route[r].ahead \in Nat
                           /\ route[r].seen <= route[r].ahead
    /\ inflight = [n \in Nodes |-> inflight[n]]
    /\ \A n \in Nodes : inflight[n] = Laws!SumOf(Reserved, OpenOn(n))

LEMMA FeedbackStart == InitFeedback => FeedbackInv
<1> SUFFICES ASSUME InitFeedback PROVE FeedbackInv
    OBVIOUS
<1>1. /\ next = 1 /\ ended = {} /\ inflight = [n \in Nodes |-> 0] /\ MaxRequests \in Nat
      /\ Planned = {}
    BY FeedbackAssumption DEF InitFeedback, FeedbackAssumption, Planned
<1>2. \A n \in Nodes : Laws!SumOf(Reserved, OpenOn(n)) = 0
  <2>1. \A n \in Nodes : OpenOn(n) = {}
      BY <1>1 DEF OpenOn
  <2> QED
      BY <2>1, Laws!SumEmpty
<1> QED
    BY <1>1, <1>2 DEF FeedbackInv

\* The open requests of a node are finitely many, and their works add up.
LEMMA OpenIs ==
    ASSUME FeedbackInv
    PROVE  /\ Laws!IsFiniteSet(Planned) /\ Planned \subseteq Requests
           /\ \A n \in Nodes : /\ OpenOn(n) \in SUBSET Planned /\ Laws!IsFiniteSet(OpenOn(n))
                               /\ inflight[n] \in Nat
           /\ \A r \in Planned : Reserved[r] = route[r].share /\ Reserved[r] \in Nat
<1>1. next \in Int /\ MaxRequests \in Nat /\ next - 1 \in Int /\ 1 \in Int
    BY FeedbackAssumption DEF FeedbackInv, FeedbackAssumption
<1>2. Laws!IsFiniteSet(Planned)
    BY <1>1, Interval DEF Planned
<1>3. Planned \subseteq Requests /\ \A r \in Planned : r < next
    BY <1>1 DEF Planned, Requests, FeedbackInv
<1>4. \A r \in Planned : Reserved[r] = route[r].share /\ Reserved[r] \in Nat
    BY <1>3 DEF Reserved, FeedbackInv
<1>5. ASSUME NEW n \in Nodes
      PROVE  OpenOn(n) \in SUBSET Planned /\ Laws!IsFiniteSet(OpenOn(n)) /\ inflight[n] \in Nat
  <2>1. OpenOn(n) \in SUBSET Planned
      BY DEF OpenOn
  <2>2. IsFiniteSet(OpenOn(n))
      BY <1>2, <2>1, SameFinite, FS_Subset
  <2>3. Laws!IsFiniteSet(OpenOn(n)) /\ \A r \in OpenOn(n) : Reserved[r] \in Nat
      BY <1>4, <2>1, <2>2, SameFinite
  <2>4. Laws!SumOf(Reserved, OpenOn(n)) \in Nat
      BY <2>3, Laws!SumNat
  <2> QED
      BY <2>1, <2>3, <2>4 DEF FeedbackInv
<1> QED
    BY <1>2, <1>3, <1>4, <1>5

\* A group adds to each node the work of its members there.
LEMMA PlanStep == FeedbackInv /\ PlanGroup => FeedbackInv'
<1> SUFFICES ASSUME FeedbackInv, PlanGroup PROVE FeedbackInv'
    OBVIOUS
<1>1. PICK last \in next .. next + GroupLimit - 1 :
        /\ last \in Requests
        /\ \E pick \in [next..last -> Nodes], share \in [next..last -> Shares] :
              /\ route' = [r \in Requests |->
                    IF r \notin next..last THEN route[r]
                    ELSE [node  |-> pick[r],
                          share |-> share[r],
                          seen  |-> inflight[pick[r]],
                          ahead |-> inflight[pick[r]]
                                    + SumOf(share, {q \in next .. r - 1 : pick[q] = pick[r]})]]
              /\ inflight' = [n \in Nodes |->
                    inflight[n] + SumOf(share, {q \in next..last : pick[q] = n})]
        /\ next' = last + 1
        /\ UNCHANGED <<estimator, ended, heard, output>>
    BY DEF PlanGroup
<1>2. PICK pick \in [next..last -> Nodes], share \in [next..last -> Shares] :
        /\ route' = [r \in Requests |->
              IF r \notin next..last THEN route[r]
              ELSE [node  |-> pick[r],
                    share |-> share[r],
                    seen  |-> inflight[pick[r]],
                    ahead |-> inflight[pick[r]]
                              + SumOf(share, {q \in next .. r - 1 : pick[q] = pick[r]})]]
        /\ inflight' = [n \in Nodes |->
              inflight[n] + SumOf(share, {q \in next..last : pick[q] = n})]
    BY <1>1
<1> DEFINE group == next..last
           before(r) == {q \in next .. r - 1 : pick[q] = pick[r]}
           new(n) == {q \in group : pick[q] = n}
<1>3. /\ next \in Nat /\ last \in Nat /\ 1 <= next /\ next <= last /\ next' = last + 1
      /\ last <= MaxRequests /\ MaxRequests \in Nat
    BY <1>1, FeedbackAssumption DEF FeedbackInv, FeedbackAssumption, Requests
<1>4. /\ Planned' = Planned \cup group /\ Planned \cap group = {}
      /\ group \subseteq Requests /\ Laws!IsFiniteSet(group)
      /\ \A r \in group : next .. r - 1 \subseteq group
  <2>1. Laws!IsFiniteSet(group)
      BY <1>3, Interval
  <2> QED
      BY <1>3, <2>1 DEF Planned, Requests
<1>5. \A r \in group : pick[r] \in Nodes /\ share[r] \in Nat
    BY <1>2, FeedbackAssumption DEF FeedbackAssumption
<1>6. ASSUME NEW s \in SUBSET group
      PROVE  Laws!IsFiniteSet(s) /\ SumOf(share, s) = Laws!SumOf(share, s) /\ SumOf(share, s) \in Nat
  <2>1. Laws!IsFiniteSet(s)
      BY <1>4, SameFinite, FS_Subset
  <2>2. \A r \in s : share[r] \in Nat
      BY <1>5
  <2> QED
      BY <2>1, <2>2, SameSum, Laws!SumNat
<1>7. ASSUME NEW r \in group
      PROVE  /\ route'[r].node = pick[r] /\ route'[r].share = share[r]
             /\ route'[r].seen = inflight[pick[r]]
             /\ route'[r].ahead = inflight[pick[r]] + SumOf(share, before(r))
  <2>1. r \in Requests
      BY <1>4
  <2>2. route'[r] = [node |-> pick[r], share |-> share[r], seen |-> inflight[pick[r]],
                     ahead |-> inflight[pick[r]] + SumOf(share, before(r))]
      BY <1>2, <2>1
  <2> HIDE DEF before
  <2> QED
      BY <2>2
<1>8. \A r \in Planned : route'[r] = route[r]
  <2>1. \A r \in Planned : r \in Requests /\ r \notin next..last
      BY <1>4, OpenIs
  <2> QED
      BY <1>2, <2>1
<1>9. \A n \in Nodes : inflight'[n] = inflight[n] + SumOf(share, new(n))
    BY <1>2
<1>10. inflight' = [n \in Nodes |-> inflight'[n]] /\ ended' = ended
    BY <1>1, <1>2
<1>11. /\ next' \in 1 .. MaxRequests + 1 /\ ended' \subseteq Planned'
    BY <1>3, <1>4, <1>10 DEF FeedbackInv
<1>12. ASSUME NEW r \in Planned'
       PROVE  /\ route'[r].node \in Nodes /\ route'[r].share \in Nat
              /\ route'[r].seen \in Nat /\ route'[r].ahead \in Nat
              /\ route'[r].seen <= route'[r].ahead
  <2>1. CASE r \in Planned
      BY <1>8, <2>1 DEF FeedbackInv
  <2>2. CASE r \in group
    <3>1. before(r) \in SUBSET group
        BY <1>4, <2>2
    <3>2. SumOf(share, before(r)) \in Nat
        BY <1>6, <3>1
    <3>3. inflight[pick[r]] \in Nat
        BY <1>5, <2>2, OpenIs
    <3> HIDE DEF before
    <3> QED
        BY <1>5, <1>7, <2>2, <3>2, <3>3
  <2> QED
      BY <1>4, <2>1, <2>2
<1>13. ASSUME NEW n \in Nodes PROVE inflight'[n] = Laws!SumOf(Reserved', OpenOn(n)')
  <2> DEFINE old == OpenOn(n)
             add == new(n)
  <2>1. OpenOn(n)' = old \cup add
    <3>1. \A r \in group : r \notin ended /\ route'[r].node = pick[r]
        BY <1>4, <1>7 DEF FeedbackInv
    <3> QED
        BY <1>4, <1>8, <1>10, <3>1 DEF OpenOn
  <2>2. /\ old \in SUBSET Planned /\ Laws!IsFiniteSet(old) /\ add \in SUBSET group
        /\ Laws!IsFiniteSet(add) /\ old \cap add = {}
        /\ SumOf(share, add) = Laws!SumOf(share, add)
      BY <1>4, <1>6, OpenIs
  <2>3. \A r \in Planned \cup group : Reserved'[r] = route'[r].share
    <3>1. \A r \in Planned \cup group : r \in Requests /\ r < next'
        BY <1>3, <1>4, OpenIs DEF Planned
    <3> QED
        BY <3>1 DEF Reserved
  <2>4. \A r \in old : Reserved'[r] \in Int /\ Reserved'[r] = Reserved[r]
    <3> HIDE DEF old, add, group
    <3>1. \A r \in Planned : Reserved'[r] = route[r].share
        BY <1>8, <2>3
    <3>2. \A r \in Planned : Reserved[r] = route[r].share /\ Reserved[r] \in Nat
        BY OpenIs
    <3> HIDE DEF Planned
    <3> SUFFICES ASSUME NEW r \in old PROVE Reserved'[r] \in Int /\ Reserved'[r] = Reserved[r]
        OBVIOUS
    <3>3. r \in Planned
        BY <2>2
    <3>4. Reserved'[r] = route[r].share /\ Reserved[r] = route[r].share
        BY <3>1, <3>2, <3>3, Zenon
    <3>5. Reserved[r] \in Nat
        BY <3>2, <3>3
    <3> QED
        BY <3>4, <3>5
  <2>5. \A r \in add : Reserved'[r] \in Int /\ Reserved'[r] = share[r]
    <3> SUFFICES ASSUME NEW r \in add PROVE Reserved'[r] \in Int /\ Reserved'[r] = share[r]
        OBVIOUS
    <3> HIDE DEF add, group, before
    <3>1. r \in group
        BY <2>2
    <3>2. Reserved'[r] = route'[r].share /\ route'[r].share = share[r]
        BY <1>7, <2>3, <3>1
    <3>3. share[r] \in Nat
        BY <1>5, <3>1
    <3> QED
        BY <3>2, <3>3
  <2>6. inflight[n] = Laws!SumOf(Reserved, old)
      BY DEF FeedbackInv
  <2>7. inflight'[n] = inflight[n] + SumOf(share, add)
      BY <1>9
  <2> HIDE DEF old, add
  <2>8. Laws!SumOf(Reserved', old) = Laws!SumOf(Reserved, old)
      BY <2>2, <2>4, Laws!SumAgree
  <2>9. Laws!SumOf(Reserved', add) = Laws!SumOf(share, add)
      BY <2>2, <2>5, Laws!SumAgree
  <2>10. Laws!SumOf(Reserved', old \cup add) = Laws!SumOf(Reserved', old) + Laws!SumOf(Reserved', add)
    <3>1. \A r \in old \cup add : Reserved'[r] \in Int
        BY <2>4, <2>5
    <3> QED
        BY <2>2, <3>1, Laws!SumUnion
  <2> QED
      BY <2>1, <2>2, <2>6, <2>7, <2>8, <2>9, <2>10
<1> QED
    BY <1>10, <1>11, <1>12, <1>13 DEF FeedbackInv

\* The end of a stream takes its work away.
LEMMA EndStep == ASSUME FeedbackInv, NEW r \in Requests, EndStream(r) PROVE FeedbackInv'
<1>1. /\ r < next /\ r \notin ended
      /\ inflight' = [inflight EXCEPT ![route[r].node] = @ - route[r].share]
      /\ ended' = ended \cup {r} /\ route' = route /\ next' = next
    BY DEF EndStream
<1>2. r \in Planned /\ Planned' = Planned
    BY <1>1 DEF Planned, Requests, FeedbackInv
<1>3. Reserved' = Reserved
    BY <1>1 DEF Reserved
<1>4. ASSUME NEW n \in Nodes PROVE inflight'[n] = Laws!SumOf(Reserved, OpenOn(n)')
  <2>1. CASE n = route[r].node
    <3> DEFINE old == OpenOn(n)
    <3>1. OpenOn(n)' = old \ {r} /\ r \in old
        BY <1>1, <1>2, <2>1 DEF OpenOn
    <3>2. Laws!IsFiniteSet(old) /\ \A q \in old : Reserved[q] \in Nat
        BY OpenIs
    <3>3. Reserved[r] = route[r].share /\ Laws!SumOf(Reserved, old) = inflight[n]
        BY <1>2, OpenIs DEF FeedbackInv
    <3>4. inflight'[n] = inflight[n] - route[r].share
        BY <1>1, <2>1 DEF FeedbackInv
    <3> HIDE DEF old
    <3>5. Laws!IsFiniteSet(old \ {r})
        BY <3>2, SameFinite, FS_Subset
    <3>6. Laws!SumOf(Reserved, old \ {r}) \in Nat
        BY <3>2, <3>5, Laws!SumNat
    <3>7. Laws!SumOf(Reserved, old) = Reserved[r] + Laws!SumOf(Reserved, old \ {r})
      <4>1. \A q \in old : Reserved[q] \in Int
          BY <3>2
      <4> QED
          BY <3>1, <3>2, <4>1, Laws!SumRemove
    <3>8. Reserved[r] \in Nat
        BY <3>1, <3>2
    <3> QED
        BY <3>1, <3>3, <3>4, <3>6, <3>7, <3>8
  <2>2. CASE n # route[r].node
    <3>1. OpenOn(n)' = OpenOn(n)
        BY <1>1, <1>2, <2>2 DEF OpenOn
    <3>2. inflight'[n] = inflight[n]
        BY <1>1, <2>2 DEF FeedbackInv
    <3> QED
        BY <3>1, <3>2 DEF FeedbackInv
  <2> QED
      BY <2>1, <2>2
<1>5. inflight' = [n \in Nodes |-> inflight'[n]]
    BY <1>1 DEF FeedbackInv
<1> QED
    BY <1>1, <1>2, <1>3, <1>4, <1>5 DEF FeedbackInv

LEMMA PlanKeeps ==
    FeedbackInv /\ PlanGroup => \A r \in Planned : r \in Planned' /\ route'[r] = route[r]
<1> SUFFICES ASSUME FeedbackInv, PlanGroup, NEW r \in Planned
             PROVE  r \in Planned' /\ route'[r] = route[r]
    OBVIOUS
<1>1. PICK last \in next .. next + GroupLimit - 1 :
        /\ last \in Requests
        /\ \E pick \in [next..last -> Nodes], share \in [next..last -> Shares] :
              /\ route' = [q \in Requests |->
                    IF q \notin next..last THEN route[q]
                    ELSE [node  |-> pick[q],
                          share |-> share[q],
                          seen  |-> inflight[pick[q]],
                          ahead |-> inflight[pick[q]]
                                    + SumOf(share, {p \in next .. q - 1 : pick[p] = pick[q]})]]
              /\ inflight' = [n \in Nodes |->
                    inflight[n] + SumOf(share, {q \in next..last : pick[q] = n})]
        /\ next' = last + 1
    BY DEF PlanGroup
<1>2. r \in Requests /\ r \notin next..last /\ r \in 1 .. last
    BY <1>1, OpenIs DEF Planned, FeedbackInv
<1>3. route'[r] = route[r]
    BY <1>1, <1>2
<1>4. last + 1 - 1 = last
    BY <1>1 DEF Requests
<1> QED
    BY <1>1, <1>2, <1>3, <1>4 DEF Planned

-----------------------------------------------------------------------------
(* The lines of a stream.                                                  *)

StreamLines == {Stripped(line) : line \in Seq(Pieces)}
SplitStates == [lines : Seq(StreamLines), rest : Seq(Pieces)]
NothingSplit == [lines |-> <<>>, rest |-> <<>>]

\* The equations of the function in Split.
Cuts(F, s) == F = [i \in 0 .. Len(s) |-> IF i = 0 THEN NothingSplit ELSE Cut(F[i - 1], s[i])]

LEMMA SplitByCuts == \A s : Split(s) = (CHOOSE F : Cuts(F, s))[Len(s)]
BY DEF Split, Cuts, NothingSplit

LEMMA CutType ==
    ASSUME NEW state \in SplitStates, NEW piece \in Pieces
    PROVE  Cut(state, piece) \in SplitStates
<1>1. state.lines \in Seq(StreamLines) /\ state.rest \in Seq(Pieces)
    BY DEF SplitStates
<1>2. Stripped(state.rest) \in StreamLines
    BY <1>1 DEF StreamLines
<1>3. CASE piece = "LF"
  <2>1. Cut(state, piece) = [lines |-> Append(state.lines, Stripped(state.rest)), rest |-> <<>>]
      BY <1>3 DEF Cut
  <2>2. Append(state.lines, Stripped(state.rest)) \in Seq(StreamLines) /\ <<>> \in Seq(Pieces)
      BY <1>1, <1>2
  <2> QED
      BY <2>1, <2>2 DEF SplitStates
<1>4. CASE piece # "LF"
  <2>1. Cut(state, piece) = [lines |-> state.lines, rest |-> Append(state.rest, piece)]
      BY <1>4 DEF Cut, SplitStates
  <2>2. Append(state.rest, piece) \in Seq(Pieces)
      BY <1>1
  <2> QED
      BY <1>1, <2>1, <2>2 DEF SplitStates
<1> QED
    BY <1>3, <1>4

LEMMA NothingType == NothingSplit \in SplitStates
BY DEF NothingSplit, SplitStates

LEMMA CutsAt ==
    ASSUME NEW s \in Seq(Pieces), NEW F, Cuts(F, s)
    PROVE  /\ F[0] = NothingSplit
           /\ \A i \in 1..Len(s) : F[i] = Cut(F[i - 1], s[i])
           /\ \A i \in 0..Len(s) : F[i] \in SplitStates
<1> DEFINE go(i) == Cut(F[i - 1], s[i])
<1>1. F = [i \in 0..Len(s) |-> IF i = 0 THEN NothingSplit ELSE go(i)]
    BY DEF Cuts
<1> HIDE DEF go
<1>2. \A i \in 0..Len(s) : F[i] = IF i = 0 THEN NothingSplit ELSE go(i)
    BY <1>1
<1>3. Len(s) \in Nat /\ \A i \in 1..Len(s) : s[i] \in Pieces
    BY LenProperties
<1>4. F[0] = NothingSplit /\ \A i \in 1..Len(s) : F[i] = Cut(F[i - 1], s[i])
    BY <1>2, <1>3 DEF go
<1> DEFINE P == {i \in 0..Len(s) : F[i] \in SplitStates}
<1>5. 0 \in P
    BY <1>3, <1>4, NothingType
<1>6. \A i \in 1..Len(s) : i - 1 \in P => i \in P
    BY <1>3, <1>4, CutType
<1>7. \A i \in 0..Len(s) : i \in P
  <2> HIDE DEF P
  <2> QED
      BY <1>3, <1>5, <1>6, Induct
<1> QED
    BY <1>4, <1>7

LEMMA CutsExist == ASSUME NEW s \in Seq(Pieces) PROVE \E F : Cuts(F, s)
<1> DEFINE G == [p \in (1..Len(s)) \X SplitStates |-> Cut(p[2], s[p[1]])]
<1>1. Len(s) \in Nat /\ \A i \in 1..Len(s) : s[i] \in Pieces
    BY LenProperties
<1>2. \A i \in 1..Len(s) : \A x \in SplitStates : G[<<i, x>>] = Cut(x, s[i])
    OBVIOUS
<1> HIDE DEF G
<1>3. G \in [(1..Len(s)) \X SplitStates -> SplitStates]
  <2>1. ASSUME NEW p \in (1..Len(s)) \X SplitStates PROVE Cut(p[2], s[p[1]]) \in SplitStates
    <3>1. p[2] \in SplitStates /\ s[p[1]] \in Pieces
        BY <1>1
    <3> QED
        BY <3>1, CutType
  <2> QED
      BY <2>1 DEF G
<1>4. PICK F : /\ F \in [0..Len(s) -> SplitStates] /\ F[0] = NothingSplit
               /\ \A i \in 1..Len(s) : F[i] = G[<<i, F[i - 1]>>]
  <2>1. PICK F : Follows(F, Len(s), SplitStates, NothingSplit, G)
      BY <1>1, <1>3, NothingType, Recursion
  <2> QED
      BY <2>1 DEF Follows
<1>5. \A i \in 1..Len(s) : F[i] = Cut(F[i - 1], s[i])
  <2> SUFFICES ASSUME NEW i \in 1..Len(s) PROVE F[i] = Cut(F[i - 1], s[i])
      OBVIOUS
  <2>1. F[i - 1] \in SplitStates
    <3>1. i - 1 \in 0..Len(s)
        BY <1>1
    <3> QED
        BY <1>4, <3>1
  <2>2. F[i] = G[<<i, F[i - 1]>>]
      BY <1>4
  <2> QED
      BY <1>2, <2>1, <2>2
<1> DEFINE go(i) == Cut(F[i - 1], s[i])
<1>6. F = [i \in 0..Len(s) |-> IF i = 0 THEN NothingSplit ELSE go(i)]
  <2>1. \A i \in 0..Len(s) : F[i] = IF i = 0 THEN NothingSplit ELSE go(i)
    <3>1. \A i \in 0..Len(s) : i = 0 \/ i \in 1..Len(s)
        BY <1>1
    <3> QED
        BY <1>4, <1>5, <3>1
  <2> HIDE DEF go
  <2> QED
      BY <1>4, <2>1
<1> QED
    BY <1>6 DEF Cuts

LEMMA SplitIs ==
    ASSUME NEW s \in Seq(Pieces), NEW x \in Pieces
    PROVE  /\ Split(<<>>) = NothingSplit
           /\ Split(s) \in SplitStates
           /\ Split(Append(s, x)) = Cut(Split(s), x)
<1> DEFINE t == Append(s, x)
           F == CHOOSE F : Cuts(F, s)
           G == CHOOSE G : Cuts(G, t)
           E == CHOOSE E : Cuts(E, <<>>)
<1>1. /\ Len(s) \in Nat /\ t \in Seq(Pieces) /\ Len(t) = Len(s) + 1 /\ t[Len(s) + 1] = x
      /\ \A i \in 1..Len(s) : t[i] = s[i]
      /\ <<>> \in Seq(Pieces) /\ Len(<<>>) = 0
    OBVIOUS
<1> HIDE DEF t
<1>2. Cuts(F, s) /\ Cuts(G, t) /\ Cuts(E, <<>>)
    BY <1>1, CutsExist
<1>3. Split(s) = F[Len(s)] /\ Split(t) = G[Len(s) + 1] /\ Split(<<>>) = E[0]
    BY <1>1, SplitByCuts
<1> HIDE DEF E, F, G
<1>4. E[0] = NothingSplit
    BY <1>1, <1>2, CutsAt
<1>5. /\ F[0] = NothingSplit /\ \A i \in 1..Len(s) : F[i] = Cut(F[i - 1], s[i])
      /\ \A i \in 0..Len(s) : F[i] \in SplitStates
    BY <1>2, CutsAt
<1>6. G[0] = NothingSplit /\ \A i \in 1..(Len(s) + 1) : G[i] = Cut(G[i - 1], t[i])
    BY <1>1, <1>2, CutsAt
<1> DEFINE P == {i \in 0..Len(s) : F[i] = G[i]}
<1>7. 0 \in P
    BY <1>1, <1>5, <1>6
<1>8. ASSUME NEW i \in 1..Len(s), i - 1 \in P PROVE i \in P
  <2>1. F[i - 1] = G[i - 1] /\ t[i] = s[i] /\ i \in 1..(Len(s) + 1) /\ i \in 0..Len(s)
      BY <1>1, <1>8
  <2>2. F[i] = G[i]
      BY <1>5, <1>6, <2>1
  <2> QED
      BY <2>1, <2>2
<1>9. F[Len(s)] = G[Len(s)]
  <2>1. \A i \in 0..Len(s) : i \in P
    <3> HIDE DEF P
    <3> QED
        BY <1>1, <1>7, <1>8, Induct
  <2> QED
      BY <1>1, <2>1
<1>10. G[Len(s) + 1] = Cut(G[Len(s)], x)
  <2>1. Len(s) + 1 \in 1..(Len(s) + 1) /\ (Len(s) + 1) - 1 = Len(s)
      BY <1>1
  <2> QED
      BY <1>1, <1>6, <2>1
<1>11. F[Len(s)] \in SplitStates
    BY <1>1, <1>5
<1> QED
    BY <1>3, <1>4, <1>9, <1>10, <1>11 DEF t

LEMMA SplitType ==
    ASSUME NEW s \in Seq(Pieces)
    PROVE  /\ Split(s) \in SplitStates
           /\ Split(s).lines \in Seq(StreamLines) /\ Split(s).rest \in Seq(Pieces)
<1>1. "LF" \in Pieces
    BY DEF Pieces
<1>2. Split(s) \in SplitStates
    BY <1>1, SplitIs
<1> QED
    BY <1>2 DEF SplitStates

\* What follows the last line has no line in it.
LEMMA RestHasNoLine ==
    ASSUME NEW s \in Seq(Pieces)
    PROVE  Split(Split(s).rest) = [lines |-> <<>>, rest |-> Split(s).rest]
<1> DEFINE P == {u \in Seq(Pieces) : Split(Split(u).rest) = [lines |-> <<>>, rest |-> Split(u).rest]}
<1>1. <<>> \in P
    BY SplitIs DEF NothingSplit, Pieces
<1>2. ASSUME NEW u \in Seq(Pieces), u \in P, NEW x \in Pieces PROVE Append(u, x) \in P
  <2> DEFINE r == Split(u).rest
  <2>1. r \in Seq(Pieces) /\ Split(u) \in SplitStates
      BY SplitType
  <2>2. /\ Split(Append(u, x)) = Cut(Split(u), x)
        /\ Split(Append(r, x)) = Cut(Split(r), x)
        /\ Split(r) = [lines |-> <<>>, rest |-> r]
      BY <1>2, <2>1, SplitIs
  <2>3. Append(u, x) \in Seq(Pieces)
      OBVIOUS
  <2>4. CASE x = "LF"
    <3>1. Split(Append(u, x)).rest = <<>>
        BY <2>2, <2>4 DEF Cut
    <3>2. Split(<<>>) = [lines |-> <<>>, rest |-> <<>>]
        BY SplitIs DEF NothingSplit
    <3> QED
        BY <2>3, <3>1, <3>2
  <2>5. CASE x # "LF"
    <3>1. Split(Append(u, x)).rest = Append(r, x)
        BY <2>1, <2>2, <2>5 DEF Cut, SplitStates
    <3> HIDE DEF r
    <3>2. Split(Append(r, x)) = [lines |-> <<>>, rest |-> Append(r, x)]
      <4> DEFINE R == [lines |-> <<>>, rest |-> r]
      <4>1. Split(Append(r, x)) = Cut(R, x)
          BY <2>2, Zenon
      <4>2. Cut(R, x) = [lines |-> <<>>, rest |-> Append(r, x)]
          BY <2>5 DEF Cut
      <4> QED
          BY <4>1, <4>2
    <3> QED
        BY <2>3, <3>1, <3>2
  <2> QED
      BY <2>4, <2>5
<1>3. \A u \in Seq(Pieces) : u \in P
  <2> HIDE DEF P
  <2> QED
      BY <1>1, <1>2, SeqInduct
<1> QED
    BY <1>3

\* More of a stream adds the lines that begin with the rest.
LEMMA SplitConcat ==
    ASSUME NEW s \in Seq(Pieces), NEW t \in Seq(Pieces)
    PROVE  /\ Split(s \o t).lines = Split(s).lines \o Split(Split(s).rest \o t).lines
           /\ Split(s \o t).rest = Split(Split(s).rest \o t).rest
<1> DEFINE r == Split(s).rest
           L == Split(s).lines
           P == {u \in Seq(Pieces) : /\ Split(s \o u).lines = L \o Split(r \o u).lines
                                     /\ Split(s \o u).rest = Split(r \o u).rest}
<1>1. r \in Seq(Pieces) /\ L \in Seq(StreamLines)
    BY SplitType
<1>2. <<>> \in P
  <2>1. s \o <<>> = s /\ r \o <<>> = r /\ L \o <<>> = L
      BY <1>1, ConcatEmptySeq
  <2>2. Split(r) = [lines |-> <<>>, rest |-> r]
      BY RestHasNoLine
  <2>3. <<>> \in Seq(Pieces)
      OBVIOUS
  <2>4. Split(s).lines = L \o Split(r).lines /\ Split(s).rest = Split(r).rest
    <3>1. Split(r).lines = <<>> /\ Split(r).rest = r
        BY <2>2
    <3>2. Split(s).lines = L /\ Split(s).rest = r
        OBVIOUS
    <3> HIDE DEF r, L
    <3>3. L = L \o Split(r).lines
        BY <2>1, <3>1, Zenon
    <3> QED
        BY <3>1, <3>2, <3>3, Zenon
  <2> HIDE DEF r, L
  <2> QED
      BY <2>1, <2>3, <2>4
<1> HIDE DEF r, L
<1>3. ASSUME NEW u \in Seq(Pieces), u \in P, NEW x \in Pieces PROVE Append(u, x) \in P
  <2> DEFINE A == Split(s \o u)
             B == Split(r \o u)
  <2>1. /\ s \o Append(u, x) = Append(s \o u, x) /\ r \o Append(u, x) = Append(r \o u, x)
        /\ s \o u \in Seq(Pieces) /\ r \o u \in Seq(Pieces) /\ Append(u, x) \in Seq(Pieces)
      BY <1>1
  <2>2. /\ Split(s \o Append(u, x)) = Cut(A, x) /\ Split(r \o Append(u, x)) = Cut(B, x)
        /\ A \in SplitStates /\ B \in SplitStates
      BY <2>1, SplitIs
  <2>3. A.lines = L \o B.lines /\ A.rest = B.rest
      BY <1>3
  <2> HIDE DEF A, B
  <2>4. B.lines \in Seq(StreamLines) /\ B.rest \in Seq(Pieces)
        /\ Stripped(B.rest) \in StreamLines
      BY <2>2 DEF SplitStates, StreamLines
  <2>5. Cut(A, x).lines = L \o Cut(B, x).lines /\ Cut(A, x).rest = Cut(B, x).rest
    <3>1. CASE x = "LF"
      <4>1. /\ Cut(A, x).lines = Append(A.lines, Stripped(A.rest)) /\ Cut(A, x).rest = <<>>
            /\ Cut(B, x).lines = Append(B.lines, Stripped(B.rest)) /\ Cut(B, x).rest = <<>>
          BY <3>1 DEF Cut
      <4> DEFINE lines == B.lines
                 line == Stripped(B.rest)
      <4>2. L \o Append(lines, line) = Append(L \o lines, line)
        <5>1. lines \in Seq(StreamLines) /\ line \in StreamLines
            BY <2>4
        <5> HIDE DEF lines, line
        <5> QED
            BY <1>1, <5>1
      <4> QED
          BY <2>3, <4>1, <4>2
    <3>2. CASE x # "LF"
      <4>1. /\ Cut(A, x).lines = A.lines /\ Cut(A, x).rest = Append(A.rest, x)
            /\ Cut(B, x).lines = B.lines /\ Cut(B, x).rest = Append(B.rest, x)
          BY <2>2, <3>2 DEF Cut, SplitStates
      <4> QED
          BY <2>3, <4>1
    <3> QED
        BY <3>1, <3>2
  <2> QED
      BY <2>1, <2>2, <2>5
<1>4. \A u \in Seq(Pieces) : u \in P
  <2> HIDE DEF P
  <2> QED
      BY <1>2, <1>3, SeqInduct
<1> QED
    BY <1>4 DEF r, L

-----------------------------------------------------------------------------
(* The loop over the lines.                                                *)

Tails == {Tail(line) : line \in StreamLines}
ReadStates == [data : Seq(Tails), found : BOOLEAN]
Begun(data) == [data |-> data, found |-> FALSE]

\* The equations of the function in Read.
Turns(F, data, lines) ==
    F = [i \in 0 .. Len(lines) |-> IF i = 0 THEN Begun(data) ELSE Step(F[i - 1], lines[i])]

LEMMA ReadByTurns ==
    \A data, lines : Read(data, lines) = (CHOOSE F : Turns(F, data, lines))[Len(lines)]
BY DEF Read, Turns, Begun

LEMMA HasOutputIs == \A data : HasOutput(data) \in BOOLEAN
BY DEF HasOutput

\* The turns of the loop of feed().
LEMMA StepIs ==
    ASSUME NEW R \in ReadStates, NEW line \in StreamLines
    PROVE  /\ Step(R, line) \in ReadStates
           /\ R.found => Step(R, line) = R
           /\ ~R.found => Step(R, line) =
                            IF IsData(line) THEN Begun(Append(R.data, Tail(line)))
                            ELSE IF line = <<>> THEN [data |-> <<>>, found |-> HasOutput(R.data)]
                            ELSE R
<1>1. /\ R.data \in Seq(Tails) /\ R.found \in BOOLEAN
      /\ R = [data |-> R.data, found |-> R.found]
    BY DEF ReadStates
<1>2. CASE R.found
    BY <1>2 DEF Step
<1>3. CASE ~R.found
  <2>1. CASE IsData(line)
    <3>1. Step(R, line) = [R EXCEPT !.data = Append(@, Tail(line))]
        BY <1>3, <2>1 DEF Step
    <3>2. Step(R, line) = [data |-> Append(R.data, Tail(line)), found |-> FALSE]
        BY <1>1, <1>3, <3>1
    <3>3. Append(R.data, Tail(line)) \in Seq(Tails)
      <4>1. Tail(line) \in Tails
          BY DEF Tails
      <4> QED
          BY <1>1, <4>1
    <3> QED
        BY <1>3, <2>1, <3>2, <3>3 DEF Begun, ReadStates
  <2>2. CASE ~IsData(line) /\ line = <<>>
    <3>1. Step(R, line) = [data |-> <<>>, found |-> HasOutput(R.data)]
        BY <1>3, <2>2 DEF Step
    <3>2. <<>> \in Seq(Tails) /\ HasOutput(R.data) \in BOOLEAN
        BY HasOutputIs
    <3>3. Step(R, line) \in ReadStates
      <4> DEFINE h == HasOutput(R.data)
      <4>1. Step(R, line) = [data |-> <<>>, found |-> h] /\ h \in BOOLEAN
          BY <3>1, <3>2, Zenon
      <4> HIDE DEF h
      <4> QED
          BY <3>2, <4>1 DEF ReadStates
    <3> QED
        BY <1>3, <2>2, <3>1, <3>3, Zenon
  <2>3. CASE ~IsData(line) /\ line # <<>>
      BY <1>3, <2>3 DEF Step
  <2> QED
      BY <2>1, <2>2, <2>3
<1> QED
    BY <1>2, <1>3

LEMMA BegunType == \A data \in Seq(Tails) : Begun(data) \in ReadStates
BY DEF Begun, ReadStates

LEMMA TurnsExist ==
    ASSUME NEW data \in Seq(Tails), NEW lines \in Seq(StreamLines)
    PROVE  \E F : Turns(F, data, lines)
<1> DEFINE G == [p \in (1..Len(lines)) \X ReadStates |-> Step(p[2], lines[p[1]])]
<1>1. Len(lines) \in Nat /\ \A i \in 1..Len(lines) : lines[i] \in StreamLines
    BY LenProperties
<1>2. \A i \in 1..Len(lines) : \A x \in ReadStates : G[<<i, x>>] = Step(x, lines[i])
    OBVIOUS
<1> HIDE DEF G
<1>3. G \in [(1..Len(lines)) \X ReadStates -> ReadStates]
  <2>1. ASSUME NEW p \in (1..Len(lines)) \X ReadStates PROVE Step(p[2], lines[p[1]]) \in ReadStates
    <3>1. p[2] \in ReadStates /\ lines[p[1]] \in StreamLines
        BY <1>1
    <3> QED
        BY <3>1, StepIs
  <2> QED
      BY <2>1 DEF G
<1>4. PICK F : /\ F \in [0..Len(lines) -> ReadStates] /\ F[0] = Begun(data)
               /\ \A i \in 1..Len(lines) : F[i] = G[<<i, F[i - 1]>>]
  <2>1. PICK F : Follows(F, Len(lines), ReadStates, Begun(data), G)
      BY <1>1, <1>3, BegunType, Recursion
  <2> QED
      BY <2>1 DEF Follows
<1>5. \A i \in 1..Len(lines) : F[i] = Step(F[i - 1], lines[i])
  <2> SUFFICES ASSUME NEW i \in 1..Len(lines) PROVE F[i] = Step(F[i - 1], lines[i])
      OBVIOUS
  <2>1. F[i - 1] \in ReadStates
    <3>1. i - 1 \in 0..Len(lines)
        BY <1>1
    <3> QED
        BY <1>4, <3>1
  <2>2. F[i] = G[<<i, F[i - 1]>>]
      BY <1>4
  <2> QED
      BY <1>2, <2>1, <2>2
<1> DEFINE go(i) == Step(F[i - 1], lines[i])
<1>6. F = [i \in 0..Len(lines) |-> IF i = 0 THEN Begun(data) ELSE go(i)]
  <2>1. \A i \in 0..Len(lines) : F[i] = IF i = 0 THEN Begun(data) ELSE go(i)
    <3>1. \A i \in 0..Len(lines) : i = 0 \/ i \in 1..Len(lines)
        BY <1>1
    <3> QED
        BY <1>4, <1>5, <3>1
  <2> HIDE DEF go
  <2> QED
      BY <1>4, <2>1
<1> QED
    BY <1>6 DEF Turns

LEMMA TurnsAt ==
    ASSUME NEW data \in Seq(Tails), NEW lines \in Seq(StreamLines), NEW F, Turns(F, data, lines)
    PROVE  /\ F[0] = Begun(data)
           /\ \A i \in 1..Len(lines) : F[i] = Step(F[i - 1], lines[i])
           /\ \A i \in 0..Len(lines) : F[i] \in ReadStates
<1> DEFINE go(i) == Step(F[i - 1], lines[i])
<1>1. F = [i \in 0..Len(lines) |-> IF i = 0 THEN Begun(data) ELSE go(i)]
    BY DEF Turns
<1> HIDE DEF go
<1>2. \A i \in 0..Len(lines) : F[i] = IF i = 0 THEN Begun(data) ELSE go(i)
    BY <1>1
<1>3. Len(lines) \in Nat /\ \A i \in 1..Len(lines) : lines[i] \in StreamLines
    BY LenProperties
<1>4. F[0] = Begun(data) /\ \A i \in 1..Len(lines) : F[i] = Step(F[i - 1], lines[i])
    BY <1>2, <1>3 DEF go
<1> DEFINE P == {i \in 0..Len(lines) : F[i] \in ReadStates}
<1>5. 0 \in P
    BY <1>3, <1>4, BegunType
<1>6. \A i \in 1..Len(lines) : i - 1 \in P => i \in P
    BY <1>3, <1>4, StepIs
<1>7. \A i \in 0..Len(lines) : i \in P
  <2> HIDE DEF P
  <2> QED
      BY <1>3, <1>5, <1>6, Induct
<1> QED
    BY <1>4, <1>7

LEMMA ReadIs ==
    ASSUME NEW data \in Seq(Tails), NEW lines \in Seq(StreamLines), NEW line \in StreamLines
    PROVE  /\ Read(data, <<>>) = Begun(data)
           /\ Read(data, lines) \in ReadStates
           /\ Read(data, Append(lines, line)) = Step(Read(data, lines), line)
<1> DEFINE t == Append(lines, line)
           F == CHOOSE F : Turns(F, data, lines)
           G == CHOOSE G : Turns(G, data, t)
           E == CHOOSE E : Turns(E, data, <<>>)
<1>1. /\ Len(lines) \in Nat /\ t \in Seq(StreamLines) /\ Len(t) = Len(lines) + 1
      /\ t[Len(lines) + 1] = line /\ \A i \in 1..Len(lines) : t[i] = lines[i]
      /\ <<>> \in Seq(StreamLines) /\ Len(<<>>) = 0
    OBVIOUS
<1> HIDE DEF t
<1>2. Turns(F, data, lines) /\ Turns(G, data, t) /\ Turns(E, data, <<>>)
    BY <1>1, TurnsExist
<1>3. /\ Read(data, lines) = F[Len(lines)] /\ Read(data, t) = G[Len(lines) + 1]
      /\ Read(data, <<>>) = E[0]
    BY <1>1, ReadByTurns
<1> HIDE DEF E, F, G
<1>4. E[0] = Begun(data)
    BY <1>1, <1>2, TurnsAt
<1>5. /\ F[0] = Begun(data) /\ \A i \in 1..Len(lines) : F[i] = Step(F[i - 1], lines[i])
      /\ \A i \in 0..Len(lines) : F[i] \in ReadStates
    BY <1>2, TurnsAt
<1>6. G[0] = Begun(data) /\ \A i \in 1..(Len(lines) + 1) : G[i] = Step(G[i - 1], t[i])
    BY <1>1, <1>2, TurnsAt
<1> DEFINE P == {i \in 0..Len(lines) : F[i] = G[i]}
<1>7. 0 \in P
    BY <1>1, <1>5, <1>6
<1>8. ASSUME NEW i \in 1..Len(lines), i - 1 \in P PROVE i \in P
  <2>1. F[i - 1] = G[i - 1] /\ t[i] = lines[i] /\ i \in 1..(Len(lines) + 1) /\ i \in 0..Len(lines)
      BY <1>1, <1>8
  <2>2. F[i] = G[i]
      BY <1>5, <1>6, <2>1
  <2> QED
      BY <2>1, <2>2
<1>9. F[Len(lines)] = G[Len(lines)]
  <2>1. \A i \in 0..Len(lines) : i \in P
    <3> HIDE DEF P
    <3> QED
        BY <1>1, <1>7, <1>8, Induct
  <2> QED
      BY <1>1, <2>1
<1>10. G[Len(lines) + 1] = Step(G[Len(lines)], line)
  <2>1. Len(lines) + 1 \in 1..(Len(lines) + 1) /\ (Len(lines) + 1) - 1 = Len(lines)
      BY <1>1
  <2> QED
      BY <1>1, <1>6, <2>1
<1>11. F[Len(lines)] \in ReadStates
    BY <1>1, <1>5
<1> QED
    BY <1>3, <1>4, <1>9, <1>10, <1>11 DEF t

LEMMA NothingRead == <<>> \in Seq(Tails) /\ <<>> \in Seq(StreamLines) /\ <<>> \in StreamLines
<1>1. Stripped(<<>>) = <<>>
  <2>1. {i \in DOMAIN <<>> : \E j \in i..Len(<<>>) : <<>>[j] # "CR"} = {}
      OBVIOUS
  <2> QED
      BY <2>1 DEF Stripped
<1>2. <<>> \in Seq(Pieces) /\ <<>> \in Seq(Tails) /\ <<>> \in Seq(StreamLines)
    OBVIOUS
<1>3. Stripped(<<>>) \in StreamLines
    BY <1>2 DEF StreamLines
<1> QED
    BY <1>1, <1>2, <1>3

\* The loop may be broken off after any line, if it goes on with the data.
LEMMA ReadConcat ==
    ASSUME NEW L \in Seq(StreamLines), NEW N \in Seq(StreamLines),
           NEW R, R = Read(<<>>, L)
    PROVE  /\ R.found => Read(<<>>, L \o N) = R
           /\ ~R.found => Read(<<>>, L \o N) = Read(R.data, N)
<1>1. <<>> \in Seq(Tails) /\ <<>> \in StreamLines
    BY NothingRead
<1>2. R \in ReadStates /\ R.data \in Seq(Tails) /\ R.found \in BOOLEAN
      /\ R = [data |-> R.data, found |-> R.found]
  <2>1. R \in ReadStates
      BY <1>1, ReadIs
  <2> QED
      BY <2>1 DEF ReadStates
<1> DEFINE Ends(u) == IF R.found THEN R ELSE Read(R.data, u)
           P == {u \in Seq(StreamLines) : Read(<<>>, L \o u) = Ends(u)}
<1>3. <<>> \in P
  <2>1. L \o <<>> = L /\ <<>> \in Seq(StreamLines)
      BY ConcatEmptySeq
  <2>2. Read(R.data, <<>>) = Begun(R.data)
      BY <1>1, <1>2, ReadIs
  <2>3. ~R.found => Begun(R.data) = R
      BY <1>2 DEF Begun
  <2> QED
      BY <2>1, <2>2, <2>3
<1>4. ASSUME NEW u \in Seq(StreamLines), u \in P, NEW x \in StreamLines PROVE Append(u, x) \in P
  <2>1. /\ L \o u \in Seq(StreamLines) /\ Append(u, x) \in Seq(StreamLines)
        /\ L \o Append(u, x) = Append(L \o u, x)
      OBVIOUS
  <2>2. Read(<<>>, L \o Append(u, x)) = Step(Ends(u), x)
    <3>1. Read(<<>>, Append(L \o u, x)) = Step(Read(<<>>, L \o u), x)
        BY <1>1, <2>1, ReadIs
    <3> QED
        BY <1>4, <2>1, <3>1
  <2>3. Step(Ends(u), x) = Ends(Append(u, x))
    <3>1. CASE R.found
        BY <1>2, <3>1, StepIs
    <3>2. CASE ~R.found
        BY <1>2, <3>2, ReadIs
    <3> QED
        BY <3>1, <3>2
  <2> QED
      BY <2>1, <2>2, <2>3
<1>5. \A u \in Seq(StreamLines) : u \in P
  <2> HIDE DEF P
  <2> QED
      BY <1>3, <1>4, SeqInduct
<1> QED
    BY <1>5

-----------------------------------------------------------------------------
(* The data of an event.                                                   *)

From(lines, k) == CHOOSE i \in 1..k : BeginsAt(lines, k, i)
With(data, line) == IF IsData(line) THEN Append(data, Tail(line)) ELSE data

\* The equations of the function in DataOf, for the lines up to n.
Held(F, lines, n, from) ==
    F = [j \in 0 .. n |->
            IF j < from THEN <<>>
            ELSE IF IsData(lines[j]) THEN Append(F[j - 1], Tail(lines[j])) ELSE F[j - 1]]

LEMMA DataByHeld ==
    \A lines, k : DataOf(lines, k) =
                    (CHOOSE F : Held(F, lines, k - 1, From(lines, k)))[k - 1]
BY DEF DataOf, Held, From

LEMMA WithType ==
    ASSUME NEW data \in Seq(Tails), NEW line \in StreamLines
    PROVE  With(data, line) \in Seq(Tails)
<1>1. Tail(line) \in Tails
    BY DEF Tails
<1> QED
    BY <1>1 DEF With

LEMMA HeldIs ==
    ASSUME NEW lines \in Seq(StreamLines), NEW n \in 0..Len(lines), NEW from \in Nat \ {0},
           NEW H, (\E F : Held(F, lines, n, from)) => Held(H, lines, n, from)
    PROVE  /\ H[0] = <<>>
           /\ \A j \in 1..n : H[j] = IF j < from THEN <<>> ELSE With(H[j - 1], lines[j])
           /\ \A j \in 0..n : H[j] \in Seq(Tails)
<1> DEFINE Then(x, j) == IF j < from THEN <<>> ELSE With(x, lines[j])
           G == [p \in (1..n) \X Seq(Tails) |-> Then(p[2], p[1])]
<1>1. n \in Nat /\ Len(lines) \in Nat /\ \A i \in 1..n : lines[i] \in StreamLines
    BY LenProperties
<1>2. \A i \in 1..n : \A x \in Seq(Tails) : G[<<i, x>>] = Then(x, i)
    OBVIOUS
<1> HIDE DEF G
<1>3. <<>> \in Seq(Tails) /\ \A i \in 1..n : \A x \in Seq(Tails) : Then(x, i) \in Seq(Tails)
  <2>1. <<>> \in Seq(Tails)
      OBVIOUS
  <2>2. ASSUME NEW i \in 1..n, NEW x \in Seq(Tails) PROVE Then(x, i) \in Seq(Tails)
      BY <1>1, <2>1, WithType
  <2> QED
      BY <2>1, <2>2, Zenon
<1> HIDE DEF Then
<1>4. G \in [(1..n) \X Seq(Tails) -> Seq(Tails)]
  <2>1. ASSUME NEW p \in (1..n) \X Seq(Tails) PROVE Then(p[2], p[1]) \in Seq(Tails)
      BY <1>3
  <2> QED
      BY <2>1 DEF G
<1>5. PICK F : /\ F \in [0..n -> Seq(Tails)] /\ F[0] = <<>>
               /\ \A i \in 1..n : F[i] = G[<<i, F[i - 1]>>]
  <2>1. PICK F : Follows(F, n, Seq(Tails), <<>>, G)
    <3> DEFINE T == Seq(Tails)
               empty == <<>>
    <3>1. n \in Nat /\ empty \in T /\ G \in [(1..n) \X T -> T]
        BY <1>1, <1>3, <1>4
    <3> HIDE DEF T, empty
    <3>2. \E F : Follows(F, n, T, empty, G)
        BY <3>1, Recursion
    <3> QED
        BY <3>2 DEF T, empty
  <2> QED
      BY <2>1 DEF Follows
<1>6. \A i \in 1..n : F[i] = Then(F[i - 1], i)
  <2> SUFFICES ASSUME NEW i \in 1..n PROVE F[i] = Then(F[i - 1], i)
      OBVIOUS
  <2>1. F[i - 1] \in Seq(Tails)
    <3>1. i - 1 \in 0..n
        BY <1>1
    <3> QED
        BY <1>5, <3>1
  <2>2. F[i] = G[<<i, F[i - 1]>>]
      BY <1>5
  <2> QED
      BY <1>2, <2>1, <2>2
<1> DEFINE now(E, j) == IF j < from THEN <<>>
                        ELSE IF IsData(lines[j]) THEN Append(E[j - 1], Tail(lines[j])) ELSE E[j - 1]
<1>7. \A E : \A j \in 1..n : now(E, j) = Then(E[j - 1], j)
    BY DEF Then, With
<1>8. \A E : now(E, 0) = <<>>
    OBVIOUS
<1>9. \A E : Held(E, lines, n, from) <=> E = [j \in 0..n |-> now(E, j)]
    BY DEF Held
<1> HIDE DEF now
<1>10. \A j \in 0..n : j = 0 \/ j \in 1..n
    BY <1>1
<1>11. Held(F, lines, n, from)
  <2>1. \A j \in 0..n : F[j] = now(F, j)
      BY <1>5, <1>6, <1>7, <1>8, <1>10
  <2>2. F = [j \in 0..n |-> now(F, j)]
      BY <1>5, <2>1
  <2> QED
      BY <1>9, <2>2
<1>12. Held(H, lines, n, from)
    BY <1>11
<1>13. \A j \in 0..n : H[j] = now(H, j)
  <2>1. H = [j \in 0..n |-> now(H, j)]
      BY <1>9, <1>12
  <2> QED
      BY <2>1
<1>14. H[0] = <<>> /\ \A j \in 1..n : H[j] = Then(H[j - 1], j)
    BY <1>1, <1>7, <1>8, <1>13
<1> DEFINE P == {j \in 0..n : H[j] \in Seq(Tails)}
<1>15. 0 \in P
  <2>1. H[0] \in Seq(Tails)
      BY <1>3, <1>14, Zenon
  <2> QED
      BY <1>1, <2>1
<1>16. \A j \in 1..n : j - 1 \in P => j \in P
    BY <1>3, <1>14
<1>17. \A j \in 0..n : j \in P
  <2> HIDE DEF P
  <2> QED
      BY <1>1, <1>15, <1>16, Induct
<1> QED
    BY <1>14, <1>17 DEF Then

\* One line begins the event.
LEMMA BeginsOnce ==
    ASSUME NEW lines, NEW k \in Nat, NEW a \in 1..k, NEW b \in 1..k,
           BeginsAt(lines, k, a), BeginsAt(lines, k, b)
    PROVE  a = b
<1>1. ASSUME NEW i \in 1..k, NEW j \in 1..k, BeginsAt(lines, k, i), BeginsAt(lines, k, j), i < j
      PROVE  FALSE
  <2>1. j # 1 /\ j - 1 \in i .. k - 1
      BY <1>1
  <2> QED
      BY <1>1, <2>1 DEF BeginsAt
<1> QED
    BY <1>1

LEMMA FromIs ==
    ASSUME NEW lines \in Seq(StreamLines), NEW k \in 1..(Len(lines) + 1)
    PROVE  From(lines, k) \in 1..k /\ BeginsAt(lines, k, From(lines, k))
<1>1. Len(lines) \in Nat
    OBVIOUS
<1> DEFINE P == {j \in 0..Len(lines) : \E i \in 1..(j + 1) : BeginsAt(lines, j + 1, i)}
<1>2. 0 \in P
  <2>1. BeginsAt(lines, 0 + 1, 1) /\ 1 \in 1..(0 + 1)
      BY DEF BeginsAt
  <2> QED
      BY <1>1, <2>1
<1>3. ASSUME NEW j \in 1..Len(lines), j - 1 \in P PROVE j \in P
  <2>0. j \in Int /\ j \in 0..Len(lines)
      BY <1>1
  <2>1. PICK i \in 1..j : BeginsAt(lines, j, i)
    <3>1. (j - 1) + 1 = j
        BY <2>0
    <3> QED
        BY <1>3, <3>1
  <2>2. CASE lines[j] = <<>>
    <3>1. BeginsAt(lines, j + 1, j + 1)
      <4>1. j + 1 - 1 = j /\ \A l \in (j + 1) .. j + 1 - 1 : FALSE
          BY <2>0
      <4> QED
          BY <2>2, <4>1 DEF BeginsAt
    <3>2. j + 1 \in 1..(j + 1)
        BY <2>0
    <3> QED
        BY <2>0, <3>1, <3>2
  <2>3. CASE lines[j] # <<>>
    <3>1. BeginsAt(lines, j + 1, i)
      <4>1. \A l \in i .. j + 1 - 1 : l = j \/ l \in i .. j - 1
          BY <2>0
      <4> QED
          BY <2>1, <2>3, <4>1 DEF BeginsAt
    <3>2. i \in 1..(j + 1)
        BY <2>0
    <3> QED
        BY <2>0, <3>1, <3>2
  <2> QED
      BY <2>2, <2>3
<1>4. \A j \in 0..Len(lines) : j \in P
  <2> HIDE DEF P
  <2> QED
      BY <1>1, <1>2, <1>3, Induct
<1>5. \E i \in 1..k : BeginsAt(lines, k, i)
  <2>1. k - 1 \in 0..Len(lines) /\ (k - 1) + 1 = k
      BY <1>1
  <2> QED
      BY <1>4, <2>1
<1> QED
    BY <1>5 DEF From

\* What the event holds after a line more.
LEMMA DataGoesOn ==
    ASSUME NEW lines \in Seq(StreamLines)
    PROVE  /\ DataOf(lines, 1) = <<>>
           /\ \A k \in 1..Len(lines) :
                DataOf(lines, k + 1) = IF lines[k] = <<>> THEN <<>>
                                       ELSE With(DataOf(lines, k), lines[k])
           /\ \A k \in 1..(Len(lines) + 1) : DataOf(lines, k) \in Seq(Tails)
<1>1. Len(lines) \in Nat
    OBVIOUS
<1>2. ASSUME NEW k \in 1..(Len(lines) + 1), NEW H,
             H = CHOOSE F : Held(F, lines, k - 1, From(lines, k))
      PROVE  /\ DataOf(lines, k) = H[k - 1]
             /\ H[0] = <<>>
             /\ \A j \in 1..(k - 1) : H[j] = IF j < From(lines, k) THEN <<>>
                                             ELSE With(H[j - 1], lines[j])
             /\ H[k - 1] \in Seq(Tails)
             /\ k \in Nat
  <2>1. k - 1 \in 0..Len(lines) /\ From(lines, k) \in Nat \ {0} /\ k - 1 \in 0..(k - 1) /\ k \in Nat
      BY <1>1, FromIs
  <2> DEFINE n == k - 1
             from == From(lines, k)
  <2>2. n \in 0..Len(lines) /\ from \in Nat \ {0} /\ n \in 0..n
      BY <2>1
  <2>3. /\ DataOf(lines, k) = H[n]
        /\ (\E F : Held(F, lines, n, from)) => Held(H, lines, n, from)
      BY <1>2, DataByHeld
  <2> HIDE DEF n, from
  <2>4. /\ H[0] = <<>>
        /\ \A j \in 1..n : H[j] = IF j < from THEN <<>> ELSE With(H[j - 1], lines[j])
        /\ \A j \in 0..n : H[j] \in Seq(Tails)
      BY <2>2, <2>3, HeldIs
  <2>5. H[n] \in Seq(Tails)
      BY <2>2, <2>4, Zenon
  <2> QED
      BY <2>1, <2>3, <2>4, <2>5, Zenon DEF n, from
<1>3. \A k \in 1..(Len(lines) + 1) : DataOf(lines, k) \in Seq(Tails)
    BY <1>2
<1>4. DataOf(lines, 1) = <<>>
  <2>1. 1 \in 1..(Len(lines) + 1) /\ 1 - 1 = 0
      BY <1>1
  <2> DEFINE H == CHOOSE F : Held(F, lines, 1 - 1, From(lines, 1))
  <2>2. DataOf(lines, 1) = H[1 - 1] /\ H[0] = <<>>
      BY <1>2, <2>1
  <2> QED
      BY <2>1, <2>2
<1>5. ASSUME NEW k \in 1..Len(lines)
      PROVE  DataOf(lines, k + 1) = IF lines[k] = <<>> THEN <<>>
                                    ELSE With(DataOf(lines, k), lines[k])
  <2> DEFINE f == From(lines, k)
             g == From(lines, k + 1)
             H == CHOOSE F : Held(F, lines, k - 1, From(lines, k))
             E == CHOOSE F : Held(F, lines, (k + 1) - 1, From(lines, k + 1))
  <2>1. k \in 1..(Len(lines) + 1) /\ k + 1 \in 1..(Len(lines) + 1) /\ k \in Nat /\ (k + 1) - 1 = k
      BY <1>1
  <2>2. /\ f \in 1..k /\ BeginsAt(lines, k, f)
        /\ g \in 1..(k + 1) /\ BeginsAt(lines, k + 1, g)
      BY <2>1, FromIs
  <2>3. /\ DataOf(lines, k) = H[k - 1] /\ H[0] = <<>>
        /\ \A j \in 1..(k - 1) : H[j] = IF j < f THEN <<>> ELSE With(H[j - 1], lines[j])
      BY <1>2, <2>1
  <2>4. /\ DataOf(lines, k + 1) = E[k] /\ E[0] = <<>>
        /\ \A j \in 1..k : E[j] = IF j < g THEN <<>> ELSE With(E[j - 1], lines[j])
    <3>1. /\ DataOf(lines, k + 1) = E[(k + 1) - 1] /\ E[0] = <<>>
          /\ \A j \in 1..((k + 1) - 1) : E[j] = IF j < g THEN <<>> ELSE With(E[j - 1], lines[j])
        BY <1>2, <2>1
    <3> HIDE DEF E, g
    <3> QED
        BY <2>1, <3>1
  <2> HIDE DEF f, g, H, E
  <2>5. k \in 1..k
      BY <2>1
  <2>6. CASE lines[k] = <<>>
    <3>1. g = k + 1
      <4>1. g <= k => k \in g .. k + 1 - 1
          BY <2>1, <2>2
      <4> QED
          BY <2>1, <2>2, <2>6, <4>1 DEF BeginsAt
    <3>2. k < g
        BY <2>1, <3>1
    <3> QED
        BY <2>4, <2>5, <2>6, <3>2
  <2>7. CASE lines[k] # <<>>
    <3>1. g = f
      <4>1. g # k + 1
        <5>1. g = k + 1 => g # 1 /\ g - 1 = k
            BY <2>1
        <5> QED
            BY <2>2, <2>7, <5>1 DEF BeginsAt
      <4>2. g \in 1..k /\ \A l \in g .. k - 1 : l \in g .. k + 1 - 1
          BY <2>1, <2>2, <4>1
      <4>3. BeginsAt(lines, k, g)
          BY <2>2, <4>2 DEF BeginsAt
      <4> QED
          BY <2>1, <2>2, <4>2, <4>3, BeginsOnce
    <3> DEFINE P == {j \in 0..(k - 1) : E[j] = H[j]}
    <3>2. 0 \in P
        BY <2>1, <2>3, <2>4
    <3>3. ASSUME NEW j \in 1..(k - 1), j - 1 \in P PROVE j \in P
      <4>1. j \in 1..k /\ j \in 0..(k - 1) /\ E[j - 1] = H[j - 1]
          BY <2>1, <3>3
      <4>2. E[j] = H[j]
          BY <2>3, <2>4, <3>1, <4>1
      <4> QED
          BY <4>1, <4>2
    <3>4. E[k - 1] = H[k - 1]
      <4>1. k - 1 \in Nat /\ k - 1 \in 0..(k - 1)
          BY <2>1
      <4>2. \A j \in 0..(k - 1) : j \in P
        <5> HIDE DEF P
        <5> QED
            BY <3>2, <3>3, <4>1, Induct
      <4> QED
          BY <4>1, <4>2
    <3>5. ~(k < g)
        BY <2>1, <2>2, <3>1
    <3> QED
        BY <2>3, <2>4, <2>5, <2>7, <3>4, <3>5
  <2> QED
      BY <2>6, <2>7
<1> QED
    BY <1>3, <1>4, <1>5

\* The lines that come later change no earlier event.
LEMMA DataStays ==
    ASSUME NEW lines \in Seq(StreamLines), NEW line \in StreamLines,
           NEW k \in 1..(Len(lines) + 1)
    PROVE  DataOf(Append(lines, line), k) = DataOf(lines, k)
<1> DEFINE t == Append(lines, line)
<1>1. /\ Len(lines) \in Nat /\ t \in Seq(StreamLines) /\ Len(t) = Len(lines) + 1
      /\ \A i \in 1..Len(lines) : t[i] = lines[i]
    OBVIOUS
<1> HIDE DEF t
<1> DEFINE P == {j \in 0..Len(lines) : DataOf(t, j + 1) = DataOf(lines, j + 1)}
<1>2. 0 \in P
  <2>1. DataOf(t, 1) = DataOf(lines, 1) /\ 0 + 1 = 1
      BY <1>1, DataGoesOn
  <2> QED
      BY <1>1, <2>1
<1>3. ASSUME NEW j \in 1..Len(lines), j - 1 \in P PROVE j \in P
  <2>1. j \in 0..Len(lines) /\ j \in 1..Len(t) /\ (j - 1) + 1 = j /\ t[j] = lines[j]
      BY <1>1
  <2>2. DataOf(t, j) = DataOf(lines, j)
      BY <1>3, <2>1
  <2>3. DataOf(t, j + 1) = DataOf(lines, j + 1)
      BY <1>1, <2>1, <2>2, DataGoesOn
  <2> QED
      BY <2>1, <2>3
<1>4. \A j \in 0..Len(lines) : j \in P
  <2> HIDE DEF P
  <2> QED
      BY <1>1, <1>2, <1>3, Induct
<1>5. k - 1 \in 0..Len(lines) /\ (k - 1) + 1 = k
    BY <1>1
<1>6. DataOf(t, (k - 1) + 1) = DataOf(lines, (k - 1) + 1)
    BY <1>4, <1>5
<1> QED
    BY <1>5, <1>6 DEF t

\* The line k ends an event with output.
EndsOutput(lines, k) == lines[k] = <<>> /\ HasOutput(DataOf(lines, k))

\* The loop finds the first event with output, and holds the data of the event
\* that is going on until then.
LEMMA ReadFinds ==
    ASSUME NEW lines \in Seq(StreamLines)
    PROVE  /\ Read(<<>>, lines) \in ReadStates
           /\ Read(<<>>, lines).found <=> \E k \in 1..Len(lines) : EndsOutput(lines, k)
           /\ ~Read(<<>>, lines).found => Read(<<>>, lines).data = DataOf(lines, Len(lines) + 1)
<1>1. <<>> \in Seq(Tails) /\ <<>> \in Seq(StreamLines) /\ <<>> \in StreamLines
    BY NothingRead
<1> DEFINE Found(u) == \E k \in 1..Len(u) : EndsOutput(u, k)
           P == {u \in Seq(StreamLines) :
                    /\ Read(<<>>, u).found <=> Found(u)
                    /\ ~Read(<<>>, u).found => Read(<<>>, u).data = DataOf(u, Len(u) + 1)}
<1>2. ASSUME NEW u \in Seq(StreamLines), NEW x \in StreamLines
      PROVE  /\ Read(<<>>, u) \in ReadStates /\ Read(<<>>, u).found \in BOOLEAN
             /\ Read(<<>>, u).data \in Seq(Tails)
             /\ Read(<<>>, <<>>) = Begun(<<>>)
             /\ Read(<<>>, Append(u, x)) = Step(Read(<<>>, u), x)
  <2>1. Read(<<>>, u) \in ReadStates
      BY <1>1, ReadIs
  <2>2. Read(<<>>, <<>>) = Begun(<<>>) /\ Read(<<>>, Append(u, x)) = Step(Read(<<>>, u), x)
      BY <1>1, ReadIs
  <2> QED
      BY <2>1, <2>2 DEF ReadStates
<1>3. <<>> \in P
  <2>2. ~Read(<<>>, <<>>).found /\ Read(<<>>, <<>>).data = <<>>
      BY <1>1, <1>2 DEF Begun
  <2>3. ~Found(<<>>) /\ DataOf(<<>>, Len(<<>>) + 1) = <<>>
    <3>1. DataOf(<<>>, 1) = <<>>
        BY <1>1, DataGoesOn
    <3>2. Len(<<>>) = 0 /\ \A k \in 1..Len(<<>>) : FALSE
        OBVIOUS
    <3> QED
        BY <3>1, <3>2
  <2> HIDE DEF Found
  <2> QED
      BY <1>1, <2>2, <2>3
<1>4. ASSUME NEW u \in Seq(StreamLines), u \in P, NEW x \in StreamLines PROVE Append(u, x) \in P
  <2> DEFINE t == Append(u, x)
             R == Read(<<>>, u)
             S == Read(<<>>, t)
             n == Len(u)
  <2>1. /\ n \in Nat /\ t \in Seq(StreamLines) /\ Len(t) = n + 1 /\ t[n + 1] = x
        /\ \A i \in 1..n : t[i] = u[i]
      OBVIOUS
  <2>2. /\ R \in ReadStates /\ R.found \in BOOLEAN /\ R.data \in Seq(Tails) /\ S = Step(R, x)
      BY <1>2
  <2>3. \A k \in 1..(n + 1) : DataOf(t, k) = DataOf(u, k)
      BY DataStays
  <2>4. DataOf(t, n + 2) = IF x = <<>> THEN <<>> ELSE With(DataOf(t, n + 1), x)
    <3> HIDE DEF t, n
    <3>1. n + 1 \in 1..Len(t) /\ (n + 1) + 1 = n + 2
        BY <2>1
    <3> QED
        BY <2>1, <3>1, DataGoesOn
  <2>5. (R.found <=> Found(u)) /\ (~R.found => R.data = DataOf(u, n + 1))
      BY <1>4
  <2> HIDE DEF t, R, S, n
  <2>6. n + 1 \in 1..(n + 1) /\ (n + 1) + 1 = n + 2
      BY <2>1
  <2>7. Found(t) <=> Found(u) \/ (x = <<>> /\ HasOutput(DataOf(u, n + 1)))
    <3>1. \A k \in 1..n : EndsOutput(t, k) <=> EndsOutput(u, k)
      <4>1. \A k \in 1..n : k \in 1..(n + 1)
          BY <2>1
      <4> QED
          BY <2>1, <2>3, <4>1, Zenon DEF EndsOutput
    <3>2. EndsOutput(t, n + 1) <=> (x = <<>> /\ HasOutput(DataOf(u, n + 1)))
        BY <2>1, <2>3, <2>6, Zenon DEF EndsOutput
    <3>3. \A k : k \in 1..Len(t) <=> (k \in 1..n \/ k = n + 1)
        BY <2>1
    <3>4. 1..Len(u) = 1..n
        BY DEF n
    <3> QED
        BY <3>1, <3>2, <3>3, <3>4, Zenon
  <2> HIDE DEF Found
  <2>8. (S.found <=> Found(t)) /\ (~S.found => S.data = DataOf(t, n + 2))
    <3>1. CASE R.found
        BY <2>2, <2>5, <2>7, <3>1, StepIs
    <3>2. CASE ~R.found /\ IsData(x)
      <4>1. S = Begun(Append(R.data, Tail(x))) /\ x # <<>>
          BY <2>2, <3>2, StepIs DEF IsData
      <4>2. ~S.found /\ S.data = Append(R.data, Tail(x))
          BY <4>1 DEF Begun
      <4>3. DataOf(t, n + 2) = Append(R.data, Tail(x))
          BY <2>3, <2>4, <2>5, <2>6, <3>2, <4>1 DEF With
      <4> QED
          BY <2>5, <2>7, <3>2, <4>1, <4>2, <4>3
    <3>3. CASE ~R.found /\ ~IsData(x) /\ x = <<>>
      <4>1. S = [data |-> <<>>, found |-> HasOutput(R.data)]
          BY <2>2, <3>3, StepIs, Zenon
      <4>2. S.data = <<>> /\ (S.found <=> HasOutput(R.data))
        <5> DEFINE h == HasOutput(R.data)
        <5>1. S = [data |-> <<>>, found |-> h] /\ h \in BOOLEAN
            BY <4>1, HasOutputIs, Zenon
        <5> HIDE DEF h
        <5>2. S.data = <<>> /\ (S.found <=> h)
            BY <5>1
        <5> QED
            BY <5>2, Zenon DEF h
      <4> QED
          BY <2>4, <2>5, <2>7, <3>3, <4>2, Zenon
    <3>4. CASE ~R.found /\ ~IsData(x) /\ x # <<>>
      <4>1. S = R
          BY <2>2, <3>4, StepIs
      <4>2. DataOf(t, n + 2) = R.data
          BY <2>3, <2>4, <2>5, <2>6, <3>4 DEF With
      <4> QED
          BY <2>5, <2>7, <3>4, <4>1, <4>2
    <3> QED
        BY <3>1, <3>2, <3>3, <3>4
  <2>9. Len(t) + 1 = n + 2
      BY <2>1
  <2> QED
      BY <2>1, <2>8, <2>9 DEF t, S
<1>5. \A u \in Seq(StreamLines) : u \in P
  <2> HIDE DEF P
  <2> QED
      BY <1>3, <1>4, SeqInduct
<1>6. Read(<<>>, lines) \in ReadStates
    BY <1>1, ReadIs
<1> QED
    BY <1>5, <1>6, Zenon

-----------------------------------------------------------------------------
(* The stream and its chunks.                                              *)

\* The equations of the function in FlattenSeq.
Flattens(F, u) == F = [i \in 1 .. Len(u) |-> IF i = 1 THEN u[i] ELSE F[i - 1] \o u[i]]

LEMMA FlattenBy ==
    \A u : FlattenSeq(u) = IF Len(u) = 0 THEN u ELSE (CHOOSE F : Flattens(F, u))[Len(u)]
BY DEF FlattenSeq, Flattens

LEMMA FlattensIs ==
    ASSUME NEW u \in Seq(Seq(Pieces)), NEW H, (\E F : Flattens(F, u)) => Flattens(H, u)
    PROVE  /\ Len(u) > 0 => H[1] = u[1]
           /\ \A i \in 2..Len(u) : H[i] = H[i - 1] \o u[i]
           /\ \A i \in 1..Len(u) : H[i] \in Seq(Pieces)
<1> DEFINE n == Len(u)
           T == Seq(Pieces)
           empty == <<>>
           Then(x, i) == IF i = 1 THEN u[i] ELSE x \o u[i]
           G == [p \in (1..n) \X T |-> Then(p[2], p[1])]
<1>1. n \in Nat /\ empty \in T /\ \A i \in 1..n : u[i] \in T
  <2>1. n \in Nat /\ \A i \in 1..n : u[i] \in T
      BY LenProperties
  <2>2. empty \in T
      OBVIOUS
  <2> QED
      BY <2>1, <2>2
<1>2. \A i \in 1..n : \A x \in T : G[<<i, x>>] = Then(x, i)
    OBVIOUS
<1> HIDE DEF G
<1>3. \A i \in 1..n : \A x \in T : Then(x, i) \in T
    BY <1>1
<1> HIDE DEF Then, n, T, empty
<1>4. G \in [(1..n) \X T -> T]
  <2>1. ASSUME NEW p \in (1..n) \X T PROVE Then(p[2], p[1]) \in T
      BY <1>3
  <2> QED
      BY <2>1 DEF G
<1>5. PICK F : /\ F \in [0..n -> T] /\ \A i \in 1..n : F[i] = G[<<i, F[i - 1]>>]
  <2>1. PICK F : Follows(F, n, T, empty, G)
      BY <1>1, <1>4, Recursion
  <2> QED
      BY <2>1 DEF Follows
<1>6. \A i \in 1..n : F[i] = Then(F[i - 1], i)
  <2> SUFFICES ASSUME NEW i \in 1..n PROVE F[i] = Then(F[i - 1], i)
      OBVIOUS
  <2>1. F[i - 1] \in T
    <3>1. i - 1 \in 0..n
        BY <1>1
    <3> QED
        BY <1>5, <3>1
  <2>2. F[i] = G[<<i, F[i - 1]>>]
      BY <1>5
  <2> QED
      BY <1>2, <2>1, <2>2
<1> DEFINE now(E, i) == IF i = 1 THEN u[i] ELSE E[i - 1] \o u[i]
           f == [i \in 1..n |-> F[i]]
<1>7. \A E : Flattens(E, u) <=> E = [i \in 1..n |-> now(E, i)]
    BY DEF Flattens, n
<1>8. f = [i \in 1..n |-> now(f, i)]
  <2>1. ASSUME NEW i \in 1..n PROVE F[i] = now(f, i)
    <3>1. CASE i = 1
        BY <1>6, <3>1 DEF Then
    <3>2. CASE i # 1
      <4>1. i - 1 \in 1..n
          BY <1>1, <3>2
      <4>2. f[i - 1] = F[i - 1]
          BY <4>1
      <4>3. F[i] = F[i - 1] \o u[i]
          BY <1>6, <3>2 DEF Then
      <4> HIDE DEF f
      <4> QED
          BY <3>2, <4>2, <4>3
    <3> QED
        BY <3>1, <3>2
  <2> HIDE DEF now
  <2> QED
      BY <2>1
<1>9. Flattens(H, u)
    BY <1>7, <1>8
<1>10. \A i \in 1..n : H[i] = now(H, i)
  <2> HIDE DEF f, now
  <2>1. H = [i \in 1..n |-> now(H, i)]
      BY <1>7, <1>9
  <2> QED
      BY <2>1
<1>11. n > 0 => H[1] = u[1]
  <2>1. n > 0 => 1 \in 1..n
      BY <1>1
  <2> QED
      BY <1>10, <2>1
<1>12. ASSUME NEW i \in 2..n PROVE H[i] = H[i - 1] \o u[i]
  <2>1. i \in 1..n /\ i # 1
      BY <1>1
  <2> QED
      BY <1>10, <2>1
<1> DEFINE P == {j \in 0..n : j = 0 \/ H[j] \in T}
<1>13. ASSUME NEW j \in 1..n, j - 1 \in P PROVE j \in P
  <2>1. j \in 0..n /\ u[j] \in T
      BY <1>1
  <2>2. CASE j = 1
      BY <1>10, <2>1, <2>2
  <2>3. CASE j # 1
    <3>1. H[j - 1] \in T /\ j - 1 # 0
        BY <1>13, <2>3
    <3>2. H[j] = H[j - 1] \o u[j]
      <4>1. j \in 2..n
          BY <1>1, <2>3
      <4> QED
          BY <1>12, <4>1
    <3>3. H[j - 1] \o u[j] \in T
        BY <2>1, <3>1, ConcatProperties DEF T
    <3>4. H[j] \in T
        BY <3>2, <3>3, Zenon
    <3> QED
        BY <2>1, <3>4
  <2> QED
      BY <2>2, <2>3
<1>14. \A j \in 0..n : j \in P
  <2>1. 0 \in P
      BY <1>1
  <2> HIDE DEF P
  <2> QED
      BY <1>1, <1>13, <2>1, Induct
<1>15. \A j \in 1..n : H[j] \in T
  <2>1. \A j \in 1..n : j \in 0..n /\ j # 0
      BY <1>1
  <2> QED
      BY <1>14, <2>1
<1> QED
    BY <1>11, <1>12, <1>15 DEF n, T

LEMMA FlattenIs ==
    ASSUME NEW u \in Seq(Seq(Pieces)), NEW c \in Seq(Pieces)
    PROVE  /\ FlattenSeq(<<>>) = <<>>
           /\ FlattenSeq(u) \in Seq(Pieces)
           /\ FlattenSeq(Append(u, c)) = FlattenSeq(u) \o c
<1> DEFINE t == Append(u, c)
           n == Len(u)
           F == CHOOSE F : Flattens(F, u)
           G == CHOOSE G : Flattens(G, t)
<1>1. /\ n \in Nat /\ t \in Seq(Seq(Pieces)) /\ Len(t) = n + 1 /\ t[n + 1] = c
      /\ \A i \in 1..n : t[i] = u[i]
    OBVIOUS
<1>2. FlattenSeq(<<>>) = <<>>
  <2>1. Len(<<>>) = 0
      OBVIOUS
  <2> QED
      BY <2>1, FlattenBy
<1>3. /\ n = 0 => FlattenSeq(u) = u
      /\ n # 0 => FlattenSeq(u) = F[n]
    BY FlattenBy
<1> HIDE DEF n
<1>4. FlattenSeq(t) = G[n + 1]
  <2>1. FlattenSeq(t) = IF Len(t) = 0 THEN t ELSE G[Len(t)]
      BY FlattenBy
  <2> HIDE DEF t, G
  <2> QED
      BY <1>1, <2>1
<1> HIDE DEF t
<1>5. ((\E E : Flattens(E, u)) => Flattens(F, u)) /\ ((\E E : Flattens(E, t)) => Flattens(G, t))
    BY Zenon
<1> HIDE DEF F, G
<1>6. /\ n > 0 => F[1] = u[1]
      /\ \A i \in 2..n : F[i] = F[i - 1] \o u[i]
      /\ \A i \in 1..n : F[i] \in Seq(Pieces)
    BY <1>5, FlattensIs DEF n
<1>7. /\ G[1] = t[1] /\ \A i \in 2..(n + 1) : G[i] = G[i - 1] \o t[i]
  <2>1. Len(t) > 0 /\ 2..Len(t) = 2..(n + 1)
      BY <1>1
  <2>2. t \in Seq(Seq(Pieces)) /\ ((\E E : Flattens(E, t)) => Flattens(G, t))
      BY <1>1, <1>5
  <2>3. (Len(t) > 0 => G[1] = t[1]) /\ \A i \in 2..Len(t) : G[i] = G[i - 1] \o t[i]
      BY <2>2, FlattensIs
  <2> QED
      BY <2>1, <2>3, Zenon
<1>8. CASE n = 0
  <2>1. u = <<>>
      BY <1>8 DEF n
  <2>2. FlattenSeq(t) = c
      BY <1>1, <1>4, <1>7, <1>8
  <2>3. <<>> \o c = c /\ <<>> \in Seq(Pieces)
      BY ConcatEmptySeq
  <2> QED
      BY <1>2, <2>1, <2>2, <2>3 DEF t
<1>9. CASE n # 0
  <2> DEFINE P == {j \in 0..n : j = 0 \/ F[j] = G[j]}
  <2>1. ASSUME NEW j \in 1..n, j - 1 \in P PROVE j \in P
    <3>0. j \in 1..n /\ j \in 0..n
        BY <1>1
    <3>1. j \in 0..n /\ t[j] = u[j]
        BY <1>1, <3>0, Zenon
    <3>2. CASE j = 1
      <4>1. n > 0
          BY <1>1
      <4>2. F[1] = u[1] /\ G[1] = t[1]
          BY <1>6, <1>7, <4>1, Zenon
      <4>3. F[j] = G[j]
        <5>1. t[1] = u[1]
            BY <3>1, <3>2
        <5>2. F[1] = G[1]
            BY <4>2, <5>1, Zenon
        <5> QED
            BY <3>2, <5>2
      <4> QED
          BY <3>1, <4>3
    <3>3. CASE j # 1
      <4>1. j - 1 # 0 /\ j \in 2..n /\ j \in 2..(n + 1)
          BY <1>1, <3>3
      <4>2. F[j] = G[j]
        <5>1. F[j - 1] = G[j - 1]
            BY <2>1, <4>1
        <5>2. F[j] = F[j - 1] \o u[j] /\ G[j] = G[j - 1] \o t[j]
            BY <1>6, <1>7, <4>1, Zenon
        <5> QED
            BY <3>1, <5>1, <5>2, Zenon
      <4> QED
          BY <3>1, <4>2
    <3> QED
        BY <3>2, <3>3
  <2>2. \A j \in 0..n : j \in P
    <3>1. 0 \in P
        BY <1>1
    <3> HIDE DEF P
    <3> QED
        BY <1>1, <2>1, <3>1, Induct
  <2>3. F[n] = G[n] /\ F[n] \in Seq(Pieces)
    <3>1. n \in 0..n /\ n \in 1..n
        BY <1>1, <1>9
    <3> QED
        BY <1>6, <1>9, <2>2, <3>1
  <2>4. G[n + 1] = G[n] \o c
    <3>1. n + 1 \in 2..(n + 1) /\ (n + 1) - 1 = n
        BY <1>1, <1>9
    <3> QED
        BY <1>1, <1>7, <3>1
  <2> QED
      BY <1>2, <1>3, <1>4, <1>9, <2>3, <2>4 DEF t
<1> QED
    BY <1>8, <1>9

-----------------------------------------------------------------------------
(* The detector, chunk by chunk.                                           *)

Listening == [buffer : Seq(Pieces), data : Seq(Tails), found : BOOLEAN]

\* The equations of the function in Heard.
Listens(F, chunks) ==
    F = [k \in 0 .. Len(chunks) |-> IF k = 0 THEN Fresh ELSE Listen(F[k - 1], chunks[k])]

LEMMA HeardBy ==
    \A chunks : Heard(chunks) =
        LET F == CHOOSE F : Listens(F, chunks)
            found == {k \in 1 .. Len(chunks) : F[k].found}
        IN  IF found = {} THEN 0 ELSE Min(found)
BY DEF Heard, Listens

LEMMA FeedIs ==
    ASSUME NEW state \in Listening, NEW chunk \in Seq(Pieces),
           NEW s, s = Split(state.buffer \o chunk), NEW R, R = Read(state.data, s.lines)
    PROVE  /\ feed(state, chunk) = [buffer |-> s.rest, data |-> R.data, found |-> R.found]
           /\ s.rest \in Seq(Pieces) /\ s.lines \in Seq(StreamLines)
           /\ R \in ReadStates /\ R.data \in Seq(Tails) /\ R.found \in BOOLEAN
<1>1. state.buffer \o chunk \in Seq(Pieces) /\ state.data \in Seq(Tails)
    BY ConcatProperties DEF Listening
<1>2. s.rest \in Seq(Pieces) /\ s.lines \in Seq(StreamLines)
    BY <1>1, SplitType
<1>3. R \in ReadStates
    BY <1>1, <1>2, NothingRead, ReadIs
<1>4. R.data \in Seq(Tails) /\ R.found \in BOOLEAN
    BY <1>3 DEF ReadStates
<1> QED
    BY <1>2, <1>3, <1>4 DEF feed

LEMMA ListenType ==
    ASSUME NEW state \in Listening, NEW chunk \in Seq(Pieces)
    PROVE  Listen(state, chunk) \in Listening
<1>1. feed(state, chunk) \in Listening
    BY FeedIs DEF Listening
<1> QED
    BY <1>1 DEF Listen

LEMMA FreshType == Fresh \in Listening
<1>1. <<>> \in Seq(Pieces) /\ <<>> \in Seq(Tails)
    OBVIOUS
<1> QED
    BY <1>1 DEF Fresh, Listening

LEMMA ListensIs ==
    ASSUME NEW chunks \in Seq(Seq(Pieces)),
           NEW H, (\E F : Listens(F, chunks)) => Listens(H, chunks)
    PROVE  /\ H[0] = Fresh
           /\ \A k \in 1..Len(chunks) : H[k] = Listen(H[k - 1], chunks[k])
           /\ \A k \in 0..Len(chunks) : H[k] \in Listening
<1> DEFINE n == Len(chunks)
           Then(x, k) == Listen(x, chunks[k])
           G == [p \in (1..n) \X Listening |-> Then(p[2], p[1])]
<1>1. n \in Nat /\ \A k \in 1..n : chunks[k] \in Seq(Pieces)
    BY LenProperties
<1>2. \A k \in 1..n : \A x \in Listening : G[<<k, x>>] = Then(x, k)
    OBVIOUS
<1> HIDE DEF G
<1>3. \A k \in 1..n : \A x \in Listening : Then(x, k) \in Listening
    BY <1>1, ListenType
<1> HIDE DEF Then, n
<1>4. G \in [(1..n) \X Listening -> Listening]
  <2>1. ASSUME NEW p \in (1..n) \X Listening PROVE Then(p[2], p[1]) \in Listening
      BY <1>3
  <2> QED
      BY <2>1 DEF G
<1>5. PICK F : /\ F \in [0..n -> Listening] /\ F[0] = Fresh
               /\ \A k \in 1..n : F[k] = G[<<k, F[k - 1]>>]
  <2>1. PICK F : Follows(F, n, Listening, Fresh, G)
      BY <1>1, <1>4, FreshType, Recursion
  <2> QED
      BY <2>1 DEF Follows
<1>6. \A k \in 1..n : F[k] = Then(F[k - 1], k)
  <2> SUFFICES ASSUME NEW k \in 1..n PROVE F[k] = Then(F[k - 1], k)
      OBVIOUS
  <2>1. F[k - 1] \in Listening
    <3>1. k - 1 \in 0..n
        BY <1>1
    <3> QED
        BY <1>5, <3>1
  <2>2. F[k] = G[<<k, F[k - 1]>>]
      BY <1>5
  <2> QED
      BY <1>2, <2>1, <2>2
<1> DEFINE now(E, k) == IF k = 0 THEN Fresh ELSE Then(E[k - 1], k)
<1>7. \A E : Listens(E, chunks) <=> E = [k \in 0..n |-> now(E, k)]
    BY DEF Listens, Then, n
<1>8. \A E : now(E, 0) = Fresh /\ \A k \in 1..n : now(E, k) = Then(E[k - 1], k)
    BY <1>1
<1> HIDE DEF now
<1>9. \A k \in 0..n : k = 0 \/ k \in 1..n
    BY <1>1
<1>10. Listens(F, chunks)
  <2>1. \A k \in 0..n : F[k] = now(F, k)
      BY <1>5, <1>6, <1>8, <1>9
  <2>2. F = [k \in 0..n |-> now(F, k)]
      BY <1>5, <2>1
  <2> QED
      BY <1>7, <2>2
<1>11. \A k \in 0..n : H[k] = now(H, k)
  <2>1. H = [k \in 0..n |-> now(H, k)]
      BY <1>7, <1>10
  <2> QED
      BY <2>1
<1>12. H[0] = Fresh /\ \A k \in 1..n : H[k] = Then(H[k - 1], k)
    BY <1>1, <1>8, <1>11
<1> DEFINE P == {k \in 0..n : H[k] \in Listening}
<1>13. 0 \in P
    BY <1>1, <1>12, FreshType
<1>14. \A k \in 1..n : k - 1 \in P => k \in P
    BY <1>3, <1>12
<1>15. \A k \in 0..n : k \in P
  <2> HIDE DEF P
  <2> QED
      BY <1>1, <1>13, <1>14, Induct
<1> QED
    BY <1>12, <1>15 DEF Then, n

\* What has been read of a stream.
ReadOf(s) == Read(<<>>, Split(s).lines)

\* The detector stands where one would that had the stream in one piece.
Agrees(state, s) ==
    /\ state.found <=> ReadOf(s).found
    /\ ~state.found => state.buffer = Split(s).rest /\ state.data = ReadOf(s).data

LEMMA AgreesFresh == Agrees(Fresh, <<>>)
<1>1. Split(<<>>).lines = <<>> /\ Split(<<>>).rest = <<>>
  <2>1. "LF" \in Pieces /\ <<>> \in Seq(Pieces)
      BY DEF Pieces
  <2>2. Split(<<>>) = NothingSplit
      BY <2>1, SplitIs
  <2> QED
      BY <2>2 DEF NothingSplit
<1>2. ReadOf(<<>>) = Begun(<<>>)
    BY <1>1, NothingRead, ReadIs DEF ReadOf
<1> QED
    BY <1>1, <1>2 DEF Agrees, Fresh, Begun

LEMMA AgreesStep ==
    ASSUME NEW state \in Listening, NEW s \in Seq(Pieces), NEW chunk \in Seq(Pieces),
           Agrees(state, s)
    PROVE  Agrees(Listen(state, chunk), s \o chunk)
<1> DEFINE S == Split(s)
           T == Split(S.rest \o chunk)
           U == Split(s \o chunk)
           R == Read(<<>>, S.lines)
<1>1. /\ U.lines = S.lines \o T.lines /\ U.rest = T.rest
      /\ S.lines \in Seq(StreamLines) /\ S.rest \in Seq(Pieces)
    BY SplitConcat, SplitType
<1>2. T.lines \in Seq(StreamLines)
  <2>1. S.rest \o chunk \in Seq(Pieces)
      BY <1>1, ConcatProperties
  <2> QED
      BY <2>1, SplitType
<1>3. ReadOf(s) = R /\ ReadOf(s \o chunk) = Read(<<>>, U.lines)
    BY DEF ReadOf
<1> HIDE DEF S, T, U, R
<1>4. /\ R.found => Read(<<>>, U.lines) = R
      /\ ~R.found => Read(<<>>, U.lines) = Read(R.data, T.lines)
    BY <1>1, <1>2, ReadConcat DEF R
<1>5. CASE state.found
  <2>1. R.found /\ ReadOf(s \o chunk) = R /\ Listen(state, chunk) = state
      BY <1>3, <1>4, <1>5 DEF Agrees, Listen
  <2> QED
      BY <1>5, <2>1 DEF Agrees
<1>6. CASE ~state.found
  <2>1. ~R.found /\ state.buffer = S.rest /\ state.data = R.data
      BY <1>3, <1>6 DEF Agrees, S
  <2>2. ReadOf(s \o chunk) = Read(R.data, T.lines)
      BY <1>3, <1>4, <2>1
  <2> DEFINE N == Read(R.data, T.lines)
  <2>3. Listen(state, chunk) = [buffer |-> T.rest, data |-> N.data, found |-> N.found]
    <3>1. T = Split(state.buffer \o chunk) /\ N = Read(state.data, T.lines)
        BY <2>1 DEF T
    <3>2. feed(state, chunk) = [buffer |-> T.rest, data |-> N.data, found |-> N.found]
        BY <3>1, FeedIs
    <3> QED
        BY <1>6, <3>2 DEF Listen
  <2> HIDE DEF N
  <2> QED
      BY <1>1, <2>2, <2>3 DEF Agrees, N, U
<1> QED
    BY <1>5, <1>6

LEMMA EventsAreRead == \A s \in Seq(Pieces) : HasEvent(s) <=> ReadOf(s).found
<1> SUFFICES ASSUME NEW s \in Seq(Pieces) PROVE HasEvent(s) <=> ReadOf(s).found
    OBVIOUS
<1> DEFINE L == Split(s).lines
<1>1. L \in Seq(StreamLines)
    BY SplitType
<1>2. DOMAIN L = 1..Len(L)
    BY <1>1
<1>3. HasEvent(s) <=> \E k \in DOMAIN L : EndsOutput(L, k)
    BY DEF HasEvent, EndsOutput
<1>4. ReadOf(s) = Read(<<>>, L)
    BY DEF ReadOf
<1> HIDE DEF L
<1>5. Read(<<>>, L).found <=> \E k \in 1..Len(L) : EndsOutput(L, k)
    BY <1>1, ReadFinds
<1> QED
    BY <1>2, <1>3, <1>4, <1>5, Zenon

\* Every body, in every cut: the detector tells at the chunk that completes the
\* first event with output (SSEOutputDetector.feed).
THEOREM DetectorAgrees == \A chunks \in Seq(Seq(Pieces)) : Heard(chunks) = Due(chunks)
<1> SUFFICES ASSUME NEW chunks \in Seq(Seq(Pieces)) PROVE Heard(chunks) = Due(chunks)
    OBVIOUS
<1> DEFINE H == CHOOSE F : Listens(F, chunks)
           n == Len(chunks)
           Stream(k) == FlattenSeq(SubSeq(chunks, 1, k))
<1>1. (\E F : Listens(F, chunks)) => Listens(H, chunks)
    BY Zenon
<1>2. Heard(chunks) = IF {k \in 1..n : H[k].found} = {} THEN 0 ELSE Min({k \in 1..n : H[k].found})
    BY HeardBy
<1> HIDE DEF H
<1>3. /\ H[0] = Fresh
      /\ \A k \in 1..n : H[k] = Listen(H[k - 1], chunks[k])
      /\ \A k \in 0..n : H[k] \in Listening
    BY <1>1, ListensIs
<1>4. /\ n \in Nat /\ SubSeq(chunks, 1, 0) = <<>>
      /\ \A k \in 1..n : /\ SubSeq(chunks, 1, k) = Append(SubSeq(chunks, 1, k - 1), chunks[k])
                         /\ chunks[k] \in Seq(Pieces)
                         /\ SubSeq(chunks, 1, k - 1) \in Seq(Seq(Pieces))
                         /\ SubSeq(chunks, 1, k) \in Seq(Seq(Pieces))
    BY PrefixGrows
<1>5. Stream(0) = <<>>
  <2>1. <<>> \in Seq(Seq(Pieces)) /\ <<>> \in Seq(Pieces)
      OBVIOUS
  <2>2. FlattenSeq(<<>>) = <<>>
      BY <2>1, FlattenIs
  <2> QED
      BY <1>4, <2>2, Zenon
<1>6. ASSUME NEW k \in 1..n
      PROVE  /\ Stream(k - 1) \in Seq(Pieces) /\ Stream(k) \in Seq(Pieces)
             /\ Stream(k) = Stream(k - 1) \o chunks[k]
  <2> DEFINE u == SubSeq(chunks, 1, k - 1)
             t == SubSeq(chunks, 1, k)
  <2>1. u \in Seq(Seq(Pieces)) /\ t \in Seq(Seq(Pieces)) /\ t = Append(u, chunks[k])
        /\ chunks[k] \in Seq(Pieces)
      BY <1>4
  <2> HIDE DEF u, t
  <2>2. /\ FlattenSeq(u) \in Seq(Pieces) /\ FlattenSeq(t) \in Seq(Pieces)
        /\ FlattenSeq(t) = FlattenSeq(u) \o chunks[k]
      BY <2>1, FlattenIs
  <2> QED
      BY <2>2 DEF u, t
<1> HIDE DEF n, Stream
<1> DEFINE P == {k \in 0..n : Agrees(H[k], Stream(k))}
<1>7. 0 \in P
  <2>1. Agrees(H[0], Stream(0))
      BY <1>3, <1>5, AgreesFresh, Zenon
  <2> QED
      BY <1>4, <2>1
<1>8. ASSUME NEW k \in 1..n, k - 1 \in P PROVE k \in P
  <2>1. k \in 0..n /\ H[k - 1] \in Listening /\ Agrees(H[k - 1], Stream(k - 1))
        /\ chunks[k] \in Seq(Pieces)
      BY <1>3, <1>4, <1>8
  <2>2. Agrees(Listen(H[k - 1], chunks[k]), Stream(k - 1) \o chunks[k])
      BY <1>6, <2>1, AgreesStep
  <2>3. Agrees(H[k], Stream(k))
      BY <1>3, <1>6, <2>2, Zenon
  <2> QED
      BY <2>1, <2>3
<1>9. \A k \in 0..n : Agrees(H[k], Stream(k))
  <2>1. \A k \in 0..n : k \in P
    <3> HIDE DEF P
    <3> QED
        BY <1>4, <1>7, <1>8, Induct
  <2> QED
      BY <2>1
<1>10. \A k \in 1..n : H[k].found <=> HasEvent(Stream(k))
  <2> SUFFICES ASSUME NEW k \in 1..n PROVE H[k].found <=> HasEvent(Stream(k))
      OBVIOUS
  <2>1. k \in 0..n
      BY <1>4
  <2>2. H[k].found <=> ReadOf(Stream(k)).found
      BY <1>9, <2>1, Zenon DEF Agrees
  <2>3. HasEvent(Stream(k)) <=> ReadOf(Stream(k)).found
      BY <1>6, EventsAreRead, Zenon
  <2> QED
      BY <2>2, <2>3, Zenon
<1>11. {k \in 1..n : H[k].found} = {k \in 1..n : HasEvent(Stream(k))}
    BY <1>10
<1>12. Due(chunks) = IF {k \in 1..n : HasEvent(Stream(k))} = {} THEN 0
                     ELSE Min({k \in 1..n : HasEvent(Stream(k))})
    BY DEF Due, Stream, n
<1> QED
    BY <1>2, <1>11, <1>12, Zenon

LEMMA CutStreams ==
    ASSUME NEW stream \in Streams, NEW chunks \in Chunkings(stream)
    PROVE  chunks \in Seq(Seq(Pieces))
<1>1. stream \in Seq(Pieces)
  <2>1. PICK u \in BoundedSeq(LineKinds, MaxLines) : stream = FlattenSeq(u)
      BY DEF Streams
  <2>2. u \in Seq(Seq(Pieces))
    <3>1. PICK m \in 0..MaxLines : u \in [1..m -> LineKinds]
        BY <2>1 DEF BoundedSeq, SeqOf
    <3>2. m \in Nat /\ LineKinds \subseteq Seq(Pieces)
        BY StreamAssumption
    <3>3. u \in [1..m -> Seq(Pieces)]
        BY <3>1, <3>2
    <3> QED
        BY <3>2, <3>3
  <2>3. <<>> \in Seq(Pieces)
      OBVIOUS
  <2> QED
      BY <2>1, <2>2, <2>3, FlattenIs
<1>2. PICK a \in 0..Len(stream), b \in 0..Len(stream) :
        /\ a <= b
        /\ chunks = <<SubSeq(stream, 1, a), SubSeq(stream, a + 1, b),
                      SubSeq(stream, b + 1, Len(stream))>>
    BY DEF Chunkings
<1>3. ASSUME NEW i \in Int, NEW j \in Int, 1 <= i, j <= Len(stream)
      PROVE  SubSeq(stream, i, j) \in Seq(Pieces)
  <2>1. Len(stream) \in Nat /\ \A l \in 1..Len(stream) : stream[l] \in Pieces
      BY <1>1, LenProperties
  <2>2. \A l \in i..j : stream[l] \in Pieces
      BY <1>3, <2>1
  <2> QED
      BY <1>1, <2>2, SubSeqProperties
<1>4. /\ SubSeq(stream, 1, a) \in Seq(Pieces) /\ SubSeq(stream, a + 1, b) \in Seq(Pieces)
      /\ SubSeq(stream, b + 1, Len(stream)) \in Seq(Pieces)
  <2> DEFINE n == Len(stream)
             c == a + 1
             d == b + 1
  <2>1. /\ a \in Int /\ b \in Int /\ n \in Int /\ c \in Int /\ d \in Int /\ 1 \in Int
        /\ 1 <= 1 /\ a <= n /\ 1 <= c /\ b <= n /\ 1 <= d /\ n <= n
      BY <1>1, <1>2
  <2>2. \A i, j \in Int : 1 <= i /\ j <= n => SubSeq(stream, i, j) \in Seq(Pieces)
      BY <1>3
  <2> HIDE DEF n, c, d
  <2>3. SubSeq(stream, 1, a) \in Seq(Pieces)
      BY <2>1, <2>2, Zenon
  <2>4. SubSeq(stream, c, b) \in Seq(Pieces)
      BY <2>1, <2>2, Zenon
  <2>5. SubSeq(stream, d, n) \in Seq(Pieces)
      BY <2>1, <2>2, Zenon
  <2> QED
      BY <2>3, <2>4, <2>5 DEF n, c, d
<1> DEFINE T == Seq(Pieces)
           x == SubSeq(stream, 1, a)
           y == SubSeq(stream, a + 1, b)
           z == SubSeq(stream, b + 1, Len(stream))
<1>5. x \in T /\ y \in T /\ z \in T /\ chunks = <<x, y, z>>
    BY <1>2, <1>4
<1> HIDE DEF T, x, y, z
<1>6. chunks \in Seq(T)
    BY <1>5
<1> QED
    BY <1>6 DEF T

-----------------------------------------------------------------------------
(* What the detector tells.                                                *)

LEMMA HeardType == \A chunks : Heard(chunks) \in Int /\ Due(chunks) \in Int
<1>1. ASSUME NEW S, \A k \in S : k \in Nat PROVE (IF S = {} THEN 0 ELSE Min(S)) \in Int
  <2>1. CASE S = {}
      BY <2>1
  <2>2. CASE S # {}
    <3>1. PICK m \in S : \A k \in S : m <= k
        BY <1>1, <2>2, Laws!Least
    <3>2. Min(S) \in S
        BY <3>1 DEF Min
    <3> QED
        BY <1>1, <2>2, <3>2
  <2> QED
      BY <2>1, <2>2
<1> SUFFICES ASSUME NEW chunks PROVE Heard(chunks) \in Int /\ Due(chunks) \in Int
    OBVIOUS
<1>2. \A k \in 1..Len(chunks) : k \in Nat
    OBVIOUS
<1>3. Heard(chunks) \in Int
    BY <1>1, <1>2 DEF Heard
<1>4. Due(chunks) \in Int
    BY <1>1, <1>2 DEF Due
<1> QED
    BY <1>3, <1>4

LEMMA ReadingIs ==
    ASSUME NEW reading \in Readings
    PROVE  /\ reading.late # None => reading.late \in Int
           /\ reading.late # None => reading.late = 0
           /\ reading.output <=> ~(reading.late = None)
<1>1. PICK stream \in Streams : \E chunks \in Chunkings(stream) : reading = Reading(chunks)
    BY DEF Readings
<1>2. PICK chunks \in Chunkings(stream) : reading = Reading(chunks)
    BY <1>1
<1> DEFINE H == Heard(chunks)
           D == Due(chunks)
<1>3. (reading.output <=> ~(D = 0)) /\ reading.late = IF H = 0 THEN None ELSE H - D
    BY <1>2 DEF Reading
<1>4. H \in Int /\ D \in Int /\ None \notin Int
    BY HeardType, FeedbackAssumption DEF FeedbackAssumption
<1>5. H = D
    BY CutStreams, DetectorAgrees
<1> HIDE DEF H, D
<1> DEFINE late == reading.late
<1>6. late = IF H = 0 THEN None ELSE H - D
    BY <1>3
<1> HIDE DEF late
<1>7. late # None => H # 0 /\ late = H - D
    BY <1>6
<1>8. late = None => H = 0
  <2>1. H - D \in Int
      BY <1>4
  <2> QED
      BY <1>4, <1>6, <2>1
<1>9. /\ late # None => late \in Int
      /\ late # None => late = 0
    BY <1>4, <1>5, <1>7
<1>10. reading.output <=> ~(late = None)
  <2>1. D = 0 <=> late = None
      BY <1>5, <1>7, <1>8
  <2>2. reading.output <=> ~(D = 0)
      BY <1>3
  <2> QED
      BY <2>1, <2>2, Zenon
<1> QED
    BY <1>9, <1>10, Zenon DEF late

-----------------------------------------------------------------------------
(* The samples.                                                            *)

\* A stream whose first output is measured gives a sample, at the work that
\* the request saw.
LEMMA SampleIs ==
    ASSUME FeedbackInv, NEW r \in Requests, EndStream(r)
    PROVE  /\ r \in Planned /\ route[r].node \in Nodes
           /\ \/ UNCHANGED estimator
              \/ \E late \in Int :
                    /\ late = 0
                    /\ route[r].seen > 0
                    /\ LET x == [work |-> route[r].seen, delay |-> Max2(0, Wait(r, late))]
                       IN  x \in Samples /\ Sampled(route[r].node, x)
<1>1. r \in Planned
    BY DEF EndStream, Planned, Requests, FeedbackInv
<1>2. route[r].node \in Nodes /\ route[r].seen \in Nat /\ route[r].ahead \in Nat
    BY <1>1 DEF FeedbackInv
<1>3. PICK reading \in Readings :
        \/ reading.late = None /\ UNCHANGED <<estimator, heard>>
        \/ reading.late # None /\ observe_first_output(r, reading.late)
    BY DEF EndStream
<1>4. CASE reading.late # None /\ observe_first_output(r, reading.late)
  <2> DEFINE late == reading.late
  <2>1. late \in Int /\ late = 0
      BY <1>4, ReadingIs
  <2> HIDE DEF late
  <2>2. Observe(route[r].node, route[r].seen, Wait(r, late))
      BY <1>4 DEF observe_first_output, late
  <2>3. Wait(r, late) \in Int
    <3>1. Rate[route[r].node] \in Int
        BY <1>2, FeedbackAssumption DEF FeedbackAssumption
    <3>2. \A a, b, c \in Int : a * b + c \in Int
        OBVIOUS
    <3> QED
        BY <1>2, <2>1, <3>1, <3>2 DEF Wait
  <2> QED
      BY <1>1, <1>2, <2>1, <2>2, <2>3, ObserveIs
<1>5. CASE UNCHANGED estimator
    BY <1>1, <1>2, <1>5
<1> QED
    BY <1>3, <1>4, <1>5

LEMMA FeedbackStep ==
    EstimatorInv /\ FeedbackInv /\ [NextFeedback]_vars => EstimatorInv' /\ FeedbackInv'
<1> SUFFICES ASSUME EstimatorInv, FeedbackInv, [NextFeedback]_vars
             PROVE  EstimatorInv' /\ FeedbackInv'
    OBVIOUS
<1>1. UNCHANGED estimator => EstimatorInv'
  <2> SUFFICES ASSUME UNCHANGED estimator PROVE EstimatorInv'
      OBVIOUS
  <2>1. cluster' = cluster /\ local' = local /\ accepted' = accepted
      BY DEF estimator, windows
  <2> QED
      BY <2>1 DEF EstimatorInv
<1>2. CASE PlanGroup
    BY <1>1, <1>2, PlanStep DEF PlanGroup
<1>3. ASSUME NEW r \in Requests, EndStream(r) PROVE EstimatorInv' /\ FeedbackInv'
  <2>1. FeedbackInv'
      BY <1>3, EndStep
  <2>2. CASE UNCHANGED estimator
      BY <1>1, <2>1, <2>2
  <2>3. CASE ~UNCHANGED estimator
    <3>1. PICK late \in Int :
            LET x == [work |-> route[r].seen, delay |-> Max2(0, Wait(r, late))]
            IN  x \in Samples /\ Sampled(route[r].node, x)
        BY <1>3, <2>3, SampleIs
    <3>2. route[r].node \in Nodes
        BY <1>3, SampleIs
    <3>3. EstimatorInv'
        BY <3>1, <3>2, EstimatorStep
    <3> QED
        BY <2>1, <3>3
  <2> QED
      BY <2>2, <2>3
<1>4. CASE UNCHANGED vars
  <2>1. FeedbackInv'
      BY <1>4 DEF vars, FeedbackInv, Planned, OpenOn, Reserved
  <2> QED
      BY <1>1, <1>4, <2>1 DEF vars
<1> QED
    BY <1>2, <1>3, <1>4 DEF NextFeedback, AllEnded

-----------------------------------------------------------------------------
(* What the samples say of the rates.                                      *)

\* The samples of a node whose delay is not below the rate of the node, those
\* at the rate itself, and those at the rate of some node.
Above == [n \in Nodes |-> {x \in Samples : x.delay >= Rate[n] * x.work}]
At == [n \in Nodes |-> {x \in Samples : x.delay = Max2(0, Rate[n]) * x.work}]
AtSome == {x \in Samples : \E m \in Nodes : x.delay = Max2(0, Rate[m]) * x.work}

NotBelow == \A n \in Nodes : \A i \in 1..Len(local[n]) : local[n][i] \in Above[n]

AllAlone == \A r \in Planned : Alone(r)

Truthful ==
    AllAlone => /\ \A n \in Nodes : \A i \in 1..Len(local[n]) : local[n][i] \in At[n]
                /\ \A i \in 1..Len(cluster) : cluster[i] \in AtSome

LEMMA RatesAre == \A n \in Nodes : Rate[n] \in Int /\ Max2(0, Rate[n]) \in Nat
BY FeedbackAssumption DEF FeedbackAssumption, Max2

\* A sample within a set, for its node, keeps all windows within such sets.
LEMMA SampledIn ==
    ASSUME EstimatorInv, NEW n \in Nodes, NEW x \in Samples, Sampled(n, x), NEW X,
           \A m \in Nodes : \A i \in 1..Len(local[m]) : local[m][i] \in X[m], x \in X[n]
    PROVE  \A m \in Nodes : \A i \in 1..Len(local'[m]) : local'[m][i] \in X[m]
<1> SUFFICES ASSUME NEW m \in Nodes
             PROVE  \A i \in 1..Len(local'[m]) : local'[m][i] \in X[m]
    OBVIOUS
<1>1. local'[m] = IF m = n THEN Push(local[n], x) ELSE local[m]
    BY DEF Sampled, EstimatorInv
<1>2. local[n] \in Seq(Samples) /\ \A i \in 1..Len(local[n]) : local[n][i] \in X[n]
    BY DEF EstimatorInv
<1>3. \A i \in 1..Len(Push(local[n], x)) : Push(local[n], x)[i] \in X[n]
    BY <1>2, PushIn
<1> QED
    BY <1>1, <1>3

\* What an ended stream adds is not below the rate; and it is at the rate if
\* nobody of its group was before it.
LEMMA SampleRate ==
    ASSUME FeedbackInv, NEW r \in Planned, NEW late \in Int, route[r].seen > 0,
           NEW x, x = [work |-> route[r].seen, delay |-> Max2(0, Wait(r, late))], x \in Samples
    PROVE  /\ late >= 0 => x \in Above[route[r].node]
           /\ late = 0 /\ Alone(r) => x \in At[route[r].node] /\ x \in AtSome
<1> DEFINE n == route[r].node
           seen == route[r].seen
           ahead == route[r].ahead
           k == Rate[n]
<1>1. /\ n \in Nodes /\ k \in Int /\ seen \in Nat /\ ahead \in Nat /\ seen <= ahead
      /\ Alone(r) <=> ahead = seen
    BY RatesAre DEF FeedbackInv, Alone
<1>2. x.work = seen /\ x.delay = Max2(0, k * ahead + late)
    BY DEF Wait
<1>3. n \in Nodes /\ Above[n] = {y \in Samples : y.delay >= k * y.work}
      /\ At[n] = {y \in Samples : y.delay = Max2(0, k) * y.work}
    BY <1>1 DEF Above, At
<1> HIDE DEF n, seen, ahead, k
<1>4. late >= 0 => x.delay >= k * x.work
  <2> SUFFICES ASSUME late >= 0 PROVE Max2(0, k * ahead + late) >= k * seen
      BY <1>2
  <2>1. CASE k >= 0
    <3>1. k * (ahead - seen) >= 0
        BY <1>1, <2>1
    <3>2. k * (ahead - seen) = k * ahead - k * seen
        BY <1>1
    <3>3. \A a, b \in Int : a - b >= 0 => Max2(0, a + late) >= b
        BY DEF Max2
    <3>4. k * ahead \in Int /\ k * seen \in Int
        BY <1>1
    <3> QED
        BY <3>1, <3>2, <3>3, <3>4
  <2>2. CASE ~(k >= 0)
    <3>1. k * seen \in Int /\ k * seen <= 0 /\ k * ahead \in Int
        BY <1>1, <2>2
    <3>2. \A a, b \in Int : b <= 0 => Max2(0, a + late) >= b
        BY DEF Max2
    <3> QED
        BY <3>1, <3>2
  <2> QED
      BY <2>1, <2>2
<1>5. late = 0 /\ Alone(r) => x.delay = Max2(0, k) * x.work
  <2> SUFFICES ASSUME late = 0, ahead = seen PROVE Max2(0, k * seen + 0) = Max2(0, k) * seen
      BY <1>1, <1>2
  <2>1. CASE k >= 0
    <3>1. k * seen \in Int /\ k * seen >= 0
        BY <1>1, <2>1
    <3> QED
        BY <1>1, <2>1, <3>1 DEF Max2
  <2>2. CASE ~(k >= 0)
    <3>1. k * seen \in Int /\ k * seen <= 0
        BY <1>1, <2>2
    <3> QED
        BY <1>1, <2>2, <3>1 DEF Max2
  <2> QED
      BY <2>1, <2>2
<1>6. late = 0 /\ Alone(r) => x \in At[n] /\ x \in AtSome
  <2> SUFFICES ASSUME late = 0, Alone(r) PROVE x \in At[n] /\ x \in AtSome
      OBVIOUS
  <2>1. x \in At[n]
      BY <1>3, <1>5
  <2>2. x.delay = Max2(0, Rate[n]) * x.work
      BY <1>5 DEF k
  <2> QED
      BY <1>3, <2>1, <2>2 DEF AtSome
<1> QED
    BY <1>3, <1>4, <1>6 DEF n

LEMMA NotBelowStep ==
    EstimatorInv /\ FeedbackInv /\ NotBelow /\ [NextFeedback]_vars => NotBelow'
<1> SUFFICES ASSUME EstimatorInv, FeedbackInv, NotBelow, [NextFeedback]_vars
             PROVE  NotBelow'
    OBVIOUS
<1>1. CASE UNCHANGED estimator
  <2>1. local' = local
      BY <1>1 DEF estimator, windows
  <2> QED
      BY <2>1 DEF NotBelow
<1>2. ASSUME NEW r \in Requests, EndStream(r), ~UNCHANGED estimator PROVE NotBelow'
  <2>1. r \in Planned /\ route[r].node \in Nodes
      BY <1>2, SampleIs
  <2>2. PICK late \in Int :
          /\ late = 0 /\ route[r].seen > 0
          /\ LET x == [work |-> route[r].seen, delay |-> Max2(0, Wait(r, late))]
             IN  x \in Samples /\ Sampled(route[r].node, x)
      BY <1>2, SampleIs
  <2> DEFINE x == [work |-> route[r].seen, delay |-> Max2(0, Wait(r, late))]
  <2>3. x \in Samples /\ Sampled(route[r].node, x)
      BY <2>2
  <2>4. x \in Above[route[r].node]
      BY <2>1, <2>2, <2>3, SampleRate
  <2> HIDE DEF x
  <2> QED
      BY <2>1, <2>3, <2>4, SampledIn DEF NotBelow
<1> QED
    BY <1>1, <1>2 DEF NextFeedback, PlanGroup, AllEnded, vars

LEMMA TruthfulStep ==
    EstimatorInv /\ FeedbackInv /\ Truthful /\ [NextFeedback]_vars => Truthful'
<1> SUFFICES ASSUME EstimatorInv, FeedbackInv, Truthful, [NextFeedback]_vars
             PROVE  Truthful'
    OBVIOUS
<1>1. AllAlone' => AllAlone
  <2>1. CASE PlanGroup
      BY <2>1, PlanKeeps DEF AllAlone, Alone
  <2>2. CASE UNCHANGED <<route, next>>
      BY <2>2 DEF AllAlone, Alone, Planned
  <2> QED
      BY <2>1, <2>2 DEF NextFeedback, EndStream, AllEnded, vars
<1>2. CASE UNCHANGED estimator
  <2>1. local' = local /\ cluster' = cluster
      BY <1>2 DEF estimator, windows
  <2> QED
      BY <1>1, <2>1 DEF Truthful
<1>3. ASSUME NEW r \in Requests, EndStream(r), ~UNCHANGED estimator PROVE Truthful'
  <2> SUFFICES ASSUME AllAlone
               PROVE  /\ \A n \in Nodes : \A i \in 1..Len(local'[n]) : local'[n][i] \in At[n]
                      /\ \A i \in 1..Len(cluster') : cluster'[i] \in AtSome
      BY <1>1 DEF Truthful
  <2>1. r \in Planned /\ route[r].node \in Nodes /\ Alone(r)
      BY <1>3, SampleIs DEF AllAlone
  <2>2. PICK late \in Int :
          /\ late = 0 /\ route[r].seen > 0
          /\ LET x == [work |-> route[r].seen, delay |-> Max2(0, Wait(r, late))]
             IN  x \in Samples /\ Sampled(route[r].node, x)
      BY <1>3, SampleIs
  <2> DEFINE x == [work |-> route[r].seen, delay |-> Max2(0, Wait(r, late))]
  <2>3. x \in Samples /\ Sampled(route[r].node, x)
      BY <2>2
  <2>4. x \in At[route[r].node] /\ x \in AtSome
      BY <2>1, <2>2, <2>3, SampleRate
  <2> HIDE DEF x
  <2>5. \A n \in Nodes : \A i \in 1..Len(local'[n]) : local'[n][i] \in At[n]
      BY <2>1, <2>3, <2>4, SampledIn DEF Truthful
  <2>6. \A i \in 1..Len(cluster') : cluster'[i] \in AtSome
    <3>1. cluster' = Push(cluster, x) /\ cluster \in Seq(Samples)
        BY <2>3 DEF Sampled, EstimatorInv
    <3>2. \A i \in 1..Len(cluster) : cluster[i] \in AtSome
        BY DEF Truthful
    <3> QED
        BY <2>3, <2>4, <3>1, <3>2, PushIn
  <2> QED
      BY <2>5, <2>6
<1> QED
    BY <1>2, <1>3 DEF NextFeedback, PlanGroup, AllEnded, vars

LEMMA FirstSamples == InitFeedback => NotBelow /\ Truthful
<1> SUFFICES ASSUME InitFeedback PROVE NotBelow /\ Truthful
    OBVIOUS
<1>1. Len(cluster) = 0 /\ \A n \in Nodes : Len(local[n]) = 0
    BY DEF InitFeedback, EmptyWindows
<1>2. 1..0 = {}
    OBVIOUS
<1> QED
    BY <1>1, <1>2 DEF NotBelow, Truthful

LEMMA NotBelowShows == EstimatorInv /\ NotBelow => NeverUnderestimates
<1> SUFFICES ASSUME EstimatorInv, NotBelow, NEW n \in Nodes, local[n] # <<>>,
                    Len(local[n]) >= LocalMin
             PROVE  Predicted(n).num >= Rate[n] * Predicted(n).den
    BY DEF NeverUnderestimates
<1> DEFINE w == local[n]
<1>1. /\ w \in Seq(Samples) /\ Window(w) /\ Rate[n] \in Int
      /\ \A i \in 1..Len(w) : w[i] \in Above[n]
    BY SamplesWindow, RatesAre DEF EstimatorInv, NotBelow
<1>2. Predicted(n) = Slope(w)
  <2>1. ~(Len(w) < LocalMin)
      BY <1>1, EstimatorAssumption DEF EstimatorAssumption, Window
  <2> QED
      BY <2>1 DEF Predicted, Estimate
<1>3. \A i \in 1..Len(w) : w[i].delay >= Rate[n] * w[i].work
    BY <1>1 DEF Above
<1> HIDE DEF w
<1>4. Over(WorkDelay(w), w) >= Rate[n] * Over(WorkWork(w), w)
    BY <1>1, <1>3, SlopeAtLeast
<1> QED
    BY <1>1, <1>2, <1>4, SlopeIs

LEMMA TruthfulShows == EstimatorInv /\ Truthful => LearnsTheRate
<1> SUFFICES ASSUME EstimatorInv, Truthful, AllAlone, NEW n \in Nodes, Estimate(n) # <<>>
             PROVE  LET p == Predicted(n)
                        rate(m) == Max2(0, Rate[m]) * p.den
                    IN  IF Len(local[n]) >= LocalMin
                        THEN p.num = rate(n)
                        ELSE /\ \E m \in Nodes : rate(m) <= p.num
                             /\ \E m \in Nodes : rate(m) >= p.num
    BY DEF LearnsTheRate, AllAlone, Planned
<1> DEFINE w == Estimate(n)
           ratio == [m \in Nodes |-> Max2(0, Rate[m])]
           N == Over(WorkDelay(w), w)
           W == Over(WorkWork(w), w)
<1>1. w \in Seq(Samples) /\ Window(w)
    BY SamplesWindow DEF EstimatorInv, Estimate
<1>2. Predicted(n).num = N /\ Predicted(n).den = W
    BY <1>1, SlopeIs DEF Predicted
<1>3. \A m \in Nodes : ratio[m] = Max2(0, Rate[m]) /\ ratio[m] \in Int
    BY RatesAre
<1>4. Len(local[n]) \in Int /\ LocalMin \in Int
    BY EstimatorAssumption DEF EstimatorInv, EstimatorAssumption
<1>5. CASE Len(local[n]) >= LocalMin
  <2>1. w = local[n]
      BY <1>4, <1>5 DEF Estimate
  <2>2. \A i \in 1..Len(w) : w[i].delay = Max2(0, Rate[n]) * w[i].work
      BY <2>1 DEF Truthful, At
  <2> HIDE DEF w, ratio
  <2>3. N = Max2(0, Rate[n]) * W
      BY <1>1, <2>2, RatesAre, SlopeEquals
  <2> HIDE DEF N, W
  <2> QED
      BY <1>2, <1>5, <2>3
<1>6. CASE ~(Len(local[n]) >= LocalMin)
  <2>1. w = cluster
      BY <1>4, <1>6 DEF Estimate
  <2>2. \A i \in 1..Len(w) : \E m \in Nodes : w[i].delay = Max2(0, Rate[m]) * w[i].work
      BY <2>1 DEF Truthful, AtSome
  <2> HIDE DEF w
  <2>3. \A i \in 1..Len(w) : \E m \in Nodes : w[i].delay = ratio[m] * w[i].work
      BY <2>2
  <2>4. w # <<>>
      BY DEF w
  <2> HIDE DEF ratio
  <2>5. /\ \E m \in Nodes : ratio[m] * W <= N
        /\ \E m \in Nodes : ratio[m] * W >= N
      BY <1>1, <1>3, <2>3, <2>4, SlopeBetween
  <2> HIDE DEF N, W
  <2> QED
      BY <1>2, <1>3, <1>6, <2>5
<1> QED
    BY <1>5, <1>6

-----------------------------------------------------------------------------
(* What the detector has heard.                                            *)

LEMMA HeardStep == OutputIsHeard /\ [NextFeedback]_vars => OutputIsHeard'
<1> SUFFICES ASSUME heard = output, [NextFeedback]_vars PROVE heard' = output'
    BY DEF OutputIsHeard
<1>1. ASSUME NEW r \in Requests, EndStream(r) PROVE heard' = output'
  <2>1. PICK reading \in Readings :
          /\ \/ reading.late = None /\ UNCHANGED <<estimator, heard>>
             \/ /\ reading.late # None
                /\ observe_first_output(r, reading.late)
                /\ heard' = heard \cup {r}
          /\ output' = IF reading.output THEN output \cup {r} ELSE output
      BY <1>1 DEF EndStream
  <2>2. reading.output <=> ~(reading.late = None)
      BY ReadingIs
  <2>3. CASE reading.late = None
      BY <2>1, <2>2, <2>3
  <2>4. CASE reading.late # None
      BY <2>1, <2>2, <2>4
  <2> QED
      BY <2>3, <2>4
<1> QED
    BY <1>1 DEF NextFeedback, PlanGroup, AllEnded, vars

-----------------------------------------------------------------------------
(* The theorems.                                                           *)

LEMMA FeedbackInvariant == SpecFeedback => [](EstimatorInv /\ FeedbackInv)
<1>1. InitFeedback => EstimatorInv /\ FeedbackInv
    BY EstimatorInit, FeedbackStart DEF InitFeedback
<1> QED
    BY <1>1, FeedbackStep, PTL DEF SpecFeedback

\* The windows of the estimator hold samples that can be divided by, and no
\* more of them than their deques.
THEOREM EstimatorTypeCorrect == SpecFeedback => []TypeOK
    BY FeedbackInvariant, EstimatorTypes, PTL

\* A prediction minimizes the squared error over the samples it should rest
\* on, for any sizes of the windows by which a node can have enough samples.
THEOREM PredictionsAreOptimal ==
    LocalMin <= History => (SpecFeedback => []PredictionIsLeastSquares)
<1> SUFFICES ASSUME LocalMin <= History PROVE SpecFeedback => []PredictionIsLeastSquares
    OBVIOUS
<1>1. EstimatorInv => PredictionIsLeastSquares
    BY EstimatorOptimal
<1> QED
    BY <1>1, FeedbackInvariant, PTL

\* The prediction for a node with samples of its own is never below the rate of
\* the engine, whatever groups were planned, in whatever order their streams
\* end and wherever the network cuts them.
THEOREM PredictionsErrToOneSide == SpecFeedback => []NeverUnderestimates
<1>1. InitFeedback => NotBelow
    BY FirstSamples
<1>2. EstimatorInv /\ FeedbackInv /\ NotBelow /\ [NextFeedback]_vars => NotBelow'
    BY NotBelowStep
<1>3. EstimatorInv /\ NotBelow => NeverUnderestimates
    BY NotBelowShows
<1> QED
    BY <1>1, <1>2, <1>3, FeedbackInvariant, PTL DEF SpecFeedback

\* The estimator learns the rate of a node exactly, and for the others a value
\* between those of the slowest and the fastest, as long as no member of a group
\* waits for another.
THEOREM TheRateIsLearned == SpecFeedback => []LearnsTheRate
<1>1. InitFeedback => Truthful
    BY FirstSamples
<1>2. EstimatorInv /\ FeedbackInv /\ Truthful /\ [NextFeedback]_vars => Truthful'
    BY TruthfulStep
<1>3. EstimatorInv /\ Truthful => LearnsTheRate
    BY TruthfulShows
<1> QED
    BY <1>1, <1>2, <1>3, FeedbackInvariant, PTL DEF SpecFeedback

\* A wait is measured for exactly the streams that have an event with output.
THEOREM OutputsAreHeard == SpecFeedback => []OutputIsHeard
<1>1. InitFeedback => OutputIsHeard
    BY DEF InitFeedback, OutputIsHeard
<1>2. OutputIsHeard /\ [NextFeedback]_vars => OutputIsHeard'
    BY HeardStep
<1> QED
    BY <1>1, <1>2, PTL DEF SpecFeedback
=============================================================================
