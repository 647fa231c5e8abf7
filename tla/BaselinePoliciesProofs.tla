----------------------- MODULE BaselinePoliciesProofs -----------------------
(***************************************************************************)
(* BaselinePolicies for every policy, set of nodes, hash function, group   *)
(* limit and number of requests.                                           *)
(***************************************************************************)
EXTENDS BaselinePolicies, TLAPS, FiniteSetTheorems, WellFoundedInduction

\* Every set of numbers that is not empty has a least element.
LEMMA Least ==
    ASSUME NEW S \in SUBSET Nat, S # {}
    PROVE  \E m \in S : \A k \in S : m <= k
<1>1. PICK m \in S : \A k \in S : ~(<<k, m>> \in OpToRel(<, Nat))
    BY WFMin, NatLessThanWellFounded, Zenon
<1>2. \A k \in S : ~(k < m)
    BY <1>1 DEF OpToRel
<1> QED
    BY <1>2

\* How many nodes sort before n: its position.
Position(S, n) == Cardinality({m \in S : m < n})

\* A finite set of numbers has an element at every position.
LEMMA PositionExists ==
    ASSUME NEW S \in SUBSET Nat, IsFiniteSet(S), NEW i \in Nat, i < Cardinality(S)
    PROVE  \E n \in S : Position(S, n) = i
<1> DEFINE Missing == {k \in Nat : k < Cardinality(S) /\ \A n \in S : Position(S, n) # k}
<1>0. \A m \in S : m \in Nat
    OBVIOUS
<1>1. SUFFICES ASSUME Missing # {} PROVE FALSE
    OBVIOUS
<1>2. PICK k \in Missing : \A j \in Missing : k <= j
    BY <1>1, Least
<1>3. CASE k = 0
  <2>1. S # {}
      BY <1>2, <1>3, FS_EmptySet
  <2>2. PICK n \in S : \A m \in S : n <= m
      BY <2>1, Least
  <2>3. \A m \in S : ~(m < n)
      BY <1>0, <2>2
  <2>4. Position(S, n) = 0
    <3>1. {m \in S : m < n} = {}
        BY <2>3
    <3> QED
        BY <3>1, FS_EmptySet DEF Position
  <2> QED
      BY <1>2, <1>3, <2>4
<1>4. CASE k # 0
  <2>1. PICK n \in S : Position(S, n) = k - 1
    <3>1. k - 1 \in Nat /\ k - 1 < Cardinality(S) /\ k - 1 \notin Missing
        BY <1>2, <1>4, FS_CardinalityType
    <3> QED
        BY <3>1
  <2> DEFINE below == {m \in S : m < n}
             above == {m \in S : n < m}
  <2>2. IsFiniteSet(below) /\ Cardinality(below \cup {n}) = k /\ IsFiniteSet(below \cup {n})
    <3>1. IsFiniteSet(below) /\ n \notin below
        BY <1>0, FS_Subset
    <3>2. Cardinality(below) = k - 1
        BY <2>1 DEF Position
    <3> HIDE DEF below
    <3>3. IsFiniteSet(below \cup {n}) /\ Cardinality(below \cup {n}) = Cardinality(below) + 1
        BY <3>1, FS_AddElement
    <3> QED
        BY <3>1, <3>2, <3>3, <1>2
  <2>3. above # {}
    <3>1. SUFFICES ASSUME above = {} PROVE FALSE
        OBVIOUS
    <3>2. \A m \in S : m < n \/ m = n
        BY <1>0, <3>1
    <3>3. S = below \cup {n}
        BY <3>2
    <3> QED
        BY <3>3, <2>2, <1>2
  <2>4. PICK next \in above : \A m \in above : next <= m
      BY <2>3, Least
  <2>5. {m \in S : m < next} = below \cup {n}
    <3>1. next \in S /\ n < next /\ \A m \in S : n < m => next <= m
        BY <2>4
    <3>2. \A m \in S : m < next <=> m < n \/ m = n
        BY <1>0, <3>1
    <3> QED
        BY <3>2
  <2>6. Position(S, next) = k
      BY <2>5, <2>2 DEF Position
  <2> QED
      BY <1>2, <2>4, <2>6
<1> QED
    BY <1>3, <1>4

\* Nth is an element, and its position is the index within one round.
LEMMA NthIsMember ==
    ASSUME NEW S \in SUBSET Nodes, S # {}, NEW i \in Nat
    PROVE  Nth(S, i) \in S /\ Position(S, Nth(S, i)) = i % Cardinality(S)
<1>1. S \in SUBSET Nat /\ IsFiniteSet(S)
    BY BaselineAssumption, FS_Subset DEF BaselineAssumption
<1>2. Cardinality(S) \in Nat \ {0}
    BY <1>1, FS_CardinalityType, FS_EmptySet
<1>3. i % Cardinality(S) \in Nat /\ i % Cardinality(S) < Cardinality(S)
    BY <1>2
<1>4. \E n \in S : Cardinality({m \in S : m < n}) = i % Cardinality(S)
    BY <1>1, <1>3, PositionExists DEF Position
<1> QED
    BY <1>4 DEF Nth, Position

\* Two numbers less than a round apart differ in their position in the round.
LEMMA DistinctInRound ==
    ASSUME NEW a \in Nat, NEW b \in Nat, NEW c \in Nat \ {0}, a < b, b - a < c
    PROVE  a % c # b % c
<1>1. a = c * (a \div c) + (a % c) /\ b = c * (b \div c) + (b % c)
    OBVIOUS
<1>2. a \div c \in Nat /\ b \div c \in Nat
    OBVIOUS
<1>3. SUFFICES ASSUME a % c = b % c PROVE FALSE
    OBVIOUS
<1>4. b - a = c * (b \div c) - c * (a \div c)
    BY <1>1, <1>3
<1>5. b - a = c * ((b \div c) - (a \div c))
  <2>1. \A x, y \in Int : c * x - c * y = c * (x - y)
      OBVIOUS
  <2> QED
      BY <1>2, <1>4, <2>1
<1>6. b - a > 0 /\ b - a < c /\ (b \div c) - (a \div c) \in Int
    BY <1>2
<1>7. \A d \in Int : c * d > 0 /\ c * d < c => FALSE
  <2> SUFFICES ASSUME NEW d \in Int, c * d > 0, c * d < c PROVE FALSE
      OBVIOUS
  <2>1. CASE d <= 0
      BY <2>1
  <2>2. CASE d >= 1
      BY <2>2
  <2> QED
      BY <2>1, <2>2
<1>8. PICK d \in Int : d = (b \div c) - (a \div c)
    BY <1>6
<1>9. b - a = c * d
    BY <1>5, <1>8
<1> QED
    BY <1>6, <1>7, <1>9

-----------------------------------------------------------------------------
(* The inductive invariant.                                                *)

\* The loop has given an offered node to every request before its turn, and
\* none to the others.
Dealt ==
    \A r \in Requests :
        /\ r < turn => assigned[r] \in offered[r] /\ offered[r] # {}
        /\ r >= turn => assigned[r] = None
        /\ r <= last => prompt[r] \in Prompts(policy)

\* What the group has been given was offered by its own plan.
OfThisPlan == \A r \in first .. turn - 1 : offered[r] = eligible

\* The index counts all requests, across groups.
Rotation ==
    policy = "round_robin" =>
        /\ next_index = turn - 1
        /\ \A r \in Requests : r < turn => assigned[r] = Nth(offered[r], r - 1)

Hashing ==
    policy = "prefix_hash" =>
        \A r \in Requests :
            r < turn => assigned[r] = Nth(offered[r], Hash(Prefix(prompt[r])))

\* The loop counts its own assignments on top of the snapshot.
Counted ==
    policy = "least_load" /\ ~Idle =>
        \A n \in Nodes :
            virtual[n] = active[n] + Cardinality({r \in first .. turn - 1 : assigned[r] = n})

Levelled ==
    policy = "least_load" =>
        \A r \in first .. turn - 1, m \in eligible : Load(assigned[r]) - 1 <= Load(m)

Inv == TypeOK /\ Dealt /\ OfThisPlan /\ Rotation /\ Hashing

LEMMA InitInv == Init => Inv /\ Counted /\ Levelled
<1> SUFFICES ASSUME Init PROVE Inv /\ Counted /\ Levelled
    OBVIOUS
<1>1. TypeOK
  <2>1. MaxRequests \in Nat /\ Nodes # {}
      BY BaselineAssumption DEF BaselineAssumption
  <2>2. /\ first = 1 /\ turn = 1 /\ last = 0 /\ released = {} /\ eligible = Nodes
        /\ policy \in Policies
      BY DEF Init
  <2>3. /\ depth \in [Nodes -> Nat] /\ active \in [Nodes -> Nat] /\ virtual \in [Nodes -> Nat]
        /\ prompt \in [Requests -> Prompts(policy) \cup {None}]
        /\ assigned \in [Requests -> Nodes \cup {None}]
        /\ offered \in [Requests -> SUBSET Nodes]
        /\ next_index \in Nat
      BY DEF Init
  <2> QED
      BY <2>1, <2>2, <2>3 DEF TypeOK
<1>2. Dealt /\ OfThisPlan /\ Rotation /\ Hashing
    BY DEF Init, Dealt, OfThisPlan, Rotation, Hashing, Requests
<1>3. Counted /\ Levelled
    BY DEF Init, Counted, Levelled, Idle, Requests
<1> QED
    BY <1>1, <1>2, <1>3 DEF Inv

\* The members of the group that node n has been given are finitely many.
LEMMA OnNode ==
    ASSUME NEW a \in Int, NEW b \in Int, NEW P, P \in SUBSET (a..b)
    PROVE  IsFiniteSet(P) /\ Cardinality(P) \in Nat
<1>1. IsFiniteSet(a..b)
    BY FS_Interval
<1> QED
    BY <1>1, FS_Subset, FS_CardinalityType

\* A node given by any policy is eligible.
LEMMA GivesEligible ==
    ASSUME Inv, LeastLoad \/ RoundRobin \/ PrefixHash
    PROVE  \E n \in eligible :
              /\ turn <= last /\ turn \in Requests
              /\ Give(n)
              /\ policy = "round_robin" => n = Nth(eligible, turn - 1)
              /\ policy = "prefix_hash" => n = Nth(eligible, Hash(Prefix(prompt[turn])))
              /\ next_index' = IF policy = "round_robin" THEN turn ELSE next_index
<1>1. turn <= last => turn \in Requests
    BY BaselineAssumption DEF Inv, TypeOK, Requests, BaselineAssumption
<1>2. eligible \in SUBSET Nodes /\ eligible # {} /\ next_index \in Nat
    BY DEF Inv, TypeOK
<1>3. CASE LeastLoad
    BY <1>1, <1>3 DEF LeastLoad
<1>4. CASE RoundRobin
  <2>1. next_index = turn - 1
      BY <1>4 DEF Inv, Rotation, RoundRobin
  <2>2. Nth(eligible, next_index) \in eligible
      BY <1>2, NthIsMember
  <2> QED
      BY <1>1, <1>2, <1>4, <2>1, <2>2 DEF RoundRobin, Inv, TypeOK
<1>5. CASE PrefixHash
  <2>1. prompt[turn] \in Prompts(policy)
      BY <1>1, <1>5 DEF PrefixHash, Inv, Dealt
  <2>2. Hash(Prefix(prompt[turn])) \in Nat
      BY <2>1, BaselineAssumption DEF BaselineAssumption, Inv, TypeOK
  <2>3. Nth(eligible, Hash(Prefix(prompt[turn]))) \in eligible
      BY <1>2, <2>2, NthIsMember
  <2> QED
      BY <1>1, <1>5, <2>3 DEF PrefixHash
<1> QED
    BY <1>3, <1>4, <1>5

LEMMA InvStep == Inv /\ [Next]_vars => Inv'
<1> SUFFICES ASSUME Inv, [Next]_vars PROVE Inv'
    OBVIOUS
<1> USE DEF Inv
<1>p. policy' = policy /\ policy \in Policies
    BY DEF Next, vars, TypeOK
<1> USE <1>p
<1>0. MaxRequests \in Nat /\ GroupLimit \in Nat \ {0} /\ Nodes # {}
    BY BaselineAssumption DEF BaselineAssumption
<1>1. ASSUME NEW r \in Requests, Release(r) PROVE Inv'
  <2>1. TypeOK'
    <3>0. r < turn
        BY <1>1 DEF Release, TypeOK, Requests
    <3>1. assigned[r] \in Nodes
        BY <3>0 DEF TypeOK, Dealt
    <3> QED
        BY <1>1, <3>1 DEF Release, TypeOK, Requests, loop, snapshot
  <2> QED
      BY <1>1, <2>1 DEF Release, loop, snapshot, Dealt, OfThisPlan, Rotation, Hashing
<1>2. CASE BeginGroup
  <2>1. PICK size \in 1..GroupLimit :
          /\ last' = last + size /\ last' <= MaxRequests
          /\ \E p \in [first .. last' -> Prompts(policy)] :
                prompt' = [r \in Requests |-> IF r \in first .. last' THEN p[r] ELSE prompt[r]]
      BY <1>2 DEF BeginGroup
  <2>2. /\ first \in Nat \ {0} /\ first = turn /\ turn = last + 1
        /\ size \in Nat \ {0} /\ last \in Nat /\ last' \in 0..MaxRequests
      BY <1>0, <1>2, <2>1 DEF BeginGroup, Idle, TypeOK
  <2>3. /\ \A r \in Requests : r \in first .. last' => prompt'[r] \in Prompts(policy)
        /\ \A r \in Requests : r \notin first .. last' => prompt'[r] = prompt[r]
        /\ prompt' \in [Requests -> Prompts(policy) \cup {None}]
      BY <2>1 DEF TypeOK
  <2>4. eligible' \in (SUBSET Nodes) \ {{}} /\ depth' \in [Nodes -> Nat]
      BY <1>0, <1>2, BaselineAssumption DEF BeginGroup, Eligible, BaselineAssumption
  <2>5. UNCHANGED <<active, first, turn, next_index, assigned, offered, released>> /\ virtual' = active
      BY <1>2 DEF BeginGroup
  <2>6. TypeOK'
    <3>1. first' <= turn' /\ turn' <= last' + 1
        BY <2>1, <2>2, <2>5
    <3> QED
        BY <2>2, <2>3, <2>4, <2>5, <3>1 DEF TypeOK
  <2>7. Dealt'
    <3> SUFFICES ASSUME NEW r \in Requests
                 PROVE  /\ r < turn' => assigned'[r] \in offered'[r] /\ offered'[r] # {}
                        /\ r >= turn' => assigned'[r] = None
                        /\ r <= last' => prompt'[r] \in Prompts(policy)
        BY DEF Dealt
    <3>1. r <= last' => r \in first .. last' \/ r <= last
        BY <2>2 DEF Requests
    <3> QED
        BY <2>3, <2>5, <3>1 DEF Dealt
  <2>8. OfThisPlan' /\ Rotation'
      BY <2>2, <2>5 DEF OfThisPlan, Rotation
  <2>9. Hashing'
    <3>1. \A r \in Requests : r < turn => prompt'[r] = prompt[r]
        BY <2>2, <2>3
    <3> QED
        BY <2>5, <3>1 DEF Hashing
  <2> QED
      BY <2>6, <2>7, <2>8, <2>9
<1>3. CASE LeastLoad \/ RoundRobin \/ PrefixHash
  <2>1. PICK n \in eligible :
          /\ turn <= last /\ turn \in Requests
          /\ Give(n)
          /\ policy = "round_robin" => n = Nth(eligible, turn - 1)
          /\ policy = "prefix_hash" => n = Nth(eligible, Hash(Prefix(prompt[turn])))
          /\ next_index' = IF policy = "round_robin" THEN turn ELSE next_index
      BY <1>3, GivesEligible
  <2>2. /\ \A r \in Requests : r # turn => assigned'[r] = assigned[r] /\ offered'[r] = offered[r]
        /\ assigned'[turn] = n /\ offered'[turn] = eligible
        /\ assigned' \in [Requests -> Nodes \cup {None}]
        /\ offered' \in [Requests -> SUBSET Nodes]
        /\ turn' = turn + 1 /\ turn \in Nat /\ first \in Nat
        /\ UNCHANGED <<active, prompt, first, last, snapshot, released>>
      BY <2>1 DEF Give, TypeOK
  <2>3. virtual' \in [Nodes -> Nat]
      BY <1>3 DEF LeastLoad, RoundRobin, PrefixHash, TypeOK
  <2>4. TypeOK'
      BY <2>1, <2>2, <2>3 DEF TypeOK, snapshot
  <2>5. \A r \in Requests : r < turn' <=> r < turn \/ r = turn
      BY <2>2 DEF Requests
  <2>6. Dealt'
      BY <2>1, <2>2, <2>5 DEF Dealt, Requests
  <2>7. OfThisPlan'
    <3>1. \A r \in first' .. turn' - 1 : r \in Requests /\ (r = turn \/ r \in first .. turn - 1)
      <4>1. first \in Nat \ {0} /\ turn \in 1 .. MaxRequests
          BY <2>1 DEF TypeOK, Requests
      <4> QED
          BY <1>0, <2>2, <4>1 DEF Requests
    <3> QED
        BY <2>2, <3>1 DEF OfThisPlan, snapshot
  <2>8. Rotation'
    <3>1. turn - 1 = turn' - 1 - 1 /\ turn = turn' - 1
        BY <2>2
    <3> QED
        BY <2>1, <2>2, <2>5, <3>1 DEF Rotation
  <2>9. Hashing'
      BY <2>1, <2>2, <2>5 DEF Hashing
  <2> QED
      BY <2>4, <2>6, <2>7, <2>8, <2>9
<1>4. CASE Reserve
  <2>1. turn = last + 1 /\ first' = turn
      BY <1>4 DEF Reserve, TypeOK
  <2>2. active' \in [Nodes -> Nat]
    <3>1. \A n \in Nodes : Cardinality({r \in first..last : assigned[r] = n}) \in Nat
      <4>1. first \in Int /\ last \in Int
          BY <1>0 DEF TypeOK
      <4>2. \A n \in Nodes : {r \in first..last : assigned[r] = n} \in SUBSET (first..last)
          OBVIOUS
      <4> QED
          BY <4>1, <4>2, OnNode
    <3> QED
        BY <1>4, <3>1 DEF Reserve, TypeOK
  <2>3. TypeOK'
    <3>1. 1 .. first - 1 \subseteq 1 .. first' - 1
        BY <2>1 DEF TypeOK
    <3> QED
        BY <1>4, <2>1, <2>2, <3>1 DEF Reserve, TypeOK, loop, snapshot
  <2>4. OfThisPlan'
      BY <1>4, <2>1 DEF Reserve, loop, OfThisPlan, TypeOK
  <2> QED
      BY <1>4, <2>3, <2>4 DEF Reserve, loop, snapshot, Dealt, Rotation, Hashing
<1>5. CASE UNCHANGED vars
    BY <1>5 DEF vars, loop, snapshot, TypeOK, Dealt, OfThisPlan, Rotation, Hashing
<1> QED
    BY <1>1, <1>2, <1>3, <1>4, <1>5 DEF Next, Plan, NoMoreRequests

LEMMA LevelStep == Inv /\ Inv' /\ Counted /\ Levelled /\ [Next]_vars => Counted' /\ Levelled'
<1> SUFFICES ASSUME Inv, Inv', Counted, Levelled, [Next]_vars,
                    policy = "least_load", policy' = policy
             PROVE  Counted' /\ Levelled'
    BY DEF Counted, Levelled, Next, vars
<1>0. /\ first \in Nat /\ turn \in Nat /\ last \in Nat
      /\ active \in [Nodes -> Nat] /\ virtual \in [Nodes -> Nat] /\ depth \in [Nodes -> Nat]
      /\ eligible \in SUBSET Nodes
    BY BaselineAssumption DEF Inv, TypeOK, BaselineAssumption
<1>1. ASSUME NEW r \in Requests, Release(r) PROVE Counted' /\ Levelled'
    BY <1>1 DEF Release, Counted, Levelled, Idle, Load, loop, snapshot
<1>2. CASE BeginGroup
  <2>1. first' .. turn' - 1 = {} /\ virtual' = active'
      BY <1>0, <1>2 DEF BeginGroup, Idle, Inv, TypeOK
  <2>2. \A n \in Nodes : {r \in first' .. turn' - 1 : assigned'[r] = n} = {}
      BY <2>1
  <2>3. Counted'
    <3>1. \A n \in Nodes :
            Cardinality({r \in first' .. turn' - 1 : assigned'[r] = n}) = 0
        BY <2>2, FS_EmptySet
    <3>2. \A n \in Nodes : active'[n] \in Nat
        BY <1>0, <1>2 DEF BeginGroup
    <3> QED
        BY <2>1, <3>1, <3>2 DEF Counted
  <2> QED
      BY <2>1, <2>3 DEF Levelled
<1>3. CASE LeastLoad
  <2>1. PICK n \in eligible :
          /\ \A m \in eligible \ {n} : Before(n, m)
          /\ virtual' = [virtual EXCEPT ![n] = @ + 1]
          /\ Give(n)
      BY <1>3 DEF LeastLoad
  <2>2. /\ turn' = turn + 1 /\ first <= turn
        /\ UNCHANGED <<active, first, last, eligible, depth>>
        /\ turn \in Requests /\ assigned'[turn] = n
        /\ \A r \in Requests : r # turn => assigned'[r] = assigned[r]
      BY <1>3, <2>1, GivesEligible DEF Give, snapshot, Inv, TypeOK
  <2>3. first .. turn - 1 \subseteq Requests
    <3>1. first \in Nat \ {0} /\ turn \in 1 .. MaxRequests /\ MaxRequests \in Nat
        BY <2>2, BaselineAssumption DEF Inv, TypeOK, Requests, BaselineAssumption
    <3> QED
        BY <3>1 DEF Requests
  <2>4. Counted'
    <3> SUFFICES ASSUME ~Idle, NEW m \in Nodes
                 PROVE  virtual'[m] = active[m]
                          + Cardinality({r \in first .. turn' - 1 : assigned'[r] = m})
        BY <2>2 DEF Counted, Idle
    <3> DEFINE had == {r \in first .. turn - 1 : assigned[r] = m}
               has == {r \in first .. turn' - 1 : assigned'[r] = m}
    <3>1. has = IF m = n THEN had \cup {turn} ELSE had
      <4>1. first .. turn' - 1 = (first .. turn - 1) \cup {turn}
          BY <1>0, <2>2
      <4>2. \A r \in first .. turn - 1 : r # turn /\ assigned'[r] = assigned[r]
          BY <1>0, <2>2, <2>3
      <4> QED
          BY <2>2, <4>1, <4>2
    <3>2. had \in SUBSET (first .. turn - 1) /\ turn \notin had
        BY <1>0
    <3>3. IsFiniteSet(had) /\ Cardinality(had) \in Nat
        BY <1>0, <3>2, OnNode
    <3>4. Cardinality(has) = IF m = n THEN Cardinality(had) + 1 ELSE Cardinality(had)
      <4> HIDE DEF had, has
      <4> QED
          BY <3>1, <3>2, <3>3, FS_AddElement
    <3>5. virtual[m] = active[m] + Cardinality(had)
        BY DEF Counted
    <3>6. virtual'[m] = IF m = n THEN virtual[m] + 1 ELSE virtual[m]
        BY <1>0, <2>1
    <3> HIDE DEF had, has
    <3>7. virtual'[m] = active[m] + Cardinality(has)
        BY <1>0, <3>3, <3>4, <3>5, <3>6
    <3> QED
        BY <3>7 DEF has
  <2>5. Levelled'
    <3> SUFFICES ASSUME NEW r \in first .. turn' - 1, NEW m \in eligible
                 PROVE  (virtual'[assigned'[r]] + depth[assigned'[r]]) - 1 <= virtual'[m] + depth[m]
      <4>1. depth' = depth /\ eligible' = eligible /\ first' = first
          BY <2>2
      <4> QED
          BY <4>1 DEF Levelled, Load
    <3>1. /\ \A k \in Nodes : virtual'[k] = IF k = n THEN virtual[k] + 1 ELSE virtual[k]
          /\ \A k \in Nodes : virtual[k] \in Nat /\ depth[k] \in Nat
        BY <1>0, <2>1
    <3>0. n \in Nodes /\ m \in Nodes
        BY <1>0
    <3>2. \A k \in eligible : virtual[n] + depth[n] <= virtual[k] + depth[k]
        BY <1>0, <2>1, <3>1 DEF Before, Load
    <3>3. CASE r = turn
        BY <1>0, <2>2, <3>1, <3>2, <3>3
    <3>4. CASE r \in first .. turn - 1
      <4>1. assigned'[r] = assigned[r] /\ r \in Requests /\ r < turn
          BY <1>0, <2>2, <2>3, <3>4
      <4>2. assigned[r] \in eligible
          BY <3>4, <4>1 DEF Inv, Dealt, OfThisPlan
      <4>3. (virtual[assigned[r]] + depth[assigned[r]]) - 1 <= virtual[m] + depth[m]
        <5>1. Load(assigned[r]) - 1 <= Load(m)
            BY <3>4 DEF Levelled
        <5> QED
            BY <5>1 DEF Load
      <4>4. CASE assigned[r] = n
          BY <1>0, <3>1, <3>2, <4>1, <4>2, <4>4
      <4>5. CASE assigned[r] # n
          BY <1>0, <3>1, <4>1, <4>2, <4>3, <4>5
      <4> QED
          BY <4>4, <4>5
    <3> QED
        BY <1>0, <2>2, <3>3, <3>4
  <2> QED
      BY <2>4, <2>5
<1>4. CASE Reserve
    BY <1>0, <1>4 DEF Reserve, Counted, Levelled, Idle, loop, snapshot, Inv, TypeOK
<1>5. CASE UNCHANGED vars
    BY <1>5 DEF vars, loop, snapshot, Counted, Levelled, Idle, Load
<1> QED
    BY <1>1, <1>2, <1>3, <1>4, <1>5 DEF Next, Plan, RoundRobin, PrefixHash, NoMoreRequests

-----------------------------------------------------------------------------
LEMMA Invariance == Spec => []Inv
    BY InitInv, InvStep, PTL DEF Spec

\* The types of the planning loop.
THEOREM BaselinesTypeCorrect == Spec => []TypeOK
    BY Invariance, PTL DEF Inv

\* For every set of nodes, group limit and sequence of eligible sets.
THEOREM RoundRobinRotates == Spec => []RoundRobinCycles
<1>1. Inv => RoundRobinCycles
  <2> SUFFICES ASSUME Inv, policy = "round_robin", NEW r \in 1 .. turn - 1, NEW q \in 1 .. turn - 1,
                      r < q, q - r < Cardinality(offered[r]),
                      \A p \in r..q : offered[p] = offered[r],
                      assigned[r] = assigned[q]
               PROVE  FALSE
      BY DEF RoundRobinCycles
  <2>1. r \in Requests /\ q \in Requests /\ r < turn /\ q < turn /\ r \in Nat \ {0} /\ q \in Nat \ {0}
      BY BaselineAssumption DEF Inv, TypeOK, Requests, BaselineAssumption
  <2> DEFINE S == offered[r]
  <2>2. offered[q] = S /\ S \in SUBSET Nodes /\ S # {}
      BY <2>1 DEF Inv, TypeOK, Dealt
  <2>3. assigned[r] = Nth(S, r - 1) /\ assigned[q] = Nth(S, q - 1)
      BY <2>1, <2>2 DEF Inv, Rotation
  <2>4. Cardinality(S) \in Nat \ {0}
    <3>1. IsFiniteSet(S)
        BY <2>2, BaselineAssumption, FS_Subset DEF BaselineAssumption
    <3> QED
        BY <2>2, <3>1, FS_CardinalityType, FS_EmptySet
  <2>5. (r - 1) % Cardinality(S) = (q - 1) % Cardinality(S)
    <3>1. r - 1 \in Nat /\ q - 1 \in Nat
        BY <2>1
    <3> QED
        BY <2>2, <2>3, <3>1, NthIsMember
  <2>6. r - 1 \in Nat /\ q - 1 \in Nat /\ r - 1 < q - 1 /\ (q - 1) - (r - 1) < Cardinality(S)
      BY <2>1, <2>4
  <2> QED
      BY <2>4, <2>5, <2>6, DistinctInRound
<1> QED
    BY <1>1, Invariance, PTL

\* For every hash function.
THEOREM PrefixHashKeepsAffinity == Spec => []PrefixAffinity
<1>1. Inv => PrefixAffinity
  <2>1. Inv => \A r \in 1 .. turn - 1 : r \in Requests /\ r < turn
      BY BaselineAssumption DEF Inv, TypeOK, Requests, BaselineAssumption
  <2> QED
      BY <2>1 DEF Inv, Hashing, PrefixAffinity
<1> QED
    BY <1>1, Invariance, PTL

\* For every snapshot and group.
THEOREM LeastLoadLevels == Spec => GroupIsLevelled
<1> DEFINE Level ==
      \A n, m \in eligible :
          /\ policy = "least_load" /\ first' > last /\ ~Idle
          /\ \E r \in first..last : assigned[r] = n
          => active'[n] + depth[n] - 1 <= active'[m] + depth[m]
<1>1. Inv /\ Counted /\ Levelled /\ [Next]_vars => [Level]_vars
  <2> SUFFICES ASSUME Inv, Counted, Levelled, [Next]_vars,
                      policy = "least_load", first' > last, ~Idle,
                      NEW n \in eligible, NEW m \in eligible,
                      NEW r \in first..last, assigned[r] = n
               PROVE  active'[n] + depth[n] - 1 <= active'[m] + depth[m]
      OBVIOUS
  <2>1. Reserve
    <3>1. first \in Nat /\ last \in Nat /\ first <= last
        BY BaselineAssumption DEF Idle, Inv, TypeOK, BaselineAssumption
    <3> QED
        BY <3>1 DEF Next, Plan, Release, BeginGroup, LeastLoad, RoundRobin, PrefixHash,
                    NoMoreRequests, Give, Idle, vars
  <2>2. turn - 1 = last /\ m \in Nodes /\ n \in Nodes
      BY <2>1 DEF Reserve, Inv, TypeOK
  <2>3. active'[n] = virtual[n] /\ active'[m] = virtual[m]
      BY <2>1, <2>2 DEF Reserve, Counted
  <2>4. (virtual[n] + depth[n]) - 1 <= virtual[m] + depth[m]
    <3>1. r \in first .. turn - 1
        BY <2>2
    <3>2. Load(assigned[r]) - 1 <= Load(m)
        BY <3>1 DEF Levelled
    <3> QED
        BY <3>2 DEF Load
  <2>5. /\ virtual[n] \in Nat /\ virtual[m] \in Nat
        /\ depth[n] \in Nat /\ depth[m] \in Nat
      BY <2>2 DEF Inv, TypeOK
  <2> QED
      BY <2>3, <2>4, <2>5
<1>2. Spec => [](Inv /\ Counted /\ Levelled)
    BY InitInv, InvStep, LevelStep, PTL DEF Spec
<1> QED
    BY <1>1, <1>2, PTL DEF Spec, GroupIsLevelled

\* Every step of the three policies is a step of GroupAssignment.
THEOREM BaselinesImplementAssignment == Spec => Assignment!Spec
<1>1. Init => Assignment!Init
  <2> SUFFICES ASSUME Init PROVE Assignment!Init
      OBVIOUS
  <2>1. turn .. last = {} /\ eligible = Nodes /\ Nodes # {}
      BY BaselineAssumption DEF Init, BaselineAssumption
  <2> QED
      BY <2>1 DEF Init, Assignment!Init, Assignment!Offers
<1>2. Inv /\ Inv' /\ [Next]_vars => [Assignment!Next]_(Assignment!vars)
  <2> SUFFICES ASSUME Inv, Inv', [Next]_vars PROVE [Assignment!Next]_(Assignment!vars)
      OBVIOUS
  <2>0. first \in Nat /\ turn \in Nat /\ last \in Nat /\ MaxRequests \in Nat
      BY BaselineAssumption DEF Inv, TypeOK, BaselineAssumption
  <2>1. ASSUME NEW r \in Requests, Release(r) PROVE UNCHANGED Assignment!vars
      BY <2>1 DEF Release, loop, snapshot, Assignment!vars
  <2>2. CASE BeginGroup
    <3>1. turn .. last = {} /\ assigned' = assigned /\ turn' = turn /\ last' <= MaxRequests
        BY <2>0, <2>2 DEF BeginGroup, Idle, Inv, TypeOK
    <3>2. turn' .. last' \in SUBSET {r \in Requests : assigned[r] = None}
      <4>1. last' \in 0 .. MaxRequests /\ turn \in Nat \ {0}
          BY DEF Inv, TypeOK
      <4> SUFFICES ASSUME NEW r \in turn .. last' PROVE r \in Requests /\ assigned[r] = None
          BY <3>1
      <4>2. r \in Requests /\ r >= turn
          BY <2>0, <4>1 DEF Requests
      <4> QED
          BY <4>2 DEF Inv, Dealt
    <3>3. eligible' \in Assignment!Offers
        BY DEF Inv, TypeOK, Assignment!Offers
    <3> QED
        BY <3>1, <3>2, <3>3 DEF Assignment!Next, Assignment!Begin
  <2>3. CASE LeastLoad \/ RoundRobin \/ PrefixHash
    <3>1. PICK n \in eligible : turn <= last /\ Give(n)
        BY <2>3, GivesEligible
    <3>2. turn \in turn .. last /\ turn' .. last' = (turn .. last) \ {turn}
        BY <2>0, <3>1 DEF Give
    <3> QED
        BY <3>1, <3>2 DEF Give, snapshot, Assignment!Next, Assignment!Assign
  <2>4. CASE Reserve
      BY <2>4 DEF Reserve, loop, snapshot, Assignment!vars
  <2>5. CASE UNCHANGED vars
      BY <2>5 DEF vars, loop, snapshot, Assignment!vars
  <2> QED
      BY <2>1, <2>2, <2>3, <2>4, <2>5 DEF Next, Plan, NoMoreRequests
<1> QED
    BY <1>1, <1>2, Invariance, PTL DEF Spec, Assignment!Spec
=============================================================================
