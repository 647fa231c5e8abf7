-------------------------- MODULE JointPolicyProofs --------------------------
(***************************************************************************)
(* JointPolicy for every group, set of nodes, cost matrix and load: no     *)
(* capacity, metric or order of assignment leaves a request without a node.*)
(***************************************************************************)
EXTENDS JointPolicy, TLAPS, FiniteSetTheorems

\* A request is pending exactly as long as it has no node.
Inv ==
    /\ pending \subseteq Requests
    /\ available \subseteq Nodes
    /\ DOMAIN assigned = Requests
    /\ \A r \in Requests :
          IF r \in pending THEN assigned[r] = None ELSE assigned[r] \in Eligible

LEMMA EligibleExists == Inv => Eligible \in (SUBSET Nodes) \ {{}}
    BY PolicyAssumption DEF Inv, Eligible, PolicyAssumption

\* The admission by capacity never empties the options of a request.
LEMMA OptionExists ==
    ASSUME Inv, NEW r \in Requests
    PROVE  Options(r) # {} /\ Options(r) \subseteq Eligible
    BY EligibleExists DEF Options

LEMMA InitInv == Init => Inv
    BY DEF Init, Inv

\* What a turn of the loop does to the assignment.
LEMMA Turn ==
    ASSUME Inv, Assign
    PROVE  \E r \in pending, n \in Eligible :
              /\ r \in Requests
              /\ pending' = pending \ {r}
              /\ assigned' = [assigned EXCEPT ![r] = n]
              /\ available' = available /\ Eligible' = Eligible
<1>1. PICK r \in Ready, n \in Nodes :
        /\ n \in Options(r)
        /\ pending' = pending \ {r}
        /\ assigned' = [assigned EXCEPT ![r] = n]
    BY DEF Assign
<1>2. r \in pending /\ r \in Requests
    BY <1>1 DEF Ready, Inv
<1>3. n \in Eligible
    BY <1>1, <1>2, OptionExists
<1>4. available' = available /\ Eligible' = Eligible
    BY DEF Assign, snapshot, Eligible
<1> QED
    BY <1>1, <1>2, <1>3, <1>4

LEMMA InvStep == Inv /\ [Next]_vars => Inv'
<1> SUFFICES ASSUME Inv, [Next]_vars PROVE Inv'
    OBVIOUS
<1>1. CASE Assign
  <2>1. PICK r \in pending, n \in Eligible :
          /\ r \in Requests
          /\ pending' = pending \ {r}
          /\ assigned' = [assigned EXCEPT ![r] = n]
          /\ available' = available /\ Eligible' = Eligible
      BY <1>1, Turn
  <2>2. \A q \in Requests : assigned'[q] = IF q = r THEN n ELSE assigned[q]
      BY <2>1 DEF Inv
  <2> QED
      BY <2>1, <2>2 DEF Inv
<1>2. CASE UNCHANGED vars
    BY <1>2 DEF vars, snapshot, Inv, Eligible
<1> QED
    BY <1>1, <1>2 DEF Next, Done

LEMMA Invariance == Spec => []Inv
    BY InitInv, InvStep, PTL DEF Spec

\* The RuntimeError of plan() for a request without a route is never raised.
THEOREM NoRequestIsLeftOut == Spec => []EveryRequestAssigned
<1>1. Inv => EveryRequestAssigned
  <2> SUFFICES ASSUME Inv, Ready = {}, NEW r \in Requests PROVE assigned[r] \in Eligible
      BY DEF EveryRequestAssigned
  <2>1. r \notin pending
      BY OptionExists DEF Ready
  <2> QED
      BY <2>1 DEF Inv
<1> QED
    BY <1>1, Invariance, PTL

\* Every turn of the loop is a step of GroupAssignment.
THEOREM JointImplementsAssignment == Spec => ImplementsAssignment
<1>1. Init => Assignment!Init
  <2> SUFFICES ASSUME Init PROVE Assignment!Init
      OBVIOUS
  <2>1. Eligible \in Assignment!Offers
      BY InitInv, EligibleExists DEF Assignment!Offers
  <2> QED
      BY <2>1 DEF Init, Assignment!Init
<1>2. Inv /\ [Next]_vars => [Assignment!Next]_(Assignment!vars)
  <2> SUFFICES ASSUME Inv, [Next]_vars PROVE [Assignment!Next]_(Assignment!vars)
      OBVIOUS
  <2>1. CASE Assign
      BY <2>1, Turn DEF Assignment!Next, Assignment!Assign
  <2>2. CASE UNCHANGED vars
      BY <2>2 DEF vars, snapshot, Eligible, Assignment!vars
  <2> QED
      BY <2>1, <2>2 DEF Next, Done
<1> QED
    BY <1>1, <1>2, Invariance, PTL DEF Spec, ImplementsAssignment, Assignment!Spec

-----------------------------------------------------------------------------
(* Costs, blocks and loads are natural numbers.                            *)

\* The largest of the prefixes of three media.
LEMMA MaxOfMedia ==
    ASSUME NEW f \in [Media -> Nat]
    PROVE  LET S == {f[m] : m \in Media}
           IN  Max(S) \in S /\ \A k \in S : Max(S) >= k
<1> DEFINE S == {f[m] : m \in Media}
<1>1. S = {f["CPU"], f["FS"], f["OBJ"]} /\ f["CPU"] \in Nat /\ f["FS"] \in Nat /\ f["OBJ"] \in Nat
    BY DEF Media
<1>2. \E x \in S : \A y \in S : x >= y
    BY <1>1
<1> HIDE DEF S
<1>3. Max(S) \in S /\ \A k \in S : Max(S) >= k
    BY <1>2 DEF Max
<1> QED
    BY <1>3 DEF S

LEMMA CostTypes ==
    /\ \A t, c \in Nat : prefill_cost(t, c) \in Nat
    /\ \A m \in Media, t \in Int : transfer_cost(m, t) \in Nat
<1>1. TransferCost \in [Media -> Nat] /\ BaseLatency \in [Media -> Nat]
    BY CostAssumption DEF CostAssumption
<1>2. \A i \in Int : Max2(0, i) \in Nat
    BY DEF Max2
<1>3. \A i, j \in Nat : i * j \in Nat /\ i + j \in Nat
    OBVIOUS
<1>4. ASSUME NEW t \in Nat, NEW c \in Nat PROVE prefill_cost(t, c) \in Nat
  <2> DEFINE prompt == Max2(0, t)
             cached == AtMost(Max2(0, c), prompt)
             value == Prefill["intercept"]
                      + Prefill["prompt"] * prompt + Prefill["cached"] * cached
                      + Prefill["prompt_squared"] * (prompt * prompt)
                      + Prefill["prompt_cached"] * (prompt * cached)
                      + Prefill["cached_squared"] * (cached * cached)
  <2>1. prompt \in Int /\ cached \in Int
      BY DEF Max2, AtMost
  <2>2. /\ Prefill["intercept"] \in Int /\ Prefill["prompt"] \in Int /\ Prefill["cached"] \in Int
        /\ Prefill["prompt_squared"] \in Int /\ Prefill["prompt_cached"] \in Int
        /\ Prefill["cached_squared"] \in Int /\ Prefill["minimum"] \in Nat
      BY CostAssumption DEF CostAssumption, Coefficients
  <2>3. \A i, j \in Int : i * j \in Int /\ i + j \in Int
      OBVIOUS
  <2> HIDE DEF prompt, cached
  <2>4. value \in Int
      BY <2>1, <2>2, <2>3, Zenon
  <2> HIDE DEF value
  <2>5. Max2(Prefill["minimum"], value) \in Nat
      BY <2>2, <2>4 DEF Max2
  <2> QED
      BY <2>5 DEF prefill_cost, predict_ms, value, prompt, cached
<1> QED
    BY <1>1, <1>2, <1>3, <1>4 DEF transfer_cost

LEMMA PathCostType ==
    ASSUME NEW match \in PrefixMatch, NEW include \in BOOLEAN
    PROVE  prompt_path_cost(match, include) \in Nat
<1> DEFINE gpu == AtMost(match.gpu, match.prompt)
           prefix == [m \in Media |-> AtMost(match[m], match.prompt)]
           external == Max({prefix[m] : m \in Media})
           memory == Max2(gpu, prefix["CPU"])
           l2 == {m \in {"FS", "OBJ"} : prefix[m] = external}
           costs == {transfer_cost(m, external - memory) : m \in l2}
<1>1. match.prompt \in Nat /\ gpu \in Nat /\ prefix \in [Media -> Nat]
    BY DEF PrefixMatch, Media, AtMost
<1>2. /\ external \in {prefix[m] : m \in Media}
      /\ \A m \in Media : external >= prefix[m]
  <2> HIDE DEF prefix
  <2> QED
      BY <1>1, MaxOfMedia
<1>3. external \in Nat /\ memory \in Nat
    BY <1>1, <1>2 DEF Max2, Media
<1>4. external > memory => Min(costs) \in Nat
  <2> SUFFICES ASSUME external > memory PROVE Min(costs) \in Nat
      OBVIOUS
  <2>1. l2 # {} /\ l2 \subseteq {"FS", "OBJ"} /\ {"FS", "OBJ"} \subseteq Media
    <3>1. external # prefix["CPU"]
      <4> HIDE DEF external, prefix, gpu
      <4> QED
          BY <1>1, <1>3 DEF Max2, Media
    <3> QED
        BY <1>2, <3>1 DEF Media
  <2> DEFINE c(m) == transfer_cost(m, external - memory)
  <2>2. c("FS") \in Nat /\ c("OBJ") \in Nat
    <3> HIDE DEF external, memory
    <3> QED
        BY <1>3, <2>1, CostTypes
  <2>3. costs = {c("FS"), c("OBJ")} \/ costs = {c("FS")} \/ costs = {c("OBJ")}
    <3> HIDE DEF l2
    <3>1. l2 = {"FS", "OBJ"} \/ l2 = {"FS"} \/ l2 = {"OBJ"}
        BY <2>1
    <3> HIDE DEF external, memory
    <3> QED
        BY <3>1
  <2> HIDE DEF costs, c
  <2>4. \E x \in costs : \A y \in costs : x <= y
      BY <2>2, <2>3
  <2>5. costs \subseteq Nat
      BY <2>2, <2>3
  <2> QED
      BY <2>4, <2>5 DEF Min
<1>5. prefill_cost(match.prompt, gpu) \in Nat /\ prefill_cost(match.prompt, external) \in Nat
  <2> HIDE DEF gpu, external
  <2> QED
      BY <1>1, <1>3, CostTypes
<1>6. transfer_cost("CPU", external - gpu) \in Nat
  <2> HIDE DEF gpu, external
  <2>1. external - gpu \in Int
      BY <1>1, <1>3
  <2>2. "CPU" \in Media
      BY DEF Media
  <2> QED
      BY <2>1, <2>2, CostTypes
<1>7. external <= memory \/ external > memory
  <2> HIDE DEF memory, external
  <2> QED
      BY <1>3
<1>8. prompt_path_cost(match, include) =
        IF ~include \/ external <= gpu THEN prefill_cost(match.prompt, gpu)
        ELSE transfer_cost("CPU", external - gpu)
             + (IF external <= memory THEN 0 ELSE Min(costs))
             + prefill_cost(match.prompt, external)
    BY DEF prompt_path_cost
<1> HIDE DEF gpu, external, memory, costs
<1> QED
    BY <1>4, <1>5, <1>6, <1>7, <1>8

\* Quotients of natural numbers.
LEMMA DivNat == ASSUME NEW a \in Nat, NEW b \in Nat \ {0} PROVE a \div b \in Nat
    OBVIOUS

LEMMA CandidateType ==
    ASSUME NEW match \in Matches
    PROVE  Candidate(match) \in [price : Nat, work : Nat, blocks : Nat]
<1>1. match \in PrefixMatch /\ include_external_cache \in BOOLEAN
    BY PolicyAssumption DEF PolicyAssumption
<1>2. candidate_work(match) \in Nat
  <2>1. prompt_path_cost(match, TRUE) \in Nat
      BY <1>1, PathCostType
  <2>2. MaxTokens * DecodeCost \in Nat
      BY CostAssumption DEF CostAssumption
  <2>3. \A i, j \in Nat : i + j \in Nat
      OBVIOUS
  <2> QED
      BY <2>1, <2>2, <2>3, Zenon DEF candidate_work
<1>3. required_new_gpu_blocks(match) \in Nat
  <2>1. Max2(0, match.prompt - match.gpu) \in Nat
      BY <1>1 DEF PrefixMatch, Max2
  <2>2. /\ Max2(0, match.prompt - match.gpu) + MaxTokens + BlockSize - 1 \in Nat
        /\ BlockSize \in Nat \ {0}
      BY <2>1, CostAssumption DEF CostAssumption
  <2> QED
      BY <2>2, DivNat DEF required_new_gpu_blocks
<1> QED
    BY <1>1, <1>2, <1>3, PathCostType DEF Candidate

\* The snapshot of a plan.
SnapshotOK ==
    /\ matrix \in [Requests \X Nodes -> [price : Nat, work : Nat, blocks : Nat]]
    /\ state \in [Nodes -> States]

\* The loop only takes blocks away from a node.
BlocksShrink ==
    \A n \in Nodes :
        IF initial[n].free = None THEN load[n].free = None
        ELSE load[n].free \in Nat /\ load[n].free <= initial[n].free

LoadInv == TypeOK /\ SnapshotOK /\ BlocksShrink

LEMMA FreeBlocksType ==
    ASSUME SnapshotOK, NEW n \in Nodes
    PROVE  FreeBlocks(n) \in Nat \cup {None}
<1>1. state[n].usage \in 0..100 /\ state[n].total \in (Nat \ {0}) \cup {None}
    BY PolicyAssumption DEF SnapshotOK, PolicyAssumption
<1>2. CASE state[n].total = None
    BY <1>2 DEF FreeBlocks
<1>3. CASE state[n].total # None
  <2>1. state[n].total \in Nat /\ 100 - state[n].usage \in Nat
      BY <1>1, <1>3
  <2>2. state[n].total * (100 - state[n].usage) \in Nat
      BY <2>1
  <2> QED
      BY <1>3, <2>2, DivNat DEF FreeBlocks
<1> QED
    BY <1>2, <1>3

LEMMA LoadInit == Init => LoadInv
<1> SUFFICES ASSUME Init PROVE LoadInv
    OBVIOUS
<1>1. SnapshotOK
    BY CandidateType DEF Init, SnapshotOK
<1>2. \A n \in Nodes : state[n].work \in Nat /\ state[n].active \in Nat
    BY <1>1, PolicyAssumption DEF SnapshotOK, PolicyAssumption
<1>3. load = initial /\ initial \in [Nodes -> [work : Nat, active : Nat, free : Nat \cup {None}]]
    BY <1>1, <1>2, FreeBlocksType DEF Init, initial
<1>4. 0 \in 0..Cardinality(Nodes)
    BY PolicyAssumption, FS_CardinalityType DEF PolicyAssumption
<1>5. TypeOK
    BY <1>3, <1>4 DEF Init, TypeOK
<1>6. BlocksShrink
    BY <1>3 DEF BlocksShrink
<1> QED
    BY <1>1, <1>5, <1>6 DEF LoadInv

\* A record of which every field is replaced.
LEMMA AllFields ==
    ASSUME NEW S, NEW l \in [work : Nat, active : Nat, free : S], NEW a, NEW b, NEW c
    PROVE  [l EXCEPT !.work = a, !.active = b, !.free = c]
             = [work |-> a, active |-> b, free |-> c]
<1> DEFINE m == [l EXCEPT !.work = a, !.active = b, !.free = c]
           k == [work |-> a, active |-> b, free |-> c]
<1>1. DOMAIN m = {"work", "active", "free"} /\ DOMAIN k = {"work", "active", "free"}
    OBVIOUS
<1>2. m.work = a /\ m.active = b /\ m.free = c /\ k.work = a /\ k.active = b /\ k.free = c
    OBVIOUS
<1>3. m = [i \in DOMAIN m |-> m[i]] /\ k = [i \in DOMAIN k |-> k[i]]
    OBVIOUS
<1> HIDE DEF m, k
<1> QED
    BY <1>1, <1>2, <1>3

\* A node of an assignment is charged at least nothing.
LEMMA ChargedIs ==
    ASSUME LoadInv, NEW r \in Requests, NEW n \in Nodes
    PROVE  Charged(r, n) =
              [work |-> load[n].work + matrix[<<r, n>>].work,
               active |-> load[n].active + 1,
               free |-> IF load[n].free = None THEN None
                        ELSE Max2(0, load[n].free - matrix[<<r, n>>].blocks)]
<1> DEFINE work == load[n].work + matrix[<<r, n>>].work
           active == load[n].active + 1
           left == IF load[n].free = None THEN None
                   ELSE Max2(0, load[n].free - matrix[<<r, n>>].blocks)
<1>1. Charged(r, n) = [load[n] EXCEPT !.work = work, !.active = active, !.free = left]
    BY DEF Charged
<1>2. load[n] \in [work : Nat, active : Nat, free : Nat \cup {None}]
    BY DEF LoadInv, TypeOK
<1> HIDE DEF work, active, left
<1>3. Charged(r, n) = [work |-> work, active |-> active, free |-> left]
    BY <1>1, <1>2, AllFields
<1> QED
    BY <1>3 DEF work, active, left

LEMMA ChargedType ==
    ASSUME LoadInv, NEW r \in Requests, NEW n \in Nodes
    PROVE  /\ Charged(r, n) \in [work : Nat, active : Nat, free : Nat \cup {None}]
           /\ load[n].free = None => Charged(r, n).free = None
           /\ load[n].free # None => /\ Charged(r, n).free \in Nat
                                     /\ Charged(r, n).free <= load[n].free
<1>1. /\ matrix[<<r, n>>].work \in Nat /\ matrix[<<r, n>>].blocks \in Nat
      /\ load[n] \in [work : Nat, active : Nat, free : Nat \cup {None}]
    BY DEF LoadInv, SnapshotOK, TypeOK
<1>2. Charged(r, n) =
        [work |-> load[n].work + matrix[<<r, n>>].work,
         active |-> load[n].active + 1,
         free |-> IF load[n].free = None THEN None
                  ELSE Max2(0, load[n].free - matrix[<<r, n>>].blocks)]
    BY ChargedIs
<1> DEFINE free == Max2(0, load[n].free - matrix[<<r, n>>].blocks)
<1>3. load[n].free # None => free \in Nat /\ free <= load[n].free
    BY <1>1 DEF Max2
<1>4. load[n].work + matrix[<<r, n>>].work \in Nat /\ load[n].active + 1 \in Nat
    BY <1>1
<1> HIDE DEF free
<1>5. /\ load[n].free = None => Charged(r, n).free = None
      /\ load[n].free # None => Charged(r, n).free = free
    BY <1>2 DEF free
<1>6. Charged(r, n) \in [work : Nat, active : Nat, free : Nat \cup {None}]
  <2>1. CASE load[n].free = None
      BY <1>2, <1>4, <2>1
  <2>2. CASE load[n].free # None
      BY <1>2, <1>3, <1>4, <2>2 DEF free
  <2> QED
      BY <2>1, <2>2
<1> QED
    BY <1>3, <1>5, <1>6

\* What a turn of the loop does, with the keys that chose it.
LEMMA Charge ==
    ASSUME Inv, LoadInv, Assign
    PROVE  \E r \in Ready, n \in Nodes :
              /\ n \in Options(r) /\ r \in pending /\ r \in Requests /\ n \in Eligible
              /\ First(Priority(r), {Priority(q) : q \in Ready})
              /\ pending' = pending \ {r}
              /\ assigned' = [assigned EXCEPT ![r] = n]
              /\ choices' = [choices EXCEPT ![r] = Cardinality(Options(r))]
              /\ load' = [load EXCEPT ![n] = Charged(r, n)]
              /\ UNCHANGED snapshot
              /\ Cardinality(Options(r)) \in 1..Cardinality(Nodes)
<1>1. PICK r \in Ready, n \in Nodes :
        /\ First(Priority(r), {Priority(q) : q \in Ready})
        /\ n \in Options(r)
        /\ pending' = pending \ {r}
        /\ assigned' = [assigned EXCEPT ![r] = n]
        /\ choices' = [choices EXCEPT ![r] = Cardinality(Options(r))]
        /\ load' = [load EXCEPT ![n] = Charged(r, n)]
        /\ UNCHANGED snapshot
    BY DEF Assign
<1>2. r \in pending /\ r \in Requests
    BY <1>1 DEF Ready, Inv
<1>3. Options(r) # {} /\ Options(r) \subseteq Eligible /\ Eligible \subseteq Nodes
    BY <1>2, OptionExists, EligibleExists
<1>4. Cardinality(Options(r)) \in 1..Cardinality(Nodes)
  <2>1. IsFiniteSet(Nodes)
      BY PolicyAssumption DEF PolicyAssumption
  <2>2. /\ IsFiniteSet(Options(r)) /\ Cardinality(Options(r)) <= Cardinality(Nodes)
        /\ Cardinality(Nodes) \in Nat
      BY <1>3, <2>1, FS_Subset, FS_CardinalityType
  <2>3. Cardinality(Options(r)) \in Nat /\ Cardinality(Options(r)) # 0
      BY <1>3, <2>2, FS_CardinalityType, FS_EmptySet
  <2> QED
      BY <2>2, <2>3
<1> QED
    BY <1>1, <1>2, <1>3, <1>4

LEMMA LoadStep == Inv /\ LoadInv /\ [Next]_vars => LoadInv'
<1> SUFFICES ASSUME Inv, LoadInv, [Next]_vars PROVE LoadInv'
    OBVIOUS
<1>1. CASE Assign
  <2>1. PICK r \in Ready, n \in Nodes :
          /\ r \in pending /\ r \in Requests
          /\ pending' = pending \ {r}
          /\ assigned' = [assigned EXCEPT ![r] = n]
          /\ choices' = [choices EXCEPT ![r] = Cardinality(Options(r))]
          /\ load' = [load EXCEPT ![n] = Charged(r, n)]
          /\ UNCHANGED snapshot
          /\ Cardinality(Options(r)) \in 1..Cardinality(Nodes)
      BY <1>1, Charge
  <2>2. SnapshotOK' /\ initial' = initial
      BY <2>1 DEF LoadInv, SnapshotOK, snapshot, initial, FreeBlocks
  <2>3. Cardinality(Options(r)) \in 0..Cardinality(Nodes)
      BY <2>1
  <2>4. TypeOK'
    <3>1. load' \in [Nodes -> [work : Nat, active : Nat, free : Nat \cup {None}]]
        BY <2>1, ChargedType DEF LoadInv, TypeOK
    <3>2. choices' \in [Requests -> 0..Cardinality(Nodes)]
        BY <2>1, <2>3 DEF LoadInv, TypeOK
    <3>3. pending' \subseteq Requests /\ assigned' \in [Requests -> Nodes \cup {None}]
        BY <2>1 DEF LoadInv, TypeOK
    <3> QED
        BY <3>1, <3>2, <3>3 DEF TypeOK
  <2>5. BlocksShrink'
    <3> SUFFICES ASSUME NEW m \in Nodes
                 PROVE  IF initial[m].free = None THEN load'[m].free = None
                        ELSE load'[m].free \in Nat /\ load'[m].free <= initial[m].free
        BY <2>2 DEF BlocksShrink
    <3>1. IF initial[m].free = None THEN load[m].free = None
          ELSE load[m].free \in Nat /\ load[m].free <= initial[m].free
        BY DEF LoadInv, BlocksShrink
    <3>2. load'[m] = IF m = n THEN Charged(r, n) ELSE load[m]
        BY <2>1 DEF LoadInv, TypeOK
    <3>3. initial[m].free \in Nat \cup {None} /\ None \notin Nat
        BY FreeBlocksType, PolicyAssumption DEF LoadInv, initial, PolicyAssumption
    <3>4. CASE m = n
      <4>1. /\ load[n].free = None => Charged(r, n).free = None
            /\ load[n].free # None => /\ Charged(r, n).free \in Nat
                                      /\ Charged(r, n).free <= load[n].free
          BY <2>1, ChargedType
      <4> QED
          BY <3>1, <3>2, <3>3, <3>4, <4>1
    <3> QED
        BY <3>1, <3>2, <3>4
  <2> QED
      BY <2>2, <2>4, <2>5 DEF LoadInv
<1>2. CASE UNCHANGED vars
    BY <1>2 DEF vars, snapshot, LoadInv, TypeOK, SnapshotOK, BlocksShrink, initial, FreeBlocks
<1> QED
    BY <1>1, <1>2 DEF Next, Done

-----------------------------------------------------------------------------
(* A request with a wider choice never takes the room of one without.      *)

OnlyNode(r, n) == {m \in Eligible : FitsInSnapshot(r, m)} = {n}

\* While a request fits the only node it ever fitted, that node has requests
\* without a choice only.
Reserved ==
    \A r \in pending, n \in Eligible :
        OnlyNode(r, n) /\ Fits(r, n) => \A q \in On(n) : choices[q] = 1

\* A node that a request fits has room for it in the snapshot as well.
LEMMA FitsBefore ==
    ASSUME LoadInv, NEW r \in Requests, NEW n \in Nodes, Fits(r, n)
    PROVE  FitsInSnapshot(r, n)
<1>1. IF initial[n].free = None THEN load[n].free = None
      ELSE load[n].free \in Nat /\ load[n].free <= initial[n].free
    BY DEF LoadInv, BlocksShrink
<1>2. initial[n].free \in Nat \cup {None} /\ None \notin Nat
    BY FreeBlocksType, PolicyAssumption DEF LoadInv, initial, PolicyAssumption
<1>3. matrix[<<r, n>>].blocks \in Nat
    BY DEF LoadInv, SnapshotOK
<1> QED
    BY <1>1, <1>2, <1>3 DEF Fits, FitsInSnapshot

\* A request that has a single option goes before every request with more.
LEMMA SingleFirst ==
    ASSUME NEW r, NEW q, Cardinality(Options(r)) = 1, Cardinality(Options(q)) \in Nat \ {0},
           Priority(q) = Priority(r) \/ Less(Priority(q), Priority(r))
    PROVE  Cardinality(Options(q)) = 1
<1>1. SUFFICES ASSUME Cardinality(Options(q)) > 1 PROVE FALSE
    OBVIOUS
<1> DEFINE c == Cardinality(Options(q))
           regret == 0 - Regret(Evaluated(q))
<1>2. Priority(q) = <<c, regret, q>> /\ Priority(r) = <<1, 0, r>>
    BY <1>1 DEF Priority
<1> HIDE DEF c, regret
<1>3. c \in Nat /\ c > 1
    BY <1>1 DEF c
<1>4. <<c, regret, q>> # <<1, 0, r>>
    BY <1>3
<1>5. PICK i \in 1..3 : /\ <<c, regret, q>>[i] < <<1, 0, r>>[i]
                        /\ \A j \in 1 .. i - 1 : <<c, regret, q>>[j] = <<1, 0, r>>[j]
    BY <1>2, <1>4 DEF Less
<1>6. CASE i = 1
    BY <1>3, <1>5, <1>6
<1>7. CASE i # 1
  <2>1. 1 \in 1 .. i - 1
      BY <1>7
  <2> QED
      BY <1>3, <1>5, <2>1
<1> QED
    BY <1>6, <1>7

\* The room that a request with a single node needs is taken by such only.
LEMMA RoomTaken ==
    ASSUME Inv, LoadInv, Reserved, Assign,
           NEW r \in pending', NEW n \in Eligible, OnlyNode(r, n), Fits(r, n)
    PROVE  \A q \in On(n)' : choices'[q] = 1
<1>1. PICK p \in Ready, k \in Nodes :
        /\ p \in pending /\ p \in Requests
        /\ First(Priority(p), {Priority(q) : q \in Ready})
        /\ pending' = pending \ {p}
        /\ assigned' = [assigned EXCEPT ![p] = k]
        /\ choices' = [choices EXCEPT ![p] = Cardinality(Options(p))]
        /\ Cardinality(Options(p)) \in 1..Cardinality(Nodes)
    BY Charge
<1>2. r \in pending /\ r \in Requests /\ n \in Nodes
    BY <1>1, EligibleExists DEF Inv
<1>3. Options(r) = {n}
  <2>1. \A m \in Eligible : Fits(r, m) => m = n
      BY <1>2, EligibleExists, FitsBefore DEF OnlyNode
  <2> QED
      BY <2>1 DEF Options
<1>4. Cardinality(Options(r)) = 1
    BY <1>3, FS_Singleton
<1>5. r \in Ready
    BY <1>2, <1>3 DEF Ready
<1>6. Cardinality(Options(p)) = 1
  <2>1. Priority(p) = Priority(r) \/ Less(Priority(p), Priority(r))
      BY <1>1, <1>5 DEF First
  <2>2. Cardinality(Options(p)) \in Nat \ {0}
    <3>1. Cardinality(Nodes) \in Nat
        BY PolicyAssumption, FS_CardinalityType DEF PolicyAssumption
    <3> QED
        BY <1>1, <3>1
  <2> QED
      BY <1>4, <2>1, <2>2, SingleFirst
<1>7. \A q \in On(n) : choices[q] = 1
    BY <1>2 DEF Reserved
<1> SUFFICES ASSUME NEW q \in Requests, assigned'[q] = n PROVE choices'[q] = 1
    BY DEF On
<1>8. choices'[q] = IF q = p THEN Cardinality(Options(p)) ELSE choices[q]
    BY <1>1 DEF LoadInv, TypeOK
<1>9. assigned'[q] = IF q = p THEN k ELSE assigned[q]
    BY <1>1 DEF LoadInv, TypeOK
<1> QED
    BY <1>6, <1>7, <1>8, <1>9 DEF On

LEMMA ReservedStep == Inv /\ LoadInv /\ Reserved /\ [Next]_vars => Reserved'
<1> SUFFICES ASSUME Inv, LoadInv, Reserved, [Next]_vars PROVE Reserved'
    OBVIOUS
<1>1. CASE Assign
  <2>1. PICK p \in Ready, k \in Nodes :
          /\ p \in pending /\ p \in Requests
          /\ pending' = pending \ {p}
          /\ load' = [load EXCEPT ![k] = Charged(p, k)]
          /\ UNCHANGED snapshot
      BY <1>1, Charge
  <2>2. Eligible' = Eligible /\ matrix' = matrix /\ initial' = initial
      BY <2>1 DEF snapshot, Eligible, initial, FreeBlocks
  <2> SUFFICES ASSUME NEW r \in pending', NEW n \in Eligible, OnlyNode(r, n), Fits(r, n)'
               PROVE  \A q \in On(n)' : choices'[q] = 1
      BY <2>2 DEF Reserved, OnlyNode, FitsInSnapshot
  <2>3. r \in Requests /\ n \in Nodes
      BY <2>1, EligibleExists DEF Inv
  <2>4. Fits(r, n)
    <3>1. load'[n] = IF n = k THEN Charged(p, k) ELSE load[n]
        BY <2>1, <2>3 DEF LoadInv, TypeOK
    <3>2. CASE n # k
        BY <2>2, <3>1, <3>2 DEF Fits
    <3>3. CASE n = k
      <4>1. /\ load[n].free = None => Charged(p, n).free = None
            /\ load[n].free # None => /\ Charged(p, n).free \in Nat
                                      /\ Charged(p, n).free <= load[n].free
          BY <2>1, <2>3, ChargedType
      <4>2. None \notin Nat /\ load[n].free \in Nat \cup {None}
            /\ matrix[<<r, n>>].blocks \in Nat
          BY <2>3, PolicyAssumption DEF PolicyAssumption, LoadInv, TypeOK, SnapshotOK
      <4> QED
          BY <2>2, <3>1, <3>3, <4>1, <4>2 DEF Fits
    <3> QED
        BY <3>2, <3>3
  <2> QED
      BY <1>1, <2>4, RoomTaken
<1>2. CASE UNCHANGED vars
    BY <1>2 DEF vars, snapshot, Reserved, OnlyNode, FitsInSnapshot, Fits, On, Eligible,
                initial, FreeBlocks
<1> QED
    BY <1>1, <1>2 DEF Next, Done

LEMMA ReservedInit == Init => Reserved
<1> SUFFICES ASSUME Init, NEW n \in Eligible PROVE On(n) = {}
    BY DEF Reserved
<1>1. n \in Nodes /\ n # None
    BY InitInv, EligibleExists, PolicyAssumption DEF PolicyAssumption
<1> QED
    BY <1>1 DEF Init, On

LEMMA LoadInvariance == Spec => [](Inv /\ LoadInv /\ Reserved)
<1>1. Inv /\ LoadInv /\ Reserved /\ [Next]_vars => (Inv /\ LoadInv /\ Reserved)'
    BY InvStep, LoadStep, ReservedStep
<1> QED
    BY <1>1, InitInv, LoadInit, ReservedInit, PTL DEF Spec

\* Costs, loads and free blocks stay natural numbers, and a node of unknown
\* size stays unknown: for every snapshot and group.
THEOREM JointTypeCorrect == Spec => []TypeOK
    BY LoadInvariance, PTL DEF LoadInv

\* The order of the loop serves requests without a choice first: for every
\* cost, capacity and number of requests and nodes, the room of a request's
\* only node goes to requests that had no other node either.
THEOREM ScarceNodesAreKept == Spec => ScarceNodeIsKept
<1> DEFINE Kept == \A r \in pending', n \in Eligible :
                      /\ {m \in Eligible : FitsInSnapshot(r, m)} = {n}
                      /\ Fits(r, n) /\ ~Fits(r, n)'
                      => \A q \in On(n)' : choices'[q] = 1
<1>1. Inv /\ LoadInv /\ Reserved /\ [Next]_vars => [Kept]_vars
  <2> SUFFICES ASSUME Inv, LoadInv, Reserved, Assign PROVE Kept
      BY DEF Next, Done
  <2> QED
      BY RoomTaken DEF OnlyNode
<1> QED
    BY <1>1, LoadInvariance, PTL DEF Spec, ScarceNodeIsKept

-----------------------------------------------------------------------------
(* The loop as a sequence of reservations.                                 *)

Shares == {Candidate(m).work : m \in Matches}

Laws == INSTANCE ReservationLedgerProofs WITH
    held <- assigned, served <- Requests \ pending, share <- shares, load <- added,
    Works <- {Candidate(m).work : m \in Matches}

LEMMA SameCardinality ==
    /\ \A S : Laws!Cardinality(S) = Cardinality(S)
    /\ \A S : Laws!IsFiniteSet(S) <=> IsFiniteSet(S)
BY DEF Laws!Cardinality, Cardinality, Laws!IsFiniteSet, IsFiniteSet

LEMMA SameSum == \A f, S : Laws!SumOf(f, S) = SumOf(f, S)
BY DEF Laws!SumOf, SumOf, Laws!MapThenSumSet, MapThenSumSet,
       Laws!MapThenFoldSet, MapThenFoldSet

LEMMA LawsFinite == Laws!Finite
<1>1. Shares \subseteq Nat
    BY CandidateType DEF Shares
<1>2. IsFiniteSet(Requests) /\ None \notin Nodes
    BY PolicyAssumption DEF PolicyAssumption
<1> QED
    BY <1>1, <1>2, SameCardinality DEF Laws!Finite, Shares

\* Every candidate comes from a match.
MatrixOK == matrix \in [Requests \X Nodes -> {Candidate(m) : m \in Matches}]

VirtualInv == Inv /\ LoadInv /\ MatrixOK

LEMMA SnapshotTypes ==
    ASSUME VirtualInv, NEW n \in Nodes
    PROVE  /\ initial[n].work \in Nat /\ initial[n].active \in Nat
           /\ initial[n].free \in Nat \cup {None}
           /\ load[n].work \in Nat /\ load[n].active \in Nat
           /\ \A r \in Requests : /\ matrix[<<r, n>>].work \in Nat
                                  /\ matrix[<<r, n>>].work \in Shares
                                  /\ matrix[<<r, n>>].blocks \in Nat
<1>1. state[n].work \in Nat /\ state[n].active \in Nat
    BY PolicyAssumption DEF VirtualInv, LoadInv, SnapshotOK, PolicyAssumption
<1>2. /\ initial[n].work = state[n].work /\ initial[n].active = state[n].active
      /\ initial[n].free = FreeBlocks(n)
    BY DEF initial
<1>3. FreeBlocks(n) \in Nat \cup {None}
    BY FreeBlocksType DEF VirtualInv, LoadInv
<1>4. \A r \in Requests : matrix[<<r, n>>].work \in Shares
    BY DEF VirtualInv, MatrixOK, Shares
<1>5. \A r \in Requests : matrix[<<r, n>>] \in [price : Nat, work : Nat, blocks : Nat]
    BY DEF VirtualInv, LoadInv, SnapshotOK
<1>6. load[n] \in [work : Nat, active : Nat, free : Nat \cup {None}]
    BY DEF VirtualInv, LoadInv, TypeOK
<1> QED
    BY <1>1, <1>2, <1>3, <1>4, <1>5, <1>6

LEMMA VirtualInit == Init => MatrixOK /\ Laws!Init
<1> SUFFICES ASSUME Init PROVE Laws!Init
    BY DEF Init, MatrixOK
<1>1. VirtualInv
    BY InitInv, LoadInit DEF Init, MatrixOK, VirtualInv
<1>2. shares = [r \in Requests |-> 0]
    BY DEF Init, shares
<1>3. \A n \in Nodes : load[n].active - initial[n].active = 0
                       /\ load[n].work - initial[n].work = 0
  <2>1. load = initial
      BY DEF Init
  <2> QED
      BY <1>1, <2>1, SnapshotTypes
<1>4. added = [n \in Nodes |-> [active |-> 0, work |-> 0]]
    BY <1>3 DEF added
<1> QED
    BY <1>2, <1>4 DEF Init, Laws!Init

\* A turn of the loop reserves for one request: the node, the work and the
\* count of the turn are those of the reservation.
LEMMA VirtualStep ==
    VirtualInv /\ [Next]_vars => MatrixOK' /\ [Laws!Next]_(Laws!vars)
<1> SUFFICES ASSUME VirtualInv, [Next]_vars
             PROVE  MatrixOK' /\ [Laws!Next]_(Laws!vars)
    OBVIOUS
<1>1. CASE Assign
  <2>1. PICK r \in Ready, n \in Nodes :
          /\ r \in pending /\ r \in Requests
          /\ pending' = pending \ {r}
          /\ assigned' = [assigned EXCEPT ![r] = n]
          /\ load' = [load EXCEPT ![n] = Charged(r, n)]
          /\ UNCHANGED snapshot
      BY <1>1, Charge DEF VirtualInv
  <2>2. MatrixOK' /\ initial' = initial /\ matrix' = matrix
      BY <2>1 DEF VirtualInv, MatrixOK, snapshot, initial, FreeBlocks
  <2>3. n # None
      BY PolicyAssumption DEF PolicyAssumption
  <2> DEFINE to == [q \in {r} |-> n]
             w == [q \in {r} |-> matrix[<<r, n>>].work]
  <2>4. assigned' = [q \in Requests |-> IF q \in {r} THEN to[q] ELSE assigned[q]]
      BY <2>1 DEF VirtualInv, Inv, LoadInv, TypeOK
  <2>5. Requests \ pending' = (Requests \ pending) \cup {r}
      BY <2>1
  <2>6. shares' = [q \in Requests |-> IF q \in {r} THEN w[q] ELSE shares[q]]
    <3>1. \A q \in Requests : assigned'[q] = IF q = r THEN n ELSE assigned[q]
        BY <2>4
    <3>2. shares' = [q \in Requests |->
              IF assigned'[q] = None THEN 0 ELSE matrix[<<q, assigned'[q]>>].work]
        BY <2>2 DEF shares
    <3> QED
        BY <2>3, <3>1, <3>2 DEF shares
  <2>7. added' = [m \in Nodes |->
              LET new == {q \in {r} : to[q] = m}
              IN  [active |-> added[m].active + Laws!Cardinality(new),
                   work   |-> added[m].work + Laws!SumOf(w, new)]]
    <3> DEFINE new(m) == {q \in {r} : to[q] = m}
    <3>1. new(n) = {r} /\ \A m \in Nodes \ {n} : new(m) = {}
        OBVIOUS
    <3>2. matrix[<<r, n>>].work \in Nat /\ w[r] = matrix[<<r, n>>].work
        BY <2>1, SnapshotTypes
    <3> HIDE DEF w
    <3>3. /\ Laws!Cardinality({r}) = 1 /\ Laws!Cardinality({}) = 0
          /\ Laws!SumOf(w, {r}) = w[r] /\ Laws!SumOf(w, {}) = 0
      <4>1. Cardinality({r}) = 1 /\ Cardinality({}) = 0
          BY FS_Singleton, FS_EmptySet
      <4>2. Laws!SumOf(w, {r}) = w[r]
          BY <3>2, Laws!SumSingle
      <4>3. Laws!SumOf(w, {}) = 0
          BY Laws!SumEmpty
      <4> QED
          BY <4>1, <4>2, <4>3, SameCardinality
    <3>4. Charged(r, n).work = load[n].work + w[r] /\ Charged(r, n).active = load[n].active + 1
        BY <2>1, <3>2, ChargedIs DEF VirtualInv
    <3>5. ASSUME NEW m \in Nodes
          PROVE  /\ load'[m].active - initial[m].active =
                       (load[m].active - initial[m].active) + Laws!Cardinality(new(m))
                 /\ load'[m].work - initial[m].work =
                       (load[m].work - initial[m].work) + Laws!SumOf(w, new(m))
      <4>1. load'[m] = IF m = n THEN Charged(r, n) ELSE load[m]
          BY <2>1 DEF VirtualInv, LoadInv, TypeOK
      <4>2. /\ initial[m].work \in Nat /\ initial[m].active \in Nat
            /\ load[m].work \in Nat /\ load[m].active \in Nat
          BY SnapshotTypes
      <4>3. Laws!Cardinality(new(m)) = IF m = n THEN 1 ELSE 0
          BY <3>1, <3>3
      <4>4. Laws!SumOf(w, new(m)) = IF m = n THEN w[r] ELSE 0
          BY <3>1, <3>3
      <4> HIDE DEF new
      <4> QED
          BY <3>2, <3>4, <4>1, <4>2, <4>3, <4>4
    <3> HIDE DEF new
    <3>6. added' = [m \in Nodes |-> [active |-> load'[m].active - initial[m].active,
                                     work   |-> load'[m].work - initial[m].work]]
        BY <2>2 DEF added
    <3>7. \A m \in Nodes : /\ added[m].active = load[m].active - initial[m].active
                           /\ added[m].work = load[m].work - initial[m].work
        BY DEF added
    <3>8. added' = [m \in Nodes |-> [active |-> added[m].active + Laws!Cardinality(new(m)),
                                     work   |-> added[m].work + Laws!SumOf(w, new(m))]]
        BY <3>5, <3>6, <3>7
    <3> QED
        BY <3>8 DEF new
  <2>8. /\ {r} \in SUBSET (Requests \ (Requests \ pending)) /\ {r} # {}
        /\ to \in [{r} -> Nodes] /\ w \in [{r} -> Shares]
      BY <2>1, SnapshotTypes
  <2> HIDE DEF to, w
  <2>9. Laws!Reserve
      BY <2>4, <2>5, <2>6, <2>7, <2>8 DEF Laws!Reserve, Shares
  <2> QED
      BY <2>2, <2>9 DEF Laws!Next
<1>2. CASE UNCHANGED vars
    BY <1>2 DEF vars, snapshot, VirtualInv, MatrixOK, Laws!vars, shares, added, initial, FreeBlocks
<1> QED
    BY <1>1, <1>2 DEF Next, Done

LEMMA VirtualInvariance == Spec => [](VirtualInv /\ Laws!TypeOK /\ Laws!Balanced)
<1>1. Init => VirtualInv /\ Laws!TypeOK /\ Laws!Balanced
    BY InitInv, LoadInit, VirtualInit, LawsFinite, Laws!LedgerInit DEF VirtualInv
<1>2. VirtualInv /\ Laws!TypeOK /\ Laws!Balanced /\ [Next]_vars
         => (VirtualInv /\ Laws!TypeOK /\ Laws!Balanced)'
    BY InvStep, LoadStep, VirtualStep, LawsFinite, Laws!LedgerStep DEF VirtualInv
<1> QED
    BY <1>1, <1>2, PTL DEF Spec

LEMMA SameVirtual ==
    /\ Virtual!Init <=> Laws!Init
    /\ [Virtual!Next]_(Virtual!vars) <=> [Laws!Next]_(Laws!vars)
<1>1. Virtual!Reserve <=> Laws!Reserve
    BY DEF Virtual!Reserve, Laws!Reserve, Virtual!Cardinality, Laws!Cardinality,
           Virtual!SumOf, Laws!SumOf, Virtual!MapThenSumSet, Laws!MapThenSumSet,
           Virtual!MapThenFoldSet, Laws!MapThenFoldSet
<1>2. \A r \in Requests : Virtual!Release(r) <=> Laws!Release(r)
    BY DEF Virtual!Release, Laws!Release
<1>3. Virtual!Next <=> Laws!Next
    BY <1>1, <1>2 DEF Virtual!Next, Laws!Next
<1> QED
    BY <1>3 DEF Virtual!Init, Laws!Init, Virtual!vars, Laws!vars

\* Whatever the costs and capacities, the loop is a sequence of reservations.
THEOREM JointImplementsLedger == Spec => ImplementsLedger
<1>1. Init => Virtual!Init
    BY VirtualInit, SameVirtual
<1>2. VirtualInv /\ [Next]_vars => [Virtual!Next]_(Virtual!vars)
    BY VirtualStep, SameVirtual
<1> QED
    BY <1>1, <1>2, VirtualInvariance, PTL DEF Spec, ImplementsLedger, Virtual!Spec

\* What a sum over the requests of a node is made of.
LEMMA OnNode ==
    \A n \in Nodes : /\ On(n) = Laws!HeldOn(n)
                     /\ On(n) \in SUBSET Requests /\ IsFiniteSet(On(n))
<1> SUFFICES ASSUME NEW n \in Nodes
             PROVE  On(n) = Laws!HeldOn(n) /\ On(n) \in SUBSET Requests /\ IsFiniteSet(On(n))
    OBVIOUS
<1>1. On(n) = Laws!HeldOn(n) /\ On(n) \in SUBSET Requests
    BY DEF On, Laws!HeldOn
<1> QED
    BY <1>1, PolicyAssumption, FS_Subset DEF PolicyAssumption

\* The load with which a policy places a request is, at every turn, the load
\* the tracker will show once the plan has reserved for those placed before.
THEOREM VirtualLoadIsTheLedger == Spec => []VirtualLoadIsLedger
<1>1. VirtualInv /\ Laws!Balanced => VirtualLoadIsLedger
  <2> SUFFICES ASSUME VirtualInv, Laws!Balanced, NEW n \in Nodes
               PROVE  /\ load[n].work = initial[n].work + WorkOn(n)
                      /\ load[n].active = initial[n].active + Cardinality(On(n))
      BY DEF VirtualLoadIsLedger
  <2> DEFINE works == [r \in Requests |-> matrix[<<r, n>>].work]
             count == Cardinality(On(n))
             total == SumOf(works, On(n))
  <2>1. added[n] = [active |-> Laws!Cardinality(On(n)), work |-> Laws!SumOf(shares, On(n))]
      BY OnNode DEF Laws!Balanced
  <2>2. Laws!SumOf(shares, On(n)) = total
    <3>1. \A r \in On(n) : shares[r] \in Int /\ shares[r] = works[r]
      <4>1. n # None
          BY PolicyAssumption DEF PolicyAssumption
      <4>2. \A r \in Requests : matrix[<<r, n>>].work \in Nat
          BY SnapshotTypes
      <4>3. \A r \in On(n) : r \in Requests /\ assigned[r] = n
          BY DEF On
      <4> QED
          BY <4>1, <4>2, <4>3 DEF shares
    <3>2. Laws!IsFiniteSet(On(n))
        BY OnNode, SameCardinality
    <3> HIDE DEF works
    <3>3. Laws!SumOf(shares, On(n)) = Laws!SumOf(works, On(n))
        BY <3>1, <3>2, Laws!SumAgree
    <3> QED
        BY <3>3, SameSum
  <2>3. added[n].active = count /\ added[n].work = total
      BY <2>1, <2>2, SameCardinality
  <2>4. /\ added[n].active = load[n].active - initial[n].active
        /\ added[n].work = load[n].work - initial[n].work
      BY DEF added
  <2>5. /\ initial[n].work \in Nat /\ initial[n].active \in Nat
        /\ load[n].work \in Nat /\ load[n].active \in Nat
      BY SnapshotTypes
  <2>6. WorkOn(n) = total
      BY DEF WorkOn
  <2> HIDE DEF count, total
  <2>7. load[n].work = initial[n].work + total /\ load[n].active = initial[n].active + count
      BY <2>3, <2>4, <2>5
  <2> QED
      BY <2>6, <2>7 DEF count
<1> QED
    BY <1>1, VirtualInvariance, PTL

-----------------------------------------------------------------------------
(* The blocks of a node.                                                   *)

\* The free blocks of the loop are those of the snapshot less the blocks of
\* all the requests placed there, or none if those are more.
BlocksAccounted ==
    \A n \in Nodes :
        /\ initial[n].free = None => load[n].free = None
        /\ initial[n].free # None => load[n].free = Max2(0, initial[n].free - BlocksOn(n))

LEMMA BlocksType == VirtualInv => \A n \in Nodes : BlocksOn(n) \in Nat
<1> SUFFICES ASSUME VirtualInv, NEW n \in Nodes PROVE BlocksOn(n) \in Nat
    OBVIOUS
<1> DEFINE blocks == [r \in Requests |-> matrix[<<r, n>>].blocks]
<1>1. \A r \in On(n) : blocks[r] \in Nat
    BY OnNode, SnapshotTypes
<1>2. Laws!IsFiniteSet(On(n))
    BY OnNode, SameCardinality
<1> HIDE DEF blocks
<1>3. Laws!SumOf(blocks, On(n)) \in Nat
    BY <1>1, <1>2, Laws!SumNat
<1> QED
    BY <1>3, SameSum DEF BlocksOn, blocks

LEMMA BlocksInit == Init => BlocksAccounted
<1> SUFFICES ASSUME Init, NEW n \in Nodes
             PROVE  /\ initial[n].free = None => load[n].free = None
                    /\ initial[n].free # None => load[n].free = Max2(0, initial[n].free - BlocksOn(n))
    BY DEF BlocksAccounted
<1>1. On(n) = {}
    BY PolicyAssumption DEF Init, On, PolicyAssumption
<1>2. BlocksOn(n) = 0
    BY <1>1, SameSum, Laws!SumEmpty DEF BlocksOn
<1>3. initial[n].free \in Nat \cup {None} /\ load[n].free = initial[n].free
  <2>1. VirtualInv
      BY InitInv, LoadInit, VirtualInit DEF VirtualInv
  <2> QED
      BY <2>1, SnapshotTypes DEF Init
<1> QED
    BY <1>2, <1>3 DEF Max2

LEMMA BlocksStep == VirtualInv /\ BlocksAccounted /\ [Next]_vars => BlocksAccounted'
<1> SUFFICES ASSUME VirtualInv, BlocksAccounted, [Next]_vars PROVE BlocksAccounted'
    OBVIOUS
<1>1. CASE Assign
  <2>1. PICK r \in Ready, k \in Nodes :
          /\ r \in pending /\ r \in Requests
          /\ assigned' = [assigned EXCEPT ![r] = k]
          /\ load' = [load EXCEPT ![k] = Charged(r, k)]
          /\ UNCHANGED snapshot
      BY <1>1, Charge DEF VirtualInv
  <2>2. initial' = initial /\ matrix' = matrix
      BY <2>1 DEF snapshot, initial, FreeBlocks
  <2>3. assigned[r] = None /\ \A q \in Requests : assigned'[q] = IF q = r THEN k ELSE assigned[q]
      BY <2>1 DEF VirtualInv, Inv
  <2> SUFFICES ASSUME NEW n \in Nodes
               PROVE  /\ initial[n].free = None => load'[n].free = None
                      /\ initial[n].free # None => load'[n].free = Max2(0, initial[n].free - BlocksOn(n)')
      BY <2>2 DEF BlocksAccounted
  <2>4. n # None
      BY PolicyAssumption DEF PolicyAssumption
  <2>5. load'[n] = IF n = k THEN Charged(r, k) ELSE load[n]
      BY <2>1 DEF VirtualInv, LoadInv, TypeOK
  <2>6. CASE n # k
    <3>1. On(n)' = On(n)
        BY <2>3, <2>4, <2>6 DEF On
    <3>2. BlocksOn(n)' = BlocksOn(n)
        BY <2>2, <3>1 DEF BlocksOn
    <3> QED
        BY <2>5, <2>6, <3>2 DEF BlocksAccounted
  <2>7. CASE n = k
    <3>1. On(n)' = On(n) \cup {r} /\ r \notin On(n)
        BY <2>1, <2>3, <2>4, <2>7 DEF On
    <3> DEFINE blocks == [q \in Requests |-> matrix[<<q, n>>].blocks]
    <3>2. BlocksOn(n)' = blocks[r] + BlocksOn(n)
      <4>1. \A q \in On(n) \cup {r} : blocks[q] \in Int
          BY <2>1, OnNode, SnapshotTypes
      <4>2. Laws!IsFiniteSet(On(n))
          BY OnNode, SameCardinality
      <4>3. BlocksOn(n) = SumOf(blocks, On(n)) /\ BlocksOn(n)' = SumOf(blocks, On(n) \cup {r})
          BY <2>2, <3>1 DEF BlocksOn
      <4> HIDE DEF blocks
      <4>4. Laws!SumOf(blocks, On(n) \cup {r}) = blocks[r] + Laws!SumOf(blocks, On(n))
          BY <3>1, <4>1, <4>2, Laws!SumAdd
      <4> QED
          BY <4>3, <4>4, SameSum
    <3>3. blocks[r] \in Nat /\ blocks[r] = matrix[<<r, n>>].blocks
        BY <2>1, SnapshotTypes
    <3> HIDE DEF blocks
    <3>4. BlocksOn(n) \in Nat /\ initial[n].free \in Nat \cup {None} /\ None \notin Nat
        BY BlocksType, SnapshotTypes, PolicyAssumption DEF PolicyAssumption
    <3>5. Charged(r, n).free = IF load[n].free = None THEN None
                               ELSE Max2(0, load[n].free - blocks[r])
        BY <2>1, <3>3, ChargedIs DEF VirtualInv
    <3>6. /\ initial[n].free = None => load[n].free = None
          /\ initial[n].free # None => load[n].free = Max2(0, initial[n].free - BlocksOn(n))
        BY DEF BlocksAccounted
    <3> QED
        BY <2>5, <2>7, <3>2, <3>3, <3>4, <3>5, <3>6 DEF Max2
  <2> QED
      BY <2>6, <2>7
<1>2. CASE UNCHANGED vars
  <2>1. load' = load /\ assigned' = assigned /\ UNCHANGED snapshot
      BY <1>2 DEF vars
  <2>2. initial' = initial /\ matrix' = matrix
      BY <2>1 DEF snapshot, initial, FreeBlocks
  <2>3. \A n \in Nodes : BlocksOn(n)' = BlocksOn(n)
      BY <2>1, <2>2 DEF BlocksOn, On
  <2> QED
      BY <2>1, <2>2, <2>3 DEF BlocksAccounted
<1> QED
    BY <1>1, <1>2 DEF Next, Done

\* However the requests of a group compete for the blocks of the nodes, a
\* request is sent where it does not fit only if it fits nowhere.
THEOREM OverflowIsUnavoidable == Spec => NoAvoidableOverflow
<1> DEFINE Overflows(r, n) == /\ initial[n].free # None
                              /\ BlocksOn(n) + matrix[<<r, n>>].blocks > initial[n].free
           NoRoom == \A r \in Requests, n \in Nodes :
                /\ assigned[r] = None /\ assigned'[r] = n
                /\ initial[n].free # None /\ matrix[<<r, n>>].blocks > 0
                /\ BlocksOn(n) + matrix[<<r, n>>].blocks > initial[n].free
                => \A m \in Eligible :
                      /\ initial[m].free # None
                      /\ BlocksOn(m) + matrix[<<r, m>>].blocks > initial[m].free
<1>1. VirtualInv /\ BlocksAccounted =>
         \A r \in Requests, n \in Nodes :
             /\ Overflows(r, n) /\ matrix[<<r, n>>].blocks > 0 => ~Fits(r, n)
             /\ ~Fits(r, n) => Overflows(r, n)
  <2> SUFFICES ASSUME VirtualInv, BlocksAccounted, NEW r \in Requests, NEW n \in Nodes
               PROVE  /\ Overflows(r, n) /\ matrix[<<r, n>>].blocks > 0 => ~Fits(r, n)
                      /\ ~Fits(r, n) => Overflows(r, n)
      OBVIOUS
  <2>1. /\ BlocksOn(n) \in Nat /\ initial[n].free \in Nat \cup {None} /\ None \notin Nat
        /\ matrix[<<r, n>>].blocks \in Nat
      BY BlocksType, SnapshotTypes, PolicyAssumption DEF PolicyAssumption
  <2>2. /\ initial[n].free = None => load[n].free = None
        /\ initial[n].free # None => load[n].free = Max2(0, initial[n].free - BlocksOn(n))
      BY DEF BlocksAccounted
  <2> QED
      BY <2>1, <2>2 DEF Max2, Fits
<1>2. VirtualInv /\ BlocksAccounted /\ [Next]_vars => [NoRoom]_vars
  <2> SUFFICES ASSUME VirtualInv, BlocksAccounted, Assign,
                      NEW r \in Requests, NEW n \in Nodes,
                      assigned[r] = None, assigned'[r] = n,
                      Overflows(r, n), matrix[<<r, n>>].blocks > 0, NEW m \in Eligible
               PROVE  Overflows(r, m)
      BY DEF Next, Done
  <2>1. PICK p \in Ready, k \in Nodes :
          /\ k \in Options(p) /\ p \in Requests
          /\ assigned' = [assigned EXCEPT ![p] = k]
      BY Charge DEF VirtualInv
  <2>2. p = r /\ k = n
    <3>1. assigned'[r] = IF r = p THEN k ELSE assigned[r]
        BY <2>1 DEF VirtualInv, Inv
    <3>2. n # None
        BY PolicyAssumption DEF PolicyAssumption
    <3> QED
        BY <3>1, <3>2
  <2>3. ~Fits(r, n)
      BY <1>1
  <2>4. {q \in Eligible : Fits(r, q)} = {}
      BY <2>1, <2>2, <2>3 DEF Options
  <2>5. m \in Nodes
      BY EligibleExists DEF VirtualInv
  <2> QED
      BY <1>1, <2>4, <2>5
<1>3. Spec => [](VirtualInv /\ BlocksAccounted)
  <2>1. Init => VirtualInv /\ BlocksAccounted
      BY InitInv, LoadInit, VirtualInit, BlocksInit DEF VirtualInv
  <2>2. VirtualInv /\ BlocksAccounted /\ [Next]_vars => (VirtualInv /\ BlocksAccounted)'
      BY InvStep, LoadStep, VirtualStep, BlocksStep DEF VirtualInv
  <2> QED
      BY <2>1, <2>2, PTL DEF Spec
<1> QED
    BY <1>2, <1>3, PTL DEF Spec, NoAvoidableOverflow
=============================================================================
