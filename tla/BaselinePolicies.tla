-------------------------- MODULE BaselinePolicies --------------------------
(***************************************************************************)
(* The policies least_load, round_robin and prefix_hash over a sequence of *)
(* planning groups.  Requests are numbered in the order in which they are  *)
(* planned.  A plan takes a snapshot, assigns its requests in their order, *)
(* and reserves; the metrics change and requests end between two plans,    *)
(* because select_batch and the reservations run without an await.         *)
(***************************************************************************)
EXTENDS Integers, Sequences, FiniteSets

CONSTANTS
    Nodes,         \* node ids, in the order of sorted()
    Depths(_),     \* values of queue_depth, by policy: a policy that does not
    Prompts(_),    \* look at them needs one only; token sequences, by policy
    PrefixTokens,  \* prefix_hash_tokens
    Hash(_),       \* blake2b of a prefix, as an integer
    GroupLimit,    \* max_planning_group_size
    MaxRequests,   \* bound: requests of a behaviour
    Ending,        \* bound: the requests that may end
    None

Requests == 1 .. MaxRequests
Policies == {"least_load", "round_robin", "prefix_hash"}

\* The tokens that PrefixHashPolicy hashes.
Prefix(prompt) ==
    SubSeq(prompt, 1, IF PrefixTokens < Len(prompt) THEN PrefixTokens ELSE Len(prompt))

\* load_config refuses a configuration without nodes; PrefixHashPolicy takes
\* max(1, prefix_hash_tokens) and RequestPool max(1, max_planning_group_size).
ASSUME BaselineAssumption ==
    /\ IsFiniteSet(Nodes) /\ Nodes # {} /\ Nodes \subseteq Nat /\ None \notin Nodes
    /\ \A p \in Policies :
          /\ Depths(p) \subseteq Nat /\ Depths(p) # {}
          /\ \A tokens \in Prompts(p) : Hash(Prefix(tokens)) \in Nat
    /\ PrefixTokens \in Nat \ {0}
    /\ GroupLimit \in Nat \ {0} /\ MaxRequests \in Nat /\ Ending \subseteq Requests

VARIABLES
    policy,      \* the configured policy
    active,      \* router_active_requests of each node
    prompt,      \* the prompt of each request that has arrived
    first,       \* the first request of the group that is being planned
    turn,        \* the request whose turn it is in the loop
    last,        \* the last request of the group
    eligible,    \* the nodes the group may use
    depth,       \* queue_depth of each node in the snapshot
    virtual,     \* the loop's own count of active requests (least_load)
    next_index,  \* _next_index (round_robin)
    assigned,    \* the node of each request
    offered,     \* history: the nodes that were eligible for a request
    released     \* the requests that have given back their reservation

snapshot == <<eligible, depth>>
loop == <<turn, virtual, next_index, assigned, offered>>
vars == <<policy, active, prompt, first, last, snapshot, loop, released>>

Init ==
    /\ policy \in Policies
    /\ depth = [n \in Nodes |-> 0]
    /\ active = [n \in Nodes |-> 0]
    /\ prompt = [r \in Requests |-> None]
    /\ first = 1 /\ turn = 1 /\ last = 0
    /\ eligible = Nodes
    /\ virtual = active
    /\ next_index = 0
    /\ assigned = [r \in Requests |-> None]
    /\ offered = [r \in Requests |-> {}]
    /\ released = {}

-----------------------------------------------------------------------------
Idle == first > last

\* A request ends: the reservation counter of its node goes down.
Release(r) ==
    /\ Idle
    /\ r \in Ending /\ r < first /\ r \notin released
    /\ active' = [active EXCEPT ![assigned[r]] = IF @ > 0 THEN @ - 1 ELSE 0]
    /\ released' = released \cup {r}
    /\ UNCHANGED <<prompt, first, last, snapshot, loop>>

\* _eligible: nodes without metrics only if no node has them.
Eligible(available) == IF available = {} THEN Nodes ELSE available

\* A plan starts with a group of the queue and a snapshot of the nodes, as the
\* poll has left them: any may have its metrics, or not.
BeginGroup ==
    /\ Idle
    /\ \E size \in 1..GroupLimit :
          /\ last' = last + size
          /\ last' <= MaxRequests
          /\ \E p \in [first .. last' -> Prompts(policy)] :
                prompt' = [r \in Requests |-> IF r \in first .. last' THEN p[r] ELSE prompt[r]]
    /\ \E available \in SUBSET Nodes : eligible' = Eligible(available)
    /\ depth' \in [Nodes -> Depths(policy)]
    /\ virtual' = active
    /\ UNCHANGED <<active, first, turn, next_index, assigned, offered, released>>

\* The request whose turn it is goes to node n.
Give(n) ==
    /\ assigned' = [assigned EXCEPT ![turn] = n]
    /\ offered' = [offered EXCEPT ![turn] = eligible]
    /\ turn' = turn + 1
    /\ UNCHANGED <<active, prompt, first, last, snapshot, released>>

\* nodes[index % len(nodes)], of the sorted nodes.
Nth(nodes, index) ==
    CHOOSE n \in nodes : Cardinality({m \in nodes : m < n}) = index % Cardinality(nodes)

Load(n) == virtual[n] + depth[n]

\* The order of the keys of min().
Before(n, m) ==
    \/ Load(n) < Load(m)
    \/ Load(n) = Load(m) /\ n < m

\* Mutant: the counts of the snapshot, for every member of the group.
LeastLoad_Snapshot ==
    /\ policy = "least_load"
    /\ turn <= last
    /\ \E n \in eligible :
          /\ \A m \in eligible \ {n} : Before(n, m)
          /\ Give(n)
    /\ UNCHANGED <<virtual, next_index>>

\* Mutant: nodes that are not eligible are considered too.
LeastLoad_AllNodes ==
    /\ policy = "least_load"
    /\ turn <= last
    /\ \E n \in Nodes :
          /\ \A m \in Nodes \ {n} : Before(n, m)
          /\ virtual' = [virtual EXCEPT ![n] = @ + 1]
          /\ Give(n)
    /\ UNCHANGED next_index

LeastLoad ==
    /\ policy = "least_load"
    /\ turn <= last
    /\ \E n \in eligible :
          /\ \A m \in eligible \ {n} : Before(n, m)
          /\ virtual' = [virtual EXCEPT ![n] = @ + 1]
          /\ Give(n)
    /\ UNCHANGED next_index

\* Mutant: the position is that in the group.
RoundRobin_PerGroup ==
    /\ policy = "round_robin"
    /\ turn <= last
    /\ Give(Nth(eligible, turn - first))
    /\ UNCHANGED <<virtual, next_index>>

RoundRobin ==
    /\ policy = "round_robin"
    /\ turn <= last
    /\ Give(Nth(eligible, next_index))
    /\ next_index' = next_index + 1
    /\ UNCHANGED virtual

\* Mutant: the whole prompt is hashed.
PrefixHash_WholePrompt ==
    /\ policy = "prefix_hash"
    /\ turn <= last
    /\ Give(Nth(eligible, Hash(prompt[turn])))
    /\ UNCHANGED <<virtual, next_index>>

PrefixHash ==
    /\ policy = "prefix_hash"
    /\ turn <= last
    /\ Give(Nth(eligible, Hash(Prefix(prompt[turn]))))
    /\ UNCHANGED <<virtual, next_index>>

\* The rest of plan(): a reservation for each assignment.
Reserve ==
    /\ ~Idle /\ turn > last
    /\ active' = [n \in Nodes |->
                    active[n] + Cardinality({r \in first..last : assigned[r] = n})]
    /\ first' = turn
    /\ UNCHANGED <<prompt, last, snapshot, loop, released>>

Plan == LeastLoad \/ RoundRobin \/ PrefixHash \/ Reserve

\* The bound is reached.
NoMoreRequests ==
    /\ Idle /\ last = MaxRequests
    /\ UNCHANGED vars

\* The configuration is read once.
Next ==
    /\ BeginGroup \/ Plan \/ (\E r \in Requests : Release(r)) \/ NoMoreRequests
    /\ UNCHANGED policy

Spec == Init /\ [][Next]_vars

\* A plan does not wait for anything once it has its snapshot.
FairSpec == Spec /\ WF_vars(Plan /\ UNCHANGED policy)

-----------------------------------------------------------------------------
(* Properties.                                                             *)

TypeOK ==
    /\ policy \in Policies
    /\ depth \in [Nodes -> Nat]
    /\ active \in [Nodes -> Nat] /\ virtual \in [Nodes -> Nat]
    /\ prompt \in [Requests -> Prompts(policy) \cup {None}]
    /\ first \in Nat \ {0} /\ turn \in Nat \ {0} /\ last \in 0..MaxRequests
    /\ first <= turn /\ turn <= last + 1
    /\ eligible \in (SUBSET Nodes) \ {{}}
    /\ next_index \in Nat
    /\ assigned \in [Requests -> Nodes \cup {None}]
    /\ offered \in [Requests -> SUBSET Nodes]
    /\ released \subseteq 1 .. first - 1

\* round_robin: as long as the same nodes are eligible, two requests less than
\* a round apart go to different nodes, whether they were planned in one group
\* or in several, so that every round uses every node once.
RoundRobinCycles ==
    policy = "round_robin" => \A r, q \in 1 .. turn - 1 :
        /\ r < q /\ q - r < Cardinality(offered[r])
        /\ \A p \in r..q : offered[p] = offered[r]
        => assigned[r] # assigned[q]

\* prefix_hash: requests with the same hashed prefix that could use the same
\* nodes share a node, whatever was planned or became unavailable in between.
PrefixAffinity ==
    policy = "prefix_hash" => \A r, q \in 1 .. turn - 1 :
        /\ Prefix(prompt[r]) = Prefix(prompt[q])
        /\ offered[r] = offered[q]
        => assigned[r] = assigned[q]

\* least_load: when a plan has reserved, no node that got a request of the
\* group has more than one request above any other eligible node: the members
\* of a group count for each other.
GroupIsLevelled ==
    [][\A n, m \in eligible :
          /\ policy = "least_load" /\ first' > last /\ ~Idle
          /\ \E r \in first..last : assigned[r] = n
          => active'[n] + depth[n] - 1 <= active'[m] + depth[m]]_vars

\* The group assignment seen through a state of these policies.
Assignment == INSTANCE GroupAssignment WITH
    group <- turn .. last,
    eligible <- eligible,
    assigned <- assigned

\* Every policy assigns each request of its group once, to an eligible node,
\* and no group is left unfinished.
ImplementsAssignment == Assignment!FairSpec
=============================================================================
