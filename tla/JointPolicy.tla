----------------------------- MODULE JointPolicy -----------------------------
(***************************************************************************)
(* How TieredCompletionTimePolicy assigns the requests of one planning     *)
(* group: each turn of the loop of select_batch assigns the most           *)
(* constrained request to its cheapest node and counts the work and the    *)
(* GPU blocks of the assignment against the node.  The loop runs without   *)
(* an await on a snapshot of the nodes.                                    *)
(*                                                                         *)
(* Costs are integers, usage is a percentage.  GpuPrefixLoadPolicy is the  *)
(* same policy with include_external_cache = FALSE.                        *)
(***************************************************************************)
EXTENDS CostModel, FiniteSets

CONSTANTS
    Requests,       \* request ids, which break the last tie
    Nodes,          \* node ids, likewise
    Matches,        \* the prefix matches of requests at nodes
    include_external_cache,
    States,         \* counters and metrics of a node; usage 0 if not known
    Slope,          \* the queue estimator's delay per unit of work
    Penalty,        \* capacity_penalty
    HighWatermark, HardLimit,  \* percentages of used blocks
    None

ASSUME PolicyAssumption ==
    /\ IsFiniteSet(Requests) /\ Requests \subseteq Nat
    /\ IsFiniteSet(Nodes) /\ Nodes \subseteq Nat /\ Nodes # {}
    /\ Matches \subseteq PrefixMatch /\ include_external_cache \in BOOLEAN
    /\ Slope \in Nat /\ Penalty \in Nat
    /\ None \notin Nat
    /\ States \subseteq [work : Nat, active : Nat, running : Nat, waiting : Nat,
                         usage : 0..100, total : (Nat \ {0}) \cup {None}]
    /\ HighWatermark \in 0..99 /\ HardLimit \in HighWatermark..100

VARIABLES
    matrix,     \* the candidate of each request and node
    available,  \* the nodes whose metrics are available
    state,      \* the NodeRoutingState of each node
    load,       \* reserved_work, active_requests and free_blocks of the loop
    pending,    \* the requests not assigned yet
    assigned,   \* the node of each assigned request
    choices     \* how many options a request had when it was assigned

snapshot == <<matrix, available, state>>
vars == <<snapshot, load, pending, assigned, choices>>

\* What select_batch uses of a RouteCandidate with this match.
Candidate(match) ==
    [price  |-> prompt_path_cost(match, include_external_cache),
     work   |-> candidate_work(match),
     blocks |-> required_new_gpu_blocks(match)]

\* estimated_gpu_free_blocks of a node, unless its size is unknown.
FreeBlocks(n) ==
    IF state[n].total = None THEN None
    ELSE (state[n].total * (100 - state[n].usage)) \div 100

\* The load of the snapshot, with which the loop starts.
initial ==
    [n \in Nodes |-> [work |-> state[n].work, active |-> state[n].active,
                      free |-> FreeBlocks(n)]]

Init ==
    /\ matrix \in [Requests \X Nodes -> {Candidate(m) : m \in Matches}]
    /\ available \in SUBSET Nodes
    /\ state \in [Nodes -> States]
    /\ load = initial
    /\ pending = Requests
    /\ assigned = [r \in Requests |-> None]
    /\ choices = [r \in Requests |-> 0]

-----------------------------------------------------------------------------
\* The order of Python tuples, and the first in a set of keys that differ.
Less(s, t) == \E i \in DOMAIN s : s[i] < t[i] /\ \A j \in 1 .. i - 1 : s[j] = t[j]
First(s, keys) == s \in keys /\ \A t \in keys \ {s} : Less(s, t)

\* _eligible: nodes without metrics only if no node has them.
Eligible == IF available = {} THEN Nodes ELSE available

\* _fits_capacity.
Fits(r, n) == load[n].free = None \/ matrix[<<r, n>>].blocks <= load[n].free

\* Mutant: a request that fits nowhere has no option.
Options_OnlyFitting(r) == {n \in Eligible : Fits(r, n)}

\* The nodes a request may go to: those it fits, or all if it fits none.
Options(r) ==
    LET fitting == {n \in Eligible : Fits(r, n)}
    IN  IF fitting # {} THEN fitting ELSE Eligible

\* _capacity_cost: quadratic above the high watermark, with a step at the hard
\* limit.  A node of unknown size shows its usage only, which the group's own
\* assignments do not raise.
CapacityCost(n) ==
    LET usage == IF load[n].free = None THEN state[n].usage
                 ELSE 100 - (100 * load[n].free) \div state[n].total
        over == usage - HighWatermark
        span == 100 - HighWatermark
    IN  IF over <= 0 THEN 0
        ELSE (Penalty * over * over) \div (span * span)
             + IF usage >= HardLimit THEN Penalty ELSE 0

\* predict_ms: the delay learned per unit of work.
Predicted(work) == Slope * work

\* _queue_cost: what the estimator predicts for the work in flight, or what the
\* engine's own queue amounts to.
QueueCost(r, n) ==
    Max2(Predicted(load[n].work),
         (state[n].waiting * matrix[<<r, n>>].price) \div Max2(1, state[n].running))

Cost(r, n) == matrix[<<r, n>>].price + QueueCost(r, n) + CapacityCost(n)

\* The key by which the options of a request are ranked.
Rank(r, n) == <<Cost(r, n), load[n].active, state[n].running + state[n].waiting, n>>

\* evaluated: the ranked options of a request.
Evaluated(r) == {Rank(r, n) : n \in Options(r)}

\* What the second option costs more than the first.
Regret(evaluated) ==
    LET first == CHOOSE s \in evaluated : First(s, evaluated)
        second == CHOOSE s \in evaluated : First(s, evaluated \ {first})
    IN  second[1] - first[1]

\* Mutant: by regret alone.
Priority_RegretOnly(r) ==
    IF Cardinality(Options(r)) > 1 THEN <<0 - Regret(Evaluated(r)), r>> ELSE <<0, r>>

\* Fewest options first, then largest regret; all single options are equal.
Priority(r) ==
    IF Cardinality(Options(r)) > 1
    THEN <<Cardinality(Options(r)), 0 - Regret(Evaluated(r)), r>> ELSE <<1, 0, r>>

\* Requests without an option are passed over.
Ready == {r \in pending : Options(r) # {}}

\* Mutant: the free blocks of the node are not reduced.
Charged_KeepsBlocks(r, n) ==
    [load[n] EXCEPT !.work = @ + matrix[<<r, n>>].work, !.active = @ + 1]

\* Mutant: the price instead of the work of the assignment.
Charged_PriceOnly(r, n) ==
    [load[n] EXCEPT !.work = @ + matrix[<<r, n>>].price, !.active = @ + 1,
                    !.free = IF @ = None THEN None ELSE Max2(0, @ - matrix[<<r, n>>].blocks)]

\* The load of node n with request r on it.
Charged(r, n) ==
    [load[n] EXCEPT !.work = @ + matrix[<<r, n>>].work, !.active = @ + 1,
                    !.free = IF @ = None THEN None ELSE Max2(0, @ - matrix[<<r, n>>].blocks)]

\* Mutant: capacity and metrics of the nodes are not looked at.
Assign_AnyNode ==
    /\ \E r \in Ready, n \in Nodes :
          /\ First(Priority(r), {Priority(q) : q \in Ready})
          /\ First(Rank(r, n), {Rank(r, m) : m \in Nodes})
          /\ pending' = pending \ {r}
          /\ assigned' = [assigned EXCEPT ![r] = n]
          /\ choices' = [choices EXCEPT ![r] = Cardinality(Options(r))]
          /\ load' = [load EXCEPT ![n] = Charged(r, n)]
    /\ UNCHANGED snapshot

\* One turn of the loop: the first request goes to its first option.
Assign ==
    /\ \E r \in Ready, n \in Nodes :
          /\ First(Priority(r), {Priority(q) : q \in Ready})
          /\ n \in Options(r) /\ First(Rank(r, n), Evaluated(r))
          /\ pending' = pending \ {r}
          /\ assigned' = [assigned EXCEPT ![r] = n]
          /\ choices' = [choices EXCEPT ![r] = Cardinality(Options(r))]
          /\ load' = [load EXCEPT ![n] = Charged(r, n)]
    /\ UNCHANGED snapshot

\* The loop has ended.
Done ==
    /\ Ready = {}
    /\ UNCHANGED vars

Next == Assign \/ Done

Spec == Init /\ [][Next]_vars

-----------------------------------------------------------------------------
(* Properties.                                                             *)

TypeOK ==
    /\ load \in [Nodes -> [work : Nat, active : Nat, free : Nat \cup {None}]]
    /\ pending \subseteq Requests
    /\ assigned \in [Requests -> Nodes \cup {None}]
    /\ choices \in [Requests -> 0..Cardinality(Nodes)]

On(n) == {r \in Requests : assigned[r] = n}
SumOf(w, S) == MapThenSumSet(LAMBDA r : w[r], S)
BlocksOn(n) == SumOf([r \in Requests |-> matrix[<<r, n>>].blocks], On(n))
WorkOn(n) == SumOf([r \in Requests |-> matrix[<<r, n>>].work], On(n))

\* plan() raises if the policy leaves a request without a node: when the loop
\* ends every request has one, whatever the nodes' capacity and metrics are.
EveryRequestAssigned == Ready = {} => \A r \in Requests : assigned[r] \in Eligible

\* The virtual load of a node is what the tracker will show after the plan has
\* reserved: the inflight work of the snapshot and of the assignments.
VirtualLoadIsLedger ==
    \A n \in Nodes :
        /\ load[n].work = initial[n].work + WorkOn(n)
        /\ load[n].active = initial[n].active + Cardinality(On(n))

\* A request overflows a node, counting all that the group put there before,
\* only if it fits no eligible node.  (A request that needs no block may still
\* join a node that an earlier one had to overflow: it takes no room there.)
NoAvoidableOverflow ==
    [][\A r \in Requests, n \in Nodes :
          /\ assigned[r] = None /\ assigned'[r] = n
          /\ initial[n].free # None /\ matrix[<<r, n>>].blocks > 0
          /\ BlocksOn(n) + matrix[<<r, n>>].blocks > initial[n].free
          => \A m \in Eligible :
                /\ initial[m].free # None
                /\ BlocksOn(m) + matrix[<<r, m>>].blocks > initial[m].free]_vars

FitsInSnapshot(r, n) ==
    initial[n].free = None \/ matrix[<<r, n>>].blocks <= initial[n].free

\* A request that fits a single node of the snapshot loses that node only to
\* requests that had no other option either when they were assigned: a request
\* with a wider choice never takes the room of a request without one.
ScarceNodeIsKept ==
    [][\A r \in pending', n \in Eligible :
          /\ {m \in Eligible : FitsInSnapshot(r, m)} = {n}
          /\ Fits(r, n) /\ ~Fits(r, n)'
          => \A q \in On(n)' : choices'[q] = 1]_vars

\* The group assignment seen through a state of the loop.
Assignment == INSTANCE GroupAssignment WITH
    group <- pending,
    eligible <- Eligible,
    assigned <- assigned

\* The joint policies give each request of the group one eligible node, once.
ImplementsAssignment == Assignment!Spec

\* The reservations of the plan seen through a state of the loop: the load the
\* loop has added to the snapshot, and what each request has added of it.
shares ==
    [r \in Requests |-> IF assigned[r] = None THEN 0 ELSE matrix[<<r, assigned[r]>>].work]
added ==
    [n \in Nodes |-> [active |-> load[n].active - initial[n].active,
                      work   |-> load[n].work - initial[n].work]]

Virtual == INSTANCE ReservationLedger WITH
    held <- assigned, served <- Requests \ pending, share <- shares, load <- added,
    Works <- {Candidate(m).work : m \in Matches}

\* The loop reserves, one request at a time, as the tracker will when the plan
\* is settled.
ImplementsLedger == Virtual!Spec
=============================================================================
