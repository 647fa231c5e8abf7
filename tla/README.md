# KaReserve: TLA+ specifications and proofs

KaReserve (`kareserve/`) is a router in front of several vLLM servers. It
tokenizes a completion request, groups the requests that are ready, asks where
their prefixes are cached, assigns a group jointly, reserves load on the chosen
nodes and forwards the requests. Everything runs on one asyncio event loop; so
**a step of these models is the code between two awaits**, and the hard
behaviour is what happens at the awaits: cancellations, messages, polls,
timeouts and the steps of other coroutines.

## 1. Inventory

| Component | State it keeps | Operations | Hard behaviour | What makes it correct |
|---|---|---|---|---|
| Request pool (`request_pool.py`) | queue, group being planned, a future per request | assign, `_run`, stop | cancellation while queued, planned or answered; a failing plan; stop | each waiting handler is owned, answered once, with its whole group or not at all |
| Route planner (`routing.py`) | none between plans | plan: lookup (await), candidates, policy, reserve | counters change during the lookup, not after the snapshot | a group reserves at once or not at all |
| Handlers and proxy (`server.py`) | session, response, observation of a request | handle_completion, open_upstream, stream_upstream, read_upstream | cancellation at nine awaits, broken bodies, errors outside of every `except`, a `finally` block with an await in it | a reservation is released exactly once; outcomes are true |
| Reservation counters (`tracker.py`) | router_active_requests, router_inflight_work | reserve_route, release_route | clamps and the reset at zero hide errors | the counters equal what is held |
| KV event listener (`tracker.py`) | last_sequence, gpu_catalog_status | `_listen`, `_request_replay`, `_apply_sequence` | lost messages, replay overlap and timeout, restarts of vLLM | a healthy catalog has no hole and nothing stale |
| Metrics poll and lifespan (`server.py`, `tracker.py`) | process start time, engine metrics, metrics_status; the tasks to end | poll_metrics, update_metrics_text, startup, shutdown | clears the catalog while a replay is awaited; a node fails between headers and text; a shutdown at any await | a new process is noticed; plans follow the health of the nodes; a shutdown ends everything |
| GPU catalog (`tracker.py`) | gpu_blocks, gpu_block_index | store, remove, clear, longest prefix | two dictionaries; repeated stores, copies, any order of removals | they agree, and never promise more than the GPU holds |
| Cost model (`policy.py`, `state.py`) | none | path price, work, blocks | tiers that overlap | comparable costs |
| Joint policies (`policy.py`) | virtual load of a plan | select_batch | the order within a group; capacity | scarce nodes are kept, no avoidable overflow |
| LMCache client and endpoint (`lmcache_client.py`, `lmcache_server.py`) | domain status; lookup tasks and locks | lookup; adapter lookup, poll, unlock | domains that fail in part, deadlines on both sides | a status tells what the plan used; locks are returned |
| Baseline policies (`policy.py`) | the round-robin index; virtual counts of a plan | select_batch of least_load, round_robin, prefix_hash | eligible nodes change from group to group; the snapshot stands still within one | members of a group count for each other; rotation; affinity |
| Queue estimator (`performance.py`, `policy.py`) | a window of samples per node and one for the cluster | observe, predict | samples leave out the group and arrive in any order; windows forget; switch between windows | predictions rest on the right samples and tend to the truth |
| SSE output detector (`observability.py`) | a line buffer and the data of an event | feed | the network cuts a stream anywhere | the first output is seen with the chunk that completes it |
| Tokenizer, configuration, read-only endpoints, scripts | none; pid files | | | not modelled, see section 7 |

How they interact: a handler puts a request and a future into the queue; the
pool worker calls `plan`, which awaits the LMCache client and then, without an
await, reads a snapshot of the tracker (counters, metrics, catalogs), runs the
policy and reserves; the worker sets the futures; the handlers forward and
release, and at the end of a stream they tell the policy's queue estimator how
long the first output took. Listener and metrics poll change the catalog and the metrics beside
all that.

The hazards of this code, each at its line and with the properties that cover
it, are listed in `PROJECT.json` under "hazards".

## 2. Modules

| Module | Models | Correspondence |
|---|---|---|
| `ReservationLedger` | the promise about reservations: number and work | `Reserve`: the reserve loop of `plan`, or one turn of the loop of a joint policy; `Release`: `release_route` |
| `Gateway` | request pool, plan, handlers, counters | `phase` says at which await a handler is suspended; `future` and `queue` are the objects of that name; `target` and `share` are the node and the work of the AssignmentResult; `ledger` holds the two counters of each node; `relayed` and `collected` remember how a body ended |
| `KvEvents` | listener, replay, discovery of a restart, for one node | `pc` is the await of `_listen`, and `inLoop` whether it has come to its `try`; `last`, `status`, `seenStart` are `last_sequence`, `gpu_catalog_status` and `process_start_time_seconds`; `wire` is the SUB socket; `catalog` is the set of batches applied since it was cleared |
| `GpuCatalog` | blocks and index of one node | `blocks`, `index`, `status` are the dictionaries and the status; `gpu` is vLLM's own prefix cache (external) |
| `CostModel` | price, work and blocks of a prefix match, prefill time | the methods of that name; `Prefill` is a `PolynomialPrefillModel` |
| `JointPolicy` | `select_batch` of tiered_completion_time and gpu_prefix_load | one `Assign` per turn of the loop; `load` is reserved_work, active_requests and free_blocks |
| `GroupAssignment` | the promise of every policy | `Begin`: the group and the snapshot of a plan; `Assign`: one turn of a policy's loop |
| `BaselinePolicies` | least_load, round_robin and prefix_hash over a sequence of groups | `LeastLoad`, `RoundRobin` and `PrefixHash` are one turn of a loop; `next_index` and `virtual` are the code's; `offered` remembers what was eligible |
| `LMCacheLookup` | one lookup of a group, client and endpoints | `call` is a guarded coroutine per domain, `job` a `_lookup_query`, `task` a lookup-and-lock task of an adapter |
| `QueueEstimator` | windows, least squares, cluster fallback | `cluster` and `local` are the deques; `accepted` remembers every sample |
| `SseDetector` | `SSEOutputDetector`, as operators | `feed` is the method, `Split` its cutting of lines and `Read` its loop with the turn `Step`; `Listen` and `Heard` are what `stream_upstream` makes of it; `HasEvent` and `Due` are the definition it is compared with |
| `QueueFeedback` | plans, streams and samples together | `route` is what an AssignmentResult keeps of its snapshot; `EndStream` is the `finally` block |
| `MetricsPoll` | `poll_metrics` and the lifespan | `poll` and `lifespan` are the awaits; `metrics_status` is the field of that name; `running` is what the lifespan must end |
| `MC*` | small instances for TLC | |
| `*Proofs` | theorems and proofs | |

Each module names its mutants: a mutant `Op_Bug` is `Op` with one plausible bug,
never part of the specification. For each property of a passing run,
`PROJECT.json` names the mutant that breaks it.

Composition. `Gateway` contains pool, planner, handlers and counters together,
since their interleavings are the point, and implements `ReservationLedger`, as
the virtual load of `JointPolicy` does. It
sees the policy as any choice of nodes and works (`FinishPlan`); that such a
choice exists for every request, so that the RuntimeError of `plan` is not
reached, is what `GroupAssignment` promises, and `JointPolicy` and
`BaselinePolicies` implement it. `Gateway` sees the lookup as an await that may
raise (`FailPlan`); `LMCacheLookup` shows what it returns. `KvEvents` identifies
a batch by its process and sequence number; `GpuCatalog` shows what batches do
to blocks. `QueueFeedback` composes `QueueEstimator` and `SseDetector` with the
reservations of plans and the ends of streams. `MetricsPoll` justifies that
`BaselinePolicies` lets any set of nodes be eligible for a group.

## 3. What is abstracted

* Work and costs are integers; usage is a percentage. The rounding of floats is
  not modelled; the counters of the code are floats, so `WorkBalanced` holds of
  the code up to rounding, and exactly whenever the node is idle.
* Log records, stats counters, headers and bodies are left out. Parsing and
  tokenization is `Submit` or `Reject`.
* `plan` awaits the lookup only when LMCache is configured; without it
  `FinishPlan` follows `CloseGroup` at once, which is one of the modelled
  interleavings.
* Cancellation. The await of a handler at which a cancellation arrives is in
  `CancelPoints`. Served by uvicorn, a disconnect cancels the task that streams
  the body, so "streaming" and "closing" are the realistic points; "waiting"
  and "reading" are anticipated by `request_pool.py:86` and `server.py:414`.
  The safety and the liveness run allow all of them. `UncaughtErrors` lets the
  opening of the upstream raise an error for which the code has no `except`.
* `StopPool` waits for the handlers because uvicorn does so before it ends the
  lifespan.
* KV events: one node, since nodes share nothing. Frames of one replay arrive
  whole and in order (a TCP stream); a replay with frames of another shape is a
  timeout in the model. `Restart` needs the wire drained, the listener idle or
  dead and the old process polled: loading a model takes minutes, polls half a
  second. A replay of the old process is therefore over when the new one is
  polled; a replay that a gap of the new one causes may be in progress then.
  `TimeoutIsCaught` stands for the version of Python: from 3.11 on a timeout of
  `wait_for` is the exception the replay catches.
* GPU catalog: one block size and one cache group. Groups do not meet: identity
  and index key both hold the group, and the lookup reads group 0 only, where a
  block size of another group finds nothing. Events of other media change
  nothing; an event with several hashes to remove is a sequence of `Evict`. The
  history variable `plain` says that since the last reset no block had a second
  copy and no two extra keys were on the GPU together: only then is the prefix
  exact.
* Cost model: coefficients are integers and `token_scale` is one. Without a
  `prefill_time_model` the code takes `compute_cost`, which is the polynomial
  with `cached = -prompt` and zeros else. The instance has a quadratic one, as
  the shipped configuration does, with a minimum that is reached.
* Joint policy: `gpu_block_size` is the same for all nodes;
  the predicted delay per unit of work is the constant `Slope`, since a plan
  does not change it (how it is learned is in `QueueFeedback`); a cache usage
  that is not known yet is 0, which has the same cost. The regret of a single
  option is infinite in the code and 0 in the model, where it is compared with
  its like only.
* LMCache: one lookup per behaviour; the L1 bits are read without an await and
  can be any; the timeout of the client may pass at any moment. An endpoint
  without adapters answers at once.
* Baseline policies: the values that a policy does not look at have one value
  each (`Depths`, `Prompts`); the policy is chosen in `Init`, as the
  configuration is read once.
* Queue estimator: work and delay are integers and a slope is a fraction of
  two. The engine is ideal: a request waits a constant `Rate` for each unit of
  work ahead of it; `Rate` is what remains beyond the predicted prices and may
  be negative. A stream is heard as late as the detector says, one unit of time
  for each chunk.
* SSE detector: a line is made of five pieces (the field name, two halves of a
  value with text, CR, LF); a stream has up to four lines and is cut twice, also
  at its ends, where a chunk is empty. The theorem `DetectorAgrees` has neither
  bound: it is about any sequence of chunks.
* Metrics poll: a node is up, answers with another status, or is down, which
  includes an answer after the two seconds of the request. Which metrics a text
  holds is left out; a text that raises is `Raise`, and may come from any node.

## 4. Runs

| Run | Instance | Shows |
|---|---|---|
| `gateway_safety` | 3 requests, 2 nodes, groups of 2, works {1, 2}, all cancellation points, uncaught errors | `TypeOK`, `ReservationsBalanced`, `WorkBalanced`, `PendingIsOwned`, `OutcomeIsHonest`, `PlanIsAtomic`, `ImplementsLedger` |
| `gateway_liveness` | 3 requests, 1 node, all cancellation points, uncaught errors; `FairSpec` | `EveryRequestAnswered`, `EveryReservationReleased` |
| `gateway_leak` | 2 requests, cancellation at streaming and closing | violation of `IdleMeansNoLoad` |
| `kv_events_safety` | 5 batches, 2 processes, buffer of 2, all faults, with and without replay, both versions of Python | `TypeOK`, `HealthyIsExact`, `FreshAfterPoll`, `EndedLoopIsDegraded`, `FirstBatchStartsAnew`, `AppliedInOrder` |
| `kv_events_timeout` | Python 3.10 | violation of `DeadListenerIsDegraded` |
| `gpu_catalog` | 2 contents, 2 extra keys, depth 3, 3 physical blocks, 2 copies | `IndexHasItsBlock`, `CatalogIsOnGpu`, `PrefixIsCached`, `PrefixIsExact` |
| `joint_policy` | 3 requests, 2 nodes, all snapshots of 3 matches and the node states of `MCStates` | `VirtualLoadIsLedger`, `EveryRequestAssigned`, `ScarceNodeIsKept`, `NoAvoidableOverflow`, `ImplementsAssignment` |
| `baselines` | 4 requests in groups of up to 3, 3 nodes that come and go, each policy; `FairSpec` | `RoundRobinCycles`, `PrefixAffinity`, `GroupIsLevelled`, `ImplementsAssignment` |
| `queue_feedback` | 4 requests in groups of up to 2, 2 nodes, windows of 2, 6 kinds of lines, 4 lines, 2 cuts | `TypeOK`, `OutputIsHeard`, `PredictionIsLeastSquares`, `LearnsTheRate`, `NeverUnderestimates` |
| `metrics_poll` | 3 nodes that fail and come back at any moment, bad texts, a shutdown at any await; `FairSpecPoll` | `SweepTellsAll`, `PlansFollowHealth`, `ShutdownIsComplete` |
| `lmcache_lookup` | 2 domains, 2 requests, 2 adapters, 2 chunks of 2 workers, all faults | `StatusTellsMatches`, `MatchIsBacked`, `PrefixIsLongest`, `LockHasOwner` |
| `lmcache_locks` | 1 query, 1 adapter, deadline | violation of `LookupIsReadOnly` |

Each component has its type invariant `TypeOK`. Where section 6 proves it for
all constants, the run of a module with deeper invariants does not repeat it;
`Gateway`, `KvEvents` and `QueueFeedback` keep it in their runs.

Why the bounds are enough: three requests with groups of two let one group be
planned while another request waits, and let members of one group be cancelled,
answered and failed together; two nodes separate the counters. Five batches
with a buffer of two allow a gap that the buffer still has, one it has forgotten
and a second gap during a replay; the second process makes sequence numbers
repeat. Two extra keys and two copies are the least that make two blocks share
an index entry and an eviction leave a copy. Three requests on two nodes are
the least for a request with a choice, one without, and an order between them.
Four requests in groups of up to three on three nodes make a round go over the
end of a group and a set of eligible nodes change within a round. Windows of two
samples with a switch at two let both windows forget, and let a node rest on its
own samples while the other one rests on the cluster's; one rate is negative,
where the clamp matters. Three nodes are the least for a failure in the middle
of a sweep with a node before and one after it. Two adapters make a timeout at
the first differ from one at the second. The proofs below remove the bounds for
the properties they cover.

Deadlock is checked except for `LMCacheLookup`, where a lookup comes to its end.
`Gateway` ends in `Terminated` after `StopPool`; `BaselinePolicies` and
`QueueFeedback` stutter explicitly when their bound on requests is reached.

**Fairness.** `Gateway!FairSpec`: weak fairness of the worker and of each
handler, because the event loop runs every ready coroutine; the lookup has a
timeout. Strong fairness of `EndBody`, because the chunks of a stream disable
and enable the wait for the next one, while `ClientTimeout(total=3600)`
(`server.py:350`) bounds the body as a whole. `ChunkSent` is in `Handler`: the
client takes each chunk or disconnects. A client that stalls for ever is
assumed away; it would hold its reservation. `CollectGenerator` is in `Handler`
too: the interpreter collects a generator that nobody refers to, and asyncio
then closes it. Nothing is assumed of new requests
or cancellations. `BaselinePolicies!FairSpec`: weak fairness of `Plan`, which
runs without an await once it has its snapshot; nothing is assumed of new
groups. `MetricsPoll!FairSpecPoll`: weak fairness of the poll, whose requests are
bounded by `ClientTimeout(total=2.0)` and whose sleep ends, and of the steps of
a shutdown that has begun; nothing is assumed of the nodes, and no shutdown need
come. `KvEvents` has no liveness property: a degraded catalog never recovers in
this code (`tracker.py:469` and its like only set DEGRADED).

## 5. Disagreements between the code and its documents

Three are runs:

1. `gateway_leak`: `stream_upstream` releases after `await session.close()` in
   its `finally` block (`server.py:390`, `:397`). A cancellation at that await
   leaks the reservation. `docs/architecture.md:24` says that the in-flight
   work covers requests forwarded before the metrics are refreshed.
2. `kv_events_timeout`: `tracker.py:430` catches `TimeoutError`, and
   `asyncio.wait_for` raises it from Python 3.11 on only; `pyproject.toml:10`
   allows 3.10. The first replay, outside of the `try`, then ends the listener
   with a healthy catalog.
3. `lmcache_locks`: a lookup that misses its deadline leaves locks behind
   (`lmcache_server.py:56`); `docs/architecture.md:9` calls the query read-only.

Eight were met while modelling and have no run, since the code says plainly what
it does. They are the reason for a precondition of a property or for its shape:

4. A first message that is not sequence zero degrades the catalog for good
   without a replay request (`tracker.py:470`); `docs/architecture.md:7` says
   that the replay endpoint serves to recover retained events.
5. A restart is not noticed by the stream when the old process had delivered its
   first batch only (`tracker.py:460` needs a last sequence greater than zero),
   or when the first batch of the new one is lost; `docs/architecture.md:7` says
   that a new process clears the catalog. Until the next poll the catalog mixes
   two processes. `FirstBatchStartsAnew` and `FreshAfterPoll` say what does hold.
6. `queue_local_min_samples` is not compared with the history size
   (`performance.py:129`). Above it a node never rests on its own samples,
   although `docs/architecture.md:24` says that it does as soon as it has enough.
7. A metrics text with a malformed number ends the poll by a ValueError
   (`server.py:243` catches other errors), and the await of the shutdown raises
   it again (`server.py:313`): pool, listeners and lookup client are not ended.
   `PlansFollowHealth` and `ShutdownIsComplete` exclude a poll that has failed.
8. The socket connects (`tracker.py:409`, `:442`) and the first replay (`:446`)
   are outside of the `try` of `_listen` (`:451`). On every version of Python an
   error there, other than those that the replay catches, ends the listener with
   a healthy catalog. `EndedLoopIsDegraded` is therefore about a listener that
   has come to its loop.
9. A replay that starts late degrades the catalog when it ends
   (`tracker.py:429`), so that routing trusts a catalog with a hole while its
   frames are read: `StartsLate` in `HealthyIsExact`. When the poll that shows a
   new process clears the catalog in the middle of a replay (`tracker.py:223`),
   the rest of the replay fills a catalog that lacks the first batches and stays
   healthy; `HealthyIsExact` is about the first process only.
10. A client that leaves while a chunk is being sent abandons the generator at
   its yield. When it is collected, GeneratorExit passes both `except` clauses
   (`server.py:381`, `:384`), and the route_result says "completed" for a body
   that was not relayed. `OutcomeIsHonest` says exactly that: completed means
   relayed or collected.
11. An `X-Request-Id` that the body chose (`server.py:527`) and latin-1 cannot
   encode makes `StreamingResponse` raise (`server.py:630`) after the
   reservation and before the generator has started; so may an error of the post
   that `server.py:355` does not list. Nothing releases, although nobody was
   cancelled. The step is `OpenRaises`; with `CancelPoints = {}` and
   `UncaughtErrors = TRUE` in `MCGatewayLeak.cfg` it violates `IdleMeansNoLoad`
   as the cancellation of item 1 does. `EveryReservationReleased` names these
   handlers as lost.

## 6. Proofs

All theorems hold for every value of the constants that satisfies the module's
ASSUME; the comments in the modules say where the code justifies these.

* `ReservationLedgerProofs`: `LedgerBalanced`, from `TypeOK /\ Balanced`, which
  is inductive for finite sets of requests: the counters of a node are the
  number and the work of the reservations held on it. The release needs the
  second conjunct of `Balanced`: a request holds nothing before it is served.
  The module holds the laws of sums over finite sets (`SumAdd`, `SumRemove`,
  `SumUnion`, `SumLinear`), which the modules below instantiate. A sum is a fold,
  and no induction theorem can be applied to it; the laws are proved by descent:
  of the sets that break one there would be a smallest, by the least element of
  a set of numbers.
* `GatewayProofs`: `TypeCorrect`, `ReservationsStayBalanced`,
  `WorkStaysBalanced`, `GatewayImplementsLedger`, `PendingRequestsAreOwned`,
  `PlansAreAtomic` and `OutcomesAreHonest`. The inductive invariant `GatewayInv` is type correctness,
  `FutureInv` (a handler's phase and its future agree, and a request has a
  target exactly when its future has a result), `QueueInv` (queue and group have
  no request twice, and none that has a result) and the ledger's own `Balanced`
  seen through the refinement mapping. `QueueInv` is what makes a plan reserve
  for unserved requests only; `Balanced` is what makes the clamps of
  `release_route` and its reset of the work at zero harmless. Each step of the gateway is then a `Reserve`, a
  `Release` or a stutter of the ledger (`RefineStep`), and `Balanced` is
  inherited from the ledger's step lemma, not proved a second time. `OwnedInv`
  adds that a pending request is in the queue or in the group, and that a
  stopped pool has none; the lemma `Moved` carries it over `CloseGroup`, where
  requests change from one sequence to the other. `OutcomesAreHonest` rests on
  `Honest`, which says of each phase which outcomes it may have: "completed" is
  set before the body is read, and each way out of the body but two replaces it.
* `TrackerProofs`, for `KvEvents`: `EventsTypeCorrect`, `TrustedIsExact` and
  `EndedIsDegraded`, for either version of Python. The invariant
  `Exact` says that a healthy catalog is `UpTo(1, last)` at every await of the
  listener as long as the first process runs or was the last to run;
  `InFlight`, `Asked` and `Frames` say that what is in the socket and in the
  replay is of this process and increasing, that a gap was asked for from the
  batch after `last` on, and that the frames still to come are contiguous from
  there, or start late, in which case `first` will degrade the catalog.
  `PollShowsTheProcess`, `RestartsStartAnew` and `BatchesInOrder` hold over any
  number of processes, from a second invariant: what is on its way is of the
  process that runs (`Live`), a catalog without a sequence number is empty and
  has no first batch on top of an earlier process (`Layered`), and it is of one
  process from the poll on that shows it (`Polled`). All properties of the run
  are thereby proved. For `MetricsPoll`: `PollTypeCorrect` and
  `SweepIsComplete`, from `SweepSoFar`, which is `SweepTellsAll` for the nodes
  the sweep has passed.
* `GpuCatalogProofs`: `CatalogTypeCorrect`, `CatalogIsSound`,
  `CatalogTracksGpu`, `PrefixIsOnTheNode` and `LookupIsExact`. The invariant is that every entry of both dictionaries is
  at the place its hash stands for (`BlocksPlaced`, `IndexPlaced`). It needs
  what vLLM guarantees, that the hash of a block determines its predecessor and
  tokens. `Chain` follows the lookup block by block: what it has found is a path
  of blocks of one extra key, each on the GPU, which is why it credits no prompt
  with more than the node holds. `Complete` is the converse, that each block on
  the GPU is in the catalog and indexed; it is invariant while the catalog is
  healthy and `plain`, and makes the lookup find all of the prefix. There is at
  least one extra key, since a request without any has the empty one.
* `JointPolicyProofs`: `NoRequestIsLeftOut` and `JointImplementsAssignment`,
  from an invariant that says who is pending and who has an eligible node; the
  heart is that the admission by capacity never empties the options of a request
  (`OptionExists`). `JointTypeCorrect` and `ScarceNodesAreKept` add that costs
  are numbers, that free blocks only shrink within a plan (`BlocksShrink`), and
  that a node which is the only fit of a pending request has been given to
  requests without a choice only (`Reserved`): a request that fits on a single
  node of the snapshot has a single option at every turn while it fits, and
  comes before all those with more (`SingleFirst`).
  `JointImplementsLedger` shows that each turn of the loop is a `Reserve` of the
  ledger, so that `VirtualLoadIsTheLedger` is inherited from `LedgerBalanced`:
  what the policy reckons with is what the tracker will show. For
  `OverflowIsUnavoidable`, `BlocksAccounted` ties the free blocks to those of the
  snapshot less those of the requests assigned, with the clamp at zero. A request
  that needs no block (a cached prompt and `max_tokens` zero) fits even on an
  overdrawn node, so the property is about requests with blocks.
* `BaselinePoliciesProofs`: `BaselinesTypeCorrect`, `RoundRobinRotates`,
  `PrefixHashKeepsAffinity`, `LeastLoadLevels` and
  `BaselinesImplementAssignment` (the safety part of the refinement). `Rotation`
  and `Hashing` say which position each request was given, over all groups;
  `PositionExists` shows that a set of nodes has one at every position, so that
  `Nth` is a member (`NthIsMember`) and differs within a round
  (`DistinctInRound`). `Counted` ties the virtual counts to the assignments of
  the group, and `Levelled` keeps a node with a request of the group at most one
  above the others.
* `QueueFeedbackProofs`, in three parts.
  - The estimator: `EstimatorTypeCorrect` and `PredictionsAreOptimal`, from
    `EstimatorInv`: each window shows the last entries of a history, the one of a
    node of its own entries only. `LeastSquares` is the algebra: no other slope
    has a smaller squared error. It is asked that `local_min_samples` does not
    exceed the history size; otherwise a node never rests on its own samples
    (TLC refutes the property with a history of one and a minimum of two; see
    5.6).
  - The detector: `DetectorAgrees`. The lines of a stream are the lines of a part
    of it and those that begin with what was left of that part (`SplitConcat`),
    and the loop may be broken off after any line if it goes on with its data
    (`ReadConcat`); so after each chunk the detector stands where it would had
    all chunks come as one (`Agrees`). `ReadFinds` shows that the loop over the
    lines finds the first event by the definition of an event stream.
  - Both together: `OutputsAreHeard`, `PredictionsErrToOneSide` and
    `TheRateIsLearned`. `FeedbackInv` says that the work in flight is that of the
    open requests, and that a request saw no more work on its node than is ahead
    of it; so each sample is at or above the rate of the engine (`NotBelow`), and
    exactly at it while no member of a group waits for another (`Truthful`). A
    least-squares slope lies between the slopes of its samples (`SlopeBetween`).
* `LMCacheLookupProofs`: `LookupTypeCorrect`, `StatusIsTold`,
  `MatchRestsOnAnswers`, `ReportedPrefixIsLongest` and `LocksAreOwned`. The
  invariant of the endpoint says that adapters are asked in order (`Unasked`),
  that a lock belongs to the query that polls or has failed (`TaskOwned`) and
  that what was reported is the prefix of what was found (`Reported`); the one
  of the client says that an answer is complete (`AnswerComplete`) and that a
  domain takes over all matches in one step with its status (`MatchesAtOnce`,
  `StatusTold`).

Recursive functions of the code's loops are reasoned about without an induction
theorem: a function that satisfies the equations exists by the least argument at
which none would (`Recursion`, `KeptExists`, `ReachesExists`), and a set of
numbers or sequences that is closed under the step holds all of them (`Induct`,
`SeqInduct`).

Model-checked only: liveness (`EveryRequestAnswered`,
`EveryReservationReleased`, `PlansFollowHealth`, `ShutdownIsComplete`, the
fairness in `ImplementsAssignment` of the baselines), which is out of the
prover's reach. Every other property of a passing run is a theorem.

## 7. Plan

Done: the core (`ReservationLedger`, `Gateway`), the catalog (`KvEvents`,
`GpuCatalog`), planning (`GroupAssignment`, `CostModel`, `JointPolicy`,
`BaselinePolicies`), `LMCacheLookup`, the feedback (`QueueEstimator`,
`SseDetector`, `QueueFeedback`) and `MetricsPoll`, each with the proofs of
section 6.

What could come next:

1. Several cache groups in `GpuCatalog`, whose last event sets the
   `gpu_block_size` that the capacity of the joint policies counts with, and
   batches of `KvEvents` that carry its events.
2. Consecutive lookups in `LMCacheLookup`, with leaked locks in between, and the
   matches of an answer by medium.
3. `Lifecycle`: `start.sh` and `stop.sh` with stale and reused pids.

### Not modelled

The tokenizer and its endpoints and the parsing of the configuration are
stateless; the health and state endpoints only read what other modules keep; the
measurement scripts are arithmetic on files and never run together with the
router. The start and stop scripts are process management outside of the event
loop, and wait for item 3. Log records and statistics have no effect on the
state.

## 8. Running

    tlc -workers 2 -config MCGatewaySafety.cfg MCGateway
    tlapm GatewayProofs.tla

Each cfg begins with the instance it describes. A run with the expectation
"violation" in `PROJECT.json` ends with the counterexample of section 5.
