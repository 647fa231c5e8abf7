------------------------------- MODULE Gateway -------------------------------
(***************************************************************************)
(* The life of a completion request inside the router process: the handler *)
(* coroutine of server.py, the worker coroutine of request_pool.py, the    *)
(* planning step of routing.py and the reservation counters of tracker.py. *)
(*                                                                         *)
(* Everything runs on one asyncio loop, so a step here is the code between *)
(* two awaits.  A handler may be cancelled at an await; a cancellation     *)
(* arrives at the await the task is suspended on.                          *)
(***************************************************************************)
EXTENDS Integers, Sequences, FiniteSets, FiniteSetsExt

CONSTANTS
    Requests,       \* the scheduler requests of a run
    Nodes,          \* the configured vLLM nodes
    Works,          \* the values CostModel.candidate_work may return
    GroupLimit,     \* max_planning_group_size
    CancelPoints,   \* the awaits of a handler at which it may be cancelled
    UncaughtErrors, \* whether opening the upstream may raise an uncaught error
    None

\* The awaits of a handler: the phases in which it is suspended.  "waking" is
\* the await of a future that is set, before the handler has run again.
AwaitPoints ==
    {"waiting", "waking", "opening", "refusing", "starting", "streaming",
     "yielded", "reading", "closing"}

\* load_config refuses a configuration without nodes; RequestPool takes
\* max(1, max_planning_group_size); reserve_route adds max(0.0, work).
ASSUME GatewayAssumption ==
    /\ IsFiniteSet(Requests)
    /\ Nodes # {} /\ None \notin Nodes
    /\ Works # {} /\ Works \subseteq Nat
    /\ GroupLimit \in Nat \ {0}
    /\ CancelPoints \subseteq AwaitPoints
    /\ UncaughtErrors \in BOOLEAN

VARIABLES
    phase,    \* where each handler is suspended, or how it ended
    future,   \* the future of each _PendingRequest
    queue,    \* RequestPool.queue
    worker,   \* where RequestPool._run is suspended
    group,    \* the requests the worker has taken from the queue
    target,   \* AssignmentResult.node of each handler
    share,    \* AssignmentResult.inflight_work of each handler
    ledger,   \* router_active_requests and router_inflight_work of each node
    output,   \* requests with RequestObservation.first_output_at set
    samples,  \* requests passed to policy.observe_first_output
    outcome,  \* the outcome stream_upstream or read_upstream will log
    relayed,  \* history: requests whose upstream body was read to its end
    collected \* history: requests whose generator was closed at its yield

poolVars == <<queue, worker, group>>
routeVars == <<target, share>>
bodyVars == <<relayed, collected>>
resultVars == <<output, samples, outcome, bodyVars>>
vars == <<phase, future, poolVars, routeVars, ledger, resultVars>>

Phases == {"idle", "abandoned", "done", "lost"} \cup (AwaitPoints \ {"waking"})
Futures == {"none", "pending", "result", "exception", "cancelled"}
Outcomes == {"none", "completed", "cancelled", "error"}

Members == {group[i] : i \in DOMAIN group}

\* A handler holds a reservation from planning until release_route; a "lost"
\* handler ended without calling it, and its reservation is still counted.
Holding(r) == target[r] # None /\ phase[r] # "done"

Move(r, from, to) ==
    /\ phase[r] = from
    /\ phase' = [phase EXCEPT ![r] = to]

Min2(a, b) == IF a < b THEN a ELSE b
Monus(a, b) == IF a > b THEN a - b ELSE 0
SumOf(w, S) == MapThenSumSet(LAMBDA r : w[r], S)

-----------------------------------------------------------------------------
(* The reservation counters of tracker.py.                                 *)

\* Mutant: the two counters' directions swapped.
reserve_route_Swapped(l, on, w, S) ==
    [n \in Nodes |->
        LET mine == {r \in S : on[r] = n}
        IN  [active |-> l[n].active - Cardinality(mine),
             work   |-> l[n].work + SumOf(w, mine)]]

\* reserve_route called for every member of S, r going to node on[r].
reserve_route(l, on, w, S) ==
    [n \in Nodes |->
        LET mine == {r \in S : on[r] = n}
        IN  [active |-> l[n].active + Cardinality(mine),
             work   |-> l[n].work + SumOf(w, mine)]]

\* Mutant: the work is reset although other requests are active.
release_route_ResetsWork(l, on, w, S) ==
    [n \in Nodes |->
        LET mine == {r \in S : on[r] = n}
        IN  IF mine = {} THEN l[n]
            ELSE [active |-> Monus(l[n].active, Cardinality(mine)), work |-> 0]]

\* release_route called for every member of S.
release_route(l, on, w, S) ==
    [n \in Nodes |->
        LET mine == {r \in S : on[r] = n}
            left == Monus(l[n].active, Cardinality(mine))
        IN  IF mine = {} THEN l[n]
            ELSE [active |-> left,
                  work   |-> IF left = 0 THEN 0
                             ELSE Monus(l[n].work, SumOf(w, mine))]]

-----------------------------------------------------------------------------
Init ==
    /\ phase = [r \in Requests |-> "idle"]
    /\ future = [r \in Requests |-> "none"]
    /\ queue = <<>> /\ worker = "idle" /\ group = <<>>
    /\ target = [r \in Requests |-> None]
    /\ share = [r \in Requests |-> 0]
    /\ ledger = [n \in Nodes |-> [active |-> 0, work |-> 0]]
    /\ output = {} /\ samples = {} /\ relayed = {} /\ collected = {}
    /\ outcome = [r \in Requests |-> "none"]

-----------------------------------------------------------------------------
(* RequestPool.                                                            *)

\* The handler parsed and tokenized its body and calls assign(): it queues a
\* pending request and awaits the future.  The server takes no request once
\* the lifespan has stopped the pool.
Submit(r) ==
    /\ worker # "stopped"
    /\ Move(r, "idle", "waiting")
    /\ future' = [future EXCEPT ![r] = "pending"]
    /\ queue' = Append(queue, r)
    /\ UNCHANGED <<worker, group, routeVars, ledger, resultVars>>

\* A body that is not a JSON object or cannot be tokenized: status 400.
Reject(r) ==
    /\ worker # "stopped"
    /\ Move(r, "idle", "done")
    /\ UNCHANGED <<future, poolVars, routeVars, ledger, resultVars>>

\* The worker takes the first request and yields once to the event loop.
TakeFirst ==
    /\ worker = "idle" /\ queue # <<>>
    /\ worker' = "yielding"
    /\ group' = <<Head(queue)>>
    /\ queue' = Tail(queue)
    /\ UNCHANGED <<phase, future, routeVars, ledger, resultVars>>

\* Mutant: one request is taken from the queue and forgotten.
CloseGroup_DropsOne ==
    /\ worker = "yielding"
    /\ LET more == Min2(GroupLimit, Len(queue))
       IN  /\ queue' = SubSeq(queue, more + 1, Len(queue))
           /\ group' = group \o SubSeq(queue, 1, Min2(GroupLimit - 1, more))
    /\ worker' = "planning"
    /\ UNCHANGED <<phase, future, routeVars, ledger, resultVars>>

\* After the yield the worker adds the requests that are ready by now, up to
\* the limit, and calls plan(), which first awaits the LMCache lookup.  (When
\* no lookup is configured FinishPlan follows at once: fewer interleavings.)
CloseGroup ==
    /\ worker = "yielding"
    /\ LET more == Min2(GroupLimit - 1, Len(queue))
       IN  /\ queue' = SubSeq(queue, more + 1, Len(queue))
           /\ group' = group \o SubSeq(queue, 1, more)
    /\ worker' = "planning"
    /\ UNCHANGED <<phase, future, routeVars, ledger, resultVars>>

Dropped == {r \in Members : future[r] = "cancelled"}
Taken == Members \ Dropped

\* Mutant: the reservation of a cancelled member is not given back.
Settle_KeepsDropped(pick, w) ==
    /\ ledger' = reserve_route(ledger, pick, w, Members)
    /\ target' = [r \in Requests |-> IF r \in Taken THEN pick[r] ELSE target[r]]
    /\ share' = [r \in Requests |-> IF r \in Taken THEN w[r] ELSE share[r]]
    /\ future' = [r \in Requests |-> IF r \in Taken THEN "result" ELSE future[r]]

\* Mutant: the loop over the group ends at the first cancelled member.
Settle_StopsAtCancelled(pick, w) ==
    LET seen == {group[i] : i \in {k \in DOMAIN group :
                                     \A j \in 1..k : group[j] \notin Dropped}}
    IN  /\ ledger' = release_route(reserve_route(ledger, pick, w, Members),
                                   pick, w, Dropped)
        /\ target' = [r \in Requests |-> IF r \in seen THEN pick[r] ELSE target[r]]
        /\ share' = [r \in Requests |-> IF r \in seen THEN w[r] ELSE share[r]]
        /\ future' = [r \in Requests |-> IF r \in seen THEN "result" ELSE future[r]]

\* plan() from the snapshot of the node states to the end of the worker's
\* loop body, without an await: the policy has picked a node for every member,
\* the tracker reserves for all of them, and then each future is set, or its
\* reservation is given back if the waiting handler has been cancelled.
Settle(pick, w) ==
    /\ ledger' = release_route(reserve_route(ledger, pick, w, Members),
                               pick, w, Dropped)
    /\ target' = [r \in Requests |-> IF r \in Taken THEN pick[r] ELSE target[r]]
    /\ share' = [r \in Requests |-> IF r \in Taken THEN w[r] ELSE share[r]]
    /\ future' = [r \in Requests |-> IF r \in Taken THEN "result" ELSE future[r]]

\* The lookup returned and the rest of plan() succeeds.
FinishPlan ==
    /\ worker = "planning"
    /\ \E pick \in [Members -> Nodes], w \in [Members -> Works] : Settle(pick, w)
    /\ worker' = "idle" /\ group' = <<>>
    /\ UNCHANGED <<phase, queue, resultVars>>

\* Mutant: the error is logged and the futures are left pending.
FailPlan_LeavesPending ==
    /\ worker = "planning"
    /\ worker' = "idle" /\ group' = <<>>
    /\ UNCHANGED <<phase, future, queue, routeVars, ledger, resultVars>>

\* The lookup raised an error it does not guard against: no reservation has
\* been made, and every future that is not done takes the exception.
FailPlan ==
    /\ worker = "planning"
    /\ future' = [r \in Requests |->
                    IF r \in Members /\ future[r] = "pending"
                    THEN "exception" ELSE future[r]]
    /\ worker' = "idle" /\ group' = <<>>
    /\ UNCHANGED <<phase, queue, routeVars, ledger, resultVars>>

\* The lifespan cancels the worker.  uvicorn has waited for every handler, but
\* requests of cancelled handlers may still be queued or in the group.
Gone == {"idle", "abandoned", "done", "lost"}

StopPool ==
    /\ worker # "stopped"
    /\ \A r \in Requests : phase[r] \in Gone
    /\ worker' = "stopped" /\ group' = <<>>
    /\ UNCHANGED <<phase, future, queue, routeVars, ledger, resultVars>>

-----------------------------------------------------------------------------
(* handle_completion after assign().                                       *)

\* assign() returns and the handler posts the request to its node.
Wake(r) ==
    /\ future[r] = "result"
    /\ Move(r, "waiting", "opening")
    /\ UNCHANGED <<future, poolVars, routeVars, ledger, resultVars>>

\* assign() raises: status 503 for a RuntimeError, 500 for any other.
WakeFailed(r) ==
    /\ future[r] = "exception"
    /\ Move(r, "waiting", "done")
    /\ UNCHANGED <<future, poolVars, routeVars, ledger, resultVars>>

\* The response headers arrived; body["stream"] says what follows: a
\* StreamingResponse whose generator has not started, or read_upstream.
Open(r) ==
    /\ \/ /\ Move(r, "opening", "starting")
          /\ UNCHANGED outcome
       \/ /\ Move(r, "opening", "reading")
          /\ outcome' = [outcome EXCEPT ![r] = "completed"]
    /\ UNCHANGED <<future, poolVars, routeVars, ledger, output, samples, bodyVars>>

\* The post raises an error of another class than those that open_upstream
\* catches, or StreamingResponse raises for a header that is not latin-1, as
\* a request id taken from the body may be: neither is an HTTPException, and
\* the generator has not started, so that nothing releases.
OpenRaises(r) ==
    /\ UncaughtErrors
    /\ Move(r, "opening", "lost")
    /\ UNCHANGED <<future, poolVars, routeVars, ledger, resultVars>>

\* Mutant: open_upstream releases too, before the caller does.
OpenFails_Releases(r) ==
    /\ Move(r, "opening", "refusing")
    /\ ledger' = release_route(ledger, target, share, {r})
    /\ UNCHANGED <<future, poolVars, routeVars, resultVars>>

\* A client error or a timeout of the post: the session is closed ...
OpenFails(r) ==
    /\ Move(r, "opening", "refusing")
    /\ UNCHANGED <<future, poolVars, routeVars, ledger, resultVars>>

\* ... and the HTTPException releases the reservation: status 502.
Refuse(r) ==
    /\ Move(r, "refusing", "done")
    /\ ledger' = release_route(ledger, target, share, {r})
    /\ UNCHANGED <<future, poolVars, routeVars, resultVars>>

\* The response start is sent and the generator runs up to its first await.
StartStream(r) ==
    /\ Move(r, "starting", "streaming")
    /\ outcome' = [outcome EXCEPT ![r] = "completed"]
    /\ UNCHANGED <<future, poolVars, routeVars, ledger, output, samples, bodyVars>>

\* A chunk arrives, perhaps completing the first output, and is yielded; the
\* generator is suspended at its yield until the chunk has been sent.
YieldChunk(r) ==
    /\ Move(r, "streaming", "yielded")
    /\ output' \in {output, output \cup {r}}
    /\ UNCHANGED <<future, poolVars, routeVars, ledger, samples, outcome, bodyVars>>

ChunkSent(r) ==
    /\ Move(r, "yielded", "streaming")
    /\ UNCHANGED <<future, poolVars, routeVars, ledger, resultVars>>

\* Mutant: a request whose body breaks is sent again, without a limit.
EndBody_Retries(r) ==
    /\ \/ /\ Move(r, "streaming", "closing") \/ Move(r, "reading", "closing")
          /\ relayed' = relayed \cup {r}
       \/ /\ Move(r, "streaming", "opening") \/ Move(r, "reading", "opening")
          /\ UNCHANGED relayed
    /\ UNCHANGED <<future, poolVars, routeVars, ledger, output, samples, outcome, collected>>

\* The upstream body ends or breaks, and the finally block awaits the close of
\* the session.
EndBody(r) ==
    /\ Move(r, "streaming", "closing") \/ Move(r, "reading", "closing")
    /\ \/ /\ relayed' = relayed \cup {r}
          /\ UNCHANGED outcome
       \/ /\ outcome' = [outcome EXCEPT ![r] = "error"]
          /\ UNCHANGED relayed
    /\ UNCHANGED <<future, poolVars, routeVars, ledger, output, samples, collected>>

\* The garbage collector closes an abandoned generator: GeneratorExit at the
\* yield, which neither except clause catches.
CollectGenerator(r) ==
    /\ Move(r, "abandoned", "closing")
    /\ collected' = collected \cup {r}
    /\ UNCHANGED <<future, poolVars, routeVars, ledger, output, samples, outcome, relayed>>

\* The rest of the finally block: feed the policy, release, log.
Finalize(r) ==
    /\ Move(r, "closing", "done")
    /\ samples' = samples \cup ({r} \cap output)
    /\ ledger' = release_route(ledger, target, share, {r})
    /\ UNCHANGED <<future, poolVars, routeVars, output, outcome, bodyVars>>

-----------------------------------------------------------------------------
(* Cancellation of a handler at an await.                                  *)

\* assign() awaits a pending future: cancelling the task cancels the future.
CancelWaiting(r) ==
    /\ "waiting" \in CancelPoints
    /\ future[r] = "pending"
    /\ Move(r, "waiting", "done")
    /\ future' = [future EXCEPT ![r] = "cancelled"]
    /\ UNCHANGED <<poolVars, routeVars, ledger, resultVars>>

\* The future is already set: it stays set, and CancelledError is raised in
\* assign() when the handler runs, so that a result is dropped.
CancelWaking(r) ==
    /\ "waking" \in CancelPoints
    /\ \/ future[r] = "result" /\ Move(r, "waiting", "lost")
       \/ future[r] = "exception" /\ Move(r, "waiting", "done")
    /\ UNCHANGED <<future, poolVars, routeVars, ledger, resultVars>>

\* open_upstream, its session close and the send of the response start are
\* awaits outside of any handler that releases: only HTTPException does, and
\* the generator of a response that was not started never runs.
CancelUncovered(r) ==
    /\ \E p \in {"opening", "refusing", "starting", "closing"} \cap CancelPoints :
          Move(r, p, "lost")
    /\ UNCHANGED <<future, poolVars, routeVars, ledger, resultVars>>

\* Mutant: CancelledError is not told from the end of the body.
CancelReading_Completed(r) ==
    /\ \E p \in {"streaming", "reading"} \cap CancelPoints : Move(r, p, "closing")
    /\ UNCHANGED <<future, poolVars, routeVars, ledger, resultVars>>

\* The body is being read: the finally block runs.
CancelReading(r) ==
    /\ \E p \in {"streaming", "reading"} \cap CancelPoints : Move(r, p, "closing")
    /\ outcome' = [outcome EXCEPT ![r] = "cancelled"]
    /\ UNCHANGED <<future, poolVars, routeVars, ledger, output, samples, bodyVars>>

\* A chunk is being sent: the cancellation unwinds the sender, and the
\* generator stays suspended at its yield.
CancelSending(r) ==
    /\ "yielded" \in CancelPoints
    /\ Move(r, "yielded", "abandoned")
    /\ UNCHANGED <<future, poolVars, routeVars, ledger, resultVars>>

-----------------------------------------------------------------------------
\* The router has shut down.
Terminated ==
    /\ worker = "stopped"
    /\ UNCHANGED vars

Pool == TakeFirst \/ CloseGroup \/ FinishPlan \/ FailPlan

Handler(r) ==
    \/ Wake(r) \/ WakeFailed(r) \/ Open(r) \/ OpenRaises(r) \/ OpenFails(r)
    \/ Refuse(r) \/ StartStream(r) \/ YieldChunk(r) \/ ChunkSent(r)
    \/ EndBody(r) \/ CollectGenerator(r) \/ Finalize(r)

Cancel(r) ==
    \/ CancelWaiting(r) \/ CancelWaking(r) \/ CancelUncovered(r)
    \/ CancelReading(r) \/ CancelSending(r)

Next ==
    \/ Pool
    \/ StopPool
    \/ \E r \in Requests : Submit(r) \/ Reject(r) \/ Handler(r) \/ Cancel(r)
    \/ Terminated

Spec == Init /\ [][Next]_vars

\* The event loop runs every ready coroutine.  ClientTimeout bounds the post
\* and the whole of the body (SF: the wait for the body is interrupted by the
\* chunks); the client takes each chunk or disconnects.  The interpreter
\* collects a generator that nobody refers to, and asyncio then closes it.
Fairness ==
    /\ WF_vars(Pool)
    /\ \A r \in Requests :
          /\ WF_vars(Handler(r))
          /\ SF_vars(EndBody(r))

FairSpec == Spec /\ Fairness

-----------------------------------------------------------------------------
(* Properties.                                                             *)

TypeOK ==
    /\ phase \in [Requests -> Phases]
    /\ future \in [Requests -> Futures]
    /\ queue \in Seq(Requests) /\ group \in Seq(Requests)
    /\ worker \in {"idle", "yielding", "planning", "stopped"}
    /\ target \in [Requests -> Nodes \cup {None}]
    /\ share \in [Requests -> Nat]
    /\ ledger \in [Nodes -> [active : Nat, work : Nat]]
    /\ output \subseteq Requests /\ samples \subseteq Requests
    /\ outcome \in [Requests -> Outcomes]
    /\ relayed \subseteq Requests /\ collected \subseteq Requests

HoldersOf(n) == {r \in Requests : Holding(r) /\ target[r] = n}

\* router_active_requests of a node is the number of handlers that obtained a
\* reservation on it and have not released it: no path reserves twice,
\* releases twice, or releases what was given back for a cancelled future.
ReservationsBalanced ==
    \A n \in Nodes : ledger[n].active = Cardinality(HoldersOf(n))

\* router_inflight_work of a node is the work of its holders: the reset to
\* zero and the clamps of release_route never lose the work of a live one.
WorkBalanced ==
    \A n \in Nodes : ledger[n].work = SumOf(share, HoldersOf(n))

\* A handler that awaits an unset future is owned by a running worker: its
\* request is in the queue or in the group, and only once.
PendingIsOwned ==
    \A r \in Requests : future[r] = "pending" =>
        /\ worker # "stopped"
        /\ Cardinality({i \in DOMAIN (group \o queue) :
                           (group \o queue)[i] = r}) = 1

\* When no handler is left in the router, every node shows zero active
\* requests and zero inflight work: a later plan sees no ghost load.
IdleMeansNoLoad ==
    (\A r \in Requests : phase[r] \in Gone \ {"abandoned"}) =>
        \A n \in Nodes : ledger[n] = [active |-> 0, work |-> 0]

\* A route_result is logged as completed exactly if the whole upstream body
\* was relayed, or if its generator was collected at a yield, where neither
\* except clause takes GeneratorExit for a cancellation; wherever handlers are
\* cancelled, bodies break and posts fail.
OutcomeIsHonest ==
    \A r \in Requests :
        phase[r] = "done" /\ outcome[r] # "none" =>
            (outcome[r] = "completed" <=> r \in relayed \cup collected)

\* plan() is all or nothing for its group: the step that ends it answers every
\* member that has not been cancelled, all of them with a result or all of
\* them with the exception, whatever was cancelled meanwhile.
PlanIsAtomic ==
    [][worker = "planning" /\ worker' = "idle" =>
          \E answer \in {"result", "exception"} :
              \A r \in Members : future'[r] \in {answer, "cancelled"}]_vars

\* Every queued request is answered, by a result, an exception or its own
\* cancellation: no group, failed plan or cancelled neighbour strands it.
EveryRequestAnswered ==
    \A r \in Requests : future[r] = "pending" ~> future[r] # "pending"

\* Every reservation is given back unless its handler is lost, that is, left
\* by an exit without a release: however bodies break, handlers are cancelled
\* and generators are abandoned, none is kept by a handler that goes on.
EveryReservationReleased ==
    \A r \in Requests : Holding(r) ~> ~Holding(r) \/ phase[r] = "lost"

\* The state of ReservationLedger seen through a state of the gateway.
held == [r \in Requests |-> IF Holding(r) THEN target[r] ELSE None]
served == {r \in Requests : target[r] # None}

Ledger == INSTANCE ReservationLedger WITH
    held <- held, served <- served, share <- share, load <- ledger

\* The reservations behave as ReservationLedger promises: groups reserve at
\* once, each request at most once in its life, and a release gives back
\* exactly one reservation that is held, with the work it was made for.
ImplementsLedger == Ledger!Spec
=============================================================================
