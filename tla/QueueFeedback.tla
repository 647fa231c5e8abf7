---------------------------- MODULE QueueFeedback ----------------------------
(***************************************************************************)
(* How the queue estimator is fed: a plan reserves work on nodes, the      *)
(* engine makes a request wait for the work ahead of it, and the end of a  *)
(* stream turns the measured wait into a sample.  The sample is taken at   *)
(* the work in flight of the snapshot the request was planned with, while  *)
(* predictions are made for the work in flight that includes the members   *)
(* of the same group.  When the first output came, and whether any came,   *)
(* is what the detector has made of the chunks of the stream.              *)
(***************************************************************************)
EXTENDS QueueEstimator, SseDetector

CONSTANTS
    GroupLimit,   \* max_planning_group_size
    Shares,       \* bound: works of a request
    Rate,         \* the engine's delay for each unit of work ahead, by node,
                  \* beyond the predicted prices; negative if these are high
    MaxRequests,  \* bound: requests of a behaviour
    None

ASSUME FeedbackAssumption ==
    /\ GroupLimit \in Nat \ {0} /\ MaxRequests \in Nat
    /\ Shares \subseteq Nat
    /\ Rate \in [Nodes -> Int]
    /\ None \notin Int

Requests == 1 .. MaxRequests

VARIABLES
    inflight,   \* router_inflight_work of each node
    route,      \* node, work, and work ahead of each planned request
    next,       \* the first request that has not been planned
    ended,      \* the requests whose stream has ended
    heard,      \* those of them whose end called observe_first_output
    output      \* history: those of them whose body had an event with output

vars == <<estimator, inflight, route, next, ended, heard, output>>

InitFeedback ==
    /\ EmptyWindows
    /\ inflight = [n \in Nodes |-> 0]
    /\ route = [r \in Requests |-> None]
    /\ next = 1 /\ ended = {} /\ heard = {} /\ output = {}

SumOf(f, S) == MapThenSumSet(LAMBDA r : f[r], S)

-----------------------------------------------------------------------------
\* plan(): a snapshot for the group, any choice of the policy, and a
\* reservation for each member.  The engine serves the members of a group in
\* their order: one waits for those before it, which the snapshot leaves out.
PlanGroup ==
    \E last \in next .. next + GroupLimit - 1 :
        /\ last \in Requests
        /\ \E pick \in [next..last -> Nodes], share \in [next..last -> Shares] :
              /\ route' = [r \in Requests |->
                    IF r \notin next..last THEN route[r]
                    ELSE [node  |-> pick[r],
                          share |-> share[r],
                          seen  |-> inflight[pick[r]],
                          ahead |-> inflight[pick[r]]
                                    + SumOf(share, {q \in next .. r - 1 : pick[q] = pick[r]})]]
              /\ inflight' = [n \in Nodes |->
                    inflight[n] + SumOf(share, {q \in next..last : pick[q] = n})]
        /\ next' = last + 1
        /\ UNCHANGED <<estimator, ended, heard, output>>

\* What a body can be to stream_upstream: it has an event with output or not,
\* and the detector tells so, as many chunks after the event, or never.
Reading(chunks) ==
    [output |-> Due(chunks) # 0,
     late   |-> IF Heard(chunks) = 0 THEN None ELSE Heard(chunks) - Due(chunks)]

Readings == UNION {{Reading(chunks) : chunks \in Chunkings(stream)} : stream \in Streams}

\* The wait of the first output, by an ideal engine, and the time that the
\* detector takes to tell: one unit for each chunk.
Wait(r, late) == Rate[route[r].node] * route[r].ahead + late

\* Mutant: the work of the request itself is counted as ahead of it.
observe_first_output_WithShare(r, late) ==
    Observe(route[r].node, route[r].seen + route[r].share, Wait(r, late))

\* Mutant: the price of the path is not taken off.
observe_first_output_WholeTime(r, late) ==
    Observe(route[r].node, route[r].seen, Wait(r, late) + route[r].share)

\* The wait is what the first output took beyond the price of the path.
observe_first_output(r, late) == Observe(route[r].node, route[r].seen, Wait(r, late))

\* The stream of a request ends or breaks off: a sample, if the detector has
\* told of an output, then the release of its work.
EndStream(r) ==
    /\ r < next /\ r \notin ended
    /\ \E reading \in Readings :
          /\ \/ reading.late = None /\ UNCHANGED <<estimator, heard>>
             \/ /\ reading.late # None
                /\ observe_first_output(r, reading.late)
                /\ heard' = heard \cup {r}
          /\ output' = IF reading.output THEN output \cup {r} ELSE output
    /\ inflight' = [inflight EXCEPT ![route[r].node] = @ - route[r].share]
    /\ ended' = ended \cup {r}
    /\ UNCHANGED <<route, next>>

\* The bound is reached.
AllEnded == ended = Requests /\ UNCHANGED vars

NextFeedback == PlanGroup \/ (\E r \in Requests : EndStream(r)) \/ AllEnded

SpecFeedback == InitFeedback /\ [][NextFeedback]_vars

-----------------------------------------------------------------------------
(* Properties.                                                             *)

\* A request without others of its group before it on its node.
Alone(r) == route[r].ahead = route[r].seen

\* As long as no member of a group waits for another, the estimator learns the
\* truth in spite of ends in any order and streams cut anywhere: the rate of a
\* node that has samples of its own, and for the others a value between those
\* of the slowest and the fastest node.
LearnsTheRate ==
    (\A r \in 1 .. next - 1 : Alone(r)) =>
        \A n \in Nodes : Estimate(n) # <<>> =>
            LET p == Predicted(n)
                rate(m) == Max2(0, Rate[m]) * p.den
            IN  IF Len(local[n]) >= LocalMin
                THEN p.num = rate(n)
                ELSE /\ \E m \in Nodes : rate(m) <= p.num
                     /\ \E m \in Nodes : rate(m) >= p.num

\* With larger groups the samples leave out the members of the group: the
\* prediction for a node with samples of its own errs to one side only.
NeverUnderestimates ==
    \A n \in Nodes : local[n] # <<>> /\ Len(local[n]) >= LocalMin =>
        Predicted(n).num >= Rate[n] * Predicted(n).den

\* A wait is measured for exactly the streams with an event that carries
\* output, by the definition of an event stream: no cut of the body hides the
\* event, and none makes one up.
OutputIsHeard == heard = output
=============================================================================
