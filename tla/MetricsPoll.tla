----------------------------- MODULE MetricsPoll -----------------------------
(***************************************************************************)
(* poll_metrics asks one vLLM node after the other for its metrics, and    *)
(* keeps the metrics_status that decides which nodes a plan may use.  The  *)
(* lifespan of the application starts it beside the request pool, the      *)
(* event listeners and the lookup client, and ends them in that order.     *)
(***************************************************************************)
EXTENDS Integers

CONSTANT Last   \* the nodes are 1 .. Last, in the order of the configuration

Nodes == 1 .. Last

ASSUME PollAssumption == Last \in Nat \ {0}

VARIABLES
    health,          \* how each node answers: "up", "sick" (another status),
                     \* or "down" (not, or not in time)
    poll,            \* the await of poll_metrics, or how it ended
    at,              \* the node it asks
    metrics_status,  \* of each node
    read,            \* history: the nodes whose metrics this sweep has read
    lifespan,        \* where the lifespan is suspended, or how it ended
    running          \* the tasks and clients the lifespan has to end

pollVars == <<health, poll, at, metrics_status, read, lifespan, running>>

Awaits == {"headers", "body", "sleep"}

InitPoll ==
    /\ health \in [Nodes -> {"up", "sick", "down"}]
    /\ poll = "headers" /\ at = 1
    /\ metrics_status = [n \in Nodes |-> "unavailable"]
    /\ read = {}
    /\ lifespan = "serving"
    /\ running = {"poll", "pool", "listeners", "lookup"}

-----------------------------------------------------------------------------
(* The environment.                                                        *)

HealthChanges ==
    /\ \E n \in Nodes, h \in {"up", "sick", "down"} : health' = [health EXCEPT ![n] = h]
    /\ UNCHANGED <<poll, at, metrics_status, read, lifespan, running>>

\* A listener ends by an error that it does not catch; nobody awaits it.
ListenersDie ==
    /\ "listeners" \in running
    /\ running' = running \ {"listeners"}
    /\ UNCHANGED <<health, poll, at, metrics_status, read, lifespan>>

-----------------------------------------------------------------------------
(* poll_metrics.  Once it is cancelled its next step is the CancelledError. *)

Running == lifespan = "serving" /\ poll \in Awaits

\* The next node of the sweep, or the sleep between two sweeps.
Advance ==
    IF at < Last THEN at' = at + 1 /\ poll' = "headers"
    ELSE UNCHANGED at /\ poll' = "sleep"

\* A status other than 200.
Refused ==
    /\ Running /\ poll = "headers"
    /\ health[at] = "sick"
    /\ metrics_status' = [metrics_status EXCEPT ![at] = "unavailable"]
    /\ Advance
    /\ UNCHANGED <<health, read, lifespan, running>>

\* Status 200; the text is awaited next.
Headers ==
    /\ Running /\ poll = "headers"
    /\ health[at] = "up"
    /\ poll' = "body"
    /\ UNCHANGED <<health, at, metrics_status, read, lifespan, running>>

\* Mutant: the error leaves the node as it is.
Missing_Logged ==
    /\ Running /\ poll \in {"headers", "body"} /\ health[at] = "down"
    /\ Advance
    /\ UNCHANGED <<health, metrics_status, read, lifespan, running>>

\* Mutant: the same node is asked again.
Missing_Retries ==
    /\ Running /\ poll \in {"headers", "body"} /\ health[at] = "down"
    /\ metrics_status' = [metrics_status EXCEPT ![at] = "unavailable"]
    /\ poll' = "headers"
    /\ UNCHANGED <<health, at, read, lifespan, running>>

\* A client error or a timeout, at either await.
Missing ==
    /\ Running /\ poll \in {"headers", "body"} /\ health[at] = "down"
    /\ metrics_status' = [metrics_status EXCEPT ![at] = "unavailable"]
    /\ Advance
    /\ UNCHANGED <<health, read, lifespan, running>>

\* update_metrics_text.
Text ==
    /\ Running /\ poll = "body"
    /\ health[at] # "down"
    /\ metrics_status' = [metrics_status EXCEPT ![at] = "available"]
    /\ read' = read \cup {at}
    /\ Advance
    /\ UNCHANGED <<health, lifespan, running>>

\* A text that cannot be decoded, or a number like "1e" that the pattern of
\* update_metrics_text takes and float() refuses: no except clause catches the
\* ValueError, and the task keeps it for whoever awaits it.
Raise ==
    /\ Running /\ poll = "body"
    /\ health[at] # "down"
    /\ poll' = "failed"
    /\ running' = running \ {"poll"}
    /\ UNCHANGED <<health, at, metrics_status, read, lifespan>>

\* The interval is over.
Wake ==
    /\ Running /\ poll = "sleep"
    /\ poll' = "headers" /\ at' = 1
    /\ read' = {}
    /\ UNCHANGED <<health, metrics_status, lifespan, running>>

Poll == Refused \/ Headers \/ Missing \/ Text \/ Raise \/ Wake

-----------------------------------------------------------------------------
(* The end of the lifespan.                                                *)

Shutdown ==
    /\ lifespan = "serving"
    /\ lifespan' = "ending poll"
    /\ UNCHANGED <<health, poll, at, metrics_status, read, running>>

\* The CancelledError leaves the poll.
Cancelled ==
    /\ lifespan = "ending poll" /\ poll \in Awaits
    /\ poll' = "cancelled"
    /\ running' = running \ {"poll"}
    /\ UNCHANGED <<health, at, metrics_status, read, lifespan>>

\* The await of the poll returns if it was cancelled, and raises what the poll
\* had raised: the rest of the finally block is then skipped.
PollAwaited ==
    /\ lifespan = "ending poll" /\ poll \notin Awaits
    /\ lifespan' = IF poll = "failed" THEN "failed" ELSE "ending pool"
    /\ UNCHANGED <<health, poll, at, metrics_status, read, running>>

\* Mutant: the exception of a listener that has died ends the shutdown.
End_Raises(task, from, to) ==
    /\ lifespan = from
    /\ lifespan' = IF task \in running THEN to ELSE "failed"
    /\ running' = running \ {task}
    /\ UNCHANGED <<health, poll, at, metrics_status, read>>

\* request_pool.stop(), tracker.stop(), which collects the exceptions of dead
\* listeners as results, and lmcache_lookup.close().
End(task, from, to) ==
    /\ lifespan = from
    /\ lifespan' = to
    /\ running' = running \ {task}
    /\ UNCHANGED <<health, poll, at, metrics_status, read>>

Lifespan ==
    \/ Cancelled \/ PollAwaited
    \/ End("pool", "ending pool", "ending listeners")
    \/ End("listeners", "ending listeners", "ending lookup")
    \/ End("lookup", "ending lookup", "stopped")

NextPoll == HealthChanges \/ ListenersDie \/ Poll \/ Shutdown \/ Lifespan

SpecPoll == InitPoll /\ [][NextPoll]_pollVars

\* ClientTimeout(total=2.0) bounds each request, the sleep ends, and the event
\* loop runs what is ready.
FairSpecPoll == SpecPoll /\ WF_pollVars(Poll) /\ WF_pollVars(Lifespan)

-----------------------------------------------------------------------------
(* Properties.                                                             *)

PollTypeOK ==
    /\ health \in [Nodes -> {"up", "sick", "down"}]
    /\ poll \in Awaits \cup {"cancelled", "failed"} /\ at \in Nodes
    /\ metrics_status \in [Nodes -> {"available", "unavailable"}]
    /\ read \subseteq 1..at
    /\ running \subseteq {"poll", "pool", "listeners", "lookup"}
    /\ "poll" \in running <=> poll \in Awaits
    /\ lifespan \in {"serving", "ending poll", "ending pool", "ending listeners",
                     "ending lookup", "stopped", "failed"}

\* When a sweep is over, the available nodes are those whose metrics it has
\* read: whatever failed on the way, no node keeps the status of an earlier one.
SweepTellsAll == poll = "sleep" => \A n \in Nodes : metrics_status[n] = "available" <=> n \in read

\* _eligible: nodes without metrics only if no node has them.
Eligible ==
    LET available == {n \in Nodes : metrics_status[n] = "available"}
    IN  IF available = {} THEN Nodes ELSE available

\* As long as the router serves and the poll lives, plans end up without the
\* nodes that do not come back, if there is one that stays up, and with those
\* that stay up.
PlansFollowHealth ==
    [](lifespan = "serving" /\ poll # "failed") =>
        \A n \in Nodes :
            /\ <>[](health[n] # "up") /\ (\E m \in Nodes : <>[](health[m] = "up"))
               => <>[](n \notin Eligible)
            /\ <>[](health[n] = "up") => <>[](n \in Eligible)

\* A shutdown ends everything the lifespan has started, whatever the poll was
\* waiting for and whichever listeners had died, unless the poll had failed.
ShutdownIsComplete ==
    lifespan # "serving" /\ poll # "failed" ~> lifespan = "stopped" /\ running = {}
=============================================================================
