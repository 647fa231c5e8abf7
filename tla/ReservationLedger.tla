-------------------------- MODULE ReservationLedger --------------------------
(***************************************************************************)
(* What the router promises about resource reservation, without saying how *)
(* requests are queued, planned, opened, streamed or cancelled: a request  *)
(* holds at most one reservation in its life, on one vLLM node; a group of *)
(* requests obtains its reservations in one step; and the load the router  *)
(* shows for a node is the number and the work of the reservations held on *)
(* it.  Gateway implements this specification, and so does the virtual     *)
(* load of JointPolicy.                                                    *)
(***************************************************************************)
EXTENDS Integers, FiniteSets, FiniteSetsExt

CONSTANTS
    Requests, Nodes, None,
    Works    \* what a reservation may reserve of a node

VARIABLES
    held,    \* the node a request holds a reservation on, or None
    served,  \* the requests that have obtained their one reservation
    share,   \* the work reserved for each of them
    load     \* router_active_requests and router_inflight_work, per node

vars == <<held, served, share, load>>

HeldOn(n) == {r \in Requests : held[r] = n}
SumOf(w, S) == MapThenSumSet(LAMBDA r : w[r], S)

Init ==
    /\ held = [r \in Requests |-> None]
    /\ served = {}
    /\ share = [r \in Requests |-> 0]
    /\ load = [n \in Nodes |-> [active |-> 0, work |-> 0]]

\* A planning group reserves for all its members at once.
Reserve ==
    \E S \in SUBSET (Requests \ served) :
    \E pick \in [S -> Nodes], w \in [S -> Works] :
        /\ S # {}
        /\ held' = [r \in Requests |-> IF r \in S THEN pick[r] ELSE held[r]]
        /\ served' = served \cup S
        /\ share' = [r \in Requests |-> IF r \in S THEN w[r] ELSE share[r]]
        /\ load' = [n \in Nodes |->
                LET new == {r \in S : pick[r] = n}
                IN  [active |-> load[n].active + Cardinality(new),
                     work   |-> load[n].work + SumOf(w, new)]]

\* A request gives back the reservation it holds.
Release(r) ==
    /\ held[r] # None
    /\ held' = [held EXCEPT ![r] = None]
    /\ load' = [load EXCEPT ![held[r]] =
                  [active |-> @.active - 1, work |-> @.work - share[r]]]
    /\ UNCHANGED <<served, share>>

Next == Reserve \/ \E r \in Requests : Release(r)

Spec == Init /\ [][Next]_vars

-----------------------------------------------------------------------------
TypeOK ==
    /\ held \in [Requests -> Nodes \cup {None}]
    /\ served \subseteq Requests
    /\ share \in [Requests -> Nat]
    /\ load \in [Nodes -> [active : Nat, work : Nat]]

\* The load of a node is the number and the work of the requests that hold a
\* reservation on it, and only a served request holds one.
Balanced ==
    /\ \A n \in Nodes :
          load[n] = [active |-> Cardinality(HeldOn(n)), work |-> SumOf(share, HeldOn(n))]
    /\ \A r \in Requests : held[r] # None => r \in served
=============================================================================
