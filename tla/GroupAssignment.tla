--------------------------- MODULE GroupAssignment ---------------------------
(***************************************************************************)
(* What plan() relies on in the select_batch of every policy: each request *)
(* of a planning group is given one node, which is never changed again, of *)
(* the nodes that were eligible when the group was planned, and no request *)
(* of the group is left out.  JointPolicy and BaselinePolicies implement   *)
(* this specification.                                                     *)
(***************************************************************************)
CONSTANTS Requests, Nodes, None

VARIABLES
    group,     \* the requests of the group that have no node yet
    eligible,  \* the nodes the group may use
    assigned   \* the node of each request, or None

vars == <<group, eligible, assigned>>

Offers == (SUBSET Nodes) \ {{}}

Init ==
    /\ group \in SUBSET Requests
    /\ eligible \in Offers
    /\ assigned = [r \in Requests |-> None]

\* The planner calls the policy with another group and a new snapshot.
Begin ==
    /\ group = {}
    /\ group' \in SUBSET {r \in Requests : assigned[r] = None}
    /\ eligible' \in Offers
    /\ UNCHANGED assigned

\* One turn of the policy's loop.
Assign ==
    /\ \E r \in group, n \in eligible :
          /\ assigned' = [assigned EXCEPT ![r] = n]
          /\ group' = group \ {r}
    /\ UNCHANGED eligible

Next == Begin \/ Assign

Spec == Init /\ [][Next]_vars

\* The loop runs without an await.
FairSpec == Spec /\ WF_vars(Assign)
=============================================================================
