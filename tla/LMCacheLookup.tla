---------------------------- MODULE LMCacheLookup ----------------------------
(***************************************************************************)
(* One lookup of a planning group in the LMCache servers: the client of    *)
(* lmcache_client.py asks every cache domain at once, and the endpoint of  *)
(* lmcache_server.py asks the L2 adapters of its domain, one after the     *)
(* other, for each query.  An adapter (external) locks the objects that it *)
(* finds until it is told to unlock them.                                  *)
(*                                                                         *)
(* The objects of a query are numbered chunk by chunk, one per worker.     *)
(***************************************************************************)
EXTENDS Integers, FiniteSets, FiniteSetsExt

CONSTANTS
    Domains,    \* the cache domains of the client
    Queries,    \* the requests of the planning group
    Adapters,   \* the number of L2 adapters of a server
    Chunks,     \* the chunks of a query
    WorldSize,  \* the objects of a chunk
    HitSets,    \* the objects an adapter may find
    Faults      \* the faults that may happen

Objects == 1 .. Chunks * WorldSize
AllFaults == {"refused", "foreign", "broken", "server_timeout"}

ASSUME LookupAssumption ==
    /\ Adapters \in Nat /\ Chunks \in Nat /\ WorldSize \in Nat \ {0}
    /\ HitSets \subseteq SUBSET Objects
    /\ Faults \subseteq AllFaults

VARIABLES
    lookup,   \* how LMCacheLookupClient.lookup stands
    call,     \* the guarded coroutine of each domain
    matches,  \* the requests with a match of a domain in the results
    status,   \* lmcache_catalog_status of the tracker
    reply,    \* what the endpoint of a domain has answered
    job,      \* the adapter a query waits for, or whether it ended
    task,     \* the lookup task of a query at an adapter
    hits,     \* the objects that task has found
    prefix    \* the prefix the query reports for that adapter, in chunks

client == <<lookup, call, matches, status>>
work == <<job, task, hits, prefix>>
vars == <<client, reply, work>>

\* A query that has not been asked, that has failed, and (0) that is answered.
Absent == 0 - 1
Failed == 0 - 2

Slots == Domains \X Queries
Tasks == Domains \X Queries \X (1..Adapters)

Init ==
    /\ lookup = "running"
    /\ call = [d \in Domains |-> "sending"]
    /\ matches = [d \in Domains |-> {}]
    /\ status \in [Domains -> {"HEALTHY", "DEGRADED"}]
    /\ reply = [d \in Domains |-> "none"]
    /\ job = [s \in Slots |-> Absent]
    /\ task = [t \in Tasks |-> "none"]
    /\ hits = [t \in Tasks |-> {}]
    /\ prefix = [t \in Tasks |-> 0]

-----------------------------------------------------------------------------
(* The endpoint of a domain.                                               *)

\* The request arrives and a coroutine is started for every query, which
\* submits a task to the first adapter; a query without a whole chunk, or at an
\* endpoint without adapters, is answered at once.  The endpoint may also
\* refuse: the engine is not there, or does not know the layout of the model.
Arrive(d) ==
    /\ call[d] = "sending"
    /\ call' = [call EXCEPT ![d] = "waiting"]
    /\ \/ /\ "refused" \in Faults
          /\ reply' = [reply EXCEPT ![d] = "error"]
          /\ UNCHANGED <<job, task>>
       \/ \E brief \in SUBSET Queries :
             /\ Adapters = 0 => brief = Queries
             /\ job' = [s \in Slots |->
                          IF s[1] # d THEN job[s]
                          ELSE IF s[2] \in brief THEN 0 ELSE 1]
             /\ task' = [t \in Tasks |->
                           IF t[1] = d /\ t[2] \notin brief /\ t[3] = 1
                           THEN "running" ELSE task[t]]
             /\ UNCHANGED reply
    /\ UNCHANGED <<lookup, matches, status, hits, prefix>>

\* The adapter has looked everything up and holds locks on what it found.
AdapterFinishes(d, q, a) ==
    /\ task[<<d, q, a>>] = "running"
    /\ task' = [task EXCEPT ![<<d, q, a>>] = "locked"]
    /\ \E found \in HitSets : hits' = [hits EXCEPT ![<<d, q, a>>] = found]
    /\ UNCHANGED <<client, reply, job, prefix>>

\* Mutant: a chunk counts if one of its objects is found.
PrefixChunks_AnyWorker(found) ==
    LET chunk(c) == (c - 1) * WorldSize + 1 .. c * WorldSize
        missing == {c \in 1..Chunks : chunk(c) \cap found = {}}
    IN  IF missing = {} THEN Chunks ELSE Min(missing) - 1

\* _prefix_chunks: the count breaks off at the first chunk with a bit missing.
PrefixChunks(found) ==
    LET chunk(c) == (c - 1) * WorldSize + 1 .. c * WorldSize
        missing == {c \in 1..Chunks : ~(chunk(c) \subseteq found)}
    IN  IF missing = {} THEN Chunks ELSE Min(missing) - 1

\* Mutant: what was found stays locked.
Poll_KeepsLocks(d, q, a) ==
    /\ job[<<d, q>>] = a /\ task[<<d, q, a>>] = "locked"
    /\ prefix' = [prefix EXCEPT ![<<d, q, a>>] = PrefixChunks(hits[<<d, q, a>>])]
    /\ job' = [job EXCEPT ![<<d, q>>] = IF a < Adapters THEN a + 1 ELSE 0]
    /\ task' = [t \in Tasks |-> IF t = <<d, q, a + 1>> THEN "running" ELSE task[t]]
    /\ UNCHANGED <<client, reply, hits>>

\* The poll sees the result, unlocks what was found and asks the next adapter.
Poll(d, q, a) ==
    /\ job[<<d, q>>] = a /\ task[<<d, q, a>>] = "locked"
    /\ prefix' = [prefix EXCEPT ![<<d, q, a>>] = PrefixChunks(hits[<<d, q, a>>])]
    /\ job' = [job EXCEPT ![<<d, q>>] = IF a < Adapters THEN a + 1 ELSE 0]
    /\ task' = [t \in Tasks |->
                  IF t = <<d, q, a>> THEN "unlocked"
                  ELSE IF t = <<d, q, a + 1>> THEN "running" ELSE task[t]]
    /\ UNCHANGED <<client, reply, hits>>

\* The deadline passes, and the task is not polled again, whether it is
\* finished by now or not.  The error fails the whole batch at once; the other
\* queries go on.
PollTimeout(d, q, a) ==
    /\ "server_timeout" \in Faults
    /\ job[<<d, q>>] = a /\ task[<<d, q, a>>] \in {"running", "locked"}
    /\ job' = [job EXCEPT ![<<d, q>>] = Failed]
    /\ reply' = [reply EXCEPT ![d] = "error"]
    /\ UNCHANGED <<client, task, hits, prefix>>

\* Mutant: the first query that is answered answers the batch.
Answer_AtFirst(d) ==
    /\ reply[d] = "none" /\ \E q \in Queries : job[<<d, q>>] = 0
    /\ reply' = [reply EXCEPT ![d] = "ok"]
    /\ UNCHANGED <<client, work>>

\* Every query of the batch is answered.
Answer(d) ==
    /\ reply[d] = "none" /\ \A q \in Queries : job[<<d, q>>] = 0
    /\ reply' = [reply EXCEPT ![d] = "ok"]
    /\ UNCHANGED <<client, work>>

-----------------------------------------------------------------------------
(* The client.                                                             *)

\* Mutant: the results are filled while the answer is still being validated.
Receive_Partial(d) ==
    /\ call[d] = "waiting" /\ reply[d] = "ok"
    /\ \/ /\ matches' = [matches EXCEPT ![d] = Queries]
          /\ call' = [call EXCEPT ![d] = "ok"]
       \/ /\ "foreign" \in Faults
          /\ \E known \in SUBSET Queries : matches' = [matches EXCEPT ![d] = known]
          /\ call' = [call EXCEPT ![d] = "failed"]
    /\ UNCHANGED <<lookup, status, reply, work>>

\* A complete answer gives every request a match.  One with an unknown or an
\* omitted request (from a foreign server) fails the domain, and one of
\* another shape raises an error that is not guarded.
Receive(d) ==
    /\ call[d] = "waiting" /\ reply[d] = "ok"
    /\ \/ /\ matches' = [matches EXCEPT ![d] = Queries]
          /\ call' = [call EXCEPT ![d] = "ok"]
       \/ /\ "foreign" \in Faults
          /\ call' = [call EXCEPT ![d] = "failed"]
          /\ UNCHANGED matches
       \/ /\ "broken" \in Faults
          /\ call' = [call EXCEPT ![d] = "raised"]
          /\ UNCHANGED matches
    /\ UNCHANGED <<lookup, status, reply, work>>

\* An error status, a connection that fails, or the timeout of the session,
\* which may pass at any moment and leaves the endpoint working.
DomainFails(d) ==
    /\ call[d] \in {"sending", "waiting"}
    /\ call' = [call EXCEPT ![d] = "failed"]
    /\ UNCHANGED <<lookup, matches, status, reply, work>>

Ended == {"ok", "failed"}

\* Every domain has succeeded or failed, and plan() goes on by setting the
\* status of the domains.
Return ==
    /\ lookup = "running" /\ \A d \in Domains : call[d] \in Ended
    /\ lookup' = "returned"
    /\ status' = [d \in Domains |-> IF call[d] = "failed" THEN "DEGRADED" ELSE "HEALTHY"]
    /\ UNCHANGED <<call, matches, reply, work>>

\* The first unguarded error ends the lookup, and the plan with it.
Raise ==
    /\ lookup = "running" /\ \E d \in Domains : call[d] = "raised"
    /\ lookup' = "raised"
    /\ UNCHANGED <<call, matches, status, reply, work>>

-----------------------------------------------------------------------------
Query(d, q, a) == AdapterFinishes(d, q, a) \/ Poll(d, q, a) \/ PollTimeout(d, q, a)

Next ==
    \/ \E d \in Domains : Arrive(d) \/ Answer(d) \/ Receive(d) \/ DomainFails(d)
    \/ \E d \in Domains, q \in Queries, a \in 1..Adapters : Query(d, q, a)
    \/ Return \/ Raise

Spec == Init /\ [][Next]_vars

-----------------------------------------------------------------------------
(* Properties.                                                             *)

TypeOK ==
    /\ lookup \in {"running", "returned", "raised"}
    /\ call \in [Domains -> Ended \cup {"sending", "waiting", "raised"}]
    /\ matches \in [Domains -> SUBSET Queries]
    /\ status \in [Domains -> {"HEALTHY", "DEGRADED"}]
    /\ reply \in [Domains -> {"none", "ok", "error"}]
    /\ job \in [Slots -> {Absent, Failed} \cup 0..Adapters]
    /\ task \in [Tasks -> {"none", "running", "locked", "unlocked"}]
    /\ hits \in [Tasks -> SUBSET Objects]
    /\ prefix \in [Tasks -> 0..Chunks]

\* A domain that the router calls healthy has a match for every request of the
\* group, and a degraded one for none: a plan never compares requests by a
\* partly failed lookup.
StatusTellsMatches ==
    lookup = "returned" =>
        \A d \in Domains :
            matches[d] = IF status[d] = "HEALTHY" THEN Queries ELSE {}

\* A match rests on answers: every query of a healthy domain had its turn with
\* every adapter, or had nothing to ask, and its locks are given back.
MatchIsBacked ==
    \A d \in Domains, q \in Queries, a \in 1..Adapters :
        q \in matches[d] =>
            job[<<d, q>>] = 0 /\ task[<<d, q, a>>] \in {"none", "unlocked"}

\* A reported prefix is backed by objects of all workers, and could not have
\* been longer.
PrefixIsLongest ==
    \A t \in Tasks : task[t] = "unlocked" =>
        /\ 1 .. prefix[t] * WorldSize \subseteq hits[t]
        /\ prefix[t] < Chunks =>
              ~(1 .. (prefix[t] + 1) * WorldSize \subseteq hits[t])

\* Objects stay locked only while their query still polls, or after a timeout.
LockHasOwner ==
    \A d \in Domains, q \in Queries, a \in 1..Adapters :
        task[<<d, q, a>>] = "locked" => job[<<d, q>>] \in {a, Failed}

\* The lookup is read-only: when a domain's queries have ended and its
\* adapters are idle, nothing is locked.
LookupIsReadOnly ==
    \A d \in Domains :
        /\ \A q \in Queries : job[<<d, q>>] \in {0, Failed}
        /\ \A t \in Tasks : t[1] = d => task[t] # "running"
        => \A t \in Tasks : t[1] = d /\ task[t] = "locked" => hits[t] = {}
=============================================================================
