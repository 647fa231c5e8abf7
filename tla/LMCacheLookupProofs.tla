------------------------- MODULE LMCacheLookupProofs -------------------------
(***************************************************************************)
(* LMCacheLookup for any domains, queries, adapters and faults: what the   *)
(* router is told after a lookup, what a reported prefix rests on and who  *)
(* holds the locks of an adapter.                                          *)
(***************************************************************************)
EXTENDS LMCacheLookup, TLAPS, WellFoundedInduction

\* The tasks of a query that has not been asked have not been submitted ...
Unasked ==
    \A d \in Domains : call[d] = "sending" =>
        \A q \in Queries :
            /\ job[<<d, q>>] = Absent
            /\ \A a \in 1..Adapters : task[<<d, q, a>>] = "none"

\* ... and a task that is not over belongs to a query that waits for it, or
\* that has failed.
TaskOwned ==
    \A d \in Domains, q \in Queries, a \in 1..Adapters :
        task[<<d, q, a>>] \in {"running", "locked"} => job[<<d, q>>] \in {a, Failed}

\* What a query reports for an adapter is the prefix of what was found.
Reported == \A t \in Tasks : task[t] = "unlocked" => prefix[t] = PrefixChunks(hits[t])

\* A domain answers when all of its queries have been answered.
AnswerComplete ==
    \A d \in Domains : reply[d] = "ok" => \A q \in Queries : job[<<d, q>>] = 0

\* The matches of a domain come with its answer, all at once.
MatchesAtOnce ==
    \A d \in Domains :
        /\ call[d] = "ok" => matches[d] = Queries /\ reply[d] = "ok"
        /\ call[d] # "ok" => matches[d] = {}

\* The statuses are those of the domains at the end of the lookup.
StatusTold ==
    lookup = "returned" =>
        \A d \in Domains :
            /\ call[d] \in Ended
            /\ status[d] = IF call[d] = "failed" THEN "DEGRADED" ELSE "HEALTHY"

EndpointInv == Unasked /\ TaskOwned /\ Reported /\ AnswerComplete
ClientInv == MatchesAtOnce /\ StatusTold

-----------------------------------------------------------------------------
(* The prefix of the objects found.                                        *)

\* Every set of numbers that is not empty has a least element.
LEMMA Least ==
    ASSUME NEW S \in SUBSET Nat, S # {}
    PROVE  \E m \in S : \A k \in S : m <= k
<1>1. PICK m \in S : \A k \in S : ~(<<k, m>> \in OpToRel(<, Nat))
    BY WFMin, NatLessThanWellFounded, Zenon
<1>2. \A k \in S : ~(k < m)
    BY <1>1 DEF OpToRel
<1> QED
    BY <1>2

Chunk(c) == (c - 1) * WorldSize + 1 .. c * WorldSize

\* _prefix_chunks counts whole chunks, and stops at the first that is not.
LEMMA PrefixCounts ==
    ASSUME NEW found
    PROVE  LET p == PrefixChunks(found)
           IN  /\ p \in 0..Chunks
               /\ \A c \in 1..p : Chunk(c) \subseteq found
               /\ p < Chunks => ~(Chunk(p + 1) \subseteq found)
<1> DEFINE missing == {c \in 1..Chunks : ~(Chunk(c) \subseteq found)}
<1>1. Chunks \in Nat
    BY LookupAssumption DEF LookupAssumption
<1>2. PrefixChunks(found) = IF missing = {} THEN Chunks ELSE Min(missing) - 1
    BY DEF PrefixChunks, Chunk
<1>3. CASE missing = {}
    BY <1>1, <1>2, <1>3
<1>4. CASE missing # {}
  <2>1. missing \in SUBSET Nat
      BY <1>1
  <2>2. \E m \in missing : \A k \in missing : m <= k
    <3> HIDE DEF missing
    <3> QED
        BY <1>4, <2>1, Least
  <2>3. Min(missing) \in missing /\ \A k \in missing : Min(missing) <= k
    <3> HIDE DEF missing
    <3> QED
        BY <2>2 DEF Min
  <2> DEFINE m == Min(missing)
  <2>4. m \in 1..Chunks /\ ~(Chunk(m) \subseteq found) /\ PrefixChunks(found) = m - 1
      BY <1>2, <1>4, <2>3
  <2>5. \A c \in 1..Chunks : c < m => Chunk(c) \subseteq found
      BY <1>1, <2>3
  <2> HIDE DEF m
  <2> QED
      BY <1>1, <2>4, <2>5
<1> QED
    BY <1>3, <1>4

\* Whole chunks are the objects up to their end.
LEMMA ChunksAreObjects ==
    ASSUME NEW p \in Nat, NEW x \in 1 .. p * WorldSize
    PROVE  \E c \in 1..p : x \in Chunk(c)
<1>1. WorldSize \in Nat \ {0}
    BY LookupAssumption DEF LookupAssumption
<1> DEFINE ends == {c \in 0..p : x <= c * WorldSize}
<1>2. p \in ends
    BY <1>1
<1>3. PICK c \in ends : \A k \in ends : c <= k
  <2>1. ends \in SUBSET Nat /\ ends # {}
      BY <1>2
  <2> HIDE DEF ends
  <2> QED
      BY <2>1, Least
<1>4. c # 0
    BY <1>1
<1>5. c - 1 \in 0..p /\ c - 1 \notin ends
    BY <1>3, <1>4
<1>6. (c - 1) * WorldSize < x
    BY <1>1, <1>5
<1> QED
    BY <1>1, <1>4, <1>6 DEF Chunk

LEMMA PrefixIsMaximal ==
    ASSUME NEW found
    PROVE  LET p == PrefixChunks(found)
           IN  /\ 1 .. p * WorldSize \subseteq found
               /\ p < Chunks => ~(1 .. (p + 1) * WorldSize \subseteq found)
<1> DEFINE p == PrefixChunks(found)
<1>1. /\ p \in Nat
      /\ \A c \in 1..p : Chunk(c) \subseteq found
      /\ p < Chunks => ~(Chunk(p + 1) \subseteq found)
    BY PrefixCounts, LookupAssumption DEF LookupAssumption
<1> HIDE DEF p
<1>2. 1 .. p * WorldSize \subseteq found
    BY <1>1, ChunksAreObjects
<1>3. Chunk(p + 1) \subseteq 1 .. (p + 1) * WorldSize
  <2>1. WorldSize \in Nat /\ p * WorldSize \in Nat
      BY <1>1, LookupAssumption DEF LookupAssumption
  <2>2. (p + 1) - 1 = p
      BY <1>1
  <2> QED
      BY <2>1, <2>2 DEF Chunk
<1> QED
    BY <1>1, <1>2, <1>3 DEF p

-----------------------------------------------------------------------------
(* Type correctness.                                                       *)

LEMMA LookupTypeInit == Init => TypeOK
    BY LookupAssumption DEF Init, TypeOK, Ended, LookupAssumption

LEMMA LookupTypeStep == TypeOK /\ [Next]_vars => TypeOK'
<1> SUFFICES ASSUME TypeOK, [Next]_vars PROVE TypeOK'
    OBVIOUS
<1> USE DEF TypeOK, Ended, client, work
<1>1. ASSUME NEW d \in Domains, Arrive(d) PROVE TypeOK'
  <2>1. /\ call' \in [Domains -> Ended \cup {"sending", "waiting", "raised"}]
        /\ reply' \in [Domains -> {"none", "ok", "error"}]
        /\ UNCHANGED <<lookup, matches, status, hits, prefix>>
      BY <1>1 DEF Arrive
  <2>2. CASE UNCHANGED <<job, task>>
      BY <2>1, <2>2
  <2>3. ASSUME NEW brief \in SUBSET Queries,
               Adapters = 0 => brief = Queries,
               job' = [s \in Slots |-> IF s[1] # d THEN job[s]
                                       ELSE IF s[2] \in brief THEN 0 ELSE 1],
               task' = [t \in Tasks |->
                          IF t[1] = d /\ t[2] \notin brief /\ t[3] = 1
                          THEN "running" ELSE task[t]]
        PROVE  TypeOK'
    <3>1. \A s \in Slots : s[2] \in Queries
        BY DEF Slots
    <3>2. \A s \in Slots : s[2] \notin brief => 1 \in 0..Adapters
        BY <2>3, <3>1, LookupAssumption DEF LookupAssumption
    <3>3. 0 \in 0..Adapters
        BY LookupAssumption DEF LookupAssumption
    <3>4. job' \in [Slots -> {Absent, Failed} \cup 0..Adapters]
        BY <2>3, <3>2, <3>3
    <3>5. task' \in [Tasks -> {"none", "running", "locked", "unlocked"}]
        BY <2>3
    <3> QED
        BY <2>1, <3>4, <3>5
  <2> QED
      BY <1>1, <2>2, <2>3 DEF Arrive
<1>2. ASSUME NEW d \in Domains, NEW q \in Queries, NEW a \in 1..Adapters, Query(d, q, a)
      PROVE  TypeOK'
  <2>1. CASE AdapterFinishes(d, q, a)
    <3>1. /\ task' = [task EXCEPT ![<<d, q, a>>] = "locked"]
          /\ UNCHANGED <<client, reply, job, prefix>>
        BY <2>1 DEF AdapterFinishes
    <3>2. PICK found \in HitSets : hits' = [hits EXCEPT ![<<d, q, a>>] = found]
        BY <2>1 DEF AdapterFinishes
    <3>3. found \in SUBSET Objects
        BY LookupAssumption DEF LookupAssumption
    <3>4. hits' \in [Tasks -> SUBSET Objects]
        BY <3>2, <3>3
    <3>5. task' \in [Tasks -> {"none", "running", "locked", "unlocked"}]
        BY <3>1
    <3> QED
        BY <3>1, <3>4, <3>5
  <2>2. CASE Poll(d, q, a)
    <3>1. /\ prefix' = [prefix EXCEPT ![<<d, q, a>>] = PrefixChunks(hits[<<d, q, a>>])]
          /\ job' = [job EXCEPT ![<<d, q>>] = IF a < Adapters THEN a + 1 ELSE 0]
          /\ UNCHANGED <<client, reply, hits>>
        BY <2>2 DEF Poll
    <3>2. (IF a < Adapters THEN a + 1 ELSE 0) \in 0..Adapters
        BY LookupAssumption DEF LookupAssumption
    <3>3. job' \in [Slots -> {Absent, Failed} \cup 0..Adapters]
        BY <3>1, <3>2
    <3>4. prefix' \in [Tasks -> 0..Chunks]
        BY <3>1, PrefixCounts
    <3>5. task' \in [Tasks -> {"none", "running", "locked", "unlocked"}]
        BY <2>2 DEF Poll
    <3> QED
        BY <3>1, <3>3, <3>4, <3>5
  <2>3. CASE PollTimeout(d, q, a)
      BY <2>3 DEF PollTimeout
  <2> QED
      BY <1>2, <2>1, <2>2, <2>3 DEF Query
<1>3. ASSUME NEW d \in Domains, Answer(d) \/ Receive(d) \/ DomainFails(d) PROVE TypeOK'
    BY <1>3 DEF Answer, Receive, DomainFails
<1>4. CASE Return \/ Raise
    BY <1>4 DEF Return, Raise
<1>5. CASE UNCHANGED vars
    BY <1>5 DEF vars
<1> QED
    BY <1>1, <1>2, <1>3, <1>4, <1>5 DEF Next

-----------------------------------------------------------------------------
(* The endpoint.                                                           *)

LEMMA EndpointStep == TypeOK /\ EndpointInv /\ [Next]_vars => EndpointInv'
<1> SUFFICES ASSUME TypeOK, EndpointInv, [Next]_vars PROVE EndpointInv'
    OBVIOUS
<1> USE DEF EndpointInv, TypeOK, client, work
<1>1. ASSUME NEW d \in Domains, Arrive(d) PROVE EndpointInv'
  <2>1. /\ call[d] = "sending"
        /\ call' = [call EXCEPT ![d] = "waiting"]
        /\ UNCHANGED <<lookup, matches, status, hits, prefix>>
      BY <1>1 DEF Arrive
  <2>2. CASE /\ reply' = [reply EXCEPT ![d] = "error"]
             /\ UNCHANGED <<job, task>>
      BY <2>1, <2>2 DEF Unasked, TaskOwned, Reported, AnswerComplete
  <2>3. ASSUME NEW brief \in SUBSET Queries,
               job' = [s \in Slots |-> IF s[1] # d THEN job[s]
                                       ELSE IF s[2] \in brief THEN 0 ELSE 1],
               task' = [t \in Tasks |->
                          IF t[1] = d /\ t[2] \notin brief /\ t[3] = 1
                          THEN "running" ELSE task[t]],
               reply' = reply
        PROVE  EndpointInv'
    <3>1. \A e \in Domains, q \in Queries :
            job'[<<e, q>>] = IF e # d THEN job[<<e, q>>] ELSE IF q \in brief THEN 0 ELSE 1
        BY <2>3 DEF Slots
    <3>2. \A e \in Domains, q \in Queries, a \in 1..Adapters :
            task'[<<e, q, a>>] = IF e = d /\ q \notin brief /\ a = 1 THEN "running"
                             ELSE task[<<e, q, a>>]
        BY <2>3 DEF Tasks
    <3>3. \A q \in Queries : /\ job[<<d, q>>] = Absent
                             /\ \A a \in 1..Adapters : task[<<d, q, a>>] = "none"
        BY <2>1 DEF Unasked
    <3>4. Unasked'
        BY <2>1, <3>1, <3>2 DEF Unasked
    <3>5. TaskOwned'
        BY <3>1, <3>2, <3>3 DEF TaskOwned
    <3>6. Reported'
        BY <2>1, <2>3 DEF Reported
    <3>7. AnswerComplete'
        BY <2>3, <3>1, <3>3 DEF AnswerComplete, Absent
    <3> QED
        BY <3>4, <3>5, <3>6, <3>7
  <2> QED
      BY <1>1, <2>2, <2>3 DEF Arrive
<1>2. ASSUME NEW d \in Domains, NEW q \in Queries, NEW a \in 1..Adapters, Query(d, q, a)
      PROVE  EndpointInv'
  <2>0. <<d, q, a>> \in Tasks /\ <<d, q>> \in Slots
      BY DEF Tasks, Slots
  <2>1. CASE AdapterFinishes(d, q, a)
      BY <2>0, <2>1 DEF AdapterFinishes, Unasked, TaskOwned, Reported, AnswerComplete, Tasks
  <2>2. CASE Poll(d, q, a)
    <3>1. /\ job[<<d, q>>] = a /\ task[<<d, q, a>>] = "locked"
          /\ UNCHANGED <<client, reply, hits>>
          /\ prefix' = [prefix EXCEPT ![<<d, q, a>>] = PrefixChunks(hits[<<d, q, a>>])]
        BY <2>2 DEF Poll
    <3>2. \A e \in Domains, p \in Queries :
            job'[<<e, p>>] = IF <<e, p>> = <<d, q>> THEN IF a < Adapters THEN a + 1 ELSE 0
                         ELSE job[<<e, p>>]
        BY <2>2 DEF Poll, Slots
    <3>3. \A e \in Domains, p \in Queries, b \in 1..Adapters :
            task'[<<e, p, b>>] = IF <<e, p, b>> = <<d, q, a>> THEN "unlocked"
                             ELSE IF <<e, p, b>> = <<d, q, a + 1>> THEN "running"
                             ELSE task[<<e, p, b>>]
        BY <2>2 DEF Poll, Tasks
    <3>4. Unasked'
        BY <3>1, <3>2, <3>3, <2>0 DEF Unasked
    <3>5. TaskOwned'
      <4> SUFFICES ASSUME NEW e \in Domains, NEW p \in Queries, NEW b \in 1..Adapters,
                          task'[<<e, p, b>>] \in {"running", "locked"}
                   PROVE  job'[<<e, p>>] \in {b, Failed}
          BY DEF TaskOwned
      <4>1. CASE <<e, p>> = <<d, q>>
        <5>1. b # a => task[<<e, p, b>>] \notin {"running", "locked"}
            BY <3>1, <4>1, LookupAssumption DEF TaskOwned, Failed, LookupAssumption
        <5>2. b = a + 1
            BY <3>3, <4>1, <5>1
        <5>3. a < Adapters
            BY <5>2, LookupAssumption DEF LookupAssumption
        <5> QED
            BY <3>2, <4>1, <5>2, <5>3
      <4>2. CASE <<e, p>> # <<d, q>>
          BY <3>2, <3>3, <4>2 DEF TaskOwned
      <4> QED
          BY <4>1, <4>2
    <3>6. Reported'
      <4> SUFFICES ASSUME NEW t \in Tasks, task'[t] = "unlocked"
                   PROVE  prefix'[t] = PrefixChunks(hits'[t])
          BY DEF Reported
      <4>1. t = <<d, q, a>> \/ task[t] = "unlocked"
          BY <2>2 DEF Poll
      <4> QED
          BY <2>0, <3>1, <4>1 DEF Reported
    <3>7. AnswerComplete'
        BY <3>1, <3>2, LookupAssumption DEF AnswerComplete, LookupAssumption
    <3> QED
        BY <3>4, <3>5, <3>6, <3>7
  <2>3. CASE PollTimeout(d, q, a)
    <3>1. /\ job[<<d, q>>] = a
          /\ job' = [job EXCEPT ![<<d, q>>] = Failed]
          /\ reply' = [reply EXCEPT ![d] = "error"]
          /\ UNCHANGED <<client, task, hits, prefix>>
        BY <2>3 DEF PollTimeout
    <3>2. \A e \in Domains, p \in Queries :
            job'[<<e, p>>] = IF <<e, p>> = <<d, q>> THEN Failed ELSE job[<<e, p>>]
        BY <3>1 DEF Slots
    <3>3. Unasked'
        BY <3>1, <3>2, <2>0, LookupAssumption DEF Unasked, Absent, LookupAssumption
    <3>4. TaskOwned'
        BY <3>1, <3>2 DEF TaskOwned
    <3>5. Reported'
        BY <3>1 DEF Reported
    <3>6. AnswerComplete'
        BY <3>1, <3>2 DEF AnswerComplete
    <3> QED
        BY <3>3, <3>4, <3>5, <3>6
  <2> QED
      BY <1>2, <2>1, <2>2, <2>3 DEF Query
<1>3. ASSUME NEW d \in Domains, Answer(d) \/ Receive(d) \/ DomainFails(d)
      PROVE  EndpointInv'
    BY <1>3 DEF Answer, Receive, DomainFails, Unasked, TaskOwned, Reported, AnswerComplete
<1>4. CASE Return \/ Raise
    BY <1>4 DEF Return, Raise, Unasked, TaskOwned, Reported, AnswerComplete
<1>5. CASE UNCHANGED vars
    BY <1>5 DEF vars, Unasked, TaskOwned, Reported, AnswerComplete
<1> QED
    BY <1>1, <1>2, <1>3, <1>4, <1>5 DEF Next

-----------------------------------------------------------------------------
(* The client.                                                             *)

LEMMA ClientStep ==
    TypeOK /\ AnswerComplete /\ ClientInv /\ [Next]_vars => ClientInv'
<1> SUFFICES ASSUME TypeOK, AnswerComplete, ClientInv, [Next]_vars PROVE ClientInv'
    OBVIOUS
<1> USE DEF ClientInv, TypeOK, client, work, Ended
<1>1. ASSUME NEW d \in Domains, Arrive(d) PROVE ClientInv'
  <2>1. /\ call[d] = "sending" /\ call' = [call EXCEPT ![d] = "waiting"]
        /\ reply' = [reply EXCEPT ![d] = "error"] \/ reply' = reply
        /\ UNCHANGED <<lookup, matches, status>>
      BY <1>1 DEF Arrive
  <2>2. MatchesAtOnce'
      BY <2>1 DEF MatchesAtOnce
  <2>3. StatusTold'
      BY <2>1 DEF StatusTold
  <2> QED
      BY <2>2, <2>3
<1>2. ASSUME NEW d \in Domains, NEW q \in Queries, NEW a \in 1..Adapters, Query(d, q, a)
      PROVE  ClientInv'
  <2>1. CASE AdapterFinishes(d, q, a) \/ Poll(d, q, a)
      BY <2>1 DEF AdapterFinishes, Poll, MatchesAtOnce, StatusTold
  <2>2. CASE PollTimeout(d, q, a)
    <3>1. /\ job[<<d, q>>] = a /\ UNCHANGED client
          /\ reply' = [reply EXCEPT ![d] = "error"]
        BY <2>2 DEF PollTimeout
    <3>2. reply[d] # "ok"
        BY <3>1, LookupAssumption DEF AnswerComplete, LookupAssumption
    <3> QED
        BY <3>1, <3>2 DEF MatchesAtOnce, StatusTold
  <2> QED
      BY <1>2, <2>1, <2>2 DEF Query
<1>3. ASSUME NEW d \in Domains, Answer(d) PROVE ClientInv'
    BY <1>3 DEF Answer, MatchesAtOnce, StatusTold
<1>4. ASSUME NEW d \in Domains, Receive(d) PROVE ClientInv'
    BY <1>4 DEF Receive, MatchesAtOnce, StatusTold
<1>5. ASSUME NEW d \in Domains, DomainFails(d) PROVE ClientInv'
    BY <1>5 DEF DomainFails, MatchesAtOnce, StatusTold
<1>6. CASE Return \/ Raise
    BY <1>6 DEF Return, Raise, MatchesAtOnce, StatusTold
<1>7. CASE UNCHANGED vars
    BY <1>7 DEF vars, MatchesAtOnce, StatusTold
<1> QED
    BY <1>1, <1>2, <1>3, <1>4, <1>5, <1>6, <1>7 DEF Next

LEMMA LookupInit == Init => EndpointInv /\ ClientInv
    BY DEF Init, EndpointInv, ClientInv, Unasked, TaskOwned, Reported, AnswerComplete,
           MatchesAtOnce, StatusTold, Slots, Tasks, Absent

LEMMA LookupInvariance == Spec => [](TypeOK /\ EndpointInv /\ ClientInv)
<1>1. TypeOK /\ EndpointInv /\ ClientInv /\ [Next]_vars
        => (TypeOK /\ EndpointInv /\ ClientInv)'
    BY LookupTypeStep, EndpointStep, ClientStep DEF EndpointInv
<1> QED
    BY <1>1, LookupTypeInit, LookupInit, PTL DEF Spec

-----------------------------------------------------------------------------
(* What the router and the adapters can rely on.                           *)

\* The state of a lookup keeps its types, with any number of adapters.
THEOREM LookupTypeCorrect == Spec => []TypeOK
    BY LookupInvariance, PTL

\* plan() sees a match for every request of the group in a healthy domain, and
\* none in a degraded one, whichever calls fail in whichever way.
THEOREM StatusIsTold == Spec => []StatusTellsMatches
<1>1. ClientInv => StatusTellsMatches
    BY DEF ClientInv, MatchesAtOnce, StatusTold, StatusTellsMatches, Ended
<1> QED
    BY <1>1, LookupInvariance, PTL

\* No match comes from a query that still waits or has failed, and the query
\* of a match has left no lock behind.
THEOREM MatchRestsOnAnswers == Spec => []MatchIsBacked
<1>1. TypeOK /\ EndpointInv /\ ClientInv => MatchIsBacked
  <2> SUFFICES ASSUME TypeOK, EndpointInv, ClientInv,
                      NEW d \in Domains, NEW q \in Queries, NEW a \in 1..Adapters,
                      q \in matches[d]
               PROVE  job[<<d, q>>] = 0 /\ task[<<d, q, a>>] \in {"none", "unlocked"}
      BY DEF MatchIsBacked
  <2>1. job[<<d, q>>] = 0
      BY DEF ClientInv, MatchesAtOnce, EndpointInv, AnswerComplete
  <2>2. 0 # a /\ 0 # Failed
      BY LookupAssumption DEF Failed, LookupAssumption
  <2>3. task[<<d, q, a>>] \in {"none", "running", "locked", "unlocked"}
      BY DEF TypeOK, Tasks
  <2> QED
      BY <2>1, <2>2, <2>3 DEF EndpointInv, TaskOwned
<1> QED
    BY <1>1, LookupInvariance, PTL

\* A reported prefix is the longest one of which every worker's objects were
\* found, for any number of chunks and workers.
THEOREM ReportedPrefixIsLongest == Spec => []PrefixIsLongest
<1>1. EndpointInv => PrefixIsLongest
    BY PrefixIsMaximal DEF EndpointInv, Reported, PrefixIsLongest
<1> QED
    BY <1>1, LookupInvariance, PTL

\* Locks are returned in every way out but the timeout of the endpoint.
THEOREM LocksAreOwned == Spec => []LockHasOwner
<1>1. EndpointInv => LockHasOwner
    BY DEF EndpointInv, TaskOwned, LockHasOwner
<1> QED
    BY <1>1, LookupInvariance, PTL
=============================================================================
