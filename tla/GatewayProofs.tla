---------------------------- MODULE GatewayProofs ----------------------------
(***************************************************************************)
(* Gateway for every set of requests, nodes and works, every group limit   *)
(* and every choice of the awaits at which a handler may be cancelled.     *)
(***************************************************************************)
EXTENDS Gateway, TLAPS, FiniteSetTheorems, SequenceTheorems

\* The phases of a handler whose assign() has returned a result.
Assigned ==
    {"opening", "refusing", "starting", "streaming", "yielded", "reading",
     "closing", "abandoned", "lost"}

\* The future of a request follows its handler, and a request has a target
\* exactly when its future has a result.
FutureInv ==
    \A r \in Requests :
        /\ phase[r] = "idle" => future[r] = "none"
        /\ future[r] = "none" => phase[r] \in {"idle", "done"}
        /\ phase[r] = "waiting" => future[r] \in {"pending", "result", "exception"}
        /\ phase[r] \in Assigned => future[r] = "result"
        /\ future[r] = "pending" => phase[r] = "waiting"
        /\ target[r] # None <=> future[r] = "result"

\* What the worker still has to plan has no result yet, and is queued once.
QueueInv ==
    /\ \A i \in DOMAIN queue : future[queue[i]] \in {"pending", "cancelled"}
    /\ \A i \in DOMAIN group : future[group[i]] \in {"pending", "cancelled"}
    /\ \A i, j \in DOMAIN queue : i # j => queue[i] # queue[j]
    /\ \A i \in DOMAIN group, j \in DOMAIN queue : group[i] # queue[j]

-----------------------------------------------------------------------------
\* Cutting a queue after m elements: what the two parts hold.
LEMMA CutSeq ==
    ASSUME NEW S, NEW s \in Seq(S), NEW m \in 0..Len(s)
    PROVE  /\ SubSeq(s, 1, m) \in Seq(S) /\ Len(SubSeq(s, 1, m)) = m
           /\ \A k \in 1..m : SubSeq(s, 1, m)[k] = s[k]
           /\ SubSeq(s, m + 1, Len(s)) \in Seq(S)
           /\ Len(SubSeq(s, m + 1, Len(s))) = Len(s) - m
           /\ \A k \in 1..(Len(s) - m) : SubSeq(s, m + 1, Len(s))[k] = s[k + m]
<1>1. Len(s) \in Nat /\ \A k \in 1..Len(s) : s[k] \in S
    OBVIOUS
<1>2. /\ SubSeq(s, 1, m) \in Seq(S) /\ Len(SubSeq(s, 1, m)) = m
      /\ \A k \in 1..m : SubSeq(s, 1, m)[k] = s[k]
  <2>1. 1 \in Int /\ m \in Int /\ \A k \in 1..m : s[k] \in S
      BY <1>1
  <2>2. /\ SubSeq(s, 1, m) \in Seq(S)
        /\ Len(SubSeq(s, 1, m)) = IF 1 <= m THEN m - 1 + 1 ELSE 0
        /\ \A k \in 1..(m - 1 + 1) : SubSeq(s, 1, m)[k] = s[1 + k - 1]
      BY <2>1, SubSeqProperties
  <2> QED
      BY <1>1, <2>2
<1>3. /\ SubSeq(s, m + 1, Len(s)) \in Seq(S)
      /\ Len(SubSeq(s, m + 1, Len(s))) = Len(s) - m
      /\ \A k \in 1..(Len(s) - m) : SubSeq(s, m + 1, Len(s))[k] = s[k + m]
  <2>1. m + 1 \in Int /\ Len(s) \in Int /\ \A k \in (m + 1)..Len(s) : s[k] \in S
      BY <1>1
  <2>2. /\ SubSeq(s, m + 1, Len(s)) \in Seq(S)
        /\ Len(SubSeq(s, m + 1, Len(s))) =
              IF m + 1 <= Len(s) THEN Len(s) - (m + 1) + 1 ELSE 0
        /\ \A k \in 1..(Len(s) - (m + 1) + 1) :
              SubSeq(s, m + 1, Len(s))[k] = s[m + 1 + k - 1]
      BY <2>1, SubSeqProperties
  <2> QED
      BY <1>1, <2>2
<1> QED
    BY <1>2, <1>3

LedgerLaws == INSTANCE ReservationLedgerProofs WITH load <- ledger

LEMMA SameCardinality ==
    /\ \A S : LedgerLaws!Cardinality(S) = Cardinality(S)
    /\ \A S : LedgerLaws!IsFiniteSet(S) <=> IsFiniteSet(S)
BY DEF LedgerLaws!Cardinality, Cardinality, LedgerLaws!IsFiniteSet, IsFiniteSet

LEMMA SameSum == \A f, S : LedgerLaws!SumOf(f, S) = SumOf(f, S)
BY DEF LedgerLaws!SumOf, SumOf, LedgerLaws!MapThenSumSet, MapThenSumSet,
       LedgerLaws!MapThenFoldSet, MapThenFoldSet

\* What is counted and summed over a set of requests is a natural number.
LEMMA Totals ==
    ASSUME NEW S \in SUBSET Requests, NEW w, \A r \in S : w[r] \in Nat
    PROVE  /\ IsFiniteSet(S)
           /\ Cardinality(S) \in Nat /\ (S = {} <=> Cardinality(S) = 0)
           /\ SumOf(w, S) \in Nat /\ (S = {} => SumOf(w, S) = 0)
<1>1. IsFiniteSet(S) /\ Cardinality(S) \in Nat /\ (S = {} <=> Cardinality(S) = 0)
    BY GatewayAssumption, FS_Subset, FS_CardinalityType, FS_EmptySet DEF GatewayAssumption
<1>2. LedgerLaws!SumOf(w, S) \in Nat
    BY <1>1, SameCardinality, LedgerLaws!SumNat
<1>3. S = {} => LedgerLaws!SumOf(w, S) = 0
    BY LedgerLaws!SumEmpty
<1> QED
    BY <1>1, <1>2, <1>3, SameSum

\* A sum over two disjoint sets of requests, and over one request.
LEMMA TotalOfUnion ==
    ASSUME NEW S \in SUBSET Requests, NEW T \in SUBSET Requests, S \cap T = {},
           NEW w, \A r \in S \cup T : w[r] \in Nat
    PROVE  /\ Cardinality(S \cup T) = Cardinality(S) + Cardinality(T)
           /\ SumOf(w, S \cup T) = SumOf(w, S) + SumOf(w, T)
<1>1. IsFiniteSet(S) /\ IsFiniteSet(T)
    BY GatewayAssumption, FS_Subset DEF GatewayAssumption
<1>2. Cardinality(S \cup T) = Cardinality(S) + Cardinality(T)
  <2>1. Cardinality(S \cup T) = Cardinality(S) + Cardinality(T) - Cardinality({})
      BY <1>1, FS_Union
  <2>2. Cardinality(S) \in Nat /\ Cardinality(T) \in Nat
      BY <1>1, FS_CardinalityType
  <2> QED
      BY <2>1, <2>2, FS_EmptySet
<1>3. \A r \in S \cup T : w[r] \in Int
    OBVIOUS
<1>4. LedgerLaws!SumOf(w, S \cup T) = LedgerLaws!SumOf(w, S) + LedgerLaws!SumOf(w, T)
    BY <1>1, <1>3, SameCardinality, LedgerLaws!SumUnion
<1> QED
    BY <1>2, <1>4, SameSum

LEMMA TotalOfOne ==
    ASSUME NEW r, NEW w, w[r] \in Nat
    PROVE  Cardinality({r}) = 1 /\ SumOf(w, {r}) = w[r]
<1>1. LedgerLaws!SumOf(w, {r}) = w[r]
    BY LedgerLaws!SumSingle
<1> QED
    BY <1>1, SameSum, FS_Singleton

\* release_route and reserve_route, counter by counter.
Loads == [Nodes -> [active : Nat, work : Nat]]

LEMMA Reserved ==
    ASSUME NEW l \in Loads, NEW on, NEW w, NEW S \in SUBSET Requests,
           \A r \in S : w[r] \in Nat
    PROVE  /\ reserve_route(l, on, w, S) \in Loads
           /\ \A n \in Nodes :
                LET mine == {r \in S : on[r] = n}
                IN  /\ reserve_route(l, on, w, S)[n].active = l[n].active + Cardinality(mine)
                    /\ reserve_route(l, on, w, S)[n].work = l[n].work + SumOf(w, mine)
<1> DEFINE mine(n) == {r \in S : on[r] = n}
           count(n) == Cardinality(mine(n))
           total(n) == SumOf(w, mine(n))
<1>1. \A n \in Nodes : count(n) \in Nat /\ total(n) \in Nat
    BY Totals
<1>2. reserve_route(l, on, w, S) =
         [n \in Nodes |-> [active |-> l[n].active + count(n), work |-> l[n].work + total(n)]]
    BY DEF reserve_route
<1> HIDE DEF count, total
<1>3. reserve_route(l, on, w, S) \in Loads
    BY <1>1, <1>2 DEF Loads
<1>4. \A n \in Nodes : /\ reserve_route(l, on, w, S)[n].active = l[n].active + count(n)
                       /\ reserve_route(l, on, w, S)[n].work = l[n].work + total(n)
    BY <1>2
<1> QED
    BY <1>3, <1>4 DEF count, total

\* What a release of c reservations of total work t leaves of a node's load.
Lessened(x, c, t) ==
    LET left == Monus(x.active, c)
    IN  [active |-> left, work |-> IF left = 0 THEN 0 ELSE Monus(x.work, t)]

LEMMA Released ==
    ASSUME NEW l \in Loads, NEW on, NEW w, NEW S \in SUBSET Requests,
           \A r \in S : w[r] \in Nat
    PROVE  /\ release_route(l, on, w, S) \in Loads
           /\ \A n \in Nodes :
                LET mine == {r \in S : on[r] = n}
                IN  release_route(l, on, w, S)[n] =
                       IF mine = {} THEN l[n]
                       ELSE Lessened(l[n], Cardinality(mine), SumOf(w, mine))
<1> DEFINE mine(n) == {r \in S : on[r] = n}
           count(n) == Cardinality(mine(n))
           total(n) == SumOf(w, mine(n))
           less(n) == Lessened(l[n], count(n), total(n))
<1>1. \A n \in Nodes : count(n) \in Nat /\ total(n) \in Nat
    BY Totals
<1>2. release_route(l, on, w, S) = [n \in Nodes |-> IF mine(n) = {} THEN l[n] ELSE less(n)]
    BY DEF release_route, Lessened
<1> HIDE DEF mine, count, total
<1>3. \A n \in Nodes : less(n) \in [active : Nat, work : Nat]
    BY <1>1 DEF Lessened, Monus, Loads
<1> HIDE DEF less
<1>4. release_route(l, on, w, S) \in Loads
    BY <1>2, <1>3 DEF Loads
<1>5. \A n \in Nodes :
         release_route(l, on, w, S)[n] = IF mine(n) = {} THEN l[n] ELSE less(n)
    BY <1>2
<1> QED
    BY <1>4, <1>5 DEF mine, count, total, less

\* CloseGroup moves the first requests of the queue to the end of the group.
LEMMA Moved ==
    ASSUME TypeOK, CloseGroup
    PROVE  \E more \in 0..Len(queue) :
              /\ queue' \in Seq(Requests) /\ Len(queue') = Len(queue) - more
              /\ \A i \in 1..Len(queue') : queue'[i] = queue[i + more]
              /\ group' \in Seq(Requests) /\ Len(group') = Len(group) + more
              /\ \A i \in 1..Len(group') :
                    group'[i] = IF i <= Len(group) THEN group[i] ELSE queue[i - Len(group)]
<1> DEFINE more == Min2(GroupLimit - 1, Len(queue))
           moved == SubSeq(queue, 1, more)
<1>1. queue \in Seq(Requests) /\ group \in Seq(Requests) /\ Len(group) \in Nat
    BY DEF TypeOK
<1>2. more \in 0..Len(queue)
    BY <1>1, GatewayAssumption DEF Min2, GatewayAssumption
<1>3. queue' = SubSeq(queue, more + 1, Len(queue)) /\ group' = group \o moved
    BY DEF CloseGroup
<1> HIDE DEF more
<1>4. /\ queue' \in Seq(Requests) /\ Len(queue') = Len(queue) - more
      /\ \A i \in 1..Len(queue') : queue'[i] = queue[i + more]
    BY <1>1, <1>2, <1>3, CutSeq
<1>5. /\ moved \in Seq(Requests) /\ Len(moved) = more
      /\ \A k \in 1..more : moved[k] = queue[k]
    BY <1>1, <1>2, CutSeq
<1> HIDE DEF moved
<1>6. /\ group' \in Seq(Requests) /\ Len(group') = Len(group) + more
      /\ \A i \in 1..(Len(group) + more) :
            group'[i] = IF i <= Len(group) THEN group[i] ELSE moved[i - Len(group)]
  <2>1. /\ group \o moved \in Seq(Requests)
        /\ Len(group \o moved) = Len(group) + Len(moved)
        /\ \A i \in 1..(Len(group) + Len(moved)) :
              (group \o moved)[i] = IF i <= Len(group) THEN group[i] ELSE moved[i - Len(group)]
      BY <1>1, <1>5, ConcatProperties
  <2> QED
      BY <1>3, <1>5, <2>1, Zenon
<1>7. \A i \in 1..(Len(group) + more) : ~(i <= Len(group)) => i - Len(group) \in 1..more
    BY <1>1, <1>2
<1> QED
    BY <1>2, <1>4, <1>5, <1>6, <1>7

\* TypeOK holds in the initial states and is preserved by every step.
LEMMA TypeInit == Init => TypeOK
<1> SUFFICES ASSUME Init PROVE TypeOK
    OBVIOUS
<1>1. queue \in Seq(Requests) /\ group \in Seq(Requests)
    BY DEF Init
<1> QED
    BY <1>1 DEF Init, TypeOK, Phases, AwaitPoints, Futures, Outcomes

LEMMA TypeStep == TypeOK /\ [Next]_vars => TypeOK'
<1> SUFFICES ASSUME TypeOK, [Next]_vars PROVE TypeOK'
    OBVIOUS
<1> USE GatewayAssumption DEF GatewayAssumption, TypeOK, Move, poolVars,
        routeVars, resultVars, bodyVars, Phases, AwaitPoints, Futures, Outcomes
<1>1. CASE TakeFirst
    BY <1>1 DEF TakeFirst
<1>2. CASE CloseGroup
  <2>1. group' \in Seq(Requests) /\ queue' \in Seq(Requests)
      BY <1>2, Moved
  <2>2. worker' = "planning" /\ UNCHANGED <<phase, future, routeVars, ledger, resultVars>>
      BY <1>2 DEF CloseGroup
  <2> QED
      BY <2>1, <2>2
<1>3. CASE FinishPlan
  <2>1. PICK pick \in [Members -> Nodes], w \in [Members -> Works] : Settle(pick, w)
      BY <1>3 DEF FinishPlan
  <2>2. Members \subseteq Requests
      BY DEF Members
  <2>3. Taken \subseteq Members
      BY DEF Taken
  <2>4. target' \in [Requests -> Nodes \cup {None}] /\ share' \in [Requests -> Nat]
      BY <2>1, <2>2, <2>3 DEF Settle
  <2>5. future' \in [Requests -> Futures]
      BY <2>1 DEF Settle
  <2>6. ledger' \in Loads
    <3> DEFINE reserved == reserve_route(ledger, pick, w, Members)
    <3>1. /\ \A r \in Members : w[r] \in Nat
          /\ Dropped \in SUBSET Requests /\ \A r \in Dropped : w[r] \in Nat
        BY <2>2 DEF Dropped
    <3>2. ledger \in Loads
        BY DEF Loads
    <3>3. reserved \in Loads
        BY <2>2, <3>1, <3>2, Reserved
    <3> HIDE DEF reserved
    <3>4. release_route(reserved, pick, w, Dropped) \in Loads
        BY <3>1, <3>3, Released
    <3> QED
        BY <2>1, <3>4 DEF Settle, reserved
  <2> QED
      BY <1>3, <2>4, <2>5, <2>6 DEF FinishPlan, Loads
<1>4. CASE FailPlan
    BY <1>4 DEF FailPlan
<1>5. CASE StopPool
    BY <1>5 DEF StopPool
<1>6. ASSUME NEW r \in Requests, Submit(r) PROVE TypeOK'
    BY <1>6 DEF Submit
<1>7. ASSUME NEW r \in Requests, Reject(r) PROVE TypeOK'
    BY <1>7 DEF Reject
<1>8. ASSUME NEW r \in Requests, Handler(r) PROVE TypeOK'
  <2>1. CASE Wake(r) \/ WakeFailed(r) \/ Open(r) \/ OpenRaises(r) \/ OpenFails(r)
      BY <2>1 DEF Wake, WakeFailed, Open, OpenRaises, OpenFails
  <2>2. CASE StartStream(r) \/ YieldChunk(r) \/ ChunkSent(r) \/ EndBody(r) \/ CollectGenerator(r)
      BY <2>2 DEF StartStream, YieldChunk, ChunkSent, EndBody, CollectGenerator
  <2>0. release_route(ledger, target, share, {r}) \in Loads
    <3>1. ledger \in Loads /\ {r} \in SUBSET Requests /\ \A s \in {r} : share[s] \in Nat
        BY <1>8 DEF Loads
    <3> QED
        BY <3>1, Released
  <2>3. CASE Refuse(r)
      BY <2>3, <2>0 DEF Refuse, Loads
  <2>4. CASE Finalize(r)
      BY <2>4, <2>0 DEF Finalize, Loads
  <2> QED
      BY <1>8, <2>1, <2>2, <2>3, <2>4 DEF Handler
<1>9. ASSUME NEW r \in Requests, Cancel(r) PROVE TypeOK'
    BY <1>9 DEF Cancel, CancelWaiting, CancelWaking, CancelUncovered, CancelReading, CancelSending
<1>10. CASE UNCHANGED vars \/ Terminated
    BY <1>10 DEF vars, Terminated
<1> QED
    BY <1>1, <1>2, <1>3, <1>4, <1>5, <1>6, <1>7, <1>8, <1>9, <1>10 DEF Next, Pool

\* The worker only ever owns requests that are still unanswered or cancelled,
\* each of them once, and a handler beyond assign() has a target.
LEMMA LifeInit == Init => FutureInv /\ QueueInv
    BY GatewayAssumption DEF Init, FutureInv, QueueInv, Assigned, GatewayAssumption

LEMMA FutureStep ==
    TypeOK /\ FutureInv /\ QueueInv /\ [Next]_vars => FutureInv'
<1> SUFFICES ASSUME TypeOK, FutureInv, QueueInv, [Next]_vars PROVE FutureInv'
    OBVIOUS
<1> USE DEF TypeOK, FutureInv, Assigned, Move, poolVars, routeVars, resultVars,
        bodyVars, Phases, AwaitPoints, Futures
<1>1. CASE TakeFirst \/ CloseGroup \/ StopPool \/ UNCHANGED vars \/ Terminated
    BY <1>1 DEF TakeFirst, CloseGroup, StopPool, vars, Terminated
<1>2. CASE FinishPlan
  <2>1. PICK pick \in [Members -> Nodes], w \in [Members -> Works] : Settle(pick, w)
      BY <1>2 DEF FinishPlan
  <2>2. Taken \subseteq Members /\ \A r \in Taken : future[r] = "pending"
      BY DEF Taken, Dropped, Members, QueueInv
  <2>3. \A r \in Taken : pick[r] # None
      BY <2>2, GatewayAssumption DEF GatewayAssumption
  <2> QED
      BY <1>2, <2>1, <2>2, <2>3 DEF FinishPlan, Settle
<1>3. CASE FailPlan
    BY <1>3 DEF FailPlan
<1>4. ASSUME NEW r \in Requests, Submit(r) \/ Reject(r) PROVE FutureInv'
    BY <1>4 DEF Submit, Reject
<1>5. ASSUME NEW r \in Requests, Handler(r) PROVE FutureInv'
  <2>1. CASE Wake(r) \/ WakeFailed(r) \/ Open(r) \/ OpenRaises(r) \/ OpenFails(r) \/ Refuse(r) \/ Finalize(r)
      BY <2>1 DEF Wake, WakeFailed, Open, OpenRaises, OpenFails, Refuse, Finalize
  <2>2. CASE StartStream(r) \/ YieldChunk(r) \/ ChunkSent(r) \/ EndBody(r) \/ CollectGenerator(r)
      BY <2>2 DEF StartStream, YieldChunk, ChunkSent, EndBody, CollectGenerator
  <2> QED
      BY <1>5, <2>1, <2>2 DEF Handler
<1>6. ASSUME NEW r \in Requests, Cancel(r) PROVE FutureInv'
    BY <1>6 DEF Cancel, CancelWaiting, CancelWaking, CancelUncovered, CancelReading, CancelSending
<1> QED
    BY <1>1, <1>2, <1>3, <1>4, <1>5, <1>6 DEF Next, Pool

LEMMA QueueStep ==
    TypeOK /\ FutureInv /\ QueueInv /\ [Next]_vars => QueueInv'
<1> SUFFICES ASSUME TypeOK, FutureInv, QueueInv, [Next]_vars PROVE QueueInv'
    OBVIOUS
<1> USE DEF TypeOK, QueueInv, Move, poolVars, routeVars, resultVars, bodyVars
<1>1. CASE TakeFirst
  <2>1. /\ queue' = Tail(queue) /\ queue # <<>>
        /\ group' = <<queue[1]>>
        /\ future' = future
      BY <1>1 DEF TakeFirst
  <2>2. /\ DOMAIN queue' = 1..(Len(queue) - 1)
        /\ \A i \in 1..(Len(queue) - 1) : queue'[i] = queue[i + 1]
        /\ 1 \in DOMAIN queue
      BY <2>1
  <2>3. DOMAIN group' = {1} /\ group'[1] = queue[1]
      BY <2>1
  <2>4. \A i \in DOMAIN queue' : i + 1 \in DOMAIN queue /\ i + 1 # 1
      BY <2>2
  <2> QED
      BY <2>1, <2>2, <2>3, <2>4
<1>2. CASE CloseGroup
  <2>0. PICK more \in 0..Len(queue) :
          /\ queue' \in Seq(Requests) /\ Len(queue') = Len(queue) - more
          /\ \A i \in 1..Len(queue') : queue'[i] = queue[i + more]
          /\ group' \in Seq(Requests) /\ Len(group') = Len(group) + more
          /\ \A i \in 1..Len(group') :
                group'[i] = IF i <= Len(group) THEN group[i] ELSE queue[i - Len(group)]
      BY <1>2, Moved
  <2>1. more \in 0..Len(queue)
      OBVIOUS
  <2>2. future' = future
      BY <1>2 DEF CloseGroup
  <2>3. /\ queue' \in Seq(Requests) /\ Len(queue') = Len(queue) - more
        /\ \A i \in 1..Len(queue') : queue'[i] = queue[i + more]
      BY <2>0
  <2>4. /\ group' \in Seq(Requests) /\ Len(group') = Len(group) + more
        /\ \A i \in 1..Len(group') :
              group'[i] = IF i <= Len(group) THEN group[i] ELSE queue[i - Len(group)]
      BY <2>0
  <2>5. DOMAIN queue' = 1..Len(queue') /\ DOMAIN group' = 1..Len(group')
    <3> HIDE DEF TypeOK, QueueInv
    <3> QED
        BY <2>3, <2>4
  <2>6. \A i \in DOMAIN queue' : i + more \in DOMAIN queue /\ queue'[i] = queue[i + more]
    <3>1. DOMAIN queue = 1..Len(queue) /\ Len(queue) \in Nat
        OBVIOUS
    <3> HIDE DEF TypeOK, QueueInv
    <3> QED
        BY <2>1, <2>3, <2>5, <3>1
  <2>7. \A i \in DOMAIN group' :
           \/ i \in DOMAIN group /\ group'[i] = group[i]
           \/ \E k \in 1..more : k \in DOMAIN queue /\ group'[i] = queue[k]
    <3>1. Len(group) \in Nat /\ DOMAIN group = 1..Len(group)
        OBVIOUS
    <3>2. more \in Nat /\ 1..more \subseteq DOMAIN queue
        BY <2>1
    <3> SUFFICES ASSUME NEW i \in 1..(Len(group) + more)
                 PROVE  \/ i \in DOMAIN group /\ group'[i] = group[i]
                        \/ \E k \in 1..more : k \in DOMAIN queue /\ group'[i] = queue[k]
        BY <2>4, <2>5
    <3> HIDE DEF TypeOK, QueueInv
    <3>3. group'[i] = IF i <= Len(group) THEN group[i] ELSE queue[i - Len(group)]
        BY <2>4
    <3>4. CASE i <= Len(group)
        BY <3>1, <3>3, <3>4
    <3>5. CASE ~(i <= Len(group))
      <4>1. i - Len(group) \in 1..more
          BY <3>1, <3>2, <3>5
      <4> QED
          BY <3>2, <3>3, <3>5, <4>1
    <3> QED
        BY <3>4, <3>5
  <2>8. \A i \in DOMAIN queue : future'[queue[i]] \in {"pending", "cancelled"}
      BY <2>2
  <2>9. \A i \in DOMAIN queue', j \in DOMAIN queue' : i # j => queue'[i] # queue'[j]
      BY <2>1, <2>5, <2>6
  <2>10. \A i \in DOMAIN group', j \in DOMAIN queue' : group'[i] # queue'[j]
    <3> SUFFICES ASSUME NEW i \in DOMAIN group', NEW j \in DOMAIN queue'
                 PROVE  group'[i] # queue'[j]
        OBVIOUS
    <3>1. CASE i \in DOMAIN group /\ group'[i] = group[i]
        BY <3>1, <2>6
    <3>2. ASSUME NEW k \in 1..more, k \in DOMAIN queue, group'[i] = queue[k]
          PROVE  group'[i] # queue'[j]
        BY <3>2, <2>1, <2>5, <2>6
    <3> QED
        BY <3>1, <3>2, <2>7
  <2> QED
      BY <2>2, <2>6, <2>7, <2>8, <2>9, <2>10
<1>3. CASE FinishPlan
  <2>1. PICK pick \in [Members -> Nodes], w \in [Members -> Works] : Settle(pick, w)
      BY <1>3 DEF FinishPlan
  <2>2. \A j \in DOMAIN queue : queue[j] \in Requests /\ queue[j] \notin Taken
      BY DEF Taken, Members
  <2> QED
      BY <1>3, <2>1, <2>2 DEF FinishPlan, Settle
<1>4. CASE FailPlan
  <2>1. \A j \in DOMAIN queue : queue[j] \in Requests /\ queue[j] \notin Members
      BY DEF Members
  <2> QED
      BY <1>4, <2>1 DEF FailPlan
<1>5. CASE StopPool \/ UNCHANGED vars \/ Terminated
    BY <1>5 DEF StopPool, vars, Terminated
<1>6. ASSUME NEW r \in Requests, Submit(r) PROVE QueueInv'
  <2>1. future[r] = "none"
      BY <1>6 DEF Submit, FutureInv
  <2>2. /\ \A i \in DOMAIN queue : queue[i] # r
        /\ \A i \in DOMAIN group : group[i] # r
      BY <2>1
  <2>3. /\ queue' = Append(queue, r) /\ group' = group
        /\ future' = [future EXCEPT ![r] = "pending"]
      BY <1>6 DEF Submit
  <2>4. /\ Len(queue') = Len(queue) + 1
        /\ \A i \in DOMAIN queue' :
              \/ i = Len(queue) + 1 /\ queue'[i] = r
              \/ i \in DOMAIN queue /\ queue'[i] = queue[i]
      BY <2>3
  <2>5. future'[r] = "pending" /\ \A s \in Requests : s # r => future'[s] = future[s]
      BY <2>3
  <2>6. \A i \in DOMAIN queue : queue[i] \in Requests
      OBVIOUS
  <2>7. \A i \in DOMAIN group : group[i] \in Requests
      OBVIOUS
  <2> QED
      BY <2>2, <2>3, <2>4, <2>5, <2>6, <2>7
<1>7. ASSUME NEW r \in Requests, Reject(r) \/ Handler(r) PROVE QueueInv'
    BY <1>7 DEF Reject, Handler, Wake, WakeFailed, Open, OpenRaises, OpenFails, Refuse, Finalize,
                StartStream, YieldChunk, ChunkSent, EndBody, CollectGenerator
<1>8. ASSUME NEW r \in Requests, Cancel(r) PROVE QueueInv'
  <2>1. UNCHANGED <<queue, group>>
      BY <1>8 DEF Cancel, CancelWaiting, CancelWaking, CancelUncovered, CancelReading, CancelSending
  <2>2. future' = future \/ future' = [future EXCEPT ![r] = "cancelled"]
      BY <1>8 DEF Cancel, CancelWaiting, CancelWaking, CancelUncovered, CancelReading, CancelSending
  <2>3. \A s \in Requests : future'[s] = future[s] \/ future'[s] = "cancelled"
      BY <2>2
  <2>4. /\ \A i \in DOMAIN queue : queue[i] \in Requests
        /\ \A i \in DOMAIN group : group[i] \in Requests
      OBVIOUS
  <2> QED
      BY <2>1, <2>3, <2>4
<1> QED
    BY <1>1, <1>2, <1>3, <1>4, <1>5, <1>6, <1>7, <1>8 DEF Next, Pool

-----------------------------------------------------------------------------
GatewayInv == TypeOK /\ FutureInv /\ QueueInv /\ LedgerLaws!Balanced

LEMMA HeldLoad ==
    GatewayInv => \A n \in Nodes :
        /\ ledger[n].active = Cardinality(LedgerLaws!HeldOn(n))
        /\ ledger[n].work = SumOf(share, LedgerLaws!HeldOn(n))
<1> SUFFICES ASSUME GatewayInv, NEW n \in Nodes
             PROVE  /\ ledger[n].active = Cardinality(LedgerLaws!HeldOn(n))
                    /\ ledger[n].work = SumOf(share, LedgerLaws!HeldOn(n))
    OBVIOUS
<1> DEFINE count == LedgerLaws!Cardinality(LedgerLaws!HeldOn(n))
           total == LedgerLaws!SumOf(share, LedgerLaws!HeldOn(n))
<1>1. ledger[n] = [active |-> count, work |-> total]
    BY DEF GatewayInv, LedgerLaws!Balanced
<1>2. count = Cardinality(LedgerLaws!HeldOn(n)) /\ total = SumOf(share, LedgerLaws!HeldOn(n))
    BY SameCardinality, SameSum
<1> HIDE DEF count, total
<1> QED
    BY <1>1, <1>2

LEMMA LedgerState == TypeOK => LedgerLaws!TypeOK
    BY DEF TypeOK, LedgerLaws!TypeOK, held, served, Holding

LEMMA RefineInit == Init => LedgerLaws!Init
    BY DEF Init, LedgerLaws!Init, held, served, Holding

\* Every step is a step of the ledger or leaves it unchanged: only planning
\* reserves, only Refuse and Finalize release, and they release what is held.
LEMMA RefineStep ==
    GatewayInv /\ [Next]_vars => [LedgerLaws!Next]_(LedgerLaws!vars)
<1> SUFFICES ASSUME GatewayInv, [Next]_vars
             PROVE  LedgerLaws!Next \/ UNCHANGED <<held, served, share, ledger>>
    BY DEF LedgerLaws!vars
<1> USE DEF GatewayInv
<1>1. CASE TakeFirst \/ CloseGroup \/ FailPlan \/ StopPool \/ UNCHANGED vars \/ Terminated
    BY <1>1 DEF TakeFirst, CloseGroup, FailPlan, StopPool, vars, Terminated, held, served,
                Holding, routeVars
<1>2. CASE FinishPlan
  <2>1. PICK pick \in [Members -> Nodes], w \in [Members -> Works] : Settle(pick, w)
      BY <1>2 DEF FinishPlan
  <2>2. Members \in SUBSET Requests /\ Taken \in SUBSET Members /\ Dropped = Members \ Taken
      BY DEF Members, Taken, Dropped, TypeOK
  <2>3. \A r \in Taken : target[r] = None /\ phase[r] = "waiting"
      BY <2>2 DEF Taken, Dropped, Members, QueueInv, FutureInv
  <2>4. \A r \in Taken : pick[r] \in Nodes /\ pick[r] # None
      BY <2>2, GatewayAssumption DEF GatewayAssumption
  <2>5. /\ target' = [r \in Requests |-> IF r \in Taken THEN pick[r] ELSE target[r]]
        /\ phase' = phase
      BY <1>2, <2>1 DEF FinishPlan, Settle
  <2> DEFINE to == [r \in Taken |-> pick[r]]
             sent == [r \in Taken |-> w[r]]
  <2>6. held' = [r \in Requests |-> IF r \in Taken THEN to[r] ELSE held[r]]
      BY <2>2, <2>3, <2>4, <2>5 DEF held, Holding
  <2>7. served' = served \cup Taken /\ Taken \cap served = {}
      BY <2>2, <2>3, <2>4, <2>5 DEF served
  <2>8. share' = [r \in Requests |-> IF r \in Taken THEN sent[r] ELSE share[r]]
      BY <2>1, <2>2 DEF Settle
  <2>9. ASSUME NEW n \in Nodes
        PROVE  LET new == {r \in Taken : to[r] = n}
               IN  /\ ledger'[n].active = ledger[n].active + Cardinality(new)
                   /\ ledger'[n].work = ledger[n].work + SumOf(sent, new)
                   /\ Cardinality(new) \in Nat /\ SumOf(sent, new) \in Nat
                   /\ new = {} => Cardinality(new) = 0 /\ SumOf(sent, new) = 0
    <3> DEFINE all == {r \in Members : pick[r] = n}
               take == {r \in Taken : to[r] = n}
               drop == {r \in Dropped : pick[r] = n}
               reserved == reserve_route(ledger, pick, w, Members)
               settled == release_route(reserved, pick, w, Dropped)
    <3>1. all = take \cup drop /\ take \cap drop = {}
        BY <2>2
    <3>2. /\ take \in SUBSET Requests /\ drop \in SUBSET Requests
          /\ \A r \in take \cup drop : w[r] \in Nat
          /\ \A r \in Members : w[r] \in Nat
        BY <2>2, GatewayAssumption DEF GatewayAssumption
    <3>3. SumOf(sent, take) = SumOf(w, take)
      <4>1. \A r \in take : sent[r] \in Int /\ sent[r] = w[r]
        <5>1. \A r \in Taken : sent[r] = w[r]
            OBVIOUS
        <5>2. take \subseteq Taken /\ \A r \in take : w[r] \in Nat
            BY <3>2
        <5> HIDE DEF take, sent
        <5> QED
            BY <5>1, <5>2
      <4>2. IsFiniteSet(take)
        <5>1. take \in SUBSET Requests /\ \A r \in take : w[r] \in Nat
            BY <3>2
        <5> HIDE DEF take
        <5> QED
            BY <5>1, Totals
      <4> HIDE DEF take, sent
      <4>3. LedgerLaws!SumOf(sent, take) = LedgerLaws!SumOf(w, take)
          BY <4>1, <4>2, SameCardinality, LedgerLaws!SumAgree
      <4> QED
          BY <4>3, SameSum
    <3>4. ledger \in Loads /\ ledger[n].active \in Nat /\ ledger[n].work \in Nat
        BY DEF TypeOK, Loads
    <3>5. /\ reserved \in Loads
          /\ reserved[n].active = ledger[n].active + Cardinality(all)
          /\ reserved[n].work = ledger[n].work + SumOf(w, all)
        BY <2>2, <3>2, <3>4, Reserved
    <3>6. Dropped \in SUBSET Requests /\ \A r \in Dropped : w[r] \in Nat
        BY <2>2, <3>2
    <3> HIDE DEF reserved
    <3>7. settled[n] = IF drop = {} THEN reserved[n]
                       ELSE Lessened(reserved[n], Cardinality(drop), SumOf(w, drop))
        BY <3>5, <3>6, Released
    <3>8. ledger' = settled
        BY <2>1 DEF Settle, reserved
    <3>9. ledger[n].active = 0 => ledger[n].work = 0
      <4>1. LedgerLaws!HeldOn(n) \in SUBSET Requests /\ \A r \in LedgerLaws!HeldOn(n) : share[r] \in Nat
          BY DEF LedgerLaws!HeldOn, TypeOK
      <4> QED
          BY <4>1, HeldLoad, Totals
    <3> HIDE DEF all, take, drop, settled
    <3>10. /\ Cardinality(take) \in Nat /\ (take = {} <=> Cardinality(take) = 0)
           /\ SumOf(w, take) \in Nat /\ (take = {} => SumOf(w, take) = 0)
           /\ Cardinality(drop) \in Nat /\ (drop = {} <=> Cardinality(drop) = 0)
           /\ SumOf(w, drop) \in Nat /\ (drop = {} => SumOf(w, drop) = 0)
        BY <3>2, Totals
    <3>11. /\ Cardinality(all) = Cardinality(take) + Cardinality(drop)
           /\ SumOf(w, all) = SumOf(w, take) + SumOf(w, drop)
        BY <3>1, <3>2, TotalOfUnion
    <3>12. /\ ledger'[n].active = ledger[n].active + Cardinality(take)
           /\ ledger'[n].work = ledger[n].work + SumOf(w, take)
        BY <3>4, <3>5, <3>7, <3>8, <3>9, <3>10, <3>11 DEF Monus, Lessened
    <3> QED
        BY <3>3, <3>10, <3>12 DEF take
  <2>10. ledger' \in Loads /\ ledger \in Loads
      BY <1>2, TypeStep DEF TypeOK, Loads
  <2>11. ledger' = [n \in Nodes |->
              LET new == {r \in Taken : to[r] = n}
              IN  [active |-> ledger[n].active + Cardinality(new),
                   work   |-> ledger[n].work + SumOf(sent, new)]]
    <3> DEFINE count(n) == Cardinality({r \in Taken : to[r] = n})
               total(n) == SumOf(sent, {r \in Taken : to[r] = n})
    <3>1. \A n \in Nodes : /\ ledger'[n].active = ledger[n].active + count(n)
                           /\ ledger'[n].work = ledger[n].work + total(n)
        BY <2>9
    <3> HIDE DEF count, total
    <3>2. ledger' = [n \in Nodes |-> [active |-> ledger[n].active + count(n),
                                      work   |-> ledger[n].work + total(n)]]
        BY <2>10, <3>1 DEF Loads
    <3> QED
        BY <3>2 DEF count, total
  <2>12. CASE Taken = {}
    <3>1. \A n \in Nodes : ledger'[n].active = ledger[n].active /\ ledger'[n].work = ledger[n].work
      <4>1. ASSUME NEW n \in Nodes
            PROVE  ledger'[n].active = ledger[n].active /\ ledger'[n].work = ledger[n].work
        <5>1. {r \in Taken : to[r] = n} = {}
            BY <2>12
        <5>2. /\ ledger'[n].active = ledger[n].active + 0
              /\ ledger'[n].work = ledger[n].work + 0
            BY <2>9, <5>1
        <5> QED
            BY <2>10, <5>2 DEF Loads
      <4> QED
          BY <4>1
    <3>2. ledger' = ledger
        BY <2>10, <3>1 DEF Loads
    <3> QED
        BY <2>6, <2>7, <2>8, <2>12, <3>2 DEF held, TypeOK
  <2>13. CASE Taken # {}
    <3>1. /\ Taken \in SUBSET (Requests \ served) /\ to \in [Taken -> Nodes]
          /\ sent \in [Taken -> Works]
        BY <2>2, <2>4, <2>7
    <3>2. ledger' = [n \in Nodes |->
              LET new == {r \in Taken : to[r] = n}
              IN  [active |-> ledger[n].active + LedgerLaws!Cardinality(new),
                   work   |-> ledger[n].work + LedgerLaws!SumOf(sent, new)]]
        BY <2>11, SameCardinality, SameSum
    <3> HIDE DEF to, sent
    <3> QED
        BY <2>6, <2>7, <2>8, <2>13, <3>1, <3>2 DEF LedgerLaws!Next, LedgerLaws!Reserve
  <2> QED
      BY <2>12, <2>13
<1>3. ASSUME NEW r \in Requests, Submit(r) \/ Reject(r) \/ WakeFailed(r)
      PROVE  UNCHANGED <<held, served, share, ledger>>
  <2>1. UNCHANGED <<target, share, ledger>>
      BY <1>3 DEF Submit, Reject, WakeFailed, routeVars
  <2>2. target[r] = None
      BY <1>3 DEF Submit, Reject, WakeFailed, Move, FutureInv
  <2>3. \A s \in Requests \ {r} : phase'[s] = phase[s]
      BY <1>3 DEF Submit, Reject, WakeFailed, Move, TypeOK
  <2> QED
      BY <2>1, <2>2, <2>3 DEF held, served, Holding
<1>4. ASSUME NEW r \in Requests,
             \/ Wake(r) \/ Open(r) \/ OpenRaises(r) \/ OpenFails(r) \/ StartStream(r) \/ YieldChunk(r)
             \/ ChunkSent(r) \/ EndBody(r) \/ CollectGenerator(r)
      PROVE  UNCHANGED <<held, served, share, ledger>>
  <2>1. UNCHANGED <<target, share, ledger>>
      BY <1>4 DEF Wake, Open, OpenRaises, OpenFails, StartStream, YieldChunk, ChunkSent, EndBody,
                  CollectGenerator, routeVars
  <2>2. \A s \in Requests : phase'[s] = "done" <=> phase[s] = "done"
      BY <1>4 DEF Wake, Open, OpenRaises, OpenFails, StartStream, YieldChunk, ChunkSent, EndBody,
                  CollectGenerator, Move, TypeOK
  <2> QED
      BY <2>1, <2>2 DEF held, served, Holding
<1>5. ASSUME NEW r \in Requests, Cancel(r) PROVE UNCHANGED <<held, served, share, ledger>>
  <2>1. UNCHANGED <<target, share, ledger>>
      BY <1>5 DEF Cancel, CancelWaiting, CancelWaking, CancelUncovered, CancelReading,
                  CancelSending, routeVars
  <2>2. \A s \in Requests : target[s] = None \/ (phase'[s] = "done" <=> phase[s] = "done")
      BY <1>5 DEF Cancel, CancelWaiting, CancelWaking, CancelUncovered, CancelReading,
                  CancelSending, Move, TypeOK, FutureInv
  <2> QED
      BY <2>1, <2>2 DEF held, served, Holding
<1>6. ASSUME NEW r \in Requests, Refuse(r) \/ Finalize(r) PROVE LedgerLaws!Release(r)
  <2>1. PICK n \in Nodes : n = target[r]
      BY <1>6 DEF Refuse, Finalize, Move, FutureInv, Assigned, TypeOK
  <2>2. /\ phase[r] # "done"
        /\ phase' = [phase EXCEPT ![r] = "done"]
        /\ ledger' = release_route(ledger, target, share, {r})
        /\ target' = target
      BY <1>6 DEF Refuse, Finalize, Move, routeVars
  <2>3. held[r] = n /\ n # None
      BY <2>1, <2>2, GatewayAssumption DEF held, Holding, GatewayAssumption
  <2>4. held' = [held EXCEPT ![r] = None] /\ served' = served /\ share' = share
      BY <1>6, <2>2 DEF held, served, Holding, TypeOK, Refuse, Finalize, routeVars
  <2> DEFINE holders == LedgerLaws!HeldOn(n)
             rest == holders \ {r}
  <2>5. /\ holders = rest \cup {r} /\ rest \cap {r} = {}
        /\ rest \in SUBSET Requests /\ {r} \in SUBSET Requests
        /\ \A s \in Requests : share[s] \in Nat
      BY <2>3 DEF LedgerLaws!HeldOn, TypeOK
  <2>6. /\ ledger[n].active = Cardinality(holders)
        /\ ledger[n].work = SumOf(share, holders)
      BY HeldLoad
  <2> HIDE DEF holders, rest
  <2>7. /\ ledger[n].active = Cardinality(rest) + 1
        /\ ledger[n].work = SumOf(share, rest) + share[r]
        /\ Cardinality(rest) \in Nat /\ SumOf(share, rest) \in Nat /\ share[r] \in Nat
        /\ Cardinality(rest) = 0 => SumOf(share, rest) = 0
    <3>1. Cardinality({r}) = 1 /\ SumOf(share, {r}) = share[r]
        BY <2>5, TotalOfOne
    <3>2. /\ Cardinality(rest \cup {r}) = Cardinality(rest) + Cardinality({r})
          /\ SumOf(share, rest \cup {r}) = SumOf(share, rest) + SumOf(share, {r})
        BY <2>5, TotalOfUnion
    <3>3. /\ Cardinality(rest) \in Nat /\ SumOf(share, rest) \in Nat
          /\ Cardinality(rest) = 0 => SumOf(share, rest) = 0
        BY <2>5, Totals
    <3> QED
        BY <2>5, <2>6, <3>1, <3>2, <3>3
  <2>8. ledger \in Loads /\ ledger' \in Loads
      BY <1>6, TypeStep DEF TypeOK, Loads, Next, Handler
  <2>9. \A m \in Nodes : {s \in {r} : target[s] = m} = IF m = n THEN {r} ELSE {}
      BY <2>1
  <2>10. /\ \A m \in Nodes \ {n} : ledger'[m] = ledger[m]
         /\ ledger'[n].active = Monus(ledger[n].active, 1)
         /\ ledger'[n].work = IF Monus(ledger[n].active, 1) = 0 THEN 0
                              ELSE Monus(ledger[n].work, share[r])
    <3> DEFINE mine(m) == {s \in {r} : target[s] = m}
               after == release_route(ledger, target, share, {r})
    <3>1. \A m \in Nodes :
             after[m] = IF mine(m) = {} THEN ledger[m]
                        ELSE Lessened(ledger[m], Cardinality(mine(m)), SumOf(share, mine(m)))
      <4>1. ledger \in Loads /\ {r} \in SUBSET Requests /\ \A q \in {r} : share[q] \in Nat
          BY <2>5, <2>8
      <4> QED
          BY <4>1, Released
    <3>2. mine(n) = {r} /\ \A m \in Nodes \ {n} : mine(m) = {}
        BY <2>9
    <3>3. Cardinality({r}) = 1 /\ SumOf(share, {r}) = share[r]
        BY <2>5, TotalOfOne
    <3> HIDE DEF mine, after
    <3>4. \A m \in Nodes \ {n} : after[m] = ledger[m]
        BY <3>1, <3>2
    <3>5. after[n] = Lessened(ledger[n], 1, share[r])
        BY <2>1, <3>1, <3>2, <3>3
    <3> QED
        BY <2>2, <3>4, <3>5 DEF after, Lessened
  <2>11. /\ ledger'[n].active = ledger[n].active - 1
         /\ ledger'[n].work = ledger[n].work - share[r]
      BY <2>7, <2>10 DEF Monus
  <2>12. ledger' = [ledger EXCEPT ![held[r]] = [active |-> @.active - 1, work |-> @.work - share[r]]]
    <3>1. ledger'[n] = [active |-> ledger[n].active - 1, work |-> ledger[n].work - share[r]]
        BY <2>1, <2>8, <2>11 DEF Loads
    <3> QED
        BY <2>1, <2>3, <2>8, <2>10, <3>1 DEF Loads
  <2> QED
      BY <2>3, <2>4, <2>12 DEF LedgerLaws!Release
<1> QED
    BY <1>1, <1>2, <1>3, <1>4, <1>5, <1>6 DEF Next, Pool, Handler, LedgerLaws!Next

-----------------------------------------------------------------------------
\* The inductive invariant: the types, who owns a request that is not yet
\* answered, and the balance that makes the clamps of release_route inactive.
LEMMA GatewayInvariant == Spec => []GatewayInv
<1>0. LedgerLaws!Finite
    BY GatewayAssumption, SameCardinality DEF GatewayAssumption, LedgerLaws!Finite
<1>1. Init => GatewayInv
    BY <1>0, TypeInit, LifeInit, RefineInit, LedgerLaws!LedgerInit DEF GatewayInv
<1>2. GatewayInv /\ [Next]_vars => GatewayInv'
    BY <1>0, TypeStep, FutureStep, QueueStep, RefineStep, LedgerState,
       LedgerLaws!LedgerStep DEF GatewayInv
<1> QED
    BY <1>1, <1>2, PTL DEF Spec

\* Every variable stays in its type, whatever the requests, nodes and limits.
THEOREM TypeCorrect == Spec => []TypeOK
    BY GatewayInvariant, PTL DEF GatewayInv

LEMMA HoldersHold == \A n \in Nodes : HoldersOf(n) = LedgerLaws!HeldOn(n)
    BY GatewayAssumption DEF HoldersOf, LedgerLaws!HeldOn, held, Holding, GatewayAssumption

\* router_active_requests of a node is always the number of handlers that
\* obtained a reservation on it and have not released it, for every
\* interleaving of planning, cancellation, failure and streaming.
THEOREM ReservationsStayBalanced == Spec => []ReservationsBalanced
<1>1. GatewayInv => ReservationsBalanced
  <2> SUFFICES ASSUME GatewayInv, NEW n \in Nodes
               PROVE  ledger[n].active = Cardinality(HoldersOf(n))
      BY DEF ReservationsBalanced
  <2> QED
      BY HoldersHold, HeldLoad
<1> QED
    BY <1>1, GatewayInvariant, PTL

\* router_inflight_work of a node is always the work of those handlers: no
\* clamp and no reset of release_route takes the work of a live one, and what
\* was reserved for a cancelled member of a group is given back whole.
THEOREM WorkStaysBalanced == Spec => []WorkBalanced
<1>1. GatewayInv => WorkBalanced
  <2> SUFFICES ASSUME GatewayInv, NEW n \in Nodes
               PROVE  ledger[n].work = SumOf(share, HoldersOf(n))
      BY DEF WorkBalanced
  <2> QED
      BY HoldersHold, HeldLoad
<1> QED
    BY <1>1, GatewayInvariant, PTL

LEMMA SameLedger ==
    /\ Ledger!Init <=> LedgerLaws!Init
    /\ [Ledger!Next]_(Ledger!vars) <=> [LedgerLaws!Next]_(LedgerLaws!vars)
<1>1. Ledger!Reserve <=> LedgerLaws!Reserve
    BY DEF Ledger!Reserve, LedgerLaws!Reserve, Ledger!Cardinality, LedgerLaws!Cardinality,
           Ledger!SumOf, LedgerLaws!SumOf, Ledger!MapThenSumSet, LedgerLaws!MapThenSumSet,
           Ledger!MapThenFoldSet, LedgerLaws!MapThenFoldSet
<1>2. \A r \in Requests : Ledger!Release(r) <=> LedgerLaws!Release(r)
    BY DEF Ledger!Release, LedgerLaws!Release
<1>3. Ledger!Next <=> LedgerLaws!Next
    BY <1>1, <1>2 DEF Ledger!Next, LedgerLaws!Next
<1> QED
    BY <1>3 DEF Ledger!Init, LedgerLaws!Init, Ledger!vars, LedgerLaws!vars

\* The router implements ReservationLedger.
THEOREM GatewayImplementsLedger == Spec => ImplementsLedger
<1>1. Init => Ledger!Init
    BY RefineInit, SameLedger
<1>2. GatewayInv /\ [Next]_vars => [Ledger!Next]_(Ledger!vars)
    BY RefineStep, SameLedger
<1> QED
    BY <1>1, <1>2, GatewayInvariant, PTL DEF Spec, ImplementsLedger, Ledger!Spec

-----------------------------------------------------------------------------
(* Ownership of the requests that wait.                                    *)

\* A pending request is in the queue or in the group of a running worker, and
\* the group has no request twice.
OwnedInv ==
    /\ \A i, j \in DOMAIN group : i # j => group[i] # group[j]
    /\ worker \in {"idle", "stopped"} => group = <<>>
    /\ \A r \in Requests : future[r] = "pending" =>
          /\ worker # "stopped"
          /\ (\E i \in DOMAIN queue : queue[i] = r) \/ (\E i \in DOMAIN group : group[i] = r)

LEMMA OwnedInit == Init => OwnedInv
    BY DEF Init, OwnedInv

LEMMA OwnedStep ==
    TypeOK /\ FutureInv /\ QueueInv /\ OwnedInv /\ [Next]_vars => OwnedInv'
<1> SUFFICES ASSUME TypeOK, FutureInv, QueueInv, OwnedInv, [Next]_vars PROVE OwnedInv'
    OBVIOUS
<1>0. queue \in Seq(Requests) /\ group \in Seq(Requests) /\ future \in [Requests -> Futures]
    BY DEF TypeOK
<1>1. CASE TakeFirst
  <2>1. /\ queue' = Tail(queue) /\ queue # <<>> /\ group' = <<queue[1]>>
        /\ future' = future /\ worker' = "yielding" /\ group = <<>>
      BY <1>0, <1>1 DEF TakeFirst, OwnedInv
  <2>2. /\ DOMAIN queue' = 1..(Len(queue) - 1) /\ DOMAIN queue = 1..Len(queue)
        /\ \A i \in 1..(Len(queue) - 1) : queue'[i] = queue[i + 1]
        /\ DOMAIN group' = {1} /\ group'[1] = queue[1]
        /\ DOMAIN group = {} /\ Len(queue) \in Nat
      BY <1>0, <2>1
  <2>3. \A i \in DOMAIN queue : i = 1 \/ (i - 1 \in DOMAIN queue' /\ queue'[i - 1] = queue[i])
      BY <2>2
  <2>4. ASSUME NEW r \in Requests, future'[r] = "pending"
        PROVE  (\E i \in DOMAIN queue' : queue'[i] = r) \/ (\E i \in DOMAIN group' : group'[i] = r)
    <3>1. PICK i \in DOMAIN queue : queue[i] = r
        BY <2>1, <2>2, <2>4 DEF OwnedInv
    <3>2. CASE i = 1
        BY <2>2, <3>1, <3>2
    <3>3. CASE i # 1
        BY <2>3, <3>1, <3>3
    <3> QED
        BY <3>2, <3>3
  <2>5. \A i, j \in DOMAIN group' : i = j
      BY <2>2
  <2> QED
      BY <2>1, <2>4, <2>5 DEF OwnedInv
<1>2. CASE CloseGroup
  <2>1. PICK more \in 0..Len(queue) :
          /\ queue' \in Seq(Requests) /\ Len(queue') = Len(queue) - more
          /\ \A i \in 1..Len(queue') : queue'[i] = queue[i + more]
          /\ group' \in Seq(Requests) /\ Len(group') = Len(group) + more
          /\ \A i \in 1..Len(group') :
                group'[i] = IF i <= Len(group) THEN group[i] ELSE queue[i - Len(group)]
      BY <1>2, Moved
  <2>2. /\ DOMAIN queue = 1..Len(queue) /\ DOMAIN group = 1..Len(group)
        /\ DOMAIN queue' = 1..Len(queue') /\ DOMAIN group' = 1..Len(group')
        /\ Len(queue) \in Nat /\ Len(group) \in Nat
      BY <1>0, <2>1
  <2>3. \A i \in DOMAIN queue :
           \/ Len(group) + i \in DOMAIN group' /\ group'[Len(group) + i] = queue[i]
           \/ i - more \in DOMAIN queue' /\ queue'[i - more] = queue[i]
    <3> SUFFICES ASSUME NEW i \in 1..Len(queue)
                 PROVE  \/ Len(group) + i \in DOMAIN group' /\ group'[Len(group) + i] = queue[i]
                        \/ i - more \in DOMAIN queue' /\ queue'[i - more] = queue[i]
        BY <2>2
    <3>1. CASE i <= more
      <4>1. Len(group) + i \in 1..Len(group') /\ ~(Len(group) + i <= Len(group))
            /\ (Len(group) + i) - Len(group) = i
          BY <2>1, <2>2, <3>1
      <4>2. group'[Len(group) + i] =
               IF Len(group) + i <= Len(group) THEN group[Len(group) + i]
               ELSE queue[(Len(group) + i) - Len(group)]
          BY <2>1, <4>1, Zenon
      <4> QED
          BY <2>2, <4>1, <4>2, Zenon
    <3>2. CASE ~(i <= more)
      <4>1. i - more \in 1..Len(queue') /\ i - more + more = i
          BY <2>1, <2>2, <3>2
      <4> QED
          BY <2>1, <2>2, <4>1
    <3> QED
        BY <3>1, <3>2
  <2>4. \A i \in DOMAIN group : i \in DOMAIN group' /\ group'[i] = group[i]
      BY <2>1, <2>2
  <2>5. ASSUME NEW i \in DOMAIN group', NEW j \in DOMAIN group', i # j
        PROVE  group'[i] # group'[j]
    <3>1. i <= Len(group) \/ (i - Len(group) \in DOMAIN queue /\ group'[i] = queue[i - Len(group)])
      <4>1. group'[i] = IF i <= Len(group) THEN group[i] ELSE queue[i - Len(group)]
          BY <2>1, <2>2, <2>5, Zenon
      <4>2. i <= Len(group) \/ i - Len(group) \in DOMAIN queue
          BY <2>1, <2>2
      <4> QED
          BY <4>1, <4>2
    <3>2. j <= Len(group) \/ (j - Len(group) \in DOMAIN queue /\ group'[j] = queue[j - Len(group)])
      <4>1. group'[j] = IF j <= Len(group) THEN group[j] ELSE queue[j - Len(group)]
          BY <2>1, <2>2, <2>5, Zenon
      <4>2. j <= Len(group) \/ j - Len(group) \in DOMAIN queue
          BY <2>1, <2>2
      <4> QED
          BY <4>1, <4>2
    <3>3. i <= Len(group) => i \in DOMAIN group /\ group'[i] = group[i]
        BY <2>1, <2>2
    <3>4. j <= Len(group) => j \in DOMAIN group /\ group'[j] = group[j]
        BY <2>1, <2>2
    <3>5. i - Len(group) # j - Len(group)
        BY <2>2, <2>5
    <3> QED
        BY <2>5, <3>1, <3>2, <3>3, <3>4, <3>5 DEF QueueInv, OwnedInv
  <2>6. future' = future /\ worker' = "planning"
      BY <1>2 DEF CloseGroup
  <2>7. ASSUME NEW r \in Requests, future'[r] = "pending"
        PROVE  (\E i \in DOMAIN queue' : queue'[i] = r) \/ (\E i \in DOMAIN group' : group'[i] = r)
      BY <2>3, <2>4, <2>6, <2>7 DEF OwnedInv
  <2> QED
      BY <2>5, <2>6, <2>7 DEF OwnedInv
<1>3. CASE FinishPlan \/ FailPlan
  <2>1. queue' = queue /\ group' = <<>> /\ worker' = "idle" /\ worker = "planning"
      BY <1>3 DEF FinishPlan, FailPlan
  <2>2. \A r \in Requests : future'[r] = "pending" => future[r] = "pending" /\ r \notin Members
    <3>1. CASE FinishPlan
      <4>1. \A r \in Requests : future'[r] = IF r \in Taken THEN "result" ELSE future[r]
          BY <3>1 DEF FinishPlan, Settle
      <4> QED
          BY <4>1 DEF Taken, Dropped
    <3>2. CASE FailPlan
        BY <3>2 DEF FailPlan
    <3> QED
        BY <1>3, <3>1, <3>2
  <2>3. \A r \in Requests : r \notin Members => ~(\E i \in DOMAIN group : group[i] = r)
      BY DEF Members
  <2> QED
      BY <2>1, <2>2, <2>3 DEF OwnedInv
<1>4. CASE StopPool
  <2>1. \A r \in Requests : future[r] # "pending"
      BY <1>4 DEF StopPool, FutureInv, Gone
  <2> QED
      BY <1>4, <2>1 DEF StopPool, OwnedInv
<1>5. CASE UNCHANGED vars \/ Terminated
    BY <1>5 DEF vars, Terminated, poolVars, OwnedInv
<1>6. ASSUME NEW r \in Requests, Submit(r) PROVE OwnedInv'
  <2>1. /\ queue' = Append(queue, r) /\ group' = group /\ worker' = worker
        /\ future' = [future EXCEPT ![r] = "pending"] /\ worker # "stopped"
      BY <1>6 DEF Submit
  <2>2. /\ Len(queue) + 1 \in DOMAIN queue' /\ queue'[Len(queue) + 1] = r
        /\ \A i \in DOMAIN queue : i \in DOMAIN queue' /\ queue'[i] = queue[i]
      BY <1>0, <2>1
  <2>3. \A s \in Requests : s # r => future'[s] = future[s]
      BY <1>0, <2>1
  <2> QED
      BY <2>1, <2>2, <2>3 DEF OwnedInv
<1>7. ASSUME NEW r \in Requests, Reject(r) \/ Handler(r) PROVE OwnedInv'
  <2>1. UNCHANGED <<queue, group, worker, future>>
      BY <1>7 DEF Reject, Handler, Wake, WakeFailed, Open, OpenRaises, OpenFails, Refuse, Finalize,
                  StartStream, YieldChunk, ChunkSent, EndBody, CollectGenerator, poolVars
  <2> QED
      BY <2>1 DEF OwnedInv
<1>8. ASSUME NEW r \in Requests, Cancel(r) PROVE OwnedInv'
  <2>1. /\ UNCHANGED <<queue, group, worker>>
        /\ future' = future \/ future' = [future EXCEPT ![r] = "cancelled"]
      BY <1>8 DEF Cancel, CancelWaiting, CancelWaking, CancelUncovered, CancelReading,
                  CancelSending, poolVars
  <2>2. \A s \in Requests : future'[s] = "pending" => future[s] = "pending"
      BY <1>0, <2>1
  <2> QED
      BY <2>1, <2>2 DEF OwnedInv
<1> QED
    BY <1>1, <1>2, <1>3, <1>4, <1>5, <1>6, <1>7, <1>8 DEF Next, Pool

LEMMA OwnedInvariant == Spec => [](GatewayInv /\ OwnedInv)
<1>1. GatewayInv /\ OwnedInv /\ [Next]_vars => OwnedInv'
    BY OwnedStep DEF GatewayInv
<1> QED
    BY <1>1, OwnedInit, GatewayInvariant, PTL DEF Spec

\* No handler awaits a future that nobody will set: for every request with a
\* pending future the running worker has one entry, in its queue or its group.
THEOREM PendingRequestsAreOwned == Spec => []PendingIsOwned
<1>1. GatewayInv /\ OwnedInv => PendingIsOwned
  <2> SUFFICES ASSUME GatewayInv, OwnedInv, NEW r \in Requests, future[r] = "pending"
               PROVE  Cardinality({i \in DOMAIN (group \o queue) : (group \o queue)[i] = r}) = 1
      BY DEF PendingIsOwned, OwnedInv
  <2>1. queue \in Seq(Requests) /\ group \in Seq(Requests)
      BY DEF GatewayInv, TypeOK
  <2> DEFINE all == group \o queue
  <2>2. /\ DOMAIN all = 1..(Len(group) + Len(queue))
        /\ \A i \in 1..(Len(group) + Len(queue)) :
              all[i] = IF i <= Len(group) THEN group[i] ELSE queue[i - Len(group)]
    <3>1. all \in Seq(Requests) /\ Len(all) = Len(group) + Len(queue)
          /\ \A i \in 1..(Len(group) + Len(queue)) :
                all[i] = IF i <= Len(group) THEN group[i] ELSE queue[i - Len(group)]
        BY <2>1, ConcatProperties
    <3> HIDE DEF all
    <3> QED
        BY <3>1
  <2>3. /\ DOMAIN queue = 1..Len(queue) /\ DOMAIN group = 1..Len(group)
        /\ Len(queue) \in Nat /\ Len(group) \in Nat
      BY <2>1
  <2> HIDE DEF all
  <2>4. PICK k \in DOMAIN all : all[k] = r
    <3>1. CASE \E i \in DOMAIN queue : queue[i] = r
      <4>1. PICK i \in DOMAIN queue : queue[i] = r
          BY <3>1
      <4>2. /\ Len(group) + i \in DOMAIN all /\ ~(Len(group) + i <= Len(group))
            /\ (Len(group) + i) - Len(group) = i
          BY <2>2, <2>3
      <4> QED
          BY <2>2, <4>1, <4>2
    <3>2. CASE \E i \in DOMAIN group : group[i] = r
      <4>1. PICK i \in DOMAIN group : group[i] = r
          BY <3>2
      <4>2. i \in DOMAIN all /\ i <= Len(group)
          BY <2>2, <2>3
      <4> QED
          BY <2>2, <4>1, <4>2
    <3> QED
        BY <3>1, <3>2 DEF OwnedInv
  <2>5. \A i \in DOMAIN all :
           \/ i \in DOMAIN group /\ all[i] = group[i]
           \/ ~(i \in DOMAIN group) /\ i - Len(group) \in DOMAIN queue
              /\ all[i] = queue[i - Len(group)]
      BY <2>2, <2>3
  <2>6. ASSUME NEW j \in DOMAIN all, all[j] = r PROVE j = k
    <3>1. j - Len(group) = k - Len(group) => j = k
        BY <2>2, <2>3
    <3> QED
        BY <2>4, <2>5, <2>6, <3>1 DEF GatewayInv, QueueInv, OwnedInv
  <2>7. {i \in DOMAIN all : all[i] = r} = {k}
      BY <2>4, <2>6
  <2> QED
      BY <2>7, FS_Singleton DEF all
<1> QED
    BY <1>1, OwnedInvariant, PTL

\* plan() is all or nothing, for groups of any size and any cancellations
\* while the lookup is awaited.
THEOREM PlansAreAtomic == Spec => PlanIsAtomic
<1> DEFINE Atomic == worker = "planning" /\ worker' = "idle" =>
                \E answer \in {"result", "exception"} :
                    \A r \in Members : future'[r] \in {answer, "cancelled"}
<1>1. GatewayInv /\ [Next]_vars => [Atomic]_vars
  <2> SUFFICES ASSUME GatewayInv, [Next]_vars, worker = "planning", worker' = "idle"
               PROVE  \E answer \in {"result", "exception"} :
                          \A r \in Members : future'[r] \in {answer, "cancelled"}
      OBVIOUS
  <2>0. \A r \in Members : r \in Requests /\ future[r] \in {"pending", "cancelled"}
      BY DEF GatewayInv, TypeOK, QueueInv, Members
  <2>1. CASE FinishPlan
    <3>1. \A r \in Requests : future'[r] = IF r \in Taken THEN "result" ELSE future[r]
        BY <2>1 DEF FinishPlan, Settle
    <3>2. \A r \in Members : future'[r] \in {"result", "cancelled"}
        BY <2>0, <3>1 DEF Taken, Dropped
    <3> QED
        BY <3>2
  <2>2. CASE FailPlan
    <3>1. \A r \in Members : future'[r] \in {"exception", "cancelled"}
        BY <2>0, <2>2 DEF FailPlan
    <3> QED
        BY <3>1
  <2>3. FinishPlan \/ FailPlan
      BY DEF Next, Pool, TakeFirst, CloseGroup, StopPool, Submit, Reject, Terminated, Handler,
             Wake, WakeFailed, Open, OpenRaises, OpenFails, Refuse, Finalize, StartStream, YieldChunk,
             ChunkSent, EndBody, CollectGenerator, Cancel, CancelWaiting, CancelWaking,
             CancelUncovered, CancelReading, CancelSending, poolVars, vars
  <2> QED
      BY <2>1, <2>2, <2>3
<1> QED
    BY <1>1, GatewayInvariant, PTL DEF Spec, PlanIsAtomic

\* The phases before the body is read, and those in which it may still be.
Early == {"idle", "waiting", "opening", "refusing", "starting"}
Reading == {"streaming", "yielded", "abandoned", "reading"}

\* While the body of a response is on its way its outcome is "completed", which
\* it is not yet; the finally block is reached either with the body relayed,
\* by a collected generator, or with one of the other outcomes.
Honest ==
    \A r \in Requests :
        /\ phase[r] \in Early => outcome[r] = "none"
        /\ phase[r] \in Reading => outcome[r] = "completed"
        /\ phase[r] \in Early \cup Reading => r \notin relayed \cup collected
        /\ phase[r] \in {"closing", "done"} /\ outcome[r] # "none" =>
              (outcome[r] = "completed" <=> r \in relayed \cup collected)
        /\ outcome[r] = "none" => r \notin relayed \cup collected

\* A finished response is logged as completed exactly if its body was relayed
\* or its generator was collected, whatever is cancelled and whatever fails.
THEOREM OutcomesAreHonest == Spec => []OutcomeIsHonest
<1>1. Init => Honest
    BY DEF Init, Honest, Early, Reading
<1>2. TypeOK /\ Honest /\ [Next]_vars => Honest'
  <2> SUFFICES ASSUME TypeOK, Honest, [Next]_vars PROVE Honest'
      OBVIOUS
  <2> USE DEF TypeOK, Honest, Early, Reading, Move, resultVars, bodyVars
  <2>1. CASE Pool \/ StopPool \/ Terminated \/ UNCHANGED vars
      BY <2>1 DEF Pool, TakeFirst, CloseGroup, FinishPlan, FailPlan, StopPool, Terminated, vars
  <2>2. ASSUME NEW r \in Requests, Submit(r) \/ Reject(r) PROVE Honest'
      BY <2>2 DEF Submit, Reject
  <2>3. ASSUME NEW r \in Requests, Handler(r) PROVE Honest'
    <3>1. CASE Wake(r) \/ WakeFailed(r) \/ Open(r) \/ OpenRaises(r) \/ OpenFails(r) \/ Refuse(r)
        BY <3>1 DEF Wake, WakeFailed, Open, OpenRaises, OpenFails, Refuse
    <3>2. CASE StartStream(r) \/ YieldChunk(r) \/ ChunkSent(r)
        BY <3>2 DEF StartStream, YieldChunk, ChunkSent
    <3>3. CASE CollectGenerator(r) \/ Finalize(r)
        BY <3>3 DEF CollectGenerator, Finalize
    <3>4. CASE EndBody(r)
        BY <3>4 DEF EndBody
    <3> QED
        BY <2>3, <3>1, <3>2, <3>3, <3>4 DEF Handler
  <2>4. ASSUME NEW r \in Requests, Cancel(r) PROVE Honest'
      BY <2>4 DEF Cancel, CancelWaiting, CancelWaking, CancelUncovered, CancelReading,
                  CancelSending
  <2> QED
      BY <2>1, <2>2, <2>3, <2>4 DEF Next
<1>3. TypeOK /\ Honest => OutcomeIsHonest
    BY DEF Honest, OutcomeIsHonest
<1> QED
    BY <1>1, <1>2, <1>3, TypeCorrect, PTL DEF Spec
=============================================================================
