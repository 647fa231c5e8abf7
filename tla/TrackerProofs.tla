--------------------------- MODULE TrackerProofs ----------------------------
(***************************************************************************)
(* KvEvents for any number of batches and processes, any replay buffer and *)
(* any set of faults.  A catalog that is trusted is exact, as long as the  *)
(* process lives that the router found at its start; over any number of    *)
(* restarts, batches are applied in order, and those of an old process     *)
(* are gone once the stream or the metrics have shown the new one.         *)
(*                                                                         *)
(* At the end of the module, MetricsPoll for any number of nodes: a sweep  *)
(* of the metrics leaves every node with the status it has just earned.    *)
(***************************************************************************)
EXTENDS KvEvents, MetricsPoll, TLAPS, SequenceTheorems

\* What is on its way was published by the first process.
InFlight ==
    /\ \A k \in 1..Len(wire) : wire[k].gen = 1 /\ wire[k].seq < published
    /\ pending # None => pending.gen = 1 /\ pending.seq < published /\ start <= pending.seq
    /\ seenStart \in {None, 1}

\* A replay was asked for from the batch that follows the last one applied.
Asked ==
    /\ pending = None => start = 0
    /\ pc \in {"requesting", "replaying"} /\ first = None => last = IF start = 0 THEN None ELSE start - 1
    /\ pc = "requesting" => first = None
    /\ pc = "receiving" => pending = None /\ first = None

\* The frames left are consecutive and reach the message that revealed the
\* gap, unless the last batch applied does.
Frames ==
    pc = "replaying" =>
        /\ \A k \in 1..Len(frames) : frames[k] = Batch(1, frames[1].seq + k - 1)
        /\ first = None /\ frames # <<>> => frames[1].seq >= start
        /\ pending # None /\ frames # <<>> => frames[Len(frames)].seq >= pending.seq
        /\ pending # None /\ frames = <<>> => first # None

\* The catalog is exact, up to a replay that turned out to start too late.
Exact ==
    status = "HEALTHY" =>
        /\ pc = "replaying" /\ first # None =>
              /\ last # None
              /\ frames # <<>> /\ first <= start => frames[1].seq = last + 1
              /\ pending # None /\ frames = <<>> => last >= pending.seq
        /\ pc # "dead" /\ ~(pc = "replaying" /\ first # None /\ first > start) =>
              catalog = UpTo(1, last)

ExactInv ==
    /\ TypeOK
    /\ gen >= 1
    /\ gen = 1 => InFlight /\ Asked /\ Frames /\ Exact

-----------------------------------------------------------------------------
LEMMA EventsInit == Init => ExactInv
<1> SUFFICES ASSUME Init PROVE ExactInv
    OBVIOUS
<1>1. wire = <<>> /\ frames = <<>> /\ wire \in Seq(Batches) /\ frames \in Seq(Batches)
    BY DEF Init
<1>2. published \in Nat
    BY EventsAssumption DEF Init, EventsAssumption
<1>3. TypeOK
    BY <1>1, <1>2, EventsAssumption DEF Init, TypeOK, EventsAssumption
<1>4. InFlight /\ Asked /\ Frames
    BY <1>1 DEF Init, InFlight, Asked, Frames
<1>5. Exact
    BY DEF Init, Exact, UpTo
<1> QED
    BY <1>3, <1>4, <1>5 DEF Init, ExactInv

\* Applying a batch gives values of the right types.
LEMMA ApplyType ==
    ASSUME NEW b \in Batches, NEW cat \in SUBSET Batches, NEW lst \in Nat \cup {None},
           NEW st \in {"HEALTHY", "DEGRADED"}, Apply(b, cat, lst, st)
    PROVE  /\ catalog' \subseteq Batches /\ last' \in Nat \cup {None}
           /\ status' \in {"HEALTHY", "DEGRADED"}
BY DEF Apply, Batches

LEMMA EventsType == TypeOK /\ [Next]_vars => TypeOK'
<1> SUFFICES ASSUME TypeOK, [Next]_vars PROVE TypeOK'
    OBVIOUS
<1> USE DEF TypeOK, publisher, listener, replay, tracked
<1>1. CASE Publish
  <2>1. Batch(gen, published) \in Batches
      BY DEF Batch, Batches
  <2> QED
      BY <1>1, <2>1 DEF Publish
<1>2. CASE Exit \/ PollFails \/ UNCHANGED vars
    BY <1>2 DEF Exit, PollFails, vars
<1>12. CASE Restart
    BY <1>12 DEF Restart
<1>13. CASE PollMetrics
    BY <1>13 DEF PollMetrics
<1>3. CASE ServeReplay
  <2> DEFINE lo == Max2(start, published - BufferSize)
             n == Max2(0, published - lo)
  <2>1. lo \in Nat /\ n \in Nat
      BY EventsAssumption DEF Max2, EventsAssumption
  <2>2. frames' = [k \in 1..n |-> Batch(gen, lo + k - 1)]
      BY <1>3 DEF ServeReplay
  <2> HIDE DEF lo, n
  <2>3. \A k \in 1..n : Batch(gen, lo + k - 1) \in Batches
      BY <2>1 DEF Batch, Batches
  <2>4. frames' \in Seq(Batches)
      BY <2>1, <2>2, <2>3
  <2> QED
      BY <1>3, <2>4 DEF ServeReplay
<1>4. CASE Receive
  <2>1. wire' \in Seq(Batches) /\ Head(wire) \in Batches
      BY <1>4 DEF Receive
  <2>2. PICK cat \in SUBSET Batches, lst \in Nat \cup {None}, st \in {"HEALTHY", "DEGRADED"} :
          Apply(Head(wire), cat, lst, st)
      BY <1>4 DEF Receive, Degraded
  <2> QED
      BY <1>4, <2>1, <2>2, ApplyType DEF Receive
<1>5. CASE ReceiveBeyondGap
  <2>1. wire' \in Seq(Batches) /\ Head(wire) \in Batches
      BY <1>5 DEF ReceiveBeyondGap
  <2> QED
      BY <1>5, <2>1, ApplyType DEF ReceiveBeyondGap
<1>6. CASE RequestGap
    BY <1>6 DEF RequestGap, IsGap
<1>7. CASE ReceiveMalformed
    BY <1>7 DEF ReceiveMalformed
<1>14. CASE ListenerFails
    BY <1>14 DEF ListenerFails, Die, Degraded
<1>8. CASE ReplayFrame
  <2>1. frames' \in Seq(Batches) /\ Head(frames) \in Batches
      BY <1>8 DEF ReplayFrame
  <2>2. Head(frames).seq \in Nat
      BY <2>1 DEF Batches
  <2> QED
      BY <1>8, <2>1, <2>2, ApplyType DEF ReplayFrame
<1>9. ASSUME NEW ok \in BOOLEAN, Resume(ok), UNCHANGED <<publisher, wire, hasReplay, seenStart>>
      PROVE  TypeOK'
  <2>1. Degraded(status, ~ok) \in {"HEALTHY", "DEGRADED"}
      BY DEF Degraded
  <2>2. /\ catalog' \subseteq Batches /\ last' \in Nat \cup {None}
        /\ status' \in {"HEALTHY", "DEGRADED"}
    <3>1. CASE pending = None
        BY <1>9, <2>1, <3>1 DEF Resume
    <3>2. CASE pending # None
        BY <1>9, <2>1, <3>2, ApplyType DEF Resume
    <3> QED
        BY <3>1, <3>2
  <2> QED
      BY <1>9, <2>2 DEF Resume
<1>10. CASE ReplayEnd
    BY <1>9, <1>10 DEF ReplayEnd
<1>11. CASE ReplayTimeout
  <2>1. CASE Resume(FALSE) /\ UNCHANGED hasReplay
      BY <1>9, <1>11, <2>1 DEF ReplayTimeout
  <2>2. CASE Die
      BY <1>11, <2>2 DEF ReplayTimeout, Die, Degraded
  <2> QED
      BY <1>11, <2>1, <2>2 DEF ReplayTimeout
<1> QED
    BY <1>1, <1>2, <1>3, <1>4, <1>5, <1>6, <1>7, <1>8, <1>10, <1>11, <1>12, <1>13, <1>14 DEF Next

-----------------------------------------------------------------------------
\* The next batch after an exact catalog keeps it exact.
LEMMA UpToNext ==
    ASSUME NEW lst \in Nat \cup {None}, NEW b \in Batches, b.gen = 1,
           b.seq = IF lst = None THEN 0 ELSE lst + 1
    PROVE  UpTo(1, lst) \cup {b} = UpTo(1, b.seq)
<1> USE EventsAssumption DEF EventsAssumption
<1>1. b = Batch(1, b.seq) /\ b.seq \in Nat /\ b.seq # None
    BY DEF Batches, Batch
<1>2. CASE lst = None
  <2>1. UpTo(1, lst) = {} /\ b.seq = 0
      BY <1>2 DEF UpTo
  <2>2. UpTo(1, b.seq) = {Batch(1, 0)}
      BY <1>1, <2>1 DEF UpTo
  <2> QED
      BY <1>1, <2>1, <2>2
<1>3. CASE lst # None
  <2>1. lst \in Nat /\ b.seq = lst + 1
      BY <1>3
  <2>2. 0..(lst + 1) = (0..lst) \cup {lst + 1}
      BY <2>1
  <2>3. UpTo(1, b.seq) = {Batch(1, i) : i \in 0..(lst + 1)}
      BY <1>1, <2>1 DEF UpTo
  <2>4. UpTo(1, lst) = {Batch(1, i) : i \in 0..lst}
      BY <1>3 DEF UpTo
  <2>5. {Batch(1, i) : i \in 0..(lst + 1)} = {Batch(1, i) : i \in 0..lst} \cup {Batch(1, lst + 1)}
      BY <2>2
  <2> QED
      BY <1>1, <2>1, <2>3, <2>4, <2>5
<1> QED
    BY <1>2, <1>3

\* A batch of the first process that is old or next keeps a trusted catalog
\* exact.
LEMMA ApplyExact ==
    ASSUME NEW b \in Batches, NEW lst \in Nat \cup {None}, NEW cat, NEW st,
           b.gen = 1, Apply(b, cat, lst, st), status' = "HEALTHY",
           cat = UpTo(1, lst),
           Stale(b, lst) \/ b.seq = IF lst = None THEN 0 ELSE lst + 1
    PROVE  /\ catalog' = UpTo(1, last')
           /\ last' # None /\ last' \in Nat /\ last' >= b.seq
           /\ Stale(b, lst) \/ last' = b.seq
<1> USE EventsAssumption DEF EventsAssumption
<1>1. b.seq \in Nat
    BY DEF Batches
<1>2. CASE Stale(b, lst)
    BY <1>1, <1>2 DEF Apply, Stale
<1>3. CASE ~Stale(b, lst)
  <2>1. catalog' = cat \cup {b} /\ last' = b.seq
      BY <1>3 DEF Apply
  <2> QED
      BY <1>1, <1>3, <2>1, UpToNext
<1> QED
    BY <1>2, <1>3

LEMMA BatchesOf ==
    ASSUME NEW q \in Seq(Batches)
    PROVE  \A k \in 1..Len(q) : q[k] \in Batches /\ q[k].seq \in Nat /\ q[k].gen \in Nat
<1> SUFFICES ASSUME NEW k \in 1..Len(q)
             PROVE  q[k] \in Batches /\ q[k].seq \in Nat /\ q[k].gen \in Nat
    OBVIOUS
<1>1. q[k] \in Batches
    OBVIOUS
<1> QED
    BY <1>1 DEF Batches

LEMMA ExactStep ==
    ExactInv /\ [Next]_vars /\ gen' = 1 => InFlight' /\ Asked' /\ Frames' /\ Exact'
<1> SUFFICES ASSUME ExactInv, [Next]_vars, gen' = 1
             PROVE  InFlight' /\ Asked' /\ Frames' /\ Exact'
    OBVIOUS
<1> USE EventsAssumption DEF EventsAssumption, publisher, listener, replay, tracked
<1>0. TypeOK /\ gen = 1 /\ InFlight /\ Asked /\ Frames /\ Exact
  <2>1. gen' = gen \/ Restart
      BY DEF Next, vars, Publish, Exit, ServeReplay, Receive,
             ReceiveBeyondGap, RequestGap, ReceiveMalformed, ReplayFrame, ReplayEnd,
             ReplayTimeout, ListenerFails, PollMetrics, PollFails
  <2>2. Restart => gen' = gen + 1
      BY DEF Restart
  <2>3. gen \in Nat /\ gen >= 1
      BY DEF ExactInv, TypeOK
  <2> QED
      BY <2>1, <2>2, <2>3 DEF ExactInv
<1> USE <1>0
<1>1. CASE Publish
  <2>1. InFlight'
    <3>1. \A k \in 1..Len(wire') :
             \/ wire'[k] = Batch(gen, published)
             \/ k \in 1..Len(wire) /\ wire'[k] = wire[k]
      <4>1. wire \in Seq(Batches)
          BY DEF TypeOK
      <4>2. CASE wire' = wire
          BY <4>2
      <4>3. CASE wire' = Append(wire, Batch(gen, published))
        <5>1. Batch(gen, published) \in Batches
            BY DEF Batch, Batches, TypeOK
        <5>2. /\ Len(wire') = Len(wire) + 1 /\ Len(wire) \in Nat
              /\ \A k \in 1..(Len(wire) + 1) :
                    wire'[k] = IF k <= Len(wire) THEN wire[k] ELSE Batch(gen, published)
            BY <4>1, <4>3, <5>1, AppendProperties
        <5> QED
            BY <5>2
      <4> QED
          BY <1>1, <4>2, <4>3 DEF Publish
    <3>2. Batch(gen, published).gen = 1 /\ Batch(gen, published).seq = published
        BY DEF Batch
    <3>3. published' = published + 1 /\ published \in Nat /\ UNCHANGED <<pending, start, seenStart>>
        BY <1>1 DEF Publish, TypeOK
    <3>4. \A k \in 1..Len(wire) : wire[k].seq \in Nat
        BY BatchesOf DEF TypeOK
    <3>5. pending # None => pending.seq \in Nat
        BY DEF TypeOK, Batches
    <3> QED
        BY <3>1, <3>2, <3>3, <3>4, <3>5 DEF InFlight
  <2>2. UNCHANGED <<pc, replay, tracked>>
      BY <1>1 DEF Publish
  <2> QED
      BY <2>1, <2>2 DEF Asked, Frames, Exact, UpTo
<1>2. CASE Exit \/ PollFails \/ UNCHANGED vars
    BY <1>2 DEF Exit, PollFails, vars, InFlight, Asked, Frames, Exact, UpTo
<1>3. CASE Restart
    BY <1>3 DEF Restart
<1>4. CASE PollMetrics
  <2>1. UNCHANGED <<published, wire, pc, replay, tracked>> /\ seenStart' = 1
      BY <1>4 DEF PollMetrics, InFlight
  <2> QED
      BY <2>1 DEF InFlight, Asked, Frames, Exact, UpTo
<1>5. CASE ServeReplay
  <2> DEFINE lo == Max2(start, published - BufferSize)
             n == Max2(0, published - lo)
  <2>1. /\ lo \in Nat /\ lo >= start /\ n \in Nat
        /\ n > 0 => n = published - lo
        /\ n = 0 /\ lo # start => FALSE
        /\ n = 0 => published <= start
      BY DEF Max2, TypeOK
  <2>2. /\ frames' = [k \in 1..n |-> Batch(1, lo + k - 1)]
        /\ pc = "requesting" /\ pc' = "replaying" /\ first' = None
        /\ UNCHANGED <<published, wire, pending, start, tracked, seenStart>>
      BY <1>5 DEF ServeReplay
  <2> HIDE DEF lo, n
  <2>3. Len(frames') = n /\ \A k \in 1..n : frames'[k] = Batch(1, lo + k - 1)
      BY <2>1, <2>2
  <2>4. \A k \in 1..n : frames'[k].seq = lo + k - 1
      BY <2>3 DEF Batch
  <2>5. Frames'
    <3>1. \A k \in 1..Len(frames') : frames'[k] = Batch(1, frames'[1].seq + k - 1)
        BY <2>1, <2>3, <2>4
    <3>2. frames' # <<>> => n > 0 /\ frames'[1].seq = lo /\ frames'[Len(frames')].seq = published - 1
      <4>1. published \in Nat
          BY DEF TypeOK
      <4> HIDE DEF TypeOK, ExactInv
      <4>2. ASSUME n > 0
            PROVE  /\ frames'[1].seq = lo
                   /\ frames'[Len(frames')].seq = published - 1
        <5>1. 1 \in 1..n /\ n \in 1..n /\ lo + 1 - 1 = lo /\ lo + n - 1 = published - 1
            BY <2>1, <4>1, <4>2
        <5> QED
            BY <2>3, <2>4, <5>1
      <4>3. frames' # <<>> => n # 0
          BY <2>2
      <4> QED
          BY <2>1, <4>2, <4>3
    <3>3. pending # None => pending.seq < published /\ start <= pending.seq /\ pending.seq \in Nat
        BY DEF InFlight, TypeOK, Batches
    <3>4. start \in Nat /\ published \in Nat
        BY DEF TypeOK
    <3>5. pending # None => n > 0
        BY <2>1, <3>3, <3>4
    <3>6. pending # None => frames' # <<>>
        BY <2>1, <2>3, <3>5
    <3>7. frames' # <<>> => frames'[1].seq >= start'
        BY <2>1, <2>2, <3>2
    <3>8. pending' # None /\ frames' # <<>> => frames'[Len(frames')].seq >= pending'.seq
      <4>1. ASSUME pending # None PROVE published - 1 >= pending.seq
          BY <3>3, <3>4, <4>1
      <4> QED
          BY <2>2, <3>2, <4>1
    <3> QED
        BY <2>2, <3>1, <3>6, <3>7, <3>8 DEF Frames
  <2> QED
      BY <2>2, <2>5 DEF InFlight, Asked, Exact, UpTo
<1>6. ASSUME UNCHANGED <<published, seenStart>>, wire # <<>>, wire' = Tail(wire)
      PROVE  /\ Head(wire) \in Batches /\ Head(wire).gen = 1
             /\ Head(wire).seq < published /\ Head(wire).seq \in Nat
             /\ \A k \in 1..Len(wire') : wire'[k].gen = 1 /\ wire'[k].seq < published'
  <2>1. Head(wire) = wire[1] /\ 1 \in 1..Len(wire) /\ wire[1] \in Batches
      BY <1>6 DEF TypeOK
  <2>2. \A k \in 1..Len(wire') : k + 1 \in 1..Len(wire) /\ wire'[k] = wire[k + 1]
      BY <1>6 DEF TypeOK
  <2> QED
      BY <1>6, <2>1, <2>2 DEF InFlight, Batches
<1>7. CASE Receive
  <2> DEFINE b == Head(wire)
             cat == IF IsRestart(b) THEN {} ELSE catalog
             lst == IF IsRestart(b) THEN None ELSE last
             st == Degraded(status, lst = None /\ b.seq > 0)
  <2>1. /\ pc = "receiving" /\ wire # <<>> /\ wire' = Tail(wire)
        /\ ~IsGap(b) /\ Apply(b, cat, lst, st)
        /\ UNCHANGED <<published, pc, replay, seenStart>>
      BY <1>7 DEF Receive
  <2>2. b \in Batches /\ b.gen = 1 /\ b.seq \in Nat /\ InFlight'
      BY <1>6, <2>1 DEF InFlight
  <2>3. ASSUME status' = "HEALTHY" PROVE catalog' = UpTo(1, last')
    <3>1. st = "HEALTHY" /\ status = "HEALTHY"
        BY <2>1, <2>3 DEF Apply, Degraded
    <3>2. cat = UpTo(1, lst) /\ lst \in Nat \cup {None}
        BY <2>1, <3>1 DEF Exact, UpTo, TypeOK
    <3>3. Stale(b, lst) \/ b.seq = IF lst = None THEN 0 ELSE lst + 1
        BY <2>1, <2>2, <3>1 DEF Degraded, IsGap, IsRestart, Stale, TypeOK
    <3> HIDE DEF b, cat, lst, st
    <3> QED
        BY <2>1, <2>2, <2>3, <3>2, <3>3, ApplyExact
  <2> QED
      BY <2>1, <2>2, <2>3 DEF Asked, Frames, Exact
<1>8. CASE ReceiveBeyondGap
  <2>1. /\ pc = "receiving" /\ wire # <<>> /\ wire' = Tail(wire) /\ status' = "DEGRADED"
        /\ UNCHANGED <<published, pc, replay, seenStart>>
      BY <1>8 DEF ReceiveBeyondGap, Apply
  <2> QED
      BY <1>6, <2>1 DEF InFlight, Asked, Frames, Exact
<1>9. CASE RequestGap
  <2>1. /\ pc = "receiving" /\ wire # <<>> /\ wire' = Tail(wire) /\ pc' = "requesting"
        /\ pending' = Head(wire) /\ start' = last + 1 /\ last # None /\ Head(wire).seq > last + 1
        /\ UNCHANGED <<published, first, tracked, seenStart>>
      BY <1>9 DEF RequestGap, IsGap
  <2>2. last \in Nat
      BY <2>1 DEF TypeOK
  <2>3. /\ Head(wire) \in Batches /\ Head(wire).gen = 1
        /\ Head(wire).seq < published /\ Head(wire).seq \in Nat
        /\ \A k \in 1..Len(wire') : wire'[k].gen = 1 /\ wire'[k].seq < published'
      BY <1>6, <2>1
  <2>4. pending' # None
      BY <2>1, <2>3 DEF Batches
  <2>5. InFlight'
      BY <2>1, <2>2, <2>3 DEF InFlight
  <2>6. Asked'
      BY <2>1, <2>2, <2>4 DEF Asked
  <2>7. Exact'
      BY <2>1 DEF Exact, UpTo
  <2> QED
      BY <2>1, <2>5, <2>6, <2>7 DEF Frames
<1>10. CASE ReceiveMalformed
  <2>1. /\ pc = "receiving" /\ wire # <<>> /\ wire' = Tail(wire) /\ status' = "DEGRADED"
        /\ UNCHANGED <<published, pc, replay, seenStart>>
      BY <1>10 DEF ReceiveMalformed
  <2> QED
      BY <1>6, <2>1 DEF InFlight, Asked, Frames, Exact
<1>11. CASE ListenerFails
    BY <1>11 DEF ListenerFails, Die, InFlight, Asked, Frames, Exact
<1>12. CASE ReplayFrame
  <2> DEFINE b == Head(frames)
  <2>1. /\ pc = "replaying" /\ frames # <<>> /\ frames' = Tail(frames)
        /\ first' = IF first = None THEN b.seq ELSE first
        /\ Apply(b, catalog, last, status)
        /\ UNCHANGED <<published, wire, pc, pending, start, seenStart>>
      BY <1>12 DEF ReplayFrame
  <2>2. frames \in Seq(Batches) /\ start \in Nat /\ last \in Nat \cup {None} /\ Len(frames) \in Nat
      BY DEF TypeOK
  <2>3. b = frames[1] /\ 1 \in 1..Len(frames)
      BY <2>1, <2>2
  <2>4. b \in Batches /\ b.seq \in Nat
      BY <2>2, <2>3, BatchesOf
  <2>5. \A k \in 1..Len(frames) : frames[k] = Batch(1, b.seq + k - 1)
      BY <2>1, <2>3 DEF Frames
  <2>6. b.gen = 1
    <3>1. b = Batch(1, b.seq + 1 - 1)
        BY <2>3, <2>5
    <3> QED
        BY ONLY <3>1 DEF Batch
  <2>7. /\ Len(frames') = Len(frames) - 1
        /\ \A k \in 1..Len(frames') : k + 1 \in 1..Len(frames) /\ frames'[k] = frames[k + 1]
        /\ (frames' = <<>>) <=> (Len(frames) = 1)
    <3>1. frames' \in Seq(Batches) /\ Len(frames') = Len(frames) - 1
        BY <2>1, <2>2
    <3>2. \A k \in 1..Len(frames') : k + 1 \in 1..Len(frames) /\ frames'[k] = frames[k + 1]
        BY <2>1, <2>2
    <3>3. (frames' = <<>>) <=> (Len(frames') = 0)
        BY <3>1, EmptySeq
    <3> QED
        BY <2>2, <3>1, <3>2, <3>3
  <2>8. \A k \in 1..Len(frames') : frames'[k] = Batch(1, b.seq + k)
    <3> TAKE k \in 1..Len(frames')
    <3>1. frames'[k] = Batch(1, b.seq + (k + 1) - 1)
        BY <2>5, <2>7
    <3>2. k \in Nat /\ b.seq + (k + 1) - 1 = b.seq + k
        BY <2>2, <2>4, <2>7
    <3> QED
        BY <3>1, <3>2
  <2>9. frames' # <<>> => 1 \in 1..Len(frames') /\ frames'[1].seq = b.seq + 1
    <3>1. frames' # <<>> => 1 \in 1..Len(frames')
        BY <2>2, <2>3, <2>7
    <3>2. frames' # <<>> => frames'[1] = Batch(1, b.seq + 1)
        BY <2>8, <3>1
    <3> QED
        BY <3>1, <3>2 DEF Batch
  <2>10. pending # None => pending.seq \in Nat
      BY DEF TypeOK, Batches
  <2>11. pending # None => frames[Len(frames)].seq >= pending.seq
      BY <2>1 DEF Frames
  <2>12. frames' # <<>> => frames'[Len(frames')] = frames[Len(frames)]
      BY <2>2, <2>3, <2>7
  <2>13. pending # None /\ frames' = <<>> => b.seq >= pending.seq
      BY <2>3, <2>7, <2>11
  <2>14. first' # None
      BY <2>1, <2>4
  <2> HIDE DEF b
  <2>15. Frames'
    <3>1. \A k \in 1..Len(frames') : frames'[k] = Batch(1, frames'[1].seq + k - 1)
      <4> TAKE k \in 1..Len(frames')
      <4>1. frames' # <<>> /\ k \in Nat
          BY <2>2, <2>7
      <4>2. frames'[1].seq + k - 1 = b.seq + k
          BY <2>4, <2>9, <4>1
      <4> QED
          BY <2>8, <4>2
    <3>2. pending' # None /\ frames' # <<>> => frames'[Len(frames')].seq >= pending'.seq
        BY <2>1, <2>11, <2>12
    <3> QED
        BY <2>14, <3>1, <3>2 DEF Frames
  <2>16. Asked' /\ InFlight'
      BY <2>1, <2>14 DEF Asked, InFlight
  <2>17. ASSUME status' = "HEALTHY"
         PROVE  /\ status = "HEALTHY"
                /\ last' \in Nat /\ last' # None /\ last' >= b.seq
                /\ ~Stale(b, last) => last' = b.seq
      BY <2>1, <2>2, <2>4, <2>17 DEF Apply, Stale
  <2>18. ASSUME status' = "HEALTHY", first' <= start
         PROVE  /\ last' = b.seq
                /\ catalog' = UpTo(1, last')
    <3>1. status = "HEALTHY"
        BY <2>17, <2>18
    <3>2. catalog = UpTo(1, last) /\ b.seq = IF last = None THEN 0 ELSE last + 1
      <4>1. CASE first = None
        <5>1. first' = b.seq /\ b.seq >= start
            BY <2>1, <2>3, <4>1 DEF Frames
        <5>2. b.seq = start
            BY <2>2, <2>4, <2>18, <5>1
        <5>3. last = IF start = 0 THEN None ELSE start - 1
            BY <2>1, <4>1 DEF Asked
        <5>4. catalog = UpTo(1, last)
            BY <2>1, <3>1, <4>1 DEF Exact
        <5> QED
            BY <2>2, <5>2, <5>3, <5>4
      <4>2. CASE first # None
        <5>1. first' = first
            BY <2>1, <4>2
        <5>2. first \in Nat
            BY <4>2 DEF TypeOK
        <5>3. last # None /\ frames[1].seq = last + 1
            BY <2>1, <2>18, <3>1, <4>2, <5>1 DEF Exact
        <5>4. catalog = UpTo(1, last)
            BY <2>1, <2>2, <2>18, <3>1, <5>1, <5>2 DEF Exact
        <5> QED
            BY <2>3, <5>3, <5>4
      <4> QED
          BY <4>1, <4>2
    <3>3. ~Stale(b, last)
        BY <2>2, <2>4, <3>2 DEF Stale
    <3> QED
        BY <2>1, <2>2, <2>4, <2>6, <2>17, <2>18, <3>2, <3>3, ApplyExact
  <2>19. Exact'
    <3> SUFFICES ASSUME status' = "HEALTHY"
                 PROVE  /\ last' # None
                        /\ frames' # <<>> /\ first' <= start' => frames'[1].seq = last' + 1
                        /\ pending' # None /\ frames' = <<>> => last' >= pending'.seq
                        /\ ~(first' > start') => catalog' = UpTo(1, last')
        BY <2>1, <2>14 DEF Exact, UpTo
    <3>1. first' \in Nat
        BY <2>1, <2>4 DEF TypeOK
    <3>2. pending' # None /\ frames' = <<>> => last' >= pending'.seq
        BY <2>1, <2>4, <2>10, <2>13, <2>17
    <3> QED
        BY <2>1, <2>2, <2>9, <2>17, <2>18, <3>1, <3>2
  <2> QED
      BY <2>15, <2>16, <2>19
<1>13. ASSUME NEW ok \in BOOLEAN, Resume(ok), UNCHANGED <<publisher, wire, hasReplay, seenStart>>,
              ok => pc = "replaying" /\ frames = <<>> /\ (first = None \/ first <= start)
       PROVE  InFlight' /\ Asked' /\ Frames' /\ Exact'
  <2>1. /\ pc' = "receiving" /\ pending' = None /\ start' = 0 /\ first' = None
        /\ UNCHANGED <<published, wire, seenStart>>
      BY <1>13 DEF Resume
  <2>2. InFlight' /\ Asked' /\ Frames'
      BY <2>1 DEF InFlight, Asked, Frames
  <2>3. ASSUME status' = "HEALTHY" PROVE catalog' = UpTo(1, last')
    <3>1. ok /\ status = "HEALTHY"
        BY <1>13, <2>3 DEF Resume, Apply, Degraded
    <3>2. first = None \/ ~(first > start)
        BY <1>13, <3>1 DEF TypeOK
    <3>3. catalog = UpTo(1, last)
        BY <1>13, <3>1, <3>2 DEF Exact
    <3>4. UNCHANGED <<last, catalog>>
      <4>1. CASE pending = None
          BY <1>13, <4>1 DEF Resume
      <4>2. CASE pending # None
        <5>1. first # None
            BY <1>13, <3>1, <4>2 DEF Frames
        <5>2. last # None /\ last >= pending.seq
            BY <1>13, <3>1, <4>2, <5>1 DEF Exact
        <5>3. last \in Nat /\ pending.seq \in Nat
            BY <4>2, <5>2 DEF TypeOK, Batches
        <5>4. Stale(pending, last)
            BY <5>2, <5>3 DEF Stale
        <5>5. Apply(pending, catalog, last, Degraded(status, ~ok))
            BY <1>13, <4>2 DEF Resume
        <5> QED
            BY <5>4, <5>5 DEF Apply
      <4> QED
          BY <4>1, <4>2
    <3> QED
        BY <3>3, <3>4 DEF UpTo
  <2> QED
      BY <2>1, <2>2, <2>3 DEF Exact
<1>14. CASE ReplayEnd
    BY <1>13, <1>14 DEF ReplayEnd
<1>15. CASE ReplayTimeout
  <2>1. CASE Resume(FALSE) /\ UNCHANGED hasReplay
      BY <1>13, <1>15, <2>1 DEF ReplayTimeout
  <2>2. CASE Die
    <3>1. /\ pc' = "dead" /\ UNCHANGED <<published, wire, replay, last, catalog, seenStart>>
        BY <1>15, <2>2 DEF ReplayTimeout, Die
    <3> QED
        BY <3>1 DEF InFlight, Asked, Frames, Exact
  <2> QED
      BY <1>15, <2>1, <2>2 DEF ReplayTimeout
<1> QED
    BY <1>1, <1>2, <1>3, <1>4, <1>5, <1>7, <1>8, <1>9, <1>10, <1>11, <1>12, <1>14, <1>15 DEF Next

-----------------------------------------------------------------------------
LEMMA EventsInvariant == Spec => []ExactInv
<1>1. ExactInv /\ [Next]_vars => ExactInv'
  <2> SUFFICES ASSUME ExactInv, [Next]_vars PROVE ExactInv'
      OBVIOUS
  <2>1. TypeOK'
      BY EventsType DEF ExactInv
  <2>2. gen' >= 1
    <3>1. gen \in Nat /\ gen >= 1
        BY DEF ExactInv, TypeOK
    <3>2. gen' = gen \/ gen' = gen + 1
        BY DEF Next, vars, publisher, Publish, Exit, Restart, ServeReplay, Receive,
               ReceiveBeyondGap, RequestGap, ReceiveMalformed, ReplayFrame, ReplayEnd,
               ReplayTimeout, ListenerFails, PollMetrics, PollFails
    <3> QED
        BY <3>1, <3>2
  <2> QED
      BY <2>1, <2>2, ExactStep DEF ExactInv
<1> QED
    BY <1>1, EventsInit, PTL DEF Spec

\* The state of the listener and of the catalog has its type, for any bounds.
THEOREM EventsTypeCorrect == Spec => []TypeOK
<1>1. ExactInv => TypeOK
    BY DEF ExactInv
<1> QED
    BY <1>1, EventsInvariant, PTL

\* tracker.py never trusts a catalog with a hole: while the process lives that
\* the router found at its start, a HEALTHY catalog holds every batch up to the
\* last sequence number at every await of the listener, whatever is lost,
\* undecodable or late; only a replay that starts late is told at its end.
THEOREM TrustedIsExact == Spec => []HealthyIsExact
<1>1. ExactInv => HealthyIsExact
    BY DEF ExactInv, Exact, HealthyIsExact, StartsLate
<1> QED
    BY <1>1, EventsInvariant, PTL

\* _listen does not leave a trusted catalog behind when it ends after it has
\* come to its loop: neither on the version of Python on which the timeout of
\* a replay is caught nor on the one on which it is not, whatever else fails.
THEOREM EndedIsDegraded == Spec => []EndedLoopIsDegraded
<1> DEFINE Inv == EndedLoopIsDegraded /\ (pc = "receiving" => inLoop)
<1>1. Init => Inv
    BY DEF Init, EndedLoopIsDegraded
<1>2. TypeOK /\ Inv /\ [Next]_vars => Inv'
  <2> SUFFICES ASSUME TypeOK, Inv, [Next]_vars PROVE Inv'
      OBVIOUS
  <2> USE DEF EndedLoopIsDegraded, publisher, listener, replay, tracked
  <2>1. CASE Publish \/ Exit \/ Restart \/ ServeReplay \/ PollMetrics \/ PollFails \/ UNCHANGED vars
      BY <2>1 DEF Publish, Exit, Restart, ServeReplay, PollMetrics, PollFails, vars
  <2>2. CASE \/ Receive \/ ReceiveBeyondGap \/ RequestGap \/ ReceiveMalformed \/ ReplayFrame
             \/ ReplayEnd
      BY <2>2 DEF Receive, ReceiveBeyondGap, RequestGap, ReceiveMalformed, ReplayFrame,
                  ReplayEnd, Resume
  <2>3. CASE Resume(FALSE)
      BY <2>3 DEF Resume
  <2>4. CASE Die
    <3>1. pc' = "dead" /\ inLoop' = inLoop /\ (inLoop => status' = "DEGRADED")
        BY <2>4 DEF Die, Degraded
    <3>2. EndedLoopIsDegraded' /\ (pc' = "receiving" => inLoop')
        BY <3>1, Zenon
    <3> QED
        BY <3>2, Zenon
  <2> QED
      BY <2>1, <2>2, <2>3, <2>4 DEF Next, ReplayTimeout, ListenerFails
<1>3. Inv => EndedLoopIsDegraded
    OBVIOUS
<1> QED
    BY <1>1, <1>2, <1>3, EventsTypeCorrect, PTL DEF Spec

-----------------------------------------------------------------------------
(* Any number of processes.                                                *)

\* What is on its way was published by the process that runs, or ran last.
Live ==
    /\ \A k \in 1..Len(wire) : wire[k].gen = gen
    /\ pc \in {"requesting", "replaying"} /\ pending # None => pending.gen = gen /\ pending.seq > 0
    /\ pc = "replaying" => \A k \in 1..Len(frames) : frames[k].gen = gen

\* A catalog of which lst is the last sequence number: it has nothing of a
\* later process, and no first batch of a process on top of an earlier one.
Layered(cat, lst) ==
    /\ \A b \in cat : b.gen \in 1..gen
    /\ lst = None => cat = {}
    /\ \A a, b \in cat : a.gen < b.gen => Batch(b.gen, 0) \notin cat

\* The catalog is of one process from the poll that shows it on.
Polled ==
    /\ seenStart \in {None} \cup 1..gen
    /\ seenStart = None => gen = 1
    /\ seenStart = gen => \A b \in catalog : b.gen = gen

AnewInv ==
    /\ TypeOK
    /\ gen >= 1
    /\ Live
    /\ Layered(catalog, last)
    /\ Polled

\* The sequence number of a catalog goes on, or the catalog began anew.
Onward == last # None => \/ last' # None /\ last' >= last
                         \/ catalog' \subseteq {Batch(gen, 0)}

LEMMA AnewInit == Init => AnewInv
<1> SUFFICES ASSUME Init PROVE AnewInv
    OBVIOUS
<1>1. TypeOK
    BY EventsInit DEF ExactInv
<1>2. wire = <<>> /\ frames = <<>> /\ pending = None /\ pc # "replaying"
      /\ gen = 1 /\ catalog = {} /\ last = None /\ seenStart = None
    BY DEF Init
<1> QED
    BY <1>1, <1>2, EventsAssumption DEF AnewInv, Live, Layered, Polled, EventsAssumption

\* A batch of the process that runs keeps the catalog layered.
LEMMA ApplyLayers ==
    ASSUME TypeOK, gen >= 1,
           NEW b \in Batches, b.gen = gen,
           NEW cat \in SUBSET Batches, NEW lst \in Nat \cup {None}, NEW st,
           Layered(cat, lst), Apply(b, cat, lst, st), gen' = gen
    PROVE  /\ Layered(catalog, last)'
           /\ \A c \in catalog' : c \in cat \/ c = b
           /\ lst # None => last' # None /\ last' >= lst
<1>1. gen \in Nat /\ b.seq \in Nat /\ None \notin Nat
    BY EventsAssumption DEF TypeOK, Batches, EventsAssumption
<1>2. CASE catalog' = cat /\ last' = lst
    BY <1>1, <1>2 DEF Layered
<1>3. CASE ~Stale(b, lst) /\ catalog' = cat \cup {b} /\ last' = b.seq
  <2>1. lst # None => last' >= lst /\ b.seq > 0
      BY <1>1, <1>3 DEF Stale
  <2>2. b = Batch(gen, b.seq)
      BY DEF Batches, Batch
  <2>3. \A c \in catalog' : c.gen \in 1..gen
      BY <1>1, <1>3 DEF Layered
  <2>4. ASSUME NEW a \in catalog', NEW c \in catalog', a.gen < c.gen
        PROVE  Batch(c.gen, 0) \notin catalog'
    <3>1. a.gen \in 1..gen /\ c.gen \in 1..gen
        BY <2>3
    <3>2. a \in cat
        BY <1>1, <1>3, <2>4, <3>1
    <3>3. lst # None
        BY <3>2 DEF Layered
    <3>4. Batch(c.gen, 0) # b
        BY <2>1, <3>3 DEF Batch
    <3>5. Batch(c.gen, 0) \in cat => FALSE
        BY <2>4, <3>2 DEF Layered, Batch
    <3> QED
        BY <1>3, <3>4, <3>5
  <2>5. last' # None
      BY <1>1, <1>3
  <2> QED
      BY <1>3, <2>1, <2>3, <2>4, <2>5 DEF Layered
<1> QED
    BY <1>2, <1>3, <1>1 DEF Apply

LEMMA AnewStep ==
    ASSUME AnewInv, [Next]_vars
    PROVE  AnewInv' /\ Onward
<1> USE DEF AnewInv, publisher, listener, replay, tracked
<1>1. TypeOK'
    BY EventsType
<1>2. gen \in Nat /\ None \notin Nat
    BY EventsAssumption DEF TypeOK, EventsAssumption
<1> SUFFICES gen' >= 1 /\ Live' /\ Layered(catalog, last)' /\ Polled' /\ Onward
    BY <1>1
<1>3. CASE Publish
  <2>1. /\ UNCHANGED <<gen, pc, replay, tracked, seenStart>>
        /\ wire' = wire \/ wire' = Append(wire, Batch(gen, published))
      BY <1>3 DEF Publish
  <2>2. \A k \in 1..Len(wire') : wire'[k].gen = gen
    <3>1. CASE wire' = wire
        BY <3>1 DEF Live
    <3>2. CASE wire' = Append(wire, Batch(gen, published))
      <4>1. wire \in Seq(Batches)
          BY DEF TypeOK
      <4>2. \A k \in 1..Len(wire') :
              wire'[k] = IF k \in 1..Len(wire) THEN wire[k] ELSE Batch(gen, published)
          BY <3>2, <4>1
      <4> QED
          BY <4>2 DEF Live, Batch
    <3> QED
        BY <2>1, <3>1, <3>2
  <2> QED
      BY <1>2, <2>1, <2>2 DEF Live, Layered, Polled, Onward, TypeOK
<1>4. CASE Exit \/ PollFails \/ UNCHANGED vars
    BY <1>2, <1>4 DEF Exit, PollFails, vars, Live, Layered, Polled, Onward, TypeOK
<1>5. CASE Restart
  <2>1. /\ gen' = gen + 1 /\ wire' = <<>> /\ pc' \in {"receiving", "dead"} /\ seenStart = gen
        /\ UNCHANGED <<replay, tracked, seenStart>>
      BY <1>5 DEF Restart
  <2>2. Live'
      BY <2>1 DEF Live
  <2>3. Layered(catalog, last)'
      BY <1>2, <2>1 DEF Layered
  <2> QED
      BY <1>2, <2>1, <2>2, <2>3 DEF Polled, Onward, TypeOK
<1>6. CASE PollMetrics
  <2>1. /\ UNCHANGED <<gen, wire, pc, replay>> /\ seenStart' = gen
        /\ \/ catalog' = {} /\ last' = None
           \/ UNCHANGED <<catalog, last>> /\ seenStart \in {None, gen}
      BY <1>6 DEF PollMetrics
  <2>2. Live' /\ Layered(catalog, last)'
      BY <2>1 DEF Live, Layered
  <2>3. \A b \in catalog' : b.gen = gen
    <3>1. CASE catalog' = {}
        BY <3>1
    <3>2. CASE catalog' = catalog /\ seenStart = gen
        BY <3>2 DEF Polled
    <3>3. CASE catalog' = catalog /\ seenStart = None
        BY <1>2, <3>3 DEF Polled, Layered
    <3> QED
        BY <2>1, <3>1, <3>2, <3>3
  <2>4. Polled'
      BY <1>2, <2>1, <2>3 DEF Polled
  <2> QED
      BY <1>2, <2>1, <2>2, <2>4 DEF Onward, TypeOK
<1>7. CASE ServeReplay
  <2> DEFINE lo == Max2(start, published - BufferSize)
             n == Max2(0, published - lo)
  <2>1. lo \in Nat /\ n \in Nat
      BY EventsAssumption DEF Max2, EventsAssumption, TypeOK
  <2>2. /\ frames' = [k \in 1..n |-> Batch(gen, lo + k - 1)]
        /\ pc = "requesting" /\ UNCHANGED <<gen, wire, pending, tracked, seenStart>>
      BY <1>7 DEF ServeReplay
  <2> HIDE DEF lo, n
  <2>3. Len(frames') = n /\ \A k \in 1..n : frames'[k].gen = gen
      BY <2>1, <2>2 DEF Batch
  <2>4. Live'
      BY <2>2, <2>3 DEF Live
  <2> QED
      BY <1>2, <2>2, <2>4 DEF Layered, Polled, Onward, TypeOK
<1>8. ASSUME UNCHANGED gen, wire # <<>>, wire' = Tail(wire)
      PROVE  /\ Head(wire) \in Batches /\ Head(wire).gen = gen
             /\ \A k \in 1..Len(wire') : wire'[k].gen = gen'
  <2>1. wire \in Seq(Batches)
      BY DEF TypeOK
  <2>2. Head(wire) = wire[1] /\ 1 \in 1..Len(wire) /\ wire[1] \in Batches
      BY <1>8, <2>1
  <2>3. \A k \in 1..Len(wire') : k + 1 \in 1..Len(wire) /\ wire'[k] = wire[k + 1]
      BY <1>8, <2>1
  <2> QED
      BY <1>8, <2>2, <2>3 DEF Live
\* Applying a batch of the process to the catalog, or to one just cleared.
<1>9. ASSUME NEW b \in Batches, b.gen = gen, NEW cat, NEW lst, NEW st,
             \/ cat = catalog /\ lst = last
             \/ cat = {} /\ lst = None /\ b.seq = 0,
             Apply(b, cat, lst, st), UNCHANGED <<gen, seenStart>>
      PROVE  Layered(catalog, last)' /\ Polled' /\ Onward
  <2>1. cat \in SUBSET Batches /\ lst \in Nat \cup {None} /\ Layered(cat, lst)
      BY <1>9 DEF TypeOK, Layered
  <2>2. /\ Layered(catalog, last)'
        /\ \A c \in catalog' : c \in cat \/ c = b
        /\ lst # None => last' # None /\ last' >= lst
      BY <1>9, <2>1, ApplyLayers
  <2>3. Layered(catalog, last)'
      BY <2>2
  <2>4. Polled'
      BY <1>2, <1>9, <2>2 DEF Polled
  <2>5. Onward
    <3>1. CASE cat = catalog /\ lst = last
        BY <2>2, <3>1 DEF Onward
    <3>2. CASE cat = {} /\ b.seq = 0
      <4>1. b = Batch(gen, 0)
          BY <1>9, <3>2 DEF Batches, Batch
      <4> QED
          BY <2>2, <3>2, <4>1 DEF Onward
    <3> QED
        BY <1>9, <3>1, <3>2
  <2> QED
      BY <2>3, <2>4, <2>5
<1>10. CASE Receive
  <2> DEFINE b == Head(wire)
             cat == IF IsRestart(b) THEN {} ELSE catalog
             lst == IF IsRestart(b) THEN None ELSE last
             st == Degraded(status, lst = None /\ b.seq > 0)
  <2>1. /\ wire # <<>> /\ wire' = Tail(wire) /\ pc' = "receiving"
        /\ Apply(b, cat, lst, st) /\ UNCHANGED <<gen, seenStart>>
      BY <1>10 DEF Receive
  <2>2. b \in Batches /\ b.gen = gen /\ Live'
      BY <1>8, <2>1 DEF Live
  <2>3. \/ cat = catalog /\ lst = last
        \/ cat = {} /\ lst = None /\ b.seq = 0
      BY DEF IsRestart
  <2> HIDE DEF b, cat, lst, st
  <2> QED
      BY <1>9, <2>1, <2>2, <2>3
<1>11. CASE ReceiveBeyondGap
  <2>1. /\ wire # <<>> /\ wire' = Tail(wire) /\ pc' = "receiving"
        /\ Apply(Head(wire), catalog, last, "DEGRADED") /\ UNCHANGED <<gen, seenStart>>
      BY <1>11 DEF ReceiveBeyondGap
  <2>2. Head(wire) \in Batches /\ Head(wire).gen = gen /\ Live'
      BY <1>8, <2>1 DEF Live
  <2> QED
      BY <1>9, <2>1, <2>2
<1>12. CASE RequestGap
  <2>1. /\ wire # <<>> /\ wire' = Tail(wire) /\ pc' = "requesting" /\ pending' = Head(wire)
        /\ last # None /\ Head(wire).seq > last + 1
        /\ UNCHANGED <<gen, tracked, seenStart>>
      BY <1>12 DEF RequestGap, IsGap
  <2>2. last \in Nat
      BY <2>1 DEF TypeOK
  <2>3. Head(wire) \in Batches /\ Head(wire).seq \in Nat
      BY <1>8, <2>1 DEF Batches
  <2>4. Live'
      BY <1>8, <2>1, <2>2, <2>3 DEF Live
  <2> QED
      BY <1>2, <2>1, <2>2, <2>4 DEF Layered, Polled, Onward
<1>13. CASE ReceiveMalformed
  <2>1. /\ wire # <<>> /\ wire' = Tail(wire) /\ pc' = "receiving"
        /\ UNCHANGED <<gen, last, catalog, seenStart>>
      BY <1>13 DEF ReceiveMalformed
  <2>2. Live'
      BY <1>8, <2>1 DEF Live
  <2> QED
      BY <1>2, <2>1, <2>2 DEF Layered, Polled, Onward, TypeOK
<1>14. CASE ListenerFails
  <2>1. pc' = "dead" /\ UNCHANGED <<gen, wire, last, catalog, seenStart>>
      BY <1>14 DEF ListenerFails, Die
  <2> QED
      BY <1>2, <2>1 DEF Live, Layered, Polled, Onward, TypeOK
<1>15. CASE ReplayFrame
  <2>1. /\ pc = "replaying" /\ frames # <<>> /\ frames' = Tail(frames)
        /\ Apply(Head(frames), catalog, last, status)
        /\ UNCHANGED <<gen, wire, pc, pending, seenStart>>
      BY <1>15 DEF ReplayFrame
  <2>2. frames \in Seq(Batches)
      BY DEF TypeOK
  <2>3. Head(frames) = frames[1] /\ 1 \in 1..Len(frames) /\ frames[1] \in Batches
      BY <2>1, <2>2
  <2>4. \A k \in 1..Len(frames') : k + 1 \in 1..Len(frames) /\ frames'[k] = frames[k + 1]
      BY <2>1, <2>2
  <2>5. Head(frames).gen = gen /\ Live'
      BY <2>1, <2>3, <2>4 DEF Live
  <2> QED
      BY <1>9, <2>1, <2>3, <2>5
<1>16. ASSUME NEW ok \in BOOLEAN, Resume(ok), pc \in {"requesting", "replaying"},
              UNCHANGED <<gen, wire, seenStart>>
       PROVE  gen' >= 1 /\ Live' /\ Layered(catalog, last)' /\ Polled' /\ Onward
  <2>1. pc' = "receiving"
      BY <1>16 DEF Resume
  <2>2. gen' >= 1 /\ Live'
      BY <1>16, <2>1 DEF Live
  <2>3. CASE pending = None
    <3>1. UNCHANGED <<last, catalog>>
        BY <1>16, <2>3 DEF Resume
    <3> QED
        BY <1>2, <1>16, <2>2, <3>1 DEF Layered, Polled, Onward, TypeOK
  <2>4. CASE pending # None
    <3>1. pending \in Batches /\ pending.gen = gen
        BY <1>16, <2>4 DEF Live, TypeOK
    <3>2. Apply(pending, catalog, last, Degraded(status, ~ok))
        BY <1>16, <2>4 DEF Resume
    <3> QED
        BY <1>9, <1>16, <2>2, <3>1, <3>2
  <2> QED
      BY <2>3, <2>4
<1>17. CASE ReplayEnd
    BY <1>16, <1>17 DEF ReplayEnd
<1>18. CASE ReplayTimeout
  <2>1. CASE Resume(FALSE) /\ UNCHANGED hasReplay
      BY <1>16, <1>18, <2>1 DEF ReplayTimeout
  <2>2. CASE Die
    <3>1. pc' = "dead" /\ UNCHANGED <<gen, wire, last, catalog, seenStart>>
        BY <1>18, <2>2 DEF ReplayTimeout, Die
    <3> QED
        BY <1>2, <3>1 DEF Live, Layered, Polled, Onward, TypeOK
  <2> QED
      BY <1>18, <2>1, <2>2 DEF ReplayTimeout
<1>19. Receive \/ ReceiveBeyondGap \/ RequestGap \/ ReceiveMalformed \/ ReplayFrame
          \/ ListenerFails => gen' >= 1
    BY DEF Receive, ReceiveBeyondGap, RequestGap, ReceiveMalformed, ReplayFrame, ListenerFails
<1> QED
    BY <1>3, <1>4, <1>5, <1>6, <1>7, <1>10, <1>11, <1>12, <1>13, <1>14, <1>15, <1>17, <1>18, <1>19
       DEF Next

LEMMA AnewInvariant == Spec => []AnewInv
BY AnewInit, AnewStep, PTL DEF Spec

\* update_metrics_text: once a poll has shown the process that runs, no block
\* of an earlier one is in the catalog, wherever the listener was suspended.
THEOREM PollShowsTheProcess == Spec => []FreshAfterPoll
<1>1. AnewInv => FreshAfterPoll
    BY DEF AnewInv, Polled, FreshAfterPoll
<1> QED
    BY <1>1, AnewInvariant, PTL

\* _listen: the first batch of a process and a batch of an earlier one are
\* never in one catalog, over any number of restarts.
THEOREM RestartsStartAnew == Spec => []FirstBatchStartsAnew
<1>1. AnewInv => FirstBatchStartsAnew
    BY DEF AnewInv, Layered, FirstBatchStartsAnew
<1> QED
    BY <1>1, AnewInvariant, PTL

\* _apply_sequence: no batch of a replay or of the socket is applied over a
\* newer one; the sequence number goes back with a cleared catalog only.
THEOREM BatchesInOrder == Spec => AppliedInOrder
<1>1. AnewInv /\ [Next]_vars =>
        [last # None => \/ last' # None /\ last' >= last
                        \/ catalog' \subseteq {Batch(gen, 0)}]_vars
    BY AnewStep DEF Onward
<1> QED
    BY <1>1, AnewInvariant, PTL DEF Spec, AppliedInOrder

-----------------------------------------------------------------------------
(* The metrics poll.                                                       *)

\* The part of SweepTellsAll that a sweep has established so far: the nodes
\* before the one it asks are settled, and no other node has been read.
SweepSoFar ==
    poll \in Awaits =>
        /\ \A n \in Nodes : n < at \/ poll = "sleep" => (metrics_status[n] = "available" <=> n \in read)
        /\ poll # "sleep" => \A n \in read : n < at
        /\ poll = "sleep" => at = Last

PollInv == PollTypeOK /\ SweepSoFar

LEMMA PollInit == InitPoll => PollInv
  <1> SUFFICES ASSUME InitPoll PROVE PollInv
      OBVIOUS
  <1>1. Last \in Nat \ {0}
      BY PollAssumption
  <1>2. PollTypeOK
      BY <1>1 DEF InitPoll, PollTypeOK, Nodes, Awaits
  <1>3. SweepSoFar
      BY <1>1 DEF InitPoll, SweepSoFar, Nodes, Awaits
  <1> QED
      BY <1>2, <1>3 DEF PollInv

\* The node that is asked gets its metrics_status, and is read exactly if that is
\* "available"; then the sweep moves on.
LEMMA SettleNode ==
    ASSUME PollInv, Running, poll \in {"headers", "body"},
           NEW s \in {"available", "unavailable"},
           metrics_status' = [metrics_status EXCEPT ![at] = s],
           read' = IF s = "available" THEN read \cup {at} ELSE read,
           Advance, UNCHANGED <<health, lifespan, running>>
    PROVE  PollInv'
  <1> USE PollAssumption DEF PollInv, Nodes, Awaits, Running
  <1>1. at \in 1..Last /\ Last \in Nat \ {0} /\ poll \in Awaits
      BY DEF PollTypeOK
  <1>2. /\ poll' \in {"headers", "sleep"}
        /\ at' \in 1..Last /\ at' >= at
        /\ poll' = "headers" => at' = at + 1
        /\ poll' = "sleep" => at' = at /\ at = Last
      BY <1>1 DEF Advance
  <1>3. \A n \in read : n \in Nat /\ n < at
      BY <1>1 DEF SweepSoFar, PollTypeOK
  <1>4. at \notin read /\ at \in DOMAIN metrics_status
      BY <1>1, <1>3 DEF PollTypeOK
  <1>5. PollTypeOK'
    <2>1. read' \subseteq 1..at'
        BY <1>1, <1>2 DEF PollTypeOK
    <2> QED
        BY <1>1, <1>2, <2>1 DEF PollTypeOK
  <1>6. SweepSoFar'
    <2>1. ASSUME NEW n \in 1..Last, n < at' \/ poll' = "sleep"
          PROVE  metrics_status'[n] = "available" <=> n \in read'
      <3>1. n <= at
          BY <1>1, <1>2, <2>1
      <3>2. CASE n = at
          BY <3>2, <1>4
      <3>3. CASE n # at
        <4>1. n < at
            BY <3>1, <3>3, <1>1
        <4>2. metrics_status[n] = "available" <=> n \in read
            BY <4>1, <1>1 DEF SweepSoFar
        <4> QED
            BY <3>3, <4>2 DEF PollTypeOK
      <3> QED
          BY <3>2, <3>3
    <2>2. ASSUME poll' # "sleep", NEW n \in read' PROVE n < at'
        BY <1>1, <1>2, <1>3, <2>2
    <2> QED
        BY <1>2, <2>1, <2>2 DEF SweepSoFar
  <1> QED
      BY <1>5, <1>6

LEMMA PollStep == PollInv /\ [NextPoll]_pollVars => PollInv'
  <1> SUFFICES ASSUME PollInv, [NextPoll]_pollVars PROVE PollInv'
      OBVIOUS
  <1> USE PollAssumption DEF PollInv
  <1>1. ASSUME HealthChanges PROVE PollInv'
      BY <1>1 DEF HealthChanges, PollTypeOK, SweepSoFar
  <1>2. ASSUME ListenersDie PROVE PollInv'
      BY <1>2 DEF ListenersDie, PollTypeOK, SweepSoFar
  <1>3. ASSUME Refused PROVE PollInv'
      BY <1>3, SettleNode DEF Refused
  <1>4. ASSUME Headers PROVE PollInv'
    <2>1. poll' \in Awaits /\ poll \in Awaits /\ poll' # "sleep" /\ poll # "sleep"
        BY <1>4 DEF Headers, Awaits
    <2>2. PollTypeOK'
        BY <1>4, <2>1 DEF Headers, PollTypeOK
    <2>3. SweepSoFar'
        BY <1>4, <2>1 DEF Headers, SweepSoFar
    <2> QED
        BY <2>2, <2>3
  <1>5. ASSUME Missing PROVE PollInv'
      BY <1>5, SettleNode DEF Missing
  <1>6. ASSUME Text PROVE PollInv'
      BY <1>6, SettleNode DEF Text
  <1>7. ASSUME Raise PROVE PollInv'
      BY <1>7 DEF Raise, PollTypeOK, SweepSoFar, Awaits
  <1>8. ASSUME Wake PROVE PollInv'
    <2>0. /\ poll' = "headers" /\ at' = 1 /\ read' = {} /\ poll = "sleep"
          /\ UNCHANGED <<health, metrics_status, lifespan, running>>
        BY <1>8 DEF Wake
    <2>1. PollTypeOK'
      <3>1. at' \in Nodes /\ read' \subseteq 1..at'
          BY <2>0 DEF Nodes
      <3>2. poll \in Awaits /\ poll' \in Awaits
          BY <2>0 DEF Awaits
      <3> QED
          BY <2>0, <3>1, <3>2 DEF PollTypeOK
    <2>2. SweepSoFar'
        BY <1>8 DEF Wake, SweepSoFar, Nodes
    <2> QED
        BY <2>1, <2>2
  <1>9. ASSUME Shutdown PROVE PollInv'
      BY <1>9 DEF Shutdown, PollTypeOK, SweepSoFar
  <1>10. ASSUME Cancelled PROVE PollInv'
      BY <1>10 DEF Cancelled, PollTypeOK, SweepSoFar, Awaits
  <1>11. ASSUME PollAwaited PROVE PollInv'
      BY <1>11 DEF PollAwaited, PollTypeOK, SweepSoFar
  <1>12. ASSUME NEW task \in {"pool", "listeners", "lookup"}, NEW from,
                NEW to \in {"ending listeners", "ending lookup", "stopped"},
                End(task, from, to)
         PROVE  PollInv'
      BY <1>12 DEF End, PollTypeOK, SweepSoFar
  <1>13. CASE UNCHANGED pollVars
      BY <1>13 DEF pollVars, PollTypeOK, SweepSoFar
  <1> QED
      BY <1>1, <1>2, <1>3, <1>4, <1>5, <1>6, <1>7, <1>8, <1>9, <1>10, <1>11, <1>12, <1>13
         DEF NextPoll, Poll, Lifespan

\* The poll and the lifespan are type correct.
THEOREM PollTypeCorrect == SpecPoll => []PollTypeOK
  <1>1. PollInv => PollTypeOK
      BY DEF PollInv
  <1> QED
      BY <1>1, PollInit, PollStep, PTL DEF SpecPoll

\* After a sweep the available nodes are those it has read, for any number of
\* nodes, and whatever fails at which await.
THEOREM SweepIsComplete == SpecPoll => []SweepTellsAll
  <1>1. PollInv => SweepTellsAll
      BY DEF PollInv, SweepSoFar, SweepTellsAll, Awaits
  <1> QED
      BY <1>1, PollInit, PollStep, PTL DEF SpecPoll
=============================================================================
