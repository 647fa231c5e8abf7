------------------------------ MODULE KvEvents ------------------------------
(***************************************************************************)
(* How the tracker of tracker.py follows the KV events of one vLLM node:   *)
(* the listener coroutine with its replay requests, the metrics poll that  *)
(* discovers a new process, and the publisher they listen to (external).   *)
(* Nodes do not interact, so one is enough.                                *)
(*                                                                         *)
(* A batch of events is identified by the process that published it and by *)
(* its sequence number; the catalog is the set of batches applied since it *)
(* was last cleared.  What a batch does to the blocks is in GpuCatalog.    *)
(***************************************************************************)
EXTENDS Integers, Sequences

CONSTANTS
    MaxBatches,       \* bound: the batches a vLLM process publishes
    MaxProcesses,     \* bound: the processes a node has one after the other
    BufferSize,       \* the batches the replay endpoint retains
    ReplayConfigs,    \* whether kv_replay_endpoint may be configured
    TimeoutIsCaught,  \* whether asyncio.TimeoutError is TimeoutError: {TRUE} from
                      \* Python 3.11 on, {FALSE} before, both for either version
    Faults,           \* the faults that may happen
    None

AllFaults == {"loss", "undecodable", "malformed", "timeout", "failure", "exit"}

ASSUME EventsAssumption ==
    /\ MaxBatches \in Nat /\ MaxProcesses \in Nat \ {0}
    /\ BufferSize \in Nat \ {0}
    /\ ReplayConfigs # {} /\ ReplayConfigs \subseteq BOOLEAN
    /\ TimeoutIsCaught # {} /\ TimeoutIsCaught \subseteq BOOLEAN
    /\ Faults \subseteq AllFaults
    /\ None \notin Nat /\ None \notin [gen : Nat, seq : Nat]

VARIABLES
    gen,        \* the vLLM process that runs, or the last that did
    up,         \* whether it runs
    published,  \* the batches it has published: the next sequence number
    wire,       \* batches received by the SUB socket and not yet read
    pc,         \* where _listen is suspended
    hasReplay,  \* kv_replay_endpoint is configured
    inLoop,     \* _listen has entered the try statement around its loop
    pending,    \* the message that revealed a gap; None in the first replay
    start,      \* start_sequence of the replay in progress
    frames,     \* the frames of the replay that are still to be read
    first,      \* first_sequence of the replay in progress
    last,       \* last_sequence of the node
    catalog,    \* the batches the catalog of the node is made of
    status,     \* gpu_catalog_status
    seenStart   \* process_start_time_seconds

publisher == <<gen, up, published>>
listener == <<hasReplay, inLoop>>
replay == <<pending, start, frames, first>>
tracked == <<last, catalog, status>>
vars == <<publisher, wire, pc, listener, replay, tracked, seenStart>>

Batch(g, i) == [gen |-> g, seq |-> i]
Batches == [gen : Nat, seq : Nat]

Max2(a, b) == IF a > b THEN a ELSE b

\* The router starts while vLLM runs.  With a replay endpoint the listener
\* asks for every retained batch first.  Up to there it runs without an await,
\* and a socket that cannot be connected ends it.
Init ==
    /\ gen = 1 /\ up = TRUE /\ published \in 0..MaxBatches
    /\ wire = <<>>
    /\ hasReplay \in ReplayConfigs
    /\ \/ pc = IF hasReplay THEN "requesting" ELSE "receiving"
       \/ "failure" \in Faults /\ pc = "dead"
    /\ inLoop = (pc = "receiving")
    /\ pending = None /\ start = 0 /\ frames = <<>> /\ first = None
    /\ last = None /\ catalog = {} /\ status = "HEALTHY"
    /\ seenStart = None

-----------------------------------------------------------------------------
(* The vLLM process (external).                                            *)

\* A batch reaches the SUB socket, or is dropped on the way.
Publish ==
    /\ up /\ published < MaxBatches
    /\ published' = published + 1
    /\ \/ wire' = Append(wire, Batch(gen, published))
       \/ "loss" \in Faults /\ wire' = wire
    /\ UNCHANGED <<gen, up, pc, listener, replay, tracked, seenStart>>

Exit ==
    /\ "exit" \in Faults
    /\ up /\ up' = FALSE
    /\ UNCHANGED <<gen, published, wire, pc, listener, replay, tracked, seenStart>>

\* A new process counts from zero.  It takes far longer to load its model than
\* the router to read what the old one sent, to end a replay and to poll.
Restart ==
    /\ ~up /\ gen < MaxProcesses
    /\ wire = <<>> /\ pc \in {"receiving", "dead"} /\ seenStart = gen
    /\ gen' = gen + 1 /\ up' = TRUE /\ published' = 0
    /\ UNCHANGED <<wire, pc, listener, replay, tracked, seenStart>>

\* The replay endpoint answers with what it retains from the start sequence.
ServeReplay ==
    /\ pc = "requesting" /\ up
    /\ LET lo == Max2(start, published - BufferSize)
           n == Max2(0, published - lo)
       IN  frames' = [k \in 1..n |-> Batch(gen, lo + k - 1)]
    /\ pc' = "replaying" /\ first' = None
    /\ UNCHANGED <<publisher, wire, listener, pending, start, tracked, seenStart>>

-----------------------------------------------------------------------------
(* The listener.                                                           *)

\* Mutant: the check for an older sequence number is missing.
Stale_Never(b, lst) == FALSE

\* Mutant: off by one, a repetition of the last number is applied.
Stale_Older(b, lst) == lst # None /\ b.seq < lst

\* _apply_sequence: a batch that is not newer is skipped; a batch that cannot
\* be decoded degrades the catalog and does not count as received.
Stale(b, lst) == lst # None /\ b.seq <= lst

Apply(b, cat, lst, st) ==
    \/ /\ Stale(b, lst)
       /\ catalog' = cat /\ last' = lst /\ status' = st
    \/ /\ ~Stale(b, lst)
       /\ catalog' = cat \cup {b} /\ last' = b.seq /\ status' = st
    \/ /\ ~Stale(b, lst) /\ "undecodable" \in Faults
       /\ catalog' = cat /\ last' = lst /\ status' = "DEGRADED"

Degraded(st, bad) == IF bad THEN "DEGRADED" ELSE st

IsRestart(b) == last # None /\ b.seq = 0 /\ last > 0
IsGap(b) == last # None /\ b.seq > last + 1

\* A message that continues the sequence, repeats it, begins a new one after
\* sequence zero of a new process, or is the first and yet not sequence zero.
Receive ==
    /\ pc = "receiving" /\ wire # <<>>
    /\ wire' = Tail(wire)
    /\ LET b == Head(wire)
           cat == IF IsRestart(b) THEN {} ELSE catalog
           lst == IF IsRestart(b) THEN None ELSE last
       IN  /\ ~IsGap(b)
           /\ Apply(b, cat, lst, Degraded(status, lst = None /\ b.seq > 0))
    /\ UNCHANGED <<publisher, pc, listener, replay, seenStart>>

\* A message beyond a gap, and nowhere to recover the gap from.
ReceiveBeyondGap ==
    /\ pc = "receiving" /\ wire # <<>> /\ ~hasReplay
    /\ wire' = Tail(wire)
    /\ IsGap(Head(wire))
    /\ Apply(Head(wire), catalog, last, "DEGRADED")
    /\ UNCHANGED <<publisher, pc, listener, replay, seenStart>>

\* Mutant: the replay starts before the last batch applied.
RequestGap_TooEarly ==
    /\ pc = "receiving" /\ wire # <<>> /\ hasReplay
    /\ wire' = Tail(wire)
    /\ IsGap(Head(wire))
    /\ pending' = Head(wire) /\ start' = last - 1
    /\ pc' = "requesting"
    /\ UNCHANGED <<publisher, listener, frames, first, tracked, seenStart>>

\* A message beyond a gap waits until the gap has been replayed.
RequestGap ==
    /\ pc = "receiving" /\ wire # <<>> /\ hasReplay
    /\ wire' = Tail(wire)
    /\ IsGap(Head(wire))
    /\ pending' = Head(wire) /\ start' = last + 1
    /\ pc' = "requesting"
    /\ UNCHANGED <<publisher, listener, frames, first, tracked, seenStart>>

\* A message that does not have three parts.
ReceiveMalformed ==
    /\ "malformed" \in Faults
    /\ pc = "receiving" /\ wire # <<>>
    /\ wire' = Tail(wire)
    /\ status' = "DEGRADED"
    /\ UNCHANGED <<publisher, pc, listener, replay, last, catalog, seenStart>>

ReplayFrame ==
    /\ pc = "replaying" /\ frames # <<>>
    /\ frames' = Tail(frames)
    /\ first' = IF first = None THEN Head(frames).seq ELSE first
    /\ Apply(Head(frames), catalog, last, status)
    /\ UNCHANGED <<publisher, wire, pc, listener, pending, start, seenStart>>

\* The replay returns; the message that revealed the gap is applied after it.
Resume(replay_ok) ==
    /\ LET st == Degraded(status, ~replay_ok)
       IN  IF pending = None
           THEN status' = st /\ UNCHANGED <<last, catalog>>
           ELSE Apply(pending, catalog, last, st)
    /\ pc' = "receiving"
    /\ pending' = None /\ start' = 0 /\ frames' = <<>> /\ first' = None
    /\ inLoop' = TRUE

\* Mutant: a replay that ends is a success, wherever it started.
ReplayEnd_AnyStart ==
    /\ pc = "replaying" /\ frames = <<>>
    /\ Resume(TRUE)
    /\ UNCHANGED <<publisher, wire, hasReplay, seenStart>>

ReplayEnd ==
    /\ pc = "replaying" /\ frames = <<>>
    /\ Resume(first = None \/ first <= start)
    /\ UNCHANGED <<publisher, wire, hasReplay, seenStart>>

\* An error that is not caught at its place ends the listener.  The except
\* clause of the loop degrades the catalog; before the loop nothing does.
Die ==
    /\ pc' = "dead"
    /\ status' = Degraded(status, inLoop)
    /\ UNCHANGED <<listener, replay, last, catalog>>

\* Two seconds without a frame.  Before Python 3.11 wait_for raises an error
\* that the replay does not catch.
ReplayTimeout ==
    /\ "timeout" \in Faults
    /\ pc \in {"requesting", "replaying"}
    /\ \/ TRUE \in TimeoutIsCaught /\ Resume(FALSE) /\ UNCHANGED hasReplay
       \/ FALSE \in TimeoutIsCaught /\ Die
    /\ UNCHANGED <<publisher, wire, seenStart>>

\* Mutant: only errors at the receive of the loop are caught.
ListenerFails_InReplay ==
    /\ "failure" \in Faults
    /\ pc # "dead" /\ pc' = "dead"
    /\ status' = Degraded(status, pc = "receiving")
    /\ UNCHANGED <<publisher, wire, listener, replay, last, catalog, seenStart>>

\* Any other error: the replay socket cannot be connected, an event has an
\* unexpected content, a receive fails.
ListenerFails ==
    /\ "failure" \in Faults
    /\ pc # "dead" /\ Die
    /\ UNCHANGED <<publisher, wire, seenStart>>

-----------------------------------------------------------------------------
\* Mutant: the new process only restarts the sequence.
PollMetrics_KeepsCatalog ==
    /\ up
    /\ seenStart' = gen
    /\ last' = IF seenStart # None /\ seenStart # gen THEN None ELSE last
    /\ UNCHANGED <<publisher, wire, pc, listener, replay, catalog, status>>

\* update_metrics_text: another start time than the last one seen clears the
\* catalog and forgets the sequence, wherever the listener is suspended.
PollMetrics ==
    /\ up
    /\ seenStart' = gen
    /\ IF seenStart # None /\ seenStart # gen
       THEN catalog' = {} /\ last' = None
       ELSE UNCHANGED <<catalog, last>>
    /\ UNCHANGED <<publisher, wire, pc, listener, replay, status>>

\* The node does not answer: only its metrics become unavailable.
PollFails ==
    /\ ~up
    /\ UNCHANGED vars

Next ==
    \/ Publish \/ Exit \/ Restart \/ ServeReplay
    \/ Receive \/ ReceiveBeyondGap \/ RequestGap \/ ReceiveMalformed
    \/ ReplayFrame \/ ReplayEnd \/ ReplayTimeout \/ ListenerFails
    \/ PollMetrics \/ PollFails

Spec == Init /\ [][Next]_vars

-----------------------------------------------------------------------------
(* Properties.                                                             *)

TypeOK ==
    /\ gen \in Nat /\ up \in BOOLEAN /\ published \in Nat
    /\ wire \in Seq(Batches)
    /\ pc \in {"receiving", "requesting", "replaying", "dead"}
    /\ hasReplay \in BOOLEAN /\ inLoop \in BOOLEAN
    /\ pending \in Batches \cup {None}
    /\ start \in Nat
    /\ frames \in Seq(Batches)
    /\ first \in Nat \cup {None}
    /\ last \in Nat \cup {None}
    /\ catalog \subseteq Batches
    /\ status \in {"HEALTHY", "DEGRADED"}
    /\ seenStart \in Nat \cup {None}

\* The batches a listener that missed nothing has applied.
UpTo(g, lst) == IF lst = None THEN {} ELSE {Batch(g, i) : i \in 0..lst}

\* The replay in progress has turned out to start after a batch that is lost.
StartsLate == pc = "replaying" /\ first # None /\ first > start

\* As long as the process lives that the router found at its start, a catalog
\* that routing trusts (HEALTHY) is made of every batch up to the last one
\* applied, at every await of the listener: no loss, replay that starts too
\* late, ends too early or overlaps the live messages leaves an unnoticed hole.
\* (A replay that starts late degrades the catalog only when it ends.)
HealthyIsExact ==
    gen = 1 /\ status = "HEALTHY" /\ pc # "dead" /\ ~StartsLate =>
        catalog = UpTo(1, last)

\* Once the metrics have shown the process that runs, a trusted catalog holds
\* no block of an earlier process.
FreshAfterPoll ==
    status = "HEALTHY" /\ seenStart = gen =>
        \A b \in catalog : b.gen = gen

\* A listener that has ended does not leave a catalog that routing trusts.
DeadListenerIsDegraded == pc = "dead" => status = "DEGRADED"

\* A listener that has come to its loop does not end with a catalog that
\* routing trusts, on either side of Python 3.11 and wherever it fails: not
\* at a message, and not at a timeout or an error of a later replay.
EndedLoopIsDegraded == pc = "dead" /\ inLoop => status = "DEGRADED"

\* Batches are applied in sequence: the last sequence number moves back only
\* together with a cleared catalog, so that an older batch of a replay or of
\* the socket is never applied over a newer one.
AppliedInOrder ==
    [][last # None =>
          \/ last' # None /\ last' >= last
          \/ catalog' \subseteq {Batch(gen, 0)}]_vars

\* A restart that the stream shows leaves nothing of the old process behind:
\* a catalog with the first batch of a process has no earlier ones.  (A restart
\* whose first batch is lost, or skipped because the old process had delivered
\* its first one only, is left to the metrics poll.)
FirstBatchStartsAnew ==
    \A a, b \in catalog : a.gen < b.gen => Batch(b.gen, 0) \notin catalog
=============================================================================
