--------------------------- MODULE QueueEstimator ---------------------------
(***************************************************************************)
(* OnlineQueueTimeEstimator: it learns the queue delay per unit of work in *)
(* flight from a window of samples, one window for each node and one for   *)
(* the cluster, which stands in for a node that has too few samples.       *)
(*                                                                         *)
(* Work and delay are integers; a slope, which is a float in the code, is  *)
(* a fraction of integers here.                                            *)
(***************************************************************************)
EXTENDS Integers, Sequences, SequencesExt

CONSTANTS
    Nodes,
    History,     \* history_size; at least 8 in the code
    LocalMin     \* local_min_samples

\* The constructor takes max(8, history_size) and max(1, local_min_samples);
\* nothing depends on the eight.
ASSUME EstimatorAssumption ==
    /\ Nodes # {}
    /\ History \in Nat \ {0} /\ LocalMin \in Nat \ {0}

VARIABLES
    cluster,   \* _global.samples
    local,     \* the samples of _nodes; empty for a node without an entry
    accepted   \* history: every accepted sample, with its node

windows == <<cluster, local>>
estimator == <<windows, accepted>>

EmptyWindows ==
    /\ cluster = <<>>
    /\ local = [n \in Nodes |-> <<>>]
    /\ accepted = <<>>

-----------------------------------------------------------------------------
Max2(a, b) == IF a > b THEN a ELSE b

\* deque(maxlen).append.
Push(window, sample) ==
    LET all == Append(window, sample)
    IN  SubSeq(all, Max2(1, Len(all) + 1 - History), Len(all))

\* The sum of a sequence of numbers.
Total(values) == FoldLeft(LAMBDA sum, v : v + sum, 0, values)

\* Mutant: the average of the works and of the delays.
Slope_Average(window) ==
    [num |-> Total([i \in DOMAIN window |-> window[i].delay]),
     den |-> Total([i \in DOMAIN window |-> window[i].work])]

\* _QueueEstimate.slope: least squares through the origin.  Delays are not
\* negative, so the outer max of the code changes nothing.
Slope(window) ==
    [num |-> Total([i \in DOMAIN window |-> window[i].work * window[i].delay]),
     den |-> Total([i \in DOMAIN window |-> window[i].work * window[i].work])]

\* The window predict_ms takes for a node.
Estimate(n) == IF Len(local[n]) < LocalMin THEN cluster ELSE local[n]

\* predict_ms is Predicted(n).num / Predicted(n).den for each unit of work,
\* and zero without samples.
Predicted(n) ==
    IF Estimate(n) = <<>> THEN [num |-> 0, den |-> 1] ELSE Slope(Estimate(n))

\* Mutant: a sample at an idle node is accepted.
Observe_AtIdle(n, work, delay) ==
    LET sample == [work |-> work, delay |-> Max2(0, delay)]
    IN  /\ cluster' = Push(cluster, sample)
        /\ local' = [local EXCEPT ![n] = Push(@, sample)]
        /\ accepted' = Append(accepted, [node |-> n, work |-> work, delay |-> Max2(0, delay)])

\* observe(): a sample at zero work is dropped.
Observe(n, work, delay) ==
    IF work <= 0 THEN UNCHANGED estimator
    ELSE LET sample == [work |-> work, delay |-> Max2(0, delay)]
         IN  /\ cluster' = Push(cluster, sample)
             /\ local' = [local EXCEPT ![n] = Push(@, sample)]
             /\ accepted' = Append(accepted, [node |-> n, work |-> work, delay |-> Max2(0, delay)])

-----------------------------------------------------------------------------
(* Properties.                                                             *)

\* No window outgrows the deque, and what it holds can be divided by.
TypeOK ==
    /\ cluster \in Seq([work : Nat \ {0}, delay : Nat]) /\ Len(cluster) <= History
    /\ \A n \in Nodes :
          /\ local[n] \in Seq([work : Nat \ {0}, delay : Nat]) /\ Len(local[n]) <= History

\* The samples a prediction for node n should rest on: the last of its own as
\* soon as it has delivered enough, and the last of the cluster before that.
OfNode(n) ==
    LET kept[i \in 0 .. Len(accepted)] ==
            IF i = 0 THEN <<>>
            ELSE IF accepted[i].node = n THEN Append(kept[i - 1], accepted[i]) ELSE kept[i - 1]
    IN  kept[Len(accepted)]
Recent(samples) == SubSeq(samples, Max2(1, Len(samples) + 1 - History), Len(samples))
Relevant(n) == IF Len(OfNode(n)) < LocalMin THEN Recent(accepted) ELSE Recent(OfNode(n))

\* The squared error of the slope num / den, times den squared.
Error(samples, num, den) ==
    LET miss(i) == den * samples[i].delay - num * samples[i].work
    IN  Total([i \in DOMAIN samples |-> miss(i) * miss(i)])

\* The slopes a prediction is compared with: halves, thirds and integers.
Fractions == [num : 0..6, den : 1..3]

\* A prediction minimizes the squared error over the samples it should rest
\* on, whatever was dropped, clamped or pushed out of either window before.
PredictionIsLeastSquares ==
    \A n \in Nodes :
        Relevant(n) # <<>> =>
            LET p == Predicted(n)
            IN  \A f \in Fractions :
                    Error(Relevant(n), p.num, p.den) * f.den * f.den
                      <= Error(Relevant(n), f.num, f.den) * p.den * p.den
=============================================================================
