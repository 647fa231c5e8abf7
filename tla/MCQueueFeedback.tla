--------------------------- MODULE MCQueueFeedback ---------------------------
(* A small instance of QueueFeedback for TLC.                              *)
EXTENDS QueueFeedback

\* An engine that is faster than its prices and a slow one.
MCRate == [n \in Nodes |-> IF n = 1 THEN -1 ELSE 3]

\* Blank lines, data with a whole value and with its halves, another field;
\* some end in CR LF.
MCLineKinds ==
    {<<"LF">>, <<"CR", "LF">>, <<"data:", "head", "tail", "LF">>, <<"data:", "head", "LF">>,
     <<"data:", "tail", "CR", "LF">>, <<"tail", "LF">>}
=============================================================================
