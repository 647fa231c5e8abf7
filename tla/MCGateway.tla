------------------------------ MODULE MCGateway ------------------------------
(* Small instances of Gateway for TLC.                                     *)
EXTENDS Gateway, TLC

\* Requests are interchangeable, and so are the nodes.
Symmetry == Permutations(Requests) \cup Permutations(Nodes)
=============================================================================
