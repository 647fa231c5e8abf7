--------------------------- MODULE MCLMCacheLookup ---------------------------
(* Small instances of LMCacheLookup for TLC.                               *)
EXTENDS LMCacheLookup, TLC

Symmetry == Permutations(Domains) \cup Permutations(Queries)

\* Two chunks of two workers: half of the second one missing, half of the first.
MCHitSets == {{1, 2, 3}, {1, 3, 4}}
=============================================================================
