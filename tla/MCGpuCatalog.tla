---------------------------- MODULE MCGpuCatalog ----------------------------
(* Small instances of GpuCatalog for TLC.                                  *)
EXTENDS GpuCatalog, TLC

\* Token tuples are interchangeable, and so are extra keys.
Symmetry == Permutations(Contents) \cup Permutations(Extras)
=============================================================================
