----------------------------- MODULE MCMetricsPoll -----------------------------
(* The instance of MetricsPoll for TLC needs no further definitions.       *)
EXTENDS MetricsPoll
=============================================================================
