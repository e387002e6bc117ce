----------------------------- MODULE MCStatistics -----------------------------
(* Statistics for TLC. *)
EXTENDS Statistics
=============================================================================
