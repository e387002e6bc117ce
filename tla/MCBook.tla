------------------------------- MODULE MCBook -------------------------------
(* OrderFlow, with the passive book beside it, for TLC. *)
EXTENDS TwoBooks
=============================================================================
