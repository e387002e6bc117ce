------------------------------- MODULE MCTwins -------------------------------
(* TwinReaders for TLC. *)
EXTENDS TwinReaders
=============================================================================
