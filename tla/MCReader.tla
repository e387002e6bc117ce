------------------------------ MODULE MCReader ------------------------------
(* ShmReader for TLC: a ring of two blocks, lapped by the writer. *)
EXTENDS ShmReader
=============================================================================
