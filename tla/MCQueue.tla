------------------------------ MODULE MCQueue ------------------------------
(***************************************************************************)
(* SPMCQueue for TLC.  The cfg files name the readers and words and give   *)
(* the ring a size and an index range small enough to wrap.                *)
(***************************************************************************)
EXTENDS SPMCQueue
=============================================================================
