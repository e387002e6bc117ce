----------------------------- MODULE MCEncoder -----------------------------
(* FodEncoder for TLC: batches of two rows. *)
EXTENDS FodEncoder
=============================================================================
