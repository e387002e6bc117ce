------------------------------ MODULE MCLogger ------------------------------
(* Logger for TLC: a few messages, a signal at any point. *)
EXTENDS Logger
=============================================================================
