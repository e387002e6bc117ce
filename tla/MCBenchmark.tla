----------------------------- MODULE MCBenchmark -----------------------------
(* Benchmark for TLC. *)
EXTENDS Benchmark
=============================================================================
