---------------------------- MODULE MCBenchmark ----------------------------
(***************************************************************************)
(* Two workers, each with two GETs on one socket and a SET behind them,    *)
(* and one entry left over; the SETs have a key of their own.              *)
(***************************************************************************)
EXTENDS Benchmark

CONSTANTS k1, k2

MCKeyOf == [i \in 0 .. (nums - 1) |-> IF IsTcp(i) THEN k2 ELSE k1]
MCCountOf == [k \in Keys |-> 0]

=============================================================================
