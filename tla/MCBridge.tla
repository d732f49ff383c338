------------------------------ MODULE MCBridge ------------------------------
(***************************************************************************)
(* Bridge for TLC: two UARTs and up to two TCP connections.                *)
(***************************************************************************)
EXTENDS Bridge, TLC

\* In the runs that check no liveness the connections are interchangeable.
Symmetry == Permutations(Conns)
=============================================================================
