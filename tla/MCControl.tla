----------------------------- MODULE MCControl ------------------------------
(***************************************************************************)
(* Control for TLC: queues short enough to fill up.                        *)
(***************************************************************************)
EXTENDS Control
=============================================================================
