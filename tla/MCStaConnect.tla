---------------------------- MODULE MCStaConnect ----------------------------
(***************************************************************************)
(* StaConnect for TLC: two configurations, from power-on.                  *)
(***************************************************************************)
EXTENDS StaConnect
=============================================================================
