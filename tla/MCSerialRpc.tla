---------------------------- MODULE MCSerialRpc ----------------------------
(***************************************************************************)
(* SerialRpc for TLC: a host that awaits each answer (_one.cfg), and one   *)
(* that has two requests under way (_many.cfg).                            *)
(***************************************************************************)
EXTENDS SerialRpc
=============================================================================
