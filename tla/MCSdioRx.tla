------------------------------ MODULE MCSdioRx ------------------------------
(***************************************************************************)
(* SdioRx for TLC: four buffers, so the load moves in steps of 25 percent. *)
(* One configuration starts throttling with three packets in the queue and *)
(* ends it with one; the other switches it off.                            *)
(***************************************************************************)
EXTENDS SdioRx

MCConfigs == {<<50, 30>>, <<0, 0>>}
=============================================================================
