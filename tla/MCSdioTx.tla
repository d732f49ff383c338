------------------------------ MODULE MCSdioTx ------------------------------
(***************************************************************************)
(* SdioTx for TLC: the WiFi driver's task, pserial_task and                *)
(* host_reset_task send through a driver with two places.                  *)
(***************************************************************************)
EXTENDS SdioTx

CONSTANTS Wifi, Pserial

MCWriters == {Wifi, Pserial}
=============================================================================
