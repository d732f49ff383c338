----------------------------- MODULE MCWifiApp -----------------------------
(***************************************************************************)
(* WifiApp for TLC.  MaxRetry is 2 instead of 5: enough for a first, a      *)
(* last and a refused retry.                                               *)
(***************************************************************************)
EXTENDS WifiApp
=============================================================================
