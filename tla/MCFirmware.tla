----------------------------- MODULE MCFirmware -----------------------------
(***************************************************************************)
(* Firmware needs no bounds: its state space is finite as it is.           *)
(***************************************************************************)
EXTENDS Firmware

=============================================================================
