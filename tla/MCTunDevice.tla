---------------------------- MODULE MCTunDevice -----------------------------
(***************************************************************************)
(* TunDevice for TLC: two devices, so that one is stopped after the other. *)
(***************************************************************************)
EXTENDS TunDevice

CONSTANTS d1, d2
=============================================================================
