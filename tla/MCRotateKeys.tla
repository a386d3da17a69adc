---------------------------- MODULE MCRotateKeys ----------------------------
(* russignol rotate-keys with two devices.  The devices are not exchanged   *)
(* for each other: one of them bakes at the start.                          *)
EXTENDS RotateKeys
=============================================================================
