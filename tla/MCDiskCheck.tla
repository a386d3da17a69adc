---------------------------- MODULE MCDiskCheck ----------------------------
(* russignol check disk on a small card. *)
EXTENDS DiskCheck
=============================================================================
