------------------------------- MODULE MCHost ------------------------------
(* Host for TLC: see Host.cfg *)
EXTENDS Host, TLC

\* An alias at an old port of the signer on USB.
MCAlike == {<<"old", "usb">>}

DeviceSymmetry == Permutations(Devices)
=============================================================================
