-------------------------- MODULE MCDeviceIdentity --------------------------
(* Finite instances of DeviceIdentity for TLC. *)
EXTENDS DeviceIdentity, TLC

Symmetry == Permutations(Handlers) \cup Permutations(Devices \ {Ement})
=============================================================================
