----------------------------- MODULE MCSendPath -----------------------------
(* Finite instances of SendPath for TLC. *)
EXTENDS SendPath, TLC
=============================================================================
