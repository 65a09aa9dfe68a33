----------------------------- MODULE MCOutgoing -----------------------------
(* Finite instances of Outgoing for TLC. *)
EXTENDS Outgoing, TLC
=============================================================================
