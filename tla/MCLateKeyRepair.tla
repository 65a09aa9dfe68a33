--------------------------- MODULE MCLateKeyRepair ---------------------------
(* Finite instances of LateKeyRepair for TLC. *)
EXTENDS LateKeyRepair, TLC

CONSTANTS e1, e2, e3, k1, k2, r1, r2

OneEvent == e1 :> k1
OneRoom == e1 :> r1
OneSession == (e1 :> k1) @@ (e2 :> k1)
SameRoom == (e1 :> r1) @@ (e2 :> r1)
OneNameless == OneSession @@ (e3 :> NoSession)
TwoRooms == (e1 :> r1) @@ (e2 :> r2) @@ (e3 :> r2)

\* Sound where both events have the same session and room.
Symmetry == Permutations({e1, e2})
==============================================================================
