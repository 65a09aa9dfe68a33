------------------------------ MODULE MCMedia -------------------------------
(* Two sessions, two files, three URIs, two handlers and one failure.       *)
EXTENDS Media, TLC

CONSTANTS a, b, f1, f2, u1, u2, u3, h1, h2

MCSessions == {a, b}
MCFiles == {f1, f2}
MCUris == {u1, u2, u3}
MCHandlers == {h1, h2}
MCSymmetry ==
  Permutations(MCUris) \cup Permutations(MCSessions) \cup
  Permutations(MCFiles) \cup Permutations(MCHandlers)
=============================================================================
