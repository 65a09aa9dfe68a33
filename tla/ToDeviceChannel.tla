--------------------------- MODULE ToDeviceChannel ---------------------------
(***************************************************************************)
(* What the proxy promises the OlmMachine about to-device events: an       *)
(* ordered channel that loses nothing.  The homeserver numbers the events  *)
(* addressed to this device 1, 2, 3 ...; `got' is the set of events the    *)
(* machine has been handed and `deleted' how many of the first events the  *)
(* homeserver no longer keeps.  The machine has always been handed a       *)
(* prefix of the stream, and nothing is deleted that it has not been       *)
(* handed.                                                                 *)
(***************************************************************************)
EXTENDS Naturals

VARIABLES
  sent,     \* events sent to this device so far
  deleted,  \* events 1 .. deleted are gone from the homeserver
  got       \* events handed to the OlmMachine

vars == <<sent, deleted, got>>

Init == sent = 0 /\ deleted = 0 /\ got = {}

Send == sent' = sent + 1 /\ UNCHANGED <<deleted, got>>

\* The machine is handed the events that follow those it has, in order.
Hand ==
  /\ \E n \in 0 .. sent : got \subseteq 1 .. n /\ got' = 1 .. n
  /\ UNCHANGED <<sent, deleted>>

\* The homeserver forgets events the machine has been handed.
Delete ==
  /\ deleted' \in Nat /\ deleted <= deleted'
  /\ 1 .. deleted' \subseteq got
  /\ UNCHANGED <<sent, got>>

Next == Send \/ Hand \/ Delete

Spec == Init /\ [][Next]_vars
==============================================================================
