--------------------------- MODULE MCVerification ---------------------------
(* Two flows, one of ours and one with another user in a room, any number   *)
(* of syncs, `ctl verify' and another admin client.                         *)
EXTENDS Verification

CONSTANTS ours, theirs, ctl, other

MCFlows == {ours, theirs}
MCOurs == {ours}
MCForeign == {theirs}
MCAdmins == {ctl, other}
MCCommands == {"sas-accept", "cancel"}
=============================================================================
