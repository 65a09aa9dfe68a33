------------------------------ MODULE SendPath ------------------------------
(***************************************************************************)
(* Sending into a room (src/crypto/encrypt.rs: handle_send,                *)
(* send_room_message_request, encrypt_content) and what the proxy knows of *)
(* the room (src/crypto/rooms.rs).                                         *)
(*                                                                         *)
(* One room.  Its encryption may be switched on and users join and leave;  *)
(* the client's sync tells the proxy of each change in order and later     *)
(* than it happens.  Several sends are under way at a time.  Of the        *)
(* OlmMachine the model keeps whose devices it knows and who has the key   *)
(* of the current outbound session.                                        *)
(***************************************************************************)
EXTENDS Naturals, Sequences, FiniteSets

CONSTANTS
  Senders,     \* sends that can be under way at a time
  Users,       \* the other users, in the room or not
  Encryption,  \* the m.room.encryption event
  Overlap,     \* a sync may be processed while a send handles an answer
  MaxChanges   \* bound: changes of the room

ASSUME EventAssumption == Encryption \notin Users
ASSUME ScopeAssumption == Overlap \in BOOLEAN /\ MaxChanges \in Nat

VARIABLES
  encrypted, present,   \* homeserver: the room's encryption and members
  stream, changes,      \* changes the sync has not told yet; how many so far
  unencrypted,          \* RoomTracker.unencrypted has the room
  settings,             \* the OlmMachine's room settings are stored
  cache,                \* RoomTracker.members: the set of the cached list, or {}
  tracked, known,       \* users the OlmMachine tracks; whose devices it knows
  holders,              \* users with the key of the outbound session
  pc,                   \* where each send stands
  list,                 \* its member list
  todo,                 \* users its key share has still to reach
  readers,              \* users with the key of its encrypted event
  blind,                \* its pump failed
  sure, here, gone      \* what the sync had told when the send began

room    == <<encrypted, present, stream, changes>>
tracker == <<unencrypted, settings, cache>>
olm     == <<tracked, known, holders>>
facts   == <<sure, here, gone>>
sends   == <<pc, list, todo, readers, blind>>
vars    == <<room, tracker, olm, sends, facts>>

Phases == {"idle", "check", "ask", "unset", "plain", "members", "fetch", "store",
           "lock", "pump", "claim", "share", "keys", "put"}
Locked == {"pump", "claim", "share", "keys"}

Goto(h, phase) == pc' = [pc EXCEPT ![h] = phase]

Init ==
  /\ encrypted \in BOOLEAN /\ present \in SUBSET Users
  /\ stream = <<>> /\ changes = 0
  /\ unencrypted = FALSE /\ settings = FALSE /\ cache = {}
  /\ tracked = {} /\ known = {} /\ holders = {}
  /\ pc = [h \in Senders |-> "idle"]
  /\ list = [h \in Senders |-> {}]
  /\ todo = [h \in Senders |-> {}]
  /\ readers = [h \in Senders |-> {}]
  /\ blind = [h \in Senders |-> FALSE]
  /\ sure = [h \in Senders |-> FALSE]
  /\ here = [h \in Senders |-> {}] /\ gone = [h \in Senders |-> {}]

-----------------------------------------------------------------------------
(* The room, and the sync that tells of it *)

Untold == {stream[i] : i \in DOMAIN stream}

Change(what) ==
  /\ changes < MaxChanges /\ changes' = changes + 1
  /\ stream' = Append(stream, what)
  /\ UNCHANGED <<tracker, olm, sends>>

EnableEncryption ==
  /\ ~encrypted /\ encrypted' = TRUE
  /\ Change(Encryption)
  /\ UNCHANGED <<present, facts>>

\* Somebody joins or leaves: sends under way may go by the old or the new list.
Membership ==
  \E u \in Users :
    /\ present' = IF u \in present THEN present \ {u} ELSE present \cup {u}
    /\ here' = [h \in Senders |-> here[h] \ {u}]
    /\ gone' = [h \in Senders |-> gone[h] \ {u}]
    /\ Change(u)
    /\ UNCHANGED <<encrypted, sure>>

\* A send has been told something by the homeserver that it is about to store.
Storing == \E h \in Senders : pc[h] \in {"unset", "store"}

ScanKeepsMembers ==         \* mutant: a member event does not clear the cache
  /\ stream # <<>> /\ (Overlap \/ ~Storing)
  /\ stream' = Tail(stream)
  /\ IF Head(stream) = Encryption
     THEN unencrypted' = FALSE /\ settings' = TRUE
     ELSE UNCHANGED <<unencrypted, settings>>
  /\ UNCHANGED <<encrypted, present, changes, cache, olm, sends, facts>>

\* scan_state_events of one event of the sync response.
Scan ==
  /\ stream # <<>> /\ (Overlap \/ ~Storing)
  /\ stream' = Tail(stream)
  /\ IF Head(stream) = Encryption
     THEN unencrypted' = FALSE /\ settings' = TRUE /\ UNCHANGED cache
     ELSE cache' = {} /\ UNCHANGED <<unencrypted, settings>>
  /\ UNCHANGED <<encrypted, present, changes, olm, sends, facts>>

\* MEMBER_CACHE_TTL has passed.
Expire ==
  /\ cache # {} /\ cache' = {}
  /\ UNCHANGED <<room, unencrypted, settings, olm, sends, facts>>

\* machine::pump of another task: key queries are answered.
Pump ==
  /\ known # tracked /\ known' = tracked
  /\ UNCHANGED <<room, tracker, tracked, holders, sends, facts>>

-----------------------------------------------------------------------------
(* handle_send: is the room encrypted? *)

Start(h) ==
  /\ pc[h] = "idle" /\ Goto(h, "check")
  /\ sure' = [sure EXCEPT ![h] = encrypted /\ Encryption \notin Untold]
  /\ here' = [here EXCEPT ![h] = present \ Untold]
  /\ gone' = [gone EXCEPT ![h] = (Users \ present) \ Untold]
  /\ UNCHANGED <<room, tracker, olm, list, todo, readers, blind>>

\* The negative cache, then the stored settings, then the homeserver.
Check(h) ==
  /\ pc[h] = "check"
  /\ Goto(h, IF unencrypted THEN "plain" ELSE IF settings THEN "members" ELSE "ask")
  /\ UNCHANGED <<room, tracker, olm, list, todo, readers, blind, facts>>

\* The homeserver has no m.room.encryption state of the room: 404.
AnswerUnset(h) ==
  /\ pc[h] = "ask" /\ ~encrypted
  /\ Goto(h, "unset")
  /\ UNCHANGED <<room, tracker, olm, list, todo, readers, blind, facts>>

MarkUnencrypted(h) ==
  /\ pc[h] = "unset" /\ Goto(h, "plain")
  /\ unencrypted' = TRUE
  /\ UNCHANGED <<room, settings, cache, olm, list, todo, readers, blind, facts>>

AnswerSet(h) ==
  /\ pc[h] = "ask" /\ encrypted
  /\ Goto(h, "members")
  /\ unencrypted' = FALSE /\ settings' = TRUE
  /\ UNCHANGED <<room, cache, olm, list, todo, readers, blind, facts>>

-----------------------------------------------------------------------------
(* encrypt_content *)

\* joined_members: from the cache, if it is there.
Members(h) ==
  /\ pc[h] = "members"
  /\ IF cache = {}
     THEN Goto(h, "fetch") /\ UNCHANGED list
     ELSE Goto(h, "lock") /\ \E l \in cache : list' = [list EXCEPT ![h] = l]
  /\ UNCHANGED <<room, tracker, olm, todo, readers, blind, facts>>

FetchMembers(h) ==
  /\ pc[h] = "fetch" /\ Goto(h, "store")
  /\ list' = [list EXCEPT ![h] = present]
  /\ UNCHANGED <<room, tracker, olm, todo, readers, blind, facts>>

CacheMembers(h) ==
  /\ pc[h] = "store" /\ Goto(h, "lock")
  /\ cache' = {list[h]}
  /\ UNCHANGED <<room, unencrypted, settings, olm, list, todo, readers, blind, facts>>

LockIgnored(h) == TRUE      \* mutant: the section is not serialised

LockTwice(h) ==             \* mutant: who waits for the lock holds it already
  \A g \in Senders : pc[g] \notin Locked \cup {"lock"}

LockFree(h) == \A g \in Senders : pc[g] \notin Locked

\* share_lock, then update_tracked_users.
Lock(h) ==
  /\ pc[h] = "lock" /\ LockFree(h) /\ Goto(h, "pump")
  /\ tracked' = tracked \cup list[h]
  /\ UNCHANGED <<room, tracker, known, holders, list, todo, readers, blind, facts>>

\* The pump flushes the key queries; its failure does not stop the send.
PumpDone(h) ==
  /\ pc[h] = "pump" /\ Goto(h, "claim")
  /\ \/ known' = tracked /\ blind' = blind
     \/ known' = known /\ blind' = [blind EXCEPT ![h] = TRUE]
  /\ UNCHANGED <<room, tracker, tracked, holders, list, todo, readers, facts>>

\* get_missing_sessions and send_keys_claim.
Claim(h) ==
  /\ pc[h] = "claim" /\ Goto(h, "share")
  /\ UNCHANGED <<room, tracker, olm, list, todo, readers, blind, facts>>

ShareWithUnknown(h) ==      \* mutant: devices are not looked up first
  /\ pc[h] = "share" /\ Goto(h, "keys")
  /\ holders' = IF holders \subseteq list[h] THEN holders ELSE {}
  /\ todo' = [todo EXCEPT ![h] = list[h] \ holders']
  /\ UNCHANGED <<room, tracker, tracked, known, list, readers, blind, facts>>

\* share_room_key: a new session if somebody who has the key is not on the
\* list, then a request for everyone without the key.
Share(h) ==
  /\ pc[h] = "share" /\ Goto(h, "keys")
  /\ holders' = IF holders \subseteq list[h] THEN holders ELSE {}
  /\ todo' = [todo EXCEPT ![h] = (list[h] \cap known) \ holders']
  /\ UNCHANGED <<room, tracker, tracked, known, list, readers, blind, facts>>

SendKey(h) ==
  /\ pc[h] = "keys"
  /\ \E u \in todo[h] : holders' = holders \cup {u} /\ todo' = [todo EXCEPT ![h] = @ \ {u}]
  /\ UNCHANGED <<room, tracker, tracked, known, pc, list, readers, blind, facts>>

\* encrypt_room_event_raw; the lock is released.
Encrypt(h) ==
  /\ pc[h] = "keys" /\ todo[h] = {} /\ Goto(h, "put")
  /\ readers' = [readers EXCEPT ![h] = holders]
  /\ UNCHANGED <<room, tracker, olm, list, todo, blind, facts>>

-----------------------------------------------------------------------------
(* The end of a send *)

Forget(h) ==
  /\ list' = [list EXCEPT ![h] = {}]
  /\ todo' = [todo EXCEPT ![h] = {}]
  /\ readers' = [readers EXCEPT ![h] = {}]
  /\ blind' = [blind EXCEPT ![h] = FALSE]
  /\ sure' = [sure EXCEPT ![h] = FALSE]
  /\ here' = [here EXCEPT ![h] = {}] /\ gone' = [gone EXCEPT ![h] = {}]

\* The event is put into the room, in plaintext or encrypted.
Put(h) ==
  /\ pc[h] \in {"plain", "put"} /\ Goto(h, "idle") /\ Forget(h)
  /\ UNCHANGED <<room, tracker, olm>>

FailOpen(h) ==              \* mutant: no answer counts as "not encrypted"
  /\ pc[h] \in {"ask", "fetch", "claim", "keys"}
  /\ IF pc[h] = "ask"
     THEN Goto(h, "plain") /\ UNCHANGED <<list, todo, readers, blind, facts>>
     ELSE Goto(h, "idle") /\ Forget(h)
  /\ UNCHANGED <<room, tracker, olm>>

\* A request fails: the client gets an error, and nothing is put.
Fail(h) ==
  /\ pc[h] \in {"ask", "fetch", "claim", "keys"}
  /\ Goto(h, "idle") /\ Forget(h)
  /\ UNCHANGED <<room, tracker, olm>>

\* The client goes away and the future is dropped at an await.
Drop(h) ==
  /\ pc[h] \in {"ask", "fetch", "lock", "pump", "claim", "keys"}
  /\ Goto(h, "idle") /\ Forget(h)
  /\ UNCHANGED <<room, tracker, olm>>

\* The proxy restarts: the store survives, RoomTracker does not.
Restart ==
  /\ unencrypted' = FALSE /\ cache' = {}
  /\ pc' = [h \in Senders |-> "idle"]
  /\ list' = [h \in Senders |-> {}]
  /\ todo' = [h \in Senders |-> {}]
  /\ readers' = [h \in Senders |-> {}]
  /\ blind' = [h \in Senders |-> FALSE]
  /\ sure' = [h \in Senders |-> FALSE]
  /\ here' = [h \in Senders |-> {}] /\ gone' = [h \in Senders |-> {}]
  /\ UNCHANGED <<room, settings, olm>>

Progress(h) ==
  \/ Check(h) \/ AnswerUnset(h) \/ AnswerSet(h) \/ MarkUnencrypted(h)
  \/ Members(h) \/ FetchMembers(h) \/ CacheMembers(h)
  \/ PumpDone(h) \/ Claim(h) \/ Share(h) \/ SendKey(h) \/ Encrypt(h) \/ Put(h)

Next ==
  \/ EnableEncryption \/ Membership \/ Scan \/ Expire \/ Pump \/ Restart
  \/ \E h \in Senders :
       Start(h) \/ Lock(h) \/ Progress(h) \/ Fail(h) \/ Drop(h)

Spec == Init /\ [][Next]_vars

\* The homeserver answers, the runtime polls every task, and the lock is fair.
FairSpec ==
  Spec /\ \A h \in Senders : WF_vars(Progress(h)) /\ SF_vars(Lock(h))

-----------------------------------------------------------------------------
(* Properties *)

TypeOK ==
  /\ encrypted \in BOOLEAN /\ present \subseteq Users /\ changes \in 0 .. MaxChanges
  /\ stream \in Seq(Users \cup {Encryption})
  /\ unencrypted \in BOOLEAN /\ settings \in BOOLEAN
  /\ cache \subseteq SUBSET Users /\ Cardinality(cache) <= 1
  /\ known \subseteq tracked /\ tracked \subseteq Users /\ holders \subseteq known
  /\ pc \in [Senders -> Phases]
  /\ list \in [Senders -> SUBSET Users] /\ todo \in [Senders -> SUBSET Users]
  /\ readers \in [Senders -> SUBSET Users] /\ blind \in [Senders -> BOOLEAN]
  /\ sure \in [Senders -> BOOLEAN]
  /\ here \in [Senders -> SUBSET Users] /\ gone \in [Senders -> SUBSET Users]

\* "Fail closed ... do NOT forward plaintext": a send that begins once the sync
\* has told of the room's encryption never goes out in plaintext.
NoPlaintext == \A h \in Senders : pc[h] = "plain" => ~sure[h]

\* "Concurrent sends must not race on session establishment": an event is
\* encrypted for exactly the members of its send's list, whatever other sends
\* do to the session; only a failed pump leaves some of them out.
EveryMemberReads ==
  \A h \in Senders : pc[h] = "put" =>
    /\ readers[h] \subseteq list[h]
    /\ ~blind[h] => readers[h] = list[h]

\* Who has left, as the sync told before the send began, cannot read the event;
\* who has joined is on the list.
MembershipRespected ==
  \A h \in Senders : pc[h] = "put" =>
    readers[h] \cap gone[h] = {} /\ here[h] \subseteq list[h]

\* Every send comes to an end.
EverySendEnds == \A h \in Senders : pc[h] # "idle" ~> pc[h] = "idle"
=============================================================================
