---------------------------- MODULE LateKeyRepair ----------------------------
(***************************************************************************)
(* From an undecryptable event to the edit that repairs its placeholder.   *)
(*                                                                         *)
(* Handlers decrypt the events of their response (src/crypto/decrypt.rs),  *)
(* put those without a key into the RepairQueue and deliver placeholders   *)
(* for them.  Keys reach the OlmMachine with a sync (src/crypto/sync.rs)   *)
(* or an import (src/admin/mod.rs).  A sync ends by taking the repairs     *)
(* that became ready and adding edits to its response                      *)
(* (src/crypto/repair.rs: inject).  Between any two awaits of a handler    *)
(* others run.                                                             *)
(***************************************************************************)
EXTENDS RepairQueue

CONSTANTS
  Histories,    \* handlers of /messages, /context and /event
  Rooms, RoomOf,  \* the room of each event
  Serial,       \* the client has one answer at a time processed and read
  MaxImports,   \* bound: bulk imports of keys
  MaxLosses,    \* bound: handlers dropped because their client went away
  MaxRestarts   \* bound: restarts of the proxy

ASSUME RoomAssumption == RoomOf \in [Events -> Rooms]
ASSUME ScopeAssumption ==
  Syncs \cap Histories = {} /\ Serial \in BOOLEAN
  /\ MaxImports \in Nat /\ MaxLosses \in Nat /\ MaxRestarts \in Nat

Handlers == Syncs \cup Histories

VARIABLES
  pc,         \* where each handler stands
  body,       \* what the handler's response holds of each event
  incoming,   \* sessions whose keys the sync response carries
  edits,      \* events the sync response carries an edit of
  keys,       \* sessions the OlmMachine has the key of
  joined,     \* RoomTracker.joined
  importing,  \* keys were imported, the queue has not been told yet
  view,       \* what the client shows of each event
  synced,     \* events the client has got with a sync
  promised,   \* events given out as placeholders since the proxy started
  imports, losses, restarts

answers == <<pc, body, incoming, edits>>
client  == <<view, synced, promised>>
bounds  == <<imports, losses, restarts>>
repairVars == <<queueVars, answers, keys, joined, importing, client, bounds>>

Phases == {"idle", "waiting", "receive", "note", "decrypt", "repair", "reply"}
Contents == {"none", "cipher", "failed", "placeholder", "missed", "plain"}

HasKey(e) == SessionOf[e] \in keys
Empty == [e \in Events |-> "none"]
Goto(h, phase) == pc' = [pc EXCEPT ![h] = phase]
Set(h, e, content) == body' = [body EXCEPT ![h][e] = content]

\* No event of the response is between two steps of its treatment.
Steady(h) == \A e \in Events : body[h][e] \notin {"failed", "missed"}
Decrypted(h) == \A e \in Events : body[h][e] \notin {"cipher", "failed"}

Busy == {h \in Handlers : pc[h] \notin {"idle", "waiting"}}
Turn == Serial => Busy = {} /\ ~importing

Init ==
  /\ QueueInit
  /\ pc = [h \in Handlers |-> "idle"]
  /\ body = [h \in Handlers |-> Empty]
  /\ incoming = [h \in Handlers |-> {}]
  /\ edits = [h \in Handlers |-> {}]
  /\ keys = {} /\ joined = Rooms /\ importing = FALSE
  /\ view = [e \in Events |-> "none"] /\ synced = {} /\ promised = {}
  /\ imports = 0 /\ losses = 0 /\ restarts = 0

-----------------------------------------------------------------------------
(* Waiting for something to answer with *)

\* An incremental sync: listen for repairs before looking at the queue.
SyncStart(h) ==
  /\ pc[h] = "idle" /\ Listen(h)
  /\ Goto(h, "waiting")
  /\ UNCHANGED <<body, incoming, edits, keys, joined, importing, client, bounds>>

PollOnOldLook(h) ==         \* mutant: has_ready() was asked before listening
  /\ pc[h] = "waiting" /\ wait[h] = "listening"
  /\ wait' = [wait EXCEPT ![h] = "polling"]
  /\ UNCHANGED <<queue, taken, forgotten, answers, keys, joined, importing, client, bounds>>

Look(h) ==
  /\ pc[h] = "waiting" /\ StartPolling(h)
  /\ UNCHANGED <<answers, keys, joined, importing, client, bounds>>

\* repair_only_response: has_ready(), or the notification came.
AnswerRepairs(h) ==
  /\ pc[h] = "waiting" /\ Turn
  /\ wait[h] = "woken" \/ (wait[h] = "listening" /\ AnyReady)
  /\ StopWaiting(h)
  /\ Goto(h, "decrypt")
  /\ UNCHANGED <<body, incoming, edits, keys, joined, importing, client, bounds>>

\* The homeserver answers the long-poll with new events and room keys.
UpstreamAnswers(h) ==
  /\ pc[h] = "waiting" /\ wait[h] \in {"polling", "woken"} /\ Turn
  /\ StopWaiting(h)
  /\ \E new \in SUBSET (Events \ synced), sent \in SUBSET (Sessions \ keys) :
       /\ body' = [body EXCEPT ![h] = [e \in Events |-> IF e \in new THEN "cipher" ELSE "none"]]
       /\ incoming' = [incoming EXCEPT ![h] = sent]
  /\ Goto(h, "receive")
  /\ UNCHANGED <<edits, keys, joined, importing, client, bounds>>

\* A history request is answered upstream with some of the room's events.
HistoryAnswers(h) ==
  /\ pc[h] = "idle" /\ Turn
  /\ \E old \in (SUBSET Events) \ {{}} :
       body' = [body EXCEPT ![h] = [e \in Events |-> IF e \in old THEN "cipher" ELSE "none"]]
  /\ Goto(h, "decrypt")
  /\ UNCHANGED <<queueVars, incoming, edits, keys, joined, importing, client, bounds>>

-----------------------------------------------------------------------------
(* Keys *)

\* olm.receive_sync_changes stores the keys.
Receive(h) ==
  /\ pc[h] = "receive" /\ \A g \in Syncs : pc[g] # "note"
  /\ keys' = keys \cup incoming[h]
  /\ Goto(h, "note")
  /\ UNCHANGED <<queueVars, body, incoming, edits, joined, importing, client, bounds>>

NoteNothing(h) ==           \* mutant: the queue is not told
  /\ pc[h] = "note"
  /\ incoming' = [incoming EXCEPT ![h] = {}]
  /\ Goto(h, "decrypt")
  /\ UNCHANGED <<queueVars, body, edits, keys, joined, importing, client, bounds>>

\* repairs.note_room_keys, still under the lock on `seen'.
Note(h) ==
  /\ pc[h] = "note" /\ NoteRoomKeys(incoming[h])
  /\ incoming' = [incoming EXCEPT ![h] = {}]
  /\ Goto(h, "decrypt")
  /\ UNCHANGED <<body, edits, keys, joined, importing, client, bounds>>

\* ctl keys import or bootstrap adds keys, then tells the queue.
Import ==
  /\ ~importing /\ Turn
  /\ \E new \in (SUBSET (Sessions \ keys)) \ {{}} : keys' = keys \cup new
  /\ importing' = TRUE
  /\ imports < MaxImports /\ imports' = imports + 1
  /\ UNCHANGED <<queueVars, answers, joined, client, losses, restarts>>

NoteImport ==
  /\ importing /\ NoteBulkImport
  /\ importing' = FALSE
  /\ UNCHANGED <<answers, keys, joined, client, bounds>>

-----------------------------------------------------------------------------
(* Decrypting the response *)

\* decrypt::decrypt of one event; a sync first notes the room as joined.
Decrypt(h, e) ==
  /\ pc[h] = "decrypt" /\ body[h][e] = "cipher" /\ Steady(h)
  /\ Set(h, e, IF HasKey(e) THEN "plain" ELSE "failed")
  /\ joined' = IF h \in Syncs THEN joined \cup {RoomOf[e]} ELSE joined
  /\ UNCHANGED <<queueVars, pc, incoming, edits, keys, importing, client, bounds>>

DecryptUntracked(h, e) ==   \* mutant: the placeholder is not remembered
  /\ body[h][e] = "failed"
  /\ Set(h, e, "placeholder")
  /\ UNCHANGED <<queueVars, pc, incoming, edits, keys, joined, importing, client, bounds>>

\* decrypt_event, after the await of maybe_request_room_key: remember the event
\* and deliver a placeholder that promises to update in place.
TrackPlaceholder(h, e) ==
  /\ body[h][e] = "failed" /\ Track(e)
  /\ Set(h, e, "placeholder")
  /\ UNCHANGED <<pc, incoming, edits, keys, joined, importing, client, bounds>>

HistoryDone(h) ==
  /\ h \in Histories /\ pc[h] = "decrypt" /\ Decrypted(h)
  /\ Goto(h, "reply")
  /\ UNCHANGED <<queueVars, body, incoming, edits, keys, joined, importing, client, bounds>>

-----------------------------------------------------------------------------
(* inject *)

Inject(h) ==
  /\ h \in Syncs /\ pc[h] = "decrypt" /\ Decrypted(h) /\ TakeReady(h)
  /\ Goto(h, "repair")
  /\ UNCHANGED <<body, incoming, edits, keys, joined, importing, client, bounds>>

Repairing(h, e) == pc[h] = "repair" /\ Steady(h) /\ e \in taken[h]

\* The response delivers the event itself: no repair.
SkipDelivered(h, e) ==
  /\ Repairing(h, e) /\ body[h][e] # "none" /\ Settle(h, e)
  /\ UNCHANGED <<answers, keys, joined, importing, client, bounds>>

\* The key is not there after all.
TryInVain(h, e) ==
  /\ Repairing(h, e) /\ body[h][e] = "none" /\ ~HasKey(e)
  /\ Set(h, e, "missed")
  /\ UNCHANGED <<queueVars, pc, incoming, edits, keys, joined, importing, client, bounds>>

PutBack(h, e) ==
  /\ body[h][e] = "missed" /\ Requeue(h, e)
  /\ Set(h, e, "none")
  /\ UNCHANGED <<pc, incoming, edits, keys, joined, importing, client, bounds>>

\* push_into_sync can place an edit in a room the response has or the client
\* has been told it is in.
HasRoom(h, e) ==
  RoomOf[e] \in joined \/ \E d \in Events : body[h][d] # "none" /\ RoomOf[d] = RoomOf[e]

AddEdit(h, e) ==
  /\ Repairing(h, e) /\ body[h][e] = "none" /\ HasKey(e) /\ HasRoom(h, e) /\ Settle(h, e)
  /\ edits' = [edits EXCEPT ![h] = @ \cup {e}]
  /\ UNCHANGED <<pc, body, incoming, keys, joined, importing, client, bounds>>

\* push_into_sync returns false and the repair is gone.
DropEdit(h, e) ==
  /\ Repairing(h, e) /\ body[h][e] = "none" /\ HasKey(e) /\ ~HasRoom(h, e) /\ Settle(h, e)
  /\ UNCHANGED <<answers, keys, joined, importing, client, bounds>>

-----------------------------------------------------------------------------
(* The client *)

Finish(h) ==
  /\ Goto(h, "idle")
  /\ body' = [body EXCEPT ![h] = Empty]
  /\ incoming' = [incoming EXCEPT ![h] = {}]
  /\ edits' = [edits EXCEPT ![h] = {}]

Answered(h) ==
  IF h \in Syncs THEN pc[h] = "repair" /\ Steady(h) /\ taken[h] = {} ELSE pc[h] = "reply"

\* The client reads the response.  A plain event replaces a placeholder, an
\* edit swaps a placeholder it knows for the content.
Reply(h) ==
  /\ Answered(h)
  /\ view' = [e \in Events |->
       CASE body[h][e] = "plain" -> "plain"
         [] body[h][e] = "placeholder" /\ view[e] = "none" -> "placeholder"
         [] e \in edits[h] /\ view[e] = "placeholder" -> "plain"
         [] OTHER -> view[e]]
  /\ promised' = promised \cup {e \in Events : body[h][e] = "placeholder"}
  /\ synced' = IF h \in Syncs THEN synced \cup {e \in Events : body[h][e] # "none"} ELSE synced
  /\ Finish(h)
  /\ UNCHANGED <<queueVars, keys, joined, importing, bounds>>

\* The client goes away: the handler is dropped at an await, or its response is
\* lost.  A sync is asked again from the same position.
Cancel(h) ==
  /\ losses < MaxLosses /\ losses' = losses + 1
  /\ pc[h] \in {"waiting", "receive", "decrypt", "repair", "reply"}
  /\ Finish(h)
  /\ IF h \in Syncs THEN Abandon(h) ELSE UNCHANGED queueVars
  /\ UNCHANGED <<keys, joined, importing, client, imports, restarts>>

\* The proxy restarts.  README: it "forgets which placeholders it has handed
\* out when it restarts".
Restart ==
  /\ restarts < MaxRestarts /\ restarts' = restarts + 1
  /\ LoseQueue
  /\ pc' = [h \in Handlers |-> "idle"]
  /\ body' = [h \in Handlers |-> Empty]
  /\ incoming' = [h \in Handlers |-> {}]
  /\ edits' = [h \in Handlers |-> {}]
  /\ joined' = {} /\ importing' = FALSE /\ promised' = {}
  /\ UNCHANGED <<keys, view, synced, imports, losses>>

Treat(h) == \E e \in Events : Decrypt(h, e) \/ TrackPlaceholder(h, e)

Repair(h) ==
  \E e \in Events :
    SkipDelivered(h, e) \/ TryInVain(h, e) \/ PutBack(h, e) \/ AddEdit(h, e) \/ DropEdit(h, e)

SyncStep(h) ==
  \/ SyncStart(h) \/ Look(h) \/ AnswerRepairs(h) \/ UpstreamAnswers(h)
  \/ Receive(h) \/ Note(h) \/ Inject(h)

Next ==
  \/ Import \/ NoteImport \/ Restart
  \/ \E h \in Syncs : SyncStep(h) \/ Repair(h)
  \/ \E h \in Histories : HistoryAnswers(h) \/ HistoryDone(h)
  \/ \E h \in Handlers : Treat(h) \/ Reply(h) \/ Cancel(h)

Spec == Init /\ [][Next]_repairVars

\* The client keeps syncing, the homeserver answers a long-poll in the end, and
\* the runtime polls every task; what waits for its turn gets it.
FairSpec ==
  /\ Spec
  /\ WF_repairVars(NoteImport)
  /\ \A h \in Syncs :
       /\ WF_repairVars(SyncStart(h) \/ Look(h) \/ Note(h) \/ Inject(h) \/ Repair(h))
       /\ SF_repairVars(AnswerRepairs(h)) /\ SF_repairVars(UpstreamAnswers(h))
       /\ SF_repairVars(Receive(h))
  /\ \A h \in Histories : WF_repairVars(HistoryDone(h))
  /\ \A h \in Handlers : WF_repairVars(Treat(h)) /\ WF_repairVars(Reply(h))

-----------------------------------------------------------------------------
(* Properties *)

TypeOK ==
  /\ QueueTypeOK
  /\ pc \in [Handlers -> Phases]
  /\ body \in [Handlers -> [Events -> Contents]]
  /\ incoming \in [Handlers -> SUBSET Sessions]
  /\ edits \in [Handlers -> SUBSET Events]
  /\ keys \subseteq Sessions /\ joined \subseteq Rooms /\ importing \in BOOLEAN
  /\ view \in [Events -> {"none", "placeholder", "plain"}]
  /\ synced \subseteq Events /\ promised \subseteq Events
  /\ \A h \in Syncs : pc[h] # "repair" => taken[h] = {}
  /\ \A h \in Syncs : wait[h] # "away" <=> pc[h] = "waiting"

\* The queue has not yet been told of a key of e that is in the store.
Untold(e) ==
  importing \/ \E h \in Syncs : pc[h] = "note" /\ SessionOf[e] \in incoming[h]

\* Something is under way that shows the client the content of e.
Coming(e) ==
  \/ e \in pending /\ IsReady(e)
  \/ Untold(e)
  \/ \E h \in Syncs : e \in taken[h]
  \/ \E h \in Handlers : e \in edits[h] \/ body[h][e] = "plain"

\* The placeholder's promise: "This message will update in place if its key
\* arrives."  Excepted is what MAX_PENDING pushed out.
PromiseKept ==
  \A e \in promised \ forgotten :
    view[e] = "placeholder" /\ HasKey(e) => Coming(e)

\* "Remember the events that were delivered as placeholders and, when their
\* room key turns up, hand ement a synthetic m.replace edit": a pending repair
\* whose key is there is ready, or the queue is about to hear of the key.
KeyNeverMissed == \A e \in pending : HasKey(e) => IsReady(e) \/ Untold(e)

\* The same promise as a liveness property.
Repaired ==
  \A e \in Events : view[e] = "placeholder" /\ HasKey(e) ~> view[e] = "plain"

\* Readiness is used up: while no more keys come, has_ready() does not answer
\* sync after sync at once for ever with repairs that fail.
ReadinessEnds == <>[]~AnyReady

\* The handlers use the queue as RepairQueue allows.
UsesQueue == [][QueueNext]_queueVars
==============================================================================
