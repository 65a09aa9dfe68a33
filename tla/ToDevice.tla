------------------------------ MODULE ToDevice -------------------------------
(***************************************************************************)
(* To-device events on their way through GET /sync                         *)
(* (src/crypto/sync.rs: handle_sync, receive_sync_changes, SeenToDevice).  *)
(*                                                                         *)
(* The homeserver redelivers a to-device event on every sync until a       *)
(* request's `since' acknowledges it; the OlmMachine can decrypt an event  *)
(* only once.  So the proxy remembers what it has processed, under a lock  *)
(* that serialises the processing of sync responses.  Several handlers may *)
(* run at a time: a client that gives up on a sync and asks again leaves   *)
(* the old handler running until its future is dropped at an await.        *)
(*                                                                         *)
(* Events are numbered in the order the homeserver received them, which is *)
(* also the order of its next_batch positions.  The homeserver and the     *)
(* client are modelled from what the code relies on.                       *)
(***************************************************************************)
EXTENDS Naturals, Sequences, FiniteSets

CONSTANTS
  Handlers,   \* handle_sync futures that can be running at a time
  NoHandler,  \* no sync request of the client is outstanding
  Capacity,   \* SEEN_TO_DEVICE_CAPACITY
  Limit,      \* most to-device events in one homeserver response
  DropAt,     \* awaits at which an abandoned handler can be dropped
  MaxSent,    \* bound: events sent to this device
  MaxFaults   \* bound: requests given up, errors and restarts

ASSUME HandlersAssumption == NoHandler \notin Handlers
ASSUME SizesAssumption ==
  Capacity \in Nat /\ Limit \in Nat /\ MaxSent \in Nat /\ MaxFaults \in Nat
ASSUME DropAssumption == DropAt \subseteq {"upstream", "lock", "machine"}

VARIABLES
  sent, acked,     \* homeserver: events sent; events 1 .. acked deleted
  since, current,  \* client: its sync position; handler of its open request
  pc,              \* where each handler stands
  req,             \* the handler's `since'
  pos, top,        \* events pos+1 .. top of the response are still to look at
  fresh,           \* new_keys: events of the response not seen before
  seen, order,     \* SeenToDevice.set and .order, oldest first
  given,           \* events the OlmMachine was ever handed
  life, twice,     \* history: handed since the proxy started; more than once
  evicted,         \* history: keys SeenToDevice popped since the proxy started
  faults           \* how much of MaxFaults is used up

server  == <<sent, acked>>
client  == <<since, current>>
machine == <<given, life, twice>>
memory  == <<seen, order, evicted>>
handler == <<pc, req, pos, top, fresh>>
vars    == <<server, client, handler, memory, machine, faults>>

Phases == {"idle", "upstream", "lock", "dedup", "machine", "reply"}

SetMax(a, b) == IF a < b THEN b ELSE a
SetMin(a, b) == IF a < b THEN a ELSE b

Fault == faults < MaxFaults /\ faults' = faults + 1

Init ==
  /\ sent = 0 /\ acked = 0
  /\ since = 0 /\ current = NoHandler
  /\ pc = [h \in Handlers |-> "idle"]
  /\ req = [h \in Handlers |-> 0]
  /\ pos = [h \in Handlers |-> 0]
  /\ top = [h \in Handlers |-> 0]
  /\ fresh = [h \in Handlers |-> {}]
  /\ seen = {} /\ order = <<>> /\ evicted = {}
  /\ given = {} /\ life = {} /\ twice = {}
  /\ faults = 0

-----------------------------------------------------------------------------
(* SeenToDevice *)

\* SeenToDevice::insert of a key that is not in the set: append it and, over
\* capacity, pop the oldest.
Insert(key) ==
  LET longer == Append(order, key)
      popped == IF Len(longer) > Capacity THEN {Head(longer)} ELSE {}
  IN  /\ order' = IF popped = {} THEN longer ELSE Tail(longer)
      /\ seen' = (seen \cup {key}) \ popped
      /\ evicted' = evicted \cup popped

ForgetNothing(keys) == UNCHANGED memory   \* mutant: the keys stay

ForgetEverything(keys) ==   \* mutant: more than the new keys is forgotten
  seen' = {} /\ order' = <<>> /\ UNCHANGED evicted

\* SeenToDevice::forget of each key in turn.
Forget(keys) ==
  /\ seen' = seen \ keys
  /\ order' = SelectSeq(order, LAMBDA k : k \notin keys)
  /\ UNCHANGED evicted

-----------------------------------------------------------------------------
(* Homeserver and client *)

\* Somebody sends this device an event.
Send ==
  /\ sent < MaxSent
  /\ sent' = sent + 1
  /\ UNCHANGED <<acked, client, handler, memory, machine, faults>>

\* The client asks for /sync from its position, one request at a time.
Request(h) ==
  /\ current = NoHandler /\ pc[h] = "idle"
  /\ current' = h
  /\ pc' = [pc EXCEPT ![h] = "upstream"]
  /\ req' = [req EXCEPT ![h] = since]
  /\ UNCHANGED <<server, since, pos, top, fresh, memory, machine, faults>>

\* The client gives up on its request (timeout, reconnect).
GiveUp ==
  /\ current # NoHandler
  /\ current' = NoHandler
  /\ Fault
  /\ UNCHANGED <<server, since, handler, memory, machine>>

\* The client restarts from a position it once saved.
ClientRestart ==
  /\ \E p \in 0 .. since : since' = p
  /\ current' = NoHandler
  /\ Fault
  /\ UNCHANGED <<server, handler, memory, machine>>

-----------------------------------------------------------------------------
(* handle_sync *)

Finish(h) ==
  /\ pc'    = [pc EXCEPT ![h] = "idle"]
  /\ req'   = [req EXCEPT ![h] = 0]
  /\ pos'   = [pos EXCEPT ![h] = 0]
  /\ top'   = [top EXCEPT ![h] = 0]
  /\ fresh' = [fresh EXCEPT ![h] = {}]

\* The client sees an error and keeps its position.
ErrorReply(h) ==
  /\ Finish(h)
  /\ current' = IF current = h THEN NoHandler ELSE current
  /\ UNCHANGED since

\* The homeserver answers: `since' acknowledges all it covers, and the oldest
\* events left beyond it are in the response.
Respond(h) ==
  /\ pc[h] = "upstream"
  /\ acked' = SetMax(acked, req[h])
  /\ pos' = [pos EXCEPT ![h] = acked']
  /\ top' = [top EXCEPT ![h] = SetMin(acked' + Limit, sent)]
  /\ pc' = [pc EXCEPT ![h] = "lock"]
  /\ UNCHANGED <<sent, client, req, fresh, memory, machine, faults>>

\* The upstream request fails, or the homeserver refuses it.
UpstreamError(h) ==
  /\ pc[h] = "upstream"
  /\ ErrorReply(h)
  /\ Fault
  /\ UNCHANGED <<server, memory, machine>>

RepairOnlySkips(h) ==       \* mutant: hands out the homeserver's position
  /\ pc[h] = "upstream"
  /\ pc' = [pc EXCEPT ![h] = "reply"]
  /\ top' = [top EXCEPT ![h] = sent]
  /\ Fault
  /\ UNCHANGED <<server, client, req, pos, fresh, memory, machine>>

\* repair_only_response: a placeholder can be repaired while the request is
\* pending upstream, and the client gets its own `since' back as next_batch.
RepairOnly(h) ==
  /\ pc[h] = "upstream"
  /\ pc' = [pc EXCEPT ![h] = "reply"]
  /\ top' = [top EXCEPT ![h] = req[h]]
  /\ Fault
  /\ UNCHANGED <<server, client, req, pos, fresh, memory, machine>>

LockAlwaysFree == TRUE      \* mutant: processing is not serialised

\* ctx.sync.seen.lock(): no other response is being processed.
LockFree == \A h \in Handlers : pc[h] \notin {"dedup", "machine"}

ScanOnePast(p, t) ==        \* mutant: the loop looks at one event too many
  IF p > t THEN "machine" ELSE "dedup"

ScanPhase(p, t) == IF p = t THEN "machine" ELSE "dedup"

Lock(h) ==
  /\ pc[h] = "lock" /\ LockFree
  /\ pc' = [pc EXCEPT ![h] = ScanPhase(pos[h], top[h])]
  /\ UNCHANGED <<server, client, req, pos, top, fresh, memory, machine, faults>>

\* One turn of the loop over to_device.events.
Dedup(h) ==
  LET key == pos[h] + 1 IN
  /\ pc[h] = "dedup"
  /\ pos' = [pos EXCEPT ![h] = key]
  /\ pc' = [pc EXCEPT ![h] = ScanPhase(key, top[h])]
  /\ IF key \in seen
     THEN UNCHANGED <<fresh, memory>>
     ELSE /\ fresh' = [fresh EXCEPT ![h] = @ \cup {key}]
          /\ Insert(key)
  /\ UNCHANGED <<server, client, req, top, machine, faults>>

\* The OlmMachine processes the new events and the lock is released.
Accept(h) ==
  /\ pc[h] = "machine"
  /\ given' = given \cup fresh[h]
  /\ life'  = life \cup fresh[h]
  /\ twice' = twice \cup (fresh[h] \cap life)
  /\ fresh' = [fresh EXCEPT ![h] = {}]
  /\ pc' = [pc EXCEPT ![h] = "reply"]
  /\ UNCHANGED <<server, client, req, pos, top, memory, faults>>

RejectAndForward(h) ==      \* mutant: the error does not reach the client
  /\ pc[h] = "machine"
  /\ Forget(fresh[h])
  /\ fresh' = [fresh EXCEPT ![h] = {}]
  /\ pc' = [pc EXCEPT ![h] = "reply"]
  /\ Fault
  /\ UNCHANGED <<server, client, req, pos, top, machine>>

\* process_sync_changes fails: nothing was processed, the new keys are
\* forgotten and the client gets an error.
Reject(h) ==
  /\ pc[h] = "machine"
  /\ Forget(fresh[h])
  /\ ErrorReply(h)
  /\ Fault
  /\ UNCHANGED <<server, machine>>

\* The response, and with it next_batch, goes to the client if it still waits.
Reply(h) ==
  /\ pc[h] = "reply"
  /\ IF current = h
     THEN since' = top[h] /\ current' = NoHandler
     ELSE UNCHANGED client
  /\ Finish(h)
  /\ UNCHANGED <<server, memory, machine, faults>>

\* The future of a handler whose client is gone is dropped at an await.
Drop(h) ==
  /\ h # current /\ pc[h] \in DropAt
  /\ Finish(h)
  /\ UNCHANGED <<server, client, memory, machine, faults>>

\* The proxy restarts: the crypto store survives, SeenToDevice does not.
Restart ==
  /\ pc' = [h \in Handlers |-> "idle"]
  /\ req' = [h \in Handlers |-> 0]
  /\ pos' = [h \in Handlers |-> 0]
  /\ top' = [h \in Handlers |-> 0]
  /\ fresh' = [h \in Handlers |-> {}]
  /\ seen' = {} /\ order' = <<>> /\ evicted' = {}
  /\ life' = {} /\ twice' = {}
  /\ current' = NoHandler
  /\ Fault
  /\ UNCHANGED <<server, since, given>>

Progress(h) == Respond(h) \/ Dedup(h) \/ Accept(h) \/ Reply(h)

Next ==
  \/ Send \/ GiveUp \/ ClientRestart \/ Restart
  \/ \E h \in Handlers :
       \/ Request(h) \/ Respond(h) \/ UpstreamError(h) \/ RepairOnly(h)
       \/ Lock(h) \/ Dedup(h) \/ Accept(h) \/ Reject(h) \/ Reply(h) \/ Drop(h)

Spec == Init /\ [][Next]_vars

\* The client keeps syncing, the homeserver answers, the runtime polls every
\* handler, and the lock is fair (tokio's Mutex is first come, first served).
FairSpec ==
  /\ Spec
  /\ WF_vars(\E h \in Handlers : Request(h))
  /\ \A h \in Handlers : WF_vars(Progress(h)) /\ SF_vars(Lock(h))

-----------------------------------------------------------------------------
(* Properties *)

TypeOK ==
  /\ sent \in 0 .. MaxSent /\ acked \in 0 .. MaxSent
  /\ since \in 0 .. MaxSent /\ current \in Handlers \cup {NoHandler}
  /\ pc \in [Handlers -> Phases]
  /\ req \in [Handlers -> 0 .. MaxSent]
  /\ pos \in [Handlers -> 0 .. MaxSent]
  /\ top \in [Handlers -> 0 .. MaxSent]
  /\ fresh \in [Handlers -> SUBSET (1 .. MaxSent)]
  /\ seen \subseteq 1 .. MaxSent
  /\ given \subseteq 1 .. MaxSent
  /\ life \subseteq given /\ twice \subseteq life
  /\ faults \in 0 .. MaxFaults

\* SyncState's promise that events reach the OlmMachine in order: it is never
\* handed an event for the first time before one the homeserver got earlier.
InOrder == \E n \in 0 .. sent : given = 1 .. n

\* What the homeserver deletes on the strength of a `since' was processed:
\* receive_sync_changes runs before the client learns next_batch.
NothingLost == 1 .. acked \subseteq given

\* SyncState's "handed to the OlmMachine exactly once": while the proxy runs,
\* only an event that SeenToDevice had to evict can be handed over again.
OnceUnlessEvicted == twice \subseteq evicted

\* Every event sent to the device reaches the OlmMachine in the end, through
\* retries, errors and restarts.
EventuallyHanded == \A e \in 1 .. MaxSent : sent >= e ~> e \in given

\* handle_sync implements a channel that is ordered and loses nothing.
Channel == INSTANCE ToDeviceChannel WITH deleted <- acked, got <- given
ImplementsChannel == Channel!Spec
==============================================================================
