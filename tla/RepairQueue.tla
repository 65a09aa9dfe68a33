----------------------------- MODULE RepairQueue -----------------------------
(***************************************************************************)
(* The queue of undecryptable placeholders that await their room keys      *)
(* (src/crypto/repair.rs: RepairQueue), and the client syncs that wait on  *)
(* it (src/crypto/sync.rs: handle_sync).                                   *)
(*                                                                         *)
(* Every method runs under the queue's mutex, so each is one action; any   *)
(* number of handlers call them in any order.  Spec allows every such      *)
(* order.  LateKeyRepair shows which ones the program makes.               *)
(***************************************************************************)
EXTENDS Naturals, Sequences, FiniteSets, SequencesExt

CONSTANTS
  Events,      \* encrypted events that can be shown as placeholders
  Sessions,    \* megolm sessions
  NoSession,   \* the session of an event that names none
  SessionOf,   \* the session each event names
  Syncs,       \* handle_sync futures that can be running at a time
  MaxPending   \* MAX_PENDING

ASSUME SessionAssumption ==
  NoSession \notin Sessions /\ SessionOf \in [Events -> Sessions \cup {NoSession}]
ASSUME BoundAssumption == MaxPending \in Nat \ {0}

VARIABLES
  pending,    \* events whose repair is pending
  order,      \* their IDs in arrival order
  ready,      \* ready_sessions: sessions whose key has arrived
  retryAll,   \* retry_all: keys were imported in bulk
  wait,       \* what each sync does about the wake-up
  taken,      \* repairs each sync has taken out and not yet dealt with
  forgotten   \* history: events pushed out by MAX_PENDING

queue     == <<pending, order, ready, retryAll>>
queueVars == <<queue, wait, taken, forgotten>>

Waits == {"away", "listening", "polling", "woken"}
InOrder == {order[i] : i \in DOMAIN order}

QueueInit ==
  /\ pending = {} /\ order = <<>> /\ ready = {} /\ retryAll = FALSE
  /\ wait = [h \in Syncs |-> "away"]
  /\ taken = [h \in Syncs |-> {}]
  /\ forgotten = {}

-----------------------------------------------------------------------------
(* Inner *)

IsReady(e) == retryAll \/ SessionOf[e] \in ready
AnyReady   == \E e \in pending : IsReady(e)

NotifyNobody == UNCHANGED wait   \* mutant

\* wake.notify_waiters(): everyone who listens now, and no one later.
NotifyWaiters ==
  wait' = [h \in Syncs |->
             IF wait[h] \in {"listening", "polling"} THEN "woken" ELSE wait[h]]

-----------------------------------------------------------------------------
(* RepairQueue *)

TrackForgetsPending(e) ==   \* mutant: the evicted ID stays in `pending'
  LET longer == Append(order, e)
      excess == IF Len(longer) > MaxPending THEN Len(longer) - MaxPending ELSE 0
  IN  /\ IF e \in pending
         THEN UNCHANGED <<pending, order, forgotten>>
         ELSE /\ order' = SubSeq(longer, excess + 1, Len(longer))
              /\ pending' = pending \cup {e}
              /\ forgotten' = forgotten \cup {longer[i] : i \in 1 .. excess}
      /\ UNCHANGED <<ready, retryAll, wait, taken>>

\* track: a placeholder is being delivered.  Already pending: nothing to do.
\* Over MAX_PENDING, the oldest are forgotten.
Track(e) ==
  LET longer == Append(order, e)
      excess == IF Len(longer) > MaxPending THEN Len(longer) - MaxPending ELSE 0
      popped == {longer[i] : i \in 1 .. excess}
  IN  /\ IF e \in pending
         THEN UNCHANGED <<pending, order, forgotten>>
         ELSE /\ order' = SubSeq(longer, excess + 1, Len(longer))
              /\ pending' = (pending \cup {e}) \ popped
              /\ forgotten' = forgotten \cup popped
      /\ UNCHANGED <<ready, retryAll, wait, taken>>

NoteKeysNobodyWants(keys) ==  \* mutant: keys nobody waits for are remembered
  /\ ready' = ready \cup keys
  /\ IF \E e \in pending : retryAll \/ SessionOf[e] \in ready'
     THEN NotifyWaiters
     ELSE UNCHANGED wait
  /\ UNCHANGED <<pending, order, retryAll, taken, forgotten>>

\* note_room_keys: keys have just arrived.  If no placeholder waits for them,
\* nothing is remembered.
NoteRoomKeys(keys) ==
  /\ IF pending = {}
     THEN UNCHANGED <<ready, wait>>
     ELSE LET known == ready \cup keys IN
          IF \E e \in pending : retryAll \/ SessionOf[e] \in known
          THEN ready' = known /\ NotifyWaiters
          ELSE ready' = {} /\ UNCHANGED wait
  /\ UNCHANGED <<pending, order, retryAll, taken, forgotten>>

\* note_bulk_import: retry everything.
NoteBulkImport ==
  /\ IF pending = {}
     THEN UNCHANGED <<retryAll, wait>>
     ELSE retryAll' = TRUE /\ NotifyWaiters
  /\ UNCHANGED <<pending, order, ready, taken, forgotten>>

\* retain: the rest of a sequence without some of its elements.
Without(seq, out) ==
  FoldLeft(LAMBDA kept, e : IF e \in out THEN kept ELSE Append(kept, e), <<>>, seq)

TakeKeepsRetrying(h) ==     \* mutant: retry_all is not reset
  LET now == {e \in pending : IsReady(e)} IN
  /\ taken' = [taken EXCEPT ![h] = now \cap InOrder]
  /\ pending' = pending \ (now \cap InOrder)
  /\ order' = Without(order, now)
  /\ ready' = {}
  /\ UNCHANGED <<retryAll, wait, forgotten>>

\* take_ready: the ready repairs leave the queue, and what made them ready is
\* used up.  Only IDs in `order' are looked at.
TakeReady(h) ==
  LET now == {e \in pending : IsReady(e)} IN
  /\ taken' = [taken EXCEPT ![h] = now \cap InOrder]
  /\ pending' = pending \ (now \cap InOrder)
  /\ order' = Without(order, now)
  /\ ready' = {} /\ retryAll' = FALSE
  /\ UNCHANGED <<wait, forgotten>>

\* requeue: the key turned out not to be there.
Requeue(h, e) ==
  /\ e \in taken[h]
  /\ taken' = [taken EXCEPT ![h] = @ \ {e}]
  /\ order' = Append(order, e)
  /\ pending' = pending \cup {e}
  /\ UNCHANGED <<ready, retryAll, wait, forgotten>>

\* A taken repair is answered with an edit, or dropped.
Settle(h, e) ==
  /\ e \in taken[h]
  /\ taken' = [taken EXCEPT ![h] = @ \ {e}]
  /\ UNCHANGED <<queue, wait, forgotten>>

\* The future that holds taken repairs is dropped.
Abandon(h) ==
  /\ taken' = [taken EXCEPT ![h] = {}]
  /\ wait' = [wait EXCEPT ![h] = "away"]
  /\ UNCHANGED <<queue, forgotten>>

-----------------------------------------------------------------------------
(* handle_sync and the wake-up *)

\* woken() and enable(): from here on a notification is not missed.
Listen(h) ==
  /\ wait[h] = "away"
  /\ wait' = [wait EXCEPT ![h] = "listening"]
  /\ UNCHANGED <<queue, taken, forgotten>>

\* has_ready() finds nothing: the sync long-polls upstream.
StartPolling(h) ==
  /\ wait[h] = "listening" /\ ~AnyReady
  /\ wait' = [wait EXCEPT ![h] = "polling"]
  /\ UNCHANGED <<queue, taken, forgotten>>

\* The sync answers: repairs are ready, it was woken, or upstream answered.
StopWaiting(h) ==
  /\ wait[h] # "away"
  /\ wait' = [wait EXCEPT ![h] = "away"]
  /\ UNCHANGED <<queue, taken, forgotten>>

\* The proxy restarts: the queue lives in memory only.
LoseQueue ==
  /\ pending' = {} /\ order' = <<>> /\ ready' = {} /\ retryAll' = FALSE
  /\ wait' = [h \in Syncs |-> "away"]
  /\ taken' = [h \in Syncs |-> {}]
  /\ UNCHANGED forgotten

QueueNext ==
  \/ \E e \in Events : Track(e)
  \/ \E keys \in SUBSET Sessions : NoteRoomKeys(keys)
  \/ NoteBulkImport \/ LoseQueue
  \/ \E h \in Syncs :
       \/ Listen(h) \/ StartPolling(h) \/ StopWaiting(h) \/ Abandon(h)
       \/ taken[h] = {} /\ TakeReady(h)
       \/ \E e \in Events : Requeue(h, e) \/ Settle(h, e)

QueueSpec == QueueInit /\ [][QueueNext]_queueVars

-----------------------------------------------------------------------------
(* Properties *)

\* take_ready finds pending repairs through `order'; one missing there would
\* never be taken again.
QueueTypeOK ==
  /\ pending \subseteq Events \cap InOrder
  /\ ready \subseteq Sessions
  /\ retryAll \in BOOLEAN /\ forgotten \subseteq Events /\ order \in Seq(Events)
  /\ wait \in [Syncs -> Waits]
  /\ taken \in [Syncs -> SUBSET Events]

\* A sync never long-polls while a placeholder can be repaired: "Listen before
\* looking, so a repair that becomes possible while the upstream request is
\* pending is not missed".  It can only fail after MAX_PENDING was exceeded.
NoSleepOnReady ==
  forgotten = {} => \A h \in Syncs : wait[h] = "polling" => ~AnyReady

\* A key is remembered only as long as some placeholder waits for it ("Keys
\* nobody is waiting for: nothing to remember").
ReadyMeansWaiting ==
  forgotten = {} => (ready # {} \/ retryAll => AnyReady)
==============================================================================
