------------------------------ MODULE Outgoing ------------------------------
(***************************************************************************)
(* The requests the OlmMachine wants sent (src/crypto/machine.rs): pumps   *)
(* that drain its queue, and tasks that ask for the key of a megolm        *)
(* session (maybe_request_room_key, src/crypto/decrypt.rs).                *)
(*                                                                         *)
(* A request stays in the queue until the OlmMachine has its answer.  All  *)
(* who send from the queue hold pump_lock meanwhile; any of them may fail  *)
(* halfway, and one that belongs to a request of the client is dropped     *)
(* with it.                                                                *)
(*                                                                         *)
(* Requests are numbered as they are made.                                 *)
(***************************************************************************)
EXTENDS Naturals, Sequences, FiniteSets, SequencesExt

CONSTANTS
  Pumps,         \* pumps that can be under way at a time
  Droppable,     \* those that run in a handler (a send), not in a task
  Sessions,      \* undecryptable megolm sessions
  MaxRequests,   \* bound: requests made
  MaxFailures    \* bound: requests that fail, handlers dropped and restarts

ASSUME AgentsAssumption == Droppable \subseteq Pumps /\ Pumps \cap Sessions = {}
ASSUME BoundsAssumption == MaxRequests \in Nat /\ MaxFailures \in Nat

VARIABLES
  queue,       \* the OlmMachine's unsent requests
  keyRequest,  \* its request for each session's key, if it has made one
  made,        \* requests made so far
  got,         \* homeserver: how often each request arrived
  doubt,       \* history: requests that failed though they may have arrived
  asked,       \* RoomTracker.requested_sessions
  lock,        \* who holds pump_lock, if anybody
  pc, batch,   \* where each pump and key task stands; what it has yet to send
  failures     \* what is used up of MaxFailures

olm  == <<queue, keyRequest, made>>
net  == <<got, doubt, failures>>
vars == <<olm, net, asked, lock, pc, batch>>

Agents == Pumps \cup Sessions
Requests == 1 .. MaxRequests
Phases == {"idle", "wait", "list", "ask", "send", "mark"}

Goto(a, phase) == pc' = [pc EXCEPT ![a] = phase]

Init ==
  /\ queue = {} /\ made = 0
  /\ keyRequest = [s \in Sessions |-> 0]
  /\ got = [r \in Requests |-> 0] /\ doubt = {} /\ failures = 0
  /\ asked = {} /\ lock = {}
  /\ pc = [a \in Agents |-> "idle"]
  /\ batch = [a \in Agents |-> <<>>]

\* The OlmMachine wants something sent: keys uploaded, devices queried, ...
Want ==
  /\ made < MaxRequests /\ made' = made + 1
  /\ queue' = queue \cup {made'}
  /\ UNCHANGED <<keyRequest, net, asked, lock, pc, batch>>

-----------------------------------------------------------------------------
(* Pumps *)

Begin(p) ==
  /\ pc[p] = "idle" /\ Goto(p, "wait")
  /\ UNCHANGED <<olm, net, asked, lock, batch>>

BeginInHandlers(p) ==        \* mutant: only a client's request sets off a pump
  p \in Droppable /\ Begin(p)

\* A minute is over, a sync was processed, a send has new members, ...
Start(p) == Begin(p)

Unguarded == TRUE            \* mutant: nobody waits for the lock
Unlocked == lock = {}

Acquire(a, phase) ==
  /\ pc[a] = "wait" /\ Goto(a, phase)
  /\ lock' = {a}
  /\ UNCHANGED <<olm, net, asked, batch>>

Lock(p) == Unlocked /\ Acquire(p, "list")

\* outgoing_requests: the queue in some order, until it is empty.
List(p) ==
  /\ pc[p] = "list" /\ queue # {}
  /\ \E order \in SetToSeqs(queue) : batch' = [batch EXCEPT ![p] = order]
  /\ Goto(p, "send")
  /\ UNCHANGED <<olm, net, asked, lock>>

Release(a) ==
  /\ Goto(a, "idle")
  /\ lock' = lock \ {a}
  /\ batch' = [batch EXCEPT ![a] = <<>>]

Drained(p) ==
  /\ pc[p] = "list" /\ queue = {}
  /\ Release(p)
  /\ UNCHANGED <<olm, net, asked>>

-----------------------------------------------------------------------------
(* Room key requests *)

\* An event of the session cannot be decrypted: ask for its key, once.
Undecryptable(s) ==
  /\ s \notin asked /\ asked' = asked \cup {s}
  /\ Goto(s, "wait")
  /\ UNCHANGED <<olm, net, lock, batch>>

LockForKey(s) == Unlocked /\ Acquire(s, "ask")

SkipOne(s) == <<made + 2>>   \* mutant: the requests are numbered from two

\* The numbers of a cancellation of the earlier request, if there is one, and
\* of the request.
ToAsk(s) == IF keyRequest[s] # 0 THEN <<made + 1, made + 2>> ELSE <<made + 1>>

\* request_room_key
Ask(s) ==
  LET new == ToAsk(s) IN
  /\ pc[s] = "ask" /\ made + Len(new) <= MaxRequests
  /\ made' = made + Len(new)
  /\ queue' = (queue \ {keyRequest[s]}) \cup ToSet(new)
  /\ keyRequest' = [keyRequest EXCEPT ![s] = made']
  /\ batch' = [batch EXCEPT ![s] = new]
  /\ Goto(s, "send")
  /\ UNCHANGED <<net, asked, lock>>

\* The store fails.
AskFails(s) ==
  /\ pc[s] = "ask"
  /\ Release(s) /\ asked' = asked \ {s}
  /\ UNCHANGED <<olm, net>>

-----------------------------------------------------------------------------
(* send_and_mark *)

Send(a) ==
  /\ pc[a] = "send" /\ Goto(a, "mark")
  /\ got' = [got EXCEPT ![Head(batch[a])] = @ + 1]
  /\ UNCHANGED <<olm, doubt, failures, asked, lock, batch>>

\* mark_request_as_sent, and on to the next one.
Mark(a) ==
  LET rest == Tail(batch[a]) IN
  /\ pc[a] = "mark"
  /\ queue' = queue \ {Head(batch[a])}
  /\ IF rest = <<>> /\ a \in Sessions THEN Release(a)
     ELSE /\ batch' = [batch EXCEPT ![a] = rest]
          /\ Goto(a, IF rest = <<>> THEN "list" ELSE "send")
          /\ UNCHANGED lock
  /\ UNCHANGED <<keyRequest, made, net, asked>>

KeepAsked(a) == UNCHANGED asked     \* mutant: a failed request counts as made

\* A failed request may be made again.
Forget(a) == asked' = asked \ {a}

\* No answer, a refusal, or one that cannot be understood: the rest of the
\* batch has to wait for the next pump.
Fail(a) ==
  /\ pc[a] \in {"send", "mark"}
  /\ failures < MaxFailures /\ failures' = failures + 1
  /\ doubt' = IF pc[a] = "mark" THEN doubt \cup {Head(batch[a])} ELSE doubt
  /\ Release(a) /\ Forget(a)
  /\ UNCHANGED <<olm, got>>

\* The client hangs up on the handler that pumps.
Drop(p) ==
  /\ p \in Droppable /\ pc[p] # "idle"
  /\ failures < MaxFailures /\ failures' = failures + 1
  /\ doubt' = IF pc[p] = "mark" THEN doubt \cup {Head(batch[p])} ELSE doubt
  /\ Release(p)
  /\ UNCHANGED <<olm, got, asked>>

\* The queue is in the store, the rest is not.
Restart ==
  /\ failures < MaxFailures /\ failures' = failures + 1
  /\ doubt' = doubt \cup {Head(batch[a]) : a \in {a \in Agents : pc[a] = "mark"}}
  /\ asked' = {} /\ lock' = {}
  /\ pc' = [a \in Agents |-> "idle"]
  /\ batch' = [a \in Agents |-> <<>>]
  /\ UNCHANGED <<olm, got>>

-----------------------------------------------------------------------------
Work(a) ==
  IF a \in Pumps THEN List(a) \/ Drained(a) \/ Send(a) \/ Mark(a)
  ELSE Ask(a) \/ AskFails(a) \/ Send(a) \/ Mark(a)

Next ==
  \/ Want \/ Restart
  \/ \E p \in Pumps : Start(p) \/ Lock(p) \/ List(p) \/ Drained(p) \/ Drop(p)
  \/ \E s \in Sessions : Undecryptable(s) \/ LockForKey(s) \/ Ask(s) \/ AskFails(s)
  \/ \E a \in Agents : Send(a) \/ Mark(a) \/ Fail(a)

Spec == Init /\ [][Next]_vars

\* Tasks run on, and a session's own pump starts every minute; the Mutex of
\* tokio serves those who wait in turn.
FairSpec ==
  /\ Spec
  /\ \A a \in Agents : WF_vars(Work(a)) /\ SF_vars(Lock(a) \/ LockForKey(a))
  /\ \A p \in Pumps \ Droppable : WF_vars(Start(p))

-----------------------------------------------------------------------------
TypeOK ==
  /\ queue \subseteq 1 .. made /\ made <= MaxRequests
  /\ keyRequest \in [Sessions -> 0 .. made]
  /\ got \in [Requests -> Nat] /\ doubt \subseteq 1 .. made
  /\ failures \in 0 .. MaxFailures
  /\ asked \subseteq Sessions
  /\ lock \subseteq Agents
  /\ pc \in [Agents -> Phases] /\ batch \in [Agents -> Seq(1 .. made)]

\* machine.rs:51-55, decrypt.rs:392-394: a request goes out again only if its
\* sender had no good answer to it, however pumps and key tasks overlap.
SentOnce == \A r \in Requests : got[r] > 1 => r \in doubt

\* decrypt.rs:383, 405-409: a session is not asked for again only while its task
\* is at work, or once its request has arrived.
AskedMeansSent ==
  \A s \in asked : pc[s] = "idle" => keyRequest[s] # 0 /\ got[keyRequest[s]] > 0

\* pump: what the OlmMachine wants sent is sent in the end.
EverythingSent == \A r \in Requests : r \in queue ~> r \notin queue
=============================================================================
