--------------------------- MODULE ToDeviceProofs ----------------------------
(***************************************************************************)
(* What ToDevice guarantees for any number of handlers and any sizes.      *)
(*                                                                         *)
(* Two inductive invariants carry the results.  Once relates the memory,   *)
(* the response being processed and what the OlmMachine was handed; it     *)
(* needs nothing of the environment.  Prefix says of every position a      *)
(* handler, the client or the homeserver holds that the machine has been   *)
(* handed everything up to it; it needs that no handler is dropped while   *)
(* the OlmMachine works on its events.                                     *)
(***************************************************************************)
EXTENDS ToDevice, TLAPS

\* Positions never run ahead of the stream, and the loop over the response
\* stays inside it.
Bounds ==
  /\ acked <= sent /\ since <= sent
  /\ \A h \in Handlers : req[h] <= sent /\ top[h] <= sent
  /\ \A h \in Handlers : pc[h] = "lock" => pos[h] <= top[h]
  /\ \A h \in Handlers : pc[h] = "dedup" => pos[h] < top[h]
  /\ \A h \in Handlers : pc[h] = "machine" => pos[h] = top[h]

TypeInv == TypeOK /\ Bounds

HandlerStep(h) ==
  \/ Request(h) \/ Respond(h) \/ UpstreamError(h) \/ RepairOnly(h)
  \/ Lock(h) \/ Dedup(h) \/ Accept(h) \/ Reject(h) \/ Reply(h) \/ Drop(h)

EnvironmentStep == Send \/ GiveUp \/ ClientRestart \/ Restart

\* Next, split the way the proofs below split it.
LEMMA NextCases ==
  ASSUME [Next]_vars
  PROVE  EnvironmentStep \/ (\E h \in Handlers : HandlerStep(h)) \/ UNCHANGED vars
BY DEF Next, EnvironmentStep, HandlerStep

\* What Forget does to the set; the order of the keys does not matter here.
LEMMA ForgetKeys ==
  ASSUME NEW keys, Forget(keys)
  PROVE  seen' = seen \ keys /\ evicted' = evicted
BY Zenon DEF Forget

\* What Insert does to the set: an evicted key is noted as evicted.
LEMMA InsertKey ==
  ASSUME NEW key, Insert(key)
  PROVE  /\ seen' \subseteq seen \cup {key}
         /\ seen \cup {key} \subseteq seen' \cup evicted'
         /\ evicted \subseteq evicted'
<1>1. \E popped : seen' = (seen \cup {key}) \ popped /\ evicted' = evicted \cup popped
  BY Zenon DEF Insert
<1> QED BY <1>1

-----------------------------------------------------------------------------
(* Type correctness *)

\* TypeInv holds initially.
LEMMA InitType == Init => TypeInv
BY HandlersAssumption, SizesAssumption DEF Init, TypeInv, TypeOK, Bounds, Phases

\* Ending a request keeps the handler's variables in their ranges.
LEMMA FinishType ==
  ASSUME TypeInv, NEW h \in Handlers, Finish(h), sent' = sent
  PROVE  /\ pc' \in [Handlers -> Phases]
         /\ req' \in [Handlers -> 0 .. MaxSent]
         /\ pos' \in [Handlers -> 0 .. MaxSent]
         /\ top' \in [Handlers -> 0 .. MaxSent]
         /\ fresh' \in [Handlers -> SUBSET (1 .. MaxSent)]
         /\ \A g \in Handlers : req'[g] <= sent' /\ top'[g] <= sent'
         /\ \A g \in Handlers : pc'[g] = "lock" => pos'[g] <= top'[g]
         /\ \A g \in Handlers : pc'[g] = "dedup" => pos'[g] < top'[g]
         /\ \A g \in Handlers : pc'[g] = "machine" => pos'[g] = top'[g]
<1> USE SizesAssumption
<1>1. /\ pc' \in [Handlers -> Phases]
      /\ req' \in [Handlers -> 0 .. MaxSent]
      /\ pos' \in [Handlers -> 0 .. MaxSent]
      /\ top' \in [Handlers -> 0 .. MaxSent]
      /\ fresh' \in [Handlers -> SUBSET (1 .. MaxSent)]
  BY DEF TypeInv, TypeOK, Finish, Phases
<1>2. \A g \in Handlers : IF g = h THEN pc'[g] = "idle" /\ req'[g] = 0 /\ top'[g] = 0
                          ELSE /\ pc'[g] = pc[g] /\ req'[g] = req[g]
                               /\ pos'[g] = pos[g] /\ top'[g] = top[g]
  BY DEF TypeInv, TypeOK, Finish
<1>3. sent \in Nat
  BY DEF TypeInv, TypeOK
<1> QED BY <1>1, <1>2, <1>3 DEF TypeInv, Bounds

\* The actions of one handler preserve TypeInv.
LEMMA HandlerType ==
  ASSUME TypeInv, NEW h \in Handlers, HandlerStep(h)
  PROVE  TypeInv'
<1> USE SizesAssumption
<1>1. CASE Request(h)
  BY <1>1 DEF TypeInv, TypeOK, Bounds, Request, Phases, server, machine, memory
<1>2. CASE Respond(h)
  BY <1>2 DEF TypeInv, TypeOK, Bounds, Respond, Phases, SetMax, SetMin,
              client, machine, memory
<1>3. CASE UpstreamError(h)
  BY <1>3, FinishType
     DEF TypeInv, TypeOK, Bounds, UpstreamError, ErrorReply, Fault, server, machine, memory
<1>4. CASE RepairOnly(h)
  BY <1>4 DEF TypeInv, TypeOK, Bounds, RepairOnly, Phases, Fault,
              server, client, machine, memory
<1>5. CASE Lock(h)
  BY <1>5 DEF TypeInv, TypeOK, Bounds, Lock, ScanPhase, Phases,
              server, client, machine, memory
<1>6. CASE Dedup(h)
  <2>1. pos[h] + 1 \in 1 .. MaxSent /\ pos[h] + 1 <= top[h]
    BY <1>6 DEF TypeInv, TypeOK, Bounds, Dedup
  <2>2. fresh' \in [Handlers -> SUBSET (1 .. MaxSent)] /\ seen' \subseteq 1 .. MaxSent
    <3>1. CASE pos[h] + 1 \in seen
      BY <1>6, <3>1 DEF TypeInv, TypeOK, Dedup, memory
    <3>2. CASE pos[h] + 1 \notin seen
      <4>1. fresh' = [fresh EXCEPT ![h] = @ \cup {pos[h] + 1}] /\ Insert(pos[h] + 1)
        BY <1>6, <3>2 DEF Dedup
      <4>2. fresh[h] \cup {pos[h] + 1} \in SUBSET (1 .. MaxSent)
        BY <2>1 DEF TypeInv, TypeOK
      <4> QED BY <4>1, <4>2, <2>1, InsertKey DEF TypeInv, TypeOK
    <3> QED BY <3>1, <3>2
  <2>3. /\ pos' = [pos EXCEPT ![h] = pos[h] + 1]
        /\ pc' = [pc EXCEPT ![h] = ScanPhase(pos[h] + 1, top[h])]
        /\ UNCHANGED <<server, client, req, top, machine, faults>>
    BY <1>6 DEF Dedup
  <2>4. ScanPhase(pos[h] + 1, top[h]) \in Phases
    BY DEF ScanPhase, Phases
  <2>5. TypeOK'
    BY <2>1, <2>2, <2>3, <2>4 DEF TypeInv, TypeOK, server, client, machine
  <2>6. Bounds'
    BY <2>1, <2>3 DEF TypeInv, TypeOK, Bounds, ScanPhase, server, client
  <2> QED BY <2>5, <2>6 DEF TypeInv
<1>7. CASE Accept(h)
  BY <1>7 DEF TypeInv, TypeOK, Bounds, Accept, Phases, server, client, memory
<1>8. CASE Reject(h)
  <2>1. seen' \subseteq 1 .. MaxSent
    BY <1>8, ForgetKeys DEF TypeInv, TypeOK, Reject
  <2> QED BY <1>8, <2>1, FinishType
             DEF TypeInv, TypeOK, Bounds, Reject, ErrorReply, Fault, server, machine
<1>9. CASE Reply(h)
  BY <1>9, FinishType
     DEF TypeInv, TypeOK, Bounds, Reply, server, client, machine, memory
<1>10. CASE Drop(h)
  BY <1>10, FinishType
     DEF TypeInv, TypeOK, Bounds, Drop, server, client, machine, memory
<1> QED BY <1>1, <1>2, <1>3, <1>4, <1>5, <1>6, <1>7, <1>8, <1>9, <1>10 DEF HandlerStep

\* The actions of the homeserver, the client and the process preserve TypeInv.
LEMMA EnvironmentType ==
  ASSUME TypeInv, EnvironmentStep
  PROVE  TypeInv'
<1> USE SizesAssumption
<1>1. CASE Send
  BY <1>1 DEF TypeInv, TypeOK, Bounds, Send, client, handler, machine, memory
<1>2. CASE GiveUp
  BY <1>2 DEF TypeInv, TypeOK, Bounds, GiveUp, Fault, server, handler, machine, memory
<1>3. CASE ClientRestart
  BY <1>3 DEF TypeInv, TypeOK, Bounds, ClientRestart, Fault,
              server, handler, machine, memory
<1>4. CASE Restart
  BY <1>4 DEF TypeInv, TypeOK, Bounds, Restart, Phases, Fault, server
<1> QED BY <1>1, <1>2, <1>3, <1>4 DEF EnvironmentStep

\* Every step preserves TypeInv.
LEMMA NextType == TypeInv /\ [Next]_vars => TypeInv'
<1> SUFFICES ASSUME TypeInv, [Next]_vars PROVE TypeInv'
  OBVIOUS
<1>1. CASE UNCHANGED vars
  BY <1>1 DEF TypeInv, TypeOK, Bounds, vars, server, client, handler, machine, memory
<1> QED BY <1>1, NextCases, HandlerType, EnvironmentType

\* The invariant TypeInv of every behaviour.
LEMMA AlwaysType == Spec => []TypeInv
BY InitType, NextType, PTL DEF Spec

\* Type correctness: handle_sync and its bookkeeping keep every variable in
\* its range, whatever the handlers, sizes and faults.
THEOREM TypeCorrect == Spec => []TypeOK
<1>1. TypeInv => TypeOK
  BY DEF TypeInv
<1> QED BY AlwaysType, <1>1, PTL

-----------------------------------------------------------------------------
(* Handed over once *)

Critical(h) == pc[h] \in {"dedup", "machine"}

\* At most one response is being processed, and only it has new keys.
Exclusive ==
  /\ \A g, h \in Handlers : Critical(g) /\ Critical(h) => g = h
  /\ \A h \in Handlers : ~Critical(h) => fresh[h] = {}

\* What the machine was handed is remembered unless it was evicted; so is what
\* the current response adds, which the machine has not been handed.
Once ==
  /\ TypeInv /\ Exclusive
  /\ life \subseteq seen \cup evicted
  /\ \A h \in Handlers : fresh[h] \subseteq seen \cup evicted
  /\ \A h \in Handlers : fresh[h] \cap life \subseteq evicted
  /\ twice \subseteq evicted

\* The effect of Finish on the handlers, one by one.
LEMMA FinishEffect ==
  ASSUME TypeInv, NEW h \in Handlers, Finish(h)
  PROVE  /\ pc'[h] = "idle" /\ fresh'[h] = {} /\ req'[h] = 0
         /\ \A g \in Handlers \ {h} :
              /\ pc'[g] = pc[g] /\ fresh'[g] = fresh[g] /\ req'[g] = req[g]
              /\ pos'[g] = pos[g] /\ top'[g] = top[g]
BY DEF TypeInv, TypeOK, Finish

\* Mutual exclusion of the processing of responses (the lock on `seen').
LEMMA ExclusiveStep ==
  ASSUME TypeInv, Exclusive, NEW h \in Handlers, HandlerStep(h)
  PROVE  Exclusive'
<1>1. CASE Request(h)
  BY <1>1 DEF TypeInv, TypeOK, Exclusive, Critical, Request
<1>2. CASE Respond(h)
  BY <1>2 DEF TypeInv, TypeOK, Exclusive, Critical, Respond
<1>3. CASE UpstreamError(h)
  BY <1>3, FinishEffect DEF Exclusive, Critical, UpstreamError, ErrorReply
<1>4. CASE RepairOnly(h)
  BY <1>4 DEF TypeInv, TypeOK, Exclusive, Critical, RepairOnly
<1>5. CASE Lock(h)
  BY <1>5 DEF TypeInv, TypeOK, Exclusive, Critical, Lock, LockFree, ScanPhase
<1>6. CASE Dedup(h)
  BY <1>6 DEF TypeInv, TypeOK, Exclusive, Critical, Dedup, ScanPhase
<1>7. CASE Accept(h)
  BY <1>7 DEF TypeInv, TypeOK, Exclusive, Critical, Accept
<1>8. CASE Reject(h)
  BY <1>8, FinishEffect DEF Exclusive, Critical, Reject, ErrorReply
<1>9. CASE Reply(h)
  BY <1>9, FinishEffect DEF Exclusive, Critical, Reply
<1>10. CASE Drop(h)
  BY <1>10, FinishEffect DEF Exclusive, Critical, Drop
<1> QED BY <1>1, <1>2, <1>3, <1>4, <1>5, <1>6, <1>7, <1>8, <1>9, <1>10 DEF HandlerStep

\* The actions of one handler preserve Once.
LEMMA HandlerOnce ==
  ASSUME Once, NEW h \in Handlers, HandlerStep(h)
  PROVE  Once'
<1>a. TypeInv' /\ Exclusive'
  BY HandlerType, ExclusiveStep DEF Once
<1>1. CASE \/ Request(h) \/ Respond(h) \/ UpstreamError(h) \/ RepairOnly(h)
           \/ Lock(h) \/ Reply(h) \/ Drop(h)
  <2>1. UNCHANGED <<memory, machine>> /\ \A g \in Handlers : fresh'[g] \subseteq fresh[g]
    <3>1. CASE Request(h) \/ Respond(h) \/ RepairOnly(h) \/ Lock(h)
      BY <3>1 DEF Request, Respond, RepairOnly, Lock
    <3>2. CASE UpstreamError(h) \/ Reply(h) \/ Drop(h)
      BY <3>2, FinishEffect DEF Once, UpstreamError, ErrorReply, Reply, Drop
    <3> QED BY <1>1, <3>1, <3>2
  <2> QED BY <1>a, <2>1 DEF Once, memory, machine
<1>2. CASE Dedup(h)
  <2> DEFINE key == pos[h] + 1
  <2>1. CASE key \in seen
    BY <1>a, <1>2, <2>1 DEF Once, Dedup, memory, machine
  <2>2. CASE key \notin seen
    <3>1. /\ fresh' = [fresh EXCEPT ![h] = @ \cup {key}] /\ Insert(key)
          /\ life' = life /\ twice' = twice
      BY <1>2, <2>2 DEF Dedup, machine
    <3>2. \A g \in Handlers : fresh'[g] = fresh[g] \/ fresh'[g] = fresh[g] \cup {key}
      BY <3>1 DEF Once, TypeInv, TypeOK
    <3>3. key \in life => key \in evicted
      BY <2>2 DEF Once
    <3>4. /\ seen \cup {key} \subseteq seen' \cup evicted'
          /\ evicted \subseteq evicted'
      BY <3>1, InsertKey
    <3> QED BY <1>a, <3>1, <3>2, <3>3, <3>4 DEF Once
  <2> QED BY <2>1, <2>2
<1>3. CASE Accept(h)
  <2>1. \A g \in Handlers : fresh'[g] = {}
    BY <1>3 DEF Once, TypeInv, TypeOK, Exclusive, Critical, Accept
  <2>2. /\ life' = life \cup fresh[h] /\ twice' = twice \cup (fresh[h] \cap life)
        /\ UNCHANGED memory
    BY <1>3 DEF Accept
  <2> QED BY <1>a, <2>1, <2>2 DEF Once, memory
<1>4. CASE Reject(h)
  <2>1. \A g \in Handlers : fresh'[g] = {}
    BY <1>4, FinishEffect DEF Once, Exclusive, Critical, Reject, ErrorReply
  <2>2. seen' = seen \ fresh[h] /\ evicted' = evicted /\ UNCHANGED machine
    BY <1>4, ForgetKeys DEF Reject
  <2> QED BY <1>a, <2>1, <2>2 DEF Once, machine
<1> QED BY <1>1, <1>2, <1>3, <1>4 DEF HandlerStep

\* Every step preserves Once.
LEMMA NextOnce == Once /\ [Next]_vars => Once'
<1> SUFFICES ASSUME Once, [Next]_vars PROVE Once'
  OBVIOUS
<1>1. TypeInv'
  BY NextType DEF Once
<1>2. CASE EnvironmentStep
  <2>1. CASE Send \/ GiveUp \/ ClientRestart
    BY <1>1, <2>1 DEF Once, Exclusive, Critical, Send, GiveUp, ClientRestart,
                      handler, memory, machine
  <2>2. CASE Restart
    BY <1>1, <2>2 DEF Once, Exclusive, Critical, Restart
  <2> QED BY <1>2, <2>1, <2>2 DEF EnvironmentStep
<1>3. CASE UNCHANGED vars
  BY <1>1, <1>3 DEF Once, Exclusive, Critical, vars, handler, memory, machine
<1> QED BY <1>2, <1>3, NextCases, HandlerOnce

\* Exactly once: while the proxy runs, no to-device event is handed to the
\* OlmMachine a second time unless SeenToDevice evicted it in between, however
\* handlers overlap, fail or are dropped.
THEOREM HandedOnce == Spec => []OnceUnlessEvicted
<1>1. Init => Once
  <2> SUFFICES ASSUME Init PROVE Once
    OBVIOUS
  <2>1. TypeInv
    BY InitType
  <2> QED BY <2>1 DEF Init, Once, Exclusive, Critical
<1>2. Once => OnceUnlessEvicted
  BY DEF Once, OnceUnlessEvicted
<1> QED BY <1>1, <1>2, NextOnce, PTL DEF Spec

-----------------------------------------------------------------------------
(* In order, and nothing lost *)

\* No handler is dropped while the OlmMachine works on its new events.
NoDropInMachine == "machine" \notin DropAt

\* Every position that is passed on covers only events the machine was handed;
\* a remembered key was handed or is being handed.
Prefix ==
  /\ TypeInv /\ Exclusive
  /\ \E n \in 0 .. sent : given = 1 .. n
  /\ 1 .. acked \subseteq given
  /\ 1 .. since \subseteq given
  /\ \A h \in Handlers : 1 .. req[h] \subseteq given
  /\ \A h \in Handlers : pc[h] = "reply" => 1 .. top[h] \subseteq given
  /\ \A h \in Handlers : pc[h] = "lock" => 1 .. pos[h] \subseteq given
  /\ \A h \in Handlers : Critical(h) => /\ 1 .. pos[h] \subseteq given \cup fresh[h]
                                        /\ fresh[h] \subseteq 1 .. pos[h]
  /\ \A e \in seen : e \in given \/ \E h \in Handlers : e \in fresh[h]

\* Prefix holds initially.
LEMMA InitPrefix == Init => Prefix
<1> SUFFICES ASSUME Init PROVE Prefix
  OBVIOUS
<1>1. TypeInv
  BY InitType
<1>2. \E n \in 0 .. sent : given = 1 .. n
  <2>1. given = 1 .. 0 /\ 0 \in 0 .. sent
    BY DEF Init
  <2> QED BY <2>1
<1>3. \A h \in Handlers : pc[h] = "idle" /\ req[h] = 0 /\ fresh[h] = {}
  BY DEF Init
<1>4. acked = 0 /\ since = 0 /\ seen = {} /\ given = {}
  BY DEF Init
<1> QED BY <1>1, <1>2, <1>3, <1>4 DEF Prefix, Exclusive, Critical

\* A handler that ends takes nothing with it, provided it has no new keys.
LEMMA FinishPrefix ==
  ASSUME Prefix, NEW h \in Handlers, Finish(h), TypeInv', Exclusive',
         sent' = sent, acked' = acked, given' = given,
         1 .. since' \subseteq given,
         \A e \in seen' : e \in seen /\ e \notin fresh[h]
  PROVE  Prefix'
<1>1. /\ pc'[h] = "idle" /\ fresh'[h] = {} /\ req'[h] = 0
      /\ \A g \in Handlers \ {h} :
           /\ pc'[g] = pc[g] /\ fresh'[g] = fresh[g] /\ req'[g] = req[g]
           /\ pos'[g] = pos[g] /\ top'[g] = top[g]
  BY FinishEffect DEF Prefix
<1>2. 1 .. req'[h] \subseteq given'
  BY <1>1
<1>3. \A e \in seen' : e \in given' \/ \E g \in Handlers : e \in fresh'[g]
  BY <1>1 DEF Prefix
<1> QED BY <1>1, <1>2, <1>3 DEF Prefix, Critical

\* What Accept hands over extends the prefix to the end of the response.
LEMMA AcceptExtends ==
  ASSUME Prefix, NEW h \in Handlers, Accept(h)
  PROVE  /\ 1 .. top[h] \subseteq given' /\ given \subseteq given'
         /\ \E n \in 0 .. sent : given' = 1 .. n
<1>1. pos[h] = top[h] /\ top[h] \in 0 .. sent /\ Critical(h) /\ sent \in Nat
  BY DEF Prefix, TypeInv, TypeOK, Bounds, Accept, Critical
<1>2. given' = given \cup fresh[h]
  BY DEF Accept
<1>3. PICK n \in 0 .. sent : given = 1 .. n
  BY DEF Prefix
<1>4. 1 .. top[h] \subseteq given' /\ fresh[h] \subseteq 1 .. top[h]
  BY <1>1, <1>2 DEF Prefix
<1>5. CASE n <= top[h]
  <2>1. given' = 1 .. top[h]
    BY <1>1, <1>2, <1>3, <1>4, <1>5
  <2> QED BY <1>1, <1>2, <2>1
<1>6. CASE top[h] < n
  <2>1. given' = 1 .. n
    BY <1>1, <1>2, <1>3, <1>4, <1>6
  <2> QED BY <1>2, <1>3, <1>4, <2>1
<1> QED BY <1>1, <1>3, <1>5, <1>6

\* The actions of one handler preserve Prefix.
LEMMA HandlerPrefix ==
  ASSUME NoDropInMachine, Prefix, NEW h \in Handlers, HandlerStep(h)
  PROVE  Prefix'
<1>a. TypeInv' /\ Exclusive'
  BY HandlerType, ExclusiveStep DEF Prefix
<1>b. sent \in Nat /\ acked \in Nat /\ since \in Nat
  BY DEF Prefix, TypeInv, TypeOK
<1>1. CASE Request(h)
  BY <1>a, <1>1 DEF Prefix, TypeInv, TypeOK, Critical, Request, server, machine, memory
<1>2. CASE Respond(h)
  <2>1. /\ acked' = acked \/ acked' = req[h]
        /\ pos' = [pos EXCEPT ![h] = acked'] /\ pc' = [pc EXCEPT ![h] = "lock"]
        /\ top' = [top EXCEPT ![h] = SetMin(acked' + Limit, sent)]
        /\ UNCHANGED <<sent, since, req, fresh, seen, given>>
    BY <1>2 DEF Respond, SetMax, client, memory, machine
  <2> QED BY <1>a, <2>1 DEF Prefix, TypeInv, TypeOK, Critical
<1>3. CASE UpstreamError(h)
  BY <1>a, <1>3, FinishPrefix
     DEF Prefix, Exclusive, Critical, UpstreamError, ErrorReply, server, memory, machine
<1>4. CASE RepairOnly(h)
  BY <1>a, <1>4 DEF Prefix, TypeInv, TypeOK, Critical, RepairOnly,
                    server, client, machine, memory
<1>5. CASE Lock(h)
  <2>1. /\ pc[h] = "lock" /\ \A g \in Handlers : ~Critical(g)
        /\ UNCHANGED <<sent, acked, since, req, pos, top, fresh, seen, given>>
    BY <1>5 DEF Lock, LockFree, Critical, server, client, machine, memory
  <2>2. /\ pc'[h] \in {"dedup", "machine"}
        /\ \A g \in Handlers \ {h} : pc'[g] = pc[g]
    BY <1>5 DEF Lock, ScanPhase, Prefix, TypeInv, TypeOK
  <2>3. \A g \in Handlers : fresh[g] = {}
    BY <2>1 DEF Prefix, Exclusive
  <2>4. 1 .. pos[h] \subseteq given
    BY <2>1 DEF Prefix
  <2>5. \A g \in Handlers : Critical(g)' => g = h
    BY <2>1, <2>2 DEF Critical
  <2>6. \A g \in Handlers : pc'[g] \in {"lock", "reply"} => pc[g] = pc'[g]
    BY <2>2
  <2>7. \A g \in Handlers : Critical(g)' =>
          /\ 1 .. pos'[g] \subseteq given' \cup fresh'[g]
          /\ fresh'[g] \subseteq 1 .. pos'[g]
    BY <2>1, <2>3, <2>4, <2>5
  <2>8. /\ \E n \in 0 .. sent' : given' = 1 .. n
        /\ 1 .. acked' \subseteq given' /\ 1 .. since' \subseteq given'
        /\ \A g \in Handlers : 1 .. req'[g] \subseteq given'
    BY <2>1 DEF Prefix
  <2>9. \A g \in Handlers : /\ pc'[g] = "reply" => 1 .. top'[g] \subseteq given'
                            /\ pc'[g] = "lock" => 1 .. pos'[g] \subseteq given'
    BY <2>1, <2>6 DEF Prefix
  <2>10. \A e \in seen' : e \in given' \/ \E g \in Handlers : e \in fresh'[g]
    BY <2>1 DEF Prefix
  <2> QED BY <1>a, <2>7, <2>8, <2>9, <2>10 DEF Prefix, Critical
<1>6. CASE Dedup(h)
  <2> DEFINE key == pos[h] + 1
  <2>1. /\ pos' = [pos EXCEPT ![h] = key]
        /\ \A g \in Handlers : Critical(g)' = Critical(g)
        /\ \A g \in Handlers : ~Critical(g) => pc'[g] = pc[g]
        /\ Critical(h)
        /\ UNCHANGED <<sent, acked, since, req, top, given>>
    BY <1>6 DEF Prefix, TypeInv, TypeOK, Dedup, Critical, ScanPhase, server, client, machine
  <2>2. /\ \A g \in Handlers \ {h} : fresh'[g] = fresh[g] /\ pos'[g] = pos[g]
        /\ pos'[h] = key /\ pos[h] \in Nat
    BY <1>6, <2>1 DEF Prefix, TypeInv, TypeOK, Dedup, memory
  <2>3. \A g \in Handlers \ {h} : ~Critical(g)
    BY <2>1 DEF Prefix, Exclusive
  <2>4. 1 .. key = 1 .. pos[h] \cup {key}
    BY <2>2
  <2>5. CASE key \in seen
    <3>1. fresh' = fresh /\ seen' = seen
      BY <1>6, <2>5 DEF Dedup, memory
    <3>2. key \in given \cup fresh[h]
      BY <2>3, <2>5 DEF Prefix, Exclusive
    <3>3. 1 .. pos'[h] \subseteq given' \cup fresh'[h] /\ fresh'[h] \subseteq 1 .. pos'[h]
      BY <2>1, <2>2, <2>4, <3>1, <3>2 DEF Prefix
    <3> QED BY <1>a, <2>1, <2>2, <2>3, <3>1, <3>3 DEF Prefix, Critical
  <2>6. CASE key \notin seen
    <3>1. fresh' = [fresh EXCEPT ![h] = @ \cup {key}] /\ Insert(key)
      BY <1>6, <2>6 DEF Dedup
    <3>2. fresh'[h] = fresh[h] \cup {key}
      BY <3>1 DEF Prefix, TypeInv, TypeOK
    <3>3. 1 .. pos'[h] \subseteq given' \cup fresh'[h] /\ fresh'[h] \subseteq 1 .. pos'[h]
      BY <2>1, <2>2, <2>4, <3>2 DEF Prefix
    <3>4. \A e \in seen' : e \in given' \/ \E g \in Handlers : e \in fresh'[g]
      BY <2>1, <2>2, <3>1, <3>2, InsertKey DEF Prefix
    <3> QED BY <1>a, <2>1, <2>2, <2>3, <3>3, <3>4 DEF Prefix, Critical
  <2> QED BY <2>5, <2>6
<1>7. CASE Accept(h)
  <2>1. /\ pc' = [pc EXCEPT ![h] = "reply"] /\ fresh' = [fresh EXCEPT ![h] = {}]
        /\ UNCHANGED <<sent, acked, since, req, pos, top, seen>>
        /\ given' = given \cup fresh[h]
    BY <1>7 DEF Accept, server, client, memory
  <2>2. \A g \in Handlers : /\ fresh'[g] = {} /\ pc'[g] \notin {"dedup", "machine"}
                            /\ g # h => pc'[g] = pc[g]
    BY <1>7, <2>1 DEF Prefix, Exclusive, TypeInv, TypeOK, Critical, Accept
  <2>3. \A e \in seen' : e \in given'
    BY <1>7, <2>1 DEF Prefix, Exclusive, Critical, Accept
  <2>4. /\ 1 .. top[h] \subseteq given' /\ given \subseteq given'
        /\ \E n \in 0 .. sent' : given' = 1 .. n
    BY <1>7, <2>1, AcceptExtends
  <2>5. \A g \in Handlers : pc'[g] = "reply" => 1 .. top'[g] \subseteq given'
    BY <2>1, <2>2, <2>4 DEF Prefix
  <2>6. \A g \in Handlers : /\ 1 .. req'[g] \subseteq given'
                            /\ pc'[g] = "lock" => 1 .. pos'[g] \subseteq given'
    BY <2>1, <2>2, <2>4 DEF Prefix, TypeInv, TypeOK
  <2>7. 1 .. acked' \subseteq given' /\ 1 .. since' \subseteq given'
    BY <2>1, <2>4 DEF Prefix
  <2>8. \A g \in Handlers : pc'[g] \notin {"dedup", "machine"}
    BY <2>2
  <2>9. \A e \in seen' : e \in given' \/ \E g \in Handlers : e \in fresh'[g]
    BY <2>3
  <2> QED BY <1>a, <2>4, <2>5, <2>6, <2>7, <2>8, <2>9 DEF Prefix, Critical
<1>8. CASE Reject(h)
  <2>1. seen' = seen \ fresh[h]
    BY <1>8, ForgetKeys DEF Reject
  <2> QED BY <1>8, <1>a, <2>1, FinishPrefix DEF Prefix, Reject, ErrorReply, server, machine
<1>9. CASE Reply(h)
  <2>1. 1 .. since' \subseteq given /\ fresh[h] = {}
    BY <1>9 DEF Prefix, Exclusive, Critical, Reply, client
  <2> QED BY <1>9, <1>a, <2>1, FinishPrefix DEF Prefix, Reply, server, memory, machine
<1>10. CASE Drop(h)
  <2>1. fresh[h] = {}
    BY <1>10, DropAssumption DEF Drop, NoDropInMachine, Prefix, Exclusive, Critical
  <2> QED BY <1>10, <1>a, <2>1, FinishPrefix
             DEF Prefix, Drop, server, client, memory, machine
<1> QED BY <1>1, <1>2, <1>3, <1>4, <1>5, <1>6, <1>7, <1>8, <1>9, <1>10 DEF HandlerStep

\* What only others do leaves Prefix, if the stream grows at its end and the
\* client does not move ahead of what was processed.
LEMMA ElsewherePrefix ==
  ASSUME Prefix, TypeInv', 0 .. sent \subseteq 0 .. sent', 1 .. since' \subseteq given,
         UNCHANGED <<acked, pc, req, pos, top, fresh, seen, given>>
  PROVE  Prefix'
<1>1. \E n \in 0 .. sent' : given' = 1 .. n
  BY DEF Prefix
<1>2. Exclusive'
  BY DEF Prefix, Exclusive, Critical
<1>3. \A h \in Handlers : /\ 1 .. req'[h] \subseteq given'
                          /\ pc'[h] = "reply" => 1 .. top'[h] \subseteq given'
                          /\ pc'[h] = "lock" => 1 .. pos'[h] \subseteq given'
  BY DEF Prefix
<1>4. \A h \in Handlers : pc'[h] \in {"dedup", "machine"} =>
        /\ 1 .. pos'[h] \subseteq given' \cup fresh'[h]
        /\ fresh'[h] \subseteq 1 .. pos'[h]
  BY DEF Prefix, Critical
<1>5. \A e \in seen' : e \in given' \/ \E h \in Handlers : e \in fresh'[h]
  BY DEF Prefix
<1>6. 1 .. acked' \subseteq given' /\ 1 .. since' \subseteq given'
  BY DEF Prefix
<1> QED BY <1>1, <1>2, <1>3, <1>4, <1>5, <1>6 DEF Prefix, Critical

\* Every step preserves Prefix.
LEMMA NextPrefix == NoDropInMachine /\ Prefix /\ [Next]_vars => Prefix'
<1> SUFFICES ASSUME NoDropInMachine, Prefix, [Next]_vars PROVE Prefix'
  OBVIOUS
<1>1. /\ TypeInv' /\ sent \in Nat /\ since \in Nat /\ 1 .. since \subseteq given
  <2>1. TypeInv /\ 1 .. since \subseteq given
    BY DEF Prefix
  <2>2. sent \in Nat /\ since \in Nat
    BY <2>1 DEF TypeInv, TypeOK
  <2> QED BY <2>1, <2>2, NextType
<1>2. CASE Send
  <2>1. 0 .. sent \subseteq 0 .. sent'
    BY <1>1, <1>2 DEF Send
  <2> QED BY <1>1, <1>2, <2>1, ElsewherePrefix DEF Send, client, handler, memory, machine
<1>3. CASE GiveUp
  BY <1>1, <1>3, ElsewherePrefix DEF GiveUp, server, handler, memory, machine
<1>4. CASE ClientRestart
  <2>1. 1 .. since' \subseteq 1 .. since
    BY <1>1, <1>4 DEF ClientRestart
  <2>2. UNCHANGED <<sent, acked, pc, req, pos, top, fresh, seen, given>>
    BY <1>4 DEF ClientRestart, server, handler, memory, machine
  <2>3. 1 .. since' \subseteq given /\ 0 .. sent \subseteq 0 .. sent'
    BY <1>1, <2>1, <2>2
  <2> QED BY <1>1, <2>2, <2>3, ElsewherePrefix
<1>5. CASE Restart
  <2>1. \A h \in Handlers : pc'[h] = "idle" /\ req'[h] = 0 /\ fresh'[h] = {}
    BY <1>5 DEF Restart
  <2>2. UNCHANGED <<sent, acked, since, given>> /\ seen' = {}
    BY <1>5 DEF Restart, server
  <2>3. \A h \in Handlers : ~Critical(h)' /\ pc'[h] \notin {"reply", "lock"}
    BY <2>1 DEF Critical
  <2>4. \A h \in Handlers : 1 .. req'[h] \subseteq given'
    BY <2>1
  <2>5. Exclusive'
    BY <2>1, <2>3 DEF Exclusive
  <2>6. /\ \E n \in 0 .. sent' : given' = 1 .. n
        /\ 1 .. acked' \subseteq given' /\ 1 .. since' \subseteq given'
    BY <2>2 DEF Prefix
  <2> QED BY <1>1, <2>2, <2>3, <2>4, <2>5, <2>6 DEF Prefix
<1>6. CASE UNCHANGED vars
  BY <1>1, <1>6, ElsewherePrefix DEF vars, server, client, handler, memory, machine
<1> QED BY <1>2, <1>3, <1>4, <1>5, <1>6, NextCases, HandlerPrefix DEF EnvironmentStep

\* The OlmMachine is handed the events in the homeserver's order, without a
\* gap, through overlapping syncs, errors, evictions and restarts.
THEOREM HandedInOrder == ASSUME NoDropInMachine PROVE Spec => []InOrder
<1>1. Prefix => InOrder
  BY DEF Prefix, InOrder
<1> QED BY InitPrefix, NextPrefix, <1>1, PTL DEF Spec

\* The homeserver deletes no event that the OlmMachine was not handed: a
\* next_batch reaches the client only after its events were processed.
THEOREM NothingIsLost == ASSUME NoDropInMachine PROVE Spec => []NothingLost
<1>1. Prefix => NothingLost
  BY DEF Prefix, NothingLost
<1> QED BY InitPrefix, NextPrefix, <1>1, PTL DEF Spec

-----------------------------------------------------------------------------
(* Refinement *)

\* A step of handle_sync or its environment is a step of the channel or none.
LEMMA StepRefines ==
  ASSUME NoDropInMachine, Prefix, Prefix', [Next]_vars
  PROVE  [Channel!Next]_(Channel!vars)
<1> USE DEF Channel!vars
<1>1. sent \in Nat /\ acked \in Nat /\ acked' \in Nat
  BY DEF Prefix, TypeInv, TypeOK
<1>2. CASE Send
  BY <1>2 DEF Send, machine, Channel!Next, Channel!Send
<1>3. ASSUME NEW h \in Handlers, Respond(h)
      PROVE  [Channel!Next]_(Channel!vars)
  <2>1. acked <= acked' /\ sent' = sent /\ given' = given
    BY <1>1, <1>3 DEF Respond, SetMax, machine, Prefix, TypeInv, TypeOK
  <2>2. 1 .. acked' \subseteq given
    BY <2>1 DEF Prefix
  <2> QED BY <1>1, <2>1, <2>2 DEF Channel!Next, Channel!Delete
<1>4. ASSUME NEW h \in Handlers, Accept(h)
      PROVE  [Channel!Next]_(Channel!vars)
  <2>1. PICK n \in 0 .. sent : given' = 1 .. n
    BY <1>4, AcceptExtends
  <2>2. given \subseteq 1 .. n /\ sent' = sent /\ acked' = acked
    BY <1>4, <2>1, AcceptExtends DEF Accept, server
  <2> QED BY <2>1, <2>2 DEF Channel!Next, Channel!Hand
<1>5. ASSUME NEW h \in Handlers, HandlerStep(h), ~Respond(h), ~Accept(h)
      PROVE  UNCHANGED <<sent, acked, given>>
  BY <1>5 DEF HandlerStep, Request, UpstreamError, RepairOnly, Lock, Dedup, Reject,
              Reply, Drop, server, machine
<1>6. CASE GiveUp \/ ClientRestart \/ Restart \/ UNCHANGED vars
  BY <1>6 DEF GiveUp, ClientRestart, Restart, vars, server, machine
<1> QED BY <1>2, <1>3, <1>4, <1>5, <1>6, NextCases DEF EnvironmentStep

\* handle_sync implements the ordered channel that loses nothing.
THEOREM Refinement == ASSUME NoDropInMachine PROVE Spec => ImplementsChannel
<1>1. Init => Channel!Init
  BY DEF Init, Channel!Init
<1>2. Prefix /\ Prefix' /\ [Next]_vars => [Channel!Next]_(Channel!vars)
  BY StepRefines
<1> QED BY InitPrefix, NextPrefix, <1>1, <1>2, PTL
           DEF Spec, ImplementsChannel, Channel!Spec
==============================================================================
