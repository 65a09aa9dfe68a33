--------------------------- MODULE OutgoingProofs ---------------------------
(***************************************************************************)
(* No request goes out twice without doubt about its answer, for any       *)
(* number of pumps and key tasks: whoever sends holds pump_lock, and what  *)
(* is left of its batch, like the rest of the queue, was never sent or is  *)
(* in doubt.  And a session counts as asked only if its request arrived:   *)
(* that is the last of its key task's batch.                               *)
(***************************************************************************)
EXTENDS Outgoing, TLAPS, FiniteSetTheorems, SequenceTheorems

Holding == {"list", "ask", "send", "mark"}
Unsent(r) == got[r] = 0 \/ r \in doubt

Ranges ==
  /\ made \in Nat /\ made <= MaxRequests /\ queue \subseteq 1 .. made
  /\ got \in [Requests -> Nat]
  /\ keyRequest \in [Sessions -> 0 .. made]
  /\ pc \in [Agents -> Phases] /\ batch \in [Agents -> Seq(Requests)]
  /\ \A r \in Requests : r > made => got[r] = 0

Exclusive ==
  /\ \A a \in Agents : pc[a] \in Holding => lock = {a}
  /\ \A s \in Sessions : s \notin asked => pc[s] = "idle"

\* Nothing but the request in the air may have been sent already.
Sendable ==
  /\ \A r \in queue :
       Unsent(r) \/ \E a \in Agents : pc[a] = "mark" /\ r = batch[a][1]
  /\ \A a \in Agents : pc[a] \in {"send", "mark"} =>
       /\ batch[a] # <<>>
       /\ \A i, j \in DOMAIN batch[a] : batch[a][i] = batch[a][j] => i = j
       /\ \A i \in DOMAIN batch[a] :
            batch[a][i] <= made /\ (Unsent(batch[a][i]) \/ (i = 1 /\ pc[a] = "mark"))

Once == Ranges /\ Exclusive /\ Sendable /\ SentOnce

-----------------------------------------------------------------------------
LEMMA InitOnce == Init => Once
BY BoundsAssumption DEF Init, Once, Ranges, Exclusive, Sendable, SentOnce, Requests,
   Agents, Phases, Holding

\* outgoing_requests gives each request of the queue once.
LEMMA Orders ==
  ASSUME Ranges, queue # {}, NEW order \in SetToSeqs(queue)
  PROVE  /\ order \in Seq(Requests) /\ order # <<>>
         /\ \A i \in DOMAIN order : order[i] \in queue
         /\ \A i, j \in DOMAIN order : order[i] = order[j] => i = j
<1>1. IsFiniteSet(queue)
  <2>1. made \in Nat /\ queue \subseteq 1 .. made
    BY DEF Ranges
  <2>2. IsFiniteSet(1 .. made)
    BY <2>1, FS_Interval
  <2> QED BY <2>1, <2>2, FS_Subset
<1>2. Cardinality(queue) \in Nat /\ Cardinality(queue) # 0
  BY <1>1, FS_CardinalityType, FS_EmptySet
<1>3. /\ order \in [1 .. Cardinality(queue) -> queue]
      /\ \A i, j \in 1 .. Cardinality(queue) : i # j => order[i] # order[j]
  BY DEF SetToSeqs
<1>4. queue \subseteq Requests
  BY BoundsAssumption DEF Ranges, Requests
<1>5. order \in Seq(Requests)
  BY <1>2, <1>3, <1>4
<1>6. order # <<>>
  BY <1>2, <1>3, <1>5
<1> QED BY <1>3, <1>5, <1>6

\* Who takes the lock finds nobody in it.
LEMMA AcquireOnce ==
  ASSUME Once, NEW a \in Agents, NEW phase \in {"list", "ask"},
         Unlocked, Acquire(a, phase)
  PROVE  Once'
<1>1. /\ UNCHANGED <<olm, net, batch>> /\ lock' = {a} /\ pc[a] = "wait"
      /\ pc' = [pc EXCEPT ![a] = phase]
  BY DEF Acquire, Goto
<1>2. \A b \in Agents : pc[b] \notin Holding
  BY DEF Once, Exclusive, Unlocked
<1>3. Ranges'
  BY <1>1 DEF Once, Ranges, olm, net, Phases
<1>4. \A b \in Agents : b # a => pc'[b] \notin Holding
  BY <1>1, <1>2 DEF Once, Ranges
<1>5. Exclusive'
  <2>1. \A b \in Agents : b # a => pc'[b] = pc[b]
    BY <1>1 DEF Once, Ranges
  <2>2. \A s \in Sessions : s \notin asked' => s # a /\ pc[s] = "idle"
    BY <1>1 DEF Once, Exclusive, Acquire
  <2> QED BY <1>1, <1>4, <2>1, <2>2 DEF Exclusive, Agents
<1>6. pc'[a] = phase
  BY <1>1 DEF Once, Ranges
<1>7. Sendable'
  BY <1>1, <1>2, <1>4, <1>6 DEF Once, Sendable, olm, net, Holding, Unsent
<1> QED BY <1>1, <1>3, <1>5, <1>7 DEF Once, SentOnce, olm, net

\* Who gives the lock back, with an answer it may have missed in doubt.
LEMMA ReleaseOnce ==
  ASSUME Once, NEW a \in Agents, Release(a), UNCHANGED <<olm, got>>,
         doubt \subseteq doubt', pc[a] = "mark" => batch[a][1] \in doubt',
         asked \ {a} \subseteq asked'
  PROVE  Once'
<1>1. /\ pc' = [pc EXCEPT ![a] = "idle"] /\ lock' = lock \ {a}
      /\ batch' = [batch EXCEPT ![a] = <<>>]
  BY DEF Release, Goto
<1>2. /\ pc'[a] = "idle"
      /\ \A b \in Agents : b # a => pc'[b] = pc[b] /\ batch'[b] = batch[b]
  BY <1>1 DEF Once, Ranges
<1>3. Ranges'
  BY <1>1 DEF Once, Ranges, olm, Phases
<1>4. Exclusive'
  BY <1>1, <1>2 DEF Once, Exclusive, Agents, Holding
<1>5. \A r \in Requests : Unsent(r) => Unsent(r)'
  BY DEF Unsent
<1>6. ASSUME NEW r \in queue
      PROVE  Unsent(r)' \/ \E b \in Agents : pc'[b] = "mark" /\ r = batch'[b][1]
  <2>1. r \in Requests
    BY BoundsAssumption DEF Once, Ranges, Requests
  <2>2. CASE Unsent(r)
    BY <1>5, <2>1, <2>2
  <2>3. CASE pc[a] = "mark" /\ r = batch[a][1]
    BY <2>3 DEF Unsent
  <2>4. CASE \E b \in Agents \ {a} : pc[b] = "mark" /\ r = batch[b][1]
    BY <1>2, <2>4
  <2> QED BY <2>2, <2>3, <2>4 DEF Once, Sendable
<1>7. ASSUME NEW b \in Agents, pc'[b] \in {"send", "mark"}
      PROVE  /\ batch'[b] # <<>>
             /\ \A i, j \in DOMAIN batch'[b] : batch'[b][i] = batch'[b][j] => i = j
             /\ \A i \in DOMAIN batch'[b] : batch'[b][i] <= made
                  /\ (Unsent(batch[b][i])' \/ (i = 1 /\ pc'[b] = "mark"))
  <2>1. b # a /\ pc'[b] = pc[b] /\ batch'[b] = batch[b]
    BY <1>2, <1>7
  <2>2. \A i \in DOMAIN batch[b] : batch[b][i] \in Requests
    BY DEF Once, Ranges
  <2> QED BY <1>5, <1>7, <2>1, <2>2 DEF Once, Sendable
<1>8. Sendable'
  BY <1>6, <1>7 DEF Sendable, Unsent, olm
<1> QED BY <1>3, <1>4, <1>8 DEF Once, SentOnce, olm

LEMMA WantOnce ==
  ASSUME Once, Want
  PROVE  Once'
<1>1. /\ made < MaxRequests /\ made' = made + 1 /\ queue' = queue \cup {made'}
      /\ UNCHANGED <<keyRequest, net, asked, lock, pc, batch>>
  BY DEF Want
<1>2. got[made'] = 0
  BY <1>1, BoundsAssumption DEF Once, Ranges, Requests
<1>3. Ranges'
  BY <1>1, BoundsAssumption DEF Once, Ranges, net, Requests
<1>4. Exclusive'
  BY <1>1 DEF Once, Exclusive
<1>5. \A a \in Agents : \A i \in DOMAIN batch[a] : batch[a][i] \in Requests
  BY DEF Once, Ranges
<1>6. Sendable'
  BY <1>1, <1>2, <1>5, BoundsAssumption DEF Once, Ranges, Sendable, Unsent, net, Requests
<1> QED BY <1>1, <1>3, <1>4, <1>6 DEF Once, SentOnce, net

\* Pumps and key tasks set out without the lock.
LEMMA SetOutOnce ==
  ASSUME Once, NEW a \in Agents, Goto(a, "wait"), pc[a] \notin Holding,
         UNCHANGED <<olm, net, lock, batch>>,
         asked \subseteq asked', a \in Pumps \cup asked'
  PROVE  Once'
<1>1. /\ pc' = [pc EXCEPT ![a] = "wait"] /\ pc'[a] = "wait"
      /\ \A b \in Agents : b # a => pc'[b] = pc[b]
  BY DEF Goto, Once, Ranges
<1>2. Ranges'
  BY <1>1 DEF Once, Ranges, olm, net, Phases
<1>3. Exclusive'
  BY <1>1, AgentsAssumption DEF Once, Exclusive, Agents, Holding
<1>4. Sendable'
  BY <1>1 DEF Once, Sendable, Unsent, olm, net, Holding
<1> QED BY <1>2, <1>3, <1>4 DEF Once, SentOnce, net

LEMMA ListOnce ==
  ASSUME Once, NEW p \in Pumps, List(p)
  PROVE  Once'
<1>1. PICK order \in SetToSeqs(queue) :
        /\ batch' = [batch EXCEPT ![p] = order] /\ pc' = [pc EXCEPT ![p] = "send"]
        /\ pc[p] = "list" /\ queue # {} /\ UNCHANGED <<olm, net, asked, lock>>
  BY DEF List, Goto
<1>2. p \in Agents /\ p \notin Sessions
  BY AgentsAssumption DEF Agents
<1>3. /\ order \in Seq(Requests) /\ order # <<>>
      /\ \A i \in DOMAIN order : order[i] \in queue
      /\ \A i, j \in DOMAIN order : order[i] = order[j] => i = j
  BY <1>1, Orders DEF Once
<1>4. /\ pc'[p] = "send" /\ batch'[p] = order
      /\ \A b \in Agents : b # p => pc'[b] = pc[b] /\ pc[b] \notin Holding
  BY <1>1, <1>2 DEF Once, Ranges, Exclusive, Holding
<1>5. Ranges'
  BY <1>1, <1>2, <1>3 DEF Once, Ranges, olm, net, Phases
<1>6. Exclusive'
  BY <1>1, <1>2, <1>4 DEF Once, Exclusive, Agents, Holding
<1>7. \A r \in queue : Unsent(r) /\ r <= made
  BY <1>1, <1>4 DEF Once, Ranges, Sendable, Holding
<1>8. Sendable'
  BY <1>1, <1>3, <1>4, <1>7 DEF Sendable, Unsent, olm, net, Holding
<1> QED BY <1>1, <1>5, <1>6, <1>8 DEF Once, SentOnce, net

\* New requests have new numbers.
LEMMA AskOnce ==
  ASSUME Once, NEW s \in Sessions, Ask(s)
  PROVE  Once'
<1> DEFINE new == ToAsk(s)
<1>1. /\ pc[s] = "ask" /\ made' = made + Len(new) /\ made + Len(new) <= MaxRequests
      /\ queue' = (queue \ {keyRequest[s]}) \cup ToSet(new)
      /\ keyRequest' = [keyRequest EXCEPT ![s] = made']
      /\ batch' = [batch EXCEPT ![s] = new] /\ pc' = [pc EXCEPT ![s] = "send"]
      /\ UNCHANGED <<net, asked, lock>>
  BY DEF Ask, Goto
<1>2. s \in Agents
  BY DEF Agents
<1>3. /\ new # <<>> /\ Len(new) \in Nat /\ DOMAIN new = 1 .. Len(new)
      /\ \A i \in DOMAIN new : new[i] = made + i
  <2>1. made \in Nat
    BY DEF Once, Ranges
  <2>2. new = <<made + 1>> \/ new = <<made + 1, made + 2>>
    BY DEF ToAsk
  <2>3. CASE new = <<made + 1>>
    BY <2>1, <2>3
  <2>4. CASE new = <<made + 1, made + 2>>
    BY <2>1, <2>4
  <2> QED BY <2>2, <2>3, <2>4
<1>4. \A i \in DOMAIN new : new[i] \in Requests /\ new[i] <= made' /\ got[new[i]] = 0
  BY <1>1, <1>3, BoundsAssumption DEF Once, Ranges, Requests
<1>5. new \in Seq(Requests)
  BY <1>4 DEF ToAsk
<1>6. /\ pc'[s] = "send" /\ batch'[s] = new
      /\ \A b \in Agents : b # s => pc'[b] = pc[b] /\ pc[b] \notin Holding
  BY <1>1, <1>2 DEF Once, Ranges, Exclusive, Holding
<1>7. Ranges'
  <2>1. made' \in Nat /\ made' <= MaxRequests /\ made <= made'
    BY <1>1, <1>3, BoundsAssumption DEF Once, Ranges
  <2>2. queue' \subseteq 1 .. made'
    <3>1. queue \subseteq 1 .. made'
      BY <2>1 DEF Once, Ranges
    <3>2. ToSet(new) \subseteq 1 .. made'
      BY <1>4, <2>1 DEF ToSet, Requests
    <3> HIDE DEF new
    <3> QED BY <1>1, <3>1, <3>2
  <2>3. keyRequest' \in [Sessions -> 0 .. made']
    BY <1>1, <2>1 DEF Once, Ranges
  <2>4. pc' \in [Agents -> Phases] /\ batch' \in [Agents -> Seq(Requests)]
    BY <1>1, <1>2, <1>5 DEF Once, Ranges, Phases
  <2> QED BY <1>1, <2>1, <2>2, <2>3, <2>4 DEF Once, Ranges, net, Requests
<1>8. Exclusive'
  BY <1>1, <1>2, <1>6 DEF Once, Exclusive, Agents, Holding
<1>9. \A r \in queue : Unsent(r)
  BY <1>1, <1>6 DEF Once, Sendable, Holding
<1>10. \A i, j \in DOMAIN new : new[i] = new[j] => i = j
  BY <1>3 DEF Once, Ranges
<1>11. Sendable'
  BY <1>1, <1>3, <1>4, <1>6, <1>9, <1>10 DEF Sendable, Unsent, net, Holding, ToSet
<1> QED BY <1>1, <1>7, <1>8, <1>11 DEF Once, SentOnce, net

\* What goes out now is unsent or in doubt.
LEMMA SendOnce ==
  ASSUME Once, NEW a \in Agents, Send(a)
  PROVE  Once'
<1> DEFINE head == batch[a][1]
<1>1. /\ batch[a] \in Seq(Requests) /\ batch[a] # <<>> /\ pc[a] = "send"
      /\ 1 \in DOMAIN batch[a] /\ Head(batch[a]) = head /\ head \in Requests
  BY DEF Send, Once, Ranges, Sendable
<1>2. /\ pc' = [pc EXCEPT ![a] = "mark"] /\ got' = [got EXCEPT ![head] = got[head] + 1]
      /\ UNCHANGED <<olm, doubt, failures, asked, lock, batch>>
  BY <1>1 DEF Send, Goto
<1>3. Unsent(head) /\ head <= made
  BY <1>1 DEF Once, Sendable
<1>4. \A r \in Requests : r # head /\ Unsent(r) => Unsent(r)'
  BY <1>2 DEF Unsent, Once, Ranges
<1>5. /\ pc'[a] = "mark"
      /\ \A b \in Agents : b # a => pc'[b] = pc[b] /\ pc[b] \notin Holding
  BY <1>1, <1>2 DEF Once, Ranges, Exclusive, Holding
<1>6. Ranges'
  <2>1. got' \in [Requests -> Nat]
    BY <1>1, <1>2 DEF Once, Ranges
  <2>2. \A r \in Requests : r > made => got'[r] = 0
    BY <1>1, <1>2, <1>3 DEF Once, Ranges, Requests
  <2>3. pc' \in [Agents -> Phases]
    BY <1>2 DEF Once, Ranges, Phases
  <2> QED BY <1>2, <2>1, <2>2, <2>3 DEF Once, Ranges, olm
<1>7. Exclusive'
  BY <1>1, <1>2, <1>5 DEF Once, Exclusive, Agents, Holding
<1>8. queue \subseteq Requests
  BY BoundsAssumption DEF Once, Ranges, Requests
<1>9. \A r \in queue : Unsent(r)
  BY <1>1, <1>5 DEF Once, Sendable, Holding
<1>10. \A r \in queue : Unsent(r)' \/ r = head
  BY <1>4, <1>8, <1>9
<1>11. \A i \in DOMAIN batch[a] :
         batch[a][i] <= made /\ (Unsent(batch[a][i])' \/ i = 1)
  <2> SUFFICES ASSUME NEW i \in DOMAIN batch[a]
               PROVE  batch[a][i] <= made /\ (i # 1 => Unsent(batch[a][i])')
    OBVIOUS
  <2>1. batch[a][i] \in Requests /\ batch[a][i] <= made /\ Unsent(batch[a][i])
    BY <1>1 DEF Once, Sendable
  <2>2. i # 1 => batch[a][i] # head
    BY <1>1 DEF Once, Sendable
  <2> QED BY <1>2, <1>4, <2>1, <2>2
<1>12. Sendable'
  BY <1>1, <1>2, <1>5, <1>10, <1>11 DEF Once, Sendable, Holding, olm
<1>13. SentOnce'
  BY <1>1, <1>2, <1>3 DEF Once, Ranges, SentOnce, Unsent
<1> QED BY <1>6, <1>7, <1>12, <1>13 DEF Once

\* The answered request leaves the queue and the batch.
LEMMA MarkOnce ==
  ASSUME Once, NEW a \in Agents, Mark(a)
  PROVE  Once'
<1> DEFINE rest == Tail(batch[a])
<1>1. /\ pc[a] = "mark" /\ batch[a] \in Seq(Requests) /\ batch[a] # <<>>
      /\ queue' = queue \ {batch[a][1]} /\ UNCHANGED <<keyRequest, made, net, asked>>
  BY DEF Mark, Once, Ranges, Sendable
<1>2. \A b \in Agents : b # a => pc[b] \notin Holding
  BY <1>1 DEF Once, Exclusive, Holding
<1>3. \A r \in queue' : Unsent(r)
  BY <1>1, <1>2 DEF Once, Sendable, Holding
<1>4. /\ rest \in Seq(Requests)
      /\ \A i \in DOMAIN rest : i + 1 \in DOMAIN batch[a] /\ i + 1 # 1
                              /\ i \in Nat /\ rest[i] = batch[a][i + 1]
  BY <1>1
<1>5. \A i \in DOMAIN rest : rest[i] <= made /\ Unsent(rest[i])
  BY <1>1, <1>4 DEF Once, Sendable
<1>6. ASSUME NEW i \in DOMAIN rest, NEW j \in DOMAIN rest, rest[i] = rest[j]
      PROVE  i = j
  <2>1. i + 1 = j + 1
    BY <1>1, <1>4, <1>6 DEF Once, Sendable
  <2> QED BY <1>4, <2>1
<1>7. PICK next \in {"idle", "list", "send"}, left \in {<<>>, rest} :
        /\ pc' = [pc EXCEPT ![a] = next] /\ batch' = [batch EXCEPT ![a] = left]
        /\ lock' = (IF next = "idle" THEN lock \ {a} ELSE lock)
        /\ next = "send" => left = rest /\ rest # <<>>
        /\ next = "idle" => a \in Sessions
  <2>1. CASE rest = <<>> /\ a \in Sessions
    BY <2>1 DEF Mark, Release, Goto
  <2>2. CASE ~(rest = <<>> /\ a \in Sessions)
    BY <2>2 DEF Mark, Goto
  <2> QED BY <2>1, <2>2
<1>8. /\ pc'[a] = next /\ batch'[a] = left
      /\ \A b \in Agents : b # a => pc'[b] = pc[b]
  BY <1>7 DEF Once, Ranges
<1>9. Ranges'
  <2>1. left \in Seq(Requests)
    <3>1. <<>> \in Seq(Requests)
      OBVIOUS
    <3> HIDE DEF rest
    <3> QED BY <1>4, <1>7, <3>1
  <2>2. pc' \in [Agents -> Phases] /\ batch' \in [Agents -> Seq(Requests)]
    BY <1>7, <2>1 DEF Once, Ranges, Phases
  <2> QED BY <1>1, <2>2 DEF Once, Ranges, net
<1>10. Exclusive'
  <2>1. \A b \in Agents : pc'[b] \in Holding => lock' = {b}
    BY <1>1, <1>2, <1>7, <1>8 DEF Once, Exclusive, Holding
  <2>2. \A s \in Sessions : s \notin asked' => pc'[s] = "idle"
    BY <1>1, <1>7, <1>8 DEF Once, Exclusive, Agents
  <2> QED BY <2>1, <2>2 DEF Exclusive
<1>11. Sendable'
  <2>1. \A r \in queue' : Unsent(r)'
    BY <1>1, <1>3 DEF Unsent, net
  <2>2. ASSUME NEW b \in Agents, pc'[b] \in {"send", "mark"}
        PROVE  b = a /\ batch'[b] = rest /\ rest # <<>>
    BY <1>2, <1>7, <1>8, <2>2 DEF Holding
  <2> HIDE DEF rest
  <2> QED BY <1>1, <1>5, <1>6, <2>1, <2>2 DEF Sendable, Unsent, net
<1> QED BY <1>1, <1>9, <1>10, <1>11 DEF Once, SentOnce, net

\* A restart leaves the answers in the air in doubt.
LEMMA RestartOnce ==
  ASSUME Once, Restart
  PROVE  Once'
<1>1. /\ doubt' = doubt \cup {Head(batch[a]) : a \in {a \in Agents : pc[a] = "mark"}}
      /\ pc' = [a \in Agents |-> "idle"] /\ batch' = [a \in Agents |-> <<>>]
      /\ UNCHANGED <<olm, got>>
  BY DEF Restart
<1>2. Ranges'
  BY <1>1 DEF Once, Ranges, olm, Phases
<1>3. Exclusive'
  BY <1>1 DEF Exclusive, Agents, Holding
<1>4. \A a \in Agents : pc[a] = "mark" => batch[a][1] \in doubt'
  <2>1. \A a \in Agents : pc[a] = "mark" => Head(batch[a]) = batch[a][1]
    BY DEF Once, Ranges, Sendable
  <2> QED BY <1>1, <2>1
<1>5. Sendable'
  BY <1>1, <1>4 DEF Once, Sendable, Unsent, olm
<1> QED BY <1>1, <1>2, <1>3, <1>5 DEF Once, SentOnce, olm

-----------------------------------------------------------------------------
LEMMA NextOnce == Once /\ [Next]_vars => Once'
<1> SUFFICES ASSUME Once, [Next]_vars
             PROVE  Once'
  OBVIOUS
<1>1. CASE UNCHANGED vars
  BY <1>1 DEF vars, olm, net, Once, Ranges, Exclusive, Sendable, SentOnce, Unsent
<1>2. CASE Want \/ Restart
  BY <1>2, WantOnce, RestartOnce
<1>3. ASSUME NEW p \in Pumps, Start(p) \/ Lock(p) \/ List(p) \/ Drained(p) \/ Drop(p)
      PROVE  Once'
  <2>1. p \in Agents
    BY DEF Agents
  <2>2. CASE Start(p)
    BY <2>1, <2>2, SetOutOnce DEF Start, Begin, Holding
  <2>3. CASE Lock(p)
    BY <2>1, <2>3, AcquireOnce DEF Lock
  <2>4. CASE List(p)
    BY <2>4, ListOnce
  <2>5. CASE Drained(p)
    BY <2>1, <2>5, ReleaseOnce DEF Drained, net
  <2>6. CASE Drop(p)
    <3>1. pc[p] = "mark" => Head(batch[p]) = batch[p][1]
      BY <2>1 DEF Once, Ranges, Sendable
    <3> QED BY <2>1, <2>6, <3>1, ReleaseOnce DEF Drop
  <2> QED BY <1>3, <2>2, <2>3, <2>4, <2>5, <2>6
<1>4. ASSUME NEW s \in Sessions,
             Undecryptable(s) \/ LockForKey(s) \/ Ask(s) \/ AskFails(s)
      PROVE  Once'
  <2>1. s \in Agents
    BY DEF Agents
  <2>2. CASE Undecryptable(s)
    <3>1. pc[s] \notin Holding
      BY <2>2 DEF Undecryptable, Once, Exclusive, Holding
    <3> QED BY <2>1, <2>2, <3>1, SetOutOnce DEF Undecryptable
  <2>3. CASE LockForKey(s)
    BY <2>1, <2>3, AcquireOnce DEF LockForKey
  <2>4. CASE Ask(s)
    BY <2>4, AskOnce
  <2>5. CASE AskFails(s)
    BY <2>1, <2>5, ReleaseOnce DEF AskFails, net
  <2> QED BY <1>4, <2>2, <2>3, <2>4, <2>5
<1>5. ASSUME NEW a \in Agents, Send(a) \/ Mark(a) \/ Fail(a)
      PROVE  Once'
  <2>1. CASE Fail(a)
    <3>1. pc[a] = "mark" => Head(batch[a]) = batch[a][1]
      BY DEF Once, Ranges, Sendable
    <3> QED BY <2>1, <3>1, ReleaseOnce DEF Fail, Forget
  <2> QED BY <1>5, <2>1, SendOnce, MarkOnce
<1> QED BY <1>1, <1>2, <1>3, <1>4, <1>5 DEF Next

\* machine.rs:51-55, decrypt.rs:392-394: a request goes out again only if its
\* sender had no good answer to it, however pumps and key tasks overlap.
THEOREM SentOnlyOnce == Spec => []SentOnce
<1>1. Once => SentOnce
  BY DEF Once
<1> QED BY InitOnce, NextOnce, <1>1, PTL DEF Spec

-----------------------------------------------------------------------------
(* A session counts as asked only if its request arrived *)

Sending == {"send", "mark"}

Books ==
  /\ doubt \subseteq 1 .. made /\ failures \in 0 .. MaxFailures
  /\ asked \subseteq Sessions /\ lock \subseteq Agents
  /\ \A a \in Agents : pc[a] \notin Sending => batch[a] = <<>>

\* The last request of a key task is its session's key request, and it ends
\* well only after that was sent.
Aims ==
  /\ \A a \in Agents : pc[a] = "mark" => got[batch[a][1]] > 0
  /\ \A s \in Sessions :
       /\ pc[s] # "list"
       /\ pc[s] \in Sending => keyRequest[s] = batch[s][Len(batch[s])]
  /\ AskedMeansSent

All == Once /\ Books /\ Aims

\* Who sends has a batch, whose first request it is at.
LEMMA Batches ==
  ASSUME All, NEW a \in Agents
  PROVE  /\ batch[a] \in Seq(Requests) /\ Len(batch[a]) \in Nat
         /\ DOMAIN batch[a] = 1 .. Len(batch[a])
         /\ pc[a] \in Sending =>
              /\ batch[a] # <<>> /\ Head(batch[a]) = batch[a][1]
              /\ 1 \in DOMAIN batch[a] /\ batch[a][1] \in 1 .. made
              /\ Len(batch[a]) \in DOMAIN batch[a]
<1>1. batch[a] \in Seq(Requests)
  BY DEF All, Once, Ranges
<1>2. Len(batch[a]) \in Nat /\ DOMAIN batch[a] = 1 .. Len(batch[a])
  BY <1>1
<1>3. ASSUME pc[a] \in Sending
      PROVE  /\ batch[a] # <<>> /\ Head(batch[a]) = batch[a][1]
             /\ 1 \in DOMAIN batch[a] /\ batch[a][1] \in 1 .. made
             /\ Len(batch[a]) \in DOMAIN batch[a]
  <2>1. batch[a] # <<>> /\ \A i \in DOMAIN batch[a] : batch[a][i] <= made
    BY <1>3 DEF All, Once, Sendable, Sending
  <2>2. 1 \in DOMAIN batch[a] /\ Len(batch[a]) \in DOMAIN batch[a]
    BY <1>1, <1>2, <2>1
  <2>3. batch[a][1] \in Requests
    BY <1>1, <2>2
  <2>4. batch[a][1] \in 1 .. made
    BY <2>1, <2>2, <2>3 DEF All, Once, Ranges, Requests
  <2> QED BY <1>1, <2>1, <2>2, <2>4
<1> QED BY <1>1, <1>2, <1>3

\* Who ends, well or not, gives back the lock and is done with its batch.
LEMMA ReleaseAims ==
  ASSUME All, NEW a \in Agents, Release(a), UNCHANGED <<olm, got>>,
         asked' \subseteq asked,
         a \notin asked' \/ pc[a] = "idle" \/ a \in Pumps
  PROVE  /\ Aims' /\ asked' \subseteq Sessions /\ lock' \subseteq Agents
         /\ \A b \in Agents : pc'[b] \notin Sending => batch'[b] = <<>>
<1>1. /\ pc' = [pc EXCEPT ![a] = "idle"] /\ lock' = lock \ {a}
      /\ batch' = [batch EXCEPT ![a] = <<>>]
  BY DEF Release, Goto
<1>2. /\ pc'[a] = "idle" /\ batch'[a] = <<>>
      /\ \A b \in Agents : b # a => pc'[b] = pc[b] /\ batch'[b] = batch[b]
  BY <1>1 DEF All, Once, Ranges
<1>3. Sessions \subseteq Agents /\ Pumps \cap Sessions = {}
  BY AgentsAssumption DEF Agents
<1>4. Aims'
  BY <1>2, <1>3 DEF All, Aims, AskedMeansSent, Books, olm, Sending
<1> QED BY <1>1, <1>2, <1>4 DEF All, Books

\* A step to another phase before the sending, with nothing in hand.
LEMMA MoveAims ==
  ASSUME All, NEW a \in Agents, NEW phase \in {"wait", "list", "ask"}, Goto(a, phase),
         pc[a] \notin Sending, UNCHANGED <<olm, net, batch>>,
         asked' \subseteq asked \cup ({a} \cap Sessions), lock' \in {lock, {a}},
         phase = "list" => a \notin Sessions
  PROVE  Books' /\ Aims'
<1>1. /\ pc'[a] = phase /\ \A b \in Agents : b # a => pc'[b] = pc[b]
  BY DEF Goto, All, Once, Ranges
<1>2. Sessions \subseteq Agents
  BY DEF Agents
<1>3. Books'
  BY <1>1 DEF All, Books, olm, net, Sending
<1>4. Aims'
  BY <1>1, <1>2 DEF All, Books, Aims, AskedMeansSent, olm, net, Sending
<1> QED BY <1>3, <1>4

LEMMA AskAims ==
  ASSUME All, Once', NEW s \in Sessions, Ask(s)
  PROVE  Books' /\ Aims'
<1> DEFINE new == ToAsk(s)
<1>1. /\ new \in {<<made + 1, made + 2>>, <<made + 1>>} /\ made \in Nat
      /\ new[Len(new)] = made + Len(new) /\ Len(new) \in {1, 2}
  BY DEF ToAsk, All, Once, Ranges
<1>2. /\ pc[s] = "ask" /\ pc' = [pc EXCEPT ![s] = "send"]
      /\ made' = made + Len(new) /\ keyRequest' = [keyRequest EXCEPT ![s] = made']
      /\ batch' = [batch EXCEPT ![s] = new] /\ UNCHANGED <<net, asked, lock>>
  BY DEF Ask, Goto
<1> HIDE DEF new
<1>3. Sessions \subseteq Agents
  BY DEF Agents
<1>4. /\ pc'[s] = "send" /\ batch'[s] = new /\ keyRequest'[s] = made'
      /\ \A b \in Agents : b # s => pc'[b] = pc[b] /\ batch'[b] = batch[b]
      /\ \A t \in Sessions : t # s => keyRequest'[t] = keyRequest[t]
  BY <1>2, <1>3 DEF All, Once, Ranges
<1>5. Books'
  BY <1>1, <1>2, <1>4 DEF All, Books, net, Sending
<1>6. Aims'
  BY <1>1, <1>2, <1>3, <1>4 DEF All, Aims, AskedMeansSent, net, Sending
<1> QED BY <1>5, <1>6

LEMMA SendAims ==
  ASSUME All, NEW a \in Agents, Send(a)
  PROVE  Books' /\ Aims'
<1> DEFINE head == batch[a][1]
<1>1. /\ pc[a] = "send" /\ pc' = [pc EXCEPT ![a] = "mark"]
      /\ Head(batch[a]) = head /\ head \in 1 .. made
      /\ UNCHANGED <<olm, doubt, failures, asked, lock, batch>>
  BY Batches DEF Send, Goto, Sending
<1>2. head \in Requests /\ got' = [got EXCEPT ![head] = got[head] + 1]
  BY <1>1, BoundsAssumption DEF Send, All, Once, Ranges, Requests
<1> HIDE DEF head
<1>3. \A r \in Requests : got'[r] >= got[r] /\ got'[r] \in Nat /\ got[r] \in Nat
  BY <1>2 DEF All, Once, Ranges
<1>4. got'[head] > 0
  BY <1>2 DEF All, Once, Ranges
<1>5. pc'[a] = "mark" /\ \A b \in Agents : b # a => pc'[b] = pc[b]
  BY <1>1 DEF All, Once, Ranges
<1>6. Books'
  BY <1>1, <1>5 DEF All, Books, olm, Sending
<1>7. ASSUME NEW b \in Agents, pc'[b] = "mark" PROVE got'[batch'[b][1]] > 0
  <2>1. CASE b = a
    BY <1>1, <1>4, <2>1 DEF head
  <2>2. CASE b # a
    <3>1. got[batch[b][1]] > 0 /\ batch[b][1] \in Requests
      BY <1>5, <1>7, <2>2, Batches, BoundsAssumption
      DEF All, Aims, Sending, Once, Ranges, Requests
    <3> QED BY <1>1, <1>3, <3>1
  <2> QED BY <2>1, <2>2
<1>8. ASSUME NEW s \in Sessions
      PROVE  /\ pc'[s] # "list"
             /\ pc'[s] \in Sending => keyRequest'[s] = batch'[s][Len(batch'[s])]
  <2>1. s \in Agents
    BY DEF Agents
  <2> QED BY <1>1, <1>5, <2>1 DEF All, Aims, olm, Sending
<1>9. ASSUME NEW s \in asked', pc'[s] = "idle"
      PROVE  keyRequest'[s] # 0 /\ got'[keyRequest'[s]] > 0
  <2>1. s \in Sessions /\ s \in Agents
    BY <1>1 DEF All, Books, Agents
  <2>2. keyRequest[s] # 0 /\ got[keyRequest[s]] > 0
    BY <1>1, <1>5, <1>9, <2>1 DEF All, Aims, AskedMeansSent
  <2>3. keyRequest[s] \in Requests
    BY <2>1, <2>2, BoundsAssumption DEF All, Once, Ranges, Requests
  <2> QED BY <1>1, <1>3, <2>2, <2>3 DEF olm
<1> QED BY <1>6, <1>7, <1>8, <1>9 DEF Aims, AskedMeansSent

LEMMA MarkAims ==
  ASSUME All, NEW a \in Agents, Mark(a)
  PROVE  Books' /\ Aims'
<1> DEFINE rest == Tail(batch[a])
<1>1. /\ pc[a] = "mark" /\ batch[a] \in Seq(Requests) /\ batch[a] # <<>>
      /\ UNCHANGED <<keyRequest, made, net, asked>>
  BY Batches DEF Mark, Sending
<1>2. /\ rest \in Seq(Requests) /\ Len(rest) = Len(batch[a]) - 1
      /\ rest = <<>> => Len(batch[a]) = 1
      /\ rest # <<>> => rest[Len(rest)] = batch[a][Len(batch[a])]
  <2>1. /\ Len(batch[a]) \in Nat \ {0} /\ rest \in Seq(Requests)
        /\ Len(rest) = Len(batch[a]) - 1
        /\ \A i \in 1 .. Len(rest) : rest[i] = batch[a][i + 1]
    BY <1>1
  <2>2. rest = <<>> <=> Len(rest) = 0
    BY <2>1, EmptySeq
  <2>3. rest # <<>> => Len(rest) \in 1 .. Len(rest) /\ Len(rest) + 1 = Len(batch[a])
    BY <2>1, <2>2
  <2> HIDE DEF rest
  <2> QED BY <2>1, <2>2, <2>3
<1>3. Sessions \subseteq Agents /\ Pumps \cap Sessions = {}
  BY AgentsAssumption DEF Agents
<1>4. CASE rest = <<>> /\ a \in Sessions
  <2>1. /\ pc' = [pc EXCEPT ![a] = "idle"] /\ lock' = lock \ {a}
        /\ batch' = [batch EXCEPT ![a] = <<>>]
    BY <1>4 DEF Mark, Release, Goto
  <2>2. /\ pc'[a] = "idle" /\ batch'[a] = <<>>
        /\ \A b \in Agents : b # a => pc'[b] = pc[b] /\ batch'[b] = batch[b]
    BY <2>1 DEF All, Once, Ranges
  <2>3. keyRequest[a] = batch[a][1] /\ got[batch[a][1]] > 0 /\ batch[a][1] # 0
    <3>1. keyRequest[a] = batch[a][1] /\ got[batch[a][1]] > 0
      BY <1>1, <1>2, <1>4 DEF All, Aims, Sending
    <3>2. batch[a][1] \in 1 .. made
      BY <1>1, Batches DEF Sending
    <3> QED BY <3>1, <3>2 DEF All, Once, Ranges
  <2>4. Books'
    BY <1>1, <2>1, <2>2 DEF All, Books, net, Sending
  <2>5. Aims'
    BY <1>1, <1>3, <2>2, <2>3 DEF All, Aims, AskedMeansSent, net, Sending, Books
  <2> QED BY <2>4, <2>5
<1>5. CASE ~(rest = <<>> /\ a \in Sessions)
  <2>1. /\ pc' = [pc EXCEPT ![a] = IF rest = <<>> THEN "list" ELSE "send"]
        /\ batch' = [batch EXCEPT ![a] = rest] /\ UNCHANGED lock
    BY <1>5 DEF Mark, Goto
  <2>2. /\ pc'[a] = (IF rest = <<>> THEN "list" ELSE "send") /\ batch'[a] = rest
        /\ \A b \in Agents : b # a => pc'[b] = pc[b] /\ batch'[b] = batch[b]
    BY <2>1 DEF All, Once, Ranges
  <2> HIDE DEF rest
  <2>3. Books'
    BY <1>1, <2>1, <2>2 DEF All, Books, net, Sending
  <2>4. Aims'
    BY <1>1, <1>2, <1>3, <1>5, <2>2 DEF All, Books, Aims, AskedMeansSent, net, Sending
  <2> QED BY <2>3, <2>4
<1> QED BY <1>4, <1>5

LEMMA NextAll == All /\ [Next]_vars => All'
<1> SUFFICES ASSUME All, [Next]_vars PROVE Books' /\ Aims'
  BY NextOnce DEF All
<1>1. Once'
  BY NextOnce DEF All
<1>2. CASE UNCHANGED vars
  BY <1>2 DEF vars, olm, net, All, Books, Aims, AskedMeansSent, Sending
<1>3. CASE Want
  <2>1. made' = made + 1 /\ UNCHANGED <<keyRequest, net, asked, lock, pc, batch>>
    BY <1>3 DEF Want
  <2>2. Books'
    BY <2>1 DEF All, Books, net, Once, Ranges, Sending
  <2> QED BY <2>1, <2>2 DEF All, Aims, AskedMeansSent, net, Sending
<1>4. CASE Restart
  <2>1. /\ doubt' = doubt \cup {Head(batch[a]) : a \in {a \in Agents : pc[a] = "mark"}}
        /\ pc' = [a \in Agents |-> "idle"] /\ batch' = [a \in Agents |-> <<>>]
        /\ asked' = {} /\ lock' = {} /\ UNCHANGED <<olm, got>>
        /\ failures < MaxFailures /\ failures' = failures + 1
    BY <1>4 DEF Restart
  <2>2. doubt' \subseteq 1 .. made
    <3>1. \A a \in Agents : pc[a] = "mark" => Head(batch[a]) \in 1 .. made
      BY Batches DEF Sending
    <3>2. doubt \subseteq 1 .. made
      BY DEF All, Books
    <3> QED BY <2>1, <3>1, <3>2
  <2>3. failures' \in 0 .. MaxFailures
    BY <2>1, BoundsAssumption DEF All, Books
  <2> QED BY <2>1, <2>2, <2>3 DEF Books, Aims, AskedMeansSent, olm, Agents, Sending
<1>5. ASSUME NEW p \in Pumps, Start(p) \/ Lock(p) \/ List(p) \/ Drained(p) \/ Drop(p)
      PROVE  Books' /\ Aims'
  <2>1. p \in Agents /\ p \notin Sessions
    BY AgentsAssumption DEF Agents
  <2>2. CASE Start(p)
    BY <2>1, <2>2, MoveAims DEF Start, Begin, Sending
  <2>3. CASE Lock(p)
    BY <2>1, <2>3, MoveAims DEF Lock, Acquire, Sending
  <2>4. CASE List(p)
    <3>0. PICK order \in SetToSeqs(queue) : batch' = [batch EXCEPT ![p] = order]
      BY <2>4 DEF List
    <3>1. /\ pc[p] = "list" /\ pc' = [pc EXCEPT ![p] = "send"]
          /\ UNCHANGED <<olm, net, asked, lock>>
      BY <2>4 DEF List, Goto
    <3>2. /\ pc'[p] = "send"
          /\ \A b \in Agents : b # p => pc'[b] = pc[b] /\ batch'[b] = batch[b]
      <4>1. pc'[p] = "send" /\ \A b \in Agents : b # p => pc'[b] = pc[b]
        BY <2>1, <3>1 DEF All, Once, Ranges
      <4>2. \A b \in Agents : b # p => batch'[b] = batch[b]
        BY <3>0 DEF All, Once, Ranges
      <4> QED BY <4>1, <4>2
    <3>3. Books'
      BY <3>1, <3>2 DEF All, Books, olm, net, Sending
    <3>4. Sessions \subseteq Agents
      BY DEF Agents
    <3> QED BY <2>1, <3>1, <3>2, <3>3, <3>4
       DEF All, Books, Aims, AskedMeansSent, olm, net, Sending
  <2>5. CASE Drained(p)
    BY <2>1, <2>5, ReleaseAims DEF Drained, All, Books, olm, net
  <2>6. CASE Drop(p)
    <3>1. pc[p] = "mark" => Head(batch[p]) \in 1 .. made
      BY <2>1, Batches DEF Sending
    <3>2. doubt' \subseteq 1 .. made
      BY <2>1, <2>6, <3>1 DEF Drop, All, Books
    <3>3. failures' \in 0 .. MaxFailures
      BY <2>1, <2>6, BoundsAssumption DEF Drop, All, Books
    <3> QED BY <2>1, <2>6, <3>2, <3>3, ReleaseAims DEF Drop, Books, olm
  <2> QED BY <1>5, <2>2, <2>3, <2>4, <2>5, <2>6
<1>6. ASSUME NEW s \in Sessions,
             Undecryptable(s) \/ LockForKey(s) \/ Ask(s) \/ AskFails(s)
      PROVE  Books' /\ Aims'
  <2>1. s \in Agents
    BY DEF Agents
  <2>2. CASE Undecryptable(s)
    <3>1. pc[s] = "idle"
      BY <2>2 DEF Undecryptable, All, Once, Exclusive
    <3> QED BY <2>1, <2>2, <3>1, MoveAims DEF Undecryptable, Sending
  <2>3. CASE LockForKey(s)
    BY <2>1, <2>3, MoveAims DEF LockForKey, Acquire, Sending
  <2>4. CASE Ask(s)
    BY <1>1, <2>4, AskAims
  <2>5. CASE AskFails(s)
    BY <2>1, <2>5, ReleaseAims DEF AskFails, All, Books, olm, net
  <2> QED BY <1>6, <2>2, <2>3, <2>4, <2>5
<1>7. ASSUME NEW a \in Agents, Send(a) \/ Mark(a) \/ Fail(a)
      PROVE  Books' /\ Aims'
  <2>1. CASE Fail(a)
    <3>1. pc[a] = "mark" => Head(batch[a]) \in 1 .. made
      BY Batches DEF Sending
    <3>2. doubt' \subseteq 1 .. made
      BY <2>1, <3>1 DEF Fail, All, Books
    <3>3. failures' \in 0 .. MaxFailures
      BY <2>1, BoundsAssumption DEF Fail, All, Books
    <3> QED BY <2>1, <3>2, <3>3, ReleaseAims DEF Fail, Forget, Books, olm
  <2> QED BY <1>7, <2>1, SendAims, MarkAims
<1> QED BY <1>2, <1>3, <1>4, <1>5, <1>6, <1>7 DEF Next

LEMMA AlwaysAll == Spec => []All
<1>1. Init => All
  <2> SUFFICES ASSUME Init PROVE All
    OBVIOUS
  <2>1. Once
    BY InitOnce
  <2> QED BY <2>1, BoundsAssumption DEF Init, All, Books, Aims, AskedMeansSent, Agents, Sending
<1> QED BY <1>1, NextAll, PTL DEF Spec

\* decrypt.rs:383, 405-409: however pumps, key tasks, failures and restarts
\* overlap, a session is held not to need another request only while its task
\* is at work, or once its request has arrived.
THEOREM AskedIsSent == Spec => []AskedMeansSent
<1>1. All => AskedMeansSent
  BY DEF All, Aims
<1> QED BY AlwaysAll, <1>1, PTL

\* The type invariant of the queue, the pumps and the key tasks.
THEOREM TypeCorrect == Spec => []TypeOK
<1>1. ASSUME All PROVE TypeOK
  <2>1. batch \in [Agents -> Seq(1 .. made)]
    <3> SUFFICES ASSUME NEW a \in Agents PROVE batch[a] \in Seq(1 .. made)
      BY <1>1 DEF All, Once, Ranges
    <3>1. CASE pc[a] \notin Sending
      <4>1. <<>> \in Seq(1 .. made)
        OBVIOUS
      <4> QED BY <1>1, <3>1, <4>1 DEF All, Books
    <3>2. CASE pc[a] \in Sending
      <4>1. /\ \A i \in DOMAIN batch[a] : batch[a][i] \in Requests /\ batch[a][i] <= made
            /\ batch[a] \in Seq(Requests)
        BY <1>1, <3>2 DEF All, Once, Ranges, Sendable, Sending
      <4>2. \A i \in DOMAIN batch[a] : batch[a][i] \in 1 .. made
        BY <1>1, <4>1, BoundsAssumption DEF All, Once, Ranges, Requests
      <4>3. Len(batch[a]) \in Nat /\ DOMAIN batch[a] = 1 .. Len(batch[a])
            /\ batch[a] = [i \in 1 .. Len(batch[a]) |-> batch[a][i]]
        BY <4>1
      <4>4. batch[a] \in [1 .. Len(batch[a]) -> 1 .. made]
        BY <4>2, <4>3
      <4> QED BY <4>3, <4>4, SeqDef
    <3> QED BY <3>1, <3>2
  <2> QED BY <1>1, <2>1 DEF All, Once, Ranges, Books, TypeOK
<1>2. All => TypeOK
  BY <1>1
<1> QED BY AlwaysAll, <1>2, PTL

=============================================================================
