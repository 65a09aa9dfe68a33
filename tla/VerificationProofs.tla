------------------------- MODULE VerificationProofs -------------------------
(***************************************************************************)
(* How a flow ended can be asked for, whatever syncs and commands are      *)
(* under way and whatever becomes of them; and what `ctl verify' reports   *)
(* of a flow is so, whatever the peer, the store and the other admin       *)
(* clients do to it meanwhile.  (That a refused flow was not verified      *)
(* takes that no other client confirms it.)                                *)
(***************************************************************************)
EXTENDS Verification, FiniteSetTheorems, TLAPS

-----------------------------------------------------------------------------
(* Folds over sequences, as in LateKeyRepairProofs: they are defined by    *)
(* recursion on positions; what they compute is shown by induction.         *)

\* Induction over the naturals, stated of a set: the order < is well-founded.
LEMMA NatInd ==
  ASSUME NEW S, 0 \in S, \A n \in Nat : n \in S => n + 1 \in S
  PROVE  Nat \subseteq S
<1> DEFINE R == {ss \in Nat \X Nat : ss[1] < ss[2]}
<1>1. IsWellFoundedOn(R, Nat)
  BY NatLessThanWellFounded DEF OpToRel
<1> HIDE DEF R
<1> SUFFICES ASSUME Nat \ S # {} PROVE FALSE
  OBVIOUS
<1>2. PICK x \in Nat \ S : \A y \in Nat \ S : <<y, x>> \notin R
  BY <1>1, WFMin
<1>3. x - 1 \in Nat /\ <<x - 1, x>> \in R
  BY DEF R
<1> QED BY <1>2, <1>3

\* A set of positions has a last one.
LEMMA LastOne ==
  ASSUME NEW n \in Nat, NEW t \in SUBSET (1..n), t # {}
  PROVE  Max(t) \in t /\ \A x \in t : x <= Max(t)
<1> DEFINE S == {k \in Nat : \A u \in SUBSET (1..k) :
                               u # {} => \E m \in u : \A x \in u : x <= m}
<1>1. 0 \in S
  <2>1. 1..0 = {}
    OBVIOUS
  <2> QED BY <2>1
<1>2. ASSUME NEW k \in Nat, k \in S PROVE k + 1 \in S
  <2> SUFFICES ASSUME NEW u \in SUBSET (1..k+1), u # {}
               PROVE  \E m \in u : \A x \in u : x <= m
    OBVIOUS
  <2>1. CASE k + 1 \in u
    BY <2>1
  <2>2. CASE k + 1 \notin u
    <3>1. u \in SUBSET (1..k)
      BY <2>2
    <3> QED BY <3>1, <1>2
  <2> QED BY <2>1, <2>2
<1> HIDE DEF S
<1>3. n \in S
  BY <1>1, <1>2, NatInd
<1>4. \E m \in t : \A x \in t : m >= x
  BY <1>3 DEF S
<1>5. Max(t) \in t /\ \A x \in t : Max(t) >= x
  BY <1>4 DEF Max
<1> QED BY <1>5

\* The last of the first n + 1 positions, and what is left without it.
LEMMA TopOne ==
  ASSUME NEW n \in Nat, NEW t \in SUBSET (1..n+1)
  PROVE  /\ n + 1 \in t => Max(t) = n + 1 /\ t \ {n + 1} \in SUBSET (1..n)
         /\ n + 1 \notin t => t \in SUBSET (1..n)
<1>1. n + 1 \in Nat /\ \A x \in t : x \in Nat /\ 1 <= x /\ x <= n + 1
  OBVIOUS
<1>2. ASSUME n + 1 \in t PROVE Max(t) = n + 1
  <2>1. Max(t) \in t /\ n + 1 <= Max(t)
    <3> DEFINE k == n + 1
    <3> HIDE DEF k
    <3>1. k \in Nat /\ t \in SUBSET (1..k) /\ k \in t
      BY <1>1, <1>2 DEF k
    <3> QED BY <3>1, LastOne DEF k
  <2> DEFINE m == Max(t)
  <2>2. m \in Nat /\ m <= n + 1 /\ n + 1 <= m
    BY <1>1, <2>1
  <2> HIDE DEF m
  <2>3. m = n + 1
    BY <2>2
  <2> QED BY <2>3 DEF m
<1>3. ASSUME NEW x \in t, x # n + 1 PROVE x \in 1..n
  <2>1. x \in Nat /\ 1 <= x /\ x <= n + 1
    BY <1>1
  <2> QED BY <1>3, <2>1
<1> QED BY <1>2, <1>3

\* f is a fold over n positions with the steps G.
Folds(f, T, n, base, G) ==
  /\ f \in [SUBSET (1..n) -> T] /\ f[{}] = base
  /\ \A t \in SUBSET (1..n) : t # {} => f[t] = G[Max(t)][f[t \ {Max(t)}]]

\* There is such a fold, by induction on the number of positions.
LEMMA FoldExists ==
  ASSUME NEW T, NEW len \in Nat, NEW base \in T, NEW G \in [1..len -> [T -> T]]
  PROVE  \E f : Folds(f, T, len, base, G)
<1> DEFINE S == {n \in Nat : n <= len => \E f : Folds(f, T, n, base, G)}
<1>1. 0 \in S
  <2>1. 1..0 = {}
    OBVIOUS
  <2>2. Folds([t \in SUBSET (1..0) |-> base], T, 0, base, G)
    BY <2>1 DEF Folds
  <2> QED BY <2>2
<1>2. ASSUME NEW n \in Nat, n \in S PROVE n + 1 \in S
  <2> SUFFICES ASSUME n + 1 <= len PROVE \E f : Folds(f, T, n + 1, base, G)
    OBVIOUS
  <2>1. PICK f : Folds(f, T, n, base, G)
    <3>1. n <= len
      OBVIOUS
    <3> QED BY <1>2, <3>1
  <2> DEFINE g == [t \in SUBSET (1..n+1) |->
                     IF n + 1 \in t THEN G[n + 1][f[t \ {n + 1}]] ELSE f[t]]
  <2>2. ASSUME NEW t \in SUBSET (1..n+1), n + 1 \in t
        PROVE  Max(t) = n + 1 /\ t \ {n + 1} \in SUBSET (1..n)
    BY <2>2, TopOne
  <2>3. ASSUME NEW t \in SUBSET (1..n+1), n + 1 \notin t
        PROVE  t \in SUBSET (1..n) /\ (t # {} => t \ {Max(t)} \in SUBSET (1..n))
    BY <2>3, TopOne
  <2>4. g \in [SUBSET (1..n+1) -> T]
    <3> SUFFICES ASSUME NEW t \in SUBSET (1..n+1) PROVE g[t] \in T
      OBVIOUS
    <3>1. CASE n + 1 \in t
      <4>1. f[t \ {n + 1}] \in T
        BY <2>1, <2>2, <3>1 DEF Folds
      <4>2. G[n + 1] \in [T -> T]
        OBVIOUS
      <4> QED BY <3>1, <4>1, <4>2
    <3>2. CASE n + 1 \notin t
      <4>1. f[t] \in T
        BY <2>1, <2>3, <3>2 DEF Folds
      <4> QED BY <3>2, <4>1
    <3> QED BY <3>1, <3>2
  <2>5. g[{}] = base
    BY <2>1 DEF Folds
  <2>6. ASSUME NEW t \in SUBSET (1..n+1), t # {}
        PROVE  g[t] = G[Max(t)][g[t \ {Max(t)}]]
    <3>1. CASE n + 1 \in t
      BY <2>2, <3>1
    <3>2. CASE n + 1 \notin t
      <4>1. g[t] = f[t] /\ f[t] = G[Max(t)][f[t \ {Max(t)}]]
        BY <2>1, <2>3, <2>6, <3>2 DEF Folds
      <4>2. g[t \ {Max(t)}] = f[t \ {Max(t)}]
        BY <2>3, <2>6, <3>2
      <4> QED BY <4>1, <4>2
    <3> QED BY <3>1, <3>2
  <2> HIDE DEF g
  <2> QED BY <2>4, <2>5, <2>6 DEF Folds
<1> HIDE DEF S
<1>3. len \in S
  BY <1>1, <1>2, NatInd
<1> QED BY <1>3 DEF S

-----------------------------------------------------------------------------
(* VerificationLog *)

\* A log of ended flows: each once, and not too many.
GoodLog(o) == o \in Seq(Flows) /\ IsInjective(o) /\ Len(o) <= MaxFinished

\* A log forgets nothing before it is full, and stays full.
Keeps(o, r) == Len(o) <= Len(r) /\ (Range(o) \subseteq Range(r) \/ Len(r) = MaxFinished)

\* record: one more flow, at the end of the log.
LEMMA RememberOne ==
  ASSUME NEW o, GoodLog(o), NEW f \in Flows
  PROVE  /\ GoodLog(Remember(o, f)) /\ Keeps(o, Remember(o, f))
         /\ f \in Range(Remember(o, f))
         /\ Range(Remember(o, f)) \subseteq Range(o) \cup {f}
<1> DEFINE r == Remember(o, f)
<1>0. MaxFinished \in Nat \ {0} /\ o \in Seq(Flows) /\ IsInjective(o) /\ Len(o) \in Nat
  BY SizesAssumption DEF GoodLog
<1>1. CASE f \in Range(o)
  BY <1>0, <1>1 DEF Remember, GoodLog, Keeps
<1>2. CASE f \notin Range(o) /\ Len(o) # MaxFinished
  <2>1. r = Append(o, f)
    BY <1>2 DEF Remember
  <2>2. /\ r \in Seq(Flows) /\ Len(r) = Len(o) + 1 /\ DOMAIN r = 1..Len(o) + 1
        /\ r[Len(o) + 1] = f /\ \A i \in DOMAIN o : i \in DOMAIN r /\ r[i] = o[i]
        /\ \A i \in DOMAIN r : i = Len(o) + 1 \/ i \in DOMAIN o
    BY <1>0, <2>1
  <2> HIDE DEF r
  <2>3. \A i \in DOMAIN o : o[i] # f
    BY <1>2 DEF Range
  <2>4. IsInjective(r)
    BY <1>0, <2>2, <2>3 DEF IsInjective
  <2>5. f \in Range(r) /\ Range(o) \subseteq Range(r) /\ Range(r) \subseteq Range(o) \cup {f}
    BY <1>0, <2>2 DEF Range
  <2>6. Len(r) <= MaxFinished
    BY <1>0, <1>2, <2>2 DEF GoodLog
  <2> QED BY <1>0, <2>2, <2>4, <2>5, <2>6 DEF GoodLog, Keeps, r
<1>3. CASE f \notin Range(o) /\ Len(o) = MaxFinished
  <2>1. r = Append(Tail(o), f)
    BY <1>3 DEF Remember
  <2>2. /\ Tail(o) \in Seq(Flows) /\ Len(Tail(o)) = Len(o) - 1
        /\ \A i \in 1..Len(o) - 1 : i + 1 \in DOMAIN o /\ Tail(o)[i] = o[i + 1]
    BY <1>0, <1>3
  <2>3. /\ r \in Seq(Flows) /\ Len(r) = Len(o) /\ DOMAIN r = 1..Len(o)
        /\ r[Len(o)] = f
        /\ \A i \in 1..Len(o) - 1 : i + 1 \in DOMAIN o /\ r[i] = o[i + 1]
        /\ \A i \in DOMAIN r : i = Len(o) \/ i \in 1..Len(o) - 1
    BY <1>0, <1>3, <2>1, <2>2
  <2> HIDE DEF r
  <2>4. \A i \in DOMAIN o : o[i] # f
    BY <1>3 DEF Range
  <2>5. IsInjective(r)
    <3> SUFFICES ASSUME NEW i \in DOMAIN r, NEW j \in DOMAIN r, r[i] = r[j] PROVE i = j
      BY DEF IsInjective
    <3>1. CASE i = Len(o) \/ j = Len(o)
      BY <2>3, <2>4, <3>1
    <3>2. CASE i # Len(o) /\ j # Len(o)
      <4>1. i + 1 \in DOMAIN o /\ j + 1 \in DOMAIN o /\ o[i + 1] = o[j + 1]
        BY <2>3, <3>2
      <4>2. i + 1 = j + 1
        BY <1>0, <4>1 DEF IsInjective
      <4> QED BY <1>0, <2>3, <4>2
    <3> QED BY <3>1, <3>2
  <2>6. f \in Range(r) /\ Range(r) \subseteq Range(o) \cup {f}
    <3>1. Len(o) \in DOMAIN r
      BY <1>0, <1>3, <2>3
    <3>2. \A i \in DOMAIN r : r[i] = f \/ \E j \in DOMAIN o : r[i] = o[j]
      BY <2>3
    <3> QED BY <2>3, <3>1, <3>2 DEF Range
  <2> QED BY <1>0, <1>3, <2>3, <2>5, <2>6 DEF GoodLog, Keeps, r
<1> QED BY <1>1, <1>2, <1>3

\* The log after some flows were recorded one after the other.
LEMMA RememberAll ==
  ASSUME NEW o, GoodLog(o), NEW seq \in Seq(Flows)
  PROVE  /\ GoodLog(FoldLeft(Remember, o, seq)) /\ Keeps(o, FoldLeft(Remember, o, seq))
         /\ Range(FoldLeft(Remember, o, seq)) \subseteq Range(o) \cup Range(seq)
         /\ \/ Len(FoldLeft(Remember, o, seq)) = MaxFinished
            \/ Range(seq) \subseteq Range(FoldLeft(Remember, o, seq))
<1> DEFINE len == Len(seq)
           Logs == {r \in Seq(Flows) : GoodLog(r)}
           F(g) == g = [t \in SUBSET DOMAIN seq |->
                          IF t = {} THEN o ELSE Remember(g[t \ {Max(t)}], seq[Max(t)])]
           G == [i \in 1..len |-> [r \in Logs |-> Remember(r, seq[i])]]
<1>1. FoldLeft(Remember, o, seq) = (CHOOSE g : F(g))[DOMAIN seq]
  BY DEF FoldLeft, MapThenFoldSet
<1>2. len \in Nat /\ DOMAIN seq = 1..len /\ \A i \in 1..len : seq[i] \in Flows
  OBVIOUS
<1>3. o \in Logs /\ G \in [1..len -> [Logs -> Logs]]
  <2>1. \A r \in Logs, i \in 1..len : Remember(r, seq[i]) \in Logs
    BY <1>2, RememberOne DEF GoodLog
  <2> QED BY <2>1 DEF GoodLog
<1>4. PICK g : Folds(g, Logs, len, o, G)
  <2> HIDE DEF G, len, Logs
  <2> QED BY <1>2, <1>3, FoldExists
<1>5. F(g)
  <2> SUFFICES ASSUME NEW t \in SUBSET (1..len)
               PROVE  g[t] = IF t = {} THEN o
                             ELSE Remember(g[t \ {Max(t)}], seq[Max(t)])
    BY <1>2, <1>4 DEF Folds
  <2>1. CASE t = {}
    BY <2>1, <1>4 DEF Folds
  <2>2. CASE t # {}
    <3>1. Max(t) \in 1..len /\ t \ {Max(t)} \in SUBSET (1..len)
      BY <2>2, <1>2, LastOne
    <3>2. g[t \ {Max(t)}] \in Logs /\ g[t] = G[Max(t)][g[t \ {Max(t)}]]
      BY <2>2, <3>1, <1>4 DEF Folds
    <3> HIDE DEF Logs
    <3> QED BY <3>1, <3>2, <2>2
  <2> QED BY <2>1, <2>2
<1> HIDE DEF G
<1> DEFINE logs == CHOOSE h : F(h)
<1>6. F(logs)
  <2> HIDE DEF F
  <2> QED BY <1>5
<1> DEFINE Good(n) == /\ GoodLog(logs[1..n]) /\ Keeps(o, logs[1..n])
                      /\ Range(logs[1..n]) \subseteq Range(o) \cup Range(seq)
                      /\ \/ Len(logs[1..n]) = MaxFinished
                         \/ \A i \in 1..n : seq[i] \in Range(logs[1..n])
           S == {n \in Nat : n <= len => Good(n)}
<1> HIDE DEF logs
<1>7. 0 \in S
  <2> DEFINE none == 1..0
  <2>1. none = {}
    OBVIOUS
  <2> HIDE DEF none
  <2>2. none \in SUBSET DOMAIN seq
    BY <2>1
  <2>3. logs[none] = o
    BY <1>6, <2>1, <2>2
  <2>4. Keeps(o, o)
    BY DEF Keeps, GoodLog
  <2>5. Good(0)
    BY <2>1, <2>3, <2>4 DEF none
  <2> HIDE DEF Good
  <2> QED BY <2>5
<1>8. ASSUME NEW n \in Nat, n \in S PROVE n + 1 \in S
  <2> SUFFICES ASSUME n + 1 <= len PROVE Good(n + 1)
    OBVIOUS
  <2>1. Good(n)
    <3>1. n <= len
      OBVIOUS
    <3> QED BY <1>8, <3>1
  <2>2. /\ 1..n+1 \in SUBSET DOMAIN seq /\ 1..n+1 # {}
        /\ Max(1..n+1) = n + 1 /\ (1..n+1) \ {n + 1} = 1..n
    <3>1. n + 1 \in 1..n+1 /\ 1..n+1 \in SUBSET (1..n+1)
      OBVIOUS
    <3>2. Max(1..n+1) = n + 1
      BY <3>1, TopOne
    <3>3. \A x \in 1..n+1 : x # n + 1 => x \in 1..n
      OBVIOUS
    <3>4. \A x \in 1..n : x \in 1..n+1 /\ x # n + 1
      OBVIOUS
    <3>5. (1..n+1) \ {n + 1} = 1..n
      BY <3>3, <3>4, Zenon
    <3>6. 1..n+1 \in SUBSET DOMAIN seq
      <4>1. \A x \in 1..n+1 : x \in 1..len
        BY <1>2
      <4> QED BY <1>2, <4>1
    <3> QED BY <3>1, <3>2, <3>5, <3>6
  <2> DEFINE old == logs[1..n]
             new == logs[1..n+1]
             x == seq[n + 1]
  <2>3. new = Remember(old, x)
    BY <1>6, <2>2
  <2>4. x \in Flows /\ x \in Range(seq)
    <3>1. n + 1 \in 1..len
      BY <1>2
    <3> QED BY <1>2, <3>1 DEF Range
  <2>5. \A i \in 1..n+1 : i \in 1..n \/ i = n + 1
    OBVIOUS
  <2>6. /\ GoodLog(old) /\ Keeps(o, old) /\ Range(old) \subseteq Range(o) \cup Range(seq)
        /\ Len(old) = MaxFinished \/ \A i \in 1..n : seq[i] \in Range(old)
    BY <2>1
  <2> HIDE DEF old, new, x
  <2>7. /\ GoodLog(new) /\ Keeps(old, new) /\ x \in Range(new)
        /\ Range(new) \subseteq Range(old) \cup {x}
    BY <2>3, <2>4, <2>6, RememberOne
  <2>8. Len(old) \in Nat /\ Len(new) \in Nat /\ Len(o) \in Nat /\ Len(new) <= MaxFinished
        /\ MaxFinished \in Nat
    BY <2>6, <2>7, SizesAssumption DEF GoodLog
  <2>9. Keeps(o, new)
    BY <2>6, <2>7, <2>8 DEF Keeps
  <2>10. Len(new) = MaxFinished \/ \A i \in 1..n+1 : seq[i] \in Range(new)
    BY <2>5, <2>6, <2>7, <2>8 DEF Keeps, x
  <2>11. Range(new) \subseteq Range(o) \cup Range(seq)
    BY <2>4, <2>6, <2>7
  <2> QED BY <2>7, <2>9, <2>10, <2>11 DEF new
<1> HIDE DEF S
<1>9. len \in S
  BY <1>2, <1>7, <1>8, NatInd
<1>10. Good(len)
  BY <1>2, <1>9 DEF S
<1>11. FoldLeft(Remember, o, seq) = logs[1..len]
  BY <1>1, <1>2 DEF logs
<1>12. Range(seq) = {seq[i] : i \in 1..len}
  BY <1>2 DEF Range
<1> QED BY <1>10, <1>11, <1>12

\* The flows record_finished notes down.
Found == {f \in Flows \ gone' : stage'[f] \in Ended /\ Looked(f)}

\* record_finished leaves a good log that has every flow it found, or is full.
LEMMA Recorded ==
  ASSUME GoodLog(order), RecordFinished
  PROVE  /\ GoodLog(order') /\ Keeps(order, order')
         /\ Range(order') \subseteq Range(order) \cup Found
         /\ Len(order') = MaxFinished \/ Found \subseteq Range(order')
<1>1. PICK found \in SetToSeqs(Found) : order' = FoldLeft(Remember, order, found)
  BY DEF RecordFinished, Found
<1> DEFINE n == Cardinality(Found)
<1>2. IsFiniteSet(Found) /\ n \in Nat /\ Found \subseteq Flows
  BY FlowsAssumption, FS_Subset, FS_CardinalityType DEF Found
<1>3. found \in [1..n -> Found] /\ \A i, j \in 1..n : i # j => found[i] # found[j]
  BY <1>1 DEF SetToSeqs
<1>4. found \in Injection(1..n, Found)
  BY <1>3 DEF Injection, IsInjective
<1>5. Cardinality(1..n) = n
  BY <1>2, FS_Interval
<1>6. found \in Surjection(1..n, Found)
  BY <1>2, <1>4, <1>5, FS_Injection
<1>7. found \in Seq(Flows) /\ Range(found) = Found
  BY <1>2, <1>3, <1>6 DEF Surjection, Range
<1> QED BY <1>1, <1>7, RememberAll

-----------------------------------------------------------------------------
(* What the OlmMachine, the log and the commands keep *)

\* Where a flow may be.
Stages == {"none"} \cup Active \cup Ended

\* The flows of the OlmMachine and what follows from their ends.
Machine ==
  /\ stage \in [Flows -> Stages]
  /\ gone \subseteq {f \in Flows : stage[f] \in Ended}
  /\ mac \subseteq Flows /\ reached \subseteq Flows /\ yes \subseteq Flows
  /\ trusted \subseteq {f \in Flows : stage[f] = "done"}
  /\ \A f \in Flows : stage[f] \in {"confirmed", "done"} => f \in yes

\* The log, and the ends that are still to be noted down: a sync has brought
\* them that has not given its lock back.
Noted ==
  /\ GoodLog(order) /\ Range(order) \subseteq {f \in Flows : stage[f] \in Ended}
  /\ watched \in BOOLEAN /\ held \in BOOLEAN
  /\ \A f \in owed :
       /\ f \in Flows /\ stage[f] \in Ended /\ (f \in Foreign => watched)
       /\ f \in Range(order) \/ Len(order) = MaxFinished \/ (held /\ f \notin gone)

\* The commands, and the last answer.
Serving ==
  /\ job \in [Admins -> Jobs]
  /\ answer \in {"none", "done, not seen", "error"} \cup Active \cup Ended
  /\ failures \in 0..MaxFailures

\* All that syncs and commands keep.
MachineInv == Machine /\ Noted /\ Serving

\* An end is for good.
Lasting == \A f \in Flows : stage[f] \in Ended => stage'[f] = stage[f]

\* As long as no end is brought, whatever else happens leaves the log as it is or
\* records what there is.
LEMMA NotedFrame ==
  ASSUME Machine, Noted, Lasting, stage' \in [Flows -> Stages],
         gone' = gone, held' = held, owed' = owed,
         watched' \in BOOLEAN, watched => watched',
         order' = order \/ RecordFinished
  PROVE  Noted'
<1>1. /\ GoodLog(order') /\ Keeps(order, order')
      /\ Range(order') \subseteq Range(order) \cup Found
  <2>1. CASE order' = order
    BY <2>1 DEF Noted, Keeps, GoodLog
  <2>2. CASE RecordFinished
    BY <2>2, Recorded DEF Noted
  <2> QED BY <2>1, <2>2
<1>2. Range(order') \subseteq {f \in Flows : stage'[f] \in Ended}
  BY <1>1 DEF Noted, Found, Lasting
<1>3. ASSUME NEW f \in owed', f \in Range(order) \/ Len(order) = MaxFinished
      PROVE  f \in Range(order') \/ Len(order') = MaxFinished
  <2>1. /\ Len(order) \in Nat /\ Len(order') \in Nat /\ MaxFinished \in Nat
        /\ Len(order') <= MaxFinished /\ Len(order) <= Len(order')
    BY <1>1, SizesAssumption DEF GoodLog, Noted, Keeps
  <2> QED BY <1>1, <1>3, <2>1 DEF Keeps
<1>4. ASSUME NEW f \in owed'
      PROVE  /\ f \in Flows /\ stage'[f] \in Ended /\ (f \in Foreign => watched')
             /\ f \in Range(order') \/ Len(order') = MaxFinished \/ (held' /\ f \notin gone')
  BY <1>3, <1>4 DEF Noted, Lasting
<1> QED BY <1>1, <1>2, <1>4 DEF Noted

\* One flow comes one stage further.
LEMMA MachineMove ==
  ASSUME Machine, NEW f \in Flows, NEW to \in Active \cup Ended, stage[f] \notin Ended,
         stage' = [stage EXCEPT ![f] = to],
         gone' = gone \/ gone' = {g \in Flows : stage[g] \in Ended},
         trusted' = trusted, yes \subseteq yes', yes' \subseteq Flows,
         mac' \subseteq Flows, reached' \subseteq Flows,
         to \in {"confirmed", "done"} => f \in yes'
  PROVE  Machine' /\ Lasting
<1>1. \A g \in Flows : stage'[g] = IF g = f THEN to ELSE stage[g]
  BY DEF Machine
<1>2. stage' \in [Flows -> Stages]
  BY DEF Machine, Stages
<1>3. Lasting
  BY <1>1 DEF Lasting
<1>4. "done" \in Ended
  BY DEF Ended
<1> QED BY <1>1, <1>2, <1>3, <1>4 DEF Machine, Lasting

\* No flow goes anywhere.
LEMMA MachineSame ==
  ASSUME Machine, UNCHANGED <<stage, gone, mac, trusted, yes>>, reached' \subseteq Flows
  PROVE  Machine' /\ Lasting /\ stage' \in [Flows -> Stages]
BY DEF Machine, Lasting

\* A command goes on, or is answered.
LEMMA ServeGoes ==
  ASSUME Serving, NEW a \in Admins, NEW place \in {"pause", "send", "tell", "trust"},
         NEW op \in Plain \cup Paused, NEW f \in Flows, Goes(a, place, op, f),
         answer' = answer, failures' = failures
  PROVE  Serving'
<1>1. [at |-> place, op |-> op, flow |-> f] \in Jobs
  BY DEF Jobs
<1> QED BY <1>1 DEF Serving, Goes

\* A command is answered.
LEMMA ServeReply ==
  ASSUME Serving, NEW a \in Admins,
         NEW word \in {"none", "done, not seen", "error"} \cup Active \cup Ended,
         Reply(a, word), failures' \in 0..MaxFailures
  PROVE  Serving'
<1>1. NoJob \in Jobs
  BY DEF Jobs
<1> QED BY <1>1 DEF Serving, Reply

\* A command that is under way has an operation and a flow.
LEMMA JobParts ==
  ASSUME Serving, NEW a \in Admins, job[a].at # "idle"
  PROVE  /\ job[a].at \in {"pause", "send", "tell", "trust"}
         /\ job[a].op \in Plain \cup Paused /\ job[a].flow \in Flows /\ job[a] # NoJob
<1>1. job[a] \in Jobs
  BY DEF Serving
<1>2. job[a] # NoJob
  BY DEF NoJob
<1>3. job[a] \in [at : {"pause", "send", "tell", "trust"}, op : Plain \cup Paused, flow : Flows]
  BY <1>1, <1>2 DEF Jobs
<1> QED BY <1>2, <1>3

-----------------------------------------------------------------------------
(* Admin commands *)

\* A user is watched for good.
LEMMA WatchGrows ==
  ASSUME NEW f, watched \in BOOLEAN, Watch(f)
  PROVE  watched' \in BOOLEAN /\ (watched => watched')
BY DEF Watch

\* show answers with what the OlmMachine or the log has.
LEMMA ShowServes ==
  ASSUME Machine, Serving, NEW a \in Admins, NEW op \in Plain \cup Paused, NEW f \in Flows,
         Show(a, op, f), failures' = failures
  PROVE  Serving'
<1>1. CASE Reply(a, "error")
  BY <1>1, ServeReply DEF Serving
<1>2. CASE Goes(a, "trust", op, f) /\ UNCHANGED answer
  BY <1>2, ServeGoes
<1>3. CASE Reply(a, stage[f])
  <2>1. stage[f] \in {"none", "done, not seen", "error"} \cup Active \cup Ended
    BY DEF Machine, Stages
  <2> QED BY <1>3, <2>1, ServeReply DEF Serving
<1> QED BY <1>1, <1>2, <1>3 DEF Show

\* Commands that take a flow one step further.
LEMMA StepMachine ==
  ASSUME MachineInv, NEW a \in Admins, NEW op \in Plain, NEW f \in Flows,
         NEW to \in {"outgoing", "ready", "key_exchange"}, stage[f] \notin Ended,
         Step(a, op, f, to), UNCHANGED <<trusted, order, held, yes, failures>>,
         watched' = watched \/ Watch(f)
  PROVE  MachineInv'
<1>0. Machine /\ Noted /\ Serving
  BY DEF MachineInv
<1>1. to \in Active \cup Ended /\ to \notin {"confirmed", "done"}
  BY DEF Active, Sas
<1>2. /\ stage' = [stage EXCEPT ![f] = to] /\ UNCHANGED <<gone, mac, owed, answer>>
      /\ reached' = reached \ {f} /\ Goes(a, "send", op, f)
  BY DEF Step
<1>3. Machine' /\ Lasting
  <2>1. reached' \subseteq Flows /\ mac' \subseteq Flows /\ yes' \subseteq Flows
    BY <1>0, <1>2 DEF Machine
  <2> QED BY <1>0, <1>1, <1>2, <2>1, MachineMove
<1>4. stage' \in [Flows -> Stages]
  BY <1>3 DEF Machine
<1>5. watched' \in BOOLEAN /\ (watched => watched')
  BY <1>0, WatchGrows DEF Noted
<1>6. Noted'
  BY <1>0, <1>2, <1>3, <1>4, <1>5, NotedFrame
<1>7. Serving'
  BY <1>0, <1>2, ServeGoes
<1> QED BY <1>3, <1>6, <1>7 DEF MachineInv

\* Commands that leave the flows as they are.
LEMMA StillMachine ==
  ASSUME MachineInv, UNCHANGED <<stage, gone, mac, owed, trusted, held, yes>>,
         reached' \subseteq Flows, Serving',
         watched' \in BOOLEAN, watched => watched',
         order' = order \/ RecordFinished
  PROVE  MachineInv'
<1>1. Machine' /\ Lasting /\ stage' \in [Flows -> Stages]
  BY MachineSame DEF MachineInv
<1> QED BY <1>1, NotedFrame DEF MachineInv

\* start
LEMMA StartMachine ==
  ASSUME MachineInv, NEW a \in Admins, NEW f, Start(a, f)
  PROVE  MachineInv'
<1>1. f \in Flows /\ stage[f] \notin Ended
  BY OursAssumption DEF Start, Ended
<1>2. "start" \in Plain
  BY DEF Plain
<1>3. /\ Step(a, "start", f, "outgoing")
      /\ UNCHANGED <<trusted, order, held, yes, failures, watched>>
  BY DEF Start, log
<1> QED BY <1>1, <1>2, <1>3, StepMachine

\* show, advance, accept, start_sas, sas_accept
LEMMA PlainMachine ==
  ASSUME MachineInv, NEW a \in Admins, NEW op \in Plain, NEW f \in Flows, NEW s,
         Plainly(a, op, f, s)
  PROVE  MachineInv'
<1>0. UNCHANGED <<trusted, held, yes, failures>> /\ Machine /\ Noted /\ Serving
  BY DEF Plainly, MachineInv
<1>1. ASSUME NEW to \in Moves(op, f, s), Step(a, op, f, to), watched' = watched \/ Watch(f),
             order' = order
      PROVE  MachineInv'
  <2>1. to \in {"ready", "key_exchange"} /\ Known(f)
    BY <1>1 DEF Moves
  <2>2. stage[f] \notin Ended
    BY <1>1 DEF Moves, Ended
  <2> QED BY <1>0, <1>1, <2>1, <2>2, StepMachine
<1>2. ASSUME UNCHANGED olm, Show(a, op, f)
      PROVE  MachineInv'
  <2>1. Serving'
    BY <1>0, <1>2, ShowServes
  <2>2. watched' \in BOOLEAN /\ (watched => watched') /\ RecordFinished
    BY <1>0, <1>2, WatchGrows DEF Show, Noted
  <2>3. UNCHANGED <<stage, gone, mac, owed>> /\ reached' \subseteq Flows
    BY <1>0, <1>2 DEF olm, Machine
  <2> QED BY <1>0, <2>1, <2>2, <2>3, StillMachine
<1>3. ASSUME UNCHANGED olm, Reply(a, "error"), UNCHANGED log
      PROVE  MachineInv'
  <2>1. Serving'
    BY <1>0, <1>3, ServeReply DEF Serving
  <2>2. UNCHANGED <<stage, gone, mac, owed, watched, order>> /\ reached' \subseteq Flows
    BY <1>0, <1>3 DEF olm, log, Machine
  <2>3. watched \in BOOLEAN
    BY <1>0 DEF Noted
  <2> QED BY <1>0, <2>1, <2>2, <2>3, StillMachine
<1> QED BY <1>1, <1>2, <1>3 DEF Plainly

\* confirm, mismatch, cancel before they have the lock
LEMMA AskMachine ==
  ASSUME MachineInv, NEW a \in Admins, NEW op \in Paused, NEW f \in Flows, Ask(a, op, f)
  PROVE  MachineInv'
<1>1. UNCHANGED <<stage, gone, mac, owed, trusted, held, yes, watched, order, failures>>
      /\ reached' \subseteq Flows /\ watched \in BOOLEAN
  BY DEF Ask, olm, log, MachineInv, Machine, Noted
<1>2. Serving'
  <2>1. CASE Goes(a, "pause", op, f) /\ UNCHANGED answer
    BY <1>1, <2>1, ServeGoes DEF MachineInv
  <2>2. CASE Reply(a, "error")
    BY <1>1, <2>2, ServeReply DEF MachineInv, Serving
  <2> QED BY <2>1, <2>2 DEF Ask
<1> QED BY <1>1, <1>2, StillMachine

\* What confirm, mismatch and cancel do under the lock, and that they note down
\* the end they bring.
LEMMA UnpauseMachine ==
  ASSUME MachineInv, NEW a \in Admins, Unpause(a)
  PROVE  MachineInv'
<1> DEFINE f == job[a].flow
           op == job[a].op
<1>0. Machine /\ Noted /\ Serving /\ ~held
  BY DEF MachineInv, Unpause, Unlocked
<1>1. f \in Flows /\ op \in Plain \cup Paused
  BY <1>0, JobParts DEF Unpause
<1>2. PICK to \in Outcomes(op, f) :
        /\ stage' = [stage EXCEPT ![f] = to]
        /\ reached' = IF to = stage[f] THEN reached ELSE reached \ {f}
        /\ owed' = Owed(f, to)
        /\ yes' = IF op = "confirm" /\ to # stage[f] THEN yes \cup {f} ELSE yes
        /\ Goes(a, IF to = stage[f] THEN "tell" ELSE "send", op, f)
  BY DEF Unpause
<1>3. UNCHANGED <<gone, mac, watched, trusted, held, answer, failures>> /\ RecordFinished
  BY DEF Unpause
<1> HIDE DEF f, op
<1>4. Serving'
  BY <1>0, <1>1, <1>2, <1>3, ServeGoes
<1>5. CASE to = stage[f]
  <2>1. stage' = stage /\ owed' = owed /\ yes' = yes /\ reached' \subseteq Flows
    BY <1>0, <1>1, <1>2, <1>5 DEF Machine, Owed
  <2>2. watched' \in BOOLEAN /\ (watched => watched')
    BY <1>0, <1>3 DEF Noted
  <2> QED BY <1>3, <1>4, <2>1, <2>2, StillMachine
<1>6. CASE to # stage[f]
  <2>1. /\ stage[f] \in Active /\ to \in {"confirmed", "done", "cancelled"}
        /\ to \in {"confirmed", "done"} => op = "confirm"
    BY <1>6 DEF Outcomes, Active, Sas
  <2>2. stage[f] \notin Ended /\ to \in Active \cup Ended
    BY <2>1 DEF Active, Sas, Ended
  <2>3. Machine' /\ Lasting
    <3>1. /\ yes \subseteq yes' /\ yes' \subseteq Flows /\ mac' \subseteq Flows
          /\ reached' \subseteq Flows
          /\ to \in {"confirmed", "done"} => f \in yes'
      BY <1>0, <1>1, <1>2, <1>3, <1>6, <2>1 DEF Machine
    <3> QED BY <1>0, <1>1, <1>2, <1>3, <2>2, <3>1, MachineMove
  <2>4. /\ GoodLog(order') /\ Keeps(order, order')
        /\ Range(order') \subseteq Range(order) \cup Found
        /\ Len(order') = MaxFinished \/ Found \subseteq Range(order')
    BY <1>0, <1>3, Recorded DEF Noted
  <2>5. Range(order') \subseteq {g \in Flows : stage'[g] \in Ended}
    BY <1>0, <2>3, <2>4 DEF Noted, Found, Lasting
  <2>6. ASSUME NEW g \in owed'
        PROVE  /\ g \in Flows /\ stage'[g] \in Ended /\ (g \in Foreign => watched')
               /\ g \in Range(order') \/ Len(order') = MaxFinished
    <3>1. CASE g \in owed
      <4>1. g \in Range(order) \/ Len(order) = MaxFinished
        BY <1>0, <3>1 DEF Noted
      <4>2. /\ Len(order) \in Nat /\ Len(order') \in Nat /\ MaxFinished \in Nat
            /\ Len(order') <= MaxFinished /\ Len(order) <= Len(order')
        BY <1>0, <2>4, SizesAssumption DEF GoodLog, Noted, Keeps
      <4>3. g \in Range(order') \/ Len(order') = MaxFinished
        BY <2>4, <4>1, <4>2 DEF Keeps
      <4> QED BY <1>0, <1>3, <2>3, <3>1, <4>3 DEF Noted, Lasting
    <3>2. CASE g \notin owed
      <4>1. g = f /\ to \in Ended /\ (f \in Foreign => watched)
        BY <1>2, <2>6, <3>2 DEF Owed
      <4>2. stage'[f] = to /\ f \notin gone
        BY <1>0, <1>1, <1>2, <2>2 DEF Machine
      <4>3. f \in Found
        BY <1>1, <1>3, <4>1, <4>2 DEF Found, Looked
      <4> QED BY <1>1, <1>3, <2>4, <4>1, <4>2, <4>3
    <3> QED BY <3>1, <3>2
  <2>7. Noted'
    BY <1>0, <1>3, <2>4, <2>5, <2>6 DEF Noted
  <2> QED BY <1>4, <2>3, <2>7 DEF MachineInv
<1> QED BY <1>5, <1>6

-----------------------------------------------------------------------------
(* Syncs, and the parts of a command after its first *)

\* What the peer sends ends no flow twice, and none is done that we have not
\* confirmed.
LEMMA ReceiveMoves ==
  ASSUME Machine, NEW f \in Flows, NEW to, Receive(f, to)
  PROVE  /\ stage[f] \notin Ended /\ to \in Active \cup Ended
         /\ to \in {"confirmed", "done"} => f \in yes
         /\ stage' = [stage EXCEPT ![f] = to]
         /\ mac' \subseteq Flows
<1>1. to \in News(f) /\ stage' = [stage EXCEPT ![f] = to]
  BY DEF Receive
<1>2. mac' \subseteq Flows
  BY DEF Receive, Machine
<1>3. stage[f] \notin Ended /\ to \in Active \cup Ended
  BY <1>1 DEF News, Active, Sas, Ended
<1>4. ASSUME to \in {"confirmed", "done"} PROVE f \in yes
  <2>1. stage[f] = "confirmed"
    BY <1>1, <1>4 DEF News, Active, Sas, Ended
  <2> QED BY <2>1 DEF Machine
<1> QED BY <1>1, <1>2, <1>3, <1>4

\* Every end that was to be noted down has been, unless a sync is under way.
LEMMA Unheld ==
  ASSUME Noted, ~held
  PROVE  \A f \in owed : /\ f \in Flows /\ stage[f] \in Ended /\ (f \in Foreign => watched)
                         /\ f \in Range(order) \/ Len(order) = MaxFinished
BY DEF Noted

\* A sync: an end it brings is in no log yet, but not dropped either.
LEMMA ProcessMachine ==
  ASSUME MachineInv, Process
  PROVE  MachineInv'
<1>0. Machine /\ Noted /\ Serving /\ ~held
  BY DEF MachineInv, Process, Unlocked
<1>1. /\ held' = TRUE /\ gone' = {f \in Flows : stage[f] \in Ended}
      /\ UNCHANGED <<reached, trusted, watched, order, job, answer, yes, failures>>
  BY DEF Process, log, cmd
<1>2. Serving'
  BY <1>0, <1>1 DEF Serving
<1>3. reached' \subseteq Flows /\ yes' \subseteq Flows
  BY <1>0, <1>1 DEF Machine
<1>4. CASE UNCHANGED <<stage, mac, owed>>
  <2>1. Machine'
    BY <1>0, <1>1, <1>4 DEF Machine
  <2>2. Noted'
    BY <1>0, <1>1, <1>4, Unheld DEF Noted
  <2> QED BY <1>2, <2>1, <2>2 DEF MachineInv
<1>5. ASSUME NEW f \in Flows, NEW to, Receive(f, to), owed' = Owed(f, to)
      PROVE  MachineInv'
  <2>1. /\ stage[f] \notin Ended /\ to \in Active \cup Ended
        /\ to \in {"confirmed", "done"} => f \in yes
        /\ stage' = [stage EXCEPT ![f] = to]
        /\ mac' \subseteq Flows
    BY <1>0, <1>5, ReceiveMoves
  <2>2. Machine' /\ Lasting
    BY <1>0, <1>1, <1>3, <2>1, MachineMove
  <2>3. Range(order') \subseteq {g \in Flows : stage'[g] \in Ended} /\ GoodLog(order')
    BY <1>0, <1>1, <2>2 DEF Noted, Lasting
  <2>4. ASSUME NEW g \in owed'
        PROVE  /\ g \in Flows /\ stage'[g] \in Ended /\ (g \in Foreign => watched')
               /\ g \in Range(order') \/ Len(order') = MaxFinished \/ (held' /\ g \notin gone')
    <3>1. CASE g \in owed
      BY <1>0, <1>1, <2>2, <3>1, Unheld DEF Lasting
    <3>2. CASE g \notin owed
      <4>1. g = f /\ to \in Ended /\ (f \in Foreign => watched)
        BY <1>5, <2>4, <3>2 DEF Owed
      <4>2. stage'[f] = to /\ f \notin gone'
        BY <1>0, <1>1, <2>1 DEF Machine
      <4> QED BY <1>1, <4>1, <4>2
    <3> QED BY <3>1, <3>2
  <2>5. Noted'
    BY <1>0, <1>1, <2>3, <2>4 DEF Noted
  <2> QED BY <1>2, <2>2, <2>5 DEF MachineInv
<1> QED BY <1>4, <1>5 DEF Process

\* The lock is given back: every end has been noted down.
LEMMA RecordMachine ==
  ASSUME MachineInv, Record
  PROVE  MachineInv'
<1>0. /\ Machine /\ Noted /\ Serving /\ RecordFinished /\ held' = FALSE
      /\ UNCHANGED <<stage, gone, mac, reached, owed, watched, trusted, job, answer, yes,
                     failures>>
  BY DEF MachineInv, Record, olm, cmd
<1>1. Machine' /\ Lasting
  BY <1>0, MachineSame DEF Machine
<1>2. Serving'
  BY <1>0 DEF Serving
<1>3. /\ GoodLog(order') /\ Keeps(order, order')
      /\ Range(order') \subseteq Range(order) \cup Found
      /\ Len(order') = MaxFinished \/ Found \subseteq Range(order')
  BY <1>0, Recorded DEF Noted
<1>4. Range(order') \subseteq {g \in Flows : stage'[g] \in Ended}
  BY <1>0, <1>3 DEF Noted, Found
<1>5. ASSUME NEW g \in owed'
      PROVE  /\ g \in Flows /\ stage'[g] \in Ended /\ (g \in Foreign => watched')
             /\ g \in Range(order') \/ Len(order') = MaxFinished
  <2>1. /\ g \in Flows /\ stage'[g] \in Ended /\ (g \in Foreign => watched')
        /\ g \in Range(order) \/ Len(order) = MaxFinished \/ g \notin gone
    BY <1>0, <1>5 DEF Noted
  <2>2. /\ Len(order) \in Nat /\ Len(order') \in Nat /\ MaxFinished \in Nat
        /\ Len(order') <= MaxFinished /\ Len(order) <= Len(order')
    BY <1>0, <1>3, SizesAssumption DEF GoodLog, Noted, Keeps
  <2>3. CASE g \in Range(order)
    BY <1>3, <2>1, <2>3 DEF Keeps
  <2>4. CASE Len(order) = MaxFinished
    BY <2>1, <2>2, <2>4
  <2>5. CASE g \notin gone
    <3>1. g \in Found
      BY <1>0, <2>1, <2>5 DEF Found, Looked
    <3> QED BY <1>3, <2>1, <3>1
  <2> QED BY <2>1, <2>3, <2>4, <2>5
<1>6. Noted'
  BY <1>0, <1>3, <1>4, <1>5 DEF Noted
<1> QED BY <1>1, <1>2, <1>6 DEF MachineInv

\* One more failure is still within the bound.
LEMMA FailureCounts ==
  ASSUME Serving, failures < MaxFailures, failures' = failures + 1
  PROVE  failures' \in 0..MaxFailures
<1>1. failures \in 0..MaxFailures
  BY DEF Serving
<1>2. MaxFailures \in Nat
  BY SizesAssumption
<1> QED BY <1>1, <1>2

\* A sync that is cut short records nothing.
LEMMA CutMachine ==
  ASSUME MachineInv, Cut
  PROVE  MachineInv'
<1>0. /\ Machine /\ Noted /\ Serving /\ held' = FALSE
      /\ failures < MaxFailures /\ failures' = failures + 1
      /\ owed' = owed \cap (Range(order) \cup gone)
      /\ UNCHANGED <<stage, gone, mac, reached, watched, order, trusted, job, answer, yes>>
  BY DEF MachineInv, Cut, log, cmd
<1>1. Machine'
  BY <1>0 DEF Machine
<1>2. Serving'
  BY <1>0, FailureCounts DEF Serving
<1>3. Noted'
  BY <1>0 DEF Noted
<1> QED BY <1>1, <1>2, <1>3 DEF MachineInv

\* Room events
LEMMA RoomsMachine ==
  ASSUME MachineInv, Rooms
  PROVE  MachineInv'
<1>0. /\ Machine /\ Noted /\ Serving
      /\ UNCHANGED <<gone, reached, owed, held, trusted, watched, order, job, answer, yes,
                     failures>>
  BY DEF MachineInv, Rooms, log, cmd
<1>1. PICK f \in InRoom, to \in Active \cup Ended : Receive(f, to)
  BY DEF Rooms
<1>2. f \in Flows
  BY <1>1, FlowsAssumption
<1>3. /\ stage[f] \notin Ended
      /\ to \in {"confirmed", "done"} => f \in yes
      /\ stage' = [stage EXCEPT ![f] = to]
      /\ mac' \subseteq Flows
  BY <1>0, <1>1, <1>2, ReceiveMoves
<1>4. Machine' /\ Lasting
  <2>1. reached' \subseteq Flows /\ yes' \subseteq Flows
    BY <1>0 DEF Machine
  <2> QED BY <1>0, <1>1, <1>2, <1>3, <2>1, MachineMove
<1>5. Noted'
  <2>1. stage' \in [Flows -> Stages] /\ watched' \in BOOLEAN /\ (watched => watched')
    BY <1>0, <1>4 DEF Machine, Noted
  <2> QED BY <1>0, <1>4, <2>1, NotedFrame
<1>6. Serving'
  BY <1>0 DEF Serving
<1> QED BY <1>4, <1>5, <1>6 DEF MachineInv

\* The store
LEMMA TrustMachine ==
  ASSUME MachineInv, NEW f \in Flows, Trust(f)
  PROVE  MachineInv'
<1>0. /\ Machine /\ Noted /\ Serving /\ stage[f] = "done" /\ trusted' = trusted \cup {f}
      /\ UNCHANGED <<stage, gone, mac, reached, owed, watched, order, held, job, answer, yes,
                     failures>>
  BY DEF MachineInv, Trust, olm, log, cmd
<1>1. Machine'
  BY <1>0 DEF Machine
<1>2. Noted' /\ Serving'
  BY <1>0 DEF Noted, Serving
<1> QED BY <1>1, <1>2 DEF MachineInv

\* The parts of a command after its first
LEMMA WorkingMachine ==
  ASSUME MachineInv, NEW a \in Admins, Working(a)
  PROVE  MachineInv'
<1>0. Machine /\ Noted /\ Serving /\ watched \in BOOLEAN
  BY DEF MachineInv, Noted
<1>1. CASE Unpause(a)
  BY <1>1, UnpauseMachine
<1>2. CASE Send(a)
  <2>1. /\ job[a].flow \in Flows /\ job[a].op \in Plain \cup Paused
        /\ reached' = reached \cup {job[a].flow} /\ Goes(a, "tell", job[a].op, job[a].flow)
        /\ UNCHANGED <<stage, gone, mac, owed, trusted, watched, order, held, answer, yes,
                       failures>>
    BY <1>0, <1>2, JobParts DEF Send, log
  <2>2. Serving'
    BY <1>0, <2>1, ServeGoes
  <2>3. reached' \subseteq Flows
    BY <1>0, <2>1 DEF Machine
  <2> QED BY <1>0, <2>1, <2>2, <2>3, StillMachine
<1>3. CASE SendFails(a)
  <2>1. /\ Reply(a, "error") /\ failures < MaxFailures /\ failures' = failures + 1
        /\ UNCHANGED <<stage, gone, mac, reached, owed, trusted, watched, order, held, yes>>
    BY <1>3 DEF SendFails, olm, log
  <2>2. failures' \in 0..MaxFailures
    BY <1>0, <2>1, FailureCounts
  <2>3. Serving' /\ reached' \subseteq Flows
    BY <1>0, <2>1, <2>2, ServeReply DEF Machine
  <2> QED BY <1>0, <2>1, <2>3, StillMachine
<1>4. CASE Tell(a)
  <2>1. /\ job[a].flow \in Flows /\ job[a].op \in Plain \cup Paused
        /\ UNCHANGED <<stage, gone, mac, reached, owed, trusted, held, yes, failures>>
        /\ reached' \subseteq Flows
    BY <1>0, <1>4, JobParts DEF Tell, olm, Machine
  <2>2. CASE Reply(a, stage[job[a].flow]) /\ UNCHANGED log
    <3>1. stage[job[a].flow] \in {"none", "done, not seen", "error"} \cup Active \cup Ended
      BY <1>0, <2>1 DEF Machine, Stages
    <3>2. Serving' /\ UNCHANGED <<watched, order>>
      BY <1>0, <2>1, <2>2, <3>1, ServeReply DEF Serving, log
    <3> QED BY <1>0, <2>1, <3>2, StillMachine
  <2>3. CASE Show(a, job[a].op, job[a].flow)
    <3>1. Serving'
      BY <1>0, <2>1, <2>3, ShowServes
    <3>2. watched' \in BOOLEAN /\ (watched => watched') /\ RecordFinished
      BY <1>0, <2>3, WatchGrows DEF Show
    <3> QED BY <2>1, <3>1, <3>2, StillMachine
  <2> QED BY <1>4, <2>2, <2>3 DEF Tell
<1>5. CASE Settled(a)
  <2> DEFINE word == IF job[a].flow \in trusted THEN "done" ELSE "done, not seen"
  <2>1. /\ Reply(a, word)
        /\ UNCHANGED <<stage, gone, mac, reached, owed, trusted, watched, order, held, yes,
                       failures>>
    BY <1>5 DEF Settled, olm, log
  <2>2. word \in {"none", "done, not seen", "error"} \cup Active \cup Ended
    BY DEF Ended
  <2>3. Serving' /\ reached' \subseteq Flows
    BY <1>0, <2>1, <2>2, ServeReply DEF Serving, Machine
  <2> QED BY <1>0, <2>1, <2>3, StillMachine
<1> QED BY <1>1, <1>2, <1>3, <1>4, <1>5 DEF Working

-----------------------------------------------------------------------------
(* Types, and how flows ended *)

\* The types of `ctl verify'.
Screen == ui \in Places /\ mine \subseteq Flows /\ late \in BOOLEAN

\* Nothing has begun.
LEMMA InitMachine ==
  ASSUME Init
  PROVE  MachineInv /\ Screen
<1>1. "none" \in Stages /\ "none" \notin Ended /\ "none" \notin {"confirmed", "done"}
  BY DEF Stages, Ended
<1>2. Machine
  BY <1>1 DEF Init, Machine
<1>3. GoodLog(<<>>) /\ Range(<<>>) = {}
  <2>1. <<>> \in Seq(Flows) /\ Len(<<>>) = 0 /\ DOMAIN <<>> = {} /\ MaxFinished \in Nat
    BY SizesAssumption
  <2> QED BY <2>1 DEF GoodLog, Range, IsInjective
<1>4. Noted
  BY <1>3 DEF Init, Noted
<1>5. Serving
  <2>1. 0 \in 0..MaxFailures
    BY SizesAssumption
  <2>2. NoJob \in Jobs
    BY DEF Jobs
  <2> QED BY <2>1, <2>2 DEF Init, Serving
<1>6. Screen
  BY DEF Init, Screen, Places
<1> QED BY <1>2, <1>4, <1>5, <1>6 DEF MachineInv

\* Nothing but what an administrator sees changes.
LEMMA SameMachine ==
  ASSUME MachineInv, UNCHANGED <<olm, trusted, log, held, cmd, yes, failures>>
  PROVE  MachineInv'
<1>1. UNCHANGED <<stage, gone, mac, reached, owed, trusted, watched, order, held, job, answer,
                  yes, failures>>
  BY DEF olm, log, cmd
<1>2. Machine' /\ Serving'
  BY <1>1 DEF MachineInv, Machine, Serving
<1>3. Noted'
  BY <1>1 DEF MachineInv, Noted
<1> QED BY <1>2, <1>3 DEF MachineInv

\* The other admin clients
LEMMA OthersMachine ==
  ASSUME MachineInv, Others
  PROVE  MachineInv'
<1>1. PICK a \in Admins \ {Cli} :
        \/ \E f \in Flows : "start" \in Commands /\ Start(a, f)
        \/ \E f \in Flows, op \in Commands \cap (Plain \ {"start"}), s \in BOOLEAN :
             Plainly(a, op, f, s)
        \/ \E f \in Flows, op \in Commands \cap Paused : Ask(a, op, f)
  BY DEF Others
<1>2. CASE \E f \in Flows : "start" \in Commands /\ Start(a, f)
  BY <1>2, StartMachine
<1>3. CASE \E f \in Flows, op \in Commands \cap (Plain \ {"start"}), s \in BOOLEAN :
             Plainly(a, op, f, s)
  BY <1>3, PlainMachine
<1>4. CASE \E f \in Flows, op \in Commands \cap Paused : Ask(a, op, f)
  BY <1>4, AskMachine
<1> QED BY <1>1, <1>2, <1>3, <1>4

\* ctl verify
LEMMA CliMachine ==
  ASSUME MachineInv, Screen, CtlVerify
  PROVE  MachineInv'
<1>0. Cli \in Admins /\ mine \subseteq Flows
  BY AdminsAssumption DEF Screen
<1>1. CASE RunStart
  BY <1>0, <1>1, StartMachine DEF RunStart
<1>2. CASE RunWait
  BY <1>2, SameMachine DEF RunWait
<1>3. CASE List
  <2>1. /\ UNCHANGED <<stage, gone, mac, reached, owed, trusted, held, job, answer, yes,
                       failures>>
        /\ watched' = (watched \/ mine \subseteq Foreign) /\ RecordFinished
    BY <1>3 DEF List, olm, cmd
  <2>2. Serving' /\ reached' \subseteq Flows /\ watched' \in BOOLEAN /\ (watched => watched')
    BY <2>1 DEF MachineInv, Serving, Machine, Noted
  <2> QED BY <2>1, <2>2, StillMachine
<1>4. CASE Poll
  <2>1. "advance" \in Plain
    BY DEF Plain
  <2>2. \E f \in Flows, s \in BOOLEAN : Plainly(Cli, "advance", f, s)
    BY <1>0, <1>4 DEF Poll
  <2> QED BY <1>0, <2>1, <2>2, PlainMachine
<1>5. CASE Read
  BY <1>5, SameMachine DEF Read
<1>6. CASE GiveUp \/ UserAnswers
  <2>1. \E f \in Flows, op \in Paused : Ask(Cli, op, f)
    BY <1>0, <1>6 DEF GiveUp, UserAnswers, Paused
  <2> QED BY <1>0, <2>1, AskMachine
<1>7. CASE AfterCommand
  BY <1>7, SameMachine DEF AfterCommand
<1> QED BY <1>1, <1>2, <1>3, <1>4, <1>5, <1>6, <1>7 DEF CtlVerify

\* Every step keeps it.
LEMMA NextMachine ==
  ASSUME MachineInv, Screen, [Next]_vars
  PROVE  MachineInv'
<1>1. CASE Process
  BY <1>1, ProcessMachine
<1>2. CASE Record
  BY <1>2, RecordMachine
<1>3. CASE Cut
  BY <1>3, CutMachine
<1>4. CASE Rooms
  BY <1>4, RoomsMachine
<1>5. ASSUME NEW f \in Flows, Trust(f)
      PROVE  MachineInv'
  BY <1>5, TrustMachine
<1>6. ASSUME NEW a \in Admins, Working(a)
      PROVE  MachineInv'
  BY <1>6, WorkingMachine
<1>7. CASE Others
  BY <1>7, OthersMachine
<1>8. CASE CtlVerify
  BY <1>8, CliMachine
<1>9. CASE Deadline
  BY <1>9, SameMachine DEF Deadline
<1>10. CASE UNCHANGED vars
  BY <1>10, SameMachine DEF vars
<1> QED BY <1>1, <1>2, <1>3, <1>4, <1>5, <1>6, <1>7, <1>8, <1>9, <1>10 DEF Next

\* Every step leaves `ctl verify' at one of its places.
LEMMA NextScreen ==
  ASSUME Screen, [Next]_vars
  PROVE  Screen'
<1>1. CASE CtlVerify
  <2>1. CASE RunStart
    BY <2>1, OursAssumption DEF RunStart, Start, Screen, Places, Waiting
  <2>2. CASE RunWait
    BY <2>2, FlowsAssumption DEF RunWait, Screen, Places
  <2>3. CASE List
    BY <2>3 DEF List, Screen, Places, Over, cli
  <2>4. CASE Poll
    BY <2>4 DEF Poll, Plainly, Go, Screen, Places, Waiting
  <2>5. CASE Read
    BY <2>5 DEF Read, Over, Go, Screen, Places, Waiting
  <2>6. CASE GiveUp
    BY <2>6 DEF GiveUp, Ask, Go, Screen, Places, Waiting
  <2>7. CASE UserAnswers
    BY <2>7 DEF UserAnswers, Ask, Go, Screen, Places, Waiting
  <2>8. CASE AfterCommand
    BY <2>8 DEF AfterCommand, Go, Over, Screen, Places, Waiting
  <2> QED BY <1>1, <2>1, <2>2, <2>3, <2>4, <2>5, <2>6, <2>7, <2>8 DEF CtlVerify
<1>2. CASE ui' = ui /\ mine' = mine /\ late' \in BOOLEAN
  BY <1>2 DEF Screen
<1>3. CASE Process \/ Record \/ Cut \/ Rooms \/ (\E f \in Flows : Trust(f)) \/ UNCHANGED vars
  BY <1>2, <1>3 DEF Process, Record, Cut, Rooms, Trust, vars, cli, Screen
<1>4. CASE \E a \in Admins : Working(a) /\ UNCHANGED cli
  <2>1. UNCHANGED <<ui, mine, late>>
    BY <1>4 DEF Working, Unpause, Send, SendFails, Tell, Settled, cli
  <2> QED BY <1>2, <2>1 DEF Screen
<1>5. CASE Others
  <2>1. UNCHANGED <<ui, mine, late>>
    BY <1>5 DEF Others, Start, Plainly, Ask, cli
  <2> QED BY <1>2, <2>1 DEF Screen
<1>6. CASE Deadline
  BY <1>6 DEF Deadline, cli, Screen
<1> QED BY <1>1, <1>3, <1>4, <1>5, <1>6 DEF Next

\* It is inductive by itself.
LEMMA MachineInvariant == Spec => [](MachineInv /\ Screen)
<1>1. Init => MachineInv /\ Screen
  BY InitMachine
<1>2. MachineInv /\ Screen /\ [Next]_vars => (MachineInv /\ Screen)'
  BY NextMachine, NextScreen
<1> QED BY <1>1, <1>2, PTL DEF Spec

\* TypeOK: every variable has its type, whatever the numbers of flows and clients;
\* VerificationLog (verify.rs, record) keeps at most MaxFinished flows, each once.
THEOREM TypeCorrect == Spec => []TypeOK
<1>1. MachineInv /\ Screen => TypeOK
  BY DEF MachineInv, Machine, Noted, Serving, Screen, GoodLog, TypeOK, Stages
<1> QED BY <1>1, MachineInvariant, PTL

\* EndedIsRemembered: a flow the OlmMachine has dropped is in the log, or the log
\* is full.  (A sync records the ends it brought before it gives the lock back; a
\* flow it has not recorded yet can only be dropped by another sync.)
THEOREM EndsAreRemembered == Spec => []EndedIsRemembered
<1>1. MachineInv => EndedIsRemembered
  BY DEF MachineInv, Noted, EndedIsRemembered
<1> QED BY <1>1, MachineInvariant, PTL

-----------------------------------------------------------------------------
(* Who takes a step, and where it may take a flow *)

\* A step that is none of `ctl verify' and of its command.
Elsewhere == job'[Cli] = job[Cli] /\ UNCHANGED <<cli, answer>>

\* Compared flows go on only when a user confirms.
Confirming == \E a \in Admins : job[a].at = "pause" /\ job[a].op = "confirm"

\* How a step may change the stages.
StageStep ==
  \/ UNCHANGED stage
  \/ \E f \in Flows, to \in Stages :
       /\ stage' = [stage EXCEPT ![f] = to] /\ stage[f] \notin Ended
       /\ stage[f] = "compare" => to \in {"compare", "cancelled"} \/ Confirming

\* The commands of other clients leave `ctl verify' and its command alone.
LEMMA PlainElsewhere ==
  ASSUME Serving, NEW a \in Admins \ {Cli}, NEW op, NEW f, NEW s, Plainly(a, op, f, s),
         UNCHANGED cli
  PROVE  Elsewhere
<1>0. Cli \in Admins /\ a # Cli /\ job \in [Admins -> Jobs]
  BY AdminsAssumption DEF Serving
<1>1. ASSUME NEW place, Goes(a, place, op, f), answer' = answer
      PROVE  Elsewhere
  BY <1>0, <1>1 DEF Goes, Elsewhere
<1>2. ASSUME NEW word, Reply(a, word)
      PROVE  Elsewhere
  BY <1>0, <1>2 DEF Reply, Elsewhere
<1>3. ASSUME Show(a, op, f) PROVE Elsewhere
  BY <1>1, <1>2, <1>3 DEF Show
<1>4. ASSUME NEW to, Step(a, op, f, to) PROVE Elsewhere
  BY <1>1, <1>4 DEF Step
<1> QED BY <1>2, <1>3, <1>4 DEF Plainly

\* So does whatever else they ask for,
LEMMA OthersElsewhere ==
  ASSUME Serving, Others
  PROVE  Elsewhere
<1>0. Cli \in Admins /\ job \in [Admins -> Jobs]
  BY AdminsAssumption DEF Serving
<1>1. PICK a \in Admins \ {Cli} :
        \/ \E f \in Flows : "start" \in Commands /\ Start(a, f)
        \/ \E f \in Flows, op \in Commands \cap (Plain \ {"start"}), s \in BOOLEAN :
             Plainly(a, op, f, s)
        \/ \E f \in Flows, op \in Commands \cap Paused : Ask(a, op, f)
  BY DEF Others
<1>2. UNCHANGED cli /\ a # Cli
  BY DEF Others
<1>3. CASE \E f \in Flows : "start" \in Commands /\ Start(a, f)
  BY <1>0, <1>2, <1>3 DEF Start, Step, Goes, Elsewhere
<1>4. CASE \E f \in Flows, op \in Commands \cap (Plain \ {"start"}), s \in BOOLEAN :
             Plainly(a, op, f, s)
  BY <1>2, <1>4, PlainElsewhere
<1>5. CASE \E f \in Flows, op \in Commands \cap Paused : Ask(a, op, f)
  BY <1>0, <1>2, <1>5 DEF Ask, Goes, Reply, Elsewhere
<1> QED BY <1>1, <1>3, <1>4, <1>5

\* and what becomes of it.
LEMMA WorkingElsewhere ==
  ASSUME Serving, NEW a \in Admins \ {Cli}, Working(a), UNCHANGED cli
  PROVE  Elsewhere
<1>0. Cli \in Admins /\ a # Cli /\ job \in [Admins -> Jobs]
  BY AdminsAssumption DEF Serving
<1>1. ASSUME NEW place, NEW op, NEW f, Goes(a, place, op, f), answer' = answer
      PROVE  Elsewhere
  BY <1>0, <1>1 DEF Goes, Elsewhere
<1>2. ASSUME NEW word, Reply(a, word)
      PROVE  Elsewhere
  BY <1>0, <1>2 DEF Reply, Elsewhere
<1>3. CASE Unpause(a)
  BY <1>1, <1>3 DEF Unpause
<1>4. CASE Send(a)
  BY <1>1, <1>4 DEF Send
<1>5. CASE SendFails(a)
  BY <1>2, <1>5 DEF SendFails
<1>6. CASE Tell(a)
  BY <1>1, <1>2, <1>6 DEF Tell, Show
<1>7. CASE Settled(a)
  BY <1>2, <1>7 DEF Settled
<1> QED BY <1>3, <1>4, <1>5, <1>6, <1>7 DEF Working

\* A step is that of others, of the command of `ctl verify', or its own.
LEMMA Turns ==
  ASSUME Serving, [Next]_vars
  PROVE  Elsewhere \/ (Working(Cli) /\ UNCHANGED cli) \/ CtlVerify
<1>1. CASE Process \/ Record \/ Cut \/ Rooms \/ (\E f \in Flows : Trust(f)) \/ Deadline
           \/ UNCHANGED vars
  BY <1>1 DEF Process, Record, Cut, Rooms, Trust, Deadline, vars, cmd, Elsewhere
<1>2. CASE \E a \in Admins : Working(a) /\ UNCHANGED cli
  BY <1>2, WorkingElsewhere
<1>3. CASE Others
  BY <1>3, OthersElsewhere
<1> QED BY <1>1, <1>2, <1>3 DEF Next

\* The peer
LEMMA NewsSteps ==
  ASSUME Machine, NEW f \in Flows, NEW to, Receive(f, to)
  PROVE  StageStep
<1>1. /\ stage[f] \notin Ended /\ to \in Stages /\ stage' = [stage EXCEPT ![f] = to]
  BY ReceiveMoves DEF Stages
<1>2. stage[f] = "compare" => to \in {"compare", "cancelled"}
  BY DEF Receive, News
<1> QED BY <1>1, <1>2 DEF StageStep

\* Commands that need no human
LEMMA CommandSteps ==
  ASSUME NEW a \in Admins, NEW f \in Flows, NEW op, NEW s, Plainly(a, op, f, s) \/ Start(a, f)
  PROVE  StageStep
<1>1. ASSUME NEW to \in {"outgoing", "ready", "key_exchange"},
             Step(a, op, f, to) \/ Step(a, "start", f, to),
             stage[f] \notin Ended, stage[f] # "compare"
      PROVE  StageStep
  <2>1. to \in Stages
    BY DEF Stages, Active, Sas
  <2> QED BY <1>1, <2>1 DEF Step, StageStep
<1>2. CASE Start(a, f)
  BY <1>1, <1>2 DEF Start, Ended
<1>3. ASSUME NEW to \in Moves(op, f, s), Step(a, op, f, to)
      PROVE  StageStep
  BY <1>1, <1>3 DEF Moves, Ended
<1>4. ASSUME UNCHANGED olm PROVE StageStep
  BY <1>4 DEF olm, StageStep
<1> QED BY <1>2, <1>3, <1>4 DEF Plainly

\* The parts of a command after its first
LEMMA WorkingSteps ==
  ASSUME MachineInv, NEW a \in Admins, Working(a)
  PROVE  StageStep
<1>0. Machine /\ Serving
  BY DEF MachineInv
<1>1. CASE Unpause(a)
  <2> DEFINE f == job[a].flow
             op == job[a].op
  <2>1. f \in Flows /\ job[a].at = "pause"
    BY <1>0, <1>1, JobParts DEF Unpause
  <2>2. PICK to \in Outcomes(op, f) : stage' = [stage EXCEPT ![f] = to]
    BY <1>1 DEF Unpause
  <2>3. CASE to = stage[f]
    BY <1>0, <2>1, <2>2, <2>3 DEF Machine, StageStep
  <2>4. CASE to # stage[f]
    <3>1. /\ stage[f] \in Active /\ to \in {"confirmed", "done", "cancelled"}
          /\ to = "cancelled" \/ op = "confirm"
      BY <2>4 DEF Outcomes, Active, Sas
    <3>2. stage[f] \notin Ended /\ to \in Stages
      BY <3>1 DEF Active, Sas, Ended, Stages
    <3>3. op = "confirm" => Confirming
      BY <2>1 DEF Confirming
    <3> HIDE DEF f, op
    <3> QED BY <2>1, <2>2, <3>1, <3>2, <3>3 DEF StageStep
  <2> QED BY <2>3, <2>4
<1>2. CASE UNCHANGED stage
  BY <1>2 DEF StageStep
<1> QED BY <1>1, <1>2 DEF Working, Send, SendFails, Tell, Settled, olm

\* A flow that has ended stays as it is, a trusted device is trusted, and one
\* that is being compared goes on only when a user confirms.
LEMMA Steps ==
  ASSUME MachineInv, Screen, [Next]_vars
  PROVE  StageStep /\ trusted \subseteq trusted'
<1>0. Machine /\ Serving /\ Cli \in Admins /\ mine \subseteq Flows
  BY AdminsAssumption DEF MachineInv, Screen
<1>1. CASE Process
  <2>1. UNCHANGED stage \/ \E f \in Flows, to \in Active \cup Ended : Receive(f, to)
    BY <1>1 DEF Process
  <2>2. UNCHANGED stage => StageStep
    BY DEF StageStep
  <2>3. StageStep
    BY <1>0, <2>1, <2>2, NewsSteps
  <2> QED BY <1>1, <2>3 DEF Process
<1>2. CASE Rooms
  <2>1. PICK f \in InRoom, to \in Active \cup Ended : Receive(f, to)
    BY <1>2 DEF Rooms
  <2>2. StageStep
    BY <1>0, <2>1, NewsSteps, FlowsAssumption
  <2> QED BY <1>2, <2>2 DEF Rooms
<1>3. CASE Record \/ Cut \/ Deadline \/ UNCHANGED vars \/ \E f \in Flows : Trust(f)
  BY <1>3 DEF Record, Cut, Deadline, Trust, vars, olm, StageStep
<1>4. ASSUME NEW a \in Admins, Working(a)
      PROVE  StageStep /\ trusted \subseteq trusted'
  <2>1. trusted' = trusted
    BY <1>4 DEF Working, Unpause, Send, SendFails, Tell, Settled
  <2> QED BY <1>4, <2>1, WorkingSteps
<1>5. ASSUME NEW a \in Admins, NEW op, NEW f \in Flows, NEW s, Plainly(a, op, f, s) \/ Start(a, f)
      PROVE  StageStep /\ trusted \subseteq trusted'
  <2>1. trusted' = trusted
    BY <1>5 DEF Plainly, Start
  <2> QED BY <1>5, <2>1, CommandSteps
<1>6. ASSUME NEW a, NEW op, NEW f, Ask(a, op, f)
      PROVE  StageStep /\ trusted \subseteq trusted'
  BY <1>6 DEF Ask, olm, StageStep
<1>7. CASE Others
  BY <1>5, <1>6, <1>7 DEF Others
<1>8. CASE CtlVerify
  <2>1. CASE RunStart
    BY <1>0, <1>5, <2>1, OursAssumption DEF RunStart
  <2>2. CASE Poll
    BY <1>0, <1>5, <2>2 DEF Poll
  <2>3. CASE GiveUp \/ UserAnswers
    BY <1>6, <2>3 DEF GiveUp, UserAnswers
  <2>4. CASE RunWait \/ List \/ Read \/ AfterCommand
    BY <2>4 DEF RunWait, List, Read, AfterCommand, olm, StageStep
  <2> QED BY <1>8, <2>1, <2>2, <2>3, <2>4 DEF CtlVerify
<1> QED BY <1>1, <1>2, <1>3, <1>4, <1>7, <1>8 DEF Next

-----------------------------------------------------------------------------
(* What `ctl verify' reports *)

\* Once it has a flow, `ctl verify' has that one only.
OneFlow == ui \notin {"off", "listing", "over"} => \E f \in Flows : mine = {f}

\* It reports once, at its end.
Unsaid == verdict # "none" => ui = "over"

\* The command of `ctl verify' is about its flow.
Own(op) == job[Cli] # NoJob => job[Cli].op = op /\ job[Cli].flow \in mine

\* What advance has returned is still so when `ctl verify' reads it.
Advances ==
  ui = "advancing" =>
    /\ Own("advance") /\ job[Cli].at # "pause"
    /\ Idle(Cli) => \A f \in mine : /\ answer = "cancelled" => stage[f] = "cancelled"
                                    /\ answer = "done" => f \in trusted

\* What it has reported is still so.
Reported ==
  \A f \in mine : /\ verdict = "cancelled" => stage[f] = "cancelled"
                  /\ verdict = "done" => f \in trusted

\* What holds between the flow, its command and what is reported.
AnswerInv == OneFlow /\ Unsaid /\ Advances /\ Reported

\* The invariant of all variables.
StateInv == MachineInv /\ Screen

\* Whoever takes a step, an end stays and so does a trusted device.
LEMMA Stays ==
  ASSUME StateInv, [Next]_vars
  PROVE  /\ \A f \in Flows : stage[f] \in Ended => stage'[f] = stage[f]
         /\ trusted \subseteq trusted'
<1>1. StageStep /\ trusted \subseteq trusted'
  BY Steps DEF StateInv
<1>2. ASSUME NEW f \in Flows, stage[f] \in Ended
      PROVE  stage'[f] = stage[f]
  BY <1>1, <1>2 DEF StageStep, StateInv, MachineInv, Machine
<1> QED BY <1>1, <1>2

\* A report stays true.
LEMMA ReportedStays ==
  ASSUME StateInv, Reported, [Next]_vars, mine' = mine, verdict' = verdict
  PROVE  Reported'
<1>1. \A f \in mine : f \in Flows
  BY DEF StateInv, Screen
<1>2. "cancelled" \in Ended
  BY DEF Ended
<1> QED BY <1>1, <1>2, Stays DEF Reported

\* A step of others
LEMMA AnswerElsewhere ==
  ASSUME StateInv, AnswerInv, [Next]_vars, Elsewhere
  PROVE  AnswerInv'
<1>1. UNCHANGED <<ui, mine, verdict, answer>> /\ job'[Cli] = job[Cli]
  BY DEF Elsewhere, cli
<1>2. OneFlow' /\ Unsaid'
  BY <1>1 DEF AnswerInv, OneFlow, Unsaid
<1>3. Reported'
  BY <1>1, ReportedStays DEF AnswerInv
<1>4. Advances'
  <2>1. \A f \in mine : f \in Flows
    BY DEF StateInv, Screen
  <2>2. "cancelled" \in Ended
    BY DEF Ended
  <2> QED BY <1>1, <2>1, <2>2, Stays DEF AnswerInv, Advances, Own, Idle
<1> QED BY <1>2, <1>3, <1>4 DEF AnswerInv

\* What show tells of a flow is so.
LEMMA ShowAnswers ==
  ASSUME Serving, NEW op, NEW f, Show(Cli, op, f)
  PROVE  \/ job'[Cli] = NoJob /\ answer' \notin {"done"} /\ answer' \in {"error", stage[f]}
         \/ job'[Cli] = [at |-> "trust", op |-> op, flow |-> f]
<1>1. Cli \in Admins /\ job \in [Admins -> Jobs]
  BY AdminsAssumption DEF Serving
<1>2. CASE Reply(Cli, "error")
  BY <1>1, <1>2 DEF Reply
<1>3. CASE Goes(Cli, "trust", op, f)
  BY <1>1, <1>3 DEF Goes
<1>4. CASE stage[f] # "done" /\ Reply(Cli, stage[f])
  BY <1>1, <1>4 DEF Reply
<1> QED BY <1>2, <1>3, <1>4 DEF Show

\* The answer of advance, when it comes.
Answered ==
  \/ job'[Cli] # NoJob /\ job'[Cli].at # "pause"
     /\ job'[Cli].op = "advance" /\ job'[Cli].flow \in mine
  \/ job'[Cli] = NoJob /\ \A f \in mine : /\ answer' = "cancelled" => stage'[f] = "cancelled"
                                          /\ answer' = "done" => f \in trusted'
                                          /\ answer' = "compare" => stage'[f] = "compare"

\* The command ends, or waits for the store.
LEMMA ShowAnswered ==
  ASSUME Serving, NEW f, mine = {f}, Show(Cli, "advance", f), UNCHANGED olm
  PROVE  Answered
<1>1. stage' = stage
  BY DEF olm
<1>2. CASE job'[Cli] = NoJob /\ answer' \notin {"done"} /\ answer' \in {"error", stage[f]}
  BY <1>1, <1>2 DEF Answered
<1>3. CASE job'[Cli] = [at |-> "trust", op |-> "advance", flow |-> f]
  BY <1>3 DEF Answered, NoJob
<1> QED BY <1>2, <1>3, ShowAnswers

\* The command goes on after its first part.
LEMMA WorkingAnswered ==
  ASSUME Serving, NEW f, mine = {f}, Working(Cli), Own("advance"), job[Cli].at # "pause"
  PROVE  Answered
<1>0. Cli \in Admins /\ job \in [Admins -> Jobs]
  BY AdminsAssumption DEF Serving
<1>1. job[Cli] # NoJob /\ job[Cli].op = "advance" /\ job[Cli].flow = f
  <2>1. job[Cli].at # "idle"
    BY DEF Working, Unpause, Send, SendFails, Tell, Settled
  <2> QED BY <2>1 DEF Own, NoJob
<1>2. CASE Send(Cli)
  <2>1. job'[Cli] = [at |-> "tell", op |-> "advance", flow |-> f]
    BY <1>0, <1>1, <1>2 DEF Send, Goes
  <2> QED BY <2>1 DEF Answered, NoJob
<1>3. CASE SendFails(Cli)
  BY <1>0, <1>3 DEF SendFails, Reply, Answered
<1>4. CASE Tell(Cli)
  <2>1. Show(Cli, "advance", f) /\ UNCHANGED olm
    BY <1>1, <1>4 DEF Tell
  <2> QED BY <2>1, ShowAnswered
<1>5. CASE Settled(Cli)
  <2>1. trusted' = trusted /\ Reply(Cli, IF f \in trusted THEN "done" ELSE "done, not seen")
    BY <1>1, <1>5 DEF Settled
  <2>2. /\ job'[Cli] = NoJob
        /\ answer' \in {"done", "done, not seen"} /\ (answer' = "done" => f \in trusted')
    BY <1>0, <2>1 DEF Reply
  <2> QED BY <2>2 DEF Answered
<1> QED BY <1>2, <1>3, <1>4, <1>5 DEF Working, Unpause

\* The command begins.
LEMMA PollAnswered ==
  ASSUME Serving, NEW f, mine = {f}, NEW s, Plainly(Cli, "advance", f, s)
  PROVE  Answered
<1>0. Cli \in Admins /\ job \in [Admins -> Jobs]
  BY AdminsAssumption DEF Serving
<1>1. CASE \E to \in Moves("advance", f, s) : Step(Cli, "advance", f, to)
  <2>1. job'[Cli] = [at |-> "send", op |-> "advance", flow |-> f]
    BY <1>0, <1>1 DEF Step, Goes
  <2> QED BY <2>1 DEF Answered, NoJob
<1>2. CASE UNCHANGED olm /\ Show(Cli, "advance", f)
  BY <1>2, ShowAnswered
<1> QED BY <1>1, <1>2 DEF Plainly

\* That is what `ctl verify' reads.
LEMMA AnsweredAdvances ==
  ASSUME Answered, mine' = mine
  PROVE  Advances'
BY DEF Answered, Advances, Own, Idle, NoJob

\* A step of its command
LEMMA AnswerWorking ==
  ASSUME StateInv, AnswerInv, [Next]_vars, Working(Cli), UNCHANGED cli
  PROVE  AnswerInv'
<1>1. UNCHANGED <<ui, mine, verdict>> /\ Serving
  BY DEF cli, StateInv, MachineInv
<1>2. OneFlow' /\ Unsaid'
  BY <1>1 DEF AnswerInv, OneFlow, Unsaid
<1>3. Reported'
  BY <1>1, ReportedStays DEF AnswerInv
<1>4. Advances'
  <2>1. CASE ui = "advancing"
    <3>1. Own("advance") /\ job[Cli].at # "pause"
      BY <2>1 DEF AnswerInv, Advances
    <3>2. \E f \in Flows : mine = {f}
      BY <2>1 DEF AnswerInv, OneFlow
    <3>3. Answered
      BY <1>1, <3>1, <3>2, WorkingAnswered
    <3> QED BY <1>1, <3>3, AnsweredAdvances
  <2>2. CASE ui # "advancing"
    BY <1>1, <2>2 DEF Advances
  <2> QED BY <2>1, <2>2
<1> QED BY <1>2, <1>3, <1>4 DEF AnswerInv

\* A step of `ctl verify'
LEMMA AnswerCli ==
  ASSUME StateInv, AnswerInv, [Next]_vars, CtlVerify
  PROVE  AnswerInv'
<1>0. Serving /\ mine \subseteq Flows /\ (verdict = "none" \/ ui = "over")
  BY DEF StateInv, MachineInv, Screen, AnswerInv, Unsaid
<1>1. CASE RunStart
  BY <1>0, <1>1, OursAssumption DEF RunStart, OneFlow, Unsaid, Advances, Reported, AnswerInv
<1>2. CASE RunWait
  BY <1>0, <1>2 DEF RunWait, OneFlow, Unsaid, Advances, Reported, AnswerInv
<1>3. CASE List
  <2>1. CASE ui' = "over" /\ verdict' = "nothing came"
    BY <2>1 DEF OneFlow, Unsaid, Advances, Reported, AnswerInv
  <2>2. CASE /\ verdict' = verdict /\ ui' = "polling" /\ ui = "listing"
             /\ \E f \in mine : mine' = {f}
    BY <1>0, <2>2 DEF OneFlow, Unsaid, Advances, Reported, AnswerInv
  <2>3. CASE UNCHANGED cli /\ ui = "listing"
    BY <1>0, <2>3 DEF cli, OneFlow, Unsaid, Advances, Reported, AnswerInv
  <2> QED BY <1>3, <2>1, <2>2, <2>3 DEF List, Over
<1>4. CASE Poll
  <2>1. ui = "polling" /\ ui' = "advancing" /\ UNCHANGED <<mine, verdict>>
    BY <1>4 DEF Poll, Go
  <2>2. PICK f \in Flows : mine = {f}
    BY <2>1 DEF AnswerInv, OneFlow
  <2>3. Answered
    BY <1>0, <1>4, <2>2, PollAnswered DEF Poll
  <2>4. Advances'
    BY <2>1, <2>3, AnsweredAdvances
  <2> QED BY <1>0, <2>1, <2>2, <2>4 DEF OneFlow, Unsaid, Reported, AnswerInv
<1>5. CASE Read
  <2>1. UNCHANGED <<mine, stage, trusted, answer>> /\ ui = "advancing" /\ Idle(Cli)
    BY <1>5 DEF Read, Over, Go, olm, cmd
  <2>2. ui' \in {"over", "asking", "polling"} /\ (ui' = "over" => verdict' = answer)
        /\ (ui' # "over" => verdict' = verdict)
    BY <1>5 DEF Read, Over, Go
  <2>3. Reported'
    BY <1>0, <2>1, <2>2 DEF AnswerInv, Advances, Reported
  <2> QED BY <1>0, <2>1, <2>2, <2>3 DEF OneFlow, Unsaid, Advances, AnswerInv
<1>6. CASE GiveUp \/ UserAnswers
  <2>1. /\ ui \in {"advancing", "asking"} /\ UNCHANGED <<mine, verdict>>
        /\ ui' \in {"timing out", "confirming", "refusing", "abandoning"}
    BY <1>6 DEF GiveUp, UserAnswers, Go
  <2> QED BY <1>0, <2>1 DEF OneFlow, Unsaid, Advances, Reported, AnswerInv
<1>7. CASE AfterCommand
  <2>1. /\ ui \in {"starting", "confirming", "refusing", "abandoning", "timing out"}
        /\ mine' = mine
        /\ \/ ui' = "polling" /\ verdict' = verdict
           \/ ui' = "over" /\ verdict' \notin {"done", "cancelled"}
    BY <1>7 DEF AfterCommand, Go, Over
  <2> QED BY <1>0, <2>1 DEF OneFlow, Unsaid, Advances, Reported, AnswerInv
<1> QED BY <1>1, <1>2, <1>3, <1>4, <1>5, <1>6, <1>7 DEF CtlVerify

\* It is inductive, given the invariant of the flows.
LEMMA AnswerInvariant == Spec => [](StateInv /\ AnswerInv)
<1>1. Init => AnswerInv
  BY DEF Init, AnswerInv, OneFlow, Unsaid, Advances, Reported
<1>2. StateInv /\ AnswerInv /\ [Next]_vars => AnswerInv'
  <2> SUFFICES ASSUME StateInv, AnswerInv, [Next]_vars PROVE AnswerInv'
    OBVIOUS
  <2>1. Elsewhere \/ (Working(Cli) /\ UNCHANGED cli) \/ CtlVerify
    BY Turns DEF StateInv, MachineInv
  <2> QED BY <2>1, AnswerElsewhere, AnswerWorking, AnswerCli
<1>3. Spec => []StateInv
  BY MachineInvariant, PTL DEF StateInv
<1> QED BY <1>1, <1>2, <1>3, PTL DEF Spec

\* What is reported as done or cancelled.
VerdictsStand ==
  \A f \in mine : /\ verdict = "done" => f \in trusted /\ f \in yes
                  /\ verdict = "cancelled" => stage[f] = "cancelled" /\ f \notin trusted

\* What `ctl verify' (admin/verify.rs, run) reports as verified is trusted in the
\* store, and a user has confirmed it; what it reports as cancelled is cancelled and
\* nothing was verified: whatever the other admin clients ask for.
THEOREM VerdictsAreTrue == Spec => []VerdictsStand
<1>1. StateInv /\ AnswerInv => VerdictsStand
  <2>1. "done" # "cancelled"
    OBVIOUS
  <2> QED BY <2>1 DEF StateInv, MachineInv, Machine, Screen, AnswerInv, Reported, VerdictsStand
<1> QED BY <1>1, AnswerInvariant, PTL

-----------------------------------------------------------------------------
(* What it reports as refused *)

\* The only one to confirm is `ctl verify', when its user has said yes.
Confirms == \A a \in Admins : job[a].at = "pause" /\ job[a].op = "confirm"
                                => a = Cli /\ ui = "confirming"

\* The flow is being compared, or refused.
Comparing == \A f \in mine : stage[f] \in {"compare", "cancelled"}
Cancelled == \A f \in mine : stage[f] = "cancelled"

\* A flow whose emoji are shown is still being compared, or cancelled, when the
\* user answers and when mismatch has the lock.
Compares == ui = "advancing" /\ Idle(Cli) /\ answer = "compare" => Comparing
Asks     == ui = "asking" => job[Cli] = NoJob /\ Comparing
Refuses  ==
  ui = "refusing" =>
    /\ Own("mismatch")
    /\ job[Cli].at = "pause" => Comparing
    /\ job[Cli].at # "pause" /\ (Idle(Cli) => answer # "error") => Cancelled
\* What is reported as refused.
Refused  == verdict = "mismatch" => Cancelled

\* All that a refusal relies on.
RefuseInv == Confirms /\ Compares /\ Asks /\ Refuses /\ Refused

\* Commands that do not wait for the lock, and all once they have had it
LEMMA NoPause ==
  ASSUME Serving, NEW b \in Admins,
         Working(b) \/ (\E op, f, s : Plainly(b, op, f, s)) \/ (\E f : Start(b, f))
  PROVE  \E j : j.at # "pause" /\ job' = [job EXCEPT ![b] = j]
<1>1. ASSUME NEW place \in {"send", "tell", "trust"}, NEW op, NEW f, Goes(b, place, op, f)
      PROVE  \E j : j.at # "pause" /\ job' = [job EXCEPT ![b] = j]
  <2>1. [at |-> place, op |-> op, flow |-> f].at # "pause"
    OBVIOUS
  <2> QED BY <1>1, <2>1 DEF Goes
<1>2. ASSUME NEW word, Reply(b, word)
      PROVE  \E j : j.at # "pause" /\ job' = [job EXCEPT ![b] = j]
  <2>1. NoJob.at # "pause"
    BY DEF NoJob
  <2> QED BY <1>2, <2>1 DEF Reply
<1>3. ASSUME NEW op, NEW f, Show(b, op, f)
      PROVE  \E j : j.at # "pause" /\ job' = [job EXCEPT ![b] = j]
  BY <1>1, <1>2, <1>3 DEF Show
<1>4. ASSUME NEW op, NEW f, NEW to, Step(b, op, f, to)
      PROVE  \E j : j.at # "pause" /\ job' = [job EXCEPT ![b] = j]
  BY <1>1, <1>4 DEF Step
<1>5. CASE Unpause(b)
  <2>1. \E place \in {"send", "tell"} : Goes(b, place, job[b].op, job[b].flow)
    BY <1>5 DEF Unpause
  <2> QED BY <1>1, <2>1
<1>6. CASE Send(b) \/ SendFails(b) \/ Tell(b) \/ Settled(b)
  BY <1>1, <1>2, <1>3, <1>6 DEF Send, SendFails, Tell, Settled
<1>7. CASE \E op, f, s : Plainly(b, op, f, s)
  BY <1>2, <1>3, <1>4, <1>7 DEF Plainly
<1>8. CASE \E f : Start(b, f)
  BY <1>4, <1>8 DEF Start
<1> QED BY <1>5, <1>6, <1>7, <1>8 DEF Working

\* Who comes to wait for the lock has asked for it.
LEMMA Pauses ==
  ASSUME Serving, [Next]_vars, NEW a \in Admins, job'[a].at = "pause", job'[a] # job[a]
  PROVE  \/ a # Cli /\ job'[a].op \in Commands
         \/ a = Cli /\ \/ job'[a].op # "confirm"
                       \/ ui' = "confirming"
<1>0. job \in [Admins -> Jobs] /\ Cli \in Admins
  BY AdminsAssumption DEF Serving
<1>1. job' # job
  OBVIOUS
<1>2. ASSUME NEW b \in Admins, NEW j, j.at # "pause", job' = [job EXCEPT ![b] = j]
      PROVE  FALSE
  BY <1>0, <1>2
<1>3. ASSUME NEW b \in Admins, NEW op \in Paused, NEW f, Ask(b, op, f)
      PROVE  b = a /\ job'[a].op = op
  <2>1. CASE Goes(b, "pause", op, f)
    BY <1>0, <2>1 DEF Goes
  <2>2. CASE Reply(b, "error")
    BY <1>0, <2>2 DEF Reply, NoJob
  <2> QED BY <1>3, <2>1, <2>2 DEF Ask
<1>4. ~(\E b \in Admins : Working(b))
  BY <1>2, NoPause
<1>5. ~(\E b \in Admins : (\E op, f, s : Plainly(b, op, f, s)) \/ (\E f : Start(b, f)))
  BY <1>2, NoPause
<1>6. CASE Others
  <2>1. \E b \in Admins \ {Cli}, f \in Flows, op \in Commands \cap Paused : Ask(b, op, f)
    BY <1>5, <1>6 DEF Others
  <2> QED BY <1>3, <2>1
<1>7. CASE CtlVerify
  <2>1. CASE GiveUp
    BY <1>0, <1>3, <2>1 DEF GiveUp, Paused
  <2>2. CASE UserAnswers
    BY <1>0, <1>3, <2>2 DEF UserAnswers, Paused, Go
  <2>3. ~(RunStart \/ Poll)
    BY <1>0, <1>5 DEF RunStart, Poll
  <2>4. ~(RunWait \/ List \/ Read \/ AfterCommand)
    BY <1>1 DEF RunWait, List, Read, AfterCommand, cmd
  <2> QED BY <1>7, <2>1, <2>2, <2>3, <2>4 DEF CtlVerify
<1>8. ~(Process \/ Record \/ Cut \/ Rooms \/ Deadline \/ UNCHANGED vars)
      /\ ~(\E f \in Flows : Trust(f))
  BY <1>1 DEF Process, Record, Cut, Rooms, Deadline, Trust, vars, cmd
<1> QED BY <1>4, <1>6, <1>7, <1>8 DEF Next

\* While `ctl verify' waits for its command, its screen stays.
LEMMA Waits ==
  ASSUME Serving, [Next]_vars, ui = "confirming", ~Idle(Cli)
  PROVE  ui' = ui
<1>1. ~CtlVerify
  BY DEF CtlVerify, RunStart, RunWait, List, Poll, Read, GiveUp, UserAnswers, AfterCommand
<1> QED BY <1>1, Turns DEF Elsewhere, cli

\* Nobody else comes to confirm.
LEMMA ConfirmsNext ==
  ASSUME "confirm" \notin Commands, Serving, Confirms, [Next]_vars
  PROVE  Confirms'
<1> SUFFICES ASSUME NEW a \in Admins, job'[a].at = "pause", job'[a].op = "confirm"
             PROVE  a = Cli /\ ui' = "confirming"
  BY DEF Confirms
<1>1. CASE job'[a] = job[a]
  <2>1. a = Cli /\ ui = "confirming" /\ ~Idle(Cli)
    BY <1>1 DEF Confirms, Idle, NoJob
  <2> QED BY <2>1, Waits
<1>2. CASE job'[a] # job[a]
  BY <1>2, Pauses
<1> QED BY <1>1, <1>2

\* A flow that is compared goes nowhere but to its cancellation.
LEMMA ComparingStays ==
  ASSUME StateInv, Confirms, [Next]_vars, ui # "confirming", mine' = mine, Comparing
  PROVE  Comparing'
<1>1. StageStep /\ ~Confirming
  BY Steps DEF StateInv, Confirms, Confirming
<1>2. \A f \in mine : f \in Flows
  BY DEF StateInv, Screen
<1>3. "cancelled" \in Ended /\ stage \in [Flows -> Stages]
  BY DEF Ended, StateInv, MachineInv, Machine
<1> QED BY <1>1, <1>2, <1>3 DEF Comparing, StageStep

\* Nor does a cancelled one go anywhere.
LEMMA CancelledStays ==
  ASSUME StateInv, [Next]_vars, mine' = mine, Cancelled
  PROVE  Cancelled'
<1>1. \A f \in mine : f \in Flows
  BY DEF StateInv, Screen
<1>2. "cancelled" \in Ended
  BY DEF Ended
<1> QED BY <1>1, <1>2, Stays DEF Cancelled

\* A step of others
LEMMA RefuseElsewhere ==
  ASSUME StateInv, RefuseInv, [Next]_vars, Elsewhere
  PROVE  (Compares /\ Asks /\ Refuses /\ Refused)'
<1>1. UNCHANGED <<ui, mine, verdict, answer>> /\ job'[Cli] = job[Cli]
  BY DEF Elsewhere, cli
<1>2. Cancelled => Cancelled'
  BY <1>1, CancelledStays
<1>3. ui # "confirming" /\ Comparing => Comparing'
  BY <1>1, ComparingStays DEF RefuseInv
<1>4. Compares'
  BY <1>1, <1>3 DEF RefuseInv, Compares, Idle
<1>5. Asks'
  BY <1>1, <1>3 DEF RefuseInv, Asks
<1>6. Refuses'
  BY <1>1, <1>2, <1>3 DEF RefuseInv, Refuses, Idle, Own
<1>7. Refused'
  BY <1>1, <1>2 DEF RefuseInv, Refused
<1> QED BY <1>4, <1>5, <1>6, <1>7

\* What is left of a command has the same operation and flow.
LEMMA SameJob ==
  ASSUME Serving, Working(Cli)
  PROVE  /\ job[Cli] # NoJob
         /\ \/ job'[Cli] = NoJob
            \/ job'[Cli].at # "pause" /\ job'[Cli].op = job[Cli].op
               /\ job'[Cli].flow = job[Cli].flow
<1>0. Cli \in Admins /\ job \in [Admins -> Jobs]
  BY AdminsAssumption DEF Serving
<1>1. job[Cli] # NoJob
  <2>1. job[Cli].at # "idle"
    BY DEF Working, Unpause, Send, SendFails, Tell, Settled
  <2> QED BY <2>1 DEF NoJob
<1> DEFINE Left == \/ job'[Cli] = NoJob
                   \/ job'[Cli].at # "pause" /\ job'[Cli].op = job[Cli].op
                      /\ job'[Cli].flow = job[Cli].flow
<1>2. ASSUME NEW place \in {"send", "tell", "trust"},
             Goes(Cli, place, job[Cli].op, job[Cli].flow)
      PROVE  Left
  <2>1. job'[Cli] = [at |-> place, op |-> job[Cli].op, flow |-> job[Cli].flow]
    BY <1>0, <1>2 DEF Goes
  <2> QED BY <2>1
<1>3. ASSUME NEW word, Reply(Cli, word)
      PROVE  Left
  BY <1>0, <1>3 DEF Reply
<1> HIDE DEF Left
<1>4. Left
  <2>1. CASE Unpause(Cli)
    <3>1. \E place \in {"send", "tell"} : Goes(Cli, place, job[Cli].op, job[Cli].flow)
      BY <2>1 DEF Unpause
    <3> QED BY <1>2, <3>1
  <2>2. CASE Send(Cli) \/ SendFails(Cli) \/ Settled(Cli)
    BY <1>2, <1>3, <2>2 DEF Send, SendFails, Settled
  <2>3. CASE Tell(Cli)
    BY <1>2, <1>3, <2>3 DEF Tell, Show
  <2> QED BY <2>1, <2>2, <2>3 DEF Working
<1> QED BY <1>1, <1>4 DEF Left

\* mismatch, when it has the lock: the flow is refused.
LEMMA Mismatched ==
  ASSUME StateInv, NEW f \in Flows, mine = {f}, Comparing, mine' = mine,
         job[Cli] # NoJob, Own("mismatch"), Unpause(Cli)
  PROVE  Cancelled'
<1>1. job[Cli].flow = f /\ job[Cli].op = "mismatch" /\ stage[f] \in {"compare", "cancelled"}
  BY DEF Own, Comparing
<1>2. PICK to \in Outcomes("mismatch", f) : stage' = [stage EXCEPT ![f] = to]
  BY <1>1 DEF Unpause
<1>3. to = "cancelled"
  BY <1>1, <1>2 DEF Outcomes, Sas
<1>4. stage \in [Flows -> Stages]
  BY DEF StateInv, MachineInv, Machine
<1> QED BY <1>2, <1>3, <1>4 DEF Cancelled

\* A step of the command
LEMMA RefuseWorking ==
  ASSUME StateInv, AnswerInv, RefuseInv, [Next]_vars, Working(Cli), UNCHANGED cli
  PROVE  (Compares /\ Asks /\ Refuses /\ Refused)'
<1>0. UNCHANGED <<ui, mine, verdict>> /\ Serving
  BY DEF cli, StateInv, MachineInv
<1>1. Cancelled => Cancelled'
  BY <1>0, CancelledStays
<1>2. job[Cli] # NoJob
  BY <1>0, SameJob
<1>3. Compares'
  <2>1. CASE ui = "advancing"
    <3>1. Own("advance") /\ job[Cli].at # "pause"
      BY <2>1 DEF AnswerInv, Advances
    <3>2. \E f \in Flows : mine = {f}
      BY <2>1 DEF AnswerInv, OneFlow
    <3>3. Answered
      BY <1>0, <3>1, <3>2, WorkingAnswered
    <3> QED BY <1>0, <3>3 DEF Answered, Compares, Idle, Comparing
  <2>2. CASE ui # "advancing"
    BY <1>0, <2>2 DEF Compares
  <2> QED BY <2>1, <2>2
<1>4. Asks'
  BY <1>0, <1>2 DEF RefuseInv, Asks
<1>5. Refuses'
  <2>1. CASE ui = "refusing"
    <3>1. Own("mismatch") /\ (job[Cli].at = "pause" => Comparing)
          /\ (job[Cli].at # "pause" => Cancelled)
      BY <1>2, <2>1 DEF RefuseInv, Refuses, Idle
    <3>2. \E f \in Flows : mine = {f}
      BY <2>1 DEF AnswerInv, OneFlow
    <3>3. Own("mismatch")' /\ job'[Cli].at # "pause"
      <4>1. job'[Cli] = NoJob \/ (job'[Cli].at # "pause" /\ job'[Cli].op = job[Cli].op
                                  /\ job'[Cli].flow = job[Cli].flow)
        BY <1>0, SameJob
      <4> QED BY <1>0, <1>2, <3>1, <4>1 DEF Own, NoJob
    <3>4. Cancelled'
      <4>1. CASE job[Cli].at # "pause"
        BY <1>1, <3>1, <4>1
      <4>2. CASE job[Cli].at = "pause"
        <5>1. Unpause(Cli)
          BY <4>2 DEF Working, Send, SendFails, Tell, Settled
        <5> QED BY <1>0, <1>2, <3>1, <3>2, <4>2, <5>1, Mismatched
      <4> QED BY <4>1, <4>2
    <3> QED BY <3>3, <3>4 DEF Refuses
  <2>2. CASE ui # "refusing"
    BY <1>0, <2>2 DEF Refuses
  <2> QED BY <2>1, <2>2
<1>6. Refused'
  BY <1>0, <1>1 DEF RefuseInv, Refused
<1> QED BY <1>3, <1>4, <1>5, <1>6

\* A step of `ctl verify'
LEMMA RefuseCli ==
  ASSUME StateInv, AnswerInv, RefuseInv, [Next]_vars, CtlVerify
  PROVE  (Compares /\ Asks /\ Refuses /\ Refused)'
<1>0. Serving /\ Cli \in Admins /\ job \in [Admins -> Jobs] /\ (verdict = "none" \/ ui = "over")
  BY AdminsAssumption DEF StateInv, MachineInv, Serving, AnswerInv, Unsaid
<1> DEFINE Quiet == ui' \notin {"advancing", "asking", "refusing"} /\ verdict' # "mismatch"
<1>1. ASSUME Quiet PROVE (Compares /\ Asks /\ Refuses /\ Refused)'
  BY <1>1 DEF Compares, Asks, Refuses, Refused
<1>2. CASE RunStart \/ RunWait \/ List
  <2>1. Quiet
    BY <1>0, <1>2 DEF RunStart, RunWait, List, Over, cli
  <2> QED BY <1>1, <2>1
<1>3. CASE Poll
  <2>1. ui = "polling" /\ ui' = "advancing" /\ UNCHANGED <<mine, verdict>>
    BY <1>3 DEF Poll, Go
  <2>2. PICK f \in Flows : mine = {f}
    BY <2>1 DEF AnswerInv, OneFlow
  <2>3. Answered
    BY <1>0, <1>3, <2>2, PollAnswered DEF Poll
  <2>4. Compares'
    BY <2>1, <2>3 DEF Answered, Compares, Idle, Comparing
  <2> QED BY <1>0, <2>1, <2>4 DEF Asks, Refuses, Refused
<1>4. CASE Read
  <2>1. UNCHANGED <<mine, stage, job>> /\ ui = "advancing" /\ Idle(Cli)
    BY <1>4 DEF Read, Over, Go, olm, cmd
  <2>2. /\ ui' \in {"over", "asking", "polling"} /\ verdict' # "mismatch"
        /\ ui' = "asking" => answer = "compare"
    BY <1>0, <1>4, <2>1 DEF Read, Over, Go, Ended
  <2>3. Asks'
    BY <2>1, <2>2 DEF RefuseInv, Compares, Asks, Comparing, Idle
  <2> QED BY <2>2, <2>3 DEF Compares, Refuses, Refused
<1>5. CASE GiveUp
  <2>1. Quiet
    BY <1>0, <1>5 DEF GiveUp, Go
  <2> QED BY <1>1, <2>1
<1>6. CASE UserAnswers
  <2>1. ui = "asking" /\ UNCHANGED <<mine, verdict, stage>> /\ Comparing
    BY <1>6 DEF UserAnswers, Go, Ask, olm, RefuseInv, Asks
  <2>2. CASE ui' = "refusing" /\ \E f \in mine : Ask(Cli, "mismatch", f)
    <3>1. PICK f \in mine : Ask(Cli, "mismatch", f)
      BY <2>2
    <3>2. Comparing'
      BY <2>1 DEF Comparing
    <3>3. CASE Goes(Cli, "pause", "mismatch", f)
      <4>1. job'[Cli] = [at |-> "pause", op |-> "mismatch", flow |-> f]
        BY <1>0, <3>3 DEF Goes
      <4>2. Refuses'
        BY <2>1, <3>1, <3>2, <4>1 DEF Refuses, Own
      <4> QED BY <1>0, <2>1, <2>2, <4>2 DEF Compares, Asks, Refused
    <3>4. CASE Reply(Cli, "error")
      <4>1. job'[Cli] = NoJob /\ answer' = "error"
        BY <1>0, <3>4 DEF Reply
      <4>2. Refuses'
        BY <2>1, <4>1 DEF Refuses, Own, NoJob, Idle
      <4> QED BY <1>0, <2>1, <2>2, <4>2 DEF Compares, Asks, Refused
    <3> QED BY <3>1, <3>3, <3>4 DEF Ask
  <2>3. CASE ui' \in {"confirming", "abandoning"}
    BY <1>0, <1>1, <2>1, <2>3
  <2> QED BY <1>6, <2>2, <2>3 DEF UserAnswers, Go
<1>7. CASE AfterCommand
  <2>1. /\ UNCHANGED <<mine, stage>> /\ Idle(Cli) /\ ui' \in {"polling", "over"}
        /\ verdict' = "mismatch" => verdict = "mismatch" \/ (ui = "refusing" /\ answer # "error")
    BY <1>7 DEF AfterCommand, Go, Over, olm
  <2>2. verdict' = "mismatch" => Cancelled
    BY <2>1 DEF RefuseInv, Refuses, Refused, Idle, NoJob
  <2> QED BY <2>1, <2>2 DEF Compares, Asks, Refuses, Refused, Cancelled
<1> QED BY <1>2, <1>3, <1>4, <1>5, <1>6, <1>7 DEF CtlVerify

\* ReportsAreTrue: all that `ctl verify' reports is so, as long as it is the only
\* one to confirm.  (A flow another client confirms while its user says no may be
\* done by then; the code reports it as not verified all the same.)
THEOREM ReportsHold ==
  ASSUME "confirm" \notin Commands
  PROVE  Spec => []ReportsAreTrue
<1>1. Init => RefuseInv
  BY DEF Init, RefuseInv, Confirms, Compares, Asks, Refuses, Refused, NoJob
<1>2. StateInv /\ AnswerInv /\ RefuseInv /\ [Next]_vars => RefuseInv'
  <2> SUFFICES ASSUME StateInv, AnswerInv, RefuseInv, [Next]_vars PROVE RefuseInv'
    OBVIOUS
  <2>1. Elsewhere \/ (Working(Cli) /\ UNCHANGED cli) \/ CtlVerify
    BY Turns DEF StateInv, MachineInv
  <2>2. (Compares /\ Asks /\ Refuses /\ Refused)'
    BY <2>1, RefuseElsewhere, RefuseWorking, RefuseCli
  <2>3. Confirms'
    BY ConfirmsNext DEF RefuseInv, StateInv, MachineInv
  <2> QED BY <2>2, <2>3 DEF RefuseInv
<1>3. StateInv /\ AnswerInv /\ RefuseInv => ReportsAreTrue
  <2> SUFFICES ASSUME StateInv, AnswerInv, RefuseInv, NEW f \in mine
               PROVE  /\ verdict = "done" => f \in trusted /\ f \in yes
                      /\ verdict \in {"mismatch", "cancelled"}
                           => stage[f] = "cancelled" /\ f \notin trusted
    BY DEF ReportsAreTrue
  <2>1. f \in Flows /\ (f \in trusted => stage[f] = "done") /\ (stage[f] = "done" => f \in yes)
    BY DEF StateInv, Screen, MachineInv, Machine
  <2>2. /\ verdict = "done" => f \in trusted
        /\ verdict \in {"mismatch", "cancelled"} => stage[f] = "cancelled"
    BY DEF AnswerInv, Reported, RefuseInv, Refused, Cancelled
  <2> QED BY <2>1, <2>2
<1> QED BY <1>1, <1>2, <1>3, AnswerInvariant, PTL DEF Spec
=============================================================================
