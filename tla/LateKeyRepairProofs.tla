------------------------- MODULE LateKeyRepairProofs -------------------------
(***************************************************************************)
(* Of the repair queue: no wake-up is lost.  Whatever handlers call it and *)
(* in whatever order, a sync that long-polls upstream is told of every     *)
(* repair that becomes possible, as long as MAX_PENDING is not exceeded.   *)
(*                                                                         *)
(* Of the program: however handlers overlap, are dropped and restart, they *)
(* use the queue only as RepairQueue allows, so the above holds for them.  *)
(* If the client has one answer at a time processed and read, no pending   *)
(* repair misses its key; if nothing is lost either, what a placeholder    *)
(* promises is kept.                                                       *)
(***************************************************************************)
EXTENDS LateKeyRepair, WellFoundedInduction, TLAPS

-----------------------------------------------------------------------------
(* The rest of a sequence (Without).  Folds over sequences are defined by  *)
(* recursion on positions; what they compute is shown by induction.         *)

\* Induction over the naturals, stated of a set: the order < is well-founded.
LEMMA NatInd ==
  ASSUME NEW S, 0 \in S, \A n \in Nat : n \in S => n + 1 \in S
  PROVE  Nat \subseteq S
<1> DEFINE R == {ss \in Nat \X Nat : ss[1] < ss[2]}
<1>1. IsWellFoundedOn(R, Nat)
  BY NatLessThanWellFounded DEF OpToRel
<1> HIDE DEF R
<1> SUFFICES ASSUME Nat \ S # {} PROVE FALSE
  OBVIOUS
<1>2. PICK x \in Nat \ S : \A y \in Nat \ S : <<y, x>> \notin R
  BY <1>1, WFMin
<1>3. x - 1 \in Nat /\ <<x - 1, x>> \in R
  BY DEF R
<1> QED BY <1>2, <1>3

\* A set of positions has a last one.
LEMMA LastOne ==
  ASSUME NEW n \in Nat, NEW t \in SUBSET (1..n), t # {}
  PROVE  Max(t) \in t /\ \A x \in t : x <= Max(t)
<1> DEFINE S == {k \in Nat : \A u \in SUBSET (1..k) :
                               u # {} => \E m \in u : \A x \in u : x <= m}
<1>1. 0 \in S
  <2>1. 1..0 = {}
    OBVIOUS
  <2> QED BY <2>1
<1>2. ASSUME NEW k \in Nat, k \in S PROVE k + 1 \in S
  <2> SUFFICES ASSUME NEW u \in SUBSET (1..k+1), u # {}
               PROVE  \E m \in u : \A x \in u : x <= m
    OBVIOUS
  <2>1. CASE k + 1 \in u
    BY <2>1
  <2>2. CASE k + 1 \notin u
    <3>1. u \in SUBSET (1..k)
      BY <2>2
    <3> QED BY <3>1, <1>2
  <2> QED BY <2>1, <2>2
<1> HIDE DEF S
<1>3. n \in S
  BY <1>1, <1>2, NatInd
<1>4. \E m \in t : \A x \in t : m >= x
  BY <1>3 DEF S
<1>5. Max(t) \in t /\ \A x \in t : Max(t) >= x
  BY <1>4 DEF Max
<1> QED BY <1>5

\* The last of the first n + 1 positions, and what is left without it.
LEMMA TopOne ==
  ASSUME NEW n \in Nat, NEW t \in SUBSET (1..n+1)
  PROVE  /\ n + 1 \in t => Max(t) = n + 1 /\ t \ {n + 1} \in SUBSET (1..n)
         /\ n + 1 \notin t => t \in SUBSET (1..n)
<1>1. n + 1 \in Nat /\ \A x \in t : x \in Nat /\ 1 <= x /\ x <= n + 1
  OBVIOUS
<1>2. ASSUME n + 1 \in t PROVE Max(t) = n + 1
  <2>1. Max(t) \in t /\ n + 1 <= Max(t)
    <3> DEFINE k == n + 1
    <3> HIDE DEF k
    <3>1. k \in Nat /\ t \in SUBSET (1..k) /\ k \in t
      BY <1>1, <1>2 DEF k
    <3> QED BY <3>1, LastOne DEF k
  <2> DEFINE m == Max(t)
  <2>2. m \in Nat /\ m <= n + 1 /\ n + 1 <= m
    BY <1>1, <2>1
  <2> HIDE DEF m
  <2>3. m = n + 1
    BY <2>2
  <2> QED BY <2>3 DEF m
<1>3. ASSUME NEW x \in t, x # n + 1 PROVE x \in 1..n
  <2>1. x \in Nat /\ 1 <= x /\ x <= n + 1
    BY <1>1
  <2> QED BY <1>3, <2>1
<1> QED BY <1>2, <1>3

\* f is a fold over n positions with the steps G.
Folds(f, T, n, base, G) ==
  /\ f \in [SUBSET (1..n) -> T] /\ f[{}] = base
  /\ \A t \in SUBSET (1..n) : t # {} => f[t] = G[Max(t)][f[t \ {Max(t)}]]

\* There is such a fold, by induction on the number of positions.
LEMMA FoldExists ==
  ASSUME NEW T, NEW len \in Nat, NEW base \in T, NEW G \in [1..len -> [T -> T]]
  PROVE  \E f : Folds(f, T, len, base, G)
<1> DEFINE S == {n \in Nat : n <= len => \E f : Folds(f, T, n, base, G)}
<1>1. 0 \in S
  <2>1. 1..0 = {}
    OBVIOUS
  <2>2. Folds([t \in SUBSET (1..0) |-> base], T, 0, base, G)
    BY <2>1 DEF Folds
  <2> QED BY <2>2
<1>2. ASSUME NEW n \in Nat, n \in S PROVE n + 1 \in S
  <2> SUFFICES ASSUME n + 1 <= len PROVE \E f : Folds(f, T, n + 1, base, G)
    OBVIOUS
  <2>1. PICK f : Folds(f, T, n, base, G)
    <3>1. n <= len
      OBVIOUS
    <3> QED BY <1>2, <3>1
  <2> DEFINE g == [t \in SUBSET (1..n+1) |->
                     IF n + 1 \in t THEN G[n + 1][f[t \ {n + 1}]] ELSE f[t]]
  <2>2. ASSUME NEW t \in SUBSET (1..n+1), n + 1 \in t
        PROVE  Max(t) = n + 1 /\ t \ {n + 1} \in SUBSET (1..n)
    BY <2>2, TopOne
  <2>3. ASSUME NEW t \in SUBSET (1..n+1), n + 1 \notin t
        PROVE  t \in SUBSET (1..n) /\ (t # {} => t \ {Max(t)} \in SUBSET (1..n))
    BY <2>3, TopOne
  <2>4. g \in [SUBSET (1..n+1) -> T]
    <3> SUFFICES ASSUME NEW t \in SUBSET (1..n+1) PROVE g[t] \in T
      OBVIOUS
    <3>1. CASE n + 1 \in t
      <4>1. f[t \ {n + 1}] \in T
        BY <2>1, <2>2, <3>1 DEF Folds
      <4>2. G[n + 1] \in [T -> T]
        OBVIOUS
      <4> QED BY <3>1, <4>1, <4>2
    <3>2. CASE n + 1 \notin t
      <4>1. f[t] \in T
        BY <2>1, <2>3, <3>2 DEF Folds
      <4> QED BY <3>2, <4>1
    <3> QED BY <3>1, <3>2
  <2>5. g[{}] = base
    BY <2>1 DEF Folds
  <2>6. ASSUME NEW t \in SUBSET (1..n+1), t # {}
        PROVE  g[t] = G[Max(t)][g[t \ {Max(t)}]]
    <3>1. CASE n + 1 \in t
      BY <2>2, <3>1
    <3>2. CASE n + 1 \notin t
      <4>1. g[t] = f[t] /\ f[t] = G[Max(t)][f[t \ {Max(t)}]]
        BY <2>1, <2>3, <2>6, <3>2 DEF Folds
      <4>2. g[t \ {Max(t)}] = f[t \ {Max(t)}]
        BY <2>3, <2>6, <3>2
      <4> QED BY <4>1, <4>2
    <3> QED BY <3>1, <3>2
  <2> HIDE DEF g
  <2> QED BY <2>4, <2>5, <2>6 DEF Folds
<1> HIDE DEF S
<1>3. len \in S
  BY <1>1, <1>2, NatInd
<1> QED BY <1>3 DEF S

\* retain: what it leaves is a sequence, and has every element not taken out.
LEMMA WithoutKeeps ==
  ASSUME NEW E, NEW seq \in Seq(E), NEW out
  PROVE  /\ Without(seq, out) \in Seq(E)
         /\ \A i \in 1..Len(seq) : seq[i] \notin out =>
              \E j \in DOMAIN Without(seq, out) : Without(seq, out)[j] = seq[i]
<1> DEFINE len == Len(seq)
           F(f) == f = [t \in SUBSET DOMAIN seq |->
                          IF t = {} THEN <<>>
                          ELSE IF seq[Max(t)] \in out THEN f[t \ {Max(t)}]
                          ELSE Append(f[t \ {Max(t)}], seq[Max(t)])]
           G == [i \in 1..len |-> [kept \in Seq(E) |->
                   IF seq[i] \in out THEN kept ELSE Append(kept, seq[i])]]
<1>1. Without(seq, out) = (CHOOSE f : F(f))[DOMAIN seq]
  BY DEF Without, FoldLeft, MapThenFoldSet
<1>2. G \in [1..len -> [Seq(E) -> Seq(E)]] /\ <<>> \in Seq(E) /\ len \in Nat
      /\ DOMAIN seq = 1..len
  OBVIOUS
<1>3. PICK f : Folds(f, Seq(E), len, <<>>, G)
  <2> HIDE DEF G, len
  <2> QED BY <1>2, FoldExists
<1>4. F(f)
  <2> SUFFICES ASSUME NEW t \in SUBSET (1..len)
               PROVE  f[t] = IF t = {} THEN <<>>
                          ELSE IF seq[Max(t)] \in out THEN f[t \ {Max(t)}]
                          ELSE Append(f[t \ {Max(t)}], seq[Max(t)])
    BY <1>2, <1>3 DEF Folds
  <2>1. CASE t = {}
    BY <2>1, <1>3 DEF Folds
  <2>2. CASE t # {}
    <3>1. Max(t) \in 1..len /\ t \ {Max(t)} \in SUBSET (1..len)
      BY <2>2, <1>2, LastOne
    <3>2. f[t \ {Max(t)}] \in Seq(E) /\ f[t] = G[Max(t)][f[t \ {Max(t)}]]
      BY <2>2, <3>1, <1>3 DEF Folds
    <3> QED BY <3>1, <3>2, <2>2
  <2> QED BY <2>1, <2>2
<1> HIDE DEF G
<1> DEFINE kept == CHOOSE g : F(g)
<1>5. F(kept)
  <2> HIDE DEF F
  <2> QED BY <1>4
<1> DEFINE Good(n) == /\ kept[1..n] \in Seq(E)
                      /\ \A i \in 1..n : seq[i] \notin out =>
                           \E j \in DOMAIN kept[1..n] : kept[1..n][j] = seq[i]
           S == {n \in Nat : n <= len => Good(n)}
<1> HIDE DEF kept
<1>6. 0 \in S
  <2> DEFINE none == 1..0
  <2>1. none = {}
    OBVIOUS
  <2> HIDE DEF none
  <2>2. none \in SUBSET DOMAIN seq /\ <<>> \in Seq(E)
    BY <2>1
  <2>3. kept[none] = <<>>
    BY <1>5, <2>1, <2>2
  <2>4. kept[none] \in Seq(E)
    BY <2>2, <2>3
  <2>5. Good(0)
    BY <2>1, <2>4 DEF none
  <2> HIDE DEF Good
  <2> QED BY <2>5
<1>7. ASSUME NEW n \in Nat, n \in S PROVE n + 1 \in S
  <2> SUFFICES ASSUME n + 1 <= len PROVE Good(n + 1)
    OBVIOUS
  <2>1. Good(n)
    <3>1. n <= len
      OBVIOUS
    <3> QED BY <1>7, <3>1
  <2>2. /\ 1..n+1 \in SUBSET DOMAIN seq /\ 1..n+1 # {}
        /\ Max(1..n+1) = n + 1 /\ (1..n+1) \ {n + 1} = 1..n
    <3>1. n + 1 \in 1..n+1 /\ 1..n+1 \in SUBSET (1..n+1)
      OBVIOUS
    <3>2. Max(1..n+1) = n + 1
      BY <3>1, TopOne
    <3>3. \A x \in 1..n+1 : x # n + 1 => x \in 1..n
      OBVIOUS
    <3>4. \A x \in 1..n : x \in 1..n+1 /\ x # n + 1
      OBVIOUS
    <3>5. (1..n+1) \ {n + 1} = 1..n
      BY <3>3, <3>4, Zenon
    <3>6. 1..n+1 \in SUBSET DOMAIN seq
      <4>1. \A x \in 1..n+1 : x \in 1..len
        BY <1>2
      <4> QED BY <1>2, <4>1
    <3> QED BY <3>1, <3>2, <3>5, <3>6
  <2>3. kept[1..n+1] = IF seq[n + 1] \in out THEN kept[1..n]
                       ELSE Append(kept[1..n], seq[n + 1])
    BY <1>5, <2>2
  <2>4. seq[n + 1] \in E
    BY <1>2
  <2>5. CASE seq[n + 1] \in out
    BY <2>1, <2>3, <2>5
  <2>6. CASE seq[n + 1] \notin out
    <3> DEFINE old == kept[1..n]
               new == kept[1..n+1]
    <3>1. new = Append(old, seq[n + 1]) /\ old \in Seq(E)
      BY <2>1, <2>3, <2>6
    <3> HIDE DEF old, new
    <3>2. /\ new \in Seq(E) /\ DOMAIN old = 1..Len(old) /\ DOMAIN new = 1..Len(old) + 1
          /\ new[Len(old) + 1] = seq[n + 1] /\ \A j \in DOMAIN old : new[j] = old[j]
      BY <3>1, <2>4
    <3>3. ASSUME NEW i \in 1..n+1, seq[i] \notin out
          PROVE  \E j \in DOMAIN new : new[j] = seq[i]
      <4>1. CASE i = n + 1
        BY <3>2, <4>1
      <4>2. CASE i # n + 1
        <5>1. i \in 1..n
          BY <4>2
        <5>2. PICK j \in DOMAIN old : old[j] = seq[i]
          BY <2>1, <3>3, <5>1 DEF old
        <5> QED BY <3>2, <5>2
      <4> QED BY <4>1, <4>2
    <3> QED BY <3>2, <3>3 DEF new
  <2> QED BY <2>5, <2>6
<1> HIDE DEF S
<1>8. len \in S
  BY <1>2, <1>6, <1>7, NatInd
<1>9. Good(len)
  BY <1>2, <1>8 DEF S
<1> QED BY <1>1, <1>2, <1>9 DEF kept

-----------------------------------------------------------------------------
(* The wake-up *)

\* The ranges the argument needs; `order' plays no part in it.
Ranges ==
  /\ pending \subseteq Events /\ ready \subseteq Sessions
  /\ wait \in [Syncs -> Waits]

\* Notifications and readiness change together.
WakeInv == Ranges /\ ReadyMeansWaiting /\ NoSleepOnReady

\* Nothing is ready once the sessions are cleared and no bulk retry is due.
LEMMA NothingReady ==
  ASSUME ready = {}, ~retryAll
  PROVE  ~AnyReady
BY DEF AnyReady, IsReady

\* After notify_waiters no sync is left polling or about to poll unwarned.
LEMMA NotifiedAll ==
  ASSUME wait \in [Syncs -> Waits], NotifyWaiters
  PROVE  wait' \in [Syncs -> Waits] /\ \A h \in Syncs : wait'[h] # "polling"
BY DEF NotifyWaiters, Waits

\* track: a new placeholder may be ready at once, but then another one was, and
\* nobody is polling.
LEMMA TrackWake ==
  ASSUME WakeInv, NEW e \in Events, Track(e)
  PROVE  WakeInv'
<1>1. /\ UNCHANGED <<ready, retryAll, wait>>
      /\ pending' \subseteq pending \cup {e} /\ forgotten \subseteq forgotten'
      /\ forgotten' = {} => pending \subseteq pending'
  BY DEF Track
<1>2. Ranges'
  BY <1>1 DEF WakeInv, Ranges
<1>3. ASSUME forgotten' = {} PROVE AnyReady => AnyReady'
  BY <1>1, <1>3 DEF AnyReady, IsReady
<1>4. ReadyMeansWaiting'
  BY <1>1, <1>3 DEF WakeInv, ReadyMeansWaiting
<1>5. ASSUME forgotten' = {}, NEW h \in Syncs, wait'[h] = "polling"
      PROVE  ~AnyReady'
  <2>1. ~AnyReady /\ forgotten = {}
    BY <1>1, <1>5 DEF WakeInv, NoSleepOnReady
  <2>2. ready = {} /\ ~retryAll
    BY <2>1 DEF WakeInv, ReadyMeansWaiting
  <2> QED BY <1>1, <2>2 DEF AnyReady, IsReady
<1> QED BY <1>2, <1>4, <1>5 DEF WakeInv, NoSleepOnReady

\* note_room_keys: keys somebody waits for wake everybody, others are dropped.
LEMMA NoteKeysWake ==
  ASSUME WakeInv, NEW heard \in SUBSET Sessions, NoteRoomKeys(heard)
  PROVE  WakeInv'
<1>1. UNCHANGED <<pending, retryAll, forgotten>>
  BY DEF NoteRoomKeys
<1>2. CASE pending = {}
  BY <1>1, <1>2 DEF NoteRoomKeys, WakeInv, Ranges, ReadyMeansWaiting, NoSleepOnReady,
                    AnyReady, IsReady
<1>3. CASE pending # {} /\ \E e \in pending : retryAll \/ SessionOf[e] \in ready \cup heard
  <2>1. ready' = ready \cup heard /\ NotifyWaiters
    BY <1>3 DEF NoteRoomKeys
  <2>2. AnyReady'
    BY <1>1, <1>3, <2>1 DEF AnyReady, IsReady
  <2> QED BY <1>1, <2>1, <2>2, NotifiedAll
             DEF WakeInv, Ranges, ReadyMeansWaiting, NoSleepOnReady
<1>4. CASE pending # {} /\ ~\E e \in pending : retryAll \/ SessionOf[e] \in ready \cup heard
  <2>1. ready' = {} /\ wait' = wait /\ ~retryAll
    BY <1>4 DEF NoteRoomKeys
  <2>2. ~AnyReady'
    BY <1>1, <2>1 DEF AnyReady, IsReady
  <2> QED BY <1>1, <2>1, <2>2 DEF WakeInv, Ranges, ReadyMeansWaiting, NoSleepOnReady
<1> QED BY <1>2, <1>3, <1>4

\* note_bulk_import makes every pending repair ready and wakes everybody.
LEMMA BulkImportWake ==
  ASSUME WakeInv, NoteBulkImport
  PROVE  WakeInv'
<1>1. UNCHANGED <<pending, ready, forgotten>>
  BY DEF NoteBulkImport
<1>2. CASE pending = {}
  BY <1>1, <1>2 DEF NoteBulkImport, WakeInv, Ranges, ReadyMeansWaiting, NoSleepOnReady,
                    AnyReady, IsReady
<1>3. CASE pending # {}
  <2>1. retryAll' /\ NotifyWaiters
    BY <1>3 DEF NoteBulkImport
  <2>2. AnyReady'
    BY <1>1, <1>3, <2>1 DEF AnyReady, IsReady
  <2> QED BY <1>1, <2>1, <2>2, NotifiedAll
             DEF WakeInv, Ranges, ReadyMeansWaiting, NoSleepOnReady
<1> QED BY <1>2, <1>3

\* take_ready uses up what made repairs ready, so nothing is ready after it.
LEMMA TakeWake ==
  ASSUME WakeInv, NEW h \in Syncs, TakeReady(h)
  PROVE  WakeInv'
<1>1. /\ ready' = {} /\ ~retryAll' /\ UNCHANGED <<wait, forgotten>>
      /\ pending' \subseteq pending
  BY DEF TakeReady
<1>2. ~AnyReady'
  BY <1>1 DEF AnyReady, IsReady
<1> QED BY <1>1, <1>2 DEF WakeInv, Ranges, ReadyMeansWaiting, NoSleepOnReady

\* requeue: a repair put back can be ready again, but then another one was.
LEMMA RequeueWake ==
  ASSUME WakeInv, NEW h \in Syncs, NEW e \in Events, Requeue(h, e)
  PROVE  WakeInv'
<1>1. /\ UNCHANGED <<ready, retryAll, wait, forgotten>>
      /\ pending' = pending \cup {e}
  BY DEF Requeue
<1>2. AnyReady => AnyReady'
  BY <1>1 DEF AnyReady, IsReady
<1>3. ASSUME forgotten' = {}, NEW g \in Syncs, wait'[g] = "polling"
      PROVE  ~AnyReady'
  <2>1. ready = {} /\ ~retryAll
    BY <1>1, <1>3 DEF WakeInv, NoSleepOnReady, ReadyMeansWaiting
  <2> QED BY <1>1, <2>1 DEF AnyReady, IsReady
<1> QED BY <1>1, <1>2, <1>3 DEF WakeInv, Ranges, ReadyMeansWaiting, NoSleepOnReady

\* The steps of a sync that waits: it polls only after finding nothing ready.
LEMMA WaiterWake ==
  ASSUME WakeInv, NEW h \in Syncs,
         \/ Listen(h) \/ StartPolling(h) \/ StopWaiting(h) \/ Abandon(h)
         \/ \E e \in Events : Settle(h, e)
  PROVE  WakeInv'
<1>1. UNCHANGED <<pending, ready, retryAll, forgotten>> /\ AnyReady' = AnyReady
  BY DEF Listen, StartPolling, StopWaiting, Abandon, Settle, queue, AnyReady, IsReady
<1>2. Ranges'
  BY <1>1 DEF WakeInv, Ranges, Waits, Listen, StartPolling, StopWaiting, Abandon, Settle
<1>3. \A g \in Syncs : wait'[g] = "polling" => wait[g] = "polling" \/ ~AnyReady
  BY DEF WakeInv, Ranges, Listen, StartPolling, StopWaiting, Abandon, Settle
<1> QED BY <1>1, <1>2, <1>3 DEF WakeInv, ReadyMeansWaiting, NoSleepOnReady

\* A restart empties the queue and ends every sync.
LEMMA RestartWake == ASSUME WakeInv, LoseQueue PROVE WakeInv'
BY DEF WakeInv, Ranges, ReadyMeansWaiting, NoSleepOnReady, AnyReady, Waits, LoseQueue

\* Every step of the queue preserves WakeInv.
LEMMA NextWake == WakeInv /\ [QueueNext]_queueVars => WakeInv'
<1> SUFFICES ASSUME WakeInv, [QueueNext]_queueVars PROVE WakeInv'
  OBVIOUS
<1>1. CASE UNCHANGED queueVars
  BY <1>1 DEF queueVars, queue, WakeInv, Ranges, ReadyMeansWaiting, NoSleepOnReady,
              AnyReady, IsReady
<1>2. CASE QueueNext
  BY <1>2, TrackWake, NoteKeysWake, BulkImportWake, TakeWake, RequeueWake, WaiterWake,
     RestartWake DEF QueueNext
<1> QED BY <1>1, <1>2

\* No lost wake-up (handle_sync's "listen before looking"): until MAX_PENDING is
\* exceeded, no sync long-polls upstream while a placeholder can be repaired.
THEOREM NoLostWakeUp == QueueSpec => []NoSleepOnReady
<1>1. QueueInit => WakeInv
  BY DEF QueueInit, WakeInv, Ranges, ReadyMeansWaiting, NoSleepOnReady, AnyReady, Waits
<1>2. WakeInv => NoSleepOnReady
  BY DEF WakeInv
<1> QED BY <1>1, <1>2, NextWake, PTL DEF QueueSpec

\* note_room_keys forgets keys nobody waits for: until MAX_PENDING is exceeded,
\* remembered keys and a due bulk retry always have a placeholder to repair.
THEOREM KeysHaveWaiters == QueueSpec => []ReadyMeansWaiting
<1>1. QueueInit => WakeInv
  BY DEF QueueInit, WakeInv, Ranges, ReadyMeansWaiting, NoSleepOnReady, AnyReady, Waits
<1>2. WakeInv => ReadyMeansWaiting
  BY DEF WakeInv
<1> QED BY <1>1, <1>2, NextWake, PTL DEF QueueSpec

-----------------------------------------------------------------------------
(* The types of the queue *)

\* track: what is pushed out of the order is pushed out of `pending' too.
LEMMA TrackType ==
  ASSUME QueueTypeOK, NEW e \in Events, Track(e)
  PROVE  QueueTypeOK'
<1>1. UNCHANGED <<ready, retryAll, wait, taken>>
  BY DEF Track
<1>2. CASE e \in pending
  BY <1>1, <1>2 DEF Track, QueueTypeOK, InOrder
<1>3. CASE e \notin pending
  <2> DEFINE longer == Append(order, e)
             n == Len(order) + 1
             excess == IF n > MaxPending THEN n - MaxPending ELSE 0
             popped == {longer[i] : i \in 1 .. excess}
  <2>1. /\ longer \in Seq(Events) /\ Len(longer) = n /\ n \in Nat \ {0}
        /\ excess \in Nat /\ excess < n
        /\ longer[n] = e /\ \A i \in DOMAIN order : i \in 1..n /\ longer[i] = order[i]
    BY BoundAssumption DEF QueueTypeOK
  <2>2. /\ order' = SubSeq(longer, excess + 1, Len(longer))
        /\ pending' = (pending \cup {e}) \ popped
        /\ forgotten' = forgotten \cup popped
    BY <1>3, <2>1 DEF Track
  <2> HIDE DEF longer, n, excess
  <2>3. /\ order' \in Seq(Events) /\ Len(order') = n - excess
        /\ \A i \in 1..n : i > excess => i - excess \in DOMAIN order'
                                         /\ order'[i - excess] = longer[i]
    BY <2>1, <2>2
  <2>4. forgotten' \subseteq Events
    BY <2>1, <2>2 DEF QueueTypeOK
  <2>5. ASSUME NEW x \in pending' PROVE x \in Events \cap InOrder'
    <3>1. PICK i \in 1..n : longer[i] = x
      <4>1. n \in 1..n
        BY <2>1
      <4> QED BY <2>1, <2>2, <4>1 DEF QueueTypeOK, InOrder
    <3>2. i > excess
      BY <2>1, <2>2, <3>1
    <3> QED BY <2>2, <2>3, <3>1, <3>2 DEF QueueTypeOK, InOrder
  <2> QED BY <1>1, <2>3, <2>4, <2>5 DEF QueueTypeOK
<1> QED BY <1>2, <1>3

\* take_ready: what stays pending stays in the order.
LEMMA TakeType ==
  ASSUME QueueTypeOK, NEW h \in Syncs, TakeReady(h)
  PROVE  QueueTypeOK'
<1> DEFINE now == {e \in pending : IsReady(e)}
<1>1. /\ taken' = [taken EXCEPT ![h] = now \cap InOrder]
      /\ pending' = pending \ (now \cap InOrder) /\ order' = Without(order, now)
      /\ ready' = {} /\ retryAll' = FALSE /\ UNCHANGED <<wait, forgotten>>
  BY Zenon DEF TakeReady
<1>2. now \subseteq Events /\ order \in Seq(Events) /\ pending \subseteq Events \cap InOrder
  BY DEF QueueTypeOK
<1> HIDE DEF now
<1>3. /\ order' \in Seq(Events)
      /\ \A i \in 1..Len(order) : order[i] \notin now =>
           \E j \in DOMAIN order' : order'[j] = order[i]
  BY <1>1, <1>2, WithoutKeeps
<1>4. pending' \subseteq Events \cap InOrder'
  BY <1>1, <1>2, <1>3 DEF InOrder
<1> QED BY <1>1, <1>2, <1>3, <1>4 DEF QueueTypeOK

\* requeue: a repair put back is at the end of the order.
LEMMA RequeueType ==
  ASSUME QueueTypeOK, NEW h \in Syncs, NEW e \in Events, Requeue(h, e)
  PROVE  QueueTypeOK'
<1>1. /\ order' \in Seq(Events) /\ Len(order) + 1 \in DOMAIN order'
      /\ order'[Len(order) + 1] = e
      /\ \A i \in DOMAIN order : i \in DOMAIN order' /\ order'[i] = order[i]
  BY DEF Requeue, QueueTypeOK
<1>2. e \in InOrder' /\ InOrder \subseteq InOrder'
  BY <1>1 DEF InOrder
<1> QED BY <1>1, <1>2 DEF Requeue, QueueTypeOK

\* The steps that leave the order alone.
LEMMA OtherType ==
  ASSUME QueueTypeOK,
         \/ \E new \in SUBSET Sessions : NoteRoomKeys(new)
         \/ NoteBulkImport \/ LoseQueue
         \/ \E h \in Syncs :
              \/ Listen(h) \/ StartPolling(h) \/ StopWaiting(h) \/ Abandon(h)
              \/ \E e \in Events : Settle(h, e)
  PROVE  QueueTypeOK'
<1>1. CASE \E new \in SUBSET Sessions : NoteRoomKeys(new)
  BY <1>1 DEF NoteRoomKeys, NotifyWaiters, QueueTypeOK, InOrder, Waits
<1>2. CASE NoteBulkImport
  BY <1>2 DEF NoteBulkImport, NotifyWaiters, QueueTypeOK, InOrder, Waits
<1>3. CASE LoseQueue
  <2>1. /\ pending' = {} /\ order' = <<>> /\ ready' = {} /\ retryAll' = FALSE
        /\ forgotten' = forgotten
    BY <1>3 DEF LoseQueue
  <2>2. wait' \in [Syncs -> Waits] /\ taken' \in [Syncs -> SUBSET Events]
    BY <1>3 DEF LoseQueue, Waits
  <2>3. <<>> \in Seq(Events)
    OBVIOUS
  <2> QED BY <2>1, <2>2, <2>3 DEF QueueTypeOK
<1>4. ASSUME NEW h \in Syncs,
             \/ Listen(h) \/ StartPolling(h) \/ StopWaiting(h) \/ Abandon(h)
             \/ \E e \in Events : Settle(h, e)
      PROVE  QueueTypeOK'
  <2>1. UNCHANGED <<pending, order, ready, retryAll, forgotten>>
    BY <1>4 DEF Listen, StartPolling, StopWaiting, Abandon, Settle, queue
  <2>2. wait' \in [Syncs -> Waits]
    BY <1>4 DEF Listen, StartPolling, StopWaiting, Abandon, Settle, QueueTypeOK, Waits
  <2>3. taken' \in [Syncs -> SUBSET Events]
    BY <1>4 DEF Listen, StartPolling, StopWaiting, Abandon, Settle, QueueTypeOK
  <2> QED BY <2>1, <2>2, <2>3 DEF QueueTypeOK, InOrder
<1> QED BY <1>1, <1>2, <1>3, <1>4

\* Every step of the queue keeps it well-typed.
LEMMA NextType == QueueTypeOK /\ [QueueNext]_queueVars => QueueTypeOK'
<1> SUFFICES ASSUME QueueTypeOK, [QueueNext]_queueVars PROVE QueueTypeOK'
  OBVIOUS
<1>1. CASE UNCHANGED queueVars
  BY <1>1 DEF queueVars, queue, QueueTypeOK, InOrder
<1>2. CASE QueueNext
  BY <1>2, TrackType, TakeType, RequeueType, OtherType DEF QueueNext
<1> QED BY <1>1, <1>2

\* The empty queue is well-typed.
LEMMA InitType == QueueInit => QueueTypeOK
<1> SUFFICES ASSUME QueueInit PROVE QueueTypeOK
  OBVIOUS
<1>1. wait \in [Syncs -> Waits] /\ taken \in [Syncs -> SUBSET Events]
  BY DEF QueueInit, Waits
<1>2. <<>> \in Seq(Events)
  OBVIOUS
<1> QED BY <1>1, <1>2 DEF QueueInit, QueueTypeOK

\* Whoever calls the queue and in whatever order, take_ready finds every pending
\* repair through `order' (track, take_ready, requeue).
THEOREM OrderHasPending == QueueSpec => []QueueTypeOK
BY InitType, NextType, PTL DEF QueueSpec

-----------------------------------------------------------------------------
(* The handlers and the queue *)

\* A sync holds repairs only between take_ready and its answer.
HandInv ==
  /\ pc \in [Handlers -> Phases]
  /\ taken = [h \in Syncs |-> taken[h]]
  /\ incoming \in [Handlers -> SUBSET Sessions]
  /\ \A h \in Syncs : pc[h] # "repair" => taken[h] = {}

\* Which parts of HandInv a step changes: those of one handler at most.
LEMMA MoveOne ==
  ASSUME HandInv, NEW h \in Handlers, NEW phase \in Phases, Goto(h, phase),
         taken' = taken, incoming' = incoming,
         phase # "repair" /\ h \in Syncs => pc[h] # "repair" \/ taken[h] = {}
  PROVE  HandInv'
BY DEF HandInv, Goto, Handlers

\* The treatment of one event moves no handler to another phase.
LEMMA TreatHand ==
  ASSUME HandInv, NEW h \in Handlers, Treat(h)
  PROVE  HandInv'
<1> PICK e \in Events : Decrypt(h, e) \/ TrackPlaceholder(h, e)
  BY DEF Treat
<1>1. pc' = pc /\ incoming' = incoming /\ taken' = taken
  BY DEF Decrypt, TrackPlaceholder, Track, queueVars
<1> QED BY <1>1 DEF HandInv

\* A repair leaves the sync's hands one by one.
LEMMA RepairHand ==
  ASSUME HandInv, NEW h \in Syncs, Repair(h)
  PROVE  HandInv'
<1> PICK e \in Events : SkipDelivered(h, e) \/ TryInVain(h, e) \/ PutBack(h, e)
                        \/ AddEdit(h, e) \/ DropEdit(h, e)
  BY DEF Repair
<1>1. pc' = pc /\ incoming' = incoming
  BY DEF SkipDelivered, TryInVain, PutBack, AddEdit, DropEdit, answers
<1>2. taken' = taken \/ taken' = [taken EXCEPT ![h] = @ \ {e}]
  BY DEF SkipDelivered, TryInVain, PutBack, AddEdit, DropEdit, Settle, Requeue, queueVars
<1> QED BY <1>1, <1>2 DEF HandInv

\* take_ready changes what its caller holds.
LEMMA TakenByCaller ==
  ASSUME NEW h \in Syncs, TakeReady(h)
  PROVE  \E now : taken' = [taken EXCEPT ![h] = now]
BY Zenon DEF TakeReady

\* The steps of a sync up to its taking of repairs.
LEMMA SyncStepHand ==
  ASSUME HandInv, NEW h \in Syncs, SyncStep(h)
  PROVE  HandInv'
<1>0. h \in Handlers
  BY DEF Handlers
<1>1. CASE SyncStart(h)
  BY <1>0, <1>1, MoveOne DEF SyncStart, Listen, Phases
<1>2. CASE Look(h)
  BY <1>2 DEF Look, StartPolling, answers, HandInv
<1>3. CASE AnswerRepairs(h)
  BY <1>0, <1>3, MoveOne DEF AnswerRepairs, StopWaiting, Phases
<1>4. CASE UpstreamAnswers(h)
  <2>1. PICK sent \in SUBSET Sessions : incoming' = [incoming EXCEPT ![h] = sent]
    BY <1>4 DEF UpstreamAnswers
  <2>2. taken' = taken /\ pc' = [pc EXCEPT ![h] = "receive"] /\ pc[h] = "waiting"
    BY <1>4 DEF UpstreamAnswers, StopWaiting, Goto
  <2> QED BY <1>0, <2>1, <2>2 DEF HandInv, Phases, Handlers
<1>5. CASE Receive(h)
  BY <1>0, <1>5, MoveOne DEF Receive, Phases, queueVars
<1>6. CASE Note(h)
  <2>1. taken' = taken /\ pc' = [pc EXCEPT ![h] = "decrypt"] /\ pc[h] = "note"
        /\ incoming' = [incoming EXCEPT ![h] = {}]
    BY <1>6 DEF Note, NoteRoomKeys, Goto
  <2> QED BY <1>0, <2>1 DEF HandInv, Phases, Handlers
<1>7. CASE Inject(h)
  <2>1. PICK now : taken' = [taken EXCEPT ![h] = now]
    <3>1. TakeReady(h)
      BY <1>7 DEF Inject
    <3> QED BY <3>1, TakenByCaller
  <2>2. pc' = [pc EXCEPT ![h] = "repair"] /\ incoming' = incoming
    BY <1>7 DEF Inject, Goto
  <2> QED BY <1>0, <2>1, <2>2 DEF HandInv, Phases, Handlers
<1> QED BY <1>1, <1>2, <1>3, <1>4, <1>5, <1>6, <1>7 DEF SyncStep

\* A handler that ends, one way or the other, holds nothing.
LEMMA EndHand ==
  ASSUME HandInv, NEW h \in Handlers, Reply(h) \/ Cancel(h)
  PROVE  HandInv'
<1>1. /\ pc' = [pc EXCEPT ![h] = "idle"]
      /\ incoming' = [incoming EXCEPT ![h] = {}]
  BY DEF Reply, Cancel, Finish, Goto
<1>2. \/ taken' = taken /\ (h \in Syncs => taken[h] = {})
      \/ taken' = [taken EXCEPT ![h] = {}]
  BY DEF Reply, Answered, Cancel, Abandon, queueVars
<1> QED BY <1>1, <1>2 DEF HandInv, Phases, Handlers

\* Every step of the program preserves HandInv.
LEMMA NextHand == HandInv /\ [Next]_repairVars => HandInv'
<1> SUFFICES ASSUME HandInv, [Next]_repairVars PROVE HandInv'
  OBVIOUS
<1>1. CASE UNCHANGED repairVars
  BY <1>1 DEF repairVars, answers, queueVars, HandInv
<1>2. CASE Import
  BY <1>2 DEF Import, answers, queueVars, HandInv
<1>3. CASE NoteImport
  BY <1>3 DEF NoteImport, NoteBulkImport, answers, HandInv
<1>4. CASE Restart
  BY <1>4 DEF Restart, LoseQueue, HandInv, Phases, Handlers
<1>5. CASE \E h \in Histories : HistoryAnswers(h) \/ HistoryDone(h)
  <2> PICK h \in Histories : HistoryAnswers(h) \/ HistoryDone(h)
    BY <1>5
  <2>1. h \in Handlers /\ h \notin Syncs
    BY ScopeAssumption DEF Handlers
  <2> QED BY <2>1, MoveOne DEF HistoryAnswers, HistoryDone, Phases, queueVars
<1> QED BY <1>1, <1>2, <1>3, <1>4, <1>5, SyncStepHand, TreatHand, RepairHand, EndHand DEF Next

\* Every step of the program is a step of the queue or leaves it alone.
LEMMA StepIsQueueStep == HandInv /\ Next => [QueueNext]_queueVars
<1> SUFFICES ASSUME HandInv, Next PROVE [QueueNext]_queueVars
  OBVIOUS
<1>1. CASE Import \/ NoteImport \/ Restart
  BY <1>1 DEF Import, NoteImport, Restart, QueueNext
<1>2. CASE \E h \in Histories : HistoryAnswers(h) \/ HistoryDone(h)
  BY <1>2 DEF HistoryAnswers, HistoryDone
<1>3. ASSUME NEW h \in Syncs, SyncStep(h) PROVE [QueueNext]_queueVars
  <2>1. CASE SyncStart(h) \/ Look(h) \/ AnswerRepairs(h) \/ UpstreamAnswers(h) \/ Receive(h)
    BY <2>1 DEF SyncStart, Look, AnswerRepairs, UpstreamAnswers, Receive, QueueNext
  <2>2. CASE Note(h)
    <3>1. incoming[h] \in SUBSET Sessions /\ NoteRoomKeys(incoming[h])
      BY <2>2 DEF Note, HandInv, Handlers
    <3> QED BY <3>1 DEF QueueNext
  <2>3. CASE Inject(h)
    <3>1. taken[h] = {} /\ TakeReady(h)
      BY <2>3 DEF Inject, HandInv
    <3> QED BY <3>1 DEF QueueNext
  <2> QED BY <1>3, <2>1, <2>2, <2>3 DEF SyncStep
<1>4. ASSUME NEW h \in Handlers, Treat(h) PROVE [QueueNext]_queueVars
  BY <1>4 DEF Treat, Decrypt, TrackPlaceholder, QueueNext
<1>5. ASSUME NEW h \in Syncs, Repair(h) PROVE [QueueNext]_queueVars
  <2> PICK e \in Events : SkipDelivered(h, e) \/ TryInVain(h, e) \/ PutBack(h, e)
                          \/ AddEdit(h, e) \/ DropEdit(h, e)
    BY <1>5 DEF Repair
  <2>1. Settle(h, e) \/ Requeue(h, e) \/ UNCHANGED queueVars
    BY DEF SkipDelivered, TryInVain, PutBack, AddEdit, DropEdit
  <2> QED BY <2>1 DEF QueueNext
<1>6. ASSUME NEW h \in Handlers, Reply(h) \/ Cancel(h) PROVE [QueueNext]_queueVars
  BY <1>6 DEF Reply, Cancel, QueueNext
<1> QED BY <1>1, <1>2, <1>3, <1>4, <1>5, <1>6 DEF Next

\* The program starts with an empty queue and empty hands.
LEMMA Initially == Init => HandInv /\ QueueInit
BY DEF Init, QueueInit, HandInv, Phases, Handlers

\* The program uses the queue as RepairQueue allows.
THEOREM HandlersUseQueue == Spec => QueueSpec /\ UsesQueue
<1>1. HandInv /\ [Next]_repairVars => [QueueNext]_queueVars
  BY StepIsQueueStep DEF repairVars
<1> QED BY <1>1, Initially, NextHand, PTL DEF Spec, QueueSpec, UsesQueue

\* Until MAX_PENDING is exceeded, no sync of the program long-polls upstream
\* while a placeholder can be repaired (handle_sync, has_ready and woken).
THEOREM NoSyncSleepsOnReady == Spec => []NoSleepOnReady
BY HandlersUseQueue, NoLostWakeUp, PTL

\* Until MAX_PENDING is exceeded, the program keeps no session marked as ready
\* that no placeholder waits for (note_room_keys, take_ready, requeue).
THEOREM KeysStillHaveWaiters == Spec => []ReadyMeansWaiting
BY HandlersUseQueue, KeysHaveWaiters, PTL

-----------------------------------------------------------------------------
(* The types of the program *)

\* What handlers and the client hold is well-typed.
Typed ==
  /\ body \in [Handlers -> [Events -> Contents]]
  /\ edits \in [Handlers -> SUBSET Events]
  /\ keys \subseteq Sessions /\ joined \subseteq Rooms /\ importing \in BOOLEAN
  /\ view \in [Events -> {"none", "placeholder", "plain"}]
  /\ synced \subseteq Events /\ promised \subseteq Events

\* A sync listens to the queue just while it waits.
WaitsInPhase == \A h \in Syncs : wait[h] # "away" <=> pc[h] = "waiting"

\* The parts of TypeOK.
LEMMA TypeParts == TypeOK <=> QueueTypeOK /\ HandInv /\ Typed /\ WaitsInPhase
BY DEF TypeOK, QueueTypeOK, HandInv, Typed, WaitsInPhase

\* One event of a response comes to another state.
LEMMA SetType ==
  ASSUME Typed, NEW h \in Handlers, NEW e \in Events, NEW content \in Contents,
         Set(h, e, content)
  PROVE  body' \in [Handlers -> [Events -> Contents]]
BY DEF Typed, Set

\* A response arrives.
LEMMA FetchType ==
  ASSUME Typed, NEW h \in Handlers, NEW new \in SUBSET Events,
         body' = [body EXCEPT ![h] = [e \in Events |-> IF e \in new THEN "cipher" ELSE "none"]]
  PROVE  body' \in [Handlers -> [Events -> Contents]]
BY DEF Typed, Contents

\* A response that holds nothing.
LEMMA EmptyType == Empty \in [Events -> Contents]
BY DEF Empty, Contents

\* The client reads a response.
LEMMA ReplyType ==
  ASSUME Typed, NEW h \in Handlers, Reply(h)
  PROVE  Typed'
<1>1. /\ body' = [body EXCEPT ![h] = Empty] /\ edits' = [edits EXCEPT ![h] = {}]
      /\ UNCHANGED <<keys, joined, importing>>
  BY DEF Reply, Finish
<1>2. promised' \subseteq Events /\ synced' \subseteq Events
  BY DEF Reply, Typed
<1>3. view' \in [Events -> {"none", "placeholder", "plain"}]
  <2> DEFINE shown(e) ==
       CASE body[h][e] = "plain" -> "plain"
         [] body[h][e] = "placeholder" /\ view[e] = "none" -> "placeholder"
         [] e \in edits[h] /\ view[e] = "placeholder" -> "plain"
         [] OTHER -> view[e]
  <2>1. view' = [e \in Events |-> shown(e)]
    BY Zenon DEF Reply
  <2>2. ASSUME NEW e \in Events PROVE shown(e) \in {"none", "placeholder", "plain"}
    <3>1. view[e] \in {"none", "placeholder", "plain"}
      BY DEF Typed
    <3> QED BY <3>1
  <2> HIDE DEF shown
  <2> QED BY <2>1, <2>2
<1> QED BY <1>1, <1>2, <1>3, EmptyType DEF Typed

\* What a step of the program leaves of the types.
LEMMA NextTyped == TypeOK /\ Next => Typed'
<1> SUFFICES ASSUME TypeOK, Next PROVE Typed'
  OBVIOUS
<1>0. Typed /\ \A h \in Syncs : h \in Handlers
  BY TypeParts DEF Handlers
<1>1. CASE Import \/ NoteImport
  BY <1>0, <1>1 DEF Import, NoteImport, Typed, answers, client
<1>2. CASE Restart
  BY <1>0, <1>2, EmptyType DEF Restart, Typed
<1>3. ASSUME NEW h \in Syncs, SyncStep(h) PROVE Typed'
  <2>1. UNCHANGED <<edits, joined, importing, client>> /\ keys' \subseteq Sessions
    BY <1>0, <1>3 DEF SyncStep, SyncStart, Look, AnswerRepairs, UpstreamAnswers, Receive,
       Note, Inject, Typed, answers, TypeOK
  <2>2. body' \in [Handlers -> [Events -> Contents]]
    <3>1. CASE UpstreamAnswers(h)
      <4>1. PICK new \in SUBSET Events : body' = [body EXCEPT ![h] =
                           [e \in Events |-> IF e \in new THEN "cipher" ELSE "none"]]
        BY <3>1 DEF UpstreamAnswers
      <4> QED BY <1>0, <4>1, FetchType
    <3>2. CASE ~UpstreamAnswers(h)
      BY <1>0, <1>3, <3>2 DEF SyncStep, SyncStart, Look, AnswerRepairs, Receive,
         Note, Inject, Typed, answers
    <3> QED BY <3>1, <3>2
  <2> QED BY <1>0, <2>1, <2>2 DEF Typed, client
<1>4. ASSUME NEW h \in Handlers, Treat(h) PROVE Typed'
  <2>1. PICK e \in Events : Decrypt(h, e) \/ TrackPlaceholder(h, e)
    BY <1>4 DEF Treat
  <2>2. UNCHANGED <<edits, keys, importing, client>> /\ joined' \subseteq Rooms
    BY <1>0, <2>1, RoomAssumption DEF Decrypt, TrackPlaceholder, Typed
  <2>3. \E content \in Contents : Set(h, e, content)
    BY <2>1 DEF Decrypt, TrackPlaceholder, Contents
  <2> QED BY <1>0, <2>2, <2>3, SetType DEF Typed, client
<1>5. ASSUME NEW h \in Syncs, Repair(h) PROVE Typed'
  <2>1. PICK e \in Events : SkipDelivered(h, e) \/ TryInVain(h, e) \/ PutBack(h, e)
                            \/ AddEdit(h, e) \/ DropEdit(h, e)
    BY <1>5 DEF Repair
  <2>2. UNCHANGED <<keys, joined, importing, client>>
    BY <2>1 DEF SkipDelivered, TryInVain, PutBack, AddEdit, DropEdit
  <2>3. edits' \in [Handlers -> SUBSET Events]
    BY <1>0, <2>1 DEF SkipDelivered, TryInVain, PutBack, AddEdit, DropEdit, answers, Typed
  <2>4. body' = body \/ \E content \in Contents : Set(h, e, content)
    BY <2>1 DEF SkipDelivered, TryInVain, PutBack, AddEdit, DropEdit, answers, Contents
  <2> QED BY <1>0, <2>2, <2>3, <2>4, SetType DEF Typed, client
<1>6. ASSUME NEW h \in Histories, HistoryAnswers(h) \/ HistoryDone(h) PROVE Typed'
  <2>1. UNCHANGED <<edits, keys, joined, importing, client>>
    BY <1>6 DEF HistoryAnswers, HistoryDone
  <2>2. body' \in [Handlers -> [Events -> Contents]]
    <3>1. CASE HistoryAnswers(h)
      <4>1. PICK old \in SUBSET Events : body' = [body EXCEPT ![h] =
                           [e \in Events |-> IF e \in old THEN "cipher" ELSE "none"]]
        BY <3>1 DEF HistoryAnswers
      <4>2. h \in Handlers
        BY DEF Handlers
      <4> QED BY <1>0, <4>1, <4>2, FetchType
    <3>2. CASE HistoryDone(h)
      BY <1>0, <3>2 DEF HistoryDone, Typed
    <3> QED BY <1>6, <3>1, <3>2
  <2> QED BY <1>0, <2>1, <2>2 DEF Typed, client
<1>7. ASSUME NEW h \in Handlers, Cancel(h) PROVE Typed'
  BY <1>0, <1>7, EmptyType DEF Cancel, Finish, Typed, client
<1> QED BY <1>0, <1>1, <1>2, <1>3, <1>4, <1>5, <1>6, <1>7, ReplyType DEF Next

\* A step that moves a sync to or from its wait moves its place at the queue too.
LEMMA NextWaits == TypeOK /\ Next => WaitsInPhase'
<1> SUFFICES ASSUME TypeOK, Next PROVE WaitsInPhase'
  OBVIOUS
<1>0. /\ WaitsInPhase /\ HandInv /\ wait \in [Syncs -> Waits]
      /\ \A h \in Syncs : h \in Handlers /\ h \notin Histories
  BY TypeParts, ScopeAssumption DEF Handlers, QueueTypeOK
<1>1. CASE Import
  BY <1>0, <1>1 DEF Import, WaitsInPhase, answers, queueVars
<1>2. CASE NoteImport
  BY <1>0, <1>2 DEF NoteImport, NoteBulkImport, NotifyWaiters, WaitsInPhase, answers
<1>3. CASE Restart
  BY <1>0, <1>3 DEF Restart, LoseQueue, WaitsInPhase
<1>4. ASSUME NEW h \in Syncs, SyncStep(h) PROVE WaitsInPhase'
  <2>1. CASE SyncStart(h) \/ Look(h) \/ AnswerRepairs(h) \/ UpstreamAnswers(h)
    BY <1>0, <2>1 DEF SyncStart, Look, AnswerRepairs, UpstreamAnswers, Listen, StartPolling,
       StopWaiting, Goto, WaitsInPhase, HandInv, answers
  <2>2. CASE Receive(h) \/ Inject(h)
    <3>1. wait' = wait
      BY <2>2 DEF Receive, Inject, TakeReady, queueVars
    <3>2. pc[h] # "waiting" /\ \E phase : phase # "waiting" /\ pc' = [pc EXCEPT ![h] = phase]
      BY <2>2 DEF Receive, Inject, Goto
    <3> QED BY <1>0, <3>1, <3>2 DEF WaitsInPhase, HandInv
  <2>3. CASE Note(h)
    BY <1>0, <2>3 DEF Note, NoteRoomKeys, NotifyWaiters, Goto, WaitsInPhase, HandInv
  <2> QED BY <1>4, <2>1, <2>2, <2>3 DEF SyncStep
<1>5. ASSUME NEW h \in Handlers, Treat(h) PROVE WaitsInPhase'
  BY <1>0, <1>5 DEF Treat, Decrypt, TrackPlaceholder, Track, queueVars, WaitsInPhase
<1>6. ASSUME NEW h \in Syncs, Repair(h) PROVE WaitsInPhase'
  <2>1. wait' = wait /\ pc' = pc
    BY <1>6 DEF Repair, SkipDelivered, TryInVain, PutBack, AddEdit, DropEdit, Settle, Requeue,
       queueVars, answers
  <2> QED BY <1>0, <2>1 DEF WaitsInPhase
<1>7. ASSUME NEW h \in Histories, HistoryAnswers(h) \/ HistoryDone(h) PROVE WaitsInPhase'
  <2>1. wait' = wait /\ \A g \in Syncs : pc'[g] = pc[g]
    BY <1>0, <1>7 DEF HistoryAnswers, HistoryDone, Goto, queueVars, HandInv
  <2> QED BY <1>0, <2>1 DEF WaitsInPhase
<1>8. ASSUME NEW h \in Handlers, Reply(h) PROVE WaitsInPhase'
  <2>1. wait' = wait /\ pc' = [pc EXCEPT ![h] = "idle"] /\ (h \in Syncs => pc[h] = "repair")
    BY <1>8 DEF Reply, Finish, Goto, Answered, queueVars
  <2> QED BY <1>0, <2>1 DEF WaitsInPhase, HandInv
<1>9. ASSUME NEW h \in Handlers, Cancel(h) PROVE WaitsInPhase'
  <2>1. /\ pc' = [pc EXCEPT ![h] = "idle"]
        /\ wait' = IF h \in Syncs THEN [wait EXCEPT ![h] = "away"] ELSE wait
    BY <1>9 DEF Cancel, Finish, Goto, Abandon, queueVars
  <2> QED BY <1>0, <2>1 DEF WaitsInPhase, HandInv
<1> QED BY <1>1, <1>2, <1>3, <1>4, <1>5, <1>6, <1>7, <1>8, <1>9 DEF Next

\* Every step of the program keeps it well-typed.
LEMMA NextTypeOK == TypeOK /\ [Next]_repairVars => TypeOK'
<1> SUFFICES ASSUME TypeOK, [Next]_repairVars PROVE TypeOK'
  OBVIOUS
<1>1. CASE UNCHANGED repairVars
  BY <1>1 DEF repairVars, TypeOK, QueueTypeOK, InOrder, queueVars, queue, answers, client
<1>2. CASE Next
  <2>1. QueueTypeOK /\ HandInv
    BY TypeParts
  <2>2. QueueTypeOK' /\ HandInv'
    BY <1>2, <2>1, NextHand, StepIsQueueStep, NextType
  <2>3. Typed' /\ WaitsInPhase'
    BY <1>2, NextTyped, NextWaits
  <2> QED BY <2>2, <2>3 DEF TypeOK, HandInv, Typed, WaitsInPhase
<1> QED BY <1>1, <1>2

\* Every reachable state is well-typed; a sync holds repairs only while it
\* repairs, and listens to the queue just while it waits (handle_sync, inject).
THEOREM TypeCorrect == Spec => []TypeOK
<1>1. Init => TypeOK
  <2> SUFFICES ASSUME Init PROVE Typed /\ WaitsInPhase
    BY Initially, InitType, TypeParts
  <2>1. WaitsInPhase
    BY DEF Init, QueueInit, WaitsInPhase, Handlers
  <2>2. Typed
    BY EmptyType DEF Init, Typed
  <2> QED BY <2>1, <2>2
<1> QED BY <1>1, NextTypeOK, PTL DEF Spec

-----------------------------------------------------------------------------
(* One answer at a time: no key is missed *)

\* With one answer at a time, one handler at most has an answer in its hands,
\* and none while keys are imported.
OneBusy == (\A g, h \in Busy : g = h) /\ (importing => Busy = {})

\* What a response holds at each phase; an event fails for want of its key, and
\* no key comes while the handler has it in its hands.
GoodBody(h) ==
  /\ pc[h] \in {"idle", "waiting"} => body[h] = Empty /\ edits[h] = {}
  /\ \A e \in Events :
       /\ body[h][e] \in {"failed", "missed", "placeholder"} => ~HasKey(e)
       /\ body[h][e] \notin {"none", "cipher"} => pc[h] \in {"decrypt", "repair", "reply"}
       /\ body[h][e] \in {"cipher", "failed"} => pc[h] \notin {"repair", "reply"}

\* The inductive invariant of KeyNeverMissed.
SerialInv == OneBusy /\ (\A h \in Handlers : GoodBody(h)) /\ KeyNeverMissed

\* A handler begins to be busy only when nobody is.
LEMMA BusyMove ==
  ASSUME TypeOK, OneBusy, NEW h \in Handlers, NEW phase \in Phases, Goto(h, phase),
         importing' = importing,
         h \in Busy \/ phase \in {"idle", "waiting"} \/ (Busy = {} /\ ~importing)
  PROVE  OneBusy'
<1>1. pc' = [pc EXCEPT ![h] = phase] /\ pc \in [Handlers -> Phases]
  BY DEF Goto, TypeOK
<1>2. \A g \in Handlers : g # h => pc'[g] = pc[g]
  BY <1>1
<1>3. pc'[h] = phase
  BY <1>1
<1>4. \A g \in Busy' : g \in Handlers /\ (g # h => g \in Busy)
  BY <1>2 DEF Busy
<1>5. h \in Busy' => h \in Busy \/ (Busy = {} /\ ~importing)
  BY <1>3 DEF Busy
<1> QED BY <1>4, <1>5 DEF OneBusy

\* Every step leaves one handler busy at most.
LEMMA BusyStep ==
  ASSUME TypeOK, OneBusy, Serial, Next
  PROVE  OneBusy'
<1>0. \A h \in Syncs \cup Histories : h \in Handlers
  BY DEF Handlers
<1>1. CASE Import
  BY <1>1 DEF Import, Turn, OneBusy, Busy, answers
<1>2. CASE NoteImport
  BY <1>2 DEF NoteImport, OneBusy, Busy, answers
<1>3. CASE Restart
  BY <1>3 DEF Restart, OneBusy, Busy
<1>4. ASSUME NEW h \in Syncs, SyncStep(h) PROVE OneBusy'
  <2>1. CASE Look(h)
    BY <2>1 DEF Look, OneBusy, Busy, answers
  <2>2. CASE ~Look(h)
    <3>1. importing' = importing
      BY <1>4, <2>2 DEF SyncStep, SyncStart, AnswerRepairs, UpstreamAnswers, Receive, Note, Inject
    <3>2. \E phase \in Phases : Goto(h, phase) /\
            (h \in Busy \/ phase \in {"idle", "waiting"} \/ (Busy = {} /\ ~importing))
      BY <1>0, <1>4, <2>2 DEF SyncStep, SyncStart, AnswerRepairs, UpstreamAnswers, Receive, Note,
         Inject, Turn, Phases, Busy
    <3> QED BY <1>0, <3>1, <3>2, BusyMove
  <2> QED BY <2>1, <2>2
<1>5. ASSUME NEW h \in Handlers, Treat(h) PROVE OneBusy'
  BY <1>5 DEF Treat, Decrypt, TrackPlaceholder, OneBusy, Busy
<1>6. ASSUME NEW h \in Syncs, Repair(h) PROVE OneBusy'
  BY <1>6 DEF Repair, SkipDelivered, TryInVain, PutBack, AddEdit, DropEdit, OneBusy, Busy, answers
<1>7. ASSUME NEW h \in Histories, HistoryAnswers(h) \/ HistoryDone(h) PROVE OneBusy'
  <2>1. \E phase \in Phases : Goto(h, phase) /\ (h \in Busy \/ (Busy = {} /\ ~importing))
    BY <1>0, <1>7 DEF HistoryAnswers, HistoryDone, Turn, Phases, Busy
  <2>2. importing' = importing
    BY <1>7 DEF HistoryAnswers, HistoryDone
  <2> QED BY <1>0, <2>1, <2>2, BusyMove
<1>8. ASSUME NEW h \in Handlers, Reply(h) \/ Cancel(h) PROVE OneBusy'
  <2>1. Goto(h, "idle") /\ importing' = importing
    BY <1>8 DEF Reply, Cancel, Finish
  <2> QED BY <2>1, BusyMove DEF Phases
<1> QED BY <1>1, <1>2, <1>3, <1>4, <1>5, <1>6, <1>7, <1>8 DEF Next

\* A handler that takes no step keeps its response; keys leave an idle one as it is.
LEMMA BodyFrame ==
  ASSUME NEW g \in Handlers, GoodBody(g), body'[g] = body[g], edits'[g] = edits[g],
         pc'[g] = pc[g],
         UNCHANGED keys \/ g \notin Busy
  PROVE  GoodBody(g)'
<1>1. CASE UNCHANGED keys
  BY <1>1 DEF GoodBody, HasKey
<1>2. CASE g \notin Busy
  BY <1>2 DEF GoodBody, Busy, Empty
<1> QED BY <1>1, <1>2

\* Every step leaves each response as GoodBody says.
LEMMA BodyStep ==
  ASSUME TypeOK, OneBusy, Serial, \A h \in Handlers : GoodBody(h), Next,
         NEW g \in Handlers
  PROVE  GoodBody(g)'
<1>0. /\ Typed /\ HandInv /\ \A h \in Syncs \cup Histories : h \in Handlers
      /\ pc \in [Handlers -> Phases] /\ body \in [Handlers -> [Events -> Contents]]
      /\ edits \in [Handlers -> SUBSET Events]
  BY DEF Handlers, TypeOK, Typed, HandInv, QueueTypeOK
<1>1. CASE Import
  BY <1>1, BodyFrame DEF Import, Turn, answers
<1>2. CASE NoteImport
  BY <1>2, BodyFrame DEF NoteImport, answers
<1>3. CASE Restart
  BY <1>3 DEF Restart, GoodBody, Empty
<1>4. ASSUME NEW h \in Syncs, SyncStep(h) PROVE GoodBody(g)'
  <2>1. CASE g # h
    <3>1. body'[g] = body[g] /\ edits'[g] = edits[g] /\ pc'[g] = pc[g]
      BY <1>0, <1>4, <2>1 DEF SyncStep, SyncStart, Look, AnswerRepairs, UpstreamAnswers, Receive,
         Note, Inject, Goto, answers
    <3>2. UNCHANGED keys \/ h \in Busy
      BY <1>0, <1>4 DEF SyncStep, SyncStart, Look, AnswerRepairs, UpstreamAnswers, Receive,
         Note, Inject, Busy
    <3> QED BY <2>1, <3>1, <3>2, BodyFrame DEF OneBusy
  <2>2. CASE g = h /\ UpstreamAnswers(h)
    <3>1. pc'[h] = "receive" /\ edits' = edits
      BY <1>0, <2>2 DEF UpstreamAnswers, Goto
    <3>2. \A e \in Events : body'[h][e] \in {"none", "cipher"}
      BY <1>0, <2>2 DEF UpstreamAnswers
    <3> QED BY <2>2, <3>1, <3>2 DEF GoodBody
  <2>3. CASE g = h /\ ~UpstreamAnswers(h)
    <3>1. body' = body /\ edits' = edits
      BY <1>4, <2>3 DEF SyncStep, SyncStart, Look, AnswerRepairs, Receive, Note, Inject, answers
    <3>2. CASE SyncStart(h) \/ Look(h) \/ AnswerRepairs(h)
      <4>1. body[h] = Empty /\ edits[h] = {}
        BY <1>0, <3>2 DEF SyncStart, Look, AnswerRepairs, GoodBody
      <4> QED BY <2>3, <3>1, <4>1 DEF GoodBody, Empty
    <3>3. CASE Receive(h)
      <4>1. pc[h] = "receive" /\ pc'[h] = "note"
        BY <1>0, <3>3 DEF Receive, Goto
      <4>2. \A e \in Events : body[h][e] \in {"none", "cipher"}
        BY <1>0, <4>1 DEF GoodBody
      <4> QED BY <2>3, <3>1, <4>1, <4>2 DEF GoodBody
    <3>4. CASE Note(h)
      <4>1. pc[h] = "note" /\ pc'[h] = "decrypt" /\ keys' = keys
        BY <1>0, <3>4 DEF Note, Goto
      <4> QED BY <1>0, <2>3, <3>1, <4>1 DEF GoodBody, HasKey
    <3>5. CASE Inject(h)
      <4>1. pc[h] = "decrypt" /\ pc'[h] = "repair" /\ keys' = keys /\ Decrypted(h)
        BY <1>0, <3>5 DEF Inject, Goto
      <4> QED BY <1>0, <2>3, <3>1, <4>1 DEF GoodBody, HasKey, Decrypted
    <3> QED BY <1>4, <2>3, <3>2, <3>3, <3>4, <3>5 DEF SyncStep
  <2> QED BY <2>1, <2>2, <2>3
<1>5. ASSUME NEW h \in Handlers, Treat(h) PROVE GoodBody(g)'
  <2>1. PICK e \in Events : Decrypt(h, e) \/ TrackPlaceholder(h, e)
    BY <1>5 DEF Treat
  <2>2. UNCHANGED <<keys, edits, pc>>
    BY <2>1 DEF Decrypt, TrackPlaceholder
  <2>3. PICK content : body' = [body EXCEPT ![h][e] = content]
    BY <2>1 DEF Decrypt, TrackPlaceholder, Set
  <2>4. CASE g # h
    BY <2>2, <2>3, <2>4, <1>0, BodyFrame
  <2>5. CASE g = h
    <3>1. pc[h] = "decrypt" /\ content \in {"plain", "failed", "placeholder"}
          /\ (content # "plain" => ~HasKey(e))
      <4>1. CASE Decrypt(h, e)
        <5>1. body'[h][e] = IF HasKey(e) THEN "plain" ELSE "failed"
          BY <1>0, <4>1 DEF Decrypt, Set
        <5>2. body'[h][e] = content
          BY <1>0, <2>3
        <5> QED BY <4>1, <5>1, <5>2 DEF Decrypt
      <4>2. CASE TrackPlaceholder(h, e)
        <5>1. body'[h][e] = "placeholder" /\ body[h][e] = "failed"
          BY <1>0, <4>2 DEF TrackPlaceholder, Set
        <5>2. body'[h][e] = content
          BY <1>0, <2>3
        <5>3. pc[h] = "decrypt" /\ ~HasKey(e)
          BY <5>1 DEF GoodBody
        <5> QED BY <5>1, <5>2, <5>3
      <4> QED BY <2>1, <4>1, <4>2
    <3>2. \A d \in Events : body'[h][d] = IF d = e THEN content ELSE body[h][d]
      BY <1>0, <2>3
    <3> QED BY <2>2, <2>5, <3>1, <3>2 DEF GoodBody, HasKey
  <2> QED BY <2>4, <2>5
<1>6. ASSUME NEW h \in Syncs, Repair(h) PROVE GoodBody(g)'
  <2>1. PICK e \in Events : SkipDelivered(h, e) \/ TryInVain(h, e) \/ PutBack(h, e)
                            \/ AddEdit(h, e) \/ DropEdit(h, e)
    BY <1>6 DEF Repair
  <2>2. UNCHANGED <<keys, pc>>
    BY <2>1 DEF SkipDelivered, TryInVain, PutBack, AddEdit, DropEdit, answers
  <2>3. \A d \in Handlers : d # h => body'[d] = body[d] /\ edits'[d] = edits[d]
    BY <1>0, <2>1 DEF SkipDelivered, TryInVain, PutBack, AddEdit, DropEdit, answers, Set
  <2>4. CASE g # h
    BY <2>2, <2>3, <2>4, BodyFrame
  <2>5. CASE g = h
    <3>1. pc[h] = "repair"
      BY <1>0, <2>1 DEF SkipDelivered, TryInVain, PutBack, AddEdit, DropEdit, Repairing, Requeue,
         HandInv
    <3>2. \A d \in Events : \/ body'[h][d] = body[h][d]
                            \/ body'[h][d] = "none"
                            \/ body'[h][d] = "missed" /\ ~HasKey(d)
      BY <1>0, <2>1 DEF SkipDelivered, TryInVain, PutBack, AddEdit, DropEdit, answers, Set
    <3> QED BY <2>2, <2>5, <3>1, <3>2 DEF GoodBody, HasKey
  <2> QED BY <2>4, <2>5
<1>7. ASSUME NEW h \in Histories, HistoryAnswers(h) \/ HistoryDone(h) PROVE GoodBody(g)'
  <2>1. UNCHANGED <<keys, edits>>
    BY <1>7 DEF HistoryAnswers, HistoryDone
  <2>2. CASE g # h
    <3>1. body'[g] = body[g] /\ pc'[g] = pc[g]
      BY <1>0, <1>7, <2>2 DEF HistoryAnswers, HistoryDone, Goto
    <3> QED BY <2>1, <3>1, BodyFrame
  <2>3. CASE g = h /\ HistoryAnswers(h)
    <3>1. pc'[h] = "decrypt"
      BY <1>0, <2>3 DEF HistoryAnswers, Goto
    <3>2. \A e \in Events : body'[h][e] \in {"none", "cipher"}
      BY <1>0, <2>3 DEF HistoryAnswers
    <3> QED BY <2>3, <3>1, <3>2 DEF GoodBody
  <2>4. CASE g = h /\ HistoryDone(h)
    <3>1. body' = body /\ pc[h] = "decrypt" /\ pc'[h] = "reply" /\ Decrypted(h)
      BY <1>0, <2>4 DEF HistoryDone, Goto
    <3> QED BY <2>1, <2>4, <3>1 DEF GoodBody, HasKey, Decrypted
  <2> QED BY <1>7, <2>2, <2>3, <2>4
<1>8. ASSUME NEW h \in Handlers, Reply(h) \/ Cancel(h) PROVE GoodBody(g)'
  <2>1. /\ pc' = [pc EXCEPT ![h] = "idle"] /\ body' = [body EXCEPT ![h] = Empty]
        /\ edits' = [edits EXCEPT ![h] = {}] /\ keys' = keys
    BY <1>8 DEF Reply, Cancel, Finish, Goto
  <2>2. CASE g # h
    BY <1>0, <2>1, <2>2, BodyFrame
  <2>3. CASE g = h
    BY <1>0, <2>1, <2>3 DEF GoodBody, Empty
  <2> QED BY <2>2, <2>3
<1> QED BY <1>1, <1>2, <1>3, <1>4, <1>5, <1>6, <1>7, <1>8 DEF Next

\* A step that tells nobody of keys leaves what is untold of them untold.
LEMMA MissFrame ==
  ASSUME KeyNeverMissed, pending \subseteq Events, UNCHANGED <<keys, ready, retryAll, importing>>,
         \A e \in pending' : e \in pending \/ ~HasKey(e),
         \A e \in Events : Untold(e) => Untold(e)'
  PROVE  KeyNeverMissed'
BY DEF KeyNeverMissed, HasKey, IsReady

\* What is untold stays so while the sync that has it to tell does not move.
LEMMA UntoldMove ==
  ASSUME TypeOK, NEW h \in Handlers, importing' = importing,
         \A g \in Handlers : g # h => pc'[g] = pc[g] /\ incoming'[g] = incoming[g],
         pc[h] # "note" \/ (pc'[h] = "note" /\ incoming'[h] = incoming[h])
  PROVE  \A e \in Events : Untold(e) => Untold(e)'
BY DEF Untold, Handlers

\* No step makes a pending repair miss its key: an event is tracked or put back
\* only while its key is not there.
LEMMA MissStep ==
  ASSUME TypeOK, OneBusy, Serial, \A h \in Handlers : GoodBody(h), KeyNeverMissed, Next
  PROVE  KeyNeverMissed'
<1>0. /\ \A h \in Syncs \cup Histories : h \in Handlers
      /\ pc \in [Handlers -> Phases] /\ body \in [Handlers -> [Events -> Contents]]
      /\ incoming \in [Handlers -> SUBSET Sessions]
      /\ pending \subseteq Events \cap InOrder
      /\ \A h \in Syncs : pc[h] # "repair" => taken[h] = {}
      /\ \A h \in Histories : h \notin Syncs
  BY ScopeAssumption DEF Handlers, TypeOK, QueueTypeOK
<1>1. CASE Import
  <2>1. importing' /\ UNCHANGED pending
    BY <1>1 DEF Import, queueVars, queue
  <2> QED BY <2>1 DEF KeyNeverMissed, Untold
<1>2. CASE NoteImport
  <2>1. UNCHANGED <<pending, keys>> /\ (pending # {} => retryAll')
    BY <1>2 DEF NoteImport, NoteBulkImport
  <2> QED BY <2>1 DEF KeyNeverMissed, IsReady
<1>3. CASE Restart
  BY <1>3 DEF Restart, LoseQueue, KeyNeverMissed
<1>4. ASSUME NEW h \in Syncs, SyncStep(h) PROVE KeyNeverMissed'
  <2>1. CASE SyncStart(h) \/ Look(h) \/ AnswerRepairs(h) \/ UpstreamAnswers(h)
    <3>1. UNCHANGED <<keys, importing, pending, ready, retryAll>>
      BY <2>1 DEF SyncStart, Look, AnswerRepairs, UpstreamAnswers, Listen, StartPolling,
         StopWaiting, queue
    <3>2. /\ \A g \in Handlers : g # h => pc'[g] = pc[g] /\ incoming'[g] = incoming[g]
          /\ pc[h] # "note"
      BY <1>0, <2>1 DEF SyncStart, Look, AnswerRepairs, UpstreamAnswers, Goto, answers
    <3> QED BY <1>0, <3>1, <3>2, UntoldMove, MissFrame
  <2>2. CASE Receive(h)
    <3>1. /\ UNCHANGED <<pending, ready, retryAll, importing, incoming>>
          /\ keys' = keys \cup incoming[h] /\ pc' = [pc EXCEPT ![h] = "note"] /\ pc[h] = "receive"
      BY <2>2 DEF Receive, queueVars, queue, Goto
    <3>2. \A e \in Events : Untold(e) => Untold(e)'
      BY <1>0, <3>1, UntoldMove
    <3>3. ASSUME NEW e \in pending, SessionOf[e] \in incoming[h] PROVE Untold(e)'
      BY <1>0, <3>1, <3>3 DEF Untold
    <3> QED BY <1>0, <3>1, <3>2, <3>3 DEF KeyNeverMissed, HasKey, IsReady
  <2>3. CASE Note(h)
    <3>1. UNCHANGED <<pending, retryAll, keys>> /\ pc[h] = "note" /\ NoteRoomKeys(incoming[h])
      BY <2>3 DEF Note, NoteRoomKeys
    <3>2. \A e \in Events : Untold(e) => SessionOf[e] \in incoming[h]
      <4>1. ~importing /\ \A g \in Syncs : pc[g] = "note" => g = h
        BY <1>0, <3>1 DEF OneBusy, Busy
      <4> QED BY <4>1 DEF Untold
    <3>3. \A e \in pending : HasKey(e) => retryAll \/ SessionOf[e] \in ready \cup incoming[h]
      BY <1>0, <3>2 DEF KeyNeverMissed, IsReady
    <3>4. \A e \in pending : HasKey(e) => retryAll \/ SessionOf[e] \in ready'
      BY <3>1, <3>3 DEF NoteRoomKeys
    <3> QED BY <3>1, <3>4 DEF KeyNeverMissed, IsReady, HasKey
  <2>4. CASE Inject(h)
    <3>1. /\ UNCHANGED <<importing, incoming, keys>> /\ pc' = [pc EXCEPT ![h] = "repair"]
          /\ pc[h] = "decrypt" /\ TakeReady(h)
      BY <2>4 DEF Inject, Goto
    <3>2. pending' = pending \ ({e \in pending : IsReady(e)} \cap InOrder)
      BY <3>1, Zenon DEF TakeReady
    <3>3. \A e \in pending' : e \in pending /\ ~IsReady(e)
      BY <1>0, <3>2
    <3>4. \A e \in Events : Untold(e) => Untold(e)'
      BY <1>0, <3>1, UntoldMove
    <3> QED BY <1>0, <3>1, <3>3, <3>4 DEF KeyNeverMissed, HasKey
  <2> QED BY <1>4, <2>1, <2>2, <2>3, <2>4 DEF SyncStep
<1>5. ASSUME NEW h \in Handlers, Treat(h) PROVE KeyNeverMissed'
  <2>1. PICK e \in Events : Decrypt(h, e) \/ TrackPlaceholder(h, e)
    BY <1>5 DEF Treat
  <2>2. UNCHANGED <<keys, importing, incoming, pc, ready, retryAll>>
    BY <2>1 DEF Decrypt, TrackPlaceholder, Track, queueVars, queue
  <2>3. \A d \in pending' : d \in pending \/ ~HasKey(d)
    BY <2>1 DEF Decrypt, TrackPlaceholder, Track, queueVars, queue, GoodBody
  <2> QED BY <1>0, <2>2, <2>3, UntoldMove, MissFrame
<1>6. ASSUME NEW h \in Syncs, Repair(h) PROVE KeyNeverMissed'
  <2>1. PICK e \in Events : SkipDelivered(h, e) \/ TryInVain(h, e) \/ PutBack(h, e)
                            \/ AddEdit(h, e) \/ DropEdit(h, e)
    BY <1>6 DEF Repair
  <2>2. UNCHANGED <<keys, importing, incoming, pc, ready, retryAll>>
    BY <2>1 DEF SkipDelivered, TryInVain, PutBack, AddEdit, DropEdit, Settle, Requeue,
       queueVars, queue, answers
  <2>3. \A d \in pending' : d \in pending \/ ~HasKey(d)
    BY <1>0, <2>1 DEF SkipDelivered, TryInVain, PutBack, AddEdit, DropEdit, Settle, Requeue,
       queueVars, queue, GoodBody
  <2> QED BY <1>0, <2>2, <2>3, UntoldMove, MissFrame
<1>7. ASSUME NEW h \in Histories, HistoryAnswers(h) \/ HistoryDone(h) PROVE KeyNeverMissed'
  <2>1. UNCHANGED <<keys, importing, incoming, pending, ready, retryAll>>
    BY <1>7 DEF HistoryAnswers, HistoryDone, queueVars, queue
  <2>2. pc[h] # "note" /\ \A g \in Handlers : g # h => pc'[g] = pc[g]
    BY <1>0, <1>7 DEF HistoryAnswers, HistoryDone, Goto
  <2> QED BY <1>0, <2>1, <2>2, UntoldMove, MissFrame
<1>8. ASSUME NEW h \in Handlers, Reply(h) \/ Cancel(h) PROVE KeyNeverMissed'
  <2>1. /\ UNCHANGED <<keys, importing, pending, ready, retryAll>>
        /\ pc' = [pc EXCEPT ![h] = "idle"] /\ incoming' = [incoming EXCEPT ![h] = {}]
        /\ pc[h] # "note"
    BY <1>8 DEF Reply, Answered, Cancel, Abandon, Finish, Goto, queueVars, queue
  <2> QED BY <1>0, <2>1, UntoldMove, MissFrame
<1> QED BY <1>1, <1>2, <1>3, <1>4, <1>5, <1>6, <1>7, <1>8 DEF Next

\* One answer at a time keeps SerialInv.
LEMMA AlwaysSerial ==
  ASSUME Serial
  PROVE  Spec => []SerialInv
<1>1. Init => SerialInv
  BY DEF Init, QueueInit, SerialInv, OneBusy, Busy, GoodBody, Empty, KeyNeverMissed
<1>2. TypeOK /\ SerialInv /\ [Next]_repairVars => SerialInv'
  <2> SUFFICES ASSUME TypeOK, SerialInv, [Next]_repairVars PROVE SerialInv'
    OBVIOUS
  <2>1. CASE Next
    BY <2>1, BusyStep, BodyStep, MissStep DEF SerialInv
  <2>2. CASE UNCHANGED repairVars
    <3>1. UNCHANGED <<pc, body, edits, incoming, keys, importing, pending, ready, retryAll>>
      BY <2>2 DEF repairVars, queueVars, queue, answers
    <3> QED BY <3>1 DEF SerialInv, OneBusy, Busy, GoodBody, Empty, KeyNeverMissed, HasKey, IsReady,
               Untold
  <2> QED BY <2>1, <2>2
<1> QED BY <1>1, <1>2, TypeCorrect, PTL DEF Spec

\* "Remember the events that were delivered as placeholders and, when their
\* room key turns up, hand ement a synthetic m.replace edit" (repair.rs): for a
\* client that has one answer at a time processed, a pending repair whose key is
\* there is ready or about to be, also when responses are lost, the proxy
\* restarts and MAX_PENDING is exceeded.
THEOREM KeysAreHeardOf ==
  ASSUME Serial
  PROVE  Spec => []KeyNeverMissed
<1>1. SerialInv => KeyNeverMissed
  BY DEF SerialInv
<1> QED BY <1>1, AlwaysSerial, PTL

-----------------------------------------------------------------------------
(* Nothing lost: the promise is kept *)

\* The client has one answer at a time, none is lost, and no bulk import leaves
\* another key to come (repair.rs:183: a response that delivers a placeholder
\* may skip its repair).
Calm ==
  /\ Serial /\ MaxLosses = 0 /\ MaxRestarts = 0
  /\ MaxImports = 0 \/ \A k, l \in Sessions : k = l

\* e names the session its key belongs to.
Named(e) == SessionOf[e] \in Sessions

\* The bounds of Calm, as far as they are used up.
Quiet == losses = 0 /\ restarts = 0 /\ imports \in Nat

\* What makes a repair ready is a key that is in the store, so a taken repair
\* succeeds, and its edit has a room.
Stored ==
  /\ ready \subseteq keys
  /\ retryAll \/ importing => Sessions \subseteq keys
  /\ \A h \in Syncs : pc[h] = "note" => incoming[h] \subseteq keys
  /\ \A h \in Syncs : \A e \in taken[h] : Named(e) => HasKey(e)
  /\ joined = Rooms

\* A placeholder on its way to the client is in the queue.
Delivering ==
  \A h \in Handlers, e \in Events :
    body[h][e] = "placeholder" /\ Named(e) => e \in pending \cup forgotten

\* One that the client shows is in the queue or about to be replaced.
Tracked(e) ==
  \/ e \in pending
  \/ \E h \in Syncs : e \in taken[h]
  \/ \E h \in Handlers : e \in edits[h] \/ body[h][e] = "plain"

\* Of what the client shows as a placeholder, nothing is lost track of.
Shown == \A e \in promised \ forgotten : view[e] = "placeholder" /\ Named(e) => Tracked(e)

\* The inductive invariant of PromiseKept, next to SerialInv.
CalmInv == Quiet /\ Stored /\ Delivering /\ Shown

\* Nothing is lost, and nothing is imported unless there is one key only.
LEMMA QuietStep ==
  ASSUME Calm, Quiet, Next
  PROVE  /\ Quiet' /\ ~Restart /\ \A h \in Handlers : ~Cancel(h)
         /\ Import => \A k, l \in Sessions : k = l
<1>1. ~Restart /\ \A h \in Handlers : ~Cancel(h)
  BY DEF Calm, Quiet, Restart, Cancel
<1>2. losses' = losses /\ restarts' = restarts
  BY <1>1 DEF Next, Import, NoteImport, SyncStep, SyncStart, Look, AnswerRepairs, UpstreamAnswers,
     Receive, Note, Inject, Treat, Decrypt, TrackPlaceholder, Repair, SkipDelivered, TryInVain,
     PutBack, AddEdit, DropEdit, HistoryAnswers, HistoryDone, Reply, bounds
<1>3. imports' = imports \/ imports' = imports + 1
  BY <1>1 DEF Next, Import, NoteImport, SyncStep, SyncStart, Look, AnswerRepairs, UpstreamAnswers,
     Receive, Note, Inject, Treat, Decrypt, TrackPlaceholder, Repair, SkipDelivered, TryInVain,
     PutBack, AddEdit, DropEdit, HistoryAnswers, HistoryDone, Reply, bounds
<1>4. Import => \A k, l \in Sessions : k = l
  BY DEF Calm, Quiet, Import
<1> QED BY <1>1, <1>2, <1>3, <1>4 DEF Quiet

\* Every step leaves what makes repairs ready in the store.
LEMMA StoredStep ==
  ASSUME Calm, Quiet, TypeOK, Stored, Next
  PROVE  Stored'
<1>0. /\ \A h \in Syncs \cup Histories : h \in Handlers
      /\ pc \in [Handlers -> Phases] /\ taken \in [Syncs -> SUBSET Events]
      /\ incoming \in [Handlers -> SUBSET Sessions] /\ keys \subseteq Sessions
      /\ pending \subseteq Events /\ ready \subseteq Sessions
      /\ \A h \in Histories : h \notin Syncs
      /\ \A e \in Events : RoomOf[e] \in Rooms
  BY ScopeAssumption, RoomAssumption DEF Handlers, TypeOK, QueueTypeOK
<1>1. CASE Import
  <2>1. /\ UNCHANGED <<pc, incoming, ready, retryAll, taken, joined>>
        /\ \E new \in (SUBSET (Sessions \ keys)) \ {{}} : keys' = keys \cup new
    BY <1>1 DEF Import, answers, queueVars, queue
  <2>2. keys \subseteq keys' /\ Sessions \subseteq keys'
    <3>1. \A k, l \in Sessions : k = l
      BY <1>1, QuietStep
    <3>2. PICK new \in (SUBSET (Sessions \ keys)) \ {{}} : keys' = keys \cup new
      BY <2>1
    <3>3. PICK k \in new : k \in Sessions
      OBVIOUS
    <3>4. \A l \in Sessions : l = k
      BY <3>1, <3>3
    <3> QED BY <3>2, <3>3, <3>4
  <2> QED BY <2>1, <2>2 DEF Stored, HasKey, Named
<1>2. CASE NoteImport
  BY <1>2 DEF NoteImport, NoteBulkImport, answers, Stored, HasKey, Named
<1>3. ASSUME NEW h \in Syncs, SyncStep(h) PROVE Stored'
  <2>1. CASE SyncStart(h) \/ Look(h) \/ AnswerRepairs(h) \/ UpstreamAnswers(h)
    <3>1. UNCHANGED <<keys, importing, ready, retryAll, taken, joined>>
      BY <2>1 DEF SyncStart, Look, AnswerRepairs, UpstreamAnswers, Listen, StartPolling,
         StopWaiting, queue
    <3>2. \A g \in Syncs : pc'[g] = "note" => pc[g] = "note" /\ incoming'[g] = incoming[g]
      BY <1>0, <2>1 DEF SyncStart, Look, AnswerRepairs, UpstreamAnswers, Goto, answers
    <3> QED BY <3>1, <3>2 DEF Stored, HasKey, Named
  <2>2. CASE Receive(h)
    <3>1. /\ UNCHANGED <<importing, ready, retryAll, taken, joined, incoming>>
          /\ keys' = keys \cup incoming[h] /\ pc' = [pc EXCEPT ![h] = "note"]
      BY <2>2 DEF Receive, queueVars, queue, Goto
    <3> QED BY <1>0, <3>1 DEF Stored, HasKey, Named
  <2>3. CASE Note(h)
    <3>1. /\ UNCHANGED <<importing, retryAll, taken, joined, keys>>
          /\ ready' \subseteq ready \cup incoming[h]
          /\ pc' = [pc EXCEPT ![h] = "decrypt"] /\ incoming' = [incoming EXCEPT ![h] = {}]
          /\ pc[h] = "note"
      BY <2>3 DEF Note, NoteRoomKeys, Goto
    <3> QED BY <1>0, <3>1 DEF Stored, HasKey, Named
  <2>4. CASE Inject(h)
    <3>1. /\ UNCHANGED <<importing, incoming, keys, joined>> /\ pc' = [pc EXCEPT ![h] = "repair"]
          /\ ready' = {} /\ ~retryAll' /\ TakeReady(h)
      BY <2>4 DEF Inject, TakeReady, Goto
    <3>2. taken' = [taken EXCEPT ![h] = {e \in pending : IsReady(e)} \cap InOrder]
      BY <3>1, Zenon DEF TakeReady
    <3>3. \A e \in pending : IsReady(e) /\ Named(e) => HasKey(e)
      BY DEF Stored, IsReady, HasKey, Named
    <3>4. \A g \in Syncs : \A e \in taken'[g] : Named(e) => HasKey(e)
      BY <1>0, <3>2, <3>3 DEF Stored
    <3>5. \A g \in Syncs : pc'[g] = "note" => pc[g] = "note"
      BY <1>0, <3>1
    <3> QED BY <3>1, <3>4, <3>5 DEF Stored, HasKey, Named
  <2> QED BY <1>3, <2>1, <2>2, <2>3, <2>4 DEF SyncStep
<1>4. ASSUME NEW h \in Handlers, Treat(h) PROVE Stored'
  <2>1. PICK e \in Events : Decrypt(h, e) \/ TrackPlaceholder(h, e)
    BY <1>4 DEF Treat
  <2>2. UNCHANGED <<pc, keys, importing, incoming, ready, retryAll, taken>> /\ joined' = joined
    BY <1>0, <2>1 DEF Decrypt, TrackPlaceholder, Track, queueVars, queue, Stored
  <2> QED BY <2>2 DEF Stored, HasKey, Named
<1>5. ASSUME NEW h \in Syncs, Repair(h) PROVE Stored'
  <2>1. PICK e \in Events : SkipDelivered(h, e) \/ TryInVain(h, e) \/ PutBack(h, e)
                            \/ AddEdit(h, e) \/ DropEdit(h, e)
    BY <1>5 DEF Repair
  <2>2. UNCHANGED <<pc, keys, importing, incoming, ready, retryAll, joined>>
    BY <2>1 DEF SkipDelivered, TryInVain, PutBack, AddEdit, DropEdit, Settle, Requeue,
       queueVars, queue, answers
  <2>3. \A g \in Syncs : taken'[g] \subseteq taken[g]
    BY <1>0, <2>1 DEF SkipDelivered, TryInVain, PutBack, AddEdit, DropEdit, Settle, Requeue,
       queueVars
  <2> QED BY <2>2, <2>3 DEF Stored, HasKey, Named
<1>6. ASSUME NEW h \in Histories, HistoryAnswers(h) \/ HistoryDone(h) PROVE Stored'
  <2>1. UNCHANGED <<keys, importing, incoming, ready, retryAll, joined, taken>>
    BY <1>6 DEF HistoryAnswers, HistoryDone, queueVars, queue
  <2>2. \A g \in Syncs : pc'[g] = pc[g]
    BY <1>0, <1>6 DEF HistoryAnswers, HistoryDone, Goto
  <2> QED BY <2>1, <2>2 DEF Stored, HasKey, Named
<1>7. ASSUME NEW h \in Handlers, Reply(h) PROVE Stored'
  <2>1. /\ UNCHANGED <<keys, importing, ready, retryAll, joined, taken>>
        /\ pc' = [pc EXCEPT ![h] = "idle"] /\ incoming' = [incoming EXCEPT ![h] = {}]
    BY <1>7 DEF Reply, Finish, Goto, queueVars, queue
  <2>2. \A g \in Syncs : pc'[g] = "note" => pc[g] = "note" /\ incoming'[g] = incoming[g]
    BY <1>0, <2>1
  <2> QED BY <2>1, <2>2 DEF Stored, HasKey, Named
<1> QED BY <1>1, <1>2, <1>3, <1>4, <1>5, <1>6, <1>7, QuietStep DEF Next

\* A step leaves what is said of placeholders on their way, if the queue
\* forgets none of them.
LEMMA DeliverFrame ==
  ASSUME Delivering,
         \A h \in Handlers, e \in Events :
           body'[h][e] = "placeholder" => body[h][e] = "placeholder",
         \A h \in Handlers, e \in Events :
           body[h][e] = "placeholder" /\ Named(e) /\ e \in pending
             => e \in pending' \cup forgotten',
         forgotten \subseteq forgotten'
  PROVE  Delivering'
BY DEF Delivering, Named

\* What track does to events that are in the queue or were pushed out of it.
LEMMA TrackKeeps ==
  ASSUME NEW e \in Events, Track(e)
  PROVE  /\ e \in pending' \cup forgotten'
         /\ forgotten \subseteq forgotten'
         /\ \A d \in pending : d \in pending' \cup forgotten'
BY DEF Track

\* What take_ready takes out of the queue is in its caller's hands.
LEMMA TakeMoves ==
  ASSUME QueueTypeOK, NEW h \in Syncs, taken[h] = {}, TakeReady(h)
  PROVE  /\ forgotten' = forgotten
         /\ \A d \in pending : d \in pending' \/ (d \in taken'[h] /\ IsReady(d))
         /\ \A g \in Syncs : \A d \in taken[g] : d \in taken'[g]
<1> DEFINE now == {e \in pending : IsReady(e)} \cap InOrder
<1>1. taken' = [taken EXCEPT ![h] = now] /\ pending' = pending \ now /\ forgotten' = forgotten
  BY Zenon DEF TakeReady
<1>2. \A d \in now : IsReady(d)
  OBVIOUS
<1> HIDE DEF now
<1> QED BY <1>1, <1>2 DEF QueueTypeOK

\* No step takes a placeholder on its way out of the queue, but MAX_PENDING.
LEMMA DeliverStep ==
  ASSUME Calm, Quiet, TypeOK, SerialInv, Stored, Delivering, Next
  PROVE  Delivering'
<1>0. /\ \A h \in Syncs \cup Histories : h \in Handlers
      /\ body \in [Handlers -> [Events -> Contents]] /\ pc \in [Handlers -> Phases]
      /\ QueueTypeOK
      /\ \A h \in Handlers : GoodBody(h)
      /\ \A h \in Syncs : pc[h] # "repair" => taken[h] = {}
  BY DEF Handlers, TypeOK, SerialInv
<1>1. CASE Import \/ NoteImport
  <2>1. UNCHANGED <<body, pending, forgotten>>
    BY <1>1 DEF Import, NoteImport, NoteBulkImport, answers, queueVars, queue
  <2> QED BY <2>1, DeliverFrame
<1>2. ASSUME NEW h \in Syncs, SyncStep(h) PROVE Delivering'
  <2>1. CASE ~Inject(h)
    <3>1. UNCHANGED <<pending, forgotten>>
      BY <1>2, <2>1 DEF SyncStep, SyncStart, Look, AnswerRepairs, UpstreamAnswers, Receive, Note,
         Listen, StartPolling, StopWaiting, NoteRoomKeys, queueVars, queue
    <3>2. \A g \in Handlers, e \in Events :
            body'[g][e] = "placeholder" => body[g][e] = "placeholder"
      BY <1>0, <1>2, <2>1 DEF SyncStep, SyncStart, Look, AnswerRepairs, UpstreamAnswers, Receive,
         Note, answers
    <3> QED BY <3>1, <3>2, DeliverFrame
  <2>2. CASE Inject(h)
    <3>1. body' = body /\ taken[h] = {} /\ TakeReady(h)
      BY <1>0, <2>2 DEF Inject
    <3>2. /\ forgotten' = forgotten
          /\ \A d \in pending : d \in pending' \/ IsReady(d)
      BY <1>0, <3>1, TakeMoves
    <3>3. \A g \in Handlers, d \in Events :
            body[g][d] = "placeholder" /\ Named(d) => ~IsReady(d)
      BY <1>0 DEF GoodBody, Stored, IsReady, HasKey, Named
    <3> QED BY <3>1, <3>2, <3>3, DeliverFrame
  <2> QED BY <2>1, <2>2
<1>3. ASSUME NEW h \in Handlers, Treat(h) PROVE Delivering'
  <2>1. PICK e \in Events : Decrypt(h, e) \/ TrackPlaceholder(h, e)
    BY <1>3 DEF Treat
  <2>2. CASE Decrypt(h, e)
    <3>1. UNCHANGED <<pending, forgotten>>
      BY <2>2 DEF Decrypt, queueVars, queue
    <3>2. \A g \in Handlers, d \in Events :
            body'[g][d] = "placeholder" => body[g][d] = "placeholder"
      BY <1>0, <2>2 DEF Decrypt, Set
    <3> QED BY <3>1, <3>2, DeliverFrame
  <2>3. CASE TrackPlaceholder(h, e)
    <3>1. \A g \in Handlers, d \in Events :
            body'[g][d] = "placeholder" => body[g][d] = "placeholder" \/ d = e
      BY <1>0, <2>3 DEF TrackPlaceholder, Set
    <3>2. Track(e)
      BY <2>3 DEF TrackPlaceholder
    <3> QED BY <3>1, <3>2, TrackKeeps DEF Delivering, Named
  <2> QED BY <2>1, <2>2, <2>3
<1>4. ASSUME NEW h \in Syncs, Repair(h) PROVE Delivering'
  <2>1. PICK e \in Events : SkipDelivered(h, e) \/ TryInVain(h, e) \/ PutBack(h, e)
                            \/ AddEdit(h, e) \/ DropEdit(h, e)
    BY <1>4 DEF Repair
  <2>2. pending \subseteq pending' /\ forgotten' = forgotten
    BY <2>1 DEF SkipDelivered, TryInVain, PutBack, AddEdit, DropEdit, Settle, Requeue,
       queueVars, queue
  <2>3. \A g \in Handlers, d \in Events :
          body'[g][d] = "placeholder" => body[g][d] = "placeholder"
    BY <1>0, <2>1 DEF SkipDelivered, TryInVain, PutBack, AddEdit, DropEdit, Set, answers
  <2> QED BY <2>2, <2>3, DeliverFrame
<1>5. ASSUME NEW h \in Histories, HistoryAnswers(h) \/ HistoryDone(h) PROVE Delivering'
  <2>1. UNCHANGED <<pending, forgotten>>
    BY <1>5 DEF HistoryAnswers, HistoryDone, queueVars, queue
  <2>2. \A g \in Handlers, d \in Events :
          body'[g][d] = "placeholder" => body[g][d] = "placeholder"
    BY <1>0, <1>5 DEF HistoryAnswers, HistoryDone
  <2> QED BY <2>1, <2>2, DeliverFrame
<1>6. ASSUME NEW h \in Handlers, Reply(h) PROVE Delivering'
  <2>1. UNCHANGED <<pending, forgotten>> /\ body' = [body EXCEPT ![h] = Empty]
    BY <1>6 DEF Reply, Finish, queueVars, queue
  <2>2. \A g \in Handlers, d \in Events :
          body'[g][d] = "placeholder" => body[g][d] = "placeholder"
    BY <1>0, <2>1 DEF Empty
  <2> QED BY <2>1, <2>2, DeliverFrame
<1> QED BY <1>1, <1>2, <1>3, <1>4, <1>5, <1>6, QuietStep DEF Next

\* A step that shows the client nothing keeps the promise if it loses track of
\* no event.
LEMMA ShownFrame ==
  ASSUME Shown, UNCHANGED <<view, promised>>, promised \subseteq Events,
         forgotten \subseteq forgotten',
         \A d \in Events : Named(d) /\ Tracked(d) => Tracked(d)' \/ d \in forgotten'
  PROVE  Shown'
BY DEF Shown, Named

\* No step loses track of a placeholder that is shown.
LEMMA ShownStep ==
  ASSUME Calm, Quiet, TypeOK, SerialInv, Stored, Delivering, Shown, Next
  PROVE  Shown'
<1>0. /\ \A h \in Syncs \cup Histories : h \in Handlers
      /\ body \in [Handlers -> [Events -> Contents]] /\ pc \in [Handlers -> Phases]
      /\ edits \in [Handlers -> SUBSET Events] /\ taken \in [Syncs -> SUBSET Events]
      /\ QueueTypeOK /\ promised \subseteq Events
      /\ view \in [Events -> {"none", "placeholder", "plain"}]
      /\ \A h \in Handlers : GoodBody(h)
      /\ \A h \in Syncs : pc[h] # "repair" => taken[h] = {}
  BY DEF Handlers, TypeOK, SerialInv, QueueTypeOK
<1>1. CASE Import \/ NoteImport
  <2>1. UNCHANGED <<body, edits, taken, pending, forgotten, view, promised>>
    BY <1>1 DEF Import, NoteImport, NoteBulkImport, answers, queueVars, queue, client
  <2> QED BY <2>1, <1>0, ShownFrame DEF Tracked
<1>2. ASSUME NEW h \in Syncs, SyncStep(h) PROVE Shown'
  <2>0. UNCHANGED <<view, promised, edits>>
    BY <1>2 DEF SyncStep, SyncStart, Look, AnswerRepairs, UpstreamAnswers, Receive, Note, Inject,
       client, answers
  <2>1. CASE ~Inject(h)
    <3>1. UNCHANGED <<pending, forgotten, taken>>
      BY <1>2, <2>1 DEF SyncStep, SyncStart, Look, AnswerRepairs, UpstreamAnswers, Receive, Note,
         Listen, StartPolling, StopWaiting, NoteRoomKeys, queueVars, queue
    <3>2. \A g \in Handlers, e \in Events : body[g][e] = "plain" => body'[g][e] = "plain"
      <4>1. CASE UpstreamAnswers(h)
        <5>1. pc[h] = "waiting" /\ \A g \in Handlers : g # h => body'[g] = body[g]
          BY <1>0, <4>1 DEF UpstreamAnswers
        <5>2. \A e \in Events : body[h][e] # "plain"
          BY <1>0, <5>1 DEF GoodBody, Empty
        <5> QED BY <5>1, <5>2
      <4>2. CASE ~UpstreamAnswers(h)
        BY <1>2, <2>1, <4>2 DEF SyncStep, SyncStart, Look, AnswerRepairs, Receive, Note, answers
      <4> QED BY <4>1, <4>2
    <3> QED BY <1>0, <2>0, <3>1, <3>2, ShownFrame DEF Tracked
  <2>2. CASE Inject(h)
    <3>1. body' = body /\ taken[h] = {} /\ TakeReady(h)
      BY <1>0, <2>2 DEF Inject
    <3>2. /\ forgotten' = forgotten
          /\ \A d \in pending : d \in pending' \/ d \in taken'[h]
          /\ \A g \in Syncs : \A d \in taken[g] : d \in taken'[g]
      BY <1>0, <3>1, TakeMoves
    <3> QED BY <1>0, <2>0, <3>1, <3>2, ShownFrame DEF Tracked
  <2> QED BY <2>1, <2>2
<1>3. ASSUME NEW h \in Handlers, Treat(h) PROVE Shown'
  <2>1. PICK e \in Events : Decrypt(h, e) \/ TrackPlaceholder(h, e)
    BY <1>3 DEF Treat
  <2>2. UNCHANGED <<view, promised, edits, taken>>
    BY <2>1 DEF Decrypt, TrackPlaceholder, Track, client, queueVars
  <2>3. \A g \in Handlers, d \in Events : body[g][d] = "plain" => body'[g][d] = "plain"
    BY <1>0, <2>1 DEF Decrypt, TrackPlaceholder, Set
  <2>4. forgotten \subseteq forgotten' /\ \A d \in pending : d \in pending' \cup forgotten'
    BY <2>1, TrackKeeps DEF Decrypt, TrackPlaceholder, queueVars, queue
  <2> QED BY <1>0, <2>2, <2>3, <2>4, ShownFrame DEF Tracked
<1>4. ASSUME NEW h \in Syncs, Repair(h) PROVE Shown'
  <2>1. PICK e \in Events : SkipDelivered(h, e) \/ TryInVain(h, e) \/ PutBack(h, e)
                            \/ AddEdit(h, e) \/ DropEdit(h, e)
    BY <1>4 DEF Repair
  <2>2. UNCHANGED <<view, promised, forgotten>> /\ pending \subseteq pending'
    BY <2>1 DEF SkipDelivered, TryInVain, PutBack, AddEdit, DropEdit, Settle, Requeue, client,
       queueVars, queue
  <2>3. \A g \in Handlers, d \in Events : body[g][d] = "plain" => body'[g][d] = "plain"
    BY <1>0, <2>1 DEF SkipDelivered, TryInVain, PutBack, AddEdit, DropEdit, Set, answers
  <2>4. \A g \in Handlers : edits[g] \subseteq edits'[g]
    BY <1>0, <2>1 DEF SkipDelivered, TryInVain, PutBack, AddEdit, DropEdit, answers
  <2>5. \A g \in Syncs : \A d \in taken[g] : d \in taken'[g] \/ (g = h /\ d = e)
    BY <1>0, <2>1 DEF SkipDelivered, TryInVain, PutBack, AddEdit, DropEdit, Settle, Requeue,
       queueVars
  <2>6. ASSUME Named(e), e \in taken[h] PROVE Tracked(e)' \/ e \in forgotten'
    <3>0. HasKey(e)
      BY <2>6 DEF Stored
    <3>1. CASE SkipDelivered(h, e)
      <4>1. body[h][e] # "none" /\ pc[h] = "repair" /\ body' = body
        BY <3>1 DEF SkipDelivered, Repairing, answers
      <4>2. body[h][e] \in Contents
        BY <1>0
      <4>3. body[h][e] = "plain"
        BY <1>0, <3>0, <4>1, <4>2 DEF GoodBody, Contents
      <4> QED BY <1>0, <4>1, <4>3 DEF Tracked
    <3>2. CASE TryInVain(h, e)
      BY <3>0, <3>2 DEF TryInVain
    <3>3. CASE PutBack(h, e)
      BY <3>3 DEF PutBack, Requeue, Tracked
    <3>4. CASE AddEdit(h, e)
      BY <1>0, <3>4 DEF AddEdit, Tracked
    <3>5. CASE DropEdit(h, e)
      BY <3>5, RoomAssumption DEF DropEdit, HasRoom, Stored
    <3> QED BY <2>1, <3>1, <3>2, <3>3, <3>4, <3>5
  <2>7. \A d \in Events : Named(d) /\ Tracked(d) => Tracked(d)' \/ d \in forgotten'
    BY <2>2, <2>3, <2>4, <2>5, <2>6 DEF Tracked
  <2> QED BY <1>0, <2>2, <2>7, ShownFrame
<1>5. ASSUME NEW h \in Histories, HistoryAnswers(h) \/ HistoryDone(h) PROVE Shown'
  <2>1. UNCHANGED <<pending, forgotten, taken, edits, view, promised>>
    BY <1>5 DEF HistoryAnswers, HistoryDone, queueVars, queue, client
  <2>2. \A g \in Handlers, e \in Events : body[g][e] = "plain" => body'[g][e] = "plain"
    <3>1. CASE HistoryAnswers(h)
      <4>1. pc[h] = "idle" /\ \A g \in Handlers : g # h => body'[g] = body[g]
        BY <1>0, <3>1 DEF HistoryAnswers
      <4>2. \A e \in Events : body[h][e] # "plain"
        BY <1>0, <4>1 DEF GoodBody, Empty
      <4> QED BY <4>1, <4>2
    <3>2. CASE HistoryDone(h)
      BY <3>2 DEF HistoryDone
    <3> QED BY <1>5, <3>1, <3>2
  <2> QED BY <1>0, <2>1, <2>2, ShownFrame DEF Tracked
<1>6. ASSUME NEW h \in Handlers, Reply(h) PROVE Shown'
  <2>1. /\ UNCHANGED <<pending, forgotten, taken>>
        /\ promised' = promised \cup {e \in Events : body[h][e] = "placeholder"}
        /\ body' = [body EXCEPT ![h] = Empty] /\ edits' = [edits EXCEPT ![h] = {}]
    BY <1>6 DEF Reply, Finish, queueVars, queue
  <2>2. ASSUME NEW e \in promised' \ forgotten', view'[e] = "placeholder", Named(e)
        PROVE  Tracked(e)'
    <3>0. e \in Events
      BY <1>0, <2>1
    <3>1. CASE body[h][e] = "placeholder"
      BY <2>1, <2>2, <3>0, <3>1 DEF Delivering, Tracked
    <3>2. CASE body[h][e] # "placeholder"
      <4> DEFINE shown(d) ==
            CASE body[h][d] = "plain" -> "plain"
              [] body[h][d] = "placeholder" /\ view[d] = "none" -> "placeholder"
              [] d \in edits[h] /\ view[d] = "placeholder" -> "plain"
              [] OTHER -> view[d]
      <4>1. view' = [d \in Events |-> shown(d)]
        BY <1>6, Zenon DEF Reply
      <4>2. shown(e) = "placeholder"
        <5> HIDE DEF shown
        <5> QED BY <2>2, <3>0, <4>1
      <4>3. view[e] = "placeholder" /\ body[h][e] # "plain" /\ e \notin edits[h]
        BY <3>2, <4>2
      <4>4. Tracked(e)
        BY <2>1, <2>2, <3>2, <4>3 DEF Shown
      <4> QED BY <1>0, <2>1, <3>0, <4>3, <4>4 DEF Tracked
    <3> QED BY <3>1, <3>2
  <2> QED BY <2>2 DEF Shown, Named
<1> QED BY <1>1, <1>2, <1>3, <1>4, <1>5, <1>6, QuietStep DEF Next

\* "This message will update in place if its key arrives" (placeholder): of a
\* placeholder the client shows, unless MAX_PENDING pushed it out, the content is
\* on its way as soon as its key is there.
THEOREM PlaceholdersAreRepaired ==
  ASSUME Calm
  PROVE  Spec => []PromiseKept
<1>1. Init => CalmInv
  <2> SUFFICES ASSUME Init PROVE CalmInv
    OBVIOUS
  <2>1. Quiet /\ Shown
    BY DEF Init, Quiet, Shown
  <2>2. Stored
    BY DEF Init, QueueInit, Stored, Handlers
  <2>3. Delivering
    BY DEF Init, Delivering, Empty
  <2> QED BY <2>1, <2>2, <2>3 DEF CalmInv
<1>2. TypeOK /\ SerialInv /\ CalmInv /\ [Next]_repairVars => CalmInv'
  <2> SUFFICES ASSUME TypeOK, SerialInv, CalmInv, [Next]_repairVars PROVE CalmInv'
    OBVIOUS
  <2>1. CASE Next
    BY <2>1, QuietStep, StoredStep, DeliverStep, ShownStep DEF CalmInv
  <2>2. CASE UNCHANGED repairVars
    <3>1. /\ UNCHANGED <<pc, body, edits, incoming, keys, importing, joined, view, promised>>
          /\ UNCHANGED <<pending, forgotten, ready, retryAll, taken, losses, restarts, imports>>
      BY <2>2 DEF repairVars, queueVars, queue, answers, client, bounds
    <3> QED BY <3>1 DEF CalmInv, Quiet, Stored, Delivering, Shown, Tracked, Named, HasKey
  <2> QED BY <2>1, <2>2
<1>3. TypeOK /\ SerialInv /\ CalmInv => PromiseKept
  <2> SUFFICES ASSUME TypeOK, SerialInv, CalmInv,
                      NEW e \in promised \ forgotten, view[e] = "placeholder", HasKey(e)
               PROVE  Coming(e)
    BY DEF PromiseKept
  <2>1. Tracked(e)
    BY DEF CalmInv, Shown, Named, HasKey, TypeOK
  <2>2. e \in pending => IsReady(e) \/ Untold(e)
    BY DEF SerialInv, KeyNeverMissed
  <2> QED BY <2>1, <2>2 DEF Tracked, Coming
<1>4. Serial
  BY DEF Calm
<1>5. Spec => []SerialInv
  BY <1>4, AlwaysSerial
<1> QED BY <1>1, <1>2, <1>3, <1>5, TypeCorrect, PTL DEF Spec
==============================================================================
