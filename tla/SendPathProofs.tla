--------------------------- MODULE SendPathProofs ----------------------------
(***************************************************************************)
(* What a send promises, for any number of sends, users and changes of the *)
(* room: an event is encrypted for exactly the members of its send's list, *)
(* and, where no sync is processed between an answer of the homeserver and *)
(* its place in the caches, never goes out in plaintext once the sync told *)
(* of the encryption and is not readable by who has left.                  *)
(***************************************************************************)
EXTENDS SendPath, FiniteSetTheorems, TLAPS

\* Under share_lock one send is alone.
Exclusive == \A g, h \in Senders : pc[g] \in Locked /\ pc[h] \in Locked => g = h

Types == TypeOK /\ Exclusive

\* What the steps under the lock have made sure of for the send's list.
Prepared(h) ==
  /\ pc[h] \in Locked => list[h] \subseteq tracked
  /\ pc[h] \in {"claim", "share", "keys"} /\ ~blind[h] => list[h] \subseteq known
  /\ pc[h] = "keys" =>
       /\ holders \subseteq list[h] /\ todo[h] \subseteq list[h] \cap known
       /\ ~blind[h] => list[h] \subseteq holders \cup todo[h]

Reads == (\A h \in Senders : Prepared(h)) /\ EveryMemberReads

\* The sync has told of the room's encryption, which cannot be undone.
Told == encrypted /\ Encryption \notin Untold

Plain ==
  /\ unencrypted => ~Told
  /\ \A h \in Senders :
       /\ sure[h] => Told
       /\ pc[h] = "unset" => ~Told
       /\ pc[h] = "plain" => ~sure[h]

\* A member list is right about everyone of whom no change is still untold.
Right(l) == \A u \in Users \ Untold : u \in l <=> u \in present

Listed == {"lock", "pump", "claim", "share", "keys", "put"}

RightMembers ==
  /\ \A l \in cache : Right(l)
  /\ \A h \in Senders :
       /\ here[h] \subseteq present \ Untold
       /\ gone[h] \subseteq (Users \ present) \ Untold
       /\ pc[h] = "store" => Right(list[h])
       /\ pc[h] \in Listed => here[h] \subseteq list[h] /\ gone[h] \cap list[h] = {}

\* What the sync still has to tell grows at one end and shrinks at the other.
LEMMA UntoldGrows ==
  ASSUME TypeOK, NEW what \in Users \cup {Encryption}, stream' = Append(stream, what)
  PROVE  Untold' = Untold \cup {what} /\ stream' \in Seq(Users \cup {Encryption})
<1>1. stream \in Seq(Users \cup {Encryption})
  BY DEF TypeOK
<1>2. Len(stream') = Len(stream) + 1 /\ stream'[Len(stream) + 1] = what
  BY <1>1
<1>3. \A i \in 1 .. Len(stream) : stream'[i] = stream[i]
  BY <1>1
<1>4. DOMAIN stream = 1 .. Len(stream) /\ DOMAIN stream' = 1 .. (Len(stream) + 1)
      /\ Len(stream) \in Nat /\ stream' \in Seq(Users \cup {Encryption})
  BY <1>1, <1>2
<1> QED BY <1>2, <1>3, <1>4 DEF Untold

LEMMA UntoldShrinks ==
  ASSUME TypeOK, stream # <<>>, stream' = Tail(stream)
  PROVE  /\ Untold' \subseteq Untold /\ Untold \subseteq Untold' \cup {Head(stream)}
         /\ Head(stream) \in Users \cup {Encryption}
         /\ stream' \in Seq(Users \cup {Encryption})
<1>1. stream \in Seq(Users \cup {Encryption})
  BY DEF TypeOK
<1>2. Len(stream) \in Nat \ {0} /\ Len(stream') = Len(stream) - 1
  BY <1>1
<1>3. \A i \in 1 .. (Len(stream) - 1) : stream'[i] = stream[i + 1]
  BY <1>1
<1>4. DOMAIN stream = 1 .. Len(stream) /\ DOMAIN stream' = 1 .. (Len(stream) - 1)
      /\ stream' \in Seq(Users \cup {Encryption})
      /\ Head(stream) = stream[1] /\ stream[1] \in Users \cup {Encryption}
  BY <1>1, <1>2
<1>5. \A i \in DOMAIN stream' : i + 1 \in DOMAIN stream /\ stream'[i] = stream[i + 1]
  BY <1>2, <1>3, <1>4
<1>6. \A i \in DOMAIN stream : i = 1 \/ (i - 1 \in DOMAIN stream' /\ stream'[i - 1] = stream[i])
  BY <1>2, <1>3, <1>4
<1>7. Untold' \subseteq Untold
  BY <1>5 DEF Untold
<1>8. Untold \subseteq Untold' \cup {Head(stream)}
  <2> SUFFICES ASSUME NEW i \in DOMAIN stream
               PROVE  stream[i] \in Untold' \cup {Head(stream)}
    BY DEF Untold
  <2> QED BY <1>4, <1>6 DEF Untold
<1> QED BY <1>4, <1>7, <1>8

LEMMA UntoldSame == UNCHANGED stream => Untold' = Untold
BY DEF Untold

LEMMA AtMostOne == Cardinality({}) <= 1 /\ \A l : Cardinality({l}) <= 1
BY FS_EmptySet, FS_Singleton

LEMMA InitInv == Init => Types /\ Reads /\ Plain /\ RightMembers
<1> SUFFICES ASSUME Init PROVE Types /\ Reads /\ Plain /\ RightMembers
  OBVIOUS
<1> USE ScopeAssumption, AtMostOne DEF Init
<1>1. Types
  <2>1. stream \in Seq(Users \cup {Encryption}) /\ 0 \in 0 .. MaxChanges
    OBVIOUS
  <2>2. cache \subseteq SUBSET Users /\ Cardinality(cache) <= 1
    OBVIOUS
  <2> QED BY <2>1, <2>2 DEF Types, TypeOK, Exclusive, Phases, Locked
<1>2. Reads
  BY DEF Reads, Prepared, EveryMemberReads, Locked
<1>3. Plain /\ RightMembers
  BY DEF Plain, RightMembers, Listed
<1> QED BY <1>1, <1>2, <1>3

-----------------------------------------------------------------------------
\* Every step keeps the types, and only one send at a time takes share_lock.
LEMMA TypesStep ==
  ASSUME Types, Reads, Next
  PROVE  Types'
<1> USE EventAssumption, ScopeAssumption DEF Types, TypeOK, Exclusive, Phases, Locked,
        room, tracker, olm, sends, facts
<1>1. CASE EnableEncryption
  BY <1>1, UntoldGrows DEF EnableEncryption, Change
<1>2. CASE Membership
  BY <1>2, UntoldGrows DEF Membership, Change
<1>3. CASE Scan
  BY <1>3, UntoldShrinks, AtMostOne DEF Scan
<1>4. CASE Expire
  BY <1>4, AtMostOne DEF Expire
<1>5. CASE Pump
  BY <1>5 DEF Pump
<1>6. CASE Restart
  BY <1>6, AtMostOne DEF Restart
<1>7. ASSUME NEW h \in Senders, Start(h) PROVE Types'
  BY <1>7 DEF Start, Goto
<1>8. ASSUME NEW h \in Senders, Lock(h) PROVE Types'
  BY <1>8 DEF Lock, Goto, LockFree
<1>9. ASSUME NEW h \in Senders, Check(h) PROVE Types'
  BY <1>9 DEF Check, Goto
<1>10. ASSUME NEW h \in Senders, AnswerUnset(h) PROVE Types'
  BY <1>10 DEF AnswerUnset, Goto
<1>11. ASSUME NEW h \in Senders, MarkUnencrypted(h) PROVE Types'
  BY <1>11 DEF MarkUnencrypted, Goto
<1>12. ASSUME NEW h \in Senders, AnswerSet(h) PROVE Types'
  BY <1>12 DEF AnswerSet, Goto
<1>13. ASSUME NEW h \in Senders, Members(h) PROVE Types'
  BY <1>13 DEF Members, Goto
<1>14. ASSUME NEW h \in Senders, FetchMembers(h) PROVE Types'
  BY <1>14 DEF FetchMembers, Goto
<1>15. ASSUME NEW h \in Senders, CacheMembers(h) PROVE Types'
  <2>0. cache' = {list[h]} /\ list[h] \in SUBSET Users
    BY <1>15 DEF CacheMembers, Goto
  <2>1. cache' \subseteq SUBSET Users /\ Cardinality(cache') <= 1
    BY <2>0, AtMostOne
  <2>2. pc' = [pc EXCEPT ![h] = "lock"] /\ pc[h] = "store"
        /\ UNCHANGED <<room, unencrypted, settings, olm, list, todo, readers, blind, facts>>
    BY <1>15 DEF CacheMembers, Goto
  <2> QED BY <2>1, <2>2
<1>16. ASSUME NEW h \in Senders, PumpDone(h) PROVE Types'
  <2>1. /\ pc' = [pc EXCEPT ![h] = "claim"] /\ pc[h] = "pump"
        /\ UNCHANGED <<room, tracker, tracked, holders, list, todo, readers, facts>>
    BY <1>16 DEF PumpDone, Goto
  <2>2. known' \in {known, tracked} /\ blind' \in [Senders -> BOOLEAN]
    BY <1>16 DEF PumpDone, Goto
  <2>3. known' \subseteq tracked /\ holders \subseteq known'
    BY <2>2
  <2>4. TypeOK'
    BY <2>1, <2>2, <2>3
  <2>5. Exclusive'
    BY <2>1
  <2> QED BY <2>4, <2>5
<1>17. ASSUME NEW h \in Senders, Claim(h) PROVE Types'
  BY <1>17 DEF Claim, Goto
<1>18. ASSUME NEW h \in Senders, Share(h) PROVE Types'
  BY <1>18 DEF Share, Goto
<1>19. ASSUME NEW h \in Senders, SendKey(h) PROVE Types'
  <2>1. PICK u \in todo[h] :
          holders' = holders \cup {u} /\ todo' = [todo EXCEPT ![h] = todo[h] \ {u}]
    BY <1>19 DEF SendKey, Goto
  <2>2. pc[h] = "keys" /\ UNCHANGED <<room, tracker, tracked, known, pc, list, readers, blind, facts>>
    BY <1>19 DEF SendKey, Goto
  <2>3. u \in known /\ u \in Users
    BY <2>1, <2>2 DEF Reads, Prepared
  <2> QED BY <2>1, <2>2, <2>3
<1>20. ASSUME NEW h \in Senders, Encrypt(h) PROVE Types'
  BY <1>20 DEF Encrypt, Goto
<1>21. ASSUME NEW h \in Senders, Put(h) PROVE Types'
  BY <1>21 DEF Put, Goto, Forget
<1>22. ASSUME NEW h \in Senders, Fail(h) PROVE Types'
  BY <1>22 DEF Fail, Goto, Forget
<1>23. ASSUME NEW h \in Senders, Drop(h) PROVE Types'
  BY <1>23 DEF Drop, Goto, Forget
<1> QED BY <1>1, <1>2, <1>3, <1>4, <1>5, <1>6, <1>7, <1>8, <1>9, <1>10, <1>11, <1>12, <1>13,
    <1>14, <1>15, <1>16, <1>17, <1>18, <1>19, <1>20, <1>21, <1>22, <1>23
DEF Next, Progress

\* The session changes under the lock only, and only for its holder's list.
LEMMA ReadsStep ==
  ASSUME Types, Reads, Next
  PROVE  Reads'
<1> USE DEF Types, TypeOK, Exclusive, Reads, Prepared, EveryMemberReads, Locked,
        room, tracker, olm, sends, facts
<1>1. CASE EnableEncryption \/ Membership \/ Scan \/ Expire
  <2>1. UNCHANGED <<tracked, known, holders, pc, list, todo, readers, blind>>
    BY <1>1 DEF EnableEncryption, Membership, Scan, Expire, Change
  <2> QED BY <2>1
<1>2. CASE Pump
  BY <1>2 DEF Pump
<1>3. CASE Restart
  BY <1>3 DEF Restart
<1>4. ASSUME NEW h \in Senders, Start(h) PROVE Reads'
  BY <1>4 DEF Start, Goto
<1>5. ASSUME NEW h \in Senders, Lock(h) PROVE Reads'
  BY <1>5 DEF Lock, Goto, LockFree
<1>6. ASSUME NEW h \in Senders, Check(h) PROVE Reads'
  BY <1>6 DEF Check, Goto
<1>7. ASSUME NEW h \in Senders, AnswerUnset(h) PROVE Reads'
  BY <1>7 DEF AnswerUnset, Goto
<1>8. ASSUME NEW h \in Senders, MarkUnencrypted(h) PROVE Reads'
  BY <1>8 DEF MarkUnencrypted, Goto
<1>9. ASSUME NEW h \in Senders, AnswerSet(h) PROVE Reads'
  BY <1>9 DEF AnswerSet, Goto
<1>10. ASSUME NEW h \in Senders, Members(h) PROVE Reads'
  BY <1>10 DEF Members, Goto
<1>11. ASSUME NEW h \in Senders, FetchMembers(h) PROVE Reads'
  BY <1>11 DEF FetchMembers, Goto
<1>12. ASSUME NEW h \in Senders, CacheMembers(h) PROVE Reads'
  BY <1>12 DEF CacheMembers, Goto
<1>13. ASSUME NEW h \in Senders, PumpDone(h) PROVE Reads'
  BY <1>13 DEF PumpDone, Goto
<1>14. ASSUME NEW h \in Senders, Claim(h) PROVE Reads'
  BY <1>14 DEF Claim, Goto
<1>15. ASSUME NEW h \in Senders, Share(h) PROVE Reads'
  BY <1>15 DEF Share, Goto
<1>16. ASSUME NEW h \in Senders, SendKey(h) PROVE Reads'
  BY <1>16 DEF SendKey, Goto
<1>17. ASSUME NEW h \in Senders, Encrypt(h) PROVE Reads'
  BY <1>17 DEF Encrypt, Goto
<1>18. ASSUME NEW h \in Senders, Put(h) PROVE Reads'
  BY <1>18 DEF Put, Goto, Forget
<1>19. ASSUME NEW h \in Senders, Fail(h) PROVE Reads'
  BY <1>19 DEF Fail, Goto, Forget
<1>20. ASSUME NEW h \in Senders, Drop(h) PROVE Reads'
  BY <1>20 DEF Drop, Goto, Forget
<1> QED BY <1>1, <1>2, <1>3, <1>4, <1>5, <1>6, <1>7, <1>8, <1>9, <1>10, <1>11, <1>12, <1>13,
    <1>14, <1>15, <1>16, <1>17, <1>18, <1>19, <1>20
DEF Next, Progress

\* No step marks the room unencrypted once the sync told that it is encrypted.
LEMMA PlainStep ==
  ASSUME ~Overlap, Types, Plain, Next
  PROVE  Plain'
<1> USE UntoldSame DEF Types, TypeOK, Plain, Told, Storing,
        room, tracker, olm, sends, facts
<1>1. CASE Expire \/ Pump
  <2>1. UNCHANGED <<encrypted, stream, unencrypted, sure, pc>>
    BY <1>1 DEF Expire, Pump
  <2> QED BY <2>1
<1>2. CASE EnableEncryption
  BY <1>2, UntoldGrows, EventAssumption DEF EnableEncryption, Change
<1>3. CASE Membership
  BY <1>3, UntoldGrows, EventAssumption DEF Membership, Change
<1>4. CASE Scan
  BY <1>4, UntoldShrinks DEF Scan
<1>5. CASE Restart
  BY <1>5 DEF Restart
<1>6. ASSUME NEW h \in Senders, Start(h) PROVE Plain'
  BY <1>6 DEF Start, Goto
<1>7. ASSUME NEW h \in Senders, Lock(h) PROVE Plain'
  BY <1>7 DEF Lock, Goto, LockFree
<1>8. ASSUME NEW h \in Senders, Check(h) PROVE Plain'
  BY <1>8 DEF Check, Goto
<1>9. ASSUME NEW h \in Senders, AnswerUnset(h) PROVE Plain'
  BY <1>9 DEF AnswerUnset, Goto
<1>10. ASSUME NEW h \in Senders, MarkUnencrypted(h) PROVE Plain'
  BY <1>10 DEF MarkUnencrypted, Goto
<1>11. ASSUME NEW h \in Senders, AnswerSet(h) PROVE Plain'
  BY <1>11 DEF AnswerSet, Goto
<1>12. ASSUME NEW h \in Senders, Members(h) PROVE Plain'
  BY <1>12 DEF Members, Goto
<1>13. ASSUME NEW h \in Senders, FetchMembers(h) PROVE Plain'
  BY <1>13 DEF FetchMembers, Goto
<1>14. ASSUME NEW h \in Senders, CacheMembers(h) PROVE Plain'
  BY <1>14 DEF CacheMembers, Goto
<1>15. ASSUME NEW h \in Senders, PumpDone(h) PROVE Plain'
  BY <1>15 DEF PumpDone, Goto
<1>16. ASSUME NEW h \in Senders, Claim(h) PROVE Plain'
  BY <1>16 DEF Claim, Goto
<1>17. ASSUME NEW h \in Senders, Share(h) PROVE Plain'
  BY <1>17 DEF Share, Goto
<1>18. ASSUME NEW h \in Senders, SendKey(h) PROVE Plain'
  BY <1>18 DEF SendKey, Goto
<1>19. ASSUME NEW h \in Senders, Encrypt(h) PROVE Plain'
  BY <1>19 DEF Encrypt, Goto
<1>20. ASSUME NEW h \in Senders, Put(h) PROVE Plain'
  BY <1>20 DEF Put, Goto, Forget
<1>21. ASSUME NEW h \in Senders, Fail(h) PROVE Plain'
  BY <1>21 DEF Fail, Goto, Forget
<1>22. ASSUME NEW h \in Senders, Drop(h) PROVE Plain'
  BY <1>22 DEF Drop, Goto, Forget
<1> QED BY <1>1, <1>2, <1>3, <1>4, <1>5, <1>6, <1>7, <1>8, <1>9, <1>10, <1>11, <1>12, <1>13,
    <1>14, <1>15, <1>16, <1>17, <1>18, <1>19, <1>20, <1>21, <1>22
DEF Next, Progress

\* A list that is stored or used is right about whoever the sync told of.
LEMMA MembersStep ==
  ASSUME ~Overlap, Types, RightMembers, Next
  PROVE  RightMembers'
<1> USE UntoldSame DEF Types, TypeOK, RightMembers, Right, Listed, Storing,
        room, tracker, olm, sends, facts
<1>1. CASE Pump
  <2>1. UNCHANGED <<present, stream, cache, here, gone, list, pc>>
    BY <1>1 DEF Pump
  <2> QED BY <2>1
<1>2. CASE EnableEncryption
  BY <1>2, UntoldGrows, EventAssumption DEF EnableEncryption, Change
<1>3. CASE Membership
  BY <1>3, UntoldGrows, EventAssumption DEF Membership, Change
<1>4. CASE Scan
  <2>1. /\ Untold' \subseteq Untold /\ Untold \subseteq Untold' \cup {Head(stream)}
        /\ Head(stream) \in Users \cup {Encryption}
    BY <1>4, UntoldShrinks DEF Scan
  <2>2. /\ \A h \in Senders : pc[h] # "store"
        /\ UNCHANGED <<present, list, pc, here, gone>>
    BY <1>4 DEF Scan
  <2>3. CASE Head(stream) = Encryption
    <3>1. UNCHANGED cache /\ \A u \in Users \ Untold' : u \notin Untold
      BY <1>4, <2>1, <2>3, EventAssumption DEF Scan
    <3> QED BY <2>1, <2>2, <3>1
  <2>4. CASE Head(stream) # Encryption
    <3>1. cache' = {}
      BY <1>4, <2>4 DEF Scan
    <3> QED BY <2>1, <2>2, <3>1
  <2> QED BY <2>3, <2>4
<1>5. CASE Expire
  BY <1>5 DEF Expire
<1>6. CASE Restart
  BY <1>6 DEF Restart
<1>7. ASSUME NEW h \in Senders, Start(h) PROVE RightMembers'
  BY <1>7 DEF Start, Goto
<1>8. ASSUME NEW h \in Senders, Lock(h) PROVE RightMembers'
  BY <1>8 DEF Lock, Goto, LockFree
<1>9. ASSUME NEW h \in Senders, Check(h) PROVE RightMembers'
  BY <1>9 DEF Check, Goto
<1>10. ASSUME NEW h \in Senders, AnswerUnset(h) PROVE RightMembers'
  BY <1>10 DEF AnswerUnset, Goto
<1>11. ASSUME NEW h \in Senders, MarkUnencrypted(h) PROVE RightMembers'
  BY <1>11 DEF MarkUnencrypted, Goto
<1>12. ASSUME NEW h \in Senders, AnswerSet(h) PROVE RightMembers'
  BY <1>12 DEF AnswerSet, Goto
<1>13. ASSUME NEW h \in Senders, Members(h) PROVE RightMembers'
  BY <1>13 DEF Members, Goto
<1>14. ASSUME NEW h \in Senders, FetchMembers(h) PROVE RightMembers'
  BY <1>14 DEF FetchMembers, Goto
<1>15. ASSUME NEW h \in Senders, CacheMembers(h) PROVE RightMembers'
  BY <1>15 DEF CacheMembers, Goto
<1>16. ASSUME NEW h \in Senders, PumpDone(h) PROVE RightMembers'
  BY <1>16 DEF PumpDone, Goto
<1>17. ASSUME NEW h \in Senders, Claim(h) PROVE RightMembers'
  BY <1>17 DEF Claim, Goto
<1>18. ASSUME NEW h \in Senders, Share(h) PROVE RightMembers'
  BY <1>18 DEF Share, Goto
<1>19. ASSUME NEW h \in Senders, SendKey(h) PROVE RightMembers'
  BY <1>19 DEF SendKey, Goto
<1>20. ASSUME NEW h \in Senders, Encrypt(h) PROVE RightMembers'
  BY <1>20 DEF Encrypt, Goto
<1>21. ASSUME NEW h \in Senders, Put(h) PROVE RightMembers'
  BY <1>21 DEF Put, Goto, Forget
<1>22. ASSUME NEW h \in Senders, Fail(h) PROVE RightMembers'
  BY <1>22 DEF Fail, Goto, Forget
<1>23. ASSUME NEW h \in Senders, Drop(h) PROVE RightMembers'
  BY <1>23 DEF Drop, Goto, Forget
<1> QED BY <1>1, <1>2, <1>3, <1>4, <1>5, <1>6, <1>7, <1>8, <1>9, <1>10, <1>11, <1>12, <1>13,
    <1>14, <1>15, <1>16, <1>17, <1>18, <1>19, <1>20, <1>21, <1>22, <1>23
DEF Next, Progress

-----------------------------------------------------------------------------
LEMMA Stutter ==
  ASSUME UNCHANGED vars
  PROVE  /\ Types => Types'
         /\ Reads => Reads'
         /\ Plain => Plain'
         /\ RightMembers => RightMembers'
<1> USE UntoldSame DEF vars, room, tracker, olm, sends, facts
<1>1. (Types => Types') /\ (Reads => Reads')
  BY DEF Types, TypeOK, Exclusive, Reads, Prepared, EveryMemberReads
<1>2. (Plain => Plain') /\ (RightMembers => RightMembers')
  BY DEF Plain, Told, RightMembers, Right
<1> QED BY <1>1, <1>2

LEMMA AlwaysReads == Spec => [](Types /\ Reads)
<1>1. Types /\ Reads /\ [Next]_vars => (Types /\ Reads)'
  BY TypesStep, ReadsStep, Stutter
<1> QED BY InitInv, <1>1, PTL DEF Spec

\* The type invariant of sends, the room tracker and the outbound session.
THEOREM TypeCorrect == Spec => []TypeOK
<1>1. Types => TypeOK
  BY DEF Types
<1> QED BY <1>1, AlwaysReads, PTL

\* encrypt_content (encrypt.rs): whatever other sends do to the session before
\* and after, an event can be read by exactly the members of its send's list,
\* unless the pump that looks up their devices failed.
THEOREM MembersRead == Spec => []EveryMemberReads
<1>1. Reads => EveryMemberReads
  BY DEF Reads
<1> QED BY <1>1, AlwaysReads, PTL

\* handle_send, "fail closed": once the sync has told of the encryption no send
\* that begins goes out in plaintext, if none stores an older answer meanwhile.
THEOREM NeverPlain == ASSUME ~Overlap PROVE Spec => []NoPlaintext
<1>1. Types /\ Reads /\ Plain /\ [Next]_vars => Plain'
  BY PlainStep, Stutter
<1>2. Plain => NoPlaintext
  BY DEF Plain, NoPlaintext
<1> QED BY InitInv, AlwaysReads, <1>1, <1>2, PTL DEF Spec

\* joined_members (rooms.rs): who has left, as far as the sync told, cannot read
\* an event whose send begins then, and who has joined is on its list.
THEOREM WhoLeftIsOut == ASSUME ~Overlap PROVE Spec => []MembershipRespected
<1>1. Types /\ Reads /\ RightMembers /\ [Next]_vars => RightMembers'
  BY MembersStep, Stutter
<1>2. Reads /\ RightMembers => MembershipRespected
  BY DEF Reads, EveryMemberReads, RightMembers, Listed, MembershipRespected
<1> QED BY InitInv, AlwaysReads, <1>1, <1>2, PTL DEF Spec
=============================================================================
