------------------------ MODULE DeviceIdentityProofs -------------------------
(***************************************************************************)
(* Published keys are replaced by no session that was checked, and such a  *)
(* session has the keys others see: for any devices, tokens and handlers.  *)
(* Two facts carry the argument.  A token is valid for one device, and a   *)
(* device has one valid token; so what published_identity told a handler   *)
(* is still true under the lock unless the handler's token is dead or      *)
(* already has a context.                                                  *)
(***************************************************************************)
EXTENDS DeviceIdentity, TLAPS

WithToken == {"query", "checked", "unchecked", "made"}

HaveTokens == \A h \in Handlers : pc[h] \in WithToken => tok[h] \in DOMAIN owner

\* A key that may be missing is at most one key.
SingleKeys ==
  \A d \in Devices :
    /\ \A k, l \in published[d] : k = l
    /\ \A k, l \in store[d] : k = l

Types == TypeOK /\ HaveTokens /\ SingleKeys

\* A device has one valid token, and no keys without one.
OneToken == \A t, u \in valid : owner[t] = owner[u] => t = u
KeysHaveToken == \A d \in Devices : (\A t \in valid : owner[t] # d) => published[d] = {}
Tokens == OneToken /\ KeysHaveToken

\* Contexts have stores; who makes a store is alone and nobody else has it.
Opened ==
  /\ \A t \in ctx : store[owner[t]] # {}
  /\ \A d \in shared : store[d] # {}
  /\ lost \cap valid \subseteq ctx
Makes ==
  \A h \in Handlers : pc[h] = "made" =>
    /\ store[Of(h)] # {} /\ Of(h) \notin shared
    /\ \A t \in ctx : owner[t] # Of(h)
    /\ \A g \in Handlers : pc[g] = "made" => g = h
Stores == Opened /\ Makes

\* The homeserver's answer is still true, or no longer used.
Answers ==
  \A h \in Handlers : tok[h] \in valid =>
    /\ pc[h] = "checked" => ans[h] = published[Of(h)] \/ tok[h] \in ctx
    /\ pc[h] = "made" => published[Of(h)] = {}

\* A login goes on with a store, or is the first of its device.
Continued ==
  /\ \A h \in Handlers : pc[h] = "login" => \A d \in dev[h] : store[d] # {}
  /\ refused \subseteq Issued

First(t) ==
  /\ \A u \in DOMAIN owner : owner[u] = owner[t] => u = t
  /\ published[owner[t]] = {} /\ owner[t] \notin refused
  /\ \A h \in Handlers : pc[h] = "checked" /\ tok[h] = t => ans[h] = {}

Firsts == \A t \in fresh \cap valid : store[owner[t]] = {} => First(t)

Inv ==
  /\ Types /\ Tokens /\ Stores /\ Answers /\ Continued /\ Firsts
  /\ ContextMatches /\ KeysOnTheirWay

LEMMA InitInv == Init => Inv
BY DevicesAssumption, BoundsAssumption
DEF Init, Inv, Types, TypeOK, HaveTokens, SingleKeys, Tokens, OneToken, KeysHaveToken,
    Stores, Opened, Makes, Answers, Continued, Firsts, ContextMatches, KeysOnTheirWay,
    Issued, WithToken, Phases, Key

\* A login takes the next number and signs out whoever used the device.
IssuedTo(d, new) ==
  /\ owner' \in Seq(Devices) /\ Len(owner') <= MaxTokens
  /\ new \in 1 .. MaxTokens /\ new \notin DOMAIN owner
  /\ DOMAIN owner' = DOMAIN owner \cup {new}
  /\ owner'[new] = d /\ \A t \in DOMAIN owner : owner'[t] = owner[t]
  /\ valid' = {t \in valid : owner[t] # d} \cup {new}

LEMMA Issued1 ==
  ASSUME Inv, NEW d \in Devices, Issue(d)
  PROVE  IssuedTo(d, Len(owner'))
BY BoundsAssumption DEF Issue, IssuedTo, Inv, Types, TypeOK

\* Where a handler's session or a token is a device's.
LEMMA Owners ==
  ASSUME Inv
  PROVE  /\ \A t \in DOMAIN owner : owner[t] \in Devices
         /\ \A h \in Handlers : pc[h] \in WithToken => Of(h) \in Devices
BY DEF Inv, Types, TypeOK, HaveTokens, SingleKeys, Of

\* What a login past the proxy leaves as it is, and what it may publish.
LEMMA PastTheProxy ==
  ASSUME Inv, OtherProgram
  PROVE  \E d \in Devices, new \in 1 .. MaxTokens :
           /\ \A t \in valid : owner[t] # d
           /\ IssuedTo(d, new)
           /\ published' \in [Devices -> Key]
           /\ \A c \in Devices \ {d} : published'[c] = published[c]
           /\ \A k, l \in published'[d] : k = l
           /\ made' \in 0 .. MaxKeys
<1>1. PICK d \in Devices :
        /\ \A t \in valid : owner[t] # d
        /\ Issue(d)
        /\ \/ made < MaxKeys /\ made' = made + 1 /\ Upload(d, {made'})
           \/ UNCHANGED <<made, published>>
  BY DEF OtherProgram
<1>2. IssuedTo(d, Len(owner')) /\ Len(owner') \in 1 .. MaxTokens
  BY <1>1, Issued1 DEF IssuedTo
<1>3. CASE made < MaxKeys /\ made' = made + 1 /\ Upload(d, {made'})
  <2>1. made' \in 0 .. MaxKeys /\ {made'} \in Key
    BY <1>3, BoundsAssumption DEF Inv, Types, TypeOK, Key
  <2>2. published' = [published EXCEPT ![d] = {made'}] /\ published \in [Devices -> Key]
    BY <1>3 DEF Upload, Inv, Types, TypeOK
  <2> QED BY <1>1, <1>2, <2>1, <2>2
<1>4. CASE UNCHANGED <<made, published>>
  BY <1>1, <1>2, <1>4 DEF Inv, Types, TypeOK, SingleKeys
<1> QED BY <1>1, <1>3, <1>4

\* What a login through the proxy does.
LEMMA ThroughTheProxy ==
  ASSUME Inv, NEW h \in Handlers, LoggedIn(h)
  PROVE  \E d \in Devices, new \in 1 .. MaxTokens :
           /\ d \in dev[h] \/ (dev[h] = {} /\ d \notin Issued)
           /\ IssuedTo(d, new)
           /\ tok' = [tok EXCEPT ![h] = new] /\ fresh' = fresh \cup {new}
           /\ record' \in SUBSET Devices
<1>1. PICK d \in IF dev[h] # {} THEN dev[h] ELSE Devices \ (Issued \cup {Ement}) :
        Issue(d) /\ record' = record \cup ({d} \ {Ement})
  BY DEF LoggedIn
<1>2. dev[h] \in SUBSET Devices
  BY DEF Inv, Types, TypeOK
<1>3. d \in Devices /\ (d \in dev[h] \/ (dev[h] = {} /\ d \notin Issued))
  BY <1>1, <1>2
<1>4. record' \in SUBSET Devices
  BY <1>1, <1>3 DEF Inv, Types, TypeOK
<1>5. IssuedTo(d, Len(owner')) /\ Len(owner') \in 1 .. MaxTokens
  BY <1>1, <1>3, Issued1 DEF IssuedTo
<1>6. tok' = [tok EXCEPT ![h] = Len(owner')] /\ fresh' = fresh \cup {Len(owner')}
  BY DEF LoggedIn
<1> QED BY <1>3, <1>4, <1>5, <1>6

-----------------------------------------------------------------------------
\* Every step keeps the types; whoever uses a token has one.
LEMMA TypesStep ==
  ASSUME Inv, Next
  PROVE  Types'
<1> USE DEF Inv, Types, TypeOK, HaveTokens, SingleKeys, WithToken, Phases, Key, Of,
        homeserver, disk, sessions, handler, bounds
<1>1. CASE SignOut
  <2>1. TypeOK'
    BY <1>1, BoundsAssumption, DevicesAssumption DEF SignOut, Issued
  <2>2. HaveTokens'
    BY <1>1, BoundsAssumption, DevicesAssumption DEF SignOut, Issued
  <2>3. SingleKeys'
    BY <1>1, BoundsAssumption, DevicesAssumption DEF SignOut, Issued
  <2> QED BY <2>1, <2>2, <2>3
<1>2. CASE Restart
  BY <1>2, BoundsAssumption, DevicesAssumption DEF Restart, Issued
<1>3. CASE OtherProgram
  <2>1. PICK d \in Devices, new \in 1 .. MaxTokens :
          /\ \A t \in valid : owner[t] # d
          /\ IssuedTo(d, new)
          /\ published' \in [Devices -> Key]
          /\ \A c \in Devices \ {d} : published'[c] = published[c]
          /\ \A k, l \in published'[d] : k = l
          /\ made' \in 0 .. MaxKeys
    BY <1>3, PastTheProxy
  <2>2. UNCHANGED <<disk, sessions, handler, signOuts, restarts>>
    BY <1>3 DEF OtherProgram
  <2>3. TypeOK'
    BY <2>1, <2>2, Owners, BoundsAssumption, DevicesAssumption DEF IssuedTo
  <2>4. HaveTokens'
    BY <2>1, <2>2, Owners, BoundsAssumption, DevicesAssumption DEF IssuedTo
  <2>5. SingleKeys'
    BY <2>1, <2>2, Owners, BoundsAssumption, DevicesAssumption DEF IssuedTo
  <2> QED BY <2>3, <2>4, <2>5 DEF Types
<1>4. ASSUME NEW h \in Handlers, Request(h) PROVE Types'
  <2>1. PICK t \in DOMAIN owner :
          /\ tok' = [tok EXCEPT ![h] = t]
          /\ pc' = [pc EXCEPT ![h] = "query"] \/ pc' = [pc EXCEPT ![h] = "through"]
    BY <1>4 DEF Request, Goto
  <2>2. pc[h] = "idle" /\ UNCHANGED <<homeserver, disk, sessions, asLogin, dev, ans, bounds>>
    BY <1>4 DEF Request
  <2>3. CASE pc' = [pc EXCEPT ![h] = "query"]
    <3>1. TypeOK'
      BY <2>1, <2>2, <2>3, Owners, BoundsAssumption, DevicesAssumption
    <3>2. HaveTokens'
      BY <2>1, <2>2, <2>3, Owners, BoundsAssumption, DevicesAssumption
    <3>3. SingleKeys'
      BY <2>1, <2>2, <2>3, Owners, BoundsAssumption, DevicesAssumption
    <3> QED BY <3>1, <3>2, <3>3
  <2>4. CASE pc' = [pc EXCEPT ![h] = "through"]
    <3>1. TypeOK'
      BY <2>1, <2>2, <2>4, Owners, BoundsAssumption, DevicesAssumption
    <3>2. HaveTokens'
      BY <2>1, <2>2, <2>4, Owners, BoundsAssumption, DevicesAssumption
    <3>3. SingleKeys'
      BY <2>1, <2>2, <2>4, Owners, BoundsAssumption, DevicesAssumption
    <3> QED BY <3>1, <3>2, <3>3
  <2> QED BY <2>1, <2>3, <2>4
<1>5. ASSUME NEW h \in Handlers, Plan(h) PROVE Types'
  <2>1. CASE \E d \in Continues : dev' = [dev EXCEPT ![h] = {d}]
    <3>1. TypeOK'
      BY <1>5, <2>1, BoundsAssumption, DevicesAssumption DEF Plan, Goto, Continues
    <3>2. HaveTokens'
      BY <1>5, <2>1, BoundsAssumption, DevicesAssumption DEF Plan, Goto, Continues
    <3>3. SingleKeys'
      BY <1>5, <2>1, BoundsAssumption, DevicesAssumption DEF Plan, Goto, Continues
    <3> QED BY <3>1, <3>2, <3>3
  <2>2. CASE Continues = {} /\ dev' = [dev EXCEPT ![h] = {}]
    <3>1. TypeOK'
      BY <1>5, <2>2, BoundsAssumption, DevicesAssumption DEF Plan, Goto, Continues
    <3>2. HaveTokens'
      BY <1>5, <2>2, BoundsAssumption, DevicesAssumption DEF Plan, Goto, Continues
    <3>3. SingleKeys'
      BY <1>5, <2>2, BoundsAssumption, DevicesAssumption DEF Plan, Goto, Continues
    <3> QED BY <3>1, <3>2, <3>3
  <2> QED BY <1>5, <2>1, <2>2 DEF Plan
<1>6. ASSUME NEW h \in Handlers, Query(h) PROVE Types'
  <2>1. CASE /\ tok[h] \in valid /\ Goto(h, "checked")
                 /\ ans' = [ans EXCEPT ![h] = published[Of(h)]]
    <3>1. TypeOK'
      BY <1>6, <2>1, BoundsAssumption, DevicesAssumption DEF Query, Goto
    <3>2. HaveTokens'
      BY <1>6, <2>1, BoundsAssumption, DevicesAssumption DEF Query, Goto
    <3>3. SingleKeys'
      BY <1>6, <2>1, BoundsAssumption, DevicesAssumption DEF Query, Goto
    <3> QED BY <3>1, <3>2, <3>3
  <2>2. CASE Goto(h, "unchecked") /\ UNCHANGED ans
    <3>1. TypeOK'
      BY <1>6, <2>2, BoundsAssumption, DevicesAssumption DEF Query, Goto
    <3>2. HaveTokens'
      BY <1>6, <2>2, BoundsAssumption, DevicesAssumption DEF Query, Goto
    <3>3. SingleKeys'
      BY <1>6, <2>2, BoundsAssumption, DevicesAssumption DEF Query, Goto
    <3> QED BY <3>1, <3>2, <3>3
  <2> QED BY <1>6, <2>1, <2>2 DEF Query
<1>7. ASSUME NEW h \in Handlers, Reuse(h) PROVE Types'
  <2>1. TypeOK'
    BY <1>7, BoundsAssumption, DevicesAssumption DEF Reuse, Goto, Asked, Unlocked, End
  <2>2. HaveTokens'
    BY <1>7, BoundsAssumption, DevicesAssumption DEF Reuse, Goto, Asked, Unlocked, End
  <2>3. SingleKeys'
    BY <1>7, BoundsAssumption, DevicesAssumption DEF Reuse, Goto, Asked, Unlocked, End
  <2> QED BY <2>1, <2>2, <2>3
<1>8. ASSUME NEW h \in Handlers, Refuse(h) PROVE Types'
  <2>1. TypeOK'
    BY <1>8, BoundsAssumption, DevicesAssumption
    DEF Refuse, Goto, NeedsContext, Asked, Unlocked, Conflict, End
  <2>2. HaveTokens'
    BY <1>8, BoundsAssumption, DevicesAssumption
    DEF Refuse, Goto, NeedsContext, Asked, Unlocked, Conflict, End
  <2>3. SingleKeys'
    BY <1>8, BoundsAssumption, DevicesAssumption
    DEF Refuse, Goto, NeedsContext, Asked, Unlocked, Conflict, End
  <2> QED BY <2>1, <2>2, <2>3
<1>9. ASSUME NEW h \in Handlers, HoldBack(h) PROVE Types'
  <2>1. TypeOK'
    BY <1>9, BoundsAssumption, DevicesAssumption
    DEF HoldBack, Goto, NeedsContext, Asked, Unlocked, End
  <2>2. HaveTokens'
    BY <1>9, BoundsAssumption, DevicesAssumption
    DEF HoldBack, Goto, NeedsContext, Asked, Unlocked, End
  <2>3. SingleKeys'
    BY <1>9, BoundsAssumption, DevicesAssumption
    DEF HoldBack, Goto, NeedsContext, Asked, Unlocked, End
  <2> QED BY <2>1, <2>2, <2>3
<1>10. ASSUME NEW h \in Handlers, Open(h) PROVE Types'
  <2>1. TypeOK'
    BY <1>10, BoundsAssumption, DevicesAssumption
    DEF Open, Goto, NeedsContext, Asked, Unlocked, Conflict, Admit, End
  <2>2. HaveTokens'
    BY <1>10, BoundsAssumption, DevicesAssumption
    DEF Open, Goto, NeedsContext, Asked, Unlocked, Conflict, Admit, End
  <2>3. SingleKeys'
    BY <1>10, BoundsAssumption, DevicesAssumption
    DEF Open, Goto, NeedsContext, Asked, Unlocked, Conflict, Admit, End
  <2> QED BY <2>1, <2>2, <2>3
<1>11. ASSUME NEW h \in Handlers, Make(h) PROVE Types'
  <2>1. TypeOK'
    BY <1>11, BoundsAssumption, DevicesAssumption
    DEF Make, Goto, NeedsContext, Asked, Unlocked, Conflict, NewStore
  <2>2. HaveTokens'
    BY <1>11, BoundsAssumption, DevicesAssumption
    DEF Make, Goto, NeedsContext, Asked, Unlocked, Conflict, NewStore
  <2>3. SingleKeys'
    BY <1>11, BoundsAssumption, DevicesAssumption
    DEF Make, Goto, NeedsContext, Asked, Unlocked, Conflict, NewStore
  <2> QED BY <2>1, <2>2, <2>3
<1>12. ASSUME NEW h \in Handlers, Made(h) PROVE Types'
  <2>1. TypeOK'
    BY <1>12, BoundsAssumption, DevicesAssumption DEF Made, Goto, Admit, End
  <2>2. HaveTokens'
    BY <1>12, BoundsAssumption, DevicesAssumption DEF Made, Goto, Admit, End
  <2>3. SingleKeys'
    BY <1>12, BoundsAssumption, DevicesAssumption DEF Made, Goto, Admit, End
  <2> QED BY <2>1, <2>2, <2>3
<1>13. ASSUME NEW h \in Handlers, OpenFails(h) PROVE Types'
  <2>1. TypeOK'
    BY <1>13, BoundsAssumption, DevicesAssumption
    DEF OpenFails, Goto, NeedsContext, Asked, Unlocked
  <2>2. HaveTokens'
    BY <1>13, BoundsAssumption, DevicesAssumption
    DEF OpenFails, Goto, NeedsContext, Asked, Unlocked
  <2>3. SingleKeys'
    BY <1>13, BoundsAssumption, DevicesAssumption
    DEF OpenFails, Goto, NeedsContext, Asked, Unlocked
  <2> QED BY <2>1, <2>2, <2>3
<1>14. ASSUME NEW h \in Handlers, Drop(h) PROVE Types'
  <2>1. TypeOK'
    BY <1>14, BoundsAssumption, DevicesAssumption DEF Drop, Goto, End
  <2>2. HaveTokens'
    BY <1>14, BoundsAssumption, DevicesAssumption DEF Drop, Goto, End
  <2>3. SingleKeys'
    BY <1>14, BoundsAssumption, DevicesAssumption DEF Drop, Goto, End
  <2> QED BY <2>1, <2>2, <2>3
<1>15. ASSUME NEW h \in Handlers, LoggedIn(h) PROVE Types'
  <2>1. PICK d \in Devices, new \in 1 .. MaxTokens :
          /\ d \in dev[h] \/ (dev[h] = {} /\ d \notin Issued)
          /\ IssuedTo(d, new)
          /\ tok' = [tok EXCEPT ![h] = new] /\ fresh' = fresh \cup {new}
          /\ record' \in SUBSET Devices
    BY <1>15, ThroughTheProxy
  <2>2. /\ pc[h] = "login" /\ pc' = [pc EXCEPT ![h] = "query"]
        /\ dev' = [dev EXCEPT ![h] = {}]
        /\ UNCHANGED <<published, store, shared, ctx, refused, lost, unsure, gaveUp,
                       asLogin, ans, bounds>>
    BY <1>15 DEF LoggedIn, Goto
  <2>3. TypeOK'
    BY <2>1, <2>2, Owners, BoundsAssumption, DevicesAssumption DEF IssuedTo
  <2>4. HaveTokens'
    BY <2>1, <2>2, Owners, BoundsAssumption, DevicesAssumption DEF IssuedTo
  <2>5. SingleKeys'
    BY <2>1, <2>2, Owners, BoundsAssumption, DevicesAssumption DEF IssuedTo
  <2> QED BY <2>3, <2>4, <2>5 DEF Types
<1>16. ASSUME NEW t \in DOMAIN owner, Publish(t) PROVE Types'
  <2>1. TypeOK'
    BY <1>16, BoundsAssumption, DevicesAssumption DEF Publish, Upload
  <2>2. HaveTokens'
    BY <1>16, BoundsAssumption, DevicesAssumption DEF Publish, Upload
  <2>3. SingleKeys'
    BY <1>16, BoundsAssumption, DevicesAssumption DEF Publish, Upload
  <2> QED BY <2>1, <2>2, <2>3
<1>17. ASSUME NEW t \in DOMAIN owner, Republish(t) PROVE Types'
  <2>1. CASE /\ t \in valid /\ Upload(owner[t], store[owner[t]])
                 /\ UNCHANGED gaveUp
    <3>1. TypeOK'
      BY <1>17, <2>1, BoundsAssumption, DevicesAssumption DEF Republish, Upload
    <3>2. HaveTokens'
      BY <1>17, <2>1, BoundsAssumption, DevicesAssumption DEF Republish, Upload
    <3>3. SingleKeys'
      BY <1>17, <2>1, BoundsAssumption, DevicesAssumption DEF Republish, Upload
    <3> QED BY <3>1, <3>2, <3>3
  <2>2. CASE /\ gaveUp' = gaveUp \cup ({t} \cap ctx)
                 /\ UNCHANGED published
    <3>1. TypeOK'
      BY <1>17, <2>2, BoundsAssumption, DevicesAssumption DEF Republish, Upload
    <3>2. HaveTokens'
      BY <1>17, <2>2, BoundsAssumption, DevicesAssumption DEF Republish, Upload
    <3>3. SingleKeys'
      BY <1>17, <2>2, BoundsAssumption, DevicesAssumption DEF Republish, Upload
    <3> QED BY <3>1, <3>2, <3>3
  <2> QED BY <1>17, <2>1, <2>2 DEF Republish
<1>18. ASSUME NEW t \in DOMAIN owner, Evict(t) PROVE Types'
  <2>1. TypeOK'
    BY <1>18, BoundsAssumption, DevicesAssumption DEF Evict
  <2>2. HaveTokens'
    BY <1>18, BoundsAssumption, DevicesAssumption DEF Evict
  <2>3. SingleKeys'
    BY <1>18, BoundsAssumption, DevicesAssumption DEF Evict
  <2> QED BY <2>1, <2>2, <2>3
<1> QED
  BY <1>1, <1>2, <1>3, <1>4, <1>5, <1>6, <1>7, <1>8, <1>9, <1>10, <1>11, <1>12, <1>13,
      <1>14, <1>15, <1>16, <1>17, <1>18
  DEF Next, Handle

\* Only logins, sign-outs and publishing touch what the homeserver has.
LEMMA TokensStep ==
  ASSUME Inv, Next
  PROVE  Tokens'
<1> USE DEF Inv, Types, TypeOK, HaveTokens, SingleKeys, Tokens, OneToken, KeysHaveToken,
    Stores, Opened, Makes, Of,
        homeserver, disk, sessions, handler, bounds
<1>1. CASE SignOut
  <2>1. PICK d \in Issued :
          /\ valid' = {t \in valid : owner[t] # d} /\ UNCHANGED owner
          /\ published' = [published EXCEPT ![d] = {}]
    BY <1>1 DEF SignOut
  <2>2. OneToken'
    BY <2>1
  <2>3. KeysHaveToken'
    BY <2>1
  <2> QED BY <2>2, <2>3
<1>2. CASE Restart
  BY <1>2 DEF Restart, Issued
<1>3. CASE OtherProgram
  <2>1. PICK d \in Devices, new \in 1 .. MaxTokens :
          /\ \A t \in valid : owner[t] # d
          /\ IssuedTo(d, new)
          /\ published' \in [Devices -> Key]
          /\ \A c \in Devices \ {d} : published'[c] = published[c]
          /\ \A k, l \in published'[d] : k = l
          /\ made' \in 0 .. MaxKeys
    BY <1>3, PastTheProxy
  <2>2. UNCHANGED <<disk, sessions, handler, signOuts, restarts>>
    BY <1>3 DEF OtherProgram
  <2>3. OneToken'
    BY <2>1, <2>2, Owners DEF IssuedTo
  <2>4. KeysHaveToken'
    BY <2>1, <2>2, Owners DEF IssuedTo
  <2> QED BY <2>3, <2>4 DEF Tokens
<1>4. ASSUME NEW h \in Handlers,
          Plan(h) \/ Request(h) \/ Query(h) \/ Reuse(h) \/ Refuse(h) \/ HoldBack(h)
          \/ Open(h) \/ Make(h) \/ Made(h) \/ OpenFails(h) \/ Drop(h)
     PROVE  Tokens'
  <2>1. UNCHANGED <<owner, valid, published>>
    BY <1>4
    DEF Plan, Request, Query, Reuse, Refuse, HoldBack, Open, Make, Made, OpenFails, Drop,
        Continues, Asked, Unlocked, End, NeedsContext, Conflict, Admit, NewStore
  <2> QED BY <2>1
<1>5. ASSUME NEW h \in Handlers, LoggedIn(h) PROVE Tokens'
  <2>1. PICK d \in Devices, new \in 1 .. MaxTokens :
          /\ d \in dev[h] \/ (dev[h] = {} /\ d \notin Issued)
          /\ IssuedTo(d, new)
          /\ tok' = [tok EXCEPT ![h] = new] /\ fresh' = fresh \cup {new}
          /\ record' \in SUBSET Devices
    BY <1>5, ThroughTheProxy
  <2>2. /\ pc[h] = "login" /\ pc' = [pc EXCEPT ![h] = "query"]
        /\ dev' = [dev EXCEPT ![h] = {}]
        /\ UNCHANGED <<published, store, shared, ctx, refused, lost, unsure, gaveUp,
                       asLogin, ans, bounds>>
    BY <1>5 DEF LoggedIn, Goto
  <2>3. IssuedTo(d, new) /\ UNCHANGED published
    BY <2>1, <2>2
  <2>4. OneToken'
    BY <2>3 DEF IssuedTo
  <2>5. KeysHaveToken'
    BY <2>3 DEF IssuedTo
  <2> QED BY <2>4, <2>5
<1>6. ASSUME NEW t \in DOMAIN owner, Publish(t) PROVE Tokens'
  BY <1>6 DEF Publish, Upload
<1>7. ASSUME NEW t \in DOMAIN owner, Republish(t) PROVE Tokens'
  <2>1. CASE /\ t \in valid /\ Upload(owner[t], store[owner[t]])
                 /\ UNCHANGED gaveUp
    <3>1. OneToken'
      BY <1>7, <2>1 DEF Republish, Upload
    <3>2. KeysHaveToken'
      BY <1>7, <2>1 DEF Republish, Upload
    <3> QED BY <3>1, <3>2
  <2>2. CASE /\ gaveUp' = gaveUp \cup ({t} \cap ctx)
                 /\ UNCHANGED published
    <3>1. OneToken'
      BY <1>7, <2>2 DEF Republish, Upload
    <3>2. KeysHaveToken'
      BY <1>7, <2>2 DEF Republish, Upload
    <3> QED BY <3>1, <3>2
  <2> QED BY <1>7, <2>1, <2>2 DEF Republish
<1>8. ASSUME NEW t \in DOMAIN owner, Evict(t) PROVE Tokens'
  BY <1>8 DEF Evict
<1> QED
  BY <1>1, <1>2, <1>3, <1>4, <1>5, <1>6, <1>7, <1>8
  DEF Next, Handle

\* A store is made for a device without one, which no context has.
LEMMA StoresStep ==
  ASSUME Inv, Next
  PROVE  Stores'
<1> USE DEF Inv, Types, TypeOK, HaveTokens, SingleKeys, WithToken, Tokens, OneToken,
    KeysHaveToken, Stores, Opened, Makes, Of,
        homeserver, disk, sessions, handler, bounds
<1>1. CASE SignOut
  BY <1>1 DEF SignOut, Issued
<1>2. CASE Restart
  BY <1>2 DEF Restart, Issued
<1>3. CASE OtherProgram
  <2>1. PICK d \in Devices, new \in 1 .. MaxTokens :
          /\ \A t \in valid : owner[t] # d
          /\ IssuedTo(d, new)
          /\ published' \in [Devices -> Key]
          /\ \A c \in Devices \ {d} : published'[c] = published[c]
          /\ \A k, l \in published'[d] : k = l
          /\ made' \in 0 .. MaxKeys
    BY <1>3, PastTheProxy
  <2>2. UNCHANGED <<disk, sessions, handler, signOuts, restarts>>
    BY <1>3 DEF OtherProgram
  <2>3. Opened'
    BY <2>1, <2>2, Owners DEF IssuedTo
  <2>4. Makes'
    BY <2>1, <2>2, Owners DEF IssuedTo
  <2> QED BY <2>3, <2>4 DEF Stores
<1>4. ASSUME NEW h \in Handlers, Request(h) PROVE Stores'
  <2>1. PICK t \in DOMAIN owner :
          /\ tok' = [tok EXCEPT ![h] = t]
          /\ pc' = [pc EXCEPT ![h] = "query"] \/ pc' = [pc EXCEPT ![h] = "through"]
    BY <1>4 DEF Request, Goto
  <2>2. pc[h] = "idle" /\ UNCHANGED <<homeserver, disk, sessions, asLogin, dev, ans, bounds>>
    BY <1>4 DEF Request
  <2>3. CASE pc' = [pc EXCEPT ![h] = "query"]
    BY <2>1, <2>2, <2>3, Owners
  <2>4. CASE pc' = [pc EXCEPT ![h] = "through"]
    BY <2>1, <2>2, <2>4, Owners
  <2> QED BY <2>1, <2>3, <2>4
<1>5. ASSUME NEW h \in Handlers, Plan(h) PROVE Stores'
  <2>1. /\ pc[h] = "idle" /\ pc' = [pc EXCEPT ![h] = "login"]
        /\ UNCHANGED <<homeserver, disk, sessions, tok, ans, bounds>>
    BY <1>5 DEF Plan, Goto
  <2> QED BY <2>1
<1>6. ASSUME NEW h \in Handlers, Query(h) PROVE Stores'
  <2>1. /\ pc[h] = "query" /\ pc' \in {[pc EXCEPT ![h] = "checked"], [pc EXCEPT ![h] = "unchecked"]}
        /\ UNCHANGED <<homeserver, disk, sessions, tok>>
    BY <1>6 DEF Query, Goto
  <2> QED BY <2>1
<1>7. ASSUME NEW h \in Handlers, Reuse(h) PROVE Stores'
  BY <1>7 DEF Reuse, Goto, Asked, Unlocked, End
<1>8. ASSUME NEW h \in Handlers, Refuse(h) PROVE Stores'
  BY <1>8 DEF Refuse, Goto, NeedsContext, Asked, Unlocked, Conflict, End
<1>9. ASSUME NEW h \in Handlers, HoldBack(h) PROVE Stores'
  BY <1>9 DEF HoldBack, Goto, NeedsContext, Asked, Unlocked, End
<1>10. ASSUME NEW h \in Handlers, Open(h) PROVE Stores'
  BY <1>10 DEF Open, Goto, NeedsContext, Asked, Unlocked, Conflict, Admit, End
<1>11. ASSUME NEW h \in Handlers, Make(h) PROVE Stores'
  <2>1. /\ store' = [store EXCEPT ![Of(h)] = {made'}] /\ Of(h) \in Devices
        /\ store[Of(h)] = {} /\ Of(h) \notin shared
        /\ pc' = [pc EXCEPT ![h] = "made"] /\ UNCHANGED <<shared, ctx, owner, tok, lost, valid>>
    BY <1>11 DEF Make, Goto, NeedsContext, Asked, Unlocked, Conflict, NewStore
  <2>2. \A g \in Handlers : pc'[g] = "made" => g = h
    BY <1>11, <2>1 DEF Make, Goto, NeedsContext, Asked, Unlocked, Conflict, NewStore
  <2>3. \A t \in ctx : owner[t] # Of(h)
    BY <2>1
  <2>4. store'[Of(h)] # {} /\ Of(h)' = Of(h)
    BY <2>1
  <2>5. Opened'
    BY <2>1, Owners
  <2>6. Makes'
    BY <2>1, <2>2, <2>3, <2>4
  <2> QED BY <2>5, <2>6
<1>12. ASSUME NEW h \in Handlers, Made(h) PROVE Stores'
  BY <1>12 DEF Made, Goto, Admit, End
<1>13. ASSUME NEW h \in Handlers, OpenFails(h) PROVE Stores'
  BY <1>13 DEF OpenFails, Goto, NeedsContext, Asked, Unlocked
<1>14. ASSUME NEW h \in Handlers, Drop(h) PROVE Stores'
  BY <1>14 DEF Drop, Goto, End
<1>15. ASSUME NEW h \in Handlers, LoggedIn(h) PROVE Stores'
  <2>1. PICK d \in Devices, new \in 1 .. MaxTokens :
          /\ d \in dev[h] \/ (dev[h] = {} /\ d \notin Issued)
          /\ IssuedTo(d, new)
          /\ tok' = [tok EXCEPT ![h] = new] /\ fresh' = fresh \cup {new}
          /\ record' \in SUBSET Devices
    BY <1>15, ThroughTheProxy
  <2>2. /\ pc[h] = "login" /\ pc' = [pc EXCEPT ![h] = "query"]
        /\ dev' = [dev EXCEPT ![h] = {}]
        /\ UNCHANGED <<published, store, shared, ctx, refused, lost, unsure, gaveUp,
                       asLogin, ans, bounds>>
    BY <1>15 DEF LoggedIn, Goto
  <2>3. Opened'
    BY <2>1, <2>2, Owners DEF IssuedTo
  <2>4. Makes'
    BY <2>1, <2>2, Owners DEF IssuedTo
  <2> QED BY <2>3, <2>4 DEF Stores
<1>16. ASSUME NEW t \in DOMAIN owner, Publish(t) PROVE Stores'
  BY <1>16 DEF Publish, Upload
<1>17. ASSUME NEW t \in DOMAIN owner, Republish(t) PROVE Stores'
  <2>1. CASE /\ t \in valid /\ Upload(owner[t], store[owner[t]])
                 /\ UNCHANGED gaveUp
    <3>1. Opened'
      BY <1>17, <2>1 DEF Republish, Upload
    <3>2. Makes'
      BY <1>17, <2>1 DEF Republish, Upload
    <3> QED BY <3>1, <3>2
  <2>2. CASE /\ gaveUp' = gaveUp \cup ({t} \cap ctx)
                 /\ UNCHANGED published
    <3>1. Opened'
      BY <1>17, <2>2 DEF Republish, Upload
    <3>2. Makes'
      BY <1>17, <2>2 DEF Republish, Upload
    <3> QED BY <3>1, <3>2
  <2> QED BY <1>17, <2>1, <2>2 DEF Republish
<1>18. ASSUME NEW t \in DOMAIN owner, Evict(t) PROVE Stores'
  BY <1>18 DEF Evict
<1> QED
  BY <1>1, <1>2, <1>3, <1>4, <1>5, <1>6, <1>7, <1>8, <1>9, <1>10, <1>11, <1>12, <1>13,
      <1>14, <1>15, <1>16, <1>17, <1>18
  DEF Next, Handle

\* What changes the published keys of a device is its token's context.
LEMMA AnswersStep ==
  ASSUME Inv, Next
  PROVE  Answers'
<1> USE DEF Inv, Types, TypeOK, HaveTokens, SingleKeys, WithToken, Tokens, OneToken,
    KeysHaveToken, Stores, Opened, Makes, Answers, Of,
        homeserver, disk, sessions, handler, bounds
<1>1. CASE SignOut
  BY <1>1 DEF SignOut, Issued
<1>2. CASE Restart
  BY <1>2 DEF Restart, Issued
<1>3. CASE OtherProgram
  <2>1. PICK d \in Devices, new \in 1 .. MaxTokens :
          /\ \A t \in valid : owner[t] # d
          /\ IssuedTo(d, new)
          /\ published' \in [Devices -> Key]
          /\ \A c \in Devices \ {d} : published'[c] = published[c]
          /\ \A k, l \in published'[d] : k = l
          /\ made' \in 0 .. MaxKeys
    BY <1>3, PastTheProxy
  <2>2. UNCHANGED <<disk, sessions, handler, signOuts, restarts>>
    BY <1>3 DEF OtherProgram
  <2> QED BY <2>1, <2>2, Owners DEF IssuedTo
<1>4. ASSUME NEW h \in Handlers, Request(h) PROVE Answers'
  <2>1. PICK t \in DOMAIN owner :
          /\ tok' = [tok EXCEPT ![h] = t]
          /\ pc' = [pc EXCEPT ![h] = "query"] \/ pc' = [pc EXCEPT ![h] = "through"]
    BY <1>4 DEF Request, Goto
  <2>2. pc[h] = "idle" /\ UNCHANGED <<homeserver, disk, sessions, asLogin, dev, ans, bounds>>
    BY <1>4 DEF Request
  <2>3. CASE pc' = [pc EXCEPT ![h] = "query"]
    BY <2>1, <2>2, <2>3, Owners
  <2>4. CASE pc' = [pc EXCEPT ![h] = "through"]
    BY <2>1, <2>2, <2>4, Owners
  <2> QED BY <2>1, <2>3, <2>4
<1>5. ASSUME NEW h \in Handlers, Plan(h) PROVE Answers'
  <2>1. /\ pc[h] = "idle" /\ pc' = [pc EXCEPT ![h] = "login"]
        /\ UNCHANGED <<homeserver, disk, sessions, tok, ans, bounds>>
    BY <1>5 DEF Plan, Goto
  <2> QED BY <2>1
<1>6. ASSUME NEW h \in Handlers, Query(h) PROVE Answers'
  <2>1. CASE /\ tok[h] \in valid /\ Goto(h, "checked")
                 /\ ans' = [ans EXCEPT ![h] = published[Of(h)]]
    BY <1>6, <2>1 DEF Query, Goto
  <2>2. CASE Goto(h, "unchecked") /\ UNCHANGED ans
    BY <1>6, <2>2 DEF Query, Goto
  <2> QED BY <1>6, <2>1, <2>2 DEF Query
<1>7. ASSUME NEW h \in Handlers, Reuse(h) PROVE Answers'
  BY <1>7 DEF Reuse, Goto, Asked, Unlocked, End
<1>8. ASSUME NEW h \in Handlers, Refuse(h) PROVE Answers'
  BY <1>8 DEF Refuse, Goto, NeedsContext, Asked, Unlocked, Conflict, End
<1>9. ASSUME NEW h \in Handlers, HoldBack(h) PROVE Answers'
  BY <1>9 DEF HoldBack, Goto, NeedsContext, Asked, Unlocked, End
<1>10. ASSUME NEW h \in Handlers, Open(h) PROVE Answers'
  BY <1>10 DEF Open, Goto, NeedsContext, Asked, Unlocked, Conflict, Admit, End
<1>11. ASSUME NEW h \in Handlers, Make(h) PROVE Answers'
  BY <1>11 DEF Make, Goto, NeedsContext, Asked, Unlocked, Conflict, NewStore
<1>12. ASSUME NEW h \in Handlers, Made(h) PROVE Answers'
  BY <1>12 DEF Made, Goto, Admit, End
<1>13. ASSUME NEW h \in Handlers, OpenFails(h) PROVE Answers'
  BY <1>13 DEF OpenFails, Goto, NeedsContext, Asked, Unlocked
<1>14. ASSUME NEW h \in Handlers, Drop(h) PROVE Answers'
  BY <1>14 DEF Drop, Goto, End
<1>15. ASSUME NEW h \in Handlers, LoggedIn(h) PROVE Answers'
  <2>1. PICK d \in Devices, new \in 1 .. MaxTokens :
          /\ d \in dev[h] \/ (dev[h] = {} /\ d \notin Issued)
          /\ IssuedTo(d, new)
          /\ tok' = [tok EXCEPT ![h] = new] /\ fresh' = fresh \cup {new}
          /\ record' \in SUBSET Devices
    BY <1>15, ThroughTheProxy
  <2>2. /\ pc[h] = "login" /\ pc' = [pc EXCEPT ![h] = "query"]
        /\ dev' = [dev EXCEPT ![h] = {}]
        /\ UNCHANGED <<published, store, shared, ctx, refused, lost, unsure, gaveUp,
                       asLogin, ans, bounds>>
    BY <1>15 DEF LoggedIn, Goto
  <2> QED BY <2>1, <2>2, Owners DEF IssuedTo
<1>16. ASSUME NEW t \in DOMAIN owner, Publish(t) PROVE Answers'
  BY <1>16 DEF Publish, Upload
<1>17. ASSUME NEW t \in DOMAIN owner, Republish(t) PROVE Answers'
  <2>1. CASE /\ t \in valid /\ Upload(owner[t], store[owner[t]])
                 /\ UNCHANGED gaveUp
    BY <1>17, <2>1 DEF Republish, Upload
  <2>2. CASE /\ gaveUp' = gaveUp \cup ({t} \cap ctx)
                 /\ UNCHANGED published
    BY <1>17, <2>2 DEF Republish, Upload
  <2> QED BY <1>17, <2>1, <2>2 DEF Republish
<1>18. ASSUME NEW t \in DOMAIN owner, Evict(t) PROVE Answers'
  BY <1>18 DEF Evict
<1> QED
  BY <1>1, <1>2, <1>3, <1>4, <1>5, <1>6, <1>7, <1>8, <1>9, <1>10, <1>11, <1>12, <1>13,
      <1>14, <1>15, <1>16, <1>17, <1>18
  DEF Next, Handle

\* A store goes with a restart only, and so do the logins that count on it.
LEMMA ContinuedStep ==
  ASSUME Inv, Next
  PROVE  Continued'
<1> USE DEF Inv, Types, TypeOK, HaveTokens, SingleKeys, WithToken, Stores, Opened, Makes,
    Continued, Issued, Of,
        homeserver, disk, sessions, handler, bounds
<1>1. CASE SignOut
  BY <1>1 DEF SignOut
<1>2. CASE Restart
  BY <1>2 DEF Restart
<1>3. CASE OtherProgram
  <2>1. PICK d \in Devices, new \in 1 .. MaxTokens :
          /\ \A t \in valid : owner[t] # d
          /\ IssuedTo(d, new)
          /\ published' \in [Devices -> Key]
          /\ \A c \in Devices \ {d} : published'[c] = published[c]
          /\ \A k, l \in published'[d] : k = l
          /\ made' \in 0 .. MaxKeys
    BY <1>3, PastTheProxy
  <2>2. UNCHANGED <<disk, sessions, handler, signOuts, restarts>>
    BY <1>3 DEF OtherProgram
  <2> QED BY <2>1, <2>2, Owners DEF IssuedTo
<1>4. ASSUME NEW h \in Handlers, Request(h) PROVE Continued'
  <2>1. PICK t \in DOMAIN owner :
          /\ tok' = [tok EXCEPT ![h] = t]
          /\ pc' = [pc EXCEPT ![h] = "query"] \/ pc' = [pc EXCEPT ![h] = "through"]
    BY <1>4 DEF Request, Goto
  <2>2. pc[h] = "idle" /\ UNCHANGED <<homeserver, disk, sessions, asLogin, dev, ans, bounds>>
    BY <1>4 DEF Request
  <2>3. CASE pc' = [pc EXCEPT ![h] = "query"]
    BY <2>1, <2>2, <2>3, Owners
  <2>4. CASE pc' = [pc EXCEPT ![h] = "through"]
    BY <2>1, <2>2, <2>4, Owners
  <2> QED BY <2>1, <2>3, <2>4
<1>5. ASSUME NEW h \in Handlers, Plan(h) PROVE Continued'
  <2>1. CASE \E d \in Continues : dev' = [dev EXCEPT ![h] = {d}]
    BY <1>5, <2>1 DEF Plan, Goto, Continues
  <2>2. CASE Continues = {} /\ dev' = [dev EXCEPT ![h] = {}]
    BY <1>5, <2>2 DEF Plan, Goto, Continues
  <2> QED BY <1>5, <2>1, <2>2 DEF Plan
<1>6. ASSUME NEW h \in Handlers, Query(h) PROVE Continued'
  <2>1. CASE /\ tok[h] \in valid /\ Goto(h, "checked")
                 /\ ans' = [ans EXCEPT ![h] = published[Of(h)]]
    BY <1>6, <2>1 DEF Query, Goto
  <2>2. CASE Goto(h, "unchecked") /\ UNCHANGED ans
    BY <1>6, <2>2 DEF Query, Goto
  <2> QED BY <1>6, <2>1, <2>2 DEF Query
<1>7. ASSUME NEW h \in Handlers, Reuse(h) PROVE Continued'
  BY <1>7 DEF Reuse, Goto, Asked, Unlocked, End
<1>8. ASSUME NEW h \in Handlers, Refuse(h) PROVE Continued'
  BY <1>8 DEF Refuse, Goto, NeedsContext, Asked, Unlocked, Conflict, End
<1>9. ASSUME NEW h \in Handlers, HoldBack(h) PROVE Continued'
  BY <1>9 DEF HoldBack, Goto, NeedsContext, Asked, Unlocked, End
<1>10. ASSUME NEW h \in Handlers, Open(h) PROVE Continued'
  BY <1>10 DEF Open, Goto, NeedsContext, Asked, Unlocked, Conflict, Admit, End
<1>11. ASSUME NEW h \in Handlers, Make(h) PROVE Continued'
  BY <1>11 DEF Make, Goto, NeedsContext, Asked, Unlocked, Conflict, NewStore
<1>12. ASSUME NEW h \in Handlers, Made(h) PROVE Continued'
  BY <1>12 DEF Made, Goto, Admit, End
<1>13. ASSUME NEW h \in Handlers, OpenFails(h) PROVE Continued'
  BY <1>13 DEF OpenFails, Goto, NeedsContext, Asked, Unlocked
<1>14. ASSUME NEW h \in Handlers, Drop(h) PROVE Continued'
  BY <1>14 DEF Drop, Goto, End
<1>15. ASSUME NEW h \in Handlers, LoggedIn(h) PROVE Continued'
  <2>1. PICK d \in Devices, new \in 1 .. MaxTokens :
          /\ d \in dev[h] \/ (dev[h] = {} /\ d \notin Issued)
          /\ IssuedTo(d, new)
          /\ tok' = [tok EXCEPT ![h] = new] /\ fresh' = fresh \cup {new}
          /\ record' \in SUBSET Devices
    BY <1>15, ThroughTheProxy
  <2>2. /\ pc[h] = "login" /\ pc' = [pc EXCEPT ![h] = "query"]
        /\ dev' = [dev EXCEPT ![h] = {}]
        /\ UNCHANGED <<published, store, shared, ctx, refused, lost, unsure, gaveUp,
                       asLogin, ans, bounds>>
    BY <1>15 DEF LoggedIn, Goto
  <2> QED BY <2>1, <2>2, Owners DEF IssuedTo
<1>16. ASSUME NEW t \in DOMAIN owner, Publish(t) PROVE Continued'
  BY <1>16 DEF Publish, Upload
<1>17. ASSUME NEW t \in DOMAIN owner, Republish(t) PROVE Continued'
  <2>1. CASE /\ t \in valid /\ Upload(owner[t], store[owner[t]])
                 /\ UNCHANGED gaveUp
    BY <1>17, <2>1 DEF Republish, Upload
  <2>2. CASE /\ gaveUp' = gaveUp \cup ({t} \cap ctx)
                 /\ UNCHANGED published
    BY <1>17, <2>2 DEF Republish, Upload
  <2> QED BY <1>17, <2>1, <2>2 DEF Republish
<1>18. ASSUME NEW t \in DOMAIN owner, Evict(t) PROVE Continued'
  BY <1>18 DEF Evict
<1> QED
  BY <1>1, <1>2, <1>3, <1>4, <1>5, <1>6, <1>7, <1>8, <1>9, <1>10, <1>11, <1>12, <1>13,
      <1>14, <1>15, <1>16, <1>17, <1>18
  DEF Next, Handle

\* Without a store a login gets a new device, which has no keys to conflict with.
LEMMA FirstsStep ==
  ASSUME Inv, Next
  PROVE  Firsts'
<1> USE DEF Inv, Types, TypeOK, HaveTokens, SingleKeys, WithToken, Tokens, OneToken,
    KeysHaveToken, Stores, Opened, Makes, Answers, Continued, Issued, Firsts, First, Of,
        homeserver, disk, sessions, handler, bounds
<1>1. CASE SignOut
  BY <1>1 DEF SignOut
<1>2. CASE Restart
  BY <1>2 DEF Restart
<1>3. CASE OtherProgram
  <2>1. PICK d \in Devices, new \in 1 .. MaxTokens :
          /\ \A t \in valid : owner[t] # d
          /\ IssuedTo(d, new)
          /\ published' \in [Devices -> Key]
          /\ \A c \in Devices \ {d} : published'[c] = published[c]
          /\ \A k, l \in published'[d] : k = l
          /\ made' \in 0 .. MaxKeys
    BY <1>3, PastTheProxy
  <2>2. UNCHANGED <<disk, sessions, handler, signOuts, restarts>>
    BY <1>3 DEF OtherProgram
  <2> QED BY <2>1, <2>2, Owners DEF IssuedTo
<1>4. ASSUME NEW h \in Handlers, Request(h) PROVE Firsts'
  <2>1. PICK t \in DOMAIN owner :
          /\ tok' = [tok EXCEPT ![h] = t]
          /\ pc' = [pc EXCEPT ![h] = "query"] \/ pc' = [pc EXCEPT ![h] = "through"]
    BY <1>4 DEF Request, Goto
  <2>2. pc[h] = "idle" /\ UNCHANGED <<homeserver, disk, sessions, asLogin, dev, ans, bounds>>
    BY <1>4 DEF Request
  <2>3. CASE pc' = [pc EXCEPT ![h] = "query"]
    BY <2>1, <2>2, <2>3, Owners
  <2>4. CASE pc' = [pc EXCEPT ![h] = "through"]
    BY <2>1, <2>2, <2>4, Owners
  <2> QED BY <2>1, <2>3, <2>4
<1>5. ASSUME NEW h \in Handlers, Plan(h) PROVE Firsts'
  <2>1. /\ pc[h] = "idle" /\ pc' = [pc EXCEPT ![h] = "login"]
        /\ UNCHANGED <<homeserver, disk, sessions, tok, ans, bounds>>
    BY <1>5 DEF Plan, Goto
  <2> QED BY <2>1
<1>6. ASSUME NEW h \in Handlers, Query(h) PROVE Firsts'
  <2>1. CASE /\ tok[h] \in valid /\ Goto(h, "checked")
                 /\ ans' = [ans EXCEPT ![h] = published[Of(h)]]
    BY <1>6, <2>1 DEF Query, Goto
  <2>2. CASE Goto(h, "unchecked") /\ UNCHANGED ans
    BY <1>6, <2>2 DEF Query, Goto
  <2> QED BY <1>6, <2>1, <2>2 DEF Query
<1>7. ASSUME NEW h \in Handlers, Reuse(h) PROVE Firsts'
  BY <1>7 DEF Reuse, Goto, Asked, Unlocked, End
<1>8. ASSUME NEW h \in Handlers, Refuse(h) PROVE Firsts'
  BY <1>8 DEF Refuse, Goto, NeedsContext, Asked, Unlocked, Conflict, End
<1>9. ASSUME NEW h \in Handlers, HoldBack(h) PROVE Firsts'
  BY <1>9 DEF HoldBack, Goto, NeedsContext, Asked, Unlocked, End
<1>10. ASSUME NEW h \in Handlers, Open(h) PROVE Firsts'
  BY <1>10 DEF Open, Goto, NeedsContext, Asked, Unlocked, Conflict, Admit, End
<1>11. ASSUME NEW h \in Handlers, Make(h) PROVE Firsts'
  BY <1>11 DEF Make, Goto, NeedsContext, Asked, Unlocked, Conflict, NewStore
<1>12. ASSUME NEW h \in Handlers, Made(h) PROVE Firsts'
  BY <1>12 DEF Made, Goto, Admit, End
<1>13. ASSUME NEW h \in Handlers, OpenFails(h) PROVE Firsts'
  BY <1>13 DEF OpenFails, Goto, NeedsContext, Asked, Unlocked
<1>14. ASSUME NEW h \in Handlers, Drop(h) PROVE Firsts'
  BY <1>14 DEF Drop, Goto, End
<1>15. ASSUME NEW h \in Handlers, LoggedIn(h) PROVE Firsts'
  <2>1. PICK d \in Devices, new \in 1 .. MaxTokens :
          /\ d \in dev[h] \/ (dev[h] = {} /\ d \notin Issued)
          /\ IssuedTo(d, new)
          /\ tok' = [tok EXCEPT ![h] = new] /\ fresh' = fresh \cup {new}
          /\ record' \in SUBSET Devices
    BY <1>15, ThroughTheProxy
  <2>2. /\ pc[h] = "login" /\ pc' = [pc EXCEPT ![h] = "query"]
        /\ dev' = [dev EXCEPT ![h] = {}]
        /\ UNCHANGED <<published, store, shared, ctx, refused, lost, unsure, gaveUp,
                       asLogin, ans, bounds>>
    BY <1>15 DEF LoggedIn, Goto
  <2>3. new \notin DOMAIN owner /\ owner'[new] = d
    BY <2>1 DEF IssuedTo
  <2>4. ASSUME NEW t \in (fresh \cap valid)', store'[owner'[t]] = {}, t # new PROVE First(t)'
    BY <2>1, <2>2, <2>4, Owners DEF IssuedTo
  <2>5. ASSUME store'[owner'[new]] = {} PROVE First(new)'
    <3>1. d \notin Issued
      BY <2>1, <2>2, <2>3, <2>5
    <3>2. published[d] = {} /\ d \notin refused
      BY <3>1
    <3>3. \A u \in DOMAIN owner' : owner'[u] = d => u = new
      BY <2>1, <3>1 DEF IssuedTo
    <3>4. \A g \in Handlers : pc'[g] = "checked" => tok'[g] # new
      BY <2>1, <2>2, <2>3
    <3> QED BY <2>2, <2>3, <3>2, <3>3, <3>4
  <2> QED BY <2>4, <2>5
<1>16. ASSUME NEW t \in DOMAIN owner, Publish(t) PROVE Firsts'
  BY <1>16 DEF Publish, Upload
<1>17. ASSUME NEW t \in DOMAIN owner, Republish(t) PROVE Firsts'
  <2>1. CASE /\ t \in valid /\ Upload(owner[t], store[owner[t]])
                 /\ UNCHANGED gaveUp
    BY <1>17, <2>1 DEF Republish, Upload
  <2>2. CASE /\ gaveUp' = gaveUp \cup ({t} \cap ctx)
                 /\ UNCHANGED published
    BY <1>17, <2>2 DEF Republish, Upload
  <2> QED BY <1>17, <2>1, <2>2 DEF Republish
<1>18. ASSUME NEW t \in DOMAIN owner, Evict(t) PROVE Firsts'
  BY <1>18 DEF Evict
<1> QED
  BY <1>1, <1>2, <1>3, <1>4, <1>5, <1>6, <1>7, <1>8, <1>9, <1>10, <1>11, <1>12, <1>13,
      <1>14, <1>15, <1>16, <1>17, <1>18
  DEF Next, Handle

\* A session is opened or made on an answer that is still true.
LEMMA ContextStep ==
  ASSUME Inv, Next
  PROVE  ContextMatches'
<1> USE DEF Inv, Types, TypeOK, HaveTokens, SingleKeys, WithToken, Tokens, OneToken,
    KeysHaveToken, Stores, Opened, Makes, Answers, ContextMatches, Of,
        homeserver, disk, sessions, handler, bounds
<1>1. CASE SignOut
  BY <1>1 DEF SignOut, Issued
<1>2. CASE Restart
  BY <1>2 DEF Restart, Issued
<1>3. CASE OtherProgram
  <2>1. PICK d \in Devices, new \in 1 .. MaxTokens :
          /\ \A t \in valid : owner[t] # d
          /\ IssuedTo(d, new)
          /\ published' \in [Devices -> Key]
          /\ \A c \in Devices \ {d} : published'[c] = published[c]
          /\ \A k, l \in published'[d] : k = l
          /\ made' \in 0 .. MaxKeys
    BY <1>3, PastTheProxy
  <2>2. UNCHANGED <<disk, sessions, handler, signOuts, restarts>>
    BY <1>3 DEF OtherProgram
  <2> QED BY <2>1, <2>2, Owners DEF IssuedTo
<1>4. ASSUME NEW h \in Handlers,
          Plan(h) \/ Request(h) \/ Query(h) \/ Reuse(h) \/ Refuse(h) \/ HoldBack(h)
          \/ OpenFails(h) \/ Drop(h)
     PROVE  ContextMatches'
  <2>1. UNCHANGED <<owner, valid, ctx, unsure, published, store>>
    BY <1>4
    DEF Plan, Request, Query, Reuse, Refuse, HoldBack, OpenFails, Drop, Continues, Asked,
        Unlocked, End, NeedsContext, Conflict
  <2> QED BY <2>1
<1>5. ASSUME NEW h \in Handlers, Open(h) PROVE ContextMatches'
  BY <1>5 DEF Open, Goto, NeedsContext, Asked, Unlocked, Conflict, Admit, End
<1>6. ASSUME NEW h \in Handlers, Make(h) PROVE ContextMatches'
  BY <1>6 DEF Make, Goto, NeedsContext, Asked, Unlocked, Conflict, NewStore
<1>7. ASSUME NEW h \in Handlers, Made(h) PROVE ContextMatches'
  BY <1>7 DEF Made, Goto, Admit, End
<1>8. ASSUME NEW h \in Handlers, LoggedIn(h) PROVE ContextMatches'
  <2>1. PICK d \in Devices, new \in 1 .. MaxTokens :
          /\ d \in dev[h] \/ (dev[h] = {} /\ d \notin Issued)
          /\ IssuedTo(d, new)
          /\ tok' = [tok EXCEPT ![h] = new] /\ fresh' = fresh \cup {new}
          /\ record' \in SUBSET Devices
    BY <1>8, ThroughTheProxy
  <2>2. /\ pc[h] = "login" /\ pc' = [pc EXCEPT ![h] = "query"]
        /\ dev' = [dev EXCEPT ![h] = {}]
        /\ UNCHANGED <<published, store, shared, ctx, refused, lost, unsure, gaveUp,
                       asLogin, ans, bounds>>
    BY <1>8 DEF LoggedIn, Goto
  <2> QED BY <2>1, <2>2, Owners DEF IssuedTo
<1>9. ASSUME NEW t \in DOMAIN owner, Publish(t) PROVE ContextMatches'
  BY <1>9 DEF Publish, Upload
<1>10. ASSUME NEW t \in DOMAIN owner, Republish(t) PROVE ContextMatches'
  <2>1. CASE /\ t \in valid /\ Upload(owner[t], store[owner[t]])
                 /\ UNCHANGED gaveUp
    BY <1>10, <2>1 DEF Republish, Upload
  <2>2. CASE /\ gaveUp' = gaveUp \cup ({t} \cap ctx)
                 /\ UNCHANGED published
    BY <1>10, <2>2 DEF Republish, Upload
  <2> QED BY <1>10, <2>1, <2>2 DEF Republish
<1>11. ASSUME NEW t \in DOMAIN owner, Evict(t) PROVE ContextMatches'
  BY <1>11 DEF Evict
<1> QED
  BY <1>1, <1>2, <1>3, <1>4, <1>5, <1>6, <1>7, <1>8, <1>9, <1>10, <1>11
  DEF Next, Handle

\* Keys found missing are published again; keys go missing by a sign-out only.
LEMMA KeysStep ==
  ASSUME Inv, Next
  PROVE  KeysOnTheirWay'
<1> USE DEF Inv, Types, TypeOK, HaveTokens, SingleKeys, WithToken, Tokens, OneToken,
    KeysHaveToken, Stores, Opened, Makes, Answers, KeysOnTheirWay, Of,
        homeserver, disk, sessions, handler, bounds
<1>1. CASE SignOut
  BY <1>1 DEF SignOut, Issued
<1>2. CASE Restart
  BY <1>2 DEF Restart, Issued
<1>3. CASE OtherProgram
  <2>1. PICK d \in Devices, new \in 1 .. MaxTokens :
          /\ \A t \in valid : owner[t] # d
          /\ IssuedTo(d, new)
          /\ published' \in [Devices -> Key]
          /\ \A c \in Devices \ {d} : published'[c] = published[c]
          /\ \A k, l \in published'[d] : k = l
          /\ made' \in 0 .. MaxKeys
    BY <1>3, PastTheProxy
  <2>2. UNCHANGED <<disk, sessions, handler, signOuts, restarts>>
    BY <1>3 DEF OtherProgram
  <2> QED BY <2>1, <2>2, Owners DEF IssuedTo
<1>4. ASSUME NEW h \in Handlers,
          Plan(h) \/ Request(h) \/ Query(h) \/ Reuse(h) \/ Refuse(h) \/ HoldBack(h)
          \/ OpenFails(h) \/ Drop(h)
     PROVE  KeysOnTheirWay'
  <2>1. UNCHANGED <<owner, valid, ctx, unsure, gaveUp, lost, shared, published>>
    BY <1>4
    DEF Plan, Request, Query, Reuse, Refuse, HoldBack, OpenFails, Drop, Continues, Asked,
        Unlocked, End, NeedsContext, Conflict
  <2> QED BY <2>1
<1>5. ASSUME NEW h \in Handlers, Open(h) PROVE KeysOnTheirWay'
  BY <1>5 DEF Open, Goto, NeedsContext, Asked, Unlocked, Conflict, Admit, End
<1>6. ASSUME NEW h \in Handlers, Make(h) PROVE KeysOnTheirWay'
  BY <1>6 DEF Make, Goto, NeedsContext, Asked, Unlocked, Conflict, NewStore
<1>7. ASSUME NEW h \in Handlers, Made(h) PROVE KeysOnTheirWay'
  BY <1>7 DEF Made, Goto, Admit, End
<1>8. ASSUME NEW h \in Handlers, LoggedIn(h) PROVE KeysOnTheirWay'
  <2>1. PICK d \in Devices, new \in 1 .. MaxTokens :
          /\ d \in dev[h] \/ (dev[h] = {} /\ d \notin Issued)
          /\ IssuedTo(d, new)
          /\ tok' = [tok EXCEPT ![h] = new] /\ fresh' = fresh \cup {new}
          /\ record' \in SUBSET Devices
    BY <1>8, ThroughTheProxy
  <2>2. /\ pc[h] = "login" /\ pc' = [pc EXCEPT ![h] = "query"]
        /\ dev' = [dev EXCEPT ![h] = {}]
        /\ UNCHANGED <<published, store, shared, ctx, refused, lost, unsure, gaveUp,
                       asLogin, ans, bounds>>
    BY <1>8 DEF LoggedIn, Goto
  <2> QED BY <2>1, <2>2, Owners DEF IssuedTo
<1>9. ASSUME NEW t \in DOMAIN owner, Publish(t) PROVE KeysOnTheirWay'
  BY <1>9 DEF Publish, Upload
<1>10. ASSUME NEW t \in DOMAIN owner, Republish(t) PROVE KeysOnTheirWay'
  <2>1. CASE /\ t \in valid /\ Upload(owner[t], store[owner[t]])
                 /\ UNCHANGED gaveUp
    BY <1>10, <2>1 DEF Republish, Upload
  <2>2. CASE /\ gaveUp' = gaveUp \cup ({t} \cap ctx)
                 /\ UNCHANGED published
    BY <1>10, <2>2 DEF Republish, Upload
  <2> QED BY <1>10, <2>1, <2>2 DEF Republish
<1>11. ASSUME NEW t \in DOMAIN owner, Evict(t) PROVE KeysOnTheirWay'
  BY <1>11 DEF Evict
<1> QED
  BY <1>1, <1>2, <1>3, <1>4, <1>5, <1>6, <1>7, <1>8, <1>9, <1>10, <1>11
  DEF Next, Handle

LEMMA StepInv == Inv /\ [Next]_vars => Inv'
<1>1. ASSUME Inv, Next PROVE Inv'
  BY <1>1, TypesStep, TokensStep, StoresStep, AnswersStep, ContinuedStep, FirstsStep,
     ContextStep, KeysStep
  DEF Inv
<1>2. ASSUME Inv, UNCHANGED vars PROVE Inv'
  <2> USE <1>2 DEF vars, homeserver, disk, sessions, handler, bounds, Inv, Of
  <2>1. Types'
    BY DEF Types, TypeOK, HaveTokens, SingleKeys
  <2>2. Tokens' /\ Stores' /\ Answers'
    BY DEF Tokens, OneToken, KeysHaveToken, Stores, Opened, Makes, Answers
  <2>3. Continued' /\ Firsts' /\ ContextMatches' /\ KeysOnTheirWay'
    BY DEF Continued, Issued, Firsts, First, ContextMatches, KeysOnTheirWay
  <2> QED BY <2>1, <2>2, <2>3
<1> QED BY <1>1, <1>2

THEOREM InvHolds == Spec => []Inv
BY InitInv, StepInv, PTL DEF Spec

-----------------------------------------------------------------------------
\* The type invariant of logins, requests, stores and contexts.
THEOREM TypeCorrect == Spec => []TypeOK
<1>1. Inv => TypeOK
  BY DEF Inv, Types
<1> QED BY <1>1, InvHolds, PTL

\* insert (session.rs): a session that was checked and whose token is good has
\* the keys that others see for its device, in every interleaving.
THEOREM RightKeys == Spec => []ContextMatches
<1>1. Inv => ContextMatches
  BY DEF Inv
<1> QED BY <1>1, InvHolds, PTL

\* DeviceConflict::hint (device.rs): a login that the proxy made is not refused
\* for want of a store, so to log in again is the way out it is said to be.
THEOREM LoginHelps == Spec => []LoggingInHelps
<1>1. Inv => LoggingInHelps
  BY DEF Inv, Firsts, First, LoggingInHelps
<1> QED BY <1>1, InvHolds, PTL

\* insert and republish (session.rs): a checked session whose keys the
\* homeserver does not have is about to publish them, or its one try failed.
THEOREM KeysComeBack == Spec => []KeysOnTheirWay
<1>1. Inv => KeysOnTheirWay
  BY DEF Inv
<1> QED BY <1>1, InvHolds, PTL

\* Whoever publishes a store's keys has a context; if it was checked, they are
\* the keys that were published before.
LEMMA SameKeys ==
  ASSUME Inv, NEW t \in (ctx \cap valid) \ unsure, published[owner[t]] # {}
  PROVE  store[owner[t]] = published[owner[t]]
<1>1. owner[t] \in Devices
  BY Owners DEF Inv, Types, TypeOK
<1>2. published[owner[t]] \subseteq store[owner[t]]
  BY DEF Inv, ContextMatches
<1>3. PICK key \in published[owner[t]] : TRUE
  OBVIOUS
<1>4. \A k \in store[owner[t]] : k = key
  BY <1>1, <1>2, <1>3 DEF Inv, Types, SingleKeys
<1> QED BY <1>2, <1>3, <1>4

LEMMA PublishKeeps ==
  ASSUME Inv, NEW t \in ctx \cap valid, Upload(owner[t], store[owner[t]]),
         NEW d \in Devices, ReplacesKeys(d)
  PROVE  \E u \in unsure \cap valid : owner[u] = d
<1>1. owner[t] \in Devices /\ published \in [Devices -> Key]
  BY Owners DEF Inv, Types, TypeOK
<1>2. d = owner[t] /\ store[d] # published[d] /\ published[d] # {}
  BY <1>1 DEF Upload, ReplacesKeys
<1> QED BY <1>2, SameKeys

\* device.rs:3-7, README.md:211: no step of any handler, login or task replaces
\* the keys published for a device, but for a session whose keys could not be
\* checked when it was opened.
THEOREM NeverReplaced == Spec => NeverKnowinglyReplaced
<1>1. ASSUME Inv, [Next]_vars, NEW d \in Devices, ReplacesKeys(d)
      PROVE  \E t \in unsure \cap valid : owner[t] = d
  <2>1. CASE UNCHANGED published
    BY <1>1, <2>1 DEF ReplacesKeys
  <2>2. CASE SignOut
    BY <1>1, <2>2 DEF SignOut, ReplacesKeys, Inv, Types, TypeOK
  <2>3. CASE OtherProgram
    BY <1>1, <2>3, PastTheProxy DEF ReplacesKeys, Inv, Tokens, KeysHaveToken
  <2>4. ASSUME NEW t \in DOMAIN owner, Publish(t)
        PROVE  \E u \in unsure \cap valid : owner[u] = d
    BY <1>1, <2>4, PublishKeeps DEF Publish
  <2>5. ASSUME NEW t \in DOMAIN owner, Republish(t)
        PROVE  \E u \in unsure \cap valid : owner[u] = d
    <3>1. CASE t \in valid /\ Upload(owner[t], store[owner[t]])
      BY <1>1, <2>5, <3>1, PublishKeeps DEF Republish, Inv, Stores, Opened
    <3>2. CASE UNCHANGED published
      BY <1>1, <3>2 DEF ReplacesKeys
    <3> QED BY <2>5, <3>1, <3>2 DEF Republish
  <2>6. \/ UNCHANGED published \/ SignOut \/ OtherProgram
        \/ \E t \in DOMAIN owner : Publish(t) \/ Republish(t)
    BY <1>1
    DEF Next, Handle, Plan, LoggedIn, Request, Query, Reuse, Refuse, HoldBack, Open, Make,
        NewStore, Made, Admit, OpenFails, Drop, Evict, Restart, vars, homeserver
  <2> QED BY <2>1, <2>2, <2>3, <2>4, <2>5, <2>6
<1>2. Inv /\ [Next]_vars =>
        \A d \in Devices : ReplacesKeys(d) => \E t \in unsure \cap valid : owner[t] = d
  BY <1>1
<1> QED BY <1>2, InvHolds, PTL DEF Spec, NeverKnowinglyReplaced
=============================================================================
