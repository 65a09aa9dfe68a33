--------------------------- MODULE DeviceIdentity ---------------------------
(***************************************************************************)
(* "One device ID, one set of identity keys" (src/crypto/device.rs): how   *)
(* logins (src/proxy/login.rs) and requests (src/proxy/mod.rs) become      *)
(* sessions (src/session.rs), each with the store of its device.           *)
(*                                                                         *)
(* A handler finds out whose token it has, asks the homeserver for the     *)
(* keys it publishes for the device, and then, under a lock, opens or      *)
(* makes the store.  Meanwhile other handlers run, the device is signed    *)
(* out from another client, or the proxy restarts, perhaps without the     *)
(* store.                                                                  *)
(*                                                                         *)
(* Tokens are numbered as they are issued.  A key that may be missing is a *)
(* set of at most one key.                                                 *)
(***************************************************************************)
EXTENDS Naturals, Sequences, FiniteSets

CONSTANTS
  Devices,     \* device IDs of the account
  Ement,       \* the one ement asks for at every login, which names its user
  Handlers,    \* requests that can be under way at a time
  MaxTokens,   \* bound: logins
  MaxKeys,     \* bound: identity keys made
  MaxSignOuts, MaxRestarts   \* bounds

ASSUME DevicesAssumption == Ement \in Devices
ASSUME BoundsAssumption ==
  MaxTokens \in Nat /\ MaxKeys \in Nat /\ MaxSignOuts \in Nat /\ MaxRestarts \in Nat

VARIABLES
  owner, valid,    \* homeserver: the device of each token; tokens not revoked
  published,       \* homeserver: the identity key of each device
  store,           \* the identity key in each device's store
  shared,          \* stores that count their key as published
  record,          \* devices whose login.json says they are ement's
  ctx,             \* tokens with an AccountContext
  refused,         \* devices of the sessions turned away
  lost,            \* tokens whose republish() is under way
  fresh,           \* history: tokens of logins since the last start
  unsure, gaveUp,  \* history: tokens in ctx whose keys could not be checked;
                   \* those whose republish() failed
  pc,              \* where each handler stands
  asLogin,         \* handlers that serve a login
  tok, dev, ans,   \* their token; the device a login continues, if any;
                   \* their answer from published_identity
  made, signOuts, restarts   \* what is used up of the bounds

homeserver == <<owner, valid, published>>
disk       == <<store, shared, record>>
sessions   == <<ctx, refused, lost, fresh, unsure, gaveUp>>
handler    == <<pc, asLogin, tok, dev, ans>>
bounds     == <<made, signOuts, restarts>>
vars       == <<homeserver, disk, sessions, handler, bounds>>

Phases == {"idle", "login", "query", "checked", "unchecked", "made", "through"}

Goto(h, phase) == pc' = [pc EXCEPT ![h] = phase]
Issued == {owner[t] : t \in DOMAIN owner}
Of(h) == owner[tok[h]]

Init ==
  /\ owner = <<>> /\ valid = {}
  /\ published = [d \in Devices |-> {}]
  /\ store = [d \in Devices |-> {}] /\ shared = {} /\ record = {}
  /\ ctx = {} /\ refused = {} /\ lost = {} /\ fresh = {} /\ unsure = {} /\ gaveUp = {}
  /\ pc = [h \in Handlers |-> "idle"] /\ asLogin = {}
  /\ tok = [h \in Handlers |-> 0]
  /\ dev = [h \in Handlers |-> {}] /\ ans = [h \in Handlers |-> {}]
  /\ made = 0 /\ signOuts = 0 /\ restarts = 0

-----------------------------------------------------------------------------
(* Homeserver and other programs *)

\* A login: whoever used the device before is signed out.
Issue(d) ==
  /\ Len(owner) < MaxTokens
  /\ owner' = Append(owner, d)
  /\ valid' = {t \in valid : owner[t] # d} \cup {Len(owner')}

Upload(d, key) == published' = [published EXCEPT ![d] = key]

\* A device that nobody uses logs in past the proxy, and may set up
\* encryption there.
OtherProgram ==
  /\ \E d \in {d \in Devices : \A t \in valid : owner[t] # d} :
       /\ Issue(d)
       /\ \/ made < MaxKeys /\ made' = made + 1 /\ Upload(d, {made'})
          \/ UNCHANGED <<made, published>>
  /\ UNCHANGED <<disk, sessions, handler, signOuts, restarts>>

\* Another client signs a device out: the homeserver drops its keys.
SignOut ==
  /\ signOuts < MaxSignOuts /\ signOuts' = signOuts + 1
  /\ \E d \in Issued :
       /\ valid' = {t \in valid : owner[t] # d}
       /\ published' = [published EXCEPT ![d] = {}]
  /\ UNCHANGED <<owner, disk, sessions, handler, made, restarts>>

-----------------------------------------------------------------------------
(* Whose session is it? *)

AsAsked == {Ement}      \* mutant: the login goes on as ement has it

\* The devices a login may continue: ement's own name for it if that has a
\* store, or else one noted for it; which of these was used last is left open.
Continues ==
  IF store[Ement] # {} THEN {Ement} ELSE {d \in record : store[d] # {}}

\* handle_login up to the homeserver.
Plan(h) ==
  /\ pc[h] = "idle" /\ Goto(h, "login")
  /\ \/ \E d \in Continues : dev' = [dev EXCEPT ![h] = {d}]
     \/ Continues = {} /\ dev' = [dev EXCEPT ![h] = {}]
  /\ asLogin' = asLogin \cup {h}
  /\ UNCHANGED <<homeserver, disk, sessions, tok, ans, bounds>>

\* The homeserver accepts: it picks a device ID where it was given none.
LoggedIn(h) ==
  /\ pc[h] = "login" /\ Goto(h, "query")
  /\ \E d \in IF dev[h] # {} THEN dev[h] ELSE Devices \ (Issued \cup {Ement}) :
       /\ Issue(d)
       /\ record' = record \cup ({d} \ {Ement})
  /\ tok' = [tok EXCEPT ![h] = Len(owner')]
  /\ dev' = [dev EXCEPT ![h] = {}]
  /\ fresh' = fresh \cup {Len(owner')}
  /\ UNCHANGED <<published, store, shared, ctx, refused, lost, unsure, gaveUp,
                 asLogin, ans, bounds>>

\* Any other request (with a context at hand it is simply served): whoami
\* tells the session, or fails, and the request is passed through.
Request(h) ==
  /\ pc[h] = "idle"
  /\ \E t \in DOMAIN owner \ ctx :
       /\ tok' = [tok EXCEPT ![h] = t]
       /\ (t \in valid /\ Goto(h, "query")) \/ Goto(h, "through")
  /\ UNCHANGED <<homeserver, disk, sessions, asLogin, dev, ans, bounds>>

-----------------------------------------------------------------------------
(* SessionManager::insert *)

\* published_identity, asked before the lock.
Query(h) ==
  /\ pc[h] = "query"
  /\ \/ /\ tok[h] \in valid /\ Goto(h, "checked")
        /\ ans' = [ans EXCEPT ![h] = published[Of(h)]]
     \/ Goto(h, "unchecked") /\ UNCHANGED ans
  /\ UNCHANGED <<homeserver, disk, sessions, asLogin, tok, dev, bounds>>

Unlocked == \A h \in Handlers : pc[h] # "made"
Asked(h) == pc[h] \in {"checked", "unchecked"} /\ Unlocked
NeedsContext(h) == Asked(h) /\ tok[h] \notin ctx

\* The handler ends, whether or not it has a context.
End(h) ==
  /\ Goto(h, "idle")
  /\ asLogin' = asLogin \ {h}
  /\ tok' = [tok EXCEPT ![h] = 0]
  /\ dev' = [dev EXCEPT ![h] = {}]
  /\ ans' = [ans EXCEPT ![h] = {}]

\* Another handler was faster.
Reuse(h) ==
  /\ Asked(h) /\ tok[h] \in ctx
  /\ End(h)
  /\ UNCHANGED <<homeserver, disk, sessions, bounds>>

NoStoreNoKeys(h) ==     \* mutant: a store at hand is trusted
  pc[h] = "checked" /\ ans[h] # {} /\ store[Of(h)] = {}

\* The homeserver has other keys for the device than its store, or there is
\* no store.
Conflict(h) == pc[h] = "checked" /\ ans[h] # {} /\ ans[h] # store[Of(h)]

Refuse(h) ==
  /\ NeedsContext(h) /\ Conflict(h)
  /\ refused' = refused \cup {Of(h)}
  /\ End(h)
  /\ UNCHANGED <<homeserver, disk, ctx, lost, fresh, unsure, gaveUp, bounds>>

\* DeviceUnchecked: no new keys for a device that may have some.
HoldBack(h) ==
  /\ NeedsContext(h) /\ pc[h] = "unchecked" /\ store[Of(h)] = {}
  /\ End(h)
  /\ UNCHANGED <<homeserver, disk, sessions, bounds>>

AdmitLate(h, republish) ==   \* mutant: filed when the handler's token is gone
  /\ End(h) /\ refused' = {} /\ ctx' = ctx \cup {tok'[h]}
  /\ UNCHANGED <<homeserver, shared, record, lost, fresh, unsure, gaveUp>>

\* The session is there, which settles the earlier refusals.
Admit(h, republish) ==
  /\ ctx' = ctx \cup {tok[h]}
  /\ lost' = IF republish THEN lost \cup {tok[h]} ELSE lost
  /\ unsure' = IF pc[h] = "unchecked" THEN unsure \cup {tok[h]} ELSE unsure
  /\ refused' = {}
  /\ End(h)
  /\ UNCHANGED <<homeserver, shared, record, fresh, gaveUp>>

OpenAsIs(h) ==               \* mutant: missing keys are left to the pump
  /\ NeedsContext(h) /\ ~Conflict(h) /\ store[Of(h)] # {}
  /\ Admit(h, FALSE)
  /\ UNCHANGED <<store, bounds>>

\* A store is there: its keys are published again if they are missing.
Open(h) ==
  /\ NeedsContext(h) /\ ~Conflict(h) /\ store[Of(h)] # {}
  /\ Admit(h, pc[h] = "checked" /\ ans[h] = {})
  /\ UNCHANGED <<store, bounds>>

NewStore(h) ==
  /\ store[Of(h)] = {}
  /\ made < MaxKeys /\ made' = made + 1
  /\ store' = [store EXCEPT ![Of(h)] = {made'}]
  /\ Goto(h, "made")
  /\ UNCHANGED <<homeserver, shared, record, sessions, asLogin, tok, dev, ans,
                 signOuts, restarts>>

MakeAnyway(h) ==             \* mutant: not to know of keys is to know of none
  NeedsContext(h) /\ ~Conflict(h) /\ NewStore(h)

\* There is none: new keys for a device that has none.  The lock is kept.
Make(h) == NeedsContext(h) /\ pc[h] = "checked" /\ ~Conflict(h) /\ NewStore(h)

Made(h) == pc[h] = "made" /\ Admit(h, FALSE) /\ UNCHANGED <<store, bounds>>

\* The store cannot be opened: a request is passed through, a login is over.
OpenFails(h) ==
  /\ NeedsContext(h) \/ pc[h] = "made"
  /\ h \notin asLogin /\ Goto(h, "through")
  /\ UNCHANGED <<homeserver, disk, sessions, asLogin, tok, dev, ans, bounds>>

\* The answer is passed on, the login fails, or the client hangs up.
Drop(h) ==
  /\ pc[h] # "idle"
  /\ End(h)
  /\ UNCHANGED <<homeserver, disk, sessions, bounds>>

-----------------------------------------------------------------------------
(* A session's own tasks *)

\* The first pump that succeeds: the store's keys are published, once.
Publish(t) ==
  LET d == owner[t] IN
  /\ t \in ctx \cap valid /\ d \notin shared
  /\ Upload(d, store[d])
  /\ shared' = shared \cup {d}
  /\ UNCHANGED <<owner, valid, store, record, sessions, handler, bounds>>

\* republish: one attempt.
Republish(t) ==
  /\ t \in lost /\ lost' = lost \ {t}
  /\ \/ /\ t \in valid /\ Upload(owner[t], store[owner[t]])
        /\ UNCHANGED gaveUp
     \/ /\ gaveUp' = gaveUp \cup ({t} \cap ctx)
        /\ UNCHANGED published
  /\ UNCHANGED <<owner, valid, disk, ctx, refused, fresh, unsure, handler, bounds>>

\* handle_sync finds that the token is dead.
Evict(t) ==
  /\ t \in ctx \ valid
  /\ ctx' = ctx \ {t}
  /\ unsure' = unsure \ {t} /\ gaveUp' = gaveUp \ {t}
  /\ UNCHANGED <<homeserver, disk, refused, lost, fresh, handler, bounds>>

\* The proxy is started anew, perhaps with a device's directory gone.
Restart ==
  /\ restarts < MaxRestarts /\ restarts' = restarts + 1
  /\ ctx' = {} /\ refused' = {} /\ lost' = {} /\ fresh' = {} /\ unsure' = {} /\ gaveUp' = {}
  /\ pc' = [h \in Handlers |-> "idle"] /\ asLogin' = {}
  /\ tok' = [h \in Handlers |-> 0]
  /\ dev' = [h \in Handlers |-> {}] /\ ans' = [h \in Handlers |-> {}]
  /\ \E gone \in SUBSET Devices :
       /\ Cardinality(gone) <= 1
       /\ store' = [d \in Devices |-> IF d \in gone THEN {} ELSE store[d]]
       /\ shared' = shared \ gone
       /\ record' = record \ gone
  /\ UNCHANGED <<homeserver, made, signOuts>>

-----------------------------------------------------------------------------
Handle(h) ==
  \/ Plan(h) \/ LoggedIn(h) \/ Request(h) \/ Query(h)
  \/ Reuse(h) \/ Refuse(h) \/ HoldBack(h) \/ Open(h) \/ Make(h) \/ Made(h)
  \/ OpenFails(h) \/ Drop(h)

Next ==
  \/ OtherProgram \/ SignOut \/ Restart
  \/ \E h \in Handlers : Handle(h)
  \/ \E t \in DOMAIN owner : Publish(t) \/ Republish(t) \/ Evict(t)

Spec == Init /\ [][Next]_vars

-----------------------------------------------------------------------------
Key == SUBSET (1 .. MaxKeys)

TypeOK ==
  /\ owner \in Seq(Devices) /\ Len(owner) <= MaxTokens
  /\ {valid, ctx, lost, fresh, unsure, gaveUp} \subseteq SUBSET DOMAIN owner
  /\ {published, store} \subseteq [Devices -> Key]
  /\ {shared, record, refused} \subseteq SUBSET Devices
  /\ pc \in [Handlers -> Phases] /\ asLogin \subseteq Handlers
  /\ tok \in [Handlers -> 0 .. MaxTokens]
  /\ dev \in [Handlers -> SUBSET Devices] /\ ans \in [Handlers -> Key]
  /\ made \in 0 .. MaxKeys
  /\ signOuts \in 0 .. MaxSignOuts /\ restarts \in 0 .. MaxRestarts

ReplacesKeys(d) == published[d] # {} /\ published'[d] \notin {{}, published[d]}

\* device.rs:3-7, README.md:211: the keys others see for a device are never
\* replaced by other ones, however logins and requests race.  Only a session
\* whose keys/query failed, and which insert opens all the same, can do so.
NeverKnowinglyReplaced ==
  [][\A d \in Devices :
       ReplacesKeys(d) => \E t \in unsure \cap valid : owner[t] = d]_vars

\* device.rs:14-17, insert: a session that was checked and whose token is good
\* decrypts what others encrypt to the keys they see for its device.
ContextMatches ==
  \A t \in (ctx \cap valid) \ unsure : published[owner[t]] \subseteq store[owner[t]]

\* DeviceConflict::hint: where the store is missing, to log in again helps.
LoggingInHelps ==
  \A t \in fresh \cap valid : owner[t] \in refused => store[owner[t]] # {}

\* insert, republish: while nobody can encrypt to a session, its keys are on
\* their way, also where the homeserver has lost them, unless they could not be
\* checked or republish, which is tried once, failed.
KeysOnTheirWay ==
  \A t \in (ctx \cap valid) \ (unsure \cup gaveUp) :
    published[owner[t]] = {} => owner[t] \notin shared \/ t \in lost
=============================================================================
