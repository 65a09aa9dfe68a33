----------------------------- MODULE MediaProofs -----------------------------
(***************************************************************************)
(* Attachments stay readable: for any number of sessions, files and        *)
(* handlers, wherever requests fail, handlers are dropped or the proxy     *)
(* restarts, what a client was given or a room refers to can be decrypted, *)
(* and nothing is stored in the clear that no user sent that way.          *)
(***************************************************************************)
EXTENDS Media, TLAPS

\* What a handler under way relies on.
Sound(j) ==
  /\ j.at = "insert" => j.uri \in Given /\ Cipher(j.uri)
  /\ j.at = "put" =>
       /\ j.event.uri \in Given
       /\ j.event.as = "file" <=> Cipher(j.event.uri)
       /\ j.event.as = "file" => j.event.room = "encrypted"
  /\ j.at \in {"download", "reupload"} =>
       /\ j.event.uri \in Given /\ j.event.as = "url"
       /\ blob[j.event.uri].file \in asked
  /\ j.at = "get" =>
       /\ j.uri \in Given
       /\ j.from = j.of => (j.entry <=> Cipher(j.uri))

Kept == \A s \in Sessions : \A u \in shown[s] : u \in keys[s] <=> Cipher(u)

\* A key in a cache is that of a ciphertext.
KeysOpen == \A s \in Sessions : \A u \in keys[s] : Cipher(u)

Inv ==
  /\ TypeOK /\ EventsAreReadable /\ FilesComeBack /\ PlainOnlyWhenAsked
  /\ KeysOpen /\ \A h \in Handlers : Sound(job[h])

\* The homeserver's blobs never change.
Extended == Given \subseteq Given' /\ \A u \in Given : blob'[u] = blob[u]

LEMMA Storing ==
  ASSUME NEW u, NEW file, NEW form, Store(u, file, form)
  PROVE  /\ Extended /\ Given' = Given \cup {u} /\ u \in Uris \ Given
         /\ blob'[u] = [file |-> file, form |-> form]
BY DEF Store, Extended, Given

\* What held of a handler's work goes on to hold while others work.
LEMMA StaysSound ==
  ASSUME Extended, asked \subseteq asked', NEW j, Sound(j)
  PROVE  Sound(j)'
BY DEF Sound, Extended, Cipher, Given

\* So it does with what clients were given and rooms refer to.
LEMMA StaysReadable ==
  ASSUME Inv, Extended, asked \subseteq asked'
  PROVE  /\ UNCHANGED events => EventsAreReadable' /\ \A e \in events' : e.uri \in Given'
         /\ UNCHANGED <<keys, shown>> => Kept' /\ KeysOpen'
         /\ UNCHANGED blob => PlainOnlyWhenAsked'
<1>1. UNCHANGED events => EventsAreReadable' /\ \A e \in events' : e.uri \in Given'
  BY DEF Inv, TypeOK, EventsAreReadable, Extended, Cipher, Given
<1>2. UNCHANGED <<keys, shown>> => Kept' /\ KeysOpen'
  BY DEF Inv, TypeOK, FilesComeBack, Kept, KeysOpen, Extended, Cipher, Given
<1>3. UNCHANGED blob => PlainOnlyWhenAsked'
  BY DEF Inv, PlainOnlyWhenAsked, Cipher, Given
<1> QED BY <1>1, <1>2, <1>3

\* A step of handler h leaves the others' work as it is.
LEMMA OthersSound ==
  ASSUME Inv, Extended, asked \subseteq asked', NEW h \in Handlers, NEW j,
         Becomes(h, j), j \in Jobs, Sound(j)'
  PROVE  job' \in [Handlers -> Jobs] /\ \A g \in Handlers : Sound(job[g])'
<1>1. job' \in [Handlers -> Jobs]
  BY DEF Inv, TypeOK, Becomes
<1>2. ASSUME NEW g \in Handlers PROVE Sound(job[g])'
  <2>1. job'[g] = IF g = h THEN j ELSE job[g]
    BY DEF Inv, TypeOK, Becomes
  <2>2. CASE g = h
    <3>1. job'[h] = j BY <2>1, <2>2
    <3> QED BY <2>2, <3>1 DEF Sound
  <2>3. CASE g # h
    <3>1. job'[g] = job[g] BY <2>1, <2>3
    <3>2. Sound(job[g]) BY DEF Inv
    <3> QED BY <3>1, <3>2 DEF Sound, Extended, Cipher, Given
  <2> QED BY <2>2, <2>3
<1> QED BY <1>1, <1>2

-----------------------------------------------------------------------------
LEMMA InitInv ==
  ASSUME Init
  PROVE  Inv
<1>1. Given = {}
  BY DEF Init, Given
<1>2. TypeOK
  BY <1>1, FailuresAssumption DEF Init, TypeOK, Jobs, Rest
<1>3. \A h \in Handlers : Sound(job[h])
  BY DEF Init, Sound, Rest
<1> QED
  BY <1>1, <1>2, <1>3
  DEF Init, Inv, EventsAreReadable, FilesComeBack, PlainOnlyWhenAsked, KeysOpen

LEMMA UploadStep ==
  ASSUME Inv, NEW h \in Handlers, Uploading(h)
  PROVE  Inv'
<1>1. ASSUME NEW s \in Sessions, NEW f \in Files, Upload(h, s, f)
      PROVE  Inv'
  <2> DEFINE j == [at |-> "post", of |-> s, file |-> f]
  <2>1. Becomes(h, j) /\ UNCHANGED <<server, caches, lost, asked, failures>>
    BY <1>1 DEF Upload
  <2>2. Extended /\ Given' = Given
    BY <2>1 DEF Extended, server, Given
  <2>3. j \in Jobs /\ Sound(j)'
    BY DEF Jobs, Sound
  <2>4. job' \in [Handlers -> Jobs] /\ \A g \in Handlers : Sound(job[g])'
    BY <2>1, <2>2, <2>3, OthersSound
  <2> QED BY <2>1, <2>2, <2>4, StaysReadable
    DEF Inv, TypeOK, FilesComeBack, Kept, server, caches
<1>2. ASSUME NEW u \in Uris, Posted(h, u)
      PROVE  Inv'
  <2>0. PICK j : j = [at |-> "insert", of |-> job[h].of, uri |-> u]
    OBVIOUS
  <2>1. /\ job[h].at = "post" /\ Store(u, job[h].file, "cipher") /\ Becomes(h, j)
        /\ UNCHANGED <<events, caches, lost, asked, failures>>
    BY <1>2, <2>0 DEF Posted
  <2>2. job[h].of \in Sessions /\ job[h].file \in Files
    BY <2>1 DEF Inv, TypeOK, Jobs, Rest
  <2>3. /\ Extended /\ Given' = Given \cup {u} /\ u \in Uris \ Given
        /\ blob'[u] = [file |-> job[h].file, form |-> "cipher"]
    BY <2>1, Storing
  <2>4. j \in Jobs /\ Sound(j)'
    BY <2>0, <2>2, <2>3 DEF Jobs, Sound, Cipher
  <2>5. job' \in [Handlers -> Jobs] /\ \A g \in Handlers : Sound(job[g])'
    BY <2>1, <2>3, <2>4, OthersSound
  <2>6. EventsAreReadable' /\ (\A e \in events' : e.uri \in Given') /\ Kept' /\ KeysOpen'
    BY <2>1, <2>3, StaysReadable DEF caches
  <2>7. PlainOnlyWhenAsked'
    BY <2>1, <2>3 DEF Inv, PlainOnlyWhenAsked, Cipher, Extended
  <2>8. Given' \subseteq Uris /\ blob' \in [Given' -> [file : Files, form : Forms]]
    BY <2>1, <2>2 DEF Store, Given, Inv, TypeOK, Forms
  <2>9. TypeOK'
    BY <2>1, <2>3, <2>5, <2>6, <2>8 DEF Inv, TypeOK, caches
  <2> QED BY <2>1, <2>5, <2>6, <2>7, <2>9 DEF Inv, FilesComeBack, Kept
<1>3. ASSUME Insert(h)
      PROVE  Inv'
  <2> DEFINE s == job[h].of  u == job[h].uri
  <2>1. /\ job[h].at = "insert" /\ keys' = Adds(keys, s, u) /\ shown' = Adds(shown, s, u)
        /\ Becomes(h, Rest) /\ UNCHANGED <<server, lost, asked, failures>>
    BY <1>3 DEF Insert, Ends, server
  <2>2. s \in Sessions /\ u \in Given /\ Cipher(u)
    BY <2>1 DEF Inv, TypeOK, Jobs, Rest, Sound
  <2>3. Extended /\ Given' = Given
    BY <2>1 DEF Extended, server, Given
  <2>4. Rest \in Jobs /\ Sound(Rest)'
    BY DEF Jobs, Sound, Rest
  <2>5. job' \in [Handlers -> Jobs] /\ \A g \in Handlers : Sound(job[g])'
    BY <2>1, <2>3, <2>4, OthersSound
  <2>6. EventsAreReadable' /\ (\A e \in events' : e.uri \in Given') /\ PlainOnlyWhenAsked'
    BY <2>1, <2>3, StaysReadable DEF server
  <2>7. TypeOK'
    BY <2>1, <2>2, <2>3, <2>5, <2>6 DEF Inv, TypeOK, Adds, server
  <2>8. Kept' /\ KeysOpen'
    BY <2>1, <2>2 DEF Inv, TypeOK, FilesComeBack, Kept, KeysOpen, Adds, Cipher, server
  <2> QED BY <2>1, <2>5, <2>6, <2>7, <2>8 DEF Inv, FilesComeBack, Kept
<1> QED BY <1>1, <1>2, <1>3 DEF Uploading

LEMMA SendStep ==
  ASSUME Inv, NEW h \in Handlers, Posting(h)
  PROVE  Inv'
<1>1. ASSUME NEW s \in Sessions, NEW u \in Uris, NEW room \in Rooms, Send(h, s, u, room)
      PROVE  Inv'
  <2>1. /\ u \in shown[s]
        /\ asked' = IF room = "unencrypted" THEN asked \cup {blob[u].file} ELSE asked
        /\ UNCHANGED <<server, caches, lost, failures>>
    BY <1>1 DEF Send
  <2>2. u \in Given /\ (u \in keys[s] <=> Cipher(u))
    BY <2>1 DEF Inv, TypeOK, FilesComeBack
  <2>3. Extended /\ Given' = Given /\ asked \subseteq asked' /\ asked' \subseteq Files
    BY <2>1, <2>2 DEF Extended, server, Given, Inv, TypeOK
  <2>4. PICK at \in {"put", "download"}, as \in {"url", "file"} :
          /\ Sending(h, at, s, Event(u, room, as))
          /\ at = "put" => /\ as = "file" <=> u \in keys[s]
                           /\ as = "file" => room = "encrypted"
          /\ at = "download" => as = "url" /\ room # "encrypted"
    BY <1>1 DEF Send
  <2> DEFINE j == [at |-> at, of |-> s, event |-> Event(u, room, as)]
  <2>5. Becomes(h, j) /\ j \in Jobs
    BY <2>4 DEF Sending, Jobs, Event, Events
  <2>6. Sound(j)'
    <3>1. at = "put" => /\ as = "file" <=> Cipher(u)'
                        /\ as = "file" => room = "encrypted"
      BY <2>1, <2>2, <2>4 DEF Cipher, server
    <3>2. at = "download" => blob'[u].file \in asked' /\ as = "url"
      BY <2>1, <2>4 DEF server, Rooms
    <3> QED BY <2>2, <2>3, <2>4, <3>1, <3>2 DEF Sound, Event
  <2>7. job' \in [Handlers -> Jobs] /\ \A g \in Handlers : Sound(job[g])'
    BY <2>3, <2>5, <2>6, OthersSound
  <2> QED BY <2>1, <2>3, <2>7, StaysReadable
    DEF Inv, TypeOK, FilesComeBack, Kept, server, caches
<1>2. ASSUME NEW u \in Uris, Reuploaded(h, u)
      PROVE  Inv'
  <2> DEFINE old == job[h].event.uri
  <2>0. PICK j : j = [at |-> "put", of |-> job[h].of, event |-> [job[h].event EXCEPT !.uri = u]]
    OBVIOUS
  <2>1. /\ job[h].at = "reupload" /\ Store(u, blob[old].file, "plain") /\ Becomes(h, j)
        /\ UNCHANGED <<events, caches, lost, asked, failures>>
    BY <1>2, <2>0 DEF Reuploaded, Sending
  <2>2. job[h].of \in Sessions /\ job[h].event \in Events
    BY <2>1 DEF Inv, TypeOK, Jobs, Rest
  <2>3. /\ Extended /\ Given' = Given \cup {u} /\ u \in Uris \ Given
        /\ blob'[u] = [file |-> blob[old].file, form |-> "plain"]
    BY <2>1, Storing
  <2>4. old \in Given /\ job[h].event.as = "url" /\ blob[old].file \in asked
    BY <2>1 DEF Inv, Sound
  <2>5. j \in Jobs /\ Sound(j)'
    BY <2>0, <2>2, <2>3, <2>4 DEF Jobs, Sound, Cipher, Events
  <2>6. job' \in [Handlers -> Jobs] /\ \A g \in Handlers : Sound(job[g])'
    BY <2>1, <2>3, <2>5, OthersSound
  <2>7. EventsAreReadable' /\ (\A e \in events' : e.uri \in Given') /\ Kept' /\ KeysOpen'
    BY <2>1, <2>3, StaysReadable DEF caches
  <2>8. PlainOnlyWhenAsked'
    BY <2>1, <2>3, <2>4 DEF Inv, PlainOnlyWhenAsked, Cipher, Extended
  <2>9. Given' \subseteq Uris /\ blob' \in [Given' -> [file : Files, form : Forms]]
    BY <2>1, <2>4 DEF Store, Given, Inv, TypeOK, Forms
  <2>10. TypeOK'
    BY <2>1, <2>3, <2>6, <2>7, <2>9 DEF Inv, TypeOK, caches
  <2> QED BY <2>1, <2>6, <2>7, <2>8, <2>10 DEF Inv, FilesComeBack, Kept
<1>3. ASSUME Downloaded(h)
      PROVE  Inv'
  <2>0. PICK j : j = [at |-> "reupload", of |-> job[h].of, event |-> job[h].event]
    OBVIOUS
  <2>1. /\ job[h].at = "download" /\ Becomes(h, j)
        /\ UNCHANGED <<server, caches, lost, asked, failures>>
    BY <1>3, <2>0 DEF Downloaded, Sending
  <2>2. Extended /\ Given' = Given
    BY <2>1 DEF Extended, server, Given
  <2>3. j \in Jobs
    BY <2>0, <2>1 DEF Inv, TypeOK, Jobs, Rest
  <2>4. Sound(j)'
    BY <2>0, <2>1, <2>2 DEF Inv, Sound, Extended, server, Given
  <2>5. job' \in [Handlers -> Jobs] /\ \A g \in Handlers : Sound(job[g])'
    BY <2>1, <2>2, <2>3, <2>4, OthersSound
  <2> QED BY <2>1, <2>2, <2>5, StaysReadable
    DEF Inv, TypeOK, FilesComeBack, Kept, server, caches
<1>4. ASSUME Put(h)
      PROVE  Inv'
  <2> DEFINE e == job[h].event
  <2>1. /\ job[h].at = "put" /\ events' = events \cup {e} /\ Becomes(h, Rest)
        /\ UNCHANGED <<blob, caches, lost, asked, failures>>
    BY <1>4 DEF Put, Ends
  <2>2. Extended /\ Given' = Given
    BY <2>1 DEF Extended, Given
  <2>3. /\ e \in Events /\ e.uri \in Given
        /\ e.as = "file" <=> Cipher(e.uri)
        /\ e.as = "file" => e.room = "encrypted"
    BY <2>1 DEF Inv, TypeOK, Jobs, Rest, Sound
  <2>4. Rest \in Jobs /\ Sound(Rest)'
    BY DEF Jobs, Sound, Rest
  <2>5. job' \in [Handlers -> Jobs] /\ \A g \in Handlers : Sound(job[g])'
    BY <2>1, <2>2, <2>4, OthersSound
  <2>6. EventsAreReadable'
    BY <2>1, <2>3 DEF Inv, EventsAreReadable, Cipher
  <2>7. Kept' /\ KeysOpen' /\ PlainOnlyWhenAsked'
    BY <2>1, <2>2, StaysReadable DEF caches
  <2>8. TypeOK'
    BY <2>1, <2>2, <2>3, <2>5 DEF Inv, TypeOK, caches
  <2> QED BY <2>1, <2>5, <2>6, <2>7, <2>8 DEF Inv, FilesComeBack, Kept
<1> QED BY <1>1, <1>2, <1>3, <1>4 DEF Posting

LEMMA DownloadStep ==
  ASSUME Inv, NEW h \in Handlers, Downloading(h)
  PROVE  Inv'
<1>1. ASSUME NEW s \in Sessions, NEW t \in Sessions, NEW u \in Uris, Download(h, s, t, u)
      PROVE  Inv'
  <2>0. PICK j : j = [at |-> "get", of |-> s, uri |-> u, entry |-> u \in keys[t], from |-> t]
    OBVIOUS
  <2>1. u \in shown[s] /\ Becomes(h, j) /\ UNCHANGED <<server, caches, lost, asked, failures>>
    BY <1>1, <2>0 DEF Download
  <2>2. Extended /\ Given' = Given
    BY <2>1 DEF Extended, server, Given
  <2>3. u \in Given /\ (u \in keys[s] <=> Cipher(u)')
    BY <2>1 DEF Inv, TypeOK, FilesComeBack, Cipher, server
  <2>4. j \in Jobs
    BY <2>0 DEF Jobs
  <2>5. Sound(j)'
    BY <2>0, <2>2, <2>3 DEF Sound
  <2>6. job' \in [Handlers -> Jobs] /\ \A g \in Handlers : Sound(job[g])'
    BY <2>1, <2>2, <2>4, <2>5, OthersSound
  <2> QED BY <2>1, <2>2, <2>6, StaysReadable
    DEF Inv, TypeOK, FilesComeBack, Kept, server, caches
<1>2. ASSUME Answer(h)
      PROVE  Inv'
  <2>1. job[h].at = "get" /\ Becomes(h, Rest) /\ UNCHANGED <<server, caches, asked, failures>>
    BY <1>2 DEF Answer, Ends
  <2>2. Extended /\ Given' = Given
    BY <2>1 DEF Extended, server, Given
  <2>3. Rest \in Jobs /\ Sound(Rest)'
    BY DEF Jobs, Sound, Rest
  <2>4. job' \in [Handlers -> Jobs] /\ \A g \in Handlers : Sound(job[g])'
    BY <2>1, <2>2, <2>3, OthersSound
  <2>5. lost' \subseteq {"own", "borrowed"} /\ "own" \notin lost'
    <3>1. job[h].uri \in Given /\ (job[h].from = job[h].of => (job[h].entry <=> Cipher(job[h].uri)))
      BY <2>1 DEF Inv, Sound
    <3>2. blob[job[h].uri].form \in {"plain", "cipher"}
      BY <3>1 DEF Inv, TypeOK, Forms
    <3>3. job[h].from = job[h].of => lost' = lost
      BY <1>2, <3>1, <3>2 DEF Answer, Cipher
    <3>4. lost' = lost \/ (job[h].from # job[h].of /\ lost' = lost \cup {"borrowed"})
      BY <1>2, <3>3 DEF Answer
    <3> QED BY <3>4 DEF Inv, TypeOK, FilesComeBack
  <2> QED BY <2>1, <2>2, <2>4, <2>5, StaysReadable
    DEF Inv, TypeOK, FilesComeBack, Kept, server, caches
<1> QED BY <1>1, <1>2 DEF Downloading

LEMMA FailStep ==
  ASSUME Inv, Restart \/ \E h \in Handlers : HandlerFails(h)
  PROVE  Inv'
<1>1. UNCHANGED <<server, caches, lost, asked>> /\ failures' \in 0 .. MaxFailures
  BY FailuresAssumption DEF Inv, TypeOK, Restart, HandlerFails, Fail
<1>2. Extended /\ Given' = Given
  BY <1>1 DEF Extended, server, Given
<1>3. Rest \in Jobs /\ Sound(Rest)'
  BY DEF Jobs, Sound, Rest
<1>4. job' \in [Handlers -> Jobs] /\ \A g \in Handlers : Sound(job[g])'
  <2>1. CASE Restart
    BY <1>3, <2>1 DEF Restart, Sound
  <2>2. CASE \E h \in Handlers : HandlerFails(h)
    <3>1. PICK h \in Handlers : Becomes(h, Rest)
      BY <2>2 DEF HandlerFails, Ends
    <3> QED BY <1>1, <1>2, <1>3, <3>1, OthersSound
  <2> QED BY <2>1, <2>2
<1> QED BY <1>1, <1>2, <1>4, StaysReadable
  DEF Inv, TypeOK, FilesComeBack, Kept, server, caches

LEMMA RoomStep ==
  ASSUME Inv,
         \/ \E s \in Sessions, event \in Events : Harvest(s, event)
         \/ \E u \in Uris, f \in Files, room \in Rooms : OthersSend(u, f, room)
  PROVE  Inv'
<1>1. ASSUME NEW s \in Sessions, NEW event \in Events, Harvest(s, event)
      PROVE  Inv'
  <2> DEFINE u == event.uri
  <2>1. /\ event \in events /\ u \notin shown[s]
        /\ keys' = IF event.as = "file" THEN Adds(keys, s, u) ELSE keys
        /\ shown' = Adds(shown, s, u)
        /\ UNCHANGED <<server, job, lost, asked, failures>>
    BY <1>1 DEF Harvest, server
  <2>2. u \in Given /\ (event.as = "file" <=> Cipher(u))
    BY <2>1 DEF Inv, TypeOK, EventsAreReadable
  <2>3. Extended /\ Given' = Given
    BY <2>1 DEF Extended, server, Given
  <2>4. EventsAreReadable' /\ (\A e \in events' : e.uri \in Given') /\ PlainOnlyWhenAsked'
    BY <2>1, <2>3, StaysReadable DEF server
  <2>5. \A g \in Handlers : Sound(job[g])'
    BY <2>1, <2>3 DEF Inv, Sound, Cipher, server
  <2>6. TypeOK'
    BY <2>1, <2>2, <2>3, <2>4 DEF Inv, TypeOK, Adds, server
  <2>7. KeysOpen'
    BY <2>1, <2>2 DEF Inv, TypeOK, KeysOpen, Adds, Cipher, server
  <2>8. Kept'
    <3>1. ASSUME NEW r \in Sessions, NEW v \in shown'[r]
          PROVE  v \in keys'[r] <=> Cipher(v)'
      <4>1. Cipher(v)' <=> Cipher(v)
        BY <2>1 DEF Cipher, server
      <4>2. CASE r = s /\ v = u
        <5>1. event.as = "file" => v \in keys'[r]
          BY <2>1, <4>2 DEF Inv, TypeOK, Adds
        <5>2. v \in keys'[r] => Cipher(v)'
          BY <2>7 DEF KeysOpen
        <5> QED BY <2>2, <4>1, <4>2, <5>1, <5>2
      <4>3. CASE ~(r = s /\ v = u)
        <5>1. v \in shown[r] /\ (v \in keys'[r] <=> v \in keys[r])
          BY <2>1, <4>3 DEF Inv, TypeOK, Adds
        <5> QED BY <4>1, <5>1 DEF Inv, FilesComeBack
      <4> QED BY <4>2, <4>3
    <3> QED BY <3>1 DEF Kept
  <2> QED BY <2>1, <2>4, <2>5, <2>6, <2>7, <2>8 DEF Inv, FilesComeBack, Kept
<1>2. ASSUME NEW u \in Uris, NEW f \in Files, NEW room \in Rooms, OthersSend(u, f, room)
      PROVE  Inv'
  <2> DEFINE form == IF room = "encrypted" THEN "cipher" ELSE "plain"
             e == Event(u, room, IF room = "encrypted" THEN "file" ELSE "url")
  <2>1. /\ Store(u, f, form) /\ events' = events \cup {e}
        /\ asked' = IF room = "unencrypted" THEN asked \cup {f} ELSE asked
        /\ UNCHANGED <<caches, job, lost, failures>>
    BY <1>2 DEF OthersSend, caches
  <2>2. /\ Extended /\ Given' = Given \cup {u} /\ u \in Uris \ Given
        /\ blob'[u] = [file |-> f, form |-> form]
    BY <2>1, Storing
  <2>3. asked \subseteq asked' /\ asked' \subseteq Files
    BY <2>1 DEF Inv, TypeOK
  <2>4. Kept' /\ KeysOpen'
    BY <2>1, <2>2, <2>3, StaysReadable DEF caches
  <2>5. \A g \in Handlers : Sound(job[g])'
    <3>1. ASSUME NEW g \in Handlers PROVE Sound(job[g])'
      <4>1. job'[g] = job[g] /\ Sound(job[g])
        BY <2>1 DEF Inv
      <4> QED BY <2>2, <2>3, <4>1 DEF Sound, Extended, Cipher
    <3> QED BY <3>1
  <2>6. e \in Events /\ e.uri = u /\ e.room = room
        /\ e.as = IF room = "encrypted" THEN "file" ELSE "url"
    BY DEF Event, Events
  <2>7. EventsAreReadable'
    <3>1. \A d \in events : d.uri \in Given /\ (Cipher(d.uri)' <=> Cipher(d.uri))
      BY <2>2 DEF Inv, TypeOK, Extended, Cipher
    <3>2. Cipher(u)' <=> room = "encrypted"
      BY <2>2 DEF Cipher
    <3> QED BY <2>1, <2>6, <3>1, <3>2 DEF Inv, EventsAreReadable
  <2>8. PlainOnlyWhenAsked'
    <3>1. ~Cipher(u)' => blob'[u].file \in asked'
      BY <2>1, <2>2 DEF Cipher, Rooms
    <3> QED BY <2>2, <2>3, <3>1 DEF Inv, PlainOnlyWhenAsked, Cipher, Extended
  <2>9. Given' \subseteq Uris /\ blob' \in [Given' -> [file : Files, form : Forms]]
    BY <2>1 DEF Store, Given, Inv, TypeOK, Forms
  <2>10. TypeOK'
    BY <2>1, <2>2, <2>3, <2>6, <2>9 DEF Inv, TypeOK, caches
  <2> QED BY <2>1, <2>4, <2>5, <2>7, <2>8, <2>10 DEF Inv, FilesComeBack, Kept
<1> QED BY <1>1, <1>2

LEMMA Inductive ==
  ASSUME Inv, [Next]_vars
  PROVE  Inv'
<1>1. CASE Next
  BY <1>1, UploadStep, SendStep, DownloadStep, FailStep, RoomStep DEF Next
<1>2. CASE UNCHANGED vars
  BY <1>2 DEF vars, server, caches, Inv, TypeOK, EventsAreReadable, FilesComeBack,
     PlainOnlyWhenAsked, KeysOpen, Sound, Cipher, Given
<1> QED BY <1>1, <1>2

THEOREM Invariant == Spec => []Inv
BY InitInv, Inductive, PTL DEF Spec

\* Every variable has its type, and what caches, clients and events refer to is
\* on the homeserver (MediaKeyCache::insert only after the upload).
THEOREM TypeCorrect == Spec => []TypeOK
BY Invariant, PTL DEF Inv

\* Who may read an event can read its attachment
\* (rewrite_content_for_encrypted_room, reupload_plaintext_if_needed).
THEOREM Readable == Spec => []EventsAreReadable
BY Invariant, PTL DEF Inv

\* What its own session serves, a client gets back in the clear
\* (handle_upload, harvest_and_rewrite_decrypted, handle_download).
THEOREM ComesBack == Spec => []FilesComeBack
BY Invariant, PTL DEF Inv

\* Nothing is stored in the clear that no user has sent to an unencrypted room
\* (handle_upload, reupload_plaintext_if_needed).
THEOREM NothingInTheClear == Spec => []PlainOnlyWhenAsked
BY Invariant, PTL DEF Inv
=============================================================================
