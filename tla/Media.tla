-------------------------------- MODULE Media -------------------------------
(***************************************************************************)
(* Attachments (src/crypto/media.rs).  The client uploads before it says   *)
(* where to send, so every upload is encrypted and its key kept by URI.  A *)
(* send to an encrypted room turns the URI into a `file' with the key, one *)
(* to an unencrypted room uploads the plain file again                     *)
(* (src/crypto/encrypt.rs); a decrypted event gives its key to the cache   *)
(* and shows the client a plain URI (src/crypto/decrypt.rs); a download is *)
(* decrypted if the cache has the key.                                     *)
(*                                                                         *)
(* A blob has a key of its own, so the key stands for the URI.             *)
(***************************************************************************)
EXTENDS Naturals, FiniteSets

CONSTANTS
  Sessions,     \* accounts behind the proxy, each with a client and a cache
  Uris, Files,  \* media URIs, plain files
  Handlers,     \* handlers that can be under way at a time
  MaxFailures   \* bound: failed requests and inserts, dropped handlers

ASSUME FailuresAssumption == MaxFailures \in Nat

VARIABLES
  blob,         \* homeserver: the URIs it has given out, with their file and form
  events,       \* ... the attachments in the rooms
  keys,         \* MediaKeyCache of each session, on disk
  shown,        \* the URIs each client has been given
  job,          \* where each handler stands, and what it works on
  lost,         \* history: whose session was asked when a file did not come
  asked,        \* history: files a user sent to an unencrypted room
  failures      \* what is used up of MaxFailures

server == <<blob, events>>
caches == <<keys, shown>>
vars   == <<server, caches, job, lost, asked, failures>>

Rooms  == {"encrypted", "unencrypted"}
Forms  == {"plain", "cipher"}
Events == [uri : Uris, room : Rooms, as : {"url", "file"}]
Given  == DOMAIN blob
Cipher(u) == blob[u].form = "cipher"

Rest == [at |-> "idle"]
Jobs == {Rest}
  \cup [at : {"post"}, of : Sessions, file : Files]
  \cup [at : {"insert"}, of : Sessions, uri : Uris]
  \cup [at : {"put", "download", "reupload"}, of : Sessions, event : Events]
  \cup [at : {"get"}, of : Sessions, uri : Uris, entry : BOOLEAN, from : Sessions]

Init ==
  /\ blob = <<>> /\ events = {}
  /\ keys = [s \in Sessions |-> {}] /\ shown = [s \in Sessions |-> {}]
  /\ job = [h \in Handlers |-> Rest] /\ lost = {}
  /\ asked = {} /\ failures = 0

Fail == failures < MaxFailures /\ failures' = failures + 1

Becomes(h, new) == job' = [job EXCEPT ![h] = new]
Ends(h) == Becomes(h, Rest)

\* The homeserver stores a file under a URI of its choice.
Store(u, file, form) ==
  /\ u \in Uris \ Given
  /\ blob' = [v \in Given \cup {u} |-> IF v = u THEN [file |-> file, form |-> form] ELSE blob[v]]

Adds(set, s, u) == [set EXCEPT ![s] = @ \cup {u}]

-----------------------------------------------------------------------------
(* handle_upload *)

Upload(h, s, f) ==
  /\ job[h] = Rest /\ Becomes(h, [at |-> "post", of |-> s, file |-> f])
  /\ UNCHANGED <<server, caches, lost, asked, failures>>

\* Mutant: what is uploaded is the file as it came.
PostedInTheClear(h, u) ==
  /\ job[h].at = "post" /\ Store(u, job[h].file, "plain")
  /\ Becomes(h, [at |-> "insert", of |-> job[h].of, uri |-> u])
  /\ UNCHANGED <<events, caches, lost, asked, failures>>

Posted(h, u) ==
  /\ job[h].at = "post" /\ Store(u, job[h].file, "cipher")
  /\ Becomes(h, [at |-> "insert", of |-> job[h].of, uri |-> u])
  /\ UNCHANGED <<events, caches, lost, asked, failures>>

\* Mutant: an insert that fails is only logged.
InsertOrLog(h) ==
  /\ job[h].at = "insert"
  /\ \/ keys' = Adds(keys, job[h].of, job[h].uri) /\ UNCHANGED failures
     \/ Fail /\ UNCHANGED keys
  /\ shown' = Adds(shown, job[h].of, job[h].uri) /\ Ends(h)
  /\ UNCHANGED <<server, lost, asked>>

\* MediaKeyCache::insert, then the client has its answer.
Insert(h) ==
  /\ job[h].at = "insert"
  /\ keys' = Adds(keys, job[h].of, job[h].uri)
  /\ shown' = Adds(shown, job[h].of, job[h].uri) /\ Ends(h)
  /\ UNCHANGED <<server, lost, asked, failures>>

-----------------------------------------------------------------------------
(* handle_send *)

Event(u, room, as) == [uri |-> u, room |-> room, as |-> as]
Sending(h, at, s, event) == Becomes(h, [at |-> at, of |-> s, event |-> event])

\* Mutant: attachments for an unencrypted room go as they were uploaded.
SendAsUploaded(h, s, u, room) ==
  /\ job[h] = Rest /\ u \in shown[s]
  /\ Sending(h, "put", s, Event(u, room, IF room = "encrypted" /\ u \in keys[s] THEN "file" ELSE "url"))
  /\ asked' = IF room = "unencrypted" THEN asked \cup {blob[u].file} ELSE asked
  /\ UNCHANGED <<server, caches, lost, failures>>

\* rewrite_content_for_encrypted_room, or reupload_plaintext_if_needed
Send(h, s, u, room) ==
  /\ job[h] = Rest /\ u \in shown[s]
  /\ IF u \notin keys[s]        THEN Sending(h, "put", s, Event(u, room, "url"))
     ELSE IF room = "encrypted" THEN Sending(h, "put", s, Event(u, room, "file"))
                                ELSE Sending(h, "download", s, Event(u, room, "url"))
  /\ asked' = IF room = "unencrypted" THEN asked \cup {blob[u].file} ELSE asked
  /\ UNCHANGED <<server, caches, lost, failures>>

\* The blob is fetched, and decrypts.
Downloaded(h) ==
  /\ job[h].at = "download" /\ Cipher(job[h].event.uri)
  /\ Sending(h, "reupload", job[h].of, job[h].event)
  /\ UNCHANGED <<server, caches, lost, asked, failures>>

\* Mutant: the event is pointed at a URI nothing has been stored under.
ReuploadedAhead(h, u) ==
  /\ job[h].at = "reupload" /\ u \notin Given
  /\ Sending(h, "put", job[h].of, [job[h].event EXCEPT !.uri = u])
  /\ UNCHANGED <<server, caches, lost, asked, failures>>

Reuploaded(h, u) ==
  /\ job[h].at = "reupload" /\ Store(u, blob[job[h].event.uri].file, "plain")
  /\ Sending(h, "put", job[h].of, [job[h].event EXCEPT !.uri = u])
  /\ UNCHANGED <<events, caches, lost, asked, failures>>

Put(h) ==
  /\ job[h].at = "put" /\ events' = events \cup {job[h].event} /\ Ends(h)
  /\ UNCHANGED <<blob, caches, lost, asked, failures>>

\* The client of an upload, a send or a download has an error, or has hung up.
HandlerFails(h) ==
  /\ job[h] # Rest /\ Fail /\ Ends(h)
  /\ UNCHANGED <<server, caches, lost, asked>>

-----------------------------------------------------------------------------
(* What the rooms hold, and what the client sees of it *)

\* Another client sends an attachment, as the Matrix specification has it.
OthersSend(u, f, room) ==
  /\ Store(u, f, IF room = "encrypted" THEN "cipher" ELSE "plain")
  /\ events' = events \cup {Event(u, room, IF room = "encrypted" THEN "file" ELSE "url")}
  /\ asked' = IF room = "unencrypted" THEN asked \cup {f} ELSE asked
  /\ UNCHANGED <<caches, job, lost, failures>>

\* harvest_and_rewrite_decrypted: the key is kept, the client is shown a `url'.
Harvest(s, event) ==
  /\ event \in events /\ event.uri \notin shown[s]
  /\ keys' = IF event.as = "file" THEN Adds(keys, s, event.uri) ELSE keys
  /\ shown' = Adds(shown, s, event.uri)
  /\ UNCHANGED <<server, job, lost, asked, failures>>

-----------------------------------------------------------------------------
(* handle_download *)

\* The key is looked up first.  The legacy path has no token: any session t
\* serves it.
Download(h, s, t, u) ==
  /\ job[h] = Rest /\ u \in shown[s]
  /\ Becomes(h, [at |-> "get", of |-> s, uri |-> u, entry |-> u \in keys[t], from |-> t])
  /\ UNCHANGED <<server, caches, lost, asked, failures>>

\* The answer is relayed without a key; a blob that is not its ciphertext fails.
Answer(h) ==
  /\ job[h].at = "get" /\ Ends(h)
  /\ LET brought == IF ~job[h].entry THEN blob[job[h].uri].form
                    ELSE IF Cipher(job[h].uri) THEN "plain" ELSE "error" IN
     lost' = IF brought = "plain" THEN lost
             ELSE lost \cup {IF job[h].from = job[h].of THEN "own" ELSE "borrowed"}
  /\ UNCHANGED <<server, caches, asked, failures>>

\* The cache is on disk.
Restart ==
  /\ Fail /\ job' = [h \in Handlers |-> Rest]
  /\ UNCHANGED <<server, caches, lost, asked>>

-----------------------------------------------------------------------------
Uploading(h) ==
  \/ \E s \in Sessions, f \in Files : Upload(h, s, f)
  \/ \E u \in Uris : Posted(h, u)
  \/ Insert(h)
Posting(h) ==
  \/ \E s \in Sessions, u \in Uris, room \in Rooms : Send(h, s, u, room)
  \/ \E u \in Uris : Reuploaded(h, u)
  \/ Downloaded(h) \/ Put(h)
Downloading(h) ==
  \/ \E s, t \in Sessions, u \in Uris : Download(h, s, t, u)
  \/ Answer(h)

Next ==
  \/ \E h \in Handlers : Uploading(h) \/ Posting(h) \/ Downloading(h) \/ HandlerFails(h)
  \/ \E s \in Sessions, event \in Events : Harvest(s, event)
  \/ \E u \in Uris, f \in Files, room \in Rooms : OthersSend(u, f, room)
  \/ Restart

Spec == Init /\ [][Next]_vars

-----------------------------------------------------------------------------
(* Properties *)

\* Every variable has its type, and what is referred to is on the homeserver
\* (MediaKeyCache::insert after the upload, or from an event).
TypeOK ==
  /\ Given \subseteq Uris /\ blob \in [Given -> [file : Files, form : Forms]]
  /\ events \subseteq Events /\ \A e \in events : e.uri \in Given
  /\ keys \in [Sessions -> SUBSET Given] /\ shown \in [Sessions -> SUBSET Given]
  /\ job \in [Handlers -> Jobs]
  /\ lost \subseteq {"own", "borrowed"}
  /\ asked \subseteq Files /\ failures \in 0..MaxFailures

\* Whoever may read an attachment's event can read the attachment: an encrypted
\* blob comes with its key, in an encrypted room; an unencrypted room refers to
\* a plain one (rewrite_content_for_encrypted_room, reupload_plaintext_if_needed).
EventsAreReadable ==
  \A e \in events :
    /\ e.as = "file" <=> Cipher(e.uri)
    /\ e.as = "file" => e.room = "encrypted"

\* A client is never left with ciphertext: each URI it has been given it can
\* download and send on, since its own session has the key, after failures and
\* restarts too.  The exception is the tokenless path when it borrows another
\* session (Route::MediaDownload).
FilesComeBack ==
  /\ "own" \notin lost
  /\ \A s \in Sessions : \A u \in shown[s] : u \in keys[s] <=> Cipher(u)

\* The homeserver is given a file in the clear only when a user has sent it to
\* an unencrypted room (handle_upload encrypts whatever it is for).
PlainOnlyWhenAsked == \A u \in Given : ~Cipher(u) => blob[u].file \in asked
=============================================================================
