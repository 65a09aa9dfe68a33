------------------------------- MODULE Backup -------------------------------
(***************************************************************************)
(* The backup of room keys on the homeserver.  A bootstrap                 *)
(* (src/crypto/ssss.rs) enables it with the key in secret storage and      *)
(* restores what it holds (src/crypto/backup.rs); every pump then uploads  *)
(* the keys that are not in it yet (src/crypto/machine.rs).  Meanwhile     *)
(* another client may replace the backup by a new, empty version with a    *)
(* key of its own, and only later put that key into secret storage.        *)
(*                                                                         *)
(* The crypto store remembers of each room key whether it has been backed  *)
(* up, not in which version: what a new version needs is that the marks    *)
(* of the old one, and a batch on its way to it, are forgotten first.      *)
(***************************************************************************)
EXTENDS Naturals, FiniteSets

CONSTANTS
  Keys,         \* room keys
  MaxVersion,   \* bound: backup versions other clients create
  Boot, Timer,  \* who pumps: the bootstrap when it is through; anything else
  MaxFailures   \* bound: failed requests, dropped handlers, restarts

ASSUME VersionAssumption == MaxVersion \in Nat \ {0}
ASSUME PumpsAssumption == Boot # Timer /\ "nobody" \notin {Boot, Timer}
ASSUME FailuresAssumption == MaxFailures \in Nat

VARIABLES
  version,      \* homeserver: the current backup, 0 if there is none
  stored,       \* ... the keys in each version
  secret,       \* secret storage: the version m.megolm_backup.v1 is the key of
  keys, marked, \* crypto store: the room keys, those that are backed up
  saved,        \* ... backup_version, next to the decryption key
  enabled,      \* BackupMachine, in memory: the version it backs up to
  pending,      \* ... the batch backup() has handed out
  holder, at,   \* who holds pump_lock, and where its pump is
  request,      \* the batch it is sending
  boot,         \* where the bootstrap is
  has, found,   \* the version its secret is for; the one the server has
  data,         \* the keys it has downloaded
  told,         \* history: the version it reported as enabled
  torn,         \* history: a bootstrap went away after it had saved
  failures      \* what is used up of MaxFailures

server == <<version, stored, secret>>
store  == <<keys, marked, saved>>
memory == <<enabled, pending>>
pump   == <<holder, at, request>>
own    == <<boot, has, found, data>>
hist   == <<told, torn, failures>>
vars   == <<server, store, memory, pump, own, hist>>

Versions == 1..MaxVersion
NoBatch  == [version |-> 0, keys |-> {}]
Batches  == {NoBatch} \cup [version : Versions, keys : SUBSET Keys]
Nobody   == "nobody"
Phases   == {"idle", "secret", "version", "check", "disable", "save", "enable",
             "download", "import", "pump", "end"}

Init ==
  /\ version = 0 /\ secret = 0 /\ stored = [v \in Versions |-> {}]
  /\ keys = {} /\ marked = {} /\ saved = 0
  /\ enabled = 0 /\ pending = NoBatch
  /\ holder = Nobody /\ at = "none" /\ request = NoBatch
  /\ boot = "idle" /\ has = 0 /\ found = 0 /\ data = {}
  /\ told = 0 /\ torn = FALSE /\ failures = 0

Fail == failures < MaxFailures /\ failures' = failures + 1

-----------------------------------------------------------------------------
(* Other clients and other devices *)

Replace ==
  /\ version < MaxVersion /\ version' = version + 1
  /\ UNCHANGED <<stored, secret, store, memory, pump, own, hist>>

ShareSecret ==
  /\ secret # version /\ secret' = version
  /\ UNCHANGED <<version, stored, store, memory, pump, own, hist>>

UploadElsewhere(k) ==
  /\ version \in Versions /\ k \notin stored[version]
  /\ stored' = [stored EXCEPT ![version] = @ \cup {k}]
  /\ UNCHANGED <<version, secret, store, memory, pump, own, hist>>

\* A key arrives in a sync, or from a key file (keys_import).
NewKey(k) ==
  /\ k \notin keys /\ keys' = keys \cup {k}
  /\ UNCHANGED <<server, marked, saved, memory, pump, own, hist>>

-----------------------------------------------------------------------------
(* upload_pending_backups, at the end of a pump *)

Take(p) ==
  /\ holder = Nobody /\ (p = Boot => boot = "pump")
  /\ holder' = p /\ at' = "batch"
  /\ UNCHANGED <<request, server, store, memory, own, hist>>

\* The pump is over; a bootstrap goes on to its report.
Release ==
  /\ holder' = Nobody /\ at' = "none" /\ request' = NoBatch
  /\ boot' = IF holder = Boot THEN "end" ELSE boot

\* Mutant: a batch that failed is not sent again.
BatchOnce ==
  /\ at = "batch"
  /\ LET todo == keys \ marked IN
     IF enabled = 0 \/ pending # NoBatch \/ todo = {}
       THEN Release /\ UNCHANGED pending
       ELSE /\ pending' = [version |-> enabled, keys |-> todo]
            /\ request' = pending' /\ at' = "put" /\ UNCHANGED <<holder, boot>>
  /\ UNCHANGED <<server, store, enabled, has, found, data, hist>>

\* BackupMachine::backup: the pending batch, or a new one.
Batch ==
  /\ at = "batch"
  /\ LET todo == keys \ marked IN
     IF enabled = 0 \/ (pending = NoBatch /\ todo = {})
       THEN Release /\ UNCHANGED pending
       ELSE /\ pending' = IF pending = NoBatch THEN [version |-> enabled, keys |-> todo]
                                                ELSE pending
            /\ request' = pending' /\ at' = "put" /\ UNCHANGED <<holder, boot>>
  /\ UNCHANGED <<server, store, enabled, has, found, data, hist>>

\* The homeserver refuses an upload to a version that is not the current one.
Put ==
  /\ at = "put"
  /\ IF request.version = version
       THEN /\ stored' = [stored EXCEPT ![version] = @ \cup request.keys]
            /\ at' = "mark" /\ UNCHANGED <<holder, request, boot>>
       ELSE Release /\ UNCHANGED stored
  /\ UNCHANGED <<version, secret, store, memory, has, found, data, hist>>

\* The request fails on its way there, or its answer does on its way back.
PutFails ==
  /\ at \in {"put", "mark"} /\ Fail /\ Release
  /\ UNCHANGED <<server, store, memory, has, found, data, told, torn>>

\* mark_request_as_sent: nothing, if the batch is no longer pending.  The lock
\* is held, so no other batch can be.
Mark ==
  /\ at = "mark"
  /\ marked' = marked \cup pending.keys
  /\ pending' = NoBatch /\ at' = "batch" /\ request' = NoBatch
  /\ UNCHANGED <<keys, saved, enabled, holder, server, own, hist>>

-----------------------------------------------------------------------------
(* bootstrap and restore_from_backup, await by await *)

\* `ctl bootstrap', after what comes before the backup key.
Bootstrap ==
  /\ boot = "idle" /\ boot' = "secret" /\ told' = 0
  /\ UNCHANGED <<has, found, data, server, store, memory, pump, torn, failures>>

\* get_secret: no secret, no backup.
Secret ==
  /\ boot = "secret" /\ has' = secret
  /\ boot' = IF secret = 0 THEN "pump" ELSE "version"
  /\ UNCHANGED <<found, data, server, store, memory, pump, hist>>

\* current_backup_version
Version ==
  /\ boot = "version" /\ found' = version
  /\ boot' = IF version = 0 THEN "pump" ELSE "check"
  /\ UNCHANGED <<has, data, server, store, memory, pump, hist>>

\* Another backup's key is an error; an enabled backup is left as it is.
Check ==
  /\ boot = "check"
  /\ boot' = IF has # found THEN "idle" ELSE IF saved = found THEN "download" ELSE "disable"
  /\ UNCHANGED <<has, found, data, server, store, memory, pump, hist>>

\* Mutant: the marks of the old version stay.
DisableOnly ==
  /\ boot = "disable" /\ boot' = "save"
  /\ enabled' = 0 /\ pending' = NoBatch /\ UNCHANGED marked
  /\ UNCHANGED <<keys, saved, has, found, data, server, pump, hist>>

Disable ==
  /\ boot = "disable" /\ boot' = "save"
  /\ enabled' = 0 /\ pending' = NoBatch /\ marked' = {}
  /\ UNCHANGED <<keys, saved, has, found, data, server, pump, hist>>

\* Mutant: the key is saved, the version is not.
SaveKeyOnly ==
  /\ boot = "save" /\ boot' = "enable" /\ UNCHANGED saved
  /\ UNCHANGED <<keys, marked, has, found, data, server, memory, pump, hist>>

Save ==
  /\ boot = "save" /\ boot' = "enable" /\ saved' = found
  /\ UNCHANGED <<keys, marked, has, found, data, server, memory, pump, hist>>

Enable ==
  /\ boot = "enable" /\ boot' = "download"
  /\ enabled' = found /\ torn' = FALSE
  /\ UNCHANGED <<pending, has, found, data, server, store, pump, told, failures>>

Download ==
  /\ boot = "download" /\ boot' = "import" /\ data' = stored[found]
  /\ UNCHANGED <<has, found, server, store, memory, pump, hist>>

\* import_room_keys: those it has not got, as backed up.
Import ==
  /\ boot = "import" /\ boot' = "pump"
  /\ keys' = keys \cup data /\ marked' = marked \cup (data \ keys)
  /\ UNCHANGED <<saved, has, found, data, server, memory, pump, hist>>

\* The report: enabled, whether or not this bootstrap did it.
Report ==
  /\ boot = "end" /\ boot' = "idle"
  /\ told' = IF has # 0 THEN found ELSE 0
  /\ has' = 0 /\ found' = 0 /\ data' = {}
  /\ UNCHANGED <<server, store, memory, pump, torn, failures>>

\* Mutant: the lock is not given back.
AbandonLocked ==
  /\ boot # "idle" /\ Fail
  /\ boot' = "idle" /\ has' = 0 /\ found' = 0 /\ data' = {}
  /\ torn' = (torn \/ boot = "enable")
  /\ UNCHANGED <<pump, server, store, memory, told>>

\* It ends early: an error of a request or of the store, or `ctl' goes away.
Abandon ==
  /\ boot # "idle" /\ Fail
  /\ boot' = "idle" /\ has' = 0 /\ found' = 0 /\ data' = {}
  /\ torn' = (torn \/ boot = "enable")
  /\ IF holder = Boot THEN holder' = Nobody /\ at' = "none" /\ request' = NoBatch
                      ELSE UNCHANGED pump
  /\ UNCHANGED <<server, store, memory, told>>

\* The BackupMachine starts from what the store has.
Restart ==
  /\ Fail /\ enabled' = saved /\ pending' = NoBatch
  /\ holder' = Nobody /\ at' = "none" /\ request' = NoBatch
  /\ boot' = "idle" /\ has' = 0 /\ found' = 0 /\ data' = {} /\ torn' = FALSE
  /\ UNCHANGED <<server, store, told>>

-----------------------------------------------------------------------------
Pumping == Batch \/ Put \/ Mark
Restoring ==
  \/ Bootstrap \/ Secret \/ Version \/ Check \/ Disable \/ Save \/ Enable
  \/ Download \/ Import \/ Report

Next ==
  \/ Replace \/ ShareSecret \/ \E k \in Keys : UploadElsewhere(k) \/ NewKey(k)
  \/ \E p \in {Boot, Timer} : Take(p)
  \/ Pumping \/ PutFails \/ Restoring \/ Abandon \/ Restart

\* spawn_periodic_pump: pumping goes on, and the lock is handed on in order.
Fairness == WF_vars(Pumping) /\ SF_vars(Take(Timer))

Spec == Init /\ [][Next]_vars /\ Fairness

-----------------------------------------------------------------------------
(* Properties *)

\* Every variable has its type; a batch is only on its way while the lock is
\* held, and what is marked or pending is in the store (upload_pending_backups).
TypeOK ==
  /\ version \in 0..MaxVersion /\ secret \in 0..MaxVersion
  /\ stored \in [Versions -> SUBSET Keys]
  /\ keys \subseteq Keys /\ marked \subseteq keys /\ saved \in 0..MaxVersion
  /\ enabled \in 0..MaxVersion /\ pending \in Batches /\ pending.keys \subseteq keys
  /\ holder \in {Nobody, Boot, Timer} /\ at \in {"none", "batch", "put", "mark"}
  /\ at = "none" <=> holder = Nobody
  /\ request \in Batches
  /\ request # NoBatch <=> at \in {"put", "mark"}
  /\ boot \in Phases /\ has \in 0..MaxVersion /\ found \in 0..MaxVersion
  /\ holder = Boot => boot = "pump"
  /\ data \subseteq Keys /\ told \in 0..MaxVersion /\ torn \in BOOLEAN
  /\ failures \in 0..MaxFailures

\* A room key that counts as backed up is in the backup the machine backs up
\* to.  Otherwise it would never be uploaded: it would be gone with the device
\* (disable_backup before a new version, mark_request_as_sent after the answer).
MarkedIsStored == enabled # 0 => marked \subseteq stored[enabled]

\* When `ctl bootstrap' has reported a version as enabled, the machine backs up
\* to it.  The exception is known: a bootstrap that went away between
\* save_decryption_key and enable_backup_v1 makes the next one believe the
\* backup enabled, until a restart (already_enabled in restore_from_backup).
ReportedIsEnabled == told # 0 => enabled = told \/ torn

\* A room key gets into the backup that is enabled, if no other client replaces
\* that and no bootstrap disables it (upload_pending_backups on every pump).
EveryKeyIsBackedUp ==
  \A k \in Keys :
    k \in keys /\ enabled # 0 /\ enabled = version
      ~> enabled = 0 \/ enabled # version \/ k \in stored[version]
=============================================================================
