----------------------------- MODULE BackupProofs ----------------------------
(***************************************************************************)
(* What counts as backed up is in the backup, and a backup reported as     *)
(* enabled is: for any keys and versions, wherever a bootstrap goes away,  *)
(* a request fails or the proxy restarts.                                  *)
(***************************************************************************)
EXTENDS Backup, TLAPS

Chosen == {"check", "disable", "save", "enable", "download", "import"}

\* Marks, batches and what a restore brings belong to the version saved.  A
\* bootstrap between Disable and Save has left no mark that could outlive it.
Marks ==
  /\ saved # 0 => marked \subseteq stored[saved]
  /\ enabled # 0 => enabled = saved
  /\ pending # NoBatch => pending.version = enabled
  /\ at \in {"put", "mark"} => pending \in {NoBatch, request}
  /\ at = "mark" => request.keys \subseteq stored[request.version]
  /\ boot = "save" => marked = {} /\ enabled = 0
  /\ boot = "enable" => enabled = 0 /\ saved = found
  /\ boot \in Chosen => found \in Versions
  /\ boot \in {"download", "import"} => saved = found
  /\ boot = "import" => data \subseteq stored[found]

\* A version that is saved and not enabled, though no bootstrap was torn.
Lagging == saved # 0 /\ enabled # saved /\ ~torn /\ boot # "enable"

\* It is an old one: the next bootstrap finds a newer and does not take it for
\* enabled.
Reports ==
  /\ saved <= version
  /\ boot \in Chosen => found <= version
  /\ boot \in Chosen => saved <= found
  /\ boot \in {"disable", "save"} => saved # found
  /\ Lagging => saved < version /\ (boot \in Chosen => saved < found)
  /\ boot \in {"pump", "end"} /\ has # 0 /\ found # 0 => saved = found /\ (enabled = found \/ torn)
  /\ boot # "idle" => told = 0
  /\ told # 0 => saved = told /\ (enabled = told \/ torn)

Inv == TypeOK /\ Marks /\ Reports

LEMMA EmptyBatch == NoBatch \in Batches /\ NoBatch.keys = {}
BY DEF NoBatch, Batches

LEMMA InitInv ==
  ASSUME Init
  PROVE  Inv
<1>1. TypeOK
  <2>1. torn \in BOOLEAN
    BY DEF Init
  <2>2. pending \in Batches /\ pending.keys \subseteq keys /\ request \in Batches
    BY EmptyBatch DEF Init
  <2>3. stored \in [Versions -> SUBSET Keys]
    BY DEF Init
  <2> QED
    BY <2>1, <2>2, <2>3, VersionAssumption, PumpsAssumption, FailuresAssumption
    DEF Init, TypeOK, Nobody, Phases
<1>2. Marks
  BY DEF Init, Marks, Chosen
<1>3. Reports
  BY DEF Init, Reports, Lagging, Chosen
<1> QED BY <1>1, <1>2, <1>3 DEF Inv

-----------------------------------------------------------------------------
\* The type invariant.
LEMMA TypeStep ==
  ASSUME Inv, Next
  PROVE  TypeOK'
<1>1. CASE Replace
  BY <1>1, VersionAssumption, PumpsAssumption, FailuresAssumption
  DEF Replace, server, store, memory, pump, own, hist,
      Inv, TypeOK, Marks, Chosen, Versions, NoBatch, Batches, Nobody, Phases
<1>2. CASE ShareSecret
  BY <1>2, VersionAssumption, PumpsAssumption, FailuresAssumption
  DEF ShareSecret, server, store, memory, pump, own, hist,
      Inv, TypeOK, Marks, Chosen, Versions, NoBatch, Batches, Nobody, Phases
<1>3. CASE \E k \in Keys : UploadElsewhere(k)
  BY <1>3, VersionAssumption, PumpsAssumption, FailuresAssumption
  DEF UploadElsewhere, server, store, memory, pump, own, hist,
      Inv, TypeOK, Marks, Chosen, Versions, NoBatch, Batches, Nobody, Phases
<1>4. CASE \E k \in Keys : NewKey(k)
  BY <1>4, VersionAssumption, PumpsAssumption, FailuresAssumption
  DEF NewKey, server, store, memory, pump, own, hist,
      Inv, TypeOK, Marks, Chosen, Versions, NoBatch, Batches, Nobody, Phases
<1>5. CASE \E p \in {Boot, Timer} : Take(p)
  BY <1>5, VersionAssumption, PumpsAssumption, FailuresAssumption
  DEF Take, server, store, memory, pump, own, hist,
      Inv, TypeOK, Marks, Chosen, Versions, NoBatch, Batches, Nobody, Phases
<1>6. CASE Batch
  BY <1>6, VersionAssumption, PumpsAssumption, FailuresAssumption
  DEF Batch, Release, server, store, memory, pump, own, hist,
      Inv, TypeOK, Marks, Chosen, Versions, NoBatch, Batches, Nobody, Phases
<1>7. CASE Put
  BY <1>7, VersionAssumption, PumpsAssumption, FailuresAssumption
  DEF Put, Release, server, store, memory, pump, own, hist,
      Inv, TypeOK, Marks, Chosen, Versions, NoBatch, Batches, Nobody, Phases
<1>8. CASE PutFails
  BY <1>8, VersionAssumption, PumpsAssumption, FailuresAssumption
  DEF PutFails, Release, Fail, server, store, memory, pump, own, hist,
      Inv, TypeOK, Marks, Chosen, Versions, NoBatch, Batches, Nobody, Phases
<1>9. CASE Mark
  BY <1>9, VersionAssumption, PumpsAssumption, FailuresAssumption
  DEF Mark, server, store, memory, pump, own, hist,
      Inv, TypeOK, Marks, Chosen, Versions, NoBatch, Batches, Nobody, Phases
<1>10. CASE Bootstrap
  BY <1>10, VersionAssumption, PumpsAssumption, FailuresAssumption
  DEF Bootstrap, server, store, memory, pump, own, hist,
      Inv, TypeOK, Marks, Chosen, Versions, NoBatch, Batches, Nobody, Phases
<1>11. CASE Secret
  BY <1>11, VersionAssumption, PumpsAssumption, FailuresAssumption
  DEF Secret, server, store, memory, pump, own, hist,
      Inv, TypeOK, Marks, Chosen, Versions, NoBatch, Batches, Nobody, Phases
<1>12. CASE Version
  BY <1>12, VersionAssumption, PumpsAssumption, FailuresAssumption
  DEF Version, server, store, memory, pump, own, hist,
      Inv, TypeOK, Marks, Chosen, Versions, NoBatch, Batches, Nobody, Phases
<1>13. CASE Check
  BY <1>13, VersionAssumption, PumpsAssumption, FailuresAssumption
  DEF Check, server, store, memory, pump, own, hist,
      Inv, TypeOK, Marks, Chosen, Versions, NoBatch, Batches, Nobody, Phases
<1>14. CASE Disable
  BY <1>14, VersionAssumption, PumpsAssumption, FailuresAssumption
  DEF Disable, server, store, memory, pump, own, hist,
      Inv, TypeOK, Marks, Chosen, Versions, NoBatch, Batches, Nobody, Phases
<1>15. CASE Save
  BY <1>15, VersionAssumption, PumpsAssumption, FailuresAssumption
  DEF Save, server, store, memory, pump, own, hist,
      Inv, TypeOK, Marks, Chosen, Versions, NoBatch, Batches, Nobody, Phases
<1>16. CASE Enable
  BY <1>16, VersionAssumption, PumpsAssumption, FailuresAssumption
  DEF Enable, server, store, memory, pump, own, hist,
      Inv, TypeOK, Marks, Chosen, Versions, NoBatch, Batches, Nobody, Phases
<1>17. CASE Download
  BY <1>17, VersionAssumption, PumpsAssumption, FailuresAssumption
  DEF Download, server, store, memory, pump, own, hist,
      Inv, TypeOK, Marks, Chosen, Versions, NoBatch, Batches, Nobody, Phases
<1>18. CASE Import
  BY <1>18, VersionAssumption, PumpsAssumption, FailuresAssumption
  DEF Import, server, store, memory, pump, own, hist,
      Inv, TypeOK, Marks, Chosen, Versions, NoBatch, Batches, Nobody, Phases
<1>19. CASE Report
  BY <1>19, VersionAssumption, PumpsAssumption, FailuresAssumption
  DEF Report, server, store, memory, pump, own, hist,
      Inv, TypeOK, Marks, Chosen, Versions, NoBatch, Batches, Nobody, Phases
<1>20. CASE Abandon
  BY <1>20, VersionAssumption, PumpsAssumption, FailuresAssumption
  DEF Abandon, Fail, server, store, memory, pump, own, hist,
      Inv, TypeOK, Marks, Chosen, Versions, NoBatch, Batches, Nobody, Phases
<1>21. CASE Restart
  <2>1. torn' \in BOOLEAN
    BY <1>21 DEF Restart
  <2>2. pending' \in Batches /\ pending'.keys \subseteq keys' /\ request' \in Batches
    BY <1>21, EmptyBatch DEF Restart
  <2> QED
    BY <1>21, <2>1, <2>2, VersionAssumption, PumpsAssumption, FailuresAssumption
    DEF Restart, Fail, server, store, Inv, TypeOK, Nobody, Phases
<1> QED
  BY <1>1, <1>2, <1>3, <1>4, <1>5, <1>6, <1>7, <1>8, <1>9, <1>10, <1>11, <1>12, <1>13, <1>14, <1>15, <1>16, <1>17, <1>18, <1>19, <1>20, <1>21
  DEF Next, Pumping, Restoring

\* Marks and batches.
LEMMA MarksStep ==
  ASSUME Inv, Next
  PROVE  Marks'
<1>1. CASE Replace
  BY <1>1, VersionAssumption
  DEF Replace, server, store, memory, pump, own, hist,
      Inv, TypeOK, Marks, Chosen, Versions, NoBatch, Batches, Phases
<1>2. CASE ShareSecret
  BY <1>2, VersionAssumption
  DEF ShareSecret, server, store, memory, pump, own, hist,
      Inv, TypeOK, Marks, Chosen, Versions, NoBatch, Batches, Phases
<1>3. CASE \E k \in Keys : UploadElsewhere(k)
  BY <1>3, VersionAssumption
  DEF UploadElsewhere, server, store, memory, pump, own, hist,
      Inv, TypeOK, Marks, Chosen, Versions, NoBatch, Batches, Phases
<1>4. CASE \E k \in Keys : NewKey(k)
  BY <1>4, VersionAssumption
  DEF NewKey, server, store, memory, pump, own, hist,
      Inv, TypeOK, Marks, Chosen, Versions, NoBatch, Batches, Phases
<1>5. CASE \E p \in {Boot, Timer} : Take(p)
  BY <1>5, VersionAssumption
  DEF Take, server, store, memory, pump, own, hist,
      Inv, TypeOK, Marks, Chosen, Versions, NoBatch, Batches, Phases
<1>6. CASE Batch
  BY <1>6, VersionAssumption
  DEF Batch, Release, server, store, memory, pump, own, hist,
      Inv, TypeOK, Marks, Chosen, Versions, NoBatch, Batches, Phases
<1>7. CASE Put
  BY <1>7, VersionAssumption
  DEF Put, Release, server, store, memory, pump, own, hist,
      Inv, TypeOK, Marks, Chosen, Versions, NoBatch, Batches, Phases
<1>8. CASE PutFails
  BY <1>8, VersionAssumption
  DEF PutFails, Release, Fail, server, store, memory, pump, own, hist,
      Inv, TypeOK, Marks, Chosen, Versions, NoBatch, Batches, Phases
<1>9. CASE Mark
  BY <1>9, VersionAssumption
  DEF Mark, server, store, memory, pump, own, hist,
      Inv, TypeOK, Marks, Chosen, Versions, NoBatch, Batches, Phases
<1>10. CASE Bootstrap
  BY <1>10, VersionAssumption
  DEF Bootstrap, server, store, memory, pump, own, hist,
      Inv, TypeOK, Marks, Chosen, Versions, NoBatch, Batches, Phases
<1>11. CASE Secret
  BY <1>11, VersionAssumption
  DEF Secret, server, store, memory, pump, own, hist,
      Inv, TypeOK, Marks, Chosen, Versions, NoBatch, Batches, Phases
<1>12. CASE Version
  BY <1>12, VersionAssumption
  DEF Version, server, store, memory, pump, own, hist,
      Inv, TypeOK, Marks, Chosen, Versions, NoBatch, Batches, Phases
<1>13. CASE Check
  BY <1>13, VersionAssumption
  DEF Check, server, store, memory, pump, own, hist,
      Inv, TypeOK, Marks, Chosen, Versions, NoBatch, Batches, Phases
<1>14. CASE Disable
  BY <1>14, VersionAssumption
  DEF Disable, server, store, memory, pump, own, hist,
      Inv, TypeOK, Marks, Chosen, Versions, NoBatch, Batches, Phases
<1>15. CASE Save
  BY <1>15, VersionAssumption
  DEF Save, server, store, memory, pump, own, hist,
      Inv, TypeOK, Marks, Chosen, Versions, NoBatch, Batches, Phases
<1>16. CASE Enable
  BY <1>16, VersionAssumption
  DEF Enable, server, store, memory, pump, own, hist,
      Inv, TypeOK, Marks, Chosen, Versions, NoBatch, Batches, Phases
<1>17. CASE Download
  BY <1>17, VersionAssumption
  DEF Download, server, store, memory, pump, own, hist,
      Inv, TypeOK, Marks, Chosen, Versions, NoBatch, Batches, Phases
<1>18. CASE Import
  BY <1>18, VersionAssumption
  DEF Import, server, store, memory, pump, own, hist,
      Inv, TypeOK, Marks, Chosen, Versions, NoBatch, Batches, Phases
<1>19. CASE Report
  BY <1>19, VersionAssumption
  DEF Report, server, store, memory, pump, own, hist,
      Inv, TypeOK, Marks, Chosen, Versions, NoBatch, Batches, Phases
<1>20. CASE Abandon
  BY <1>20, VersionAssumption
  DEF Abandon, Fail, server, store, memory, pump, own, hist,
      Inv, TypeOK, Marks, Chosen, Versions, NoBatch, Batches, Phases
<1>21. CASE Restart
  BY <1>21, VersionAssumption
  DEF Restart, Fail, server, store, memory, pump, own, hist,
      Inv, TypeOK, Marks, Chosen, Versions, NoBatch, Batches, Phases
<1> QED
  BY <1>1, <1>2, <1>3, <1>4, <1>5, <1>6, <1>7, <1>8, <1>9, <1>10, <1>11, <1>12, <1>13, <1>14, <1>15, <1>16, <1>17, <1>18, <1>19, <1>20, <1>21
  DEF Next, Pumping, Restoring

\* Reports.
LEMMA ReportsStep ==
  ASSUME Inv, Next
  PROVE  Reports'
<1>1. CASE Replace
  BY <1>1, VersionAssumption
  DEF Replace, server, store, memory, pump, own, hist,
      Inv, TypeOK, Marks, Reports, Lagging, Chosen, Versions
<1>2. CASE ShareSecret
  BY <1>2, VersionAssumption
  DEF ShareSecret, server, store, memory, pump, own, hist,
      Inv, TypeOK, Marks, Reports, Lagging, Chosen, Versions
<1>3. CASE \E k \in Keys : UploadElsewhere(k)
  BY <1>3, VersionAssumption
  DEF UploadElsewhere, server, store, memory, pump, own, hist,
      Inv, TypeOK, Marks, Reports, Lagging, Chosen, Versions
<1>4. CASE \E k \in Keys : NewKey(k)
  BY <1>4, VersionAssumption
  DEF NewKey, server, store, memory, pump, own, hist,
      Inv, TypeOK, Marks, Reports, Lagging, Chosen, Versions
<1>5. CASE \E p \in {Boot, Timer} : Take(p)
  BY <1>5, VersionAssumption
  DEF Take, server, store, memory, pump, own, hist,
      Inv, TypeOK, Marks, Reports, Lagging, Chosen, Versions
<1>6. CASE Batch
  BY <1>6, VersionAssumption
  DEF Batch, Release, server, store, memory, pump, own, hist,
      Inv, TypeOK, Marks, Reports, Lagging, Chosen, Versions
<1>7. CASE Put
  BY <1>7, VersionAssumption
  DEF Put, Release, server, store, memory, pump, own, hist,
      Inv, TypeOK, Marks, Reports, Lagging, Chosen, Versions
<1>8. CASE PutFails
  BY <1>8, VersionAssumption
  DEF PutFails, Release, Fail, server, store, memory, pump, own, hist,
      Inv, TypeOK, Marks, Reports, Lagging, Chosen, Versions
<1>9. CASE Mark
  BY <1>9, VersionAssumption
  DEF Mark, server, store, memory, pump, own, hist,
      Inv, TypeOK, Marks, Reports, Lagging, Chosen, Versions
<1>10. CASE Bootstrap
  BY <1>10, VersionAssumption
  DEF Bootstrap, server, store, memory, pump, own, hist,
      Inv, TypeOK, Marks, Reports, Lagging, Chosen, Versions
<1>11. CASE Secret
  BY <1>11, VersionAssumption
  DEF Secret, server, store, memory, pump, own, hist,
      Inv, TypeOK, Marks, Reports, Lagging, Chosen, Versions
<1>12. CASE Version
  BY <1>12, VersionAssumption
  DEF Version, server, store, memory, pump, own, hist,
      Inv, TypeOK, Marks, Reports, Lagging, Chosen, Versions
<1>13. CASE Check
  BY <1>13, VersionAssumption
  DEF Check, server, store, memory, pump, own, hist,
      Inv, TypeOK, Marks, Reports, Lagging, Chosen, Versions
<1>14. CASE Disable
  BY <1>14, VersionAssumption
  DEF Disable, server, store, memory, pump, own, hist,
      Inv, TypeOK, Marks, Reports, Lagging, Chosen, Versions
<1>15. CASE Save
  BY <1>15, VersionAssumption
  DEF Save, server, store, memory, pump, own, hist,
      Inv, TypeOK, Marks, Reports, Lagging, Chosen, Versions
<1>16. CASE Enable
  BY <1>16, VersionAssumption
  DEF Enable, server, store, memory, pump, own, hist,
      Inv, TypeOK, Marks, Reports, Lagging, Chosen, Versions
<1>17. CASE Download
  BY <1>17, VersionAssumption
  DEF Download, server, store, memory, pump, own, hist,
      Inv, TypeOK, Marks, Reports, Lagging, Chosen, Versions
<1>18. CASE Import
  BY <1>18, VersionAssumption
  DEF Import, server, store, memory, pump, own, hist,
      Inv, TypeOK, Marks, Reports, Lagging, Chosen, Versions
<1>19. CASE Report
  BY <1>19, VersionAssumption
  DEF Report, server, store, memory, pump, own, hist,
      Inv, TypeOK, Marks, Reports, Lagging, Chosen, Versions
<1>20. CASE Abandon
  BY <1>20, VersionAssumption
  DEF Abandon, Fail, server, store, memory, pump, own, hist,
      Inv, TypeOK, Marks, Reports, Lagging, Chosen, Versions
<1>21. CASE Restart
  BY <1>21, VersionAssumption
  DEF Restart, Fail, server, store, memory, pump, own, hist,
      Inv, TypeOK, Marks, Reports, Lagging, Chosen, Versions
<1> QED
  BY <1>1, <1>2, <1>3, <1>4, <1>5, <1>6, <1>7, <1>8, <1>9, <1>10, <1>11, <1>12, <1>13, <1>14, <1>15, <1>16, <1>17, <1>18, <1>19, <1>20, <1>21
  DEF Next, Pumping, Restoring

LEMMA Inductive ==
  ASSUME Inv, [Next]_vars
  PROVE  Inv'
<1>1. CASE Next
  BY <1>1, TypeStep, MarksStep, ReportsStep DEF Inv
<1>2. CASE UNCHANGED vars
  BY <1>2 DEF vars, server, store, memory, pump, own, hist, Inv, TypeOK, Marks, Reports, Lagging
<1> QED BY <1>1, <1>2

THEOREM Invariant == Spec => []Inv
BY InitInv, Inductive, PTL DEF Spec

\* Every variable has its type, and a batch is under way only under pump_lock
\* (upload_pending_backups).
THEOREM TypeCorrect == Spec => []TypeOK
BY Invariant, PTL DEF Inv

\* A room key that counts as backed up is in the backup that is enabled
\* (disable_backup before a new version, mark_request_as_sent after the answer).
THEOREM MarksAreTrue == Spec => []MarkedIsStored
<1>1. Inv => MarkedIsStored
  BY DEF Inv, Marks, MarkedIsStored
<1> QED BY <1>1, Invariant, PTL

\* A backup that `ctl bootstrap' reported is enabled, but for a bootstrap that
\* went away between save_decryption_key and enable_backup_v1.
THEOREM ReportsAreTrue == Spec => []ReportedIsEnabled
<1>1. Inv => ReportedIsEnabled
  BY DEF Inv, Reports, ReportedIsEnabled
<1> QED BY <1>1, Invariant, PTL
=============================================================================
