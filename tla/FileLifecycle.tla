---------------------------- MODULE FileLifecycle ----------------------------
(***************************************************************************)
(* The stored files of one organization (files/files.service.ts and        *)
(* files/file-maintenance.service.ts) and their objects in the bucket.     *)
(*                                                                         *)
(* A slot is one API request or one file of a maintenance pass; several    *)
(* run at a time, as several server processes may.  Between its reads, its *)
(* calls to the bucket or the scanner, and its one UPDATE by id, anything  *)
(* may happen to the row: all that guards the UPDATE is the constraint     *)
(* stored_files_lifecycle_check, and status = SCANNING for scan results.   *)
(*                                                                         *)
(* Time is the moment a reservation or a recovery period ends.  The later  *)
(* deadlines (stale reservation, scan timeout, audit retention, age of an  *)
(* orphan) are read by one action each, which may come at any time.        *)
(* setLifecycleState does nothing in either provider, so the calls of      *)
(* syncLifecycleState and retryLifecycleTags change no state.              *)
(***************************************************************************)
EXTENDS Naturals, FiniteSets

CONSTANTS File,             \* ids of rows and keys of objects
          Slot,             \* concurrent requests and maintenance jobs
          None,             \* no file
          ScannerEnabled,   \* MALWARE_SCANNER is clamav
          MaxFiles,         \* FILE_PLAN_QUOTAS[plan].maxFiles
          MaxReservations,  \* FILE_MAX_ACTIVE_RESERVATIONS_PER_ORGANIZATION
          MaxScans,         \* scan attempts before a file fails (3)
          AttemptBound      \* bound on scanAttempts

ASSUME NoneAssumption == None \notin File
ASSUME ScannerAssumption == ScannerEnabled \in BOOLEAN
ASSUME LimitsAssumption ==
    MaxFiles \in Nat /\ MaxReservations \in Nat /\ MaxScans \in Nat /\ AttemptBound \in Nat

VARIABLES row,      \* stored_files
          object,   \* the bucket holds the object
          url,      \* a signed upload URL was given out
          slot,     \* what each slot has read and does next
          torn,     \* history: a slot died between erasing an object and its row
          restored  \* history: the files that were deleted and restored

history == <<torn, restored>>
vars == <<row, object, url, slot, history>>

FileStatus == {"PENDING", "SCANNING", "READY", "DELETED", "REJECTED", "FAILED", "PURGED"}
FileMalwareStatus == {"NOT_REQUIRED", "PENDING", "CLEAN", "INFECTED", "UNSUPPORTED", "FAILED"}

\* A row: reservationExpiresAt has passed or not, uploadedAt and deletedAt are
\* set or not, and purgeAfter is not set, ahead, or due.
AbsentRow == [status |-> "absent", malware |-> "PENDING", attempts |-> 0, reserved |-> FALSE,
              uploaded |-> FALSE, deleted |-> FALSE, purgeAfter |-> "none"]
PendingRow == [AbsentRow EXCEPT !.status = "PENDING", !.reserved = TRUE,
                                !.malware = IF ScannerEnabled THEN "PENDING" ELSE "NOT_REQUIRED"]

\* A slot at pc about file f, with the status it is to write or the scan
\* attempts it has read.
At(pc, f, status, attempts) == [pc |-> pc, file |-> f, status |-> status, attempts |-> attempts]
IdleSlot == At("idle", None, "absent", 0)
IsIdle(s) == slot[s].pc = "idle"
Goto(s, pc, f) == slot' = [slot EXCEPT ![s] = At(pc, f, "absent", 0)]
Finish(s) == slot' = [slot EXCEPT ![s] = IdleSlot]

Init ==
    /\ row = [f \in File |-> AbsentRow]
    /\ object = [f \in File |-> FALSE]
    /\ url = [f \in File |-> FALSE]
    /\ slot = [s \in Slot |-> IdleSlot]
    /\ torn = {} /\ restored = {}

-----------------------------------------------------------------------------
\* Bug: a constraint that forgets purged_at lets a purged row come back.
LifecycleCheckWithoutPurge(old, new) ==
    /\ new.status = "PENDING" => ~new.uploaded /\ ~new.deleted
    /\ new.status \in {"SCANNING", "READY"} => new.uploaded /\ ~new.deleted
    /\ new.status = "DELETED" => new.uploaded /\ new.deleted /\ new.purgeAfter # "none"
    /\ new.status \in {"REJECTED", "FAILED"} => new.purgeAfter # "none"

\* stored_files_lifecycle_check on the row an UPDATE would write over old.
\* purged_at is set by PURGED only and never cleared.
LifecycleCheck(old, new) ==
    /\ new.status = "PENDING" => ~new.uploaded /\ ~new.deleted
    /\ new.status \in {"SCANNING", "READY"} => new.uploaded /\ ~new.deleted
    /\ new.status = "DELETED" => new.uploaded /\ new.deleted /\ new.purgeAfter # "none"
    /\ new.status \in {"REJECTED", "FAILED"} => new.purgeAfter # "none"
    /\ old.status = "PURGED" => new.status = "PURGED"

\* UPDATE by id: the row must still be there and satisfy the constraint.
Update(f, new) ==
    /\ row[f].status \in FileStatus
    /\ LifecycleCheck(row[f], new)
    /\ row' = [row EXCEPT ![f] = new]

-----------------------------------------------------------------------------
(* initiateUpload                                                          *)

ActiveReservations == {f \in File : row[f].status = "PENDING" /\ row[f].reserved}
\* What the quota counts.
CountedFiles == {f \in File : row[f].status \in {"SCANNING", "READY", "DELETED"}} \cup ActiveReservations

\* Under the organization's advisory lock: usage and reservations leave room.
BeginInitiate(s) ==
    /\ IsIdle(s)
    /\ \A t \in Slot : slot[t].pc # "reserve"
    /\ Cardinality(CountedFiles) + 1 <= MaxFiles
    /\ Cardinality(ActiveReservations) < MaxReservations
    /\ Goto(s, "reserve", None)
    /\ UNCHANGED <<row, object, url, history>>

\* The row is created and the lock released; the upload target is next.
ReserveUpload(s, f) ==
    /\ slot[s].pc = "reserve"
    /\ row[f].status = "absent"
    /\ row' = [row EXCEPT ![f] = PendingRow]
    /\ Goto(s, "target", f)
    /\ UNCHANGED <<object, url, history>>

\* createUploadTarget: the client gets its URL.
CreateUploadTarget(s) ==
    /\ slot[s].pc = "target"
    /\ url' = [url EXCEPT ![slot[s].file] = TRUE]
    /\ Finish(s)
    /\ UNCHANGED <<row, object, history>>

\* createUploadTarget throws: the file failed and is due for purging.
FailUploadTarget(s) ==
    LET f == slot[s].file IN
    /\ slot[s].pc = "target"
    /\ Update(f, [row[f] EXCEPT !.status = "FAILED", !.purgeAfter = "due"])
    /\ Finish(s)
    /\ UNCHANGED <<object, url, history>>

\* The client's PUT arrives while the URL is good (its ten minutes end before
\* the reservation's fifteen), whatever has become of the row.
Upload(f) ==
    /\ url[f]
    /\ object' = [object EXCEPT ![f] = TRUE]
    /\ UNCHANGED <<row, url, slot, history>>

-----------------------------------------------------------------------------
(* completeUpload                                                          *)

\* The row is pending and its reservation active.
BeginComplete(s, f) ==
    /\ IsIdle(s)
    /\ f \in ActiveReservations
    /\ Goto(s, "inspect", f)
    /\ UNCHANGED <<row, object, url, history>>

\* Bug: the object is not asked for.
CompleteUnseen(s) ==
    /\ slot[s].pc = "inspect"
    /\ Goto(s, "complete", slot[s].file)
    /\ UNCHANGED <<row, object, url, history>>

\* inspectObject finds the object.
InspectObject(s) ==
    /\ slot[s].pc = "inspect"
    /\ object[slot[s].file]
    /\ Goto(s, "complete", slot[s].file)
    /\ UNCHANGED <<row, object, url, history>>

\* The object is what was declared.
CompleteUpload(s) ==
    LET f == slot[s].file IN
    /\ slot[s].pc = "complete"
    /\ Update(f, [row[f] EXCEPT !.uploaded = TRUE,
                                !.status = IF ScannerEnabled THEN "SCANNING" ELSE "READY",
                                !.malware = IF ScannerEnabled THEN "PENDING" ELSE "NOT_REQUIRED"])
    /\ Finish(s)
    /\ UNCHANGED <<object, url, history>>

\* Bug: the malware status repeats the status, which its enum does not have.
RejectUploadTwice(s) ==
    LET f == slot[s].file IN
    /\ slot[s].pc = "complete"
    /\ Update(f, [row[f] EXCEPT !.uploaded = TRUE, !.status = "REJECTED",
                                !.malware = "REJECTED", !.purgeAfter = "ahead"])
    /\ Finish(s)
    /\ UNCHANGED <<object, url, history>>

\* It is not.
RejectUpload(s) ==
    LET f == slot[s].file IN
    /\ slot[s].pc = "complete"
    /\ Update(f, [row[f] EXCEPT !.uploaded = TRUE, !.status = "REJECTED",
                                !.malware = "UNSUPPORTED", !.purgeAfter = "ahead"])
    /\ Finish(s)
    /\ UNCHANGED <<object, url, history>>

-----------------------------------------------------------------------------
(* deleteFile, restoreFile                                                 *)

\* A pending upload is discarded at once, an uploaded file is soft-deleted.
BeginDelete(s, f) ==
    /\ IsIdle(s)
    /\ row[f].status \in {"PENDING", "READY", "SCANNING"}
    /\ Goto(s, IF row[f].status = "PENDING" THEN "erase" ELSE "softDelete", f)
    /\ UNCHANGED <<row, object, url, history>>

SoftDelete(s) ==
    LET f == slot[s].file IN
    /\ slot[s].pc = "softDelete"
    /\ Update(f, [row[f] EXCEPT !.status = "DELETED", !.deleted = TRUE, !.purgeAfter = "ahead"])
    /\ Finish(s)
    /\ UNCHANGED <<object, url, history>>

\* Within the recovery period; the status to restore is taken from the row read.
BeginRestore(s, f) ==
    /\ IsIdle(s)
    /\ row[f].status = "DELETED" /\ row[f].purgeAfter = "ahead"
    /\ slot' = [slot EXCEPT ![s] =
                   At("restore", f, IF row[f].malware = "PENDING" THEN "SCANNING" ELSE "READY", 0)]
    /\ UNCHANGED <<row, object, url, history>>

RestoreFile(s) ==
    LET f == slot[s].file IN
    /\ slot[s].pc = "restore"
    /\ Update(f, [row[f] EXCEPT !.status = slot[s].status, !.deleted = FALSE, !.purgeAfter = "none"])
    /\ restored' = restored \cup {f}
    /\ Finish(s)
    /\ UNCHANGED <<object, url, torn>>

-----------------------------------------------------------------------------
(* Maintenance                                                             *)

\* processScans lists a file to scan.
BeginScan(s, f) ==
    /\ ScannerEnabled
    /\ IsIdle(s)
    /\ row[f].status = "SCANNING"
    /\ row[f].attempts < AttemptBound
    /\ slot' = [slot EXCEPT ![s] = At("scan", f, "absent", row[f].attempts)]
    /\ UNCHANGED <<row, object, url, history>>

\* updateMany where status = SCANNING, then the slot is free.
ScanUpdate(s, new) ==
    LET f == slot[s].file IN
    /\ row' = IF row[f].status = "SCANNING" THEN [row EXCEPT ![f] = new] ELSE row
    /\ Finish(s)
    /\ UNCHANGED <<object, url, history>>

\* applyScanResult: clean or infected.
ScanVerdict(s, clean) ==
    LET f == slot[s].file IN
    /\ slot[s].pc = "scan"
    /\ object[f]
    /\ ScanUpdate(s, IF clean
                     THEN [row[f] EXCEPT !.status = "READY", !.malware = "CLEAN"]
                     ELSE [row[f] EXCEPT !.status = "REJECTED", !.malware = "INFECTED",
                                         !.purgeAfter = "due"])

\* failScan.
FailedScan(f, malware, attempts) ==
    [row[f] EXCEPT !.status = "FAILED", !.malware = malware, !.attempts = attempts,
                   !.purgeAfter = "due"]

\* Bug: a file the scanner does not support is let through after its attempts.
ScanInconclusivePasses(s, malware) ==
    LET f == slot[s].file  n == slot[s].attempts + 1 IN
    /\ slot[s].pc = "scan"
    /\ object[f]
    /\ ScanUpdate(s, IF n >= MaxScans /\ malware = "UNSUPPORTED"
                     THEN [row[f] EXCEPT !.status = "READY", !.malware = malware]
                     ELSE [row[f] EXCEPT !.attempts = n, !.malware = malware])

\* applyScanResult: unsupported or failed.  The file stays to be scanned again
\* until its attempts are used up.
ScanInconclusive(s, malware) ==
    LET f == slot[s].file  n == slot[s].attempts + 1 IN
    /\ slot[s].pc = "scan"
    /\ object[f]
    /\ ScanUpdate(s, IF n >= MaxScans THEN FailedScan(f, malware, n)
                     ELSE [row[f] EXCEPT !.attempts = n, !.malware = malware])

\* The object cannot be read or the scanner not be reached; or the file has
\* been scanning for FILE_SCAN_TIMEOUT_MS, and is failed without a scan.
ScanError(s, timeout) ==
    LET f == slot[s].file  n == slot[s].attempts + 1 IN
    /\ slot[s].pc = "scan"
    /\ ScanUpdate(s, IF timeout \/ n >= MaxScans THEN FailedScan(f, "FAILED", n)
                     ELSE [row[f] EXCEPT !.attempts = n])

\* Bug: failed files are not listed.
PurgeableUnlessFailed(f) ==
    \/ row[f].status = "PENDING" /\ ~row[f].reserved
    \/ row[f].status \in {"DELETED", "REJECTED"} /\ row[f].purgeAfter = "due"

\* purgeExpiredRecords lists a stale reservation or a file that is due.
Purgeable(f) ==
    \/ row[f].status = "PENDING" /\ ~row[f].reserved
    \/ row[f].status \in {"DELETED", "REJECTED", "FAILED"} /\ row[f].purgeAfter = "due"

BeginPurge(s, f) ==
    /\ IsIdle(s)
    /\ Purgeable(f)
    /\ Goto(s, "erase", f)
    /\ UNCHANGED <<row, object, url, history>>

\* purgeExpiredRecords and the deletion of a pending upload: the object first,
EraseObject(s) ==
    /\ slot[s].pc = "erase"
    /\ object' = [object EXCEPT ![slot[s].file] = FALSE]
    /\ Goto(s, "tombstone", slot[s].file)
    /\ UNCHANGED <<row, url, history>>

\* then the row becomes a tombstone.
PurgeRecord(s) ==
    LET f == slot[s].file IN
    /\ slot[s].pc = "tombstone"
    /\ Update(f, [row[f] EXCEPT !.status = "PURGED"])
    /\ Finish(s)
    /\ UNCHANGED <<object, url, history>>

\* maintain deletes a tombstone when its audit retention ends, months after
\* the reservation did.
DropTombstone(f) ==
    /\ row[f].status = "PURGED" /\ ~row[f].reserved
    /\ row' = [row EXCEPT ![f] = [AbsentRow EXCEPT !.status = "gone"]]
    /\ UNCHANGED <<object, url, slot, history>>

\* Bug: only keys that were never reserved are orphans.
ReconcileUnreserved(f) ==
    /\ object[f]
    /\ row[f].status = "absent"
    /\ object' = [object EXCEPT ![f] = FALSE]
    /\ UNCHANGED <<row, url, slot, history>>

\* reconcileOrphans deletes an object no row names.
ReconcileOrphan(f) ==
    /\ object[f]
    /\ row[f].status = "gone"
    /\ object' = [object EXCEPT ![f] = FALSE]
    /\ UNCHANGED <<row, url, slot, history>>

-----------------------------------------------------------------------------
(* Failures and time                                                       *)

\* A check throws, the constraint refuses, the bucket fails or the process dies.
GiveUp(s) ==
    /\ ~IsIdle(s)
    /\ torn' = IF slot[s].pc = "tombstone" THEN torn \cup {slot[s].file} ELSE torn
    /\ Finish(s)
    /\ UNCHANGED <<row, object, url, restored>>

\* The reservation ends, and with it the upload URL.
ReservationEnds(f) ==
    /\ row[f].reserved
    /\ row' = [row EXCEPT ![f].reserved = FALSE]
    /\ url' = [url EXCEPT ![f] = FALSE]
    /\ UNCHANGED <<object, slot, history>>

\* purgeAfter passes.
RetentionEnds(f) ==
    /\ row[f].purgeAfter = "ahead"
    /\ row' = [row EXCEPT ![f].purgeAfter = "due"]
    /\ UNCHANGED <<object, url, slot, history>>

Step(s) ==
    \/ CreateUploadTarget(s) \/ FailUploadTarget(s)
    \/ InspectObject(s) \/ CompleteUpload(s) \/ RejectUpload(s)
    \/ SoftDelete(s) \/ RestoreFile(s)
    \/ \E clean \in BOOLEAN : ScanVerdict(s, clean)
    \/ \E malware \in {"UNSUPPORTED", "FAILED"} : ScanInconclusive(s, malware)
    \/ \E timeout \in BOOLEAN : ScanError(s, timeout)
    \/ EraseObject(s) \/ PurgeRecord(s) \/ GiveUp(s)

Next ==
    \/ \E s \in Slot : BeginInitiate(s) \/ Step(s)
    \/ \E s \in Slot, f \in File :
          \/ ReserveUpload(s, f) \/ BeginComplete(s, f) \/ BeginDelete(s, f)
          \/ BeginRestore(s, f) \/ BeginScan(s, f) \/ BeginPurge(s, f)
    \/ \E f \in File :
          \/ Upload(f) \/ DropTombstone(f) \/ ReconcileOrphan(f)
          \/ ReservationEnds(f) \/ RetentionEnds(f)

Spec == Init /\ [][Next]_vars

\* A slot's handler goes on or ends; the maintenance timer comes round again
\* and again, and a bucket that fails now and then does not fail for ever;
\* time passes.
Fairness ==
    /\ \A s \in Slot : WF_vars(Step(s))
    /\ \A f \in File :
          /\ SF_vars(\E s \in Slot : BeginPurge(s, f))
          /\ SF_vars(\E s \in Slot : slot[s].file = f /\ EraseObject(s))
          /\ SF_vars(\E s \in Slot : slot[s].file = f /\ PurgeRecord(s))
          /\ WF_vars(DropTombstone(f))
          /\ WF_vars(ReconcileOrphan(f))
          /\ WF_vars(ReservationEnds(f))

FairSpec == Spec /\ Fairness

-----------------------------------------------------------------------------
(* Properties                                                              *)

Row == [status : FileStatus \cup {"absent", "gone"}, malware : FileMalwareStatus,
        attempts : 0..(AttemptBound + 1), reserved : BOOLEAN, uploaded : BOOLEAN,
        deleted : BOOLEAN, purgeAfter : {"none", "ahead", "due"}]
SlotState == [pc : {"idle", "reserve", "target", "inspect", "complete", "erase", "tombstone",
                    "softDelete", "restore", "scan"},
              file : File \cup {None}, status : FileStatus \cup {"absent"},
              attempts : 0..AttemptBound]

\* Rows and slots hold values the code can write.
TypeOK ==
    /\ row \in [File -> Row]
    /\ object \in [File -> BOOLEAN]
    /\ url \in [File -> BOOLEAN]
    /\ slot \in [Slot -> SlotState]
    /\ torn \subseteq File /\ restored \subseteq File

\* No completion, deletion, restore or scan result that was decided before a
\* purge brings the row back after it.
PurgeIsFinal ==
    [][\A f \in File : row[f].status = "PURGED" => row'[f].status \in {"PURGED", "gone"}]_vars

\* Concurrent initiations never hold more reservations than the limit.
ReservationsBounded == Cardinality(ActiveReservations) <= MaxReservations

\* A file the API shows as uploaded has its object, except while (or after a
\* crash while) a deletion is between the object and the row.
AvailableHasObject ==
    \A f \in File : row[f].status \in {"SCANNING", "READY", "DELETED"} /\ ~object[f] =>
        f \in torn \/ \E s \in Slot : slot[s].pc = "tombstone" /\ slot[s].file = f

\* A file whose retention is over does not stay so: it is purged (or a restore
\* that was under way brings it back).
Due(f) == row[f].status \in {"DELETED", "REJECTED", "FAILED"} /\ row[f].purgeAfter = "due"
DueFilesArePurged == \A f \in File : Due(f) ~> ~Due(f)

\* Bytes that arrive after their file was purged do not stay in the bucket.
LateUploadsAreErased ==
    \A f \in File : row[f].status = "PURGED" /\ object[f] ~> ~object[f]

\* However scans, completions, deletions and purges of a file overlap, it becomes
\* downloadable without a clean result only by a restore, which takes every
\* result that is not PENDING for good.
OnlyRestoredIsUnclean ==
    ScannerEnabled =>
        \A f \in File : row[f].status = "READY" => row[f].malware = "CLEAN" \/ f \in restored

\* What is offered has its bytes, and only a restored file is offered without having passed its
\* scan, whatever a scan, a completion or a deletion that overlaps another one writes by id.
FilesConsistent == TypeOK /\ AvailableHasObject /\ OnlyRestoredIsUnclean

\* ADR 0010: "Only a clean result becomes downloadable."
OnlyCleanIsDownloadable ==
    ScannerEnabled => \A f \in File : row[f].status = "READY" => row[f].malware = "CLEAN"

\* ADR 0010: the plan's number of files, counting active reservations, scanning,
\* ready and recoverable files.
QuotaHolds == Cardinality(CountedFiles) <= MaxFiles
=============================================================================
