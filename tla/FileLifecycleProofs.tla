------------------------- MODULE FileLifecycleProofs -------------------------
(***************************************************************************)
(* Theorems about FileLifecycle, for any sets of files and of requests and *)
(* maintenance jobs, any limits, with and without a scanner.               *)
(*                                                                         *)
(* An UPDATE by id may be based on anything its slot read long ago; what   *)
(* holds is what the check constraint and the order of the steps keep.     *)
(* The bytes of a file are gone only when somebody has erased them and is  *)
(* about to write the tombstone, or died there, or has written it          *)
(* (Backed).  That is kept for every row with uploadedAt, whatever its     *)
(* status, since a rejected or failed file can be soft-deleted by a slot   *)
(* that had read it before; and for a completion that has seen the bytes   *)
(* but not yet written its row.  Limits on reservations need that the      *)
(* advisory lock lets one slot decide at a time (OneDecides).              *)
(***************************************************************************)
EXTENDS FileLifecycle, FiniteSetTheorems, TLAPS

\* A slot at work names a file, except while it decides about a new one, and
\* restores only what was uploaded.
NamesFile(q) ==
    /\ q.pc \notin {"idle", "reserve"} => q.file \in File
    /\ q.pc = "restore" => q.status \in {"SCANNING", "READY"}
SlotsNameFiles == \A s \in Slot : NamesFile(slot[s])

Is(q, pc, f) == q.pc = pc /\ q.file = f
Final(f) == row[f].status \in {"PURGED", "gone"}
Backed(f) == object[f] \/ f \in torn \/ Final(f) \/ \E s \in Slot : Is(slot[s], "tombstone", f)

UploadedIsBacked == \A f \in File : row[f].uploaded => Backed(f)
CompletedIsBacked == \A f \in File, s \in Slot : Is(slot[s], "complete", f) => Backed(f)
AvailableIsUploaded ==
    \A f \in File : row[f].status \in {"SCANNING", "READY", "DELETED"} => row[f].uploaded

FInv == /\ TypeOK /\ SlotsNameFiles
        /\ UploadedIsBacked /\ CompletedIsBacked /\ AvailableIsUploaded /\ OnlyRestoredIsUnclean

\* Only the slot that holds the lock decides about a reservation, and it has seen room.
OneDecides ==
    /\ \A s, t \in Slot : slot[s].pc = "reserve" /\ slot[t].pc = "reserve" => s = t
    /\ (\E s \in Slot : slot[s].pc = "reserve") => Cardinality(ActiveReservations) < MaxReservations

BInv == FInv /\ IsFiniteSet(ActiveReservations) /\ OneDecides /\ ReservationsBounded

-----------------------------------------------------------------------------
(* What a step may do                                                      *)

Available == {"SCANNING", "READY", "DELETED"}

\* To the row of f: a tombstone is final, what is offered has uploadedAt, which
\* only a completion sets, and READY comes from a clean scan or a restore.
RowMoves(f, old, new, back) ==
    /\ old.status = "PURGED" => new.status \in {"PURGED", "gone"}
    /\ old.status = "gone" => new.status = "gone"
    /\ new.status \in Available => new.uploaded
    /\ new.uploaded => old.uploaded \/ \E s \in Slot : Is(slot[s], "complete", f)
    /\ ScannerEnabled /\ new.status = "READY" =>
           \/ new.malware = "CLEAN" \/ f \in back
           \/ old.status = "READY" /\ new.malware = old.malware
RowsMove(rows, back) ==
    rows \in [File -> Row] /\ \A f \in File : RowMoves(f, row[f], rows[f], back)

\* To the slots: a completion has seen the bytes, and a slot leaves the place
\* between the bytes and the row only with the tombstone written, or dead.
SlotsMove(slots, rows, t) ==
    /\ slots \in [Slot -> SlotState]
    /\ \A s \in Slot :
          /\ NamesFile(slots[s])
          /\ slots[s].pc = "complete" => slots[s] = slot[s] \/ object[slots[s].file]
          /\ slot[s].pc = "tombstone" => \/ slots[s] = slot[s] \/ slot[s].file \in t
                                         \/ rows[slot[s].file].status = "PURGED"

\* To the bytes: they go behind a slot that writes the tombstone next, or after it.
ObjectsMove(objects, slots) ==
    /\ objects \in [File -> BOOLEAN]
    /\ \A f \in File : object[f] => \/ objects[f] \/ row[f].status = "gone"
                                    \/ \E s \in Slot : Is(slots[s], "tombstone", f)

\* A row that stays moves.
LEMMA SameRow ==
    ASSUME FInv, NEW f \in File, NEW back, restored \subseteq back
    PROVE  RowMoves(f, row[f], row[f], back)
BY DEF FInv, AvailableIsUploaded, OnlyRestoredIsUnclean, RowMoves, Available

\* No row is written.
LEMMA SameRows == ASSUME FInv, NEW back, restored \subseteq back PROVE RowsMove(row, back)
BY SameRow DEF RowsMove, FInv, TypeOK

\* One row is written.
LEMMA OneRow ==
    ASSUME FInv, NEW f \in File, NEW new \in Row, NEW back, restored \subseteq back,
           RowMoves(f, row[f], new, back)
    PROVE  /\ RowsMove([row EXCEPT ![f] = new], back)
           /\ \A g \in File : [row EXCEPT ![f] = new][g] = IF g = f THEN new ELSE row[g]
<1>1. \A g \in File : [row EXCEPT ![f] = new][g] = IF g = f THEN new ELSE row[g]
  BY DEF FInv, TypeOK
<1>2. [row EXCEPT ![f] = new] \in [File -> Row]
  BY DEF FInv, TypeOK
<1> QED
  BY <1>1, <1>2, SameRow DEF RowsMove

\* No slot goes on.
LEMMA SameSlots ==
    ASSUME FInv, NEW rows, NEW t PROVE SlotsMove(slot, rows, t)
BY DEF FInv, TypeOK, SlotsNameFiles, SlotsMove

\* One slot goes on.
LEMMA OneSlot ==
    ASSUME FInv, NEW s \in Slot, NEW q \in SlotState, NamesFile(q), NEW rows, NEW t,
           q.pc = "complete" => object[q.file],
           slot[s].pc = "tombstone" => slot[s].file \in t \/ rows[slot[s].file].status = "PURGED"
    PROVE  /\ SlotsMove([slot EXCEPT ![s] = q], rows, t)
           /\ \A u \in Slot : [slot EXCEPT ![s] = q][u] = IF u = s THEN q ELSE slot[u]
<1>1. \A u \in Slot : [slot EXCEPT ![s] = q][u] = IF u = s THEN q ELSE slot[u]
  BY DEF FInv, TypeOK
<1>2. [slot EXCEPT ![s] = q] \in [Slot -> SlotState]
  BY DEF FInv, TypeOK
<1> QED
  BY <1>1, <1>2 DEF FInv, SlotsNameFiles, SlotsMove

\* No object is stored or erased.
LEMMA SameObjects == ASSUME FInv, NEW slots PROVE ObjectsMove(object, slots)
BY DEF FInv, TypeOK, ObjectsMove

\* Such a step keeps the invariant.
LEMMA BackedKept ==
    ASSUME FInv, RowsMove(row', restored'), SlotsMove(slot', row', torn'), ObjectsMove(object', slot'),
           torn \subseteq torn', NEW f \in File, Backed(f)
    PROVE  Backed(f)'
<1>1. Final(f) => Final(f)'
  BY DEF RowsMove, RowMoves, Final
<1>2. object[f] => Backed(f)'
  BY <1>1 DEF ObjectsMove, Backed, Final
<1>3. ASSUME NEW s \in Slot, Is(slot[s], "tombstone", f) PROVE Backed(f)'
  BY <1>3 DEF SlotsMove, Backed, Is, Final
<1> QED
  BY <1>1, <1>2, <1>3 DEF Backed

\* A step that moves rows, slots and objects as above keeps the invariant.
LEMMA FInvStep ==
    ASSUME FInv, RowsMove(row', restored'), SlotsMove(slot', row', torn'), ObjectsMove(object', slot'),
           url' \in [File -> BOOLEAN], torn \subseteq torn', torn' \subseteq File,
           restored \subseteq restored', restored' \subseteq File
    PROVE  FInv'
<1>1. TypeOK'
  BY DEF TypeOK, RowsMove, SlotsMove, ObjectsMove
<1>2. SlotsNameFiles'
  BY DEF SlotsNameFiles, NamesFile, SlotsMove
<1>3. UploadedIsBacked'
  <2> SUFFICES ASSUME NEW f \in File, row'[f].uploaded PROVE Backed(f)'
    BY DEF UploadedIsBacked
  <2>1. row[f].uploaded \/ \E s \in Slot : Is(slot[s], "complete", f)
    BY DEF RowsMove, RowMoves
  <2>2. Backed(f)
    BY <2>1 DEF FInv, UploadedIsBacked, CompletedIsBacked
  <2> QED
    BY <2>2, BackedKept
<1>4. CompletedIsBacked'
  <2> SUFFICES ASSUME NEW f \in File, NEW s \in Slot, Is(slot'[s], "complete", f) PROVE Backed(f)'
    BY DEF CompletedIsBacked, Is
  <2>1. Is(slot[s], "complete", f) \/ object[f]
    BY DEF SlotsMove, Is
  <2>2. Backed(f)
    BY <2>1 DEF FInv, CompletedIsBacked, Backed
  <2> QED
    BY <2>2, BackedKept
<1>5. AvailableIsUploaded'
  BY DEF AvailableIsUploaded, RowsMove, RowMoves, Available
<1>6. OnlyRestoredIsUnclean'
  BY DEF FInv, OnlyRestoredIsUnclean, RowsMove, RowMoves
<1> QED
  BY <1>1, <1>2, <1>3, <1>4, <1>5, <1>6 DEF FInv

-----------------------------------------------------------------------------
(* Every step moves like that                                              *)

StepMoves ==
    /\ RowsMove(row', restored') /\ SlotsMove(slot', row', torn') /\ ObjectsMove(object', slot')
    /\ url' \in [File -> BOOLEAN]
    /\ torn \subseteq torn' /\ torn' \subseteq File
    /\ restored \subseteq restored' /\ restored' \subseteq File

\* What At makes.
LEMMA AtType ==
    ASSUME NEW pc \in {"idle", "reserve", "target", "inspect", "complete", "erase", "tombstone",
                       "softDelete", "restore", "scan"},
           NEW f \in File \cup {None}, NEW st \in FileStatus \cup {"absent"},
           NEW n \in 0..AttemptBound
    PROVE  /\ At(pc, f, st, n) \in SlotState
           /\ At(pc, f, st, n).pc = pc /\ At(pc, f, st, n).file = f
           /\ At(pc, f, st, n).status = st /\ At(pc, f, st, n).attempts = n
BY DEF At, SlotState

\* A slot that is free.
LEMMA IdleType == IdleSlot \in SlotState /\ NamesFile(IdleSlot) /\ IdleSlot.pc = "idle"
<1>1. 0 \in 0..AttemptBound
  BY LimitsAssumption
<1> QED
  BY <1>1, AtType DEF IdleSlot, NamesFile

\* What a slot carries to its next step.
LEMMA GotoType ==
    ASSUME NEW pc \in {"reserve", "target", "inspect", "complete", "erase", "tombstone", "softDelete"},
           NEW f \in File \cup {None}, f = None => pc = "reserve"
    PROVE  /\ At(pc, f, "absent", 0) \in SlotState /\ NamesFile(At(pc, f, "absent", 0))
           /\ At(pc, f, "absent", 0).pc = pc /\ At(pc, f, "absent", 0).file = f
<1>1. 0 \in 0..AttemptBound
  BY LimitsAssumption
<1>2. /\ At(pc, f, "absent", 0) \in SlotState
      /\ At(pc, f, "absent", 0).pc = pc /\ At(pc, f, "absent", 0).file = f
  BY <1>1, AtType
<1> QED
  BY <1>2 DEF NamesFile

\* A slot goes on and writes no row.
LEMMA SlotStep ==
    ASSUME FInv, NEW s \in Slot, NEW q \in SlotState, NamesFile(q), slot' = [slot EXCEPT ![s] = q],
           q.pc = "complete" => object[q.file], slot[s].pc # "tombstone",
           UNCHANGED <<row, object, history>>, url' \in [File -> BOOLEAN]
    PROVE  StepMoves
<1>1. RowsMove(row', restored')
  BY SameRows DEF history
<1>2. SlotsMove(slot', row', torn')
  BY OneSlot
<1>3. ObjectsMove(object', slot')
  BY SameObjects
<1>4. torn' = torn /\ restored' = restored /\ torn \subseteq File /\ restored \subseteq File
  BY DEF history, FInv, TypeOK
<1> QED
  BY <1>1, <1>2, <1>3, <1>4 DEF StepMoves

\* A slot writes the row of its file and ends.
LEMMA WriteStep ==
    ASSUME FInv, NEW s \in Slot, NEW f \in File, NEW new \in Row, row' = [row EXCEPT ![f] = new],
           RowMoves(f, row[f], new, restored'), Finish(s),
           slot[s].pc = "tombstone" => slot[s].file = f /\ new.status = "PURGED",
           UNCHANGED <<object, url, torn>>, restored' \subseteq restored \cup {f},
           restored \subseteq restored'
    PROVE  StepMoves
<1>1. RowsMove(row', restored') /\ row'[f] = new
  BY OneRow
<1>2. SlotsMove(slot', row', torn')
  BY <1>1, OneSlot, IdleType DEF Finish
<1>3. ObjectsMove(object', slot')
  BY SameObjects
<1>4. url' \in [File -> BOOLEAN] /\ torn' = torn /\ torn \subseteq File /\ restored' \subseteq File
  BY DEF FInv, TypeOK
<1> QED
  BY <1>1, <1>2, <1>3, <1>4 DEF StepMoves

\* UPDATE by id: what the constraint lets through.
LEMMA UpdateMoves ==
    ASSUME FInv, NEW f \in File, NEW new \in Row, NEW back,
           row[f].status \in FileStatus, LifecycleCheck(row[f], new),
           new.uploaded => row[f].uploaded \/ \E s \in Slot : Is(slot[s], "complete", f),
           ScannerEnabled /\ new.status = "READY" => new.malware = "CLEAN" \/ f \in back
    PROVE  RowMoves(f, row[f], new, back)
BY DEF LifecycleCheck, RowMoves, FileStatus, Available

\* Every file has a row of the table, absent or not.
LEMMA RowType == ASSUME FInv, NEW f \in File PROVE row[f] \in Row
BY DEF FInv, TypeOK

\* Steps of the handlers that write no row.
LEMMA ReadsMove ==
    ASSUME FInv, NEW s \in Slot,
           \/ BeginInitiate(s) \/ CreateUploadTarget(s) \/ InspectObject(s)
           \/ \E f \in File : \/ BeginComplete(s, f) \/ BeginDelete(s, f) \/ BeginRestore(s, f)
                              \/ BeginScan(s, f) \/ BeginPurge(s, f)
    PROVE  StepMoves
<1>0. TypeOK /\ NamesFile(slot[s])
  BY DEF FInv, SlotsNameFiles
<1>u. url \in [File -> BOOLEAN]
  BY <1>0 DEF TypeOK
<1>1. CASE BeginInitiate(s)
  BY <1>1, <1>u, GotoType, NoneAssumption, SlotStep DEF BeginInitiate, Goto, IsIdle
<1>2. CASE CreateUploadTarget(s)
  <2>1. url' \in [File -> BOOLEAN] /\ slot' = [slot EXCEPT ![s] = IdleSlot]
        /\ UNCHANGED <<row, object, history>> /\ slot[s].pc # "tombstone"
    BY <1>2, <1>u DEF CreateUploadTarget, Finish
  <2> QED
    BY <2>1, IdleType, SlotStep
<1>3. CASE InspectObject(s)
  <2>1. slot[s].file \in File /\ object[slot[s].file]
    BY <1>0, <1>3 DEF InspectObject, NamesFile
  <2> QED
    BY <1>3, <1>u, <2>1, NoneAssumption, GotoType, SlotStep DEF InspectObject, Goto
<1>4. ASSUME NEW f \in File, BeginComplete(s, f) \/ BeginPurge(s, f) PROVE StepMoves
  BY <1>4, <1>u, NoneAssumption, GotoType, SlotStep DEF BeginComplete, BeginPurge, Goto, IsIdle
<1>5. ASSUME NEW f \in File, BeginDelete(s, f) PROVE StepMoves
  <2>1. slot' = [slot EXCEPT ![s] = At("erase", f, "absent", 0)]
        \/ slot' = [slot EXCEPT ![s] = At("softDelete", f, "absent", 0)]
    BY <1>5 DEF BeginDelete, Goto
  <2>2. slot[s].pc = "idle" /\ UNCHANGED <<row, object, url, history>>
    BY <1>5 DEF BeginDelete, IsIdle
  <2> QED
    BY <1>u, <2>1, <2>2, NoneAssumption, GotoType, SlotStep
<1>6. ASSUME NEW f \in File, BeginRestore(s, f) PROVE StepMoves
  <2>1. 0 \in 0..AttemptBound /\ "SCANNING" \in FileStatus /\ "READY" \in FileStatus
    BY LimitsAssumption DEF FileStatus
  <2>2. PICK st \in {"SCANNING", "READY"} : slot' = [slot EXCEPT ![s] = At("restore", f, st, 0)]
    BY <1>6 DEF BeginRestore
  <2>3. /\ At("restore", f, st, 0) \in SlotState /\ At("restore", f, st, 0).pc = "restore"
        /\ At("restore", f, st, 0).file = f /\ At("restore", f, st, 0).status = st
    BY <2>1, AtType
  <2>4. NamesFile(At("restore", f, st, 0))
    BY <2>3 DEF NamesFile
  <2> QED
    BY <1>6, <1>u, <2>2, <2>3, <2>4, SlotStep DEF BeginRestore, IsIdle
<1>7. ASSUME NEW f \in File, BeginScan(s, f) PROVE StepMoves
  <2>1. row[f].attempts \in 0..AttemptBound
    BY <1>7, RowType, LimitsAssumption DEF BeginScan, Row
  <2>2. PICK n \in 0..AttemptBound : n = row[f].attempts
    BY <2>1
  <2>3. /\ At("scan", f, "absent", n) \in SlotState /\ At("scan", f, "absent", n).pc = "scan"
        /\ At("scan", f, "absent", n).file = f
    BY AtType
  <2>4. NamesFile(At("scan", f, "absent", n))
    BY <2>3 DEF NamesFile
  <2> QED
    BY <1>7, <1>u, <2>2, <2>3, <2>4, SlotStep DEF BeginScan, IsIdle
<1> QED
  BY <1>1, <1>2, <1>3, <1>4, <1>5, <1>6, <1>7

\* The updates of requests and of the purge.
LEMMA UpdatesMove ==
    ASSUME FInv, NEW s \in Slot,
           \/ FailUploadTarget(s) \/ CompleteUpload(s) \/ RejectUpload(s)
           \/ SoftDelete(s) \/ RestoreFile(s) \/ PurgeRecord(s)
    PROVE  StepMoves
<1>0. slot[s].file \in File /\ slot[s] \in SlotState
  BY DEF FInv, TypeOK, SlotsNameFiles, NamesFile, FailUploadTarget, CompleteUpload, RejectUpload,
         SoftDelete, RestoreFile, PurgeRecord
<1>a. PICK f \in File : f = slot[s].file
  BY <1>0
<1>b. row[f] \in Row
  BY RowType
<1> USE <1>a, <1>b
<1>1. CASE FailUploadTarget(s)
  <2> DEFINE new == [row[f] EXCEPT !.status = "FAILED", !.purgeAfter = "due"]
  <2>1. new \in Row /\ new.uploaded = row[f].uploaded /\ new.status = "FAILED"
    BY DEF Row, FileStatus
  <2>2. /\ Update(f, new) /\ Finish(s) /\ UNCHANGED <<object, url, torn, restored>>
        /\ slot[s].pc = "target"
    BY <1>1 DEF FailUploadTarget, history
  <2> HIDE DEF new
  <2>3. RowMoves(f, row[f], new, restored')
    BY <2>1, <2>2, UpdateMoves DEF Update
  <2> QED
    BY <2>1, <2>2, <2>3, WriteStep DEF Update
<1>2. CASE CompleteUpload(s)
  <2>a. PICK st \in {"SCANNING", "READY"}, m \in {"PENDING", "NOT_REQUIRED"} :
           /\ st = IF ScannerEnabled THEN "SCANNING" ELSE "READY"
           /\ m = IF ScannerEnabled THEN "PENDING" ELSE "NOT_REQUIRED"
    OBVIOUS
  <2> DEFINE new == [row[f] EXCEPT !.uploaded = TRUE, !.status = st, !.malware = m]
  <2>b. new \in Row /\ new.status = st
    <3>1. st \in FileStatus /\ m \in FileMalwareStatus
      BY DEF FileStatus, FileMalwareStatus
    <3> QED
      BY <3>1 DEF Row
  <2>1. new \in Row /\ (ScannerEnabled => new.status # "READY")
    BY <2>a, <2>b
  <2>2. /\ Update(f, new) /\ Finish(s) /\ UNCHANGED <<object, url, torn, restored>>
        /\ slot[s].pc = "complete" /\ Is(slot[s], "complete", f)
    BY <1>2, <2>a DEF CompleteUpload, history, Is
  <2> HIDE DEF new
  <2>3. RowMoves(f, row[f], new, restored')
    BY <2>1, <2>2, UpdateMoves DEF Update
  <2> QED
    BY <2>1, <2>2, <2>3, WriteStep DEF Update
<1>3. CASE RejectUpload(s)
  <2> DEFINE new == [row[f] EXCEPT !.uploaded = TRUE, !.status = "REJECTED",
                                   !.malware = "UNSUPPORTED", !.purgeAfter = "ahead"]
  <2>1. new \in Row /\ new.status = "REJECTED"
    BY DEF Row, FileStatus, FileMalwareStatus
  <2>2. /\ Update(f, new) /\ Finish(s) /\ UNCHANGED <<object, url, torn, restored>>
        /\ slot[s].pc = "complete" /\ Is(slot[s], "complete", f)
    BY <1>3 DEF RejectUpload, history, Is
  <2> HIDE DEF new
  <2>3. RowMoves(f, row[f], new, restored')
    BY <2>1, <2>2, UpdateMoves DEF Update
  <2> QED
    BY <2>1, <2>2, <2>3, WriteStep DEF Update
<1>4. CASE SoftDelete(s)
  <2> DEFINE new == [row[f] EXCEPT !.status = "DELETED", !.deleted = TRUE, !.purgeAfter = "ahead"]
  <2>1. new \in Row /\ new.uploaded = row[f].uploaded /\ new.status = "DELETED"
    BY DEF Row, FileStatus
  <2>2. /\ Update(f, new) /\ Finish(s) /\ UNCHANGED <<object, url, torn, restored>>
        /\ slot[s].pc = "softDelete"
    BY <1>4 DEF SoftDelete, history
  <2> HIDE DEF new
  <2>3. RowMoves(f, row[f], new, restored')
    BY <2>1, <2>2, UpdateMoves DEF Update
  <2> QED
    BY <2>1, <2>2, <2>3, WriteStep DEF Update
<1>5. CASE RestoreFile(s)
  <2>a. PICK st \in FileStatus \cup {"absent"} : st = slot[s].status
    BY <1>0 DEF SlotState
  <2> DEFINE new == [row[f] EXCEPT !.status = st, !.deleted = FALSE, !.purgeAfter = "none"]
  <2>1. new \in Row /\ new.uploaded = row[f].uploaded
    BY DEF Row
  <2>2. /\ Update(f, new) /\ Finish(s) /\ UNCHANGED <<object, url, torn>>
        /\ slot[s].pc = "restore" /\ restored' = restored \cup {f}
    BY <1>5, <2>a DEF RestoreFile
  <2> HIDE DEF new
  <2>3. RowMoves(f, row[f], new, restored')
    BY <2>1, <2>2, UpdateMoves DEF Update
  <2> QED
    BY <2>1, <2>2, <2>3, WriteStep DEF Update
<1>6. CASE PurgeRecord(s)
  <2> DEFINE new == [row[f] EXCEPT !.status = "PURGED"]
  <2>1. new \in Row /\ new.uploaded = row[f].uploaded /\ new.status = "PURGED"
    BY DEF Row, FileStatus
  <2>2. Update(f, new) /\ Finish(s) /\ UNCHANGED <<object, url, torn, restored>>
    BY <1>6 DEF PurgeRecord, history
  <2> HIDE DEF new
  <2>3. RowMoves(f, row[f], new, restored')
    BY <2>1, <2>2, UpdateMoves DEF Update
  <2> QED
    BY <2>1, <2>2, <2>3, WriteStep DEF Update
<1> QED
  BY <1>1, <1>2, <1>3, <1>4, <1>5, <1>6

\* The results of a scan: written only to a row that is still SCANNING.
LEMMA ScanWrites ==
    ASSUME FInv, NEW s \in Slot, NEW f \in File, f = slot[s].file, slot[s].pc = "scan",
           NEW new \in Row, ScanUpdate(s, new), new.uploaded = row[f].uploaded,
           new.status = "READY" => new.malware = "CLEAN"
    PROVE  StepMoves
<1>1. Finish(s) /\ UNCHANGED <<object, url, torn, restored>>
  BY DEF ScanUpdate, history
<1>2. CASE row[f].status = "SCANNING"
  <2>1. row' = [row EXCEPT ![f] = new] /\ row[f].uploaded
    BY <1>2 DEF ScanUpdate, FInv, AvailableIsUploaded
  <2>2. RowMoves(f, row[f], new, restored')
    BY <1>2, <2>1 DEF RowMoves
  <2> QED
    BY <1>1, <2>1, <2>2, WriteStep
<1>3. CASE row[f].status # "SCANNING"
  <2>1. row' = row
    BY <1>3 DEF ScanUpdate
  <2>2. url' \in [File -> BOOLEAN]
    BY <1>1 DEF FInv, TypeOK
  <2> QED
    BY <1>1, <2>1, <2>2, IdleType, SlotStep DEF Finish, history
<1> QED
  BY <1>2, <1>3

\* What a scan decides is written to a row that is still as the scan read it.
LEMMA ScansMove ==
    ASSUME FInv, NEW s \in Slot,
           \/ \E clean \in BOOLEAN : ScanVerdict(s, clean)
           \/ \E malware \in {"UNSUPPORTED", "FAILED"} : ScanInconclusive(s, malware)
           \/ \E timeout \in BOOLEAN : ScanError(s, timeout)
    PROVE  StepMoves
<1>0. slot[s].file \in File /\ slot[s] \in SlotState /\ slot[s].pc = "scan"
  BY DEF FInv, TypeOK, SlotsNameFiles, NamesFile, ScanVerdict, ScanInconclusive, ScanError
<1>a. PICK f \in File : f = slot[s].file
  BY <1>0
<1>b. PICK n \in 0..(AttemptBound + 1) : n = slot[s].attempts + 1
  BY <1>0, LimitsAssumption DEF SlotState
<1>c. row[f] \in Row
  BY RowType
<1> DEFINE Good(new) == /\ new \in Row /\ new.uploaded = row[f].uploaded
                        /\ new.status = "READY" => new.malware = "CLEAN"
<1>1. ASSUME NEW new, Good(new), ScanUpdate(s, new) PROVE StepMoves
  BY <1>0, <1>1, <1>a, ScanWrites
<1>2. ASSUME NEW clean \in BOOLEAN, ScanVerdict(s, clean) PROVE StepMoves
  <2>1. Good([row[f] EXCEPT !.status = "READY", !.malware = "CLEAN"])
    BY <1>c DEF Row, FileStatus, FileMalwareStatus
  <2>2. Good([row[f] EXCEPT !.status = "REJECTED", !.malware = "INFECTED", !.purgeAfter = "due"])
    BY <1>c DEF Row, FileStatus, FileMalwareStatus
  <2> HIDE DEF Good
  <2> QED
    BY <1>1, <1>2, <1>a, <2>1, <2>2 DEF ScanVerdict
<1>3. ASSUME NEW malware \in {"UNSUPPORTED", "FAILED"} PROVE Good(FailedScan(f, malware, n))
  BY <1>c DEF FailedScan, Row, FileStatus, FileMalwareStatus
<1>4. ASSUME row[f].status = "SCANNING", NEW malware \in {"UNSUPPORTED", "FAILED"}
      PROVE  /\ Good([row[f] EXCEPT !.attempts = n, !.malware = malware])
             /\ Good([row[f] EXCEPT !.attempts = n])
  BY <1>c, <1>4 DEF Row, FileMalwareStatus
<1>5. ASSUME row[f].status # "SCANNING",
             (\E malware \in {"UNSUPPORTED", "FAILED"} : ScanInconclusive(s, malware))
             \/ (\E timeout \in BOOLEAN : ScanError(s, timeout))
      PROVE  StepMoves
  <2>1. Finish(s) /\ UNCHANGED <<row, object, url, history>>
    BY <1>5, <1>a DEF ScanInconclusive, ScanError, ScanUpdate
  <2>2. url' \in [File -> BOOLEAN]
    BY <2>1 DEF FInv, TypeOK
  <2> QED
    BY <1>0, <2>1, <2>2, IdleType, SlotStep DEF Finish
<1> HIDE DEF Good
<1>6. ASSUME row[f].status = "SCANNING", NEW malware \in {"UNSUPPORTED", "FAILED"},
             ScanInconclusive(s, malware)
      PROVE  StepMoves
  BY <1>1, <1>3, <1>4, <1>6, <1>a, <1>b DEF ScanInconclusive
<1>7. ASSUME row[f].status = "SCANNING", NEW timeout \in BOOLEAN, ScanError(s, timeout)
      PROVE  StepMoves
  BY <1>1, <1>3, <1>4, <1>7, <1>a, <1>b DEF ScanError
<1> QED
  BY <1>2, <1>5, <1>6, <1>7

\* A row is reserved.
LEMMA ReserveMoves == ASSUME FInv, NEW s \in Slot, NEW f \in File, ReserveUpload(s, f) PROVE StepMoves
<1>1. PendingRow \in Row /\ PendingRow.status = "PENDING" /\ PendingRow.uploaded = FALSE
  <2>1. 0 \in 0..(AttemptBound + 1)
    BY LimitsAssumption
  <2>2. PICK m \in FileMalwareStatus : m = IF ScannerEnabled THEN "PENDING" ELSE "NOT_REQUIRED"
    BY DEF FileMalwareStatus
  <2>3. PendingRow = [AbsentRow EXCEPT !.status = "PENDING", !.reserved = TRUE, !.malware = m]
    BY <2>2 DEF PendingRow
  <2>4. AbsentRow \in Row /\ AbsentRow.uploaded = FALSE
    BY <2>1 DEF AbsentRow, Row, FileMalwareStatus
  <2> QED
    BY <2>3, <2>4 DEF Row, FileStatus
<1>2. RowMoves(f, row[f], PendingRow, restored)
  BY <1>1 DEF RowMoves, ReserveUpload, Available
<1>3. RowsMove(row', restored)
  BY <1>1, <1>2, OneRow DEF ReserveUpload
<1>4. SlotsMove(slot', row', torn)
  BY NoneAssumption, GotoType, OneSlot DEF ReserveUpload, Goto
<1>5. UNCHANGED <<object, url, torn, restored>>
  BY DEF ReserveUpload, history
<1> QED
  BY <1>3, <1>4, <1>5, SameObjects DEF StepMoves, FInv, TypeOK

\* The bytes are erased by a slot that writes the tombstone next.
LEMMA EraseMoves == ASSUME FInv, NEW s \in Slot, EraseObject(s) PROVE StepMoves
<1>1. slot[s].file \in File /\ slot[s].pc = "erase"
  BY DEF EraseObject, FInv, SlotsNameFiles, NamesFile
<1>2. PICK f \in File : f = slot[s].file
  BY <1>1
<1>3. UNCHANGED <<row, url, torn, restored>>
  BY DEF EraseObject, history
<1>4. PICK q \in SlotState : /\ NamesFile(q) /\ q.pc = "tombstone" /\ q.file = f
                             /\ q = At("tombstone", f, "absent", 0)
  BY NoneAssumption, GotoType
<1>5. slot' = [slot EXCEPT ![s] = q]
  BY <1>2, <1>4 DEF EraseObject, Goto
<1>6. SlotsMove(slot', row', torn') /\ slot'[s] = q
  <2>1. slot[s].pc # "tombstone" /\ q.pc # "complete"
    BY <1>1, <1>4
  <2>2. SlotsMove([slot EXCEPT ![s] = q], row', torn') /\ [slot EXCEPT ![s] = q][s] = q
    BY <1>4, <2>1, OneSlot
  <2> QED
    BY <1>5, <2>2
<1>7. ObjectsMove(object', slot')
  <2>1. object' \in [File -> BOOLEAN] /\ \A g \in File : g # f => object'[g] = object[g]
    BY <1>2 DEF EraseObject, FInv, TypeOK
  <2> QED
    BY <1>4, <1>6, <2>1 DEF ObjectsMove, Is
<1> QED
  BY <1>3, <1>6, <1>7, SameRows DEF StepMoves, FInv, TypeOK

\* A slot that dies between the bytes and the row is remembered.
LEMMA GiveUpMoves == ASSUME FInv, NEW s \in Slot, GiveUp(s) PROVE StepMoves
<1>1. UNCHANGED <<row, object, url, restored>> /\ Finish(s)
  BY DEF GiveUp
<1>2. slot[s].pc = "tombstone" => slot[s].file \in torn'
  BY DEF GiveUp
<1>3. torn \subseteq torn' /\ torn' \subseteq File
  BY DEF GiveUp, FInv, TypeOK, SlotsNameFiles, NamesFile
<1>4. SlotsMove(slot', row', torn')
  BY <1>1, <1>2, IdleType, OneSlot DEF Finish
<1> QED
  BY <1>1, <1>3, <1>4, SameRows, SameObjects DEF StepMoves, FInv, TypeOK

\* The client, the end of an audit retention, orphans and time.
LEMMA OthersMove ==
    ASSUME FInv, NEW f \in File,
           \/ Upload(f) \/ DropTombstone(f) \/ ReconcileOrphan(f)
           \/ ReservationEnds(f) \/ RetentionEnds(f)
    PROVE  StepMoves
<1>0. UNCHANGED <<slot, torn, restored>>
  BY DEF Upload, DropTombstone, ReconcileOrphan, ReservationEnds, RetentionEnds, history
<1>1. url' \in [File -> BOOLEAN]
  BY DEF Upload, DropTombstone, ReconcileOrphan, ReservationEnds, RetentionEnds, FInv, TypeOK
<1>2. SlotsMove(slot', row', torn')
  BY <1>0, SameSlots
<1>3. ObjectsMove(object', slot')
  BY <1>0 DEF Upload, DropTombstone, ReconcileOrphan, ReservationEnds, RetentionEnds, FInv, TypeOK,
              ObjectsMove
<1>4. RowsMove(row', restored)
  <2>0. row[f] \in Row
    BY RowType
  <2>1. CASE Upload(f) \/ ReconcileOrphan(f)
    BY <2>1, SameRows DEF Upload, ReconcileOrphan
  <2>2. CASE DropTombstone(f)
    <3> DEFINE new == [AbsentRow EXCEPT !.status = "gone"]
    <3>1. 0 \in 0..(AttemptBound + 1)
      BY LimitsAssumption
    <3>2. new \in Row /\ new.status = "gone" /\ new.uploaded = FALSE
      BY <3>1 DEF AbsentRow, Row, FileMalwareStatus
    <3>3. row' = [row EXCEPT ![f] = new]
      BY <2>2 DEF DropTombstone
    <3> HIDE DEF new
    <3>4. RowMoves(f, row[f], new, restored)
      BY <3>2 DEF RowMoves, Available
    <3> QED
      BY <3>2, <3>3, <3>4, OneRow
  <2>3. CASE ReservationEnds(f)
    <3> DEFINE new == [row[f] EXCEPT !.reserved = FALSE]
    <3>1. /\ new \in Row /\ new.status = row[f].status /\ new.uploaded = row[f].uploaded
          /\ new.malware = row[f].malware
      BY <2>0 DEF Row
    <3>2. row' = [row EXCEPT ![f] = new]
      BY <2>3 DEF ReservationEnds, FInv, TypeOK
    <3> HIDE DEF new
    <3>3. RowMoves(f, row[f], new, restored)
      BY <3>1, SameRow DEF RowMoves
    <3> QED
      BY <3>1, <3>2, <3>3, OneRow
  <2>4. CASE RetentionEnds(f)
    <3> DEFINE new == [row[f] EXCEPT !.purgeAfter = "due"]
    <3>1. /\ new \in Row /\ new.status = row[f].status /\ new.uploaded = row[f].uploaded
          /\ new.malware = row[f].malware
      BY <2>0 DEF Row
    <3>2. row' = [row EXCEPT ![f] = new]
      BY <2>4 DEF RetentionEnds, FInv, TypeOK
    <3> HIDE DEF new
    <3>3. RowMoves(f, row[f], new, restored)
      BY <3>1, SameRow DEF RowMoves
    <3> QED
      BY <3>1, <3>2, <3>3, OneRow
  <2> QED
    BY <2>1, <2>2, <2>3, <2>4
<1> QED
  BY <1>0, <1>1, <1>2, <1>3, <1>4 DEF StepMoves, FInv, TypeOK

\* Every step is of that form.
LEMMA NextMoves == FInv /\ [Next]_vars => StepMoves
<1> SUFFICES ASSUME FInv, [Next]_vars PROVE StepMoves
  OBVIOUS
<1>1. CASE UNCHANGED vars
  <2>1. UNCHANGED <<row, object, url, slot, torn, restored>>
    BY <1>1 DEF vars, history
  <2> QED
    BY <2>1, SameRows, SameSlots, SameObjects DEF StepMoves, FInv, TypeOK
<1>2. ASSUME NEW s \in Slot, Step(s) PROVE StepMoves
  BY <1>2, ReadsMove, UpdatesMove, ScansMove, EraseMoves, GiveUpMoves DEF Step
<1>3. ASSUME NEW s \in Slot, NEW f \in File,
             \/ ReserveUpload(s, f) \/ BeginComplete(s, f) \/ BeginDelete(s, f)
             \/ BeginRestore(s, f) \/ BeginScan(s, f) \/ BeginPurge(s, f)
      PROVE  StepMoves
  BY <1>3, ReadsMove, ReserveMoves
<1> QED
  BY <1>1, <1>2, <1>3, ReadsMove, OthersMove DEF Next

\* No file is there at first.
LEMMA InitFInv == Init => FInv
<1> SUFFICES ASSUME Init PROVE FInv
  OBVIOUS
<1>1. AbsentRow \in Row /\ AbsentRow.status = "absent" /\ AbsentRow.uploaded = FALSE
  <2>1. 0 \in 0..(AttemptBound + 1)
    BY LimitsAssumption
  <2> QED
    BY <2>1 DEF AbsentRow, Row, FileMalwareStatus
<1>2. (\A f \in File : row[f] = AbsentRow) /\ (\A s \in Slot : slot[s] = IdleSlot)
  BY DEF Init
<1>3. TypeOK
  BY <1>1, IdleType DEF Init, TypeOK
<1> QED
  BY <1>1, <1>2, <1>3, IdleType DEF FInv, SlotsNameFiles, UploadedIsBacked, CompletedIsBacked, Is,
                                    AvailableIsUploaded, OnlyRestoredIsUnclean

\* Every step keeps the invariant.
LEMMA NextFInv == FInv /\ [Next]_vars => FInv'
BY NextMoves, FInvStep DEF StepMoves

\* files.service.ts and file-maintenance.service.ts: however slots with stale
\* reads overlap, rows stay well formed, what is offered has its bytes (unless a
\* slot is between the bytes and the row, or died there), and with a scanner only
\* a restored file is READY without a clean result.
THEOREM FilesStayConsistent == Spec => []FilesConsistent
<1>1. FInv => FilesConsistent
  BY DEF FInv, FilesConsistent, AvailableHasObject, AvailableIsUploaded, UploadedIsBacked, Backed,
         Final, Is
<1> QED
  BY <1>1, InitFInv, NextFInv, PTL DEF Spec

\* stored_files_lifecycle_check: no update decided before a purge brings its row back.
THEOREM PurgeStaysFinal == Spec => PurgeIsFinal
<1> DEFINE Keeps == \A f \in File : row[f].status = "PURGED" => row'[f].status \in {"PURGED", "gone"}
<1>1. FInv /\ [Next]_vars => [Keeps]_vars
  BY NextMoves DEF StepMoves, RowsMove, RowMoves
<1>2. Spec => []FInv
  BY InitFInv, NextFInv, PTL DEF Spec
<1>3. Spec => [][Keeps]_vars
  BY <1>1, <1>2, PTL DEF Spec
<1> QED
  BY <1>3 DEF PurgeIsFinal

-----------------------------------------------------------------------------
(* Reservations                                                            *)

Reserved(r) == r.status = "PENDING" /\ r.reserved

\* Only the creation of a row makes a reservation.
NoneIsNew == \A f \in File : Reserved(row'[f]) => Reserved(row[f])

\* No transition of a file makes a reservation of it.
LEMMA UpdatesReserveNothing ==
    ASSUME FInv, NEW s \in Slot,
           \/ FailUploadTarget(s) \/ CompleteUpload(s) \/ RejectUpload(s)
           \/ SoftDelete(s) \/ RestoreFile(s) \/ PurgeRecord(s)
    PROVE  NoneIsNew
<1>1. PICK f \in File : f = slot[s].file
  BY DEF FInv, SlotsNameFiles, NamesFile, FailUploadTarget, CompleteUpload, RejectUpload,
         SoftDelete, RestoreFile, PurgeRecord
<1>2. row[f] \in Row /\ row \in [File -> Row]
  BY RowType DEF FInv, TypeOK
<1>3. ASSUME row'[f].status # "PENDING", \A g \in File : g # f => row'[g] = row[g] PROVE NoneIsNew
  BY <1>3 DEF NoneIsNew, Reserved
<1>4. \A g \in File : g # f => row'[g] = row[g]
  BY <1>1, <1>2 DEF FailUploadTarget, CompleteUpload, RejectUpload, SoftDelete, RestoreFile,
                    PurgeRecord, Update
<1>5. CASE FailUploadTarget(s)
  <2>1. row'[f].status # "PENDING"
    BY <1>1, <1>2, <1>5 DEF FailUploadTarget, Update, Row
  <2> QED
    BY <1>3, <1>4, <2>1
<1>6. CASE CompleteUpload(s)
  <2>1. row'[f].status # "PENDING"
    BY <1>1, <1>2, <1>6 DEF CompleteUpload, Update, Row
  <2> QED
    BY <1>3, <1>4, <2>1
<1>7. CASE RejectUpload(s)
  <2>1. row'[f].status # "PENDING"
    BY <1>1, <1>2, <1>7 DEF RejectUpload, Update, Row
  <2> QED
    BY <1>3, <1>4, <2>1
<1>8. CASE SoftDelete(s)
  <2>1. row'[f].status # "PENDING"
    BY <1>1, <1>2, <1>8 DEF SoftDelete, Update, Row
  <2> QED
    BY <1>3, <1>4, <2>1
<1>9. CASE PurgeRecord(s)
  <2>1. row'[f].status # "PENDING"
    BY <1>1, <1>2, <1>9 DEF PurgeRecord, Update, Row
  <2> QED
    BY <1>3, <1>4, <2>1
<1>10. CASE RestoreFile(s)
  <2>1. slot[s].status # "PENDING"
    BY <1>10 DEF RestoreFile, FInv, SlotsNameFiles, NamesFile
  <2>2. row'[f].status = slot[s].status
    BY <1>1, <1>2, <1>10 DEF RestoreFile, Update, Row
  <2> QED
    BY <1>3, <1>4, <2>1, <2>2
<1> QED
  BY <1>5, <1>6, <1>7, <1>8, <1>9, <1>10

\* Nor does a scan.
LEMMA ScansReserveNothing ==
    ASSUME FInv, NEW s \in Slot,
           \/ \E clean \in BOOLEAN : ScanVerdict(s, clean)
           \/ \E malware \in {"UNSUPPORTED", "FAILED"} : ScanInconclusive(s, malware)
           \/ \E timeout \in BOOLEAN : ScanError(s, timeout)
    PROVE  NoneIsNew
<1>1. PICK f \in File : f = slot[s].file
  BY DEF FInv, SlotsNameFiles, NamesFile, ScanVerdict, ScanInconclusive, ScanError
<1>2. row[f] \in Row /\ row \in [File -> Row]
  BY RowType DEF FInv, TypeOK
<1>3. \A g \in File : g # f => row'[g] = row[g]
  BY <1>1, <1>2 DEF ScanVerdict, ScanInconclusive, ScanError, ScanUpdate
<1>4. CASE row[f].status # "SCANNING"
  BY <1>1, <1>4 DEF ScanVerdict, ScanInconclusive, ScanError, ScanUpdate, NoneIsNew
<1>5. CASE row[f].status = "SCANNING"
  <2>1. ASSUME NEW clean \in BOOLEAN, ScanVerdict(s, clean) PROVE row'[f].status # "PENDING"
    BY <1>1, <1>2, <1>5, <2>1 DEF ScanVerdict, ScanUpdate, Row
  <2>2. ASSUME NEW malware \in {"UNSUPPORTED", "FAILED"}, ScanInconclusive(s, malware)
        PROVE  row'[f].status # "PENDING"
    BY <1>1, <1>2, <1>5, <2>2 DEF ScanInconclusive, ScanUpdate, FailedScan, Row
  <2>3. ASSUME NEW timeout \in BOOLEAN, ScanError(s, timeout) PROVE row'[f].status # "PENDING"
    BY <1>1, <1>2, <1>5, <2>3 DEF ScanError, ScanUpdate, FailedScan, Row
  <2> QED
    BY <1>3, <2>1, <2>2, <2>3 DEF NoneIsNew, Reserved
<1> QED
  BY <1>4, <1>5

\* Nor does the object store, the maintenance or time.
LEMMA OthersReserveNothing ==
    ASSUME FInv, NEW f \in File,
           \/ Upload(f) \/ DropTombstone(f) \/ ReconcileOrphan(f)
           \/ ReservationEnds(f) \/ RetentionEnds(f)
    PROVE  NoneIsNew
<1>1. row[f] \in Row /\ row \in [File -> Row]
  BY RowType DEF FInv, TypeOK
<1>2. CASE Upload(f) \/ ReconcileOrphan(f)
  BY <1>2 DEF Upload, ReconcileOrphan, NoneIsNew
<1>3. CASE DropTombstone(f)
  BY <1>1, <1>3 DEF DropTombstone, AbsentRow, NoneIsNew, Reserved
<1>4. CASE ReservationEnds(f)
  BY <1>1, <1>4 DEF ReservationEnds, Row, NoneIsNew, Reserved
<1>5. CASE RetentionEnds(f)
  BY <1>1, <1>5 DEF RetentionEnds, Row, NoneIsNew, Reserved
<1> QED
  BY <1>2, <1>3, <1>4, <1>5

\* Steps that keep the limit: no reservation is new and nobody begins to decide.
LEMMA LimitKept ==
    ASSUME BInv, NoneIsNew, \A s \in Slot : slot'[s].pc = "reserve" => slot[s].pc = "reserve"
    PROVE  IsFiniteSet(ActiveReservations)' /\ OneDecides' /\ ReservationsBounded'
<1>1. ActiveReservations' \subseteq ActiveReservations
  BY DEF NoneIsNew, ActiveReservations, Reserved
<1>2. /\ IsFiniteSet(ActiveReservations')
      /\ Cardinality(ActiveReservations') <= Cardinality(ActiveReservations)
      /\ Cardinality(ActiveReservations') \in Nat /\ Cardinality(ActiveReservations) \in Nat
  BY <1>1, FS_Subset, FS_CardinalityType DEF BInv
<1>3. ReservationsBounded'
  BY <1>2, LimitsAssumption DEF BInv, ReservationsBounded
<1>4. OneDecides'
  BY <1>2, LimitsAssumption DEF BInv, OneDecides
<1> QED
  BY <1>2, <1>3, <1>4

\* A slot takes the lock and sees room; or it makes the reservation and gives it back.
LEMMA DecisionKept ==
    ASSUME BInv, NEW s \in Slot, BeginInitiate(s) \/ \E f \in File : ReserveUpload(s, f)
    PROVE  IsFiniteSet(ActiveReservations)' /\ OneDecides' /\ ReservationsBounded'
<1>0. slot \in [Slot -> SlotState] /\ row \in [File -> Row]
  BY DEF BInv, FInv, TypeOK
<1>1. CASE BeginInitiate(s)
  <2>1. ActiveReservations' = ActiveReservations
    BY <1>1 DEF BeginInitiate, ActiveReservations
  <2>2. /\ Cardinality(ActiveReservations) < MaxReservations
        /\ \A t \in Slot : t # s => slot'[t].pc # "reserve"
    BY <1>0, <1>1 DEF BeginInitiate, Goto
  <2> QED
    BY <2>1, <2>2 DEF BInv, OneDecides, ReservationsBounded
<1>2. ASSUME NEW f \in File, ReserveUpload(s, f)
      PROVE  IsFiniteSet(ActiveReservations)' /\ OneDecides' /\ ReservationsBounded'
  <2>1. ActiveReservations' \subseteq ActiveReservations \cup {f}
    BY <1>0, <1>2 DEF ReserveUpload, ActiveReservations
  <2>2. Cardinality(ActiveReservations) < MaxReservations /\ Cardinality(ActiveReservations) \in Nat
    BY <1>2, FS_CardinalityType DEF ReserveUpload, BInv, OneDecides
  <2>3. /\ IsFiniteSet(ActiveReservations \cup {f})
        /\ Cardinality(ActiveReservations \cup {f}) <= MaxReservations
    <3>1. IsFiniteSet(ActiveReservations)
      BY DEF BInv
    <3>2. /\ IsFiniteSet(ActiveReservations \cup {f})
          /\ Cardinality(ActiveReservations \cup {f})
                 = IF f \in ActiveReservations THEN Cardinality(ActiveReservations)
                                               ELSE Cardinality(ActiveReservations) + 1
      BY <3>1, FS_AddElement
    <3> QED
      BY <2>2, <3>2, LimitsAssumption
  <2>4. /\ IsFiniteSet(ActiveReservations')
        /\ Cardinality(ActiveReservations') <= Cardinality(ActiveReservations \cup {f})
        /\ Cardinality(ActiveReservations') \in Nat /\ Cardinality(ActiveReservations \cup {f}) \in Nat
    BY <2>1, <2>3, FS_Subset, FS_CardinalityType
  <2>5. Cardinality(ActiveReservations') <= MaxReservations
    BY <2>3, <2>4, LimitsAssumption
  <2>6. \A t \in Slot : slot'[t].pc # "reserve"
    BY <1>0, <1>2 DEF ReserveUpload, Goto, At, BInv, OneDecides
  <2> QED
    BY <2>4, <2>5, <2>6 DEF OneDecides, ReservationsBounded
<1> QED
  BY <1>1, <1>2

\* Nothing is reserved at first.
LEMMA InitBInv == Init => BInv
<1> SUFFICES ASSUME Init PROVE BInv
  OBVIOUS
<1>1. ActiveReservations = {}
  BY DEF Init, ActiveReservations, AbsentRow
<1>2. IsFiniteSet(ActiveReservations) /\ Cardinality(ActiveReservations) = 0
  BY <1>1, FS_EmptySet
<1>3. \A s \in Slot : slot[s].pc = "idle"
  BY IdleType DEF Init
<1> QED
  BY <1>2, <1>3, InitFInv, LimitsAssumption DEF BInv, OneDecides, ReservationsBounded

\* Every step keeps the bound.
LEMMA NextBInv == BInv /\ [Next]_vars => BInv'
<1> SUFFICES ASSUME BInv, [Next]_vars
             PROVE  IsFiniteSet(ActiveReservations)' /\ OneDecides' /\ ReservationsBounded'
  BY NextFInv DEF BInv
<1>0. FInv /\ slot \in [Slot -> SlotState]
  BY DEF BInv, FInv, TypeOK
<1>1. CASE UNCHANGED vars
  BY <1>1, LimitKept DEF vars, NoneIsNew
<1>2. ASSUME NEW s \in Slot, Step(s)
      PROVE  IsFiniteSet(ActiveReservations)' /\ OneDecides' /\ ReservationsBounded'
  <2>1. NoneIsNew
    <3>1. CASE CreateUploadTarget(s) \/ InspectObject(s) \/ EraseObject(s) \/ GiveUp(s)
      BY <3>1 DEF CreateUploadTarget, InspectObject, EraseObject, GiveUp, NoneIsNew
    <3> QED
      BY <1>0, <1>2, <3>1, UpdatesReserveNothing, ScansReserveNothing DEF Step
  <2>2. Finish(s) \/ \E pc \in {"complete", "tombstone"} : Goto(s, pc, slot[s].file)
    BY <1>2 DEF Step, CreateUploadTarget, FailUploadTarget, InspectObject, CompleteUpload,
                RejectUpload, SoftDelete, RestoreFile, ScanVerdict, ScanInconclusive, ScanError,
                ScanUpdate, EraseObject, PurgeRecord, GiveUp
  <2>3. \A t \in Slot : slot'[t].pc = "reserve" => slot[t].pc = "reserve"
    <3>1. CASE Finish(s)
      BY <1>0, <3>1, IdleType DEF Finish
    <3>2. ASSUME NEW pc \in {"complete", "tombstone"}, Goto(s, pc, slot[s].file)
          PROVE  \A t \in Slot : slot'[t].pc = "reserve" => slot[t].pc = "reserve"
      BY <1>0, <3>2 DEF Goto, At
    <3> QED
      BY <2>2, <3>1, <3>2
  <2> QED
    BY <2>1, <2>3, LimitKept
<1>3. ASSUME NEW s \in Slot, NEW f \in File,
             \/ BeginComplete(s, f) \/ BeginDelete(s, f)
             \/ BeginRestore(s, f) \/ BeginScan(s, f) \/ BeginPurge(s, f)
      PROVE  IsFiniteSet(ActiveReservations)' /\ OneDecides' /\ ReservationsBounded'
  <2>1. NoneIsNew
    BY <1>3 DEF BeginComplete, BeginDelete, BeginRestore, BeginScan, BeginPurge, NoneIsNew
  <2>2. \A t \in Slot : slot'[t].pc = "reserve" => slot[t].pc = "reserve"
    BY <1>0, <1>3 DEF BeginComplete, BeginDelete, BeginRestore, BeginScan, BeginPurge, Goto, At
  <2> QED
    BY <2>1, <2>2, LimitKept
<1>4. ASSUME NEW f \in File,
             \/ Upload(f) \/ DropTombstone(f) \/ ReconcileOrphan(f)
             \/ ReservationEnds(f) \/ RetentionEnds(f)
      PROVE  IsFiniteSet(ActiveReservations)' /\ OneDecides' /\ ReservationsBounded'
  <2>1. UNCHANGED slot
    BY <1>4 DEF Upload, DropTombstone, ReconcileOrphan, ReservationEnds, RetentionEnds
  <2> QED
    BY <1>0, <1>4, <2>1, OthersReserveNothing, LimitKept
<1> QED
  BY <1>1, <1>2, <1>3, <1>4, DecisionKept DEF Next

\* initiateUpload decides under an advisory lock of the organization: concurrent
\* initiations never hold more reservations than
\* FILE_MAX_ACTIVE_RESERVATIONS_PER_ORGANIZATION.
THEOREM ReservationsStayBounded == Spec => []ReservationsBounded
<1>1. BInv => ReservationsBounded
  BY DEF BInv
<1> QED
  BY <1>1, InitBInv, NextBInv, PTL DEF Spec
=============================================================================
