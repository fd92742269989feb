------------------------------ MODULE Uploader ------------------------------
(***************************************************************************)
(* use-file-uploader.ts and the dialog that drives it: the upload of a     *)
(* file is a chain of awaits (hash, reserve, transfer, complete, refresh   *)
(* the list), and the user may cancel, retry, close the dialog or go to    *)
(* another organization at any of them.  Each of these begins a new        *)
(* operation; what an older one still has under way finds out, at its next *)
(* step, that it is no longer current.                                     *)
(*                                                                         *)
(* An upload is named by the operation that started it, and so are its     *)
(* reservation on the server and the context object that a retry continues *)
(* with.  What the server does of it is FilesService reduced to the two    *)
(* calls of the client and the malware scan that may follow them; nobody   *)
(* deletes a file.                                                         *)
(***************************************************************************)
EXTENDS Naturals, FiniteSets

CONSTANTS Organization,
          None,
          MaxOperations,  \* bound: operations begun
          MaxInfected     \* bound: files that fail their scan

ASSUME MaxOperationsAssumption == MaxOperations \in Nat /\ MaxInfected \in Nat

Operation == 1..MaxOperations

ASSUME NoneAssumption == None \notin Operation

VARIABLES operation,     \* operation.current
          organization,  \* organizationId, the prop
          task,          \* what the dialog shows
          context,       \* context.current: the upload a retry continues with
          transfer,      \* transfer.current: the operation whose transfer it is
          transferred,   \* of each context object
          run,           \* the chain of awaits of each operation
          upload,        \* of each upload: its organization and the first attempt at the file
          row, object,   \* the server: the reservation, and the bytes in the bucket
          age,           \* of each reservation: see Expire
          late           \* history: a success was shown after a newer operation had begun

vars == <<operation, organization, task, context, transfer, transferred, run, upload,
          row, object, age, late>>
server == <<row, object>>

ActivePhase == {"hashing", "reserving", "uploading", "finalizing"}
Phase == ActivePhase \cup {"success", "error", "canceled"}

\* The task of upload u, as operation o left it.
Show(phase, u, o) == [phase |-> phase, of |-> u, by |-> o]
NoTask == Show("none", None, None)

\* The chain of operation o is at pc, for upload u.
At(pc, u) == [pc |-> pc, of |-> u]
Idle == At("idle", None)
Ended == At("ended", None)
StartPc == {"hashing", "reserving", "reserved"}  \* before continueUpload
AwaitPc == ActivePhase \cup {"reserved", "completed", "refused", "refreshing"}

Init ==
    /\ operation = 0
    /\ organization \in Organization
    /\ task = NoTask /\ context = None /\ transfer = None
    /\ transferred = [o \in Operation |-> FALSE]
    /\ run = [o \in Operation |-> Idle]
    /\ upload = [o \in Operation |-> [organization |-> None, first |-> None]]
    /\ row = [o \in Operation |-> "none"]
    /\ object = [o \in Operation |-> FALSE]
    /\ age = [o \in Operation |-> 0]
    /\ late = FALSE

IsCurrent(o) == operation = o

\* The target of upload u, and the reservation, have expired.
TargetExpired(u) == age[u] >= 1
ReservationExpired(u) == age[u] >= 2
Resumable == context # None /\ ~TargetExpired(context)

\* Every action on the uploader begins an operation.
NextOperation == operation + 1
BeginOperation == operation < MaxOperations /\ operation' = NextOperation

\* transfer.current?.cancel(): the promise rejects, and the chain that waits for
\* it, which is not current any more, ends.
Aborted == [o \in Operation |-> IF o = transfer /\ run[o].pc = "uploading" THEN Ended ELSE run[o]]

-----------------------------------------------------------------------------
(* continueUpload                                                          *)

\* Its first part, up to an await: runs0 are the chains as the caller leaves them.
Continue(o, u, runs0) ==
    \/ /\ ~transferred[u] /\ ~TargetExpired(u)
       /\ task' = Show("uploading", u, o)
       /\ run' = [runs0 EXCEPT ![o] = At("uploading", u)]
       /\ transfer' = o
    \/ /\ ~transferred[u] /\ TargetExpired(u)
       /\ task' = Show("error", u, o)
       /\ run' = [runs0 EXCEPT ![o] = Ended]
       /\ transfer' = None
    \/ /\ transferred[u]
       /\ task' = Show("finalizing", u, o)
       /\ run' = [runs0 EXCEPT ![o] = At("finalizing", u)]
       /\ UNCHANGED transfer

\* Bug: what is not an error of the API is not shown.
FailSilently(o) ==
    /\ run' = [run EXCEPT ![o] = Ended]
    /\ transfer' = IF IsCurrent(o) /\ run[o].pc \notin StartPc THEN None ELSE transfer
    /\ UNCHANGED task

\* An await of operation o fails: an error is shown, unless it is superseded.
Fail(o) ==
    /\ run' = [run EXCEPT ![o] = Ended]
    /\ task' = IF IsCurrent(o) THEN Show("error", run[o].of, o) ELSE task
    /\ transfer' = IF IsCurrent(o) /\ run[o].pc \notin StartPc THEN None ELSE transfer

\* Bug: the upload is over when its bytes are sent.
TransferredIsDone(o) ==
    /\ run[o].pc = "uploading" /\ object[run[o].of]
    /\ transferred' = [transferred EXCEPT ![run[o].of] = TRUE]
    /\ run' = [run EXCEPT ![o] = IF IsCurrent(o) THEN At("refreshing", @.of) ELSE Ended]
    /\ UNCHANGED <<operation, organization, task, context, transfer, upload, server, age, late>>

\* The request of the transfer is answered: all the bytes are in the bucket.
Transferred(o) ==
    LET u == run[o].of IN
    /\ run[o].pc = "uploading" /\ object[u]
    /\ transferred' = [transferred EXCEPT ![u] = TRUE]
    /\ IF IsCurrent(o)
       THEN task' = Show("finalizing", u, o) /\ run' = [run EXCEPT ![o] = At("finalizing", u)]
       ELSE run' = [run EXCEPT ![o] = Ended] /\ UNCHANGED task
    /\ UNCHANGED <<operation, organization, context, transfer, upload, server, age, late>>

\* Bug: the answer is not compared with the current operation.
CompleteAnsweredAnyway(o) ==
    /\ run[o].pc \in {"completed", "refused"}
    /\ IF run[o].pc = "completed"
       THEN run' = [run EXCEPT ![o].pc = "refreshing"] /\ UNCHANGED <<task, transfer>>
       ELSE /\ run' = [run EXCEPT ![o] = Ended]
            /\ task' = Show("error", run[o].of, o)
            /\ transfer' = None
    /\ UNCHANGED <<operation, organization, context, transferred, upload, server, age, late>>

\* completeUpload is answered.
CompleteAnswered(o) ==
    /\ \/ /\ run[o].pc = "completed"
          /\ run' = [run EXCEPT ![o] = IF IsCurrent(o) THEN At("refreshing", @.of) ELSE Ended]
          /\ UNCHANGED <<task, transfer>>
       \/ run[o].pc = "refused" /\ Fail(o)
    /\ UNCHANGED <<operation, organization, context, transferred, upload, server, age, late>>

\* The list is fetched again: the upload is shown as a success, whoever is current.
Refreshed(o) ==
    /\ run[o].pc = "refreshing"
    /\ context' = None
    /\ task' = Show("success", run[o].of, o)
    /\ run' = [run EXCEPT ![o] = Ended]
    /\ transfer' = IF IsCurrent(o) THEN None ELSE transfer
    /\ late' = (late \/ ~IsCurrent(o))
    /\ UNCHANGED <<operation, organization, transferred, upload, server, age>>

-----------------------------------------------------------------------------
(* start                                                                   *)

\* start(file): the file is validated and hashed; first is the first attempt at
\* the file, of which a retry is another.
Begin(first) ==
    LET o == NextOperation IN
    /\ BeginOperation
    /\ context' = None
    /\ upload' = [upload EXCEPT ![o] = [organization |-> organization, first |-> first]]
    /\ \/ task' = Show("hashing", o, o) /\ run' = [Aborted EXCEPT ![o] = At("hashing", o)]
       \/ task' = Show("error", o, o) /\ run' = [Aborted EXCEPT ![o] = Ended]
    /\ UNCHANGED <<organization, transfer, transferred, server, age, late>>

\* The user chooses a file; the dialog offers it when it shows no task.
Start == task = NoTask /\ Begin(NextOperation)

\* The file is hashed: initiateUpload is called.
Hashed(o) ==
    /\ run[o].pc = "hashing"
    /\ IF IsCurrent(o)
       THEN task' = Show("reserving", o, o) /\ run' = [run EXCEPT ![o] = At("reserving", o)]
       ELSE run' = [run EXCEPT ![o] = Ended] /\ UNCHANGED task
    /\ UNCHANGED <<operation, organization, context, transfer, transferred, upload, server,
                   age, late>>

\* Bug: the answer is not compared with the current operation.
ReservedAnyway(o) ==
    /\ run[o].pc = "reserved"
    /\ context' = o
    /\ Continue(o, o, run)
    /\ UNCHANGED <<operation, organization, transferred, upload, server, age, late>>

\* The reservation arrives, and the upload goes on.
Reserved(o) ==
    /\ run[o].pc = "reserved"
    /\ IF IsCurrent(o)
       THEN context' = o /\ Continue(o, o, run)
       ELSE run' = [run EXCEPT ![o] = Ended] /\ UNCHANGED <<context, task, transfer>>
    /\ UNCHANGED <<operation, organization, transferred, upload, server, age, late>>

-----------------------------------------------------------------------------
(* cancel, retry, reset                                                    *)

\* Bug: the context is dropped with the transfer.
CancelContext ==
    /\ task.phase \in ActivePhase
    /\ BeginOperation
    /\ run' = Aborted /\ transfer' = None /\ context' = None
    /\ task' = Show("canceled", task.of, NextOperation)
    /\ UNCHANGED <<organization, transferred, upload, server, age, late>>

\* cancel: the context stays, for a retry.
Cancel ==
    /\ task.phase \in ActivePhase
    /\ BeginOperation
    /\ run' = Aborted /\ transfer' = None
    /\ task' = Show("canceled", task.of, NextOperation)
    /\ UNCHANGED <<organization, context, transferred, upload, server, age, late>>

\* retry: on with the reservation, or from the start.
Retry ==
    /\ task.phase \in {"error", "canceled"}
    /\ \/ /\ Resumable
          /\ BeginOperation
          /\ Continue(NextOperation, context, run)
          /\ UNCHANGED <<organization, context, transferred, upload, server, age, late>>
       \/ ~Resumable /\ Begin(upload[task.of].first)

ResetTo(org) ==
    /\ BeginOperation
    /\ run' = Aborted
    /\ transfer' = None /\ context' = None /\ task' = NoTask
    /\ organization' = org
    /\ UNCHANGED <<transferred, upload, server, age, late>>

\* The dialog is closed, with or without a task under way.
Reset == task # NoTask /\ ResetTo(organization)

\* Bug: the effect that resets when the organization changes is missing.
SwitchQuietly(org) ==
    /\ org # organization
    /\ organization' = org
    /\ UNCHANGED <<operation, task, context, transfer, transferred, run, upload, server,
                   age, late>>

\* Another organization becomes the active one: the cleanup of the effect.
SwitchOrganization(org) == org # organization /\ ResetTo(org)

-----------------------------------------------------------------------------
(* The server and the network                                              *)

\* initiateUpload reserves; a refusal is AwaitFails.
InitiateUpload(o) ==
    /\ run[o].pc = "reserving"
    /\ row' = [row EXCEPT ![o] = "PENDING"]
    /\ run' = [run EXCEPT ![o].pc = "reserved"]
    /\ UNCHANGED <<operation, organization, task, context, transfer, transferred, upload, object,
                   age, late>>

\* The last byte reaches the bucket.
ObjectArrives(o) ==
    /\ run[o].pc = "uploading" /\ ~object[run[o].of]
    /\ object' = [object EXCEPT ![run[o].of] = TRUE]
    /\ UNCHANGED <<operation, organization, task, context, transfer, transferred, run, upload, row,
                   age, late>>

\* completeUpload: done already, or the object is validated and the file is
\* COMPLETED, that is READY, or SCANNING and then READY; it may be rejected, and what
\* is neither open nor completed is refused.
CompleteUpload(o) ==
    LET u == run[o].of
        open == row[u] = "PENDING" /\ ~ReservationExpired(u)
        done == row[u] = "COMPLETED"
        ends(status, pc) == /\ row' = [row EXCEPT ![u] = status]
                            /\ run' = [run EXCEPT ![o].pc = pc]
    IN
    /\ run[o].pc = "finalizing"
    /\ \/ (done \/ (open /\ object[u])) /\ ends("COMPLETED", "completed")
       \/ open /\ ends("REJECTED", "refused")
       \/ ~done /\ ~open /\ ends(row[u], "refused")
    /\ UNCHANGED <<operation, organization, task, context, transfer, transferred, upload, object,
                   age, late>>

\* processScans: a file that was SCANNING is infected, or cannot be scanned.
ScanFails(u) ==
    /\ row[u] = "COMPLETED"
    /\ Cardinality({v \in Operation : row[v] = "INFECTED"}) < MaxInfected
    /\ row' = [row EXCEPT ![u] = "INFECTED"]
    /\ UNCHANGED <<operation, organization, task, context, transfer, transferred, run, upload,
                   object, age, late>>

\* A call fails, or its answer is lost.
AwaitFails(o) ==
    /\ run[o].pc \in AwaitPc \ {"refreshing"}
    /\ Fail(o)
    /\ UNCHANGED <<operation, organization, context, transferred, upload, server, age, late>>

\* Bug: the row of a reservation that has ended is rejected, also of a file that is complete.
ExpireRow(u) ==
    /\ row[u] # "none" /\ age[u] < 2
    /\ age' = [age EXCEPT ![u] = @ + 1]
    /\ row' = IF age[u] = 1 THEN [row EXCEPT ![u] = "REJECTED"] ELSE row
    /\ UNCHANGED <<operation, organization, task, context, transfer, transferred, run, upload,
                   object, late>>

\* FILE_UPLOAD_URL_TTL_SECONDS pass, then FILE_RESERVATION_TTL_MS: the target
\* expires before the reservation does.
Expire(u) ==
    /\ row[u] # "none" /\ age[u] < 2
    /\ age' = [age EXCEPT ![u] = @ + 1]
    /\ UNCHANGED <<operation, organization, task, context, transfer, transferred, run, upload,
                   server, late>>

-----------------------------------------------------------------------------
\* The answers an operation waits for, and what it does with them.
Proceed(o) ==
    \/ Hashed(o) \/ Reserved(o) \/ Transferred(o) \/ CompleteAnswered(o) \/ Refreshed(o)
    \/ InitiateUpload(o) \/ ObjectArrives(o) \/ CompleteUpload(o)

Next ==
    \/ Start \/ Cancel \/ Retry \/ Reset
    \/ \E org \in Organization : SwitchOrganization(org)
    \/ \E o \in Operation : Proceed(o) \/ AwaitFails(o) \/ Expire(o) \/ ScanFails(o)

Spec == Init /\ [][Next]_vars

\* Every request settles: the browser answers it, or fails it.
FairSpec == Spec /\ \A o \in Operation : WF_vars(Proceed(o) \/ AwaitFails(o))

-----------------------------------------------------------------------------
(* Properties                                                              *)

\* The statuses of a file whose object completeUpload has validated.
ValidStatus == {"COMPLETED", "INFECTED"}
Validated(u) == row[u] \in ValidStatus

\* The uploader holds values the code can write.
TypeOK ==
    /\ operation \in 0..MaxOperations
    /\ organization \in Organization
    /\ task \in [phase : Phase \cup {"none"}, of : Operation \cup {None},
                 by : Operation \cup {None}]
    /\ context \in Operation \cup {None} /\ transfer \in Operation \cup {None}
    /\ transferred \in [Operation -> BOOLEAN]
    /\ run \in [Operation -> [pc : AwaitPc \cup {"idle", "ended"}, of : Operation \cup {None}]]
    /\ upload \in [Operation -> [organization : Organization \cup {None},
                                 first : Operation \cup {None}]]
    /\ row \in [Operation -> {"none", "PENDING", "REJECTED"} \cup ValidStatus]
    /\ object \in [Operation -> BOOLEAN]
    /\ age \in [Operation -> 0..2]
    /\ late \in BOOLEAN

\* "Upload complete" is shown, however late, only of a file whose bytes are in the
\* bucket and that the server has validated: a scan may still find it infected.
SuccessIsReal == task.phase = "success" => Validated(task.of) /\ object[task.of]

\* Bytes are sent for the current operation only, and it can abort them.
OneTransfer == \A o \in Operation : run[o].pc = "uploading" => IsCurrent(o) /\ transfer = o

\* What the current operation does, what a retry would continue and what the dialog
\* shows belong to the organization on the screen, but for a success of an older
\* operation, which may be of the organization that was.
WorkIsForOrganization ==
    /\ context # None => upload[context].organization = organization
    /\ operation # 0 /\ run[operation].pc \in AwaitPc =>
           upload[run[operation].of].organization = organization
    /\ (task # NoTask /\ upload[task.of].organization # organization) =>
           (task.phase = "success" /\ ~IsCurrent(task.by))

\* A success is true, at most one transfer is running, and nothing of another organization is
\* continued or, but for a late success, shown.
UploaderConsistent == TypeOK /\ SuccessIsReal /\ OneTransfer /\ WorkIsForOrganization

\* The dialog follows the current operation; only a success, shown after the
\* list was fetched, can come from an older one.
OnlySuccessComesLate == task # NoTask /\ ~IsCurrent(task.by) => task.phase = "success" /\ late

\* Cancel and retry as often as one likes: a file is stored twice only when the
\* target had expired before a retry, or a late success had dropped its context.
StoredTwiceHasCause ==
    \A u, v \in Operation :
        u # v /\ Validated(u) /\ Validated(v) /\ upload[u].first = upload[v].first =>
            TargetExpired(u) \/ TargetExpired(v) \/ late

\* An upload comes to an end the user can see.
UploadEnds == (task.phase \in ActivePhase) ~> (task.phase \notin ActivePhase)
=============================================================================
