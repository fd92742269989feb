-------------------------- MODULE UploaderProofs ----------------------------
(***************************************************************************)
(* Theorems about the two parts of a page that wait for answers while its  *)
(* user goes on: the file uploader (Uploader), for any organizations and   *)
(* any number of operations, and the active organization (Workspace), for  *)
(* any users, organizations and async functions under way.                 *)
(*                                                                         *)
(* What the uploader shows is consistent because a chain of awaits that    *)
(* was superseded is known to be so (TransferIsShown, OneUpload,           *)
(* CompletedIsValid).  That a file is stored twice only for a cause is a   *)
(* fact about every attempt at the file that may still be completed: the   *)
(* row of one whose chain was canceled may be completed by the server      *)
(* much later.  OnePromise states the property of all such attempts;       *)
(* AttemptsAreKnown, which a retry from the start rests on, says that      *)
(* those whose target lives are the context and the one being started.     *)
(*                                                                         *)
(* None of the three properties of Workspace is inductive.  That the cache *)
(* holds one organization rests on what a function that waits for canceled *)
(* queries remembers: the organization it will remove is still the active  *)
(* one, unless "crossed" says otherwise (WaitsForActive).  That a user     *)
(* signs out of everything rests on the same fact and on whom a recovery   *)
(* asks for (CallsAreSound).  That an organization is opened is a fact     *)
(* about the effect of OrganizationBootstrap, which runs again only when   *)
(* what it depends on changes: whenever it has run and no listed           *)
(* organization is active, an activation of a listed one is under way      *)
(* (Opening), and none becomes active and inactive again between two of    *)
(* its runs (NoUnseenOpening).                                             *)
(***************************************************************************)
EXTENDS Uploader, TLAPS

-----------------------------------------------------------------------------
(* Uploader: the inductive invariant                                       *)

\* The chain of operation o waits for something.
Active(o) == run[o].pc \in AwaitPc

\* What was begun: nothing of an operation is there before it begins, and what is under way,
\* shown or kept for a retry is an upload that has begun.
OnlyBegun ==
    /\ \A o \in Operation :
          /\ o > operation => ~Active(o) /\ row[o] = "none" /\ upload[o].first = None
          /\ Active(o) => run[o].of \in Operation /\ run[o].of <= operation
          /\ upload[o].first # None => upload[o].first <= o
    /\ task.phase # "none" => /\ task.of \in Operation /\ task.of <= operation
                              /\ task.by \in Operation /\ task.by <= operation
    /\ task.phase = "none" => task = NoTask
    /\ context # None => context <= operation

\* Until its reservation has arrived, an upload is known to its own operation alone.
StartsAlone ==
    \A o \in Operation : run[o].pc \in StartPc =>
        /\ run[o].of = o /\ row[o] \in {"none", "PENDING"} /\ context # o
        /\ \A d \in Operation : Active(d) /\ run[d].of = o => d = o

\* What a chain that was told of a completed upload holds has been validated, and what has is
\* in the bucket.
CompletedIsValid ==
    /\ \A o \in Operation :
           run[o].pc \in {"completed", "refreshing"} => row[run[o].of] \in ValidStatus
    /\ \A u \in Operation : row[u] \in ValidStatus => object[u]
    /\ SuccessIsReal

\* While bytes are sent the dialog offers no retry.
TransferIsShown ==
    \A o \in Operation : run[o].pc = "uploading" =>
        IsCurrent(o) /\ transfer = o /\ task.phase \in {"uploading", "success"}

\* The dialog, the chain of the current operation and the context are about one upload.
OneUpload ==
    /\ context # None => task.phase # "none" /\ task.of = context
    /\ \A o \in Operation : IsCurrent(o) /\ Active(o) =>
          /\ run[o].pc \in StartPc => context = None
          /\ context \in {None, run[o].of}
          /\ late \/ (task.phase \in ActivePhase /\ task.of = run[o].of)

\* An upload that has been validated, or may become so.
Promising(u) ==
    \/ row[u] \in ValidStatus
    \/ context = u
    \/ \E o \in Operation : /\ run[o].of = u
                            /\ \/ Active(o) /\ run[o].pc \notin StartPc
                               \/ IsCurrent(o) /\ run[o].pc \in StartPc

\* The promising attempts at the file on the screen: the one that a retry would continue
\* and the one that is being started; of any other the target has expired.
AttemptsAreKnown ==
    ~late /\ task.phase \notin {"none", "success"} =>
        \A u \in Operation : Promising(u) /\ upload[u].first = upload[task.of].first =>
            u = context \/ TargetExpired(u) \/ (IsCurrent(u) /\ run[u].pc \in StartPc)

\* Of two promising attempts at a file, the target of one has expired.
OnePromise ==
    \A u, v \in Operation :
        u # v /\ Promising(u) /\ Promising(v) /\ upload[u].first = upload[v].first =>
            TargetExpired(u) \/ TargetExpired(v) \/ late

\* The inductive invariant.
Inv ==
    /\ TypeOK /\ OnlyBegun /\ StartsAlone /\ CompletedIsValid /\ TransferIsShown
    /\ WorkIsForOrganization /\ OnlySuccessComesLate /\ OneUpload /\ AttemptsAreKnown /\ OnePromise

\* What a chain may hold, what the dialog may show and what a row may be.
RunType == [pc : AwaitPc \cup {"idle", "ended"}, of : Operation \cup {None}]
TaskType == [phase : Phase \cup {"none"}, of : Operation \cup {None}, by : Operation \cup {None}]
RowType == {"none", "PENDING", "REJECTED"} \cup ValidStatus

\* A chain that has ended waits for nothing.
LEMMA EndedWaitsForNothing ==
    /\ Ended \in RunType
    /\ Ended.pc \notin AwaitPc /\ Ended.pc \notin StartPc /\ Ended.pc # "uploading"
    /\ StartPc \subseteq AwaitPc /\ "uploading" \in AwaitPc \ StartPc
    /\ Idle.pc \notin AwaitPc
BY DEF Ended, Idle, At, RunType, AwaitPc, ActivePhase, StartPc

\* A step on the uploader ends the transfer and leaves the other chains as they are.
LEMMA AbortedEndsTransfers ==
    ASSUME Inv
    PROVE  /\ Aborted \in [Operation -> RunType]
           /\ \A d \in Operation : /\ Aborted[d] = run[d] \/ Aborted[d] = Ended
                                   /\ Aborted[d].pc # "uploading"
<1>1. run \in [Operation -> RunType]
  BY DEF Inv, TypeOK, RunType, RowType
<1>2. \A d \in Operation :
          Aborted[d] = IF d = transfer /\ run[d].pc = "uploading" THEN Ended ELSE run[d]
  BY DEF Aborted
<1>3. Aborted \in [Operation -> RunType]
  BY <1>1, EndedWaitsForNothing DEF Aborted
<1>4. \A d \in Operation : run[d].pc = "uploading" => transfer = d
  BY DEF Inv, TransferIsShown
<1> QED  BY <1>2, <1>3, <1>4, EndedWaitsForNothing

\* A new operation has a number that no chain, task or context has.
LEMMA NextIsNew ==
    ASSUME Inv, BeginOperation
    PROVE  /\ NextOperation \in Operation /\ operation' = NextOperation
           /\ NextOperation > operation /\ operation \in Nat
           /\ ~Active(NextOperation) /\ row[NextOperation] = "none"
           /\ upload[NextOperation].first = None
<1>1. NextOperation \in Operation /\ NextOperation > operation /\ operation \in Nat
  BY MaxOperationsAssumption DEF Inv, TypeOK, BeginOperation, NextOperation, Operation, RowType
<1> QED  BY <1>1 DEF Inv, OnlyBegun, BeginOperation, ValidStatus

\* The chains of the older operations, once a new one has begun: they end or go on as they were, and
\* none of them is current.
OldChains(n) ==
    /\ run' \in [Operation -> RunType]
    /\ \A d \in Operation : d # n =>
          /\ run'[d].pc # "uploading"
          /\ Active(d)' => Active(d) /\ run'[d] = run[d]
          /\ run'[d].pc \in StartPc => run[d].pc \in StartPc /\ run'[d] = run[d]

\* Such are the chains when one is added to those that an operation left or ended.
LEMMA OldChainsGoOn ==
    ASSUME Inv, NEW n \in Operation, NEW r \in RunType,
           NEW runs \in [Operation -> RunType], run' = [runs EXCEPT ![n] = r],
           \A d \in Operation : (runs[d] = run[d] \/ runs[d] = Ended) /\ runs[d].pc # "uploading"
    PROVE  OldChains(n) /\ run'[n] = r
<1>1. run' \in [Operation -> RunType]
  OBVIOUS
<1>2. run'[n] = r /\ \A d \in Operation : d # n => run'[d] = runs[d]
  OBVIOUS
<1> QED  BY <1>1, <1>2, EndedWaitsForNothing DEF OldChains, Active

\* start(file), for a new file and for another attempt at one: the invariant is kept if every
\* attempt at the file that may still succeed has lost its target.
LEMMA BeginKeeps ==
    ASSUME Inv, NEW first \in Operation \cup {None}, Begin(first),
           first # None => first <= NextOperation,
           \A u \in Operation : Promising(u) /\ upload[u].first = first => TargetExpired(u) \/ late
    PROVE  Inv'
<1> DEFINE n == NextOperation
<1>1. /\ n \in Operation /\ operation' = n /\ n > operation /\ operation \in Nat /\ ~Active(n)
      /\ row[n] = "none" /\ upload[n].first = None
  BY NextIsNew DEF Begin
<1>2. PICK r \in RunType : /\ run' = [Aborted EXCEPT ![n] = r]
                           /\ \/ r = At("hashing", n) /\ task' = Show("hashing", n, n)
                              \/ r = Ended /\ task' = Show("error", n, n)
  <2>1. At("hashing", n) \in RunType /\ Ended \in RunType
    BY <1>1 DEF At, Ended, RunType, AwaitPc, ActivePhase
  <2> QED  BY <2>1 DEF Begin
<1>3. OldChains(n) /\ run'[n] = r
  BY <1>1, <1>2, AbortedEndsTransfers, OldChainsGoOn
<1>4. /\ upload' = [upload EXCEPT ![n] = [organization |-> organization, first |-> first]]
      /\ context' = None /\ organization' = organization /\ transfer' = transfer
      /\ transferred' = transferred /\ row' = row /\ object' = object /\ age' = age /\ late' = late
  BY DEF Begin, server
<1>5. /\ task' \in TaskType /\ task'.of = n /\ task'.by = n
      /\ task'.phase \in {"hashing", "error"}
  BY <1>1, <1>2 DEF Show, TaskType, Phase, ActivePhase
<1>6. r.pc # "uploading" /\ r.pc \notin {"completed", "refreshing"}
      /\ (r.pc \in AwaitPc => r.of = n /\ r.pc \in StartPc /\ task'.phase = "hashing")
  BY <1>2, EndedWaitsForNothing DEF At, Ended, Show, StartPc
<1> HIDE DEF n
<1>7. TypeOK'
  <2>1. upload' \in [Operation -> [organization : Organization \cup {None},
                                    first : Operation \cup {None}]]
    BY <1>1, <1>4 DEF Inv, TypeOK, RowType
  <2>2. operation' \in 0..MaxOperations
    BY <1>1, MaxOperationsAssumption DEF Operation
  <2> QED  BY <1>3, <1>4, <1>5, <2>1, <2>2 DEF Inv, TypeOK, OldChains, RunType, TaskType, RowType
<1>8. OnlyBegun'
  <2>1. \A o \in Operation : o # n => upload'[o] = upload[o]
    BY <1>4 DEF Inv, TypeOK, RowType
  <2>2. upload'[n].first = first /\ (first # None => first <= n)
    BY <1>1, <1>4 DEF Inv, TypeOK, n, RowType
  <2>3. \A o \in Operation : o \in Nat
    BY MaxOperationsAssumption DEF Operation
  <2>4. ASSUME NEW o \in Operation
        PROVE  /\ o > n => ~Active(o)' /\ row[o] = "none" /\ upload'[o].first = None
               /\ Active(o)' => run'[o].of \in Operation /\ run'[o].of <= n
               /\ upload'[o].first # None => upload'[o].first <= o
    <3>1. CASE o = n
      BY <1>1, <1>3, <1>6, <2>2, <2>3, <3>1 DEF Active
    <3>2. CASE o # n
      BY <1>1, <1>3, <2>1, <2>3, <3>2 DEF OldChains, Inv, OnlyBegun, ValidStatus
    <3> QED  BY <3>1, <3>2
  <2> QED  BY <1>1, <1>4, <1>5, <2>3, <2>4 DEF OnlyBegun, ValidStatus
<1>9. StartsAlone'
  <2> SUFFICES ASSUME NEW o \in Operation, run'[o].pc \in StartPc
               PROVE  /\ run'[o].of = o /\ row[o] \in {"none", "PENDING"}
                      /\ \A d \in Operation : Active(d)' /\ run'[d].of = o => d = o
    BY <1>4, NoneAssumption DEF StartsAlone, ValidStatus
  <2>1. CASE o = n
    BY <1>1, <1>3, <1>6, <2>1, EndedWaitsForNothing DEF OldChains, Inv, OnlyBegun, Operation,
     ValidStatus
  <2>2. CASE o # n
    <3>1. /\ run'[o].of = o /\ row[o] \in {"none", "PENDING"}
          /\ \A d \in Operation : Active(d) /\ run[d].of = o => d = o
      BY <1>3, <2>2 DEF OldChains, Inv, StartsAlone, ValidStatus
    <3> QED  BY <1>3, <1>6, <2>2, <3>1 DEF OldChains, Active
  <2> QED  BY <2>1, <2>2
<1>10. CompletedIsValid'
  <2>1. \A o \in Operation :
             run'[o].pc \in {"completed", "refreshing"} => row[run'[o].of] \in ValidStatus
    <3>1. \A o \in Operation : run'[o].pc \in {"completed", "refreshing"} => o # n /\ Active(o)'
      BY <1>3, <1>6 DEF Active, AwaitPc
    <3> QED  BY <1>3, <3>1 DEF OldChains, Inv, CompletedIsValid
  <2> QED  BY <1>4, <1>5, <2>1 DEF Inv, CompletedIsValid, SuccessIsReal, Validated
<1>11. TransferIsShown'
  BY <1>3, <1>6 DEF OldChains, TransferIsShown
<1>12. WorkIsForOrganization'
  BY <1>1, <1>3, <1>4, <1>5, <1>6 DEF WorkIsForOrganization, Active, Inv, TypeOK, RowType
<1>13. OnlySuccessComesLate'
  BY <1>1, <1>5 DEF OnlySuccessComesLate, IsCurrent
<1>14. OneUpload'
  BY <1>1, <1>3, <1>4, <1>5, <1>6 DEF OneUpload, IsCurrent, Active, ActivePhase
<1>15. \A u \in Operation : Promising(u)' =>
           \/ u # n /\ Promising(u)
           \/ u = n /\ run'[n].pc \in StartPc
  <2> SUFFICES ASSUME NEW u \in Operation, Promising(u)'
               PROVE  (u # n /\ Promising(u)) \/ (u = n /\ run'[n].pc \in StartPc)
    OBVIOUS
  <2>1. CASE row[u] \in ValidStatus
    BY <1>1, <2>1 DEF Promising, ValidStatus
  <2>2. CASE row[u] \notin ValidStatus
    <3>1. PICK o \in Operation : /\ run'[o].of = u
                                 /\ \/ Active(o)' /\ run'[o].pc \notin StartPc
                                    \/ operation' = o /\ run'[o].pc \in StartPc
      BY <1>4, <2>2, NoneAssumption DEF Promising, IsCurrent, ValidStatus
    <3>2. CASE o = n
      BY <1>3, <1>6, <3>1, <3>2, EndedWaitsForNothing DEF Active
    <3>3. CASE o # n
      <4>1. Active(o) /\ run[o].of = u /\ run[o].pc \notin StartPc
        BY <1>1, <1>3, <3>1, <3>3 DEF OldChains
      <4>2. u <= operation
        BY <4>1 DEF Inv, OnlyBegun, ValidStatus
      <4> QED  BY <1>1, <4>1, <4>2 DEF Promising, Operation, ValidStatus
    <3> QED  BY <3>2, <3>3
  <2> QED  BY <2>1, <2>2
<1>16. \A u \in Operation : u # n => upload'[u].first = upload[u].first
  BY <1>4 DEF Inv, TypeOK, RowType
<1>17. upload'[n].first = first
  BY <1>1, <1>4 DEF Inv, TypeOK, RowType
<1>18. AttemptsAreKnown'
  BY <1>1, <1>4, <1>5, <1>15, <1>16, <1>17 DEF AttemptsAreKnown, IsCurrent, TargetExpired
<1>19. OnePromise'
  BY <1>4, <1>15, <1>16, <1>17 DEF OnePromise, Inv, TargetExpired
<1> QED  BY <1>7, <1>8, <1>9, <1>10, <1>11, <1>12, <1>13, <1>14, <1>18, <1>19 DEF Inv

\* A file that the user chooses is the first attempt at it.
LEMMA StartKeeps ==
    ASSUME Inv, Start
    PROVE  Inv'
<1>1. Begin(NextOperation) /\ BeginOperation
  BY DEF Start, Begin
<1>2. /\ NextOperation \in Operation /\ NextOperation > operation /\ operation \in Nat
      /\ NextOperation <= NextOperation
  BY <1>1, NextIsNew DEF Operation
<1>3. \A u \in Operation : upload[u].first # NextOperation
  BY <1>2, NoneAssumption DEF Inv, TypeOK, OnlyBegun, Operation, RowType, ValidStatus
<1> QED  BY <1>1, <1>2, <1>3, BeginKeeps

\* cancel ends the transfer and makes no upload promising: the context and the chains that
\* wait for the server were so before.
LEMMA CancelKeeps ==
    ASSUME Inv, Cancel
    PROVE  Inv'
<1> DEFINE n == NextOperation
<1>1. /\ n \in Operation /\ operation' = n /\ n > operation /\ operation \in Nat
      /\ row[n] = "none" /\ upload[n].first = None /\ n <= MaxOperations
  BY NextIsNew, MaxOperationsAssumption DEF Cancel, Operation
<1>2. OldChains(n) /\ run'[n].pc \notin AwaitPc /\ run'[n].pc # "uploading"
  <2>1. \A d \in Operation : Active(d)' => Active(d) /\ run'[d] = run[d]
    BY AbortedEndsTransfers, EndedWaitsForNothing DEF Cancel, Active
  <2>2. ~Active(n)
    BY NextIsNew DEF Cancel
  <2>3. run'[n].pc \notin AwaitPc /\ run'[n].pc # "uploading"
    BY <1>1, <2>1, <2>2, EndedWaitsForNothing DEF Active
  <2> QED  BY <2>1, <2>3, AbortedEndsTransfers, EndedWaitsForNothing DEF Cancel, OldChains, Active
<1>3. /\ upload' = upload /\ context' = context /\ organization' = organization /\ transfer' = None
      /\ transferred' = transferred /\ row' = row /\ object' = object /\ age' = age /\ late' = late
  BY DEF Cancel, server
<1>4. /\ task' \in TaskType /\ task'.of = task.of /\ task'.by = n /\ task'.phase = "canceled"
      /\ task.phase \in ActivePhase /\ task.of \in Operation /\ task.of <= operation
  <2>1. task.phase \in ActivePhase /\ task.of \in Operation /\ task.of <= operation
    BY DEF Cancel, ActivePhase, Inv, OnlyBegun, ValidStatus
  <2> QED  BY <1>1, <2>1 DEF Cancel, Show, TaskType, Phase
<1>5. \A o \in Operation : o \in Nat
  BY MaxOperationsAssumption DEF Operation
<1> HIDE DEF n
<1>7. TypeOK'
  <2>1. operation' \in 0..MaxOperations
    BY <1>1, MaxOperationsAssumption DEF Operation
  <2> QED  BY <1>2, <1>3, <1>4, <2>1 DEF Inv, TypeOK, OldChains, RunType, TaskType, RowType
<1>8. OnlyBegun'
  <2>1. ASSUME NEW o \in Operation
        PROVE  /\ o > n => ~Active(o)' /\ row[o] = "none" /\ upload[o].first = None
               /\ Active(o)' => run'[o].of \in Operation /\ run'[o].of <= n
               /\ upload[o].first # None => upload[o].first <= o
    <3>1. CASE o = n
      BY <1>1, <1>2, <1>5, <3>1 DEF Active
    <3>2. CASE o # n
      BY <1>1, <1>2, <1>5, <3>2 DEF OldChains, Inv, OnlyBegun, ValidStatus
    <3> QED  BY <3>1, <3>2
  <2> QED  BY <1>1, <1>3, <1>4, <1>5, <2>1 DEF OnlyBegun, Inv, TypeOK, RowType, ValidStatus
<1>9. StartsAlone'
  BY <1>1, <1>2, <1>3, EndedWaitsForNothing, NoneAssumption DEF OldChains, Inv, StartsAlone,
     Active, ValidStatus
<1>10. CompletedIsValid'
  <2>1. \A o \in Operation :
            run'[o].pc \in {"completed", "refreshing"} => Active(o) /\ run'[o] = run[o]
    BY <1>2 DEF OldChains, Active, AwaitPc
  <2> QED  BY <1>3, <1>4, <2>1 DEF Inv, CompletedIsValid, SuccessIsReal, Validated
<1>11. TransferIsShown'
  BY <1>2 DEF OldChains, TransferIsShown
<1>12. WorkIsForOrganization'
  BY <1>1, <1>2, <1>3, <1>4 DEF WorkIsForOrganization, Active, Inv, ActivePhase, NoTask, Show
<1>13. OnlySuccessComesLate'
  BY <1>1, <1>4 DEF OnlySuccessComesLate, IsCurrent
<1>14. OneUpload'
  BY <1>1, <1>2, <1>3, <1>4 DEF OneUpload, IsCurrent, Active, Inv, ActivePhase
<1>15. \A u \in Operation : Promising(u)' =>
           /\ Promising(u)
           /\ IsCurrent(u) /\ run[u].pc \in StartPc => FALSE
  <2> SUFFICES ASSUME NEW u \in Operation, Promising(u)'
               PROVE  Promising(u) /\ (IsCurrent(u) => run[u].pc \notin StartPc)
    OBVIOUS
  <2>1. CASE row[u] \in ValidStatus \/ context' = u
    BY <1>3, <2>1, NoneAssumption DEF Promising, Inv, StartsAlone, ValidStatus
  <2>2. CASE row[u] \notin ValidStatus /\ context' # u
    <3>1. PICK o \in Operation : /\ run'[o].of = u
                                 /\ \/ Active(o)' /\ run'[o].pc \notin StartPc
                                    \/ operation' = o /\ run'[o].pc \in StartPc
      BY <1>3, <2>2 DEF Promising, IsCurrent, ValidStatus
    <3>2. o # n /\ Active(o) /\ run[o].of = u /\ run[o].pc \notin StartPc
      BY <1>1, <1>2, <3>1, EndedWaitsForNothing DEF OldChains, Active
    <3> QED  BY <3>2 DEF Promising, Inv, StartsAlone, ValidStatus
  <2> QED  BY <2>1, <2>2
<1>18. AttemptsAreKnown'
  BY <1>1, <1>3, <1>4, <1>15 DEF AttemptsAreKnown, Inv, TargetExpired, ActivePhase
<1>19. OnePromise'
  BY <1>3, <1>15 DEF OnePromise, Inv, TargetExpired
<1> QED  BY <1>7, <1>8, <1>9, <1>10, <1>11, <1>12, <1>13, <1>14, <1>18, <1>19 DEF Inv

\* retry, on with the reservation: the upload of the context was promising before.
LEMMA RetryOnKeeps ==
    ASSUME Inv, task.phase \in {"error", "canceled"}, Resumable, BeginOperation,
           Continue(NextOperation, context, run),
           UNCHANGED <<organization, context, transferred, upload, server, age, late>>
    PROVE  Inv'
<1> DEFINE n == NextOperation
<1>1. /\ n \in Operation /\ operation' = n /\ n > operation /\ operation \in Nat
      /\ row[n] = "none" /\ upload[n].first = None
  BY NextIsNew
<1>2. context \in Operation /\ context <= operation /\ task.of = context /\ ~TargetExpired(context)
  BY DEF Resumable, Inv, TypeOK, OnlyBegun, OneUpload, RowType, ValidStatus
<1>3. PICK r \in RunType :
          /\ run' = [run EXCEPT ![n] = r]
          /\ \/ r = At("uploading", context) /\ task' = Show("uploading", context, n)
                /\ transfer' = n
             \/ r = At("finalizing", context) /\ task' = Show("finalizing", context, n)
                /\ transfer' = transfer
  <2>1. At("uploading", context) \in RunType /\ At("finalizing", context) \in RunType
    BY <1>2 DEF At, RunType, AwaitPc, ActivePhase
  <2> QED  BY <1>2, <2>1 DEF Continue
<1>4. OldChains(n) /\ run'[n] = r
  <2>1. run \in [Operation -> RunType]
    BY DEF Inv, TypeOK, RunType, RowType
  <2>2. \A d \in Operation : run[d].pc # "uploading"
    BY DEF Inv, TransferIsShown
  <2>3. \A d \in Operation : (run[d] = run[d] \/ run[d] = Ended) /\ run[d].pc # "uploading"
    BY <2>2
  <2>4. n \in Operation /\ run' = [run EXCEPT ![n] = r]
    BY <1>1, <1>3
  <2> HIDE DEF n
  <2> QED  BY <2>1, <2>3, <2>4, OldChainsGoOn
<1>5. /\ upload' = upload /\ context' = context /\ organization' = organization
      /\ transferred' = transferred /\ row' = row /\ object' = object /\ age' = age /\ late' = late
  BY DEF server
<1>6. /\ task' \in TaskType /\ task'.of = context /\ task'.by = n
      /\ task'.phase \in {"uploading", "finalizing"}
  BY <1>1, <1>2, <1>3 DEF Show, TaskType, Phase, ActivePhase
<1>7. /\ r.of = context /\ r.pc \in AwaitPc \ StartPc
      /\ r.pc = "uploading" => task'.phase = "uploading" /\ transfer' = n
      /\ r.pc \notin {"completed", "refreshing"}
  BY <1>3 DEF At, Show, AwaitPc, ActivePhase, StartPc
<1>8. \A o \in Operation : o \in Nat
  BY MaxOperationsAssumption DEF Operation
<1>9. transfer' \in Operation \cup {None}
  BY <1>1, <1>3 DEF Inv, TypeOK, RowType
<1> HIDE DEF n
<1>10. TypeOK'
  <2>1. operation' \in 0..MaxOperations
    BY <1>1, MaxOperationsAssumption DEF Operation
  <2> QED  BY <1>4, <1>5, <1>6, <1>9, <2>1 DEF Inv, TypeOK, OldChains, RunType, TaskType, RowType
<1>11. OnlyBegun'
  <2>1. ASSUME NEW o \in Operation
        PROVE  /\ o > n => ~Active(o)' /\ row[o] = "none" /\ upload[o].first = None
               /\ Active(o)' => run'[o].of \in Operation /\ run'[o].of <= n
               /\ upload[o].first # None => upload[o].first <= o
    <3>1. CASE o = n
      BY <1>1, <1>2, <1>4, <1>7, <1>8, <3>1 DEF Active
    <3>2. CASE o # n
      BY <1>1, <1>4, <1>8, <3>2 DEF OldChains, Inv, OnlyBegun, ValidStatus
    <3> QED  BY <3>1, <3>2
  <2> QED  BY <1>1, <1>2, <1>5, <1>6, <1>8, <2>1 DEF OnlyBegun, ValidStatus
<1>12. StartsAlone'
  <2> SUFFICES ASSUME NEW o \in Operation, run'[o].pc \in StartPc
               PROVE  /\ run'[o].of = o /\ row[o] \in {"none", "PENDING"} /\ context # o
                      /\ \A d \in Operation : Active(d)' /\ run'[d].of = o => d = o
    BY <1>5 DEF StartsAlone, ValidStatus
  <2>1. o # n /\ run[o].pc \in StartPc /\ run'[o] = run[o]
    BY <1>4, <1>7 DEF OldChains
  <2>2. /\ run[o].of = o /\ row[o] \in {"none", "PENDING"} /\ context # o
        /\ \A d \in Operation : Active(d) /\ run[d].of = o => d = o
    BY <2>1 DEF Inv, StartsAlone, ValidStatus
  <2> QED  BY <1>4, <1>7, <2>1, <2>2 DEF OldChains
<1>13. CompletedIsValid'
  <2>1. \A o \in Operation :
             run'[o].pc \in {"completed", "refreshing"} => row[run'[o].of] \in ValidStatus
    <3>1. \A o \in Operation : run'[o].pc \in {"completed", "refreshing"} => o # n /\ Active(o)'
      BY <1>4, <1>7 DEF Active, AwaitPc
    <3> QED  BY <1>4, <3>1 DEF OldChains, Inv, CompletedIsValid
  <2> QED  BY <1>5, <1>6, <2>1 DEF Inv, CompletedIsValid, SuccessIsReal, Validated
<1>14. TransferIsShown'
  BY <1>1, <1>4, <1>7 DEF OldChains, TransferIsShown, IsCurrent
<1>15. WorkIsForOrganization'
  BY <1>1, <1>2, <1>4, <1>5, <1>6, <1>7, NoneAssumption DEF WorkIsForOrganization, Inv
<1>16. OnlySuccessComesLate'
  BY <1>1, <1>6 DEF OnlySuccessComesLate, IsCurrent
<1>17. OneUpload'
  BY <1>1, <1>4, <1>5, <1>6, <1>7 DEF OneUpload, IsCurrent, Active, ActivePhase
<1>18. \A u \in Operation : Promising(u)' =>
           Promising(u) /\ (IsCurrent(u) => run[u].pc \notin StartPc)
  <2> SUFFICES ASSUME NEW u \in Operation, Promising(u)'
               PROVE  Promising(u) /\ (IsCurrent(u) => run[u].pc \notin StartPc)
    OBVIOUS
  <2>1. CASE row[u] \in ValidStatus \/ context = u
    BY <2>1 DEF Promising, Inv, StartsAlone, ValidStatus
  <2>2. CASE row[u] \notin ValidStatus /\ context # u
    <3>1. PICK o \in Operation : /\ run'[o].of = u
                                 /\ \/ Active(o)' /\ run'[o].pc \notin StartPc
                                    \/ operation' = o /\ run'[o].pc \in StartPc
      BY <1>5, <2>2 DEF Promising, IsCurrent, ValidStatus
    <3>2. o # n /\ Active(o) /\ run[o].of = u /\ run[o].pc \notin StartPc
      BY <1>1, <1>4, <1>7, <2>2, <3>1 DEF OldChains
    <3> QED  BY <3>2 DEF Promising, Inv, StartsAlone, ValidStatus
  <2> QED  BY <2>1, <2>2
<1>19. AttemptsAreKnown'
  BY <1>2, <1>5, <1>6, <1>18 DEF AttemptsAreKnown, Inv, TargetExpired
<1>20. OnePromise'
  BY <1>5, <1>18 DEF OnePromise, Inv, TargetExpired
<1> QED  BY <1>10, <1>11, <1>12, <1>13, <1>14, <1>15, <1>16, <1>17, <1>19, <1>20 DEF Inv

\* retry, from the start: the context is gone or has lost its target, and so has every other
\* attempt that may still succeed.
LEMMA RetryAnewKeeps ==
    ASSUME Inv, task.phase \in {"error", "canceled"}, ~Resumable, Begin(upload[task.of].first)
    PROVE  Inv'
<1> DEFINE first == upload[task.of].first
<1>1. BeginOperation
  BY DEF Begin
<1>2. NextOperation > operation /\ operation \in Nat /\ NextOperation \in Nat
  BY <1>1, NextIsNew DEF Operation
<1>3. task.of \in Operation /\ task.of <= operation /\ task.of \in Nat
  BY DEF Inv, OnlyBegun, Operation, ValidStatus
<1>4. first \in Operation \cup {None} /\ (first # None => first <= task.of)
  BY <1>3 DEF Inv, TypeOK, OnlyBegun, RowType, ValidStatus
<1>5. first # None => first <= NextOperation
  BY <1>2, <1>3, <1>4 DEF Operation
<1>6. ASSUME NEW u \in Operation, Promising(u), upload[u].first = first
      PROVE  TargetExpired(u) \/ late
  <2>1. context = u => TargetExpired(u)
    BY NoneAssumption DEF Resumable
  <2>2. IsCurrent(u) /\ run[u].pc \in StartPc => late
    BY EndedWaitsForNothing DEF Inv, OneUpload, Active, ActivePhase
  <2> QED  BY <1>6, <2>1, <2>2 DEF Inv, AttemptsAreKnown
<1> HIDE DEF first
<1> QED  BY <1>4, <1>5, <1>6, BeginKeeps DEF first

\* A reset, by the dialog or by a change of the organization, forgets the task and the context.
LEMMA ResetKeeps ==
    ASSUME Inv, NEW org \in Organization, ResetTo(org)
    PROVE  Inv'
<1> DEFINE n == NextOperation
<1>1. /\ n \in Operation /\ operation' = n /\ n > operation /\ operation \in Nat
      /\ row[n] = "none" /\ upload[n].first = None /\ n <= MaxOperations
  BY NextIsNew, MaxOperationsAssumption DEF ResetTo, Operation
<1>2. OldChains(n) /\ run'[n].pc \notin AwaitPc /\ run'[n].pc # "uploading"
  <2>1. \A d \in Operation : Active(d)' => Active(d) /\ run'[d] = run[d]
    BY AbortedEndsTransfers, EndedWaitsForNothing DEF ResetTo, Active
  <2>2. ~Active(n)
    BY NextIsNew DEF ResetTo
  <2>3. run'[n].pc \notin AwaitPc /\ run'[n].pc # "uploading"
    BY <1>1, <2>1, <2>2, EndedWaitsForNothing DEF Active
  <2> QED  BY <2>1, <2>3, AbortedEndsTransfers, EndedWaitsForNothing DEF ResetTo, OldChains, Active
<1>3. /\ upload' = upload /\ context' = None /\ organization' \in Organization /\ transfer' = None
      /\ transferred' = transferred /\ row' = row /\ object' = object /\ age' = age /\ late' = late
  BY DEF ResetTo, server
<1>4. task' \in TaskType /\ task' = NoTask /\ task'.phase = "none"
  BY DEF ResetTo, NoTask, Show, TaskType
<1>5. \A o \in Operation : o \in Nat
  BY MaxOperationsAssumption DEF Operation
<1> HIDE DEF n
<1>7. TypeOK'
  <2>1. operation' \in 0..MaxOperations
    BY <1>1, MaxOperationsAssumption DEF Operation
  <2> QED  BY <1>2, <1>3, <1>4, <2>1 DEF Inv, TypeOK, OldChains, RunType, TaskType, RowType
<1>8. OnlyBegun'
  <2>1. ASSUME NEW o \in Operation
        PROVE  /\ o > n => ~Active(o)' /\ row[o] = "none" /\ upload[o].first = None
               /\ Active(o)' => run'[o].of \in Operation /\ run'[o].of <= n
               /\ upload[o].first # None => upload[o].first <= o
    <3>1. CASE o = n
      BY <1>1, <1>2, <1>5, <3>1 DEF Active
    <3>2. CASE o # n
      BY <1>1, <1>2, <1>5, <3>2 DEF OldChains, Inv, OnlyBegun, ValidStatus
    <3> QED  BY <3>1, <3>2
  <2> QED  BY <1>1, <1>3, <1>4, <1>5, <2>1 DEF OnlyBegun, Inv, TypeOK, RowType, ValidStatus
<1>9. StartsAlone'
  BY <1>1, <1>2, <1>3, EndedWaitsForNothing, NoneAssumption DEF OldChains, Inv, StartsAlone,
     Active, ValidStatus
<1>10. CompletedIsValid'
  <2>1. \A o \in Operation :
            run'[o].pc \in {"completed", "refreshing"} => Active(o) /\ run'[o] = run[o]
    BY <1>2 DEF OldChains, Active, AwaitPc
  <2> QED  BY <1>3, <1>4, <2>1 DEF Inv, CompletedIsValid, SuccessIsReal, Validated
<1>11. TransferIsShown'
  BY <1>2 DEF OldChains, TransferIsShown
<1>12. WorkIsForOrganization'
  BY <1>1, <1>2, <1>3, <1>4 DEF WorkIsForOrganization, Active, Inv, ActivePhase, NoTask, Show
<1>13. OnlySuccessComesLate'
  BY <1>1, <1>4 DEF OnlySuccessComesLate, IsCurrent
<1>14. OneUpload'
  BY <1>1, <1>2, <1>3, <1>4 DEF OneUpload, IsCurrent, Active, Inv
<1>15. \A u \in Operation : Promising(u)' =>
           /\ Promising(u)
           /\ IsCurrent(u) /\ run[u].pc \in StartPc => FALSE
  <2> SUFFICES ASSUME NEW u \in Operation, Promising(u)'
               PROVE  Promising(u) /\ (IsCurrent(u) => run[u].pc \notin StartPc)
    OBVIOUS
  <2>1. CASE row[u] \in ValidStatus \/ context' = u
    BY <1>3, <2>1, NoneAssumption DEF Promising, Inv, StartsAlone, ValidStatus
  <2>2. CASE row[u] \notin ValidStatus /\ context' # u
    <3>1. PICK o \in Operation : /\ run'[o].of = u
                                 /\ \/ Active(o)' /\ run'[o].pc \notin StartPc
                                    \/ operation' = o /\ run'[o].pc \in StartPc
      BY <1>3, <2>2 DEF Promising, IsCurrent, ValidStatus
    <3>2. o # n /\ Active(o) /\ run[o].of = u /\ run[o].pc \notin StartPc
      BY <1>1, <1>2, <3>1, EndedWaitsForNothing DEF OldChains, Active
    <3> QED  BY <3>2 DEF Promising, Inv, StartsAlone, ValidStatus
  <2> QED  BY <2>1, <2>2
<1>18. AttemptsAreKnown'
  BY <1>1, <1>3, <1>4, <1>15 DEF AttemptsAreKnown, Inv, TargetExpired
<1>19. OnePromise'
  BY <1>3, <1>15 DEF OnePromise, Inv, TargetExpired
<1> QED  BY <1>7, <1>8, <1>9, <1>10, <1>11, <1>12, <1>13, <1>14, <1>18, <1>19 DEF Inv

\* A step of the chain of operation o, to r: it ends or goes on with its upload, shows what it does
\* if it is current, and changes at most the row of its upload.
ChainStep(o, r) ==
    /\ Active(o) /\ run' = [run EXCEPT ![o] = r]
    /\ \/ r = Ended
       \/ r.pc \in AwaitPc /\ r.of = run[o].of /\ (r.pc \in StartPc <=> run[o].pc \in StartPc)
    /\ r.pc # "uploading"
    /\ r.pc \in {"completed", "refreshing"} => row'[run[o].of] \in ValidStatus
    /\ \/ task' = task
       \/ /\ IsCurrent(o)
          /\ \E phase \in ActivePhase \cup {"error"} :
                /\ task' = Show(phase, run[o].of, o)
                /\ phase = "error" => r = Ended
    /\ transfer' = transfer \/ (IsCurrent(o) /\ transfer' = None)
    /\ transferred' \in [Operation -> BOOLEAN]
    /\ row' \in [Operation -> RowType]
    /\ \A u \in Operation :
          /\ u # run[o].of => row'[u] = row[u]
          /\ row[u] \in ValidStatus => row'[u] \in ValidStatus
    /\ run[o].pc \in StartPc => row'[o] \notin ValidStatus /\ row'[o] # "REJECTED"
    /\ row'[run[o].of] \in ValidStatus => object[run[o].of]
    /\ UNCHANGED <<operation, organization, context, upload, object, age, late>>

\* Such a step keeps the invariant.
LEMMA ChainStepKeeps ==
    ASSUME Inv, NEW o \in Operation, NEW r \in RunType, ChainStep(o, r)
    PROVE  Inv'
<1> DEFINE w == run[o].of
<1>1. /\ operation' = operation /\ organization' = organization /\ context' = context
      /\ upload' = upload /\ object' = object /\ age' = age /\ late' = late
  BY DEF ChainStep, RowType, ValidStatus
<1>2. run'[o] = r /\ (\A d \in Operation : d # o => run'[d] = run[d])
      /\ run' \in [Operation -> RunType]
  BY DEF ChainStep, Inv, TypeOK, RunType, RowType, ValidStatus
<1>3. Active(o) /\ w \in Operation /\ w <= operation /\ o <= operation
      /\ o \in Nat /\ operation \in Nat
  BY MaxOperationsAssumption DEF ChainStep, Inv, TypeOK, OnlyBegun, Operation, RowType, ValidStatus
<1>4. \/ r.pc \notin AwaitPc
      \/ r.pc \in AwaitPc /\ r.of = w /\ (r.pc \in StartPc <=> run[o].pc \in StartPc)
  BY EndedWaitsForNothing DEF ChainStep, RowType, ValidStatus
<1>5. \/ task' = task
      \/ /\ IsCurrent(o) /\ task' \in TaskType /\ task'.of = w /\ task'.by = o
         /\ task'.phase \in ActivePhase \cup {"error"}
         /\ r.pc \in AwaitPc => task'.phase \in ActivePhase
  <2> SUFFICES ASSUME task' # task
               PROVE  /\ IsCurrent(o) /\ task' \in TaskType /\ task'.of = w /\ task'.by = o
                      /\ task'.phase \in ActivePhase \cup {"error"}
                      /\ r.pc \in AwaitPc => task'.phase \in ActivePhase
    OBVIOUS
  <2>1. PICK phase \in ActivePhase \cup {"error"} :
            IsCurrent(o) /\ task' = Show(phase, w, o) /\ (phase = "error" => r = Ended)
    BY DEF ChainStep, RowType, ValidStatus
  <2> QED  BY <1>3, <2>1, EndedWaitsForNothing DEF Show, TaskType, Phase
<1>6. /\ \A u \in Operation : u # w => row'[u] = row[u]
      /\ \A u \in Operation : row[u] \in ValidStatus => row'[u] \in ValidStatus
      /\ run[o].pc \in StartPc => w = o /\ row'[o] \in {"none", "PENDING"}
      /\ row'[w] \in ValidStatus => object[w]
  BY EndedWaitsForNothing DEF ChainStep, Inv, StartsAlone, RowType, ValidStatus
<1> HIDE DEF w
<1>7. TypeOK'
  BY <1>1, <1>2, <1>5 DEF ChainStep, Inv, TypeOK, RunType, TaskType, RowType, ValidStatus
<1>8. OnlyBegun'
  <2>1. ASSUME NEW d \in Operation
        PROVE  /\ d > operation => ~Active(d)' /\ row'[d] = "none" /\ upload[d].first = None
               /\ Active(d)' => run'[d].of \in Operation /\ run'[d].of <= operation
               /\ upload[d].first # None => upload[d].first <= d
    <3>1. CASE d = o
      BY <1>2, <1>3, <1>4, <3>1 DEF Active, Inv, OnlyBegun, ValidStatus
    <3>2. CASE d # o
      <4>1. d > operation => d # w
        BY <1>3 DEF Operation
      <4> QED  BY <1>2, <1>6, <3>2, <4>1 DEF Active, Inv, OnlyBegun, ValidStatus
    <3> QED  BY <3>1, <3>2
  <2>2. task'.phase # "none" => /\ task'.of \in Operation /\ task'.of <= operation
                                /\ task'.by \in Operation /\ task'.by <= operation
    BY <1>3, <1>5 DEF Inv, OnlyBegun, ValidStatus
  <2>3. task'.phase = "none" => task' = NoTask
    BY <1>5 DEF Inv, OnlyBegun, ActivePhase, ValidStatus
  <2> QED  BY <1>1, <2>1, <2>2, <2>3 DEF OnlyBegun, Inv, NoTask, ValidStatus
<1>9. StartsAlone'
  <2> SUFFICES ASSUME NEW d \in Operation, run'[d].pc \in StartPc
               PROVE  /\ run'[d].of = d /\ row'[d] \in {"none", "PENDING"} /\ context # d
                      /\ \A e \in Operation : Active(e)' /\ run'[e].of = d => e = d
    BY <1>1 DEF StartsAlone, ValidStatus
  <2>1. run[d].pc \in StartPc /\ run'[d].of = run[d].of
    BY <1>2, <1>4, EndedWaitsForNothing DEF w
  <2>2. /\ run[d].of = d /\ row[d] \in {"none", "PENDING"} /\ context # d
        /\ \A e \in Operation : Active(e) /\ run[e].of = d => e = d
    BY <2>1 DEF Inv, StartsAlone, ValidStatus
  <2>3. \A e \in Operation : Active(e)' => Active(e) /\ run'[e].of = run[e].of
    BY <1>2, <1>3, <1>4 DEF Active, w
  <2>4. d # o => d # w
    BY <1>3, <2>2 DEF w
  <2> QED  BY <1>6, <2>1, <2>2, <2>3, <2>4
<1>10. CompletedIsValid'
  <2>1. ASSUME NEW d \in Operation, run'[d].pc \in {"completed", "refreshing"}
        PROVE  row'[run'[d].of] \in ValidStatus
    <3>1. CASE d = o
      BY <1>2, <1>4, <2>1, <3>1 DEF ChainStep, AwaitPc, w, RowType, ValidStatus
    <3>2. CASE d # o
      <4>1. Active(d) /\ row[run[d].of] \in ValidStatus
        BY <1>2, <2>1, <3>2 DEF Active, AwaitPc, Inv, CompletedIsValid
      <4> QED  BY <1>2, <1>6, <3>2, <4>1 DEF Inv, OnlyBegun, ValidStatus
    <3> QED  BY <3>1, <3>2
  <2>2. \A u \in Operation : row'[u] \in ValidStatus => object[u]
    BY <1>6 DEF Inv, CompletedIsValid
  <2>3. SuccessIsReal'
    BY <1>1, <1>5, <1>6 DEF SuccessIsReal, Validated, Inv, CompletedIsValid, OnlyBegun,
     ActivePhase, ValidStatus
  <2> QED  BY <1>1, <2>1, <2>2, <2>3 DEF CompletedIsValid
<1>11. TransferIsShown'
  BY <1>1, <1>2, <1>5 DEF TransferIsShown, ChainStep, Inv, IsCurrent, RowType, ValidStatus
<1>12. WorkIsForOrganization'
  <2>1. operation \in Operation
    BY <1>3, MaxOperationsAssumption DEF Inv, TypeOK, Operation, RowType
  <2>2. run'[operation].pc \in AwaitPc =>
            run[operation].pc \in AwaitPc /\ run'[operation].of = run[operation].of
    BY <1>2, <1>3, <1>4, <2>1 DEF Active, w
  <2>3. task' # task =>
            upload[task'.of].organization = organization
    <3> SUFFICES ASSUME task' # task PROVE upload[task'.of].organization = organization
      OBVIOUS
    <3>1. IsCurrent(o) /\ task'.of = run[operation].of
      BY <1>5 DEF IsCurrent, w
    <3>2. run[operation].pc \in AwaitPc /\ operation # 0
      BY <1>3, <2>1, <3>1 DEF Active, IsCurrent, Operation
    <3> QED  BY <3>1, <3>2 DEF WorkIsForOrganization, Inv
  <2>4. (task' # NoTask /\ upload[task'.of].organization # organization) =>
            (task'.phase = "success" /\ ~(operation = task'.by))
    BY <2>3 DEF WorkIsForOrganization, Inv, IsCurrent
  <2> QED  BY <1>1, <2>2, <2>4 DEF WorkIsForOrganization, Inv, IsCurrent
<1>13. OnlySuccessComesLate'
  BY <1>1, <1>5 DEF OnlySuccessComesLate, Inv, IsCurrent
<1>14. OneUpload'
  <2>1. IsCurrent(o) => context \in {None, w}
    BY <1>3 DEF Inv, OneUpload, w
  <2>2. context # None => task'.phase # "none" /\ task'.of = context
    BY <1>5, <2>1 DEF Inv, OneUpload, ActivePhase
  <2>3. ASSUME NEW d \in Operation, IsCurrent(d), Active(d)'
        PROVE  /\ run'[d].pc \in StartPc => context = None
               /\ context \in {None, run'[d].of}
               /\ late \/ (task'.phase \in ActivePhase /\ task'.of = run'[d].of)
    <3>1. CASE d = o
      BY <1>2, <1>3, <1>4, <1>5, <2>1, <2>3, <3>1 DEF Inv, OneUpload, Active, w
    <3>2. CASE d # o
      BY <1>2, <1>5, <2>3, <3>2 DEF Inv, OneUpload, Active, IsCurrent
    <3> QED  BY <3>1, <3>2
  <2> QED  BY <1>1, <2>2, <2>3 DEF OneUpload, IsCurrent
<1>15. ASSUME NEW u \in Operation, Promising(u)'
       PROVE  Promising(u) /\ (run[u].pc \in StartPc => run'[u].pc \in StartPc)
  <2>1. CASE row'[u] \in ValidStatus
    <3>1. Promising(u)
      <4>1. CASE u = w
        BY <1>3, <1>6, <2>1, <4>1 DEF Promising, w, ValidStatus
      <4>2. CASE u # w
        BY <1>6, <2>1, <4>2 DEF Promising, ValidStatus
      <4> QED  BY <4>1, <4>2
    <3>2. run[u].pc \in StartPc => row'[u] \notin ValidStatus
      BY <1>3, <1>6 DEF Inv, StartsAlone, w, ValidStatus
    <3> QED  BY <2>1, <3>1, <3>2
  <2>2. CASE context = u
    BY <2>2 DEF Promising, Inv, StartsAlone, ValidStatus
  <2>3. CASE row'[u] \notin ValidStatus /\ context # u
    <3>1. PICK d \in Operation : /\ run'[d].of = u
                                 /\ \/ Active(d)' /\ run'[d].pc \notin StartPc
                                    \/ IsCurrent(d) /\ run'[d].pc \in StartPc
      BY <1>1, <1>15, <2>3 DEF Promising, IsCurrent, ValidStatus
    <3>2. /\ Active(d) /\ run[d].of = u
          /\ run[d].pc \in StartPc <=> run'[d].pc \in StartPc
      BY <1>2, <1>3, <1>4, <3>1, EndedWaitsForNothing DEF Active, w
    <3> QED  BY <3>1, <3>2 DEF Promising, Inv, StartsAlone, ValidStatus
  <2> QED  BY <2>1, <2>2, <2>3
<1>16. AttemptsAreKnown'
  <2>1. task'.phase \notin {"none", "success"} /\ ~late =>
            task.phase \notin {"none", "success"} /\ task'.of = task.of
    BY <1>3, <1>5 DEF Inv, OneUpload, ActivePhase, w
  <2> QED  BY <1>1, <1>15, <2>1 DEF AttemptsAreKnown, Inv, TargetExpired, IsCurrent
<1>17. OnePromise'
  BY <1>1, <1>15 DEF OnePromise, Inv, TargetExpired
<1> QED  BY <1>7, <1>8, <1>9, <1>10, <1>11, <1>12, <1>13, <1>14, <1>16, <1>17 DEF Inv

\* A file that is hashed goes on to be reserved, if its operation is current.
LEMMA HashedKeeps ==
    ASSUME Inv, NEW o \in Operation, Hashed(o)
    PROVE  Inv'
<1> DEFINE r == IF IsCurrent(o) THEN At("reserving", o) ELSE Ended
<1>1. r \in RunType /\ run[o].of = o /\ row[o] \in {"none", "PENDING"}
  BY DEF Hashed, Inv, StartsAlone, StartPc, RunType, At, Ended, AwaitPc, ActivePhase, ValidStatus
<1>2. r = Ended \/ (r.pc = "reserving" /\ r.of = o)
  BY DEF At
<1>3. ChainStep(o, r)
  BY <1>1, <1>2, EndedWaitsForNothing
     DEF Hashed, ChainStep, Active, IsCurrent, AwaitPc, StartPc, ActivePhase, server, Inv, TypeOK,
     CompletedIsValid, RowType, ValidStatus
<1> QED  BY <1>1, <1>3, ChainStepKeeps

\* A reservation that arrives becomes the context, if its operation is current; it was known
\* to that operation alone.
LEMMA ReservedKeeps ==
    ASSUME Inv, NEW o \in Operation, Reserved(o)
    PROVE  Inv'
<1>1. Active(o) /\ run[o].pc \in StartPc /\ run[o].of = o
      /\ row[o] \in {"none", "PENDING"} /\ context # o
  BY DEF Reserved, Active, AwaitPc, StartPc, Inv, StartsAlone, ValidStatus
<1>2. CASE ~IsCurrent(o)
  <2>1. ChainStep(o, Ended)
    BY <1>1, <1>2, EndedWaitsForNothing
       DEF Reserved, ChainStep, IsCurrent, Ended, At, server, Inv, TypeOK, CompletedIsValid,
     RowType, ValidStatus
  <2> QED  BY <2>1, EndedWaitsForNothing, ChainStepKeeps
<1>3. CASE IsCurrent(o)
  <2>1. /\ operation' = operation /\ organization' = organization /\ context' = o
        /\ upload' = upload /\ row' = row /\ object' = object /\ age' = age /\ late' = late
        /\ transferred' = transferred
    BY <1>3 DEF Reserved, server
  <2>2. PICK r \in RunType :
            /\ run' = [run EXCEPT ![o] = r]
            /\ \/ r = At("uploading", o) /\ task' = Show("uploading", o, o) /\ transfer' = o
               \/ r = At("finalizing", o) /\ task' = Show("finalizing", o, o)
                  /\ transfer' = transfer
               \/ r = Ended /\ task' = Show("error", o, o) /\ transfer' = None
    <3>1. At("uploading", o) \in RunType /\ At("finalizing", o) \in RunType /\ Ended \in RunType
      BY DEF At, Ended, RunType, AwaitPc, ActivePhase
    <3> QED  BY <1>3, <3>1 DEF Reserved, Continue
  <2>3. run'[o] = r /\ (\A d \in Operation : d # o => run'[d] = run[d])
        /\ run' \in [Operation -> RunType]
    BY <2>2 DEF Inv, TypeOK, RunType, RowType
  <2>4. /\ r.pc \notin StartPc /\ r.pc \notin {"completed", "refreshing"}
        /\ r.pc \in AwaitPc => r.of = o /\ task'.phase \in ActivePhase
        /\ r.pc = "uploading" => transfer' = o /\ task'.phase = "uploading"
    BY <2>2, EndedWaitsForNothing DEF At, Ended, Show, StartPc, ActivePhase
  <2>5. /\ task' \in TaskType /\ task'.of = o /\ task'.by = o
        /\ task'.phase \in ActivePhase \cup {"error"} /\ transfer' \in Operation \cup {None}
    BY <2>2 DEF Show, TaskType, Phase, ActivePhase, Inv, TypeOK, RowType
  <2>6. operation = o /\ o \in Nat /\ context = None
    BY <1>1, <1>3 DEF IsCurrent, Operation, Inv, OneUpload
  <2>7. TypeOK'
    BY <2>1, <2>3, <2>5 DEF Inv, TypeOK, RunType, TaskType, RowType
  <2>8. OnlyBegun'
    <3>1. ASSUME NEW d \in Operation
          PROVE  /\ d > operation => ~Active(d)'
                 /\ Active(d)' => run'[d].of \in Operation /\ run'[d].of <= operation
      <4>1. CASE d = o
        BY <2>3, <2>4, <2>6, <4>1 DEF Active
      <4>2. CASE d # o
        BY <2>3, <4>2 DEF Active, Inv, OnlyBegun, ValidStatus
      <4> QED  BY <4>1, <4>2
    <3> QED  BY <2>1, <2>5, <2>6, <3>1 DEF OnlyBegun, Inv, ActivePhase, ValidStatus
  <2>9. StartsAlone'
    <3> SUFFICES ASSUME NEW d \in Operation, run'[d].pc \in StartPc
                 PROVE  /\ run'[d].of = d /\ row[d] \in {"none", "PENDING"} /\ d # o
                        /\ \A e \in Operation : Active(e)' /\ run'[e].of = d => e = d
      BY <2>1 DEF StartsAlone, ValidStatus
    <3>1. d # o /\ run[d].pc \in StartPc /\ run'[d] = run[d]
      BY <2>3, <2>4
    <3>2. /\ run[d].of = d /\ row[d] \in {"none", "PENDING"}
          /\ \A e \in Operation : Active(e) /\ run[e].of = d => e = d
      BY <3>1 DEF Inv, StartsAlone, ValidStatus
    <3> QED  BY <2>3, <2>4, <3>1, <3>2 DEF Active
  <2>10. CompletedIsValid'
    BY <2>1, <2>3, <2>4, <2>5 DEF CompletedIsValid, SuccessIsReal, Validated, Inv, ActivePhase
  <2>11. TransferIsShown'
    BY <1>3, <2>1, <2>3, <2>4 DEF TransferIsShown, Inv, IsCurrent
  <2>12. WorkIsForOrganization'
    <3>1. upload[o].organization = organization
      BY <1>1, <2>6 DEF WorkIsForOrganization, Active, Inv, Operation
    <3>2. /\ operation' # 0 /\ run'[operation'].pc \in AwaitPc =>
              upload'[run'[operation'].of].organization = organization'
          /\ upload'[task'.of].organization = organization'
      BY <2>1, <2>3, <2>4, <2>5, <2>6, <3>1
    <3> QED  BY <2>1, <3>1, <3>2 DEF WorkIsForOrganization
  <2>13. OnlySuccessComesLate'
    BY <1>3, <2>1, <2>5 DEF OnlySuccessComesLate, IsCurrent
  <2>14. OneUpload'
    BY <1>3, <2>1, <2>3, <2>4, <2>5 DEF OneUpload, IsCurrent, Active, ActivePhase
  <2>15. ASSUME NEW u \in Operation, Promising(u)'
         PROVE  Promising(u)
    <3>1. CASE u = o
      BY <1>1, <1>3, <3>1 DEF Promising, ValidStatus
    <3>2. CASE row[u] \in ValidStatus
      BY <3>2 DEF Promising, ValidStatus
    <3>3. CASE u # o /\ row[u] \notin ValidStatus
      <4>1. PICK d \in Operation : /\ run'[d].of = u
                                   /\ \/ Active(d)' /\ run'[d].pc \notin StartPc
                                      \/ IsCurrent(d) /\ run'[d].pc \in StartPc
        BY <2>1, <2>15, <3>3 DEF Promising, IsCurrent, ValidStatus
      <4>2. d # o /\ run'[d] = run[d]
        BY <2>3, <2>4, <3>3, <4>1 DEF Active
      <4> QED  BY <4>1, <4>2 DEF Promising, Active, ValidStatus
    <3> QED  BY <3>1, <3>2, <3>3
  <2>16. AttemptsAreKnown'
    <3> SUFFICES ASSUME ~late, NEW u \in Operation, Promising(u)', upload[u].first = upload[o].first
                 PROVE  u = o \/ TargetExpired(u)
      BY <2>1, <2>5 DEF AttemptsAreKnown, TargetExpired
    <3>1. task.phase \in ActivePhase /\ task.of = o
      BY <1>1, <1>3 DEF Inv, OneUpload
    <3>2. u = context \/ TargetExpired(u) \/ IsCurrent(u)
      BY <2>15, <3>1 DEF Inv, AttemptsAreKnown, ActivePhase
    <3> QED  BY <2>6, <3>2, NoneAssumption DEF IsCurrent
  <2>17. OnePromise'
    BY <2>1, <2>15 DEF OnePromise, Inv, TargetExpired
  <2> QED  BY <2>7, <2>8, <2>9, <2>10, <2>11, <2>12, <2>13, <2>14, <2>16, <2>17 DEF Inv
<1> QED  BY <1>2, <1>3

\* Bytes that are sent are to be completed, if the operation is current.
LEMMA TransferredKeeps ==
    ASSUME Inv, NEW o \in Operation, Transferred(o)
    PROVE  Inv'
<1> DEFINE r == IF IsCurrent(o) THEN At("finalizing", run[o].of) ELSE Ended
<1>1. Active(o) /\ run[o].of \in Operation
  BY DEF Transferred, Active, AwaitPc, ActivePhase, Inv, OnlyBegun, ValidStatus
<1>2. r \in RunType /\ (r = Ended \/ (r.pc = "finalizing" /\ r.of = run[o].of))
  BY <1>1 DEF RunType, At, Ended, AwaitPc, ActivePhase
<1>3. ChainStep(o, r)
  BY <1>1, <1>2, EndedWaitsForNothing
     DEF Transferred, ChainStep, IsCurrent, AwaitPc, StartPc, ActivePhase, server, Inv, TypeOK,
     CompletedIsValid, RowType, ValidStatus
<1> QED  BY <1>2, <1>3, ChainStepKeeps

\* An await that fails ends its chain.
LEMMA FailIsChainStep ==
    ASSUME Inv, NEW o \in Operation, Active(o), Fail(o),
           UNCHANGED <<operation, organization, context, transferred, upload, server, age, late>>
    PROVE  Inv'
<1>1. run[o].of \in Operation /\ (run[o].pc \in StartPc => row[o] \in {"none", "PENDING"})
  BY DEF Inv, OnlyBegun, StartsAlone, ValidStatus
<1>2. ChainStep(o, Ended)
  BY <1>1, EndedWaitsForNothing
     DEF Fail, ChainStep, IsCurrent, Ended, At, server, Inv, TypeOK, CompletedIsValid, RowType,
     ValidStatus
<1> QED  BY <1>2, EndedWaitsForNothing, ChainStepKeeps

\* An answer to completeUpload is used by the current operation only.
LEMMA CompleteAnsweredKeeps ==
    ASSUME Inv, NEW o \in Operation, CompleteAnswered(o)
    PROVE  Inv'
<1>1. CASE run[o].pc = "refused"
  BY <1>1, FailIsChainStep DEF CompleteAnswered, Active, AwaitPc
<1>2. CASE run[o].pc = "completed"
  <2> DEFINE r == IF IsCurrent(o) THEN At("refreshing", run[o].of) ELSE Ended
  <2>1. Active(o) /\ run[o].of \in Operation
    BY <1>2 DEF Active, AwaitPc, Inv, OnlyBegun, ValidStatus
  <2>2. r \in RunType /\ (r = Ended \/ (r.pc = "refreshing" /\ r.of = run[o].of))
    BY <2>1 DEF RunType, At, Ended, AwaitPc
  <2>3. ChainStep(o, r)
    BY <1>2, <2>1, <2>2, EndedWaitsForNothing
       DEF CompleteAnswered, ChainStep, IsCurrent, AwaitPc, StartPc, server, Inv, TypeOK,
     CompletedIsValid, RowType, ValidStatus
  <2> QED  BY <2>2, <2>3, ChainStepKeeps
<1> QED  BY <1>1, <1>2 DEF CompleteAnswered

\* A success is shown whoever is current: if its operation is not, that is late.
LEMMA RefreshedKeeps ==
    ASSUME Inv, NEW o \in Operation, Refreshed(o)
    PROVE  Inv'
<1>1. Active(o) /\ run[o].pc \notin StartPc /\ run[o].of \in Operation /\ run[o].of <= operation
      /\ o <= operation /\ row[run[o].of] \in ValidStatus /\ object[run[o].of]
  <2>1. Active(o) /\ run[o].pc \notin StartPc
    BY DEF Refreshed, Active, AwaitPc, StartPc
  <2> QED  BY <2>1, MaxOperationsAssumption
           DEF Refreshed, Inv, OnlyBegun, CompletedIsValid, TypeOK, Operation, RowType, ValidStatus
<1>2. /\ operation' = operation /\ organization' = organization /\ context' = None
      /\ upload' = upload /\ row' = row /\ object' = object /\ age' = age
      /\ late' = (late \/ ~IsCurrent(o)) /\ transferred' = transferred
      /\ transfer' = transfer \/ (transfer' = None /\ IsCurrent(o))
  BY DEF Refreshed, server
<1>3. run'[o] = Ended /\ (\A d \in Operation : d # o => run'[d] = run[d])
      /\ run' \in [Operation -> RunType]
  BY EndedWaitsForNothing DEF Refreshed, Inv, TypeOK, RunType, RowType
<1>4. task' \in TaskType /\ task'.of = run[o].of /\ task'.by = o /\ task'.phase = "success"
  BY <1>1 DEF Refreshed, Show, TaskType, Phase
<1>5. \A d \in Operation : /\ Active(d)' => d # o /\ Active(d) /\ run'[d] = run[d]
                           /\ run'[d].pc \in StartPc => run[d].pc \in StartPc /\ run'[d] = run[d]
                           /\ run'[d].pc = "uploading" => d # o /\ run[d].pc = "uploading"
  BY <1>3, EndedWaitsForNothing DEF Active
<1>6. TypeOK'
  BY <1>2, <1>3, <1>4 DEF Inv, TypeOK, RunType, TaskType, RowType
<1>7. OnlyBegun'
  BY <1>1, <1>2, <1>4, <1>5 DEF OnlyBegun, Inv, ValidStatus
<1>8. StartsAlone'
  BY <1>2, <1>5, NoneAssumption DEF StartsAlone, Inv, ValidStatus
<1>9. CompletedIsValid'
  <2>1. \A d \in Operation :
             run'[d].pc \in {"completed", "refreshing"} => row[run'[d].of] \in ValidStatus
    BY <1>5 DEF Inv, CompletedIsValid, Active, AwaitPc
  <2> QED  BY <1>1, <1>2, <1>4, <2>1 DEF CompletedIsValid, SuccessIsReal, Validated, Inv
<1>10. TransferIsShown'
  BY <1>2, <1>4, <1>5 DEF TransferIsShown, Inv, IsCurrent
<1>11. WorkIsForOrganization'
  <2>1. operation \in Operation
    BY <1>1, MaxOperationsAssumption DEF Inv, TypeOK, Operation, RowType
  <2>2. IsCurrent(o) => upload[run[o].of].organization = organization
    <3>1. IsCurrent(o) => operation # 0 /\ run[operation].pc \in AwaitPc
      BY <1>1, <2>1 DEF IsCurrent, Active, Operation
    <3> QED  BY <3>1 DEF WorkIsForOrganization, Inv, IsCurrent
  <2> QED  BY <1>2, <1>4, <1>5, <2>1, <2>2 DEF WorkIsForOrganization, Inv, Active, IsCurrent
<1>12. OnlySuccessComesLate'
  BY <1>2, <1>4 DEF OnlySuccessComesLate, IsCurrent
<1>13. OneUpload'
  BY <1>2, <1>5 DEF OneUpload, Inv, IsCurrent
<1>14. ASSUME NEW u \in Operation, Promising(u)'
       PROVE  Promising(u)
  BY <1>2, <1>5, <1>14, NoneAssumption, EndedWaitsForNothing DEF Promising, IsCurrent, ValidStatus
<1>15. AttemptsAreKnown'
  BY <1>4 DEF AttemptsAreKnown
<1>16. OnePromise'
  BY <1>2, <1>14 DEF OnePromise, Inv, TargetExpired
<1> QED  BY <1>6, <1>7, <1>8, <1>9, <1>10, <1>11, <1>12, <1>13, <1>15, <1>16 DEF Inv

\* The server reserves for a chain that nobody else knows the upload of.
LEMMA InitiateUploadKeeps ==
    ASSUME Inv, NEW o \in Operation, InitiateUpload(o)
    PROVE  Inv'
<1> DEFINE r == At("reserved", o)
<1>1. Active(o) /\ run[o].of = o /\ row[o] \in {"none", "PENDING"}
  BY DEF InitiateUpload, Active, AwaitPc, ActivePhase, StartPc, Inv, StartsAlone, ValidStatus
<1>2. r \in RunType /\ r.pc = "reserved" /\ r.of = o
  BY DEF RunType, At, AwaitPc
<1>3. run' = [run EXCEPT ![o] = r]
  <2>1. run[o] = [pc |-> run[o].pc, of |-> o]
    BY <1>1 DEF Inv, TypeOK, RowType
  <2>2. [run[o] EXCEPT !.pc = "reserved"] = r
    BY <2>1 DEF At
  <2> QED  BY <2>2 DEF InitiateUpload, ValidStatus
<1>4. row' \in [Operation -> RowType]
      /\ row'[o] = "PENDING" /\ \A u \in Operation : u # o => row'[u] = row[u]
  BY DEF InitiateUpload, Inv, TypeOK, RowType, ValidStatus
<1> HIDE DEF r
<1>5. ChainStep(o, r)
  BY <1>1, <1>2, <1>3, <1>4
     DEF InitiateUpload, ChainStep, AwaitPc, StartPc, ActivePhase, Inv, TypeOK, RowType,
     ValidStatus
<1> QED  BY <1>2, <1>5, ChainStepKeeps

\* Bytes that arrive take nothing from what has been validated.
LEMMA ObjectArrivesKeeps ==
    ASSUME Inv, NEW o \in Operation, ObjectArrives(o)
    PROVE  Inv'
<1>1. /\ UNCHANGED <<operation, organization, task, context, transfer, transferred, run, upload,
                     row, age, late>>
      /\ object' = [object EXCEPT ![run[o].of] = TRUE]
  BY DEF ObjectArrives
<1>2. object' \in [Operation -> BOOLEAN] /\ \A u \in Operation : object[u] => object'[u]
  BY <1>1 DEF Inv, TypeOK, RowType
<1>3. \A u \in Operation : Promising(u)' <=> Promising(u)
  BY <1>1 DEF Promising, Active, IsCurrent, ValidStatus
<1>4. TypeOK' /\ OnlyBegun' /\ StartsAlone'
  BY <1>1, <1>2 DEF Inv, TypeOK, OnlyBegun, StartsAlone, Active, RowType, ValidStatus
<1>5. CompletedIsValid'
  BY <1>1, <1>2 DEF Inv, CompletedIsValid, SuccessIsReal, Validated, OnlyBegun, ValidStatus
<1>6. TransferIsShown' /\ WorkIsForOrganization' /\ OnlySuccessComesLate' /\ OneUpload'
  BY <1>1 DEF Inv, TransferIsShown, WorkIsForOrganization, OnlySuccessComesLate, OneUpload,
     Active, IsCurrent
<1>7. AttemptsAreKnown' /\ OnePromise'
  BY <1>1, <1>3 DEF Inv, AttemptsAreKnown, OnePromise, IsCurrent, TargetExpired
<1> QED  BY <1>4, <1>5, <1>6, <1>7 DEF Inv

\* The server completes what has its object, and leaves completed what is.
LEMMA CompleteUploadKeeps ==
    ASSUME Inv, NEW o \in Operation, CompleteUpload(o)
    PROVE  Inv'
<1> DEFINE u == run[o].of
<1>1. Active(o) /\ u \in Operation /\ run[o].pc = "finalizing"
  BY DEF CompleteUpload, Active, AwaitPc, ActivePhase, Inv, OnlyBegun, ValidStatus
<1>2. PICK status \in RowType, pc \in {"completed", "refused"} :
          /\ row' = [row EXCEPT ![u] = status] /\ run' = [run EXCEPT ![o].pc = pc]
          /\ pc = "completed" => status \in ValidStatus
          /\ row[u] \in ValidStatus => status \in ValidStatus
          /\ status \in ValidStatus => row[u] \in ValidStatus \/ object[u]
  BY <1>1 DEF CompleteUpload, Inv, TypeOK, RowType, ValidStatus
<1> DEFINE r == At(pc, u)
<1>3. r \in RunType /\ r.pc = pc /\ r.of = u
  BY <1>1 DEF RunType, At, AwaitPc
<1>4. run' = [run EXCEPT ![o] = r]
  <2>1. run[o] = [pc |-> run[o].pc, of |-> u]
    BY DEF Inv, TypeOK, RowType
  <2>2. [run[o] EXCEPT !.pc = pc] = r
    BY <2>1 DEF At
  <2> QED  BY <1>2, <2>2
<1>5. row' \in [Operation -> RowType]
      /\ row'[u] = status /\ \A v \in Operation : v # u => row'[v] = row[v]
  BY <1>1, <1>2 DEF Inv, TypeOK, RowType
<1>6. status \in ValidStatus => object[u]
  BY <1>1, <1>2 DEF Inv, CompletedIsValid
<1>7. r.pc \in AwaitPc \ StartPc /\ run[o].pc \notin StartPc
      /\ r.pc \notin {"uploading", "refreshing"}
  BY <1>1, <1>3 DEF AwaitPc, StartPc
<1>8. /\ UNCHANGED <<operation, organization, context, upload, object, age, late>>
      /\ task' = task /\ transfer' = transfer /\ transferred' \in [Operation -> BOOLEAN]
  BY DEF CompleteUpload, Inv, TypeOK, RowType, ValidStatus
<1> HIDE DEF r
<1>9. ChainStep(o, r)
  BY <1>1, <1>2, <1>3, <1>4, <1>5, <1>6, <1>7, <1>8 DEF ChainStep, RowType, ValidStatus
<1> QED  BY <1>3, <1>9, ChainStepKeeps

\* A call that fails ends its chain.
LEMMA AwaitFailsKeeps ==
    ASSUME Inv, NEW o \in Operation, AwaitFails(o)
    PROVE  Inv'
BY FailIsChainStep DEF AwaitFails, Active

\* A target that expires stays expired.
LEMMA ExpireKeeps ==
    ASSUME Inv, NEW w \in Operation, Expire(w)
    PROVE  Inv'
<1>1. /\ UNCHANGED <<operation, organization, task, context, transfer, transferred, run, upload,
                     row, object, late>>
      /\ age' = [age EXCEPT ![w] = age[w] + 1] /\ age[w] < 2
  BY DEF Expire, server
<1>2. age' \in [Operation -> 0..2] /\ \A u \in Operation : TargetExpired(u) => TargetExpired(u)'
  BY <1>1 DEF Inv, TypeOK, TargetExpired, RowType
<1>3. \A u \in Operation : Promising(u)' <=> Promising(u)
  BY <1>1 DEF Promising, Active, IsCurrent, ValidStatus
<1>4. TypeOK' /\ OnlyBegun' /\ StartsAlone'
  BY <1>1, <1>2 DEF Inv, TypeOK, OnlyBegun, StartsAlone, Active, RowType, ValidStatus
<1>5. CompletedIsValid'
  BY <1>1 DEF Inv, CompletedIsValid, SuccessIsReal, Validated
<1>6. TransferIsShown' /\ WorkIsForOrganization' /\ OnlySuccessComesLate' /\ OneUpload'
  BY <1>1 DEF Inv, TransferIsShown, WorkIsForOrganization, OnlySuccessComesLate, OneUpload,
     Active, IsCurrent
<1>7. AttemptsAreKnown' /\ OnePromise'
  BY <1>1, <1>2, <1>3 DEF Inv, AttemptsAreKnown, OnePromise, IsCurrent
<1> QED  BY <1>4, <1>5, <1>6, <1>7 DEF Inv

\* A scan that fails takes nothing from what has been validated.
LEMMA ScanFailsKeeps ==
    ASSUME Inv, NEW w \in Operation, ScanFails(w)
    PROVE  Inv'
<1>1. /\ UNCHANGED <<operation, organization, task, context, transfer, transferred, run, upload,
                     object, age, late>>
      /\ row' = [row EXCEPT ![w] = "INFECTED"] /\ row[w] = "COMPLETED"
  BY DEF ScanFails
<1>2. /\ row' \in [Operation -> RowType]
      /\ \A u \in Operation : /\ row'[u] \in ValidStatus <=> row[u] \in ValidStatus
                              /\ row'[u] = row[u] \/ row[u] \notin {"none", "PENDING"}
  BY <1>1 DEF Inv, TypeOK, RowType, ValidStatus
<1>3. \A u \in Operation : Promising(u)' <=> Promising(u)
  BY <1>1, <1>2 DEF Promising, Active, IsCurrent, ValidStatus
<1>4. TypeOK' /\ OnlyBegun' /\ StartsAlone'
  BY <1>1, <1>2 DEF Inv, TypeOK, OnlyBegun, StartsAlone, Active, RowType, ValidStatus
<1>5. CompletedIsValid'
  BY <1>1, <1>2 DEF Inv, CompletedIsValid, SuccessIsReal, Validated, OnlyBegun, AwaitPc, Active,
     ValidStatus
<1>6. TransferIsShown' /\ WorkIsForOrganization' /\ OnlySuccessComesLate' /\ OneUpload'
  BY <1>1 DEF Inv, TransferIsShown, WorkIsForOrganization, OnlySuccessComesLate, OneUpload,
     Active, IsCurrent
<1>7. AttemptsAreKnown' /\ OnePromise'
  BY <1>1, <1>3 DEF Inv, AttemptsAreKnown, OnePromise, IsCurrent, TargetExpired
<1> QED  BY <1>4, <1>5, <1>6, <1>7 DEF Inv

\* The invariant holds when the dialog is first opened.
LEMMA InitInv == Init => Inv
<1> SUFFICES ASSUME Init PROVE Inv
  OBVIOUS
<1>1. \A o \in Operation : run[o] = Idle /\ ~Active(o) /\ row[o] = "none" /\ upload[o].first = None
  BY EndedWaitsForNothing DEF Init, Active
<1>2. \A o \in Operation : run[o].pc = "idle" /\ run[o].pc \notin StartPc
  BY <1>1 DEF Idle, At, StartPc
<1>3. task = NoTask /\ task.phase = "none" /\ context = None /\ operation = 0
  BY DEF Init, NoTask, Show
<1>4. TypeOK
  <2>1. operation \in 0..MaxOperations
    BY <1>3, MaxOperationsAssumption
  <2>2. task \in TaskType /\ run \in [Operation -> RunType]
    BY DEF Init, NoTask, Show, TaskType, RunType, Idle, At
  <2>3. upload \in [Operation -> [organization : Organization \cup {None},
                                   first : Operation \cup {None}]]
    BY DEF Init
  <2>4. row \in [Operation -> RowType]
    BY DEF Init, RowType
  <2>5. age \in [Operation -> 0..2]
    BY DEF Init
  <2>6. object \in [Operation -> BOOLEAN] /\ transferred \in [Operation -> BOOLEAN]
        /\ late \in BOOLEAN
    BY Zenon DEF Init
  <2>7. organization \in Organization /\ context = None /\ transfer = None
    BY DEF Init
  <2> QED  BY <2>1, <2>2, <2>3, <2>4, <2>5, <2>6, <2>7 DEF TypeOK, TaskType, RunType, RowType
<1>5. OnlyBegun /\ StartsAlone /\ CompletedIsValid /\ TransferIsShown
  BY <1>1, <1>2, <1>3 DEF OnlyBegun, StartsAlone, CompletedIsValid, TransferIsShown,
     SuccessIsReal, Validated, ValidStatus
<1>6. WorkIsForOrganization /\ OnlySuccessComesLate /\ OneUpload /\ AttemptsAreKnown
  BY <1>1, <1>3 DEF WorkIsForOrganization, OnlySuccessComesLate, OneUpload, AttemptsAreKnown
<1>7. OnePromise
  BY <1>1, <1>2, <1>3, NoneAssumption DEF OnePromise, Promising, ValidStatus
<1> QED  BY <1>4, <1>5, <1>6, <1>7 DEF Inv

\* Every step of the user, the browser, the server and the clock keeps it.
LEMMA NextInv == Inv /\ [Next]_vars => Inv'
<1> SUFFICES ASSUME Inv, [Next]_vars PROVE Inv'
  OBVIOUS
<1>1. CASE UNCHANGED vars
  <2>1. \A u \in Operation : Promising(u)' <=> Promising(u)
    BY <1>1 DEF Promising, Active, IsCurrent, vars, ValidStatus
  <2>2. AttemptsAreKnown' /\ OnePromise'
    BY <1>1, <2>1 DEF Inv, AttemptsAreKnown, OnePromise, IsCurrent, TargetExpired, vars
  <2> QED  BY <1>1, <2>2 DEF Inv, TypeOK, OnlyBegun, StartsAlone, CompletedIsValid, SuccessIsReal,
     Validated, TransferIsShown, WorkIsForOrganization, OnlySuccessComesLate, OneUpload, Active,
     IsCurrent, vars, RowType, ValidStatus
<1>2. CASE Start \/ Cancel \/ Retry
  BY <1>2, StartKeeps, CancelKeeps, RetryOnKeeps, RetryAnewKeeps DEF Retry
<1>3. CASE Reset \/ \E org \in Organization : SwitchOrganization(org)
  BY <1>3, ResetKeeps DEF Reset, SwitchOrganization, Inv, TypeOK, RowType
<1>4. ASSUME NEW o \in Operation, Proceed(o) \/ AwaitFails(o) \/ Expire(o) \/ ScanFails(o)
      PROVE  Inv'
  BY <1>4, HashedKeeps, ReservedKeeps, TransferredKeeps, CompleteAnsweredKeeps, RefreshedKeeps,
     InitiateUploadKeeps, ObjectArrivesKeeps, CompleteUploadKeeps, AwaitFailsKeeps, ExpireKeeps,
     ScanFailsKeeps
     DEF Proceed
<1> QED  BY <1>1, <1>2, <1>3, <1>4 DEF Next

\* The invariant holds of every behavior, of any number of operations.
THEOREM UploaderInvHolds == Spec => []Inv
<1> QED  BY InitInv, NextInv, PTL DEF Spec

\* However the user cancels, retries, closes the dialog and changes the organization: what the
\* dialog calls complete has been validated and is in the bucket, bytes are sent for the current
\* operation only, and what it does, a retry would continue or the dialog shows belongs to the
\* organization on the screen, but for a success of an older operation.
THEOREM UploaderStaysConsistent == Spec => []UploaderConsistent
<1>1. Inv => UploaderConsistent
  BY DEF Inv, UploaderConsistent, CompletedIsValid, TransferIsShown, OneTransfer
<1> QED  BY <1>1, UploaderInvHolds, PTL

\* isCurrent lets an operation that was superseded show nothing but a success.
THEOREM OnlySuccessEverComesLate == Spec => []OnlySuccessComesLate
<1>1. Inv => OnlySuccessComesLate
  BY DEF Inv
<1> QED  BY <1>1, UploaderInvHolds, PTL

\* A file is stored twice only if the target had expired before a retry, or a late success had
\* dropped the context that a retry would have continued with.
THEOREM StoringTwiceHasCause == Spec => []StoredTwiceHasCause
<1>1. Inv => StoredTwiceHasCause
  BY DEF Inv, OnePromise, Promising, StoredTwiceHasCause, Validated, ValidStatus
<1> QED  BY <1>1, UploaderInvHolds, PTL
-----------------------------------------------------------------------------
(* The active organization: Workspace                                      *)

CONSTANTS User, Call
VARIABLES member, user, active, list, cache, seen, call, haze

Page == INSTANCE Workspace

\* The active organization was replaced while a function waited for its queries.
Crossed == "crossed" \in haze

\* What organizationKeys.list may hold.
Lists == [of : User \cup {None}, items : SUBSET Organization]

\* What a function under way holds is what it was called with.
CallsAreSound ==
    \A c \in Call :
        /\ call[c].kind = "activate" => call[c].org \in Organization
        /\ call[c].kind = "activate" => call[c].org # call[c].from
        /\ Page!Waiting(c) => call[c].from \in Organization
        /\ call[c].kind \in {"recover", "create", "created", "update", "depart"} =>
              call[c].org \in Organization /\ call[c].from \in User

\* A function that waits for the queries of an organization finds it active still.
WaitsForActive == \A c \in Call : Page!Waiting(c) => call[c].from = active \/ Crossed

\* A creation, or a rename or transfer, was answered after its user, or its organization, was left.
CreatedLate == "created" \in haze
UpdatedLate == "updated" \in haze

\* Nobody is signed in: nothing is rendered, nothing is active.
NobodyIn ==
    user = None => /\ cache = {} \/ UpdatedLate
                   /\ seen = Page!NotSeen
                   /\ active = None \/ Crossed \/ CreatedLate

\* A list in the cache was fetched for the user who is signed in, or by a recovery
\* or creation that was answered after its user signed out.
ListIsOfUser ==
    list # Page!NoList =>
        list.of \in User /\ (list.of = user \/ "recovered" \in haze \/ CreatedLate)

\* The effect has seen the list and no valid organization: it has started to activate a listed one.
Opening ==
    user # None /\ list.items # {} /\ seen = Page!Dependencies /\ ~Page!Valid /\ ~Crossed =>
        \E c \in Call : call[c].kind = "activate" /\ call[c].org \in list.items

\* While a function waits, the organization has not become valid unseen.
NoUnseenOpening ==
    user # None /\ seen.list = list /\ Page!Valid /\ ~Crossed
    /\ (\E c \in Call : Page!Waiting(c)) =>
        seen.valid

\* The inductive invariant.
PageInv ==
    /\ Page!TypeOK /\ CallsAreSound /\ WaitsForActive /\ Page!OneTenantInCache
    /\ NobodyIn /\ ListIsOfUser /\ Opening /\ NoUnseenOpening

\* items[0] is one of the items.
LEMMA FirstIsListed ==
    ASSUME NEW items, items # {}
    PROVE  Page!First(items) \in items
BY DEF Page!First

\* activateOrganization keeps the store and the functions typed.
LEMMA ActivateIsTyped ==
    ASSUME Page!TypeOK, NEW c \in Call, NEW org \in Organization,
           Page!ActivateOrganization(c, org)
    PROVE  /\ active' \in Organization \cup {None}
           /\ call' \in [Call -> [kind : Page!Kind \cup {"none"}, org : Organization \cup {None},
                                  from : Organization \cup User \cup {None}]]
<1>1. active' \in Organization \cup {None}
  BY DEF Page!ActivateOrganization, Page!TypeOK, Page!Idle, Page!Async
<1>2. /\ Page!Async("activate", org, active) \in
             [kind : Page!Kind \cup {"none"}, org : Organization \cup {None},
              from : Organization \cup User \cup {None}]
      /\ Page!Idle \in
             [kind : Page!Kind \cup {"none"}, org : Organization \cup {None},
              from : Organization \cup User \cup {None}]
  BY DEF Page!Async, Page!Idle, Page!Kind, Page!TypeOK, Page!Mutation
<1>3. call' \in [Call -> [kind : Page!Kind \cup {"none"}, org : Organization \cup {None},
                          from : Organization \cup User \cup {None}]]
  BY <1>2 DEF Page!ActivateOrganization, Page!TypeOK, Page!Idle, Page!Async
<1> QED  BY <1>1, <1>3

\* activateOrganization keeps every function sound.
LEMMA ActivateIsSound ==
    ASSUME Page!NoneAssumption, Page!TypeOK, CallsAreSound, NEW c \in Call,
           NEW org \in Organization, Page!ActivateOrganization(c, org)
    PROVE  CallsAreSound'
<1>1. CASE call' = [call EXCEPT ![c] = Page!Idle]
  BY <1>1 DEF CallsAreSound, Page!Waiting, Page!Idle, Page!Async, Page!TypeOK
<1>2. CASE /\ active \notin {None, org}
           /\ call' = [call EXCEPT ![c] = Page!Async("activate", org, active)]
  BY <1>2 DEF CallsAreSound, Page!Waiting, Page!Async, Page!TypeOK
<1> QED  BY <1>1, <1>2 DEF Page!ActivateOrganization, Page!Idle, Page!Async

\* activateOrganization waits for the organization that is active, or replaces none.
LEMMA ActivateWaits ==
    ASSUME Page!NoneAssumption, PageInv, NEW c \in Call, NEW org \in Organization,
           Page!ActivateOrganization(c, org), haze \cup Page!Crossed(c) \subseteq haze'
    PROVE  WaitsForActive'
<1>1. CASE active' = active
  <2>1. CASE call' = [call EXCEPT ![c] = Page!Idle]
    BY <1>1, <2>1 DEF PageInv, WaitsForActive, Crossed, Page!Waiting, Page!Idle, Page!Async,
       Page!TypeOK
  <2>2. CASE call' = [call EXCEPT ![c] = Page!Async("activate", org, active)]
    BY <1>1, <2>2 DEF PageInv, WaitsForActive, Crossed, Page!Waiting, Page!Async, Page!TypeOK
  <2> QED  BY <2>1, <2>2 DEF Page!ActivateOrganization, Page!Idle, Page!Async
<1>2. CASE active' # active
  <2>1. call' = [call EXCEPT ![c] = Page!Idle]
    BY <1>2 DEF Page!ActivateOrganization, Page!Idle, Page!Async
  <2>2. CASE \E d \in Call \ {c} : Page!Waiting(d)
    BY <1>2, <2>2 DEF WaitsForActive, Crossed, Page!Crossed
  <2>3. CASE \A d \in Call \ {c} : ~Page!Waiting(d)
    BY <2>1, <2>3 DEF PageInv, WaitsForActive, Page!Waiting, Page!Idle, Page!Async, Page!TypeOK
  <2> QED  BY <2>2, <2>3
<1> QED  BY <1>1, <1>2

\* Nothing is left for the user who signs in to find.
LEMMA SignInKeeps ==
    ASSUME Page!NoneAssumption, PageInv, NEW u \in User, Page!SignIn(u)
    PROVE  PageInv'
<1>1. Page!TypeOK'
  BY DEF PageInv, Page!TypeOK, Page!SignIn
<1>2. CallsAreSound'
  BY DEF PageInv, CallsAreSound, Page!Waiting, Page!SignIn
<1>3. WaitsForActive'
  BY DEF PageInv, WaitsForActive, Crossed, Page!Waiting, Page!SignIn
<1>4. Page!OneTenantInCache'
  BY DEF PageInv, Page!OneTenantInCache, Page!SignIn
<1>5. NobodyIn'
  BY DEF NobodyIn, Page!SignIn, Page!NoneAssumption, CreatedLate, UpdatedLate
<1>6. ListIsOfUser'
  BY DEF PageInv, ListIsOfUser, Page!SignIn, Page!NoneAssumption, CreatedLate
<1>7. Opening'
  BY DEF PageInv, NobodyIn, Opening, Page!Dependencies, Page!List, Page!NoList, Page!NotSeen,
     Page!SignIn, CreatedLate, UpdatedLate
<1>8. NoUnseenOpening'
  BY DEF PageInv, NobodyIn, NoUnseenOpening, Page!Valid, Page!List, Page!NoList, Page!NotSeen,
     Page!SignIn, CreatedLate, UpdatedLate
<1> QED  BY <1>1, <1>2, <1>3, <1>4, <1>5, <1>6, <1>7, <1>8 DEF PageInv

\* What others do to the members of an organization is seen by no page until it asks.
LEMMA MembershipKeeps ==
    ASSUME PageInv, NEW u \in User, NEW org \in Organization,
           Page!MembershipChanges(u, org)
    PROVE  PageInv'
<1>1. Page!TypeOK'
  BY DEF PageInv, Page!TypeOK, Page!MembershipChanges
<1>2. CallsAreSound'
  BY DEF PageInv, CallsAreSound, Page!Waiting, Page!MembershipChanges
<1>3. WaitsForActive'
  BY DEF PageInv, WaitsForActive, Crossed, Page!Waiting, Page!MembershipChanges
<1>4. Page!OneTenantInCache'
  BY DEF PageInv, Page!OneTenantInCache, Page!MembershipChanges
<1>5. NobodyIn'
  BY DEF PageInv, NobodyIn, Crossed, Page!MembershipChanges, CreatedLate, UpdatedLate
<1>6. ListIsOfUser'
  BY DEF PageInv, ListIsOfUser, Page!MembershipChanges, CreatedLate
<1>7. Opening'
  BY DEF PageInv, Opening, Crossed, Page!Valid, Page!Dependencies, Page!MembershipChanges
<1>8. NoUnseenOpening'
  BY DEF PageInv, NoUnseenOpening, Crossed, Page!Waiting, Page!Valid, Page!MembershipChanges
<1> QED  BY <1>1, <1>2, <1>3, <1>4, <1>5, <1>6, <1>7, <1>8 DEF PageInv

\* clearSessionState forgets everything; a function that waits is marked as crossed.
LEMMA SignOutKeeps ==
    ASSUME Page!NoneAssumption, PageInv, Page!SignOut
    PROVE  PageInv'
<1>1. Page!TypeOK'
  BY DEF PageInv, Page!TypeOK, Page!List, Page!NoList, Page!NotSeen, Page!SignOut, Page!Cross,
     Page!Crossed
<1>2. CallsAreSound'
  BY DEF PageInv, CallsAreSound, Page!Waiting, Page!SignOut, Page!Crossed
<1>3. WaitsForActive'
  <2>1. CASE \A c \in Call : call[c] = Page!Idle
    BY <2>1 DEF WaitsForActive, Page!Waiting, Page!SignOut, Page!Idle, Page!Async
  <2>2. CASE ~\A c \in Call : call[c] = Page!Idle
    BY <2>2 DEF PageInv, WaitsForActive, Crossed, Page!Waiting, Page!SignOut, Page!Crossed,
       Page!NoneAssumption
  <2> QED  BY <2>1, <2>2
<1>4. Page!OneTenantInCache'
  BY DEF Page!OneTenantInCache, Page!SignOut, Page!Crossed
<1>5. NobodyIn'
  BY DEF NobodyIn, Page!SignOut, CreatedLate, UpdatedLate, Page!Crossed
<1>6. ListIsOfUser'
  BY DEF ListIsOfUser, Page!SignOut, CreatedLate, Page!Crossed
<1>7. Opening'
  BY DEF Opening, Page!SignOut, Page!Crossed
<1>8. NoUnseenOpening'
  BY DEF NoUnseenOpening, Page!SignOut, Page!Crossed
<1> QED  BY <1>1, <1>2, <1>3, <1>4, <1>5, <1>6, <1>7, <1>8 DEF PageInv

\* useOrganizations fetches for the user who is signed in, after the effect has run.
LEMMA LoadListKeeps ==
    ASSUME PageInv, Page!LoadList
    PROVE  PageInv'
<1>1. Page!TypeOK'
  BY DEF PageInv, Page!TypeOK, Page!List, Page!LoadList
<1>2. CallsAreSound'
  BY DEF PageInv, CallsAreSound, Page!Waiting, Page!LoadList
<1>3. WaitsForActive'
  BY DEF PageInv, WaitsForActive, Crossed, Page!Waiting, Page!LoadList
<1>4. Page!OneTenantInCache'
  BY DEF PageInv, Page!OneTenantInCache, Page!LoadList
<1>5. NobodyIn'
  BY DEF NobodyIn, Page!LoadList, CreatedLate, UpdatedLate
<1>6. ListIsOfUser'
  BY DEF PageInv, Page!TypeOK, ListIsOfUser, Page!List, Page!LoadList, CreatedLate
<1>7. Opening'
  BY DEF PageInv, Opening, Crossed, Page!Dependencies, Page!LoadList, Page!Rendered,
     Page!NotSeen, Page!NoList, Page!List
<1>8. NoUnseenOpening'
  BY DEF PageInv, NoUnseenOpening, Crossed, Page!Waiting, Page!Valid, Page!Dependencies,
     Page!LoadList, Page!Rendered, Page!NotSeen, Page!NoList, Page!List
<1> QED  BY <1>1, <1>2, <1>3, <1>4, <1>5, <1>6, <1>7, <1>8 DEF PageInv

\* Data are fetched for the organization that is active.
LEMMA LoadDataKeeps ==
    ASSUME PageInv, Page!LoadData
    PROVE  PageInv'
<1>1. Page!TypeOK'
  BY DEF PageInv, Page!TypeOK, Page!LoadData, Page!Shown
<1>2. CallsAreSound'
  BY DEF PageInv, CallsAreSound, Page!Waiting, Page!LoadData
<1>3. WaitsForActive'
  BY DEF PageInv, WaitsForActive, Crossed, Page!Waiting, Page!LoadData
<1>4. Page!OneTenantInCache'
  BY DEF PageInv, Page!OneTenantInCache, Page!LoadData
<1>5. NobodyIn'
  BY DEF NobodyIn, Page!LoadData, Page!Shown, CreatedLate, UpdatedLate
<1>6. ListIsOfUser'
  BY DEF PageInv, ListIsOfUser, Page!LoadData, CreatedLate
<1>7. Opening'
  BY DEF PageInv, Opening, Crossed, Page!Valid, Page!Dependencies, Page!LoadData
<1>8. NoUnseenOpening'
  BY DEF PageInv, NoUnseenOpening, Crossed, Page!Waiting, Page!Valid, Page!LoadData
<1> QED  BY <1>1, <1>2, <1>3, <1>4, <1>5, <1>6, <1>7, <1>8 DEF PageInv

\* A function that waited removes the organization it began with, which is the active one
\* unless crossed.  If no listed organization is active then, none was before, and the effect
\* had started an activation: this one.
LEMMA ResumeKeeps ==
    ASSUME Page!NoneAssumption, PageInv, NEW c \in Call, Page!Resume(c)
    PROVE  PageInv'
<1>1. Page!TypeOK'
  BY DEF PageInv, Page!TypeOK, Page!Kind, Page!Resume, Page!Cross, Page!Async, Page!Idle,
     Page!Crossed, Page!Mutation
<1>2. CallsAreSound'
  BY DEF PageInv, CallsAreSound, Page!Waiting, Page!Resume, Page!Async, Page!Idle
<1>3. WaitsForActive'
  BY DEF PageInv, Page!TypeOK, WaitsForActive, Crossed, Page!Waiting, Page!Resume, Page!Cross,
     Page!Async, Page!Idle, Page!Crossed
<1>4. Page!OneTenantInCache'
  BY DEF PageInv, WaitsForActive, Page!OneTenantInCache, Crossed, Page!Resume, Page!Cross,
     Page!Crossed
<1>5. NobodyIn'
  BY DEF PageInv, CallsAreSound, WaitsForActive, NobodyIn, Crossed, Page!Resume, Page!Cross,
     Page!NoneAssumption, CreatedLate, UpdatedLate, Page!Crossed
<1>6. ListIsOfUser'
  BY DEF PageInv, ListIsOfUser, Page!Resume, Page!Cross, CreatedLate, Page!Crossed
<1>7. Opening'
  <2> SUFFICES ASSUME user # None, list.items # {}, seen = Page!Dependencies',
                      ~Page!Valid', ~Crossed'
               PROVE  FALSE
    BY DEF Opening, Page!Resume
  <2>1. ~Crossed /\ (active' = active \/ \A d \in Call \ {c} : ~Page!Waiting(d))
    BY DEF Page!Resume, Page!Cross, Crossed, Page!Crossed
  <2>2. active' # active /\ Page!Waiting(c)
    BY <2>1 DEF PageInv, CallsAreSound, WaitsForActive, Page!Resume, Page!NoneAssumption
  <2>3. seen.list = list /\ ~seen.valid
    BY DEF Page!Dependencies, Page!Resume
  <2>4. ~Page!Valid
    BY <2>1, <2>2, <2>3 DEF PageInv, NoUnseenOpening
  <2>5. seen = Page!Dependencies
    BY <2>4 DEF Page!Dependencies, Page!Valid, Page!Resume
  <2>6. PICK d \in Call : call[d].kind = "activate" /\ call[d].org \in list.items
    BY <2>1, <2>4, <2>5 DEF PageInv, Opening
  <2>7. d = c
    BY <2>1, <2>2, <2>6 DEF Page!Waiting
  <2>8. active' \in list.items
    BY <2>6, <2>7 DEF Page!Resume
  <2> QED  BY <2>8 DEF Page!Valid, Page!Resume
<1>8. NoUnseenOpening'
  BY DEF PageInv, Page!TypeOK, NoUnseenOpening, Crossed, Page!Waiting, Page!Valid, Page!Resume,
     Page!Cross, Page!Async, Page!Idle, Page!Crossed
<1> QED  BY <1>1, <1>2, <1>3, <1>4, <1>5, <1>6, <1>7, <1>8 DEF PageInv

\* An answered recovery caches the list of the user it asked for, and clears the
\* organization it asked for only while that is active.
LEMMA RecoveredKeeps ==
    ASSUME PageInv, NEW c \in Call, Page!Recovered(c)
    PROVE  PageInv'
<1>1. Page!TypeOK'
  BY DEF PageInv, Page!TypeOK, CallsAreSound, Page!List, Page!Kind, Page!Recovered, Page!Async,
     Page!Idle, Page!Mutation
<1>2. CallsAreSound'
  BY DEF PageInv, CallsAreSound, Page!Waiting, Page!Recovered, Page!Async, Page!Idle
<1>3. WaitsForActive'
  BY DEF PageInv, WaitsForActive, Crossed, Page!Waiting, Page!Recovered, Page!Async, Page!Idle
<1>4. Page!OneTenantInCache'
  BY DEF PageInv, Page!OneTenantInCache, Page!Recovered
<1>5. NobodyIn'
  BY DEF PageInv, NobodyIn, Crossed, Page!Recovered, CreatedLate, UpdatedLate
<1>6. ListIsOfUser'
  BY DEF PageInv, CallsAreSound, ListIsOfUser, Page!List, Page!Recovered, CreatedLate
<1>7. Opening'
  BY DEF PageInv, Opening, Crossed, Page!Dependencies, Page!Recovered, Page!Rendered,
     Page!NotSeen, Page!NoList, Page!List
<1>8. NoUnseenOpening'
  BY DEF PageInv, NoUnseenOpening, Crossed, Page!Waiting, Page!Valid, Page!Dependencies,
     Page!List, Page!Recovered, Page!Async, Page!Idle, Page!Rendered, Page!NotSeen, Page!NoList
<1> QED  BY <1>1, <1>2, <1>3, <1>4, <1>5, <1>6, <1>7, <1>8 DEF PageInv

\* A recovery that is not answered just ends.
LEMMA RecoverFailsKeeps ==
    ASSUME PageInv, NEW c \in Call, Page!RecoverFails(c)
    PROVE  PageInv'
<1>1. Page!TypeOK'
  BY DEF PageInv, Page!TypeOK, Page!RecoverFails, Page!Idle, Page!Async
<1>2. CallsAreSound'
  BY DEF PageInv, CallsAreSound, Page!Waiting, Page!RecoverFails, Page!Idle, Page!Async
<1>3. WaitsForActive'
  BY DEF PageInv, WaitsForActive, Crossed, Page!Waiting, Page!RecoverFails, Page!Idle, Page!Async
<1>4. Page!OneTenantInCache'
  BY DEF PageInv, Page!OneTenantInCache, Page!RecoverFails
<1>5. NobodyIn'
  BY DEF PageInv, NobodyIn, Crossed, Page!RecoverFails, CreatedLate, UpdatedLate
<1>6. ListIsOfUser'
  BY DEF PageInv, ListIsOfUser, Page!RecoverFails, CreatedLate
<1>7. Opening'
  BY DEF PageInv, Opening, Crossed, Page!Valid, Page!Dependencies, Page!RecoverFails
<1>8. NoUnseenOpening'
  BY DEF PageInv, NoUnseenOpening, Crossed, Page!Waiting, Page!Valid, Page!RecoverFails,
     Page!Idle, Page!Async
<1> QED  BY <1>1, <1>2, <1>3, <1>4, <1>5, <1>6, <1>7, <1>8 DEF PageInv

\* The invalidated list is fetched for the user who is signed in by then.
LEMMA ReloadKeeps ==
    ASSUME PageInv, NEW c \in Call, Page!Reload(c)
    PROVE  PageInv'
<1>1. Page!TypeOK'
  BY DEF PageInv, Page!TypeOK, Page!List, Page!Reload, Page!Idle, Page!Async
<1>2. CallsAreSound'
  BY DEF PageInv, CallsAreSound, Page!Waiting, Page!Reload, Page!Idle, Page!Async
<1>3. WaitsForActive'
  BY DEF PageInv, WaitsForActive, Crossed, Page!Waiting, Page!Reload, Page!Idle, Page!Async
<1>4. Page!OneTenantInCache'
  BY DEF PageInv, Page!OneTenantInCache, Page!Reload
<1>5. NobodyIn'
  BY DEF PageInv, NobodyIn, Crossed, Page!Reload, CreatedLate, UpdatedLate
<1>6. ListIsOfUser'
  BY DEF PageInv, Page!TypeOK, ListIsOfUser, Page!List, Page!Reload, CreatedLate
<1>7. Opening'
  BY DEF PageInv, Opening, Crossed, Page!Dependencies, Page!Reload, Page!Rendered, Page!NotSeen,
     Page!NoList, Page!List
<1>8. NoUnseenOpening'
  BY DEF PageInv, NoUnseenOpening, Crossed, Page!Waiting, Page!Valid, Page!Dependencies,
     Page!Reload, Page!Idle, Page!Async, Page!Rendered, Page!NotSeen, Page!NoList, Page!List
<1> QED  BY <1>1, <1>2, <1>3, <1>4, <1>5, <1>6, <1>7, <1>8 DEF PageInv

\* recoverOrganizationAuthorization begins with the organization shown and the user signed in.
LEMMA RecoverKeeps ==
    ASSUME PageInv, NEW c \in Call, Page!Recover(c)
    PROVE  PageInv'
<1>1. Page!TypeOK'
  BY DEF PageInv, Page!TypeOK, Page!Kind, Page!Recover, Page!Async, Page!Mutation
<1>2. CallsAreSound'
  BY DEF PageInv, Page!TypeOK, CallsAreSound, Page!Waiting, Page!Valid, Page!Recover, Page!Shown,
     Page!Async
<1>3. WaitsForActive'
  BY DEF PageInv, WaitsForActive, Crossed, Page!Waiting, Page!Recover, Page!Async
<1>4. Page!OneTenantInCache'
  BY DEF PageInv, Page!OneTenantInCache, Page!Recover
<1>5. NobodyIn'
  BY DEF NobodyIn, Page!Recover, Page!Shown, CreatedLate, UpdatedLate
<1>6. ListIsOfUser'
  BY DEF PageInv, ListIsOfUser, Page!Recover, CreatedLate
<1>7. Opening'
  BY DEF Opening, Page!Dependencies, Page!Recover, Page!Shown
<1>8. NoUnseenOpening'
  BY DEF NoUnseenOpening, Page!Recover, Page!Shown
<1> QED  BY <1>1, <1>2, <1>3, <1>4, <1>5, <1>6, <1>7, <1>8 DEF PageInv

\* The effect of OrganizationBootstrap ends with a listed organization active, with the
\* activation of one under way, or with an empty list.
LEMMA BootstrapKeeps ==
    ASSUME Page!NoneAssumption, PageInv, NEW c \in Call, Page!Bootstrap(c)
    PROVE  PageInv'
<1>1. Page!TypeOK'
  <2>1. seen' \in [valid : BOOLEAN, list : Lists]
    BY DEF PageInv, Page!TypeOK, Page!Bootstrap, Page!Dependencies, Page!Valid, Lists
  <2>2. CASE ~Page!Valid /\ list.items # {}
    <3>1. Page!First(list.items) \in Organization
      BY <2>2, FirstIsListed DEF PageInv, Page!TypeOK
    <3>2. Page!ActivateOrganization(c, Page!First(list.items)) /\ Page!TypeOK
      BY <2>2 DEF Page!Bootstrap, PageInv
    <3>3. haze' \subseteq {"crossed", "recovered", "created", "updated"}
      BY <2>2, <3>2 DEF Page!TypeOK, Page!Bootstrap, Page!Cross, Page!Crossed
    <3> QED  BY <2>1, <3>1, <3>2, <3>3, ActivateIsTyped DEF Page!TypeOK, Page!Bootstrap, Lists
  <2>3. CASE ~(~Page!Valid /\ list.items # {})
    BY <2>1, <2>3 DEF PageInv, Page!TypeOK, Page!Bootstrap, Lists
  <2> QED  BY <2>2, <2>3
<1>2. CallsAreSound'
  <2>1. CASE ~Page!Valid /\ list.items # {}
    <3>1. Page!First(list.items) \in Organization
      BY <2>1, FirstIsListed DEF PageInv, Page!TypeOK
    <3>2. Page!ActivateOrganization(c, Page!First(list.items))
      BY <2>1 DEF Page!Bootstrap
    <3> QED  BY <3>1, <3>2 DEF PageInv, Page!TypeOK, CallsAreSound, Page!ActivateOrganization,
       Page!Async,
     Page!Waiting, Page!NoneAssumption, Page!Idle
  <2>2. CASE ~(~Page!Valid /\ list.items # {})
    BY <2>2 DEF PageInv, CallsAreSound, Page!Bootstrap, Page!Waiting
  <2> QED  BY <2>1, <2>2
<1>3. WaitsForActive'
  BY DEF PageInv, Page!TypeOK, WaitsForActive, Crossed, Page!Waiting, Page!Bootstrap,
     Page!ActivateOrganization, Page!Cross, Page!Async, Page!NoneAssumption, Page!Crossed,
     Page!Idle
<1>4. Page!OneTenantInCache'
  BY DEF PageInv, Page!TypeOK, Page!OneTenantInCache, Page!Bootstrap, Page!ActivateOrganization,
     Page!Cross, Page!NoneAssumption, Page!Crossed, Page!Idle, Page!Async
<1>5. NobodyIn'
  BY DEF NobodyIn, Page!Bootstrap, CreatedLate, UpdatedLate
<1>6. ListIsOfUser'
  BY DEF PageInv, ListIsOfUser, Page!Bootstrap, Page!ActivateOrganization, Page!Cross,
     CreatedLate, Page!Crossed, Page!Idle, Page!Async
<1>7. Opening'
  <2>1. CASE ~Page!Valid /\ list.items # {}
    <3>1. Page!First(list.items) \in list.items
      BY <2>1, FirstIsListed
    <3>2. Page!ActivateOrganization(c, Page!First(list.items))
          /\ list' = list /\ seen' = Page!Dependencies
      BY <2>1 DEF Page!Bootstrap
    <3>3. CASE active' = Page!First(list.items)
      BY <3>1, <3>2, <3>3 DEF Opening, Page!Valid
    <3>4. CASE call' = [call EXCEPT ![c] = Page!Async("activate", Page!First(list.items), active)]
      <4>1. call'[c].kind = "activate" /\ call'[c].org \in list.items
        BY <3>1, <3>4 DEF PageInv, Page!TypeOK, Page!Async
      <4> QED  BY <4>1, <3>2 DEF Opening
    <3> QED  BY <3>2, <3>3, <3>4 DEF Page!ActivateOrganization, Page!Idle, Page!Async
  <2>2. CASE ~(~Page!Valid /\ list.items # {})
    BY <2>2 DEF Opening, Page!Bootstrap, Page!Valid
  <2> QED  BY <2>1, <2>2
<1>8. NoUnseenOpening'
  <2>1. CASE ~Page!Valid /\ list.items # {}
    <3> SUFFICES ASSUME Page!Valid', ~Crossed', NEW d \in Call, Page!Waiting(d)'
                 PROVE  FALSE
      BY DEF NoUnseenOpening
    <3>1. active' # active /\ list' = list /\ haze' = haze \cup Page!Crossed(c)
      BY <2>1 DEF Page!Bootstrap, Page!Valid, Page!Cross
    <3>2. call[c] = Page!Idle /\ call' = [call EXCEPT ![c] = Page!Idle]
      BY <2>1, <3>1 DEF Page!Bootstrap, Page!ActivateOrganization
    <3>3. Page!Waiting(d) /\ d # c
      BY <3>2 DEF PageInv, Page!TypeOK, Page!Waiting, Page!Idle, Page!Async
    <3> QED  BY <3>1, <3>3 DEF Page!Crossed, Crossed
  <2>2. CASE ~(~Page!Valid /\ list.items # {})
    BY <2>2 DEF NoUnseenOpening, Page!Valid, Page!Dependencies, Page!Bootstrap
  <2> QED  BY <2>1, <2>2
<1> QED  BY <1>1, <1>2, <1>3, <1>4, <1>5, <1>6, <1>7, <1>8 DEF PageInv

\* OrganizationSwitcher is shown with a listed organization active, and activates another.
LEMMA SwitchKeeps ==
    ASSUME Page!NoneAssumption, PageInv, NEW c \in Call, NEW org \in Organization,
           Page!Switch(c, org)
    PROVE  PageInv'
<1>1. Page!TypeOK'
  <2>1. haze' \subseteq {"crossed", "recovered", "created", "updated"}
    BY DEF PageInv, Page!TypeOK, Page!Switch, Page!Cross, Page!Crossed
  <2> QED  BY <2>1, ActivateIsTyped DEF PageInv, Page!TypeOK, Page!Switch
<1>2. CallsAreSound'
  BY DEF PageInv, Page!TypeOK, CallsAreSound, Page!Waiting, Page!Switch,
     Page!ActivateOrganization, Page!Async, Page!Idle
<1>3. WaitsForActive'
  BY DEF PageInv, Page!TypeOK, WaitsForActive, Crossed, Page!Waiting, Page!Switch,
     Page!ActivateOrganization, Page!Cross, Page!Async, Page!NoneAssumption, Page!Crossed,
     Page!Idle
<1>4. Page!OneTenantInCache'
  BY DEF PageInv, Page!TypeOK, Page!OneTenantInCache, Page!Switch, Page!ActivateOrganization,
     Page!Cross, Page!NoneAssumption, Page!Crossed, Page!Idle, Page!Async
<1>5. NobodyIn'
  BY DEF NobodyIn, Page!Switch, Page!Shown, CreatedLate, UpdatedLate
<1>6. ListIsOfUser'
  BY DEF PageInv, ListIsOfUser, Page!Switch, Page!ActivateOrganization, Page!Cross, CreatedLate,
     Page!Crossed, Page!Idle, Page!Async
<1>7. Opening'
  BY DEF PageInv, Page!TypeOK, Opening, Page!Valid, Page!Switch, Page!ActivateOrganization,
     Page!Async, Page!Idle
<1>8. NoUnseenOpening'
  BY DEF NoUnseenOpening, Page!Switch, Page!Shown
<1> QED  BY <1>1, <1>2, <1>3, <1>4, <1>5, <1>6, <1>7, <1>8 DEF PageInv

\* A creation begins.
LEMMA CreateKeeps ==
    ASSUME Page!NoneAssumption, PageInv, NEW c \in Call, NEW org \in Organization,
           Page!CreateOrganization(c, org)
    PROVE  PageInv'
<1>1. Page!TypeOK'
  BY DEF PageInv, Page!TypeOK, Page!Kind, Page!Async, Page!Idle, Page!CreateOrganization,
     Page!Begin, Page!Shown, Page!Mutation
<1>2. CallsAreSound'
  BY DEF PageInv, Page!TypeOK, CallsAreSound, Page!Waiting, Page!Async, Page!Idle,
     Page!CreateOrganization, Page!Begin, Page!Shown
<1>3. WaitsForActive'
  BY DEF PageInv, Page!TypeOK, WaitsForActive, Crossed, Page!Waiting, Page!Async, Page!Idle,
     Page!CreateOrganization, Page!Begin, Page!Shown
<1>4. Page!OneTenantInCache'
  BY DEF PageInv, Page!OneTenantInCache, Page!CreateOrganization, Page!Begin, Page!Shown
<1>5. NobodyIn'
  BY DEF PageInv, NobodyIn, Crossed, CreatedLate, UpdatedLate, Page!CreateOrganization,
     Page!Begin, Page!Shown
<1>6. ListIsOfUser'
  BY DEF PageInv, ListIsOfUser, CreatedLate, Page!CreateOrganization, Page!Begin, Page!Shown
<1>7. Opening'
  BY DEF PageInv, Page!TypeOK, Opening, Crossed, Page!Valid, Page!Dependencies, Page!Async,
     Page!Idle, Page!CreateOrganization, Page!Begin, Page!Shown
<1>8. NoUnseenOpening'
  BY DEF PageInv, Page!TypeOK, NoUnseenOpening, Crossed, Page!Waiting, Page!Valid, Page!Async,
     Page!Idle, Page!CreateOrganization, Page!Begin, Page!Shown
<1> QED  BY <1>1, <1>2, <1>3, <1>4, <1>5, <1>6, <1>7, <1>8 DEF PageInv

\* A rename or transfer begins for the organization that is active, and listed.
LEMMA UpdateKeeps ==
    ASSUME Page!NoneAssumption, PageInv, NEW c \in Call, Page!UpdateOrganization(c)
    PROVE  PageInv'
<1>1. Page!TypeOK'
  BY DEF PageInv, Page!TypeOK, Page!Kind, Page!Async, Page!Idle, Page!UpdateOrganization,
     Page!Begin, Page!Shown, Page!Valid, Page!Mutation
<1>2. CallsAreSound'
  BY DEF PageInv, Page!TypeOK, CallsAreSound, Page!Waiting, Page!Async, Page!Idle,
     Page!UpdateOrganization, Page!Begin, Page!Shown, Page!Valid
<1>3. WaitsForActive'
  BY DEF PageInv, Page!TypeOK, WaitsForActive, Crossed, Page!Waiting, Page!Async, Page!Idle,
     Page!UpdateOrganization, Page!Begin, Page!Shown, Page!Valid
<1>4. Page!OneTenantInCache'
  BY DEF PageInv, Page!OneTenantInCache, Page!UpdateOrganization, Page!Begin, Page!Shown,
     Page!Valid
<1>5. NobodyIn'
  BY DEF PageInv, NobodyIn, Crossed, CreatedLate, UpdatedLate, Page!UpdateOrganization,
     Page!Begin, Page!Shown, Page!Valid
<1>6. ListIsOfUser'
  BY DEF PageInv, ListIsOfUser, CreatedLate, Page!UpdateOrganization, Page!Begin, Page!Shown,
     Page!Valid
<1>7. Opening'
  BY DEF PageInv, Page!TypeOK, Opening, Crossed, Page!Valid, Page!Dependencies, Page!Async,
     Page!Idle, Page!UpdateOrganization, Page!Begin, Page!Shown, Page!Valid
<1>8. NoUnseenOpening'
  BY DEF PageInv, Page!TypeOK, NoUnseenOpening, Crossed, Page!Waiting, Page!Valid, Page!Async,
     Page!Idle, Page!UpdateOrganization, Page!Begin, Page!Shown, Page!Valid
<1> QED  BY <1>1, <1>2, <1>3, <1>4, <1>5, <1>6, <1>7, <1>8 DEF PageInv

\* Leaving, deleting or joining begins.
LEMMA DepartKeeps ==
    ASSUME Page!NoneAssumption, PageInv, NEW c \in Call, NEW org \in Organization,
           Page!Depart(c, org)
    PROVE  PageInv'
<1>1. Page!TypeOK'
  BY DEF PageInv, Page!TypeOK, Page!Kind, Page!Async, Page!Idle, Page!Depart, Page!Begin,
     Page!Shown, Page!Mutation
<1>2. CallsAreSound'
  BY DEF PageInv, Page!TypeOK, CallsAreSound, Page!Waiting, Page!Async, Page!Idle, Page!Depart,
     Page!Begin, Page!Shown
<1>3. WaitsForActive'
  BY DEF PageInv, Page!TypeOK, WaitsForActive, Crossed, Page!Waiting, Page!Async, Page!Idle,
     Page!Depart, Page!Begin, Page!Shown
<1>4. Page!OneTenantInCache'
  BY DEF PageInv, Page!OneTenantInCache, Page!Depart, Page!Begin, Page!Shown
<1>5. NobodyIn'
  BY DEF PageInv, NobodyIn, Crossed, CreatedLate, UpdatedLate, Page!Depart, Page!Begin, Page!Shown
<1>6. ListIsOfUser'
  BY DEF PageInv, ListIsOfUser, CreatedLate, Page!Depart, Page!Begin, Page!Shown
<1>7. Opening'
  BY DEF PageInv, Page!TypeOK, Opening, Crossed, Page!Valid, Page!Dependencies, Page!Async,
     Page!Idle, Page!Depart, Page!Begin, Page!Shown
<1>8. NoUnseenOpening'
  BY DEF PageInv, Page!TypeOK, NoUnseenOpening, Crossed, Page!Waiting, Page!Valid, Page!Async,
     Page!Idle, Page!Depart, Page!Begin, Page!Shown
<1> QED  BY <1>1, <1>2, <1>3, <1>4, <1>5, <1>6, <1>7, <1>8 DEF PageInv

\* A commit at the server is seen by no page until it is answered.
LEMMA CommitKeeps ==
    ASSUME Page!NoneAssumption, PageInv, NEW c \in Call, Page!Commit(c)
    PROVE  PageInv'
<1>1. Page!TypeOK'
  <2>1. /\ call[c].kind \in {"create", "depart"}
        /\ call[c].org \in Organization /\ call[c].from \in User
    BY DEF PageInv, CallsAreSound, Page!Commit
  <2>2. member' \in [User -> SUBSET Organization]
    BY <2>1 DEF PageInv, Page!TypeOK, Page!Commit
  <2>3. Page!Async("created", call[c].org, call[c].from) \in
            [kind : Page!Kind \cup {"none"}, org : Organization \cup {None},
             from : Organization \cup User \cup {None}]
    BY <2>1 DEF Page!Async, Page!Kind, Page!Mutation
  <2>4. Page!Async("departed", None, None) \in
            [kind : Page!Kind \cup {"none"}, org : Organization \cup {None},
             from : Organization \cup User \cup {None}]
    BY DEF Page!Async, Page!Kind, Page!Mutation
  <2> QED  BY <2>2, <2>3, <2>4 DEF PageInv, Page!TypeOK, Page!Commit
<1>2. CallsAreSound'
  BY DEF PageInv, Page!TypeOK, CallsAreSound, Page!Waiting, Page!Async, Page!Idle, Page!Commit
<1>3. WaitsForActive'
  BY DEF PageInv, Page!TypeOK, WaitsForActive, Crossed, Page!Waiting, Page!Async, Page!Idle,
     Page!Commit
<1>4. Page!OneTenantInCache'
  BY DEF PageInv, Page!OneTenantInCache, Page!Commit
<1>5. NobodyIn'
  BY DEF PageInv, NobodyIn, Crossed, CreatedLate, UpdatedLate, Page!Commit
<1>6. ListIsOfUser'
  BY DEF PageInv, ListIsOfUser, CreatedLate, Page!Commit
<1>7. Opening'
  BY DEF PageInv, Page!TypeOK, Opening, Crossed, Page!Valid, Page!Dependencies, Page!Async,
     Page!Idle, Page!Commit
<1>8. NoUnseenOpening'
  BY DEF PageInv, Page!TypeOK, NoUnseenOpening, Crossed, Page!Waiting, Page!Valid, Page!Async,
     Page!Idle, Page!Commit
<1> QED  BY <1>1, <1>2, <1>3, <1>4, <1>5, <1>6, <1>7, <1>8 DEF PageInv

\* An organization that is created is listed before it is activated, so that the effect
\* has yet to see the list.
LEMMA CreatedKeeps ==
    ASSUME Page!NoneAssumption, PageInv, NEW c \in Call, Page!Created(c)
    PROVE  PageInv'
<1>1. Page!TypeOK'
  <2>1. call[c].org \in Organization /\ call[c].from \in User
    BY DEF PageInv, CallsAreSound, Page!Created
  <2>2. list' \in Lists
    BY <2>1 DEF PageInv, Page!TypeOK, Page!Created, Page!List, Lists
  <2>3. haze' \subseteq {"crossed", "recovered", "created", "updated"}
    BY DEF PageInv, Page!TypeOK, Page!Created, Page!Crossed
  <2>4. Page!ActivateOrganization(c, call[c].org) /\ Page!TypeOK
    BY DEF PageInv, Page!Created
  <2> QED  BY <2>1, <2>2, <2>3, <2>4, ActivateIsTyped DEF Page!TypeOK, Page!Created, Lists
<1>2. CallsAreSound'
  <2>1. call[c].org \in Organization /\ Page!ActivateOrganization(c, call[c].org)
    BY DEF PageInv, CallsAreSound, Page!Created
  <2> QED  BY <2>1, ActivateIsSound DEF PageInv
<1>3. WaitsForActive'
  <2>1. call[c].org \in Organization /\ Page!ActivateOrganization(c, call[c].org)
    BY DEF PageInv, CallsAreSound, Page!Created
  <2>2. haze \cup Page!Crossed(c) \subseteq haze'
    BY DEF Page!Created
  <2> QED  BY <2>1, <2>2, ActivateWaits
<1>4. Page!OneTenantInCache'
  BY DEF PageInv, Page!TypeOK, Page!OneTenantInCache, Page!Created, Page!ActivateOrganization,
     Page!NoneAssumption, Page!Idle, Page!Async
<1>5. NobodyIn'
  BY DEF PageInv, NobodyIn, CallsAreSound, Crossed, CreatedLate, UpdatedLate, Page!Created,
     Page!NoneAssumption
<1>6. ListIsOfUser'
  BY DEF PageInv, CallsAreSound, ListIsOfUser, CreatedLate, Page!List, Page!Created
<1>7. Opening'
  <2> SUFFICES ASSUME user # None, seen = Page!Dependencies', ~Page!Valid'
               PROVE  \E d \in Call : call'[d].kind = "activate" /\ call'[d].org \in list'.items
    BY DEF Opening, Page!Created
  <2>1. call[c].org \in list'.items
    BY DEF Page!Created, Page!List
  <2>2. active' # call[c].org
    BY <2>1 DEF Page!Valid
  <2>3. call'[c].kind = "activate" /\ call'[c].org = call[c].org
    BY <2>2 DEF PageInv, Page!TypeOK, Page!Created, Page!ActivateOrganization, Page!Async, Page!Idle
  <2> QED  BY <2>1, <2>3
<1>8. NoUnseenOpening'
  <2> SUFFICES ASSUME user # None, seen.list = list', Page!Valid', ~Crossed',
                      NEW d \in Call, Page!Waiting(d)'
               PROVE  seen.valid
    BY DEF NoUnseenOpening, Page!Created
  <2>1. list'.items # {}
    BY DEF Page!Valid
  <2>2. seen = Page!Dependencies
    BY <2>1 DEF Page!Created, Page!Rendered, Page!NotSeen, Page!NoList, Page!List
  <2>3. list' = list /\ seen.valid = Page!Valid
    BY <2>2 DEF Page!Dependencies
  <2>4. CASE active' = active
    BY <2>3, <2>4 DEF Page!Valid
  <2>5. CASE active' # active
    <3>1. call' = [call EXCEPT ![c] = Page!Idle]
      BY <2>5 DEF Page!Created, Page!ActivateOrganization, Page!Idle, Page!Async
    <3>2. d # c /\ Page!Waiting(d)
      BY <3>1 DEF PageInv, Page!TypeOK, Page!Waiting, Page!Idle, Page!Async
    <3> QED  BY <2>5, <3>2 DEF Page!Created, Page!Crossed, Crossed
  <2> QED  BY <2>4, <2>5
<1> QED  BY <1>1, <1>2, <1>3, <1>4, <1>5, <1>6, <1>7, <1>8 DEF PageInv

\* The answer to a rename or transfer is data of the active organization, or late.
LEMMA UpdatedKeeps ==
    ASSUME Page!NoneAssumption, PageInv, NEW c \in Call, Page!Updated(c)
    PROVE  PageInv'
<1>1. Page!TypeOK'
  BY DEF PageInv, Page!TypeOK, Page!Kind, Page!Async, Page!Idle, Page!Updated, CallsAreSound,
     Page!NoneAssumption, Page!Mutation
<1>2. CallsAreSound'
  BY DEF PageInv, Page!TypeOK, CallsAreSound, Page!Waiting, Page!Async, Page!Idle, Page!Updated,
     CallsAreSound, Page!NoneAssumption
<1>3. WaitsForActive'
  BY DEF PageInv, Page!TypeOK, WaitsForActive, Crossed, Page!Waiting, Page!Async, Page!Idle,
     Page!Updated, CallsAreSound, Page!NoneAssumption
<1>4. Page!OneTenantInCache'
  BY DEF PageInv, Page!OneTenantInCache, Page!Updated, CallsAreSound, Page!NoneAssumption
<1>5. NobodyIn'
  BY DEF PageInv, NobodyIn, Crossed, CreatedLate, UpdatedLate, Page!Updated, CallsAreSound,
     Page!NoneAssumption
<1>6. ListIsOfUser'
  BY DEF PageInv, ListIsOfUser, CreatedLate, Page!Updated, CallsAreSound, Page!NoneAssumption
<1>7. Opening'
  BY DEF PageInv, Page!TypeOK, Opening, Crossed, Page!Valid, Page!Dependencies, Page!Async,
     Page!Idle, Page!Updated, CallsAreSound, Page!NoneAssumption
<1>8. NoUnseenOpening'
  BY DEF PageInv, Page!TypeOK, NoUnseenOpening, Crossed, Page!Waiting, Page!Valid, Page!Async,
     Page!Idle, Page!Updated, CallsAreSound, Page!NoneAssumption
<1> QED  BY <1>1, <1>2, <1>3, <1>4, <1>5, <1>6, <1>7, <1>8 DEF PageInv

\* Leaving, deleting or joining clears the organization that is active.
LEMMA ExitKeeps ==
    ASSUME Page!NoneAssumption, PageInv, NEW c \in Call, Page!Exit(c)
    PROVE  PageInv'
<1>1. Page!TypeOK'
  BY DEF PageInv, Page!TypeOK, Page!Kind, Page!Async, Page!Idle, Page!Exit, Page!Mutation
<1>2. CallsAreSound'
  BY DEF PageInv, Page!TypeOK, CallsAreSound, Page!Waiting, Page!Async, Page!Idle, Page!Exit
<1>3. WaitsForActive'
  BY DEF PageInv, Page!TypeOK, WaitsForActive, Crossed, Page!Waiting, Page!Async, Page!Idle,
     Page!Exit
<1>4. Page!OneTenantInCache'
  BY DEF PageInv, Page!OneTenantInCache, Page!Exit
<1>5. NobodyIn'
  BY DEF PageInv, NobodyIn, Crossed, CreatedLate, UpdatedLate, Page!Exit
<1>6. ListIsOfUser'
  BY DEF PageInv, ListIsOfUser, CreatedLate, Page!Exit
<1>7. Opening'
  BY DEF PageInv, Page!TypeOK, Opening, Crossed, Page!Valid, Page!Dependencies, Page!Async,
     Page!Idle, Page!Exit
<1>8. NoUnseenOpening'
  <2>1. user # None /\ seen.list = list /\ Page!Valid => seen.valid
    <3> SUFFICES ASSUME user # None, seen.list = list, Page!Valid PROVE seen.valid
      OBVIOUS
    <3>1. seen # Page!NotSeen
      BY DEF Page!Valid, Page!NotSeen, Page!NoList, Page!List
    <3>2. seen = Page!Dependencies
      BY <3>1 DEF Page!Exit, Page!Rendered
    <3> QED  BY <3>2 DEF Page!Dependencies
  <2> QED  BY <2>1 DEF NoUnseenOpening, Page!Exit, Page!Valid
<1> QED  BY <1>1, <1>2, <1>3, <1>4, <1>5, <1>6, <1>7, <1>8 DEF PageInv

\* A mutation that fails ends, or begins a recovery.
LEMMA MutationFailsKeeps ==
    ASSUME Page!NoneAssumption, PageInv, NEW c \in Call, Page!MutationFails(c)
    PROVE  PageInv'
<1>1. Page!TypeOK'
  BY DEF PageInv, Page!TypeOK, Page!Kind, Page!Async, Page!Idle, Page!MutationFails, Page!Mutation
<1>2. CallsAreSound'
  BY DEF PageInv, Page!TypeOK, CallsAreSound, Page!Waiting, Page!Async, Page!Idle,
     Page!MutationFails, Page!Mutation
<1>3. WaitsForActive'
  BY DEF PageInv, Page!TypeOK, WaitsForActive, Crossed, Page!Waiting, Page!Async, Page!Idle,
     Page!MutationFails, Page!Mutation
<1>4. Page!OneTenantInCache'
  BY DEF PageInv, Page!OneTenantInCache, Page!MutationFails, Page!Mutation
<1>5. NobodyIn'
  BY DEF PageInv, NobodyIn, Crossed, CreatedLate, UpdatedLate, Page!MutationFails, Page!Mutation
<1>6. ListIsOfUser'
  BY DEF PageInv, ListIsOfUser, CreatedLate, Page!MutationFails, Page!Mutation
<1>7. Opening'
  BY DEF PageInv, Page!TypeOK, Opening, Crossed, Page!Valid, Page!Dependencies, Page!Async,
     Page!Idle, Page!MutationFails, Page!Mutation
<1>8. NoUnseenOpening'
  BY DEF PageInv, Page!TypeOK, NoUnseenOpening, Crossed, Page!Waiting, Page!Valid, Page!Async,
     Page!Idle, Page!MutationFails, Page!Mutation
<1> QED  BY <1>1, <1>2, <1>3, <1>4, <1>5, <1>6, <1>7, <1>8 DEF PageInv

\* The invariant holds when the page is opened.
LEMMA InitPageInv == Page!Init => PageInv
<1> SUFFICES ASSUME Page!Init PROVE PageInv
  OBVIOUS
<1>1. \A c \in Call : call[c].kind = "none" /\ ~Page!Waiting(c)
  BY DEF Page!Init, Page!Idle, Page!Async, Page!Waiting
<1>2. Page!TypeOK
  BY DEF Page!Init, Page!TypeOK, Page!Idle, Page!Async, Page!NotSeen, Page!NoList, Page!List
<1>3. CallsAreSound /\ WaitsForActive /\ Page!OneTenantInCache /\ NobodyIn /\ ListIsOfUser
  BY <1>1 DEF Page!Init, CallsAreSound, WaitsForActive, Page!OneTenantInCache, NobodyIn,
     ListIsOfUser,
     CreatedLate, UpdatedLate
<1>4. Opening /\ NoUnseenOpening
  BY DEF Page!Init, Opening, NoUnseenOpening
<1> QED  BY <1>2, <1>3, <1>4 DEF PageInv

\* Every step of the page, its functions and its user keeps the invariant.
LEMMA NextPageInv == ASSUME Page!NoneAssumption PROVE PageInv /\ [Page!Next]_Page!vars => PageInv'
<1> SUFFICES ASSUME PageInv, [Page!Next]_Page!vars PROVE PageInv'
  OBVIOUS
<1>1. CASE UNCHANGED Page!vars
  BY <1>1 DEF PageInv, Page!TypeOK, CallsAreSound, WaitsForActive, Page!OneTenantInCache, NobodyIn,
     ListIsOfUser, Opening, NoUnseenOpening, Page!Waiting, Page!Valid, Page!Dependencies,
     Crossed, Page!vars, CreatedLate, UpdatedLate
<1>2. CASE \E u \in User :
             Page!SignIn(u) \/ \E org \in Organization : Page!MembershipChanges(u, org)
  BY <1>2, SignInKeeps, MembershipKeeps
<1>3. CASE Page!SignOut \/ Page!LoadList \/ Page!LoadData
  BY <1>3, SignOutKeeps, LoadListKeeps, LoadDataKeeps
<1>4. ASSUME NEW c \in Call,
             Page!Settle(c) \/ Page!Recover(c) \/ Page!Bootstrap(c) \/ Page!UpdateOrganization(c)
      PROVE  PageInv'
  BY <1>4, ResumeKeeps, RecoveredKeeps, RecoverFailsKeeps, ReloadKeeps, CommitKeeps, CreatedKeeps,
     UpdatedKeeps, ExitKeeps, MutationFailsKeeps, RecoverKeeps, BootstrapKeeps, UpdateKeeps
     DEF Page!Settle
<1>5. ASSUME NEW c \in Call, NEW org \in Organization,
             Page!Switch(c, org) \/ Page!CreateOrganization(c, org) \/ Page!Depart(c, org)
      PROVE  PageInv'
  BY <1>5, SwitchKeeps, CreateKeeps, DepartKeeps
<1> QED  BY <1>1, <1>2, <1>3, <1>4, <1>5 DEF Page!Next

\* The invariant holds of every behavior.
THEOREM PageInvHolds ==
    ASSUME Page!NoneAssumption
    PROVE  Page!Spec => []PageInv
<1>1. Page!Init => PageInv
  BY InitPageInv
<1>2. PageInv /\ [Page!Next]_Page!vars => PageInv'
  BY NextPageInv
<1> QED  BY <1>1, <1>2, PTL DEF Page!Spec

\* Whatever is switched, left, created, renamed, recovered or signed out of while a function
\* waits for canceled queries or for the server: unless the organization was replaced under a
\* function that waits for queries, or a rename or transfer was answered after its user or
\* organization was left, the query cache holds data of the active organization only.
THEOREM WorkspaceStaysConsistent ==
    ASSUME Page!NoneAssumption
    PROVE  Page!Spec => []Page!WorkspaceConsistent
<1>1. PageInv => Page!WorkspaceConsistent
  BY DEF PageInv, Page!WorkspaceConsistent
<1>2. Page!Spec => []PageInv
  BY PageInvHolds
<1> QED  BY <1>1, <1>2, PTL

\* clearSessionState leaves nothing of a user to the next one, but for what a function that it
\* overtook brings back: an activation, a recovery, or the answer to a creation, rename or transfer.
THEOREM PreviousUserStaysForgotten ==
    ASSUME Page!NoneAssumption
    PROVE  Page!Spec => []Page!PreviousUserIsForgotten
<1>1. PageInv => Page!PreviousUserIsForgotten
  BY DEF PageInv, NobodyIn, ListIsOfUser, Page!PreviousUserIsForgotten, Crossed, CreatedLate,
     UpdatedLate
<1>2. Page!Spec => []PageInv
  BY PageInvHolds
<1> QED  BY <1>1, <1>2, PTL

\* OrganizationBootstrap does not stay at "Opening your organization..." with nothing under way,
\* unless the organization was replaced under a function that waited.
THEOREM AlwaysOpensAnOrganization ==
    ASSUME Page!NoneAssumption
    PROVE  Page!Spec => []Page!OpensAnOrganization
<1>1. PageInv => Page!OpensAnOrganization
  BY DEF PageInv, Opening, Page!OpensAnOrganization, Crossed, Page!Waiting
<1>2. Page!Spec => []PageInv
  BY PageInvHolds
<1> QED  BY <1>1, <1>2, PTL
=============================================================================
