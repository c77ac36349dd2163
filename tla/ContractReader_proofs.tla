----------------------- MODULE ContractReader_proofs -----------------------
(***************************************************************************)
(* Proofs about ContractReader, for every set of contracts, requests and   *)
(* jobs and every bound on faults and crashes.                             *)
(***************************************************************************)
EXTENDS ContractReader, TLAPS

-----------------------------------------------------------------------------
(* The records.                                                             *)

(* A blank row is a row.                                                    *)
LEMMA UploadedType ==
    ASSUME NEW consent \in BOOLEAN, NEW foreign \in BOOLEAN
    PROVE  Uploaded(consent, foreign) \in Row
BY DEF Uploaded, Row, Statuses, Startable, Errors, NoStages, NoOutput, Stages,
       Output, Author

LEMMA BlankType == Blank \in Row
BY UploadedType DEF Blank

(* A flush of row values into a row leaves a row.                           *)
LEMMA FlushType ==
    ASSUME NEW db \in Row, NEW old \in Row, NEW new \in Row
    PROVE  Flush(db, old, new) \in Row
BY DEF Flush, Column, Row

-----------------------------------------------------------------------------
(* Type correctness.                                                        *)

(* The bookkeeping of a request slot keeps its types.                       *)
LEMMA SlotType ==
    ASSUME TypeOK, NEW k \in Clients
    PROVE  /\ Reply(k) => ReqTyped'
           /\ reqPc[k] # "idle" => \A pc \in ReqPcs : Goto(k, pc) => ReqTyped'
           /\ \A c \in Contracts, pc \in ReqPcs, r \in Row :
                  Accept(k, c, pc, r) => ReqTyped'
BY BlankType DEF TypeOK, ReqTyped, Reply, Goto, Accept, ReqPcs

LEMMA SlotsUnchanged == ReqTyped /\ UNCHANGED reqVars => ReqTyped'
BY DEF ReqTyped, reqVars

LEMMA JobsUnchanged == JobTyped /\ UNCHANGED jobVars => JobTyped'
BY DEF JobTyped, Active, jobVars

(* A fault stays within its bound.                                          *)
LEMMA FaultType ==
    ASSUME TypeOK, Fault
    PROVE  faults' \in 0..MaxFaults /\ crashes' \in 0..MaxCrashes
BY ConstantsAssumption DEF TypeOK, Fault

(* The bookkeeping of a job keeps its types.                                *)
LEMMA JobType ==
    ASSUME TypeOK, NEW j \in Jobs
    PROVE  /\ Stop(j) => JobTyped'
           /\ Active(j) => \A pc \in JobPcs : Step(j, pc) => JobTyped'
BY BlankType DEF TypeOK, JobTyped, Active, Stop, Step, JobPcs

LEMMA LoadType ==
    ASSUME TypeOK, NEW j \in Jobs, NEW pc \in JobPcs, Load(j, pc)
    PROVE  TypeOK'
<1>1. CASE jobOf[j] \in live
  <2>1. rows[jobOf[j]] \in Row /\ jobOf[j] \in Contracts
    BY <1>1 DEF TypeOK
  <2>2. JobTyped'
    BY <1>1, <2>1 DEF Load, TypeOK, JobTyped, Active
  <2> QED BY <1>1, <2>2, SlotsUnchanged DEF Load, TypeOK, dbVars, bounds
<1>2. CASE jobOf[j] \notin live
  BY <1>2, JobType, SlotsUnchanged DEF Load, TypeOK, dbVars, bounds
<1> QED BY <1>1, <1>2

(* A commit keeps the table a table.                                        *)
LEMMA CommitType ==
    ASSUME TypeOK, NEW j \in Jobs, NEW new \in Row, Commit(j, new)
    PROVE  /\ rows' \in [Contracts -> Row]
           /\ jobOf[j] \in Contracts
           /\ JobTyped' => TypeOK'
<1>1. jobOf[j] \in Contracts /\ rows[jobOf[j]] \in Row /\ loc[j] \in Row
  BY DEF Commit, TypeOK, JobTyped
<1>2. Flush(rows[jobOf[j]], loc[j], new) \in Row
  BY <1>1, FlushType
<1>3. rows' \in [Contracts -> Row]
  BY <1>1, <1>2 DEF Commit, TypeOK
<1> QED BY <1>1, <1>3, SlotsUnchanged DEF Commit, TypeOK, bounds

LEMMA WriteType ==
    ASSUME TypeOK, NEW j \in Jobs, NEW new \in Row, NEW pc \in JobPcs,
           Write(j, new, pc)
    PROVE  TypeOK'
<1>1. TypeOK /\ Commit(j, new) /\ jobOf[j] \in Contracts
  BY CommitType DEF Write
<1>2. JobTyped'
  BY <1>1 DEF Write, TypeOK, JobTyped, Active
<1> QED BY <1>1, <1>2, CommitType

LEMMA WriteLastType ==
    ASSUME TypeOK, NEW j \in Jobs, NEW new \in Row, WriteLast(j, new)
    PROVE  TypeOK'
BY CommitType, JobType DEF WriteLast

(* Requests preserve the type invariant.                                    *)
LEMMA RequestStartsType ==
    ASSUME TypeOK, NEW k \in Clients, RequestStarts(k)
    PROVE  TypeOK'
<1>1. ASSUME NEW c \in Contracts, NEW consent \in BOOLEAN, NEW foreign \in BOOLEAN,
             UploadInsert(k, c, consent, foreign)
      PROVE  TypeOK'
  <2>1. Uploaded(consent, foreign) \in Row
    BY UploadedType
  <2>2. ReqTyped'
    BY <1>1, SlotType, BlankType DEF UploadInsert, ReqPcs
  <2> QED BY <1>1, <2>1, <2>2, JobsUnchanged DEF UploadInsert, TypeOK, bounds
<1>2. ASSUME NEW c \in Contracts, ProcessLoad(k, c) PROVE TypeOK'
  <2>1. rows[c] \in Row
    BY DEF TypeOK
  <2>2. ReqTyped'
    BY <1>2, <2>1, SlotType DEF ProcessLoad, ReqPcs
  <2> QED BY <1>2, <2>2, JobsUnchanged DEF ProcessLoad, Contests, TypeOK, dbVars, bounds
<1>3. ASSUME NEW c \in Contracts, DeleteLoad(k, c) PROVE TypeOK'
  <2>1. ReqTyped'
    BY <1>3, SlotType, BlankType DEF DeleteLoad, ReqPcs
  <2> QED BY <1>3, <2>1, JobsUnchanged DEF DeleteLoad, TypeOK, dbVars, bounds
<1> QED BY <1>1, <1>2, <1>3 DEF RequestStarts

LEMMA RequestStepType ==
    ASSUME TypeOK, NEW k \in Clients, RequestStep(k)
    PROVE  TypeOK'
<1>0. reqPc[k] # "idle" => reqOf[k] \in Contracts
  BY DEF TypeOK, ReqTyped
<1>1. CASE UploadSave(k)
  <2>1. ReqTyped'
    BY <1>1, SlotType DEF UploadSave, ReqPcs
  <2> QED BY <1>0, <1>1, <2>1, JobsUnchanged DEF UploadSave, TypeOK, dbVars, bounds
<1>2. CASE UploadCommit(k)
  BY <1>0, <1>2, SlotType, JobsUnchanged DEF UploadCommit, TypeOK, bounds
<1>3. CASE ProcessReserve(k)
  <2>1. rows[reqOf[k]] \in Row /\ seen[k] \in Row /\ reqOf[k] \in Contracts
    BY <1>3 DEF ProcessReserve, TypeOK, ReqTyped
  <2>2. [seen[k] EXCEPT !.status = "ocr_pending", !.error = "none"] \in Row
    BY <2>1 DEF Row, Statuses, InProgress, Errors
  <2>3. rows' \in [Contracts -> Row]
    BY <1>3, <2>1, <2>2, FlushType DEF ProcessReserve, TypeOK
  <2>4. ReqTyped'
    BY <1>3, SlotType DEF ProcessReserve, ReqPcs
  <2> QED BY <1>3, <2>3, <2>4, JobsUnchanged DEF ProcessReserve, TypeOK, bounds
<1>4. ASSUME NEW j \in Jobs, ProcessQueue(k, j) PROVE TypeOK'
  <2>1. ReqTyped'
    BY <1>4, SlotType DEF ProcessQueue
  <2>2. JobTyped'
    BY <1>0, <1>4 DEF ProcessQueue, TypeOK, JobTyped, Active, JobPcs
  <2> QED BY <1>4, <2>1, <2>2 DEF ProcessQueue, TypeOK, dbVars, bounds
<1>5. CASE DeleteFile(k)
  <2>1. ReqTyped'
    BY <1>5, SlotType DEF DeleteFile, ReqPcs
  <2> QED BY <1>5, <2>1, JobsUnchanged DEF DeleteFile, TypeOK, dbVars, bounds
<1>6. CASE DeleteCommit(k)
  BY <1>6, SlotType, JobsUnchanged DEF DeleteCommit, TypeOK, bounds
<1>7. CASE RequestRaises(k)
  <2>1. faults' \in 0..MaxFaults /\ crashes' \in 0..MaxCrashes
    BY <1>7, FaultType DEF RequestRaises, TypeOK, bounds
  <2> QED BY <1>7, <2>1, SlotType, JobsUnchanged DEF RequestRaises, TypeOK, dbVars
<1> QED BY <1>1, <1>2, <1>3, <1>4, <1>5, <1>6, <1>7 DEF RequestStep

(* So do jobs.                                                              *)
LEMMA JobStepType ==
    ASSUME TypeOK, NEW j \in Jobs, JobStep(j)
    PROVE  TypeOK'
<1> DEFINE r == loc[j]
<1>0. r \in Row
  BY DEF TypeOK, JobTyped
<1>1. CASE JobLoad(j)
  BY <1>1, LoadType DEF JobLoad, JobPcs
<1>2. CASE JobReset(j)
  <2>1. [r EXCEPT !.error = "none"] \in Row
    BY <1>0 DEF Row, Errors
  <2> QED BY <1>2, <2>1, WriteType DEF JobReset, JobPcs
<1>3. CASE JobPending(j)
  <2>1. [r EXCEPT !.status = "ocr_pending"] \in Row
    BY <1>0 DEF Row, Statuses, InProgress
  <2> QED BY <1>3, <2>1, WriteType DEF JobPending, JobPcs
<1>4. CASE JobRead(j)
  BY <1>4, JobType, SlotsUnchanged DEF JobRead, Active, JobPcs, TypeOK, dbVars, bounds
<1>5. CASE JobText(j)
  <2>1. [r EXCEPT !.text = j, !.status = "ocr_done"] \in Row
    BY <1>0 DEF Row, Statuses, InProgress, Author
  <2> QED BY <1>5, <2>1, WriteType DEF JobText, JobPcs
<1>6. CASE JobProcessing(j)
  <2>1. [r EXCEPT !.status = "processing"] \in Row
    BY <1>0 DEF Row, Statuses, InProgress
  <2> QED BY <1>6, <2>1, WriteType DEF JobProcessing, JobPcs
<1>7. CASE JobStage1(j)
  <2>1. ASSUME Step(j, "fail"), UNCHANGED <<dbVars, files, reqVars, bounds, contested>>
        PROVE  TypeOK'
    BY <1>7, <2>1, JobType, SlotsUnchanged
       DEF JobStage1, Active, JobPcs, TypeOK, dbVars, bounds
  <2>2. ASSUME NEW ok \in BOOLEAN,
               Write(j, [r EXCEPT !.stages.s1 = [by |-> j, ok |-> ok]],
                     IF ok THEN "stage2" ELSE "fail")
        PROVE  TypeOK'
    <3>1. [r EXCEPT !.stages.s1 = [by |-> j, ok |-> ok]] \in Row
      BY <1>0 DEF Row, Stages, Output, Author
    <3> QED BY <2>2, <3>1, WriteType DEF JobPcs
  <2> QED BY <1>7, <2>1, <2>2 DEF JobStage1
<1>8. CASE JobStage2(j)
  <2>1. PICK ok \in BOOLEAN :
          Write(j, [r EXCEPT !.stages.s2 = [by |-> j, ok |-> ok]], "stage3")
    BY <1>8 DEF JobStage2
  <2>2. [r EXCEPT !.stages.s2 = [by |-> j, ok |-> ok]] \in Row
    BY <1>0 DEF Row, Stages, Output, Author
  <2> QED BY <2>1, <2>2, WriteType DEF JobPcs
<1>9. CASE JobStage3(j)
  <2>1. PICK ok \in BOOLEAN :
          Write(j, [r EXCEPT !.stages.s3 = [by |-> j, ok |-> ok],
                             !.stages.tr = "none"],
                IF ok THEN "finish" ELSE "fail")
    BY <1>9 DEF JobStage3
  <2>2. [r EXCEPT !.stages.s3 = [by |-> j, ok |-> ok], !.stages.tr = "none"] \in Row
    BY <1>0 DEF Row, Stages, Output, Author
  <2> QED BY <2>1, <2>2, WriteType DEF JobPcs
<1>10. CASE JobFinish(j)
  <2>1. PICK tr \in {"none", "translated", "english"} :
          WriteLast(j, [r EXCEPT !.stages.tr = tr, !.status = "ready"])
    BY <1>10 DEF JobFinish
  <2>2. [r EXCEPT !.stages.tr = tr, !.status = "ready"] \in Row
    BY <1>0 DEF Row, Stages, Statuses
  <2> QED BY <2>1, <2>2, WriteLastType
<1>11. CASE JobFail(j)
  <2>1. [r EXCEPT !.status = "failed", !.error = "stage"] \in Row
    BY <1>0 DEF Row, Statuses, Startable, Errors
  <2> QED BY <1>11, <2>1, WriteLastType DEF JobFail
<1>12. CASE JobRaises(j)
  <2>1. faults' \in 0..MaxFaults /\ crashes' \in 0..MaxCrashes
    BY <1>12, FaultType DEF JobRaises, TypeOK, bounds
  <2>2. Active(j)
    BY <1>12 DEF JobRaises, Writing, Active
  <2>3. JobTyped'
    BY <1>12, <2>2, BlankType DEF JobRaises, TypeOK, JobTyped, Active, JobPcs
  <2> QED BY <1>12, <2>1, <2>3, SlotsUnchanged DEF JobRaises, TypeOK, dbVars
<1>13. CASE HandlerLoad(j)
  BY <1>13, LoadType DEF HandlerLoad, JobPcs
<1>14. CASE HandlerMark(j)
  <2>1. [r EXCEPT !.status = "failed", !.error = "stopped"] \in Row
    BY <1>0 DEF Row, Statuses, Startable, Errors
  <2> QED BY <1>14, <2>1, WriteLastType DEF HandlerMark
<1>15. CASE HandlerRaises(j)
  <2>1. faults' \in 0..MaxFaults /\ crashes' \in 0..MaxCrashes
    BY <1>15, FaultType DEF HandlerRaises, TypeOK, bounds
  <2> QED BY <1>15, <2>1, JobType, SlotsUnchanged DEF HandlerRaises, TypeOK, dbVars
<1> QED BY <1>1, <1>2, <1>3, <1>4, <1>5, <1>6, <1>7, <1>8, <1>9, <1>10, <1>11,
           <1>12, <1>13, <1>14, <1>15 DEF JobStep

LEMMA CrashType == TypeOK /\ Crash => TypeOK'
BY BlankType, ConstantsAssumption
   DEF TypeOK, ReqTyped, JobTyped, Active, ReqPcs, JobPcs, Crash, dbVars

LEMMA NextType == TypeOK /\ [Next]_vars => TypeOK'
<1> SUFFICES ASSUME TypeOK, [Next]_vars PROVE TypeOK'
  OBVIOUS
<1>1. CASE \E k \in Clients : RequestStarts(k) \/ RequestStep(k)
  BY <1>1, RequestStartsType, RequestStepType
<1>2. CASE \E j \in Jobs : JobStep(j)
  BY <1>2, JobStepType
<1>3. CASE Crash
  BY <1>3, CrashType
<1>4. CASE UNCHANGED vars
  BY <1>4, SlotsUnchanged, JobsUnchanged DEF vars, TypeOK, dbVars, bounds
<1> QED BY <1>1, <1>2, <1>3, <1>4 DEF Next

LEMMA InitType == Init => TypeOK
BY BlankType, ConstantsAssumption
   DEF Init, TypeOK, ReqTyped, JobTyped, Active, ReqPcs, JobPcs

(* Every reachable state is of the declared types, however requests, jobs,  *)
(* faults and crashes interleave.                                           *)
THEOREM TypeCorrect == Spec => []TypeOK
BY InitType, NextType, PTL DEF Spec

-----------------------------------------------------------------------------
(***************************************************************************)
(* What holds of the Contract Reader however many requests overlap: files  *)
(* and rows, and consent.                                                  *)
(***************************************************************************)

-----------------------------------------------------------------------------
(* Files.                                                                   *)

Uploads(k) == reqPc[k] \in {"up_save", "up_commit"}

(* The contract of an upload belongs to that upload alone until it is       *)
(* committed, so nobody can be deleting it; a delete that reached the row   *)
(* has removed the file, and no upload can put it back.                     *)
FileInv ==
    /\ live \subseteq used
    /\ \A k \in Clients : reqPc[k] # "idle" => reqOf[k] \in used
    /\ \A k \in Clients : Uploads(k) =>
         /\ reqOf[k] \notin live
         /\ \A i \in Clients : i # k /\ reqPc[i] # "idle" => reqOf[i] # reqOf[k]
    /\ \A k \in Clients : reqPc[k] = "up_commit" => reqOf[k] \in files
    /\ \A k \in Clients : reqPc[k] = "del_commit" => reqOf[k] \notin files

LEMMA InitFileInv == Init => FileInv
BY DEF Init, FileInv, Uploads

LEMMA NextFileInv == TypeOK /\ FileInv /\ [Next]_vars => FileInv'
<1> SUFFICES ASSUME TypeOK, FileInv, [Next]_vars PROVE FileInv'
  OBVIOUS
<1> USE DEF FileInv, Uploads, TypeOK, ReqTyped
<1>1. ASSUME NEW k \in Clients, RequestStarts(k) PROVE FileInv'
  <2>1. ASSUME NEW c \in Contracts, NEW consent \in BOOLEAN, NEW foreign \in BOOLEAN,
               UploadInsert(k, c, consent, foreign)
        PROVE  FileInv'
    BY <2>1 DEF UploadInsert, Accept
  <2>2. ASSUME NEW c \in Contracts, ProcessLoad(k, c) PROVE FileInv'
    BY <2>2 DEF ProcessLoad, Accept, dbVars
  <2>3. ASSUME NEW c \in Contracts, DeleteLoad(k, c) PROVE FileInv'
    BY <2>3 DEF DeleteLoad, Accept, dbVars
  <2> QED BY <1>1, <2>1, <2>2, <2>3 DEF RequestStarts
<1>2. ASSUME NEW k \in Clients, RequestStep(k) PROVE FileInv'
  <2>1. CASE UploadSave(k)
    BY <2>1 DEF UploadSave, Goto, dbVars
  <2>2. CASE UploadCommit(k)
    BY <2>2 DEF UploadCommit, Reply
  <2>3. CASE ProcessReserve(k)
    BY <2>3 DEF ProcessReserve, Goto
  <2>4. ASSUME NEW j \in Jobs, ProcessQueue(k, j) PROVE FileInv'
    BY <2>4 DEF ProcessQueue, Reply, dbVars
  <2>5. CASE DeleteFile(k)
    BY <2>5 DEF DeleteFile, Goto, dbVars
  <2>6. CASE DeleteCommit(k)
    BY <2>6 DEF DeleteCommit, Reply
  <2>7. CASE RequestRaises(k)
    BY <2>7 DEF RequestRaises, Reply, dbVars
  <2> QED BY <1>2, <2>1, <2>2, <2>3, <2>4, <2>5, <2>6, <2>7 DEF RequestStep
<1>3. ASSUME NEW j \in Jobs, JobStep(j) PROVE FileInv'
  <2>1. UNCHANGED <<live, used, files, reqPc, reqOf>>
    BY <1>3 DEF JobStep, JobLoad, JobReset, JobPending, JobRead, JobText,
          JobProcessing, JobStage1, JobStage2, JobStage3, JobFinish, JobFail,
          JobRaises, HandlerLoad, HandlerMark, HandlerRaises, Load, Write,
          WriteLast, Commit, dbVars, reqVars
  <2> QED BY <2>1, SMTT(30)
<1>4. CASE Crash
  BY <1>4 DEF Crash, dbVars
<1>5. CASE UNCHANGED vars
  BY <1>5 DEF vars, dbVars, reqVars
<1> QED BY <1>1, <1>2, <1>3, <1>4, <1>5 DEF Next

LEMMA FileInvariant == Spec => [](TypeOK /\ FileInv)
<1>1. Init => TypeOK /\ FileInv
  BY InitType, InitFileInv
<1>2. TypeOK /\ FileInv /\ [Next]_vars => (TypeOK /\ FileInv)'
  BY NextType, NextFileInv
<1> QED BY <1>1, <1>2, PTL DEF Spec

(* Only a delete that reached the row takes one out of the table, and only  *)
(* the commit of its upload puts one in.                                    *)
LEMMA LiveChanges ==
    ASSUME [Next]_vars
    PROVE  \/ UNCHANGED live
           \/ \E k \in Clients : UploadCommit(k) \/ DeleteCommit(k)
<1>1. ASSUME NEW k \in Clients, RequestStarts(k) PROVE UNCHANGED live
  BY <1>1 DEF RequestStarts, UploadInsert, ProcessLoad, DeleteLoad, dbVars
<1>2. ASSUME NEW k \in Clients, RequestStep(k), ~UploadCommit(k), ~DeleteCommit(k)
      PROVE  UNCHANGED live
  BY <1>2, SMTT(30) DEF RequestStep, UploadSave, ProcessReserve, ProcessQueue, DeleteFile,
        RequestRaises, dbVars
<1>3. ASSUME NEW j \in Jobs, JobStep(j) PROVE UNCHANGED live
  BY <1>3 DEF JobStep, JobLoad, JobReset, JobPending, JobRead, JobText,
        JobProcessing, JobStage1, JobStage2, JobStage3, JobFinish, JobFail,
        JobRaises, HandlerLoad, HandlerMark, HandlerRaises, Load, Write,
        WriteLast, Commit, dbVars
<1>4. CASE Crash
  BY <1>4 DEF Crash, dbVars
<1>5. CASE UNCHANGED vars
  BY <1>5 DEF vars, dbVars
<1> QED BY <1>1, <1>2, <1>3, <1>4, <1>5 DEF Next

(* A row leaves the table only after its file has left the store, whatever  *)
(* other requests on the contract, faults and crashes do in between.        *)
THEOREM DeleteTakesFileHolds == Spec => DeleteTakesFile
<1>1. ASSUME FileInv, [Next]_vars, NEW c \in live, c \notin live'
      PROVE  c \notin files'
  <2>1. PICK k \in Clients : UploadCommit(k) \/ DeleteCommit(k)
    BY <1>1, LiveChanges
  <2>2. DeleteCommit(k) /\ reqOf[k] = c
    BY <1>1, <2>1 DEF UploadCommit, DeleteCommit
  <2> QED BY <1>1, <2>2 DEF DeleteCommit, FileInv
<1>2. FileInv /\ [Next]_vars =>
        [\A c \in live : c \notin live' => c \notin files']_vars
  BY <1>1
<1> QED BY <1>2, FileInvariant, PTL DEF Spec, DeleteTakesFile

(* A deleted contract never comes back: the jobs that still hold it only    *)
(* UPDATE.                                                                  *)
THEOREM DeletedForGoodHolds == Spec => DeletedForGood
<1>1. ASSUME [Next]_vars, NEW c \in used \ live, ~Uploading(c)
      PROVE  c \notin live'
  BY <1>1, LiveChanges DEF UploadCommit, DeleteCommit, Uploading, Requested
<1>2. [Next]_vars =>
        [\A c \in used \ live : ~Uploading(c) => c \notin live']_vars
  BY <1>1
<1> QED BY <1>2, PTL DEF Spec, DeletedForGood

(* Until something raises or the worker stops, files and rows agree.        *)
LEMMA NextFilesMatch ==
    ASSUME TypeOK, FileInv, FilesMatchRows, [Next]_vars
    PROVE  FilesMatchRows'
<1> SUFFICES ASSUME faults' = 0, crashes' = 0
             PROVE  /\ \A c \in files' : c \in live' \/ Requested(c, {"up_commit"})'
                    /\ \A c \in live' : c \in files' \/ Requested(c, {"del_commit"})'
  BY DEF FilesMatchRows
<1>0. ~Fault /\ ~Crash
  BY ConstantsAssumption DEF Fault, Crash, TypeOK
<1>m. faults = 0 /\ crashes = 0
  <2>1. ASSUME NEW k \in Clients, RequestStarts(k) \/ RequestStep(k)
        PROVE  UNCHANGED bounds
    BY <1>0, <2>1, SMTT(30) DEF RequestStarts, RequestStep, UploadInsert, ProcessLoad,
       DeleteLoad, UploadSave, UploadCommit, ProcessReserve, ProcessQueue,
       DeleteFile, DeleteCommit, RequestRaises
  <2>2. ASSUME NEW j \in Jobs, JobStep(j) PROVE UNCHANGED bounds
    BY <1>0, <2>2 DEF JobStep, JobLoad, JobReset, JobPending, JobRead, JobText,
       JobProcessing, JobStage1, JobStage2, JobStage3, JobFinish, JobFail,
       JobRaises, HandlerLoad, HandlerMark, HandlerRaises, Load, Write,
       WriteLast, Commit
  <2> QED BY <1>0, <2>1, <2>2 DEF Next, vars, bounds
<1>a. /\ \A c \in files : c \in live \/ Requested(c, {"up_commit"})
      /\ \A c \in live : c \in files \/ Requested(c, {"del_commit"})
  BY <1>m DEF FilesMatchRows
<1> USE DEF Requested
<1>1. ASSUME NEW k \in Clients, RequestStarts(k)
      PROVE  /\ \A c \in files' : c \in live' \/ Requested(c, {"up_commit"})'
             /\ \A c \in live' : c \in files' \/ Requested(c, {"del_commit"})'
  <2>1. /\ UNCHANGED <<live, files>> /\ reqPc[k] = "idle"
        /\ \A i \in Clients : i # k => UNCHANGED <<reqPc[i], reqOf[i]>>
    BY <1>1 DEF RequestStarts, UploadInsert, ProcessLoad, DeleteLoad, Accept, dbVars,
       TypeOK, ReqTyped
  <2> QED BY <1>a, <2>1
<1>2. ASSUME NEW k \in Clients, RequestStep(k)
      PROVE  /\ \A c \in files' : c \in live' \/ Requested(c, {"up_commit"})'
             /\ \A c \in live' : c \in files' \/ Requested(c, {"del_commit"})'
  <2>0. /\ reqPc' = [reqPc EXCEPT ![k] = reqPc'[k]]
        /\ \A i \in Clients : i # k => UNCHANGED <<reqPc[i], reqOf[i]>>
    BY <1>2 DEF RequestStep, UploadSave, UploadCommit, ProcessReserve, ProcessQueue,
       DeleteFile, DeleteCommit, RequestRaises, Goto, Reply, TypeOK, ReqTyped
  <2>1. CASE UploadSave(k)
    BY <1>a, <2>0, <2>1 DEF UploadSave, Goto, dbVars, TypeOK, ReqTyped
  <2>2. CASE UploadCommit(k)
    BY <1>a, <2>0, <2>2 DEF UploadCommit, Reply, TypeOK, ReqTyped, FileInv
  <2>3. CASE ProcessReserve(k)
    BY <1>a, <2>0, <2>3 DEF ProcessReserve, Goto, TypeOK, ReqTyped
  <2>4. ASSUME NEW j \in Jobs, ProcessQueue(k, j)
        PROVE  UNCHANGED <<live, files>> /\ reqPc[k] = "proc_queue"
    BY <2>4 DEF ProcessQueue, dbVars
  <2>5. CASE DeleteFile(k)
    BY <1>a, <2>0, <2>5 DEF DeleteFile, Goto, dbVars, TypeOK, ReqTyped
  <2>6. CASE DeleteCommit(k)
    BY <1>a, <2>0, <2>6 DEF DeleteCommit, Reply, TypeOK, ReqTyped, FileInv
  <2>7. CASE RequestRaises(k)
    BY <1>0, <1>a, <2>0, <2>7, SMTT(30) DEF RequestRaises, Reply, dbVars, TypeOK, ReqTyped
  <2> QED BY <1>2, <1>a, <2>0, <2>1, <2>2, <2>3, <2>4, <2>5, <2>6, <2>7 DEF RequestStep
<1>3. ASSUME NEW j \in Jobs, JobStep(j)
      PROVE  UNCHANGED <<live, files, reqPc, reqOf>>
  BY <1>3 DEF JobStep, JobLoad, JobReset, JobPending, JobRead, JobText,
     JobProcessing, JobStage1, JobStage2, JobStage3, JobFinish, JobFail,
     JobRaises, HandlerLoad, HandlerMark, HandlerRaises, Load, Write,
     WriteLast, Commit, dbVars, reqVars
<1> QED BY <1>0, <1>a, <1>1, <1>2, <1>3 DEF Next, vars, dbVars, reqVars

(* Files and rows agree until something raises or the worker stops: no      *)
(* interleaving of uploads, deletes and jobs leaves a file without a row or *)
(* a row without its file.                                                  *)
THEOREM FilesMatchRowsHolds == Spec => []FilesMatchRows
<1>1. Init => FilesMatchRows
  BY DEF Init, FilesMatchRows
<1>2. TypeOK /\ FileInv /\ FilesMatchRows /\ [Next]_vars => FilesMatchRows'
  BY NextFilesMatch
<1> QED BY <1>1, <1>2, FileInvariant, PTL DEF Spec

-----------------------------------------------------------------------------
(* Consent.                                                                 *)

(* Consent is written once, by the upload; whoever processes a contract has *)
(* found it given, and a row without it is as the upload left it.           *)
ConsentInv ==
    /\ live \subseteq used
    /\ \A k \in Clients : reqPc[k] # "idle" => reqOf[k] \in used
    /\ \A k \in Clients : reqPc[k] \in {"proc_commit", "proc_queue"} =>
         rows[reqOf[k]].consent
    /\ \A j \in Jobs : Active(j) => jobOf[j] \in used /\ rows[jobOf[j]].consent
    /\ \A c \in used : ~rows[c].consent =>
         /\ rows[c].status = "uploaded"
         /\ rows[c].text = NoJob
         /\ rows[c].stages = NoStages

LEMMA InitConsent == Init => ConsentInv
BY DEF Init, ConsentInv, Active

(* A commit changes one row, of a contract with consent, and keeps it so.   *)
LEMMA CommitConsent ==
    ASSUME TypeOK, ConsentInv, NEW j \in Jobs, NEW new, Commit(j, new), Active(j)
    PROVE  \A c \in Contracts : /\ rows'[c].consent <=> rows[c].consent
                                /\ ~rows[c].consent => rows'[c] = rows[c]
BY DEF Commit, Flush, ConsentInv, TypeOK

(* Nobody new, and no row without consent touched.                          *)
LEMMA ConsentKept ==
    ASSUME TypeOK, ConsentInv, UNCHANGED <<live, used, reqOf>>,
           \A c \in Contracts : /\ rows'[c].consent <=> rows[c].consent
                                /\ ~rows[c].consent => rows'[c] = rows[c],
           \A k \in Clients :
               /\ reqPc'[k] # "idle" => reqPc[k] # "idle"
               /\ reqPc'[k] \in {"proc_commit", "proc_queue"} =>
                    reqPc[k] \in {"proc_commit", "proc_queue"},
           \A j \in Jobs : Active(j)' => Active(j) /\ jobOf'[j] = jobOf[j]
    PROVE  ConsentInv'
<1>1. used \subseteq Contracts
  BY DEF TypeOK
<1>2. \A k \in Clients : reqPc'[k] \in {"proc_commit", "proc_queue"} =>
         rows'[reqOf'[k]].consent
  BY <1>1 DEF ConsentInv
<1>3. \A j \in Jobs : Active(j)' => jobOf'[j] \in used' /\ rows'[jobOf'[j]].consent
  BY <1>1 DEF ConsentInv
<1> QED BY <1>1, <1>2, <1>3 DEF ConsentInv

LEMMA NextConsent == TypeOK /\ ConsentInv /\ [Next]_vars => ConsentInv'
<1> SUFFICES ASSUME TypeOK, ConsentInv, [Next]_vars PROVE ConsentInv'
  OBVIOUS
<1>t. TypeOK /\ ReqTyped /\ JobTyped /\ used \subseteq Contracts
  BY DEF TypeOK
<1>1. ASSUME NEW k \in Clients, RequestStarts(k) PROVE ConsentInv'
  <2>1. ASSUME NEW c \in Contracts, NEW consent \in BOOLEAN, NEW foreign \in BOOLEAN,
               UploadInsert(k, c, consent, foreign)
        PROVE  ConsentInv'
    BY <1>t, <2>1 DEF UploadInsert, Accept, Uploaded, jobVars, Active, TypeOK,
       ReqTyped, JobTyped, ConsentInv
  <2>2. ASSUME NEW c \in Contracts, ProcessLoad(k, c) PROVE ConsentInv'
    BY <1>t, <2>2 DEF ProcessLoad, Accept, dbVars, jobVars, Active, ReqTyped, ConsentInv
  <2>3. ASSUME NEW c \in Contracts, DeleteLoad(k, c) PROVE ConsentInv'
    BY <1>t, <2>3 DEF DeleteLoad, Accept, dbVars, jobVars, Active, ReqTyped, ConsentInv
  <2> QED BY <1>1, <2>1, <2>2, <2>3 DEF RequestStarts
<1>2. ASSUME NEW k \in Clients, RequestStep(k) PROVE ConsentInv'
  <2> USE DEF ConsentInv, ReqTyped
  <2>1. CASE UploadSave(k)
    BY <1>t, <2>1 DEF UploadSave, Goto, dbVars, jobVars, Active
  <2>2. CASE UploadCommit(k)
    BY <1>t, <2>2 DEF UploadCommit, Reply, jobVars, Active
  <2>3. CASE ProcessReserve(k)
    <3>1. \A c \in Contracts : /\ rows'[c].consent <=> rows[c].consent
                               /\ ~rows[c].consent => rows'[c] = rows[c]
      BY <1>t, <2>3 DEF ProcessReserve, Flush, TypeOK
    <3> QED BY <1>t, <2>3, <3>1, ConsentKept DEF ProcessReserve, Goto, jobVars, Active
  <2>4. ASSUME NEW j \in Jobs, ProcessQueue(k, j) PROVE ConsentInv'
    BY <1>t, <2>4 DEF ProcessQueue, Reply, dbVars, Active, JobTyped
  <2>5. CASE DeleteFile(k)
    BY <1>t, <2>5 DEF DeleteFile, Goto, dbVars, jobVars, Active
  <2>6. CASE DeleteCommit(k)
    BY <1>t, <2>6 DEF DeleteCommit, Reply, jobVars, Active
  <2>7. CASE RequestRaises(k)
    BY <1>t, <2>7 DEF RequestRaises, Reply, dbVars, jobVars, Active
  <2> QED BY <1>2, <2>1, <2>2, <2>3, <2>4, <2>5, <2>6, <2>7 DEF RequestStep
<1>3. ASSUME NEW j \in Jobs, JobStep(j) PROVE ConsentInv'
  <2>1. /\ UNCHANGED <<live, used, reqPc, reqOf>>
        /\ \A i \in Jobs : Active(i)' => Active(i) /\ jobOf'[i] = jobOf[i]
    BY <1>t, <1>3 DEF JobStep, JobLoad, JobReset, JobPending, JobRead, JobText,
       JobProcessing, JobStage1, JobStage2, JobStage3, JobFinish, JobFail,
       JobRaises, HandlerLoad, HandlerMark, HandlerRaises, Load, Write, Step, Stop,
       WriteLast, Commit, Writing, dbVars, reqVars, Active, JobTyped
  <2>2. \A c \in Contracts : /\ rows'[c].consent <=> rows[c].consent
                             /\ ~rows[c].consent => rows'[c] = rows[c]
    <3>1. \/ UNCHANGED rows
          \/ Active(j) /\ \E new : Commit(j, new)
      BY <1>3 DEF JobStep, JobLoad, JobReset, JobPending, JobRead, JobText,
         JobProcessing, JobStage1, JobStage2, JobStage3, JobFinish, JobFail,
         JobRaises, HandlerLoad, HandlerMark, HandlerRaises, Load, Write,
         WriteLast, dbVars, Active
    <3> QED BY <3>1, CommitConsent
  <2> QED BY <2>1, <2>2, ConsentKept
<1>4. CASE Crash
  BY <1>t, <1>4 DEF Crash, dbVars, Active, ConsentInv
<1>5. CASE UNCHANGED vars
  BY <1>5 DEF vars, dbVars, reqVars, jobVars, Active, ConsentInv
<1> QED BY <1>1, <1>2, <1>3, <1>4, <1>5 DEF Next

(* A contract without recorded consent is never read, whatever its requests *)
(* race with.                                                               *)
THEOREM UnconsentedUntouchedHolds == Spec => []UnconsentedUntouched
<1>1. Init => TypeOK /\ ConsentInv
  BY InitType, InitConsent
<1>2. TypeOK /\ ConsentInv /\ [Next]_vars => (TypeOK /\ ConsentInv)'
  BY NextType, NextConsent
<1>3. ConsentInv => UnconsentedUntouched
  BY DEF ConsentInv, UnconsentedUntouched, Working
<1> QED BY <1>1, <1>2, <1>3, PTL DEF Spec

-----------------------------------------------------------------------------
(* One fault.                                                               *)

(* Where a job has marked its copy of the row as being read.                *)
Reading == {"read", "text", "processing", "stage1", "stage2", "stage3",
            "finish", "fail"}

(* A contract whose upload is not committed is nobody else's; a job that    *)
(* is about to end holds a copy that is being read, so that "ready" and     *)
(* "failed" are a change for it and are written.                            *)
CourseInv ==
    /\ \A k \in Clients : Uploads(k) =>
         /\ rows[reqOf[k]].status = "uploaded"
         /\ \A j \in Jobs : Active(j) => jobOf[j] # reqOf[k]
    /\ \A j \in Jobs : Active(j) => jobOf[j] \in used
    /\ \A j \in Jobs : jobPc[j] \in Reading => loc[j].status \in InProgress

Base == TypeOK /\ FileInv /\ CourseInv

Held(c) == Working(c) \/ Requested(c, {"proc_queue"})
HeldBeside(j, c) ==
    \/ \E i \in Jobs \ {j} : Active(i) /\ jobOf[i] = c
    \/ Requested(c, {"proc_queue"})
OnFailurePath(j) == jobPc[j] \in {"handler", "mark"} /\ jobOf[j] \in live

(* As long as one fault is all that happened, at most one job is on the     *)
(* failure path with a row to mark.  If it found the row failed already, it *)
(* writes nothing; should the contract be read again by now, somebody else  *)
(* is at it.                                                                *)
OneFaultInv ==
    faults <= 1 =>
      /\ \A j \in Jobs : OnFailurePath(j) => faults = 1
      /\ \A i, j \in Jobs : OnFailurePath(i) /\ OnFailurePath(j) => i = j
      /\ \A j \in Jobs :
           /\ OnFailurePath(j) /\ jobPc[j] = "mark" /\ loc[j].status = "failed"
           /\ rows[jobOf[j]].status \in InProgress
           => HeldBeside(j, jobOf[j])

(* A step that leaves nobody's contract behind.                             *)
NewlyStranded(c) == Stranded(c)' /\ ~Stranded(c)
StrandsNobody == faults' <= 1 => \A c \in Contracts : ~NewlyStranded(c)

(* What a step of a job changes: its own place and copy, and the status of  *)
(* its row.  It goes on, ends without a row, settles the row, raises, or    *)
(* goes the way of the handler.                                             *)
Carries(j) ==
    /\ jobPc'[j] \notin {"handler", "mark", "unused", "done"}
    /\ UNCHANGED faults
    /\ jobPc'[j] \in Reading => loc'[j].status \in InProgress
Leaves(j) ==
    /\ jobPc'[j] = "done" /\ UNCHANGED rows
    /\ \/ jobOf[j] \notin live /\ faults' \in {faults, faults + 1}
       \/ OnFailurePath(j) /\ faults' = faults + 1
Settles(j) ==
    /\ jobPc[j] \in {"finish", "fail"}
    /\ jobPc'[j] = "done" /\ UNCHANGED faults
    /\ rows'[jobOf[j]].status \in {"ready", "failed"}
Falls(j) ==
    /\ jobPc[j] \notin {"handler", "mark"} /\ jobPc'[j] = "handler" /\ UNCHANGED rows
    /\ faults' = faults + 1 \/ (jobOf[j] \notin live /\ UNCHANGED faults)
Looks(j) ==
    /\ jobPc[j] = "handler" /\ jobPc'[j] = "mark" /\ jobOf[j] \in live
    /\ loc'[j] = rows[jobOf[j]] /\ UNCHANGED <<rows, faults>>
Marks(j) ==
    /\ jobPc[j] = "mark" /\ jobPc'[j] = "done" /\ jobOf[j] \in live
    /\ UNCHANGED faults
    /\ rows'[jobOf[j]].status = Column(rows[jobOf[j]].status, loc[j].status, "failed")

LEMMA WriteCarries ==
    ASSUME TypeOK, NEW j \in Jobs, NEW new, Write(j, new, jobPc'[j]),
           jobPc'[j] \notin {"handler", "mark", "unused", "done"},
           jobPc'[j] \in Reading => new.status \in InProgress
    PROVE  Carries(j)
BY DEF Write, Commit, Carries, bounds, TypeOK, JobTyped

(* A job is in one of these six courses.                                    *)
LEMMA JobCourse ==
    ASSUME TypeOK, CourseInv, NEW j \in Jobs, JobStep(j)
    PROVE  Carries(j) \/ Leaves(j) \/ Settles(j) \/ Falls(j) \/ Looks(j) \/ Marks(j)
<1> DEFINE r == loc[j]
           c == jobOf[j]
<1>0. r \in Row /\ jobPc \in [Jobs -> JobPcs] /\ rows \in [Contracts -> Row]
  BY DEF TypeOK, JobTyped
<1>p. \A pc, new : Write(j, new, pc) => jobPc'[j] = pc
  BY <1>0 DEF Write
<1>s. \A pc : Step(j, pc) => jobPc'[j] = pc /\ loc'[j] = loc[j]
  BY <1>0 DEF Step
<1>d. /\ Stop(j) => jobPc'[j] = "done"
      /\ \A pc : c \in live /\ Load(j, pc) =>
            jobPc'[j] = pc /\ loc'[j] = rows[c] /\ UNCHANGED <<rows, faults>>
      /\ \A pc : c \notin live /\ Load(j, pc) => jobPc'[j] = "done" /\ UNCHANGED <<rows, faults>>
  BY <1>0 DEF Stop, Load, TypeOK, JobTyped, dbVars, bounds
<1>i. jobPc[j] \in Reading => r.status \in InProgress
  BY DEF CourseInv
<1>w. ASSUME NEW new \in Row, WriteLast(j, new)
      PROVE  /\ jobPc'[j] = "done" /\ UNCHANGED faults /\ c \in live
             /\ rows'[c].status = Column(rows[c].status, r.status, new.status)
  BY <1>0, <1>d, <1>w DEF WriteLast, Commit, Flush, bounds, TypeOK
<1>1. CASE JobLoad(j)
  <2>1. CASE c \in live
    BY <1>1, <1>d, <2>1 DEF JobLoad, Carries, Reading
  <2>2. CASE c \notin live
    BY <1>1, <1>d, <2>2 DEF JobLoad, Leaves
  <2> QED BY <2>1, <2>2
<1>2. CASE JobReset(j)
  BY <1>2, <1>p, WriteCarries DEF JobReset, Reading
<1>3. CASE JobPending(j)
  <2>1. [r EXCEPT !.status = "ocr_pending"].status \in InProgress
    BY <1>0 DEF Row, InProgress
  <2> QED BY <1>3, <1>p, <2>1, WriteCarries DEF JobPending
<1>4. CASE JobRead(j)
  BY <1>4, <1>s, <1>i DEF JobRead, Carries, Reading, bounds
<1>5. CASE JobText(j)
  <2>1. [r EXCEPT !.text = j, !.status = "ocr_done"].status \in InProgress
    BY <1>0 DEF Row, InProgress
  <2> QED BY <1>5, <1>p, <2>1, WriteCarries DEF JobText
<1>6. CASE JobProcessing(j)
  <2>1. [r EXCEPT !.status = "processing"].status \in InProgress
    BY <1>0 DEF Row, InProgress
  <2> QED BY <1>6, <1>p, <2>1, WriteCarries DEF JobProcessing
<1>7. CASE JobStage1(j)
  <2>1. ASSUME Step(j, "fail"), UNCHANGED <<dbVars, files, reqVars, bounds, contested>>
        PROVE  Carries(j)
    BY <1>7, <2>1, <1>s, <1>i DEF JobStage1, Carries, Reading, bounds
  <2>2. ASSUME NEW ok \in BOOLEAN,
               Write(j, [r EXCEPT !.stages.s1 = [by |-> j, ok |-> ok]],
                     IF ok THEN "stage2" ELSE "fail")
        PROVE  Carries(j)
    <3>1. [r EXCEPT !.stages.s1 = [by |-> j, ok |-> ok]].status = r.status
      BY <1>0 DEF Row
    <3>2. r.status \in InProgress
      BY <1>7, <1>i DEF JobStage1, Reading
    <3> QED BY <2>2, <1>p, <3>1, <3>2, WriteCarries
  <2> QED BY <1>7, <2>1, <2>2 DEF JobStage1
<1>8. CASE JobStage2(j)
  <2>1. PICK ok \in BOOLEAN :
          Write(j, [r EXCEPT !.stages.s2 = [by |-> j, ok |-> ok]], "stage3")
    BY <1>8 DEF JobStage2
  <2>2. [r EXCEPT !.stages.s2 = [by |-> j, ok |-> ok]].status = r.status
    BY <1>0 DEF Row
  <2>3. r.status \in InProgress
    BY <1>8, <1>i DEF JobStage2, Reading
  <2> QED BY <2>1, <1>p, <2>2, <2>3, WriteCarries
<1>9. CASE JobStage3(j)
  <2>1. PICK ok \in BOOLEAN :
          Write(j, [r EXCEPT !.stages.s3 = [by |-> j, ok |-> ok],
                             !.stages.tr = "none"],
                IF ok THEN "finish" ELSE "fail")
    BY <1>9 DEF JobStage3
  <2>2. [r EXCEPT !.stages.s3 = [by |-> j, ok |-> ok], !.stages.tr = "none"].status = r.status
    BY <1>0 DEF Row
  <2>3. r.status \in InProgress
    BY <1>9, <1>i DEF JobStage3, Reading
  <2> QED BY <2>1, <1>p, <2>2, <2>3, WriteCarries
<1>10. CASE JobFinish(j)
  <2>1. PICK tr \in {"none", "translated", "english"} :
          WriteLast(j, [r EXCEPT !.stages.tr = tr, !.status = "ready"])
    BY <1>10 DEF JobFinish
  <2>2. /\ [r EXCEPT !.stages.tr = tr, !.status = "ready"] \in Row
        /\ [r EXCEPT !.stages.tr = tr, !.status = "ready"].status = "ready"
    BY <1>0 DEF Row, Stages, Statuses
  <2>3. r.status # "ready"
    BY <1>10, <1>i DEF JobFinish, Reading, InProgress
  <2> QED BY <1>10, <1>w, <2>1, <2>2, <2>3 DEF JobFinish, Settles, Column
<1>11. CASE JobFail(j)
  <2>1. /\ [r EXCEPT !.status = "failed", !.error = "stage"] \in Row
        /\ [r EXCEPT !.status = "failed", !.error = "stage"].status = "failed"
    BY <1>0 DEF Row, Statuses, Startable, Errors
  <2>2. r.status # "failed"
    BY <1>11, <1>i DEF JobFail, Reading, InProgress
  <2> QED BY <1>11, <1>w, <2>1, <2>2 DEF JobFail, Settles, Column
<1>12. CASE JobRaises(j)
  BY <1>0, <1>12 DEF JobRaises, Fault, Falls, Writing, bounds, dbVars
<1>13. CASE HandlerLoad(j)
  <2>1. CASE c \in live
    BY <1>13, <1>d, <2>1 DEF HandlerLoad, Looks
  <2>2. CASE c \notin live
    BY <1>13, <1>d, <2>2 DEF HandlerLoad, Leaves
  <2> QED BY <2>1, <2>2
<1>14. CASE HandlerMark(j)
  <2>1. /\ [r EXCEPT !.status = "failed", !.error = "stopped"] \in Row
        /\ [r EXCEPT !.status = "failed", !.error = "stopped"].status = "failed"
    BY <1>0 DEF Row, Statuses, Startable, Errors
  <2> QED BY <1>14, <1>w, <2>1 DEF HandlerMark, Marks
<1>15. CASE HandlerRaises(j)
  BY <1>15, <1>d DEF HandlerRaises, Fault, Leaves, OnFailurePath, bounds, dbVars
<1> QED BY <1>1, <1>2, <1>3, <1>4, <1>5, <1>6, <1>7, <1>8, <1>9, <1>10, <1>11,
           <1>12, <1>13, <1>14, <1>15 DEF JobStep

(* ... and leaves everybody else alone.                                     *)
JobFrame(j) ==
    /\ UNCHANGED <<live, used, reqPc, reqOf, seen, contested, crashes>>
    /\ \A i \in Jobs \ {j} : UNCHANGED <<jobPc[i], jobOf[i], loc[i]>>
    /\ jobPc'[j] # "done" => jobOf'[j] = jobOf[j]
    /\ \A d \in Contracts : d # jobOf[j] => rows'[d] = rows[d]
    /\ Active(j)

LEMMA JobStepFrame ==
    ASSUME TypeOK, NEW j \in Jobs, JobStep(j)
    PROVE  JobFrame(j)
<1>1. /\ UNCHANGED <<live, used, reqPc, reqOf, seen, contested, crashes>>
      /\ \A d \in Contracts : d # jobOf[j] => rows'[d] = rows[d]
      /\ Active(j)
  BY DEF JobStep, JobLoad, JobReset, JobPending, JobRead, JobText,
     JobProcessing, JobStage1, JobStage2, JobStage3, JobFinish, JobFail,
     JobRaises, HandlerLoad, HandlerMark, HandlerRaises, Load, Write,
     WriteLast, Commit, Fault, Writing, Active, dbVars, reqVars, bounds, TypeOK
<1>2. /\ \A i \in Jobs \ {j} : UNCHANGED <<jobPc[i], jobOf[i], loc[i]>>
      /\ jobPc'[j] # "done" => jobOf'[j] = jobOf[j]
  BY DEF JobStep, JobLoad, JobReset, JobPending, JobRead, JobText,
     JobProcessing, JobStage1, JobStage2, JobStage3, JobFinish, JobFail,
     JobRaises, HandlerLoad, HandlerMark, HandlerRaises, Load, Write,
     WriteLast, Step, Stop, TypeOK, JobTyped
<1> QED BY <1>1, <1>2, SMTT(30) DEF JobFrame

LEMMA JobStepBase ==
    ASSUME Base, NEW j \in Jobs, JobStep(j)
    PROVE  CourseInv'
<1>1. /\ JobFrame(j) /\ used \subseteq Contracts
      /\ Carries(j) \/ Leaves(j) \/ Settles(j) \/ Falls(j) \/ Looks(j) \/ Marks(j)
  BY JobStepFrame, JobCourse DEF Base, TypeOK
<1>2. \A i \in Jobs : Active(i)' => Active(i) /\ jobOf'[i] = jobOf[i]
  BY <1>1 DEF JobFrame, Active
<1>3. \A k \in Clients : Uploads(k)' => Uploads(k) /\ reqOf'[k] = reqOf[k]
  BY <1>1 DEF JobFrame, Uploads
<1>4. ASSUME NEW k \in Clients, Uploads(k) PROVE rows'[reqOf[k]] = rows[reqOf[k]]
  <2>1. reqOf[k] # jobOf[j] /\ reqOf[k] \in Contracts
    BY <1>1, <1>4 DEF Base, CourseInv, JobFrame, Uploads, TypeOK, ReqTyped
  <2> QED BY <1>1, <2>1 DEF JobFrame
<1>5. \A i \in Jobs : jobPc'[i] \in Reading => loc'[i].status \in InProgress
  <2>1. jobPc'[j] \in Reading => loc'[j].status \in InProgress
    BY <1>1 DEF Carries, Leaves, Settles, Falls, Looks, Marks, Reading
  <2> QED BY <1>1, <2>1 DEF JobFrame, Base, CourseInv
<1> QED BY <1>1, <1>2, <1>3, <1>4, <1>5 DEF CourseInv, Base, JobFrame

(* Requests keep the course of things.                                      *)
LEMMA RequestBase ==
    ASSUME Base, NEW k \in Clients, RequestStarts(k) \/ RequestStep(k)
    PROVE  CourseInv'
<1> USE DEF Uploads
<1>t. /\ used \subseteq Contracts /\ rows \in [Contracts -> Row]
      /\ reqPc \in [Clients -> ReqPcs] /\ reqOf \in [Clients -> Contracts \cup {NoContract}]
      /\ jobPc \in [Jobs -> JobPcs] /\ jobOf \in [Jobs -> Contracts \cup {NoContract}]
  BY DEF Base, TypeOK, ReqTyped, JobTyped
<1>f. /\ FileInv /\ CourseInv
  BY DEF Base
<1>1. ASSUME NEW c \in Contracts, NEW consent \in BOOLEAN, NEW foreign \in BOOLEAN,
             UploadInsert(k, c, consent, foreign)
      PROVE  CourseInv'
  <2>1. rows' = [rows EXCEPT ![c] = Uploaded(consent, foreign)] /\ c \notin used
    BY <1>1 DEF UploadInsert
  <2>2. rows'[c].status = "uploaded" /\ \A d \in used : rows'[d] = rows[d]
    BY <1>t, <2>1 DEF Uploaded
  <2> QED BY <1>1, <1>t, <1>f, <2>1, <2>2
          DEF UploadInsert, Accept, jobVars, Active, FileInv, CourseInv
<1>2. ASSUME NEW c \in Contracts, ProcessLoad(k, c) \/ DeleteLoad(k, c)
      PROVE  CourseInv'
  BY <1>2, <1>t, <1>f DEF ProcessLoad, DeleteLoad, Accept, dbVars, jobVars, Active, CourseInv
<1>3. CASE UploadSave(k) \/ DeleteFile(k)
  BY <1>3, <1>t, <1>f DEF UploadSave, DeleteFile, Goto, dbVars, jobVars, Active, CourseInv
<1>4. CASE UploadCommit(k) \/ DeleteCommit(k) \/ RequestRaises(k)
  <2>1. Reply(k) /\ UNCHANGED <<rows, used, jobVars>>
    BY <1>4 DEF UploadCommit, DeleteCommit, RequestRaises, dbVars
  <2> QED BY <2>1, <1>t, <1>f DEF Reply, jobVars, Active, CourseInv
<1>5. CASE ProcessReserve(k)
  <2>1. \A i \in Clients : Uploads(i)' => /\ Uploads(i) /\ reqOf'[i] = reqOf[i]
                                          /\ reqOf[i] # reqOf[k] /\ reqOf[i] \in Contracts
    BY <1>5, <1>t, <1>f DEF ProcessReserve, Goto, FileInv
  <2>2. \A d \in Contracts : d # reqOf[k] => rows'[d] = rows[d]
    BY <1>5, <1>t DEF ProcessReserve
  <2> QED BY <1>5, <1>f, <2>1, <2>2 DEF ProcessReserve, jobVars, Active, CourseInv
<1>6. ASSUME NEW j \in Jobs, ProcessQueue(k, j) PROVE CourseInv'
  <2>1. /\ \A i \in Clients : Uploads(i)' => /\ Uploads(i) /\ reqOf'[i] = reqOf[i]
                                             /\ reqOf[i] # reqOf[k]
        /\ reqOf[k] \in used /\ UNCHANGED <<rows, used, loc>>
    BY <1>6, <1>t, <1>f DEF ProcessQueue, Reply, FileInv, dbVars
  <2>2. \A i \in Jobs : /\ jobPc'[i] = IF i = j THEN "queued" ELSE jobPc[i]
                        /\ jobOf'[i] = IF i = j THEN reqOf[k] ELSE jobOf[i]
    BY <1>6, <1>t DEF ProcessQueue
  <2> QED BY <1>f, <2>1, <2>2 DEF Active, Reading, CourseInv
<1> QED BY <1>1, <1>2, <1>3, <1>4, <1>5, <1>6 DEF RequestStarts, RequestStep

LEMMA NextBase == Base /\ [Next]_vars => Base'
<1> SUFFICES ASSUME Base, [Next]_vars PROVE Base'
  OBVIOUS
<1>1. TypeOK' /\ FileInv'
  BY NextType, NextFileInv DEF Base
<1>2. CASE \E k \in Clients : RequestStarts(k) \/ RequestStep(k)
  BY <1>1, <1>2, RequestBase DEF Base
<1>3. CASE \E j \in Jobs : JobStep(j)
  BY <1>1, <1>3, JobStepBase DEF Base
<1>4. CASE Crash
  BY <1>1, <1>4 DEF Base, Crash, CourseInv, Uploads, Active, Reading, TypeOK, JobTyped
<1>5. CASE UNCHANGED vars
  BY <1>1, <1>5 DEF vars, dbVars, reqVars, jobVars, Base, CourseInv, Uploads, Active
<1> QED BY <1>2, <1>3, <1>4, <1>5 DEF Next

(* A step of a request that hands no job over: nobody stops working, and a  *)
(* contract that comes to be read is reserved by then.                      *)
LEMMA CalmStep ==
    ASSUME TypeOK, OneFaultInv, UNCHANGED <<jobPc, jobOf, loc, crashes>>,
           faults' \in {faults, faults + 1},
           \A d \in live' : rows'[d].status \in InProgress =>
               \/ d \in live /\ rows[d].status \in InProgress
               \/ Requested(d, {"proc_queue"})',
           \A d \in live' : Requested(d, {"proc_queue"}) => Requested(d, {"proc_queue"})',
           \A j \in Jobs : Active(j) /\ jobOf[j] \in live' => jobOf[j] \in live
    PROVE  OneFaultInv' /\ StrandsNobody
<1> SUFFICES ASSUME faults' <= 1
             PROVE  OneFaultInv' /\ \A d \in Contracts : ~NewlyStranded(d)
  BY DEF OneFaultInv, StrandsNobody
<1>1. faults <= 1 /\ faults \in Nat
  BY ConstantsAssumption DEF TypeOK
<1>2. \A j \in Jobs : OnFailurePath(j)' => OnFailurePath(j)
  BY DEF OnFailurePath, Active
<1>3. \A d \in live' : Held(d) => Held(d)'
  BY DEF Held, Working, Active
<1>4. \A d \in Contracts : ~NewlyStranded(d)
  BY <1>3 DEF NewlyStranded, Stranded, Held
<1>5. \A j \in Jobs : OnFailurePath(j)' => faults' = 1
  BY <1>1, <1>2 DEF OneFaultInv
<1>6. \A i, j \in Jobs : OnFailurePath(i)' /\ OnFailurePath(j)' => i = j
  BY <1>1, <1>2 DEF OneFaultInv
<1>7. ASSUME NEW j \in Jobs, OnFailurePath(j)', jobPc'[j] = "mark",
             loc'[j].status = "failed", rows'[jobOf'[j]].status \in InProgress
      PROVE  HeldBeside(j, jobOf[j])'
  <2>1. OnFailurePath(j) /\ jobOf[j] \in live' /\ jobOf[j] \in Contracts
    BY <1>2, <1>7 DEF OnFailurePath, TypeOK
  <2>2. CASE rows[jobOf[j]].status \in InProgress
    <3>1. HeldBeside(j, jobOf[j])
      BY <1>1, <1>7, <2>1, <2>2 DEF OneFaultInv
    <3> QED BY <2>1, <3>1 DEF HeldBeside, Active
  <2>3. CASE Requested(jobOf[j], {"proc_queue"})'
    BY <2>3 DEF HeldBeside, Requested
  <2> QED BY <1>7, <2>1, <2>2, <2>3
<1> QED BY <1>4, <1>5, <1>6, <1>7 DEF OneFaultInv

LEMMA RequestOneFault ==
    ASSUME Base, OneFaultInv, NEW k \in Clients, RequestStarts(k) \/ RequestStep(k)
    PROVE  /\ OneFaultInv'
           /\ \/ StrandsNobody
              \/ /\ RequestRaises(k) /\ reqPc[k] = "proc_queue"
                 /\ \A c \in Contracts : NewlyStranded(c) => reqOf[k] = c
<1>t. /\ used \subseteq Contracts /\ live \subseteq Contracts /\ rows \in [Contracts -> Row]
      /\ reqPc \in [Clients -> ReqPcs] /\ reqOf \in [Clients -> Contracts \cup {NoContract}]
      /\ jobPc \in [Jobs -> JobPcs] /\ jobOf \in [Jobs -> Contracts \cup {NoContract}]
      /\ TypeOK
  BY DEF Base, TypeOK, ReqTyped, JobTyped
<1>f. FileInv /\ CourseInv
  BY DEF Base
<1>k. ASSUME \A i \in Clients \ {k} : UNCHANGED <<reqPc[i], reqOf[i]>>,
             reqPc[k] # "proc_queue", NEW d \in Contracts, Requested(d, {"proc_queue"})
      PROVE  Requested(d, {"proc_queue"})'
  BY <1>k DEF Requested
<1>a. \A c, pc, copy : Accept(k, c, pc, copy) =>
        /\ reqPc[k] # "proc_queue"
        /\ \A i \in Clients \ {k} : UNCHANGED <<reqPc[i], reqOf[i]>>
  BY <1>t DEF Accept
<1>g. \A pc : Goto(k, pc) => \A i \in Clients \ {k} : UNCHANGED <<reqPc[i], reqOf[i]>>
  BY <1>t DEF Goto
<1>r. Reply(k) => \A i \in Clients \ {k} : UNCHANGED <<reqPc[i], reqOf[i]>>
  BY <1>t DEF Reply
<1>1. ASSUME NEW c \in Contracts, NEW consent \in BOOLEAN, NEW foreign \in BOOLEAN,
             UploadInsert(k, c, consent, foreign)
      PROVE  OneFaultInv' /\ StrandsNobody
  <2>1. \A d \in live : rows'[d] = rows[d]
    BY <1>1, <1>t, <1>f DEF UploadInsert, FileInv
  <2> QED BY <1>1, <1>a, <1>k, <1>t, <2>1, CalmStep DEF UploadInsert, jobVars, bounds
<1>2. ASSUME NEW c \in Contracts, ProcessLoad(k, c) \/ DeleteLoad(k, c)
      PROVE  OneFaultInv' /\ StrandsNobody
  BY <1>2, <1>a, <1>k, <1>t, CalmStep DEF ProcessLoad, DeleteLoad, dbVars, jobVars, bounds
<1>3. ASSUME UploadSave(k) \/ DeleteFile(k) PROVE OneFaultInv' /\ StrandsNobody
  BY <1>3, <1>g, <1>k, <1>t, CalmStep DEF UploadSave, DeleteFile, dbVars, jobVars, bounds
<1>4. ASSUME UploadCommit(k) PROVE OneFaultInv' /\ StrandsNobody
  <2>1. /\ rows[reqOf[k]].status \notin InProgress
        /\ \A j \in Jobs : Active(j) => jobOf[j] # reqOf[k]
    BY <1>4, <1>f DEF UploadCommit, CourseInv, Uploads, InProgress
  <2>2. /\ live' = live \cup {reqOf[k]} /\ live' \subseteq Contracts
        /\ UNCHANGED <<rows, jobPc, jobOf, loc, faults, crashes>>
    BY <1>4, <1>t DEF UploadCommit, TypeOK, ReqTyped, jobVars, bounds
  <2>3. \A d \in live' : Requested(d, {"proc_queue"}) => Requested(d, {"proc_queue"})'
    BY <1>4, <1>r, <1>k, <2>2 DEF UploadCommit
  <2> QED BY <1>t, <2>1, <2>2, <2>3, CalmStep
<1>5. ASSUME DeleteCommit(k) PROVE OneFaultInv' /\ StrandsNobody
  BY <1>5, <1>r, <1>k, <1>t, CalmStep DEF DeleteCommit, jobVars, bounds
<1>6. CASE RequestRaises(k)
  <2>1. /\ faults' \in {faults, faults + 1} /\ UNCHANGED crashes
        /\ reqPc[k] = "proc_queue" /\ UNCHANGED faults => reqOf[k] \notin live
        /\ UNCHANGED <<live, rows, jobPc, jobOf, loc>>
        /\ \A i \in Clients \ {k} : UNCHANGED <<reqPc[i], reqOf[i]>>
        /\ faults \in Nat
    BY <1>6, <1>r, <1>t, ConstantsAssumption
       DEF RequestRaises, Fault, bounds, dbVars, jobVars, TypeOK
  <2>2. CASE reqPc[k] # "proc_queue" \/ UNCHANGED faults
    <3>1. \A d \in live' : Requested(d, {"proc_queue"}) => Requested(d, {"proc_queue"})'
      BY <2>1, <2>2 DEF Requested
    <3> QED BY <1>t, <2>1, <3>1, CalmStep
  <2>3. CASE reqPc[k] = "proc_queue" /\ faults' = faults + 1
    <3>1. \A j \in Jobs : OnFailurePath(j)' => OnFailurePath(j)
      BY <2>1 DEF OnFailurePath
    <3>2. OneFaultInv'
      BY <2>1, <2>3, <3>1 DEF OneFaultInv
    <3>3. \A d \in Contracts : NewlyStranded(d) => reqOf[k] = d
      BY <2>1 DEF NewlyStranded, Stranded, Working, Active, Requested
    <3> QED BY <1>6, <2>3, <3>2, <3>3
  <2> QED BY <2>1, <2>2, <2>3
<1>7. ASSUME ProcessReserve(k) PROVE OneFaultInv' /\ StrandsNobody
  <2>1. \A d \in Contracts : d # reqOf[k] => rows'[d] = rows[d]
    BY <1>7, <1>t DEF ProcessReserve
  <2>2. \A d \in live' : rows'[d].status \in InProgress =>
            \/ d \in live /\ rows[d].status \in InProgress
            \/ Requested(d, {"proc_queue"})'
    <3>1. \A d \in live' : d \in live /\ d \in Contracts
      BY <1>7, <1>t DEF ProcessReserve
    <3>2. \A d \in live' : d = reqOf[k] => Requested(d, {"proc_queue"})'
      BY <1>7, <1>t DEF ProcessReserve, Goto, Requested
    <3> QED BY <2>1, <3>1, <3>2
  <2>3. \A d \in live' : Requested(d, {"proc_queue"}) => Requested(d, {"proc_queue"})'
    BY <1>7, <1>t, <1>g, <1>k DEF ProcessReserve
  <2> QED BY <1>7, <1>t, <2>2, <2>3, CalmStep DEF ProcessReserve, jobVars, bounds
<1>8. ASSUME NEW j \in Jobs, ProcessQueue(k, j) PROVE OneFaultInv' /\ StrandsNobody
  <2>1. /\ \A i \in Jobs : /\ jobPc'[i] = IF i = j THEN "queued" ELSE jobPc[i]
                           /\ jobOf'[i] = IF i = j THEN reqOf[k] ELSE jobOf[i]
        /\ jobPc[j] = "unused" /\ UNCHANGED <<live, rows, loc, faults, crashes>>
    BY <1>8, <1>t DEF ProcessQueue, dbVars, bounds
  <2>2. \A i \in Jobs : /\ OnFailurePath(i)' => OnFailurePath(i) /\ i # j
                        /\ Active(i) => Active(i)' /\ jobOf'[i] = jobOf[i]
    BY <2>1 DEF OnFailurePath, Active
  <2>3. \A d \in Contracts : Requested(d, {"proc_queue"}) =>
          \/ Requested(d, {"proc_queue"})'
          \/ Active(j)' /\ jobOf'[j] = d
    BY <1>8, <1>r, <2>1 DEF ProcessQueue, Requested, Active
  <2>4. \A d \in Contracts : Held(d) => Held(d)'
    BY <2>2, <2>3 DEF Held, Working
  <2>5. \A d \in Contracts, i \in Jobs \ {j} : HeldBeside(i, d) => HeldBeside(i, d)'
    BY <2>2, <2>3 DEF HeldBeside
  <2>6. \A i \in Jobs : OnFailurePath(i)' => jobOf'[i] = jobOf[i] /\ jobOf[i] \in Contracts
    BY <1>t, <2>1, <2>2 DEF OnFailurePath
  <2> SUFFICES ASSUME faults' <= 1
               PROVE  OneFaultInv' /\ \A d \in Contracts : ~NewlyStranded(d)
    BY DEF OneFaultInv, StrandsNobody
  <2>7. \A d \in Contracts : ~NewlyStranded(d)
    BY <2>1, <2>4 DEF NewlyStranded, Stranded, Held
  <2>8. \A i \in Jobs : OnFailurePath(i)' => faults' = 1
    BY <2>1, <2>2 DEF OneFaultInv
  <2>9. \A i, h \in Jobs : OnFailurePath(i)' /\ OnFailurePath(h)' => i = h
    BY <2>1, <2>2 DEF OneFaultInv
  <2>10. ASSUME NEW i \in Jobs, OnFailurePath(i)', jobPc'[i] = "mark",
                loc'[i].status = "failed", rows'[jobOf'[i]].status \in InProgress
         PROVE  HeldBeside(i, jobOf[i])'
    BY <2>1, <2>2, <2>5, <2>6, <2>10 DEF OneFaultInv
  <2> QED BY <2>7, <2>8, <2>9, <2>10 DEF OneFaultInv
<1>9. ASSUME RequestStarts(k)
      PROVE  OneFaultInv' /\ StrandsNobody
  BY <1>1, <1>2, <1>9 DEF RequestStarts
<1>10. ASSUME RequestStep(k), ~RequestRaises(k)
       PROVE  OneFaultInv' /\ StrandsNobody
  BY <1>3, <1>4, <1>5, <1>7, <1>8, <1>10 DEF RequestStep
<1> QED BY <1>6, <1>9, <1>10

(* A step of a job: while it goes on it holds its contract; one that ends   *)
(* settles the row, or the row is gone, or somebody else is at it.          *)
LEMMA JobOneFault ==
    ASSUME Base, OneFaultInv, NEW j \in Jobs, JobStep(j)
    PROVE  OneFaultInv' /\ StrandsNobody
<1>0. PICK c \in Contracts : c = jobOf[j]
  BY JobStepFrame DEF Base, TypeOK, JobTyped, JobFrame
<1>t. TypeOK /\ CourseInv /\ live \subseteq Contracts /\ faults \in Nat
      /\ rows \in [Contracts -> Row] /\ c = jobOf[j]
  BY <1>0, ConstantsAssumption DEF Base, TypeOK
<1>1. /\ UNCHANGED <<live, reqPc, reqOf, crashes>> /\ Active(j)
      /\ \A i \in Jobs \ {j} : UNCHANGED <<jobPc[i], jobOf[i], loc[i]>>
      /\ jobPc'[j] # "done" => jobOf'[j] = c
      /\ \A d \in Contracts : d # c => rows'[d] = rows[d]
  BY JobStepFrame, <1>t DEF JobFrame
<1> SUFFICES ASSUME faults' <= 1
             PROVE  OneFaultInv' /\ \A d \in Contracts : ~NewlyStranded(d)
  BY DEF OneFaultInv, StrandsNobody
<1>2. Carries(j) \/ Leaves(j) \/ Settles(j) \/ Falls(j) \/ Looks(j) \/ Marks(j)
  BY JobCourse, <1>t
<1>3. faults' \in {faults, faults + 1} /\ faults <= 1
  BY <1>1, <1>2, <1>t DEF Carries, Leaves, Settles, Falls, Looks, Marks
<1>4. \A d \in Contracts : Requested(d, {"proc_queue"})' <=> Requested(d, {"proc_queue"})
  BY <1>1 DEF Requested
<1>5. \A i \in Jobs : Active(i) /\ i # j => Active(i)' /\ jobOf'[i] = jobOf[i]
  BY <1>1 DEF Active
<1>6. \A i \in Jobs : OnFailurePath(i)' /\ i # j => OnFailurePath(i)
  BY <1>1 DEF OnFailurePath
<1>7. OnFailurePath(j)' =>
        \/ OnFailurePath(j) /\ UNCHANGED <<faults, rows>> /\ loc'[j] = rows[c]
        \/ faults' = faults + 1 /\ UNCHANGED rows /\ jobPc'[j] = "handler"
  BY <1>0, <1>1, <1>2 DEF OnFailurePath, Carries, Leaves, Settles, Falls, Looks, Marks
<1>8. /\ \A i \in Jobs : OnFailurePath(i) => faults = 1
      /\ \A i, h \in Jobs : OnFailurePath(i) /\ OnFailurePath(h) => i = h
      /\ Held(c)
  BY <1>1, <1>3, <1>t DEF OneFaultInv, Held, Working
<1>9. \A i \in Jobs : OnFailurePath(i)' => faults' = 1
  BY <1>3, <1>6, <1>7, <1>8, <1>t
<1>10. \A i, h \in Jobs : OnFailurePath(i)' /\ OnFailurePath(h)' => i = h
  BY <1>3, <1>6, <1>7, <1>8, <1>t
<1>11. \A d \in Contracts, i \in Jobs : d # c /\ HeldBeside(i, d) => HeldBeside(i, d)'
  BY <1>1, <1>4, <1>5, <1>t DEF HeldBeside
<1>12. \A d \in Contracts : d # c /\ Held(d) => Held(d)'
  BY <1>1, <1>4, <1>5, <1>t DEF Held, Working
<1>13. HeldBeside(j, c) => Held(c)'
  BY <1>4, <1>5, <1>t DEF HeldBeside, Held, Working
<1>14. jobPc'[j] \notin {"done", "unused"} => Active(j)' /\ Held(c)'
  BY <1>0, <1>1 DEF Active, Held, Working
<1>15. c \in live /\ rows'[c].status \in InProgress => Held(c)'
  <2>1. CASE Carries(j) \/ Falls(j) \/ Looks(j)
    BY <2>1, <1>14 DEF Carries, Falls, Looks
  <2>2. CASE Leaves(j)
    BY <2>2, <1>8, <1>t DEF Leaves
  <2>3. CASE Settles(j)
    BY <1>0, <2>3 DEF Settles, InProgress
  <2>4. CASE Marks(j)
    <3>1. OnFailurePath(j)
      BY <2>4 DEF Marks, OnFailurePath
    <3>2. CASE loc[j].status = "failed"
      BY <1>0, <2>4, <3>1, <3>2, <1>3, <1>13 DEF Marks, Column, OneFaultInv
    <3>3. CASE loc[j].status # "failed"
      BY <1>0, <2>4, <3>3 DEF Marks, Column, InProgress
    <3> QED BY <3>2, <3>3
  <2> QED BY <1>2, <2>1, <2>2, <2>3, <2>4
<1>16. ASSUME NEW d \in Contracts, NewlyStranded(d) PROVE FALSE
  <2>1. /\ d \in live' /\ rows'[d].status \in InProgress /\ ~Held(d)'
        /\ ~(d \in live /\ rows[d].status \in InProgress /\ ~Held(d))
    BY <1>16 DEF NewlyStranded, Stranded, Held
  <2> QED BY <1>1, <1>12, <1>15, <2>1
<1>17. ASSUME NEW i \in Jobs, OnFailurePath(i)', jobPc'[i] = "mark",
              loc'[i].status = "failed", rows'[jobOf'[i]].status \in InProgress
       PROVE  HeldBeside(i, jobOf[i])'
  <2>1. CASE i = j
    <3>1. rows'[c] = rows[c] /\ loc'[j] = rows[c] /\ jobOf'[j] = c
      BY <1>1, <1>7, <1>17, <2>1, <1>t
    <3> QED BY <1>17, <2>1, <3>1 DEF InProgress
  <2>2. CASE i # j
    <3>1. OnFailurePath(i) /\ jobPc[i] = "mark" /\ loc[i].status = "failed"
          /\ jobOf'[i] = jobOf[i] /\ jobOf[i] \in Contracts
      BY <1>1, <1>6, <1>17, <2>2, <1>t DEF OnFailurePath
    <3>2. CASE jobOf[i] = c
      <4>1. faults = 1 /\ ~OnFailurePath(j) /\ c \in live
        BY <1>0, <1>8, <2>2, <3>1, <3>2 DEF OnFailurePath
      <4>2. ~Leaves(j) /\ ~Marks(j)
        BY <1>0, <4>1 DEF Leaves, Marks, OnFailurePath
      <4>3. ~Settles(j)
        BY <1>0, <1>17, <3>1, <3>2 DEF Settles, InProgress
      <4>4. Active(j)' /\ jobOf'[j] = c
        BY <1>1, <1>2, <1>14, <4>2, <4>3 DEF Carries, Falls, Looks
      <4> QED BY <2>2, <3>1, <3>2, <4>4 DEF HeldBeside
    <3>3. CASE jobOf[i] # c
      <4>1. HeldBeside(i, jobOf[i])
        BY <1>1, <1>3, <1>17, <3>1, <3>3 DEF OneFaultInv
      <4> QED BY <1>11, <3>1, <3>3, <4>1
    <3> QED BY <3>2, <3>3
  <2> QED BY <2>1, <2>2
<1> QED BY <1>9, <1>10, <1>16, <1>17 DEF OneFaultInv

(* With one failing call at most, a contract is stranded only by a stop of  *)
(* the worker or by the reply that fails once its reservation is committed: *)
(* the failure path of a task marks the row, whatever requests, jobs and    *)
(* deletions overlap with it.                                               *)
THEOREM OnlyTheReplyStrandsHolds == Spec => OnlyTheReplyStrands
<1> DEFINE Blamed(c) ==
      Stranded(c)' /\ ~Stranded(c) /\ faults' <= 1 =>
          \/ crashes' > crashes
          \/ \E k \in Clients :
                reqPc[k] = "proc_queue" /\ reqOf[k] = c /\ RequestRaises(k)
<1>1. Init => Base /\ OneFaultInv
  <2>1. Init => CourseInv /\ OneFaultInv
    BY DEF Init, CourseInv, OneFaultInv, Uploads, Active, Reading, OnFailurePath
  <2> QED BY <2>1, InitType, InitFileInv DEF Base
<1>2. ASSUME Base, OneFaultInv, [Next]_vars
      PROVE  OneFaultInv' /\ \A c \in Contracts : Blamed(c)
  <2>1. ASSUME NEW k \in Clients, RequestStarts(k) \/ RequestStep(k)
        PROVE  OneFaultInv' /\ \A c \in Contracts : Blamed(c)
    BY <1>2, <2>1, RequestOneFault DEF StrandsNobody, NewlyStranded
  <2>2. ASSUME NEW j \in Jobs, JobStep(j)
        PROVE  OneFaultInv' /\ \A c \in Contracts : Blamed(c)
    BY <1>2, <2>2, JobOneFault DEF StrandsNobody, NewlyStranded
  <2>3. CASE Crash
    <3>1. crashes' > crashes
      BY <1>2, <2>3, ConstantsAssumption DEF Crash, Base, TypeOK
    <3>2. \A j \in Jobs : jobPc'[j] \notin {"handler", "mark"}
      BY <2>3 DEF Crash, Active
    <3> QED BY <3>1, <3>2 DEF OneFaultInv, OnFailurePath
  <2>4. CASE UNCHANGED vars
    BY <1>2, <2>4 DEF vars, dbVars, reqVars, jobVars, bounds, OneFaultInv, OnFailurePath,
       HeldBeside, Stranded, Working, Requested, Active
  <2> QED BY <1>2, <2>1, <2>2, <2>3, <2>4 DEF Next
<1>3. Base /\ OneFaultInv /\ [Next]_vars =>
        [\A c \in Contracts : Blamed(c)]_vars
  BY <1>2
<1>4. Base /\ OneFaultInv /\ [Next]_vars => (Base /\ OneFaultInv)'
  BY <1>2, NextBase
<1>5. OnlyTheReplyStrands <=> [][\A c \in Contracts : Blamed(c)]_vars
  BY DEF OnlyTheReplyStrands
<1> QED BY <1>1, <1>3, <1>4, <1>5, PTL DEF Spec

-----------------------------------------------------------------------------
(***************************************************************************)
(* One run at a time.  Two POST /process that overlap between their check  *)
(* and their reservation start two jobs on one row; `contested' remembers  *)
(* the contracts this has happened to.  Of all others the following holds  *)
(* however many requests, jobs, faults and crashes interleave.             *)
(***************************************************************************)

(* The inductive invariant.  The properties say nothing of rows still being *)
(* processed; the invariant says what a job at each point has put there.    *)

(* A row that users can rely on.                                            *)
RowOK(r) ==
    /\ r.status = "ready" =>
        /\ r.text \in Jobs
        /\ r.stages.s1 = [by |-> r.text, ok |-> TRUE]
        /\ r.stages.s2.by = r.text
        /\ r.stages.s3 = [by |-> r.text, ok |-> TRUE]
        /\ r.foreign <=> r.stages.tr # "none"
    /\ r.error # "none" <=> r.status = "failed"

(* The row r of a job j that is at pc.                                      *)
Phase(pc, r, j) ==
    /\ r.error = "none"
    /\ r.status \in InProgress
    /\ pc \in {"queued", "reset", "pending", "read", "text"} => r.status = "ocr_pending"
    /\ pc = "processing" => r.status = "ocr_done"
    /\ pc \in {"stage1", "stage2", "stage3", "finish"} => r.status = "processing"
    /\ pc \in {"processing", "stage1", "stage2", "stage3", "finish"} => r.text = j
    /\ pc \in {"stage2", "stage3", "finish"} => r.stages.s1 = [by |-> j, ok |-> TRUE]
    /\ pc \in {"stage3", "finish"} => r.stages.s2.by = j
    /\ pc = "finish" => r.stages.s3 = [by |-> j, ok |-> TRUE] /\ r.stages.tr = "none"

(* A process request that has passed the guards.                            *)
Starting(k) == reqPc[k] \in {"proc_commit", "proc_queue"}

(* Nobody else works on the contract of a job or of a process request.      *)
Alone ==
    /\ SingleRunner
    /\ \A k \in Clients, j \in Jobs :
         Starting(k) /\ Active(j) /\ jobOf[j] = reqOf[k] => reqOf[k] \in contested
    /\ \A i, k \in Clients :
         Starting(i) /\ Starting(k) /\ reqOf[i] = reqOf[k] /\ i # k
         => reqOf[k] \in contested

Clear == live \ contested

(* ORM copies are current, and rows are what their holders made of them.    *)
ReqHolds(k) ==
    /\ Uploads(k) => rows[reqOf[k]].error = "none" /\ reqOf[k] \notin contested
    /\ reqPc[k] = "proc_commit" /\ reqOf[k] \in Clear =>
         rows[reqOf[k]] = seen[k] /\ rows[reqOf[k]].status \in Startable
    /\ reqPc[k] = "proc_queue" /\ reqOf[k] \in Clear =>
         rows[reqOf[k]].status = "ocr_pending" /\ rows[reqOf[k]].error = "none"
JobHolds(j) ==
    Active(j) /\ jobOf[j] \in Clear =>
        /\ Phase(jobPc[j], rows[jobOf[j]], j)
        /\ jobPc[j] \notin {"queued", "handler"} => rows[jobOf[j]] = loc[j]

IInv ==
    /\ Base /\ Alone /\ contested \subseteq used
    /\ \A c \in Clear : RowOK(rows[c])
    /\ \A k \in Clients : ReqHolds(k)
    /\ \A j \in Jobs : JobHolds(j)

-----------------------------------------------------------------------------
(* The steps of a job.                                                      *)

(* Flushing an up-to-date ORM copy makes the row what the copy says.        *)
LEMMA FlushCurrent ==
    ASSUME NEW old \in Row, NEW new \in Row,
           new.consent = old.consent, new.foreign = old.foreign
    PROVE  Flush(old, old, new) = new
BY DEF Flush, Column, Row

(* A row that is still being processed promises nothing.                    *)
LEMMA PhaseRowOK ==
    ASSUME NEW r, NEW j, NEW pc, Phase(pc, r, j)
    PROVE  RowOK(r)
BY DEF Phase, RowOK, InProgress

(* A commit of a job that holds the current row.                            *)
LEMMA CommitCurrent ==
    ASSUME IInv, NEW j \in Jobs, NEW new \in Row, Commit(j, new), Active(j),
           jobOf[j] \in Clear, jobPc[j] \notin {"queued", "handler"},
           new.consent = loc[j].consent, new.foreign = loc[j].foreign
    PROVE  jobOf[j] \in Contracts /\ rows' = [rows EXCEPT ![jobOf[j]] = new]
<1>1. jobOf[j] \in Contracts /\ rows[jobOf[j]] = loc[j]
  BY DEF IInv, JobHolds, Commit, Base, TypeOK
<1>2. loc[j] \in Row
  BY DEF IInv, Base, TypeOK, JobTyped
<1>3. Flush(rows[jobOf[j]], loc[j], new) = new
  BY <1>1, <1>2, FlushCurrent
<1> QED BY <1>1, <1>3 DEF Commit

(* A step of a job keeps the invariant if it does on the job's contract, as *)
(* long as that contract is there and nobody else is at it.                 *)
LEMMA JobKeeps ==
    ASSUME IInv, NEW j \in Jobs, JobStep(j),
           jobOf[j] \in Clear => RowOK(rows'[jobOf[j]]) /\ JobHolds(j)'
    PROVE  IInv'
<1>1. Base /\ Base' /\ JobFrame(j)
  BY NextBase, JobStepFrame DEF IInv, Next, Base
<1>2. /\ TypeOK /\ live \subseteq Contracts /\ used \subseteq Contracts
      /\ Clear' = Clear /\ Clear \subseteq Contracts
  BY <1>1 DEF Base, TypeOK, Clear, JobFrame
<1>3. \A i \in Jobs : Active(i)' => Active(i) /\ jobOf'[i] = jobOf[i]
  BY <1>1 DEF JobFrame, Active
<1>4. Alone'
  <2>1. SingleRunner'
    BY <1>1, <1>3 DEF IInv, Alone, SingleRunner, JobFrame
  <2>2. \A k \in Clients, i \in Jobs :
          Starting(k)' /\ Active(i)' /\ jobOf'[i] = reqOf'[k] => reqOf'[k] \in contested'
    BY <1>1, <1>3 DEF IInv, Alone, Starting, JobFrame
  <2>3. \A i, k \in Clients :
          Starting(i)' /\ Starting(k)' /\ reqOf'[i] = reqOf'[k] /\ i # k
          => reqOf'[k] \in contested'
    BY <1>1 DEF IInv, Alone, Starting, JobFrame
  <2> QED BY <2>1, <2>2, <2>3 DEF Alone
<1>5. \A d \in Clear' : RowOK(rows'[d])
  BY <1>1, <1>2 DEF IInv, JobFrame
<1>6. ASSUME NEW k \in Clients PROVE ReqHolds(k)'
  <2>1. UNCHANGED <<reqPc, reqOf, seen, contested>> /\ Active(j)
    BY <1>1 DEF JobFrame
  <2>2. CASE Uploads(k)
    <3>1. reqOf[k] # jobOf[j] /\ reqOf[k] \in Contracts
      BY <1>1, <2>1, <2>2 DEF Base, CourseInv, TypeOK, ReqTyped, Uploads
    <3> QED BY <1>1, <2>1, <2>2, <3>1 DEF IInv, ReqHolds, Uploads, JobFrame
  <2>3. CASE Starting(k) /\ reqOf[k] \in Clear
    <3>1. reqOf[k] # jobOf[j] /\ reqOf[k] \in Contracts
      BY <1>2, <2>1, <2>3 DEF IInv, Alone, Clear
    <3> QED BY <1>1, <1>2, <2>1, <2>3, <3>1 DEF IInv, ReqHolds, Uploads, Starting, JobFrame
  <2>4. CASE ~Uploads(k) /\ ~(Starting(k) /\ reqOf[k] \in Clear)
    BY <1>2, <2>1, <2>4 DEF ReqHolds, Uploads, Starting
  <2> QED BY <2>2, <2>3, <2>4
<1>7. ASSUME NEW i \in Jobs PROVE JobHolds(i)'
  <2>1. CASE i = j
    BY <1>2, <1>3, <2>1 DEF JobHolds
  <2>2. CASE i # j /\ Active(i) /\ jobOf[i] \in Clear
    <3>1. jobOf[i] # jobOf[j] /\ jobOf[i] \in Contracts
      BY <1>1, <1>2, <2>2 DEF IInv, Alone, SingleRunner, JobFrame, Clear
    <3> QED BY <1>1, <1>2, <2>2, <3>1 DEF IInv, JobHolds, JobFrame, Active
  <2>3. CASE i # j /\ ~(Active(i) /\ jobOf[i] \in Clear)
    BY <1>2, <1>3, <2>3 DEF JobHolds
  <2> QED BY <2>1, <2>2, <2>3
<1>8. contested' \subseteq used'
  BY <1>1 DEF IInv, JobFrame
<1> QED BY <1>1, <1>4, <1>5, <1>6, <1>7, <1>8 DEF IInv

(* A commit in the middle of a job keeps the invariant.                     *)
LEMMA WriteKeeps ==
    ASSUME IInv, NEW j \in Jobs, JobStep(j), NEW new \in Row, NEW pc \in JobPcs,
           Write(j, new, pc), Active(j), jobPc[j] \notin {"queued", "handler"},
           new.consent = loc[j].consent, new.foreign = loc[j].foreign,
           jobOf[j] \in Clear, Phase(pc, new, j)
    PROVE  IInv'
<1>1. rows'[jobOf[j]] = new
  BY CommitCurrent DEF Write, IInv, Base, TypeOK
<1>2. RowOK(new)
  BY PhaseRowOK
<1>3. jobPc'[j] = pc /\ loc'[j] = new /\ jobOf'[j] = jobOf[j]
  BY DEF Write, IInv, Base, TypeOK, JobTyped
<1> QED BY <1>1, <1>2, <1>3, JobKeeps DEF JobHolds

(* The last commit of a job keeps the invariant, if the row it leaves is    *)
(* one that users can rely on.                                              *)
LEMMA WriteLastKeeps ==
    ASSUME IInv, NEW j \in Jobs, JobStep(j), NEW new \in Row, WriteLast(j, new),
           Active(j), jobPc[j] \notin {"queued", "handler"},
           new.consent = loc[j].consent, new.foreign = loc[j].foreign,
           jobOf[j] \in Clear, RowOK(new)
    PROVE  IInv'
<1>1. rows'[jobOf[j]] = new
  BY CommitCurrent DEF WriteLast, IInv, Base, TypeOK
<1>2. ~Active(j)'
  BY DEF WriteLast, Stop, IInv, Base, TypeOK, JobTyped, Active
<1> QED BY <1>1, <1>2, JobKeeps DEF JobHolds

(* So does a step that leaves the row alone, if the job is then where its   *)
(* row, and its copy of it, are as they should be.                          *)
LEMMA StepKeeps ==
    ASSUME IInv, NEW j \in Jobs, JobStep(j), UNCHANGED rows, Active(j),
           jobOf[j] \in Clear,
           Active(j)' => /\ \A r : Phase(jobPc[j], r, j) => Phase(jobPc'[j], r, j)
                         /\ \/ jobPc'[j] = "handler"
                            \/ loc'[j] = rows[jobOf[j]]
                            \/ jobPc[j] \notin {"queued", "handler"} /\ UNCHANGED loc
    PROVE  IInv'
<1>1. Active(j)' => jobOf'[j] = jobOf[j]
  BY JobStepFrame DEF IInv, Base, JobFrame, Active
<1>2. RowOK(rows'[jobOf[j]]) /\ JobHolds(j)'
  BY <1>1 DEF IInv, JobHolds
<1> QED BY <1>2, JobKeeps

LEMMA JobStepKeeps ==
    ASSUME IInv, NEW j \in Jobs, JobStep(j)
    PROVE  IInv'
<1> DEFINE r == loc[j]
<1>0. Active(j) /\ TypeOK
  BY JobStepFrame DEF IInv, Base, JobFrame
<1>c. CASE jobOf[j] \notin Clear
  BY <1>c, JobKeeps
<1> SUFFICES ASSUME jobOf[j] \in Clear PROVE IInv'
  BY <1>c
<1>l. jobOf[j] \in live
  BY DEF Clear
<1>s. \A pc : Step(j, pc) => jobPc'[j] = pc /\ UNCHANGED loc
  BY <1>0 DEF Step, TypeOK, JobTyped
<1>d. \A pc : Load(j, pc) => /\ jobPc'[j] = pc /\ loc'[j] = rows[jobOf[j]]
                            /\ UNCHANGED rows
  BY <1>0, <1>l DEF Load, TypeOK, JobTyped, dbVars
<1>r. r \in Row /\ r.stages \in Stages
  BY DEF IInv, Base, TypeOK, JobTyped, Row
<1>p. ASSUME Active(j), jobPc[j] \notin {"queued", "handler"}, jobOf[j] \in live
      PROVE  Phase(jobPc[j], r, j)
  BY <1>p DEF IInv, JobHolds, Clear
<1>1. CASE JobLoad(j)
  <2>1. jobPc[j] = "queued" /\ jobPc'[j] = "reset"
    BY <1>1, <1>d DEF JobLoad
  <2>2. \A x : Phase(jobPc[j], x, j) => Phase(jobPc'[j], x, j)
    BY <2>1 DEF Phase
  <2> QED BY <1>0, <1>1, <1>d, <2>2, StepKeeps DEF JobLoad
<1>2. CASE JobReset(j)
  <2> DEFINE new == [r EXCEPT !.error = "none"]
  <2>1. Active(j) /\ jobOf[j] \in live /\ Write(j, new, "pending")
    BY <1>2 DEF JobReset, Write, Commit, Active
  <2>2. new \in Row /\ new.consent = r.consent /\ new.foreign = r.foreign
    BY <1>r DEF Row, Errors
  <2>3. Phase("pending", new, j)
    BY <1>2, <1>r, <1>p, <2>1 DEF JobReset, Phase, Row
  <2> QED BY <1>2, <2>1, <2>2, <2>3, WriteKeeps DEF JobReset, JobPcs
<1>3. CASE JobPending(j)
  <2> DEFINE new == [r EXCEPT !.status = "ocr_pending"]
  <2>1. Active(j) /\ jobOf[j] \in live /\ Write(j, new, "read")
    BY <1>3 DEF JobPending, Write, Commit, Active
  <2>2. new \in Row /\ new.consent = r.consent /\ new.foreign = r.foreign
    BY <1>r DEF Row, Statuses, InProgress
  <2>3. Phase("read", new, j)
    BY <1>3, <1>r, <1>p, <2>1 DEF JobPending, Phase, Row, InProgress
  <2> QED BY <1>3, <2>1, <2>2, <2>3, WriteKeeps DEF JobPending, JobPcs
<1>4. CASE JobRead(j)
  <2>1. /\ jobPc[j] = "read" /\ jobPc'[j] \in {"text", "fail"}
        /\ UNCHANGED <<loc, rows>>
    BY <1>4, <1>s DEF JobRead, dbVars
  <2>2. \A x : Phase(jobPc[j], x, j) => Phase(jobPc'[j], x, j)
    BY <2>1 DEF Phase
  <2> QED BY <1>0, <2>1, <2>2, StepKeeps
<1>5. CASE JobText(j)
  <2> DEFINE new == [r EXCEPT !.text = j, !.status = "ocr_done"]
  <2>1. Active(j) /\ jobOf[j] \in live /\ Write(j, new, "processing")
    BY <1>5 DEF JobText, Write, Commit, Active
  <2>2. new \in Row /\ new.consent = r.consent /\ new.foreign = r.foreign
    BY <1>r DEF Row, Statuses, InProgress, Author
  <2>3. Phase("processing", new, j)
    BY <1>5, <1>r, <1>p, <2>1 DEF JobText, Phase, Row, InProgress
  <2> QED BY <1>5, <2>1, <2>2, <2>3, WriteKeeps DEF JobText, JobPcs
<1>6. CASE JobProcessing(j)
  <2> DEFINE new == [r EXCEPT !.status = "processing"]
  <2>1. Active(j) /\ jobOf[j] \in live /\ Write(j, new, "stage1")
    BY <1>6 DEF JobProcessing, Write, Commit, Active
  <2>2. new \in Row /\ new.consent = r.consent /\ new.foreign = r.foreign
    BY <1>r DEF Row, Statuses, InProgress
  <2>3. Phase("stage1", new, j)
    BY <1>6, <1>r, <1>p, <2>1 DEF JobProcessing, Phase, Row, InProgress
  <2> QED BY <1>6, <2>1, <2>2, <2>3, WriteKeeps DEF JobProcessing, JobPcs
<1>7. CASE JobStage1(j)
  <2>1. ASSUME Step(j, "fail"), UNCHANGED <<dbVars, files, reqVars, bounds, contested>>
        PROVE  IInv'
    <3>1. jobPc[j] = "stage1" /\ jobPc'[j] = "fail" /\ UNCHANGED <<loc, rows>>
      BY <1>7, <1>s, <2>1 DEF JobStage1, dbVars
    <3>2. \A x : Phase(jobPc[j], x, j) => Phase(jobPc'[j], x, j)
      BY <3>1 DEF Phase
    <3> QED BY <1>0, <3>1, <3>2, StepKeeps
  <2>2. ASSUME NEW ok \in BOOLEAN,
               Write(j, [r EXCEPT !.stages.s1 = [by |-> j, ok |-> ok]],
                     IF ok THEN "stage2" ELSE "fail")
        PROVE  IInv'
    <3> DEFINE new == [r EXCEPT !.stages.s1 = [by |-> j, ok |-> ok]]
               pc == IF ok THEN "stage2" ELSE "fail"
    <3>1. Active(j) /\ jobOf[j] \in live
      BY <1>7, <2>2 DEF JobStage1, Write, Commit, Active
    <3>2. new \in Row /\ new.consent = r.consent /\ new.foreign = r.foreign
      BY <1>r DEF Row, Stages, Output, Author
    <3>3. Phase(pc, new, j)
      BY <1>7, <1>r, <1>p, <3>1 DEF JobStage1, Phase, Row, Stages, InProgress
    <3>4. pc \in JobPcs /\ pc \notin {"unused", "queued", "handler", "done"}
      BY DEF JobPcs
    <3> QED BY <1>7, <2>2, <3>1, <3>2, <3>3, <3>4, WriteKeeps DEF JobStage1
  <2> QED BY <1>7, <2>1, <2>2 DEF JobStage1
<1>8. CASE JobStage2(j)
  <2>1. PICK ok \in BOOLEAN :
          Write(j, [r EXCEPT !.stages.s2 = [by |-> j, ok |-> ok]], "stage3")
    BY <1>8 DEF JobStage2
  <2> DEFINE new == [r EXCEPT !.stages.s2 = [by |-> j, ok |-> ok]]
  <2>2. Active(j) /\ jobOf[j] \in live
    BY <1>8, <2>1 DEF JobStage2, Write, Commit, Active
  <2>3. new \in Row /\ new.consent = r.consent /\ new.foreign = r.foreign
    BY <1>r DEF Row, Stages, Output, Author
  <2>4. Phase("stage3", new, j)
    BY <1>8, <1>r, <1>p, <2>2 DEF JobStage2, Phase, Row, Stages, InProgress
  <2> QED BY <1>8, <2>1, <2>2, <2>3, <2>4, WriteKeeps DEF JobStage2, JobPcs
<1>9. CASE JobStage3(j)
  <2>1. PICK ok \in BOOLEAN :
          Write(j, [r EXCEPT !.stages.s3 = [by |-> j, ok |-> ok],
                             !.stages.tr = "none"],
                IF ok THEN "finish" ELSE "fail")
    BY <1>9 DEF JobStage3
  <2> DEFINE new == [r EXCEPT !.stages.s3 = [by |-> j, ok |-> ok],
                              !.stages.tr = "none"]
             pc == IF ok THEN "finish" ELSE "fail"
  <2>2. Active(j) /\ jobOf[j] \in live
    BY <1>9, <2>1 DEF JobStage3, Write, Commit, Active
  <2>3. new \in Row /\ new.consent = r.consent /\ new.foreign = r.foreign
    BY <1>r DEF Row, Stages, Output, Author
  <2>4. Phase(pc, new, j)
    BY <1>9, <1>r, <1>p, <2>2 DEF JobStage3, Phase, Row, Stages, InProgress
  <2>5. pc \in JobPcs /\ pc \notin {"unused", "queued", "handler", "done"}
    BY DEF JobPcs
  <2> QED BY <1>9, <2>1, <2>2, <2>3, <2>4, <2>5, WriteKeeps DEF JobStage3
<1>10. CASE JobFinish(j)
  <2>1. PICK tr \in IF r.foreign THEN {"translated", "english"} ELSE {"none"} :
          WriteLast(j, [r EXCEPT !.stages.tr = tr, !.status = "ready"])
    BY <1>10 DEF JobFinish
  <2> DEFINE new == [r EXCEPT !.stages.tr = tr, !.status = "ready"]
  <2>2. Active(j) /\ jobOf[j] \in live
    BY <1>10, <2>1 DEF JobFinish, WriteLast, Commit, Active
  <2>3. new \in Row /\ new.consent = r.consent /\ new.foreign = r.foreign
    BY <1>r, <2>1 DEF Row, Stages, Statuses
  <2>4. Phase("finish", r, j) /\ r.foreign \in BOOLEAN
    BY <1>10, <1>r, <1>p, <2>2 DEF JobFinish, Row
  <2>5. RowOK(new)
    BY <1>r, <2>1, <2>4 DEF RowOK, Phase, Row, Stages
  <2> QED BY <1>10, <2>1, <2>2, <2>3, <2>5, WriteLastKeeps DEF JobFinish
<1>11. CASE JobFail(j)
  <2> DEFINE new == [r EXCEPT !.status = "failed", !.error = "stage"]
  <2>1. Active(j) /\ WriteLast(j, new)
    BY <1>11 DEF JobFail, Active
  <2>2. new \in Row /\ new.consent = r.consent /\ new.foreign = r.foreign
    BY <1>r DEF Row, Statuses, Startable, Errors
  <2>3. RowOK(new)
    BY <1>r DEF RowOK, Row
  <2> QED BY <1>11, <2>1, <2>2, <2>3, WriteLastKeeps DEF JobFail
<1>12. CASE JobRaises(j)
  BY <1>0, <1>12, StepKeeps DEF JobRaises, TypeOK, JobTyped, Phase, dbVars
<1>13. CASE HandlerLoad(j)
  <2>1. jobPc[j] = "handler" /\ jobPc'[j] = "mark"
    BY <1>13, <1>d DEF HandlerLoad
  <2>2. \A x : Phase(jobPc[j], x, j) => Phase(jobPc'[j], x, j)
    BY <2>1 DEF Phase
  <2> QED BY <1>0, <1>13, <1>d, <2>2, StepKeeps DEF HandlerLoad
<1>14. CASE HandlerMark(j)
  <2> DEFINE new == [r EXCEPT !.status = "failed", !.error = "stopped"]
  <2>1. Active(j) /\ WriteLast(j, new)
    BY <1>14 DEF HandlerMark, Active
  <2>2. new \in Row /\ new.consent = r.consent /\ new.foreign = r.foreign
    BY <1>r DEF Row, Statuses, Startable, Errors
  <2>3. RowOK(new)
    BY <1>r DEF RowOK, Row
  <2> QED BY <1>14, <2>1, <2>2, <2>3, WriteLastKeeps DEF HandlerMark
<1>15. CASE HandlerRaises(j)
  <2>1. ~Active(j)' /\ UNCHANGED rows
    BY <1>0, <1>15 DEF HandlerRaises, Stop, TypeOK, JobTyped, Active, dbVars
  <2> QED BY <1>0, <2>1, StepKeeps
<1> QED BY <1>1, <1>2, <1>3, <1>4, <1>5, <1>6, <1>7, <1>8, <1>9, <1>10, <1>11,
           <1>12, <1>13, <1>14, <1>15 DEF JobStep

-----------------------------------------------------------------------------
(* The steps of requests.                                                   *)

OthersWait(k) ==
    \A i \in Clients \ {k} : UNCHANGED <<reqPc[i], reqOf[i], seen[i]>>

LEMMA RequestFrame ==
    ASSUME TypeOK, NEW k \in Clients
    PROVE  /\ \A c, pc, copy : Accept(k, c, pc, copy) =>
                /\ OthersWait(k) /\ reqPc[k] = "idle"
                /\ reqPc'[k] = pc /\ reqOf'[k] = c /\ seen'[k] = copy
           /\ \A pc : Goto(k, pc) =>
                OthersWait(k) /\ reqPc'[k] = pc /\ UNCHANGED <<reqOf, seen>>
           /\ Reply(k) => OthersWait(k) /\ reqPc'[k] = "idle"
BY DEF Accept, Goto, Reply, OthersWait, TypeOK, ReqTyped

(* A step of a request that leaves rows and jobs alone, adds no contract    *)
(* and reserves none.                                                       *)
LEMMA CalmRequest ==
    ASSUME IInv, Base', NEW k \in Clients, OthersWait(k), live' \subseteq live,
           UNCHANGED <<rows, used, contested, jobVars>>, ~Starting(k)',
           Uploads(k)' => Uploads(k) /\ reqOf'[k] = reqOf[k]
    PROVE  IInv'
<1>1. Clear' \subseteq Clear /\ UNCHANGED <<jobPc, jobOf, loc>>
  BY DEF Clear, jobVars
<1>2. \A i \in Clients : Starting(i)' => Starting(i) /\ UNCHANGED <<reqOf[i], seen[i], reqPc[i]>>
  BY DEF OthersWait, Starting
<1>3. Alone'
  BY <1>1, <1>2 DEF IInv, Alone, SingleRunner, Active
<1>4. ASSUME NEW i \in Clients PROVE ReqHolds(i)'
  <2>1. Uploads(i)' => Uploads(i) /\ reqOf'[i] = reqOf[i]
    BY DEF OthersWait, Uploads
  <2> QED BY <1>1, <1>2, <2>1 DEF IInv, ReqHolds, Starting
<1>5. \A j \in Jobs : JobHolds(j)'
  BY <1>1 DEF IInv, JobHolds, Active
<1> QED BY <1>1, <1>3, <1>4, <1>5 DEF IInv

LEMMA RequestStartsKeeps ==
    ASSUME IInv, NEW k \in Clients, RequestStarts(k)
    PROVE  IInv'
<1>0. /\ TypeOK /\ Base' /\ live \subseteq used /\ used \subseteq Contracts
      /\ rows \in [Contracts -> Row] /\ contested \subseteq used
  BY NextBase DEF IInv, Next, Base, TypeOK, FileInv
<1>1. ASSUME NEW c \in Contracts, NEW consent \in BOOLEAN, NEW foreign \in BOOLEAN,
             UploadInsert(k, c, consent, foreign)
      PROVE  IInv'
  <2>1. /\ c \notin used /\ used' = used \cup {c}
        /\ UNCHANGED <<live, contested, jobPc, jobOf, loc>> /\ Clear' = Clear
        /\ rows' = [rows EXCEPT ![c] = Uploaded(consent, foreign)]
    BY <1>1 DEF UploadInsert, jobVars, Clear
  <2>2. OthersWait(k) /\ reqPc'[k] = "up_save" /\ reqOf'[k] = c
    BY <1>0, <1>1, RequestFrame DEF UploadInsert
  <2>3. rows'[c].error = "none" /\ \A d \in used : rows'[d] = rows[d]
    BY <1>0, <2>1 DEF Uploaded
  <2>4. \A i \in Clients : reqPc[i] # "idle" => reqOf[i] \in used
    BY DEF IInv, Base, FileInv
  <2>5. \A i \in Clients : Starting(i)' => Starting(i) /\ UNCHANGED <<reqOf[i], seen[i], reqPc[i]>>
    BY <2>2 DEF OthersWait, Starting
  <2>6. Alone'
    BY <2>1, <2>5 DEF IInv, Alone, SingleRunner, Active
  <2>7. \A d \in Clear' : RowOK(rows'[d])
    BY <1>0, <2>1, <2>3 DEF IInv, Clear
  <2>8. ASSUME NEW i \in Clients PROVE ReqHolds(i)'
    <3>1. CASE i = k
      BY <1>0, <2>1, <2>2, <2>3, <3>1 DEF ReqHolds
    <3>2. CASE i # k
      <4>1. UNCHANGED <<reqPc[i], reqOf[i], seen[i]>>
        BY <2>2, <3>2 DEF OthersWait
      <4>2. reqPc[i] # "idle" => rows'[reqOf[i]] = rows[reqOf[i]]
        BY <2>3, <2>4
      <4> QED BY <2>1, <4>1, <4>2 DEF IInv, ReqHolds, Uploads
    <3> QED BY <3>1, <3>2
  <2>9. \A j \in Jobs : JobHolds(j)'
    BY <1>0, <2>1, <2>3 DEF IInv, JobHolds, Active, Clear
  <2> QED BY <1>0, <2>1, <2>6, <2>7, <2>8, <2>9 DEF IInv
<1>2. ASSUME NEW c \in Contracts, ProcessLoad(k, c) PROVE IInv'
  <2>1. /\ c \in live /\ UNCHANGED <<live, rows, used, jobPc, jobOf, loc>>
        /\ contested \subseteq contested' /\ contested' \subseteq contested \cup {c}
        /\ Requested(c, {"proc_commit"}) => c \in contested'
        /\ Clear' \subseteq Clear /\ rows[c].status \in Startable
    BY <1>2 DEF ProcessLoad, Contests, dbVars, jobVars, Clear
  <2>2. /\ OthersWait(k) /\ reqPc[k] = "idle"
        /\ reqPc'[k] = "proc_commit" /\ reqOf'[k] = c /\ seen'[k] = rows[c]
    BY <1>0, <1>2, RequestFrame DEF ProcessLoad
  <2>3. \A j \in Jobs : Active(j) /\ jobOf[j] = c => c \in contested'
    BY <2>1 DEF IInv, JobHolds, Phase, InProgress, Startable, Clear
  <2>4. \A i \in Clients : Starting(i) /\ reqOf[i] = c => c \in contested'
    <3> SUFFICES ASSUME NEW i \in Clients, Starting(i), reqOf[i] = c, c \notin contested'
                 PROVE  FALSE
      OBVIOUS
    <3>1. reqPc[i] = "proc_queue" /\ c \in Clear
      BY <2>1 DEF Starting, Requested, Clear
    <3> QED BY <2>1, <3>1 DEF IInv, ReqHolds, Startable
  <2>5. \A i \in Clients \ {k} : Starting(i)' => Starting(i) /\ reqOf'[i] = reqOf[i]
    BY <2>2 DEF OthersWait, Starting
  <2>6. Alone'
    <3>1. SingleRunner'
      BY <2>1 DEF IInv, Alone, SingleRunner, Active
    <3>2. \A i \in Clients, j \in Jobs :
            Starting(i)' /\ Active(j)' /\ jobOf'[j] = reqOf'[i] => reqOf'[i] \in contested'
      BY <2>1, <2>2, <2>3, <2>5 DEF IInv, Alone, Active
    <3>3. \A i, h \in Clients :
            Starting(i)' /\ Starting(h)' /\ reqOf'[i] = reqOf'[h] /\ i # h
            => reqOf'[h] \in contested'
      BY <2>1, <2>2, <2>4, <2>5 DEF IInv, Alone
    <3> QED BY <3>1, <3>2, <3>3 DEF Alone
  <2>7. ASSUME NEW i \in Clients PROVE ReqHolds(i)'
    <3>1. CASE i = k
      BY <2>1, <2>2, <3>1 DEF ReqHolds, Uploads
    <3>2. CASE i # k
      <4>1. UNCHANGED <<reqPc[i], reqOf[i], seen[i]>>
        BY <2>2, <3>2 DEF OthersWait
      <4>2. Uploads(i) => reqOf[i] # c
        BY <2>1 DEF IInv, Base, FileInv
      <4> QED BY <2>1, <4>1, <4>2 DEF IInv, ReqHolds, Uploads
    <3> QED BY <3>1, <3>2
  <2>8. \A j \in Jobs : JobHolds(j)'
    BY <2>1 DEF IInv, JobHolds, Active
  <2> QED BY <1>0, <2>1, <2>6, <2>7, <2>8 DEF IInv
<1>3. ASSUME NEW c \in Contracts, DeleteLoad(k, c) PROVE IInv'
  <2>1. OthersWait(k) /\ reqPc'[k] = "del_file"
    BY <1>0, <1>3, RequestFrame DEF DeleteLoad
  <2> QED BY <1>0, <1>3, <2>1, CalmRequest DEF DeleteLoad, dbVars, Starting, Uploads
<1> QED BY <1>1, <1>2, <1>3 DEF RequestStarts

LEMMA RequestStepKeeps ==
    ASSUME IInv, NEW k \in Clients, RequestStep(k)
    PROVE  IInv'
<1> DEFINE c == reqOf[k]
<1>0. /\ TypeOK /\ Base' /\ live \subseteq used /\ used \subseteq Contracts
      /\ rows \in [Contracts -> Row] /\ contested \subseteq used
  BY NextBase DEF IInv, Next, Base, TypeOK, FileInv
<1>1. CASE UploadSave(k)
  <2>1. OthersWait(k) /\ reqPc'[k] = "up_commit" /\ reqPc[k] = "up_save"
        /\ UNCHANGED reqOf
    BY <1>0, <1>1, RequestFrame DEF UploadSave
  <2> QED BY <1>0, <1>1, <2>1, CalmRequest DEF UploadSave, dbVars, Starting, Uploads
<1>2. CASE UploadCommit(k)
  <2>1. /\ live' = live \cup {c} /\ UNCHANGED <<rows, used, contested, jobPc, jobOf, loc>>
        /\ Uploads(k)
    BY <1>2 DEF UploadCommit, jobVars, Uploads
  <2>2. OthersWait(k) /\ reqPc'[k] = "idle"
    BY <1>0, <1>2, RequestFrame DEF UploadCommit
  <2>3. /\ rows[c].status = "uploaded" /\ rows[c].error = "none" /\ c \notin contested
        /\ Clear' = Clear \cup {c}
    BY <2>1 DEF IInv, ReqHolds, Base, CourseInv, Clear
  <2>4. /\ \A j \in Jobs : Active(j) => jobOf[j] # c
        /\ \A i \in Clients : i # k /\ reqPc[i] # "idle" => reqOf[i] # c
    BY <2>1 DEF IInv, Base, CourseInv, FileInv
  <2>5. \A i \in Clients : reqPc'[i] # "idle" => i # k /\ UNCHANGED <<reqPc[i], reqOf[i], seen[i]>>
    BY <2>2 DEF OthersWait
  <2>6. Alone'
    BY <2>1, <2>5 DEF IInv, Alone, SingleRunner, Active, Starting
  <2>7. \A d \in Clear' : RowOK(rows'[d])
    BY <2>1, <2>3 DEF IInv, RowOK
  <2>8. \A i \in Clients : ReqHolds(i)'
    BY <2>1, <2>3, <2>4, <2>5 DEF IInv, ReqHolds, Uploads
  <2>9. \A j \in Jobs : JobHolds(j)'
    BY <2>1, <2>3, <2>4 DEF IInv, JobHolds, Active
  <2> QED BY <1>0, <2>1, <2>6, <2>7, <2>8, <2>9 DEF IInv
<1>3. CASE ProcessReserve(k)
  <2> DEFINE new == [seen[k] EXCEPT !.status = "ocr_pending", !.error = "none"]
  <2>1. /\ c \in live /\ c \in Contracts /\ seen[k] \in Row /\ Starting(k) /\ ~Uploads(k)
        /\ UNCHANGED <<live, used, contested, jobPc, jobOf, loc>> /\ Clear' = Clear
        /\ reqPc[k] = "proc_commit"
    BY <1>0, <1>3 DEF ProcessReserve, TypeOK, ReqTyped, jobVars, Starting, Uploads, Clear
  <2>2. OthersWait(k) /\ reqPc'[k] = "proc_queue" /\ UNCHANGED reqOf
    BY <1>0, <1>3, RequestFrame DEF ProcessReserve
  <2>3. \A d \in Contracts : d # c => rows'[d] = rows[d]
    BY <1>0, <1>3 DEF ProcessReserve
  <2>4. c \in Clear => rows'[c].status = "ocr_pending" /\ rows'[c].error = "none"
    <3> SUFFICES ASSUME c \in Clear
                 PROVE  rows'[c].status = "ocr_pending" /\ rows'[c].error = "none"
      OBVIOUS
    <3>1. rows[c] = seen[k]
      BY <2>1 DEF IInv, ReqHolds
    <3>2. /\ new \in Row /\ new.consent = seen[k].consent
          /\ new.foreign = seen[k].foreign
          /\ new.status = "ocr_pending" /\ new.error = "none"
      BY <2>1 DEF Row, Statuses, InProgress, Errors
    <3>3. Flush(seen[k], seen[k], new) = new
      BY <2>1, <3>2, FlushCurrent
    <3>4. rows'[c] = new
      BY <1>0, <1>3, <2>1, <3>1, <3>3 DEF ProcessReserve
    <3> QED BY <3>2, <3>4
  <2>5. \A i \in Clients : Starting(i)' <=> Starting(i)
    BY <2>1, <2>2 DEF OthersWait, Starting
  <2>6. Alone'
    BY <2>1, <2>2, <2>5 DEF IInv, Alone, SingleRunner, Active
  <2>7. \A d \in Clear' : RowOK(rows'[d])
    <3>1. c \in Clear => RowOK(rows'[c])
      BY <2>4 DEF RowOK
    <3> QED BY <1>0, <2>1, <2>3, <3>1 DEF IInv, Clear
  <2>8. ASSUME NEW i \in Clients PROVE ReqHolds(i)'
    <3>1. CASE i = k
      BY <2>1, <2>2, <2>4, <3>1 DEF ReqHolds, Uploads
    <3>2. CASE i # k
      <4>1. UNCHANGED <<reqPc[i], reqOf[i], seen[i]>>
        BY <2>2, <3>2 DEF OthersWait
      <4>2. reqPc[i] # "idle" => reqOf[i] \in Contracts
        BY <1>0 DEF TypeOK, ReqTyped
      <4>3. Uploads(i) => reqOf[i] # c
        BY <2>1 DEF IInv, Base, FileInv
      <4>4. Starting(i) /\ reqOf[i] \in Clear => reqOf[i] # c
        BY <2>1, <3>2 DEF IInv, Alone, Clear
      <4> QED BY <2>1, <2>3, <4>1, <4>2, <4>3, <4>4
              DEF IInv, ReqHolds, Uploads, Starting
    <3> QED BY <3>1, <3>2
  <2>9. ASSUME NEW j \in Jobs PROVE JobHolds(j)'
    <3>1. Active(j) /\ jobOf[j] \in Clear => jobOf[j] # c /\ jobOf[j] \in Contracts
      BY <1>0, <2>1 DEF IInv, Alone, Clear
    <3> QED BY <2>1, <2>3, <3>1 DEF IInv, JobHolds, Active
  <2> QED BY <1>0, <2>1, <2>6, <2>7, <2>8, <2>9 DEF IInv
<1>4. ASSUME NEW j \in Jobs, ProcessQueue(k, j) PROVE IInv'
  <2>1. /\ UNCHANGED <<live, rows, used, loc, contested>> /\ Clear' = Clear
        /\ reqPc[k] = "proc_queue" /\ Starting(k)
    BY <1>4 DEF ProcessQueue, dbVars, Starting, Clear
  <2>2. OthersWait(k) /\ reqPc'[k] = "idle"
    BY <1>0, <1>4, RequestFrame DEF ProcessQueue
  <2>3. \A i \in Jobs : /\ jobPc'[i] = IF i = j THEN "queued" ELSE jobPc[i]
                        /\ jobOf'[i] = IF i = j THEN c ELSE jobOf[i]
                        /\ Active(i)' <=> (i = j \/ Active(i))
    BY <1>0, <1>4 DEF ProcessQueue, TypeOK, JobTyped, Active
  <2>4. /\ \A i \in Jobs : Active(i) /\ jobOf[i] = c => c \in contested
        /\ \A i \in Clients \ {k} : Starting(i) /\ reqOf[i] = c => c \in contested
    BY <2>1 DEF IInv, Alone
  <2>5. \A i \in Clients : reqPc'[i] # "idle" => i # k /\ UNCHANGED <<reqPc[i], reqOf[i], seen[i]>>
    BY <2>2 DEF OthersWait
  <2>6. Alone'
    <3>1. SingleRunner'
      BY <2>1, <2>3, <2>4 DEF IInv, Alone, SingleRunner
    <3>2. \A i \in Clients, h \in Jobs :
            Starting(i)' /\ Active(h)' /\ jobOf'[h] = reqOf'[i] => reqOf'[i] \in contested'
      BY <2>1, <2>3, <2>4, <2>5 DEF IInv, Alone, Starting
    <3>3. \A i, h \in Clients :
            Starting(i)' /\ Starting(h)' /\ reqOf'[i] = reqOf'[h] /\ i # h
            => reqOf'[h] \in contested'
      BY <2>1, <2>5 DEF IInv, Alone, Starting
    <3> QED BY <3>1, <3>2, <3>3 DEF Alone
  <2>7. \A i \in Clients : ReqHolds(i)'
    BY <2>1, <2>5 DEF IInv, ReqHolds, Uploads
  <2>8. ASSUME NEW i \in Jobs PROVE JobHolds(i)'
    <3>1. CASE i = j
      <4>1. c \in Clear => Phase("queued", rows[c], j)
        BY <2>1 DEF IInv, ReqHolds, Phase, InProgress
      <4> QED BY <2>1, <2>3, <3>1, <4>1 DEF JobHolds
    <3>2. CASE i # j
      BY <2>1, <2>3, <3>2 DEF IInv, JobHolds
    <3> QED BY <3>1, <3>2
  <2> QED BY <1>0, <2>1, <2>6, <2>7, <2>8 DEF IInv
<1>5. CASE DeleteFile(k)
  <2>1. OthersWait(k) /\ reqPc'[k] = "del_commit"
    BY <1>0, <1>5, RequestFrame DEF DeleteFile
  <2> QED BY <1>0, <1>5, <2>1, CalmRequest DEF DeleteFile, dbVars, Starting, Uploads
<1>6. CASE DeleteCommit(k) \/ RequestRaises(k)
  <2>1. OthersWait(k) /\ reqPc'[k] = "idle"
    BY <1>0, <1>6, RequestFrame DEF DeleteCommit, RequestRaises
  <2>2. live' \subseteq live /\ UNCHANGED <<rows, used, contested, jobVars>>
    BY <1>6 DEF DeleteCommit, RequestRaises, dbVars
  <2> QED BY <1>0, <2>1, <2>2, CalmRequest DEF Starting, Uploads
<1> QED BY <1>1, <1>2, <1>3, <1>4, <1>5, <1>6 DEF RequestStep

-----------------------------------------------------------------------------
(* The theorems.                                                            *)

LEMMA CrashKeeps == IInv /\ Crash => IInv'
<1> SUFFICES ASSUME IInv, Crash PROVE IInv'
  OBVIOUS
<1>1. Base' /\ UNCHANGED <<live, rows, used, contested>> /\ Clear' = Clear
  BY NextBase DEF IInv, Crash, dbVars, Next, Clear
<1>2. \A k \in Clients : reqPc'[k] = "idle"
  BY DEF Crash
<1>3. \A j \in Jobs : ~Active(j)'
  BY DEF Crash, Active
<1> QED BY <1>1, <1>2, <1>3
        DEF IInv, Alone, Starting, SingleRunner, ReqHolds, Uploads, JobHolds

LEMMA InitIInv == Init => IInv
<1> SUFFICES ASSUME Init PROVE IInv
  OBVIOUS
<1>1. Base
  BY InitType, InitFileInv DEF Base, Init, CourseInv, Uploads, Active, Reading
<1> QED BY <1>1 DEF Init, IInv, Alone, Starting, SingleRunner, ReqHolds, Uploads,
                    JobHolds, Active, Clear

LEMMA NextIInv ==
    ASSUME IInv, [Next]_vars
    PROVE  IInv'
<1>1. CASE \E k \in Clients : RequestStarts(k) \/ RequestStep(k)
  BY <1>1, RequestStartsKeeps, RequestStepKeeps
<1>2. CASE \E j \in Jobs : JobStep(j)
  BY <1>2, JobStepKeeps
<1>3. CASE Crash
  BY <1>3, CrashKeeps
<1>4. CASE UNCHANGED vars
  <2>1. Base'
    BY <1>4, NextBase DEF IInv
  <2> QED BY <1>4, <2>1 DEF IInv, Alone, Starting, SingleRunner, RowOK, ReqHolds, Uploads,
             JobHolds, Active, Clear, vars, dbVars, reqVars, jobVars
<1> QED BY <1>1, <1>2, <1>3, <1>4 DEF Next

LEMMA Invariant == Spec => []IInv
BY InitIInv, NextIInv, PTL DEF Spec

(* Unless two process requests were both let through, the status column     *)
(* alone reserves a contract for one job, across retries, deletes, faults,  *)
(* crashes and any overlap of requests.                                     *)
THEOREM SingleRunnerHolds == Spec => []SingleRunner
<1>1. IInv => SingleRunner
  BY DEF IInv, Alone
<1> QED BY <1>1, Invariant, PTL

(* With the same exception, a ready contract shows the outputs of one run,  *)
(* all usable, although each job works on its own copy of the row.          *)
THEOREM ReadyIsOneRunHolds == Spec => []ReadyIsOneRun
<1>1. IInv => ReadyIsOneRun
  BY DEF IInv, RowOK, ReadyIsOneRun, Clear
<1> QED BY <1>1, Invariant, PTL

(* With the same exception, failed contracts, and only they, show an error  *)
(* message.                                                                 *)
THEOREM ErrorIffFailedHolds == Spec => []ErrorIffFailed
<1>1. IInv => ErrorIffFailed
  BY DEF IInv, RowOK, ErrorIffFailed, Clear
<1> QED BY <1>1, Invariant, PTL

-----------------------------------------------------------------------------
(* The status machine.                                                      *)

(* What the state of a contract is read from.                               *)
LEMMA SameState ==
    ASSUME NEW d \in Contracts, d \in live' <=> d \in live, d \in used' <=> d \in used,
           d \in contested' <=> d \in contested, Uploading(d)' <=> Uploading(d),
           d \in Clear => rows'[d] = rows[d] /\ (Stranded(d)' <=> Stranded(d))
    PROVE  State(d)' = State(d) /\ Message(d)' = Message(d)
BY DEF State, Message, Clear

LEMMA Stutter ==
    ASSUME \A d \in Contracts : State(d)' = State(d) /\ Message(d)' = Message(d)
    PROVE  UNCHANGED Promise!vars
BY DEF Promise!vars

(* A step that moves one contract is a step of the machine.                 *)
LEMMA MoveOne ==
    ASSUME NEW c \in Contracts, NEW from, NEW to,
           State(c) \in from, State(c)' = to,
           Message(c)' = IF to = "failed" THEN "shown" ELSE "none",
           \A d \in Contracts \ {c} : State(d)' = State(d) /\ Message(d)' = Message(d)
    PROVE  Promise!Move(c, from, to)
BY DEF Promise!Move

(* A step of a job shows on its own contract at most, and there only while  *)
(* the contract is in the table and not contested: as its new status, or as *)
(* a contract left behind when the job ends on one that is being read.      *)
LEMMA JobShows ==
    ASSUME IInv, NEW j \in Jobs, JobStep(j), NEW c, c = jobOf[j]
    PROVE  /\ c \in Contracts
           /\ \A d \in Contracts \ {c} : State(d)' = State(d) /\ Message(d)' = Message(d)
           /\ c \notin Clear => UNCHANGED Promise!vars
           /\ c \in Clear =>
                /\ Phase(jobPc[j], rows[c], j)
                /\ State(c) = rows[c].status /\ Message(c) = "none"
                /\ State(c)' = IF ~Active(j)' /\ rows'[c].status \in InProgress
                               THEN "stuck" ELSE rows'[c].status
                /\ Message(c)' = IF rows'[c].error # "none" THEN "shown" ELSE "none"
<1>1. /\ JobFrame(j) /\ c \in Contracts /\ Active(j)
      /\ live \subseteq Contracts
  BY JobStepFrame DEF IInv, Base, TypeOK, JobTyped, JobFrame
<1>2. \A d : Uploading(d)' <=> Uploading(d)
  BY <1>1 DEF JobFrame, Uploading, Requested
<1>3. \A d : Requested(d, {"proc_queue"})' <=> Requested(d, {"proc_queue"})
  BY <1>1 DEF JobFrame, Requested
<1>4. ASSUME NEW d \in Contracts \ {c}
      PROVE  State(d)' = State(d) /\ Message(d)' = Message(d)
  <2>1. Working(d)' <=> Working(d)
    BY <1>1 DEF JobFrame, Working, Active
  <2>2. Stranded(d)' <=> Stranded(d)
    BY <1>1, <1>3, <2>1 DEF JobFrame, Stranded
  <2> QED BY <1>1, <1>2, <2>2, SameState DEF JobFrame
<1>5. ASSUME c \notin Clear PROVE UNCHANGED Promise!vars
  <2>1. State(c)' = State(c) /\ Message(c)' = Message(c)
    BY <1>1, <1>2, <1>5, SameState DEF JobFrame
  <2> QED BY <1>4, <2>1, Stutter
<1>6. ASSUME c \in Clear
      PROVE  /\ Phase(jobPc[j], rows[c], j)
             /\ State(c) = rows[c].status /\ Message(c) = "none"
             /\ State(c)' = IF ~Active(j)' /\ rows'[c].status \in InProgress
                            THEN "stuck" ELSE rows'[c].status
             /\ Message(c)' = IF rows'[c].error # "none" THEN "shown" ELSE "none"
  <2>1. Phase(jobPc[j], rows[c], j)
    BY <1>1, <1>6 DEF IInv, JobHolds
  <2>2. ~Stranded(c)
    BY <1>1 DEF Stranded, Working
  <2>3. Working(c)' <=> Active(j)'
    BY <1>1, <1>6 DEF Working, JobFrame, Active, IInv, Alone, SingleRunner, Clear
  <2>4. ~Requested(c, {"proc_queue"})'
    BY <1>1, <1>3, <1>6 DEF Requested, IInv, Alone, Starting, Clear
  <2>5. Stranded(c)' <=> rows'[c].status \in InProgress /\ ~Active(j)'
    BY <1>1, <1>6, <2>3, <2>4 DEF Stranded, JobFrame, Clear
  <2>6. c \in live \ contested /\ c \in live' \ contested' /\ c \notin contested
        /\ c \notin contested'
    BY <1>1, <1>6 DEF Clear, JobFrame
  <2>7. State(c) = rows[c].status /\ Message(c) = "none"
    BY <2>1, <2>2, <2>6 DEF State, Message, Phase
  <2>8. /\ State(c)' = IF Stranded(c)' THEN "stuck" ELSE rows'[c].status
        /\ Message(c)' = IF rows'[c].error # "none" THEN "shown" ELSE "none"
    BY <2>6 DEF State, Message
  <2> QED BY <2>1, <2>5, <2>7, <2>8
<1> QED BY <1>1, <1>4, <1>5, <1>6

(* A commit of a job moves its contract from the status its copy had to     *)
(* the status the copy has now.                                             *)
LEMMA CommitMoves ==
    ASSUME IInv, NEW j \in Jobs, JobStep(j), NEW new \in Row, Commit(j, new),
           NEW c, c = jobOf[j], c \in Clear, jobPc[j] \notin {"queued", "handler"},
           new.consent = loc[j].consent, new.foreign = loc[j].foreign,
           Active(j)' \/ new.status \notin InProgress
    PROVE  /\ Phase(jobPc[j], loc[j], j)
           /\ new.status = loc[j].status /\ new.error = "none" => UNCHANGED Promise!vars
           /\ \A from : /\ loc[j].status \in from
                        /\ new.error # "none" <=> new.status = "failed"
                        => Promise!Move(c, from, new.status)
<1>1. /\ c \in Contracts /\ Active(j) /\ rows \in [Contracts -> Row]
  BY JobStepFrame DEF IInv, Base, TypeOK, JobTyped, JobFrame
<1>2. rows'[c] = new /\ rows[c] = loc[j]
  BY <1>1, CommitCurrent DEF IInv, JobHolds
<1>3. /\ Phase(jobPc[j], loc[j], j)
      /\ State(c) = loc[j].status /\ State(c)' = new.status
      /\ Message(c) = "none"
      /\ Message(c)' = IF new.error # "none" THEN "shown" ELSE "none"
      /\ \A d \in Contracts \ {c} : State(d)' = State(d) /\ Message(d)' = Message(d)
  BY <1>2, JobShows
<1>4. ASSUME new.status = loc[j].status, new.error = "none"
      PROVE  UNCHANGED Promise!vars
  <2>1. \A d \in Contracts : State(d)' = State(d) /\ Message(d)' = Message(d)
    BY <1>3, <1>4
  <2> QED BY <2>1, Stutter
<1>5. ASSUME NEW from, loc[j].status \in from,
             new.error # "none" <=> new.status = "failed"
      PROVE  Promise!Move(c, from, new.status)
  BY <1>1, <1>3, <1>5, MoveOne
<1> QED BY <1>3, <1>4, <1>5

(* A step of a job is a step of the machine on its contract or none.        *)
LEMMA JobStepMoves ==
    ASSUME IInv, NEW j \in Jobs, JobStep(j)
    PROVE  [Promise!Next]_(Promise!vars)
<1> DEFINE r == loc[j]
<1>p. PICK c : c = jobOf[j]
  OBVIOUS
<1>0. c \in Contracts /\ Active(j) /\ r \in Row /\ TypeOK
  BY <1>p, JobStepFrame DEF IInv, Base, TypeOK, JobTyped, JobFrame
<1>c. SUFFICES ASSUME c \in Clear PROVE [Promise!Next]_(Promise!vars)
  BY <1>p, JobShows
<1>f. jobPc[j] \notin {"queued", "handler"} => Phase(jobPc[j], r, j)
  BY <1>p, <1>0, <1>c DEF IInv, JobHolds
<1>s. ASSUME NEW new \in Row, Commit(j, new), jobPc[j] \notin {"queued", "handler"},
             new.consent = r.consent, new.foreign = r.foreign,
             Active(j)' \/ new.status \notin InProgress,
             \/ new.status = r.status /\ new.error = "none"
             \/ \E from \in SUBSET Statuses :
                   /\ r.status \in from
                   /\ new.error # "none" <=> new.status = "failed"
                   /\ Promise!Move(c, from, new.status) => Promise!Work(c)
      PROVE  [Promise!Next]_(Promise!vars)
  <2>1. CASE new.status = r.status /\ new.error = "none"
    BY <1>s, <1>p, <1>c, <2>1, CommitMoves
  <2>2. ASSUME NEW from \in SUBSET Statuses,
               r.status \in from,
               new.error # "none" <=> new.status = "failed",
               Promise!Move(c, from, new.status) => Promise!Work(c)
        PROVE  Promise!Next
    <3>1. Promise!Move(c, from, new.status)
      BY <1>s, <1>p, <1>c, <2>2, CommitMoves
    <3> QED BY <1>0, <2>2, <3>1 DEF Promise!Next
  <2> QED BY <1>s, <2>1, <2>2
<1>q. ASSUME UNCHANGED rows PROVE [Promise!Next]_(Promise!vars)
  <2>1. /\ \A d \in Contracts \ {c} : State(d)' = State(d) /\ Message(d)' = Message(d)
        /\ Phase(jobPc[j], rows[c], j)
        /\ State(c) = rows[c].status /\ Message(c) = "none" /\ Message(c)' = "none"
        /\ State(c)' = IF Active(j)' THEN rows[c].status ELSE "stuck"
    BY <1>p, <1>c, <1>q, JobShows DEF Phase
  <2>2. CASE Active(j)'
    BY <2>1, <2>2, Stutter
  <2>3. CASE ~Active(j)'
    <3>1. State(c) \in Promise!Working
      BY <2>1 DEF Phase, Promise!Working, InProgress
    <3>2. Promise!Strand(c)
      BY <1>0, <2>1, <2>3, <3>1, MoveOne DEF Promise!Strand
    <3> QED BY <1>0, <3>2 DEF Promise!Next
  <2> QED BY <2>2, <2>3
<1>w. ASSUME NEW new, NEW pc \in JobPcs \ {"unused", "done"}, Write(j, new, pc) PROVE Active(j)'
  BY <1>0, <1>w DEF Write, Active, TypeOK, JobTyped
<1>1. CASE JobLoad(j)
  BY <1>1, <1>q DEF JobLoad, Load, dbVars
<1>2. CASE JobReset(j)
  <2> DEFINE new == [r EXCEPT !.error = "none"]
  <2>1. /\ new \in Row /\ new.consent = r.consent /\ new.foreign = r.foreign
        /\ new.status = r.status /\ new.error = "none"
    BY <1>0 DEF Row, Errors
  <2>3. Active(j)'
    BY <1>2, <1>w DEF JobReset, JobPcs
  <2> QED BY <1>2, <1>s, <2>1, <2>3 DEF JobReset, Write
<1>3. CASE JobPending(j)
  <2> DEFINE new == [r EXCEPT !.status = "ocr_pending"]
  <2>1. Phase("pending", r, j)
    BY <1>3, <1>f DEF JobPending
  <2>2. /\ new \in Row /\ new.consent = r.consent /\ new.foreign = r.foreign
        /\ new.status = r.status /\ new.error = "none"
    BY <1>0, <2>1 DEF Row, Statuses, InProgress, Phase
  <2>3. Active(j)'
    BY <1>3, <1>w DEF JobPending, JobPcs
  <2> QED BY <1>3, <1>s, <2>2, <2>3 DEF JobPending, Write
<1>4. CASE JobRead(j)
  BY <1>4, <1>q DEF JobRead, dbVars
<1>5. CASE JobText(j)
  <2> DEFINE new == [r EXCEPT !.text = j, !.status = "ocr_done"]
  <2>1. Phase("text", r, j)
    BY <1>5, <1>f DEF JobText
  <2>2. /\ new \in Row /\ new.consent = r.consent /\ new.foreign = r.foreign
        /\ new.status = "ocr_done" /\ new.error = "none" /\ r.status = "ocr_pending"
    BY <1>0, <2>1 DEF Row, Statuses, InProgress, Phase, Author
  <2>3. Promise!Move(c, {"ocr_pending"}, new.status) => Promise!Work(c)
    BY <2>2 DEF Promise!Work, Promise!Read
  <2>4. {"ocr_pending"} \in SUBSET Statuses
    BY DEF Statuses, InProgress
  <2>5. Active(j)'
    BY <1>5, <1>w DEF JobText, JobPcs
  <2> QED BY <1>5, <1>s, <2>2, <2>3, <2>4, <2>5 DEF JobText, Write
<1>6. CASE JobProcessing(j)
  <2> DEFINE new == [r EXCEPT !.status = "processing"]
  <2>1. Phase("processing", r, j)
    BY <1>6, <1>f DEF JobProcessing
  <2>2. /\ new \in Row /\ new.consent = r.consent /\ new.foreign = r.foreign
        /\ new.status = "processing" /\ new.error = "none" /\ r.status = "ocr_done"
    BY <1>0, <2>1 DEF Row, Statuses, InProgress, Phase
  <2>3. Promise!Move(c, {"ocr_done"}, new.status) => Promise!Work(c)
    BY <2>2 DEF Promise!Work, Promise!Analyse
  <2>4. {"ocr_done"} \in SUBSET Statuses
    BY DEF Statuses, InProgress
  <2>5. Active(j)'
    BY <1>6, <1>w DEF JobProcessing, JobPcs
  <2> QED BY <1>6, <1>s, <2>2, <2>3, <2>4, <2>5 DEF JobProcessing, Write
<1>7. CASE JobStage1(j)
  <2>1. ASSUME UNCHANGED dbVars PROVE [Promise!Next]_(Promise!vars)
    BY <2>1, <1>q DEF dbVars
  <2>2. ASSUME NEW ok \in BOOLEAN,
               Write(j, [r EXCEPT !.stages.s1 = [by |-> j, ok |-> ok]],
                     IF ok THEN "stage2" ELSE "fail")
        PROVE  [Promise!Next]_(Promise!vars)
    <3> DEFINE new == [r EXCEPT !.stages.s1 = [by |-> j, ok |-> ok]]
    <3>1. Phase("stage1", r, j)
      BY <1>7, <1>f DEF JobStage1
    <3>2. /\ new \in Row /\ new.consent = r.consent /\ new.foreign = r.foreign
          /\ new.status = r.status /\ new.error = "none"
      BY <1>0, <3>1 DEF Row, Stages, Output, Author, Phase
    <3>3. Active(j)'
      BY <2>2, <1>w DEF JobPcs
    <3>4. Commit(j, new)
      BY <2>2 DEF Write
    <3> QED BY <1>7, <1>s, <3>2, <3>3, <3>4 DEF JobStage1
  <2> QED BY <1>7, <2>1, <2>2 DEF JobStage1
<1>8. CASE JobStage2(j)
  <2>1. PICK ok \in BOOLEAN :
          Write(j, [r EXCEPT !.stages.s2 = [by |-> j, ok |-> ok]], "stage3")
    BY <1>8 DEF JobStage2
  <2> DEFINE new == [r EXCEPT !.stages.s2 = [by |-> j, ok |-> ok]]
  <2>2. Phase("stage2", r, j)
    BY <1>8, <1>f DEF JobStage2
  <2>3. /\ new \in Row /\ new.consent = r.consent /\ new.foreign = r.foreign
        /\ new.status = r.status /\ new.error = "none"
    BY <1>0, <2>2 DEF Row, Stages, Output, Author, Phase
  <2>4. Active(j)'
    BY <2>1, <1>w DEF JobPcs
  <2>5. Commit(j, new)
    BY <2>1 DEF Write
  <2> QED BY <1>8, <1>s, <2>3, <2>4, <2>5 DEF JobStage2
<1>9. CASE JobStage3(j)
  <2>1. PICK ok \in BOOLEAN :
          Write(j, [r EXCEPT !.stages.s3 = [by |-> j, ok |-> ok], !.stages.tr = "none"],
                IF ok THEN "finish" ELSE "fail")
    BY <1>9 DEF JobStage3
  <2> DEFINE new == [r EXCEPT !.stages.s3 = [by |-> j, ok |-> ok], !.stages.tr = "none"]
  <2>2. Phase("stage3", r, j)
    BY <1>9, <1>f DEF JobStage3
  <2>3. /\ new \in Row /\ new.consent = r.consent /\ new.foreign = r.foreign
        /\ new.status = r.status /\ new.error = "none"
    BY <1>0, <2>2 DEF Row, Stages, Output, Author, Phase
  <2>4. Active(j)'
    BY <2>1, <1>w DEF JobPcs
  <2>5. Commit(j, new)
    BY <2>1 DEF Write
  <2> QED BY <1>9, <1>s, <2>3, <2>4, <2>5 DEF JobStage3
<1>10. CASE JobFinish(j)
  <2>1. PICK tr \in {"none", "translated", "english"} :
          Commit(j, [r EXCEPT !.stages.tr = tr, !.status = "ready"])
    BY <1>10 DEF JobFinish, WriteLast
  <2> DEFINE new == [r EXCEPT !.stages.tr = tr, !.status = "ready"]
  <2>2. Phase("finish", r, j)
    BY <1>10, <1>f DEF JobFinish
  <2>3. /\ new \in Row /\ new.consent = r.consent /\ new.foreign = r.foreign
        /\ new.status = "ready" /\ new.error = "none" /\ r.status = "processing"
    BY <1>0, <2>2 DEF Row, Stages, Statuses, Phase
  <2>4. Promise!Move(c, {"processing"}, new.status) => Promise!Work(c)
    BY <2>3 DEF Promise!Work, Promise!Finish
  <2>5. {"processing"} \in SUBSET Statuses
    BY DEF Statuses, InProgress
  <2>6. new.status \notin InProgress
    BY <2>3 DEF InProgress
  <2> QED BY <1>10, <1>s, <2>1, <2>3, <2>4, <2>5, <2>6 DEF JobFinish
<1>e. ASSUME NEW e \in {"stage", "stopped"}, jobPc[j] \in {"fail", "mark"},
             Commit(j, [r EXCEPT !.status = "failed", !.error = e])
      PROVE  [Promise!Next]_(Promise!vars)
  <2> DEFINE new == [r EXCEPT !.status = "failed", !.error = e]
  <2>1. Phase(jobPc[j], r, j)
    BY <1>e, <1>f
  <2>2. /\ new \in Row /\ new.consent = r.consent /\ new.foreign = r.foreign
        /\ new.status = "failed" /\ new.error # "none" /\ r.status \in InProgress
    BY <1>0, <2>1 DEF Row, Statuses, Startable, Errors, Phase
  <2>3. Promise!Move(c, InProgress, new.status) => Promise!Work(c)
    BY <2>2 DEF Promise!Work, Promise!Fail, Promise!Working, InProgress
  <2>4. InProgress \in SUBSET Statuses
    BY DEF Statuses
  <2>5. Commit(j, new) /\ new.status \notin InProgress /\ jobPc[j] \notin {"queued", "handler"}
    BY <1>e DEF InProgress
  <2> HIDE DEF new
  <2> QED BY <1>s, <2>2, <2>3, <2>4, <2>5
<1>11. CASE JobFail(j)
  BY <1>11, <1>e DEF JobFail, WriteLast
<1>12. CASE JobRaises(j)
  BY <1>12, <1>q DEF JobRaises, dbVars
<1>13. CASE HandlerLoad(j)
  BY <1>13, <1>q DEF HandlerLoad, Load, dbVars
<1>14. CASE HandlerMark(j)
  BY <1>14, <1>e DEF HandlerMark, WriteLast
<1>15. CASE HandlerRaises(j)
  BY <1>15, <1>q DEF HandlerRaises, dbVars
<1> QED BY <1>1, <1>2, <1>3, <1>4, <1>5, <1>6, <1>7, <1>8, <1>9, <1>10, <1>11,
           <1>12, <1>13, <1>14, <1>15 DEF JobStep

(* A step of a request is a step of the machine on its contract or none.    *)
LEMMA RequestMoves ==
    ASSUME IInv, NEW k \in Clients, RequestStarts(k) \/ RequestStep(k)
    PROVE  [Promise!Next]_(Promise!vars)
<1> DEFINE Queues == reqPc[k] = "proc_queue"
<1>c. PICK c : c = reqOf[k]
  OBVIOUS
<1>0. /\ TypeOK /\ live \subseteq used /\ used \subseteq Contracts
      /\ rows \in [Contracts -> Row] /\ contested \subseteq used
      /\ reqPc[k] # "idle" => c \in Contracts /\ c \in used
  BY <1>c DEF IInv, Base, TypeOK, FileInv, ReqTyped
<1>l. \A i \in Clients : Uploads(i) => reqOf[i] \notin live
  BY DEF IInv, Base, FileInv
<1>q. ASSUME OthersWait(k), UNCHANGED <<jobPc, jobOf>>,
             NEW d \in Contracts, d \in live' <=> d \in live, d \in used' <=> d \in used,
             d \in contested' <=> d \in contested,
             (Uploads(k) /\ reqOf[k] = d)' <=> Uploads(k) /\ reqOf[k] = d,
             d \in Clear => /\ rows'[d] = rows[d]
                            /\ (Queues /\ reqOf[k] = d)' <=> Queues /\ reqOf[k] = d
      PROVE  State(d)' = State(d) /\ Message(d)' = Message(d)
  <2>1. Uploading(d)' <=> Uploading(d)
    BY <1>q DEF Uploading, Requested, Uploads, OthersWait
  <2>2. Working(d)' <=> Working(d)
    BY <1>q DEF Working, Active
  <2>3. d \in Clear => (Stranded(d)' <=> Stranded(d))
    BY <1>c, <1>q, <2>2 DEF Stranded, Requested, OthersWait
  <2> QED BY <1>c, <1>q, <2>1, <2>3, SameState
<1>1. ASSUME NEW d \in Contracts, NEW consent \in BOOLEAN, NEW foreign \in BOOLEAN,
             UploadInsert(k, d, consent, foreign)
      PROVE  UNCHANGED Promise!vars
  <2>1. /\ d \notin used /\ d \notin live /\ used' = used \cup {d}
        /\ UNCHANGED <<live, contested, jobPc, jobOf>>
        /\ \A x \in Contracts \ {d} : rows'[x] = rows[x]
    BY <1>0, <1>1 DEF UploadInsert, jobVars
  <2>2. /\ OthersWait(k) /\ reqPc[k] = "idle" /\ reqPc'[k] = "up_save" /\ reqOf'[k] = d
    BY <1>0, <1>1, RequestFrame DEF UploadInsert
  <2>3. \A x \in Contracts \ {d} : State(x)' = State(x) /\ Message(x)' = Message(x)
    BY <1>c, <1>q, <2>1, <2>2 DEF Uploads
  <2>4. State(d)' = State(d) /\ Message(d)' = Message(d)
    BY <2>1, <2>2 DEF State, Message, Uploading, Requested
  <2> QED BY <2>3, <2>4, Stutter
<1>2. ASSUME NEW d \in Contracts, ProcessLoad(k, d)
      PROVE  [Promise!Next]_(Promise!vars)
  <2>1. /\ UNCHANGED <<live, rows, used, jobPc, jobOf>> /\ d \in live
        /\ rows[d].status \in Startable
        /\ contested' = contested \/ contested' = contested \cup {d}
    BY <1>2 DEF ProcessLoad, Contests, dbVars, jobVars
  <2>2. OthersWait(k) /\ reqPc[k] = "idle" /\ reqPc'[k] = "proc_commit" /\ reqOf'[k] = d
    BY <1>0, <1>2, RequestFrame DEF ProcessLoad
  <2>3. \A x \in Contracts \ {d} : State(x)' = State(x) /\ Message(x)' = Message(x)
    BY <1>c, <1>q, <2>1, <2>2 DEF Uploads
  <2>4. CASE d \in contested' <=> d \in contested
    <3>1. State(d)' = State(d) /\ Message(d)' = Message(d)
      BY <1>c, <1>q, <2>1, <2>2, <2>4 DEF Uploads
    <3> QED BY <2>3, <3>1, Stutter
  <2>5. CASE d \in contested' /\ d \notin contested
    <3>1. State(d) = rows[d].status
      BY <2>1, <2>5 DEF State, Stranded, InProgress, Startable
    <3>2. State(d)' = "contested" /\ Message(d)' = "none"
      BY <2>1, <2>5 DEF State, Message
    <3>3. Promise!Contest(d)
      BY <2>1, <2>3, <3>1, <3>2, MoveOne DEF Promise!Contest, Promise!Startable, Startable
    <3> QED BY <3>3 DEF Promise!Next
  <2> QED BY <2>1, <2>4, <2>5
<1>3. ASSUME NEW d \in Contracts, DeleteLoad(k, d) PROVE UNCHANGED Promise!vars
  <2>1. UNCHANGED <<live, rows, used, contested, jobPc, jobOf>>
    BY <1>3 DEF DeleteLoad, dbVars, jobVars
  <2>2. OthersWait(k) /\ reqPc[k] = "idle" /\ reqPc'[k] = "del_file"
    BY <1>0, <1>3, RequestFrame DEF DeleteLoad
  <2>3. \A x \in Contracts : State(x)' = State(x) /\ Message(x)' = Message(x)
    BY <1>c, <1>q, <2>1, <2>2 DEF Uploads
  <2> QED BY <2>3, Stutter
<1>4. ASSUME UploadSave(k) \/ DeleteFile(k) PROVE UNCHANGED Promise!vars
  <2>1. UNCHANGED <<live, rows, used, contested, jobPc, jobOf>>
    BY <1>4 DEF UploadSave, DeleteFile, dbVars, jobVars
  <2>2. /\ OthersWait(k) /\ UNCHANGED reqOf
        /\ \/ reqPc[k] = "up_save" /\ reqPc'[k] = "up_commit"
           \/ reqPc[k] = "del_file" /\ reqPc'[k] = "del_commit"
    BY <1>0, <1>4, RequestFrame DEF UploadSave, DeleteFile
  <2>3. \A x \in Contracts : State(x)' = State(x) /\ Message(x)' = Message(x)
    BY <1>c, <1>q, <2>1, <2>2 DEF Uploads
  <2> QED BY <2>3, Stutter
<1>5. CASE UploadCommit(k)
  <2>1. /\ live' = live \cup {c} /\ reqPc[k] = "up_commit"
        /\ UNCHANGED <<rows, used, contested, jobPc, jobOf>>
    BY <1>c, <1>5 DEF UploadCommit, jobVars
  <2>2. OthersWait(k) /\ reqPc'[k] = "idle"
    BY <1>0, <1>5, RequestFrame DEF UploadCommit
  <2>3. /\ c \in Contracts /\ c \notin live /\ c \notin contested
        /\ rows[c].status = "uploaded" /\ rows[c].error = "none"
    BY <1>c, <1>0, <1>l, <2>1 DEF IInv, Base, CourseInv, ReqHolds, Uploads
  <2>4. \A d \in Contracts \ {c} : State(d)' = State(d) /\ Message(d)' = Message(d)
    BY <1>c, <1>q, <2>1, <2>2 DEF Uploads
  <2>5. State(c) = "absent"
    BY <1>c, <2>1, <2>3 DEF State, Uploading, Requested
  <2>6. State(c)' = "uploaded" /\ Message(c)' = "none"
    BY <2>1, <2>3 DEF State, Message, Stranded, InProgress
  <2>7. Promise!Upload(c)
    BY <2>3, <2>4, <2>5, <2>6, MoveOne DEF Promise!Upload
  <2> QED BY <2>3, <2>7 DEF Promise!Next
<1>6. CASE ProcessReserve(k)
  <2> DEFINE new == [seen[k] EXCEPT !.status = "ocr_pending", !.error = "none"]
  <2>1. /\ c \in live /\ reqPc[k] = "proc_commit"
        /\ UNCHANGED <<live, used, contested, jobPc, jobOf>>
        /\ rows' = [rows EXCEPT ![c] = Flush(@, seen[k], new)]
    BY <1>c, <1>6 DEF ProcessReserve, jobVars
  <2>2. OthersWait(k) /\ UNCHANGED reqOf /\ reqPc'[k] = "proc_queue"
    BY <1>0, <1>6, RequestFrame DEF ProcessReserve
  <2>3. c \in Contracts /\ \A d \in Contracts \ {c} : rows'[d] = rows[d]
    BY <1>0, <2>1
  <2>4. \A d \in Contracts \ {c} : State(d)' = State(d) /\ Message(d)' = Message(d)
    BY <1>c, <1>q, <2>1, <2>2, <2>3 DEF Uploads
  <2>5. CASE c \in contested
    <3>1. State(c)' = State(c) /\ Message(c)' = Message(c)
      BY <1>c, <1>q, <2>1, <2>2, <2>3, <2>5 DEF Uploads, Clear
    <3> QED BY <2>4, <3>1, Stutter
  <2>6. CASE c \notin contested
    <3>1. /\ rows[c] = seen[k] /\ seen[k] \in Row /\ seen[k].status \in Startable
      BY <1>c, <1>0, <2>1, <2>6 DEF IInv, ReqHolds, Clear, TypeOK, ReqTyped
    <3>2. /\ new \in Row /\ new.consent = seen[k].consent /\ new.foreign = seen[k].foreign
          /\ new.status = "ocr_pending" /\ new.error = "none"
      BY <3>1 DEF Row, Statuses, InProgress, Errors
    <3>f. rows'[c] = Flush(rows[c], seen[k], new)
      BY <1>0, <2>1, <2>3
    <3> HIDE DEF new
    <3>3. rows'[c] = new
      BY <3>1, <3>2, <3>f, FlushCurrent
    <3>4. Requested(c, {"proc_queue"})'
      BY <1>c, <2>2 DEF Requested
    <3>5. State(c) = rows[c].status
      BY <2>1, <2>6, <3>1 DEF State, Stranded, InProgress, Startable
    <3>6. State(c)' = "ocr_pending" /\ Message(c)' = "none"
      BY <2>1, <2>6, <3>2, <3>3, <3>4 DEF State, Message, Stranded
    <3>7. Promise!Start(c)
      BY <2>3, <2>4, <3>1, <3>5, <3>6, MoveOne
         DEF Promise!Start, Promise!Startable, Startable
    <3> QED BY <2>3, <3>7 DEF Promise!Next
  <2> QED BY <2>5, <2>6
<1>7. ASSUME NEW j \in Jobs, ProcessQueue(k, j) PROVE UNCHANGED Promise!vars
  <2>1. /\ UNCHANGED <<live, rows, used, contested>> /\ Queues
        /\ jobPc'[j] = "queued" /\ jobOf'[j] = c /\ ~Active(j)
        /\ \A i \in Jobs \ {j} : UNCHANGED <<jobPc[i], jobOf[i]>>
    BY <1>c, <1>0, <1>7 DEF ProcessQueue, dbVars, Active, TypeOK, JobTyped
  <2>2. OthersWait(k) /\ reqPc'[k] = "idle"
    BY <1>0, <1>7, RequestFrame DEF ProcessQueue
  <2>3. \A d : Uploading(d)' <=> Uploading(d)
    BY <1>c, <2>1, <2>2 DEF Uploading, Requested, OthersWait
  <2>4. \A d : d # c => (Working(d)' <=> Working(d))
    BY <2>1 DEF Working, Active
  <2>5. \A d : d # c => (Stranded(d)' <=> Stranded(d))
    BY <1>c, <2>1, <2>2, <2>4 DEF Stranded, Requested, OthersWait
  <2>6. ~Stranded(c) /\ ~Stranded(c)'
    BY <1>c, <2>1 DEF Stranded, Requested, Working, Active
  <2>7. \A d \in Contracts : State(d)' = State(d) /\ Message(d)' = Message(d)
    BY <2>1, <2>3, <2>5, <2>6, SameState
  <2> QED BY <2>7, Stutter
<1>8. CASE DeleteCommit(k)
  <2>1. /\ live' = live \ {c} /\ reqPc[k] = "del_commit"
        /\ UNCHANGED <<rows, used, contested, jobPc, jobOf>>
    BY <1>c, <1>8 DEF DeleteCommit, jobVars
  <2>2. OthersWait(k) /\ reqPc'[k] = "idle"
    BY <1>0, <1>8, RequestFrame DEF DeleteCommit
  <2>3. \A d \in Contracts \ {c} : State(d)' = State(d) /\ Message(d)' = Message(d)
    BY <1>c, <1>q, <2>1, <2>2 DEF Uploads
  <2>4. CASE c \in live
    <3>1. c \in Contracts /\ c \in used /\ rows[c].status \in Statuses
      BY <1>0, <2>1, <2>4 DEF Row
    <3>2. ~Uploading(c)'
      BY <1>c, <1>l, <2>2, <2>4 DEF Uploading, Requested, Uploads, OthersWait
    <3>3. State(c) \in {"contested", "stuck", rows[c].status}
      BY <2>4 DEF State
    <3>4. State(c)' = "gone" /\ Message(c)' = "none"
      BY <2>1, <3>1, <3>2 DEF State, Message
    <3>5. Promise!Remove(c)
      BY <2>3, <3>1, <3>3, <3>4, MoveOne
         DEF Promise!Remove, Promise!Startable, Promise!Working, Statuses, InProgress, Startable
    <3> QED BY <3>1, <3>5 DEF Promise!Next
  <2>5. CASE c \notin live
    <3>1. State(c)' = State(c) /\ Message(c)' = Message(c)
      BY <1>c, <1>0, <1>q, <2>1, <2>2, <2>5 DEF Uploads, Clear
    <3> QED BY <2>3, <3>1, Stutter
  <2> QED BY <2>4, <2>5
<1>9. CASE RequestRaises(k)
  <2>1. UNCHANGED <<live, rows, used, contested, jobPc, jobOf>> /\ reqPc[k] # "idle"
    BY <1>9 DEF RequestRaises, dbVars, jobVars
  <2>2. OthersWait(k) /\ reqPc'[k] = "idle"
    BY <1>0, <1>9, RequestFrame DEF RequestRaises
  <2>3. c \in Contracts /\ c \in used
    BY <1>0, <2>1
  <2>4. \A d \in Contracts \ {c} : State(d)' = State(d) /\ Message(d)' = Message(d)
    BY <1>c, <1>q, <2>1, <2>2 DEF Uploads
  <2>5. CASE Uploads(k)
    <3>1. c \notin live /\ ~Uploading(c)' /\ Uploading(c)
      BY <1>c, <2>2, <2>5 DEF IInv, Base, FileInv, Uploading, Requested, Uploads, OthersWait
    <3>2. State(c) = "absent" /\ State(c)' = "gone" /\ Message(c)' = "none"
      BY <2>1, <2>3, <3>1 DEF State, Message
    <3>3. Promise!Remove(c)
      BY <2>3, <2>4, <3>2, MoveOne DEF Promise!Remove
    <3> QED BY <2>3, <3>3 DEF Promise!Next
  <2>6. CASE Queues /\ c \in Clear
    <3>1. rows[c].status = "ocr_pending" /\ rows[c].error = "none"
      BY <1>c, <2>6 DEF IInv, ReqHolds
    <3>2. ~Stranded(c)
      BY <1>c, <2>6 DEF Stranded, Requested
    <3>3. ~Working(c)' /\ ~Requested(c, {"proc_queue"})'
      BY <1>c, <2>1, <2>2, <2>6
         DEF IInv, Alone, Starting, Clear, Working, Active, Requested, OthersWait
    <3>4. Stranded(c)'
      BY <2>1, <2>6, <3>1, <3>3 DEF Stranded, Clear, InProgress
    <3>5. State(c) = "ocr_pending" /\ State(c)' = "stuck" /\ Message(c)' = "none"
      BY <2>1, <2>6, <3>1, <3>2, <3>4 DEF State, Message, Clear
    <3>6. Promise!Strand(c)
      BY <2>3, <2>4, <3>5, MoveOne DEF Promise!Strand, Promise!Working
    <3> QED BY <2>3, <3>6 DEF Promise!Next
  <2>7. CASE ~Uploads(k) /\ ~(Queues /\ c \in Clear)
    <3>1. State(c)' = State(c) /\ Message(c)' = Message(c)
      BY <1>c, <1>q, <2>1, <2>2, <2>3, <2>7 DEF Uploads
    <3> QED BY <2>4, <3>1, Stutter
  <2>8. Uploads(k) => ~Queues
    BY DEF Uploads
  <2> QED BY <2>5, <2>6, <2>7
<1> QED BY <1>1, <1>2, <1>3, <1>4, <1>5, <1>6, <1>7, <1>8, <1>9
        DEF RequestStarts, RequestStep

(* The worker's stop ends uploads under way and leaves what is being read.  *)
LEMMA CrashMoves ==
    ASSUME IInv, Crash
    PROVE  Promise!Next
<1>1. /\ UNCHANGED <<live, rows, used, contested>>
      /\ \A d \in Contracts : ~Uploading(d)' /\ ~Working(d)' /\ ~Requested(d, {"proc_queue"})'
  BY DEF Crash, dbVars, Uploading, Requested, Working, Active
<1> DEFINE uploads == {d \in Contracts : Uploading(d)}
<1>2. ASSUME NEW d \in Contracts
      PROVE  /\ Uploading(d) => State(d) = "absent"
             /\ State(d)' = IF d \in uploads THEN "gone"
                            ELSE IF State(d) \in Promise!Working THEN "stuck"
                            ELSE State(d)
             /\ Message(d)' = Message(d)
  <2>1. Message(d)' = Message(d)
    BY <1>1 DEF Message
  <2>2. Uploading(d) => d \in used /\ d \notin live
    BY DEF Uploading, Requested, IInv, Base, FileInv, Uploads
  <2>3. CASE d \in live
    <3>1. rows[d].status \in Statuses
      BY DEF IInv, Base, TypeOK, Row
    <3>2. Stranded(d)' <=> rows[d].status \in InProgress
      BY <1>1, <2>3 DEF Stranded
    <3>3. Stranded(d) => rows[d].status \in InProgress
      BY DEF Stranded
    <3> QED BY <1>1, <2>1, <2>2, <2>3, <3>1, <3>2, <3>3
            DEF State, Promise!Working, Statuses, InProgress, Startable
  <2>4. CASE d \notin live
    BY <1>1, <2>1, <2>2, <2>4 DEF State, Promise!Working
  <2> QED BY <2>3, <2>4
<1>3. uploads \in SUBSET {d \in Contracts : [x \in Contracts |-> State(x)][d] = "absent"}
  BY <1>2
<1>4. Promise!Stop
  BY <1>2, <1>3 DEF Promise!Stop
<1> QED BY <1>4 DEF Promise!Next

(* Whatever overlaps, fails or stops: every step is a step of the status    *)
(* machine or none.                                                         *)
THEOREM ImplementsStatusMachine == Spec => Promise!Spec
<1>1. Init => Promise!Init
  BY DEF Init, Promise!Init, State, Message
<1>2. ASSUME IInv, [Next]_vars PROVE [Promise!Next]_(Promise!vars)
  <2>1. CASE \E k \in Clients : RequestStarts(k) \/ RequestStep(k)
    BY <1>2, <2>1, RequestMoves
  <2>2. CASE \E j \in Jobs : JobStep(j)
    BY <1>2, <2>2, JobStepMoves
  <2>3. CASE Crash
    BY <1>2, <2>3, CrashMoves
  <2>4. CASE UNCHANGED vars
    <3>1. \A d \in Contracts : State(d)' = State(d) /\ Message(d)' = Message(d)
      BY <2>4 DEF vars, dbVars, reqVars, jobVars, State, Message, Stranded, Uploading,
         Requested, Working, Active
    <3> QED BY <3>1, Stutter
  <2> QED BY <1>2, <2>1, <2>2, <2>3, <2>4 DEF Next
<1> QED BY <1>1, <1>2, Invariant, PTL DEF Spec, Promise!Spec
=============================================================================
