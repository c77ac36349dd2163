--------------------------- MODULE ContractReader ---------------------------
(***************************************************************************)
(* The Contract Reader of app/contracts: upload, "Read this contract",     *)
(* the background processor and delete, over one PostgreSQL table, one     *)
(* file store and one worker process.                                      *)
(*                                                                         *)
(* Three kinds of actor interleave:                                        *)
(*   Clients   HTTP requests in flight (routes.py).  Each slot carries one *)
(*             request at a time; two slots are two concurrent requests.   *)
(*   Jobs      background tasks, process_contract_bg (processor.py).       *)
(*   the host  which may stop the worker process between any two steps.    *)
(*                                                                         *)
(* A step ends where the code hands control to the database or the file    *)
(* store.  Every actor works on its own ORM copy of the row (loc, seen),   *)
(* which a commit does not refresh (db.py: expire_on_commit=False) and of  *)
(* which a flush writes only the columns changed since they were loaded.   *)
(***************************************************************************)
EXTENDS Naturals, FiniteSets

CONSTANTS
    Contracts,   \* contract ids (uuid4): an id is drawn once, by one upload
    Clients,     \* concurrent HTTP requests
    Jobs,        \* background tasks; a finished job is never reused
    NoContract, NoJob,
    MaxFaults,   \* bound: database and storage calls that raise
    MaxCrashes   \* bound: times the worker process stops

ASSUME ConstantsAssumption ==
    /\ NoContract \notin Contracts
    /\ NoJob \notin Jobs
    /\ MaxFaults \in Nat
    /\ MaxCrashes \in Nat

VARIABLES
    live,     \* contracts with a committed row in uploaded_contracts
    rows,     \* their columns; for c \notin live, the uncommitted INSERT
    used,     \* ids drawn so far
    files,    \* contracts whose file is in the store
    reqPc, reqOf, seen,   \* request: where it is, its contract, its ORM copy
    jobPc, jobOf, loc,    \* job: where it is, its contract, its ORM copy
    faults, crashes,      \* how much of the bounds is spent
    contested \* history: contracts that two POST /process found startable
              \* before either had reserved them; no guard reads it

dbVars  == <<live, rows, used>>
reqVars == <<reqPc, reqOf, seen>>
jobVars == <<jobPc, jobOf, loc>>
bounds  == <<faults, crashes>>
vars    == <<dbVars, files, reqVars, jobVars, bounds, contested>>

-----------------------------------------------------------------------------
(* The row.  An output is tagged with the job that computed it; ok is FALSE *)
(* for an output that carries an error or is empty.                         *)

InProgress == {"ocr_pending", "ocr_done", "processing"}
Startable  == {"uploaded", "failed"}
Statuses   == InProgress \cup Startable \cup {"ready"}
Errors     == {"none", "stage", "stopped"}   \* error_message, by its writer

Author == Jobs \cup {NoJob}
Output == [by : Author, ok : BOOLEAN]
Stages == [s1 : Output, s2 : Output, s3 : Output,
           tr : {"none", "translated", "english"}]  \* stage_3.translation
Row == [status : Statuses, error : Errors, consent : BOOLEAN,
        foreign : BOOLEAN,                          \* target_language # 'en'
        text : Author, stages : Stages]

NoOutput == [by |-> NoJob, ok |-> FALSE]
NoStages == [s1 |-> NoOutput, s2 |-> NoOutput, s3 |-> NoOutput, tr |-> "none"]
Uploaded(consent, foreign) ==
    [status |-> "uploaded", error |-> "none", consent |-> consent,
     foreign |-> foreign, text |-> NoJob, stages |-> NoStages]
Blank == Uploaded(FALSE, FALSE)

(* UPDATE of a row from an ORM object loaded as old and now new: a column   *)
(* whose value did not change is not part of the statement.                 *)
Column(db, old, new) == IF new = old THEN db ELSE new
Flush(db, old, new) ==
    [status  |-> Column(db.status, old.status, new.status),
     error   |-> Column(db.error, old.error, new.error),
     consent |-> db.consent,
     foreign |-> db.foreign,
     text    |-> Column(db.text, old.text, new.text),
     stages  |-> Column(db.stages, old.stages, new.stages)]

JobPcs == {"unused", "queued", "reset", "pending", "read", "text",
           "processing", "stage1", "stage2", "stage3", "finish", "fail",
           "handler", "mark", "done"}
Writing == {"reset", "pending", "text", "processing", "stage1", "stage2",
            "stage3", "finish", "fail"}
Active(j) == jobPc[j] \notin {"unused", "done"}
ReqPcs == {"idle", "up_save", "up_commit", "proc_commit", "proc_queue",
           "del_file", "del_commit"}

Init ==
    /\ live = {} /\ used = {} /\ files = {}
    /\ rows = [c \in Contracts |-> Blank]
    /\ reqPc = [k \in Clients |-> "idle"]
    /\ reqOf = [k \in Clients |-> NoContract]
    /\ seen = [k \in Clients |-> Blank]
    /\ jobPc = [j \in Jobs |-> "unused"]
    /\ jobOf = [j \in Jobs |-> NoContract]
    /\ loc = [j \in Jobs |-> Blank]
    /\ faults = 0 /\ crashes = 0 /\ contested = {}

(* A database or storage call raises.                                       *)
Fault == faults < MaxFaults /\ faults' = faults + 1 /\ UNCHANGED crashes

-----------------------------------------------------------------------------
(* Requests.  A refused one (400, 404, 409, 415) changes nothing and has no *)
(* action; the guards are those of the requests that go through.            *)

Accept(k, c, pc, copy) ==
    /\ reqPc[k] = "idle"
    /\ reqPc' = [reqPc EXCEPT ![k] = pc]
    /\ reqOf' = [reqOf EXCEPT ![k] = c]
    /\ seen' = [seen EXCEPT ![k] = copy]

(* A request on contract c is at one of the steps pcs.                       *)
Requested(c, pcs) == \E k \in Clients : reqPc[k] \in pcs /\ reqOf[k] = c

Goto(k, pc) ==
    /\ reqPc' = [reqPc EXCEPT ![k] = pc]
    /\ UNCHANGED <<reqOf, seen>>

Reply(k) ==
    /\ reqPc' = [reqPc EXCEPT ![k] = "idle"]
    /\ reqOf' = [reqOf EXCEPT ![k] = NoContract]
    /\ seen' = [seen EXCEPT ![k] = Blank]

(* Mutant: the upload commits its row before the file is saved.             *)
UploadInsert_CommitsFirst(k, c, consent, foreign) ==
    /\ c \notin used
    /\ Accept(k, c, "up_save", Blank)
    /\ used' = used \cup {c}
    /\ live' = live \cup {c}
    /\ rows' = [rows EXCEPT ![c] = Uploaded(consent, foreign)]
    /\ UNCHANGED <<files, jobVars, bounds, contested>>

(* POST /api/contracts: the validated row is added and flushed.             *)
UploadInsert(k, c, consent, foreign) ==
    /\ c \notin used
    /\ Accept(k, c, "up_save", Blank)
    /\ used' = used \cup {c}
    /\ rows' = [rows EXCEPT ![c] = Uploaded(consent, foreign)]
    /\ UNCHANGED <<live, files, jobVars, bounds, contested>>

UploadSave(k) ==
    /\ reqPc[k] = "up_save"
    /\ files' = files \cup {reqOf[k]}
    /\ Goto(k, "up_commit")
    /\ UNCHANGED <<dbVars, jobVars, bounds, contested>>

(* The session dependency commits when the request is torn down.            *)
UploadCommit(k) ==
    /\ reqPc[k] = "up_commit"
    /\ live' = live \cup {reqOf[k]}
    /\ Reply(k)
    /\ UNCHANGED <<rows, used, files, jobVars, bounds, contested>>

(* Bound: a process request is sent only while a job is left to serve it.   *)
JobLeft ==
    Cardinality({k \in Clients : reqPc[k] \in {"proc_commit", "proc_queue"}})
        < Cardinality({j \in Jobs : jobPc[j] = "unused"})

(* What the history variable notes when a process request passed the guards.*)
Contests(c) ==
    contested' = IF Requested(c, {"proc_commit"}) THEN contested \cup {c}
                                                  ELSE contested

(* Mutant: no 409 for a contract that is already being processed.           *)
ProcessLoad_NoBusyGuard(k, c) ==
    /\ c \in live
    /\ rows[c].consent
    /\ rows[c].status # "ready"
    /\ JobLeft
    /\ Accept(k, c, "proc_commit", rows[c])
    /\ Contests(c)
    /\ UNCHANGED <<dbVars, files, jobVars, bounds>>

(* Mutant: no 409 for a contract without consent.                           *)
ProcessLoad_NoConsent(k, c) ==
    /\ c \in live
    /\ rows[c].status \in Startable
    /\ JobLeft
    /\ Accept(k, c, "proc_commit", rows[c])
    /\ Contests(c)
    /\ UNCHANGED <<dbVars, files, jobVars, bounds>>

(* POST /{id}/process: the row is read and its consent and status checked.  *)
ProcessLoad(k, c) ==
    /\ c \in live
    /\ rows[c].consent
    /\ rows[c].status \in Startable
    /\ JobLeft
    /\ Accept(k, c, "proc_commit", rows[c])
    /\ Contests(c)
    /\ UNCHANGED <<dbVars, files, jobVars, bounds>>

(* ... then reserved, from what was read, and committed ...                 *)
ProcessReserve(k) ==
    /\ reqPc[k] = "proc_commit"
    /\ reqOf[k] \in live
    /\ rows' = [rows EXCEPT ![reqOf[k]] =
                  Flush(@, seen[k], [seen[k] EXCEPT !.status = "ocr_pending",
                                                    !.error = "none"])]
    /\ Goto(k, "proc_queue")
    /\ UNCHANGED <<live, used, files, jobVars, bounds, contested>>

(* ... and the background task is handed over once the 202 is sent.  Before *)
(* that the reply reads updated_at, which the UPDATE has expired, from the   *)
(* row: RequestRaises is what happens if it cannot.                         *)
ProcessQueue(k, j) ==
    /\ reqPc[k] = "proc_queue"
    /\ jobPc[j] = "unused"
    /\ jobPc' = [jobPc EXCEPT ![j] = "queued"]
    /\ jobOf' = [jobOf EXCEPT ![j] = reqOf[k]]
    /\ Reply(k)
    /\ UNCHANGED <<dbVars, files, loc, bounds, contested>>

(* DELETE /{id}: the row is found, the file deleted, then the row.          *)
DeleteLoad(k, c) ==
    /\ c \in live
    /\ Accept(k, c, "del_file", Blank)
    /\ UNCHANGED <<dbVars, files, jobVars, bounds, contested>>

(* Mutant: a failing store is ignored and the row deleted all the same.     *)
DeleteFile_Swallows(k) ==
    /\ reqPc[k] = "del_file"
    /\ \/ files' = files \ {reqOf[k]} \/ UNCHANGED files
    /\ Goto(k, "del_commit")
    /\ UNCHANGED <<dbVars, jobVars, bounds, contested>>

DeleteFile(k) ==
    /\ reqPc[k] = "del_file"
    /\ files' = files \ {reqOf[k]}
    /\ Goto(k, "del_commit")
    /\ UNCHANGED <<dbVars, jobVars, bounds, contested>>

DeleteCommit(k) ==
    /\ reqPc[k] = "del_commit"
    /\ live' = live \ {reqOf[k]}
    /\ Reply(k)
    /\ UNCHANGED <<rows, used, files, jobVars, bounds, contested>>

(* A storage or database call of the request raises, or the UPDATE or the   *)
(* reply's SELECT finds the row gone (StaleDataError, ObjectDeletedError):  *)
(* what is not committed is rolled back and the reply is 500.  At           *)
(* "proc_queue" the reservation is committed, and no task will follow it.   *)
RequestRaises(k) ==
    /\ \/ reqPc[k] # "idle" /\ Fault
       \/ /\ reqPc[k] \in {"proc_commit", "proc_queue"} /\ reqOf[k] \notin live
          /\ UNCHANGED bounds
    /\ Reply(k)
    /\ UNCHANGED <<dbVars, files, jobVars, contested>>

-----------------------------------------------------------------------------
(* The background task.                                                     *)

Stop(j) ==
    /\ jobPc' = [jobPc EXCEPT ![j] = "done"]
    /\ jobOf' = [jobOf EXCEPT ![j] = NoContract]
    /\ loc' = [loc EXCEPT ![j] = Blank]

Step(j, pc) ==
    /\ jobPc' = [jobPc EXCEPT ![j] = pc]
    /\ UNCHANGED <<jobOf, loc>>

(* SELECT of the row: a deleted one ends the job.                           *)
Load(j, pc) ==
    /\ IF jobOf[j] \in live
       THEN /\ jobPc' = [jobPc EXCEPT ![j] = pc]
            /\ loc' = [loc EXCEPT ![j] = rows[jobOf[j]]]
            /\ UNCHANGED jobOf
       ELSE Stop(j)
    /\ UNCHANGED <<dbVars, files, reqVars, bounds, contested>>

(* Mutant: the detached object is merged, which inserts a missing row.      *)
Commit_Merges(j, new) ==
    /\ live' = live \cup {jobOf[j]}
    /\ rows' = [rows EXCEPT ![jobOf[j]] = Flush(@, loc[j], new)]
    /\ UNCHANGED <<used, files, reqVars, bounds, contested>>

(* Flush of the ORM object and commit.                                      *)
Commit(j, new) ==
    /\ jobOf[j] \in live
    /\ rows' = [rows EXCEPT ![jobOf[j]] = Flush(@, loc[j], new)]
    /\ UNCHANGED <<live, used, files, reqVars, bounds, contested>>

Write(j, new, pc) ==
    /\ Commit(j, new)
    /\ jobPc' = [jobPc EXCEPT ![j] = pc]
    /\ loc' = [loc EXCEPT ![j] = new]
    /\ UNCHANGED jobOf

WriteLast(j, new) == Commit(j, new) /\ Stop(j)

JobLoad(j) == jobPc[j] = "queued" /\ Load(j, "reset")

(* Mutant: the reset puts the contract back to where it started.            *)
JobReset_Restarts(j) ==
    /\ jobPc[j] = "reset"
    /\ Write(j, [loc[j] EXCEPT !.error = "none", !.status = "uploaded"], "pending")

JobReset(j) ==
    /\ jobPc[j] = "reset"
    /\ Write(j, [loc[j] EXCEPT !.error = "none"], "pending")

JobPending(j) ==
    /\ jobPc[j] = "pending"
    /\ Write(j, [loc[j] EXCEPT !.status = "ocr_pending"], "read")

(* The file is read and OCRed; either may fail, or find no text.            *)
JobRead(j) ==
    /\ jobPc[j] = "read"
    /\ \/ jobOf[j] \in files /\ Step(j, "text")
       \/ Step(j, "fail")
    /\ UNCHANGED <<dbVars, files, reqVars, bounds, contested>>

JobText(j) ==
    /\ jobPc[j] = "text"
    /\ Write(j, [loc[j] EXCEPT !.text = j, !.status = "ocr_done"], "processing")

(* Mutant: a status that the CHECK constraint does not list.                *)
JobProcessing_NewStatus(j) ==
    /\ jobPc[j] = "processing"
    /\ Write(j, [loc[j] EXCEPT !.status = "stage_1"], "stage1")

JobProcessing(j) ==
    /\ jobPc[j] = "processing"
    /\ Write(j, [loc[j] EXCEPT !.status = "processing"], "stage1")

(* Stage 1 raises, or its output is merged; without clauses the job fails.  *)
JobStage1(j) ==
    /\ jobPc[j] = "stage1"
    /\ \/ /\ Step(j, "fail")
          /\ UNCHANGED <<dbVars, files, reqVars, bounds, contested>>
       \/ \E ok \in BOOLEAN :
            Write(j, [loc[j] EXCEPT !.stages.s1 = [by |-> j, ok |-> ok]],
                  IF ok THEN "stage2" ELSE "fail")

(* Stage 2 never stops the job: its error is stored and Stage 3 goes on.    *)
JobStage2(j) ==
    /\ jobPc[j] = "stage2"
    /\ \E ok \in BOOLEAN :
         Write(j, [loc[j] EXCEPT !.stages.s2 = [by |-> j, ok |-> ok]], "stage3")

(* Mutant: Stage 3 failure is soft.                                         *)
JobStage3_Soft(j) ==
    /\ jobPc[j] = "stage3"
    /\ \E ok \in BOOLEAN :
         Write(j, [loc[j] EXCEPT !.stages.s3 = [by |-> j, ok |-> ok],
                                 !.stages.tr = "none"], "finish")

(* Stage 3 replaces the whole stage_3 entry, an old translation included.   *)
JobStage3(j) ==
    /\ jobPc[j] = "stage3"
    /\ \E ok \in BOOLEAN :
         Write(j, [loc[j] EXCEPT !.stages.s3 = [by |-> j, ok |-> ok],
                                 !.stages.tr = "none"],
               IF ok THEN "finish" ELSE "fail")

(* Translation is attached if the target is not English; its failure leaves *)
(* English.  It reaches the database with the final status.                 *)
JobFinish(j) ==
    /\ jobPc[j] = "finish"
    /\ \E tr \in IF loc[j].foreign THEN {"translated", "english"} ELSE {"none"} :
         WriteLast(j, [loc[j] EXCEPT !.stages.tr = tr, !.status = "ready"])

JobFail(j) ==
    /\ jobPc[j] = "fail"
    /\ WriteLast(j, [loc[j] EXCEPT !.status = "failed", !.error = "stage"])

(* Mutant: the exception is logged and nothing else.                        *)
JobRaises_LogsOnly(j) ==
    /\ \/ jobPc[j] \in Writing \cup {"queued"} /\ Fault
       \/ jobPc[j] \in Writing /\ jobOf[j] \notin live /\ UNCHANGED bounds
    /\ Stop(j)
    /\ UNCHANGED <<dbVars, files, reqVars, contested>>

(* A database call raises, or the UPDATE finds the row gone: the session is *)
(* rolled back and the top-level handler takes over with a new one.         *)
JobRaises(j) ==
    /\ \/ jobPc[j] \in Writing \cup {"queued"} /\ Fault
       \/ jobPc[j] \in Writing /\ jobOf[j] \notin live /\ UNCHANGED bounds
    /\ jobPc' = [jobPc EXCEPT ![j] = "handler"]
    /\ loc' = [loc EXCEPT ![j] = Blank]
    /\ UNCHANGED <<jobOf, dbVars, files, reqVars, contested>>

HandlerLoad(j) == jobPc[j] = "handler" /\ Load(j, "mark")

HandlerMark(j) ==
    /\ jobPc[j] = "mark"
    /\ WriteLast(j, [loc[j] EXCEPT !.status = "failed", !.error = "stopped"])

(* The handler's own failure is logged and swallowed.                       *)
HandlerRaises(j) ==
    /\ \/ jobPc[j] \in {"handler", "mark"} /\ Fault
       \/ jobPc[j] = "mark" /\ jobOf[j] \notin live /\ UNCHANGED bounds
    /\ Stop(j)
    /\ UNCHANGED <<dbVars, files, reqVars, contested>>

-----------------------------------------------------------------------------
(* The worker process stops: requests and jobs vanish, uncommitted work is  *)
(* rolled back, rows and files stay.  Nothing is resumed at start-up.       *)
Crash ==
    /\ crashes < MaxCrashes
    /\ crashes' = crashes + 1
    /\ reqPc' = [k \in Clients |-> "idle"]
    /\ reqOf' = [k \in Clients |-> NoContract]
    /\ seen' = [k \in Clients |-> Blank]
    /\ jobPc' = [j \in Jobs |-> IF Active(j) THEN "done" ELSE jobPc[j]]
    /\ jobOf' = [j \in Jobs |-> NoContract]
    /\ loc' = [j \in Jobs |-> Blank]
    /\ UNCHANGED <<dbVars, files, faults, contested>>

RequestStarts(k) ==
    \E c \in Contracts :
        \/ \E consent, foreign \in BOOLEAN : UploadInsert(k, c, consent, foreign)
        \/ ProcessLoad(k, c)
        \/ DeleteLoad(k, c)

RequestStep(k) ==
    \/ UploadSave(k) \/ UploadCommit(k)
    \/ ProcessReserve(k) \/ \E j \in Jobs : ProcessQueue(k, j)
    \/ DeleteFile(k) \/ DeleteCommit(k)
    \/ RequestRaises(k)

JobStep(j) ==
    \/ JobLoad(j) \/ JobReset(j) \/ JobPending(j) \/ JobRead(j)
    \/ JobText(j) \/ JobProcessing(j) \/ JobStage1(j) \/ JobStage2(j)
    \/ JobStage3(j) \/ JobFinish(j) \/ JobFail(j)
    \/ JobRaises(j) \/ HandlerLoad(j) \/ HandlerMark(j) \/ HandlerRaises(j)

Next ==
    \/ \E k \in Clients : RequestStarts(k) \/ RequestStep(k)
    \/ \E j \in Jobs : JobStep(j)
    \/ Crash

Spec == Init /\ [][Next]_vars

(* The event loop goes on running requests as long as one is in flight, the *)
(* thread pool background tasks as long as there is one; OCR and provider   *)
(* calls return (HTTP timeouts of 60 to 120 s).  Users owe no further       *)
(* requests.  This is less than the code gives, which starves neither a     *)
(* request nor a task for the others.                                       *)
Fairness ==
    /\ WF_vars(\E k \in Clients : RequestStep(k))
    /\ WF_vars(\E j \in Jobs : JobStep(j))

FairSpec == Spec /\ Fairness

-----------------------------------------------------------------------------
(* Properties.                                                              *)

(* Every column, request and job stays within the values the code and the  *)
(* table's CHECK constraint name; a request or job under way has a contract.*)
ReqTyped ==
    /\ reqPc \in [Clients -> ReqPcs]
    /\ reqOf \in [Clients -> Contracts \cup {NoContract}]
    /\ seen \in [Clients -> Row]
    /\ \A k \in Clients : reqPc[k] # "idle" => reqOf[k] \in Contracts
JobTyped ==
    /\ jobPc \in [Jobs -> JobPcs]
    /\ jobOf \in [Jobs -> Contracts \cup {NoContract}]
    /\ loc \in [Jobs -> Row]
    /\ \A j \in Jobs : Active(j) => jobOf[j] \in Contracts
TypeOK ==
    /\ live \subseteq Contracts /\ used \subseteq Contracts
    /\ files \subseteq Contracts
    /\ rows \in [Contracts -> Row]
    /\ ReqTyped /\ JobTyped
    /\ faults \in 0..MaxFaults /\ crashes \in 0..MaxCrashes
    /\ contested \subseteq Contracts

Working(c) == \E j \in Jobs : Active(j) /\ jobOf[j] = c
Uploading(c) == Requested(c, {"up_save", "up_commit"})

(* The 409 guard of POST /process reserves the contract: two background     *)
(* tasks never work on the same one.  The guard reads the row and commits   *)
(* the reservation in two steps, so this holds of the contracts on which no *)
(* two process requests were between the two at once; other requests, jobs, *)
(* deletions, faults and crashes may overlap with both as they like.        *)
SingleRunner ==
    \A i, j \in Jobs :
        Active(i) /\ Active(j) /\ jobOf[i] = jobOf[j] /\ jobOf[i] \notin contested
        => i = j

(* What a worker reads on a ready contract comes from one run of the        *)
(* processor over one text: usable clauses, their annotations, a usable     *)
(* explanation, and a translation exactly when one was asked for.  Again of *)
(* the contracts that no two process requests raced for.                    *)
ReadyIsOneRun ==
    \A c \in live \ contested : rows[c].status = "ready" =>
        /\ rows[c].text \in Jobs
        /\ rows[c].stages.s1 = [by |-> rows[c].text, ok |-> TRUE]
        /\ rows[c].stages.s2.by = rows[c].text
        /\ rows[c].stages.s3 = [by |-> rows[c].text, ok |-> TRUE]
        /\ rows[c].foreign <=> rows[c].stages.tr # "none"

(* The UI shows an error message on failed contracts and on no others, at   *)
(* every poll: also while a retry of a failed contract is under way.  (Part  *)
(* of what ImplementsPromise says, and a theorem of its own.)               *)
ErrorIffFailed ==
    \A c \in live \ contested : rows[c].error # "none" <=> rows[c].status = "failed"

(* Without recorded consent a contract is never read: no task holds it and  *)
(* no text or analysis of it exists, whatever the requests race with.       *)
UnconsentedUntouched ==
    \A c \in live : ~rows[c].consent =>
        /\ ~Working(c)
        /\ rows[c].status = "uploaded"
        /\ rows[c].text = NoJob
        /\ rows[c].stages = NoStages

(* As long as nothing raised and nothing crashed, files and rows agree: a   *)
(* file belongs to a row, or to an upload about to commit one, and a row    *)
(* has its file unless a delete is about to remove the row.                 *)
FilesMatchRows ==
    faults = 0 /\ crashes = 0 =>
        /\ \A c \in files : c \in live \/ Requested(c, {"up_commit"})
        /\ \A c \in live : c \in files \/ Requested(c, {"del_commit"})

(* A contract shown as being read that no task will touch again.  POST      *)
(* /process refuses it (409), so only a delete gets rid of it.              *)
Stranded(c) ==
    /\ c \in live
    /\ rows[c].status \in InProgress
    /\ ~Working(c)
    /\ ~Requested(c, {"proc_queue"})

(* As long as one call has failed at most, contracts are stranded by a stop *)
(* of the worker and by one other step only: the reply to POST /process     *)
(* that fails after its reservation was committed.  Every failure inside a  *)
(* task, its handler's included, leaves a contract that can be retried.     *)
OnlyTheReplyStrands ==
    [][\A c \in Contracts : Stranded(c)' /\ ~Stranded(c) /\ faults' <= 1 =>
          \/ crashes' > crashes
          \/ \E k \in Clients :
                reqPc[k] = "proc_queue" /\ reqOf[k] = c /\ RequestRaises(k)]_vars

(* "a crashed process leaves the row at a resumable state"                  *)
(* (processor.py): a contract is being worked on, finished or startable.    *)
Resumable == \A c \in Contracts : ~Stranded(c)

(* A deleted contract never comes back, although tasks still holding its    *)
(* ORM object go on committing it; an upload that failed never appears.     *)
DeletedForGood ==
    [][\A c \in used \ live : ~Uploading(c) => c \notin live']_vars

(* "row gone, file dangling ... can't happen here" (service.py): the row    *)
(* leaves the table only after its file has left the store.                 *)
DeleteTakesFile == [][\A c \in live : c \notin live' => c \notin files']_vars

(* The promised status machine, read off the rows.                          *)
State(c) ==
    CASE c \in live \cap contested -> "contested"
      [] c \in live \ contested -> IF Stranded(c) THEN "stuck" ELSE rows[c].status
      [] c \in used \ live /\ ~Uploading(c) -> "gone"
      [] OTHER -> "absent"

Message(c) ==
    IF c \in live \ contested /\ rows[c].error # "none" THEN "shown" ELSE "none"

Promise == INSTANCE ContractStatus WITH
    state <- [c \in Contracts |-> State(c)],
    error <- [c \in Contracts |-> Message(c)]

(* Every step of the system is a step of the status machine or none, and    *)
(* the machine keeps moving as its fairness demands: a contract that is     *)
(* being read comes to "ready" or "failed", unless it is deleted or stuck.  *)
ImplementsPromise == Promise!FairSpec
=============================================================================
