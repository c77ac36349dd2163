--------------------------- MODULE ContractStatus ---------------------------
(***************************************************************************)
(* What the Contract Reader keeps of its promise for an uploaded contract: *)
(* the status machine of the UploadedContract docstring (app/models.py)    *)
(* and of docs/SOFTWARE.md, section 7.3, as a specification of its own.    *)
(*                                                                         *)
(*   uploaded -> ocr_pending -> ocr_done -> processing -> ready            *)
(*                   |             |            |                          *)
(*                   +-------------+------------+--> failed --> (retry)    *)
(*                                                                         *)
(* A contract that was deleted, or whose upload did not go through, is     *)
(* gone and stays gone.  Two edges are the code's and not the documents':  *)
(*   stuck      shown as being read although nobody reads it: the worker   *)
(*              stopped, or a failure was met that no task is left to      *)
(*              record.  Only a delete leads on from there.                *)
(*   contested  two requests to read it were both let through.  Nothing is *)
(*              promised of it but that a delete ends it.                  *)
(***************************************************************************)
CONSTANT Contracts

VARIABLES
    state,   \* where the contract is
    error    \* whether it shows an error message: "shown" or "none"

vars == <<state, error>>

Working == {"ocr_pending", "ocr_done", "processing"}
Startable == {"uploaded", "failed"}

Init ==
    /\ state = [c \in Contracts |-> "absent"]
    /\ error = [c \in Contracts |-> "none"]

Move(c, from, to) ==
    /\ state[c] \in from
    /\ state' = [state EXCEPT ![c] = to]
    /\ error' = [error EXCEPT ![c] = IF to = "failed" THEN "shown" ELSE "none"]

Upload(c) == Move(c, {"absent"}, "uploaded")
Start(c)  == Move(c, Startable, "ocr_pending")
Read(c)   == Move(c, {"ocr_pending"}, "ocr_done")
Analyse(c) == Move(c, {"ocr_done"}, "processing")
Finish(c) == Move(c, {"processing"}, "ready")
Fail(c)   == Move(c, Working, "failed")
Contest(c) == Move(c, Startable, "contested")
Strand(c) == Move(c, Working, "stuck")
Remove(c) ==
    Move(c, {"absent", "ready", "stuck", "contested"} \cup Startable \cup Working,
         "gone")

(* The worker stops: uploads under way come to nothing, and what was being  *)
(* read is stuck.                                                           *)
Stop ==
    /\ \E uploads \in SUBSET {c \in Contracts : state[c] = "absent"} :
         state' = [c \in Contracts |-> IF c \in uploads THEN "gone"
                                       ELSE IF state[c] \in Working THEN "stuck"
                                       ELSE state[c]]
    /\ UNCHANGED error

Work(c) == Read(c) \/ Analyse(c) \/ Finish(c) \/ Fail(c)

Next ==
    \/ \E c \in Contracts :
         Upload(c) \/ Start(c) \/ Work(c) \/ Contest(c) \/ Strand(c) \/ Remove(c)
    \/ Stop

Spec == Init /\ [][Next]_vars

(* A contract that is being read is read to an end.                         *)
FairSpec == Spec /\ \A c \in Contracts : WF_vars(Work(c))
=============================================================================
