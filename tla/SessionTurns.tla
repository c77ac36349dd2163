----------------------------- MODULE SessionTurns -----------------------------
(***************************************************************************)
(* The stored side of one chat session (l1_cardinal/pipeline.py,           *)
(* phase3_handler.py, sessions/routes.py, conversation_studio/routes.py):  *)
(* requests that overlap, each a sequence of steps that end in a commit,   *)
(* on the session's row and its turns.  What the rules decide within a     *)
(* turn is module Chat; here a reply is the set of its actions.            *)
(*                                                                         *)
(* The session belongs to a user, who sends messages, taps chips, renames  *)
(* and deletes; or to the runner, which plays it against the simulator     *)
(* (runners/session_runner.py) and never overlaps with itself.             *)
(***************************************************************************)
EXTENDS Naturals, Sequences, FiniteSets

CONSTANTS
    MaxRequests,   \* bound on the requests; they are numbered as they arrive
    Together,      \* bound on overlap: a later one comes when none is under way
    MaxCrashes,    \* bound on the restarts of the process
    Drivers,       \* who may own the session: "user", "runner"
    Messages,      \* texts of messages
    Blank,         \* those that phase 1 refuses
    Orders,        \* order numbers customers mention
    TooBig,        \* a number that does not fit the column
    Customers,
    None,
    OwnerOf,       \* the customer of an order, None if there is no such order
    Actions,       \* what a reply may do
    Money,         \* actions the rules never repeat (Chat!FreshNeverRepeats)
    HandOver,      \* the hand-over to a human
    CloseAct,      \* the action that ends a session
    Replies,       \* replies the stages may come to
    Taps           \* order and customer in the body of a tap

VARIABLES
    driver,        \* who uses the session
    row,           \* its row of table sessions
    turns,         \* its rows of table turns, in the order of their ids
    executions,    \* rows of table bot_executions
    cache,         \* phase 2: the reply remembered for a message
    req,           \* the requests
    deleted,       \* history: the requests that had arrived at the deletion
    runner,        \* where the runner is
    sent,          \* requests whose reply the simulator received
    crashes

session == <<row, turns, executions>>
vars == <<driver, row, turns, executions, cache, req, deleted, runner, sent, crashes>>

Requests == 1..MaxRequests
NoEntry == [reply |-> FALSE, acts |-> {}]
NotDeleted == {0}

ASSUME SessionTurnsAssumption ==
    /\ MaxRequests \in Nat /\ Together \in Nat /\ MaxCrashes \in Nat
    /\ Drivers \subseteq {"user", "runner"} /\ Blank \subseteq Messages
    /\ None \notin Orders /\ None \notin Customers /\ TooBig \notin Orders /\ TooBig # None
    /\ OwnerOf \in [Orders -> Customers \cup {None}]
    /\ Money \subseteq Actions /\ {HandOver, CloseAct} \subseteq Actions /\ HandOver \notin Money
    /\ Replies \subseteq SUBSET Actions
    /\ Taps \subseteq [order : Orders \cup {None, TooBig}, customer : Customers \cup {None}]

Row == [exists : BOOLEAN, owned : BOOLEAN, titled : BOOLEAN, chosen : BOOLEAN, closed : BOOLEAN,
        order : Orders \cup {None}, customer : Customers \cup {None}]
NoRow == [exists |-> FALSE, owned |-> FALSE, titled |-> FALSE, chosen |-> FALSE, closed |-> FALSE,
          order |-> None, customer |-> None]
(* load_or_create's own row has no user and no title.                       *)
Ownerless == [NoRow EXCEPT !.exists = TRUE]

Turn == [no : Nat, role : {"customer", "bot"}, req : Requests, acts : SUBSET Actions]
TurnRow(r, role, acts) == [no |-> req[r].no, role |-> role, req |-> r, acts |-> acts]

Steps == {"idle", "arrived", "missing", "created", "loaded", "asked", "replaying", "named", "known", "dispatched",
          "decided", "failing", "replied", "tapped", "numbered"}
Ends == {"answered", "unknown", "error", "lost"}
RunnerOver == {"none", "refused", "closed", "raised", "lost"}
Request == [kind : {"chat", "chip"}, pc : Steps \cup Ends, msg : Messages \cup {None}, replay : BOOLEAN,
            no : Nat, prior : SUBSET Actions, order : Orders \cup {None}, customer : Customers \cup {None},
            acts : SUBSET Actions, said : Nat, holds : BOOLEAN, before : SUBSET Requests]
NotYet == [kind |-> "chat", pc |-> "idle", msg |-> None, replay |-> FALSE, no |-> 0, prior |-> {}, order |-> None,
           customer |-> None, acts |-> {}, said |-> 0, holds |-> FALSE, before |-> {}]

(* A user's session was created by POST /api/sessions, with or without a    *)
(* title; the runner's has no row yet.                                      *)
Init ==
    /\ driver \in Drivers
    /\ row \in IF driver = "user" THEN {[Ownerless EXCEPT !.owned = TRUE, !.titled = b] : b \in BOOLEAN} ELSE {NoRow}
    /\ turns = <<>> /\ executions = {}
    /\ cache = [msg \in Messages |-> NoEntry]
    /\ req = [r \in Requests |-> NotYet]
    /\ deleted = NotDeleted
    /\ runner = IF driver = "runner" THEN "start" ELSE "none"
    /\ sent = <<>> /\ crashes = 0

-----------------------------------------------------------------------------
At(r, step) == req[r].pc = step
Begun == {r \in Requests : ~At(r, "idle")}
Ended == {r \in Requests : req[r].pc \in Ends}
InFlight(r) == r \in Begun \ Ended
NextUp(r) ==
    /\ At(r, "idle") /\ \A q \in 1..(r - 1) : q \in Begun
    /\ r > Together => Begun = Ended

(* Mutant: anybody's session is served, also one without a user.            *)
Owned_Any == row.exists
(* The ownership check of every route.                                      *)
Owned == row.exists /\ row.owned

(* The route has set a title and not committed it: the row is locked.       *)
Locked == \E r \in Requests : req[r].holds

LastNo == IF turns = <<>> THEN 0 ELSE CHOOSE n \in {turns[i].no : i \in DOMAIN turns} : \A i \in DOMAIN turns : turns[i].no <= n

(* Number of the turn that comes next.                                      *)
NextNo == LastNo + 1

(* Mutant: only the last turn of the bot is read back.                      *)
ActedBefore_Last ==
    LET bots == {i \in DOMAIN turns : turns[i].role = "bot"}
    IN  UNION {turns[i].acts : i \in {k \in bots : \A j \in bots : j <= k}}
(* Every action of the bot's earlier turns.                                 *)
ActedBefore == UNION {turns[i].acts : i \in {j \in DOMAIN turns : turns[j].role = "bot"}}

(* The route takes the latest turn of the bot for its own.                  *)
LastBotNo ==
    LET bots == {i \in DOMAIN turns : turns[i].role = "bot"}
    IN  IF bots = {} THEN 0 ELSE turns[CHOOSE i \in bots : \A j \in bots : j <= i].no

(* The runner takes a reply as it is; the route still looks up its number.  *)
Replied == IF driver = "runner" THEN "answered" ELSE "replied"

(* The locals of a request end with it.                                     *)
Done(r, end) == [req[r] EXCEPT !.pc = end, !.prior = {}, !.order = None, !.customer = None, !.holds = FALSE]

(* The reply's turn is stored; without its session the insert fails, and the  *)
(* fallback's insert after it too: the transaction is already aborted.      *)
StoreReply(r, acts) ==
    /\ turns' = IF row.exists THEN Append(turns, TurnRow(r, "bot", acts)) ELSE turns
    /\ req' = [req EXCEPT ![r] = [Done(r, IF row.exists THEN Replied ELSE "error") EXCEPT !.acts = acts]]

-----------------------------------------------------------------------------
(* POST chat: the session is the user's; a missing title is set but not yet *)
(* committed (a second request waits for the row).                          *)
Arrive(r) ==
    /\ driver = "user" /\ NextUp(r)
    /\ \E msg \in Messages :
          \/ /\ Owned /\ (row.titled \/ ~Locked)
             /\ req' = [req EXCEPT ![r] = [NotYet EXCEPT !.pc = "arrived", !.msg = msg, !.holds = ~row.titled, !.before = Ended]]
          \/ ~Owned /\ req' = [req EXCEPT ![r] = [NotYet EXCEPT !.pc = "unknown", !.before = Ended]]
    /\ UNCHANGED <<session, driver, cache, deleted, runner, sent, crashes>>

(* Phase 1: nothing is stored of a blank message.                           *)
Refuse(r) ==
    /\ At(r, "arrived") /\ req[r].msg \in Blank
    /\ req' = [req EXCEPT ![r].pc = Replied, ![r].acts = {HandOver}]
    /\ UNCHANGED <<session, driver, cache, deleted, runner, sent, crashes>>

(* What load_or_create takes from the row and the transcript.               *)
Loaded(r, replay) ==
    [req[r] EXCEPT !.pc = "loaded", !.replay = replay, !.no = NextNo, !.prior = ActedBefore,
                   !.order = row.order, !.customer = row.customer,
                   !.acts = IF replay THEN cache[req[r].msg].acts ELSE {}]

(* Phase 2, then phase 3: a remembered message may have outlived its time   *)
(* to live, which is also the case of a lookup just before it is            *)
(* remembered.                                                              *)
Load(r) ==
    /\ At(r, "arrived") /\ req[r].msg \notin Blank
    /\ \E replay \in BOOLEAN :
          /\ replay => cache[req[r].msg] # NoEntry
          /\ req' = [req EXCEPT ![r] = IF row.exists THEN Loaded(r, replay)
                                       ELSE [Loaded(r, replay) EXCEPT !.pc = "missing"]]
    /\ UNCHANGED <<session, driver, cache, deleted, runner, sent, crashes>>

(* The row is not there (any more): it is inserted, without a user; if      *)
(* another request was faster, the key is taken and the request fails.      *)
Create(r) ==
    /\ At(r, "missing")
    /\ row' = IF row.exists THEN row ELSE Ownerless
    /\ req' = [req EXCEPT ![r] = IF row.exists THEN Done(r, "error") ELSE [@ EXCEPT !.pc = "created"]]
    /\ UNCHANGED <<turns, executions, driver, cache, deleted, runner, sent, crashes>>

Reload(r) ==
    /\ At(r, "created")
    /\ req' = [req EXCEPT ![r] = [Loaded(r, req[r].replay) EXCEPT !.acts = req[r].acts]]
    /\ UNCHANGED <<session, driver, cache, deleted, runner, sent, crashes>>

(* The customer's turn, and with it the title, are committed before any     *)
(* model is asked.                                                          *)
CustomerTurn(r) ==
    /\ At(r, "loaded")
    /\ turns' = IF row.exists THEN Append(turns, TurnRow(r, "customer", {})) ELSE turns
    /\ row' = [row EXCEPT !.titled = @ \/ req[r].holds]
    /\ req' = [req EXCEPT ![r] = IF row.exists
                                 THEN [@ EXCEPT !.pc = IF req[r].replay THEN "replaying" ELSE "asked", !.holds = FALSE]
                                 ELSE Done(r, "error")]
    /\ UNCHANGED <<executions, driver, cache, deleted, runner, sent, crashes>>

(* Mutant: a replayed reply is given without a turn of the bot.             *)
ReplayTurn_NotStored(r) ==
    /\ At(r, "replaying")
    /\ req' = [req EXCEPT ![r].pc = Replied]
    /\ UNCHANGED <<session, driver, cache, deleted, runner, sent, crashes>>
(* The remembered reply, with its actions, is this turn's reply too.        *)
ReplayTurn(r) ==
    /\ At(r, "replaying")
    /\ StoreReply(r, req[r].acts)
    /\ UNCHANGED <<row, executions, driver, cache, deleted, runner, sent, crashes>>

(* A mentioned order is kept if the request knows of none.                  *)
TakesOrder(r, mentioned) == mentioned # None /\ req[r].order = None

(* known_order_id is a 32-bit column; the model's number is not checked.    *)
Fits(number) == number # TooBig

(* Stage 0, and the order it finds: stored at once, whether or not there is *)
(* such an order.  A number the column cannot hold fails the statement and  *)
(* with it the transaction the fallback would use.                          *)
Classify(r) ==
    /\ At(r, "asked")
    /\ \E mentioned \in Orders \cup {None, TooBig} :
          IF ~TakesOrder(r, mentioned)
          THEN req' = [req EXCEPT ![r].pc = "named"] /\ UNCHANGED row
          ELSE IF ~Fits(mentioned)
          THEN req' = [req EXCEPT ![r] = Done(r, "error")] /\ UNCHANGED row
          ELSE /\ ~Locked
               /\ req' = [req EXCEPT ![r].pc = "named", ![r].order = mentioned]
               /\ row' = IF row.exists THEN [row EXCEPT !.order = mentioned] ELSE row
    /\ UNCHANGED <<turns, executions, driver, cache, deleted, runner, sent, crashes>>

(* Phase 4: the order's customer is kept if the request knows of none.      *)
Enrich(r) ==
    /\ At(r, "named")
    /\ LET found == IF req[r].order = None THEN None ELSE OwnerOf[req[r].order]
       IN  IF found = None \/ req[r].customer # None
           THEN req' = [req EXCEPT ![r].pc = "known"] /\ UNCHANGED row
           ELSE /\ ~Locked
                /\ req' = [req EXCEPT ![r].pc = "known", ![r].customer = found]
                /\ row' = IF row.exists THEN [row EXCEPT !.customer = found] ELSE row
    /\ UNCHANGED <<turns, executions, driver, cache, deleted, runner, sent, crashes>>

(* Phase 5: a row of bot_executions, which refers to the session.           *)
Dispatch(r) ==
    /\ At(r, "known")
    /\ executions' = IF row.exists THEN executions \cup {[req |-> r, no |-> req[r].no, linked |-> TRUE]} ELSE executions
    /\ req' = [req EXCEPT ![r] = IF row.exists THEN [@ EXCEPT !.pc = "dispatched"] ELSE Done(r, "error")]
    /\ UNCHANGED <<row, turns, driver, cache, deleted, runner, sent, crashes>>

(* Mutant: the money of earlier turns is not taken out.                     *)
MayDecide_Again(r, acts) == acts \subseteq Actions
(* The rules leave out money that an earlier turn gave, as far as the       *)
(* request has read them.                                                   *)
MayDecide(r, acts) == acts \cap Money \cap req[r].prior = {}

(* Stages 1 to 3; the reply is remembered before it is stored.              *)
Decide(r) ==
    /\ At(r, "dispatched")
    /\ \E acts \in Replies :
          /\ MayDecide(r, acts)
          /\ cache' = [cache EXCEPT ![req[r].msg] = [reply |-> TRUE, acts |-> acts]]
          /\ req' = [req EXCEPT ![r].pc = "decided", ![r].acts = acts]
    /\ UNCHANGED <<session, driver, deleted, runner, sent, crashes>>

BotTurn(r) ==
    /\ At(r, "decided")
    /\ StoreReply(r, req[r].acts)
    /\ UNCHANGED <<row, executions, driver, cache, deleted, runner, sent, crashes>>

(* A stage raises (a provider, a parser, a fetched row): not the database.  *)
StageRaises(r) ==
    /\ req[r].pc \in {"asked", "named", "dispatched"}
    /\ req' = [req EXCEPT ![r].pc = "failing"]
    /\ UNCHANGED <<session, driver, cache, deleted, runner, sent, crashes>>

Fallback(r) ==
    /\ At(r, "failing")
    /\ StoreReply(r, {HandOver})
    /\ UNCHANGED <<row, executions, driver, cache, deleted, runner, sent, crashes>>

(* Mutant: the title of a refused message is never committed.               *)
Respond_KeepsRow(r) ==
    /\ At(r, "replied")
    /\ req' = [req EXCEPT ![r].pc = "answered", ![r].said = LastBotNo]
    /\ UNCHANGED <<session, driver, cache, deleted, runner, sent, crashes>>
(* The route looks up the latest turn of the bot and answers; its title is  *)
(* committed now if nothing else was stored.                                *)
Respond(r) ==
    /\ At(r, "replied")
    /\ req' = [req EXCEPT ![r].pc = "answered", ![r].said = LastBotNo, ![r].holds = FALSE]
    /\ row' = [row EXCEPT !.titled = @ \/ req[r].holds]
    /\ UNCHANGED <<turns, executions, driver, cache, deleted, runner, sent, crashes>>

(* The connection breaks at the commit of the reply, which may have         *)
(* happened: the reply is already remembered, but the request fails.        *)
CommitBreaks(r) ==
    /\ At(r, "decided")
    /\ turns' \in {turns} \cup (IF row.exists THEN {Append(turns, TurnRow(r, "bot", req[r].acts))} ELSE {})
    /\ req' = [req EXCEPT ![r] = Done(r, "error")]
    /\ UNCHANGED <<row, executions, driver, cache, deleted, runner, sent, crashes>>

-----------------------------------------------------------------------------
(* POST select-issue: the route's copy of the row, ...                      *)
Tap(r) ==
    /\ driver = "user" /\ NextUp(r)
    /\ req' = [req EXCEPT ![r] = IF Owned
                                 THEN [NotYet EXCEPT !.kind = "chip", !.pc = "tapped", !.order = row.order,
                                                     !.customer = row.customer, !.before = Ended]
                                 ELSE [NotYet EXCEPT !.kind = "chip", !.pc = "unknown", !.before = Ended]]
    /\ UNCHANGED <<session, driver, cache, deleted, runner, sent, crashes>>

(* ... the number after the last turn, ...                                  *)
Number(r) ==
    /\ At(r, "tapped")
    /\ req' = [req EXCEPT ![r].pc = "numbered", ![r].no = NextNo]
    /\ UNCHANGED <<session, driver, cache, deleted, runner, sent, crashes>>

(* ... and one commit of what changed in the copy and of the turn: ids of   *)
(* the tap are kept if the copy had none.                                   *)
Acknowledge(r) ==
    /\ At(r, "numbered") /\ ~Locked
    /\ \E tap \in Taps :
          IF ~row.exists \/ (~Fits(tap.order) /\ req[r].order = None)
          THEN req' = [req EXCEPT ![r] = Done(r, "error")] /\ UNCHANGED <<row, turns>>
          ELSE /\ row' = [row EXCEPT !.titled = TRUE, !.chosen = TRUE,
                                     !.order = IF req[r].order = None /\ tap.order # None THEN tap.order ELSE @,
                                     !.customer = IF req[r].customer = None /\ tap.customer # None THEN tap.customer ELSE @]
               /\ turns' = Append(turns, TurnRow(r, "bot", {}))
               /\ req' = [req EXCEPT ![r] = Done(r, "answered")]
    /\ UNCHANGED <<executions, driver, cache, deleted, runner, sent, crashes>>

(* PATCH: the title.                                                        *)
Rename ==
    /\ driver = "user" /\ Owned /\ ~Locked /\ ~row.titled
    /\ row' = [row EXCEPT !.titled = TRUE]
    /\ UNCHANGED <<turns, executions, driver, cache, req, deleted, runner, sent, crashes>>

(* DELETE: the turns go with the row, executions lose their session.        *)
Delete ==
    /\ driver = "user" /\ Owned /\ ~Locked
    /\ row' = NoRow /\ turns' = <<>>
    /\ executions' = {[e EXCEPT !.linked = FALSE] : e \in executions}
    /\ deleted' = Begun
    /\ UNCHANGED <<driver, cache, req, runner, sent, crashes>>

-----------------------------------------------------------------------------
(* The runner: the simulator opens a session or refuses (SimulatorError).   *)
Play(r, msg) == req' = [req EXCEPT ![r] = [NotYet EXCEPT !.pc = "arrived", !.msg = msg, !.before = Ended]]

Open ==
    /\ runner = "start"
    /\ \/ /\ \E msg \in Messages : Play(1, msg)
          /\ runner' = "playing"
       \/ runner' = "refused" /\ UNCHANGED req
    /\ UNCHANGED <<session, driver, cache, deleted, sent, crashes>>

Closes(acts) == CloseAct \in acts

(* The reply goes to the simulator, which sends the next message or is      *)
(* done, after MaxRequests messages at the latest; if the call raises, it   *)
(* may or may not have arrived.                                             *)
Submit(r) ==
    /\ runner = "playing" /\ At(r, "answered") /\ \A q \in Requests : q > r => At(q, "idle")
    /\ \/ /\ r < MaxRequests /\ ~Closes(req[r].acts)
          /\ sent' = Append(sent, r)
          /\ \E msg \in Messages : Play(r + 1, msg)
          /\ UNCHANGED runner
       \/ sent' \in {sent, Append(sent, r)} /\ runner' = "closing" /\ UNCHANGED req
    /\ UNCHANGED <<session, driver, cache, deleted, crashes>>

Close ==
    /\ runner = "closing"
    /\ row' = [row EXCEPT !.closed = row.exists]
    /\ runner' = "closed"
    /\ UNCHANGED <<turns, executions, driver, cache, req, deleted, sent, crashes>>

(* run_turn raised: the runner ends, and leaves the session open.           *)
Abandon(r) ==
    /\ runner = "playing" /\ At(r, "error")
    /\ runner' = "raised"
    /\ UNCHANGED <<session, driver, cache, req, deleted, sent, crashes>>

(* A restart (while nothing runs it would only empty the cache, as time     *)
(* does): requests are lost, with their uncommitted titles, and so are the  *)
(* remembered replies and the runner.                                       *)
Crash ==
    /\ crashes < MaxCrashes /\ crashes' = crashes + 1
    /\ runner \notin RunnerOver \/ \E r \in Requests : InFlight(r)
    /\ req' = [r \in Requests |-> IF InFlight(r) THEN Done(r, "lost") ELSE req[r]]
    /\ cache' = [msg \in Messages |-> NoEntry]
    /\ runner' = IF runner \in {"start", "playing", "closing"} THEN "lost" ELSE runner
    /\ UNCHANGED <<session, driver, deleted, sent>>

Serve(r) ==
    \/ Refuse(r) \/ Load(r) \/ Create(r) \/ Reload(r) \/ CustomerTurn(r) \/ ReplayTurn(r)
    \/ Classify(r) \/ Enrich(r) \/ Dispatch(r) \/ Decide(r) \/ BotTurn(r) \/ CommitBreaks(r) \/ StageRaises(r) \/ Fallback(r)
    \/ Respond(r) \/ Number(r) \/ Acknowledge(r)
Run == Open \/ Close \/ \E r \in Requests : Submit(r) \/ Abandon(r)

Next ==
    \/ \E r \in Requests : Arrive(r) \/ Tap(r) \/ Serve(r)
    \/ Rename \/ Delete
    \/ Run
    \/ Crash
(* The process runs every request it has, and the runner: the models and    *)
(* the simulator answer or time out.                                        *)
Fairness == WF_vars(Run) /\ \A r \in Requests : WF_vars(Serve(r))
Spec == Init /\ [][Next]_vars /\ Fairness

-----------------------------------------------------------------------------
Overlap(q, r) == q # r /\ q \in Begun /\ r \in Begun /\ q \notin req[r].before /\ r \notin req[q].before
Sequential == \A q, r \in Requests : ~Overlap(q, r)
Kept == deleted = NotDeleted
Refused(r) == req[r].msg \in Blank
HasRead(r) == req[r].pc \in {"loaded", "asked", "replaying", "named", "known", "dispatched", "decided", "failing"}
Chatted(r) == req[r].kind = "chat" /\ req[r].pc \in {"replied", "answered"}

TypeOK ==
    /\ driver \in Drivers /\ row \in Row
    /\ turns \in Seq(Turn) /\ executions \subseteq [req : Requests, no : Nat, linked : BOOLEAN]
    /\ cache \in [Messages -> [reply : BOOLEAN, acts : SUBSET Actions]]
    /\ req \in [Requests -> Request]
    /\ deleted \in (SUBSET Requests) \cup {NotDeleted}
    /\ runner \in RunnerOver \cup {"start", "playing", "closing"}
    /\ sent \in Seq(Requests) /\ crashes \in 0..MaxCrashes

(* What a customer was told is in the transcript: the message and after it  *)
(* the reply with its actions, under one number, unless the message was     *)
(* refused or the session deleted (pipeline.py: 169-206, 233-247, 343-356,  *)
(* 373-386; also for a replay and for the hand-over after a failure).       *)
AnsweredIsStored ==
    \A r \in Requests : Chatted(r) /\ ~Refused(r) /\ Kept =>
        \E i, j \in DOMAIN turns :
            i < j /\ turns[i] = TurnRow(r, "customer", {}) /\ turns[j] = TurnRow(r, "bot", req[r].acts)

(* A request knows every action of the replies given before it came, which  *)
(* is what the rules need to repeat none (phase3_handler.py: 100-125).      *)
EarlierIsSeen ==
    \A r \in Requests : HasRead(r) /\ Kept =>
        \A q \in req[r].before : Chatted(q) /\ ~Refused(q) => req[q].acts \subseteq req[r].prior

(* The same money is in two turns only if one repeats a remembered reply or *)
(* the two were under way together: two requests that overlap read the same *)
(* earlier actions (phase3_handler.py: 100-125, stage2_validator.py:        *)
(* 522-550).                                                                *)
RefundTwiceOnlyTogether ==
    \A i, j \in DOMAIN turns : i # j /\ turns[i].acts \cap turns[j].acts \cap Money # {} =>
        LET q == turns[i].req  r == turns[j].req
        IN  req[q].replay \/ req[r].replay \/ Overlap(q, r)

(* Numbers leave no gap, whatever overlaps, fails or crashes, also between  *)
(* the two writers of turns (phase3_handler.py: 125, routes.py: 164-170).   *)
NoGaps == Kept => {turns[i].no : i \in DOMAIN turns} = 1..LastNo

(* The transcript the user is shown (by id) is in the order the next turn   *)
(* reads it (by number, customer first), unless requests overlapped         *)
(* (sessions/routes.py: 127-131, phase3_handler.py: 100-107).               *)
OneOrder ==
    Kept /\ Sequential =>
        \A i, j \in DOMAIN turns : i < j =>
            /\ turns[i].no <= turns[j].no
            /\ turns[i].no = turns[j].no => turns[i].role = "customer" /\ turns[j].role = "bot"

(* The number returned with a reply is the reply's own, if nothing else     *)
(* was stored meanwhile (sessions/routes.py: 197-205).                      *)
OwnNumber ==
    \A r \in Requests : Chatted(r) /\ At(r, "answered") /\ ~Refused(r) /\ driver = "user" /\ Kept /\ (\A q \in Requests : ~Overlap(q, r)) =>
        req[r].said = req[r].no

(* What was deleted does not come back.  A request that was under way may   *)
(* make the row anew, but without a user: no route reaches it, and only     *)
(* such requests are in it (phase3_handler.py: 77-94).                      *)
DeletedIsGone ==
    ~Kept => /\ ~Owned
             /\ \A i \in DOMAIN turns : turns[i].req \in deleted
             /\ \A r \in Begun \ deleted : At(r, "unknown")

(* The known customer is the known order's, as long as requests do not      *)
(* overlap and no chip named a customer of its own (pipeline.py: 265-280).  *)
CustomerOfOrder ==
    Sequential /\ (\A r \in Requests : req[r].kind = "chat") /\ row.customer # None =>
        row.order # None /\ row.customer = OwnerOf[row.order]

(* The simulator was sent the stored replies of the bot, each once and in   *)
(* their order, the last one perhaps not; a refused message's hand-over is  *)
(* the only reply it knows and the transcript does not                      *)
(* (session_runner.py: 65-103).                                            *)
SimulatorKnows ==
    driver = "runner" =>
        LET told == {sent[i] : i \in DOMAIN sent}
            bots == {i \in DOMAIN turns : turns[i].role = "bot"}
        IN  /\ \A i, j \in DOMAIN sent : i < j => sent[i] < sent[j]
            /\ \A i, j \in bots : i < j => turns[i].req < turns[j].req /\ turns[i].req \in told
            /\ \A r \in told : ~Refused(r) =>
                   \E i \in bots : turns[i].req = r /\ turns[i].acts = req[r].acts

(* Together: types, earlier actions seen by later requests, numbers without *)
(* gaps, in one order and told truly, the known customer, and the           *)
(* simulator's copy of the conversation.                                    *)
Inv == TypeOK /\ EarlierIsSeen /\ NoGaps /\ OneOrder /\ OwnNumber /\ CustomerOfOrder /\ SimulatorKnows

(* Every request ends, and so does the runner, whatever fails: no row lock  *)
(* is kept by a request that stores nothing, and no failed turn leaves the  *)
(* runner waiting (session_runner.py: 65-114, sessions/routes.py:          *)
(* 185-219).                                                                *)
AllEnds == <>[](runner \in RunnerOver /\ \A r \in Requests : ~InFlight(r))
=============================================================================
