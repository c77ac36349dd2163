------------------------- MODULE SessionTurns_proofs -------------------------
(***************************************************************************)
(* What holds of a stored session for every number of requests, every      *)
(* overlap, failure and restart: what was answered is stored, what earlier *)
(* turns did is seen, money goes out twice only by a replay or by overlap, *)
(* and what was deleted is gone.                                           *)
(***************************************************************************)
EXTENDS SessionTurns, TLAPS

-----------------------------------------------------------------------------
(* The inductive invariant.  The properties speak of answered requests and  *)
(* stored turns; the invariant adds what a request at each point has read   *)
(* and stored.                                                              *)

Bots == {i \in DOMAIN turns : turns[i].role = "bot"}
OfChat == {"arrived", "missing", "created", "loaded", "asked", "replaying", "named", "known", "dispatched",
           "decided", "failing", "replied"}
(* The customer's turn is stored, the reply's is not.                       *)
Told == {"asked", "replaying", "named", "known", "dispatched", "decided", "failing"}
OfChip == {"tapped", "numbered"}

(* Requests are formed as they were sent, and know who had ended by then.   *)
Formed ==
    /\ runner = "none" <=> driver = "user"
    /\ runner = "start" => \A r \in Requests : At(r, "idle")
    /\ driver = "runner" => Kept /\ \A r \in Requests : req[r].kind = "chat" /\ req[r].pc # "replied"
    /\ \A r \in Requests :
        /\ req[r].pc = "idle" => req[r] = NotYet
        /\ req[r].pc \in OfChat => req[r].kind = "chat" /\ req[r].msg \in Messages
        /\ req[r].pc \in OfChip => req[r].kind = "chip"
        /\ HasRead(r) \/ req[r].pc \in {"missing", "created"} => ~Refused(r)
        /\ req[r].before \subseteq Ended
        /\ req[r].pc = "replaying" => req[r].replay

(* Some turn has the highest number, some turn of the bot is the last.      *)
Highest ==
    /\ turns = <<>> \/ \E i \in DOMAIN turns : \A j \in DOMAIN turns : turns[j].no <= turns[i].no
    /\ Bots = {} \/ \E i \in Bots : \A j \in Bots : j <= i

(* Only a request at work stores turns, the bot's turn last.                *)
Stored ==
    /\ \A i \in DOMAIN turns : LET r == turns[i].req IN
        /\ req[r].pc \in Told \cup {"replied"} \cup Ends
        /\ turns[i].role = "bot" => req[r].pc \notin Told
        /\ turns[i].role = "customer" => turns[i].acts = {}
    /\ \A i, j \in Bots : turns[i].req = turns[j].req => i = j

(* A message at work has its own turn in the transcript.                    *)
Transcript ==
    Kept => \A r \in Requests :
        req[r].pc \in Told => \E i \in DOMAIN turns : turns[i] = TurnRow(r, "customer", {})

(* What was read of earlier turns is all of them.                           *)
Read ==
    \A r \in Requests :
        /\ HasRead(r) => \A i \in Bots : turns[i].req \in req[r].before => turns[i].acts \subseteq req[r].prior
        /\ req[r].pc = "decided" => MayDecide(r, req[r].acts)

(* A deleted session has no user, and all that is at work was there then.   *)
Gone == ~Kept => driver = "user" /\ \A r \in Requests : InFlight(r) => r \in deleted

Base == TypeOK /\ Formed /\ Highest /\ Stored
SafeInv == Base /\ Transcript /\ AnsweredIsStored /\ Read /\ RefundTwiceOnlyTogether /\ Gone /\ DeletedIsGone

-----------------------------------------------------------------------------
(* The shapes of a step: what it does to the requests, the turns and the    *)
(* deletion.                                                                *)

OnlyOf(r) == req' \in [Requests -> Request] /\ \A q \in Requests : q # r => req'[q] = req[q]

KeepsRow == \A f \in {"exists", "owned", "order", "customer"} : row'[f] = row[f]

(* A request comes, or is turned away.                                      *)
Begins(r) ==
    /\ At(r, "idle") /\ OnlyOf(r)
    /\ req'[r].pc \in {"arrived", "tapped", "unknown"}
    /\ req'[r].pc = "arrived" => req'[r].kind = "chat" /\ req'[r].msg \in Messages
    /\ req'[r].pc = "tapped" => req'[r].kind = "chip"
    /\ req'[r].before = Ended
    /\ \/ driver = "user" /\ (req'[r].pc # "unknown" => Owned) /\ UNCHANGED <<runner, sent>>
       \/ driver = "runner" /\ req'[r].pc = "arrived" /\ runner' = "playing"
    /\ UNCHANGED <<session, driver, deleted>>

Works(r) ==
    /\ InFlight(r) /\ OnlyOf(r)
    /\ req'[r].kind = req[r].kind /\ req'[r].msg = req[r].msg /\ req'[r].before = req[r].before
    /\ UNCHANGED <<driver, deleted, runner, sent>>

Refuses(r) ==
    /\ Works(r) /\ At(r, "arrived") /\ Refused(r)
    /\ req'[r].pc = Replied /\ UNCHANGED <<turns, row>>
Reads(r) ==
    /\ Works(r) /\ req[r].pc \in {"arrived", "created"} /\ ~Refused(r)
    /\ req'[r].pc = "loaded" \/ (req'[r].pc = "missing" /\ ~row.exists)
    /\ req'[r].no = NextNo /\ req'[r].prior = ActedBefore
    /\ req'[r].order = row.order /\ req'[r].customer = row.customer
    /\ UNCHANGED <<turns, row>>
Creates(r) ==
    /\ Works(r) /\ At(r, "missing") /\ req'[r].pc = "created" /\ ~row.exists /\ UNCHANGED turns
Tells(r) ==
    /\ Works(r) /\ At(r, "loaded") /\ row.exists
    /\ req'[r].pc \in {"asked", "replaying"} /\ (req'[r].pc = "replaying" => req'[r].replay)
    /\ req'[r].no = req[r].no /\ req'[r].prior = req[r].prior
    /\ req'[r].order = req[r].order /\ req'[r].customer = req[r].customer
    /\ turns' = Append(turns, TurnRow(r, "customer", {})) /\ KeepsRow
Goes(r) ==
    /\ Works(r) /\ req[r].pc \in Told \ {"replaying", "decided", "failing"}
    /\ req'[r].pc \in Told \ {"asked", "replaying"}
    /\ req'[r].no = req[r].no /\ req'[r].prior = req[r].prior /\ req'[r].replay = req[r].replay
    /\ req'[r].pc = "decided" => req'[r].acts \cap Money \cap req[r].prior = {}
    /\ UNCHANGED turns
Stores(r) ==
    /\ Works(r) /\ req[r].pc \in {"replaying", "decided", "failing"} /\ row.exists
    /\ req'[r].pc \in {Replied, "error"}
    /\ req'[r].no = req[r].no /\ req'[r].replay = req[r].replay
    /\ req[r].pc = "replaying" \/ req'[r].acts = {HandOver} \/ (At(r, "decided") /\ req'[r].acts = req[r].acts)
    /\ turns' = Append(turns, TurnRow(r, "bot", req'[r].acts)) /\ UNCHANGED row
Fails(r) == Works(r) /\ req'[r].pc = "error" /\ req'[r].replay = req[r].replay /\ KeepsRow /\ UNCHANGED turns
Responds(r) ==
    /\ Works(r) /\ At(r, "replied") /\ req'[r].pc = "answered"
    /\ req'[r].no = req[r].no /\ req'[r].acts = req[r].acts /\ req'[r].replay = req[r].replay
    /\ req'[r].said = LastBotNo /\ KeepsRow /\ UNCHANGED turns
Numbers(r) ==
    /\ Works(r) /\ At(r, "tapped") /\ req'[r].pc = "numbered" /\ req'[r].no = NextNo /\ UNCHANGED <<turns, row>>
Notes(r) ==
    /\ Works(r) /\ At(r, "numbered") /\ req'[r].pc = "answered"
    /\ req'[r].no = req[r].no /\ req'[r].replay = req[r].replay
    /\ turns' = Append(turns, TurnRow(r, "bot", {}))

Served(r) ==
    \/ Refuses(r) \/ Reads(r) \/ Creates(r) \/ Tells(r) \/ Goes(r) \/ Stores(r) \/ Fails(r) \/ Responds(r)
    \/ Numbers(r) \/ Notes(r)

Removes ==
    /\ driver = "user" /\ row' = NoRow /\ turns' = <<>> /\ deleted' = Begun
    /\ UNCHANGED <<driver, req, runner, sent>>
(* Requests at work end as lost.                                            *)
Loses ==
    /\ req' \in [Requests -> Request]
    /\ \A r \in Requests : IF InFlight(r)
         THEN /\ req'[r].pc = "lost" /\ req'[r].kind = req[r].kind /\ req'[r].msg = req[r].msg
              /\ req'[r].before = req[r].before /\ req'[r].replay = req[r].replay
         ELSE req'[r] = req[r]
    /\ runner' = IF runner \in {"start", "playing", "closing"} THEN "lost" ELSE runner
    /\ UNCHANGED <<session, driver, deleted, sent>>
(* Nothing happens to requests and turns.                                   *)
Passes ==
    /\ runner' = "none" <=> runner = "none"
    /\ runner' = "start" => runner = "start"
    /\ UNCHANGED <<turns, driver, req, deleted>>

Shaped == (\E r \in Requests : Begins(r) \/ Served(r)) \/ Removes \/ Loses \/ Passes

-----------------------------------------------------------------------------
(* What the reads of the transcript return.                                 *)

LastOf(s) == IF s = <<>> THEN 0 ELSE CHOOSE n \in {s[i].no : i \in DOMAIN s} : \A i \in DOMAIN s : s[i].no <= n

LEMMA HighestNo ==
    ASSUME NEW s \in Seq(Turn), s = <<>> \/ \E i \in DOMAIN s : \A j \in DOMAIN s : s[j].no <= s[i].no
    PROVE  /\ LastOf(s) \in Nat
           /\ s = <<>> => LastOf(s) = 0
           /\ s # <<>> => \E i \in DOMAIN s : s[i].no = LastOf(s)
           /\ \A i \in DOMAIN s : s[i].no <= LastOf(s)
<1>0. \A i \in DOMAIN s : s[i] \in Turn
  OBVIOUS
<1>1. CASE s = <<>>
  BY <1>0, <1>1 DEF LastOf
<1>2. CASE s # <<>>
  <2> DEFINE numbers == {s[i].no : i \in DOMAIN s}
             highest(n) == \A i \in DOMAIN s : s[i].no <= n
  <2>1. \E n \in numbers : highest(n)
    BY <1>2
  <2>2. LastOf(s) = CHOOSE n \in numbers : highest(n)
    BY <1>2 DEF LastOf
  <2>3. LastOf(s) \in numbers /\ highest(LastOf(s))
    BY <2>1, <2>2
  <2>4. LastOf(s) \in Nat
    BY <1>0, <2>3 DEF Turn
  <2> QED
    BY <1>0, <1>2, <2>3, <2>4
<1> QED
  BY <1>1, <1>2

LEMMA ReadsTranscript ==
    ASSUME TypeOK, Highest
    PROVE  /\ LastNo \in Nat /\ NextNo \in Nat /\ NextNo = LastNo + 1
           /\ turns = <<>> => LastNo = 0
           /\ turns # <<>> => \E i \in DOMAIN turns : turns[i].no = LastNo
           /\ \A i \in DOMAIN turns : turns[i].no <= LastNo
           /\ ActedBefore \subseteq Actions
           /\ \A i \in Bots : turns[i].acts \subseteq ActedBefore
<1>1. turns \in Seq(Turn) /\ LastNo = LastOf(turns)
  BY DEF TypeOK, LastNo, LastOf
<1>2. turns = <<>> \/ \E i \in DOMAIN turns : \A j \in DOMAIN turns : turns[j].no <= turns[i].no
  BY DEF Highest
<1>3. \A i \in DOMAIN turns : turns[i].acts \subseteq Actions
  <2>1. \A i \in DOMAIN turns : turns[i] \in Turn
    BY <1>1
  <2> QED
    BY <2>1 DEF Turn
<1>4. ActedBefore = UNION {turns[i].acts : i \in Bots}
  BY DEF ActedBefore, Bots
<1> QED
  BY <1>1, <1>2, <1>3, <1>4, HighestNo DEF NextNo, Bots

LEMMA LastBot ==
    ASSUME TypeOK, Highest
    PROVE  /\ LastBotNo \in Nat
           /\ \A i \in Bots : (\A j \in Bots : j <= i) => LastBotNo = turns[i].no
<1>0. \A i \in DOMAIN turns : turns[i] \in Turn /\ i \in Nat
  BY DEF TypeOK
<1>1. LastBotNo = IF Bots = {} THEN 0 ELSE turns[CHOOSE i \in Bots : \A j \in Bots : j <= i].no
  BY DEF LastBotNo, Bots
<1>2. CASE Bots = {}
  BY <1>1, <1>2
<1>3. CASE Bots # {}
  <2> DEFINE last == CHOOSE i \in Bots : \A j \in Bots : j <= i
  <2>1. last \in Bots /\ \A j \in Bots : j <= last
    BY <1>3 DEF Highest
  <2>2. \A i \in Bots : (\A j \in Bots : j <= i) => i = last
    BY <1>0, <2>1 DEF Bots
  <2> QED
    BY <1>0, <1>1, <1>3, <2>1, <2>2 DEF Turn, Bots
<1> QED
  BY <1>2, <1>3

-----------------------------------------------------------------------------
(* Every step has one of the shapes.                                        *)

LEMMA ReplaceFrame ==
    ASSUME TypeOK, NEW r \in Requests, NEW new \in Request, req' = [req EXCEPT ![r] = new]
    PROVE  OnlyOf(r) /\ req'[r] = new
BY DEF TypeOK, OnlyOf

LEMMA DoneFields ==
    ASSUME TypeOK, NEW r \in Requests, NEW end \in Steps \cup Ends
    PROVE  /\ Done(r, end) \in Request
           /\ Done(r, end).pc = end /\ Done(r, end).kind = req[r].kind /\ Done(r, end).msg = req[r].msg
           /\ Done(r, end).before = req[r].before /\ Done(r, end).replay = req[r].replay
           /\ Done(r, end).no = req[r].no /\ Done(r, end).acts = req[r].acts /\ Done(r, end).said = req[r].said
<1>1. req[r] \in Request
  BY DEF TypeOK
<1> QED
  BY <1>1 DEF Done, Request

LEMMA FailFrame ==
    ASSUME TypeOK, NEW r \in Requests, InFlight(r), req' = [req EXCEPT ![r] = Done(r, "error")],
           UNCHANGED <<driver, deleted, runner, sent>>
    PROVE  /\ Works(r) /\ req'[r].pc = "error" /\ req'[r].replay = req[r].replay
           /\ req'[r].no = req[r].no /\ req'[r].acts = req[r].acts
<1> DEFINE new == Done(r, "error")
<1>1. "error" \in Steps \cup Ends
  BY DEF Ends
<1>2. /\ new \in Request /\ new.pc = "error" /\ new.kind = req[r].kind /\ new.msg = req[r].msg
      /\ new.before = req[r].before /\ new.replay = req[r].replay
      /\ new.no = req[r].no /\ new.acts = req[r].acts
  BY <1>1, DoneFields
<1> HIDE DEF new
<1>3. OnlyOf(r) /\ req'[r] = new
  BY <1>2, ReplaceFrame DEF new
<1> QED
  BY <1>2, <1>3 DEF Works

LEMMA StoreFrame ==
    ASSUME TypeOK, NEW r \in Requests, InFlight(r), NEW acts \in SUBSET Actions, StoreReply(r, acts),
           req[r].pc \in {"replaying", "decided", "failing"},
           req[r].pc = "replaying" \/ acts = {HandOver} \/ (At(r, "decided") /\ acts = req[r].acts),
           UNCHANGED <<row, driver, deleted, runner, sent>>
    PROVE  Stores(r) \/ Fails(r)
<1> DEFINE end == IF row.exists THEN Replied ELSE "error"
           new == [Done(r, end) EXCEPT !.acts = acts]
<1>0. end \in Steps \cup Ends /\ Replied \in {"replied", "answered"}
  BY DEF Replied, Steps, Ends
<1>1. Done(r, end) \in Request
  BY <1>0, DoneFields
<1>2. new \in Request
  BY <1>1 DEF Request
<1>3. /\ new.pc = end /\ new.acts = acts /\ new.kind = req[r].kind /\ new.msg = req[r].msg
      /\ new.before = req[r].before /\ new.replay = req[r].replay /\ new.no = req[r].no
  <2> HIDE DEF end
  <2> QED
    BY <1>0, <1>1, DoneFields DEF Request
<1>4. req' = [req EXCEPT ![r] = new]
  BY DEF StoreReply
<1> HIDE DEF new
<1>5. OnlyOf(r) /\ req'[r] = new
  BY <1>2, <1>4, ReplaceFrame
<1>6. CASE row.exists
  BY <1>0, <1>3, <1>5, <1>6 DEF StoreReply, Stores, Works
<1>7. CASE ~row.exists
  BY <1>0, <1>3, <1>5, <1>7 DEF StoreReply, Fails, Works, KeepsRow
<1> QED
  BY <1>6, <1>7

LEMMA BeginShape == ASSUME TypeOK, Formed, NEW r \in Requests, Arrive(r) \/ Tap(r) PROVE Begins(r)
<1> USE SessionTurnsAssumption
<1>0. NotYet \in Request /\ Ended \subseteq Requests /\ row \in Row
  BY DEF NotYet, Request, Steps, Ended, TypeOK
<1>1. ASSUME NEW new \in Request, req' = [req EXCEPT ![r] = new], new.before = Ended,
             driver = "user", At(r, "idle"), UNCHANGED <<session, driver, deleted, runner, sent>>,
             \/ new.pc = "unknown"
             \/ Owned /\ new.pc = "arrived" /\ new.kind = "chat" /\ new.msg \in Messages
             \/ Owned /\ new.pc = "tapped" /\ new.kind = "chip"
      PROVE  Begins(r)
  <2>1. OnlyOf(r) /\ req'[r] = new
    BY <1>1, ReplaceFrame
  <2> QED
    BY <1>1, <2>1 DEF Begins
<1>2. CASE Arrive(r)
  <2>1. PICK msg \in Messages :
          \/ /\ Owned
             /\ req' = [req EXCEPT ![r] = [NotYet EXCEPT !.pc = "arrived", !.msg = msg, !.holds = ~row.titled, !.before = Ended]]
          \/ ~Owned /\ req' = [req EXCEPT ![r] = [NotYet EXCEPT !.pc = "unknown", !.before = Ended]]
    BY <1>2 DEF Arrive
  <2> DEFINE new == [NotYet EXCEPT !.pc = "arrived", !.msg = msg, !.holds = ~row.titled, !.before = Ended]
             away == [NotYet EXCEPT !.pc = "unknown", !.before = Ended]
  <2>2. new \in Request /\ new.pc = "arrived" /\ new.kind = "chat" /\ new.msg = msg /\ new.before = Ended
    BY <1>0, ZenonT(60) DEF NotYet, Request, Steps, Row
  <2>3. away \in Request /\ away.pc = "unknown" /\ away.before = Ended
    BY <1>0 DEF NotYet, Request, Ends
  <2>4. (Owned /\ req' = [req EXCEPT ![r] = new]) \/ req' = [req EXCEPT ![r] = away]
    BY <2>1
  <2> HIDE DEF new, away
  <2> QED
    BY <1>1, <1>2, <2>2, <2>3, <2>4 DEF Arrive, NextUp
<1>3. CASE Tap(r)
  <2> DEFINE new == [NotYet EXCEPT !.kind = "chip", !.pc = "tapped", !.order = row.order,
                                   !.customer = row.customer, !.before = Ended]
             away == [NotYet EXCEPT !.kind = "chip", !.pc = "unknown", !.before = Ended]
  <2>1. new \in Request /\ new.pc = "tapped" /\ new.kind = "chip" /\ new.before = Ended
    BY <1>0, ZenonT(60) DEF NotYet, Request, Steps, Row
  <2>2. away \in Request /\ away.pc = "unknown" /\ away.before = Ended
    BY <1>0 DEF NotYet, Request, Ends
  <2>3. req' = [req EXCEPT ![r] = IF Owned THEN new ELSE away]
    BY <1>3 DEF Tap
  <2> HIDE DEF new, away
  <2> QED
    BY <1>1, <1>3, <2>1, <2>2, <2>3 DEF Tap, NextUp
<1> QED
  BY <1>2, <1>3

LEMMA PlayShape ==
    ASSUME TypeOK, Formed, NEW r \in Requests, At(r, "idle"), NEW msg \in Messages, Play(r, msg),
           runner \notin {"none"}, runner' = "playing", UNCHANGED <<session, driver, deleted>>
    PROVE  Begins(r)
<1> USE SessionTurnsAssumption
<1>0. NotYet \in Request /\ Ended \subseteq Requests /\ driver = "runner"
  BY DEF NotYet, Request, Steps, Ended, TypeOK, Formed
<1> DEFINE new == [NotYet EXCEPT !.pc = "arrived", !.msg = msg, !.before = Ended]
<1>1. new \in Request /\ new.pc = "arrived" /\ new.kind = "chat" /\ new.msg = msg /\ new.before = Ended
  BY <1>0 DEF NotYet, Request, Steps
<1>2. req' = [req EXCEPT ![r] = new]
  BY DEF Play
<1> HIDE DEF new
<1>3. OnlyOf(r) /\ req'[r] = new
  BY <1>1, <1>2, ReplaceFrame
<1> QED
  BY <1>0, <1>1, <1>3 DEF Begins

LEMMA LoadShape == ASSUME TypeOK, Formed, Highest, NEW r \in Requests, Load(r) \/ Reload(r) PROVE Reads(r)
<1>0. req[r] \in Request /\ row \in Row /\ InFlight(r) /\ r \in Requests
  BY DEF TypeOK, Load, Reload, At, InFlight, Begun, Ended, Ends
<1>1. NextNo \in Nat /\ ActedBefore \subseteq Actions
  BY ReadsTranscript
<1>2. cache[req[r].msg].acts \subseteq Actions \/ At(r, "created")
  BY DEF TypeOK, Load, Reload, Formed, At, OfChat
<1>3. ASSUME NEW new \in Request, req' = [req EXCEPT ![r] = new],
             new.pc = "loaded" \/ (new.pc = "missing" /\ ~row.exists),
             new.kind = req[r].kind, new.msg = req[r].msg, new.before = req[r].before,
             new.no = NextNo, new.prior = ActedBefore, new.order = row.order, new.customer = row.customer
      PROVE  Reads(r)
  <2>1. OnlyOf(r) /\ req'[r] = new
    BY <1>3, ReplaceFrame
  <2>2. ~Refused(r) /\ req[r].pc \in {"arrived", "created"}
    BY DEF Load, Reload, At, Refused, Formed
  <2>3. UNCHANGED <<turns, row, driver, deleted, runner, sent>>
    BY DEF Load, Reload, session
  <2> QED
    BY <1>0, <1>3, <2>1, <2>2, <2>3 DEF Reads, Works
<1>4. CASE Load(r)
  <2>1. PICK replay \in BOOLEAN :
          req' = [req EXCEPT ![r] = IF row.exists THEN Loaded(r, replay)
                                    ELSE [Loaded(r, replay) EXCEPT !.pc = "missing"]]
    BY <1>4 DEF Load
  <2>2. cache[req[r].msg].acts \subseteq Actions
    BY <1>2, <1>4 DEF Load, At
  <2> DEFINE acts == IF replay THEN cache[req[r].msg].acts ELSE {}
             step == IF row.exists THEN "loaded" ELSE "missing"
             new == [req[r] EXCEPT !.pc = step, !.replay = replay, !.no = NextNo, !.prior = ActedBefore,
                                   !.order = row.order, !.customer = row.customer, !.acts = acts]
  <2>3. acts \subseteq Actions /\ step \in Steps
    BY <2>2 DEF Steps
  <2>4. req' = [req EXCEPT ![r] = new]
    BY <1>0, <2>1, ZenonT(60) DEF Loaded, Request
  <2>5. step = "loaded" \/ (step = "missing" /\ ~row.exists)
    OBVIOUS
  <2> HIDE DEF acts, step
  <2>6. /\ new \in Request /\ new.pc = step /\ new.kind = req[r].kind /\ new.msg = req[r].msg
        /\ new.before = req[r].before /\ new.no = NextNo /\ new.prior = ActedBefore
        /\ new.order = row.order /\ new.customer = row.customer
    BY <1>0, <1>1, <2>3, ZenonT(60) DEF Request, Row
  <2> HIDE DEF new
  <2> QED
    BY <1>3, <2>4, <2>5, <2>6
<1>5. CASE Reload(r)
  <2> DEFINE new == [req[r] EXCEPT !.pc = "loaded", !.replay = req[r].replay, !.no = NextNo, !.prior = ActedBefore,
                                   !.order = row.order, !.customer = row.customer, !.acts = req[r].acts]
  <2>1. req' = [req EXCEPT ![r] = new]
    BY <1>0, <1>5 DEF Reload, Loaded, Request
  <2>2. /\ new \in Request /\ new.pc = "loaded" /\ new.kind = req[r].kind /\ new.msg = req[r].msg
        /\ new.before = req[r].before /\ new.no = NextNo /\ new.prior = ActedBefore
        /\ new.order = row.order /\ new.customer = row.customer
    BY <1>0, <1>1 DEF Request, Row, Steps
  <2> HIDE DEF new
  <2> QED
    BY <1>3, <2>1, <2>2
<1> QED
  BY <1>4, <1>5

LEMMA WorkFrame ==
    ASSUME TypeOK, NEW r \in Requests, InFlight(r), NEW new \in Request, req' = [req EXCEPT ![r] = new],
           new.kind = req[r].kind, new.msg = req[r].msg, new.before = req[r].before,
           UNCHANGED <<driver, deleted, runner, sent>>
    PROVE  Works(r) /\ req'[r] = new
BY ReplaceFrame DEF Works

LEMMA ServeShape == ASSUME TypeOK, Formed, Highest, NEW r \in Requests, Serve(r) PROVE Served(r)
<1> USE SessionTurnsAssumption
<1>0. /\ req[r] \in Request /\ InFlight(r) /\ row \in Row
      /\ UNCHANGED <<driver, deleted, runner, sent>>
  <2>1. req[r].pc \notin {"idle"} \cup Ends
    BY ZenonT(60) DEF Serve, Refuse, Load, Create, Reload, CustomerTurn, ReplayTurn, Classify, Enrich, Dispatch, Decide, BotTurn,
           CommitBreaks, StageRaises, Fallback, Respond, Number, Acknowledge, At, Ends
  <2>2. UNCHANGED <<driver, deleted, runner, sent>>
    BY DEF Serve, Refuse, Load, Create, Reload, CustomerTurn, ReplayTurn, Classify, Enrich, Dispatch, Decide, BotTurn,
           CommitBreaks, StageRaises, Fallback, Respond, Number, Acknowledge
  <2> QED
    BY <2>1, <2>2 DEF TypeOK, InFlight, Begun, Ended, At
<1>1. CASE Refuse(r)
  <2> DEFINE new == [req[r] EXCEPT !.pc = Replied, !.acts = {HandOver}]
  <2>1. req' = [req EXCEPT ![r] = new]
    BY <1>1 DEF Refuse
  <2>2. Replied \in Steps \cup Ends
    BY DEF Replied, Steps, Ends
  <2>3. /\ new \in Request /\ new.pc = Replied
        /\ new.kind = req[r].kind /\ new.msg = req[r].msg /\ new.before = req[r].before
    BY <1>0, <2>2 DEF Request
  <2> HIDE DEF new
  <2>4. Works(r) /\ req'[r] = new
    BY <1>0, <2>1, <2>3, WorkFrame
  <2> QED
    BY <1>1, <2>3, <2>4 DEF Refuse, Refused, session, Served, Refuses
<1>2. CASE Load(r) \/ Reload(r)
  BY <1>2, LoadShape DEF Served
<1>3. CASE Create(r)
  <2>1. CASE row.exists
    BY <1>0, <1>3, <2>1, FailFrame DEF Create, Served, Fails, KeepsRow
  <2>2. CASE ~row.exists
    <3> DEFINE new == [req[r] EXCEPT !.pc = "created"]
    <3>1. req' = [req EXCEPT ![r] = new]
      BY <1>3, <2>2 DEF Create
    <3>2. /\ new \in Request /\ new.pc = "created"
          /\ new.kind = req[r].kind /\ new.msg = req[r].msg /\ new.before = req[r].before
      BY <1>0 DEF Request, Steps
    <3> HIDE DEF new
    <3> QED
      BY <1>0, <1>3, <2>2, <3>1, <3>2, WorkFrame DEF Create, Served, Creates
  <2> QED
    BY <2>1, <2>2
<1>4. CASE CustomerTurn(r)
  <2>1. CASE ~row.exists
    <3>1. req' = [req EXCEPT ![r] = Done(r, "error")]
      BY <1>4, <2>1 DEF CustomerTurn
    <3>2. UNCHANGED turns /\ KeepsRow
      BY <1>0, <1>4, <2>1 DEF CustomerTurn, KeepsRow, Row
    <3> QED
      BY <1>0, <3>1, <3>2, FailFrame DEF Served, Fails, KeepsRow
  <2>2. CASE row.exists
    <3> DEFINE step == IF req[r].replay THEN "replaying" ELSE "asked"
               new == [req[r] EXCEPT !.pc = step, !.holds = FALSE]
    <3>1. req' = [req EXCEPT ![r] = new]
      BY <1>4, <2>2 DEF CustomerTurn
    <3>2. step \in Steps /\ step \in {"asked", "replaying"} /\ (step = "replaying" => req[r].replay)
      BY DEF Steps
    <3> HIDE DEF step
    <3>3. /\ new \in Request /\ new.pc = step /\ new.replay = req[r].replay
          /\ new.kind = req[r].kind /\ new.msg = req[r].msg /\ new.before = req[r].before
          /\ new.no = req[r].no /\ new.prior = req[r].prior
          /\ new.order = req[r].order /\ new.customer = req[r].customer
      BY <1>0, <3>2 DEF Request
    <3> HIDE DEF new
    <3>4. Works(r) /\ req'[r] = new
      BY <1>0, <3>1, <3>3, WorkFrame
    <3> QED
      BY <1>0, <1>4, <2>2, <3>2, <3>3, <3>4 DEF CustomerTurn, Served, Tells, KeepsRow, Row
  <2> QED
    BY <2>1, <2>2
<1>5. CASE ReplayTurn(r)
  <2>1. req[r].acts \subseteq Actions
    BY <1>0 DEF Request
  <2> QED
    BY <1>0, <1>5, <2>1, StoreFrame DEF ReplayTurn, At, Served
<1>6. CASE BotTurn(r)
  <2>1. req[r].acts \subseteq Actions
    BY <1>0 DEF Request
  <2> QED
    BY <1>0, <1>6, <2>1, StoreFrame DEF BotTurn, At, Served
<1>7. CASE Fallback(r)
  <2>1. {HandOver} \subseteq Actions
    OBVIOUS
  <2> QED
    BY <1>0, <1>7, <2>1, StoreFrame DEF Fallback, At, Served
<1>8. CASE CommitBreaks(r)
  <2>1. /\ Works(r) /\ req'[r].pc = "error" /\ req'[r].replay = req[r].replay
        /\ req'[r].no = req[r].no /\ req'[r].acts = req[r].acts
    BY <1>0, <1>8, FailFrame DEF CommitBreaks
  <2>2. turns' = turns \/ (row.exists /\ turns' = Append(turns, TurnRow(r, "bot", req'[r].acts)))
    BY <1>8, <2>1 DEF CommitBreaks
  <2>3. At(r, "decided") /\ UNCHANGED row
    BY <1>8 DEF CommitBreaks
  <2> QED
    BY <2>1, <2>2, <2>3 DEF At, Served, Fails, Stores, KeepsRow
<1>9. ASSUME NEW new \in Request, req' = [req EXCEPT ![r] = new],
             req[r].pc \in Told \ {"replaying", "decided", "failing"},
             new.pc \in Told \ {"asked", "replaying"},
             new.kind = req[r].kind, new.msg = req[r].msg, new.before = req[r].before,
             new.no = req[r].no, new.prior = req[r].prior, new.replay = req[r].replay,
             new.pc = "decided" => new.acts \cap Money \cap req[r].prior = {}, UNCHANGED turns
      PROVE  Goes(r)
  <2>1. Works(r) /\ req'[r] = new
    BY <1>0, <1>9, WorkFrame
  <2> QED
    BY <1>9, <2>1 DEF Goes
<1>10. CASE Classify(r)
  <2>1. PICK mentioned \in Orders \cup {None, TooBig} :
          IF ~TakesOrder(r, mentioned)
          THEN req' = [req EXCEPT ![r].pc = "named"] /\ UNCHANGED row
          ELSE IF ~Fits(mentioned)
          THEN req' = [req EXCEPT ![r] = Done(r, "error")] /\ UNCHANGED row
          ELSE req' = [req EXCEPT ![r].pc = "named", ![r].order = mentioned]
    BY <1>10 DEF Classify
  <2>2. CASE req' = [req EXCEPT ![r] = Done(r, "error")] /\ UNCHANGED row
    BY <1>0, <1>10, <2>2, FailFrame DEF Classify, Served, Fails, KeepsRow
  <2>3. ASSUME NEW o \in Orders \cup {None},
               req' = [req EXCEPT ![r] = [req[r] EXCEPT !.pc = "named", !.order = o, !.customer = req[r].customer]]
        PROVE  Goes(r)
    <3> DEFINE new == [req[r] EXCEPT !.pc = "named", !.order = o, !.customer = req[r].customer]
    <3>1. req[r].customer \in Customers \cup {None} /\ "named" \in Steps
      BY <1>0 DEF Request, Steps
    <3>2. /\ new \in Request /\ new.pc = "named"
          /\ new.kind = req[r].kind /\ new.msg = req[r].msg /\ new.before = req[r].before
          /\ new.no = req[r].no /\ new.prior = req[r].prior /\ new.replay = req[r].replay
      BY <1>0, <3>1 DEF Request
    <3>3. req' = [req EXCEPT ![r] = new]
      BY <2>3
    <3> HIDE DEF new
    <3> QED
      BY <1>9, <1>10, <3>2, <3>3 DEF Classify, At, Told
  <2>4. CASE ~TakesOrder(r, mentioned)
    <3>1. req' = [req EXCEPT ![r] = [req[r] EXCEPT !.pc = "named", !.order = req[r].order, !.customer = req[r].customer]]
      BY <1>0, <2>1, <2>4 DEF Request
    <3> QED
      BY <1>0, <2>3, <3>1 DEF Request, Served
  <2>5. CASE TakesOrder(r, mentioned) /\ Fits(mentioned)
    <3>1. req' = [req EXCEPT ![r] = [req[r] EXCEPT !.pc = "named", !.order = mentioned, !.customer = req[r].customer]]
      BY <1>0, <2>1, <2>5, ZenonT(60) DEF Request
    <3>2. mentioned \in Orders \cup {None}
      BY <2>5 DEF Fits
    <3> QED
      BY <2>3, <3>1, <3>2 DEF Served
  <2> QED
    BY <2>1, <2>2, <2>4, <2>5
<1>11. CASE Enrich(r)
  <2> DEFINE found == IF req[r].order = None THEN None ELSE OwnerOf[req[r].order]
  <2>1. \/ req' = [req EXCEPT ![r].pc = "known"]
        \/ req' = [req EXCEPT ![r].pc = "known", ![r].customer = found]
    BY <1>11 DEF Enrich
  <2>2. found \in Customers \cup {None}
    BY <1>0 DEF Request
  <2> HIDE DEF found
  <2>3. ASSUME NEW c \in Customers \cup {None},
               req' = [req EXCEPT ![r] = [req[r] EXCEPT !.pc = "known", !.order = req[r].order, !.customer = c]]
        PROVE  Goes(r)
    <3> DEFINE new == [req[r] EXCEPT !.pc = "known", !.order = req[r].order, !.customer = c]
    <3>1. req[r].order \in Orders \cup {None} /\ "known" \in Steps
      BY <1>0 DEF Request, Steps
    <3>2. /\ new \in Request /\ new.pc = "known"
          /\ new.kind = req[r].kind /\ new.msg = req[r].msg /\ new.before = req[r].before
          /\ new.no = req[r].no /\ new.prior = req[r].prior /\ new.replay = req[r].replay
      BY <1>0, <3>1 DEF Request
    <3>3. req' = [req EXCEPT ![r] = new]
      BY <2>3
    <3> HIDE DEF new
    <3> QED
      BY <1>9, <1>11, <3>2, <3>3 DEF Enrich, At, Told
  <2>4. CASE req' = [req EXCEPT ![r].pc = "known"]
    <3>1. req' = [req EXCEPT ![r] = [req[r] EXCEPT !.pc = "known", !.order = req[r].order, !.customer = req[r].customer]]
      BY <1>0, <2>4 DEF Request
    <3> QED
      BY <1>0, <2>3, <3>1 DEF Request, Served
  <2>5. CASE req' = [req EXCEPT ![r].pc = "known", ![r].customer = found]
    <3>1. req' = [req EXCEPT ![r] = [req[r] EXCEPT !.pc = "known", !.order = req[r].order, !.customer = found]]
      BY <1>0, <2>5 DEF Request
    <3> QED
      BY <2>2, <2>3, <3>1 DEF Served
  <2> QED
    BY <2>1, <2>4, <2>5
<1>12. CASE Dispatch(r)
  <2>1. CASE ~row.exists
    <3>1. req' = [req EXCEPT ![r] = Done(r, "error")] /\ UNCHANGED <<turns, row>>
      BY <1>12, <2>1 DEF Dispatch
    <3> QED
      BY <1>0, <3>1, FailFrame DEF Served, Fails, KeepsRow
  <2>2. CASE row.exists
    <3> DEFINE new == [req[r] EXCEPT !.pc = "dispatched"]
    <3>1. req' = [req EXCEPT ![r] = new]
      BY <1>12, <2>2 DEF Dispatch
    <3>2. /\ new \in Request /\ new.pc = "dispatched"
          /\ new.kind = req[r].kind /\ new.msg = req[r].msg /\ new.before = req[r].before
          /\ new.no = req[r].no /\ new.prior = req[r].prior /\ new.replay = req[r].replay
      BY <1>0 DEF Request, Steps
    <3> HIDE DEF new
    <3> QED
      BY <1>9, <1>12, <3>1, <3>2 DEF Dispatch, At, Told, Served
  <2> QED
    BY <2>1, <2>2
<1>13. CASE Decide(r)
  <2>1. PICK acts \in Replies : MayDecide(r, acts) /\ req' = [req EXCEPT ![r].pc = "decided", ![r].acts = acts]
    BY <1>13 DEF Decide
  <2> DEFINE new == [req[r] EXCEPT !.pc = "decided", !.acts = acts]
  <2>2. req' = [req EXCEPT ![r] = new]
    BY <2>1
  <2>3. /\ new \in Request /\ new.pc = "decided" /\ new.acts = acts
        /\ new.kind = req[r].kind /\ new.msg = req[r].msg /\ new.before = req[r].before
        /\ new.no = req[r].no /\ new.prior = req[r].prior /\ new.replay = req[r].replay
    BY <1>0 DEF Request, Steps
  <2> HIDE DEF new
  <2> QED
    BY <1>9, <1>13, <2>1, <2>2, <2>3 DEF Decide, MayDecide, At, Told, Served, session
<1>14. CASE StageRaises(r)
  <2> DEFINE new == [req[r] EXCEPT !.pc = "failing"]
  <2>1. req' = [req EXCEPT ![r] = new]
    BY <1>14 DEF StageRaises
  <2>2. /\ new \in Request /\ new.pc = "failing"
        /\ new.kind = req[r].kind /\ new.msg = req[r].msg /\ new.before = req[r].before
        /\ new.no = req[r].no /\ new.prior = req[r].prior /\ new.replay = req[r].replay
    BY <1>0 DEF Request, Steps
  <2> HIDE DEF new
  <2> QED
    BY <1>9, <1>14, <2>1, <2>2 DEF StageRaises, Told, Served, session
<1>15. CASE Respond(r)
  <2> DEFINE new == [req[r] EXCEPT !.pc = "answered", !.said = LastBotNo, !.holds = FALSE]
  <2>0. LastBotNo \in Nat
    BY LastBot
  <2>1. req' = [req EXCEPT ![r] = new]
    BY <1>15 DEF Respond
  <2>2. /\ new \in Request /\ new.pc = "answered" /\ new.said = LastBotNo
        /\ new.kind = req[r].kind /\ new.msg = req[r].msg /\ new.before = req[r].before
        /\ new.no = req[r].no /\ new.acts = req[r].acts /\ new.replay = req[r].replay
    BY <1>0, <2>0 DEF Request, Ends
  <2> HIDE DEF new
  <2>3. Works(r) /\ req'[r] = new
    BY <1>0, <2>1, <2>2, WorkFrame
  <2> QED
    BY <1>0, <1>15, <2>2, <2>3 DEF Respond, Responds, At, Served, KeepsRow, Row
<1>16. CASE Number(r)
  <2> DEFINE new == [req[r] EXCEPT !.pc = "numbered", !.no = NextNo]
  <2>0. NextNo \in Nat
    BY ReadsTranscript
  <2>1. req' = [req EXCEPT ![r] = new]
    BY <1>16 DEF Number
  <2>2. /\ new \in Request /\ new.pc = "numbered" /\ new.no = NextNo
        /\ new.kind = req[r].kind /\ new.msg = req[r].msg /\ new.before = req[r].before
    BY <1>0, <2>0 DEF Request, Steps
  <2> HIDE DEF new
  <2>3. Works(r) /\ req'[r] = new
    BY <1>0, <2>1, <2>2, WorkFrame
  <2> QED
    BY <1>16, <2>2, <2>3 DEF Number, Numbers, session, Served
<1>17. CASE Acknowledge(r)
  <2>1. CASE req' = [req EXCEPT ![r] = Done(r, "error")] /\ UNCHANGED <<row, turns>>
    BY <1>0, <2>1, FailFrame DEF Served, Fails, KeepsRow
  <2>2. CASE req' = [req EXCEPT ![r] = Done(r, "answered")] /\ turns' = Append(turns, TurnRow(r, "bot", {}))
    <3> DEFINE new == Done(r, "answered")
    <3>1. "answered" \in Steps \cup Ends
      BY DEF Ends
    <3>2. /\ new \in Request /\ new.pc = "answered" /\ new.kind = req[r].kind /\ new.msg = req[r].msg
          /\ new.before = req[r].before /\ new.replay = req[r].replay /\ new.no = req[r].no
      BY <3>1, DoneFields
    <3>3. req' = [req EXCEPT ![r] = new]
      BY <2>2
    <3> HIDE DEF new
    <3>4. Works(r) /\ req'[r] = new
      BY <1>0, <3>2, <3>3, WorkFrame
    <3> QED
      BY <1>17, <2>2, <3>2, <3>4 DEF Acknowledge, Notes, Served
  <2> QED
    BY <1>17, <2>1, <2>2 DEF Acknowledge
<1> QED
  BY <1>1, <1>2, <1>3, <1>4, <1>5, <1>6, <1>7, <1>8, <1>10, <1>11, <1>12, <1>13, <1>14, <1>15, <1>16, <1>17 DEF Serve

LEMMA RunShape ==
    ASSUME TypeOK, Formed, Run PROVE (\E r \in Requests : Begins(r)) \/ Passes
<1>1. runner # "none"
  BY DEF Run, Open, Close, Submit, Abandon
<1>2. CASE Open
  <2>1. CASE runner' = "refused" /\ UNCHANGED req
    BY <1>1, <1>2, <2>1 DEF Open, session, Passes
  <2>2. CASE runner' = "playing" /\ \E msg \in Messages : Play(1, msg)
    <3>1. CASE 1 \in Requests
      BY <1>1, <1>2, <2>2, <3>1, PlayShape DEF Open, Formed
    <3>2. CASE 1 \notin Requests
      BY <1>1, <1>2, <2>2, <3>2 DEF Open, Play, TypeOK, session, Passes
    <3> QED
      BY <3>1, <3>2
  <2> QED
    BY <1>2, <2>1, <2>2 DEF Open
<1>3. CASE Close
  BY <1>1, <1>3 DEF Close, Passes
<1>4. ASSUME NEW r \in Requests, Submit(r) PROVE (\E q \in Requests : Begins(q)) \/ Passes
  <2>1. CASE r < MaxRequests /\ UNCHANGED runner /\ \E msg \in Messages : Play(r + 1, msg)
    <3>1. r + 1 \in Requests /\ At(r + 1, "idle")
      BY <1>4, <2>1, SessionTurnsAssumption DEF Submit, Requests
    <3> QED
      BY <1>1, <1>4, <2>1, <3>1, PlayShape DEF Submit
  <2>2. CASE runner' = "closing" /\ UNCHANGED req
    BY <1>1, <1>4, <2>2 DEF Submit, session, Passes
  <2> QED
    BY <1>4, <2>1, <2>2 DEF Submit
<1>5. ASSUME NEW r \in Requests, Abandon(r) PROVE Passes
  BY <1>1, <1>5 DEF Abandon, session, Passes
<1> QED
  BY <1>2, <1>3, <1>4, <1>5 DEF Run

LEMMA CrashShape == ASSUME TypeOK, Crash PROVE Loses
<1>1. \A r \in Requests : req[r] \in Request
  BY DEF TypeOK
<1>2. "lost" \in Steps \cup Ends
  BY DEF Ends
<1>3. \A r \in Requests : req'[r] = IF InFlight(r) THEN Done(r, "lost") ELSE req[r]
  BY DEF Crash
<1>4. ASSUME NEW r \in Requests
      PROVE  /\ Done(r, "lost") \in Request /\ Done(r, "lost").pc = "lost"
             /\ Done(r, "lost").kind = req[r].kind /\ Done(r, "lost").msg = req[r].msg
             /\ Done(r, "lost").before = req[r].before /\ Done(r, "lost").replay = req[r].replay
  <2> DEFINE end == "lost"
  <2>1. end \in Steps \cup Ends
    BY <1>2
  <2> HIDE DEF end
  <2>2. /\ Done(r, end) \in Request /\ Done(r, end).pc = end
        /\ Done(r, end).kind = req[r].kind /\ Done(r, end).msg = req[r].msg
        /\ Done(r, end).before = req[r].before /\ Done(r, end).replay = req[r].replay
    BY <2>1, DoneFields
  <2> QED
    BY <2>2 DEF end
<1>5. req' \in [Requests -> Request]
  BY <1>1, <1>4 DEF Crash
<1>6. /\ runner' = IF runner \in {"start", "playing", "closing"} THEN "lost" ELSE runner
      /\ UNCHANGED <<session, driver, deleted, sent>>
  BY DEF Crash
<1> QED
  BY <1>3, <1>4, <1>5, <1>6 DEF Loses

LEMMA StepShape == ASSUME TypeOK, Formed, Highest, [Next]_vars PROVE Shaped
<1>1. ASSUME NEW r \in Requests, Arrive(r) \/ Tap(r) \/ Serve(r) PROVE Begins(r) \/ Served(r)
  BY <1>1, BeginShape, ServeShape
<1>2. CASE Rename \/ UNCHANGED vars
  BY <1>2 DEF Rename, vars, session, Passes, Shaped
<1>3. CASE Delete
  BY <1>3 DEF Delete, Removes, Shaped
<1>4. CASE Run
  BY <1>4, RunShape DEF Shaped
<1>5. CASE Crash
  BY <1>5, CrashShape DEF Shaped
<1> QED
  BY <1>1, <1>2, <1>3, <1>4, <1>5 DEF Next, Shaped

(* The row stays a row, and an owner it has not it does not get.            *)
LEMMA RowStep == ASSUME TypeOK, [Next]_vars PROVE row' \in Row /\ (Owned' => Owned)
<1> USE SessionTurnsAssumption
<1>0. row \in Row /\ NoRow \in Row /\ Ownerless \in Row /\ ~Ownerless.owned /\ ~NoRow.owned
  BY DEF TypeOK, Row, NoRow, Ownerless
<1>1. CASE UNCHANGED row
  BY <1>0, <1>1 DEF Owned
<1>2. CASE row' \in {NoRow, Ownerless}
  BY <1>0, <1>2 DEF Owned
<1>3. ASSUME NEW b \in BOOLEAN, row' = [row EXCEPT !.titled = b] \/ row' = [row EXCEPT !.closed = b]
      PROVE  row' \in Row /\ (Owned' => Owned)
  BY <1>0, <1>3 DEF Owned, Row
<1>4. ASSUME NEW o \in Orders \cup {None}, NEW c \in Customers \cup {None}, NEW b \in BOOLEAN, NEW k \in BOOLEAN,
             row' = [row EXCEPT !.titled = b, !.chosen = k, !.order = o, !.customer = c]
      PROVE  row' \in Row /\ (Owned' => Owned)
  BY <1>0, <1>4, ZenonT(60) DEF Owned, Row
<1>5. ASSUME NEW r \in Requests, Serve(r) PROVE row' \in Row /\ (Owned' => Owned)
  <2>0. req[r] \in Request /\ req[r].holds \in BOOLEAN
    BY DEF TypeOK, Request
  <2>1. CASE Create(r)
    BY <1>1, <1>2, <2>1 DEF Create
  <2>2. CASE CustomerTurn(r) \/ Respond(r)
    <3> DEFINE b == row.titled \/ req[r].holds
    <3>1. row' = [row EXCEPT !.titled = b] /\ b \in BOOLEAN
      BY <1>0, <2>0, <2>2 DEF CustomerTurn, Respond, Row
    <3> QED
      BY <1>3, <3>1
  <2>3. CASE Classify(r)
    <3>1. PICK mentioned \in Orders \cup {None, TooBig} :
            \/ UNCHANGED row
            \/ mentioned # TooBig /\ row' = [row EXCEPT !.order = mentioned]
      BY <2>3 DEF Classify, Fits
    <3>2. row' = [row EXCEPT !.order = mentioned]
          => row' = [row EXCEPT !.titled = row.titled, !.chosen = row.chosen, !.order = mentioned, !.customer = row.customer]
      BY <1>0 DEF Row
    <3>3. mentioned # TooBig => mentioned \in Orders \cup {None}
      OBVIOUS
    <3>4. row.titled \in BOOLEAN /\ row.chosen \in BOOLEAN /\ row.customer \in Customers \cup {None}
      BY <1>0 DEF Row
    <3> QED
      BY <1>1, <1>4, <3>1, <3>2, <3>3, <3>4
  <2>4. CASE Enrich(r)
    <3> DEFINE found == IF req[r].order = None THEN None ELSE OwnerOf[req[r].order]
    <3>1. UNCHANGED row \/ row' = [row EXCEPT !.customer = found]
      BY <2>4 DEF Enrich
    <3>2. found \in Customers \cup {None}
      BY <2>0 DEF Request
    <3> HIDE DEF found
    <3>3. row' = [row EXCEPT !.customer = found]
          => row' = [row EXCEPT !.titled = row.titled, !.chosen = row.chosen, !.order = row.order, !.customer = found]
      BY <1>0 DEF Row
    <3> QED
      BY <1>0, <1>1, <1>4, <3>1, <3>2, <3>3, ZenonT(60) DEF Row
  <2>5. CASE Acknowledge(r)
    <3>1. PICK tap \in Taps :
            \/ UNCHANGED row
            \/ /\ Fits(tap.order) \/ req[r].order # None
               /\ row' = [row EXCEPT !.titled = TRUE, !.chosen = TRUE,
                                     !.order = IF req[r].order = None /\ tap.order # None THEN tap.order ELSE row.order,
                                     !.customer = IF req[r].customer = None /\ tap.customer # None
                                                  THEN tap.customer ELSE row.customer]
      BY <2>5 DEF Acknowledge
    <3> DEFINE o == IF req[r].order = None /\ tap.order # None THEN tap.order ELSE row.order
               c == IF req[r].customer = None /\ tap.customer # None THEN tap.customer ELSE row.customer
    <3>2. tap.order \in Orders \cup {None, TooBig} /\ tap.customer \in Customers \cup {None}
      OBVIOUS
    <3>3. Fits(tap.order) \/ req[r].order # None => o \in Orders \cup {None} /\ c \in Customers \cup {None}
      BY <1>0, <3>2 DEF Row, Fits
    <3> QED
      BY <1>1, <1>4, <3>1, <3>3
  <2>6. UNCHANGED row \/ Create(r) \/ CustomerTurn(r) \/ Respond(r) \/ Classify(r) \/ Enrich(r) \/ Acknowledge(r)
    BY <1>5 DEF Serve, Refuse, Load, Reload, ReplayTurn, Dispatch, Decide, BotTurn, CommitBreaks, StageRaises, Fallback,
                Number, session
  <2> QED
    BY <1>1, <2>1, <2>2, <2>3, <2>4, <2>5, <2>6
<1>6. CASE Rename
  BY <1>3, <1>6 DEF Rename
<1>7. CASE Delete
  BY <1>2, <1>7 DEF Delete
<1>8. CASE Close
  BY <1>0, <1>3, <1>8 DEF Close, Row
<1>9. \/ UNCHANGED row \/ Rename \/ Delete \/ Close
      \/ \E r \in Requests : Serve(r)
  BY DEF Next, Arrive, Tap, Run, Open, Submit, Abandon, Crash, vars, session
<1> QED
  BY <1>1, <1>5, <1>6, <1>7, <1>8, <1>9

-----------------------------------------------------------------------------
(* What a request at work stores comes after all that is stored.            *)

NewTurn == Len(turns) + 1

(* The turn a step stores, if it stores one.                                *)
Writes(r, role, acts) == turns' = Append(turns, TurnRow(r, role, acts))

(* What the transcript is then.                                             *)
Added(r, role, acts) ==
    /\ turns' \in Seq(Turn) /\ DOMAIN turns' = DOMAIN turns \cup {NewTurn}
    /\ NewTurn \in Nat /\ NewTurn \notin DOMAIN turns
    /\ \A i \in DOMAIN turns : turns'[i] = turns[i] /\ i < NewTurn /\ i \in Nat
    /\ turns'[NewTurn].no = req[r].no /\ turns'[NewTurn].role = role
    /\ turns'[NewTurn].req = r /\ turns'[NewTurn].acts = acts
    /\ Bots' = IF role = "bot" THEN Bots \cup {NewTurn} ELSE Bots

LEMMA Appended ==
    ASSUME TypeOK, NEW r \in Requests, NEW role \in {"customer", "bot"}, NEW acts \in SUBSET Actions, Writes(r, role, acts)
    PROVE  Added(r, role, acts)
<1> DEFINE t == TurnRow(r, role, acts)
<1>1. req[r].no \in Nat
  BY DEF TypeOK, Request
<1>2. t \in Turn /\ t.no = req[r].no /\ t.role = role /\ t.req = r /\ t.acts = acts
  BY <1>1 DEF TurnRow, Turn
<1>3. turns \in Seq(Turn) /\ turns' = Append(turns, t)
  BY DEF TypeOK, Writes
<1> HIDE DEF t
<1>4. /\ turns' \in Seq(Turn) /\ DOMAIN turns' = DOMAIN turns \cup {NewTurn}
      /\ NewTurn \in Nat /\ NewTurn \notin DOMAIN turns
      /\ \A i \in DOMAIN turns : turns'[i] = turns[i] /\ i < NewTurn /\ i \in Nat
      /\ turns'[NewTurn] = t
  BY <1>2, <1>3 DEF NewTurn
<1>5. Bots' = IF role = "bot" THEN Bots \cup {NewTurn} ELSE Bots
  BY <1>2, <1>4 DEF Bots
<1> QED
  BY <1>2, <1>4, <1>5 DEF Added

LEMMA TurnOf ==
    ASSUME TypeOK, NEW i \in DOMAIN turns
    PROVE  /\ i \in Nat /\ turns[i].no \in Nat /\ turns[i].role \in {"customer", "bot"}
           /\ turns[i].req \in Requests /\ turns[i].acts \subseteq Actions
<1>1. turns[i] \in Turn /\ i \in Nat
  BY DEF TypeOK
<1> QED
  BY <1>1 DEF Turn

LEMMA ServeGrows ==
    ASSUME TypeOK, NEW r \in Requests, Served(r)
    PROVE  \/ UNCHANGED turns
           \/ Tells(r) /\ Writes(r, "customer", {})
           \/ Stores(r) /\ req'[r].acts \in SUBSET Actions /\ Writes(r, "bot", req'[r].acts)
           \/ Notes(r) /\ Writes(r, "bot", {})
<1>1. ASSUME Works(r) PROVE req'[r].acts \in SUBSET Actions
  BY <1>1 DEF Works, OnlyOf, Request
<1> QED
  BY <1>1 DEF Served, Refuses, Reads, Creates, Tells, Goes, Stores, Fails, Responds, Numbers, Notes, Writes

LEMMA TypeStep == ASSUME TypeOK, Formed, Highest, [Next]_vars PROVE TypeOK'
<1> USE SessionTurnsAssumption
<1>1. row' \in Row
  BY RowStep
<1>2. Shaped
  BY StepShape
<1>3. driver' \in Drivers /\ req' \in [Requests -> Request]
  BY <1>2 DEF Shaped, Begins, Served, Refuses, Reads, Creates, Tells, Goes, Stores, Fails, Responds, Numbers, Notes,
              Works, OnlyOf, Removes, Loses, Passes, TypeOK
<1>4. turns' \in Seq(Turn)
  <2>1. CASE \E r \in Requests : Served(r)
    <3>1. PICK r \in Requests : Served(r)
      BY <2>1
    <3>2. UNCHANGED turns \/ \E role \in {"customer", "bot"}, acts \in SUBSET Actions : Writes(r, role, acts)
      BY <3>1, ServeGrows
    <3> QED
      BY <3>1, <3>2, Appended DEF TypeOK, Added
  <2>2. UNCHANGED turns \/ turns' = <<>> \/ \E r \in Requests : Served(r)
    BY <1>2 DEF Shaped, Begins, Removes, Loses, Passes, session
  <2>3. <<>> \in Seq(Turn) /\ turns \in Seq(Turn)
    BY DEF TypeOK
  <2> QED
    BY <2>1, <2>2, <2>3
<1>5. deleted' \in (SUBSET Requests) \cup {NotDeleted}
  <2>1. UNCHANGED deleted \/ deleted' = Begun
    BY <1>2 DEF Shaped, Begins, Served, Refuses, Reads, Creates, Tells, Goes, Stores, Fails, Responds, Numbers, Notes,
                Works, Removes, Loses, Passes
  <2> QED
    BY <2>1, SMTT(30) DEF TypeOK, Begun
<1>6. executions' \subseteq [req : Requests, no : Nat, linked : BOOLEAN]
  <2> DEFINE Execution == [req : Requests, no : Nat, linked : BOOLEAN]
  <2>0. executions \subseteq Execution
    BY DEF TypeOK
  <2>1. CASE UNCHANGED executions
    BY <2>0, <2>1
  <2>2. ASSUME NEW r \in Requests, Dispatch(r) PROVE executions' \subseteq Execution
    <3>1. [req |-> r, no |-> req[r].no, linked |-> TRUE] \in Execution
      BY DEF TypeOK, Request
    <3> QED
      BY <2>0, <2>2, <3>1 DEF Dispatch
  <2>3. CASE Delete
    <3>1. \A e \in Execution : [e EXCEPT !.linked = FALSE] \in Execution
      OBVIOUS
    <3> QED
      BY <2>0, <2>3, <3>1 DEF Delete
  <2>4. UNCHANGED executions \/ Delete \/ \E r \in Requests : Dispatch(r)
    BY ZenonT(60) DEF Next, Arrive, Tap, Serve, Refuse, Load, Create, Reload, CustomerTurn, ReplayTurn, Classify, Enrich, Decide,
           BotTurn, CommitBreaks, StageRaises, Fallback, Respond, Number, Acknowledge, Rename, Run, Open, Submit, Close,
           Abandon, Crash, vars, session
  <2> QED
    BY <2>1, <2>2, <2>3, <2>4
<1>7. cache' \in [Messages -> [reply : BOOLEAN, acts : SUBSET Actions]]
  <2> DEFINE Entry == [reply : BOOLEAN, acts : SUBSET Actions]
  <2>0. cache \in [Messages -> Entry] /\ NoEntry \in Entry
    BY DEF TypeOK, NoEntry
  <2>1. CASE UNCHANGED cache
    BY <2>0, <2>1
  <2>2. ASSUME NEW r \in Requests, Decide(r) PROVE cache' \in [Messages -> Entry]
    <3>1. PICK acts \in Replies : cache' = [cache EXCEPT ![req[r].msg] = [reply |-> TRUE, acts |-> acts]]
      BY <2>2 DEF Decide
    <3>2. [reply |-> TRUE, acts |-> acts] \in Entry
      OBVIOUS
    <3> QED
      BY <2>0, <3>1, <3>2
  <2>3. CASE Crash
    BY <2>0, <2>3 DEF Crash
  <2>4. UNCHANGED cache \/ Crash \/ \E r \in Requests : Decide(r)
    BY ZenonT(60) DEF Next, Arrive, Tap, Serve, Refuse, Load, Create, Reload, CustomerTurn, ReplayTurn, Classify, Enrich, Dispatch,
           BotTurn, CommitBreaks, StageRaises, Fallback, Respond, Number, Acknowledge, Rename, Delete, Run, Open, Submit,
           Close, Abandon, vars
  <2> QED
    BY <2>1, <2>2, <2>3, <2>4
<1>8. /\ runner' \in RunnerOver \cup {"start", "playing", "closing"}
      /\ sent' \in Seq(Requests)
  <2>1. CASE UNCHANGED <<runner, sent>>
    BY <2>1 DEF TypeOK
  <2>2. CASE Run
    <3>1. sent \in Seq(Requests) /\ \A r \in Requests : Append(sent, r) \in Seq(Requests)
      BY DEF TypeOK
    <3>2. ASSUME NEW r \in Requests, Submit(r)
          PROVE  runner' \in {"playing", "closing"} /\ (sent' = sent \/ sent' = Append(sent, r))
      BY <3>2 DEF Submit
    <3>3. CASE Open \/ Close \/ \E r \in Requests : Abandon(r)
      BY <3>1, <3>3 DEF Open, Close, Abandon, RunnerOver
    <3> QED
      BY <2>2, <3>1, <3>2, <3>3 DEF Run
  <2>3. CASE Crash
    BY <2>3 DEF Crash, TypeOK, RunnerOver
  <2>4. UNCHANGED <<runner, sent>> \/ Run \/ Crash
    BY ZenonT(60) DEF Next, Arrive, Tap, Serve, Refuse, Load, Create, Reload, CustomerTurn, ReplayTurn, Classify, Enrich, Dispatch,
           Decide, BotTurn, CommitBreaks, StageRaises, Fallback, Respond, Number, Acknowledge, Rename, Delete, vars
  <2> QED
    BY <2>1, <2>2, <2>3, <2>4
<1>9. crashes' \in 0..MaxCrashes
  <2>1. UNCHANGED crashes \/ (crashes < MaxCrashes /\ crashes' = crashes + 1)
    BY ZenonT(60) DEF Next, Arrive, Tap, Serve, Refuse, Load, Create, Reload, CustomerTurn, ReplayTurn, Classify, Enrich, Dispatch,
           Decide, BotTurn, CommitBreaks, StageRaises, Fallback, Respond, Number, Acknowledge, Rename, Delete,
           Run, Open, Submit, Close, Abandon, Crash, vars
  <2> QED
    BY <2>1 DEF TypeOK
<1> QED
  BY <1>1, <1>3, <1>4, <1>5, <1>6, <1>7, <1>8, <1>9 DEF TypeOK

(* Who has begun stays so, who has ended stays so.                          *)
LEMMA Onward ==
    ASSUME TypeOK, Shaped
    PROVE  /\ Begun \subseteq Begun' /\ Ended \subseteq Ended'
           /\ \A r \in Begun : req'[r].before = req[r].before /\ req'[r].kind = req[r].kind /\ req'[r].msg = req[r].msg
           /\ \A r \in Ended : req'[r] = req[r]
           /\ \A r \in Requests : At(r, "idle")' => At(r, "idle")
<1> USE DEF Begun, Ended, InFlight, At, Ends
<1>1. ASSUME NEW r \in Requests, Begins(r)
      PROVE  \A q \in Requests : IF q = r THEN At(q, "idle") /\ ~At(q, "idle")' ELSE req'[q] = req[q]
  BY <1>1 DEF Begins, OnlyOf
<1>2. ASSUME NEW r \in Requests, Works(r)
      PROVE  \A q \in Requests : IF q = r THEN InFlight(q) /\ req'[q].before = req[q].before
                                               /\ req'[q].kind = req[q].kind /\ req'[q].msg = req[q].msg
                                 ELSE req'[q] = req[q]
  BY <1>2 DEF Works, OnlyOf
<1>3. ASSUME NEW r \in Requests, Served(r) PROVE Works(r) /\ ~At(r, "idle")'
  BY <1>3 DEF Served, Refuses, Reads, Creates, Tells, Goes, Stores, Fails, Responds, Numbers, Notes, Replied, Told
<1>4. CASE \E r \in Requests : Begins(r)
  BY <1>1, <1>4
<1>5. CASE \E r \in Requests : Served(r)
  BY <1>2, <1>3, <1>5
<1>6. CASE Removes \/ Passes
  BY <1>6 DEF Removes, Passes
<1>7. CASE Loses
  BY <1>7 DEF Loses
<1> QED
  BY <1>4, <1>5, <1>6, <1>7 DEF Shaped

LEMMA FormedStep == ASSUME TypeOK, Formed, Highest, Shaped, TypeOK' PROVE Formed'
<1> USE SessionTurnsAssumption
<1>0. driver \in {"user", "runner"} /\ driver' = driver
  BY DEF TypeOK, Shaped, Begins, Served, Refuses, Reads, Creates, Tells, Goes, Stores, Fails, Responds, Numbers, Notes,
         Works, Removes, Loses, Passes
<1>1. \A r \in Requests : req'[r].before \subseteq Ended'
  <2>1. \A r \in Begun : req'[r].before \subseteq Ended'
    BY Onward DEF Formed, Begun
  <2>2. ASSUME NEW r \in Requests \ Begun PROVE req'[r].before \subseteq Ended'
    <3>1. req'[r] = req[r] \/ req'[r].before = Ended
      BY <2>2 DEF Shaped, Begins, Served, Refuses, Reads, Creates, Tells, Goes, Stores, Fails, Responds, Numbers, Notes,
                  Works, OnlyOf, Removes, Loses, Passes, InFlight
    <3> QED
      BY <3>1, Onward, SMTT(30) DEF Formed
  <2> QED
    BY <2>1, <2>2
<1>2. (runner' = "none" <=> driver = "user") /\ (runner' = "start" => \A r \in Requests : At(r, "idle")')
  <2>1. CASE Passes
    BY <2>1 DEF Passes, Formed, At
  <2>2. CASE Removes
    BY <2>2 DEF Removes, Formed, At
  <2>3. CASE Loses
    BY <2>3 DEF Loses, Formed
  <2>4. ASSUME NEW r \in Requests, Begins(r)
        PROVE  (runner' = "none" <=> driver = "user") /\ (runner' = "start" => \A q \in Requests : At(q, "idle")')
    BY <1>0, <2>4 DEF Begins, Formed
  <2>5. ASSUME NEW r \in Requests, Served(r)
        PROVE  (runner' = "none" <=> driver = "user") /\ (runner' = "start" => \A q \in Requests : At(q, "idle")')
    <3>1. InFlight(r) /\ UNCHANGED runner
      BY <2>5 DEF Served, Refuses, Reads, Creates, Tells, Goes, Stores, Fails, Responds, Numbers, Notes, Works
    <3> QED
      BY <3>1 DEF InFlight, Begun, Formed
  <2> QED
    BY <2>1, <2>2, <2>3, <2>4, <2>5 DEF Shaped
<1>3. driver = "runner" => Kept' /\ \A r \in Requests : req'[r].kind = "chat" /\ req'[r].pc # "replied"
  <2> SUFFICES ASSUME driver = "runner"
      PROVE  Kept' /\ \A r \in Requests : req'[r].kind = "chat" /\ req'[r].pc # "replied"
    OBVIOUS
  <2>0. Kept /\ Replied = "answered" /\ \A r \in Requests : req[r].kind = "chat" /\ req[r].pc # "replied"
    BY SMTT(30) DEF Formed, Replied
  <2>1. UNCHANGED deleted
    BY DEF Shaped, Begins, Served, Refuses, Reads, Creates, Tells, Goes, Stores, Fails, Responds, Numbers, Notes,
           Works, Removes, Loses, Passes
  <2>2. ASSUME NEW r \in Requests, Served(r)
        PROVE  req'[r].pc # "replied" /\ req'[r].kind = "chat" /\ \A q \in Requests : q # r => req'[q] = req[q]
    BY <2>0, <2>2 DEF Served, Refuses, Reads, Creates, Tells, Goes, Stores, Fails, Responds, Numbers, Notes, Works,
                      OnlyOf, Told
  <2>3. ASSUME NEW r \in Requests, Begins(r)
        PROVE  req'[r].pc # "replied" /\ req'[r].kind = "chat" /\ \A q \in Requests : q # r => req'[q] = req[q]
    BY <2>3 DEF Begins, OnlyOf
  <2>4. ASSUME Removes \/ Loses \/ Passes, NEW r \in Requests
        PROVE  req'[r].kind = "chat" /\ req'[r].pc # "replied"
    <3>1. req'[r] = req[r] \/ (req'[r].pc = "lost" /\ req'[r].kind = req[r].kind)
      BY <2>4 DEF Removes, Loses, Passes
    <3> QED
      BY <2>0, <3>1
  <2>5. \A r \in Requests : req'[r].kind = "chat" /\ req'[r].pc # "replied"
    BY <2>0, <2>2, <2>3, <2>4 DEF Shaped
  <2> QED
    BY <2>0, <2>1, <2>5 DEF Kept
<1> DEFINE Fine(r) ==
        /\ req[r].pc = "idle" => req[r] = NotYet
        /\ req[r].pc \in OfChat => req[r].kind = "chat" /\ req[r].msg \in Messages
        /\ req[r].pc \in OfChip => req[r].kind = "chip"
        /\ HasRead(r) \/ req[r].pc \in {"missing", "created"} => ~Refused(r)
        /\ req[r].pc = "replaying" => req[r].replay
<1>4. \A r \in Requests : Fine(r)'
  <2>0. \A r \in Requests : Fine(r)
    BY DEF Formed
  <2>1. \A r \in Requests : req'[r] = req[r] => Fine(r)'
    BY <2>0 DEF HasRead, Refused
  <2>2. ASSUME NEW r \in Requests, Begins(r) PROVE Fine(r)'
    BY <2>2 DEF Begins, OfChat, OfChip, HasRead
  <2>3. ASSUME NEW r \in Requests, Served(r) PROVE Fine(r)'
    <3>1. Works(r) /\ Fine(r)
      BY <2>0, <2>3 DEF Served, Refuses, Reads, Creates, Tells, Goes, Stores, Fails, Responds, Numbers, Notes
    <3>2. Refused(r)' <=> Refused(r)
      BY <3>1 DEF Refused, Works
    <3> HIDE DEF Fine
    <3>3. CASE Reads(r) \/ Creates(r) \/ Tells(r) \/ Goes(r)
      BY <3>1, <3>2, <3>3 DEF Fine, Reads, Creates, Tells, Goes, Works, OfChat, OfChip, Told, HasRead, At
    <3>4. CASE Refuses(r) \/ Stores(r) \/ Fails(r) \/ Responds(r) \/ Numbers(r) \/ Notes(r)
      BY <3>1, <3>2, <3>4 DEF Fine, Refuses, Stores, Fails, Responds, Numbers, Notes, Works, OfChat, OfChip, HasRead, At,
                              Replied
    <3> QED
      BY <2>3, <3>3, <3>4 DEF Served
  <2>4. CASE Loses
    <3>1. ASSUME NEW r \in Requests, InFlight(r) PROVE Fine(r)'
      BY <2>4, <3>1 DEF Loses, OfChat, OfChip, HasRead
    <3> QED
      BY <2>1, <2>4, <3>1 DEF Loses
  <2>5. CASE Removes \/ Passes
    BY <2>1, <2>5 DEF Removes, Passes
  <2>6. \A r \in Requests : Begins(r) \/ Served(r) => \A q \in Requests : q # r => req'[q] = req[q]
    BY DEF Begins, Served, Refuses, Reads, Creates, Tells, Goes, Stores, Fails, Responds, Numbers, Notes, Works, OnlyOf
  <2> HIDE DEF Fine
  <2> QED
    BY <2>1, <2>2, <2>3, <2>4, <2>5, <2>6 DEF Shaped
<1> QED
  BY <1>0, <1>1, <1>2, <1>3, <1>4 DEF Formed

-----------------------------------------------------------------------------
(* The parts of the invariant, each against the shapes of a step.           *)

LEMMA GrowOrGo ==
    ASSUME Shaped, TypeOK
    PROVE  \/ UNCHANGED turns
           \/ Removes
           \/ \E r \in Requests : Tells(r) /\ Writes(r, "customer", {})
           \/ \E r \in Requests : Stores(r) /\ req'[r].acts \in SUBSET Actions /\ Writes(r, "bot", req'[r].acts)
           \/ \E r \in Requests : Notes(r) /\ Writes(r, "bot", {})
BY ServeGrows DEF Shaped, Begins, Loses, Passes, session

(* What may happen to a request.                                            *)
Lost(q) ==
    /\ InFlight(q) /\ req'[q].pc = "lost" /\ req'[q].kind = req[q].kind /\ req'[q].msg = req[q].msg
    /\ req'[q].before = req[q].before /\ req'[q].replay = req[q].replay
    /\ UNCHANGED <<turns, deleted>>

LEMMA Fate ==
    ASSUME Shaped, NEW q \in Requests
    PROVE  req'[q] = req[q] \/ (Works(q) /\ Served(q)) \/ Lost(q) \/ Begins(q)
<1>1. \A r \in Requests : Served(r) => Works(r)
  BY DEF Served, Refuses, Reads, Creates, Tells, Goes, Stores, Fails, Responds, Numbers, Notes
<1>2. \A r \in Requests : Begins(r) \/ Works(r) => r = q \/ req'[q] = req[q]
  BY DEF Begins, Works, OnlyOf
<1>3. Removes \/ Loses \/ Passes => req'[q] = req[q] \/ Lost(q)
  BY DEF Removes, Loses, Passes, Lost, session
<1> QED
  BY <1>1, <1>2, <1>3 DEF Shaped

LEMMA HighestStep == ASSUME TypeOK, Highest, Shaped PROVE Highest'
<1>0. \A i \in DOMAIN turns : turns[i].no \in Nat
  BY TurnOf
<1>1. CASE UNCHANGED turns
  BY <1>1 DEF Highest, Bots
<1>2. CASE Removes
  BY <1>2 DEF Removes, Highest, Bots
<1>3. ASSUME NEW r \in Requests, NEW role \in {"customer", "bot"}, NEW acts \in SUBSET Actions, Writes(r, role, acts)
      PROVE  Highest'
  <2>0. /\ DOMAIN turns' = DOMAIN turns \cup {NewTurn}
        /\ NewTurn \in Nat /\ NewTurn \notin DOMAIN turns
        /\ \A i \in DOMAIN turns : turns'[i] = turns[i] /\ i < NewTurn /\ i \in Nat
        /\ turns'[NewTurn].no = req[r].no
        /\ Bots' = IF role = "bot" THEN Bots \cup {NewTurn} ELSE Bots
    <3>1. Added(r, role, acts)
      BY <1>3, Appended
    <3> QED
      BY <3>1 DEF Added
  <2>1. req[r].no \in Nat
    BY DEF TypeOK, Request
  <2>2. \E i \in DOMAIN turns' : \A j \in DOMAIN turns' : turns'[j].no <= turns'[i].no
    <3>1. CASE turns = <<>>
      BY <2>0, <2>1, <3>1
    <3>2. ASSUME NEW i \in DOMAIN turns, \A j \in DOMAIN turns : turns[j].no <= turns[i].no
          PROVE  \E k \in DOMAIN turns' : \A j \in DOMAIN turns' : turns'[j].no <= turns'[k].no
      <4>1. CASE turns[i].no <= req[r].no
        <5>1. \A j \in DOMAIN turns' : turns'[j].no <= turns'[NewTurn].no
          BY <1>0, <2>0, <2>1, <3>2, <4>1
        <5> QED
          BY <2>0, <5>1
      <4>2. CASE ~(turns[i].no <= req[r].no)
        <5>1. \A j \in DOMAIN turns' : turns'[j].no <= turns'[i].no
          BY <1>0, <2>0, <2>1, <3>2, <4>2
        <5> QED
          BY <2>0, <5>1
      <4> QED
        BY <4>1, <4>2
    <3> QED
      BY <3>1, <3>2 DEF Highest
  <2>3. Bots' = {} \/ \E i \in Bots' : \A j \in Bots' : j <= i
    <3>1. CASE role = "bot"
      <4>1. \A j \in Bots' : j <= NewTurn
        BY <2>0, <3>1 DEF Bots
      <4> QED
        BY <2>0, <3>1, <4>1
    <3>2. CASE role # "bot"
      BY <2>0, <3>2 DEF Highest
    <3> QED
      BY <3>1, <3>2
  <2> QED
    BY <2>2, <2>3 DEF Highest
<1> QED
  BY <1>1, <1>2, <1>3, GrowOrGo

(* What a step does to a request that has stored a turn.                    *)
LEMMA StoredStep == ASSUME TypeOK, Formed, Stored, Shaped PROVE Stored'
<1>0. \A i \in DOMAIN turns : turns[i].role \in {"customer", "bot"} /\ turns[i].req \in Requests
  BY TurnOf
<1> DEFINE Past == Told \cup {"replied"} \cup Ends
           Stands(q, role) == req[q].pc \in Past /\ (role = "bot" => req[q].pc \notin Told)
<1>1. ASSUME NEW q \in Requests, NEW role \in {"customer", "bot"}, Stands(q, role)
      PROVE  Stands(q, role)'
  <2>1. CASE req'[q] = req[q]
    BY <1>1, <2>1
  <2>2. CASE Works(q) /\ Served(q)
    <3>1. CASE Goes(q) \/ Tells(q) \/ Creates(q) \/ Reads(q) \/ Numbers(q) \/ Refuses(q)
      BY <1>1, <3>1 DEF Goes, Tells, Creates, Reads, Numbers, Refuses, Told, Ends, At
    <3>2. CASE Stores(q) \/ Fails(q) \/ Responds(q) \/ Notes(q)
      BY <1>1, <3>2 DEF Stores, Fails, Responds, Notes, Told, Ends, At, Replied
    <3> QED
      BY <2>2, <3>1, <3>2 DEF Served
  <2>3. CASE req'[q].pc = "lost"
    BY <1>1, <2>3 DEF Told, Ends
  <2>4. ~Begins(q)
    BY <1>1 DEF Begins, Told, Ends, At
  <2>5. req'[q] = req[q] \/ (Works(q) /\ Served(q)) \/ req'[q].pc = "lost" \/ Begins(q)
    BY Fate DEF Lost
  <2> QED
    BY <2>1, <2>2, <2>3, <2>4, <2>5
<1> DEFINE Good(i) == Stands(turns[i].req, turns[i].role) /\ (turns[i].role = "customer" => turns[i].acts = {})
<1>2. \A i \in DOMAIN turns : Good(i)
  BY DEF Stored
<1>3. Stored' <=> /\ \A i \in DOMAIN turns' : Good(i)'
                  /\ \A i, j \in Bots' : turns'[i].req = turns'[j].req => i = j
  BY DEF Stored
<1>4. ASSUME NEW i \in DOMAIN turns, i \in DOMAIN turns', turns'[i] = turns[i] PROVE Good(i)'
  <2>1. turns[i].role \in {"customer", "bot"}
    BY <1>0
  <2> HIDE DEF Stands
  <2> QED
    BY <1>0, <1>1, <1>2, <1>4, <2>1
<1>5. CASE UNCHANGED turns
  BY <1>3, <1>4, <1>5 DEF Stored, Bots
<1>6. CASE Removes
  BY <1>3, <1>6 DEF Removes, Bots
<1>7. ASSUME NEW r \in Requests, NEW role \in {"customer", "bot"}, NEW acts \in SUBSET Actions, Writes(r, role, acts),
             Stands(r, role)', role = "customer" => acts = {},
             \A i \in Bots : turns[i].req # r
      PROVE  Stored'
  <2>0. /\ DOMAIN turns' = DOMAIN turns \cup {NewTurn}
        /\ NewTurn \notin DOMAIN turns
        /\ \A i \in DOMAIN turns : turns'[i] = turns[i]
        /\ turns'[NewTurn].req = r /\ turns'[NewTurn].role = role /\ turns'[NewTurn].acts = acts
        /\ Bots' = IF role = "bot" THEN Bots \cup {NewTurn} ELSE Bots
    <3>1. Added(r, role, acts)
      BY <1>7, Appended
    <3> QED
      BY <3>1 DEF Added
  <2> PICK n : n = NewTurn
    OBVIOUS
  <2>1. Good(n)'
    BY <1>7, <2>0
  <2>2. \A i \in DOMAIN turns' : Good(i)'
    <3> HIDE DEF Good
    <3> QED
      BY <1>4, <2>0, <2>1
  <2>3. \A i, j \in Bots' : turns'[i].req = turns'[j].req => i = j
    <3>1. \A i \in Bots : turns'[i] = turns[i]
      BY <2>0 DEF Bots
    <3> QED
      BY <1>7, <2>0, <3>1 DEF Stored
  <2> HIDE DEF Good
  <2> QED
    BY <1>3, <2>2, <2>3
<1>8. ASSUME NEW r \in Requests, req[r].pc \in Told \cup {"loaded", "numbered"} PROVE \A i \in Bots : turns[i].req # r
  BY <1>8 DEF Stored, Bots, Told, Ends
<1>9. ASSUME NEW r \in Requests, Tells(r), Writes(r, "customer", {}) PROVE Stored'
  <2>1. Stands(r, "customer")' /\ req[r].pc = "loaded"
    BY <1>9 DEF Tells, Told, At
  <2> QED
    BY <1>7, <1>8, <1>9, <2>1
<1>10. ASSUME NEW r \in Requests, Stores(r), NEW acts \in SUBSET Actions, Writes(r, "bot", acts) PROVE Stored'
  <2>1. Stands(r, "bot")' /\ req[r].pc \in Told
    BY <1>10 DEF Stores, Told, Replied, Ends
  <2> QED
    BY <1>7, <1>8, <1>10, <2>1
<1>11. ASSUME NEW r \in Requests, Notes(r), Writes(r, "bot", {}) PROVE Stored'
  <2>1. Stands(r, "bot")' /\ req[r].pc = "numbered"
    BY <1>11 DEF Notes, Told, Ends, At
  <2> QED
    BY <1>7, <1>8, <1>11, <2>1
<1> QED
  BY <1>5, <1>6, <1>9, <1>10, <1>11, GrowOrGo

(* As long as nothing was deleted, what is stored stays.                    *)
LEMMA StoredStays ==
    ASSUME TypeOK, Shaped, Kept'
    PROVE  Kept /\ \A i \in DOMAIN turns : i \in DOMAIN turns' /\ turns'[i] = turns[i]
<1> USE SessionTurnsAssumption
<1>1. ~Removes
  <2>1. 0 \notin Begun
    BY SMTT(30) DEF Begun, Requests
  <2> QED
    BY <2>1 DEF Removes, Kept, NotDeleted
<1>2. UNCHANGED deleted
  BY <1>1 DEF Shaped, Begins, Served, Refuses, Reads, Creates, Tells, Goes, Stores, Fails, Responds, Numbers, Notes,
              Works, Loses, Passes
<1>3. UNCHANGED turns \/ \E r \in Requests, role \in {"customer", "bot"}, acts \in SUBSET Actions : Added(r, role, acts)
  BY <1>1, GrowOrGo, Appended
<1>4. \A i \in DOMAIN turns : i \in DOMAIN turns' /\ turns'[i] = turns[i]
  BY <1>3 DEF Added
<1> QED
  BY <1>2, <1>4 DEF Kept

LEMMA TranscriptStep == ASSUME TypeOK, Transcript, Shaped PROVE Transcript'
<1> DEFINE Has(r) == \E i \in DOMAIN turns : turns[i] = TurnRow(r, "customer", {})
<1> SUFFICES ASSUME Kept', NEW r \in Requests, req'[r].pc \in Told PROVE Has(r)'
  BY DEF Transcript
<1>0. Kept /\ \A i \in DOMAIN turns : i \in DOMAIN turns' /\ turns'[i] = turns[i]
  BY StoredStays
<1>1. ASSUME req[r].pc \in Told, req'[r].no = req[r].no PROVE Has(r)'
  <2>1. PICK i \in DOMAIN turns : turns[i] = TurnRow(r, "customer", {})
    BY <1>0, <1>1 DEF Transcript
  <2>2. TurnRow(r, "customer", {})' = TurnRow(r, "customer", {})
    BY <1>1 DEF TurnRow
  <2> QED
    BY <1>0, <2>1, <2>2
<1>2. CASE Tells(r)
  <2>1. Writes(r, "customer", {}) /\ req'[r].no = req[r].no
    BY <1>2 DEF Tells, Writes
  <2>2. TurnRow(r, "customer", {})' = TurnRow(r, "customer", {})
    BY <2>1 DEF TurnRow
  <2>3. Added(r, "customer", {})
    BY <2>1, Appended
  <2>4. turns'[NewTurn] = TurnRow(r, "customer", {})
    BY <2>1 DEF Writes, TypeOK, NewTurn
  <2> QED
    BY <2>2, <2>3, <2>4 DEF Added
<1>3. CASE Goes(r)
  BY <1>1, <1>3 DEF Goes
<1>4. CASE req'[r] = req[r]
  BY <1>1, <1>4
<1>5. ~Lost(r) /\ ~Begins(r) /\ ~Refuses(r) /\ ~Reads(r) /\ ~Creates(r) /\ ~Stores(r) /\ ~Fails(r) /\ ~Responds(r)
      /\ ~Numbers(r) /\ ~Notes(r)
  BY DEF Lost, Begins, Refuses, Reads, Creates, Stores, Fails, Responds, Numbers, Notes, Told, Replied
<1> QED
  BY <1>2, <1>3, <1>4, <1>5, Fate DEF Served

LEMMA AnsweredStep ==
    ASSUME TypeOK, Formed, Transcript, AnsweredIsStored, Shaped PROVE AnsweredIsStored'
<1> DEFINE Has(r) == \E i, j \in DOMAIN turns :
                        i < j /\ turns[i] = TurnRow(r, "customer", {}) /\ turns[j] = TurnRow(r, "bot", req[r].acts)
<1> SUFFICES ASSUME NEW r \in Requests, Chatted(r)', ~Refused(r)', Kept' PROVE Has(r)'
  BY DEF AnsweredIsStored
<1>0. Kept /\ \A i \in DOMAIN turns : i \in DOMAIN turns' /\ turns'[i] = turns[i]
  BY StoredStays
<1>1. ASSUME Chatted(r), ~Refused(r), req'[r].no = req[r].no, req'[r].acts = req[r].acts PROVE Has(r)'
  <2>1. PICK i \in DOMAIN turns, j \in DOMAIN turns :
          i < j /\ turns[i] = TurnRow(r, "customer", {}) /\ turns[j] = TurnRow(r, "bot", req[r].acts)
    BY <1>0, <1>1 DEF AnsweredIsStored
  <2>2. TurnRow(r, "customer", {})' = TurnRow(r, "customer", {})
        /\ TurnRow(r, "bot", req[r].acts)' = TurnRow(r, "bot", req[r].acts)
    BY <1>1 DEF TurnRow
  <2> QED
    BY <1>0, <2>1, <2>2
<1>2. CASE Stores(r)
  <2>1. req[r].pc \in Told /\ req'[r].no = req[r].no /\ turns' = Append(turns, TurnRow(r, "bot", req'[r].acts))
    BY <1>2 DEF Stores, Told
  <2>2. PICK i \in DOMAIN turns : turns[i] = TurnRow(r, "customer", {})
    BY <1>0, <2>1 DEF Transcript
  <2>3. TurnRow(r, "customer", {})' = TurnRow(r, "customer", {})
        /\ TurnRow(r, "bot", req[r].acts)' = TurnRow(r, "bot", req'[r].acts)
    BY <2>1 DEF TurnRow
  <2>4. NewTurn \in DOMAIN turns' /\ turns'[NewTurn] = TurnRow(r, "bot", req'[r].acts) /\ i < NewTurn
    BY <2>1 DEF TypeOK, NewTurn
  <2> QED
    BY <1>0, <2>2, <2>3, <2>4
<1>3. CASE Responds(r)
  <2>1. Chatted(r) /\ ~Refused(r)
    BY <1>3 DEF Responds, Works, Chatted, Refused, At
  <2> QED
    BY <1>1, <1>3, <2>1 DEF Responds
<1>4. CASE req'[r] = req[r]
  BY <1>1, <1>4 DEF Chatted, Refused
<1>5. ~Notes(r)
  BY DEF Notes, Works, Formed, OfChip, At, Chatted
<1>6. ~Refuses(r)
  BY DEF Refuses, Works, Refused
<1>7. ~Lost(r) /\ ~Begins(r) /\ ~Reads(r) /\ ~Creates(r) /\ ~Tells(r) /\ ~Goes(r) /\ ~Fails(r) /\ ~Numbers(r)
  BY DEF Lost, Begins, Reads, Creates, Tells, Goes, Fails, Numbers, Told, Chatted
<1> QED
  BY <1>2, <1>3, <1>4, <1>5, <1>6, <1>7, Fate DEF Served

(* A request that works has not ended, so no other came after it.           *)
LEMMA NotBefore ==
    ASSUME Formed, NEW r \in Requests, InFlight(r), NEW q \in Requests PROVE r \notin req[q].before
BY DEF Formed, InFlight

LEMMA ReadStep ==
    ASSUME TypeOK, Formed, Highest, Read, Shaped PROVE Read'
<1> DEFINE Seen(r) == \A i \in Bots : turns[i].req \in req[r].before => turns[i].acts \subseteq req[r].prior
<1>1. ASSUME NEW r \in Requests, r \in Begun, Seen(r), req'[r].prior = req[r].prior PROVE Seen(r)'
  <2>0. req'[r].before = req[r].before
    BY <1>1, Onward
  <2>1. CASE UNCHANGED turns
    BY <1>1, <2>0, <2>1 DEF Bots
  <2>2. CASE Removes
    BY <2>2 DEF Removes, Bots
  <2>3. ASSUME NEW q \in Requests, InFlight(q), NEW role \in {"customer", "bot"}, NEW acts \in SUBSET Actions,
               Writes(q, role, acts)
        PROVE  Seen(r)'
    <3>1. Added(q, role, acts) /\ q \notin req[r].before
      BY <2>3, Appended, NotBefore
    <3>2. \A i \in Bots' : (i \in Bots /\ turns'[i] = turns[i]) \/ turns'[i].req = q
      BY <3>1 DEF Added, Bots
    <3> QED
      BY <1>1, <2>0, <3>1, <3>2
  <2> QED
    BY <2>1, <2>2, <2>3, GrowOrGo DEF Tells, Stores, Notes, Works
<1> SUFFICES ASSUME NEW r \in Requests
    PROVE  (HasRead(r)' => Seen(r)') /\ (req'[r].pc = "decided" => MayDecide(r, req[r].acts)')
  BY DEF Read
<1>2. HasRead(r) => r \in Begun /\ Seen(r)
  BY DEF HasRead, Begun, At, Read
<1>3. CASE req'[r] = req[r]
  <2>1. HasRead(r)' => Seen(r)'
    <3> HIDE DEF Seen
    <3> QED
      BY <1>1, <1>2, <1>3 DEF HasRead
  <2> QED
    BY <1>3, <2>1 DEF Read, MayDecide
<1>4. CASE Reads(r)
  <2>1. \A i \in Bots : turns[i].acts \subseteq ActedBefore
    BY ReadsTranscript
  <2>2. Bots' = Bots /\ turns' = turns
    BY <1>4 DEF Reads, Bots
  <2> QED
    BY <1>4, <2>1, <2>2 DEF Reads
<1>5. CASE Tells(r) \/ Goes(r)
  <2>1. HasRead(r) /\ req'[r].prior = req[r].prior
    BY <1>5 DEF Tells, Goes, Told, HasRead, At
  <2>2. Seen(r)'
    <3> HIDE DEF Seen
    <3> QED
      BY <1>1, <1>2, <2>1
  <2>3. req'[r].pc = "decided" => req'[r].acts \cap Money \cap req'[r].prior = {}
    BY <1>5, <2>1 DEF Tells, Goes
  <2> QED
    BY <2>2, <2>3 DEF MayDecide
<1>6. CASE Lost(r) \/ Begins(r) \/ Refuses(r) \/ Creates(r) \/ Stores(r) \/ Fails(r) \/ Responds(r) \/ Numbers(r) \/ Notes(r)
  BY <1>6 DEF Lost, Begins, Refuses, Creates, Stores, Fails, Responds, Numbers, Notes, HasRead, Replied
<1> QED
  BY <1>3, <1>4, <1>5, <1>6, Fate DEF Served

(* Two requests overlap after the step.                                     *)
Rivals(q, r) == q # r /\ q \in Begun' /\ r \in Begun' /\ q \notin req'[r].before /\ r \notin req'[q].before

LEMMA RefundStep ==
    ASSUME TypeOK, Formed, Stored, Read, RefundTwiceOnlyTogether, Shaped PROVE RefundTwiceOnlyTogether'
<1> USE SessionTurnsAssumption
<1>1. \A q, r \in Requests : Overlap(q, r) => Rivals(q, r) /\ Rivals(r, q)
  BY Onward DEF Overlap, Rivals
<1>2. ASSUME NEW i \in DOMAIN turns PROVE req'[turns[i].req].replay = req[turns[i].req].replay
  <2> PICK q \in Requests : q = turns[i].req
    BY TurnOf
  <2>1. req[q].pc \in Told \cup {"replied"} \cup Ends
    BY DEF Stored
  <2>2. ~Begins(q) /\ ~Refuses(q) /\ ~Reads(q) /\ ~Creates(q) /\ ~Tells(q) /\ ~Numbers(q)
    BY <2>1 DEF Begins, Refuses, Reads, Creates, Tells, Numbers, Told, Ends, At
  <2> QED
    BY <2>2, Fate DEF Served, Goes, Stores, Fails, Responds, Notes, Lost
<1>3. ASSUME NEW i \in DOMAIN turns, NEW j \in DOMAIN turns, i # j, turns[i].acts \cap turns[j].acts \cap Money # {}
      PROVE  \A q, r \in Requests : q = turns[i].req /\ r = turns[j].req =>
                 req'[q].replay \/ req'[r].replay \/ Rivals(q, r)
  <2> SUFFICES ASSUME NEW q \in Requests, NEW r \in Requests, q = turns[i].req, r = turns[j].req
               PROVE  req'[q].replay \/ req'[r].replay \/ Rivals(q, r)
    OBVIOUS
  <2>1. req[q].replay \/ req[r].replay \/ Overlap(q, r)
    BY <1>3 DEF RefundTwiceOnlyTogether
  <2>2. req'[q].replay \/ req'[r].replay \/ Rivals(q, r)
    BY <1>1, <1>2, <2>1
  <2> QED
    BY <2>2
<1>4. CASE UNCHANGED turns
  <2> SUFFICES ASSUME NEW i \in DOMAIN turns, NEW j \in DOMAIN turns, i # j, turns[i].acts \cap turns[j].acts \cap Money # {}
               PROVE  req'[turns[i].req].replay \/ req'[turns[j].req].replay \/ Rivals(turns[i].req, turns[j].req)
    BY <1>4 DEF RefundTwiceOnlyTogether, Overlap, Rivals
  <2> PICK q \in Requests, r \in Requests : q = turns[i].req /\ r = turns[j].req
    BY TurnOf
  <2>1. req'[q].replay \/ req'[r].replay \/ Rivals(q, r)
    BY <1>3
  <2> QED
    BY <2>1 DEF Rivals
<1>5. CASE Removes
  BY <1>5 DEF Removes, RefundTwiceOnlyTogether
<1>6. ASSUME NEW r \in Requests, NEW role \in {"customer", "bot"}, NEW acts \in SUBSET Actions, Writes(r, role, acts),
             \A j \in DOMAIN turns : acts \cap turns[j].acts \cap Money # {} =>
                 \E q \in Requests : q = turns[j].req /\ (req'[r].replay \/ Rivals(q, r))
      PROVE  RefundTwiceOnlyTogether'
  <2>1. Added(r, role, acts)
    BY <1>6, Appended
  <2> PICK n : n = NewTurn
    OBVIOUS
  <2>2. /\ DOMAIN turns' = DOMAIN turns \cup {n} /\ turns'[n].req = r /\ turns'[n].acts = acts
        /\ \A i \in DOMAIN turns : turns'[i] = turns[i]
    BY <2>1 DEF Added
  <2>3. \A q \in Requests : Rivals(q, r) => Rivals(r, q)
    BY DEF Rivals
  <2> SUFFICES ASSUME NEW i \in DOMAIN turns', NEW j \in DOMAIN turns', i # j,
                      turns'[i].acts \cap turns'[j].acts \cap Money # {}
               PROVE  req'[turns'[i].req].replay \/ req'[turns'[j].req].replay \/ Rivals(turns'[i].req, turns'[j].req)
    BY DEF RefundTwiceOnlyTogether, Overlap, Rivals
  <2>4. CASE i \in DOMAIN turns /\ j \in DOMAIN turns
    <3>1. PICK q \in Requests, t \in Requests : q = turns[i].req /\ t = turns[j].req
      BY <2>4, TurnOf
    <3>2. turns[i].acts \cap turns[j].acts \cap Money # {}
      BY <2>2, <2>4
    <3>3. req'[q].replay \/ req'[t].replay \/ Rivals(q, t)
      BY <1>3, <2>4, <3>1, <3>2
    <3> QED
      BY <2>2, <2>4, <3>1, <3>3 DEF Rivals
  <2>5. CASE i = n /\ j \in DOMAIN turns
    <3>1. PICK q \in Requests : q = turns[j].req /\ (req'[r].replay \/ Rivals(q, r))
      BY <1>6, <2>2, <2>5
    <3> QED
      BY <2>2, <2>3, <2>5, <3>1
  <2>6. CASE j = n /\ i \in DOMAIN turns
    <3>1. PICK q \in Requests : q = turns[i].req /\ (req'[r].replay \/ Rivals(q, r))
      BY <1>6, <2>2, <2>6
    <3> QED
      BY <2>2, <2>6, <3>1
  <2> QED
    BY <2>2, <2>4, <2>5, <2>6
<1>7. ASSUME NEW r \in Requests, Tells(r), Writes(r, "customer", {}) PROVE RefundTwiceOnlyTogether'
  BY <1>6, <1>7
<1>8. ASSUME NEW r \in Requests, Notes(r), Writes(r, "bot", {}) PROVE RefundTwiceOnlyTogether'
  BY <1>6, <1>8
<1>9. ASSUME NEW r \in Requests, Stores(r), NEW acts \in SUBSET Actions, acts = req'[r].acts, Writes(r, "bot", acts)
      PROVE  RefundTwiceOnlyTogether'
  <2>1. ASSUME NEW j \in DOMAIN turns, acts \cap turns[j].acts \cap Money # {}
        PROVE  \E q \in Requests : q = turns[j].req /\ (req'[r].replay \/ Rivals(q, r))
    <3> PICK q \in Requests : q = turns[j].req /\ turns[j].role \in {"customer", "bot"}
      BY TurnOf
    <3>1. CASE At(r, "replaying")
      BY <1>9, <3>1 DEF Stores, Formed, At
    <3>2. CASE At(r, "decided") /\ acts = req[r].acts
      <4>1. acts \cap Money \cap req[r].prior = {} /\ HasRead(r)
        BY <3>2 DEF Read, MayDecide, HasRead, At
      <4>2. j \in Bots /\ q # r /\ q \in Begun
        BY <2>1, <3>2 DEF Stored, Bots, Told, At, Begun, Ends
      <4>3. q \notin req[r].before
        BY <2>1, <4>1, <4>2 DEF Read
      <4>4. r \notin req[q].before /\ r \in Begun
        BY <1>9, NotBefore DEF Stores, Works, InFlight
      <4>5. Overlap(q, r)
        BY <4>2, <4>3, <4>4 DEF Overlap
      <4> QED
        BY <1>1, <4>5
    <3>3. acts # {HandOver}
      BY <2>1
    <3> QED
      BY <1>9, <3>1, <3>2, <3>3 DEF Stores, At
  <2> QED
    BY <1>6, <1>9, <2>1
<1> QED
  BY <1>4, <1>5, <1>7, <1>8, <1>9, GrowOrGo

LEMMA GoneStep ==
    ASSUME TypeOK, Formed, Gone, DeletedIsGone, Shaped, Owned' => Owned PROVE Gone' /\ DeletedIsGone'
<1>1. CASE Removes
  <2>1. driver' = "user" /\ deleted' = Begun /\ Begun' = Begun /\ ~Owned' /\ DOMAIN turns' = {}
    BY <1>1 DEF Removes, Begun, At, Owned, NoRow
  <2>2. \A r \in Requests : InFlight(r)' => r \in Begun
    BY <1>1 DEF Removes, InFlight, Begun, Ended, At
  <2> QED
    BY <2>1, <2>2 DEF Gone, DeletedIsGone
<1>2. CASE ~Removes
  <2>0. UNCHANGED <<driver, deleted>>
    BY <1>2 DEF Shaped, Begins, Served, Refuses, Reads, Creates, Tells, Goes, Stores, Fails, Responds, Numbers, Notes,
                Works, Loses, Passes
  <2> SUFFICES ASSUME ~Kept
               PROVE  /\ \A r \in Requests : InFlight(r)' => r \in deleted
                      /\ \A i \in DOMAIN turns' : turns'[i].req \in deleted
                      /\ \A r \in Begun' \ deleted : At(r, "unknown")'
    BY <2>0 DEF Gone, DeletedIsGone, Kept
  <2>1. driver = "user" /\ ~Owned
    BY DEF Gone, DeletedIsGone
  <2>2. ASSUME NEW r \in Requests PROVE (InFlight(r)' => r \in deleted) /\ (r \in Begun' \ deleted => At(r, "unknown")')
    <3>1. CASE Begins(r)
      BY <2>1, <3>1 DEF Begins, InFlight, Ended, Ends, At
    <3>2. CASE InFlight(r)
      BY <3>2 DEF Gone
    <3>3. CASE req'[r] = req[r]
      BY <3>3 DEF Gone, DeletedIsGone, InFlight, Begun, Ended, At
    <3> QED
      BY <3>1, <3>2, <3>3, Fate DEF Works, Lost
  <2>3. \A i \in DOMAIN turns' : turns'[i].req \in deleted
    <3>1. CASE UNCHANGED turns
      BY <3>1 DEF DeletedIsGone
    <3>2. ASSUME NEW r \in Requests, InFlight(r), NEW role \in {"customer", "bot"}, NEW acts \in SUBSET Actions,
                 Writes(r, role, acts)
          PROVE  \A i \in DOMAIN turns' : turns'[i].req \in deleted
      <4>1. Added(r, role, acts) /\ r \in deleted
        BY <3>2, Appended DEF Gone
      <4> QED
        BY <4>1 DEF Added, DeletedIsGone
    <3> QED
      BY <1>2, <3>1, <3>2, GrowOrGo DEF Tells, Stores, Notes, Works
  <2> QED
    BY <2>2, <2>3, SMTT(30) DEF Begun
<1> QED
  BY <1>1, <1>2

-----------------------------------------------------------------------------
(* The first layer of the invariant.                                        *)

LEMMA SafeInit == ASSUME Init PROVE SafeInv
<1> USE SessionTurnsAssumption
<1>1. NotYet \in Request /\ NotYet.before = {} /\ NotYet.pc = "idle" /\ NotYet.kind = "chat"
  BY DEF NotYet, Request, Steps
<1>2. \A r \in Requests : req[r] = NotYet
  BY DEF Init
<1>3. row \in Row
  <2>1. NoRow \in Row /\ \A b \in BOOLEAN : [Ownerless EXCEPT !.owned = TRUE, !.titled = b] \in Row
    BY DEF NoRow, Row, Ownerless
  <2> QED
    BY <2>1 DEF Init
<1>4. TypeOK
  <2>1. turns \in Seq(Turn) /\ sent \in Seq(Requests)
    <3>1. turns = <<>> /\ sent = <<>>
      BY DEF Init
    <3>2. <<>> \in Seq(Turn) /\ <<>> \in Seq(Requests)
      OBVIOUS
    <3> QED
      BY <3>1, <3>2
  <2>2. NoEntry \in [reply : BOOLEAN, acts : SUBSET Actions]
    BY DEF NoEntry
  <2>3. cache \in [Messages -> [reply : BOOLEAN, acts : SUBSET Actions]]
    BY <2>2 DEF Init
  <2>4. runner \in {"start", "none"} /\ executions = {} /\ driver \in Drivers /\ deleted = NotDeleted /\ crashes = 0
    BY DEF Init
  <2>5. req \in [Requests -> Request]
    BY <1>1 DEF Init
  <2>6. crashes \in 0..MaxCrashes
    BY <2>4
  <2>7. executions \subseteq [req : Requests, no : Nat, linked : BOOLEAN] /\ deleted \in (SUBSET Requests) \cup {NotDeleted}
    BY <2>4, Zenon
  <2>8. runner \in RunnerOver \cup {"start", "playing", "closing"}
    BY <2>4 DEF RunnerOver
  <2> QED
    BY <1>3, <2>1, <2>3, <2>4, <2>5, <2>6, <2>7, <2>8 DEF TypeOK
<1>5. DOMAIN turns = {} /\ turns = <<>> /\ Kept
  <2>1. turns = <<>> /\ deleted = NotDeleted
    BY DEF Init
  <2> QED
    BY <2>1 DEF Kept
<1>6. Formed
  BY <1>1, <1>2, <1>5 DEF Init, Formed, OfChat, OfChip, HasRead, At
<1>7. Highest /\ Stored
  BY <1>5 DEF Highest, Stored, Bots
<1>8. Transcript /\ AnsweredIsStored /\ Read /\ RefundTwiceOnlyTogether
  BY <1>1, <1>2, <1>5 DEF Transcript, AnsweredIsStored, Chatted, Read, HasRead, RefundTwiceOnlyTogether, Bots, Told
<1>9. Gone /\ DeletedIsGone
  BY <1>5 DEF Gone, DeletedIsGone
<1> QED
  BY <1>4, <1>6, <1>7, <1>8, <1>9 DEF Base, SafeInv

LEMMA SafeStep == ASSUME SafeInv, [Next]_vars PROVE SafeInv' /\ Shaped
<1>0. /\ TypeOK /\ Formed /\ Highest /\ Stored /\ Transcript /\ AnsweredIsStored /\ Read
      /\ RefundTwiceOnlyTogether /\ Gone /\ DeletedIsGone
  BY DEF SafeInv, Base
<1>1. Shaped /\ TypeOK' /\ (Owned' => Owned)
  BY <1>0, StepShape, TypeStep, RowStep
<1>2. Formed' /\ Highest' /\ Stored'
  BY <1>0, <1>1, FormedStep, HighestStep, StoredStep
<1>3. Transcript' /\ AnsweredIsStored' /\ Read' /\ RefundTwiceOnlyTogether'
  BY <1>0, <1>1, TranscriptStep, AnsweredStep, ReadStep, RefundStep
<1>4. Gone' /\ DeletedIsGone'
  BY <1>0, <1>1, GoneStep
<1> QED
  BY <1>1, <1>2, <1>3, <1>4 DEF SafeInv, Base

(* Every reachable state satisfies the first layer: rows, transcript and    *)
(* requests agree whatever overlaps, fails, crashes or is deleted.          *)
THEOREM Safe == Spec => []SafeInv
<1>1. Init => SafeInv
  BY SafeInit
<1>2. SafeInv /\ [Next]_vars => SafeInv'
  BY SafeStep
<1> QED
  BY <1>1, <1>2, PTL DEF Spec

(* What a customer was told is in the transcript, the message and its reply *)
(* after it, however requests overlap, fail or are lost in a restart.       *)
THEOREM AnsweredIsStoredHolds == Spec => []AnsweredIsStored
<1>1. SafeInv => AnsweredIsStored
  BY DEF SafeInv
<1> QED
  BY <1>1, Safe, PTL

(* Money goes out in two turns only if one repeats a remembered reply or    *)
(* the two requests overlapped.                                             *)
THEOREM RefundTwiceOnlyTogetherHolds == Spec => []RefundTwiceOnlyTogether
<1>1. SafeInv => RefundTwiceOnlyTogether
  BY DEF SafeInv
<1> QED
  BY <1>1, Safe, PTL

(* A deleted session has no owner again, and no request that came after the *)
(* deletion finds or writes anything.                                       *)
THEOREM DeletedIsGoneHolds == Spec => []DeletedIsGone
<1>1. SafeInv => DeletedIsGone
  BY DEF SafeInv
<1> QED
  BY <1>1, Safe, PTL

-----------------------------------------------------------------------------
(* The second layer: numbers and their order.                               *)

(* Who stores next has at most the number after the highest.                *)
Numbered ==
    Kept => \A r \in Requests : HasRead(r) \/ req[r].pc = "numbered" => req[r].no \in 1..NextNo

(* Alone at work, a request has the number after the last one, or its own   *)
(* turn is the last.                                                        *)
Alone(r) == \A q \in Requests : ~Overlap(q, r)
InOrder ==
    Kept => \A r \in Requests : Alone(r) =>
        /\ req[r].pc \in {"loaded", "numbered"} => req[r].no = NextNo
        /\ req[r].pc \in Told => /\ req[r].no = LastNo
                                 /\ \A i \in DOMAIN turns : turns[i].no = LastNo => turns[i].role = "customer"
        /\ req[r].pc = "replied" /\ ~Refused(r) =>
             \E i \in Bots : turns[i].no = req[r].no /\ \A j \in Bots : j <= i

OrderInv == Numbered /\ NoGaps /\ InOrder /\ OneOrder /\ OwnNumber

LEMMA LastMoves ==
    ASSUME TypeOK, Highest, TypeOK', Highest', NEW r \in Requests, NEW role \in {"customer", "bot"},
           NEW acts \in SUBSET Actions, Added(r, role, acts)
    PROVE  LastNo' = IF LastNo < req[r].no THEN req[r].no ELSE LastNo
<1>0. req[r].no \in Nat
  BY DEF TypeOK, Request
<1>1. /\ LastNo \in Nat /\ (turns = <<>> => LastNo = 0)
      /\ turns # <<>> => \E i \in DOMAIN turns : turns[i].no = LastNo
      /\ \A i \in DOMAIN turns : turns[i].no <= LastNo
  BY ReadsTranscript
<1>2. turns' # <<>> /\ turns' \in Seq(Turn)
  <2>1. NewTurn \in DOMAIN turns' /\ turns' \in Seq(Turn)
    BY DEF Added
  <2> QED
    BY <2>1
<1>3. /\ LastNo' \in Nat /\ \E i \in DOMAIN turns' : turns'[i].no = LastNo'
      /\ \A i \in DOMAIN turns' : turns'[i].no <= LastNo'
  <2>1. \E i \in DOMAIN turns' : \A j \in DOMAIN turns' : turns'[j].no <= turns'[i].no
    BY <1>2 DEF Highest
  <2>2. LastNo' = LastOf(turns')
    BY DEF LastNo, LastOf
  <2> QED
    BY <1>2, <2>1, <2>2, HighestNo
<1>4. /\ DOMAIN turns' = DOMAIN turns \cup {NewTurn} /\ turns'[NewTurn].no = req[r].no
      /\ \A i \in DOMAIN turns : turns'[i].no = turns[i].no
  BY DEF Added
<1>5. req[r].no <= LastNo' /\ LastNo <= LastNo'
  <2>1. turns # <<>> => LastNo <= LastNo'
    BY <1>1, <1>3, <1>4
  <2> QED
    BY <1>0, <1>1, <1>3, <1>4, <2>1
<1>6. LastNo' = req[r].no \/ LastNo' <= LastNo
  BY <1>1, <1>3, <1>4
<1> QED
  BY <1>0, <1>1, <1>3, <1>5, <1>6

(* The three ways a turn is stored, with the number it has.                 *)
LEMMA NewNumber ==
    ASSUME TypeOK, Highest, TypeOK', Highest', Shaped, Kept'
    PROVE  \/ UNCHANGED turns
           \/ \E r \in Requests, role \in {"customer", "bot"}, acts \in SUBSET Actions :
                /\ Added(r, role, acts) /\ LastNo' = IF LastNo < req[r].no THEN req[r].no ELSE LastNo
                /\ \/ role = "customer" /\ Tells(r)
                   \/ role = "bot" /\ (Stores(r) \/ Notes(r))
<1>1. ~Removes
  <2>1. 0 \notin Begun
    BY SessionTurnsAssumption DEF Begun, Requests
  <2> QED
    BY <2>1 DEF Removes, Kept, NotDeleted
<1>2. ASSUME NEW r \in Requests, NEW role \in {"customer", "bot"}, NEW acts \in SUBSET Actions, Writes(r, role, acts)
      PROVE  Added(r, role, acts) /\ LastNo' = IF LastNo < req[r].no THEN req[r].no ELSE LastNo
  BY <1>2, Appended, LastMoves
<1> QED
  BY <1>1, <1>2, GrowOrGo

LEMMA NumbersStep ==
    ASSUME TypeOK, Highest, TypeOK', Highest', Formed, Numbered, NoGaps, Shaped PROVE Numbered' /\ NoGaps'
<1> SUFFICES ASSUME Kept'
    PROVE  /\ \A r \in Requests : HasRead(r)' \/ req'[r].pc = "numbered" => req'[r].no \in 1..NextNo'
           /\ {turns'[i].no : i \in DOMAIN turns'} = 1..LastNo'
  BY DEF Numbered, NoGaps
<1>0. Kept
  BY StoredStays
<1>1. LastNo \in Nat /\ NextNo = LastNo + 1 /\ NextNo' = LastNo' + 1
  BY ReadsTranscript DEF NextNo
<1>2. {turns[i].no : i \in DOMAIN turns} = 1..LastNo
  BY <1>0 DEF NoGaps
<1>3. \A r \in Requests : HasRead(r) \/ req[r].pc = "numbered" => req[r].no \in 1..NextNo
  BY <1>0 DEF Numbered
<1>4. LastNo' \in Nat /\ LastNo <= LastNo' /\ {turns'[i].no : i \in DOMAIN turns'} = 1..LastNo'
  <2>1. CASE UNCHANGED turns
    <3>1. LastNo' = LastNo
      BY <2>1 DEF LastNo
    <3> QED
      BY <1>1, <1>2, <2>1, <3>1
  <2>2. ASSUME NEW r \in Requests, NEW role \in {"customer", "bot"}, NEW acts \in SUBSET Actions,
               Added(r, role, acts), LastNo' = IF LastNo < req[r].no THEN req[r].no ELSE LastNo,
               Tells(r) \/ Stores(r) \/ Notes(r)
        PROVE  LastNo' \in Nat /\ LastNo <= LastNo' /\ {turns'[i].no : i \in DOMAIN turns'} = 1..LastNo'
    <3>1. req[r].no \in 1..NextNo
      BY <1>3, <2>2 DEF Tells, Stores, Notes, HasRead, Told, At
    <3>2. {turns'[i].no : i \in DOMAIN turns'} = {turns[i].no : i \in DOMAIN turns} \cup {req[r].no}
      <4>1. /\ DOMAIN turns' = DOMAIN turns \cup {NewTurn} /\ turns'[NewTurn].no = req[r].no
            /\ \A i \in DOMAIN turns : turns'[i].no = turns[i].no
        BY <2>2 DEF Added
      <4> QED
        BY <4>1
    <3>3. LastNo' \in Nat /\ LastNo <= LastNo' /\ (1..LastNo) \cup {req[r].no} = 1..LastNo'
      BY <1>1, <2>2, <3>1
    <3> QED
      BY <1>2, <3>2, <3>3
  <2> QED
    BY <2>1, <2>2, NewNumber
<1>5. ASSUME NEW r \in Requests, HasRead(r)' \/ req'[r].pc = "numbered" PROVE req'[r].no \in 1..NextNo'
  <2>1. req'[r].no = NextNo \/ ((HasRead(r) \/ req[r].pc = "numbered") /\ req'[r].no = req[r].no)
    <3>1. CASE req'[r] = req[r]
      BY <1>5, <3>1 DEF HasRead
    <3>2. CASE Reads(r) \/ Numbers(r)
      BY <3>2 DEF Reads, Numbers
    <3>3. CASE Tells(r) \/ Goes(r)
      BY <3>3 DEF Tells, Goes, Told, HasRead, At
    <3>4. ~Lost(r) /\ ~Begins(r) /\ ~Refuses(r) /\ ~Creates(r) /\ ~Stores(r) /\ ~Fails(r) /\ ~Responds(r) /\ ~Notes(r)
      BY <1>5 DEF Lost, Begins, Refuses, Creates, Stores, Fails, Responds, Notes, HasRead, Replied
    <3> QED
      BY <3>1, <3>2, <3>3, <3>4, Fate DEF Served
  <2> QED
    BY <1>1, <1>3, <1>4, <2>1
<1> QED
  BY <1>4, <1>5

(* Alone at work, only this request's steps count.                          *)
LEMMA AloneStays ==
    ASSUME TypeOK, Formed, Shaped, NEW r \in Requests, Alone(r)', r \in Begun
    PROVE  Alone(r) /\ (InFlight(r) => Served(r) \/ UNCHANGED <<turns, req>> \/ Removes \/ Loses)
<1>1. Alone(r)
  BY Onward DEF Alone, Overlap
<1>2. ASSUME InFlight(r), NEW q \in Requests, q # r PROVE ~InFlight(q) /\ ~Begins(q)
  <2>1. req[r].before \subseteq Ended /\ r \notin Ended
    BY <1>2 DEF Formed, InFlight
  <2>2. ~InFlight(q)
    BY <1>1, <1>2, <2>1 DEF Alone, Overlap, Formed, InFlight
  <2>3. ASSUME Begins(q) PROVE FALSE
    <3>1. q \notin Ended /\ q \in Begun' /\ req'[q].before = Ended /\ req'[r] = req[r]
      BY <1>2, <2>3 DEF Begins, OnlyOf, Ended, Begun, At, Ends
    <3>2. Overlap(q, r)'
      BY <1>2, <2>1, <3>1 DEF Overlap, Begun, At
    <3> QED
      BY <3>2 DEF Alone
  <2> QED
    BY <2>2, <2>3
<1>3. ~Begins(r)
  BY DEF Begins, Begun
<1>4. \A q \in Requests : Served(q) => InFlight(q)
  BY DEF Served, Refuses, Reads, Creates, Tells, Goes, Stores, Fails, Responds, Numbers, Notes, Works
<1> QED
  BY <1>1, <1>2, <1>3, <1>4 DEF Shaped, Passes

LEMMA InOrderStep ==
    ASSUME TypeOK, Highest, TypeOK', Highest', Formed, InOrder, Shaped PROVE InOrder'
<1> SUFFICES ASSUME Kept', NEW r \in Requests, Alone(r)'
    PROVE  /\ req'[r].pc \in {"loaded", "numbered"} => req'[r].no = NextNo'
           /\ req'[r].pc \in Told =>
                /\ req'[r].no = LastNo'
                /\ \A i \in DOMAIN turns' : turns'[i].no = LastNo' => turns'[i].role = "customer"
           /\ req'[r].pc = "replied" /\ ~Refused(r)' =>
                \E i \in Bots' : turns'[i].no = req'[r].no /\ \A j \in Bots' : j <= i
  BY DEF InOrder
<1> DEFINE Ordered ==
           /\ req[r].pc \in {"loaded", "numbered"} => req[r].no = NextNo
           /\ req[r].pc \in Told =>
                /\ req[r].no = LastNo
                /\ \A i \in DOMAIN turns : turns[i].no = LastNo => turns[i].role = "customer"
           /\ req[r].pc = "replied" /\ ~Refused(r) =>
                \E i \in Bots : turns[i].no = req[r].no /\ \A j \in Bots : j <= i
<1> SUFFICES Ordered'
  OBVIOUS
<1>0. Kept /\ \A i \in DOMAIN turns : i \in DOMAIN turns' /\ turns'[i] = turns[i]
  BY StoredStays
<1>1. ASSUME UNCHANGED turns PROVE LastNo' = LastNo /\ NextNo' = NextNo /\ Bots' = Bots
  BY <1>1 DEF LastNo, NextNo, Bots
<1>2. CASE r \notin Begun
  <2>1. req'[r].pc \notin {"loaded", "numbered", "replied"} \cup Told
    BY <1>2, Fate DEF Begun, At, Works, InFlight, Lost, Begins, Told
  <2> QED
    BY <2>1
<1>3. CASE r \in Begun /\ ~InFlight(r)
  <2>1. req'[r].pc \notin {"loaded", "numbered", "replied"} \cup Told
    BY <1>3, Onward DEF InFlight, Ended, Told, Ends
  <2> QED
    BY <2>1
<1>4. CASE InFlight(r)
  <2>1. r \in Begun
    BY <1>4 DEF InFlight
  <2>2. Alone(r) /\ (Served(r) \/ UNCHANGED <<turns, req>> \/ Loses)
    <3>1. ~Removes
      <4>1. 0 \notin Begun
        BY SessionTurnsAssumption DEF Begun, Requests
      <4> QED
        BY <4>1 DEF Removes, Kept, NotDeleted
    <3> QED
      BY <1>4, <2>1, <3>1, AloneStays
  <2>3. Ordered
    BY <1>0, <2>2 DEF InOrder
  <2>4. Refused(r)' <=> Refused(r)
    BY <2>1, Onward DEF Refused
  <2>5. LastNo \in Nat /\ NextNo = LastNo + 1 /\ \A i \in DOMAIN turns : turns[i].no <= LastNo
    BY ReadsTranscript
  <2>6. CASE UNCHANGED <<turns, req>>
    BY <1>1, <2>3, <2>4, <2>6
  <2>7. CASE Loses \/ Fails(r) \/ Notes(r) \/ Responds(r) \/ Creates(r)
    <3>1. req'[r].pc \notin {"loaded", "numbered", "replied"} \cup Told
      BY <1>4, <2>7 DEF Loses, Fails, Notes, Responds, Creates, Told
    <3> QED
      BY <3>1
  <2>8. CASE Reads(r) \/ Numbers(r)
    <3>1. UNCHANGED turns /\ req'[r].no = NextNo /\ req'[r].pc \in {"missing", "loaded", "numbered"}
      BY <2>8 DEF Reads, Numbers
    <3> QED
      BY <1>1, <3>1 DEF Told
  <2>9. CASE Refuses(r)
    BY <2>4, <2>9 DEF Refuses, Replied, Told
  <2>10. CASE Goes(r)
    <3>1. UNCHANGED turns /\ req'[r].no = req[r].no /\ req[r].pc \in Told /\ req'[r].pc \in Told
      BY <2>10 DEF Goes
    <3> QED
      BY <1>1, <2>3, <3>1 DEF Told
  <2>11. CASE Tells(r)
    <3>1. Added(r, "customer", {})
      BY <2>11, Appended DEF Tells, Writes
    <3>2. LastNo' = IF LastNo < req[r].no THEN req[r].no ELSE LastNo
      BY <3>1, LastMoves
    <3>3. req[r].no = NextNo /\ req'[r].no = req[r].no /\ req'[r].pc \in Told
      BY <2>3, <2>11 DEF Tells, At, Told
    <3>4. LastNo' = req'[r].no /\ LastNo < LastNo'
      BY <2>5, <3>2, <3>3
    <3>5. \A i \in DOMAIN turns' : turns'[i].no = LastNo' => turns'[i].role = "customer"
      <4>1. \A i \in DOMAIN turns : turns[i].no \in Nat
        BY TurnOf
      <4> QED
        BY <2>5, <3>1, <3>4, <4>1 DEF Added
    <3>6. LastNo' \in Nat
      BY <2>5, <3>3, <3>4
    <3> QED
      BY <3>3, <3>4, <3>5, <3>6 DEF Told
  <2>12. CASE Stores(r)
    <3> PICK acts \in SUBSET Actions : acts = req'[r].acts
      BY DEF TypeOK, Request
    <3>1. Added(r, "bot", acts)
      BY <2>12, Appended DEF Stores, Writes
    <3>2. req'[r].no = req[r].no /\ req'[r].pc \notin {"loaded", "numbered"} \cup Told
      BY <2>12 DEF Stores, Replied, Told
    <3>3. \E i \in Bots' : turns'[i].no = req'[r].no /\ \A j \in Bots' : j <= i
      <4>1. /\ NewTurn \in Bots' /\ turns'[NewTurn].no = req'[r].no
            /\ \A j \in Bots' : j <= NewTurn
        BY <3>1, <3>2 DEF Added, Bots
      <4> QED
        BY <4>1
    <3> QED
      BY <3>2, <3>3
  <2> QED
    BY <2>2, <2>6, <2>7, <2>8, <2>9, <2>10, <2>11, <2>12 DEF Served
<1> QED
  BY <1>2, <1>3, <1>4 DEF InFlight

LEMMA OneOrderStep ==
    ASSUME TypeOK, Highest, TypeOK', Highest', Formed, InOrder, OneOrder, Shaped PROVE OneOrder'
<1> SUFFICES ASSUME Kept', Sequential', NEW i \in DOMAIN turns', NEW j \in DOMAIN turns', i < j
    PROVE  /\ turns'[i].no <= turns'[j].no
           /\ turns'[i].no = turns'[j].no => turns'[i].role = "customer" /\ turns'[j].role = "bot"
  BY DEF OneOrder
<1>0. Kept /\ Sequential
  BY StoredStays, Onward DEF Sequential, Overlap
<1>1. \A k, m \in DOMAIN turns : k < m =>
        /\ turns[k].no <= turns[m].no
        /\ turns[k].no = turns[m].no => turns[k].role = "customer" /\ turns[m].role = "bot"
  BY <1>0 DEF OneOrder
<1>2. CASE UNCHANGED turns
  BY <1>1, <1>2
<1>3. ASSUME NEW r \in Requests, NEW role \in {"customer", "bot"}, NEW acts \in SUBSET Actions, Added(r, role, acts),
             (role = "customer" /\ Tells(r)) \/ (role = "bot" /\ (Stores(r) \/ Notes(r)))
      PROVE  /\ turns'[i].no <= turns'[j].no
             /\ turns'[i].no = turns'[j].no => turns'[i].role = "customer" /\ turns'[j].role = "bot"
  <2>1. \A k \in DOMAIN turns : turns[k].no \in Nat /\ k \in Nat
    BY TurnOf
  <2>2. Alone(r)
    BY <1>0 DEF Sequential, Alone
  <2>3. LastNo \in Nat /\ NextNo = LastNo + 1 /\ \A k \in DOMAIN turns : turns[k].no <= LastNo
    BY ReadsTranscript
  <2>4. \/ req[r].no = NextNo
        \/ /\ req[r].no = LastNo /\ role = "bot"
           /\ \A k \in DOMAIN turns : turns[k].no = LastNo => turns[k].role = "customer"
    BY <1>0, <1>3, <2>2 DEF InOrder, Tells, Stores, Notes, At, Told
  <2>5. /\ i \in DOMAIN turns \/ i = NewTurn
        /\ j \in DOMAIN turns \/ j = NewTurn
        /\ \A k \in DOMAIN turns : turns'[k] = turns[k] /\ k < NewTurn
        /\ NewTurn \in Nat /\ turns'[NewTurn].no = req[r].no /\ turns'[NewTurn].role = role
    BY <1>3 DEF Added
  <2>6. i \in DOMAIN turns
    BY <2>1, <2>5
  <2>7. CASE j \in DOMAIN turns
    BY <1>1, <2>5, <2>6, <2>7
  <2>8. CASE j = NewTurn
    BY <2>1, <2>3, <2>4, <2>5, <2>6, <2>8
  <2> QED
    BY <2>5, <2>7, <2>8
<1> QED
  BY <1>2, <1>3, NewNumber

LEMMA OwnNumberStep ==
    ASSUME TypeOK, Highest, Formed, InOrder, OwnNumber, Shaped, Formed' PROVE OwnNumber'
<1> SUFFICES ASSUME NEW r \in Requests, Chatted(r)', At(r, "answered")', ~Refused(r)', driver' = "user", Kept', Alone(r)'
    PROVE  req'[r].said = req'[r].no
  BY DEF OwnNumber, Alone
<1>0. Kept
  BY StoredStays, SMTT(30)
<1>1. driver = "user"
  BY DEF Shaped, Begins, Served, Refuses, Reads, Creates, Tells, Goes, Stores, Fails, Responds, Numbers, Notes, Works,
         Removes, Loses, Passes
<1>2. ASSUME r \in Begun PROVE Alone(r)
  BY <1>2, AloneStays
<1>3. CASE req'[r] = req[r]
  <2>1. Chatted(r) /\ At(r, "answered") /\ ~Refused(r) /\ r \in Begun
    BY <1>3 DEF Chatted, At, Refused, Begun
  <2> QED
    BY <1>0, <1>1, <1>2, <1>3, <2>1 DEF OwnNumber, Alone
<1>4. CASE Responds(r)
  <2>1. r \in Begun /\ At(r, "replied") /\ ~Refused(r)
    BY <1>4 DEF Responds, Works, InFlight, Refused
  <2>2. \E i \in Bots : turns[i].no = req[r].no /\ \A j \in Bots : j <= i
    BY <1>0, <1>2, <2>1 DEF InOrder, At
  <2>3. LastBotNo = req[r].no
    BY <2>2, LastBot
  <2> QED
    BY <1>4, <2>3 DEF Responds
<1>5. ~Refuses(r)
  BY DEF Refuses, Works, Refused
<1>6. ~Notes(r)
  BY DEF Notes, Works, Formed, OfChip, At, Chatted
<1>7. ~Lost(r) /\ ~Begins(r) /\ ~Reads(r) /\ ~Creates(r) /\ ~Tells(r) /\ ~Goes(r) /\ ~Stores(r) /\ ~Fails(r) /\ ~Numbers(r)
  BY <1>1 DEF Lost, Begins, Reads, Creates, Tells, Goes, Stores, Fails, Numbers, Told, At, Replied
<1> QED
  BY <1>3, <1>4, <1>5, <1>6, <1>7, Fate DEF Served

-----------------------------------------------------------------------------
(* The third layer: the known order and customer, in the row and in the     *)
(* copies of the requests.                                                  *)

AllChat == \A r \in Requests : req[r].kind = "chat"
(* Alone at work, a request's copies are the row's.                         *)
Copies ==
    /\ ~row.exists => row.order = None /\ row.customer = None
    /\ Sequential /\ AllChat =>
         \A r \in Requests : HasRead(r) /\ row.exists =>
             req[r].order = row.order /\ req[r].customer = row.customer

CopyInv == Copies /\ CustomerOfOrder

(* A step on order and customer, in the row if it is there and in the copy. *)
Learns(r, o, c) ==
    /\ Works(r) /\ HasRead(r) /\ HasRead(r)'
    /\ req'[r].order = o /\ req'[r].customer = c /\ row'.exists = row.exists
    /\ IF row.exists THEN row'.order = (IF o = req[r].order THEN row.order ELSE o)
                          /\ row'.customer = (IF c = req[r].customer THEN row.customer ELSE c)
                     ELSE row'.order = row.order /\ row'.customer = row.customer
Mentions(r) == req[r].order = None /\ \E o \in Orders : Learns(r, o, req[r].customer)
Finds(r) ==
    /\ req[r].customer = None /\ req[r].order # None /\ OwnerOf[req[r].order] # None
    /\ Learns(r, req[r].order, OwnerOf[req[r].order])
Remembers(r) ==
    /\ KeepsRow
    /\ HasRead(r)' => Reads(r) \/ (HasRead(r) /\ req'[r].order = req[r].order /\ req'[r].customer = req[r].customer)
Makes(r) == Creates(r) /\ row' = Ownerless

LEMMA CopyShape ==
    ASSUME TypeOK, Formed, Highest, NEW r \in Requests, Serve(r), req[r].kind = "chat"
    PROVE  Mentions(r) \/ Finds(r) \/ Remembers(r) \/ Makes(r)
<1> USE SessionTurnsAssumption
<1>0. Served(r) /\ req[r] \in Request /\ row \in Row /\ req \in [Requests -> Request]
  BY ServeShape DEF TypeOK
<1>1. CASE Refuses(r) \/ Reads(r) \/ Tells(r) \/ Stores(r) \/ Fails(r) \/ Responds(r)
  BY <1>1 DEF Refuses, Reads, Tells, Stores, Fails, Responds, Remembers, KeepsRow, HasRead, Replied, At
<1>2. ~Numbers(r) /\ ~Notes(r)
  BY DEF Numbers, Notes, Formed, OfChip, At
<1>3. CASE Creates(r)
  <2>1. At(r, "missing") /\ ~row.exists
    BY <1>3 DEF Creates
  <2>2. Create(r)
    BY <2>1 DEF Serve, Refuse, Load, Reload, CustomerTurn, ReplayTurn, Classify, Enrich, Dispatch, Decide, BotTurn,
                CommitBreaks, StageRaises, Fallback, Respond, Number, Acknowledge, At
  <2> QED
    BY <1>3, <2>1, <2>2 DEF Create, Makes
<1>4. CASE Goes(r)
  <2>0. Works(r) /\ HasRead(r) /\ HasRead(r)'
    BY <1>4 DEF Goes, HasRead, Told
  <2>1. ASSUME UNCHANGED row, NEW step \in Steps, req' = [req EXCEPT ![r] = [req[r] EXCEPT !.pc = step]]
        PROVE  Remembers(r)
    <3> DEFINE new == [req[r] EXCEPT !.pc = step]
    <3>1. new \in Request /\ new.order = req[r].order /\ new.customer = req[r].customer
      BY <1>0 DEF Request
    <3>2. req'[r] = new
      BY <1>0, <2>1
    <3> HIDE DEF new
    <3> QED
      BY <2>0, <2>1, <3>1, <3>2 DEF Remembers, KeepsRow
  <2>2. CASE Dispatch(r)
    <3>1. UNCHANGED row /\ (row.exists => req' = [req EXCEPT ![r] = [req[r] EXCEPT !.pc = "dispatched"]])
      BY <2>2 DEF Dispatch
    <3>2. row.exists
      <4>1. SUFFICES ASSUME ~row.exists PROVE FALSE
        OBVIOUS
      <4>2. req' = [req EXCEPT ![r] = Done(r, "error")]
        BY <2>2, <4>1 DEF Dispatch
      <4>3. req'[r].pc = "error"
        BY <1>0, <4>2 DEF Done, Request
      <4> QED
        BY <1>4, <4>3 DEF Goes, Told
    <3> QED
      BY <2>1, <3>1, <3>2 DEF Steps
  <2>3. CASE Decide(r)
    <3>1. PICK acts \in Replies : req' = [req EXCEPT ![r].pc = "decided", ![r].acts = acts]
      BY <2>3 DEF Decide
    <3> DEFINE new == [req[r] EXCEPT !.pc = "decided", !.acts = acts]
    <3>2. new.order = req[r].order /\ new.customer = req[r].customer
      BY <1>0 DEF Request
    <3>3. req'[r] = new
      BY <1>0, <3>1
    <3> HIDE DEF new
    <3> QED
      BY <2>0, <2>3, <3>2, <3>3 DEF Decide, session, Remembers, KeepsRow
  <2>4. CASE StageRaises(r)
    <3>1. UNCHANGED row /\ req' = [req EXCEPT ![r] = [req[r] EXCEPT !.pc = "failing"]]
      BY <2>4 DEF StageRaises, session
    <3> QED
      BY <2>1, <3>1 DEF Steps
  <2>5. CASE Classify(r)
    <3>1. PICK mentioned \in Orders \cup {None, TooBig} :
            IF ~TakesOrder(r, mentioned)
            THEN req' = [req EXCEPT ![r].pc = "named"] /\ UNCHANGED row
            ELSE IF ~Fits(mentioned)
            THEN req' = [req EXCEPT ![r] = Done(r, "error")] /\ UNCHANGED row
            ELSE /\ req' = [req EXCEPT ![r].pc = "named", ![r].order = mentioned]
                 /\ row' = IF row.exists THEN [row EXCEPT !.order = mentioned] ELSE row
      BY <2>5 DEF Classify
    <3>2. CASE ~TakesOrder(r, mentioned)
      <4>1. UNCHANGED row /\ req' = [req EXCEPT ![r] = [req[r] EXCEPT !.pc = "named"]]
        BY <3>1, <3>2
      <4> QED
        BY <2>1, <4>1 DEF Steps
    <3>3. CASE TakesOrder(r, mentioned) /\ ~Fits(mentioned)
      <4>1. req' = [req EXCEPT ![r] = Done(r, "error")]
        BY <3>1, <3>3
      <4>2. req'[r].pc = "error"
        BY <1>0, <4>1 DEF Done, Request
      <4> QED
        BY <1>4, <4>2 DEF Goes, Told
    <3>4. CASE TakesOrder(r, mentioned) /\ Fits(mentioned)
      <4>0. mentioned \in Orders /\ mentioned # None /\ req[r].order = None
        BY <3>4 DEF TakesOrder, Fits
      <4> DEFINE new == [req[r] EXCEPT !.pc = "named", !.order = mentioned]
      <4>1. new.order = mentioned /\ new.customer = req[r].customer
        BY <1>0 DEF Request
      <4>2. req'[r] = new
        BY <1>0, <3>1, <3>4
      <4> HIDE DEF new
      <4>3. row' = IF row.exists THEN [row EXCEPT !.order = mentioned] ELSE row
        BY <3>1, <3>4
      <4>4. Learns(r, mentioned, req[r].customer)
        BY <1>0, <2>0, <4>0, <4>1, <4>2, <4>3 DEF Learns, Row
      <4> QED
        BY <4>0, <4>4 DEF Mentions
    <3> QED
      BY <3>2, <3>3, <3>4
  <2>6. CASE Enrich(r)
    <3> DEFINE found == IF req[r].order = None THEN None ELSE OwnerOf[req[r].order]
    <3>1. IF found = None \/ req[r].customer # None
          THEN req' = [req EXCEPT ![r].pc = "known"] /\ UNCHANGED row
          ELSE /\ req' = [req EXCEPT ![r].pc = "known", ![r].customer = found]
               /\ row' = IF row.exists THEN [row EXCEPT !.customer = found] ELSE row
      BY <2>6 DEF Enrich
    <3>2. CASE found = None \/ req[r].customer # None
      <4>1. UNCHANGED row /\ req' = [req EXCEPT ![r] = [req[r] EXCEPT !.pc = "known"]]
        BY <3>1, <3>2
      <4> QED
        BY <2>1, <4>1 DEF Steps
    <3>3. CASE found # None /\ req[r].customer = None
      <4>0. req[r].order # None /\ found = OwnerOf[req[r].order]
        BY <3>3
      <4> HIDE DEF found
      <4> DEFINE new == [req[r] EXCEPT !.pc = "known", !.customer = found]
      <4>1. new.order = req[r].order /\ new.customer = found
        BY <1>0 DEF Request
      <4>2. req'[r] = new
        BY <1>0, <3>1, <3>3
      <4> HIDE DEF new
      <4>3. row' = IF row.exists THEN [row EXCEPT !.customer = found] ELSE row
        BY <3>1, <3>3
      <4>4. Learns(r, req[r].order, found)
        BY <1>0, <2>0, <3>3, <4>1, <4>2, <4>3 DEF Learns, Row
      <4> QED
        BY <3>3, <4>0, <4>4 DEF Finds
    <3> QED
      BY <3>2, <3>3
  <2>7. Dispatch(r) \/ Decide(r) \/ StageRaises(r) \/ Classify(r) \/ Enrich(r)
    BY <1>4 DEF Goes, Told, Serve, Refuse, Load, Create, Reload, CustomerTurn, ReplayTurn, BotTurn, CommitBreaks, Fallback,
                Respond, Number, Acknowledge, At
  <2> QED
    BY <2>2, <2>3, <2>4, <2>5, <2>6, <2>7
<1> QED
  BY <1>0, <1>1, <1>2, <1>3, <1>4 DEF Served

LEMMA CopyStep ==
    ASSUME TypeOK, TypeOK', Formed, Highest, CopyInv, Shaped, [Next]_vars PROVE CopyInv'
<1> USE SessionTurnsAssumption
<1>0. row \in Row /\ NoRow.order = None /\ NoRow.customer = None /\ ~NoRow.exists
      /\ Ownerless.order = None /\ Ownerless.customer = None
  BY DEF TypeOK, NoRow, Ownerless
<1>1. ASSUME Sequential', AllChat' PROVE Sequential /\ AllChat
  <2>1. Sequential
    BY <1>1, Onward DEF Sequential, Overlap
  <2>2. \A r \in Begun : req[r].kind = "chat"
    BY <1>1, Onward DEF AllChat, Begun
  <2>3. \A r \in Requests \ Begun : req[r].kind = "chat"
    BY DEF Begun, Formed, At, NotYet
  <2> QED
    BY <2>1, <2>2, <2>3 DEF AllChat
<1>2. ASSUME row' = NoRow \/ row' = Ownerless PROVE row'.order = None /\ row'.customer = None
  BY <1>0, <1>2
(* Nothing has been read, or the row is not there: nothing to compare.      *)
<1>3. ASSUME row'.order = None, row'.customer = None, \A r \in Requests : HasRead(r)' => ~row'.exists
      PROVE  CopyInv'
  BY <1>3 DEF CopyInv, Copies, CustomerOfOrder
<1>4. CASE Removes
  BY <1>0, <1>2, <1>3, <1>4 DEF Removes
<1>5. ASSUME KeepsRow, \A r \in Requests : HasRead(r)' => HasRead(r) /\ req'[r].order = req[r].order
                                                                    /\ req'[r].customer = req[r].customer
      PROVE  CopyInv'
  <2>1. row'.exists = row.exists /\ row'.order = row.order /\ row'.customer = row.customer
    BY <1>5 DEF KeepsRow
  <2>2. Copies'
    BY <1>1, <1>5, <2>1 DEF CopyInv, Copies
  <2>3. CustomerOfOrder'
    BY <1>1, <2>1 DEF CopyInv, CustomerOfOrder, AllChat
  <2> QED
    BY <2>2, <2>3 DEF CopyInv
<1>6. ASSUME NEW r \in Requests, Serve(r) PROVE CopyInv'
  <2>0. Works(r)
    BY <1>6, ServeShape DEF Served, Refuses, Reads, Creates, Tells, Goes, Stores, Fails, Responds, Numbers, Notes
  <2>1. CASE req[r].kind = "chip"
    <3>1. Number(r) \/ Acknowledge(r)
      BY <1>6, <2>1 DEF Formed, OfChat, Serve, Refuse, Load, Create, Reload, CustomerTurn, ReplayTurn, Classify, Enrich,
                        Dispatch, Decide, BotTurn, CommitBreaks, StageRaises, Fallback, Respond, At
    <3>2. UNCHANGED row \/ row'.exists
      <4>1. CASE Acknowledge(r)
        <5>1. UNCHANGED row \/ (row.exists /\ row'.exists = row.exists)
          BY <1>0, <4>1, ZenonT(60) DEF Acknowledge, Row
        <5> QED
          BY <5>1
      <4> QED
        BY <3>1, <4>1 DEF Number, session
    <3>3. ~AllChat'
      BY <2>0, <2>1 DEF Works, AllChat
    <3>4. Copies'
      BY <3>2, <3>3 DEF CopyInv, Copies
    <3>5. CustomerOfOrder'
      BY <3>3 DEF CustomerOfOrder, AllChat
    <3> QED
      BY <3>4, <3>5, SMTT(30) DEF CopyInv
  <2>2. CASE req[r].kind = "chat"
    <3>1. Mentions(r) \/ Finds(r) \/ Remembers(r) \/ Makes(r)
      BY <1>6, <2>2, CopyShape
    <3>2. ASSUME Sequential, NEW q \in Requests, q # r PROVE ~HasRead(q)'
      <4>1. ~InFlight(q)
        BY <2>0, <3>2 DEF Works, Sequential, Overlap, InFlight, Formed
      <4> QED
        BY <2>0, <3>2, <4>1 DEF Works, OnlyOf, InFlight, HasRead, Begun, Ended, Ends, At
    <3>3. Copies /\ CustomerOfOrder
      BY DEF CopyInv
    <3>4. CASE Makes(r)
      <4>1. ~HasRead(r)'
        BY <3>4 DEF Makes, Creates, HasRead
      <4>2. Copies'
        BY <1>1, <1>2, <3>2, <3>4, <4>1 DEF Makes, Copies
      <4>3. CustomerOfOrder'
        BY <1>2, <3>4 DEF Makes, CustomerOfOrder
      <4> QED
        BY <4>2, <4>3 DEF CopyInv
    <3>5. CASE Remembers(r)
      <4>1. row'.exists = row.exists /\ row'.order = row.order /\ row'.customer = row.customer
        BY <3>5 DEF Remembers, KeepsRow
      <4>2. CustomerOfOrder'
        BY <1>1, <3>3, <4>1 DEF CustomerOfOrder, AllChat
      <4>3. ASSUME Sequential', AllChat', HasRead(r)', row'.exists
            PROVE  req'[r].order = row'.order /\ req'[r].customer = row'.customer
        BY <1>1, <3>3, <3>5, <4>1, <4>3 DEF Copies, Remembers, Reads
      <4>4. Copies'
        BY <1>1, <3>2, <3>3, <4>1, <4>3 DEF Copies
      <4> QED
        BY <4>2, <4>4 DEF CopyInv
    <3>6. CASE Mentions(r)
      <4>1. PICK o \in Orders : Learns(r, o, req[r].customer)
        BY <3>6 DEF Mentions
      <4>2. req[r].order = None /\ o # None
        BY <3>6 DEF Mentions
      <4>3. CASE ~row.exists
        BY <1>3, <3>3, <4>1, <4>3 DEF Learns, Copies
      <4>4. CASE row.exists
        <5>1. row'.exists /\ row'.order = o /\ row'.customer = row.customer
              /\ req'[r].order = o /\ req'[r].customer = req[r].customer /\ HasRead(r)
          BY <4>1, <4>2, <4>4 DEF Learns
        <5>2. ASSUME Sequential', AllChat'
              PROVE  req[r].order = row.order /\ req[r].customer = row.customer /\ row.customer = None
          BY <1>1, <3>3, <4>2, <4>4, <5>1, <5>2 DEF Copies, CustomerOfOrder, AllChat
        <5>3. Copies'
          BY <1>1, <3>2, <5>1, <5>2 DEF Copies
        <5>4. CustomerOfOrder'
          BY <5>1, <5>2 DEF CustomerOfOrder, AllChat
        <5> QED
          BY <5>3, <5>4 DEF CopyInv
      <4> QED
        BY <4>3, <4>4
    <3>7. CASE Finds(r)
      <4>1. Learns(r, req[r].order, OwnerOf[req[r].order])
            /\ req[r].customer = None /\ req[r].order # None /\ OwnerOf[req[r].order] # None
        BY <3>7 DEF Finds
      <4>2. CASE ~row.exists
        BY <1>3, <3>3, <4>1, <4>2 DEF Learns, Copies
      <4>3. CASE row.exists
        <5>1. row'.exists /\ row'.order = row.order /\ row'.customer = OwnerOf[req[r].order]
              /\ req'[r].order = req[r].order /\ req'[r].customer = OwnerOf[req[r].order] /\ HasRead(r)
          BY <4>1, <4>3 DEF Learns
        <5>2. ASSUME Sequential', AllChat' PROVE req[r].order = row.order
          BY <1>1, <3>3, <4>3, <5>1, <5>2 DEF Copies
        <5>3. Copies'
          BY <1>1, <3>2, <5>1, <5>2 DEF Copies
        <5>4. CustomerOfOrder'
          BY <4>1, <5>1, <5>2 DEF CustomerOfOrder, AllChat
        <5> QED
          BY <5>3, <5>4 DEF CopyInv
      <4> QED
        BY <4>2, <4>3
    <3> QED
      BY <3>1, <3>4, <3>5, <3>6, <3>7
  <2>3. req[r].kind \in {"chat", "chip"}
    BY DEF TypeOK, Request
  <2> QED
    BY <2>1, <2>2, <2>3
<1>7. \A r \in Requests : Begins(r) => ~HasRead(r)' /\ \A q \in Requests : q # r => req'[q] = req[q]
  BY DEF Begins, OnlyOf, HasRead
<1>8. ASSUME NEW r \in Requests, Arrive(r) \/ Tap(r) PROVE CopyInv'
  <2>1. Begins(r)
    BY <1>8, BeginShape
  <2>2. KeepsRow
    BY <2>1 DEF Begins, session, KeepsRow
  <2>3. \A q \in Requests : HasRead(q)' => HasRead(q) /\ req'[q] = req[q]
    BY <1>7, <2>1 DEF HasRead
  <2> QED
    BY <1>5, <2>2, <2>3
<1>9. CASE Run
  <2>1. KeepsRow
    BY <1>0, <1>9 DEF Run, Open, Submit, Close, Abandon, session, KeepsRow, Row
  <2>2. \A q \in Requests : HasRead(q)' => HasRead(q) /\ req'[q] = req[q]
    BY <1>7, <1>9, RunShape DEF Passes, HasRead
  <2> QED
    BY <1>5, <2>1, <2>2
<1>10. CASE Crash
  <2>1. KeepsRow
    BY <1>10 DEF Crash, session, KeepsRow
  <2>2. \A q \in Requests : HasRead(q)' => HasRead(q) /\ req'[q] = req[q]
    BY <1>10, CrashShape DEF Loses, HasRead
  <2> QED
    BY <1>5, <2>1, <2>2
<1>11. CASE Rename \/ UNCHANGED vars
  <2>1. KeepsRow /\ UNCHANGED req
    BY <1>0, <1>11 DEF Rename, vars, session, KeepsRow, Row
  <2> QED
    BY <1>5, <2>1 DEF HasRead
<1>12. CASE Delete
  BY <1>4, <1>12 DEF Delete, Removes
<1> QED
  BY <1>6, <1>8, <1>9, <1>10, <1>11, <1>12 DEF Next

-----------------------------------------------------------------------------
(* The fourth layer: the runner and its simulator.                          *)

Sent == {sent[i] : i \in DOMAIN sent}
(* The runner's requests come one after the other, and each was answered    *)
(* and sent before the next.                                                *)
Played ==
    driver = "runner" =>
        /\ \A q, r \in Requests : q < r /\ r \in Begun => q \in Sent
        /\ \A q \in Sent : At(q, "answered")
        /\ runner = "playing" => \A q \in Sent : \E r \in Begun : q < r
        /\ \A i, j \in DOMAIN sent : i < j => sent[i] < sent[j]
        /\ \A i, j \in Bots : i < j => turns[i].req < turns[j].req

LEMMA SentGrows ==
    ASSUME TypeOK, NEW r \in Requests, sent' = Append(sent, r), \A q \in Sent : q < r,
           \A i, j \in DOMAIN sent : i < j => sent[i] < sent[j]
    PROVE  Sent' = Sent \cup {r} /\ \A i, j \in DOMAIN sent' : i < j => sent'[i] < sent'[j]
<1>1. sent \in Seq(Requests)
  BY DEF TypeOK
<1>2. /\ DOMAIN sent' = DOMAIN sent \cup {Len(sent) + 1} /\ sent'[Len(sent) + 1] = r
      /\ \A i \in DOMAIN sent : sent'[i] = sent[i] /\ i \in Nat /\ i < Len(sent) + 1
      /\ Len(sent) + 1 \in Nat
  BY <1>1
<1> QED
  BY <1>2 DEF Sent

LEMMA PlayedStep ==
    ASSUME TypeOK, Formed, Highest, Stored, Played, Shaped, [Next]_vars PROVE Played'
<1> USE SessionTurnsAssumption
<1>0. driver' = driver
  BY DEF Shaped, Begins, Served, Refuses, Reads, Creates, Tells, Goes, Stores, Fails, Responds, Numbers, Notes, Works,
         Removes, Loses, Passes
<1> SUFFICES ASSUME driver = "runner" PROVE Played'
  BY <1>0 DEF Played
<1>1. /\ \A q, r \in Requests : q < r /\ r \in Begun => q \in Sent
      /\ \A q \in Sent : At(q, "answered")
      /\ runner = "playing" => \A q \in Sent : \E r \in Begun : q < r
      /\ \A i, j \in DOMAIN sent : i < j => sent[i] < sent[j]
      /\ \A i, j \in Bots : i < j => turns[i].req < turns[j].req
  BY DEF Played
<1>2. Sent \subseteq Requests /\ Begun \subseteq Requests /\ Requests \subseteq Nat
  <2>1. sent \in Seq(Requests)
    BY DEF TypeOK
  <2> QED
    BY <2>1 DEF Sent, Begun, Requests
<1>3. \A q \in Sent : At(q, "answered")'
  BY <1>1, <1>2, Onward DEF Ended, Ends, At
<1>4. ~Rename /\ ~Delete /\ \A r \in Requests : ~Arrive(r) /\ ~Tap(r)
  BY DEF Arrive, Tap, Rename, Delete
(* The requests that have begun and those sent are the same.                *)
<1>5. ASSUME Begun' = Begun, UNCHANGED sent, runner' = "playing" => runner = "playing",
             \A i, j \in Bots' : i < j => turns'[i].req < turns'[j].req
      PROVE  Played'
  <2>1. Sent' = Sent
    BY <1>5 DEF Sent
  <2> QED
    BY <1>1, <1>3, <1>5, <2>1 DEF Played
<1>6. ASSUME NEW r \in Requests, Serve(r) PROVE Played'
  <2>1. Served(r)
    BY <1>6, ServeShape
  <2>2. Works(r) /\ ~At(r, "idle")'
    BY <2>1 DEF Served, Refuses, Reads, Creates, Tells, Goes, Stores, Fails, Responds, Numbers, Notes, Replied, Told, At
  <2>3. Begun' = Begun /\ UNCHANGED <<sent, runner>>
    BY <2>2 DEF Works, OnlyOf, InFlight, Begun, At
  <2>4. CASE UNCHANGED turns
    <3>1. Bots' = Bots
      BY <2>4 DEF Bots
    <3> QED
      BY <1>1, <1>5, <2>3, <2>4, <3>1
  <2>5. ASSUME NEW role \in {"customer", "bot"}, NEW acts \in SUBSET Actions, Added(r, role, acts),
               \A i \in Bots : turns[i].req # r
        PROVE  Played'
    <3>1. r \notin Sent
      BY <1>1, <2>2 DEF Works, InFlight, Ended, Ends, At
    <3>2. ASSUME NEW i \in Bots PROVE turns[i].req < r
      <4>1. turns[i].req \in Requests
        BY TurnOf DEF Bots
      <4>2. turns[i].req \in Begun
        BY <4>1 DEF Stored, Bots, Begun, At, Told, Ends
      <4>3. ~(r < turns[i].req)
        BY <1>1, <3>1, <4>1, <4>2
      <4> QED
        BY <1>2, <2>5, <4>1, <4>3
    <3>3. \A i, j \in Bots' : i < j => turns'[i].req < turns'[j].req
      <4>1. /\ Bots' \subseteq Bots \cup {NewTurn} /\ NewTurn \in Nat
            /\ \A i \in Bots : turns'[i] = turns[i] /\ i < NewTurn /\ i \in Nat
            /\ turns'[NewTurn].req = r
        BY <2>5 DEF Added, Bots
      <4> QED
        BY <1>1, <3>2, <4>1
    <3> QED
      BY <1>5, <2>3, <3>3
  <2>6. ASSUME Tells(r) \/ Stores(r) \/ Notes(r) PROVE \A i \in Bots : turns[i].req # r
    BY <2>6 DEF Tells, Stores, Notes, Stored, Bots, Told, Ends, At
  <2> QED
    BY <2>1, <2>4, <2>5, <2>6, ServeGrows, Appended
<1>7. CASE Crash \/ UNCHANGED vars
  <2>1. Loses \/ UNCHANGED <<turns, sent, req, runner>>
    BY <1>7, CrashShape DEF vars, session
  <2>2. UNCHANGED <<turns, sent>> /\ (runner' = "playing" => runner = "playing")
    BY <2>1 DEF Loses, session
  <2>3. Begun' = Begun
    BY <2>1 DEF Loses, InFlight, Begun, At
  <2>4. Bots' = Bots
    BY <2>2 DEF Bots
  <2> QED
    BY <1>1, <1>5, <2>2, <2>3, <2>4
<1>8. CASE Run
  <2>1. UNCHANGED turns /\ Bots' = Bots
    BY <1>8 DEF Run, Open, Submit, Close, Abandon, session, Bots
  (* The first or the next message, all before it being sent.               *)
  <2>2. ASSUME NEW p \in Requests, At(p, "idle"), NEW msg \in Messages, Play(p, msg),
               \A q \in 1..(p - 1) : q \in Sent', \A q \in Requests : q > p => At(q, "idle"),
               \A q \in Sent' : q < p /\ At(q, "answered"),
               \A i, j \in DOMAIN sent' : i < j => sent'[i] < sent'[j]
        PROVE  Played'
    <3>1. Begun' = Begun \cup {p}
      <4> DEFINE new == [NotYet EXCEPT !.pc = "arrived", !.msg = msg, !.before = Ended]
      <4>1. new.pc = "arrived"
        BY DEF NotYet
      <4>2. req' = [req EXCEPT ![p] = new] /\ req \in [Requests -> Request]
        BY <2>2 DEF Play, TypeOK
      <4> HIDE DEF new
      <4> QED
        BY <4>1, <4>2 DEF Begun, At
    <3>2. \A q \in Sent' : At(q, "answered")'
      BY <2>2, Onward, <3>1 DEF Play, At, TypeOK
    <3>3. \A q, r \in Requests : q < r /\ r \in Begun' => q \in Sent'
      <4>1. \A r \in Begun' : r <= p
        BY <1>2, <2>2, <3>1 DEF Begun, At
      <4>2. \A q, r \in Requests : q < r /\ r <= p => q \in 1..(p - 1)
        BY DEF Requests
      <4> QED
        BY <1>2, <2>2, <3>1, <4>1, <4>2
    <3>4. \A q \in Sent' : \E r \in Begun' : q < r
      BY <2>2, <3>1
    <3> QED
      BY <1>1, <2>1, <2>2, <3>2, <3>3, <3>4 DEF Played
  (* The runner ends, what it has sent perhaps grown by the last reply.     *)
  <2>3. ASSUME UNCHANGED req, runner' # "playing", Sent \subseteq Sent', \A q \in Sent' : At(q, "answered"),
               \A i, j \in DOMAIN sent' : i < j => sent'[i] < sent'[j]
        PROVE  Played'
    <3>1. Begun' = Begun /\ \A q \in Sent' : At(q, "answered")'
      BY <2>3 DEF Begun, At
    <3> QED
      BY <1>1, <2>1, <2>3, <3>1 DEF Played
  <2>4. CASE Open
    <3>1. Sent = {} /\ Sent' = Sent /\ UNCHANGED sent
      <4>1. runner = "start" /\ UNCHANGED sent
        BY <2>4 DEF Open
      <4>2. \A q \in Sent : FALSE
        BY <1>1, <1>2, <4>1 DEF Formed, At
      <4>3. Sent' = Sent
        BY <4>1 DEF Sent
      <4> QED
        BY <4>1, <4>2, <4>3
    <3>2. CASE UNCHANGED req /\ runner' = "refused"
      BY <1>1, <2>3, <3>1, <3>2
    <3>3. ASSUME NEW msg \in Messages, Play(1, msg) PROVE Played'
      <4>1. CASE 1 \in Requests
        <5>1. At(1, "idle") /\ \A q \in Requests : q > 1 => At(q, "idle")
          BY <2>4, <4>1 DEF Open, Formed
        <5>2. \A i, j \in DOMAIN sent' : i < j => sent'[i] < sent'[j]
          BY <1>1, <3>1
        <5> QED
          BY <2>2, <3>1, <3>3, <4>1, <5>1, <5>2
      <4>2. CASE 1 \notin Requests
        <5>1. Begun' = Begun /\ Begun = {} /\ Requests = {}
          BY <3>3, <4>2 DEF Play, TypeOK, Begun, At, Requests
        <5> QED
          BY <1>1, <2>1, <3>1, <5>1 DEF Played
      <4> QED
        BY <4>1, <4>2
    <3> QED
      BY <2>4, <3>2, <3>3 DEF Open
  <2>5. CASE Close
    BY <1>1, <2>3, <2>5 DEF Close, Sent
  <2>6. ASSUME NEW r \in Requests, Abandon(r) PROVE Played'
    BY <1>1, <2>3, <2>6 DEF Abandon, Sent
  <2>7. ASSUME NEW r \in Requests, Submit(r) PROVE Played'
    <3>1. runner = "playing" /\ At(r, "answered") /\ \A q \in Requests : q > r => At(q, "idle")
      BY <2>7 DEF Submit
    <3>2. \A q \in Sent : q < r
      <4>1. ASSUME NEW q \in Sent PROVE q < r
        <5>1. PICK t \in Begun : q < t
          BY <1>1, <3>1
        <5>2. ~(t > r)
          BY <1>2, <3>1, <5>1 DEF Begun
        <5> QED
          BY <1>2, <5>1, <5>2
      <4> QED
        BY <4>1
    <3>3. ASSUME sent' = Append(sent, r)
          PROVE  Sent' = Sent \cup {r} /\ \A i, j \in DOMAIN sent' : i < j => sent'[i] < sent'[j]
      BY <1>1, <3>2, <3>3, SentGrows
    <3>4. ASSUME r < MaxRequests, sent' = Append(sent, r), NEW msg \in Messages, Play(r + 1, msg) PROVE Played'
      <4>1. r + 1 \in Requests /\ At(r + 1, "idle")
        BY <3>1, <3>4 DEF Requests
      <4>2. \A q \in 1..((r + 1) - 1) : q \in Sent'
        <5>1. r \in Begun
          BY <3>1 DEF Begun, At
        <5>2. \A q \in Requests : q < r => q \in Sent
          BY <1>1, <5>1
        <5>3. \A q \in 1..((r + 1) - 1) : q \in Requests /\ (q < r \/ q = r)
          BY DEF Requests
        <5> QED
          BY <3>3, <3>4, <5>2, <5>3
      <4>3. \A q \in Requests : q > r + 1 => At(q, "idle")
        BY <1>2, <3>1
      <4>4. \A q \in Sent' : q < r + 1 /\ At(q, "answered")
        <5>1. Sent' = Sent \cup {r}
          BY <3>3, <3>4
        <5>2. \A q \in Sent \cup {r} : q < r + 1 /\ At(q, "answered")
          BY <1>1, <1>2, <3>1, <3>2
        <5> QED
          BY <5>1, <5>2
      <4> QED
        BY <2>2, <3>3, <3>4, <4>1, <4>2, <4>3, <4>4
    <3>5. ASSUME sent' \in {sent, Append(sent, r)}, runner' = "closing", UNCHANGED req PROVE Played'
      <4>1. CASE sent' = Append(sent, r)
        BY <1>1, <2>3, <3>1, <3>3, <3>5, <4>1
      <4>2. CASE UNCHANGED sent
        BY <1>1, <2>3, <3>5, <4>2 DEF Sent
      <4> QED
        BY <3>5, <4>1, <4>2
    <3> QED
      BY <2>7, <3>4, <3>5 DEF Submit
  <2> QED
    BY <1>8, <2>4, <2>5, <2>6, <2>7 DEF Run
<1> QED
  BY <1>4, <1>6, <1>7, <1>8, SMTT(30) DEF Next

-----------------------------------------------------------------------------
(* All layers together.                                                     *)
IInv == SafeInv /\ OrderInv /\ CopyInv /\ Played

LEMMA InductiveInit == ASSUME Init PROVE IInv
<1>1. SafeInv
  BY SafeInit
<1>2. turns = <<>> /\ DOMAIN turns = {} /\ sent = <<>> /\ DOMAIN sent = {} /\ \A r \in Requests : req[r] = NotYet
  <2>1. turns = <<>> /\ sent = <<>> /\ \A r \in Requests : req[r] = NotYet
    BY DEF Init
  <2> QED
    BY <2>1
<1>3. \A r \in Requests : At(r, "idle") /\ ~HasRead(r)
  BY <1>2 DEF At, HasRead, NotYet
<1>4. LastNo = 0
  BY <1>2 DEF LastNo
<1>5. OrderInv
  BY <1>2, <1>3, <1>4 DEF OrderInv, Numbered, NoGaps, InOrder, OneOrder, OwnNumber, Chatted, At, Told
<1>6. row.order = None /\ row.customer = None
  <2>1. row = NoRow \/ \E b \in BOOLEAN : row = [Ownerless EXCEPT !.owned = TRUE, !.titled = b]
    BY DEF Init
  <2>2. NoRow.order = None /\ NoRow.customer = None
    BY DEF NoRow
  <2>3. \A b \in BOOLEAN : LET new == [Ownerless EXCEPT !.owned = TRUE, !.titled = b]
                         IN  new.order = None /\ new.customer = None
    BY DEF NoRow, Ownerless
  <2> QED
    BY <2>1, <2>2, <2>3
<1>7. CopyInv
  BY <1>3, <1>6 DEF CopyInv, Copies, CustomerOfOrder
<1>8. Played
  BY <1>2, <1>3 DEF Played, Begun, Sent, Bots
<1> QED
  BY <1>1, <1>5, <1>7, <1>8 DEF IInv

LEMMA InductiveStep == ASSUME IInv, [Next]_vars PROVE IInv'
<1>1. /\ TypeOK /\ Formed /\ Highest /\ Stored
      /\ Numbered /\ NoGaps /\ InOrder /\ OneOrder /\ OwnNumber /\ CopyInv /\ Played
  BY DEF IInv, SafeInv, Base, OrderInv
<1>2. SafeInv' /\ Shaped
  BY SafeStep DEF IInv
<1>3. TypeOK' /\ Formed' /\ Highest'
  BY <1>2 DEF SafeInv, Base
<1>4. Numbered' /\ NoGaps'
  BY <1>1, <1>2, <1>3, NumbersStep
<1>5. InOrder' /\ OneOrder' /\ OwnNumber'
  BY <1>1, <1>2, <1>3, InOrderStep, OneOrderStep, OwnNumberStep
<1>6. CopyInv' /\ Played'
  BY <1>1, <1>2, <1>3, CopyStep, PlayedStep
<1> QED
  BY <1>2, <1>4, <1>5, <1>6 DEF IInv, OrderInv

(* What is stored is what later requests read.                              *)
LEMMA EarlierSeen == ASSUME SafeInv PROVE EarlierIsSeen
<1> SUFFICES ASSUME NEW r \in Requests, HasRead(r), Kept, NEW q \in req[r].before, Chatted(q), ~Refused(q)
             PROVE  req[q].acts \subseteq req[r].prior
  BY DEF EarlierIsSeen
<1>1. q \in Requests
  BY DEF SafeInv, Base, TypeOK, Request
<1>2. PICK j \in DOMAIN turns : turns[j] = TurnRow(q, "bot", req[q].acts)
  BY <1>1 DEF SafeInv, AnsweredIsStored
<1>3. j \in Bots /\ turns[j].req = q /\ turns[j].acts = req[q].acts
  BY <1>2 DEF Bots, TurnRow
<1> QED
  BY <1>3 DEF SafeInv, Read

LEMMA SimulatorTold == ASSUME IInv PROVE SimulatorKnows
<1> SUFFICES ASSUME driver = "runner"
    PROVE  /\ \A i, j \in DOMAIN sent : i < j => sent[i] < sent[j]
           /\ \A i, j \in Bots : i < j => turns[i].req < turns[j].req /\ turns[i].req \in Sent
           /\ \A r \in Sent : ~Refused(r) => \E i \in Bots : turns[i].req = r /\ turns[i].acts = req[r].acts
  BY DEF SimulatorKnows, Sent, Bots
<1>1. TypeOK /\ Formed /\ Stored /\ AnsweredIsStored /\ Played
  BY DEF IInv, SafeInv, Base
<1>2. Sent \subseteq Requests
  <2>1. sent \in Seq(Requests)
    BY <1>1 DEF TypeOK
  <2> QED
    BY <2>1 DEF Sent
<1>3. ASSUME NEW i \in Bots, NEW j \in Bots, i < j PROVE turns[i].req < turns[j].req /\ turns[i].req \in Sent
  <2>1. turns[i].req \in Requests /\ turns[j].req \in Requests
    BY <1>1, TurnOf DEF Bots
  <2>2. turns[j].req \in Begun
    BY <1>1, <2>1 DEF Stored, Bots, Begun, At, Told, Ends
  <2> QED
    BY <1>1, <1>3, <2>1, <2>2 DEF Played
<1>4. ASSUME NEW r \in Sent, ~Refused(r) PROVE \E i \in Bots : turns[i].req = r /\ turns[i].acts = req[r].acts
  <2>1. Chatted(r) /\ Kept /\ r \in Requests
    BY <1>1, <1>2 DEF Played, Formed, Chatted, At
  <2>2. PICK i \in DOMAIN turns : turns[i] = TurnRow(r, "bot", req[r].acts)
    BY <1>1, <1>4, <2>1 DEF AnsweredIsStored
  <2> QED
    BY <2>2 DEF Bots, TurnRow
<1> QED
  BY <1>1, <1>3, <1>4 DEF Played

(* Types, earlier actions seen by later requests, numbers without gaps, in  *)
(* one order and told truly, the known customer, and the simulator's copy:  *)
(* all that the run checks of a stored session, for every overlap, failure  *)
(* and restart.                                                             *)
THEOREM InvHolds == Spec => []Inv
<1>1. Init => IInv
  BY InductiveInit
<1>2. IInv /\ [Next]_vars => IInv'
  BY InductiveStep
<1>3. IInv => Inv
  <2>1. ASSUME IInv PROVE EarlierIsSeen /\ SimulatorKnows
    BY <2>1, EarlierSeen, SimulatorTold DEF IInv
  <2> QED
    BY <2>1 DEF IInv, SafeInv, Base, OrderInv, CopyInv, Inv
<1> QED
  BY <1>1, <1>2, <1>3, PTL DEF Spec
=============================================================================
