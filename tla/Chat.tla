-------------------------------- MODULE Chat --------------------------------
(***************************************************************************)
(* One chat session of the refund bot, turn after turn                     *)
(* (l1_cardinal/pipeline.py): a message is looked up in the deduplicator's *)
(* cache; if it is not there, the language models classify it and propose  *)
(* actions, and the rules of RefundPolicy decide.  What earlier turns did  *)
(* comes back through the transcript (phase3_handler.py).                  *)
(***************************************************************************)
EXTENDS RefundPolicy, FiniteSets

CONSTANTS
    Orders,      \* orders in the database; other numbers find nothing
    Profiles,    \* what the database may say of an order and its customer
    Callers,     \* whom a chip may name: customers, or a number of nobody
    NoId,        \* NULL
    Texts,       \* messages, each with the marks the regular expressions find
    Asked,       \* intents the classifier returns
    Proposals,   \* what Stage 1 returns
    MaxTurns     \* bound on the turns of a session

VARIABLES
    book,     \* tables orders and customers
    known,    \* sessions.known_order_id
    client,   \* sessions.known_customer_id: what the database says of the number
    turnNo,   \* turn_no of the next turn
    prior,    \* actions of the bot's turns so far
    cache,    \* phase 2: the actions replayed for a message
    reply     \* the reply of the turn under way

vars == <<book, known, client, turnNo, prior, cache, reply>>

Profile == [total : Nat, recent : BOOLEAN, customer : Customer]
Proposal == [acts : SUBSET Action, unsure : BOOLEAN]
ASSUME ChatAssumption ==
    /\ Orders \subseteq OrderIds /\ NoOrder \notin OrderIds
    /\ Profiles \subseteq Profile /\ \A p \in Profiles : p.customer.clean => ~p.customer.abuser
    /\ Texts \subseteq SUBSET {"lexical", "verbal", "marker", "human"}
    /\ NoCustomer \notin Customer /\ NoId \notin Customer \cup {NoCustomer}
    /\ Callers \subseteq Customer \cup {NoCustomer}
    /\ Asked \subseteq Intents /\ Proposals \subseteq Proposal
    /\ \A p \in Proposals : IsFiniteSet(p.acts) /\ \A a \in p.acts : a.from \in Slots
    /\ MaxTurns \in Nat /\ SoftCap \in Nat

NoEntry == {Closing("none")}
NoReply == [kind |-> "none"]

Init ==
    /\ book \in [Orders -> Profiles]
    /\ known = NoOrder /\ client = NoId /\ turnNo = 1 /\ prior = {}
    /\ cache = [text \in Texts |-> NoEntry]
    /\ reply = NoReply

-----------------------------------------------------------------------------
(* The first order number of a session is kept, whether or not it exists.   *)
Known(mentioned) == IF known = NoOrder THEN mentioned ELSE known

(* The customer is the session's, who need not own the order, or else the   *)
(* order's, who becomes the session's.                                      *)
Client(order) ==
    IF client # NoId THEN client
    ELSE IF order \in Orders THEN book[order].customer ELSE NoId

(* Phases 3 and 4 and the classifier: what the rules are given.             *)
Context(text, intent, mentioned, classified, unsure) ==
    LET id    == Known(mentioned)
        found == id \in Orders
    IN  [intent |-> intent, no |-> turnNo, mentioned |-> mentioned,
         marks |-> text \cup (IF classified THEN {"classified"} ELSE {})
                        \cup (IF unsure THEN {"unsure"} ELSE {})
                        \cup (IF found /\ book[id].recent THEN {"recent"} ELSE {}),
         order |-> IF found THEN id ELSE NoOrder,
         total |-> IF found THEN book[id].total ELSE 0,
         customer |-> IF Client(id) = NoId THEN NoCustomer ELSE Client(id),
         prior |-> prior, escalated |-> Escalates(prior), flagged |-> Flags(prior)]

(* A message that is not cached, or whose entry is older than the time to   *)
(* live, goes through all stages; the reply is remembered for its text.     *)
Answer(text) ==
    /\ reply = NoReply /\ turnNo <= MaxTurns
    /\ \E intent \in Asked, mentioned \in OrderIds \cup {NoOrder}, classified \in BOOLEAN, p \in Proposals :
          LET t       == Context(text, intent, mentioned, classified, p.unsure)
              decided == Decided(p.acts, t)
          IN  /\ known' = Known(mentioned) /\ client' = Client(known')
              /\ reply' = [kind |-> "fresh", turn |-> t, proposed |-> p.acts,
                           acts |-> Shaped(decided), route |-> Route(decided)]
              /\ cache' = [cache EXCEPT ![text] = Shaped(decided)]
    /\ UNCHANGED <<book, turnNo, prior>>

(* A cached message: the reply and its actions are sent again.              *)
Replay(text) ==
    /\ reply = NoReply /\ turnNo <= MaxTurns
    /\ cache[text] # NoEntry
    /\ reply' = [kind |-> "replay", acts |-> cache[text], route |-> "AUTO_RESOLVED"]
    /\ UNCHANGED <<book, known, client, turnNo, prior, cache>>

(* A stage raises, before or after the order and the customer are stored:   *)
(* the turn ends in a hand-over, which is not remembered.                   *)
StageRaises ==
    /\ reply = NoReply /\ turnNo <= MaxTurns
    /\ \E mentioned \in OrderIds \cup {NoOrder} : known' = Known(mentioned)
    /\ client' \in {client, Client(known')}
    /\ reply' = [kind |-> "failed", acts |-> {Escalation("error", NoOrder)}, route |-> "HITL"]
    /\ UNCHANGED <<book, turnNo, prior, cache>>

(* The bot's turn is stored; later turns see its actions.                   *)
Persist ==
    /\ reply # NoReply
    /\ prior' = prior \cup {[a EXCEPT !.from = "sent"] : a \in reply.acts}
    /\ turnNo' = turnNo + 1 /\ reply' = NoReply
    /\ UNCHANGED <<book, known, client, cache>>

(* A chip is tapped (conversation_studio/routes.py): what the session does  *)
(* not know yet is taken from the request, and the acknowledgment is a turn *)
(* of the bot without actions.                                              *)
Tap ==
    /\ reply = NoReply /\ turnNo <= MaxTurns
    /\ \E order \in OrderIds \cup {NoOrder} : known' = Known(order)
    /\ client' \in IF client = NoId THEN Callers \cup {NoId} ELSE {client}
    /\ turnNo' = turnNo + 1
    /\ UNCHANGED <<book, prior, cache, reply>>

Next ==
    \/ \E text \in Texts : Answer(text) \/ Replay(text)
    \/ StageRaises
    \/ Persist \/ Tap
Spec == Init /\ [][Next]_vars

-----------------------------------------------------------------------------
Fresh == reply.kind = "fresh"
Refunds == Of(reply.acts, "issue_refund")
(* The customer did not end the conversation with a CLOSE marker.           *)
Open == Fresh /\ "marker" \notin reply.turn.marks

TypeOK ==
    /\ book \in [Orders -> Profiles]
    /\ known \in OrderIds \cup {NoOrder} /\ client \in Customer \cup {NoCustomer, NoId}
    /\ turnNo \in 1..(MaxTurns + 1)
    /\ prior \subseteq Action /\ \A text \in Texts : cache[text] \subseteq Action
    /\ reply # NoReply => reply.acts \subseteq Action /\ reply.route \in {"AUTO_RESOLVED", "HITL", "MANUAL_REVIEW"}
    /\ Fresh => reply.turn \in Turn

(* Complaints that are settled without money never lead to a refund,        *)
(* whatever Stage 1 proposes and whichever later rule adds an action        *)
(* (stage2_validator.py: 137-155, 194-198, 223-243).                        *)
RefusalsHold ==
    Fresh /\ reply.turn.intent \in {"double_charge", "rider_demanded_tip", "cancel_request"} => Refunds = {}

(* A prompt injection, seen by the expressions or by the classifier, leaves *)
(* a flag, and moves money only for the claims that may (347-372).          *)
InjectionContained ==
    Open /\ reply.turn.marks \cap {"lexical", "classified"} # {} =>
        Flags(reply.acts) /\ (reply.turn.intent \notin LegitRefundIntents => Refunds = {})

(* A flagged abuser gets nothing for an order that never arrived and leaves *)
(* a flag.  A soft claim leaves a flag too, and until the session is handed *)
(* over no single refund of more than 300, and none without a human.  No    *)
(* rule, the later matrix included, adds money to what Stage 1 proposed but *)
(* the token and the promo credit (stage2_validator.py: 157-179, 245-345).  *)
AbuserHeld ==
    Open /\ reply.turn.order # NoOrder /\ Abuser(reply.turn) =>
        /\ reply.turn.intent = "never_arrived" => Refunds = {} /\ Flags(reply.acts)
        /\ reply.turn.intent \in {"cold_food", "missing_item"} /\ ~reply.turn.escalated =>
              /\ Flags(reply.acts) /\ (Refunds # {} => reply.route = "HITL")
              /\ \A a \in Refunds : a.amount <= 300
        /\ \A a \in Refunds : a.from \in Slots \cup {"promo", "token"}

(* A refund or a complaint of an earlier turn is not made again by the      *)
(* rules, also when the matrix only now arrives at its amount (522-550).    *)
FreshNeverRepeats == Fresh => \A a \in reply.acts, b \in prior : ~Repeats(a, b)

(* Refunds that add up to more than the soft cap go to a human, unless the  *)
(* customer is gold and clean; the matrix may have raised them (606-650).   *)
(* Two gaps are left: a claim still waiting for its order, and a negative   *)
(* refund that counts in the total and is dropped after it.                 *)
Offset(A) ==
    \E a \in Of(A, "issue_refund") : a.amount < 0 /\ (a.order = NoOrder \/ a.method = "none")
SoftCapReviewed ==
    Open /\ RefundTotal(reply.acts) > SoftCap /\ ~GoldClean(reply.turn) =>
        reply.route = "HITL" \/ AwaitsOrder(reply.turn) \/ Offset(reply.proposed)

(* No refund is larger than the order, except the least promo credit and,   *)
(* for an order that cost nothing, an abuser's token (124-132, 157-179,     *)
(* 311; refund_matrix.py: 156-162).                                         *)
WithinOrder ==
    Open /\ reply.turn.order # NoOrder =>
        \A a \in Refunds : \/ a.amount <= reply.turn.total
                           \/ a.from = "promo" /\ a.amount = 50
                           \/ a.from = "token" /\ a.amount = 300 /\ reply.turn.total = 0

(* Together: types, and money within the order and, above the soft cap,     *)
(* only past a human (stage2_validator.py: 606-650).                        *)
Inv == TypeOK /\ SoftCapReviewed /\ WithinOrder

(* A claim after a flagged turn is never settled by the bot alone: it is    *)
(* flagged again, an abuser gets no money, anyone else a human (552-604).   *)
PivotHeld ==
    Open /\ reply.turn.flagged /\ ~reply.turn.escalated
         /\ reply.turn.intent \notin {"cancel_request", "human_request", "other"} =>
        /\ Flags(reply.acts)
        /\ IF Abuser(reply.turn) THEN Refunds = {} ELSE reply.route = "HITL"
=============================================================================
