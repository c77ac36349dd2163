---------------------------- MODULE RefundPolicy ----------------------------
(***************************************************************************)
(* What the chat may do about a complaint: the deterministic rules of      *)
(* l2_agents/stage2_validator.py over the refund matrix, the abuse signals *)
(* and the compensation caps of policies/.  The language model proposes    *)
(* actions; the rules rewrite the list one after the other and the result  *)
(* is what the simulator receives.                                         *)
(*                                                                         *)
(* A list of actions is a set here: no rule looks at the order of the list,*)
(* and "from" tells two equal actions of one list apart by where they come *)
(* from.  Rupees are integers; the floating-point products of the source   *)
(* are exact fractions, rounded half to even as Python's round does.       *)
(***************************************************************************)
EXTENDS Integers, FiniteSetsExt

CONSTANTS
    OrderIds,    \* numbers a customer may mention
    NoOrder,     \* None (or 0) for an order id
    NoCustomer,  \* None for a customer
    Slots,       \* tell the actions of one proposal apart
    SoftCap      \* settings.refund_soft_cap_inr

Intents == {"missing_item", "wrong_order", "cold_food", "never_arrived", "rider_late",
            "rider_rude", "rider_demanded_tip", "double_charge", "promo_failed",
            "cancel_request", "human_request", "vague", "other"}
MatrixActionable == Intents \ {"cancel_request", "human_request", "vague", "other"}

(* Marks of a message and of Stage 1's answer: regular expressions of       *)
(* phase 1 (lexical, verbal) and of the validator (marker, human), the      *)
(* classifier's opinion (classified), the age of the order (recent: at most *)
(* 24 hours) and the confidence of the proposal (unsure: below the floor).  *)
Marks == {"lexical", "verbal", "marker", "human", "classified", "recent", "unsure"}

Customer == [abuser : BOOLEAN, clean : BOOLEAN, gold : BOOLEAN, frequent : BOOLEAN]

(* Where an action comes from: a place in the proposal, the transcript, or  *)
(* what added it.                                                           *)
Origins ==
    Slots \cup {"none", "sent", "error", "double_charge", "promo", "human", "tip", "never_arrived", "token",
                "injection", "verbal", "matrix", "partner", "pivot", "downgrade", "handoff", "safety", "marker"}
Action == [from : Origins,
           type : {"issue_refund", "file_complaint", "escalate_to_human", "flag_abuse", "close"},
           order : OrderIds \cup {NoOrder}, amount : Int,
           method : {"cash", "wallet_credit", "none"},
           target : {"restaurant", "rider", "app", "none"}]

(* What the rules know of a turn.  "order" is the order found in the        *)
(* database, "mentioned" the number in this message; the last three come    *)
(* from the earlier turns of the session.                                   *)
Turn == [intent : Intents, marks : SUBSET Marks, no : Nat,
         order : OrderIds \cup {NoOrder}, mentioned : OrderIds \cup {NoOrder}, total : Nat,
         customer : Customer \cup {NoCustomer},
         prior : SUBSET Action, escalated : BOOLEAN, flagged : BOOLEAN]

Plain(from, type, order) ==
    [from |-> from, type |-> type, order |-> order, amount |-> 0, method |-> "none", target |-> "none"]
Refund(from, order, amount, method) ==
    [Plain(from, "issue_refund", order) EXCEPT !.amount = amount, !.method = method]
Complaint(from, order, target) == [Plain(from, "file_complaint", order) EXCEPT !.target = target]
Escalation(from, order) == Plain(from, "escalate_to_human", order)
Flag(from) == Plain(from, "flag_abuse", NoOrder)
Closing(from) == Plain(from, "close", NoOrder)

Of(A, type) == {a \in A : a.type = type}
Without(A, type) == {a \in A : a.type # type}
Escalates(A) == Of(A, "escalate_to_human") # {}
Flags(A) == Of(A, "flag_abuse") # {}
Complains(A, target) == \E a \in Of(A, "file_complaint") : a.target = target
OrEscalate(A, from, order) == IF Escalates(A) THEN A ELSE A \cup {Escalation(from, order)}
OrFlag(A, from) == IF Flags(A) THEN A ELSE A \cup {Flag(from)}
OrComplain(A, from, order, target) ==
    IF Complains(A, target) THEN A ELSE A \cup {Complaint(from, order, target)}

Abuser(t) == t.customer # NoCustomer /\ t.customer.abuser
GoldClean(t) == t.customer # NoCustomer /\ t.customer.gold /\ t.customer.clean
(* Mutant: only the regular expressions count.                              *)
Injected_Lexical(t) == "lexical" \in t.marks
Injected(t) == t.marks \cap {"lexical", "classified"} # {}
OrderId(t) == IF t.order # NoOrder THEN t.order ELSE t.mentioned
RefundTotal(A) == MapThenSumSet(LAMBDA a : a.amount, Of(A, "issue_refund"))

-----------------------------------------------------------------------------
(* The refund matrix and the caps.                                          *)

Least(m, n) == IF m <= n THEN m ELSE n
HalfEven(n, d) ==
    LET q == n \div d   r == n % d
    IN  IF 2 * r > d \/ (2 * r = d /\ q % 2 = 1) THEN q + 1 ELSE q

Tenths == [missing_item |-> 5, wrong_order |-> 10, cold_food |-> 3,
           never_arrived |-> 10, rider_late |-> 1, promo_failed |-> 1]
Floored == {"missing_item", "cold_food", "rider_late", "promo_failed"}
TargetOf(i) ==
    CASE i \in {"missing_item", "wrong_order", "cold_food"} -> "restaurant"
      [] i \in {"never_arrived", "rider_late", "rider_rude", "rider_demanded_tip"} -> "rider"
      [] i \in {"double_charge", "promo_failed"} -> "app"
      [] OTHER -> "none"

(* In percent; the clamp to [50, 130] never binds.                          *)
Multiplier(c) ==
    IF c = NoCustomer THEN 100
    ELSE 100 + (IF c.gold THEN 15 ELSE 0) + (IF c.frequent THEN 10 ELSE 0)
             - (IF c.abuser THEN 30 ELSE 0)

(* propose(): the amount for an order that was found, 0 for no refund.      *)
MatrixAmount(t) ==
    IF t.intent \notin DOMAIN Tenths THEN 0
    ELSE LET share == HalfEven(t.total * Tenths[t.intent], 10)
             base  == IF t.intent \in Floored /\ share < 50 THEN Least(50, t.total) ELSE share
         IN  Least(HalfEven(base * Multiplier(t.customer), 100), t.total)

Ceiling(t) ==
    CASE t.total <= 200  -> IF GoldClean(t) THEN 500 ELSE 300
      [] t.total > 200 /\ t.total <= 500   -> IF GoldClean(t) THEN 900 ELSE 650
      [] t.total > 500 /\ t.total <= 1000  -> IF GoldClean(t) THEN 1600 ELSE 1200
      [] t.total > 1000 /\ t.total <= 2000 -> IF GoldClean(t) THEN 2250 ELSE 1500
      [] OTHER -> IF GoldClean(t) THEN 3500 ELSE 1500
WithinCap(t) == MatrixAmount(t) <= Ceiling(t)

-----------------------------------------------------------------------------
(* The rules, in the order they are applied.                                *)

Capped(A, t) ==
    {IF t.order # NoOrder /\ a.type = "issue_refund" /\ a.amount > t.total
       THEN [a EXCEPT !.amount = t.total] ELSE a : a \in A}

ForceRouted(A, t) ==
    CASE t.intent = "double_charge" ->
            OrComplain(Without(A, "issue_refund"), "double_charge", OrderId(t), "app")
      [] t.intent = "promo_failed" /\ t.order # NoOrder /\ "recent" \in t.marks ->
            LET credit == IF 50 > t.total \div 10 THEN 50 ELSE t.total \div 10
                paid == IF \E a \in Of(A, "issue_refund") : a.method = "wallet_credit" THEN A
                        ELSE A \cup {Refund("promo", OrderId(t), credit, "wallet_credit")}
            IN  OrComplain(paid, "promo", OrderId(t), "app")
      [] t.intent = "cancel_request" -> {}
      [] t.intent = "human_request" /\ t.no <= 1 /\ t.order = NoOrder -> Without(A, "escalate_to_human")
      [] t.intent = "human_request" /\ t.no >= 2 /\ "human" \in t.marks ->
            OrEscalate(A, "human", OrderId(t))
      [] t.intent = "rider_demanded_tip" ->
            OrComplain(Without(A, "issue_refund"), "tip", OrderId(t), "rider")
      [] OTHER -> A

NeverArrivedRefused(A, t) ==
    IF t.intent = "never_arrived" /\ t.order # NoOrder /\ Abuser(t)
      THEN OrFlag(OrEscalate(Without(A, "issue_refund"), "never_arrived", OrderId(t)), "never_arrived")
      ELSE A

(* Mutant: a demanded tip counts as a soft claim.                           *)
SoftAbuserIntents_Tip == {"cold_food", "missing_item", "rider_demanded_tip"}
SoftAbuserIntents == {"cold_food", "missing_item"}
AbuserToken(A, t) ==
    IF t.order # NoOrder /\ Abuser(t) /\ t.intent \in SoftAbuserIntents /\ ~t.escalated
      THEN LET small == {a \in A : a.type = "issue_refund" => a.amount <= 300}
               token == IF Of(small, "issue_refund") # {} THEN small
                        ELSE small \cup {Refund("token", OrderId(t),
                                 IF t.total = 0 THEN 300 ELSE Least(300, t.total), "wallet_credit")}
           IN  OrFlag(OrEscalate(token, "token", OrderId(t)), "token")
      ELSE A

LegitRefundIntents == {"missing_item", "wrong_order", "cold_food", "never_arrived", "promo_failed"}
InjectionStripped(A, t) ==
    IF ~Injected(t) THEN A
    ELSE OrFlag(IF t.intent \in LegitRefundIntents THEN A ELSE Without(A, "issue_refund"), "injection")

AbuseEscalated(A, t) == IF "verbal" \in t.marks THEN OrEscalate(A, "verbal", OrderId(t)) ELSE A

(* A claim about an order that is still unknown, in the first two turns.    *)
NeedsOrder(t) ==
    /\ t.intent \in MatrixActionable /\ t.order = NoOrder /\ t.no <= 2
    /\ t.marks \cap {"lexical", "verbal"} = {} /\ ~t.escalated
AwaitsOrder(t) == NeedsOrder(t) /\ ~Abuser(t)
EscalationHeld(A, t) == IF AwaitsOrder(t) THEN Without(A, "escalate_to_human") ELSE A

(* Mutant: the matrix is consulted for flagged abusers too.                 *)
TriesMatrix_AlsoAbusers(t) == t.order # NoOrder /\ ~Injected(t) /\ "verbal" \notin t.marks
TriesMatrix(t) == t.order # NoOrder /\ ~Injected(t) /\ "verbal" \notin t.marks /\ ~Abuser(t)

Unresolved(A) == Of(A, "issue_refund") \cup Of(A, "file_complaint") \cup Of(A, "flag_abuse") = {}
MatrixFilled(A, t) ==
    LET amount == MatrixAmount(t)   target == TargetOf(t.intent)
    IN  IF TriesMatrix(t) /\ Unresolved(A) /\ target # "none" /\ WithinCap(t)
          THEN Without(A, "escalate_to_human")
               \cup (IF amount > 0 THEN {Refund("matrix", OrderId(t), amount, "wallet_credit")} ELSE {})
               \cup {Complaint("matrix", OrderId(t), target)}
          ELSE A

(* The matrix owns the amount of a refund of this order, and its partner    *)
(* complaint.                                                               *)
Repriced(a, t) ==
    IF /\ a.type = "issue_refund" /\ a.order \in {NoOrder, OrderId(t)}
       /\ <<a.amount, a.method>> # <<MatrixAmount(t), "wallet_credit">>
      THEN [a EXCEPT !.amount = MatrixAmount(t), !.method = "wallet_credit", !.order = OrderId(t)]
      ELSE a
MatrixPriced(A, t) ==
    IF ~(TriesMatrix(t) /\ t.intent \in MatrixActionable) THEN A
    ELSE LET priced == IF WithinCap(t) /\ MatrixAmount(t) > 0 THEN {Repriced(a, t) : a \in A} ELSE A
         IN  IF Of(priced, "issue_refund") # {}
               THEN OrComplain(priced, "partner", OrderId(t), TargetOf(t.intent)) ELSE priced

(* What an earlier turn of the session already did.                         *)
Repeats(a, b) ==
    /\ a.type = b.type /\ a.order = b.order
    /\ \/ a.type = "file_complaint" /\ a.target = b.target
       \/ a.type = "issue_refund" /\ a.amount = b.amount /\ a.method = b.method
Deduped(A, t) == {a \in A : ~\E b \in t.prior : Repeats(a, b)}

(* Mutant: a vague message after an injection attempt is chitchat.          *)
Pivots_NotVague(t) ==
    t.flagged /\ ~t.escalated /\ t.intent \notin {"cancel_request", "human_request", "other", "vague"}
Pivots(t) ==
    t.flagged /\ ~t.escalated /\ t.intent \notin {"cancel_request", "human_request", "other"}
PivotReviewed(A, t) ==
    IF ~Pivots(t) THEN A
    ELSE IF Abuser(t) THEN OrFlag(Of(A, "flag_abuse"), "pivot")
    ELSE OrFlag(OrEscalate(A, "pivot", OrderId(t)), "pivot")

(* Mutant: each refund alone is compared with the soft cap.                 *)
Downgraded_EachRefund(A, t) ==
    IF /\ ~AwaitsOrder(t)
       /\ \/ "unsure" \in t.marks
          \/ (\E a \in Of(A, "issue_refund") : a.amount > SoftCap) /\ ~GoldClean(t)
      THEN OrEscalate(A, "downgrade", OrderId(t)) ELSE A
Downgraded(A, t) ==
    IF /\ ~AwaitsOrder(t)
       /\ "unsure" \in t.marks \/ (RefundTotal(A) > SoftCap /\ ~GoldClean(t))
      THEN OrEscalate(A, "downgrade", OrderId(t)) ELSE A

HandoffKept(A, t) ==
    IF t.escalated /\ A # {} /\ Unresolved(A)
      THEN LET rest == Without(A, "escalate_to_human")
           IN  IF Of(rest, "close") # {} THEN rest ELSE rest \cup {Closing("handoff")}
      ELSE A

Valid(A) == {a \in A : a.type \in {"file_complaint", "issue_refund"} => a.order # NoOrder}

SafetyNet(A, t) ==
    IF A # {} \/ t.intent = "cancel_request" \/ NeedsOrder(t) THEN A
    ELSE IF Abuser(t) /\ t.intent \in MatrixActionable /\ ~t.escalated
      THEN {Escalation("safety", OrderId(t)), Flag("safety")}
      ELSE {Closing("safety")}

-----------------------------------------------------------------------------
(* validate().                                                              *)
Claimed(A, t) ==
    AbuseEscalated(InjectionStripped(AbuserToken(NeverArrivedRefused(
        ForceRouted(Capped(A, t), t), t), t), t), t)
(* Mutant: duplicates are dropped before the matrix sets the amounts.       *)
Priced_DedupedFirst(A, t) ==
    MatrixPriced(MatrixFilled(Deduped(EscalationHeld(Claimed(A, t), t), t), t), t)
Priced(A, t) ==
    Deduped(MatrixPriced(MatrixFilled(EscalationHeld(Claimed(A, t), t), t), t), t)
Decided(A, t) ==
    IF "marker" \in t.marks THEN {Closing("marker")}
    ELSE SafetyNet(Valid(HandoffKept(Downgraded(PivotReviewed(Priced(A, t), t), t), t)), t)

Route(A) ==
    IF Escalates(A) THEN "HITL" ELSE IF Flags(A) THEN "MANUAL_REVIEW" ELSE "AUTO_RESOLVED"

(* respond(): what the simulator accepts.                                   *)
Shaped(A) ==
    {a \in A : /\ a.type = "issue_refund" => a.amount # 0 /\ a.method # "none"
               /\ a.type = "file_complaint" => a.target # "none"}
=============================================================================
