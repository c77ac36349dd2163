---------------------------- MODULE Chat_proofs ----------------------------
(* What the rules of RefundPolicy do to a list of actions, whatever the     *)
(* list and the turn: each lemma follows one fact through the rules in the  *)
(* order in which they are applied.  The theorems at the end state it of    *)
(* every session of Chat: any orders, profiles, messages, proposals, turns. *)
EXTENDS Chat, FiniteSetTheorems, WellFoundedInduction, TLAPS

(* The actions the rules add have the type their names say.                 *)
LEMMA Types ==
    ASSUME NEW from, NEW order, NEW amount, NEW method, NEW target
    PROVE  /\ Refund(from, order, amount, method).type = "issue_refund"
           /\ Complaint(from, order, target).type = "file_complaint"
           /\ Escalation(from, order).type = "escalate_to_human"
           /\ Flag(from).type = "flag_abuse"
           /\ Closing(from).type = "close"
  BY DEF Refund, Complaint, Escalation, Flag, Closing, Plain

Free(A) == \A a \in A : a.type # "issue_refund"

(* The rules that add other actions keep a list free of refunds.            *)
LEMMA FreeHelpers ==
    ASSUME NEW A, Free(A), NEW from, NEW order, NEW target, NEW type
    PROVE  /\ Free(OrEscalate(A, from, order))
           /\ Free(OrFlag(A, from))
           /\ Free(OrComplain(A, from, order, target))
           /\ Free(Without(A, type))
           /\ Free(Of(A, type))
  BY Types DEF Free, OrEscalate, OrFlag, OrComplain, Without, Of

LEMMA StrippedIsFree ==
    ASSUME NEW A
    PROVE  Free(Without(A, "issue_refund"))
  BY DEF Free, Without

Refused == {"double_charge", "rider_demanded_tip", "cancel_request"}

LEMMA ForceRoutedRefuses ==
    ASSUME NEW A, NEW t, t.intent \in Refused
    PROVE  Free(ForceRouted(A, t))
  <1>1. CASE t.intent = "double_charge"
    BY <1>1, StrippedIsFree, FreeHelpers DEF ForceRouted
  <1>2. CASE t.intent = "rider_demanded_tip"
    BY <1>2, StrippedIsFree, FreeHelpers DEF ForceRouted
  <1>3. CASE t.intent = "cancel_request"
    BY <1>3 DEF ForceRouted, Free
  <1> QED BY <1>1, <1>2, <1>3 DEF Refused

(* A refused intent is none of those the later rules pay.                   *)
LEMMA RefusedAreNotPaid ==
    ASSUME NEW t, t.intent \in Refused
    PROVE  /\ t.intent # "never_arrived"
           /\ t.intent \notin SoftAbuserIntents
           /\ t.intent \notin DOMAIN Tenths
  BY DEF Refused, SoftAbuserIntents, Tenths

LEMMA ClaimedRefuses ==
    ASSUME NEW A, NEW t, t.intent \in Refused
    PROVE  Free(Claimed(A, t))
  <1> DEFINE routed == ForceRouted(Capped(A, t), t)
  <1> DEFINE never == NeverArrivedRefused(routed, t)
  <1> DEFINE token == AbuserToken(never, t)
  <1> DEFINE stripped == InjectionStripped(token, t)
  <1>1. Free(routed)
    BY ForceRoutedRefuses
  <1>2. never = routed
    BY RefusedAreNotPaid DEF NeverArrivedRefused
  <1>3. token = never
    BY RefusedAreNotPaid DEF AbuserToken
  <1>4. Free(stripped)
    <2> HIDE DEF token
    <2> Free(token)
      BY <1>1, <1>2, <1>3
    <2> QED BY FreeHelpers DEF InjectionStripped
  <1>5. Free(AbuseEscalated(stripped, t))
    <2> HIDE DEF stripped
    <2> QED BY <1>4, FreeHelpers DEF AbuseEscalated
  <1> QED BY <1>5 DEF Claimed

LEMMA MatrixRefuses ==
    ASSUME NEW A, NEW t, t.intent \in Refused, Free(A)
    PROVE  Free(MatrixPriced(MatrixFilled(A, t), t))
  <1>1. MatrixAmount(t) = 0
    BY RefusedAreNotPaid DEF MatrixAmount
  <1>2. Free(MatrixFilled(A, t))
    BY <1>1, Types, FreeHelpers DEF MatrixFilled, Free, Without
  <1> DEFINE filled == MatrixFilled(A, t)
  <1> HIDE DEF filled
  <1>3. \A a \in filled : Repriced(a, t) = a
    BY <1>2 DEF Repriced, Free, filled
  <1>4. Free({Repriced(a, t) : a \in filled})
    BY <1>2, <1>3 DEF Free, filled
  <1>5. Free(MatrixPriced(filled, t))
    BY <1>2, <1>4, FreeHelpers DEF MatrixPriced, filled
  <1> QED BY <1>5 DEF filled

(* The rules after the prices add escalations, flags and closings only.     *)
LEMMA TailFree ==
    ASSUME NEW A, NEW t, Free(A)
    PROVE  /\ Free(EscalationHeld(A, t)) /\ Free(Deduped(A, t)) /\ Free(PivotReviewed(A, t))
           /\ Free(Downgraded(A, t)) /\ Free(HandoffKept(A, t)) /\ Free(Valid(A))
           /\ Free(SafetyNet(A, t)) /\ Free(Shaped(A))
  <1>1. Free(EscalationHeld(A, t))
    BY FreeHelpers DEF EscalationHeld
  <1>2. Free(Deduped(A, t)) /\ Free(Valid(A)) /\ Free(Shaped(A))
    BY DEF Deduped, Valid, Shaped, Free
  <1>3. Free(PivotReviewed(A, t))
    <2> Free(Of(A, "flag_abuse"))
      BY FreeHelpers
    <2> Free(OrEscalate(A, "pivot", OrderId(t)))
      BY FreeHelpers
    <2> QED BY FreeHelpers DEF PivotReviewed
  <1>4. Free(Downgraded(A, t))
    BY FreeHelpers DEF Downgraded
  <1>5. Free(HandoffKept(A, t))
    BY Types, FreeHelpers DEF HandoffKept, Free, Without
  <1>6. Free(SafetyNet(A, t))
    BY Types DEF SafetyNet, Free
  <1> QED BY <1>1, <1>2, <1>3, <1>4, <1>5, <1>6

(* validate() and respond() together give no refund for a refused intent,   *)
(* whatever Stage 1 proposed (stage2_validator.py: 137-155, 194-198,        *)
(* 223-243).                                                                *)
LEMMA RefusedIntents ==
    ASSUME NEW A, NEW t, t.intent \in Refused
    PROVE  Of(Shaped(Decided(A, t)), "issue_refund") = {}
  <1> DEFINE held == EscalationHeld(Claimed(A, t), t)
  <1> DEFINE matrix == MatrixPriced(MatrixFilled(held, t), t)
  <1> DEFINE pivoted == PivotReviewed(Priced(A, t), t)
  <1> DEFINE kept == HandoffKept(Downgraded(pivoted, t), t)
  <1>1. Free(held)
    BY ClaimedRefuses, TailFree
  <1>2. Free(matrix)
    <2> HIDE DEF held
    <2> QED BY <1>1, MatrixRefuses
  <1>3. Free(Priced(A, t))
    <2>1. Free(Deduped(matrix, t))
      <3> HIDE DEF matrix
      <3> QED BY <1>2, TailFree
    <2> QED BY <2>1 DEF Priced
  <1>4. Free(pivoted)
    BY <1>3, TailFree
  <1>5. Free(kept)
    <2> HIDE DEF pivoted
    <2> Free(Downgraded(pivoted, t))
      BY <1>4, TailFree
    <2> QED BY TailFree
  <1>6. Free(SafetyNet(Valid(kept), t))
    <2> HIDE DEF kept
    <2> Free(Valid(kept))
      BY <1>5, TailFree
    <2> QED BY TailFree
  <1>7. Free({Closing("marker")})
    BY Types DEF Free
  <1>8. Free(Decided(A, t))
    BY <1>6, <1>7 DEF Decided
  <1>9. Free(Shaped(Decided(A, t)))
    BY <1>8, TailFree
  <1> QED BY <1>9 DEF Free, Of

-----------------------------------------------------------------------------
(* Nothing an earlier turn did.                                             *)

New(A, t) == \A a \in A, b \in t.prior : ~Repeats(a, b)

LEMMA RestIsNew ==
    ASSUME NEW A, NEW t, New(A, t), NEW a,
           a \in A \/ a.type \in {"escalate_to_human", "flag_abuse", "close"}, NEW b \in t.prior
    PROVE  ~Repeats(a, b)
  BY DEF New, Repeats

(* An escalation or a flag is all that these rules add.                     *)
LEMMA PivotAdds ==
    ASSUME NEW A, NEW t
    PROVE  \A a \in PivotReviewed(A, t) : a \in A \/ a.type \in {"escalate_to_human", "flag_abuse"}
  <1>1. ASSUME NEW B, NEW from
        PROVE  \A a \in OrFlag(B, from) : a \in B \/ a.type = "flag_abuse"
    BY Types DEF OrFlag
  <1>2. ASSUME NEW B, NEW from, NEW order
        PROVE  \A a \in OrEscalate(B, from, order) : a \in B \/ a.type = "escalate_to_human"
    BY Types DEF OrEscalate
  <1>3. CASE ~Pivots(t)
    BY <1>3 DEF PivotReviewed
  <1>4. CASE Pivots(t) /\ Abuser(t)
    <2>1. PivotReviewed(A, t) = OrFlag(Of(A, "flag_abuse"), "pivot")
      BY <1>4 DEF PivotReviewed
    <2>2. Of(A, "flag_abuse") \subseteq A
      BY DEF Of
    <2> QED BY <1>1, <2>1, <2>2
  <1>5. CASE Pivots(t) /\ ~Abuser(t)
    <2>1. PivotReviewed(A, t) = OrFlag(OrEscalate(A, "pivot", OrderId(t)), "pivot")
      BY <1>5 DEF PivotReviewed
    <2> QED BY <1>1, <1>2, <2>1
  <1> QED BY <1>3, <1>4, <1>5

LEMMA TailNew ==
    ASSUME NEW A, NEW t, New(A, t)
    PROVE  /\ New(PivotReviewed(A, t), t) /\ New(Downgraded(A, t), t) /\ New(HandoffKept(A, t), t)
           /\ New(Valid(A), t) /\ New(SafetyNet(A, t), t) /\ New(Shaped(A), t)
  <1>1. \A a \in PivotReviewed(A, t) :
           a \in A \/ a.type \in {"escalate_to_human", "flag_abuse", "close"}
    BY PivotAdds
  <1>2. \A a \in Downgraded(A, t) :
           a \in A \/ a.type \in {"escalate_to_human", "flag_abuse", "close"}
    BY Types DEF Downgraded, OrEscalate
  <1>3. \A a \in HandoffKept(A, t) :
           a \in A \/ a.type \in {"escalate_to_human", "flag_abuse", "close"}
    BY Types DEF HandoffKept, Without
  <1>4. \A a \in SafetyNet(A, t) :
           a \in A \/ a.type \in {"escalate_to_human", "flag_abuse", "close"}
    BY Types DEF SafetyNet
  <1>5. Valid(A) \subseteq A /\ Shaped(A) \subseteq A
    BY DEF Valid, Shaped
  <1> QED BY <1>1, <1>2, <1>3, <1>4, <1>5, RestIsNew DEF New

(* The duplicates are dropped after the last rule that adds or re-prices a  *)
(* refund or a complaint (stage2_validator.py: 522-550).                    *)
LEMMA DecidedIsNew ==
    ASSUME NEW A, NEW t
    PROVE  New(Shaped(Decided(A, t)), t)
  <1> DEFINE pivoted == PivotReviewed(Priced(A, t), t)
  <1> DEFINE kept == HandoffKept(Downgraded(pivoted, t), t)
  <1>1. New(Priced(A, t), t)
    BY DEF Priced, Deduped, New
  <1>2. New(pivoted, t)
    BY <1>1, TailNew
  <1>3. New(kept, t)
    <2> HIDE DEF pivoted
    <2> New(Downgraded(pivoted, t), t)
      BY <1>2, TailNew
    <2> QED BY TailNew
  <1>4. New(SafetyNet(Valid(kept), t), t)
    <2> HIDE DEF kept
    <2> New(Valid(kept), t)
      BY <1>3, TailNew
    <2> QED BY TailNew
  <1>5. New({Closing("marker")}, t)
    BY Types DEF New, Repeats
  <1>6. New(Decided(A, t), t)
    BY <1>4, <1>5 DEF Decided
  <1> QED BY <1>6, TailNew

-----------------------------------------------------------------------------
(* A flag, once raised, stays.                                              *)

LEMMA RaisedFlags ==
    ASSUME NEW A, NEW from, NEW order
    PROVE  /\ Flags(OrFlag(A, from))
           /\ Escalates(OrEscalate(A, from, order))
           /\ Escalates(A) => Escalates(OrFlag(A, from))
           /\ Flags(A) => Flags(OrEscalate(A, from, order))
  BY Types DEF Flags, Escalates, Of, OrFlag, OrEscalate

LEMMA TailFlags ==
    ASSUME NEW A, NEW t, Flags(A)
    PROVE  /\ Flags(AbuseEscalated(A, t)) /\ Flags(EscalationHeld(A, t)) /\ Flags(Deduped(A, t))
           /\ Flags(PivotReviewed(A, t)) /\ Flags(Downgraded(A, t)) /\ HandoffKept(A, t) = A
           /\ Flags(Valid(A)) /\ SafetyNet(A, t) = A /\ Flags(Shaped(A))
  <1>1. Flags(AbuseEscalated(A, t)) /\ Flags(Downgraded(A, t))
    BY RaisedFlags DEF AbuseEscalated, Downgraded
  <1>2. Flags(EscalationHeld(A, t)) /\ Flags(Valid(A)) /\ Flags(Shaped(A))
    BY DEF EscalationHeld, Valid, Shaped, Flags, Of, Without
  <1>3. Flags(Deduped(A, t))
    BY DEF Deduped, Repeats, Flags, Of
  <1>4. Flags(PivotReviewed(A, t))
    BY RaisedFlags DEF PivotReviewed
  <1>5. HandoffKept(A, t) = A
    BY DEF HandoffKept, Unresolved, Flags
  <1>6. SafetyNet(A, t) = A
    BY DEF SafetyNet, Flags, Of
  <1> QED BY <1>1, <1>2, <1>3, <1>4, <1>5, <1>6

(* The rules after the pivot, for a list that carries a flag.               *)
LEMMA FlaggedEnd ==
    ASSUME NEW A, NEW t, "marker" \notin t.marks, Flags(PivotReviewed(Priced(A, t), t))
    PROVE  /\ Flags(Decided(A, t))
           /\ Decided(A, t) = Valid(Downgraded(PivotReviewed(Priced(A, t), t), t))
  <1> DEFINE pivoted == PivotReviewed(Priced(A, t), t)
  <1> DEFINE lowered == Downgraded(pivoted, t)
  <1>1. Flags(lowered)
    <2> HIDE DEF pivoted
    <2> Flags(pivoted)
      BY DEF pivoted
    <2> QED BY TailFlags
  <1>2. HandoffKept(lowered, t) = lowered /\ Flags(Valid(lowered))
    <2> HIDE DEF lowered
    <2> QED BY <1>1, TailFlags
  <1>3. SafetyNet(Valid(lowered), t) = Valid(lowered)
    <2> HIDE DEF lowered
    <2> QED BY <1>2, TailFlags
  <1>4. Decided(A, t) = Valid(lowered)
    BY <1>2, <1>3 DEF Decided
  <1> QED BY <1>2, <1>4

(* Where the matrix is not consulted, a flag of the first rules survives    *)
(* the others and no refund is added to theirs.                             *)
LEMMA WithoutMatrix ==
    ASSUME NEW A, NEW t, ~TriesMatrix(t), "marker" \notin t.marks, Flags(Claimed(A, t))
    PROVE  /\ Flags(Shaped(Decided(A, t)))
           /\ \A a \in Of(Shaped(Decided(A, t)), "issue_refund") : a \in Claimed(A, t)
  <1> DEFINE claimed == Claimed(A, t)
  <1> DEFINE held == EscalationHeld(claimed, t)
  <1> DEFINE priced == Priced(A, t)
  <1> DEFINE pivoted == PivotReviewed(priced, t)
  <1>1. Flags(held) /\ held \subseteq claimed
    <2> HIDE DEF claimed
    <2> Flags(claimed)
      BY DEF claimed
    <2> QED BY TailFlags DEF EscalationHeld, Without
  <1>2. Flags(priced) /\ priced \subseteq held
    <2>1. priced = Deduped(held, t)
      BY DEF Priced, MatrixPriced, MatrixFilled
    <2> HIDE DEF held, priced
    <2> QED BY <1>1, <2>1, TailFlags DEF Deduped
  <1>3. Flags(pivoted) /\ \A a \in pivoted : a.type = "issue_refund" => a \in priced
    <2> HIDE DEF priced
    <2>1. Flags(pivoted)
      BY <1>2, TailFlags
    <2>2. \A a \in pivoted : a \in priced \/ a.type \in {"escalate_to_human", "flag_abuse"}
      BY PivotAdds
    <2> QED BY <2>1, <2>2
  <1>4. Flags(Decided(A, t)) /\ Decided(A, t) = Valid(Downgraded(pivoted, t))
    BY <1>3, FlaggedEnd
  <1>5. \A a \in Valid(Downgraded(pivoted, t)) : a.type = "issue_refund" => a \in pivoted
    <2> HIDE DEF pivoted
    <2> QED BY Types DEF Valid, Downgraded, OrEscalate
  <1>6. Flags(Shaped(Decided(A, t))) /\ Shaped(Decided(A, t)) \subseteq Decided(A, t)
    BY <1>4, TailFlags DEF Shaped
  <1> HIDE DEF claimed, held, priced, pivoted
  <1>7. \A a \in Of(Shaped(Decided(A, t)), "issue_refund") : a \in claimed
    BY <1>1, <1>2, <1>3, <1>4, <1>5, <1>6 DEF Of
  <1> QED BY <1>6, <1>7 DEF claimed

(* Stage 2 leaves a flag on an injected message and no refund but for the   *)
(* legitimate claims (stage2_validator.py: 347-372); the matrix is not      *)
(* consulted (413-417).                                                     *)
LEMMA InjectedDecided ==
    ASSUME NEW A, NEW t, Injected(t), "marker" \notin t.marks
    PROVE  /\ Flags(Shaped(Decided(A, t)))
           /\ t.intent \notin LegitRefundIntents => Free(Shaped(Decided(A, t)))
  <1> DEFINE token == AbuserToken(NeverArrivedRefused(ForceRouted(Capped(A, t), t), t), t)
  <1> DEFINE stripped == InjectionStripped(token, t)
  <1>1. Flags(stripped) /\ (t.intent \notin LegitRefundIntents => Free(stripped))
    <2> HIDE DEF token
    <2> QED BY StrippedIsFree, RaisedFlags, FreeHelpers DEF InjectionStripped
  <1>2. Flags(Claimed(A, t)) /\ (t.intent \notin LegitRefundIntents => Free(Claimed(A, t)))
    <2>1. Claimed(A, t) = AbuseEscalated(stripped, t)
      BY DEF Claimed
    <2> HIDE DEF stripped
    <2> QED BY <1>1, <2>1, TailFlags, FreeHelpers DEF AbuseEscalated
  <1>3. ~TriesMatrix(t)
    BY DEF TriesMatrix
  <1> QED BY <1>2, <1>3, WithoutMatrix DEF Free, Of

(* The rules on a flagged abuser (stage2_validator.py: 245-345).            *)
Small(A) == \A a \in A : a.type = "issue_refund" => a.amount <= 300

LEMMA TokenIsSmall ==
    ASSUME NEW A, NEW t, t.total \in Nat, t.order # NoOrder, Abuser(t), t.intent \in SoftAbuserIntents, ~t.escalated
    PROVE  Flags(AbuserToken(A, t)) /\ Escalates(AbuserToken(A, t)) /\ Small(AbuserToken(A, t))
  <1> DEFINE small == {a \in A : a.type = "issue_refund" => a.amount <= 300}
  <1> DEFINE sum == IF t.total = 0 THEN 300 ELSE Least(300, t.total)
  <1> DEFINE added == Refund("token", OrderId(t), sum, "wallet_credit")
  <1> DEFINE token == IF Of(small, "issue_refund") # {} THEN small ELSE small \cup {added}
  <1>1. sum <= 300
    BY DEF Least
  <1>2. added.amount = sum
    BY DEF Refund, Plain
  <1>3. Small(token)
    <2> HIDE DEF sum, added
    <2> QED BY <1>1, <1>2 DEF Small
  <1>4. AbuserToken(A, t) = OrFlag(OrEscalate(token, "token", OrderId(t)), "token")
    BY DEF AbuserToken
  <1> HIDE DEF token
  <1>5. Small(OrFlag(OrEscalate(token, "token", OrderId(t)), "token"))
    BY <1>3, Types DEF Small, OrFlag, OrEscalate
  <1> QED BY <1>4, <1>5, RaisedFlags

(* A hand-over of an abuser's message survives the rules up to the pivot,   *)
(* which drops it only together with the refunds.                           *)
LEMMA HandedWithMoney ==
    ASSUME NEW A, NEW t, ~TriesMatrix(t), Abuser(t), "marker" \notin t.marks,
           Flags(Claimed(A, t)), Escalates(Claimed(A, t))
    PROVE  Free(Decided(A, t)) \/ Escalates(Decided(A, t))
  <1> DEFINE claimed == Claimed(A, t)
  <1> DEFINE held == EscalationHeld(claimed, t)
  <1> DEFINE priced == Priced(A, t)
  <1> DEFINE pivoted == PivotReviewed(priced, t)
  <1>1. held = claimed
    BY DEF EscalationHeld, AwaitsOrder
  <1>2. Flags(priced) /\ Escalates(priced)
    <2>1. priced = Deduped(held, t)
      BY DEF Priced, MatrixPriced, MatrixFilled
    <2> HIDE DEF held, priced, claimed
    <2>2. Flags(held) /\ Escalates(held)
      BY <1>1 DEF claimed
    <2>3. Escalates(Deduped(held, t))
      BY <2>2 DEF Deduped, Repeats, Escalates, Of
    <2> QED BY <2>1, <2>2, <2>3, TailFlags
  <1>3. Flags(pivoted) /\ (Free(pivoted) \/ Escalates(pivoted))
    <2> HIDE DEF priced
    <2>1. Free(OrFlag(Of(priced, "flag_abuse"), "pivot"))
      <3>1. Free(Of(priced, "flag_abuse"))
        BY DEF Free, Of
      <3> QED BY <3>1, FreeHelpers
    <2> QED BY <1>2, <2>1, TailFlags DEF PivotReviewed
  <1>4. Decided(A, t) = Valid(Downgraded(pivoted, t))
    BY <1>3, FlaggedEnd
  <1>5. /\ Free(pivoted) => Free(Valid(Downgraded(pivoted, t)))
        /\ Escalates(pivoted) => Escalates(Valid(Downgraded(pivoted, t)))
    <2> HIDE DEF pivoted
    <2>1. ASSUME Free(pivoted) PROVE Free(Valid(Downgraded(pivoted, t)))
      <3> Free(Downgraded(pivoted, t))
        BY <2>1, TailFree
      <3> QED BY TailFree
    <2>2. ASSUME Escalates(pivoted) PROVE Escalates(Valid(Downgraded(pivoted, t)))
      BY <2>2 DEF Downgraded, OrEscalate, Escalates, Valid, Of
    <2> QED BY <2>1, <2>2
  <1> HIDE DEF pivoted
  <1> QED BY <1>3, <1>4, <1>5

LEMMA AbuserDecided ==
    ASSUME NEW A, NEW t, t.total \in Nat, t.order # NoOrder, Abuser(t), "marker" \notin t.marks
    PROVE  /\ t.intent = "never_arrived" =>
                  Flags(Shaped(Decided(A, t))) /\ Free(Shaped(Decided(A, t)))
           /\ t.intent \in SoftAbuserIntents /\ ~t.escalated =>
                  /\ Flags(Shaped(Decided(A, t))) /\ Small(Shaped(Decided(A, t)))
                  /\ Free(Shaped(Decided(A, t))) \/ Escalates(Decided(A, t))
  <1> DEFINE never == NeverArrivedRefused(ForceRouted(Capped(A, t), t), t)
  <1> DEFINE token == AbuserToken(never, t)
  <1> DEFINE stripped == InjectionStripped(token, t)
  <1>1. ~TriesMatrix(t)
    BY DEF TriesMatrix
  <1>2. /\ Flags(token) => Flags(Claimed(A, t))
        /\ Free(token) => Free(Claimed(A, t))
        /\ Small(token) => Small(Claimed(A, t))
        /\ Escalates(token) => Escalates(Claimed(A, t))
    <2>1. Claimed(A, t) = AbuseEscalated(stripped, t)
      BY DEF Claimed
    <2>2. /\ Flags(token) => Flags(stripped)
          /\ Free(token) => Free(stripped)
          /\ Small(token) => Small(stripped)
          /\ Escalates(token) => Escalates(stripped)
      <3> HIDE DEF token
      <3>1. Flags(token) => Flags(stripped)
        BY RaisedFlags DEF InjectionStripped
      <3>2. Free(token) => Free(stripped)
        BY FreeHelpers DEF InjectionStripped
      <3>3. Small(token) => Small(stripped)
        BY Types DEF InjectionStripped, Small, OrFlag, Without
      <3>4. Escalates(token) => Escalates(stripped)
        <4>1. Escalates(token) => Escalates(Without(token, "issue_refund"))
          BY DEF Escalates, Of, Without
        <4> QED BY <4>1, RaisedFlags DEF InjectionStripped
      <3> QED BY <3>1, <3>2, <3>3, <3>4
    <2> HIDE DEF stripped, token
    <2>3. Small(stripped) => Small(AbuseEscalated(stripped, t))
      BY Types DEF AbuseEscalated, Small, OrEscalate
    <2>4. Escalates(stripped) => Escalates(AbuseEscalated(stripped, t))
      BY RaisedFlags DEF AbuseEscalated, OrEscalate
    <2> QED BY <2>1, <2>2, <2>3, <2>4, TailFlags, FreeHelpers DEF AbuseEscalated
  <1>3. ASSUME t.intent = "never_arrived"
        PROVE  Flags(Shaped(Decided(A, t))) /\ Free(Shaped(Decided(A, t)))
    <2> DEFINE before == Without(ForceRouted(Capped(A, t), t), "issue_refund")
    <2>1. never = OrFlag(OrEscalate(before, "never_arrived", OrderId(t)), "never_arrived")
      BY <1>3 DEF NeverArrivedRefused
    <2>2. Flags(never) /\ Free(never)
      <3>1. Free(before)
        BY StrippedIsFree
      <3> HIDE DEF before
      <3>2. Free(OrEscalate(before, "never_arrived", OrderId(t)))
        BY <3>1, FreeHelpers
      <3> QED BY <2>1, <3>2, FreeHelpers, RaisedFlags
    <2>3. token = never
      BY <1>3 DEF AbuserToken, SoftAbuserIntents
    <2> HIDE DEF token, never
    <2>4. Flags(Claimed(A, t)) /\ Free(Claimed(A, t))
      BY <1>2, <2>2, <2>3
    <2> QED BY <1>1, <2>4, WithoutMatrix DEF Free, Of
  <1>4. ASSUME t.intent \in SoftAbuserIntents, ~t.escalated
        PROVE  /\ Flags(Shaped(Decided(A, t))) /\ Small(Shaped(Decided(A, t)))
               /\ Free(Shaped(Decided(A, t))) \/ Escalates(Decided(A, t))
    <2>1. Flags(token) /\ Small(token) /\ Escalates(token)
      <3> HIDE DEF never
      <3> QED BY <1>4, TokenIsSmall
    <2> HIDE DEF token
    <2>2. Flags(Claimed(A, t)) /\ Small(Claimed(A, t)) /\ Escalates(Claimed(A, t))
      BY <1>2, <2>1
    <2>3. Free(Shaped(Decided(A, t))) \/ Escalates(Decided(A, t))
      <3>1. Free(Decided(A, t)) => Free(Shaped(Decided(A, t)))
        BY TailFree
      <3> QED BY <1>1, <2>2, <3>1, HandedWithMoney
    <2>4. Flags(Shaped(Decided(A, t))) /\ Small(Shaped(Decided(A, t)))
      BY <1>1, <2>2, WithoutMatrix DEF Small, Of
    <2> QED BY <2>3, <2>4
  <1> QED BY <1>3, <1>4

(* A claim after a flagged turn: flagged again, and either without money or *)
(* handed over (stage2_validator.py: 552-604).                              *)
LEMMA PivotDecided ==
    ASSUME NEW A, NEW t, Pivots(t), "marker" \notin t.marks
    PROVE  /\ Flags(Shaped(Decided(A, t)))
           /\ IF Abuser(t) THEN Free(Shaped(Decided(A, t))) ELSE Escalates(Decided(A, t))
  <1> DEFINE priced == Priced(A, t)
  <1> DEFINE pivoted == PivotReviewed(priced, t)
  <1>1. /\ Flags(pivoted)
        /\ IF Abuser(t) THEN Free(pivoted) ELSE Escalates(pivoted)
    <2> HIDE DEF priced
    <2>1. Free(Of(priced, "flag_abuse"))
      BY DEF Free, Of
    <2>2. Free(OrFlag(Of(priced, "flag_abuse"), "pivot"))
      BY <2>1, FreeHelpers
    <2> QED BY <2>2, RaisedFlags DEF PivotReviewed
  <1>2. Flags(Decided(A, t)) /\ Decided(A, t) = Valid(Downgraded(pivoted, t))
    BY <1>1, FlaggedEnd
  <1>3. /\ Free(pivoted) => Free(Valid(Downgraded(pivoted, t)))
        /\ Escalates(pivoted) => Escalates(Valid(Downgraded(pivoted, t)))
    <2> HIDE DEF pivoted
    <2>1. ASSUME Free(pivoted) PROVE Free(Valid(Downgraded(pivoted, t)))
      <3> Free(Downgraded(pivoted, t))
        BY <2>1, TailFree
      <3> QED BY TailFree
    <2>2. ASSUME Escalates(pivoted) PROVE Escalates(Valid(Downgraded(pivoted, t)))
      BY <2>2 DEF Downgraded, OrEscalate, Escalates, Valid, Of
    <2> QED BY <2>1, <2>2
  <1>4. Free(Decided(A, t)) => Free(Shaped(Decided(A, t)))
    BY TailFree
  <1> QED BY <1>1, <1>2, <1>3, <1>4, TailFlags

-----------------------------------------------------------------------------
(* Amounts.                                                                 *)

LEMMA HalfEvenIsNat ==
    ASSUME NEW n \in Nat, NEW d \in {10, 100}
    PROVE  HalfEven(n, d) \in Nat
  BY DEF HalfEven

(* What the matrix pays is never negative and at most the order.            *)
LEMMA MatrixWithinOrder ==
    ASSUME NEW t \in Turn
    PROVE  MatrixAmount(t) \in Nat /\ MatrixAmount(t) <= t.total
  <1>1. t.total \in Nat /\ t.customer \in Customer \cup {NoCustomer}
    BY DEF Turn
  <1>2. CASE t.intent \notin DOMAIN Tenths
    BY <1>1, <1>2 DEF MatrixAmount
  <1>3. CASE t.intent \in DOMAIN Tenths
    <2> DEFINE share == HalfEven(t.total * Tenths[t.intent], 10)
    <2> DEFINE base == IF t.intent \in Floored /\ share < 50 THEN Least(50, t.total) ELSE share
    <2>1. Tenths[t.intent] \in {1, 3, 5, 10}
      BY <1>3 DEF Tenths
    <2>2. t.total * Tenths[t.intent] \in Nat
      BY <1>1, <2>1
    <2>3. base \in Nat
      <3>1. share \in Nat
        BY <2>2, HalfEvenIsNat
      <3> HIDE DEF share
      <3> QED BY <1>1, <3>1 DEF Least
    <2>4. Multiplier(t.customer) \in Nat
      BY <1>1 DEF Multiplier, Customer
    <2>5. MatrixAmount(t) = Least(HalfEven(base * Multiplier(t.customer), 100), t.total)
      BY <1>3 DEF MatrixAmount
    <2> HIDE DEF base
    <2>6. base * Multiplier(t.customer) \in Nat
      BY <2>3, <2>4
    <2>7. HalfEven(base * Multiplier(t.customer), 100) \in Nat
      BY <2>6, HalfEvenIsNat
    <2> QED BY <1>1, <2>5, <2>7 DEF Least
  <1> QED BY <1>2, <1>3

PromoCredit(t) == IF 50 > t.total \div 10 THEN 50 ELSE t.total \div 10
Token(t) == IF t.total = 0 THEN 300 ELSE Least(300, t.total)

(* A set of actions that the rules do not leave in turn t: whatever they    *)
(* add to a list, or make of a refund in it, is in the set.                 *)
Closed(G, t) ==
    /\ \A a \in Action : a.type # "issue_refund" => a \in G
    /\ t.order # NoOrder =>
          /\ Refund("promo", OrderId(t), PromoCredit(t), "wallet_credit") \in G
          /\ Refund("token", OrderId(t), Token(t), "wallet_credit") \in G
    /\ TriesMatrix(t) =>
          /\ Refund("matrix", OrderId(t), MatrixAmount(t), "wallet_credit") \in G
          /\ \A a \in G : Repriced(a, t) \in G

LEMMA AddedAreActions ==
    ASSUME NEW from \in Origins, NEW order \in OrderIds \cup {NoOrder}, NEW amount \in Int,
           NEW method \in {"cash", "wallet_credit", "none"}, NEW target \in {"restaurant", "rider", "app", "none"}
    PROVE  /\ Refund(from, order, amount, method) \in Action
           /\ Complaint(from, order, target) \in Action
           /\ Escalation(from, order) \in Action
           /\ Flag(from) \in Action
           /\ Closing(from) \in Action
  <1>1. Refund(from, order, amount, method) =
           [from |-> from, type |-> "issue_refund", order |-> order, amount |-> amount, method |-> method, target |-> "none"]
    <2>1. Refund(from, order, amount, method) =
             [[from |-> from, type |-> "issue_refund", order |-> order, amount |-> 0, method |-> "none", target |-> "none"]
              EXCEPT !.amount = amount, !.method = method]
      BY Zenon DEF Refund, Plain
    <2> QED BY <2>1
  <1>2. Complaint(from, order, target) =
           [from |-> from, type |-> "file_complaint", order |-> order, amount |-> 0, method |-> "none", target |-> target]
    BY DEF Complaint, Plain
  <1> QED BY <1>1, <1>2 DEF Action, Escalation, Flag, Closing, Plain

LEMMA OrderIdIsOne ==
    ASSUME NEW t \in Turn
    PROVE  OrderId(t) \in OrderIds \cup {NoOrder}
  BY DEF OrderId, Turn

(* The rules that add one action stay in a closed set.                      *)
LEMMA HelpersStay ==
    ASSUME NEW t \in Turn, NEW G, Closed(G, t), NEW A \in SUBSET G
    PROVE  /\ \A from \in Origins : OrEscalate(A, from, OrderId(t)) \in SUBSET G
           /\ \A from \in Origins : OrFlag(A, from) \in SUBSET G
           /\ \A from \in Origins, target \in {"restaurant", "rider", "app", "none"} :
                 OrComplain(A, from, OrderId(t), target) \in SUBSET G
           /\ \A type : Without(A, type) \in SUBSET G /\ Of(A, type) \in SUBSET G
           /\ \A from \in Origins : Closing(from) \in G
  <1>1. ASSUME NEW from \in Origins, NEW target \in {"restaurant", "rider", "app", "none"}
        PROVE  /\ Complaint(from, OrderId(t), target) \in G /\ Escalation(from, OrderId(t)) \in G
               /\ Flag(from) \in G /\ Closing(from) \in G
    <2>1. OrderId(t) \in OrderIds \cup {NoOrder}
      BY OrderIdIsOne
    <2>2. /\ Complaint(from, OrderId(t), target) \in Action
          /\ Escalation(from, OrderId(t)) \in Action
          /\ Flag(from) \in Action /\ Closing(from) \in Action
      BY <2>1, AddedAreActions
    <2> QED BY <2>2, Types DEF Closed
  <1>2. \A type : Without(A, type) \in SUBSET G /\ Of(A, type) \in SUBSET G
    BY DEF Without, Of
  <1>3. ASSUME NEW from \in Origins, NEW target \in {"restaurant", "rider", "app", "none"}
        PROVE  /\ OrEscalate(A, from, OrderId(t)) \in SUBSET G
               /\ OrFlag(A, from) \in SUBSET G
               /\ OrComplain(A, from, OrderId(t), target) \in SUBSET G
    BY <1>1, <1>3 DEF OrEscalate, OrFlag, OrComplain
  <1>4. "none" \in {"restaurant", "rider", "app", "none"}
    OBVIOUS
  <1> QED BY <1>1, <1>2, <1>3, <1>4

LEMMA FlagStays ==
    ASSUME NEW t \in Turn, NEW G, Closed(G, t)
    PROVE  \A A \in SUBSET G : \A from \in Origins : OrFlag(A, from) \in SUBSET G
  BY HelpersStay

LEMMA ComplainStays ==
    ASSUME NEW t \in Turn, NEW G, Closed(G, t)
    PROVE  \A A \in SUBSET G : \A from \in Origins, target \in {"restaurant", "rider", "app", "none"} :
              OrComplain(A, from, OrderId(t), target) \in SUBSET G
  BY HelpersStay

LEMMA ForceRoutedStays ==
    ASSUME NEW t \in Turn, NEW G, Closed(G, t), NEW A \in SUBSET G
    PROVE  ForceRouted(A, t) \in SUBSET G
  <1>1. CASE t.intent = "double_charge"
    <2> DEFINE bare == Without(A, "issue_refund")
    <2>1. bare \in SUBSET G
      BY HelpersStay
    <2>2. OrComplain(bare, "double_charge", OrderId(t), "app") \in SUBSET G
      <3>1. "double_charge" \in Origins
        BY DEF Origins
      <3> HIDE DEF bare
      <3> QED BY <2>1, <3>1, ComplainStays
    <2> QED BY <1>1, <2>2 DEF ForceRouted
  <1>2. CASE t.intent = "promo_failed" /\ t.order # NoOrder /\ "recent" \in t.marks
    <2> DEFINE paid == IF \E a \in Of(A, "issue_refund") : a.method = "wallet_credit" THEN A
                       ELSE A \cup {Refund("promo", OrderId(t), PromoCredit(t), "wallet_credit")}
    <2>1. paid \in SUBSET G
      BY <1>2 DEF Closed
    <2>2. ForceRouted(A, t) = OrComplain(paid, "promo", OrderId(t), "app")
      BY <1>2 DEF ForceRouted, PromoCredit
    <2> HIDE DEF paid
    <2> QED BY <2>1, <2>2, HelpersStay DEF Origins
  <1>3. CASE t.intent = "cancel_request"
    BY <1>3 DEF ForceRouted
  <1>4. CASE t.intent = "human_request"
    <2>1. ForceRouted(A, t) \in {Without(A, "escalate_to_human"), OrEscalate(A, "human", OrderId(t)), A}
      BY <1>4 DEF ForceRouted
    <2>2. Without(A, "escalate_to_human") \in SUBSET G
      BY HelpersStay
    <2>3. "human" \in Origins
      BY DEF Origins
    <2>4. OrEscalate(A, "human", OrderId(t)) \in SUBSET G
      BY <2>3, HelpersStay
    <2> QED BY <2>1, <2>2, <2>4
  <1>5. CASE t.intent = "rider_demanded_tip"
    <2> DEFINE bare == Without(A, "issue_refund")
    <2>1. bare \in SUBSET G
      BY HelpersStay
    <2>2. OrComplain(bare, "tip", OrderId(t), "rider") \in SUBSET G
      <3>1. "tip" \in Origins
        BY DEF Origins
      <3> HIDE DEF bare
      <3> QED BY <2>1, <3>1, ComplainStays
    <2> QED BY <1>5, <2>2 DEF ForceRouted
  <1>6. CASE /\ t.intent \notin {"double_charge", "cancel_request", "human_request", "rider_demanded_tip"}
             /\ ~(t.intent = "promo_failed" /\ t.order # NoOrder /\ "recent" \in t.marks)
    BY <1>6 DEF ForceRouted
  <1> QED BY <1>1, <1>2, <1>3, <1>4, <1>5, <1>6

LEMMA ClaimedStays ==
    ASSUME NEW t \in Turn, NEW G, Closed(G, t), NEW A, Capped(A, t) \in SUBSET G
    PROVE  Claimed(A, t) \in SUBSET G
  <1> DEFINE routed == ForceRouted(Capped(A, t), t)
  <1> DEFINE never == NeverArrivedRefused(routed, t)
  <1> DEFINE token == AbuserToken(never, t)
  <1> DEFINE stripped == InjectionStripped(token, t)
  <1>1. routed \in SUBSET G
    BY ForceRoutedStays
  <1>2. never \in SUBSET G
    <2> HIDE DEF routed
    <2> DEFINE bare == Without(routed, "issue_refund")
               up == OrEscalate(bare, "never_arrived", OrderId(t))
    <2>1. bare \in SUBSET G
      BY <1>1, HelpersStay DEF Origins
    <2>2. up \in SUBSET G
      <3> HIDE DEF bare
      <3> QED BY <2>1, HelpersStay DEF Origins
    <2>3. OrFlag(up, "never_arrived") \in SUBSET G
      <3> HIDE DEF up
      <3> QED BY <2>2, HelpersStay DEF Origins
    <2> QED BY <1>1, <2>3 DEF NeverArrivedRefused
  <1>3. token \in SUBSET G
    <2> HIDE DEF never
    <2>1. CASE ~(t.order # NoOrder /\ Abuser(t) /\ t.intent \in SoftAbuserIntents /\ ~t.escalated)
      BY <1>2, <2>1 DEF AbuserToken
    <2>2. CASE t.order # NoOrder /\ Abuser(t) /\ t.intent \in SoftAbuserIntents /\ ~t.escalated
      <3> DEFINE small == {a \in never : a.type = "issue_refund" => a.amount <= 300}
                 paid == IF Of(small, "issue_refund") # {} THEN small
                         ELSE small \cup {Refund("token", OrderId(t), Token(t), "wallet_credit")}
                 up == OrEscalate(paid, "token", OrderId(t))
      <3>1. paid \in SUBSET G
        BY <1>2, <2>2 DEF Closed
      <3>2. token = OrFlag(up, "token")
        BY <2>2 DEF AbuserToken, Token
      <3> HIDE DEF paid, token
      <3>3. up \in SUBSET G
        BY <3>1, HelpersStay DEF Origins
      <3> HIDE DEF up
      <3> QED BY <3>2, <3>3, HelpersStay, ZenonT(30) DEF Origins
    <2> QED BY <2>1, <2>2
  <1>4. stripped \in SUBSET G
    <2> HIDE DEF token
    <2> DEFINE bare == IF t.intent \in LegitRefundIntents THEN token ELSE Without(token, "issue_refund")
    <2>1. bare \in SUBSET G
      BY <1>3, HelpersStay DEF Origins
    <2>2. OrFlag(bare, "injection") \in SUBSET G
      <3> HIDE DEF bare
      <3> QED BY <2>1, HelpersStay DEF Origins
    <2> QED BY <1>3, <2>2 DEF InjectionStripped
  <1>5. AbuseEscalated(stripped, t) \in SUBSET G
    <2> HIDE DEF stripped
    <2> QED BY <1>4, HelpersStay DEF AbuseEscalated, Origins
  <1> QED BY <1>5 DEF Claimed

LEMMA PricedStays ==
    ASSUME NEW t \in Turn, NEW G, Closed(G, t), NEW A, Capped(A, t) \in SUBSET G
    PROVE  Priced(A, t) \in SUBSET G
  <1> DEFINE claimed == Claimed(A, t)
  <1> DEFINE held == EscalationHeld(claimed, t)
  <1> DEFINE filled == MatrixFilled(held, t)
  <1> DEFINE valued == IF WithinCap(t) /\ MatrixAmount(t) > 0 THEN {Repriced(a, t) : a \in filled} ELSE filled
  <1> DEFINE priced == MatrixPriced(filled, t)
  <1>0. \A i \in Intents : TargetOf(i) \in {"restaurant", "rider", "app", "none"}
    BY DEF TargetOf
  <1>1. claimed \in SUBSET G
    BY ClaimedStays
  <1>2. held \in SUBSET G
    <2> HIDE DEF claimed
    <2> QED BY <1>1, HelpersStay DEF EscalationHeld
  <1>3. filled \in SUBSET G
    <2> HIDE DEF held
    <2>1. CASE ~(TriesMatrix(t) /\ Unresolved(held) /\ TargetOf(t.intent) # "none" /\ WithinCap(t))
      BY <1>2, <2>1 DEF MatrixFilled
    <2>2. CASE TriesMatrix(t) /\ Unresolved(held) /\ TargetOf(t.intent) # "none" /\ WithinCap(t)
      <3> DEFINE rest == Without(held, "escalate_to_human")
                 paid == IF MatrixAmount(t) > 0
                           THEN {Refund("matrix", OrderId(t), MatrixAmount(t), "wallet_credit")} ELSE {}
                 complaint == Complaint("matrix", OrderId(t), TargetOf(t.intent))
      <3>1. rest \in SUBSET G
        BY <1>2, HelpersStay
      <3>2. paid \in SUBSET G
        BY <2>2 DEF Closed
      <3>3. complaint \in G
        <4>1. /\ OrderId(t) \in OrderIds \cup {NoOrder}
              /\ "matrix" \in Origins
              /\ TargetOf(t.intent) \in {"restaurant", "rider", "app", "none"}
          BY <1>0, OrderIdIsOne DEF Origins, Turn
        <4>2. complaint \in Action
          BY <4>1, AddedAreActions
        <4> QED BY <4>2, Types DEF Closed
      <3>4. filled = rest \cup paid \cup {complaint}
        BY <2>2 DEF MatrixFilled
      <3> HIDE DEF rest, paid, complaint, filled
      <3> QED BY <3>1, <3>2, <3>3, <3>4
    <2> QED BY <2>1, <2>2
  <1>4. priced \in SUBSET G
    <2> HIDE DEF filled
    <2>1. CASE ~(TriesMatrix(t) /\ t.intent \in MatrixActionable)
      BY <1>3, <2>1 DEF MatrixPriced
    <2>2. CASE TriesMatrix(t) /\ t.intent \in MatrixActionable
      <3>1. valued \in SUBSET G
        BY <1>3, <2>2 DEF Closed
      <3>2. priced = IF Of(valued, "issue_refund") # {}
                       THEN OrComplain(valued, "partner", OrderId(t), TargetOf(t.intent)) ELSE valued
        BY <2>2 DEF MatrixPriced
      <3>3. "partner" \in Origins /\ TargetOf(t.intent) \in {"restaurant", "rider", "app", "none"}
        BY <1>0 DEF Origins, Turn
      <3> HIDE DEF valued, priced
      <3>4. OrComplain(valued, "partner", OrderId(t), TargetOf(t.intent)) \in SUBSET G
        BY <3>1, <3>3, HelpersStay
      <3> QED BY <3>1, <3>2, <3>4
    <2> QED BY <2>1, <2>2
  <1>5. Priced(A, t) \subseteq priced
    <2>1. Priced(A, t) = Deduped(priced, t)
      BY DEF Priced
    <2> HIDE DEF priced
    <2> QED BY <2>1 DEF Deduped
  <1> HIDE DEF priced
  <1> QED BY <1>4, <1>5

LEMMA PivotStays ==
    ASSUME NEW t \in Turn, NEW G, Closed(G, t), NEW A \in SUBSET G
    PROVE  PivotReviewed(A, t) \in SUBSET G
  <1>1. "pivot" \in Origins
    BY DEF Origins
  <1>2. OrFlag(Of(A, "flag_abuse"), "pivot") \in SUBSET G
    <2> DEFINE flags == Of(A, "flag_abuse")
    <2>1. flags \in SUBSET G
      BY HelpersStay
    <2> HIDE DEF flags
    <2>2. OrFlag(flags, "pivot") \in SUBSET G
      BY <1>1, <2>1, FlagStays
    <2> QED BY <2>2 DEF flags
  <1>3. OrFlag(OrEscalate(A, "pivot", OrderId(t)), "pivot") \in SUBSET G
    <2> DEFINE up == OrEscalate(A, "pivot", OrderId(t))
    <2>1. up \in SUBSET G
      BY <1>1, HelpersStay
    <2> HIDE DEF up
    <2>2. OrFlag(up, "pivot") \in SUBSET G
      BY <1>1, <2>1, FlagStays
    <2> QED BY <2>2 DEF up
  <1> QED BY <1>2, <1>3 DEF PivotReviewed

LEMMA HandoffStays ==
    ASSUME NEW t \in Turn, NEW G, Closed(G, t), NEW A \in SUBSET G
    PROVE  HandoffKept(A, t) \in SUBSET G
  <1> DEFINE rest == Without(A, "escalate_to_human")
  <1>1. rest \in SUBSET G /\ "handoff" \in Origins
    BY HelpersStay DEF Origins
  <1>2. Closing("handoff") \in G
    BY <1>1, HelpersStay
  <1>3. HandoffKept(A, t) \in {A, rest, rest \cup {Closing("handoff")}}
    BY DEF HandoffKept
  <1> HIDE DEF rest
  <1> QED BY <1>1, <1>2, <1>3

LEMMA SafetyNetStays ==
    ASSUME NEW t \in Turn, NEW G, Closed(G, t), NEW A \in SUBSET G
    PROVE  SafetyNet(A, t) \in SUBSET G
  <1>1. "safety" \in Origins /\ OrderId(t) \in OrderIds \cup {NoOrder}
    BY OrderIdIsOne DEF Origins
  <1>2. Escalation("safety", OrderId(t)) \in G /\ Flag("safety") \in G /\ Closing("safety") \in G
    <2>1. "none" \in {"restaurant", "rider", "app", "none"} /\ "none" \in {"cash", "wallet_credit", "none"} /\ 0 \in Int
      OBVIOUS
    <2>2. Escalation("safety", OrderId(t)) \in Action /\ Flag("safety") \in Action /\ Closing("safety") \in Action
      BY <1>1, <2>1, AddedAreActions
    <2> QED BY <2>2, Types DEF Closed
  <1> QED BY <1>2 DEF SafetyNet

(* All of validate(): once the refunds are capped to the order, every list  *)
(* on the way to the reply is within the closed set.                        *)
LEMMA DecidedStays ==
    ASSUME NEW t \in Turn, NEW G, Closed(G, t), NEW A, Capped(A, t) \in SUBSET G
    PROVE  /\ PivotReviewed(Priced(A, t), t) \in SUBSET G
           /\ Decided(A, t) \in SUBSET G
           /\ Shaped(Decided(A, t)) \in SUBSET G
  <1> DEFINE pivoted == PivotReviewed(Priced(A, t), t)
  <1> DEFINE lowered == Downgraded(pivoted, t)
  <1> DEFINE kept == HandoffKept(lowered, t)
  <1> DEFINE net == SafetyNet(Valid(kept), t)
  <1>1. pivoted \in SUBSET G
    <2> Priced(A, t) \in SUBSET G
      BY PricedStays
    <2> QED BY PivotStays
  <1>2. lowered \in SUBSET G
    <2> HIDE DEF pivoted
    <2> "downgrade" \in Origins
      BY DEF Origins
    <2> QED BY <1>1, HelpersStay DEF Downgraded
  <1>3. kept \in SUBSET G
    <2> HIDE DEF lowered
    <2> QED BY <1>2, HandoffStays
  <1>4. net \in SUBSET G
    <2> HIDE DEF kept
    <2> Valid(kept) \in SUBSET G
      BY <1>3 DEF Valid
    <2> QED BY SafetyNetStays
  <1>5. Closing("marker") \in G
    <2> "marker" \in Origins /\ {} \in SUBSET G
      BY DEF Origins
    <2> QED BY HelpersStay
  <1>6. Decided(A, t) \in {{Closing("marker")}, net}
    BY DEF Decided
  <1>7. Decided(A, t) \in SUBSET G
    <2> HIDE DEF net
    <2> QED BY <1>4, <1>5, <1>6
  <1> QED BY <1>1, <1>7 DEF Shaped

LEMMA RepricedIs ==
    ASSUME NEW t \in Turn, NEW a \in Action
    PROVE  /\ Repriced(a, t) \in Action
           /\ Repriced(a, t).type = a.type /\ Repriced(a, t).from = a.from
           /\ Repriced(a, t).amount \in {a.amount, MatrixAmount(t)}
           /\ a.type # "issue_refund" => Repriced(a, t) = a
  <1>1. MatrixAmount(t) \in Int /\ OrderId(t) \in OrderIds \cup {NoOrder}
    BY MatrixWithinOrder, OrderIdIsOne
  <1> QED BY <1>1 DEF Repriced, Action

LEMMA CappedIs ==
    ASSUME NEW t \in Turn, NEW a \in Action
    PROVE  [a EXCEPT !.amount = t.total] \in Action
  BY DEF Action, Turn

LEMMA CreditsAreNat ==
    ASSUME NEW t \in Turn
    PROVE  /\ PromoCredit(t) \in Nat /\ (PromoCredit(t) <= t.total \/ PromoCredit(t) = 50)
           /\ Token(t) \in Nat /\ (IF t.total = 0 THEN Token(t) = 300 ELSE Token(t) <= t.total)
  <1>1. t.total \in Nat
    BY DEF Turn
  <1>2. t.total \div 10 \in Nat /\ t.total \div 10 <= t.total
    BY <1>1
  <1> QED BY <1>1, <1>2 DEF PromoCredit, Token, Least

(* The credits as actions.                                                  *)
LEMMA CreditsAreActions ==
    ASSUME NEW t \in Turn
    PROVE  /\ Refund("promo", OrderId(t), PromoCredit(t), "wallet_credit") \in Action
           /\ Refund("token", OrderId(t), Token(t), "wallet_credit") \in Action
           /\ Refund("matrix", OrderId(t), MatrixAmount(t), "wallet_credit") \in Action
           /\ \A from, amount : Refund(from, OrderId(t), amount, "wallet_credit").from = from
           /\ \A from, amount : Refund(from, OrderId(t), amount, "wallet_credit").amount = amount
  <1>1. PromoCredit(t) \in Int /\ Token(t) \in Int /\ MatrixAmount(t) \in Int
    BY CreditsAreNat, MatrixWithinOrder
  <1>2. /\ {"promo", "token", "matrix"} \subseteq Origins
        /\ "wallet_credit" \in {"cash", "wallet_credit", "none"} /\ "app" \in {"restaurant", "rider", "app", "none"}
    BY DEF Origins
  <1>3. \A from \in Origins, amount \in Int : Refund(from, OrderId(t), amount, "wallet_credit") \in Action
    BY <1>2, AddedAreActions, OrderIdIsOne
  <1>4. /\ \A from, amount : Refund(from, OrderId(t), amount, "wallet_credit").from = from
        /\ \A from, amount : Refund(from, OrderId(t), amount, "wallet_credit").amount = amount
    BY DEF Refund, Plain
  <1> QED BY <1>1, <1>2, <1>3, <1>4

LEMMA ActionIsClosed ==
    ASSUME NEW t \in Turn
    PROVE  /\ Closed(Action, t)
           /\ \A A \in SUBSET Action : Capped(A, t) \in SUBSET Action
  <1>1. Closed(Action, t)
    BY CreditsAreActions, RepricedIs DEF Closed
  <1>2. \A A \in SUBSET Action : Capped(A, t) \in SUBSET Action
    BY CappedIs DEF Capped
  <1> QED BY <1>1, <1>2

(* Refunds within the order, the least promo credit, and the token for an   *)
(* order that cost nothing.                                                 *)
Affordable(t) ==
    {a \in Action : a.type = "issue_refund" =>
        \/ a.amount <= t.total
        \/ a.from = "promo" /\ a.amount = 50
        \/ a.from = "token" /\ a.amount = 300 /\ t.total = 0}

LEMMA AffordableIsClosed ==
    ASSUME NEW t \in Turn, t.order # NoOrder
    PROVE  /\ Closed(Affordable(t), t)
           /\ \A A \in SUBSET Action : Capped(A, t) \in SUBSET Affordable(t)
  <1>1. \A a \in Action : a.type # "issue_refund" => a \in Affordable(t)
    BY DEF Affordable
  <1>2. /\ Refund("promo", OrderId(t), PromoCredit(t), "wallet_credit") \in Affordable(t)
        /\ Refund("token", OrderId(t), Token(t), "wallet_credit") \in Affordable(t)
        /\ Refund("matrix", OrderId(t), MatrixAmount(t), "wallet_credit") \in Affordable(t)
    BY CreditsAreActions, CreditsAreNat, MatrixWithinOrder DEF Affordable
  <1>3. ASSUME NEW a \in Affordable(t) PROVE Repriced(a, t) \in Affordable(t)
    <2>1. a \in Action
      BY DEF Affordable
    <2>2. /\ Repriced(a, t) \in Action /\ Repriced(a, t).from = a.from /\ Repriced(a, t).type = a.type
          /\ Repriced(a, t).amount \in {a.amount, MatrixAmount(t)} /\ MatrixAmount(t) <= t.total
      BY <2>1, RepricedIs, MatrixWithinOrder
    <2> QED BY <2>2 DEF Affordable
  <1>4. ASSUME NEW A \in SUBSET Action, NEW a \in A
        PROVE  (IF t.order # NoOrder /\ a.type = "issue_refund" /\ a.amount > t.total
                  THEN [a EXCEPT !.amount = t.total] ELSE a) \in Affordable(t)
    <2>1. t.total \in Nat /\ a.amount \in Int
      BY DEF Turn, Action
    <2>2. CASE a.type = "issue_refund" /\ a.amount > t.total
      <3> DEFINE c == [a EXCEPT !.amount = t.total]
      <3>1. c \in Action /\ c.amount = t.total
        BY CappedIs DEF Action
      <3> HIDE DEF c
      <3>2. c \in Affordable(t)
        BY <2>1, <3>1 DEF Affordable
      <3> QED BY <2>2, <3>2 DEF c
    <2>3. CASE ~(a.type = "issue_refund" /\ a.amount > t.total)
      BY <2>1, <2>3 DEF Affordable
    <2> QED BY <2>2, <2>3
  <1>5. \A A \in SUBSET Action : Capped(A, t) \in SUBSET Affordable(t)
    BY <1>4 DEF Capped
  <1> QED BY <1>1, <1>2, <1>3, <1>5 DEF Closed

(* Where the matrix is not consulted, refunds have another origin.          *)
Credited == {a \in Action : a.type = "issue_refund" => a.from \in Slots \cup {"promo", "token"}}

LEMMA CreditedIsClosed ==
    ASSUME NEW t \in Turn, ~TriesMatrix(t)
    PROVE  /\ Closed(Credited, t)
           /\ \A A \in SUBSET Action : (\A a \in A : a.from \in Slots) => Capped(A, t) \in SUBSET Credited
  <1>1. Closed(Credited, t)
    BY CreditsAreActions DEF Closed, Credited
  <1>2. ASSUME NEW A \in SUBSET Action, \A a \in A : a.from \in Slots
        PROVE  Capped(A, t) \in SUBSET Credited
    <2>1. ASSUME NEW a \in A
          PROVE  [a EXCEPT !.amount = t.total] \in Credited /\ a \in Credited
      <3>1. [a EXCEPT !.amount = t.total] \in Action /\ [a EXCEPT !.amount = t.total].from = a.from
        BY CappedIs DEF Action
      <3> QED BY <1>2, <3>1 DEF Credited
    <2> QED BY <2>1 DEF Capped
  <1> QED BY <1>1, <1>2

(* What the matrix has priced once it does not price again.                 *)
LEMMA RepricedTwice ==
    ASSUME NEW t \in Turn, NEW a \in Action
    PROVE  Repriced(Repriced(a, t), t) = Repriced(a, t)
  BY DEF Repriced, Action

-----------------------------------------------------------------------------
(* Sums over a finite set of actions.                                       *)

(* A family of subsets that has every subset whose proper subsets it has,   *)
(* has them all.                                                            *)
LEMMA SubsetInduction ==
    ASSUME NEW S, IsFiniteSet(S), NEW F,
           \A X \in SUBSET S : (\A Y \in SUBSET X : Y # X => Y \in F) => X \in F
    PROVE  SUBSET S \subseteq F
  <1> DEFINE T == {X \in SUBSET S : X \notin F}
  <1> SUFFICES ASSUME T # {} PROVE FALSE
    OBVIOUS
  <1>1. IsWellFoundedOn(StrictSubsetOrdering(S), FiniteSubsetsOf(S)) /\ FiniteSubsetsOf(S) = SUBSET S
    BY FS_StrictSubsetOrderingWellFounded, FS_FiniteSubsetsOfFinite
  <1>2. PICK X \in T : \A Y \in T : ~ (<<Y, X>> \in StrictSubsetOrdering(S))
    <2>1. T \subseteq FiniteSubsetsOf(S)
      BY <1>1
    <2> HIDE DEF T
    <2> QED BY <1>1, <2>1, WFMin
  <1>3. ASSUME NEW Y \in SUBSET X, Y # X PROVE Y \in F
    <2>1. X \in SUBSET S /\ Y \in SUBSET S
      BY <1>3
    <2>2. <<Y, X>> \in StrictSubsetOrdering(S)
      BY <1>3, <2>1 DEF StrictSubsetOrdering
    <2> QED BY <1>2, <2>1, <2>2
  <1> QED BY <1>3

One(X) == CHOOSE x \in X : TRUE

(* The function by which MapThenSumSet adds up the subsets of S.            *)
Sums(it, S) ==
    it = [X \in SUBSET S |-> IF X = {} THEN 0 ELSE One(X).amount + it[X \ {One(X)}]]
Total(S) == (CHOOSE it : Sums(it, S))[S]

LEMMA TotalIs ==
    ASSUME NEW A
    PROVE  RefundTotal(A) = Total(Of(A, "issue_refund"))
  BY DEF RefundTotal, MapThenSumSet, MapThenFoldSet, Total, Sums, One

LEMMA OneIsIn ==
    ASSUME NEW X, X # {}
    PROVE  One(X) \in X /\ X \ {One(X)} \in SUBSET X /\ X \ {One(X)} # X
  BY DEF One

LEMMA SumsAt ==
    ASSUME NEW S, NEW it, Sums(it, S), NEW X \in SUBSET S
    PROVE  it[X] = IF X = {} THEN 0 ELSE One(X).amount + it[X \ {One(X)}]
  BY DEF Sums

(* Two such functions agree where both are defined.                         *)
LEMMA SumsAgree ==
    ASSUME NEW S, IsFiniteSet(S), NEW U \in SUBSET S, NEW f, Sums(f, S), NEW g, Sums(g, U)
    PROVE  \A X \in SUBSET U : f[X] = g[X]
  <1> DEFINE F == {X \in SUBSET U : f[X] = g[X]}
  <1>1. ASSUME NEW X \in SUBSET U, \A Y \in SUBSET X : Y # X => Y \in F
        PROVE  X \in F
    <2>1. CASE X = {}
      <3>1. X \in SUBSET S
        OBVIOUS
      <3> QED BY <2>1, <3>1, SumsAt
    <2>2. CASE X # {}
      <3> DEFINE W == X \ {One(X)}
      <3>1. W \in F /\ X \in SUBSET S
        BY <1>1, <2>2, OneIsIn
      <3>2. f[X] = One(X).amount + f[W] /\ g[X] = One(X).amount + g[W]
        BY <2>2, <3>1, SumsAt
      <3> HIDE DEF W
      <3> QED BY <3>1, <3>2
    <2> QED BY <2>1, <2>2
  <1>2. IsFiniteSet(U)
    BY FS_Subset
  <1>3. SUBSET U \subseteq F
    <2> HIDE DEF F
    <2> QED BY <1>1, <1>2, SubsetInduction
  <1> QED BY <1>3

(* There is such a function.                                                *)
LEMMA SumsExist ==
    ASSUME NEW S, IsFiniteSet(S)
    PROVE  \E it : Sums(it, S)
  <1> DEFINE F == {X \in SUBSET S : \E it : Sums(it, X)}
  <1>1. ASSUME NEW X \in SUBSET S, \A Y \in SUBSET X : Y # X => Y \in F
        PROVE  X \in F
    <2> DEFINE part(Z) == CHOOSE it : Sums(it, Z)
               h == [Z \in SUBSET X |->
                       IF Z # X THEN Total(Z)
                       ELSE IF X = {} THEN 0 ELSE One(X).amount + Total(X \ {One(X)})]
    <2>1. ASSUME NEW Z \in SUBSET X, Z # X PROVE Sums(part(Z), Z) /\ Total(Z) = part(Z)[Z]
      BY <1>1, <2>1 DEF Total
    <2>2. ASSUME NEW Z \in SUBSET X
          PROVE  h[Z] = IF Z = {} THEN 0 ELSE One(Z).amount + h[Z \ {One(Z)}]
      <3> DEFINE W == Z \ {One(Z)}
      <3>1. Z # {} => W \in SUBSET Z /\ W \in SUBSET X /\ W # X /\ h[W] = Total(W)
        <4>1. Z # {} => One(Z) \in Z /\ One(Z) \notin W
          BY OneIsIn
        <4> QED BY <4>1
      <3>2. CASE Z = X
        BY <3>1, <3>2
      <3>3. CASE Z # X
        <4>1. h[Z] = part(Z)[Z]
          BY <2>1, <3>3
        <4>2. CASE Z = {}
          <5>1. part(Z)[Z] = 0
            BY <2>1, <3>3, <4>2, SumsAt
          <5> QED BY <4>1, <4>2, <5>1
        <4>3. CASE Z # {}
          <5>1. part(Z)[Z] = One(Z).amount + part(Z)[W]
            <6> HIDE DEF part
            <6> QED BY <2>1, <3>3, <4>3, SumsAt
          <5>2. part(Z)[W] = Total(W)
            <6>1. /\ Sums(part(Z), Z) /\ Sums(part(W), W) /\ Total(W) = part(W)[W]
                  /\ W \in SUBSET Z /\ IsFiniteSet(Z)
              <7>1. IsFiniteSet(Z) /\ W \in SUBSET Z /\ W \in SUBSET X /\ W # X
                BY <3>1, <4>3, FS_Subset
              <7> HIDE DEF part, W, h
              <7> QED BY <2>1, <3>3, <7>1
            <6> HIDE DEF part, W
            <6>2. part(Z)[W] = part(W)[W]
              BY <6>1, SumsAgree
            <6> QED BY <6>1, <6>2
          <5> HIDE DEF h, W, part
          <5> QED BY <3>1, <4>1, <4>3, <5>1, <5>2 DEF W
        <4> QED BY <4>2, <4>3
      <3> QED BY <3>2, <3>3
    <2>3. h = [Z \in SUBSET X |-> h[Z]]
      OBVIOUS
    <2> HIDE DEF h
    <2>4. h = [Z \in SUBSET X |-> IF Z = {} THEN 0 ELSE One(Z).amount + h[Z \ {One(Z)}]]
      BY ONLY <2>2, <2>3, Zenon
    <2>5. Sums(h, X)
      BY <2>4 DEF Sums
    <2> QED BY <2>5
  <1>2. SUBSET S \subseteq F
    <2> HIDE DEF F
    <2> QED BY <1>1, SubsetInduction
  <1> QED BY <1>2

LEMMA TotalStep ==
    ASSUME NEW S, IsFiniteSet(S)
    PROVE  Total(S) = IF S = {} THEN 0 ELSE One(S).amount + Total(S \ {One(S)})
  <1> DEFINE part(Z) == CHOOSE it : Sums(it, Z)
             W == S \ {One(S)}
  <1>1. \A Z \in SUBSET S : Sums(part(Z), Z)
    <2>1. \A Z \in SUBSET S : \E it : Sums(it, Z)
      BY SumsExist, FS_Subset
    <2> QED BY <2>1
  <1>2. Sums(part(S), S) /\ Sums(part(W), W) /\ W \in SUBSET S /\ S \in SUBSET S
    <2>1. S \in SUBSET S /\ W \in SUBSET S
      OBVIOUS
    <2> HIDE DEF part, W
    <2> QED BY <1>1, <2>1
  <1>3. Total(S) = part(S)[S] /\ Total(W) = part(W)[W]
    BY DEF Total
  <1> HIDE DEF part
  <1>4. part(S)[S] = IF S = {} THEN 0 ELSE One(S).amount + part(S)[W]
    BY <1>2, SumsAt, ZenonT(60)
  <1>5. part(S)[W] = part(W)[W]
    <2> HIDE DEF W
    <2> QED BY <1>2, SumsAgree
  <1> QED BY <1>3, <1>4, <1>5

Priceable(S) == \A a \in S : a.amount \in Int

LEMMA TotalIsInt ==
    ASSUME NEW S, IsFiniteSet(S), Priceable(S)
    PROVE  \A X \in SUBSET S : Total(X) \in Int
  <1> DEFINE F == {X \in SUBSET S : Total(X) \in Int}
  <1>1. ASSUME NEW X \in SUBSET S, \A Y \in SUBSET X : Y # X => Y \in F
        PROVE  X \in F
    <2>1. Total(X) = IF X = {} THEN 0 ELSE One(X).amount + Total(X \ {One(X)})
      BY FS_Subset, TotalStep
    <2>2. CASE X = {}
      BY <2>1, <2>2
    <2>3. CASE X # {}
      <3>1. One(X).amount \in Int /\ Total(X \ {One(X)}) \in Int
        BY <1>1, <2>3, OneIsIn DEF Priceable
      <3> QED BY <2>1, <2>3, <3>1
    <2> QED BY <2>2, <2>3
  <1>2. SUBSET S \subseteq F
    <2> HIDE DEF F
    <2> QED BY <1>1, SubsetInduction
  <1> QED BY <1>2

(* Any element may be added last.                                           *)
LEMMA TotalWithout ==
    ASSUME NEW S, IsFiniteSet(S), Priceable(S)
    PROVE  \A X \in SUBSET S : \A y \in X : Total(X) = y.amount + Total(X \ {y})
  <1> DEFINE F == {X \in SUBSET S : \A y \in X : Total(X) = y.amount + Total(X \ {y})}
  <1>1. ASSUME NEW X \in SUBSET S, \A Y \in SUBSET X : Y # X => Y \in F, NEW y \in X
        PROVE  Total(X) = y.amount + Total(X \ {y})
    <2> DEFINE x == One(X)
    <2>1. x \in X
      BY OneIsIn
    <2>2. Total(X) = x.amount + Total(X \ {x})
      BY FS_Subset, TotalStep
    <2> HIDE DEF x
    <2>3. CASE x = y
      BY <2>2, <2>3
    <2>4. CASE x # y
      <3> DEFINE both == X \ {x, y}
      <3>1. (X \ {x}) \ {y} = both /\ (X \ {y}) \ {x} = both
        OBVIOUS
      <3>2. X \ {x} \in F /\ y \in X \ {x} /\ X \ {y} \in F /\ x \in X \ {y}
        BY <1>1, <2>1, <2>4
      <3>3. Total(X \ {x}) = y.amount + Total(both) /\ Total(X \ {y}) = x.amount + Total(both)
        BY <3>1, <3>2
      <3>4. x.amount \in Int /\ y.amount \in Int /\ Total(both) \in Int
        <4>1. both \in SUBSET S
          OBVIOUS
        <4> HIDE DEF both
        <4> QED BY <2>1, <4>1, TotalIsInt DEF Priceable
      <3> HIDE DEF both, F
      <3> QED BY <2>2, <3>3, <3>4
    <2> QED BY <2>3, <2>4
  <1>2. \A X \in SUBSET S : (\A Y \in SUBSET X : Y # X => Y \in F) => X \in F
    BY <1>1
  <1>3. SUBSET S \subseteq F
    <2> HIDE DEF F
    <2> QED BY <1>2, SubsetInduction
  <1> QED BY <1>3

(* Dropping actions that are not negative never raises the total.           *)
LEMMA TotalGrows ==
    ASSUME NEW S, IsFiniteSet(S), Priceable(S), NEW U \in SUBSET S, \A a \in S \ U : a.amount >= 0
    PROVE  Total(U) <= Total(S)
  <1> DEFINE F == {X \in SUBSET S : U \subseteq X => Total(U) <= Total(X)}
  <1>0. \A X \in SUBSET S : Total(X) \in Int
    BY TotalIsInt
  <1>1. ASSUME NEW X \in SUBSET S, \A Y \in SUBSET X : Y # X => Y \in F, U \subseteq X
        PROVE  Total(U) <= Total(X)
    <2>1. CASE X = U
      BY <1>0, <2>1
    <2>2. CASE X # U
      <3>1. PICK y \in X : y \notin U
        BY <1>1, <2>2
      <3> DEFINE W == X \ {y}
      <3>2. W \in F /\ U \subseteq W /\ W \in SUBSET S
        BY <1>1, <3>1
      <3>3. Total(U) <= Total(W)
        BY <3>2
      <3>4. Total(X) = y.amount + Total(W) /\ y.amount \in Int /\ y.amount >= 0
        BY <3>1, TotalWithout DEF Priceable
      <3> HIDE DEF W, F
      <3> QED BY <1>0, <3>2, <3>3, <3>4
    <2> QED BY <2>1, <2>2
  <1>2. \A X \in SUBSET S : (\A Y \in SUBSET X : Y # X => Y \in F) => X \in F
    BY <1>1
  <1>3. SUBSET S \subseteq F
    <2> HIDE DEF F
    <2> QED BY <1>2, SubsetInduction
  <1> QED BY <1>3

-----------------------------------------------------------------------------
(* The soft cap.                                                            *)

LEMMA ImageIsFinite ==
    ASSUME NEW S, IsFiniteSet(S), NEW f, f = [x \in S |-> f[x]]
    PROVE  IsFiniteSet({f[x] : x \in S})
  <1> DEFINE T == {f[x] : x \in S}
  <1>1. f \in Surjection(S, T)
    BY DEF Surjection
  <1> HIDE DEF T
  <1>2. IsFiniteSet(T)
    BY <1>1, FS_Surjection
  <1> QED BY <1>2 DEF T

(* The refunds the soft cap looks at are finitely many.                     *)
LEMMA RefundsAreFew ==
    ASSUME NEW t \in Turn, NEW A \in SUBSET Action, IsFiniteSet(A)
    PROVE  LET R == Of(PivotReviewed(Priced(A, t), t), "issue_refund") IN IsFiniteSet(R) /\ Priceable(R)
  <1> DEFINE capped == Capped(A, t)
             promo == Refund("promo", OrderId(t), PromoCredit(t), "wallet_credit")
             token == Refund("token", OrderId(t), Token(t), "wallet_credit")
             matrix == Refund("matrix", OrderId(t), MatrixAmount(t), "wallet_credit")
             S == capped \cup {promo, token, matrix}
             M == {Repriced(a, t) : a \in S}
             G == {a \in Action : a.type # "issue_refund"} \cup S \cup M
  <1>1. IsFiniteSet(capped) /\ Priceable(capped) /\ capped \in SUBSET Action
    <2> DEFINE f == [a \in A |-> IF t.order # NoOrder /\ a.type = "issue_refund" /\ a.amount > t.total
                                   THEN [a EXCEPT !.amount = t.total] ELSE a]
    <2>1. capped = {f[a] : a \in A}
      BY DEF Capped
    <2>2. IsFiniteSet({f[a] : a \in A})
      <3>1. f = [a \in A |-> f[a]]
        OBVIOUS
      <3> HIDE DEF f
      <3> QED BY <3>1, ImageIsFinite
    <2>3. ASSUME NEW a \in A PROVE f[a].amount \in Int
      BY DEF Action, Turn
    <2>4. Priceable(capped)
      <3> HIDE DEF f
      <3> QED BY <2>1, <2>3 DEF Priceable
    <2> QED BY <2>1, <2>2, <2>4, ActionIsClosed
  <1>2. /\ {promo, token, matrix} \in SUBSET Action
        /\ Priceable({promo, token, matrix})
    BY CreditsAreActions, CreditsAreNat, MatrixWithinOrder DEF Priceable
  <1> HIDE DEF capped, promo, token, matrix
  <1>3. IsFiniteSet(S) /\ Priceable(S) /\ S \in SUBSET Action
    <2>1. IsFiniteSet({promo, token, matrix})
      <3>1. IsFiniteSet({promo})
        BY FS_Singleton
      <3>2. IsFiniteSet({promo} \cup {token})
        BY <3>1, FS_AddElement
      <3>3. IsFiniteSet(({promo} \cup {token}) \cup {matrix})
        BY <3>2, FS_AddElement
      <3>4. {promo, token, matrix} = ({promo} \cup {token}) \cup {matrix}
        OBVIOUS
      <3> QED BY <3>3, <3>4
    <2>2. IsFiniteSet(S)
      BY <1>1, <2>1, FS_Union
    <2> QED BY <1>1, <1>2, <2>2 DEF Priceable
  <1>4. promo \in S /\ token \in S /\ matrix \in S /\ capped \subseteq S
    OBVIOUS
  <1> HIDE DEF S
  <1>5. IsFiniteSet(M) /\ Priceable(M) /\ M \in SUBSET Action
    <2> DEFINE f == [a \in S |-> Repriced(a, t)]
    <2>1. IsFiniteSet({f[a] : a \in S})
      <3>1. f = [a \in S |-> f[a]]
        OBVIOUS
      <3> HIDE DEF f
      <3> QED BY <1>3, <3>1, ImageIsFinite
    <2>2. M = {f[a] : a \in S}
      OBVIOUS
    <2>3. \A a \in S : Repriced(a, t) \in Action /\ Repriced(a, t).amount \in Int
      BY <1>3, RepricedIs, MatrixWithinOrder DEF Priceable
    <2> QED BY <2>1, <2>2, <2>3 DEF Priceable
  <1>6. Closed(G, t)
    <2>1. ASSUME NEW a \in G PROVE Repriced(a, t) \in G
      <3>1. CASE a \in {b \in Action : b.type # "issue_refund"}
        BY <3>1, RepricedIs
      <3>2. CASE a \in S
        BY <3>2
      <3>3. CASE a \in M
        <4>1. PICK b \in S : a = Repriced(b, t)
          BY <3>3
        <4>2. Repriced(a, t) = a
          BY <1>3, <4>1, RepricedTwice
        <4> QED BY <3>3, <4>2
      <3> QED BY <3>1, <3>2, <3>3
    <2>2. promo \in G /\ token \in G /\ matrix \in G
      BY <1>4
    <2>3. \A a \in Action : a.type # "issue_refund" => a \in G
      OBVIOUS
    <2> HIDE DEF G
    <2> QED BY <2>1, <2>2, <2>3 DEF Closed, promo, token, matrix
  <1>7. PivotReviewed(Priced(A, t), t) \in SUBSET G
    <2>1. Capped(A, t) \in SUBSET G
      BY <1>4 DEF capped
    <2> HIDE DEF G
    <2> QED BY <1>6, <2>1, DecidedStays
  <1>8. Of(PivotReviewed(Priced(A, t), t), "issue_refund") \subseteq S \cup M
    <2> DEFINE pivoted == PivotReviewed(Priced(A, t), t)
    <2>1. pivoted \in SUBSET G
      BY <1>7
    <2> HIDE DEF pivoted, M
    <2>2. Of(pivoted, "issue_refund") \subseteq S \cup M
      BY <2>1 DEF Of
    <2> QED BY <2>2 DEF pivoted
  <1> HIDE DEF M
  <1>9. IsFiniteSet(S \cup M) /\ Priceable(S \cup M)
    BY <1>3, <1>5, FS_Union DEF Priceable
  <1> QED BY <1>8, <1>9, FS_Subset DEF Priceable

(* The rules after the pivot give no refund that was not there.             *)
LEMMA NoLaterRefund ==
    ASSUME NEW A, NEW t, "marker" \notin t.marks
    PROVE  Of(Shaped(Decided(A, t)), "issue_refund") \subseteq Of(PivotReviewed(Priced(A, t), t), "issue_refund")
  <1> DEFINE pivoted == PivotReviewed(Priced(A, t), t)
  <1> DEFINE lowered == Downgraded(pivoted, t)
  <1> DEFINE kept == HandoffKept(lowered, t)
  <1> DEFINE net == SafetyNet(Valid(kept), t)
  <1>1. \A a \in lowered : a.type = "issue_refund" => a \in pivoted
    <2> HIDE DEF pivoted
    <2> QED BY Types DEF Downgraded, OrEscalate
  <1>2. \A a \in kept : a.type = "issue_refund" => a \in lowered
    <2> HIDE DEF lowered
    <2> QED BY Types DEF HandoffKept, Without
  <1>3. \A a \in net : a.type = "issue_refund" => a \in kept
    <2> HIDE DEF kept
    <2> QED BY Types DEF SafetyNet, Valid
  <1>4. Decided(A, t) = net
    BY DEF Decided
  <1> HIDE DEF pivoted, lowered, kept, net
  <1> QED BY <1>1, <1>2, <1>3, <1>4 DEF Of, Shaped, pivoted

(* A negative refund is one that Stage 1 proposed, as it was.               *)
LEMMA NegativesAreProposed ==
    ASSUME NEW t \in Turn, NEW A \in SUBSET Action, NEW a \in PivotReviewed(Priced(A, t), t),
           a.type = "issue_refund", a.amount < 0
    PROVE  a \in A
  <1> DEFINE G == {b \in Action : b.type # "issue_refund" \/ b.amount >= 0} \cup A
  <1>1. Closed(G, t)
    <2>1. /\ Refund("promo", OrderId(t), PromoCredit(t), "wallet_credit") \in G
          /\ Refund("token", OrderId(t), Token(t), "wallet_credit") \in G
          /\ Refund("matrix", OrderId(t), MatrixAmount(t), "wallet_credit") \in G
      BY CreditsAreActions, CreditsAreNat, MatrixWithinOrder
    <2>2. ASSUME NEW b \in G PROVE Repriced(b, t) \in G
      <3>1. b \in Action
        OBVIOUS
      <3>2. Repriced(b, t) \in Action /\ (Repriced(b, t) = b \/ Repriced(b, t).amount = MatrixAmount(t))
        <4>1. Repriced(b, t) \in Action
          BY <3>1, RepricedIs
        <4>2. Repriced(b, t) = b \/ Repriced(b, t).amount = MatrixAmount(t)
          BY <3>1 DEF Repriced, Action
        <4> QED BY <4>1, <4>2
      <3> QED BY <3>2, MatrixWithinOrder
    <2>3. \A b \in Action : b.type # "issue_refund" => b \in G
      OBVIOUS
    <2> HIDE DEF G
    <2> QED BY <2>1, <2>2, <2>3 DEF Closed
  <1>2. Capped(A, t) \in SUBSET G
    <2>1. ASSUME NEW b \in A PROVE [b EXCEPT !.amount = t.total] \in G
      <3>1. [b EXCEPT !.amount = t.total] \in Action /\ [b EXCEPT !.amount = t.total].amount = t.total
        BY CappedIs DEF Action
      <3>2. t.total >= 0
        BY DEF Turn
      <3> DEFINE c == [b EXCEPT !.amount = t.total]
      <3>3. c \in Action /\ c.amount >= 0
        BY <3>1, <3>2
      <3> HIDE DEF c
      <3>4. c \in G
        BY <3>3
      <3> QED BY <3>4 DEF c
    <2> QED BY <2>1 DEF Capped
  <1>3. a \in G
    <2> HIDE DEF G
    <2> QED BY <1>1, <1>2, DecidedStays
  <1>4. a \in Action => a.amount \in Int
    BY DEF Action
  <1> QED BY <1>3, <1>4

(* The refunds that are sent are those the soft cap looked at, but for the  *)
(* ones without an order number, amount or method.                          *)
LEMMA DroppedAreVoid ==
    ASSUME NEW A, NEW t, "marker" \notin t.marks,
           NEW r \in Of(Shaped(Decided(A, t)), "issue_refund"),
           NEW a \in Of(PivotReviewed(Priced(A, t), t), "issue_refund"), a.amount # 0
    PROVE  a \in Of(Shaped(Decided(A, t)), "issue_refund") \/ a.order = NoOrder \/ a.method = "none"
  <1> DEFINE pivoted == PivotReviewed(Priced(A, t), t)
  <1> DEFINE lowered == Downgraded(pivoted, t)
  <1> DEFINE valid == Valid(lowered)
  <1>1. a \in lowered /\ a.type = "issue_refund"
    <2> HIDE DEF pivoted
    <2>1. pivoted \subseteq lowered
      BY DEF Downgraded, OrEscalate
    <2> QED BY <2>1 DEF Of, pivoted
  <1>2. HandoffKept(lowered, t) = lowered
    <2> HIDE DEF lowered
    <2>1. a \in Of(lowered, "issue_refund")
      BY <1>1 DEF Of
    <2> QED BY <2>1 DEF HandoffKept, Unresolved
  <1>3. Decided(A, t) = SafetyNet(valid, t)
    <2> HIDE DEF lowered
    <2> QED BY <1>2 DEF Decided, lowered
  <1>4. valid = SafetyNet(valid, t)
    <2>1. r \in SafetyNet(valid, t) /\ r.type = "issue_refund"
      BY <1>3 DEF Of, Shaped
    <2> HIDE DEF valid
    <2> QED BY <2>1, Types DEF SafetyNet
  <1>5. a \in valid \/ a.order = NoOrder
    <2> HIDE DEF lowered
    <2> QED BY <1>1 DEF Valid
  <1> HIDE DEF valid, lowered
  <1> QED BY <1>1, <1>3, <1>4, <1>5 DEF Of, Shaped

(* More than the soft cap leaves a hand-over (stage2_validator.py: 606-650).*)
LEMMA SoftCapDecided ==
    ASSUME NEW t \in Turn, "marker" \notin t.marks, ~GoldClean(t), ~AwaitsOrder(t),
           NEW A \in SUBSET Action, IsFiniteSet(A), ~Offset(A),
           RefundTotal(Shaped(Decided(A, t))) > SoftCap
    PROVE  Escalates(Decided(A, t))
  <1> DEFINE pivoted == PivotReviewed(Priced(A, t), t)
  <1> DEFINE R == Of(pivoted, "issue_refund")
  <1> DEFINE U == Of(Shaped(Decided(A, t)), "issue_refund")
  <1> DEFINE lowered == Downgraded(pivoted, t)
  <1> DEFINE valid == Valid(lowered)
  <1>1. IsFiniteSet(R) /\ Priceable(R) /\ U \in SUBSET R
    BY RefundsAreFew, NoLaterRefund
  <1>2. Total(U) > SoftCap /\ Total(U) \in Int /\ Total(R) \in Int /\ U # {}
    <2>1. Total(U) > SoftCap
      BY TotalIs
    <2> HIDE DEF U, R
    <2>2. Total(U) \in Int /\ Total(R) \in Int /\ SoftCap \in Nat
      BY <1>1, TotalIsInt, ChatAssumption
    <2>3. Total({}) = 0
      BY TotalStep, FS_EmptySet
    <2> QED BY <2>1, <2>2, <2>3
  <1>3. PICK r : r \in U
    BY <1>2
  <1>4. ASSUME NEW a \in R \ U PROVE a.amount >= 0
    <2> SUFFICES ASSUME a.amount < 0 PROVE FALSE
      BY <1>1 DEF Priceable
    <2>1. a \in pivoted /\ a.type = "issue_refund"
      BY DEF Of
    <2>2. a \in Of(A, "issue_refund")
      <3> HIDE DEF pivoted
      <3>1. a \in A
        BY <2>1, NegativesAreProposed DEF pivoted
      <3> QED BY <2>1, <3>1 DEF Of
    <2>3. a.order = NoOrder \/ a.method = "none"
      <3>1. a.amount # 0
        OBVIOUS
      <3> QED BY <1>3, <3>1, DroppedAreVoid
    <2> QED BY <2>2, <2>3 DEF Offset
  <1>5. Total(U) <= Total(R)
    <2> HIDE DEF U, R
    <2> QED BY <1>1, <1>4, TotalGrows
  <1>6. RefundTotal(pivoted) > SoftCap
    <2>1. RefundTotal(pivoted) = Total(R)
      BY TotalIs
    <2>2. SoftCap \in Nat
      BY ChatAssumption
    <2> HIDE DEF pivoted, U, R
    <2> QED BY <1>2, <1>5, <2>1, <2>2
  <1>7. r \in pivoted /\ r.type = "issue_refund"
    <2>1. r \in R
      BY <1>1, <1>3
    <2> QED BY <2>1 DEF Of
  <1>8. Escalates(lowered) /\ pivoted \subseteq lowered
    <2> HIDE DEF pivoted
    <2>1. lowered = OrEscalate(pivoted, "downgrade", OrderId(t))
      BY <1>6 DEF Downgraded
    <2> QED BY <2>1, RaisedFlags, ZenonT(30) DEF OrEscalate
  <1>9. HandoffKept(lowered, t) = lowered
    <2>1. r \in Of(lowered, "issue_refund")
      BY <1>7, <1>8 DEF Of
    <2> HIDE DEF lowered
    <2> QED BY <2>1 DEF HandoffKept, Unresolved
  <1> HIDE DEF lowered
  <1>10. Escalates(valid) /\ valid # {}
    BY <1>8 DEF Escalates, Of, Valid
  <1>11. Decided(A, t) = SafetyNet(valid, t)
    BY <1>9 DEF Decided, lowered
  <1> HIDE DEF valid
  <1> QED BY <1>10, <1>11 DEF SafetyNet

-----------------------------------------------------------------------------
(* The sessions.  A reply is made in one step and does not change, nor do   *)
(* the earlier turns, before it is stored.                                  *)

(* The reply to a proposal in a turn.                                       *)
Reply(acts, t) ==
    [kind |-> "fresh", turn |-> t, proposed |-> acts,
     acts |-> Shaped(Decided(acts, t)), route |-> Route(Decided(acts, t))]

Made == \E acts, t : reply = Reply(acts, t) /\ t.prior = prior

FreshIsMade == Fresh => Made

LEMMA AnswerMakes ==
    ASSUME NEW text \in Texts, Answer(text)
    PROVE  Made'
  <1>1. PICK intent \in Asked, mentioned \in OrderIds \cup {NoOrder}, classified \in BOOLEAN, p \in Proposals :
           reply' = Reply(p.acts, Context(text, intent, mentioned, classified, p.unsure))
    BY DEF Answer, Reply
  <1> DEFINE t == Context(text, intent, mentioned, classified, p.unsure)
  <1>2. t.prior = prior /\ prior' = prior
    BY DEF Context, Answer
  <1> HIDE DEF t
  <1>3. reply' = Reply(p.acts, t) /\ t.prior = prior'
    BY <1>1, <1>2 DEF t
  <1> QED BY <1>3 DEF Made

LEMMA FreshAreMade == Spec => []FreshIsMade
  <1>1. Init => FreshIsMade
    BY DEF Init, NoReply, FreshIsMade, Fresh
  <1>2. FreshIsMade /\ [Next]_vars => FreshIsMade'
    <2> SUFFICES ASSUME FreshIsMade, [Next]_vars PROVE FreshIsMade'
      OBVIOUS
    <2>1. ASSUME NEW text \in Texts, Answer(text) PROVE FreshIsMade'
      BY <2>1, AnswerMakes DEF FreshIsMade, Answer
    <2>2. ASSUME NEW text \in Texts, Replay(text) PROVE FreshIsMade'
      BY <2>2 DEF Replay, FreshIsMade, Fresh
    <2>3. CASE StageRaises
      BY <2>3 DEF StageRaises, FreshIsMade, Fresh
    <2>4. CASE Persist
      BY <2>4 DEF Persist, NoReply, FreshIsMade, Fresh
    <2>5. CASE Tap
      BY <2>5 DEF Tap, NoReply, FreshIsMade, Fresh
    <2>6. CASE UNCHANGED vars
      BY <2>6 DEF vars, FreshIsMade, Fresh, Made
    <2> QED BY <2>1, <2>2, <2>3, <2>4, <2>5, <2>6 DEF Next
  <1> QED BY <1>1, <1>2, PTL DEF Spec

(* Complaints that are settled without money never lead to a refund.        *)
THEOREM RefusalsAlwaysHold == Spec => []RefusalsHold
  <1>1. FreshIsMade => RefusalsHold
    <2> SUFFICES ASSUME Made, reply.turn.intent \in Refused PROVE Refunds = {}
      BY DEF FreshIsMade, RefusalsHold, Refused
    <2> QED BY RefusedIntents DEF Made, Reply, Refunds
  <1> QED BY <1>1, FreshAreMade, PTL

(* A prompt injection leaves a flag and moves money only for the claims     *)
(* that may.                                                                *)
THEOREM InjectionAlwaysContained == Spec => []InjectionContained
  <1>1. FreshIsMade => InjectionContained
    <2> SUFFICES ASSUME Made, Injected(reply.turn), "marker" \notin reply.turn.marks
                 PROVE  Flags(reply.acts) /\ (reply.turn.intent \notin LegitRefundIntents => Refunds = {})
      BY DEF FreshIsMade, InjectionContained, Open, Injected
    <2>1. Flags(reply.acts) /\ (reply.turn.intent \notin LegitRefundIntents => Free(reply.acts))
      BY InjectedDecided DEF Made, Reply
    <2> QED BY <2>1 DEF Free, Refunds, Of
  <1> QED BY <1>1, FreshAreMade, PTL

(* The rules repeat no refund and no complaint of an earlier turn.          *)
THEOREM FreshNeverRepeatsHolds == Spec => []FreshNeverRepeats
  <1>1. FreshIsMade => FreshNeverRepeats
    <2> SUFFICES ASSUME Made PROVE \A a \in reply.acts, b \in prior : ~Repeats(a, b)
      BY DEF FreshIsMade, FreshNeverRepeats
    <2> QED BY DecidedIsNew DEF Made, Reply, New
  <1> QED BY <1>1, FreshAreMade, PTL

(* A claim after a flagged turn is never settled by the bot alone.          *)
THEOREM PivotAlwaysHeld == Spec => []PivotHeld
  <1>1. FreshIsMade => PivotHeld
    <2> SUFFICES ASSUME Made, Pivots(reply.turn), "marker" \notin reply.turn.marks
                 PROVE  /\ Flags(reply.acts)
                        /\ IF Abuser(reply.turn) THEN Refunds = {} ELSE reply.route = "HITL"
      BY DEF FreshIsMade, PivotHeld, Open, Pivots
    <2>1. PICK acts, t : reply = Reply(acts, t)
      BY DEF Made
    <2>2. /\ Flags(reply.acts)
          /\ IF Abuser(t) THEN Free(reply.acts) ELSE Escalates(Decided(acts, t))
      BY <2>1, PivotDecided DEF Reply
    <2> QED BY <2>1, <2>2 DEF Reply, Free, Refunds, Of, Route
  <1> QED BY <1>1, FreshAreMade, PTL

-----------------------------------------------------------------------------
(* Types, and where a fresh reply comes from: a proposal of Stage 1 and a   *)
(* turn.                                                                    *)

Proposed == \E p \in Proposals, t \in Turn : reply = Reply(p.acts, t)

ReplyOK ==
    reply # NoReply =>
        /\ turnNo <= MaxTurns
        /\ reply.acts \in SUBSET Action
        /\ reply.route \in {"AUTO_RESOLVED", "HITL", "MANUAL_REVIEW"}

(* TypeOK is not inductive: it does not say that a reply is only made while *)
(* turns are left, nor that every entry of the cache was once a reply.      *)
IInv ==
    /\ book \in [Orders -> Profiles]
    /\ known \in OrderIds \cup {NoOrder} /\ client \in Customer \cup {NoCustomer, NoId}
    /\ turnNo \in 1..(MaxTurns + 1)
    /\ prior \in SUBSET Action /\ cache \in [Texts -> SUBSET Action]
    /\ ReplyOK
    /\ Fresh => Proposed

LEMMA NoneIsAction == NoEntry \in SUBSET Action
  <1>1. /\ "none" \in Origins /\ NoOrder \in OrderIds \cup {NoOrder} /\ 0 \in Int
        /\ "cash" \in {"cash", "wallet_credit", "none"} /\ "app" \in {"restaurant", "rider", "app", "none"}
    BY DEF Origins
  <1>2. Closing("none") \in Action
    BY <1>1, AddedAreActions
  <1> QED BY <1>2 DEF NoEntry

(* The customer of a turn is one of the database's, or nobody.              *)
LEMMA ClientIsOne ==
    ASSUME book \in [Orders -> Profiles], client \in Customer \cup {NoCustomer, NoId}, NEW order
    PROVE  Client(order) \in Customer \cup {NoCustomer, NoId}
  <1>1. order \in Orders => book[order].customer \in Customer
    BY ChatAssumption DEF Profile
  <1> QED BY <1>1 DEF Client

LEMMA ContextIsTurn ==
    ASSUME book \in [Orders -> Profiles], known \in OrderIds \cup {NoOrder}, turnNo \in Nat, prior \in SUBSET Action,
           client \in Customer \cup {NoCustomer, NoId},
           NEW text \in Texts, NEW intent \in Asked, NEW mentioned \in OrderIds \cup {NoOrder},
           NEW classified \in BOOLEAN, NEW p \in Proposals
    PROVE  Context(text, intent, mentioned, classified, p.unsure) \in Turn
  <1> DEFINE id == Known(mentioned)
             found == id \in Orders
             marks == text \cup (IF classified THEN {"classified"} ELSE {})
                           \cup (IF p.unsure THEN {"unsure"} ELSE {})
                           \cup (IF found /\ book[id].recent THEN {"recent"} ELSE {})
             order == IF found THEN id ELSE NoOrder
             total == IF found THEN book[id].total ELSE 0
             customer == IF Client(id) = NoId THEN NoCustomer ELSE Client(id)
  <1>1. found => book[id] \in Profiles /\ book[id].total \in Nat
    BY ChatAssumption DEF Profile
  <1>2. marks \in SUBSET Marks
    BY ChatAssumption DEF Marks
  <1>3. order \in OrderIds \cup {NoOrder} /\ total \in Nat
    BY <1>1, ChatAssumption
  <1>4. customer \in Customer \cup {NoCustomer}
    BY ClientIsOne
  <1>5. intent \in Intents /\ Escalates(prior) \in BOOLEAN /\ Flags(prior) \in BOOLEAN
    BY ChatAssumption DEF Escalates, Flags
  <1>6. Context(text, intent, mentioned, classified, p.unsure) =
           [intent |-> intent, no |-> turnNo, mentioned |-> mentioned, marks |-> marks, order |-> order, total |-> total,
            customer |-> customer, prior |-> prior, escalated |-> Escalates(prior), flagged |-> Flags(prior)]
    BY DEF Context
  <1> HIDE DEF marks, order, total, customer
  <1> QED BY <1>2, <1>3, <1>4, <1>5, <1>6 DEF Turn

LEMMA DecidedAreActions ==
    ASSUME NEW t \in Turn, NEW p \in Proposals
    PROVE  Shaped(Decided(p.acts, t)) \in SUBSET Action
  <1>1. p.acts \in SUBSET Action
    BY ChatAssumption DEF Proposal
  <1>2. Closed(Action, t) /\ Capped(p.acts, t) \in SUBSET Action
    BY <1>1, ActionIsClosed
  <1> QED BY <1>2, DecidedStays

LEMMA IInvAlways == Spec => []IInv
  <1>1. Init => IInv
    <2> SUFFICES ASSUME Init PROVE IInv
      OBVIOUS
    <2>1. turnNo \in 1..(MaxTurns + 1) /\ cache \in [Texts -> SUBSET Action]
      BY ChatAssumption, NoneIsAction DEF Init
    <2> QED BY <2>1 DEF Init, IInv, ReplyOK, Fresh, NoReply
  <1>2. IInv /\ [Next]_vars => IInv'
    <2> SUFFICES ASSUME IInv, [Next]_vars PROVE IInv'
      OBVIOUS
    <2>0. \A m \in OrderIds \cup {NoOrder} : Known(m) \in OrderIds \cup {NoOrder}
      BY DEF Known, IInv
    <2>00. \A order : Client(order) \in Customer \cup {NoCustomer, NoId}
      BY ClientIsOne DEF IInv
    <2>1. ASSUME NEW text \in Texts, Answer(text) PROVE IInv'
      <3>1. PICK intent \in Asked, mentioned \in OrderIds \cup {NoOrder}, classified \in BOOLEAN, p \in Proposals :
               LET t == Context(text, intent, mentioned, classified, p.unsure)
               IN  /\ known' = Known(mentioned) /\ client' = Client(known')
                   /\ reply' = Reply(p.acts, t)
                   /\ cache' = [cache EXCEPT ![text] = Shaped(Decided(p.acts, t))]
        BY <2>1 DEF Answer, Reply
      <3> DEFINE t == Context(text, intent, mentioned, classified, p.unsure)
                 acts == Shaped(Decided(p.acts, t))
                 route == Route(Decided(p.acts, t))
      <3>2. t \in Turn
        <4> turnNo \in Nat
          BY ChatAssumption DEF IInv
        <4> QED BY ContextIsTurn DEF IInv
      <3>3. /\ known' = Known(mentioned) /\ client' = Client(known')
            /\ reply' = Reply(p.acts, t)
            /\ cache' = [cache EXCEPT ![text] = acts]
        BY <3>1
      <3> HIDE DEF t
      <3>4. acts \in SUBSET Action /\ route \in {"AUTO_RESOLVED", "HITL", "MANUAL_REVIEW"}
        BY <3>2, DecidedAreActions DEF Route
      <3>5. Proposed' /\ reply'.acts = acts /\ reply'.route = route
        BY <3>2, <3>3 DEF Proposed, Reply
      <3> HIDE DEF acts, route
      <3>6. ReplyOK' /\ cache' \in [Texts -> SUBSET Action]
        BY <2>1, <3>3, <3>4, <3>5 DEF ReplyOK, Answer, IInv
      <3> QED BY <2>0, <2>00, <2>1, <3>3, <3>5, <3>6 DEF IInv, Answer
    <2>2. ASSUME NEW text \in Texts, Replay(text) PROVE IInv'
      <3>1. ReplyOK' /\ ~Fresh'
        BY <2>2 DEF Replay, IInv, ReplyOK, Fresh
      <3> QED BY <2>2, <3>1 DEF Replay, IInv
    <2>3. CASE StageRaises
      <3>1. {Escalation("error", NoOrder)} \in SUBSET Action
        <4>1. /\ "error" \in Origins /\ NoOrder \in OrderIds \cup {NoOrder} /\ 0 \in Int
              /\ "cash" \in {"cash", "wallet_credit", "none"} /\ "app" \in {"restaurant", "rider", "app", "none"}
          BY DEF Origins
        <4>2. Escalation("error", NoOrder) \in Action
          BY <4>1, AddedAreActions
        <4> QED BY <4>2
      <3>2. ReplyOK' /\ ~Fresh' /\ known' \in OrderIds \cup {NoOrder} /\ client' \in Customer \cup {NoCustomer, NoId}
        BY <2>0, <2>00, <2>3, <3>1 DEF StageRaises, ReplyOK, Fresh, IInv
      <3> QED BY <2>3, <3>2 DEF StageRaises, IInv
    <2>4. CASE Persist
      <3>1. {[a EXCEPT !.from = "sent"] : a \in reply.acts} \in SUBSET Action
        <4>1. reply.acts \in SUBSET Action /\ "sent" \in Origins
          BY <2>4 DEF Persist, IInv, ReplyOK, Origins
        <4> QED BY <4>1 DEF Action
      <3>2. turnNo' \in 1..(MaxTurns + 1)
        BY <2>4, ChatAssumption DEF Persist, IInv, ReplyOK
      <3>3. ReplyOK' /\ ~Fresh'
        BY <2>4 DEF Persist, ReplyOK, Fresh, NoReply
      <3> QED BY <2>4, <3>1, <3>2, <3>3 DEF Persist, IInv
    <2>5. CASE Tap
      <3>1. turnNo' \in 1..(MaxTurns + 1)
        BY <2>5, ChatAssumption DEF Tap, IInv
      <3>2. known' \in OrderIds \cup {NoOrder} /\ client' \in Customer \cup {NoCustomer, NoId}
        BY <2>0, <2>5, ChatAssumption DEF Tap, IInv
      <3>3. ReplyOK' /\ ~Fresh'
        BY <2>5 DEF Tap, ReplyOK, Fresh, NoReply
      <3> QED BY <2>5, <3>1, <3>2, <3>3 DEF Tap, IInv
    <2>6. CASE UNCHANGED vars
      BY <2>6 DEF vars, IInv, ReplyOK, Fresh, Proposed
    <2> QED BY <2>1, <2>2, <2>3, <2>4, <2>5, <2>6 DEF Next
  <1> QED BY <1>1, <1>2, PTL DEF Spec

(* The types are right.                                                     *)
THEOREM TypeOKHolds == Spec => []TypeOK
  <1>1. IInv => TypeOK
    BY DEF IInv, ReplyOK, TypeOK, Proposed, Reply, Fresh
  <1> QED BY <1>1, IInvAlways, PTL

(* A flagged abuser gets nothing for an order that never arrived; for a     *)
(* soft claim that is not handed over yet, no refund above 300 and none     *)
(* without a human; and no rule adds money but the token and the promo      *)
(* credit.                                                                  *)
THEOREM AbuserAlwaysHeld == Spec => []AbuserHeld
  <1>1. IInv => AbuserHeld
    <2> SUFFICES ASSUME Proposed, "marker" \notin reply.turn.marks, reply.turn.order # NoOrder, Abuser(reply.turn)
                 PROVE  /\ reply.turn.intent = "never_arrived" => Refunds = {} /\ Flags(reply.acts)
                        /\ reply.turn.intent \in SoftAbuserIntents /\ ~reply.turn.escalated =>
                              /\ Flags(reply.acts) /\ (Refunds # {} => reply.route = "HITL")
                              /\ \A a \in Refunds : a.amount <= 300
                        /\ \A a \in Refunds : a.from \in Slots \cup {"promo", "token"}
      BY DEF IInv, AbuserHeld, Open, SoftAbuserIntents
    <2>1. PICK p \in Proposals, t \in Turn : reply = Reply(p.acts, t)
      BY DEF Proposed
    <2>2. /\ reply.turn = t /\ reply.acts = Shaped(Decided(p.acts, t)) /\ reply.route = Route(Decided(p.acts, t))
          /\ t.total \in Nat /\ p.acts \in SUBSET Action /\ \A a \in p.acts : a.from \in Slots
      BY <2>1, ChatAssumption DEF Reply, Turn, Proposal
    <2>3. reply.turn.intent = "never_arrived" => Refunds = {} /\ Flags(reply.acts)
      BY <2>2, AbuserDecided DEF Free, Refunds, Of
    <2>4. ASSUME reply.turn.intent \in SoftAbuserIntents, ~reply.turn.escalated
          PROVE  /\ Flags(reply.acts) /\ (Refunds # {} => reply.route = "HITL")
                 /\ \A a \in Refunds : a.amount <= 300
      <3>1. /\ Flags(reply.acts) /\ Small(reply.acts)
            /\ Free(reply.acts) \/ Escalates(Decided(p.acts, t))
        BY <2>2, <2>4, AbuserDecided
      <3> QED BY <2>2, <3>1 DEF Free, Small, Refunds, Of, Route
    <2>5. \A a \in Refunds : a.from \in Slots \cup {"promo", "token"}
      <3>1. Closed(Credited, t) /\ Capped(p.acts, t) \in SUBSET Credited
        <4>1. ~TriesMatrix(t)
          BY <2>2 DEF TriesMatrix
        <4> QED BY <2>2, <4>1, CreditedIsClosed
      <3>2. reply.acts \in SUBSET Credited
        BY <2>2, <3>1, DecidedStays
      <3> QED BY <3>2 DEF Refunds, Of, Credited
    <2> QED BY <2>3, <2>4, <2>5
  <1> QED BY <1>1, IInvAlways, PTL

(* No refund is larger than the order, except the least promo credit and,   *)
(* for an order that cost nothing, the token of 300.                        *)
THEOREM WithinOrderHolds == Spec => []WithinOrder
  <1>1. IInv => WithinOrder
    <2> SUFFICES ASSUME Proposed, reply.turn.order # NoOrder, NEW a \in Refunds
                 PROVE  \/ a.amount <= reply.turn.total
                        \/ a.from = "promo" /\ a.amount = 50
                        \/ a.from = "token" /\ a.amount = 300 /\ reply.turn.total = 0
      BY DEF IInv, WithinOrder, Open
    <2>1. PICK p \in Proposals, t \in Turn : reply = Reply(p.acts, t)
      BY DEF Proposed
    <2>2. reply.turn = t /\ reply.acts = Shaped(Decided(p.acts, t)) /\ p.acts \in SUBSET Action
      BY <2>1, ChatAssumption DEF Reply, Proposal
    <2>3. Closed(Affordable(t), t) /\ Capped(p.acts, t) \in SUBSET Affordable(t)
      BY <2>2, AffordableIsClosed
    <2>4. reply.acts \in SUBSET Affordable(t)
      BY <2>2, <2>3, DecidedStays
    <2> QED BY <2>2, <2>4 DEF Refunds, Of, Affordable
  <1> QED BY <1>1, IInvAlways, PTL

(* Refunds above the soft cap go to a human unless the customer is gold and *)
(* clean, but for the two gaps: a claim that waits for its order, and a     *)
(* negative refund that counts in the total and is dropped after it.        *)
THEOREM SoftCapReviewedHolds == Spec => []SoftCapReviewed
  <1>1. IInv => SoftCapReviewed
    <2> SUFFICES ASSUME Proposed, "marker" \notin reply.turn.marks, ~GoldClean(reply.turn),
                        RefundTotal(reply.acts) > SoftCap, ~AwaitsOrder(reply.turn), ~Offset(reply.proposed)
                 PROVE  reply.route = "HITL"
      BY DEF IInv, SoftCapReviewed, Open
    <2>1. PICK p \in Proposals, t \in Turn : reply = Reply(p.acts, t)
      BY DEF Proposed
    <2>2. /\ reply.turn = t /\ reply.acts = Shaped(Decided(p.acts, t)) /\ reply.route = Route(Decided(p.acts, t))
          /\ reply.proposed = p.acts
      BY <2>1 DEF Reply
    <2>3. p.acts \in SUBSET Action /\ IsFiniteSet(p.acts)
      BY ChatAssumption DEF Proposal
    <2>4. Escalates(Decided(p.acts, t))
      BY <2>2, <2>3, SoftCapDecided
    <2> QED BY <2>2, <2>4 DEF Route
  <1> QED BY <1>1, IInvAlways, PTL

(* Types, and money within the order and, above the soft cap, only past a   *)
(* human.                                                                   *)
THEOREM InvHolds == Spec => []Inv
  BY TypeOKHolds, WithinOrderHolds, SoftCapReviewedHolds, PTL DEF Inv
=============================================================================
