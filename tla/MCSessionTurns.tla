---------------------------- MODULE MCSessionTurns ----------------------------
(* Two orders of two customers, one message and a blank one.                *)
EXTENDS SessionTurns

MCOwnerOf == [o \in {"o1", "o2"} |-> IF o = "o1" THEN "c1" ELSE "c2"]
MCTaps == {[order |-> "o2", customer |-> "c1"], [order |-> "huge", customer |-> "none"]}
MCReplies == {{"refund"}, {"close"}}
=============================================================================
