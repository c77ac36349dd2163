------------------------------- MODULE MCChat -------------------------------
(* One order and a number that belongs to none.                             *)
EXTENDS Chat

Plainly == [abuser |-> FALSE, clean |-> FALSE, gold |-> FALSE, frequent |-> FALSE]
Doubtful == [Plainly EXCEPT !.abuser = TRUE]
(* A tiny order, a regular one, a large one of a gold customer, and two of  *)
(* a flagged abuser, of which one cost nothing.                             *)
MCProfiles ==
    {[total |-> 40, recent |-> TRUE, customer |-> Plainly],
     [total |-> 2000, recent |-> FALSE, customer |-> Plainly],
     [total |-> 2000, recent |-> FALSE, customer |-> [Plainly EXCEPT !.gold = TRUE, !.clean = TRUE, !.frequent = TRUE]],
     [total |-> 1200, recent |-> TRUE, customer |-> Doubtful],
     [total |-> 0, recent |-> FALSE, customer |-> Doubtful]}
MCCallers == {Doubtful, NoCustomer}

MCTexts == {{}, {"lexical"}, {"verbal"}, {"marker"}}

MCProposals ==
    {[acts |-> {}, unsure |-> FALSE],
     [acts |-> {}, unsure |-> TRUE],
     [acts |-> {Escalation("first", NoOrder)}, unsure |-> FALSE],
     [acts |-> {Refund("first", "o1", 1000, "cash"), Refund("second", "o1", 1000, "cash")}, unsure |-> FALSE],
     [acts |-> {Refund("first", "o1", 2000, "cash"), Refund("second", NoOrder, -1000, "cash")},
      unsure |-> FALSE]}
=============================================================================
