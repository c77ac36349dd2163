--------------------------- MODULE MCAccessControl ---------------------------
(* An empty database, one with a super-admin and a plain account, and one   *)
(* with two super-admins.                                                   *)
EXTENDS AccessControl

Nothing == [exists |-> FALSE, active |-> FALSE, super |-> FALSE]
Plain == [exists |-> TRUE, active |-> TRUE, super |-> FALSE]
Super == [exists |-> TRUE, active |-> TRUE, super |-> TRUE]
MCStarts ==
    {[a \in Accounts |-> Nothing],
     [a \in Accounts |-> CASE a = "ann" -> Super [] a = "bob" -> Plain [] OTHER -> Nothing],
     [a \in Accounts |-> CASE a \in {"ann", "bob"} -> Super [] OTHER -> Nothing]}
MCBodies ==
    {[active |-> "off", super |-> "keep"], [active |-> "keep", super |-> "off"], [active |-> "keep", super |-> "on"]}
=============================================================================
