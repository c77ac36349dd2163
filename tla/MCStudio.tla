------------------------------ MODULE MCStudio ------------------------------
(* A unit with one issue type; or a unit with another below it, which has   *)
(* the issue type.                                                          *)
EXTENDS Studio

MCCodeOf == [t \in Types |-> "late"]
Live(parent) == [exists |-> TRUE, parent |-> parent, active |-> TRUE]
Gone == [exists |-> FALSE, parent |-> NoUnit, active |-> FALSE]
NoType == [exists |-> FALSE, unit |-> NoUnit, active |-> FALSE]
Start(parent, unit) ==
    [units |-> [u \in Units |-> IF u = "food" THEN Live(NoUnit) ELSE IF parent THEN Live("food") ELSE Gone],
     types |-> [t \in Types |-> IF t = "cold" THEN [exists |-> TRUE, unit |-> unit, active |-> TRUE] ELSE NoType]]
MCStarts == {Start(FALSE, "food"), Start(TRUE, "rides")}
(* Two data points in either order or at one place, one, and none.          *)
Sorted(order, rider, customer) == [p \in Points |-> CASE p = "order" -> order [] p = "rider" -> rider [] OTHER -> customer]
MCLists == {Sorted(1, 2, 0), Sorted(2, 1, 0), Sorted(1, 1, 0), Sorted(0, 0, 1), Unbound}
MCTemplates == {<<{}, {"rider"}>>, <<{"customer"}>>}
=============================================================================
