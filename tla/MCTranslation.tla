--------------------------- MODULE MCTranslation ---------------------------
(* Inputs for Translation.  Rows of 250 characters fit three times into a   *)
(* chunk of 800, 500 only beside one of 250, and 900 never fits.            *)
EXTENDS Translation

ClauseIds == <<"c1", "c2", "c3">>
(* A row with fields of these lengths, whose idioms are longer by "grown"   *)
(* characters once they are replaced.                                       *)
Row(i, e, m, a, grown) ==
    [id |-> ClauseIds[i], size |-> e + 9 + m + 9 + a, sends |-> e + grown + 9 + m + 9 + a,
     has |-> {f \in Field : <<e, m, a>>[f] > 0}, nullAction |-> a = 0]
Short(i) == Row(i, 80, 76, 76, 10)
Mid(i) == Row(i, 200, 141, 141, 0)
MidNoAction(i) == Row(i, 300, 182, 0, 0)
LongNoAction(i) == Row(i, 500, 382, 0, 0)
Long(i) == Row(i, 400, 282, 200, 0)
Blank(i) == Row(i, 0, 0, 0, 0)

MCClauses == {"c1", "c2", "c3"}
(* One chunk of three; two chunks, cut after the first or second row; a row  *)
(* that no chunk holds, between two others and alone; a row without a text; *)
(* a clause rendered twice, in one chunk and in two.                        *)
MCInputs ==
    {<<Short(1), Short(2), Short(3)>>,
     <<Mid(1), Mid(2), Short(3)>>,
     <<Short(1), MidNoAction(2), Mid(3)>>,
     <<Short(1), LongNoAction(2), Short(3)>>,
     <<Long(1)>>,
     <<Blank(1), Short(2)>>,
     <<Short(1), Short(2), Blank(1)>>,
     <<Mid(1), Mid(1)>>}
MCOverviews == {0, 1}
=============================================================================
