----------------------------- MODULE MCContent -----------------------------
(* Two statutes of one chunk each, from which the chunker drops a short     *)
(* opening; sections of up to four paragraphs for the chunker; two schemes, *)
(* one of which asks for a state and for e-Shram; two starter tables, one   *)
(* of which refers to the other; uploads of two pages, as PDF and image.    *)
EXTENDS Content

MCLayouts == {<<<<2, 6>>>>}
MCSamples == UNION {[1..n -> {1, 2, 4, 7}] : n \in 1..4}
MCForeign == {<<"posh", 9>>}
MCInactive == {<<"posh", 1>>}
MCText == [b \in Batches |-> IF b = "one" THEN <<{<<"posh", 1>>, <<"code", 1>>}, {<<"posh", 1>>}>>
                            ELSE <<{<<"code", 1>>}, NoQuery>>]
Asks(scope, needs) ==
    [scope |-> scope, occupations |-> {"any"}, states |-> {}, min |-> 18, max |-> NoAnswer,
     gender |-> NoAnswer, needs |-> needs]
MCRulesOf == [e \in Entries |-> IF e = "board" THEN Asks("karnataka", {"eshram"}) ELSE Asks("all", {})]
Profile(state, age, claims) ==
    [state |-> state, occupation |-> NoAnswer, age |-> age, gender |-> NoAnswer, claims |-> claims]
MCProfiles == {Profile("karnataka", NoAnswer, {"eshram"}), Profile(NoAnswer, 17, {})}
MCSeed == <<"customers", "orders">>
MCRefs == [t \in {"customers", "orders"} |-> IF t = "orders" THEN {"customers"} ELSE {}]
MCPages ==
    {page \in [layer : {0, 1, 3}, eng : {0, 2, Raises}, both : {0, 2, Raises}, big : BOOLEAN] :
        page.both = 0 => page.eng \in {0, Raises}}
MCDocuments ==
    [kind : {"text", "docx", "image"}, opens : BOOLEAN, pages : [1..1 -> MCPages]]
    \cup [kind : {"pdf"}, opens : BOOLEAN, pages : UNION {[1..n -> MCPages] : n \in 1..2}]
    \cup [kind : {"pdf"}, opens : {TRUE}, pages : [1..3 -> {page \in MCPages : page.layer = 3 /\ page.eng = 2}]]
=============================================================================
