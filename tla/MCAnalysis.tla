----------------------------- MODULE MCAnalysis -----------------------------
(* Three clauses are three chunks for two workers, or two chunks of two and *)
(* one clauses.                                                             *)
EXTENDS Analysis

MCDocs ==
    {[clauses |-> <<"c1", "c2", "c3">>, names |-> {}],
     [clauses |-> <<"c1">>, names |-> {"karnataka"}]}

(* The two states of the map, in its order.  A citation of both, one of the *)
(* second, and one that names neither in the map's words.                   *)
MCMarked == <<"karnataka", "rajasthan">>
Both == {"karnataka", "rajasthan"}
MCCitations == {NoCitation, Both, {"rajasthan"}}

(* A state's rule with anchors, whose safe text advises no action: the      *)
(* contract of one clause may be rendered under it, the other one may not.  *)
MCRules ==
    {[slug |-> "state", cites |-> Both, anchors |-> TRUE,
      hasFallback |-> TRUE, fallbackActs |-> FALSE]}

(* A good answer, one with a forbidden phrase, and what _render_one_clause  *)
(* returns for an answer that does not parse: no text and no action.        *)
Good == [text |-> TRUE, action |-> TRUE, clean |-> TRUE, anchored |-> TRUE]
MCCandidates ==
    {Good, [Good EXCEPT !.clean = FALSE],
     [text |-> FALSE, action |-> FALSE, clean |-> TRUE, anchored |-> FALSE]}
=============================================================================
