----------------------------- MODULE Providers -----------------------------
(***************************************************************************)
(* A call of a language model or of the embeddings endpoint, with its      *)
(* retries (app/l2_agents/llm_provider.py, app/retrieval/embedder.py), and *)
(* the calls Cardinal's stages make through get_provider.                  *)
(*                                                                         *)
(* OpenAI and Vertex are outside the program.  Sleeping between attempts   *)
(* is left out: an attempt may come at any time.  SarvamProvider and the   *)
(* streaming calls have no caller and are not modelled.                    *)
(***************************************************************************)
EXTENDS Naturals

CONSTANTS
    Attempts,    \* max_attempts, 4 in the code; positive (Corpus!CorpusAssumption)
    Callers,     \* stages of Cardinal calling at the same time
    Selections   \* the values LLM_PROVIDER may have

-----------------------------------------------------------------------------
Kinds == {"openai", "vertex"}

(* What an attempt may come back with: a reply, 429 or 5xx, another error   *)
(* status, or no usable answer (a timeout, a broken connection, a body      *)
(* without the expected fields).                                            *)
Outcomes == {"reply", "busy", "refused", "broken"}

(* get_provider, _resolve_selection: the language does not matter, and      *)
(* everything but the two names of Vertex means OpenAI.                     *)
Selected(choice) == IF choice \in {"vertex", "gemini"} THEN "vertex" ELSE "openai"

(* OpenAIProvider.chat and embedder._call catch every exception;            *)
(* VertexAIProvider.chat catches API errors and retries 429 and 5xx.        *)
Retried(kind, o) == kind = "openai" \/ o = "busy"

Fresh(kind) == [kind |-> kind, tries |-> 1, end |-> "none"]
(* Mutant: after the last attempt the loop starts over.                     *)
After_StartsOver(c, o) ==
    IF o = "reply" THEN [c EXCEPT !.end = "reply"]
    ELSE IF Retried(c.kind, o) THEN [c EXCEPT !.tries = IF @ < Attempts THEN @ + 1 ELSE 1]
    ELSE [c EXCEPT !.end = "raised"]
(* The call after an attempt that came back with o.                         *)
After(c, o) ==
    IF o = "reply" THEN [c EXCEPT !.end = "reply"]
    ELSE IF Retried(c.kind, o) /\ c.tries < Attempts THEN [c EXCEPT !.tries = @ + 1]
    ELSE [c EXCEPT !.end = "raised"]

(* What one more attempt may make of a call.                                *)
Tried(c) == {After(c, o) : o \in Outcomes}

Call == [kind : Kinds, tries : 1..Attempts, end : {"none", "reply", "raised"}]

-----------------------------------------------------------------------------
VARIABLES call   \* the call of every caller

ProvidersInit ==
    \E choice \in Selections : call = [c \in Callers |-> Fresh(Selected(choice))]

Attempt(c) ==
    /\ call[c].end = "none"
    /\ \E next \in Tried(call[c]) : call' = [call EXCEPT ![c] = next]

ProvidersNext == \E c \in Callers : Attempt(c)
=============================================================================
