------------------------------ MODULE Content ------------------------------
(***************************************************************************)
(* The content the workers' answers draw on, while it is being rewritten:  *)
(* the statute corpus (Corpus), the schemes and fact cards (Guides), the   *)
(* starter tables and the schema (Startup), the text of an upload (Ocr),   *)
(* and Cardinal's calls of its model (Providers).                          *)
(*                                                                         *)
(* They keep their state in tables and objects of their own, so their      *)
(* interleavings are those of each with the others standing still; a       *)
(* behaviour takes one of them (scene), and the others stand at one of     *)
(* their initial states.                                                   *)
(***************************************************************************)
EXTENDS Guides, Corpus, Startup, Ocr

CONSTANTS Callers, Selections

VARIABLES scene, call

Cardinal == INSTANCE Providers

vars == <<scene, call, guideVars, corpusVars, bootVars>>

Init ==
    /\ scene \in {"corpus", "guides", "cardinal", "startup"}
    /\ GuidesInit /\ CorpusInit /\ Cardinal!ProvidersInit /\ StartupInit
    /\ scene # "guides" => active = Entries
    /\ scene # "corpus" => files = [s \in Sources |-> CHOOSE l \in Layouts : TRUE]
    /\ scene # "startup" => version = 1
    /\ scene # "cardinal" => call = [c \in Callers |-> Cardinal!Fresh("openai")]

Script == scene = "corpus" /\ (\E r \in Runs : RunStep(r)) /\ UNCHANGED <<scene, call, guideVars, bootVars>>
Pooled == scene = "corpus" /\ (\E b \in Batches : BatchStep(b)) /\ UNCHANGED <<scene, call, guideVars, bootVars>>
Guided == scene = "guides" /\ GuidesNext /\ UNCHANGED <<scene, call, corpusVars, bootVars>>
Called == scene = "cardinal" /\ Cardinal!ProvidersNext /\ UNCHANGED <<scene, guideVars, corpusVars, bootVars>>
Booted == scene = "startup" /\ StartupNext /\ UNCHANGED <<scene, call, guideVars, corpusVars>>

Next == Script \/ Pooled \/ Guided \/ Called \/ Booted
Spec == Init /\ [][Next]_vars

(* The pool's threads and the request handlers run, and every call of a     *)
(* provider or of the database returns or raises; nothing is asked of the   *)
(* operator's scripts.                                                      *)
FairSpec ==
    /\ Spec
    /\ WF_vars(Pooled) /\ WF_vars(Called)
    /\ \A r \in Readers : WF_vars(scene = "guides" /\ ListEnglish(r) /\ UNCHANGED <<scene, call, corpusVars, bootVars>>)

-----------------------------------------------------------------------------
(* Types, and the invariants of the corpus, of the guides, of the start-up  *)
(* and of the extraction: see there.                                        *)
Inv ==
    /\ CorpusTypeOK /\ OnlyShortIsLeftOut /\ AsLastIngested /\ ForeignStaysOut
    /\ ConnectionsReturned
    /\ GuidesTypeOK /\ ListedIsServed /\ CompleteWhenDone
    /\ StartupTypeOK /\ StartsRepair /\ OnlyStampSpoils /\ HintCostsNothing
    /\ call \in [Callers -> Cardinal!Call]

BatchesOver == \A b \in Batches : pc[b] \in {"annotated", "lost"}
CallsOver == \A c \in Callers : call[c].end # "none"

(* Every batch, list and call ends, however the retries, the pool and the   *)
(* script come in between (llm_provider.py: 134 and 420, embedder.py: 99,   *)
(* stage2.py: 216, service.py: 45).                                         *)
AllAnswered ==
    /\ []<>(scene = "corpus" => BatchesOver)
    /\ []<>(scene = "cardinal" => CallsOver)
    /\ \A r \in Readers : []<>(view[r] # "english")
=============================================================================
