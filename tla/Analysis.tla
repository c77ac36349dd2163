------------------------------ MODULE Analysis ------------------------------
(***************************************************************************)
(* The three stages of a contract reading (app/contracts): Stage 1 finds   *)
(* the clauses (stage1.py), Stage 2 annotates them with a risk and a       *)
(* citation (stage2.py), Stage 3 renders them in plain English under a     *)
(* rule of the library, checked by a deterministic validator (stage3.py,   *)
(* stage3_validator.py), and the processor decides what the outcome means  *)
(* (processor.py).                                                         *)
(*                                                                         *)
(* Stages 2 and 3 cut the clauses into chunks and hand them to a pool of   *)
(* Workers threads.  Chunks start in order and finish in any order; a      *)
(* chunk whose call raises is logged and its clauses are filled in later.  *)
(* The language models are outside the program: they return any answer in  *)
(* the sets below, or raise.                                               *)
(***************************************************************************)
EXTENDS Naturals, Sequences, FiniteSets, SequencesExt

CONSTANTS
    Docs,        \* contracts: the clauses they have and the states they name
    States,      \* states with a law of their own
    Marked,      \* the states of _STATE_SPECIFIC_CITATIONS, in its order
    Citations,   \* what an annotation or a rule may cite
    NoState,     \* no state's law is recognised
    Rules,       \* active clause rules
    NoRule,      \* the classifier's "novel"
    Candidates,  \* what a rendering call may return
    Risks,       \* risks the annotator assigns
    ChunkSizes,  \* _STAGE2_CHUNK_SIZE = _STAGE3_CHUNK_SIZE; a run covers several
    Workers      \* _STAGE2_MAX_WORKERS = _STAGE3_MAX_WORKERS

VARIABLES
    doc,          \* the contract, and the chunk size it is read with
    pc,           \* the step the processor is at
    extracted,    \* stages.stage_1
    annotations,  \* stages.stage_2, keyed by clause as Stage 3 reads it
    classes,      \* the rule the classifier chose for each clause
    next,         \* pool: the next chunk to start
    running,      \* pool: chunks under way
    finished,     \* pool: results_by_idx in order of completion
    lost,         \* failed_chunk_indices of the stage under way
    rendered      \* stages.stage_3.rendered

vars == <<doc, pc, extracted, annotations, classes, next, running, finished, lost, rendered>>
pool == <<next, running, finished, lost>>

-----------------------------------------------------------------------------
(* Data.                                                                    *)
Doc == [clauses : Seq(STRING), names : SUBSET States]
ChunkSize == doc.chunk
(* A citation: the states whose law it names in the very words of the map.  *)
(* A law that it names in other words, or of a state that is not in the map,*)
(* goes unnoticed.  Stages 2 and 3 hold equal maps.                         *)
Citation == SUBSET States
NoCitation == {}
Rule == [slug : STRING, cites : Citation, anchors : BOOLEAN,
         hasFallback : BOOLEAN, fallbackActs : BOOLEAN]
(* An answer of the renderer: whether it has a text and an action, is free  *)
(* of forbidden phrases, and contains an anchor of the rule.                *)
Candidate == [text : BOOLEAN, action : BOOLEAN, clean : BOOLEAN, anchored : BOOLEAN]
Annotation == [risk : Risks \cup {"amber"}, cites : Citations]
Row == [clause : STRING, source : {"library-rule", "novel-llm", "fallback", "missing"},
        text : BOOLEAN, action : BOOLEAN]
Extraction == [clauses : Seq(STRING), sure : BOOLEAN, error : BOOLEAN, cut : BOOLEAN]

ASSUME DataAssumption ==
    /\ \A d \in Docs : d \in Doc /\ d.clauses # <<>>
    /\ \A d \in Docs : \A i, j \in DOMAIN d.clauses : d.clauses[i] = d.clauses[j] => i = j
    /\ Rules \subseteq Rule /\ NoRule \notin Rules
    /\ Marked \in Seq(States) /\ NoState \notin States
    /\ Citations \subseteq Citation /\ NoCitation \in Citations
    /\ Candidates \subseteq Candidate /\ Candidates # {}
    /\ ChunkSizes \subseteq Nat \ {0} /\ Workers \in Nat \ {0}

Nothing == [clauses |-> <<>>, sure |-> FALSE, error |-> TRUE, cut |-> FALSE]
Clauses == extracted.clauses
ids == ToSet(Clauses)

(* Stage 1 answers: all clauses; the leading clauses of an answer that was  *)
(* cut off and salvaged; nothing that parses; or no clause.                 *)
Extractions ==
    {[clauses |-> doc.clauses, sure |-> s, error |-> FALSE, cut |-> FALSE] : s \in BOOLEAN}
    \cup {[clauses |-> SubSeq(doc.clauses, 1, n), sure |-> TRUE, error |-> FALSE, cut |-> TRUE] :
              n \in 1..(Len(doc.clauses) - 1)}
    \cup {Nothing, [Nothing EXCEPT !.error = FALSE]}
NeedsFallback(e) == e.error \/ ~e.sure \/ e.clauses = <<>>

(* Chunks of both stages.                                                   *)
ChunkCount == (Len(Clauses) + ChunkSize - 1) \div ChunkSize
Chunk(k) ==
    SubSeq(Clauses, (k - 1) * ChunkSize + 1,
           IF k * ChunkSize < Len(Clauses) THEN k * ChunkSize ELSE Len(Clauses))
ResultOf(k) == LET i == CHOOSE i \in DOMAIN finished : finished[i].chunk = k
               IN  finished[i].rows

-----------------------------------------------------------------------------
(* The state a citation is taken to require: the first of the map whose law *)
(* it names in the map's words.  A citation in other words requires none.   *)
Required(cite) ==
    LET hits == {i \in DOMAIN Marked : Marked[i] \in cite}
    IN  IF hits = {} THEN NoState ELSE Marked[CHOOSE i \in hits : \A j \in hits : i <= j]
Applies(cite) == Required(cite) \in doc.names \cup {NoState}

(* Stage 2: a citation that requires a state the contract does not name is  *)
(* removed.                                                                 *)
Unannotated == [risk |-> "amber", cites |-> NoCitation]
HomeOnly(a) == IF Applies(a.cites) THEN a ELSE [a EXCEPT !.cites = NoCitation]
Joined ==
    LET found == {k \in 1..ChunkCount : ResultOf(k) # <<>>}
        chunkOf(c) == {k \in found : c \in ToSet(Chunk(k))}
    IN  [c \in ids |->
            HomeOnly(IF chunkOf(c) = {} THEN Unannotated
                     ELSE ResultOf(CHOOSE k \in chunkOf(c) : TRUE)[c])]

(* Stage 3: the annotation and the rule a clause is rendered under.         *)
AnnotationOf(c) == IF c \in DOMAIN annotations THEN annotations[c] ELSE Unannotated
(* Mutant: a rule is used wherever its pattern matches.                     *)
RuleOf_Anywhere(c) == classes[c]
RuleOf(c) ==
    LET r == classes[c]
    IN  IF r # NoRule /\ ~Applies(r.cites) THEN NoRule ELSE r

(* validate_rendered_clause: forbidden phrases, the rule's anchors, and the *)
(* action a red clause must have.                                           *)
Valid(a, c) ==
    /\ a.clean
    /\ RuleOf(c) # NoRule /\ RuleOf(c).anchors => a.anchored
    /\ AnnotationOf(c).risk = "red" => a.action

Accepted(a, c) ==
    [clause |-> c, source |-> IF RuleOf(c) # NoRule THEN "library-rule" ELSE "novel-llm",
     text |-> a.text, action |-> a.action]
SafeFallback(c) ==
    [clause |-> c, source |-> "fallback", text |-> TRUE,
     action |-> RuleOf(c) # NoRule /\ RuleOf(c).hasFallback => RuleOf(c).fallbackActs]

(* Mutant: the corrected answer is trusted.                                 *)
Rendering_TrustsSecond(first, second, c) ==
    IF Valid(first, c) THEN Accepted(first, c) ELSE Accepted(second, c)
(* One clause: an attempt, a second one with corrections, the safe fallback.*)
Rendering(first, second, c) ==
    IF Valid(first, c) THEN Accepted(first, c)
    ELSE IF Valid(second, c) THEN Accepted(second, c)
    ELSE SafeFallback(c)
Renderings(c) == {Rendering(a, b, c) : a, b \in Candidates}

Missing(c) == [clause |-> c, source |-> "missing", text |-> TRUE, action |-> FALSE]

-----------------------------------------------------------------------------
Init ==
    /\ \E d \in Docs, n \in ChunkSizes :
          doc = [clauses |-> d.clauses, names |-> d.names, chunk |-> n]
    /\ pc = "extract" /\ extracted = Nothing
    /\ annotations = <<>> /\ classes = <<>> /\ rendered = <<>>
    /\ next = 1 /\ running = {} /\ finished = <<>> /\ lost = {}

EmptyPool == next' = 1 /\ running' = {} /\ finished' = <<>> /\ lost' = {}

(* What the processor does with Stage 1's result.                           *)
Found(e) ==
    /\ extracted' = e
    /\ pc' = IF e.error \/ e.clauses = <<>> THEN "failed" ELSE "annotate"
    /\ EmptyPool /\ UNCHANGED <<doc, annotations, classes, rendered>>

ExtractFast ==
    /\ pc = "extract"
    /\ \E e \in Extractions :
         IF NeedsFallback(e)
           THEN pc' = "extract_smart" /\ UNCHANGED <<doc, extracted, annotations, classes, pool, rendered>>
           ELSE Found(e)

(* The smart model's answer replaces the fast one's, better or not.         *)
ExtractSmart ==
    /\ pc = "extract_smart"
    /\ \E e \in Extractions : Found(e)

ExtractRaises ==
    /\ pc \in {"extract", "extract_smart"} /\ pc' = "failed"
    /\ UNCHANGED <<doc, extracted, annotations, classes, pool, rendered>>

-----------------------------------------------------------------------------
(* The pool.                                                                *)

StartChunk ==
    /\ pc \in {"annotate", "render"}
    /\ next <= ChunkCount /\ Cardinality(running) < Workers
    /\ running' = running \cup {next} /\ next' = next + 1
    /\ UNCHANGED <<doc, pc, extracted, annotations, classes, finished, lost, rendered>>

Finish(k, rows) ==
    /\ running' = running \ {k}
    /\ finished' = Append(finished, [chunk |-> k, rows |-> rows])
    /\ UNCHANGED <<doc, pc, extracted, annotations, classes, next, rendered>>

(* An answer that does not parse, or leaves clauses out, counts as amber    *)
(* without a citation for them: one of the functions chosen here.           *)
AnnotateChunk(k) ==
    /\ pc = "annotate" /\ k \in running
    /\ \E rows \in [ToSet(Chunk(k)) -> Annotation] : Finish(k, rows)
    /\ UNCHANGED lost

RenderChunk(k) ==
    /\ pc = "render" /\ k \in running
    /\ \E choice \in [ToSet(Chunk(k)) -> Candidates \X Candidates] :
         Finish(k, [i \in DOMAIN Chunk(k) |->
                     LET c == Chunk(k)[i] IN Rendering(choice[c][1], choice[c][2], c)])
    /\ UNCHANGED lost

(* Mutant: the future of a lost chunk is never collected.                   *)
ChunkRaises_NeverCollected(k) ==
    /\ pc \in {"annotate", "render"} /\ k \in running
    /\ running' = running \ {k}
    /\ UNCHANGED <<doc, pc, extracted, annotations, classes, next, finished, lost, rendered>>

(* A call of the chunk raises: its worker returns nothing.  Only Stage 3    *)
(* remembers it.                                                            *)
ChunkRaises(k) ==
    /\ pc \in {"annotate", "render"} /\ k \in running
    /\ Finish(k, <<>>)
    /\ lost' = IF pc = "render" THEN lost \cup {k} ELSE lost

PoolDone == Len(finished) = ChunkCount

-----------------------------------------------------------------------------
Annotate ==
    /\ pc = "annotate" /\ PoolDone /\ pc' = "classify"
    /\ annotations' = Joined
    /\ EmptyPool /\ UNCHANGED <<doc, extracted, classes, rendered>>

(* Stage 2 raises as a whole: the processor goes on without annotations.    *)
AnnotateRaises ==
    /\ pc = "annotate" /\ next = 1 /\ pc' = "classify"
    /\ EmptyPool /\ UNCHANGED <<doc, extracted, annotations, classes, rendered>>

(* The rule library is loaded and every clause gets a rule or "novel".      *)
Classify ==
    /\ pc = "classify" /\ pc' = "render"
    /\ classes' \in [ids -> Rules \cup {NoRule}]
    /\ EmptyPool /\ UNCHANGED <<doc, extracted, annotations, rendered>>

(* Mutant: chunks are joined as they complete.                              *)
Assembled_AsCompleted ==
    LET shown == FlattenSeq([i \in DOMAIN finished |-> finished[i].rows])
        gone  == ids \ {shown[i].clause : i \in DOMAIN shown}
    IN  shown \o [i \in 1..Cardinality(gone) |-> Missing(SetToSeq(gone)[i])]

(* The overview call follows the pool, whether or not chunks were lost;     *)
(* then the clauses without a row are filled in at the end.                 *)
Assembled ==
    LET shown == FlattenSeq([k \in 1..ChunkCount |-> ResultOf(k)])
        gone  == ids \ {shown[i].clause : i \in DOMAIN shown}
    IN  shown \o [i \in 1..Cardinality(gone) |-> Missing(SetToSeq(gone)[i])]
Synthesise ==
    /\ pc = "render" /\ PoolDone
    /\ rendered' = Assembled
    /\ pc' = IF lost # {} THEN "failed" ELSE "ready"
    /\ UNCHANGED <<doc, extracted, annotations, classes, pool>>

(* The rule library, the classifier or the overview call raises.            *)
SynthesiseRaises ==
    /\ pc = "classify" \/ (pc = "render" /\ PoolDone)
    /\ pc' = "failed"
    /\ UNCHANGED <<doc, extracted, annotations, classes, pool, rendered>>

Next ==
    \/ ExtractFast \/ ExtractSmart \/ ExtractRaises
    \/ StartChunk
    \/ \E k \in running : AnnotateChunk(k) \/ RenderChunk(k) \/ ChunkRaises(k)
    \/ Annotate \/ AnnotateRaises \/ Classify \/ Synthesise \/ SynthesiseRaises
Spec == Init /\ [][Next]_vars
(* The processor's thread and the pool's threads run; every call of a       *)
(* provider returns or raises.                                              *)
FairSpec == Spec /\ WF_vars(Next)

-----------------------------------------------------------------------------
(* Types; the pool never has more chunks under way than workers, and a      *)
(* chunk is not started, under way and finished at once.                    *)
TypeOK ==
    /\ [clauses |-> doc.clauses, names |-> doc.names] \in Docs /\ doc.chunk \in ChunkSizes
    /\ pc \in {"extract", "extract_smart", "annotate", "classify", "render", "ready", "failed"}
    /\ extracted \in Extraction /\ ids \subseteq ToSet(doc.clauses)
    /\ annotations = <<>> \/ annotations \in [ids -> Annotation]
    /\ classes = <<>> \/ classes \in [ids -> Rules \cup {NoRule}]
    /\ next \in 1..(ChunkCount + 1) /\ lost \subseteq 1..(next - 1)
    /\ Cardinality(running) <= Workers
    /\ {finished[i].chunk : i \in DOMAIN finished} = (1..(next - 1)) \ running
    /\ Len(finished) + Cardinality(running) = next - 1
    /\ rendered \in Seq(Row)

(* A ready contract shows every clause once, in the order of the contract,  *)
(* in whatever order the chunks finished (stage3.py: 255-257).              *)
ReadyInOrder == pc = "ready" => [i \in DOMAIN rendered |-> rendered[i].clause] = Clauses

(* A batch that failed is never presented as a completed read: no clause of *)
(* a ready contract is a placeholder (stage3.py: 293-308).                  *)
FailedBatchNeverReady ==
    pc = "ready" => \A i \in DOMAIN rendered : rendered[i].source # "missing"

(* Together: types with the pool's bookkeeping, and ready contracts that    *)
(* show every clause once, in order, and no placeholder (stage3.py:         *)
(* 219-308).                                                                *)
Inv == TypeOK /\ ReadyInOrder /\ FailedBatchNeverReady

(* A red clause of a ready contract advises an action, unless what is shown *)
(* is a rule's own safe text without one (stage3_validator.py: 153-163;     *)
(* stage3.py: 428-484).                                                     *)
RedClausesAct ==
    pc = "ready" =>
        \A i \in DOMAIN rendered :
            LET c == rendered[i].clause
            IN  annotations # <<>> /\ annotations[c].risk = "red" /\ ~rendered[i].action
                => rendered[i].source = "fallback" /\ classes[c] # NoRule /\ ~classes[c].fallbackActs

(* Another state's law, where the map's words name it, reaches the worker   *)
(* only in a citation that names an earlier state of the map, which is the  *)
(* contract's own; neither an annotation nor the rule of a row cites it     *)
(* alone (stage2.py: 353-379; stage3.py: 563-583).                          *)
KeptOut(cite) ==
    \A i \in DOMAIN Marked :
        Marked[i] \in cite \ doc.names =>
            \E j \in 1..(i - 1) : Marked[j] \in cite \cap doc.names
ForeignLawStaysOut ==
    /\ \A c \in DOMAIN annotations : KeptOut(annotations[c].cites)
    /\ \A i \in DOMAIN rendered :
          rendered[i].source = "library-rule" => KeptOut(classes[rendered[i].clause].cites)

(* Every reading ends ready or failed, also when calls raise.               *)
Terminates == <>(pc \in {"ready", "failed"})

(* PRD 7.4: whatever the model returns, two failed attempts end in the safe *)
(* fallback, so every clause of a ready contract has a text.                *)
NoGarbageShips == pc = "ready" => \A i \in DOMAIN rendered : rendered[i].text
=============================================================================
