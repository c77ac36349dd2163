------------------------------- MODULE Corpus -------------------------------
(***************************************************************************)
(* The statute corpus behind Stage 2's citations: the script that cuts the *)
(* statutes into chunks, embeds and stores them                            *)
(* (scripts/ingest_statute_corpus.py, app/retrieval/chunker.py and         *)
(* embedder.py), and the pool workers of Stage 2 that look clauses up in   *)
(* it (app/retrieval/retriever.py, app/contracts/stage2.py: 202-280).      *)
(*                                                                         *)
(* The script commits its deletion before it embeds, and its rows slab by  *)
(* slab; a worker keeps one pooled connection from its first query to its  *)
(* last, while it waits for embeddings in between.                         *)
(*                                                                         *)
(* Vectors are left out: which chunks reach the similarity threshold is    *)
(* part of a clause, and which of those are nearest is left open.  The     *)
(* table's index is taken to find what the query asks for (013's HNSW      *)
(* index finds it approximately).                                          *)
(***************************************************************************)
EXTENDS Naturals, FiniteSets, Sequences, SequencesExt

CONSTANTS
    Attempts,             \* max_attempts of embedder._call and OpenAIProvider.chat
    Sources,              \* statutes; each is one .md file
    Layouts,              \* the sections a file may have: the lengths of the
                          \* paragraphs of each
    Samples,              \* more sections, which only the chunker is tried on
    MaxChars, MinChars,   \* 1500 and 200 in the code
    Slab,                 \* rows per commit, 500 in the code
    Foreign,              \* rows that are a tenant's or no statute
    Inactive,             \* shared statute rows with is_active = false
    Runs, NoRun,          \* times the operator starts the script
    Batches,              \* batches of clauses in Stage 2's pools
    Clauses,              \* clauses in a batch
    Text, NoQuery,        \* a batch's clauses: for each the chunks that reach
                          \* the threshold, or NoQuery: it is blank
    NearestPerClause,     \* _RAG_K_PER_CLAUSE, 3 in the code
    InPrompt,             \* 10 in the code
    Connections           \* the engine's pool: 5, and 10 more on demand

ASSUME CorpusAssumption ==
    /\ NoRun \notin Runs 
    /\ Text \in [Batches -> [1..Clauses -> SUBSET (Sources \X Nat) \cup {NoQuery}]]
    /\ IsFiniteSet(Sources) /\ Layouts \subseteq Seq(Seq(Nat)) \ {<<>>} /\ Samples \subseteq Seq(Nat)
    /\ {Attempts, MaxChars, MinChars, Slab, Clauses, NearestPerClause, InPrompt, Connections}
          \subseteq Nat \ {0}

Calls == INSTANCE Providers WITH Callers <- {}, Selections <- {}, call <- <<>>

-----------------------------------------------------------------------------
(* The chunker: a section is the sequence of its paragraphs' lengths, the   *)
(* first one with its heading; a piece is the set of paragraphs it holds,   *)
(* joined by two characters each.                                           *)
Total(section, ps) ==
    IF ps = {} THEN 0
    ELSE FoldSet(LAMBDA p, sum : sum + section[p], 0, ps) + 2 * (Cardinality(ps) - 1)

(* _split_long: paragraphs are buffered up to the limit.  A full buffer     *)
(* that is shorter than MinChars is given up for the next paragraph; one    *)
(* paragraph that is too long is cut into sentences, which lose nothing.    *)
Cut(section, s, p) ==
    IF Total(section, s.buffer \cup {p}) <= MaxChars
      THEN [s EXCEPT !.buffer = @ \cup {p}]
      ELSE LET kept == IF s.buffer # {} /\ Total(section, s.buffer) >= MinChars
                         THEN Append(s.out, s.buffer) ELSE s.out
           IN  IF section[p] > MaxChars
                 THEN [out |-> Append(kept, {p}), buffer |-> {}]
                 ELSE [out |-> kept, buffer |-> {p}]
Split(section) ==
    IF Total(section, DOMAIN section) <= MaxChars THEN <<DOMAIN section>>
    ELSE LET s == FoldLeft(LAMBDA acc, p : Cut(section, acc, p),
                           [out |-> <<>>, buffer |-> {}], [p \in DOMAIN section |-> p])
         IN  IF s.buffer = {} THEN s.out ELSE Append(s.out, s.buffer)
(* The chunks of a file, numbered through: chunk_index.                     *)
Pieces(file) == FlattenSeq([i \in DOMAIN file |->
                    LET cut == Split(file[i])
                    IN  [j \in DOMAIN cut |-> [section |-> i, paragraphs |-> cut[j]]]])
Chunks == [file \in Layouts |-> Len(Pieces(file))]

(* No row of another kind is taken for a chunk.                             *)
ASSUME ForeignAssumption ==
    /\ IsFiniteSet(Foreign) /\ Foreign \subseteq Sources \X Nat
    /\ IsFiniteSet(Inactive) /\ Inactive \subseteq (Sources \X Nat) \ Foreign
    /\ \A k \in Foreign, file \in Layouts : k[2] \notin 1..Chunks[file]

-----------------------------------------------------------------------------
VARIABLES
    files,      \* [Sources -> Layouts]
    rows,       \* committed rows: [key, run]
    at,         \* a run of the script: "idle", "embed", "insert", "done", "dead"
    given,      \* the files it was given
    embedding,  \* its call of the embeddings endpoint
    left,       \* the keys it has still to insert, in order
    wiped,      \* per source, the run that deleted its rows last
    together,   \* some run started while another was at work
    pc,         \* a batch: "queued", "embed", "query", "ask", "annotated", "lost"
    clause,     \* the clause it is at
    asking,     \* its call: of the embeddings endpoint, then of the model
    holds,      \* batches with a pooled connection
    found,      \* the chunks it has found so far
    prompt      \* the chunks the model was shown

scriptVars == <<at, given, embedding, left, wiped, together>>
batchVars == <<pc, clause, asking, holds, found, prompt>>
corpusVars == <<files, rows, scriptVars, batchVars>>

Row == [key : Sources \X Nat, run : Runs \cup {NoRun}]
Key(s, i) == <<s, i>>
KeysOf(s) == [i \in 1..Chunks[files[s]] |-> Key(s, i)]
Shared(row) == row.key \notin Foreign
(* What the script stores is active; of what was there before, nothing is.  *)
Active(row) == row.run # NoRun
RowsOf(s) == {row \in rows : Shared(row) /\ row.key[1] = s}
AtWork == {r \in Runs : at[r] \in {"embed", "insert"}}

CorpusInit ==
    /\ files \in [Sources -> Layouts]
    /\ rows = {[key |-> k, run |-> NoRun] : k \in Foreign \cup Inactive}
    /\ at = [r \in Runs |-> "idle"] /\ given = [r \in Runs |-> {}]
    /\ embedding = [r \in Runs |-> Calls!Fresh("openai")] /\ left = [r \in Runs |-> <<>>]
    /\ wiped = [s \in Sources |-> NoRun] /\ together = FALSE
    /\ pc = [b \in Batches |-> "queued"] /\ clause = [b \in Batches |-> 1]
    /\ asking = [b \in Batches |-> Calls!Fresh("openai")] /\ holds = {}
    /\ found = [b \in Batches |-> {}] /\ prompt = [b \in Batches |-> {}]

-----------------------------------------------------------------------------
(* The script.                                                              *)

(* Mutant: the rows of the files are not deleted first.                     *)
Outdated_Never(of, reset) == {}
(* The sources whose rows go, inactive ones too: all with --reset, else the *)
(* files' own.                                                              *)
Outdated(of, reset) == IF reset THEN Sources ELSE of

(* The files are read and cut, the old rows deleted and that committed.     *)
Start(r) ==
    /\ at[r] = "idle"
    /\ \E of \in SUBSET Sources \ {{}}, reset \in BOOLEAN :
         LET gone == Outdated(of, reset)
         IN  /\ given' = [given EXCEPT ![r] = of]
             /\ rows' = rows \ UNION {RowsOf(s) : s \in gone}
             /\ wiped' = [s \in Sources |-> IF s \in gone THEN r ELSE wiped[s]]
             /\ left' = [left EXCEPT ![r] =
                           FlattenSeq(SetToSeq({KeysOf(s) : s \in of}))]
    /\ at' = [at EXCEPT ![r] = "embed"]
    /\ together' = (together \/ AtWork # {})
    /\ UNCHANGED <<files, embedding, batchVars>>

(* The process is gone, and what it kept in memory with it.                 *)
Dead(r) ==
    /\ at' = [at EXCEPT ![r] = "dead"] /\ left' = [left EXCEPT ![r] = <<>>]
    /\ given' = [given EXCEPT ![r] = {}]
    /\ embedding' = [embedding EXCEPT ![r] = Calls!Fresh("openai")]
(* A call that got its reply makes room for the next one.                   *)
Going(c) == IF c.end = "reply" THEN Calls!Fresh(c.kind) ELSE c

(* All chunks are embedded before the first is stored.  An answer with too  *)
(* few vectors is noticed only when they run out, which ends the script.    *)
Embed(r) ==
    /\ at[r] = "embed"
    /\ \E c \in Calls!Tried(embedding[r]) : \E short \in {FALSE, c.end = "reply"} :
             IF c.end = "raised" \/ short THEN Dead(r)
             ELSE /\ embedding' = [embedding EXCEPT ![r] = Going(c)]
                  /\ at' = [at EXCEPT ![r] = IF c.end = "reply" THEN "insert" ELSE @]
                  /\ UNCHANGED <<left, given>>
    /\ UNCHANGED <<files, rows, wiped, together, batchVars>>

(* A slab of rows is inserted and committed.                                *)
Insert(r) ==
    /\ at[r] = "insert"
    /\ LET slab == {left[r][i] : i \in DOMAIN left[r] \cap 1..Slab}
       IN  rows' = rows \cup {[key |-> k, run |-> r] : k \in slab}
    /\ left' = [left EXCEPT ![r] = SubSeq(@, Slab + 1, Len(@))]
    /\ at' = [at EXCEPT ![r] = IF Len(left[r]) <= Slab THEN "done" ELSE @]
    /\ UNCHANGED <<files, given, embedding, wiped, together, batchVars>>

(* The process is stopped, or the database refuses a slab.                  *)
Die(r) ==
    /\ at[r] \in {"embed", "insert"} /\ Dead(r)
    /\ UNCHANGED <<files, rows, wiped, together, batchVars>>

-----------------------------------------------------------------------------
(* A batch in Stage 2's pool.                                               *)

(* The with block ends: its connection goes back.                           *)
Release(b) == holds' = holds \ {b}
Forget(b) ==
    /\ clause' = [clause EXCEPT ![b] = 1]
    /\ asking' = [asking EXCEPT ![b] = Calls!Fresh("openai")]
    /\ found' = [found EXCEPT ![b] = {}] /\ prompt' = [prompt EXCEPT ![b] = {}]
(* Mutant: the session of a lost batch is not closed.                       *)
Lose_KeepsConnection(b) ==
    /\ pc' = [pc EXCEPT ![b] = "lost"] /\ UNCHANGED holds /\ Forget(b)
(* An exception leaves the worker: its batch has no annotations.            *)
Lose(b) ==
    /\ pc' = [pc EXCEPT ![b] = "lost"] /\ Release(b) /\ Forget(b)

Take(b) ==
    /\ pc[b] = "queued" /\ pc' = [pc EXCEPT ![b] = "embed"]
    /\ UNCHANGED <<files, rows, scriptVars, clause, asking, holds, found, prompt>>

Asked(b) == Text[b][clause[b]]

(* The query of a clause is embedded, whether a connection is held or not.  *)
EmbedQuery(b) ==
    /\ pc[b] = "embed" /\ Asked(b) # NoQuery
    /\ \E c \in Calls!Tried(asking[b]) :
             IF c.end = "raised" THEN Lose(b)
             ELSE /\ asking' = [asking EXCEPT ![b] = Going(c)]
                  /\ pc' = [pc EXCEPT ![b] = IF c.end = "reply" THEN "query" ELSE @]
                  /\ UNCHANGED <<clause, holds, found, prompt>>
    /\ UNCHANGED <<files, rows, scriptVars>>

(* The nearest of the active shared statute rows that reach the threshold,  *)
(* at most k of them.                                                       *)
Near(keys) == {row \in rows : Shared(row) /\ Active(row) /\ row.key \in keys}
Nearest(keys, k) ==
    {set \in SUBSET Near(keys) :
        Cardinality(set) = IF Cardinality(Near(keys)) < k THEN Cardinality(Near(keys)) ELSE k}
KeysIn(set) == {row.key : row \in set}
(* Mutant: what a clause finds anew takes the place of what was found.      *)
Deduplicated_Replaces(old, new) ==
    {n \in SUBSET new : /\ KeysIn(n) = KeysIn(new) \ KeysIn(old)
                        /\ Cardinality(n) = Cardinality(KeysIn(n))}
(* A chunk found before is not added again; which of two rows of a chunk    *)
(* comes first is left open.                                                *)
Deduplicated(old, new) ==
    {old \cup n : n \in {n \in SUBSET new : /\ KeysIn(n) = KeysIn(new) \ KeysIn(old)
                                          /\ Cardinality(n) = Cardinality(KeysIn(n))}}

(* With all found up to this clause it goes on to the next one; after the   *)
(* last one the session is closed and the ten nearest chunks are written    *)
(* into the prompt.                                                         *)
LookedUp(b, all) ==
    \/ /\ clause[b] < Clauses /\ clause' = [clause EXCEPT ![b] = @ + 1]
       /\ pc' = [pc EXCEPT ![b] = "embed"] /\ found' = [found EXCEPT ![b] = all]
       /\ UNCHANGED prompt
    \/ /\ clause[b] = Clauses /\ UNCHANGED clause
       /\ \E best \in SUBSET all :
             /\ Cardinality(best) = IF Cardinality(all) < InPrompt THEN Cardinality(all) ELSE InPrompt
             /\ prompt' = [prompt EXCEPT ![b] = best]
       /\ pc' = [pc EXCEPT ![b] = "ask"] /\ found' = [found EXCEPT ![b] = {}]

(* One clause's query; the connection is kept up to the last one.           *)
Query(b) ==
    /\ pc[b] = "query"
    /\ b \in holds \/ Cardinality(holds) < Connections
    /\ \E set \in Nearest(Asked(b), NearestPerClause) :
           \E all \in Deduplicated(found[b], set) : LookedUp(b, all)
    /\ holds' = IF clause[b] < Clauses THEN holds \cup {b} ELSE holds \ {b}
    /\ UNCHANGED <<files, rows, scriptVars, asking>>

(* A blank clause is not looked up.                                         *)
Blank(b) ==
    /\ pc[b] = "embed" /\ Asked(b) = NoQuery
    /\ LookedUp(b, found[b])
    /\ holds' = IF clause[b] < Clauses THEN holds ELSE holds \ {b}
    /\ UNCHANGED <<files, rows, scriptVars, asking>>

(* The pool gave no connection within its timeout, or the query failed.     *)
QueryRaises(b) ==
    /\ pc[b] = "query" /\ Lose(b)
    /\ UNCHANGED <<files, rows, scriptVars>>

(* The model annotates the batch, whose worker is then done.                *)
Ask(b) ==
    /\ pc[b] = "ask"
    /\ \E c \in Calls!Tried(asking[b]) :
             IF c.end = "raised" THEN Lose(b)
             ELSE IF c.end = "reply"
             THEN pc' = [pc EXCEPT ![b] = "annotated"] /\ UNCHANGED holds /\ Forget(b)
             ELSE asking' = [asking EXCEPT ![b] = c] /\ UNCHANGED <<pc, clause, holds, found, prompt>>
    /\ UNCHANGED <<files, rows, scriptVars>>

BatchStep(b) == Take(b) \/ EmbedQuery(b) \/ Query(b) \/ Blank(b) \/ QueryRaises(b) \/ Ask(b)
RunStep(r) == Start(r) \/ Embed(r) \/ Insert(r) \/ Die(r)
CorpusNext == (\E r \in Runs : RunStep(r)) \/ (\E b \in Batches : BatchStep(b))

-----------------------------------------------------------------------------
CorpusTypeOK ==
    /\ files \in [Sources -> Layouts]
    /\ rows \subseteq Row
    /\ at \in [Runs -> {"idle", "embed", "insert", "done", "dead"}]
    /\ given \in [Runs -> SUBSET Sources] /\ embedding \in [Runs -> Calls!Call]
    /\ wiped \in [Sources -> Runs \cup {NoRun}] /\ together \in BOOLEAN
    /\ pc \in [Batches -> {"queued", "embed", "query", "ask", "annotated", "lost"}]
    /\ clause \in [Batches -> 1..Clauses] /\ asking \in [Batches -> Calls!Call]
    /\ holds \subseteq Batches

(* What the chunker leaves out of a section is shorter than MinChars, and   *)
(* only a paragraph of its own is longer than the limit (chunker.py: 129).  *)
OnlyShortIsLeftOut ==
    \A section \in Samples :
        LET cut == Split(section)
            kept == UNION {cut[j] : j \in DOMAIN cut}
        IN  /\ \A p \in DOMAIN section \ kept : section[p] < MinChars
            /\ \A j \in DOMAIN cut : Cardinality(cut[j]) > 1 => Total(section, cut[j]) <= MaxChars

(* Unless two runs of the script overlapped, a statute's rows all come from *)
(* the run that wiped it last, inactive ones gone with the others, and once *)
(* that run is done they are the file's chunks, each once, however often    *)
(* earlier runs died half-way.                                              *)
AsLastIngested ==
    ~together => \A s \in Sources :
        LET r == wiped[s]
            all == {[key |-> k, run |-> r] : k \in ToSet(KeysOf(s))}
        IN  IF r = NoRun
              THEN RowsOf(s) = {[key |-> k, run |-> r] : k \in {k \in Inactive : k[1] = s}}
              ELSE /\ RowsOf(s) \subseteq all
                   /\ at[r] = "done" => RowsOf(s) = IF s \in given[r] THEN all ELSE {}

(* Neither the script nor a search touches a row that is a tenant's or of   *)
(* another kind; a prompt shows no inactive row and no chunk twice, though  *)
(* a chunk may be stored anew between two queries of the batch.             *)
ForeignStaysOut ==
    /\ {row \in rows : ~Shared(row)} = {[key |-> k, run |-> NoRun] : k \in Foreign}
    /\ \A b \in Batches : /\ \A row \in prompt[b] : Shared(row) /\ Active(row)
                          /\ Cardinality(prompt[b]) = Cardinality(KeysIn(prompt[b]))

(* The pool's connections suffice, and none is held by a batch that is over *)
(* or has not begun, by whichever way it ended.                             *)
ConnectionsReturned ==
    /\ Cardinality(holds) <= Connections
    /\ \A b \in holds : pc[b] \in {"embed", "query"}

(* The run that wiped the statute last was given it and is done.            *)
Ingested(s) == wiped[s] # NoRun /\ s \in given[wiped[s]] /\ at[wiped[s]] = "done"
Matched(b) == found[b] # {} \/ prompt[b] # {}

(* The model is told "no matches" only of a batch none of whose clauses,    *)
(* when it was looked up, had a chunk above the threshold in an ingested    *)
(* statute: such a clause finds something, and what was found is not lost   *)
(* before the model is asked, whatever the script commits in between.  (A   *)
(* statute is not ingested while a run is between its deletion and its end, *)
(* or died there.)                                                          *)
GroundedOnceIngested ==
    [][\A b \in Batches :
         /\ pc[b] = "query" /\ pc'[b] \in {"embed", "ask"} =>
               \A s \in Sources :
                   Ingested(s) /\ Asked(b) \cap ToSet(KeysOf(s)) # {} => Matched(b)'
         /\ Matched(b) => Matched(b)' \/ pc'[b] \in {"annotated", "lost"}]_corpusVars
=============================================================================
