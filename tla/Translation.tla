---------------------------- MODULE Translation ----------------------------
(***************************************************************************)
(* The translation of a contract's finished explanation into the worker's  *)
(* language by Sarvam Mayura (app/contracts/translate.py), and what the    *)
(* processor stores of it (app/contracts/processor.py).                    *)
(*                                                                         *)
(* Rows are packed greedily into chunks and each chunk is one call.  A     *)
(* request and an answer are sequences of tokens: the markers [[ROW_n]]    *)
(* and [[FLD]], and the text of one field.  A call is tried up to          *)
(* Attempts times.  When a chunk cannot be translated or its markers did   *)
(* not survive, its rows are translated one field at a time; a row that    *)
(* fails there too, or that the answer of its chunk lost, stays English.   *)
(*                                                                         *)
(* Mayura is outside the program: it may answer, refuse, be busy or time   *)
(* out at any call, and Damages names what it may do to the markers.       *)
(***************************************************************************)
EXTENDS Integers, Sequences, FiniteSets, SequencesExt

CONSTANTS
    Clauses,    \* clause ids
    Inputs,     \* the finished explanations: sequences of InputRow
    Overviews,  \* numbers of overview items (summary and actions) to translate
    MaxChars,   \* _MAX_INPUT_CHARS
    Attempts,   \* max_attempts of _mayura
    Damages     \* what Mayura may do to a request besides translating it

VARIABLES
    rows,       \* rendered_en, canonicalised
    items,      \* how many strings the overview has
    pc,         \* the call under way, or the step between two calls
    lo, hi,     \* the chunk being translated is rows lo..hi
    row, todo,  \* per-field translation: its row and the fields not done yet
    attempt,    \* which attempt of the current call this is
    out,        \* translated_by_id
    overview,   \* the languages of the overview's strings so far
    stored,     \* stages.stage_3.translation
    hiccups,    \* history: busy answers and timeouts, counted up to Attempts
    failed,     \* history: calls refused outright or answered beyond repair
    dropped     \* history: rows missing from an accepted answer

vars == <<rows, items, pc, lo, hi, row, todo, attempt, out, overview, stored,
          hiccups, failed, dropped>>
call == <<lo, hi, row, todo>>

Field == 1..3   \* explanation, implication, action
(* A row: its clause, the length of its three fields with the two field     *)
(* separators, that length once idioms are replaced by placeholders, the    *)
(* fields that are not blank, and whether action is null.                   *)
InputRow == [id : Clauses, size : Nat, sends : Nat, has : SUBSET Field, nullAction : BOOLEAN]
ids == {rows[r].id : r \in DOMAIN rows}

(* The processor does not start without rows.  Nothing keeps Stage 3 from   *)
(* rendering a clause twice.                                                *)
ASSUME InputsAssumption ==
    \A s \in Inputs :
        /\ s \in Seq(InputRow) /\ s # <<>>
        /\ \A r \in DOMAIN s : s[r].nullAction => 3 \notin s[r].has
ASSUME NumbersAssumption ==
    Overviews \subseteq Nat /\ MaxChars \in Nat /\ Attempts \in Nat \ {0}

-----------------------------------------------------------------------------
(* Tokens and texts.                                                        *)
Marker(n) == [kind |-> "row", n |-> n]
Sep == [kind |-> "fld"]
Text(r, f, l) == [kind |-> "text", row |-> r, field |-> f, lang |-> l]
Own(r, f, l) == IF f \in rows[r].has THEN <<Text(r, f, l)>> ELSE <<>>
AllOwn(r, l) == [f \in Field |-> Own(r, f, l)]
Body(r, l) == Own(r, 1, l) \o <<Sep>> \o Own(r, 2, l) \o <<Sep>> \o Own(r, 3, l)

(* What the worker's view shows of a row: its three texts, an empty action  *)
(* standing for null, and the flag the processor collects.                  *)
Translated(r, texts) ==
    [texts |-> IF rows[r].nullAction THEN [texts EXCEPT ![3] = <<>>] ELSE texts,
     fallback |-> FALSE]
English(r) == [Translated(r, AllOwn(r, "en")) EXCEPT !.fallback = TRUE]
EnglishTexts == {Text(r, f, "en") : r \in DOMAIN rows, f \in Field}

-----------------------------------------------------------------------------
(* Packing.                                                                 *)
Digits(n) == IF n < 10 THEN 1 ELSE IF n < 100 THEN 2 ELSE 3
EncodedLength(a, b) ==
    LET n == b - a + 1
        bodies == [i \in 1..n |-> rows[a + i - 1].size]
    IN  FoldLeft(+, 0, bodies) + n * (11 + Digits(n))
Oversize(r) == EncodedLength(r, r) > MaxChars
(* The greedy packer closes a chunk before the first row that would make it *)
(* longer than the cap.                                                     *)
ChunkEnd(a) ==
    Max({b \in a..Len(rows) : \A c \in (a + 1)..b : EncodedLength(a, c) <= MaxChars})

-----------------------------------------------------------------------------
(* What Mayura may return for a request of n rows from row a on.            *)
Blocks(a, n) == [i \in 1..n |-> <<Marker(i)>> \o Body(a + i - 1, "xx")]
OneLost(ans, kind) == {RemoveAt(ans, p) : p \in {q \in DOMAIN ans : ans[q].kind = kind}}
Answers(a, n) ==
    LET blocks == Blocks(a, n)
        whole  == FlattenSeq(blocks)
    IN  {whole}
        \cup (IF "reordered" \in Damages
              THEN {FlattenSeq([i \in 1..n |-> blocks[p[i]]]) : p \in Bijection(1..n, 1..n)} ELSE {})
        \cup (IF "cut" \in Damages
              THEN {SubSeq(whole, 1, k) : k \in 0..Len(whole)} ELSE {})
        \cup (IF "lost_row" \in Damages
              THEN {FlattenSeq(RemoveAt(blocks, i)) : i \in 1..n} ELSE {})
        \cup (IF "lost_separator" \in Damages
              THEN OneLost(whole, "fld") ELSE {})
        \cup (IF "lost_marker" \in Damages
              THEN OneLost(whole, "row") ELSE {})

(* _decode_chunk: split on row markers, then each body on field separators. *)
MarkersIn(ans) == {p \in DOMAIN ans : ans[p].kind = "row"}
BodyAt(ans, p) ==
    LET later == {q \in MarkersIn(ans) : q > p}
    IN  SubSeq(ans, p + 1, IF later = {} THEN Len(ans) ELSE Min(later) - 1)
SepsIn(body) == {q \in DOMAIN body : body[q] = Sep}
Split(body) ==
    LET first  == Min(SepsIn(body))
        second == Min(SepsIn(body) \ {first})
    IN  <<SubSeq(body, 1, first - 1), SubSeq(body, first + 1, second - 1),
          SubSeq(body, second + 1, Len(body))>>
(* Mutant: rows are told apart by their place, not by the marker's number.  *)
Decoded_ByPosition(ans, a, n) ==
    LET idAt(p) == rows[a + Cardinality({q \in MarkersIn(ans) : q < p})].id
        good == {p \in MarkersIn(ans) : Cardinality(SepsIn(BodyAt(ans, p))) >= 2}
    IN  [id \in {idAt(p) : p \in good} |->
            Split(BodyAt(ans, Max({p \in good : idAt(p) = id})))]

Decoded(ans, a, n) ==
    LET idAt(p) == rows[a + ans[p].n - 1].id
        good == {p \in MarkersIn(ans) :
                    ans[p].n \in 1..n /\ Cardinality(SepsIn(BodyAt(ans, p))) >= 2}
    IN  [id \in {idAt(p) : p \in good} |->
            Split(BodyAt(ans, Max({p \in good : idAt(p) = id})))]
Usable(parsed, n) ==
    Cardinality(DOMAIN parsed) >= IF n \div 2 > 1 THEN n \div 2 ELSE 1

-----------------------------------------------------------------------------
NotStored == [rendered |-> <<>>, fallback |-> {}, overview |-> <<>>, error |-> FALSE]

Init ==
    /\ rows \in Inputs /\ items \in Overviews
    /\ pc = "start" /\ lo = 1 /\ hi = 0 /\ row = 1 /\ todo = {} /\ attempt = 1
    /\ out = <<>> /\ overview = <<>> /\ stored = NotStored
    /\ hiccups = 0 /\ failed = 0 /\ dropped = 0

(* No API key: nothing is translated, and the processor records why.        *)
Unconfigured ==
    /\ pc = "start" /\ pc' = "done"
    /\ stored' = [NotStored EXCEPT !.error = TRUE]
    /\ UNCHANGED <<rows, items, call, attempt, out, overview, hiccups, failed, dropped>>

Configured ==
    /\ pc = "start" /\ pc' = "pack"
    /\ UNCHANGED <<rows, items, call, attempt, out, overview, stored, hiccups, failed, dropped>>

(* Per-field translation of row r starts: one call per non-blank field.     *)
StartRow(r) == pc' = "field" /\ row' = r /\ todo' = rows[r].has /\ attempt' = 1

(* The loop takes the next chunk; a row too long to be sent goes per field. *)
NextChunk ==
    /\ pc = "pack" /\ lo <= Len(rows)
    /\ hi' = ChunkEnd(lo)
    /\ IF lo = ChunkEnd(lo) /\ Oversize(lo)
         THEN StartRow(lo)
         ELSE pc' = "chunk" /\ attempt' = 1 /\ UNCHANGED <<row, todo>>
    /\ UNCHANGED <<rows, items, lo, out, overview, stored, hiccups, failed, dropped>>

Calling ==
    \/ pc = "chunk"
    \/ pc = "field" /\ todo # {}
    \/ pc = "overview" /\ Len(overview) < items

(* The length of a chunk's request: idioms are replaced after the rows were *)
(* packed, and a placeholder may be longer than its phrase.  The newlines   *)
(* before the first marker are not sent.                                    *)
Sent ==
    LET part(i) == rows[lo + i - 1].sends + 11 + Digits(i)
    IN  FoldLeft(+, 0, [i \in 1..(hi - lo + 1) |-> part(i)]) - 2

(* Mutant: a retry loop without an end.                                     *)
Retry_Forever ==
    /\ Calling
    /\ attempt' = 1 + (attempt % Attempts)
    /\ hiccups' = IF hiccups < Attempts THEN hiccups + 1 ELSE hiccups
    /\ UNCHANGED <<rows, items, pc, call, out, overview, stored, failed, dropped>>

(* Mayura is busy (429, 5xx) or does not answer in time: try again.         *)
Retry ==
    /\ Calling
    /\ attempt < Attempts /\ attempt' = attempt + 1
    /\ hiccups' = IF hiccups < Attempts THEN hiccups + 1 ELSE hiccups
    /\ UNCHANGED <<rows, items, pc, call, out, overview, stored, failed, dropped>>

(* The call raises: refused (4xx, unexpected shape, other transport error,  *)
(* the idiom library), or the last attempt was busy as well.                *)
Raises ==
    \/ failed' = failed + 1 /\ UNCHANGED hiccups
    \/ /\ attempt = Attempts /\ UNCHANGED failed
       /\ hiccups' = IF hiccups < Attempts THEN hiccups + 1 ELSE hiccups

(* Results are entered into translated_by_id.                               *)
Put(new) == [id \in DOMAIN new \cup DOMAIN out |->
                IF id \in DOMAIN new THEN new[id] ELSE out[id]]

(* A chunk is answered and enough of its rows are found in the answer; the  *)
(* others stay English.                                                     *)
ChunkAnswered ==
    /\ pc = "chunk" /\ pc' = "pack" /\ lo' = hi + 1
    /\ \E ans \in Answers(lo, hi - lo + 1) :
         LET parsed == Decoded(ans, lo, hi - lo + 1)
             found(r) == rows[r].id \in DOMAIN parsed
         IN  /\ Usable(parsed, hi - lo + 1)
             /\ out' = Put([id \in {rows[r].id : r \in lo..hi} |->
                              LET r == Max({q \in lo..hi : rows[q].id = id})
                              IN  IF found(r) THEN Translated(r, parsed[id]) ELSE English(r)])
             /\ dropped' = dropped + Cardinality({r \in lo..hi : ~found(r)})
    /\ UNCHANGED <<rows, items, hi, row, todo, attempt, overview, stored, hiccups, failed>>

(* Mutant: the rows of a failed chunk stay English at once.                 *)
ChunkFails_KeepsEnglish ==
    /\ pc = "chunk" /\ pc' = "pack" /\ lo' = hi + 1
    /\ \/ Raises
       \/ /\ \E ans \in Answers(lo, hi - lo + 1) :
               ~Usable(Decoded(ans, lo, hi - lo + 1), hi - lo + 1)
          /\ failed' = failed + 1 /\ UNCHANGED hiccups
    /\ out' = Put([id \in {rows[r].id : r \in lo..hi} |->
                     English(Max({q \in lo..hi : rows[q].id = id}))])
    /\ UNCHANGED <<rows, items, hi, row, todo, attempt, overview, stored, dropped>>

(* A chunk whose call raised, or whose answer lost too many rows, is        *)
(* translated again row by row.                                             *)
ChunkFails ==
    /\ pc = "chunk" /\ StartRow(lo)
    /\ \/ Raises
       \/ /\ \E ans \in Answers(lo, hi - lo + 1) :
               ~Usable(Decoded(ans, lo, hi - lo + 1), hi - lo + 1)
          /\ failed' = failed + 1 /\ UNCHANGED hiccups
    /\ UNCHANGED <<rows, items, lo, hi, out, overview, stored, dropped>>

(* The row is settled: the next one of the chunk, or the next chunk.        *)
Settle(r, value) ==
    /\ out' = Put([id \in {rows[r].id} |-> value])
    /\ IF r < hi
         THEN StartRow(r + 1) /\ UNCHANGED lo
         ELSE pc' = "pack" /\ lo' = hi + 1 /\ UNCHANGED <<row, todo, attempt>>

FieldAnswered ==
    /\ pc = "field" /\ todo # {}
    /\ todo' = todo \ {Min(todo)} /\ attempt' = 1
    /\ UNCHANGED <<rows, items, pc, lo, hi, row, out, overview, stored, hiccups, failed, dropped>>

RowTranslated ==
    /\ pc = "field" /\ todo = {}
    /\ Settle(row, Translated(row, AllOwn(row, "xx")))
    /\ UNCHANGED <<rows, items, hi, overview, stored, hiccups, failed, dropped>>

(* Mutant: only the field that failed stays English, as in the overview.    *)
FieldFails_KeepsField ==
    /\ pc = "field" /\ todo # {} /\ Raises
    /\ Settle(row, Translated(row, [AllOwn(row, "xx") EXCEPT ![Min(todo)] = Own(row, Min(todo), "en")]))
    /\ UNCHANGED <<rows, items, hi, overview, stored, dropped>>

(* One field of the row failed: the whole row stays English.                *)
FieldFails ==
    /\ pc = "field" /\ todo # {} /\ Raises
    /\ Settle(row, English(row))
    /\ UNCHANGED <<rows, items, hi, overview, stored, dropped>>

-----------------------------------------------------------------------------
(* All chunks are done; the overview is translated next, string by string.  *)
RowsDone ==
    /\ pc = "pack" /\ lo > Len(rows)
    /\ pc' = "overview" /\ attempt' = 1
    /\ UNCHANGED <<rows, items, call, out, overview, stored, hiccups, failed, dropped>>

OverviewAnswered ==
    /\ pc = "overview" /\ Len(overview) < items
    /\ overview' = Append(overview, "xx") /\ attempt' = 1
    /\ UNCHANGED <<rows, items, pc, call, out, stored, hiccups, failed, dropped>>

OverviewFails ==
    /\ pc = "overview" /\ Len(overview) < items /\ Raises
    /\ overview' = Append(overview, "en") /\ attempt' = 1
    /\ UNCHANGED <<rows, items, pc, call, out, stored, dropped>>

(* The processor stores the rows in the order of the input, unless all of   *)
(* them fell back, and the clauses that are shown in English.               *)
Delivered(r) == IF rows[r].id \in DOMAIN out THEN out[rows[r].id] ELSE English(r)
FellBack == {r \in DOMAIN rows : Delivered(r).fallback}
Store ==
    /\ pc = "overview" /\ Len(overview) = items /\ pc' = "done"
    /\ stored' =
         [rendered |-> IF FellBack = DOMAIN rows THEN <<>>
                       ELSE [r \in DOMAIN rows |-> Delivered(r).texts],
          fallback |-> {rows[r].id : r \in FellBack},
          overview |-> overview,
          error    |-> FellBack # {}]
    /\ UNCHANGED <<rows, items, call, attempt, out, overview, hiccups, failed, dropped>>

Next ==
    \/ Unconfigured \/ Configured \/ NextChunk \/ Retry
    \/ ChunkAnswered \/ ChunkFails
    \/ FieldAnswered \/ RowTranslated \/ FieldFails
    \/ RowsDone \/ OverviewAnswered \/ OverviewFails \/ Store
Spec == Init /\ [][Next]_vars
(* One thread runs the whole translation and nothing blocks it for ever:    *)
(* every call has a timeout.                                                *)
FairSpec == Spec /\ WF_vars(Next)

-----------------------------------------------------------------------------
(* Types; a chunk is an interval of rows.                                   *)
TypeOK ==
    /\ rows \in Inputs /\ items \in Overviews
    /\ pc \in {"start", "pack", "chunk", "field", "overview", "done"}
    /\ lo \in 1..(Len(rows) + 1) /\ hi \in 0..Len(rows)
    /\ row \in 1..Len(rows) /\ todo \subseteq Field /\ attempt \in 1..Attempts
    /\ DOMAIN out \subseteq ids
    /\ \A id \in DOMAIN out : DOMAIN out[id].texts = Field /\ out[id].fallback \in BOOLEAN
    /\ overview \in Seq({"en", "xx"}) /\ Len(overview) <= items
    /\ stored.fallback \subseteq ids /\ stored.error \in BOOLEAN
    /\ hiccups \in 0..Attempts /\ failed \in Nat /\ dropped \in Nat

(* A chunk's request is longer than the cap by no more than its rows have   *)
(* grown by since they were packed, idioms being replaced later, and with   *)
(* the markers it really carries, at every attempt.  (A field or an item of *)
(* the overview on its own is not measured.)  (translate.py: 69-72, 301-322)*)
Grown(r) == IF rows[r].sends > rows[r].size THEN rows[r].sends - rows[r].size ELSE 0
RequestFits ==
    pc = "chunk" =>
        Sent <= MaxChars + FoldLeft(+, 0, [i \in 1..(hi - lo + 1) |-> Grown(lo + i - 1)])

(* When the loop ends every row has been through a call or the fallback, so *)
(* the default of the last line, which would show a row in English that     *)
(* nobody tried to translate, is never needed (translate.py: 191).          *)
NothingForgotten == pc = "overview" => DOMAIN out = ids

(* A row of the stored translation shows the texts of one row of its       *)
(* clause: each field that field's text or nothing, whatever order the      *)
(* blocks of an answer come back in and wherever it is cut.  One loss gets  *)
(* through: when a row marker is lost, the action of the row before it also *)
(* shows the whole next row, its field separators with it                   *)
(* (translate.py: _decode_chunk, line 427).                                 *)
OwnTextOnly ==
    \A r \in DOMAIN stored.rendered : \E q \in DOMAIN rows :
        /\ rows[q].id = rows[r].id
        /\ \A f \in Field :
             LET own == {<<>>, <<Text(q, f, "en")>>, <<Text(q, f, "xx")>>}
             IN  \/ stored.rendered[r][f] \in own
                 \/ /\ "lost_marker" \in Damages /\ f = 3 /\ q < Len(rows)
                    /\ \E t \in own : stored.rendered[r][f] = t \o Body(q + 1, "xx")

(* The stored list of fallback clauses names every clause that shows        *)
(* English and no other, except one that has no text to show, and an error  *)
(* is stored exactly when the list names some: the UI never labels English  *)
(* as Mayura's output (processor.py: 214-246).                              *)
HonestLabels ==
    stored.rendered # <<>> =>
        LET english == {r \in DOMAIN rows : \E f \in Field : \E i \in DOMAIN stored.rendered[r][f] :
                            stored.rendered[r][f][i] \in EnglishTexts}
            blank   == {r \in DOMAIN rows : rows[r].has = {}}
        IN  /\ {rows[r].id : r \in english} \subseteq stored.fallback
            /\ stored.fallback \subseteq {rows[r].id : r \in english \cup blank}
            /\ stored.error = (stored.fallback # {})

(* A failed call costs at most one row: while Mayura is busy fewer times    *)
(* than a call has attempts, no more rows are English than calls failed     *)
(* outright or rows were missing from an answer.  In particular two busy    *)
(* answers cost nothing and a lost chunk alone costs nothing                *)
(* (translate.py: 115-191, 501-554).                                        *)
FailuresStayLocal ==
    hiccups < Attempts =>
        Cardinality({id \in DOMAIN out : out[id].fallback}) <= failed + dropped

(* Together: types, requests as long as the cap and the growth of their     *)
(* idioms allow, no row forgotten, and labels that tell the truth           *)
(* (translate.py: 115-191, 238-321; processor.py: 214-246).                 *)
Inv == TypeOK /\ RequestFits /\ NothingForgotten /\ HonestLabels

(* Every translation ends, however often Mayura is busy: the processor      *)
(* reaches the commit that makes the contract ready.                        *)
Terminates == <>(pc = "done")
=============================================================================
