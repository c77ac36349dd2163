-------------------------------- MODULE Ocr --------------------------------
(***************************************************************************)
(* Text extraction (app/contracts/ocr.py): which pages of an upload the    *)
(* stages get to read.  A page is the length of its text layer and what    *)
(* Tesseract makes of it in each of the two models a contract may ask for. *)
(* The encoding of .txt files and the markup of .docx are left out.        *)
(***************************************************************************)
EXTENDS Naturals, FiniteSetsExt, Sequences

CONSTANTS
    Documents,   \* uploads the extraction is tried on
    Hints,       \* the source language of the upload form
    Indic,       \* those Tesseract has a second model for
    Raises,      \* TesseractError in place of a length: no such language data
    MaxPages,    \* 20 in the code
    Enough       \* _LOW_QUALITY_THRESHOLD, 80 in the code

(* The second model has the English one in it, if it is installed.          *)
ASSUME OcrAssumption ==
    /\ "en" \notin Indic /\ Enough \in Nat \ {0}
    /\ \A d \in Documents : \A p \in DOMAIN d.pages :
        /\ d.pages[p].layer \in Nat
        /\ d.pages[p].eng \in Nat \cup {Raises} /\ d.pages[p].both \in Nat \cup {Raises}
        /\ d.pages[p].both = 0 => d.pages[p].eng \in {0, Raises}

-----------------------------------------------------------------------------
(* _tesseract_lang_for: English alone, or English and the hinted language.  *)
Model(hint) == IF hint \in Indic THEN "both" ELSE "eng"

(* Pages are joined by two characters; blank ones in the middle keep theirs *)
(* in a text layer.                                                         *)
Layered(d) == {p \in DOMAIN d.pages : d.pages[p].layer > 0}
LayerLength(d) ==
    IF Layered(d) = {} THEN 0
    ELSE FoldSet(LAMBDA p, sum : sum + d.pages[p].layer, 0, Layered(d)) + 2 * (Max(Layered(d)) - Min(Layered(d)))

(* Text files, and PDFs whose own text is long enough, need no Tesseract.   *)
Digital(d) == d.kind \in {"text", "docx"} \/ (d.kind = "pdf" /\ LayerLength(d) >= Enough)

(* What raises; the job then fails the contract.                            *)
Unreadable(d) ==
    \/ d.kind # "text" /\ ~d.opens
    \/ d.kind = "pdf" /\ Len(d.pages) > MaxPages
    \/ ~Digital(d) /\ \E p \in DOMAIN d.pages : d.pages[p].big

(* Mutant: a page whose language data is missing is given up.               *)
Printed_NoRetry(page, hint) == IF page[Model(hint)] = Raises THEN 0 ELSE page[Model(hint)]
(* Characters Tesseract reads on a page: with English alone if the first    *)
(* attempt raises, none if that raises too.                                 *)
Printed(page, hint) ==
    IF page[Model(hint)] # Raises THEN page[Model(hint)]
    ELSE IF page["eng"] # Raises THEN page["eng"] ELSE 0

(* The pages in the text that Stage 1 gets; without any the job fails.      *)
PagesRead(d, hint) ==
    IF Unreadable(d) THEN {}
    ELSE IF Digital(d) THEN Layered(d)
    ELSE {p \in DOMAIN d.pages : Printed(d.pages[p], hint) > 0}

-----------------------------------------------------------------------------
(* Naming the contract's language never costs a page that English alone     *)
(* would have read, also where the language data is not installed           *)
(* (ocr.py: 184-210, "rather than fail the whole document"); and a scanned  *)
(* page that English could read is missing only from a PDF that is taken    *)
(* for a digital one because of its other pages (317-326).                  *)
HintCostsNothing ==
    \A d \in Documents, hint \in Hints :
        /\ PagesRead(d, "en") \subseteq PagesRead(d, hint)
        /\ d.kind \in {"pdf", "image"} /\ ~Unreadable(d) =>
             \A p \in DOMAIN d.pages \ PagesRead(d, hint) :
                d.pages[p].eng \in {Raises, 0} \/ (Digital(d) /\ \E q \in DOMAIN d.pages \ {p} : d.pages[q].layer > 0)
=============================================================================
