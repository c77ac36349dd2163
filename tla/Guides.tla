------------------------------- MODULE Guides -------------------------------
(***************************************************************************)
(* The Schemes Finder and the Rights Guide (app/schemes, app/rights): what *)
(* a worker is shown in a language, and the script that fills in the       *)
(* translations while the server answers (scripts/translate_schemes.py).   *)
(*                                                                         *)
(* The first half is what the queries compute from the tables: operators   *)
(* over a set of active shared entries and a set of <<entry, language>>.   *)
(* An entry is a scheme or a topic of the Rights Guide; the order of a     *)
(* list and the wording of an entry are left out.                          *)
(*                                                                         *)
(* The second half lets requests and the script interleave: a statement    *)
(* reads what is committed when it runs (READ COMMITTED), a list is up to  *)
(* two statements, and the script commits after every translation.         *)
(***************************************************************************)
EXTENDS Naturals, FiniteSets

CONSTANTS
    Entries, Languages, English,
    Targets,     \* the languages the script is run for (hi, bn, ta)
    RulesOf,     \* [Entries -> Rules]: eligibility_rules, state_scope
    Everywhere,  \* state_scope "all" or empty
    NoAnswer,    \* a question of the wizard left open, or a rule left out
    Profiles,    \* answers to the wizard
    NoProfile,   \* a plain list
    Readers,     \* concurrent workers, one request after another
    NoEntry,
    MaxStops     \* bound: times the script dies before its end

ASSUME GuidesAssumption ==
    /\ English \in Languages /\ Targets \subseteq Languages \ {English}
    /\ NoEntry \notin Entries
    /\ IsFiniteSet(Entries) /\ MaxStops \in Nat

-----------------------------------------------------------------------------
(* What the queries compute.                                                *)

(* Every active entry that has a text in the language.                      *)
Fetch(active, texts, l) == {e \in active : <<e, l>> \in texts}

(* The language is all or nothing: English only if no entry has it.         *)
ListLanguage(active, texts, l) == IF Fetch(active, texts, l) # {} THEN l ELSE English
Listed(active, texts, l) == Fetch(active, texts, ListLanguage(active, texts, l))

(* The language of a single entry falls back on its own.                    *)
DetailLanguage(texts, e, l) == IF <<e, l>> \in texts THEN l ELSE English
Served(active, texts, e, l) == e \in active /\ <<e, DetailLanguage(texts, e, l)>> \in texts

(* The wizard.  An open age passes; every other open question fails a rule  *)
(* that asks it.  claims are the yes/no questions answered with yes, and    *)
(* needs the ones a scheme requires (bank account, e-Shram, a daughter      *)
(* under ten, likely means-tested).                                         *)
Answers(v, allowed) == v # NoAnswer /\ v \in allowed
InScope(r, p) == r.scope = Everywhere \/ Answers(p.state, {r.scope})
OldEnough(r, p) ==
    p.age # NoAnswer => /\ r.min # NoAnswer => p.age >= r.min
                        /\ r.max # NoAnswer => p.age <= r.max
PassesRules(r, p) ==
    /\ r.occupations = {} \/ "any" \in r.occupations \/ Answers(p.occupation, r.occupations)
    /\ r.states = {} \/ Answers(p.state, r.states)
    /\ OldEnough(r, p)
    /\ r.gender \in {NoAnswer, "any"} \/ Answers(p.gender, {r.gender})
    /\ r.needs \subseteq p.claims
Suits(e, p) == InScope(RulesOf[e], p) /\ PassesRules(RulesOf[e], p)
Matches(entries, p) == {e \in entries : p # NoProfile => Suits(e, p)}

-----------------------------------------------------------------------------
VARIABLES
    active,    \* entries with is_active and no tenant
    texts,     \* <<entry, language>> with a committed row
    script,    \* "idle", "running", "done" or "dead"
    todo,      \* <<entry, language>> the script has still to do
    stops,     \* how much of MaxStops is spent
    view,      \* a reader: "idle", "english" (the second statement), "shown",
               \* "opened", or "missing" (404)
    asked,     \* the language it asks for, with the wizard's answers or without
    wizard,
    shown,     \* the entries of its list, and the language it was told
    told,
    open,      \* the entry it opened, and the language it got it in
    got

Rows == SUBSET Entries
Translations == SUBSET (Entries \X Languages)
guideVars == <<active, texts, script, todo, stops, view, asked, wizard, shown, told, open, got>>
guideScript == <<script, todo, stops>>
readVars == <<view, asked, wizard, shown, told, open, got>>

(* Migrations 005 and 010 leave every entry with an English text; some are  *)
(* switched off.                                                            *)
GuidesInit ==
    /\ active \in SUBSET Entries /\ active # {}
    /\ texts = Entries \X {English}
    /\ script = "idle" /\ todo = {} /\ stops = 0
    /\ view = [r \in Readers |-> "idle"] /\ asked = [r \in Readers |-> English]
    /\ wizard = [r \in Readers |-> NoProfile]
    /\ shown = [r \in Readers |-> {}] /\ told = [r \in Readers |-> English]
    /\ open = [r \in Readers |-> NoEntry] /\ got = [r \in Readers |-> English]

-----------------------------------------------------------------------------
(* The script: the English rows of the active entries are read once.        *)
StartScript ==
    /\ script \in {"idle", "done", "dead"}
    /\ script' = "running" /\ todo' = Fetch(active, texts, English) \X Targets
    /\ UNCHANGED <<active, texts, stops, readVars>>

(* Mutant: the old row goes in a transaction of its own.                    *)
Translate_TwoCommits ==
    /\ script = "running"
    /\ \E w \in todo :
          \/ w \in texts /\ texts' = texts \ {w} /\ UNCHANGED todo
          \/ w \notin texts /\ texts' = texts \cup {w} /\ todo' = todo \ {w}
    /\ UNCHANGED <<active, script, stops, readVars>>
(* One entry in one language: its row is deleted, inserted and committed.   *)
(* The calls to Mayura run before, while nothing is changed.  The order of  *)
(* the entries is left out.                                                 *)
Translate ==
    /\ script = "running"
    /\ \E w \in todo : texts' = texts \cup {w} /\ todo' = todo \ {w}
    /\ UNCHANGED <<active, script, stops, readVars>>

EndScript ==
    /\ script = "running" /\ todo = {} /\ script' = "done"
    /\ UNCHANGED <<active, texts, todo, stops, readVars>>

(* Mayura raises, or the process is stopped: what is committed stays.       *)
StopScript ==
    /\ script = "running" /\ stops < MaxStops
    /\ script' = "dead" /\ stops' = stops + 1
    /\ UNCHANGED <<active, texts, todo, readVars>>

-----------------------------------------------------------------------------
Show(r, entries, l) ==
    /\ view' = [view EXCEPT ![r] = "shown"]
    /\ shown' = [shown EXCEPT ![r] = entries] /\ told' = [told EXCEPT ![r] = l]

(* GET /api/schemes, GET /api/rights/cards, POST /api/schemes/match: the    *)
(* first statement.  What matches is picked from what was fetched.          *)
List(r, l, p) ==
    /\ view[r] = "idle"
    /\ asked' = [asked EXCEPT ![r] = l] /\ wizard' = [wizard EXCEPT ![r] = p]
    /\ IF Fetch(active, texts, l) # {} \/ l = English
         THEN Show(r, Matches(Fetch(active, texts, l), p), l)
         ELSE view' = [view EXCEPT ![r] = "english"] /\ UNCHANGED <<shown, told>>
    /\ UNCHANGED <<active, texts, guideScript, open, got>>

(* The second statement, when the first found nothing.                      *)
ListEnglish(r) ==
    /\ view[r] = "english"
    /\ Show(r, Matches(Fetch(active, texts, English), wizard[r]), English)
    /\ UNCHANGED <<active, texts, guideScript, asked, wizard, open, got>>

(* GET /api/schemes/{key}, /cards/{topic}: the row in the language, else    *)
(* the English one.  The script only ever adds rows, so the two statements  *)
(* are one step.                                                            *)
Open(r, e) ==
    /\ view[r] = "shown" /\ e \in shown[r]
    /\ open' = [open EXCEPT ![r] = e]
    /\ got' = [got EXCEPT ![r] = DetailLanguage(texts, e, asked[r])]
    /\ view' = [view EXCEPT ![r] = IF Served(active, texts, e, asked[r]) THEN "opened" ELSE "missing"]
    /\ UNCHANGED <<active, texts, guideScript, asked, wizard, shown, told>>

(* The worker goes back to the list.                                        *)
Back(r) ==
    /\ view[r] \in {"shown", "opened"} /\ view' = [view EXCEPT ![r] = "idle"]
    /\ shown' = [shown EXCEPT ![r] = {}] /\ open' = [open EXCEPT ![r] = NoEntry]
    /\ told' = [told EXCEPT ![r] = English] /\ got' = [got EXCEPT ![r] = English]
    /\ asked' = [asked EXCEPT ![r] = English] /\ wizard' = [wizard EXCEPT ![r] = NoProfile]
    /\ UNCHANGED <<active, texts, guideScript>>

ScriptNext == StartScript \/ Translate \/ EndScript \/ StopScript
ReaderNext(r) ==
    \/ \E l \in Languages, p \in Profiles \cup {NoProfile} : List(r, l, p)
    \/ ListEnglish(r) \/ Back(r)
    \/ \E e \in Entries : Open(r, e)
GuidesNext == ScriptNext \/ \E r \in Readers : ReaderNext(r)
GuidesSpec == GuidesInit /\ [][GuidesNext]_guideVars

-----------------------------------------------------------------------------
GuidesTypeOK ==
    /\ active \in Rows /\ texts \in Translations
    /\ script \in {"idle", "running", "done", "dead"} /\ todo \subseteq Entries \X Languages
    /\ stops \in 0..MaxStops
    /\ view \in [Readers -> {"idle", "english", "shown", "opened", "missing"}]
    /\ asked \in [Readers -> Languages] /\ told \in [Readers -> Languages]
    /\ got \in [Readers -> Languages]
    /\ wizard \in [Readers -> Profiles \cup {NoProfile}]
    /\ shown \in [Readers -> SUBSET Entries] /\ open \in [Readers -> Entries \cup {NoEntry}]

(* A plain list is never empty, what it lists can always be opened, and not in    *)
(* English where the list was in the language asked for: whatever the       *)
(* script committed in between (list_active_schemes and get_scheme_by_key,  *)
(* list_active_cards and get_card_by_topic decide on a language apart).     *)
ListedIsServed ==
    \A r \in Readers :
        /\ view[r] # "missing"
        /\ view[r] \in {"shown", "opened"} /\ wizard[r] = NoProfile => shown[r] # {}
        /\ view[r] = "opened" /\ told[r] = asked[r] => got[r] = asked[r]

(* A language that has some of the entries hides the others from its list   *)
(* and from the match; that ends with a script that ran to its end, however *)
(* often it died before.                                                    *)
CompleteWhenDone ==
    script = "done" => \A l \in Targets \cup {English} : Listed(active, texts, l) = active
=============================================================================
