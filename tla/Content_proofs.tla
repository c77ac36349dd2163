---------------------------- MODULE Content_proofs ----------------------------
(***************************************************************************)
(* Proofs about the content the workers' answers draw on, for any tables,  *)
(* files, documents, runs and requests: the guides and the script that     *)
(* translates them, the start-up, the extraction, the statute corpus, all  *)
(* of them together (Content); and the conversation studio (Studio), where *)
(* the content of the chat is written.  The two models share no state; the *)
(* facts about sequences and sums below serve both.                        *)
(***************************************************************************)
EXTENDS Content, Studio, FiniteSetTheorems, WellFoundedInduction, TLAPS

-----------------------------------------------------------------------------
(* The guides.                                                              *)

(* What a list shows can be opened, in the language the list was in: the    *)
(* list falls back to English only where no entry has the language, so the  *)
(* entry falls back too (list_active_schemes, get_scheme_by_key).           *)
THEOREM ListAndDetailAgree ==
    ASSUME NEW now, NEW written, NEW l, NEW e \in Listed(now, written, l)
    PROVE  /\ Served(now, written, e, l)
           /\ DetailLanguage(written, e, l) = ListLanguage(now, written, l)
<1>1. e \in now /\ <<e, ListLanguage(now, written, l)>> \in written
  BY DEF Listed, Fetch
<1>2. CASE Fetch(now, written, l) # {}
  BY <1>1, <1>2 DEF ListLanguage, DetailLanguage, Served
<1>3. CASE Fetch(now, written, l) = {}
  <2>1. <<e, l>> \notin written
    BY <1>1, <1>3 DEF Fetch
  <2>2. ListLanguage(now, written, l) = English
    BY <1>3 DEF ListLanguage
  <2> QED
    BY <1>1, <2>1, <2>2 DEF DetailLanguage, Served
<1> QED
  BY <1>2, <1>3

(* A question answered has the same answer.                                 *)
SameOrOpen(v, w) == v = NoAnswer \/ v = w

(* Answering more questions of the wizard, the age apart, only adds schemes *)
(* to the match: an open question is a failed one where a scheme asks it    *)
(* (_passes_rules; its module says "no filter").                            *)
THEOREM AnsweringOnlyAdds ==
    ASSUME NEW e \in Entries, NEW p, NEW q,
           SameOrOpen(p.state, q.state), SameOrOpen(p.occupation, q.occupation),
           SameOrOpen(p.gender, q.gender), p.age = q.age, p.claims \subseteq q.claims,
           Suits(e, p)
    PROVE  Suits(e, q)
<1> DEFINE r == RulesOf[e]
<1>1. ASSUME NEW v, NEW w, NEW allowed, SameOrOpen(v, w), Answers(v, allowed)
      PROVE  Answers(w, allowed)
  BY <1>1 DEF SameOrOpen, Answers
<1>2. InScope(r, q)
  BY <1>1 DEF Suits, InScope
<1>3. OldEnough(r, q)
  BY DEF Suits, PassesRules, OldEnough
<1>4. r.occupations = {} \/ "any" \in r.occupations \/ Answers(q.occupation, r.occupations)
  BY <1>1 DEF Suits, PassesRules
<1>5. r.states = {} \/ Answers(q.state, r.states)
  BY <1>1 DEF Suits, PassesRules
<1>6. r.gender \in {NoAnswer, "any"} \/ Answers(q.gender, {r.gender})
  BY <1>1 DEF Suits, PassesRules
<1>7. r.needs \subseteq q.claims
  BY DEF Suits, PassesRules
<1> QED
  BY <1>2, <1>3, <1>4, <1>5, <1>6, <1>7 DEF Suits, PassesRules

(* The age is the exception: giving it only takes schemes away.             *)
THEOREM AgeOnlyTakesAway ==
    ASSUME NEW e \in Entries, NEW p, NEW q,
           p.state = q.state, p.occupation = q.occupation, p.gender = q.gender,
           p.claims = q.claims, p.age = NoAnswer, Suits(e, q)
    PROVE  Suits(e, p)
BY DEF Suits, InScope, PassesRules, OldEnough

-----------------------------------------------------------------------------
(* English is always there, a second statement is only made for another     *)
(* language, and what a reader sees in its own language still has a row.    *)
ReadersConsistent ==
    /\ active \subseteq Entries /\ active # {}
    /\ texts \subseteq Entries \X Languages /\ todo \subseteq Entries \X Languages
    /\ Entries \X {English} \subseteq texts
    /\ \A r \in Readers :
        /\ view[r] # "missing"
        /\ view[r] = "english" => asked[r] # English
        /\ view[r] \in {"shown", "opened"} =>
             /\ shown[r] \subseteq active
             /\ wizard[r] = NoProfile => shown[r] # {}
             /\ told[r] = asked[r] => \A e \in shown[r] : <<e, asked[r]>> \in texts
        /\ view[r] = "opened" /\ told[r] = asked[r] => got[r] = asked[r]
    /\ view \in [Readers -> {"idle", "english", "shown", "opened", "missing"}]
    /\ asked \in [Readers -> Languages] /\ told \in [Readers -> Languages]
    /\ got \in [Readers -> Languages]
    /\ wizard \in [Readers -> Profiles \cup {NoProfile}]
    /\ shown \in [Readers -> SUBSET Entries]

(* What the script has not translated yet is still on its list.             *)
ScriptConsistent ==
    script \in {"running", "done"} =>
        /\ (active \X Targets) \subseteq texts \cup todo
        /\ script = "done" => todo = {}

LEMMA InitReaders == ASSUME GuidesInit PROVE ReadersConsistent
BY GuidesAssumption DEF GuidesInit, ReadersConsistent

(* Rows are only added: a step of the script disturbs no reader.            *)
LEMMA ScriptKeepsReaders ==
    ASSUME ReadersConsistent, ScriptNext PROVE ReadersConsistent'
<1>1. UNCHANGED <<active, readVars>> /\ texts \subseteq texts' /\ texts' \subseteq Entries \X Languages
      /\ todo' \subseteq Entries \X Languages
  <2>1. CASE StartScript
    <3>1. Fetch(active, texts, English) \X Targets \subseteq Entries \X Languages
      BY GuidesAssumption DEF Fetch, ReadersConsistent
    <3> QED BY <2>1, <3>1 DEF StartScript, ReadersConsistent
  <2>2. CASE Translate
    BY <2>2 DEF Translate, ReadersConsistent, readVars
  <2>3. CASE EndScript
    BY <2>3 DEF EndScript, ReadersConsistent, readVars
  <2>4. CASE StopScript
    BY <2>4 DEF StopScript, ReadersConsistent, readVars
  <2> QED
    BY <2>1, <2>2, <2>3, <2>4 DEF ScriptNext
<1> QED
  BY <1>1 DEF ReadersConsistent, readVars

LEMMA ReaderKeepsReaders ==
    ASSUME ReadersConsistent, NEW r \in Readers, ReaderNext(r) PROVE ReadersConsistent'
<1>0. UNCHANGED <<active, texts, todo>>
  BY DEF ReaderNext, List, ListEnglish, Back, Open, guideScript
<1>1. ASSUME NEW l \in Languages, NEW p \in Profiles \cup {NoProfile}, List(r, l, p)
      PROVE  ReadersConsistent'
  <2>1. Matches(Fetch(active, texts, l), p) \subseteq Fetch(active, texts, l)
    BY DEF Matches
  <2>2. p = NoProfile => Matches(Fetch(active, texts, l), p) = Fetch(active, texts, l)
    BY DEF Matches
  <2>3. l = English => Fetch(active, texts, l) # {}
    BY DEF Fetch, ReadersConsistent
  <2>4. Fetch(active, texts, l) \subseteq active /\ \A e \in Fetch(active, texts, l) : <<e, l>> \in texts
    BY DEF Fetch
  <2>5. CASE Fetch(active, texts, l) # {}
    BY <1>0, <1>1, <2>1, <2>2, <2>4, <2>5 DEF List, Show, ReadersConsistent
  <2>6. CASE Fetch(active, texts, l) = {}
    BY <1>0, <1>1, <2>3, <2>6 DEF List, Show, ReadersConsistent
  <2> QED
    BY <2>5, <2>6
<1>2. CASE ListEnglish(r)
  <2> DEFINE english == Fetch(active, texts, English)
  <2>1. Matches(english, wizard[r]) \subseteq english
    BY DEF Matches
  <2>2. wizard[r] = NoProfile => Matches(english, wizard[r]) = english
    BY DEF Matches
  <2>3. english # {} /\ english \subseteq active
    BY DEF Fetch, ReadersConsistent
  <2> HIDE DEF english
  <2> QED
    BY <1>0, <1>2, <2>1, <2>2, <2>3, GuidesAssumption DEF ListEnglish, Show, ReadersConsistent, english
<1>3. ASSUME NEW e \in Entries, Open(r, e) PROVE ReadersConsistent'
  <2>1. e \in active /\ <<e, English>> \in texts
    BY <1>3 DEF Open, ReadersConsistent
  <2>2. Served(active, texts, e, asked[r])
    BY <2>1 DEF Served, DetailLanguage
  <2>3. told[r] = asked[r] => DetailLanguage(texts, e, asked[r]) = asked[r]
    BY <1>3 DEF Open, ReadersConsistent, DetailLanguage
  <2>4. DetailLanguage(texts, e, asked[r]) \in Languages
    BY GuidesAssumption DEF DetailLanguage, ReadersConsistent
  <2> QED
    BY <1>0, <1>3, <2>2, <2>3, <2>4 DEF Open, ReadersConsistent
<1>4. CASE Back(r)
  BY <1>0, <1>4, GuidesAssumption DEF Back, ReadersConsistent
<1> QED
  BY <1>1, <1>2, <1>3, <1>4 DEF ReaderNext

LEMMA GuidesStep ==
    ASSUME ReadersConsistent, ScriptConsistent, [GuidesNext]_guideVars
    PROVE  ReadersConsistent' /\ ScriptConsistent'
<1>1. ReadersConsistent'
  <2>1. CASE GuidesNext
    BY <2>1, ScriptKeepsReaders, ReaderKeepsReaders DEF GuidesNext
  <2>2. CASE UNCHANGED guideVars
    BY <2>2 DEF guideVars, ReadersConsistent
  <2> QED
    BY <2>1, <2>2
<1>2. ScriptConsistent'
  <2>1. CASE StartScript
    <3>1. Fetch(active, texts, English) = active
      BY DEF Fetch, ReadersConsistent
    <3> QED
      BY <2>1, <3>1 DEF StartScript, ScriptConsistent
  <2>2. CASE Translate
    BY <2>2 DEF Translate, ScriptConsistent
  <2>3. CASE EndScript
    BY <2>3 DEF EndScript, ScriptConsistent
  <2>4. CASE StopScript
    BY <2>4 DEF StopScript, ScriptConsistent
  <2>5. CASE UNCHANGED <<active, texts, guideScript>>
    BY <2>5 DEF guideScript, ScriptConsistent
  <2>6. ASSUME NEW r \in Readers, ReaderNext(r) PROVE UNCHANGED <<active, texts, guideScript>>
    BY <2>6 DEF ReaderNext, List, ListEnglish, Back, Open
  <2> QED
    BY <2>1, <2>2, <2>3, <2>4, <2>5, <2>6 DEF GuidesNext, ScriptNext, guideVars, guideScript
<1> QED
  BY <1>1, <1>2

LEMMA GuidesImply ==
    ASSUME ReadersConsistent, ScriptConsistent
    PROVE  ListedIsServed /\ CompleteWhenDone
<1>1. ListedIsServed
  BY DEF ReadersConsistent, ListedIsServed
<1>2. CompleteWhenDone
  <2> SUFFICES ASSUME script = "done", NEW l \in Targets \cup {English}
               PROVE  Listed(active, texts, l) = active
    BY DEF CompleteWhenDone
  <2>1. \A e \in active : <<e, l>> \in texts
    BY DEF ReadersConsistent, ScriptConsistent
  <2>2. Fetch(active, texts, l) = active /\ active # {}
    BY <2>1 DEF Fetch, ReadersConsistent
  <2> QED
    BY <2>2 DEF Listed, ListLanguage
<1> QED
  BY <1>1, <1>2

LEMMA GuidesInvariance == GuidesSpec => [](ReadersConsistent /\ ScriptConsistent)
<1>1. GuidesInit => ReadersConsistent /\ ScriptConsistent
  BY InitReaders DEF GuidesInit, ScriptConsistent
<1>2. ReadersConsistent /\ ScriptConsistent /\ [GuidesNext]_guideVars => (ReadersConsistent /\ ScriptConsistent)'
  BY GuidesStep
<1> QED
  BY <1>1, <1>2, PTL DEF GuidesSpec

(* Whatever the script commits between the statements of a request and      *)
(* between requests: no plain list is empty, nothing listed is gone when it *)
(* is opened, and nothing listed in the worker's language opens in English. *)
THEOREM ListedIsServedAlways == GuidesSpec => []ListedIsServed
<1>1. ReadersConsistent /\ ScriptConsistent => ListedIsServed
  BY GuidesImply
<1> QED
  BY <1>1, GuidesInvariance, PTL

(* Once a run of the script reached its end, every language it was run for  *)
(* lists every active scheme, however often earlier runs died half-way.     *)
THEOREM CompleteWhenDoneAlways == GuidesSpec => []CompleteWhenDone
<1>1. ReadersConsistent /\ ScriptConsistent => CompleteWhenDone
  BY GuidesImply
<1> QED
  BY <1>1, GuidesInvariance, PTL

-----------------------------------------------------------------------------
(* Induction.                                                               *)

(* A set of natural numbers that is not empty has a least element.          *)
LEMMA Least ==
    ASSUME NEW T \in SUBSET Nat, T # {}
    PROVE  \E m \in T : \A k \in T : m <= k
<1> DEFINE up == {1..n : n \in T}
<1>1. up \in SUBSET FiniteSubsetsOf(Nat) /\ up # {}
  <2>1. ASSUME NEW n \in T PROVE 1..n \in FiniteSubsetsOf(Nat)
    BY FS_Interval DEF FiniteSubsetsOf
  <2> QED
    BY <2>1
<1>2. PICK x \in up : \A y \in up : <<y, x>> \notin StrictSubsetOrdering(Nat)
  BY <1>1, FS_StrictSubsetOrderingWellFounded, WFMin
<1>3. PICK m \in T : x = 1..m
  BY <1>2
<1>4. ASSUME NEW k \in T, k < m PROVE FALSE
  <2>1. 1..k \in up /\ <<1..k, x>> \notin StrictSubsetOrdering(Nat)
    BY <1>2
  <2>2. 1..k \in SUBSET Nat /\ 1..m \in SUBSET Nat
    OBVIOUS
  <2>3. 1..k \subseteq 1..m /\ m \in 1..m /\ m \notin 1..k
    BY <1>4
  <2> QED
    BY <2>1, <2>2, <2>3, <1>3 DEF StrictSubsetOrdering
<1> QED
  BY <1>4

(* A set of numbers up to b with 0 in it, closed under successors, has all. *)
LEMMA Induction ==
    ASSUME NEW b \in Nat, NEW P, 0 \in P, \A n \in P : n \in Nat /\ n < b => n + 1 \in P
    PROVE  0..b \subseteq P
<1> DEFINE T == {n \in 0..b : n \notin P}
<1> SUFFICES ASSUME T # {} PROVE FALSE
  OBVIOUS
<1>1. T \in SUBSET Nat
  OBVIOUS
<1>2. PICK m \in T : \A k \in T : m <= k
  BY <1>1, Least
<1>3. m - 1 \in 0..b /\ m - 1 \notin T
  BY <1>2
<1> QED
  BY <1>3

(* The greatest element of a set of numbers.                                *)
LEMMA MaxOf ==
    ASSUME NEW T \in SUBSET Int, T # {}, NEW b \in Int, \A k \in T : k <= b
    PROVE  Max(T) \in T /\ \A k \in T : k <= Max(T)
<1> DEFINE U == {b - k : k \in T}
<1>1. U \in SUBSET Nat /\ U # {}
  <2>1. \A k \in T : k \in Int /\ k <= b /\ b - k \in Nat
    OBVIOUS
  <2>2. PICK k \in T : TRUE
    OBVIOUS
  <2>3. b - k \in U
    OBVIOUS
  <2> QED
    BY <2>1, <2>3
<1>2. PICK u \in U : \A k \in U : u <= k
  BY <1>1, Least
<1>3. PICK m \in T : u = b - m
  BY <1>2
<1>4. ASSUME NEW k \in T PROVE m >= k
  <2>1. b - k \in U /\ k \in Int /\ m \in Int
    OBVIOUS
  <2>2. b - m <= b - k
    BY <2>1, <1>2, <1>3
  <2> HIDE DEF U
  <2> QED
    BY <2>1, <2>2
<1>5. \E x \in T : \A y \in T : x >= y
  BY <1>4
<1> QED
  BY <1>5 DEF Max

-----------------------------------------------------------------------------
(* Folds.  A step of a fold, as a function: F[<<x, i>>] is what element i   *)
(* makes of x.  There is a function that folds every set of indices by      *)
(* always taking its greatest last.                                         *)
Folds(it, base, F, m) ==
    it = [S \in SUBSET (1..m) |-> IF S = {} THEN base ELSE F[<<it[S \ {Max(S)}], Max(S)>>]]

LEMMA FolderExists ==
    ASSUME NEW A, NEW base \in A, NEW b \in Nat, NEW F \in [A \X (1..b) -> A]
    PROVE  \E it \in [SUBSET (1..b) -> A] : Folds(it, base, F, b)
<1> DEFINE P == {m \in 0..b : \E it \in [SUBSET (1..m) -> A] : Folds(it, base, F, m)}
<1>1. 0 \in P
  <2> DEFINE e == [S \in SUBSET (1..0) |-> base]
  <2>1. Folds(e, base, F, 0) /\ e \in [SUBSET (1..0) -> A]
    <3>1. \A S \in SUBSET (1..0) : S = {}
      OBVIOUS
    <3> QED
      BY <3>1 DEF Folds
  <2> QED
    BY <2>1
<1>2. ASSUME NEW m \in P, m < b PROVE m + 1 \in P
  <2>1. PICK it \in [SUBSET (1..m) -> A] : Folds(it, base, F, m)
    OBVIOUS
  <2> DEFINE last(S) == F[<<it[S \ {m + 1}], m + 1>>]
             h == [S \in SUBSET (1..(m + 1)) |-> IF m + 1 \in S THEN last(S) ELSE it[S]]
  <2>0. ASSUME NEW S \in SUBSET (1..(m + 1)) PROVE h[S] \in A
    <3>1. \A k \in 1..(m + 1) : k # m + 1 => k \in 1..m
      OBVIOUS
    <3>2. S \ {m + 1} \in SUBSET (1..m) /\ (m + 1 \notin S => S \in SUBSET (1..m))
      BY <3>1
    <3>3. m + 1 \in 1..b
      BY <1>2
    <3> QED
      BY <3>2, <3>3
  <2>2. ASSUME NEW S \in SUBSET (1..(m + 1)), S # {}
        PROVE  h[S] = F[<<h[S \ {Max(S)}], Max(S)>>]
    <3>1. Max(S) \in S /\ \A k \in S : k <= Max(S)
      <4>1. S \in SUBSET Int /\ m + 1 \in Int /\ \A k \in S : k <= m + 1
        OBVIOUS
      <4> QED
        BY ONLY <4>1, <2>2, MaxOf
    <3>2. CASE m + 1 \in S
      <4>1. Max(S) = m + 1
        <5>1. Max(S) \in 1..(m + 1) /\ m + 1 <= Max(S)
          BY ONLY <3>1, <3>2, S \in SUBSET (1..(m + 1)), Zenon
        <5>2. m \in Int
          OBVIOUS
        <5> QED
          BY ONLY <5>1, <5>2
      <4>2. S \ {m + 1} \in SUBSET (1..(m + 1)) /\ m + 1 \notin S \ {m + 1}
        OBVIOUS
      <4>3. h[S] = last(S)
        BY <3>2
      <4>4. h[S \ {m + 1}] = it[S \ {m + 1}]
        BY <4>2
      <4> HIDE DEF h
      <4> QED
        BY <4>1, <4>3, <4>4
    <3>3. CASE m + 1 \notin S
      <4>1. S \in SUBSET (1..m) /\ S \ {Max(S)} \in SUBSET (1..(m + 1))
        <5>1. \A k \in 1..(m + 1) : k # m + 1 => k \in 1..m
          OBVIOUS
        <5>2. \A k \in S : k \in 1..m
          BY <5>1, <3>3
        <5> QED
          BY <5>2
      <4>2. it[S] = F[<<it[S \ {Max(S)}], Max(S)>>]
        BY <2>1, <2>2, <4>1 DEF Folds
      <4> QED
        BY <3>3, <4>1, <4>2
    <3> QED
      BY <3>2, <3>3
  <2>3. h[{}] = base
    BY <2>1 DEF Folds
  <2>4. Folds(h, base, F, m + 1) /\ h \in [SUBSET (1..(m + 1)) -> A]
    <3>1. \A S \in SUBSET (1..(m + 1)) :
             h[S] = IF S = {} THEN base ELSE F[<<h[S \ {Max(S)}], Max(S)>>]
      BY <2>2, <2>3
    <3>2. h = [S \in SUBSET (1..(m + 1)) |-> h[S]]
      OBVIOUS
    <3> HIDE DEF h
    <3>3. h = [S \in SUBSET (1..(m + 1)) |-> IF S = {} THEN base ELSE F[<<h[S \ {Max(S)}], Max(S)>>]]
      BY ONLY <3>1, <3>2, Zenon
    <3>4. h \in [SUBSET (1..(m + 1)) -> A]
      BY <2>0, <3>2
    <3> QED
      BY ONLY <3>3, <3>4 DEF Folds
  <2>5. m + 1 \in 0..b
    BY <1>2
  <2> HIDE DEF h
  <2> QED
    BY <2>4, <2>5
<1>3. 0..b \subseteq P
  <2> HIDE DEF P
  <2> QED
    BY <1>1, <1>2, Induction
<1>4. b \in 0..b
  OBVIOUS
<1> QED
  BY <1>3, <1>4

LEMMA MaxIs ==
    ASSUME NEW i \in Nat, i # 0
    PROVE  Max(1..i) = i /\ (1..i) \ {i} = 1..(i - 1)
<1>1. 1..i \in SUBSET Int /\ 1..i # {} /\ i \in Int /\ \A k \in 1..i : k <= i
  <2>1. 1 \in 1..i /\ i \in Int /\ \A k \in 1..i : k \in Int /\ k <= i
    OBVIOUS
  <2> QED
    BY ONLY <2>1
<1>2. Max(1..i) \in 1..i /\ \A k \in 1..i : k <= Max(1..i)
  BY ONLY <1>1, MaxOf
<1> QED
  BY <1>2

-----------------------------------------------------------------------------
(* Flattening.  Join(s, g): g[i] joins the first i sequences of s.          *)

Join(s, g) == \A i \in DOMAIN g : g[i] = IF i = 1 THEN s[i] ELSE g[i - 1] \o s[i]

(* There is such a g.                                                       *)
LEMMA JoinExists ==
    ASSUME NEW T, NEW s \in Seq(Seq(T))
    PROVE  \E g \in [1..Len(s) -> Seq(T)] : Join(s, g)
<1> DEFINE P == {n \in 0..Len(s) : \E g \in [1..n -> Seq(T)] : Join(s, g)}
<1>1. 0 \in P
  <2> DEFINE e == [i \in 1..0 |-> <<>>]
  <2>1. e \in [1..0 -> Seq(T)] /\ Join(s, e)
    BY DEF Join
  <2>2. 0 \in 0..Len(s)
    OBVIOUS
  <2> QED
    BY <2>1, <2>2
<1>2. ASSUME NEW n \in P, n < Len(s) PROVE n + 1 \in P
  <2>1. PICK g \in [1..n -> Seq(T)] : Join(s, g)
    OBVIOUS
  <2>2. s[n + 1] \in Seq(T) /\ n + 1 \in 0..Len(s)
    BY <1>2
  <2> DEFINE last == IF n = 0 THEN s[1] ELSE g[n] \o s[n + 1]
             h == [i \in 1..(n + 1) |-> IF i = n + 1 THEN last ELSE g[i]]
  <2>3. last \in Seq(T)
    BY <2>1, <2>2
  <2>4. \A i \in 1..(n + 1) : i # n + 1 => i \in 1..n
    OBVIOUS
  <2>5. h \in [1..(n + 1) -> Seq(T)]
    BY <2>1, <2>3, <2>4
  <2>6. ASSUME NEW i \in 1..(n + 1)
        PROVE  h[i] = IF i = 1 THEN s[i] ELSE h[i - 1] \o s[i]
    <3>1. CASE i = n + 1 /\ n = 0
      BY <3>1
    <3>2. CASE i = n + 1 /\ n # 0
      <4>1. h[n + 1] = g[n] \o s[n + 1]
        BY <3>2
      <4>2. i - 1 = n /\ i # 1 /\ n \in 1..(n + 1) /\ n # n + 1
        BY <3>2
      <4>3. h[n] = g[n]
        BY <4>2
      <4> HIDE DEF h
      <4> QED
        BY <3>2, <4>1, <4>2, <4>3
    <3>3. CASE i # n + 1
      <4>1. i \in 1..n /\ h[i] = g[i]
        BY <3>3
      <4>2. i # 1 => h[i - 1] = g[i - 1]
        BY <4>1
      <4> QED
        BY <4>1, <4>2, <2>1 DEF Join
    <3> QED
      BY <3>1, <3>2, <3>3
  <2>7. Join(s, h)
    BY <2>5, <2>6 DEF Join
  <2> QED
    BY <2>2, <2>5, <2>7
<1>3. 0..Len(s) \subseteq P
  <2> HIDE DEF P
  <2> QED
    BY <1>1, <1>2, Induction
<1> QED
  BY <1>3

(* FlattenSeq joins all of them.                                            *)
LEMMA FlattenIsJoin ==
    ASSUME NEW T, NEW s \in Seq(Seq(T)), s # <<>>
    PROVE  \E g \in [1..Len(s) -> Seq(T)] : Join(s, g) /\ FlattenSeq(s) = g[Len(s)]
<1> DEFINE Def(g) == g = [i \in 1..Len(s) |-> IF i = 1 THEN s[i] ELSE g[i - 1] \o s[i]]
           G == CHOOSE g : Def(g)
<1>1. PICK g \in [1..Len(s) -> Seq(T)] : Join(s, g)
  BY JoinExists
<1>2. Def(g)
  BY <1>1 DEF Join
<1>3. Def(G)
  BY <1>2
<1>4. FlattenSeq(s) = G[Len(s)]
  BY Len(s) # 0 DEF FlattenSeq
(* Both satisfy the same recursion, so they are the same function.          *)
<1> DEFINE P == {n \in 0..Len(s) : \A i \in 1..n : G[i] = g[i]}
<1>5. 0 \in P
  <2> HIDE DEF G
  <2> QED
    OBVIOUS
<1>6. ASSUME NEW n \in P, n < Len(s) PROVE n + 1 \in P
  <2>1. n + 1 \in 1..Len(s) /\ (n + 1 # 1 => (n + 1) - 1 = n /\ n \in 1..n)
    BY <1>6
  <2>2. G[n + 1] = IF n + 1 = 1 THEN s[n + 1] ELSE G[(n + 1) - 1] \o s[n + 1]
    <3> HIDE DEF G
    <3> QED
      BY <1>3, <2>1
  <2>3. g[n + 1] = IF n + 1 = 1 THEN s[n + 1] ELSE g[(n + 1) - 1] \o s[n + 1]
    BY <1>2, <2>1
  <2> HIDE DEF G
  <2>4. \A i \in 1..n : G[i] = g[i]
    OBVIOUS
  <2>5. G[n + 1] = g[n + 1]
    BY <2>1, <2>2, <2>3, <2>4
  <2> QED
    BY <2>1, <2>4, <2>5
<1>7. 0..Len(s) \subseteq P
  <2> HIDE DEF P
  <2> QED
    BY <1>5, <1>6, Induction, SMTT(30)
<1> HIDE DEF G
<1>8. \A i \in 1..Len(s) : G[i] = g[i]
  <2>1. Len(s) \in 0..Len(s)
    OBVIOUS
  <2> QED
    BY <1>7, <2>1
<1>9. G = [i \in 1..Len(s) |-> G[i]] /\ g = [i \in 1..Len(s) |-> g[i]]
  BY <1>2, <1>3
<1>10. G = g
  BY <1>8, <1>9
<1> QED
  BY <1>1, <1>4, <1>10

(* Where the elements of a concatenation come from.                         *)
LEMMA ConcatIs ==
    ASSUME NEW T, NEW a \in Seq(T), NEW b \in Seq(T)
    PROVE  /\ Len(a \o b) = Len(a) + Len(b)
           /\ \A i \in DOMAIN (a \o b) :
                 /\ i \in DOMAIN a => (a \o b)[i] = a[i]
                 /\ i \notin DOMAIN a => /\ i - Len(a) \in DOMAIN b
                                        /\ (a \o b)[i] = b[i - Len(a)]
                 /\ i \in Nat /\ Len(a) \in Nat
  OBVIOUS

-----------------------------------------------------------------------------
(* Sums over a finite set.                                                  *)

(* A family of subsets that has every subset whose proper subsets it has,   *)
(* has them all.                                                            *)
LEMMA SubsetInduction ==
    ASSUME NEW S, IsFiniteSet(S), NEW F,
           \A X \in SUBSET S : (\A Y \in SUBSET X : Y # X => Y \in F) => X \in F
    PROVE  SUBSET S \subseteq F
<1> DEFINE T == {X \in SUBSET S : X \notin F}
<1> SUFFICES ASSUME T # {} PROVE FALSE
  OBVIOUS
<1>1. IsWellFoundedOn(StrictSubsetOrdering(S), FiniteSubsetsOf(S)) /\ FiniteSubsetsOf(S) = SUBSET S
  BY FS_StrictSubsetOrderingWellFounded, FS_FiniteSubsetsOfFinite
<1>2. PICK X \in T : \A Y \in T : ~ (<<Y, X>> \in StrictSubsetOrdering(S))
  <2>1. T \subseteq FiniteSubsetsOf(S)
    BY <1>1
  <2> HIDE DEF T
  <2> QED BY <1>1, <2>1, WFMin
<1>3. ASSUME NEW Y \in SUBSET X, Y # X PROVE Y \in F
  <2>1. X \in SUBSET S /\ Y \in SUBSET S
    BY <1>3
  <2>2. <<Y, X>> \in StrictSubsetOrdering(S)
    BY <1>3, <2>1 DEF StrictSubsetOrdering
  <2> QED BY <1>2, <2>1, <2>2
<1> QED BY <1>3

One(X) == CHOOSE x \in X : TRUE

(* The function by which FoldSet adds up the weights w of the subsets of S. *)
Sums(it, w, S) ==
    it = [X \in SUBSET S |-> IF X = {} THEN 0 ELSE it[X \ {One(X)}] + w[One(X)]]
Summed(w, S) == (CHOOSE it : Sums(it, w, S))[S]

LEMMA OneIsIn ==
    ASSUME NEW X, X # {}
    PROVE  One(X) \in X /\ X \ {One(X)} \in SUBSET X /\ X \ {One(X)} # X
BY DEF One

LEMMA SumsAt ==
    ASSUME NEW w, NEW S, NEW it, Sums(it, w, S), NEW X \in SUBSET S
    PROVE  it[X] = IF X = {} THEN 0 ELSE it[X \ {One(X)}] + w[One(X)]
BY DEF Sums

(* Two such functions agree where both are defined.                         *)
LEMMA SumsAgree ==
    ASSUME NEW w, NEW S, IsFiniteSet(S), NEW U \in SUBSET S, NEW f, Sums(f, w, S), NEW g, Sums(g, w, U)
    PROVE  \A X \in SUBSET U : f[X] = g[X]
<1> DEFINE F == {X \in SUBSET U : f[X] = g[X]}
<1>1. ASSUME NEW X \in SUBSET U, \A Y \in SUBSET X : Y # X => Y \in F
      PROVE  X \in F
  <2>1. CASE X = {}
    <3>1. X \in SUBSET S
      OBVIOUS
    <3> QED BY <2>1, <3>1, SumsAt
  <2>2. CASE X # {}
    <3> DEFINE W == X \ {One(X)}
    <3>1. W \in F /\ X \in SUBSET S
      BY <1>1, <2>2, OneIsIn
    <3>2. f[X] = f[W] + w[One(X)] /\ g[X] = g[W] + w[One(X)]
      BY <2>2, <3>1, SumsAt
    <3> HIDE DEF W
    <3> QED BY <3>1, <3>2
  <2> QED BY <2>1, <2>2
<1>2. IsFiniteSet(U)
  BY FS_Subset
<1>3. SUBSET U \subseteq F
  <2> HIDE DEF F
  <2> QED BY <1>1, <1>2, SubsetInduction
<1> QED BY <1>3

(* There is such a function.                                                *)
LEMMA SumsExist ==
    ASSUME NEW w, NEW S, IsFiniteSet(S)
    PROVE  \E it : Sums(it, w, S)
<1> DEFINE F == {X \in SUBSET S : \E it : Sums(it, w, X)}
<1>1. ASSUME NEW X \in SUBSET S, \A Y \in SUBSET X : Y # X => Y \in F
      PROVE  X \in F
  <2> DEFINE part(Z) == CHOOSE it : Sums(it, w, Z)
             h == [Z \in SUBSET X |->
                     IF Z # X THEN Summed(w, Z)
                     ELSE IF X = {} THEN 0 ELSE Summed(w, X \ {One(X)}) + w[One(X)]]
  <2>1. ASSUME NEW Z \in SUBSET X, Z # X PROVE Sums(part(Z), w, Z) /\ Summed(w, Z) = part(Z)[Z]
    BY <1>1, <2>1 DEF Summed
  <2>2. ASSUME NEW Z \in SUBSET X
        PROVE  h[Z] = IF Z = {} THEN 0 ELSE h[Z \ {One(Z)}] + w[One(Z)]
    <3> DEFINE W == Z \ {One(Z)}
    <3>1. Z # {} => W \in SUBSET Z /\ W \in SUBSET X /\ W # X /\ h[W] = Summed(w, W)
      <4>1. Z # {} => One(Z) \in Z /\ One(Z) \notin W
        BY OneIsIn
      <4> QED BY <4>1
    <3>2. CASE Z = X
      BY <3>1, <3>2
    <3>3. CASE Z # X
      <4>1. h[Z] = part(Z)[Z]
        BY <2>1, <3>3
      <4>2. CASE Z = {}
        <5>1. part(Z)[Z] = 0
          BY <2>1, <3>3, <4>2, SumsAt
        <5> QED BY <4>1, <4>2, <5>1
      <4>3. CASE Z # {}
        <5>1. part(Z)[Z] = part(Z)[W] + w[One(Z)]
          <6> HIDE DEF part
          <6> QED BY <2>1, <3>3, <4>3, SumsAt
        <5>2. part(Z)[W] = Summed(w, W)
          <6>1. /\ Sums(part(Z), w, Z) /\ Sums(part(W), w, W) /\ Summed(w, W) = part(W)[W]
                /\ W \in SUBSET Z /\ IsFiniteSet(Z)
            <7>1. IsFiniteSet(Z) /\ W \in SUBSET Z /\ W \in SUBSET X /\ W # X
              BY <3>1, <4>3, FS_Subset
            <7> HIDE DEF part, W, h
            <7> QED BY <2>1, <3>3, <7>1
          <6> HIDE DEF part, W
          <6>2. part(Z)[W] = part(W)[W]
            BY <6>1, SumsAgree
          <6> QED BY <6>1, <6>2
        <5> HIDE DEF h, W, part
        <5> QED BY <3>1, <4>1, <4>3, <5>1, <5>2 DEF W
      <4> QED BY <4>2, <4>3
    <3> QED BY <3>2, <3>3
  <2>3. h = [Z \in SUBSET X |-> h[Z]]
    OBVIOUS
  <2> HIDE DEF h
  <2>4. h = [Z \in SUBSET X |-> IF Z = {} THEN 0 ELSE h[Z \ {One(Z)}] + w[One(Z)]]
    BY ONLY <2>2, <2>3, Zenon
  <2>5. Sums(h, w, X)
    BY <2>4 DEF Sums
  <2> QED BY <2>5
<1>2. SUBSET S \subseteq F
  <2> HIDE DEF F
  <2> QED BY <1>1, SubsetInduction
<1> QED BY <1>2

-----------------------------------------------------------------------------
(* Start-up.                                                                *)

(* Starts that overlapped with no other, so far.                            *)
Alone(b) == \A q \in Boots : ~Beside(q, b)
Seeding == {"check", "copy"}
Migrating == {"version", "sessions", "stamp", "read", "upgrade"}
(* The schema is newer than the stamp says: no upgrade gets over that.      *)
Spoiled == version = 1 /\ level = Newest

(* A start knows which starts were over when it began.                      *)
Recorded ==
    \A b \in Boots : /\ boot[b].before \subseteq BootsEnded
                     /\ boot[b].pc = "idle" => boot[b].before = {}
(* Versions the schema and its stamp may have, and what a start has behind  *)
(* it at each step.                                                         *)
Stepwise ==
    /\ \/ version \in {0, 1} /\ level \in {version, 1}
       \/ version \in {1, Newest} /\ level = Newest
    /\ \A b \in Boots :
        /\ boot[b].pc \in {"idle", "schema"} => boot[b].table = 1
        /\ boot[b].pc \in Seeding =>
             schema /\ boot[b].table \in DOMAIN Seed /\ \A j \in 1..(boot[b].table - 1) : Seed[j] \in seeded
        /\ boot[b].pc \in Migrating \cup {"complete"} => seeded = Tables
        /\ boot[b].pc = "stamp" => level > 0
(* What a start has read still holds while nobody else is under way.        *)
Undisturbed ==
    \A b \in Boots : Alone(b) =>
        /\ boot[b].pc = "copy" => Seed[boot[b].table] \notin seeded
        /\ boot[b].pc = "sessions" => boot[b].known = (version > 0)
        /\ boot[b].pc = "stamp" => version = 0
        /\ boot[b].pc \in {"read", "upgrade"} => version > 0 \/ level = 0
        /\ boot[b].pc = "upgrade" => boot[b].from = version
        /\ boot[b].pc = "conflict" => Spoiled
OneByOne ==
    (\A b \in Boots : Alone(b)) =>
        /\ ~Spoiled
        /\ \A b \in Boots : boot[b].pc = "complete" => level = Newest /\ version = Newest
StartupIInv == StartupTypeOK /\ Recorded /\ Stepwise /\ Undisturbed /\ OneByOne

StartStep(b) ==
    \/ BeginBoot(b) \/ CreateSchema(b) \/ CheckTable(b) \/ CopyTable(b) \/ SeeVersion(b) \/ SeeSessions(b)
    \/ Stamp(b) \/ ReadVersion(b) \/ Upgrade(b) \/ BootRaises(b)

(* A step of b changes nothing of the other starts, and b's own account of  *)
(* who had ended only when it begins.                                       *)
Advances(b) ==
    /\ boot' \in [Boots -> Boot]
    /\ \A q \in Boots \ {b} : boot'[q] = boot[q]
    /\ boot[b].pc \notin BootEnds /\ boot'[b].pc # "idle"
    /\ boot'[b].before = IF boot[b].pc = "idle" THEN BootsEnded ELSE boot[b].before

LEMMA BootToIs ==
    ASSUME StartupTypeOK, NEW b \in Boots, NEW step,
           step \in {"schema", "check", "copy", "version", "sessions", "stamp", "read", "upgrade"} \cup BootEnds,
           BootTo(b, step)
    PROVE  /\ boot' \in [Boots -> Boot]
           /\ \A q \in Boots \ {b} : boot'[q] = boot[q]
           /\ boot'[b].pc = step /\ boot'[b].before = boot[b].before
           /\ step \notin BootEnds => /\ boot'[b].table = boot[b].table
                                      /\ boot'[b].known = boot[b].known /\ boot'[b].from = boot[b].from
<1>0. boot \in [Boots -> Boot] /\ boot[b] \in Boot
  BY DEF StartupTypeOK
<1>1. boot[b].before \in SUBSET Boots /\ 0 \in 0..Newest /\ 1 \in 1..(Len(Seed) + 1)
  BY <1>0, StartupAssumption DEF Boot
<1> DEFINE over == [NotBooted EXCEPT !.pc = step, !.before = boot[b].before]
           on == [boot[b] EXCEPT !.pc = step]
<1>2. over \in Boot /\ over.pc = step /\ over.before = boot[b].before
  BY <1>1 DEF NotBooted, Boot
<1>3. /\ on \in Boot /\ on.pc = step /\ on.before = boot[b].before
      /\ on.table = boot[b].table /\ on.known = boot[b].known /\ on.from = boot[b].from
  BY <1>0 DEF Boot
<1>4. boot' = [boot EXCEPT ![b] = IF step \in BootEnds THEN over ELSE on]
  BY DEF BootTo
<1> HIDE DEF over, on
<1>5. CASE step \in BootEnds
  BY <1>0, <1>2, <1>4, <1>5
<1>6. CASE step \notin BootEnds
  BY <1>0, <1>3, <1>4, <1>6
<1> QED
  BY <1>5, <1>6

LEMMA GoOnIs ==
    ASSUME StartupTypeOK, NEW b \in Boots, boot[b].table \in DOMAIN Seed, GoOn(b, boot[b].table + 1)
    PROVE  /\ boot' \in [Boots -> Boot]
           /\ \A q \in Boots \ {b} : boot'[q] = boot[q]
           /\ boot'[b].table = boot[b].table + 1 /\ boot'[b].before = boot[b].before
           /\ \/ boot'[b].pc = "check" /\ boot'[b].table \in DOMAIN Seed
              \/ boot'[b].pc = "version" /\ boot[b].table = Len(Seed)
<1>0. boot \in [Boots -> Boot] /\ boot[b] \in Boot
  BY DEF StartupTypeOK
<1> DEFINE n == boot[b].table + 1
           to == IF n > Len(Seed) THEN "version" ELSE "check"
<1>1. Len(Seed) \in Nat /\ DOMAIN Seed = 1..Len(Seed)
  BY StartupAssumption
<1>2. n \in 1..(Len(Seed) + 1) /\ (n \in DOMAIN Seed \/ boot[b].table = Len(Seed))
  BY <1>1
<1>3. to \in {"check", "version"} /\ (to = "check" => n \in DOMAIN Seed) /\ (to = "version" => boot[b].table = Len(Seed))
  BY <1>1, <1>2
<1>4. boot' = [boot EXCEPT ![b].table = n, ![b].pc = to]
  BY DEF GoOn
<1> HIDE DEF n, to
<1>5. boot' = [boot EXCEPT ![b] = [boot[b] EXCEPT !.table = n, !.pc = to]]
  BY <1>0, <1>4
<1>6. [boot[b] EXCEPT !.table = n, !.pc = to] \in Boot
  BY <1>0, <1>2, <1>3 DEF Boot
<1> QED
  BY <1>0, <1>2, <1>3, <1>5, <1>6 DEF Boot, n

LEMMA StartAdvances ==
    ASSUME StartupTypeOK, Recorded, Stepwise, NEW b \in Boots, StartStep(b)
    PROVE  Advances(b)
<1>0. boot \in [Boots -> Boot] /\ boot[b] \in Boot /\ version \in 0..Newest
  BY DEF StartupTypeOK
<1>1. CASE BeginBoot(b)
  <2>1. PICK step \in {"schema", "refused"} : boot' = [boot EXCEPT ![b].pc = step, ![b].before = BootsEnded]
    BY <1>1 DEF BeginBoot
  <2>2. BootsEnded \in SUBSET Boots /\ boot[b].pc = "idle"
    BY <1>1 DEF BootsEnded, BeginBoot, BootAt
  <2>3. [boot[b] EXCEPT !.pc = step, !.before = BootsEnded] \in Boot
    BY <1>0, <2>2 DEF Boot, BootEnds
  <2>4. boot' = [boot EXCEPT ![b] = [boot[b] EXCEPT !.pc = step, !.before = BootsEnded]]
    BY <1>0, <2>1
  <2> QED
    BY <1>0, <2>2, <2>3, <2>4 DEF Advances, Boot, BootEnds
<1>2. CASE CreateSchema(b) \/ Stamp(b) \/ SeeSessions(b) \/ Upgrade(b) \/ BootRaises(b)
  <2>1. PICK step \in {"check", "read", "stamp"} \cup BootEnds : BootTo(b, step)
    <3>1. CASE CreateSchema(b) BY <3>1 DEF CreateSchema, BootEnds
    <3>2. CASE Stamp(b) BY <3>2 DEF Stamp
    <3>3. CASE SeeSessions(b) BY <3>3 DEF SeeSessions
    <3>4. CASE Upgrade(b) BY <3>4 DEF Upgrade, BootEnds
    <3>5. CASE BootRaises(b) BY <3>5 DEF BootRaises, BootEnds
    <3> QED BY <1>2, <3>1, <3>2, <3>3, <3>4, <3>5
  <2>2. boot[b].pc \notin BootEnds /\ boot[b].pc # "idle"
    BY <1>2 DEF CreateSchema, Stamp, SeeSessions, Upgrade, BootRaises, BootAt, BootEnds, BootsBegun, BootsEnded
  <2>3. step # "idle"
    BY DEF BootEnds
  <2> QED
    BY <2>1, <2>2, <2>3, BootToIs DEF Advances
<1>3. CASE CheckTable(b) \/ CopyTable(b)
  <2>1. boot[b].pc \in Seeding /\ boot[b].table \in DOMAIN Seed
    BY <1>3 DEF CheckTable, CopyTable, BootAt, Seeding, Stepwise
  <2>2. boot[b].pc \notin BootEnds /\ boot[b].pc # "idle"
    BY <2>1 DEF Seeding, BootEnds
  <2>3. CASE GoOn(b, boot[b].table + 1)
    BY <2>1, <2>2, <2>3, GoOnIs DEF Advances
  <2>4. CASE BootTo(b, "copy") \/ BootTo(b, "conflict")
    BY <2>2, <2>4, BootToIs DEF Advances, BootEnds
  <2> QED
    BY <1>3, <2>3, <2>4 DEF CheckTable, CopyTable
<1>4. CASE SeeVersion(b) \/ ReadVersion(b)
  <2>1. PICK known \in BOOLEAN, from \in 0..Newest, step \in {"sessions", "upgrade"} :
          boot' = [boot EXCEPT ![b] = [boot[b] EXCEPT !.pc = step, !.known = known, !.from = from]]
    <3>1. CASE SeeVersion(b)
      <4>1. boot[b].from \in 0..Newest /\ (version > 0) \in BOOLEAN
        BY <1>0 DEF Boot
      <4>2. boot' = [boot EXCEPT ![b] = [boot[b] EXCEPT !.pc = "sessions", !.known = version > 0, !.from = boot[b].from]]
        BY <1>0, <3>1 DEF SeeVersion, Boot
      <4> QED BY <4>1, <4>2
    <3>2. CASE ReadVersion(b)
      <4>1. boot[b].known \in BOOLEAN
        BY <1>0 DEF Boot
      <4>2. boot' = [boot EXCEPT ![b] = [boot[b] EXCEPT !.pc = "upgrade", !.known = boot[b].known, !.from = version]]
        BY <1>0, <3>2 DEF ReadVersion, Boot
      <4> QED BY <1>0, <4>1, <4>2
    <3> QED BY <1>4, <3>1, <3>2
  <2>2. [boot[b] EXCEPT !.pc = step, !.known = known, !.from = from] \in Boot
    BY <1>0 DEF Boot
  <2>3. boot[b].pc \in {"version", "read"}
    BY <1>4 DEF SeeVersion, ReadVersion, BootAt
  <2> QED
    BY <1>0, <2>1, <2>2, <2>3, SMTT(30) DEF Advances, Boot, BootEnds
<1> QED
  BY <1>1, <1>2, <1>3, <1>4 DEF StartStep

(* Two starts that were under way together stay so in each other's account, *)
(* and whoever is under way when b makes a step was so together with b.     *)
LEMMA BesideLasts ==
    ASSUME StartupTypeOK, Recorded, NEW b \in Boots, Advances(b)
    PROVE  /\ Recorded'
           /\ \A p \in Boots : Alone(p)' => Alone(p) /\ (p = b \/ boot[p].pc \in BootEnds \cup {"idle"})
<1>1. BootsEnded \subseteq BootsEnded' /\ BootsBegun \subseteq BootsBegun' /\ b \in BootsBegun'
  BY DEF Advances, BootsEnded, BootsBegun
<1>2. Recorded'
  BY <1>1 DEF Recorded, Advances
<1>3. ASSUME NEW p \in Boots, NEW q \in Boots, Beside(q, p) PROVE Beside(q, p)'
  <2>1. boot'[p].before = boot[p].before /\ boot'[q].before = boot[q].before
    BY <1>3 DEF Advances, Beside, BootsBegun
  <2> QED
    BY <1>1, <1>3, <2>1 DEF Beside
<1>4. ASSUME NEW p \in Boots, p # b, boot[p].pc \notin BootEnds \cup {"idle"} PROVE Beside(b, p)'
  <2>1. boot'[p] = boot[p] /\ p \in BootsBegun' /\ p \notin BootsEnded
    BY <1>4 DEF Advances, BootsBegun, BootsEnded
  <2>2. b \notin boot[p].before
    BY DEF Recorded, Advances, BootsEnded
  <2>3. p \notin boot'[b].before
    BY <2>1 DEF Recorded, Advances
  <2> QED
    BY <1>1, <1>4, <2>1, <2>2, <2>3 DEF Beside
<1> QED
  BY <1>2, <1>3, <1>4 DEF Alone

LEMMA StartTypes ==
    ASSUME StartupTypeOK, Stepwise, NEW b \in Boots, StartStep(b), Advances(b)
    PROVE  StartupTypeOK'
<1>0. boot' \in [Boots -> Boot]
  BY DEF Advances
<1>1. /\ schema' \in BOOLEAN /\ seeded' \subseteq Tables /\ (seeded' # {} => schema')
      /\ level' \in 0..Newest /\ version' \in 0..Newest
  <2>1. CASE CreateSchema(b)
    <3>1. schema' \in BOOLEAN /\ (schema' = TRUE \/ schema' = schema)
      BY <2>1 DEF CreateSchema, StartupTypeOK
    <3>2. (schema = TRUE => schema' = TRUE) /\ (seeded # {} => schema = TRUE)
      BY <3>1 DEF StartupTypeOK
    <3>3. seeded' = seeded /\ level' = level /\ version' = version
      BY <2>1 DEF CreateSchema
    <3> QED
      BY <3>1, <3>2, <3>3 DEF StartupTypeOK
  <2>2. CASE CopyTable(b)
    BY <2>2 DEF CopyTable, BootAt, Stepwise, Seeding, StartupTypeOK, Tables
  <2>3. CASE Stamp(b)
    BY <2>3, StartupAssumption DEF Stamp, StartupTypeOK
  <2>4. CASE Upgrade(b)
    BY <2>4, StartupAssumption DEF Upgrade, StartupTypeOK
  <2>5. CASE UNCHANGED <<schema, seeded, level, version>>
    BY <2>5 DEF StartupTypeOK
  <2> QED
    BY <2>1, <2>2, <2>3, <2>4, <2>5
    DEF StartStep, BeginBoot, CheckTable, SeeVersion, SeeSessions, ReadVersion, BootRaises
<1> QED
  BY <1>0, <1>1 DEF StartupTypeOK

(* The tables in front of a start are all filled when it is past the last.  *)
LEMMA PastTheLast ==
    ASSUME NEW filled, filled \subseteq Tables, \A j \in 1..Len(Seed) : Seed[j] \in filled
    PROVE  filled = Tables
BY StartupAssumption DEF Tables

(* What a step of b finds and leaves, one action at a time.                 *)
LEMMA StartKeepsStepwise ==
    ASSUME StartupTypeOK, Recorded, Stepwise, NEW b \in Boots, StartStep(b), Advances(b), StartupTypeOK'
    PROVE  Stepwise'
<1>0. boot \in [Boots -> Boot] /\ boot[b] \in Boot /\ version \in 0..Newest /\ level \in 0..Newest /\ Newest \in Nat \ {0, 1}
  BY StartupAssumption DEF StartupTypeOK
<1>L. Len(Seed) \in Nat /\ DOMAIN Seed = 1..Len(Seed)
  BY StartupAssumption
<1> DEFINE Revisions(l, v) == (v \in {0, 1} /\ l \in {v, 1}) \/ (v \in {1, Newest} /\ l = Newest)
           StepKept(q) ==
             /\ boot'[q].pc \in {"idle", "schema"} => boot'[q].table = 1
             /\ boot'[q].pc \in Seeding =>
                  schema' /\ boot'[q].table \in DOMAIN Seed /\ \A j \in 1..(boot'[q].table - 1) : Seed[j] \in seeded'
             /\ boot'[q].pc \in Migrating \cup {"complete"} => seeded' = Tables
             /\ boot'[q].pc = "stamp" => level' > 0
<1>A. seeded \subseteq seeded' /\ (schema => schema')
  BY DEF StartStep, BeginBoot, CreateSchema, CheckTable, CopyTable, SeeVersion, SeeSessions, Stamp, ReadVersion, Upgrade,
         BootRaises
<1>R. Revisions(level, version)
  BY DEF Stepwise
<1>B. Revisions(level', version') /\ (level > 0 => level' > 0)
  <2>1. CASE Stamp(b)
    <3>1. level > 0 /\ level' = level /\ version' = 1
      BY <2>1 DEF Stamp, BootAt, Stepwise
    <3> QED
      BY <1>0, <1>R, <3>1
  <2>2. CASE Upgrade(b)
    <3>1. (level' = Newest /\ version' = Newest) \/ (level' = level /\ version' = version)
      BY <2>2 DEF Upgrade
    <3> QED
      BY <1>0, <1>R, <3>1
  <2>3. CASE UNCHANGED <<level, version>>
    BY <1>R, <2>3
  <2> QED
    BY <2>1, <2>2, <2>3
    DEF StartStep, BeginBoot, CreateSchema, CheckTable, CopyTable, SeeVersion, SeeSessions, ReadVersion, BootRaises
<1>1. Revisions(level', version') /\ (level > 0 => level' > 0) /\ seeded \subseteq seeded' /\ (schema => schema')
  BY <1>A, <1>B
<1>2. ASSUME NEW q \in Boots \ {b} PROVE StepKept(q)
  <2>1. boot'[q] = boot[q]
    BY DEF Advances
  <2>2. seeded = Tables => seeded' = Tables
    BY <1>1 DEF StartupTypeOK
  <2> QED
    BY <1>1, <2>1, <2>2 DEF Stepwise
<1>3. StepKept(b)
  <2>1. CASE BeginBoot(b)
    <3>1. PICK step \in {"schema", "refused"} : boot' = [boot EXCEPT ![b].pc = step, ![b].before = BootsEnded]
      BY <2>1 DEF BeginBoot
    <3>2. boot'[b].pc = step /\ boot'[b].table = 1
      BY <1>0, <2>1, <3>1 DEF BeginBoot, BootAt, Stepwise, Boot
    <3> QED
      BY <3>2 DEF Seeding, Migrating
  <2>2. CASE CreateSchema(b)
    <3>1. CASE BootTo(b, "check") /\ schema'
      <4>1. boot'[b].pc = "check" /\ boot'[b].table = 1
        BY <2>2, <3>1, BootToIs DEF CreateSchema, BootAt, Stepwise, BootEnds
      <4>2. 1 \in DOMAIN Seed
        BY <1>L, StartupAssumption
      <4> QED
        BY <3>1, <4>1, <4>2 DEF Migrating
    <3>2. CASE BootTo(b, "conflict")
      BY <3>2, BootToIs DEF BootEnds, Seeding, Migrating
    <3> QED
      BY <2>2, <3>1, <3>2 DEF CreateSchema
  <2>3. CASE CheckTable(b) \/ CopyTable(b)
    <3>0. /\ schema /\ boot[b].table \in DOMAIN Seed
          /\ \A j \in 1..(boot[b].table - 1) : Seed[j] \in seeded
      BY <2>3 DEF CheckTable, CopyTable, BootAt, Stepwise, Seeding
    <3>1. CASE GoOn(b, boot[b].table + 1) /\ Seed[boot[b].table] \in seeded'
      <4>1. \A j \in 1..boot[b].table : Seed[j] \in seeded'
        <5>1. boot[b].table \in Nat
          BY <3>0, <1>L
        <5> QED
          BY <3>0, <3>1, <1>1, <5>1
      <4>2. CASE boot'[b].pc = "check"
        BY <1>1, <1>L, <3>0, <3>1, <4>1, <4>2, GoOnIs DEF Migrating
      <4>3. CASE boot'[b].pc = "version" /\ boot[b].table = Len(Seed)
        BY <4>1, <4>3, PastTheLast DEF Seeding, StartupTypeOK
      <4> QED
        BY <3>0, <3>1, <4>2, <4>3, GoOnIs
    <3>2. CASE BootTo(b, "copy") /\ UNCHANGED <<schema, seeded>>
      <4>1. boot'[b].pc = "copy" /\ boot'[b].table = boot[b].table
        BY <3>2, BootToIs DEF BootEnds
      <4> QED
        BY <3>0, <3>2, <4>1 DEF Migrating
    <3>3. CASE BootTo(b, "conflict")
      BY <3>3, BootToIs DEF BootEnds, Seeding, Migrating
    <3> QED
      BY <2>3, <3>1, <3>2, <3>3 DEF CheckTable, CopyTable
  <2>4. CASE SeeVersion(b) \/ ReadVersion(b) \/ Stamp(b) \/ SeeSessions(b) \/ Upgrade(b)
    <3>1. seeded' = Tables
      BY <2>4 DEF SeeVersion, ReadVersion, Stamp, SeeSessions, Upgrade, BootAt, Stepwise, Migrating
    <3>2. boot'[b].pc \in {"sessions", "upgrade", "read", "stamp", "complete", "conflict"} /\ (boot'[b].pc = "stamp" => level' > 0)
      <4>1. CASE SeeVersion(b)
        BY <1>0, <4>1 DEF SeeVersion, Boot
      <4>2. CASE ReadVersion(b)
        BY <1>0, <4>2 DEF ReadVersion, Boot
      <4>3. CASE Stamp(b)
        BY <4>3, BootToIs DEF Stamp
      <4>4. CASE SeeSessions(b)
        BY <4>4, BootToIs DEF SeeSessions
      <4>5. CASE Upgrade(b)
        BY <4>5, BootToIs DEF Upgrade, BootEnds
      <4> QED
        BY <2>4, <4>1, <4>2, <4>3, <4>4, <4>5
    <3> QED
      BY <3>1, <3>2 DEF Seeding
  <2>5. CASE BootRaises(b)
    BY <2>5, BootToIs DEF BootRaises, BootEnds, Seeding, Migrating
  <2> QED
    BY <2>1, <2>2, <2>3, <2>4, <2>5 DEF StartStep
<1> HIDE DEF StepKept
<1>4. \A q \in Boots : StepKept(q)
  BY <1>2, <1>3
<1> QED
  BY <1>1, <1>4 DEF Stepwise, StepKept

LEMMA StartKeepsUndisturbed ==
    ASSUME StartupTypeOK, Recorded, Stepwise, Undisturbed, NEW b \in Boots, StartStep(b), Advances(b)
    PROVE  Undisturbed'
<1>0. boot \in [Boots -> Boot] /\ boot[b] \in Boot /\ version \in 0..Newest /\ level \in 0..Newest /\ Newest \in Nat \ {0, 1}
  BY StartupAssumption DEF StartupTypeOK
<1>S. Spoiled => Spoiled'
  <2>1. CASE Stamp(b)
    BY <2>1 DEF Stamp, Spoiled
  <2>2. CASE Upgrade(b)
    BY <2>2 DEF Upgrade, Spoiled
  <2>3. CASE UNCHANGED <<level, version>>
    BY <2>3 DEF Spoiled
  <2> QED
    BY <2>1, <2>2, <2>3
    DEF StartStep, BeginBoot, CreateSchema, CheckTable, CopyTable, SeeVersion, SeeSessions, ReadVersion, BootRaises
<1> DEFINE AloneKept(p) ==
             /\ boot'[p].pc = "copy" => Seed[boot'[p].table] \notin seeded'
             /\ boot'[p].pc = "sessions" => boot'[p].known = (version' > 0)
             /\ boot'[p].pc = "stamp" => version' = 0
             /\ boot'[p].pc \in {"read", "upgrade"} => version' > 0 \/ level' = 0
             /\ boot'[p].pc = "upgrade" => boot'[p].from = version'
             /\ boot'[p].pc = "conflict" => Spoiled'
           Over == {"idle", "schema", "check", "version"} \cup (BootEnds \ {"conflict"})
<1>1. ASSUME NEW p \in Boots \ {b}, Alone(p)' PROVE AloneKept(p)
  <2>1. boot'[p] = boot[p] /\ Alone(p) /\ boot[p].pc \in BootEnds \cup {"idle"}
    BY <1>1, BesideLasts DEF Advances
  <2> QED
    BY <1>S, <2>1 DEF Undisturbed, BootEnds
<1>2. ASSUME Alone(b)' PROVE AloneKept(b)
  <2>0. Alone(b)
    BY <1>2, BesideLasts
  <2>1. CASE boot'[b].pc \in Over
    BY <2>1 DEF BootEnds
  <2>2. CASE BeginBoot(b)
    <3>1. boot'[b].pc \in {"schema", "refused"}
      BY <1>0, <2>2 DEF BeginBoot, Boot
    <3> QED
      BY <2>1, <3>1 DEF BootEnds
  <2>3. CASE CreateSchema(b)
    <3>1. BootTo(b, "check")
      BY <2>3, <2>0 DEF CreateSchema, Alone
    <3> QED
      BY <2>1, <3>1, BootToIs DEF BootEnds
  <2>4. CASE CheckTable(b)
    <3>0. boot[b].table \in DOMAIN Seed
      BY <2>4 DEF CheckTable, BootAt, Stepwise, Seeding
    <3>1. CASE GoOn(b, boot[b].table + 1)
      BY <2>1, <3>0, <3>1, GoOnIs
    <3>2. CASE BootTo(b, "copy") /\ Seed[boot[b].table] \notin seeded
      BY <2>4, <3>2, BootToIs DEF CheckTable, BootEnds
    <3> QED
      BY <2>4, <3>1, <3>2 DEF CheckTable
  <2>5. CASE CopyTable(b)
    <3>0. /\ boot[b].table \in DOMAIN Seed /\ Seed[boot[b].table] \notin seeded
          /\ \A j \in 1..(boot[b].table - 1) : Seed[j] \in seeded
      BY <2>0, <2>5 DEF CopyTable, BootAt, Stepwise, Seeding, Undisturbed
    <3>1. Refs[Seed[boot[b].table]] \subseteq seeded
      BY <3>0, StartupAssumption
    <3>2. GoOn(b, boot[b].table + 1)
      BY <2>5, <3>0, <3>1 DEF CopyTable
    <3> QED
      BY <2>1, <3>0, <3>2, GoOnIs
  <2>6. CASE SeeVersion(b)
    BY <1>0, <2>6 DEF SeeVersion, Boot
  <2>7. CASE SeeSessions(b)
    <3>1. boot[b].known = (version > 0) /\ UNCHANGED <<level, version>>
      BY <2>0, <2>7 DEF SeeSessions, BootAt, Undisturbed
    <3>2. CASE level > 0 /\ ~boot[b].known
      <4>1. boot'[b].pc = "stamp"
        BY <2>7, <3>2, BootToIs DEF SeeSessions
      <4> QED
        BY <1>0, <3>1, <3>2, <4>1 DEF Boot
    <3>3. CASE ~(level > 0 /\ ~boot[b].known)
      <4>1. boot'[b].pc = "read"
        BY <2>7, <3>3, BootToIs DEF SeeSessions
      <4> QED
        BY <1>0, <3>1, <3>3, <4>1 DEF Boot
    <3> QED
      BY <3>2, <3>3
  <2>8. CASE Stamp(b)
    <3>1. boot'[b].pc = "read" /\ version' = 1
      BY <2>8, BootToIs DEF Stamp
    <3> QED
      BY <3>1
  <2>9. CASE ReadVersion(b)
    <3>1. boot'[b].pc = "upgrade" /\ boot'[b].from = version /\ UNCHANGED <<level, version>>
      BY <1>0, <2>9 DEF ReadVersion, Boot
    <3> QED
      BY <2>0, <2>9, <3>1 DEF ReadVersion, BootAt, Undisturbed
  <2>10. CASE Upgrade(b)
    <3>1. boot[b].from = version /\ (version > 0 \/ level = 0)
      BY <2>0, <2>10 DEF Upgrade, BootAt, Undisturbed
    <3>2. CASE BootTo(b, "complete")
      BY <2>1, <3>2, BootToIs DEF BootEnds
    <3>3. CASE BootTo(b, "conflict") /\ version # Newest /\ level # version
      <4>1. Spoiled
        BY <1>0, <3>1, <3>3 DEF Stepwise, Spoiled
      <4>2. boot'[b].pc = "conflict"
        BY <3>3, BootToIs DEF BootEnds
      <4> QED
        BY <1>S, <4>1, <4>2
    <3> QED
      BY <2>10, <3>1, <3>2, <3>3 DEF Upgrade
  <2>11. CASE BootRaises(b)
    BY <2>1, <2>11, BootToIs DEF BootRaises, BootEnds
  <2> QED
    BY <2>2, <2>3, <2>4, <2>5, <2>6, <2>7, <2>8, <2>9, <2>10, <2>11 DEF StartStep
<1> HIDE DEF AloneKept
<1>3. \A p \in Boots : Alone(p)' => AloneKept(p)
  BY <1>1, <1>2
<1> QED
  BY <1>3 DEF Undisturbed, AloneKept

LEMMA StartKeepsOneByOne ==
    ASSUME StartupTypeOK, Recorded, Stepwise, Undisturbed, OneByOne, NEW b \in Boots, StartStep(b), Advances(b)
    PROVE  OneByOne'
<1>0. boot \in [Boots -> Boot] /\ version \in 0..Newest /\ level \in 0..Newest /\ Newest \in Nat \ {0, 1}
  BY StartupAssumption DEF StartupTypeOK
<1> SUFFICES ASSUME \A p \in Boots : Alone(p)'
             PROVE  ~Spoiled' /\ \A p \in Boots : boot'[p].pc = "complete" => level' = Newest /\ version' = Newest
  BY DEF OneByOne
<1>1. Alone(b) /\ ~Spoiled /\ \A p \in Boots : boot[p].pc = "complete" => level = Newest /\ version = Newest
  BY BesideLasts DEF OneByOne
<1>2. CASE Stamp(b)
  <2>1. version = 0 /\ level > 0 /\ boot'[b].pc = "read" /\ level' = level
    BY <1>1, <1>2, BootToIs DEF Stamp, BootAt, Undisturbed, Stepwise
  <2>2. level = 1
    BY <1>0, <2>1 DEF Stepwise
  <2> QED
    BY <1>0, <1>1, <2>1, <2>2 DEF Spoiled, Advances
<1>3. CASE Upgrade(b)
  <2>1. boot[b].from = version
    BY <1>1, <1>3 DEF Upgrade, BootAt, Undisturbed
  <2>2. CASE version = Newest
    <3>1. level = Newest /\ UNCHANGED <<level, version>>
      BY <1>0, <1>3, <2>1, <2>2 DEF Upgrade, Stepwise
    <3> QED
      BY <1>0, <2>2, <3>1 DEF Spoiled
  <2>3. CASE version # Newest /\ level = version
    BY <1>0, <1>3, <2>1, <2>3 DEF Upgrade, Spoiled
  <2>4. CASE version # Newest /\ level # version
    <3>1. BootTo(b, "conflict") /\ UNCHANGED <<level, version>>
      BY <1>3, <2>1, <2>4 DEF Upgrade
    <3>2. boot'[b].pc = "conflict"
      BY <3>1, BootToIs DEF BootEnds
    <3> QED
      BY <1>1, <3>1, <3>2 DEF Spoiled, Advances
  <2> QED
    BY <2>2, <2>3, <2>4
<1>4. CASE UNCHANGED <<level, version>> /\ boot'[b].pc # "complete"
  BY <1>1, <1>4 DEF Spoiled, Advances
<1>5. ASSUME ~Stamp(b), ~Upgrade(b) PROVE UNCHANGED <<level, version>> /\ boot'[b].pc # "complete"
  <2>1. UNCHANGED <<level, version>>
    BY <1>5 DEF StartStep, BeginBoot, CreateSchema, CheckTable, CopyTable, SeeVersion, SeeSessions, ReadVersion, BootRaises
  <2>2. CASE BeginBoot(b)
    BY <1>0, <2>2 DEF BeginBoot, Boot
  <2>3. CASE CreateSchema(b)
    BY <2>3, BootToIs DEF CreateSchema, BootEnds
  <2>4. CASE CheckTable(b) \/ CopyTable(b)
    <3>0. boot[b].table \in DOMAIN Seed
      BY <2>4 DEF CheckTable, CopyTable, BootAt, Stepwise, Seeding
    <3>1. CASE GoOn(b, boot[b].table + 1)
      BY <2>1, <3>0, <3>1, GoOnIs
    <3>2. CASE BootTo(b, "copy") \/ BootTo(b, "conflict")
      BY <2>1, <3>2, BootToIs DEF BootEnds
    <3> QED
      BY <2>4, <3>1, <3>2 DEF CheckTable, CopyTable
  <2>5. CASE SeeVersion(b) \/ ReadVersion(b)
    BY <1>0, <2>5 DEF SeeVersion, ReadVersion, Boot
  <2>6. CASE SeeSessions(b)
    BY <2>6, BootToIs DEF SeeSessions
  <2>7. CASE BootRaises(b)
    BY <2>7, BootToIs DEF BootRaises, BootEnds
  <2> QED
    BY <1>5, <2>1, <2>2, <2>3, <2>4, <2>5, <2>6, <2>7 DEF StartStep
<1> QED
  BY <1>2, <1>3, <1>4, <1>5

LEMMA StartsInit == ASSUME StartupInit PROVE StartupIInv
<1>0. Len(Seed) \in Nat \ {0} /\ DOMAIN Seed = 1..Len(Seed) /\ Newest \in Nat \ {0, 1}
  BY StartupAssumption
<1>1. NotBooted \in Boot
  BY <1>0 DEF NotBooted, Boot
<1>2. StartupTypeOK
  <2>0. schema \in BOOLEAN /\ seeded \subseteq Tables
    BY DEF StartupInit
  <2>1. level \in 0..Newest /\ version \in 0..Newest
    BY <1>0 DEF StartupInit
  <2>2. seeded # {} => schema
    BY DEF StartupInit
  <2>3. boot \in [Boots -> Boot]
    BY <1>1 DEF StartupInit
  <2> QED
    BY <2>0, <2>1, <2>2, <2>3 DEF StartupTypeOK
<1>3. \A b \in Boots : boot[b].pc = "idle" /\ boot[b].table = 1 /\ boot[b].before = {}
  BY DEF StartupInit, NotBooted
<1>4. Recorded /\ Stepwise /\ Undisturbed
  BY <1>0, <1>3 DEF Recorded, Stepwise, Undisturbed, Seeding, Migrating, StartupInit
<1>5. OneByOne
  BY <1>0, <1>3 DEF OneByOne, StartupInit, Spoiled
<1> QED
  BY <1>2, <1>4, <1>5 DEF StartupIInv

LEMMA StartsStep == ASSUME StartupIInv, StartupNext PROVE StartupIInv'
<1>1. PICK b \in Boots : StartStep(b)
  BY DEF StartupNext, StartStep
<1>2. Advances(b)
  BY <1>1, StartAdvances DEF StartupIInv
<1>3. StartupTypeOK' /\ Recorded'
  BY <1>1, <1>2, StartTypes, BesideLasts DEF StartupIInv
<1> QED
  BY <1>1, <1>2, <1>3, StartKeepsStepwise, StartKeepsUndisturbed, StartKeepsOneByOne DEF StartupIInv

LEMMA StartsImply == ASSUME StartupIInv PROVE StartupTypeOK /\ StartsRepair /\ OnlyStampSpoils
<1>1. \A b \in Boots : boot[b].pc = "complete" => seeded = Tables
  BY DEF StartupIInv, Stepwise
<1>2. \A b \in Boots : boot[b].pc = "conflict" => ~Alone(b) \/ Spoiled
  BY DEF StartupIInv, Undisturbed
<1> QED
  BY <1>1, <1>2 DEF StartupIInv, StartsRepair, OnlyStampSpoils, OneByOne, Alone, Spoiled, BootAt

-----------------------------------------------------------------------------
(* Text extraction.                                                         *)

(* A page that English alone could read is read under every hint.           *)
LEMMA EnglishStillReads ==
    ASSUME NEW d \in Documents, NEW p \in DOMAIN d.pages, NEW hint,
           d.pages[p].eng \notin {0, Raises}
    PROVE  Printed(d.pages[p], hint) > 0
<1> DEFINE page == d.pages[p]
<1>1. /\ page["eng"] \in Nat \ {0} /\ page["eng"] # Raises
      /\ page["both"] \in Nat \cup {Raises} /\ page["both"] # 0
  BY OcrAssumption
<1>2. Model(hint) \in {"eng", "both"}
  BY DEF Model
<1> HIDE DEF page
<1>3. Printed(page, hint) > 0
  BY <1>1, <1>2 DEF Printed
<1> QED
  BY <1>3 DEF page

(* Naming the contract's language costs no page, and a page that English    *)
(* could read is missing only from a PDF taken for a digital one: for every *)
(* document.                                                                *)
THEOREM HintCostsNothingHolds == HintCostsNothing
<1> SUFFICES ASSUME NEW d \in Documents, NEW hint \in Hints
             PROVE  /\ PagesRead(d, "en") \subseteq PagesRead(d, hint)
                    /\ d.kind \in {"pdf", "image"} /\ ~Unreadable(d) =>
                         \A p \in DOMAIN d.pages \ PagesRead(d, hint) :
                            d.pages[p].eng \in {Raises, 0}
                              \/ (Digital(d) /\ \E q \in DOMAIN d.pages \ {p} : d.pages[q].layer > 0)
  BY DEF HintCostsNothing
<1>1. PagesRead(d, "en") \subseteq PagesRead(d, hint)
  <2>1. ASSUME NEW p \in DOMAIN d.pages, Printed(d.pages[p], "en") > 0
        PROVE  Printed(d.pages[p], hint) > 0
    <3>1. Model("en") = "eng"
      BY OcrAssumption DEF Model
    <3>2. d.pages[p].eng \notin {0, Raises}
      BY <2>1, <3>1 DEF Printed
    <3> QED
      BY <3>2, EnglishStillReads
  <2> QED
    BY <2>1 DEF PagesRead
<1>2. ASSUME d.kind \in {"pdf", "image"}, ~Unreadable(d), NEW p \in DOMAIN d.pages \ PagesRead(d, hint),
             d.pages[p].eng \notin {0, Raises}
      PROVE  Digital(d) /\ \E q \in DOMAIN d.pages \ {p} : d.pages[q].layer > 0
  <2>1. Digital(d)
    BY <1>2, EnglishStillReads DEF PagesRead
  <2>2. LayerLength(d) >= Enough
    BY <1>2, <2>1 DEF Digital
  <2>3. PICK q \in Layered(d) : TRUE
    <3>1. Layered(d) = {} => LayerLength(d) = 0
      BY DEF LayerLength
    <3> QED
      BY <2>2, <3>1, OcrAssumption
  <2>4. p \notin Layered(d)
    BY <1>2, <2>1 DEF PagesRead
  <2> QED
    BY <2>1, <2>3, <2>4 DEF Layered
<1> QED
  BY <1>1, <1>2

-----------------------------------------------------------------------------
LEMMA ConcatHas ==
    ASSUME NEW T, NEW a \in Seq(T), NEW b \in Seq(T)
    PROVE  /\ \A k \in DOMAIN a : k \in DOMAIN (a \o b) /\ (a \o b)[k] = a[k]
           /\ \A k \in DOMAIN b : Len(a) + k \in DOMAIN (a \o b) /\ (a \o b)[Len(a) + k] = b[k]
           /\ \A k \in DOMAIN (a \o b) : k \in DOMAIN a \/ (k - Len(a) \in DOMAIN b /\ (a \o b)[k] = b[k - Len(a)])
<1>1. Len(a) \in Nat /\ Len(b) \in Nat /\ DOMAIN a = 1..Len(a) /\ DOMAIN b = 1..Len(b) /\ DOMAIN (a \o b) = 1..(Len(a) + Len(b))
  OBVIOUS
<1>2. \A k \in DOMAIN a : k \in DOMAIN (a \o b)
  BY <1>1
<1>3. \A k \in DOMAIN b : Len(a) + k \in DOMAIN (a \o b) /\ Len(a) + k \notin DOMAIN a /\ (Len(a) + k) - Len(a) = k
  BY <1>1
<1>4. \A i \in DOMAIN (a \o b) : /\ i \in DOMAIN a => (a \o b)[i] = a[i]
                                 /\ i \notin DOMAIN a => i - Len(a) \in DOMAIN b /\ (a \o b)[i] = b[i - Len(a)]
  BY ConcatIs
<1> DEFINE c == a \o b
<1> HIDE DEF c
<1>5. \A k \in DOMAIN b : c[Len(a) + k] = b[k]
  <2> SUFFICES ASSUME NEW k \in DOMAIN b PROVE c[Len(a) + k] = b[k]
    OBVIOUS
  <2>1. Len(a) + k \in DOMAIN c /\ Len(a) + k \notin DOMAIN a /\ (Len(a) + k) - Len(a) = k
    BY <1>3 DEF c
  <2>2. c[Len(a) + k] = b[(Len(a) + k) - Len(a)]
    BY <1>4, <2>1 DEF c
  <2> QED
    BY <2>1, <2>2
<1> QED
  BY <1>2, <1>3, <1>4, <1>5 DEF c

(* f has the elements of the first m sequences of s, and no others.         *)
Covers(f, s, m) ==
    /\ \A i \in 1..m : \A j \in DOMAIN s[i] : \E k \in DOMAIN f : f[k] = s[i][j]
    /\ \A k \in DOMAIN f : \E i \in 1..m : \E j \in DOMAIN s[i] : f[k] = s[i][j]

(* What FlattenSeq joins, and nothing else, is in its result.               *)
LEMMA FlattenHas ==
    ASSUME NEW T, NEW s \in Seq(Seq(T))
    PROVE  /\ FlattenSeq(s) \in Seq(T)
           /\ Covers(FlattenSeq(s), s, Len(s))
<1>1. CASE s = <<>>
  <2>1. FlattenSeq(s) = s
    BY <1>1 DEF FlattenSeq
  <2>2. s \in Seq(T) /\ DOMAIN s = {} /\ 1..Len(s) = {}
    BY <1>1
  <2> QED
    BY <2>1, <2>2 DEF Covers
<1>2. CASE s # <<>>
  <2> DEFINE n == Len(s)
  <2>0. n \in Nat \ {0} /\ DOMAIN s = 1..n /\ \A i \in 1..n : s[i] \in Seq(T)
    BY <1>2
  <2>1. PICK g \in [1..n -> Seq(T)] : Join(s, g) /\ FlattenSeq(s) = g[n]
    BY <1>2, FlattenIsJoin
  <2> HIDE DEF n
  <2> DEFINE Good(m) == m # 0 => Covers(g[m], s, m)
             P == {m \in 0..n : Good(m)}
  <2>2. 0 \in P
    BY <2>0
  <2>3. ASSUME NEW m \in P, m < n PROVE m + 1 \in P
    <3>0. m \in Nat /\ m + 1 \in 1..n /\ m + 1 # 0 /\ m + 1 \in 0..n /\ (m + 1) - 1 = m /\ (m # 0 => m \in 1..n)
      BY <2>0, <2>3
    <3>1. CASE m = 0
      <4>1. g[1] = s[1] /\ 1 \in 1..n
        <5>1. 1 \in DOMAIN g /\ 1 \in 1..n
          BY <2>0, <2>1
        <5> QED
          BY <2>1, <5>1 DEF Join
      <4>2. m + 1 = 1 /\ \A i \in 1..1 : i = 1
        BY <3>1
      <4>3. Good(1)
        BY <4>1, <4>2 DEF Covers
      <4> HIDE DEF Good
      <4> QED
        BY <3>0, <4>2, <4>3
    <3>2. CASE m # 0
      <4> DEFINE a == g[m]  b == s[m + 1]
      <4>1. a \in Seq(T) /\ b \in Seq(T) /\ g[m + 1] = a \o b
        <5>1. m + 1 # 1 /\ DOMAIN g = 1..n
          BY <3>0, <3>2
        <5> QED
          BY <2>0, <2>1, <3>0, <3>2, <5>1 DEF Join
      <4>2. Covers(a, s, m)
        BY <3>2
      <4>3. /\ \A k \in DOMAIN a : k \in DOMAIN (a \o b) /\ (a \o b)[k] = a[k]
            /\ \A k \in DOMAIN b : Len(a) + k \in DOMAIN (a \o b) /\ (a \o b)[Len(a) + k] = b[k]
            /\ \A k \in DOMAIN (a \o b) : k \in DOMAIN a \/ (k - Len(a) \in DOMAIN b /\ (a \o b)[k] = b[k - Len(a)])
        <5> HIDE DEF a, b
        <5> QED
          BY ONLY <4>1, ConcatHas
      <4>6. \A i \in 1..(m + 1) : i \in 1..m \/ i = m + 1
        BY <3>0
      <4>7. m + 1 \in 1..(m + 1) /\ \A i \in 1..m : i \in 1..(m + 1)
        BY <3>0
      <4>8. \A i \in 1..(m + 1) : \A j \in DOMAIN s[i] : \E k \in DOMAIN (a \o b) : (a \o b)[k] = s[i][j]
        <5> SUFFICES ASSUME NEW i \in 1..(m + 1), NEW j \in DOMAIN s[i]
                     PROVE  \E k \in DOMAIN (a \o b) : (a \o b)[k] = s[i][j]
          OBVIOUS
        <5>1. CASE i \in 1..m
          <6>1. PICK k \in DOMAIN a : a[k] = s[i][j]
            <7> HIDE DEF a
            <7> QED BY <4>2, <5>1 DEF Covers
          <6> HIDE DEF a, b, Good
          <6> QED
            BY <4>3, <6>1
        <5>2. CASE i = m + 1
          <6>1. j \in DOMAIN b /\ s[i][j] = b[j]
            BY <5>2
          <6> HIDE DEF a, b, Good
          <6> QED
            BY <4>3, <6>1
        <5> QED
          BY <4>6, <5>1, <5>2
      <4>9. \A k \in DOMAIN (a \o b) : \E i \in 1..(m + 1) : \E j \in DOMAIN s[i] : (a \o b)[k] = s[i][j]
        <5> SUFFICES ASSUME NEW k \in DOMAIN (a \o b)
                     PROVE  \E i \in 1..(m + 1) : \E j \in DOMAIN s[i] : (a \o b)[k] = s[i][j]
          OBVIOUS
        <5>1. CASE k \in DOMAIN a
          <6>1. PICK i \in 1..m : \E j \in DOMAIN s[i] : a[k] = s[i][j]
            BY <4>2, <5>1 DEF Covers
          <6>2. (a \o b)[k] = a[k]
            BY <4>3, <5>1
          <6>3. i \in 1..(m + 1)
            BY <4>7
          <6> HIDE DEF a, b, Good
          <6> QED
            BY <6>1, <6>2, <6>3
        <5>2. CASE k - Len(a) \in DOMAIN b /\ (a \o b)[k] = b[k - Len(a)]
          <6>1. (a \o b)[k] = s[m + 1][k - Len(a)] /\ k - Len(a) \in DOMAIN s[m + 1]
            BY <5>2
          <6> HIDE DEF a, b, Good
          <6> QED
            BY <4>7, <6>1
        <5> QED
          BY <4>3, <5>1, <5>2
      <4>10. Covers(a \o b, s, m + 1)
        <5> HIDE DEF a, b
        <5> QED
          BY <4>8, <4>9 DEF Covers
      <4>11. Good(m + 1)
        BY ONLY <4>1, <4>10
      <4> HIDE DEF Good
      <4> QED
        BY <3>0, <4>11
    <3> QED
      BY <3>1, <3>2
  <2>4. 0..n \subseteq P
    <3> HIDE DEF P
    <3> QED
      BY <2>0, <2>2, <2>3, Induction
  <2>5. n \in 0..n
    BY <2>0
  <2>6. Good(n)
    BY <2>4, <2>5
  <2> QED
    BY <2>0, <2>1, <2>6, SMTT(30) DEF n
<1> QED
  BY <1>1, <1>2
-----------------------------------------------------------------------------
(* The chunker.                                                             *)

LEMMA TotalIs ==
    ASSUME NEW section, NEW ps
    PROVE  Total(section, ps) = IF ps = {} THEN 0 ELSE Summed(section, ps) + 2 * (Cardinality(ps) - 1)
BY DEF Total, FoldSet, MapThenFoldSet, Summed, Sums, One

(* No paragraph is longer than all of them together.                        *)
LEMMA TotalBounds ==
    ASSUME NEW section \in Seq(Nat), NEW ps \in SUBSET DOMAIN section
    PROVE  Total(section, ps) \in Nat /\ \A p \in ps : section[p] <= Total(section, ps)
<1>0. IsFiniteSet(ps) /\ \A p \in ps : section[p] \in Nat
  <2>1. DOMAIN section = 1..Len(section) /\ Len(section) \in Nat /\ 1 \in Int
    OBVIOUS
  <2>2. IsFiniteSet(1..Len(section))
    BY <2>1, FS_Interval
  <2> QED
    BY <2>1, <2>2, FS_Subset
<1> DEFINE it == CHOOSE x : Sums(x, section, ps)
           F == {X \in SUBSET ps : it[X] \in Nat /\ \A p \in X : section[p] <= it[X]}
<1>1. Sums(it, section, ps)
  BY <1>0, SumsExist
<1> HIDE DEF it
<1>2. ASSUME NEW X \in SUBSET ps, \A Y \in SUBSET X : Y # X => Y \in F PROVE X \in F
  <2>1. it[X] = IF X = {} THEN 0 ELSE it[X \ {One(X)}] + section[One(X)]
    BY <1>1 DEF Sums
  <2>2. CASE X = {}
    BY <2>1, <2>2
  <2>3. CASE X # {}
    <3> DEFINE x == One(X)  W == X \ {x}
    <3>1. x \in X /\ W \in F /\ section[x] \in Nat /\ it[W] \in Nat
      BY <1>0, <1>2, <2>3, OneIsIn
    <3>2. it[X] = it[W] + section[x]
      BY <2>1, <2>3
    <3> HIDE DEF x
    <3>3. ASSUME NEW p \in X PROVE section[p] <= it[X]
      <4>1. CASE p = x
        BY <3>1, <3>2, <4>1
      <4>2. CASE p # x
        <5>1. section[p] <= it[W] /\ section[p] \in Nat /\ it[W] \in Nat
          BY <1>0, <3>1, <4>2
        <5> QED
          BY <3>1, <3>2, <5>1
      <4> QED
        BY <4>1, <4>2
    <3> QED
      <4>1. it[X] \in Nat
        <5> HIDE DEF W, F
        <5> QED BY <3>1, <3>2
      <4> QED
        BY <3>3, <4>1
  <2> QED
    BY <2>2, <2>3
<1>3. SUBSET ps \subseteq F
  <2> HIDE DEF F
  <2> QED
    BY <1>0, <1>2, SubsetInduction
<1>4. Total(section, ps) = IF ps = {} THEN 0 ELSE it[ps] + 2 * (Cardinality(ps) - 1)
  BY TotalIs DEF Summed, it
<1>5. it[ps] \in Nat /\ \A p \in ps : section[p] <= it[ps]
  BY <1>3
<1>6. Cardinality(ps) \in Nat /\ (ps # {} => Cardinality(ps) >= 1)
  BY <1>0, FS_EmptySet, FS_CardinalityType
<1> HIDE DEF it, F
<1>7. CASE ps = {}
  BY <1>4, <1>7
<1>8. CASE ps # {}
  <2>1. \A x \in Nat, c \in Nat : c >= 1 => x + 2 * (c - 1) \in Nat /\ x <= x + 2 * (c - 1)
    OBVIOUS
  <2>2. Total(section, ps) \in Nat /\ it[ps] <= Total(section, ps)
    BY <1>4, <1>5, <1>6, <1>8, <2>1
  <2> QED
    BY <1>0, <1>5, <2>2
<1> QED
  BY <1>7, <1>8

Cuts(section) == [out : Seq(SUBSET DOMAIN section), buffer : SUBSET DOMAIN section]

LEMMA CutIs ==
    ASSUME NEW section \in Seq(Nat), NEW s \in Cuts(section), NEW p \in DOMAIN section
    PROVE  LET c == Cut(section, s, p)
               kept == IF s.buffer # {} /\ Total(section, s.buffer) >= MinChars THEN Append(s.out, s.buffer) ELSE s.out
           IN  /\ c \in Cuts(section)
               /\ \/ c.out = s.out /\ c.buffer = s.buffer \cup {p} /\ Total(section, s.buffer \cup {p}) <= MaxChars
                  \/ c.out = Append(kept, {p}) /\ c.buffer = {}
                  \/ c.out = kept /\ c.buffer = {p} /\ ~(section[p] > MaxChars)
<1> DEFINE kept == IF s.buffer # {} /\ Total(section, s.buffer) >= MinChars THEN Append(s.out, s.buffer) ELSE s.out
<1>1. s.out \in Seq(SUBSET DOMAIN section) /\ s.buffer \in SUBSET DOMAIN section /\ {p} \in SUBSET DOMAIN section
  BY DEF Cuts
<1>2. kept \in Seq(SUBSET DOMAIN section)
  <2> DEFINE A == SUBSET DOMAIN section
  <2>1. s.out \in Seq(A) /\ s.buffer \in A
    BY <1>1
  <2> HIDE DEF A
  <2>2. Append(s.out, s.buffer) \in Seq(A)
    BY <2>1
  <2>3. kept \in {s.out, Append(s.out, s.buffer)}
    OBVIOUS
  <2> HIDE DEF kept
  <2> QED
    BY <2>1, <2>2, <2>3 DEF A
<1>3. Append(kept, {p}) \in Seq(SUBSET DOMAIN section)
  <2> HIDE DEF kept
  <2> QED
    BY <1>1, <1>2
<1>5. Cut(section, s, p) = IF Total(section, s.buffer \cup {p}) <= MaxChars
                             THEN [s EXCEPT !.buffer = @ \cup {p}]
                             ELSE IF section[p] > MaxChars THEN [out |-> Append(kept, {p}), buffer |-> {}]
                                  ELSE [out |-> kept, buffer |-> {p}]
  BY DEF Cut
<1> HIDE DEF kept
<1> DEFINE on == [s EXCEPT !.buffer = @ \cup {p}]
<1>6. on \in Cuts(section) /\ on.out = s.out /\ on.buffer = s.buffer \cup {p}
  BY DEF Cuts
<1>7. ASSUME NEW o \in Seq(SUBSET DOMAIN section), NEW b \in SUBSET DOMAIN section
      PROVE  [out |-> o, buffer |-> b] \in Cuts(section)
  BY DEF Cuts
<1>8. {} \in SUBSET DOMAIN section
  OBVIOUS
<1> DEFINE c == Cut(section, s, p)
<1>9. /\ c \in Cuts(section)
      /\ \/ c.out = s.out /\ c.buffer = s.buffer \cup {p} /\ Total(section, s.buffer \cup {p}) <= MaxChars
         \/ c.out = Append(kept, {p}) /\ c.buffer = {}
         \/ c.out = kept /\ c.buffer = {p} /\ ~(section[p] > MaxChars)
  <2>1. CASE Total(section, s.buffer \cup {p}) <= MaxChars
    <3>1. c = on
      BY <1>5, <2>1
    <3> HIDE DEF c, on
    <3> QED
      BY <1>6, <2>1, <3>1
  <2>2. CASE ~(Total(section, s.buffer \cup {p}) <= MaxChars) /\ section[p] > MaxChars
    <3>1. c = [out |-> Append(kept, {p}), buffer |-> {}]
      BY <1>5, <2>2
    <3> HIDE DEF c
    <3> QED
      BY <1>3, <1>7, <1>8, <3>1
  <2>3. CASE ~(Total(section, s.buffer \cup {p}) <= MaxChars) /\ ~(section[p] > MaxChars)
    <3>1. c = [out |-> kept, buffer |-> {p}]
      BY <1>5, <2>3
    <3> HIDE DEF c
    <3> QED
      BY <1>1, <1>2, <1>7, <2>3, <3>1
  <2> QED
    BY <2>1, <2>2, <2>3
<1> HIDE DEF c
<1> QED
  BY <1>9 DEF kept, c
(* The states the chunker goes through, paragraph by paragraph.             *)
LEMMA SplitIs ==
    ASSUME NEW section \in Seq(Nat), ~(Total(section, DOMAIN section) <= MaxChars)
    PROVE  \E g \in [0..Len(section) -> Cuts(section)] :
              /\ g[0] = [out |-> <<>>, buffer |-> {}]
              /\ \A i \in 1..Len(section) : g[i] = Cut(section, g[i - 1], i)
              /\ Split(section) = IF g[Len(section)].buffer = {} THEN g[Len(section)].out
                                  ELSE Append(g[Len(section)].out, g[Len(section)].buffer)
<1> DEFINE n == Len(section)
           A == Cuts(section)
           none == [out |-> <<>>, buffer |-> {}]
           order == [p \in DOMAIN section |-> p]
           F == [x \in A \X (1..n) |-> Cut(section, x[1], x[2])]
           Def(it) == it = [S \in SUBSET (DOMAIN order) |->
                              IF S = {} THEN none ELSE Cut(section, it[S \ {Max(S)}], order[Max(S)])]
           it == CHOOSE x : Def(x)
           folded == FoldLeft(LAMBDA acc, p : Cut(section, acc, p), none, order)
<1>1. n \in Nat /\ DOMAIN order = 1..n /\ DOMAIN section = 1..n /\ \A i \in 1..n : order[i] = i
  OBVIOUS
<1>2. F \in [A \X (1..n) -> A] /\ \A x \in A, i \in 1..n : F[<<x, i>>] = Cut(section, x, i)
  <2>1. \A x \in A, i \in 1..n : Cut(section, x, i) \in A
    BY <1>1, CutIs
  <2> HIDE DEF A, n
  <2> QED
    BY <2>1
<1>3. none \in A
  BY DEF Cuts
<1> HIDE DEF F
<1>4. PICK h \in [SUBSET (1..n) -> A] : Folds(h, none, F, n)
  <2> HIDE DEF A, none, n
  <2> QED
    BY <1>1, <1>2, <1>3, FolderExists
<1> HIDE DEF A, none
<1>5. Def(h)
  <2>1. ASSUME NEW S \in SUBSET (1..n), S # {}
        PROVE  F[<<h[S \ {Max(S)}], Max(S)>>] = Cut(section, h[S \ {Max(S)}], order[Max(S)])
    <3>1. Max(S) \in 1..n
      <4>1. S \in SUBSET Int /\ n \in Int /\ \A k \in S : k <= n
        BY <1>1
      <4> HIDE DEF n
      <4> QED
        BY ONLY <2>1, <4>1, MaxOf
    <3>2. h[S \ {Max(S)}] \in A /\ order[Max(S)] = Max(S)
      BY <1>1, <2>1, <3>1
    <3> QED
      BY <1>2, <3>1, <3>2
  <2> HIDE DEF n, order
  <2> QED
    BY <1>1, <1>4, <2>1 DEF Folds
<1>6. Def(it)
  <2> HIDE DEF Def
  <2> QED BY <1>5
<1>7. folded = it[DOMAIN order]
  BY DEF FoldLeft, MapThenFoldSet
<1>8. Split(section) = IF folded.buffer = {} THEN folded.out ELSE Append(folded.out, folded.buffer)
  BY DEF Split, none
<1> HIDE DEF it, folded, order
<1> DEFINE g == [i \in 0..n |-> it[1..i]]
<1>9. g[0] = none /\ folded = g[n]
  BY <1>1, <1>6, <1>7
<1>10. ASSUME NEW i \in 1..n PROVE g[i] = Cut(section, g[i - 1], i)
  <2>1. Max(1..i) = i /\ (1..i) \ {i} = 1..(i - 1)
    BY MaxIs
  <2>2. 1..i \in SUBSET (DOMAIN order) /\ 1 \in 1..i
    BY <1>1
  <2>3. it[1..i] = Cut(section, it[1..(i - 1)], i)
    <3>1. it[1..i] = Cut(section, it[(1..i) \ {Max(1..i)}], order[Max(1..i)])
      BY <1>6, <2>2
    <3>2. order[i] = i
      BY <1>1
    <3> HIDE DEF Def
    <3> QED BY ONLY <2>1, <3>1, <3>2
  <2>4. i \in 0..n /\ i - 1 \in 0..n
    OBVIOUS
  <2> QED
    BY <2>3, <2>4
<1> HIDE DEF g, n
<1>11. g \in [0..n -> A]
  <2> DEFINE P == {i \in 0..n : g[i] \in A}
  <2>1. 0 \in P
    BY <1>1, <1>3, <1>9
  <2>2. ASSUME NEW i \in P, i < n PROVE i + 1 \in P
    <3>1. i + 1 \in 1..n /\ (i + 1) - 1 = i /\ i + 1 \in 0..n
      BY <2>2, <1>1
    <3>2. Cut(section, g[i], i + 1) \in A
      BY <1>1, <3>1, CutIs DEF A
    <3> QED
      BY <1>10, <3>1, <3>2
  <2>3. 0..n \subseteq P
    <3> HIDE DEF P
    <3> QED
      BY <1>1, <2>1, <2>2, Induction
  <2>4. g = [i \in 0..n |-> g[i]]
    BY DEF g
  <2> QED
    BY <2>3, <2>4
<1> QED
  BY <1>8, <1>9, <1>10, <1>11 DEF n, A, none

(* What is given up is short, and only a lone paragraph is too long, up to  *)
(* paragraph i.                                                             *)
Spared(section, s, i) ==
    /\ \A p \in 1..i : p \notin s.buffer \cup UNION {s.out[j] : j \in DOMAIN s.out} => section[p] < MinChars
    /\ \A j \in DOMAIN s.out : Cardinality(s.out[j]) > 1 => Total(section, s.out[j]) <= MaxChars
    /\ s.buffer # {} => Total(section, s.buffer) <= MaxChars \/ Cardinality(s.buffer) <= 1
    /\ i > 0 => s.out # <<>> \/ s.buffer # {}

LEMMA CutSpares ==
    ASSUME NEW section \in Seq(Nat), NEW s \in Cuts(section), NEW i \in Nat, i + 1 \in DOMAIN section,
           Spared(section, s, i)
    PROVE  Spared(section, Cut(section, s, i + 1), i + 1)
<1> DEFINE c == Cut(section, s, i + 1)
           kept == IF s.buffer # {} /\ Total(section, s.buffer) >= MinChars THEN Append(s.out, s.buffer) ELSE s.out
           Within(o) == UNION {o[j] : j \in DOMAIN o}
           Fits(o) == \A j \in DOMAIN o : Cardinality(o[j]) > 1 => Total(section, o[j]) <= MaxChars
<1>0. MinChars \in Nat /\ MaxChars \in Nat
  BY CorpusAssumption
<1>1. s.out \in Seq(SUBSET DOMAIN section) /\ s.buffer \in SUBSET DOMAIN section
  BY DEF Cuts
<1>2. ASSUME NEW o \in Seq(SUBSET DOMAIN section), NEW b \in SUBSET DOMAIN section
      PROVE  /\ Within(Append(o, b)) = Within(o) \cup b /\ Append(o, b) # <<>>
             /\ Fits(o) /\ (Cardinality(b) > 1 => Total(section, b) <= MaxChars) => Fits(Append(o, b))
  <2> DEFINE A == SUBSET DOMAIN section
             a == Append(o, b)
  <2>1. /\ DOMAIN a = 1..(Len(o) + 1) /\ Len(o) \in Nat /\ DOMAIN o = 1..Len(o) /\ a # <<>>
        /\ a[Len(o) + 1] = b /\ \A j \in DOMAIN o : a[j] = o[j]
    <3>1. o \in Seq(A) /\ b \in A
      OBVIOUS
    <3> HIDE DEF A
    <3> QED
      BY ONLY <3>1
  <2>2. \A j \in DOMAIN a : j \in DOMAIN o \/ j = Len(o) + 1
    BY <2>1
  <2>3. Len(o) + 1 \in DOMAIN a /\ DOMAIN o \subseteq DOMAIN a
    BY <2>1
  <2> HIDE DEF a
  <2>4. Within(a) = Within(o) \cup b
    BY <2>1, <2>2, <2>3
  <2>5. Fits(o) /\ (Cardinality(b) > 1 => Total(section, b) <= MaxChars) => Fits(a)
    BY <2>1, <2>2
  <2> QED
    BY <2>1, <2>4, <2>5 DEF a
<1>3. Fits(s.out) /\ (s.buffer # {} => Total(section, s.buffer) <= MaxChars \/ Cardinality(s.buffer) <= 1)
  BY DEF Spared
<1>4. Cardinality(s.buffer) \in Nat
  <2>1. IsFiniteSet(DOMAIN section)
    <3>1. DOMAIN section = 1..Len(section) /\ Len(section) \in Int /\ 1 \in Int
      OBVIOUS
    <3> QED
      BY <3>1, FS_Interval
  <2> QED
    BY <1>1, <2>1, FS_Subset, FS_CardinalityType
<1>5. /\ kept \in Seq(SUBSET DOMAIN section) /\ Fits(kept) /\ Within(s.out) \subseteq Within(kept)
      /\ \A p \in s.buffer : p \in Within(kept) \/ section[p] < MinChars
  <2>1. CASE s.buffer # {} /\ Total(section, s.buffer) >= MinChars
    <3>1. kept = Append(s.out, s.buffer)
      BY <2>1
    <3>2. Append(s.out, s.buffer) \in Seq(SUBSET DOMAIN section)
      <4> DEFINE A == SUBSET DOMAIN section
      <4>1. s.out \in Seq(A) /\ s.buffer \in A
        BY <1>1
      <4> HIDE DEF A
      <4>2. Append(s.out, s.buffer) \in Seq(A)
        BY <4>1
      <4> QED
        BY <4>2 DEF A
    <3>3. Cardinality(s.buffer) > 1 => Total(section, s.buffer) <= MaxChars
      BY <1>3, <1>4, <2>1
    <3> HIDE DEF kept, Within, Fits
    <3> QED
      BY <1>1, <1>2, <1>3, <3>1, <3>2, <3>3, SMTT(30)
  <2>2. CASE ~(s.buffer # {} /\ Total(section, s.buffer) >= MinChars)
    <3>1. kept = s.out
      BY <2>2
    <3>2. ASSUME NEW p \in s.buffer PROVE section[p] < MinChars
      <4>1. Total(section, s.buffer) \in Nat /\ section[p] <= Total(section, s.buffer)
        BY <1>1, TotalBounds
      <4>2. Total(section, s.buffer) < MinChars
        BY <1>0, <2>2, <4>1
      <4>3. section[p] \in Nat
        BY <1>1
      <4> QED
        BY <1>0, <4>1, <4>2, <4>3
    <3> HIDE DEF kept, Within, Fits
    <3> QED
      BY <1>1, <1>3, <3>1, <3>2
  <2> QED
    BY <2>1, <2>2
<1>6. \A p \in 1..i : p \notin s.buffer \cup Within(s.out) => section[p] < MinChars
  BY DEF Spared
<1>7. \A p \in 1..(i + 1) : p \in 1..i \/ p = i + 1
  OBVIOUS
<1>8. \/ c.out = s.out /\ c.buffer = s.buffer \cup {i + 1} /\ Total(section, s.buffer \cup {i + 1}) <= MaxChars
      \/ c.out = Append(kept, {i + 1}) /\ c.buffer = {}
      \/ c.out = kept /\ c.buffer = {i + 1} /\ ~(section[i + 1] > MaxChars)
  BY CutIs
<1>9. {i + 1} \in SUBSET DOMAIN section /\ Cardinality({i + 1}) = 1
  BY FS_Singleton
<1> HIDE DEF c, kept, Within, Fits
<1>10. \A p \in 1..(i + 1) : p \notin c.buffer \cup Within(c.out) => section[p] < MinChars
  <2>1. CASE c.out = s.out /\ c.buffer = s.buffer \cup {i + 1}
    BY <1>6, <1>7, <2>1
  <2>2. CASE c.out = Append(kept, {i + 1}) /\ c.buffer = {}
    <3>1. Within(c.out) = Within(kept) \cup {i + 1}
      BY <1>2, <1>5, <1>9, <2>2
    <3> QED
      BY <1>5, <1>6, <1>7, <3>1
  <2>3. CASE c.out = kept /\ c.buffer = {i + 1}
    BY <1>5, <1>6, <1>7, <2>3
  <2> QED
    BY <1>8, <2>1, <2>2, <2>3
<1>11. Fits(c.out)
  <2>1. Cardinality({i + 1}) > 1 => Total(section, {i + 1}) <= MaxChars
    BY <1>9
  <2>2. Fits(Append(kept, {i + 1}))
    BY <1>2, <1>5, <1>9, <2>1
  <2> QED
    BY <1>3, <1>5, <1>8, <2>2
<1>12. c.buffer # {} => Total(section, c.buffer) <= MaxChars \/ Cardinality(c.buffer) <= 1
  <2>1. Cardinality({i + 1}) <= 1
    BY <1>9
  <2> QED
    BY <1>8, <2>1
<1>13. c.out # <<>> \/ c.buffer # {}
  BY <1>2, <1>5, <1>8, <1>9
<1> QED
  BY <1>10, <1>11, <1>12, <1>13 DEF Spared, Within, Fits, c
(* What the chunker leaves out of a section is short, and only a paragraph  *)
(* of its own is longer than the limit; and there is always a piece.        *)
LEMMA SplitSpares ==
    ASSUME NEW section \in Seq(Nat)
    PROVE  LET cut == Split(section)
           IN  /\ cut \in Seq(SUBSET DOMAIN section) /\ cut # <<>>
               /\ \A p \in DOMAIN section \ UNION {cut[j] : j \in DOMAIN cut} : section[p] < MinChars
               /\ \A j \in DOMAIN cut : Cardinality(cut[j]) > 1 => Total(section, cut[j]) <= MaxChars
<1> DEFINE cut == Split(section)
           n == Len(section)
<1>0. n \in Nat /\ DOMAIN section = 1..n
  OBVIOUS
<1>1. CASE Total(section, DOMAIN section) <= MaxChars
  <2>1. cut = <<DOMAIN section>>
    BY <1>1 DEF Split
  <2> HIDE DEF cut
  <2>2. cut \in Seq(SUBSET DOMAIN section) /\ cut # <<>> /\ DOMAIN cut = {1} /\ cut[1] = DOMAIN section
    BY <2>1
  <2> QED
    BY <1>1, <2>2 DEF cut
<1>2. CASE ~(Total(section, DOMAIN section) <= MaxChars)
  <2>1. PICK g \in [0..n -> Cuts(section)] :
              /\ g[0] = [out |-> <<>>, buffer |-> {}]
              /\ \A i \in 1..n : g[i] = Cut(section, g[i - 1], i)
              /\ cut = IF g[n].buffer = {} THEN g[n].out ELSE Append(g[n].out, g[n].buffer)
    BY <1>2, SplitIs
  <2> HIDE DEF cut, n
  <2> DEFINE P == {i \in 0..n : Spared(section, g[i], i)}
  <2>2. 0 \in P
    <3>1. g[0].out = <<>> /\ g[0].buffer = {} /\ 1..0 = {} /\ DOMAIN <<>> = {} /\ ~(0 > 0)
      BY <2>1
    <3> QED
      BY <1>0, <3>1 DEF Spared
  <2>3. ASSUME NEW i \in P, i < n PROVE i + 1 \in P
    <3>1. i \in Nat /\ i + 1 \in 1..n /\ (i + 1) - 1 = i /\ i + 1 \in 0..n /\ g[i] \in Cuts(section) /\ i + 1 \in DOMAIN section
      BY <1>0, <2>3
    <3>2. Spared(section, g[i], i)
      OBVIOUS
    <3>3. Spared(section, Cut(section, g[i], i + 1), i + 1)
      BY <3>1, <3>2, CutSpares
    <3>4. g[i + 1] = Cut(section, g[i], i + 1)
      BY <2>1, <3>1
    <3> QED
      BY <3>1, <3>3, <3>4
  <2>4. 0..n \subseteq P
    <3> HIDE DEF P
    <3> QED
      BY <1>0, <2>2, <2>3, Induction
  <2> DEFINE s == g[n]
  <2>5. s \in Cuts(section) /\ Spared(section, s, n)
    <3>1. n \in 0..n
      BY <1>0
    <3> QED
      BY <2>4, <3>1
  <2>6. n # 0
    <3>1. n = 0 => DOMAIN section = {}
      BY <1>0
    <3>2. Total(section, {}) = 0
      <4>1. IsFiniteSet({}) /\ {} \in SUBSET {}
        BY FS_EmptySet
      <4>2. \E it : Sums(it, section, {})
        BY <4>1, SumsExist
      <4>3. Sums(CHOOSE it : Sums(it, section, {}), section, {})
        BY <4>2
      <4>4. Summed(section, {}) = 0
        BY <4>1, <4>3 DEF Summed, Sums
      <4> QED
        BY <4>4, TotalIs
    <3> QED
      BY <1>2, <3>1, <3>2, CorpusAssumption
  <2> HIDE DEF s
  <2>7. cut = IF s.buffer = {} THEN s.out ELSE Append(s.out, s.buffer)
    BY <2>1 DEF s
  <2>8. s.out \in Seq(SUBSET DOMAIN section) /\ s.buffer \in SUBSET DOMAIN section
    BY <2>5 DEF Cuts
  <2>9. CASE s.buffer = {}
    <3>1. cut = s.out /\ n > 0
      BY <1>0, <2>6, <2>7, <2>9
    <3> QED
      BY <1>0, <2>5, <2>8, <2>9, <3>1 DEF Spared, cut
  <2>10. CASE s.buffer # {}
    <3>1. cut = Append(s.out, s.buffer)
      BY <2>7, <2>10
    <3>2. /\ cut \in Seq(SUBSET DOMAIN section) /\ cut # <<>> /\ Len(s.out) \in Nat
          /\ DOMAIN cut = 1..(Len(s.out) + 1) /\ DOMAIN s.out = 1..Len(s.out)
          /\ cut[Len(s.out) + 1] = s.buffer /\ \A j \in DOMAIN s.out : cut[j] = s.out[j]
      <4> DEFINE A == SUBSET DOMAIN section
      <4>1. s.out \in Seq(A) /\ s.buffer \in A
        BY <2>8
      <4> HIDE DEF A
      <4>2. cut \in Seq(A)
        BY ONLY <3>1, <4>1
      <4> QED
        BY <3>1, <4>1, <4>2 DEF A
    <3>3. \A j \in DOMAIN cut : j \in DOMAIN s.out \/ j = Len(s.out) + 1
      BY <3>2
    <3>4. Len(s.out) + 1 \in DOMAIN cut /\ DOMAIN s.out \subseteq DOMAIN cut
      BY <3>2
    <3>5. UNION {cut[j] : j \in DOMAIN cut} = s.buffer \cup UNION {s.out[j] : j \in DOMAIN s.out}
      BY <3>2, <3>3, <3>4
    <3>6. \A p \in DOMAIN section \ UNION {cut[j] : j \in DOMAIN cut} : section[p] < MinChars
      BY <1>0, <2>5, <3>5 DEF Spared
    <3>7. Cardinality(s.buffer) > 1 => Total(section, s.buffer) <= MaxChars
      <4>1. Cardinality(s.buffer) \in Nat
        <5>1. IsFiniteSet(DOMAIN section)
          BY <1>0, FS_Interval
        <5> QED
          BY <2>8, <5>1, FS_Subset, FS_CardinalityType
      <4> QED
        BY <2>5, <2>10, <4>1 DEF Spared
    <3>8. \A j \in DOMAIN cut : Cardinality(cut[j]) > 1 => Total(section, cut[j]) <= MaxChars
      BY <2>5, <3>2, <3>3, <3>7 DEF Spared
    <3> QED
      BY <3>2, <3>6, <3>8 DEF cut
  <2> QED
    BY <2>9, <2>10
<1> QED
  BY <1>1, <1>2

(* Every section, of whatever paragraphs: the tried ones among them.        *)
THEOREM OnlyShortIsLeftOutHolds == OnlyShortIsLeftOut
<1> SUFFICES ASSUME NEW section \in Samples
             PROVE  LET cut == Split(section)
                        kept == UNION {cut[j] : j \in DOMAIN cut}
                    IN  /\ \A p \in DOMAIN section \ kept : section[p] < MinChars
                        /\ \A j \in DOMAIN cut : Cardinality(cut[j]) > 1 => Total(section, cut[j]) <= MaxChars
  BY DEF OnlyShortIsLeftOut
<1>1. section \in Seq(Nat)
  BY CorpusAssumption
<1> QED
  BY <1>1, SplitSpares

(* A statute file makes at least one chunk.                                 *)
LEMMA ChunksAre ==
    ASSUME NEW file \in Layouts
    PROVE  Chunks[file] \in Nat \ {0}
<1> DEFINE T == [section : DOMAIN file, paragraphs : SUBSET Nat]
           pieces(i) == [j \in DOMAIN Split(file[i]) |-> [section |-> i, paragraphs |-> Split(file[i])[j]]]
           all == [i \in DOMAIN file |-> pieces(i)]
<1>1. file \in Seq(Seq(Nat)) /\ DOMAIN file = 1..Len(file) /\ Len(file) \in Nat /\ 1 \in DOMAIN file
  BY CorpusAssumption
<1>2. ASSUME NEW i \in DOMAIN file PROVE pieces(i) \in Seq(T) /\ DOMAIN pieces(i) # {}
  <2> DEFINE cut == Split(file[i])
  <2>1. cut \in Seq(SUBSET DOMAIN file[i]) /\ cut # <<>>
    BY <1>1, SplitSpares
  <2>2. DOMAIN cut = 1..Len(cut) /\ Len(cut) \in Nat \ {0} /\ \A j \in DOMAIN cut : cut[j] \in SUBSET Nat
    <3> HIDE DEF cut
    <3> QED
      BY <1>1, <2>1
  <2>3. \A j \in DOMAIN cut : [section |-> i, paragraphs |-> cut[j]] \in T
    BY <2>2
  <2>4. DOMAIN pieces(i) = DOMAIN cut /\ pieces(i) \in [DOMAIN cut -> T]
    BY <2>3
  <2> HIDE DEF cut, pieces, T
  <2>5. pieces(i) \in Seq(T)
    BY <2>2, <2>4
  <2>6. 1 \in DOMAIN cut
    BY <2>2
  <2> QED
    BY <2>4, <2>5, <2>6
<1>3. Chunks[file] = Len(FlattenSeq(all))
  BY DEF Chunks, Pieces
<1> HIDE DEF T, pieces
<1>4. all \in Seq(Seq(T)) /\ DOMAIN all = DOMAIN file /\ \A i \in DOMAIN file : all[i] = pieces(i)
  <2>1. all \in [DOMAIN file -> Seq(T)] /\ DOMAIN all = DOMAIN file /\ \A i \in DOMAIN file : all[i] = pieces(i)
    BY <1>2
  <2> DEFINE l == Len(file)
  <2>2. l \in Nat /\ all \in [1..l -> Seq(T)]
    BY <1>1, <2>1
  <2> HIDE DEF all, l
  <2>3. all \in Seq(Seq(T))
    BY ONLY <2>2
  <2> QED
    BY <2>1, <2>3
<1> HIDE DEF all
<1>5. FlattenSeq(all) \in Seq(T) /\ Covers(FlattenSeq(all), all, Len(all))
  BY <1>4, FlattenHas
<1>6. PICK j \in DOMAIN all[1] : TRUE
  BY <1>1, <1>2, <1>4
<1>7. 1 \in 1..Len(all)
  BY <1>1, <1>4
<1>8. \E k \in DOMAIN FlattenSeq(all) : FlattenSeq(all)[k] = all[1][j]
  BY <1>5, <1>6, <1>7 DEF Covers
<1>9. Len(FlattenSeq(all)) # 0
  BY <1>5, <1>8
<1> QED
  BY <1>3, <1>5, <1>9
-----------------------------------------------------------------------------
(* The corpus, and the script and the batches that share it.                *)

ChunksOf(s) == {Key(s, i) : i \in 1..Chunks[files[s]]}
InactiveOf(s) == {[key |-> k, run |-> NoRun] : k \in {k \in Inactive : k[1] = s}}
Waiting(r) == ToSet(left[r])

(* What a run has still to insert are chunks of the files it was given.     *)
Pending ==
    /\ left \in [Runs -> Seq(Sources \X Nat)]
    /\ \A r \in Runs :
        /\ at[r] \in {"idle", "done", "dead"} => left[r] = <<>>
        /\ at[r] \in {"idle", "dead"} => given[r] = {}
        /\ \A k \in Waiting(r) : \E s \in given[r] : k \in ChunksOf(s)
        /\ at[r] = "idle" => \A s \in Sources : wiped[s] # r
(* The run that wiped a statute it was given has its chunks stored or still *)
(* to store, whatever other runs did since: they would have wiped it.       *)
Ingesting ==
    \A s \in Sources, r \in Runs : wiped[s] = r /\ s \in given[r] =>
        \A k \in ChunksOf(s) : [key |-> k, run |-> r] \in rows \/ k \in Waiting(r)
(* Without an overlap only one run is at work, on statutes it wiped itself; *)
(* and what it wiped and was not given stays without rows.                  *)
Apart ==
    ~together =>
        /\ \A q, r \in AtWork : q = r
        /\ \A r \in AtWork : \A s \in given[r] : wiped[s] = r
        /\ \A s \in Sources :
              IF wiped[s] = NoRun THEN RowsOf(s) = InactiveOf(s)
              ELSE RowsOf(s) \subseteq {[key |-> k, run |-> wiped[s]] : k \in ChunksOf(s)}
        /\ \A s \in Sources, r \in Runs :
              wiped[s] = r /\ s \notin given[r] /\ at[r] \in {"embed", "insert", "done"} => RowsOf(s) = {}
Unshared == {row \in rows : ~Shared(row)}
Kept == IsFiniteSet(rows) /\ Unshared = {[key |-> k, run |-> NoRun] : k \in Foreign}

(* A set of rows of which no two are of the same chunk.                     *)
NoneTwice(set) ==
    /\ IsFiniteSet(set) /\ \A row \in set : Shared(row) /\ Active(row)
    /\ \A row, other \in set : row.key = other.key => row = other
Findings ==
    /\ found \in [Batches -> SUBSET Row] /\ prompt \in [Batches -> SUBSET Row]
    /\ \A b \in Batches : /\ NoneTwice(found[b]) /\ NoneTwice(prompt[b])
                          /\ prompt[b] # {} => pc[b] = "ask"
CorpusIInv ==
    /\ CorpusTypeOK /\ Pending /\ Ingesting /\ Apart /\ Kept /\ Findings
    /\ IsFiniteSet(holds) /\ ConnectionsReturned

LEMMA KeysAre ==
    ASSUME NEW s \in Sources, files \in [Sources -> Layouts]
    PROVE  /\ KeysOf(s) \in Seq(Sources \X Nat) /\ ToSet(KeysOf(s)) = ChunksOf(s)
           /\ Key(s, 1) \in ChunksOf(s)
           /\ \A k \in ChunksOf(s) : k \in Sources \X Nat /\ k[1] = s /\ k \notin Foreign
<1> DEFINE n == Chunks[files[s]]
<1>1. n \in Nat \ {0} /\ files[s] \in Layouts
  BY ChunksAre
<1>2. \A i \in 1..n : Key(s, i) \in Sources \X Nat /\ Key(s, i)[1] = s /\ Key(s, i)[2] = i
  BY <1>1 DEF Key
<1>3. KeysOf(s) = [i \in 1..n |-> Key(s, i)]
  BY DEF KeysOf
<1>4. ChunksOf(s) = {Key(s, i) : i \in 1..n}
  BY DEF ChunksOf
<1>5. \A k \in Foreign : k[2] \notin 1..n
  BY <1>1, ForeignAssumption
<1> HIDE DEF n
<1>6. KeysOf(s) \in Seq(Sources \X Nat)
  BY <1>1, <1>2, <1>3
<1>7. ToSet(KeysOf(s)) = ChunksOf(s)
  BY <1>3, <1>4 DEF ToSet
<1>8. Key(s, 1) \in ChunksOf(s)
  BY <1>1, <1>4
<1>9. \A k \in ChunksOf(s) : k \in Sources \X Nat /\ k[1] = s /\ k \notin Foreign
  BY <1>2, <1>4, <1>5
<1> QED
  BY <1>6, <1>7, <1>8, <1>9

(* A finite set as a sequence.                                              *)
LEMMA SeqOfSet ==
    ASSUME NEW S, IsFiniteSet(S)
    PROVE  /\ SetToSeq(S) \in Seq(S)
           /\ \A x \in S : \E i \in DOMAIN SetToSeq(S) : SetToSeq(S)[i] = x
<1> DEFINE c == Cardinality(S)
           q == SetToSeq(S)
<1>1. c \in Nat /\ ExistsBijection(1..c, S)
  BY FS_CardinalityType
<1>2. PICK f \in Bijection(1..c, S) : TRUE
  BY <1>1 DEF ExistsBijection
<1>3. f \in [1..c -> S] /\ IsInjective(f)
  BY <1>2 DEF Bijection, Injection, IsInjective
<1>4. q \in [1..c -> S] /\ IsInjective(q)
  BY <1>3 DEF SetToSeq
<1>5. q \in Injection(1..c, S)
  BY <1>4 DEF Injection, IsInjective
<1>6. Cardinality(1..c) = c
  BY <1>1, FS_Interval
<1> HIDE DEF q
<1>7. q \in Surjection(1..c, S)
  BY <1>5, <1>6, FS_Injection
<1>8. \A x \in S : \E i \in 1..c : q[i] = x
  BY <1>7 DEF Surjection
<1> HIDE DEF c
<1>9. q \in Seq(S) /\ DOMAIN q = 1..c
  BY ONLY <1>1, <1>4
<1> QED
  BY <1>8, <1>9 DEF q

(* What a run of the script sets out to insert.                             *)
LEMMA LeftIs ==
    ASSUME NEW of \in SUBSET Sources, files \in [Sources -> Layouts]
    PROVE  LET keys == FlattenSeq(SetToSeq({KeysOf(s) : s \in of}))
           IN  keys \in Seq(Sources \X Nat) /\ ToSet(keys) = UNION {ChunksOf(s) : s \in of}
<1> DEFINE S == {KeysOf(s) : s \in of}
           q == SetToSeq(S)
           keys == FlattenSeq(q)
           T == Sources \X Nat
<1>1. IsFiniteSet(S)
  <2> DEFINE f == [s \in of |-> KeysOf(s)]
  <2>1. f \in Surjection(of, S)
    BY DEF Surjection
  <2>2. IsFiniteSet(of)
    BY CorpusAssumption, FS_Subset
  <2> HIDE DEF f, S
  <2> QED
    BY <2>1, <2>2, FS_Surjection
<1>2. S \subseteq Seq(T)
  BY KeysAre
<1> HIDE DEF S, T
<1>3. q \in Seq(S) /\ \A x \in S : \E i \in DOMAIN q : q[i] = x
  BY <1>1, SeqOfSet
<1> HIDE DEF q
<1>4. q \in Seq(Seq(T)) /\ DOMAIN q = 1..Len(q) /\ \A i \in DOMAIN q : q[i] \in S
  BY <1>2, <1>3
<1>5. keys \in Seq(T) /\ Covers(keys, q, Len(q))
  BY <1>4, FlattenHas
<1> HIDE DEF keys
<1>6. ToSet(keys) \subseteq UNION {ChunksOf(s) : s \in of}
  <2> SUFFICES ASSUME NEW k \in DOMAIN keys PROVE \E s \in of : keys[k] \in ChunksOf(s)
    BY DEF ToSet
  <2>1. PICK i \in 1..Len(q) : \E j \in DOMAIN q[i] : keys[k] = q[i][j]
    BY <1>5 DEF Covers
  <2>2. PICK s \in of : q[i] = KeysOf(s)
    BY <1>4, <2>1 DEF S
  <2>3. keys[k] \in ToSet(KeysOf(s))
    BY <2>1, <2>2 DEF ToSet
  <2> QED
    BY <2>3, KeysAre, SMTT(30)
<1>7. UNION {ChunksOf(s) : s \in of} \subseteq ToSet(keys)
  <2> SUFFICES ASSUME NEW s \in of, NEW k \in ChunksOf(s) PROVE k \in ToSet(keys)
    OBVIOUS
  <2>1. PICK j \in DOMAIN KeysOf(s) : KeysOf(s)[j] = k
    <3>1. k \in ToSet(KeysOf(s))
      BY KeysAre
    <3> QED
      BY <3>1 DEF ToSet
  <2>2. PICK i \in 1..Len(q) : q[i] = KeysOf(s)
    BY <1>3, <1>4 DEF S
  <2>3. j \in DOMAIN q[i] /\ q[i][j] = k
    BY <2>1, <2>2
  <2>4. \E m \in DOMAIN keys : keys[m] = q[i][j]
    BY <1>5, <2>3 DEF Covers
  <2> QED
    BY <2>3, <2>4 DEF ToSet
<1> QED
  BY <1>5, <1>6, <1>7 DEF keys, q, S, T

LEMMA FreshIs ==
    /\ Calls!Fresh("openai") \in Calls!Call
    /\ \A c0 \in Calls!Call : \A c \in Calls!Tried(c0) : c \in Calls!Call /\ Going(c) \in Calls!Call
<1>0. Attempts \in Nat \ {0}
  BY CorpusAssumption
<1>1. \A kind \in Calls!Kinds : Calls!Fresh(kind) \in Calls!Call
  BY <1>0 DEF Calls!Fresh, Calls!Call
<1>2. ASSUME NEW c0 \in Calls!Call, NEW o PROVE Calls!After(c0, o) \in Calls!Call
  <2>1. CASE c0.tries < Attempts
    BY <1>0, <2>1 DEF Calls!After, Calls!Call
  <2>2. CASE ~(c0.tries < Attempts)
    BY <1>0, <2>2 DEF Calls!After, Calls!Call
  <2> QED
    BY <2>1, <2>2
<1>3. \A c \in Calls!Call : Going(c) \in Calls!Call
  BY <1>1 DEF Going, Calls!Call
<1>4. "openai" \in Calls!Kinds
  BY DEF Calls!Kinds
<1> QED
  BY <1>1, <1>2, <1>3, <1>4 DEF Calls!Tried
LEMMA NothingTwice == NoneTwice({})
BY FS_EmptySet DEF NoneTwice

LEMMA CorpusInitIs == ASSUME CorpusInit PROVE CorpusIInv
<1>1. CorpusTypeOK
  <2>1. rows \subseteq Row
    BY ForeignAssumption DEF CorpusInit, Row
  <2>2. 1 \in 1..Clauses
    BY CorpusAssumption
  <2> QED
    BY <2>1, <2>2, FreshIs DEF CorpusInit, CorpusTypeOK
<1>2. Kept
  <2>1. IsFiniteSet(rows)
    <3> DEFINE K == Foreign \cup Inactive
               f == [k \in K |-> [key |-> k, run |-> NoRun]]
    <3>1. f \in Surjection(K, rows)
      BY DEF Surjection, CorpusInit
    <3>2. IsFiniteSet(K)
      BY ForeignAssumption, FS_Union
    <3> HIDE DEF f, K
    <3> QED
      BY <3>1, <3>2, FS_Surjection
  <2>2. Unshared = {[key |-> k, run |-> NoRun] : k \in Foreign}
    BY ForeignAssumption DEF Unshared, Shared, CorpusInit
  <2> QED
    BY <2>1, <2>2 DEF Kept
<1>3. Pending /\ Ingesting
  <2>1. \A r \in Runs : left[r] = <<>> /\ given[r] = {} /\ ToSet(left[r]) = {}
    BY DEF CorpusInit, ToSet
  <2>2. <<>> \in Seq(Sources \X Nat)
    OBVIOUS
  <2>3. \A s \in Sources, r \in Runs : wiped[s] # r
    BY CorpusAssumption DEF CorpusInit
  <2>4. left \in [Runs -> Seq(Sources \X Nat)]
    BY <2>2 DEF CorpusInit
  <2> QED
    BY <2>1, <2>3, <2>4 DEF Pending, Ingesting, Waiting
<1>4. Apart
  <2>1. AtWork = {} /\ \A s \in Sources : wiped[s] = NoRun
    BY DEF AtWork, CorpusInit
  <2>2. \A s \in Sources : RowsOf(s) = InactiveOf(s)
    BY ForeignAssumption DEF RowsOf, Shared, CorpusInit, InactiveOf
  <2>3. \A r \in Runs : r # NoRun
    BY CorpusAssumption
  <2> QED
    BY <2>1, <2>2, <2>3 DEF Apart
<1>5. Findings /\ IsFiniteSet(holds) /\ ConnectionsReturned
  <2>1. Connections \in Nat
    BY CorpusAssumption
  <2> QED
    BY <2>1, NothingTwice, FS_EmptySet DEF CorpusInit, Findings, ConnectionsReturned
<1> QED
  BY <1>1, <1>2, <1>3, <1>4, <1>5 DEF CorpusIInv

-----------------------------------------------------------------------------
(* Steps of the script.                                                     *)

LEMMA DeadIs ==
    ASSUME CorpusTypeOK, Pending, NEW r \in Runs, Dead(r)
    PROVE  /\ at' = [at EXCEPT ![r] = "dead"] /\ left' = [left EXCEPT ![r] = <<>>]
           /\ given' = [given EXCEPT ![r] = {}]
           /\ embedding' \in [Runs -> Calls!Call]
BY FreshIs DEF Dead, CorpusTypeOK

(* The script embeds, or dies: it keeps what it has still to insert, or     *)
(* loses all of it.                                                         *)
LEMMA EmbedIs ==
    ASSUME CorpusTypeOK, Pending, NEW r \in Runs, Embed(r) \/ Die(r)
    PROVE  /\ at[r] \in {"embed", "insert"} /\ embedding' \in [Runs -> Calls!Call]
           /\ \/ \E step \in {"embed", "insert"} : at' = [at EXCEPT ![r] = step] /\ UNCHANGED <<left, given>>
              \/ /\ at' = [at EXCEPT ![r] = "dead"] /\ left' = [left EXCEPT ![r] = <<>>]
                 /\ given' = [given EXCEPT ![r] = {}]
           /\ UNCHANGED <<files, rows, wiped, together, batchVars>>
<1>1. CASE Die(r)
  BY <1>1, DeadIs DEF Die
<1>2. CASE Embed(r)
  <2>1. PICK c \in Calls!Tried(embedding[r]) : \E short \in {FALSE, c.end = "reply"} :
             IF c.end = "raised" \/ short THEN Dead(r)
             ELSE /\ embedding' = [embedding EXCEPT ![r] = Going(c)]
                  /\ at' = [at EXCEPT ![r] = IF c.end = "reply" THEN "insert" ELSE @]
                  /\ UNCHANGED <<left, given>>
    BY <1>2 DEF Embed
  <2>2. at[r] = "embed" /\ UNCHANGED <<files, rows, wiped, together, batchVars>>
    BY <1>2 DEF Embed
  <2>3. CASE Dead(r)
    BY <2>2, <2>3, DeadIs
  <2>4. CASE /\ embedding' = [embedding EXCEPT ![r] = Going(c)]
             /\ at' = [at EXCEPT ![r] = IF c.end = "reply" THEN "insert" ELSE @]
             /\ UNCHANGED <<left, given>>
    <3>1. Going(c) \in Calls!Call
      BY FreshIs DEF CorpusTypeOK
    <3>2. embedding' \in [Runs -> Calls!Call]
      BY <2>4, <3>1 DEF CorpusTypeOK
    <3>3. \E step \in {"embed", "insert"} : at' = [at EXCEPT ![r] = step]
      BY <2>2, <2>4
    <3> QED
      BY <2>2, <2>4, <3>2, <3>3
  <2> QED
    BY <2>1, <2>3, <2>4
<1> QED
  BY <1>1, <1>2

LEMMA EmbedKeeps ==
    ASSUME CorpusIInv, NEW r \in Runs, Embed(r) \/ Die(r)
    PROVE  CorpusTypeOK' /\ Pending' /\ Ingesting' /\ Apart' /\ Kept'
<1>0. CorpusTypeOK /\ Pending /\ Ingesting /\ Apart /\ Kept
  BY DEF CorpusIInv
<1>1. /\ at[r] \in {"embed", "insert"} /\ embedding' \in [Runs -> Calls!Call]
      /\ \/ \E step \in {"embed", "insert"} : at' = [at EXCEPT ![r] = step] /\ UNCHANGED <<left, given>>
         \/ /\ at' = [at EXCEPT ![r] = "dead"] /\ left' = [left EXCEPT ![r] = <<>>]
            /\ given' = [given EXCEPT ![r] = {}]
      /\ UNCHANGED <<files, rows, wiped, together, batchVars>>
  BY <1>0, EmbedIs
<1>2. CorpusTypeOK'
  BY <1>0, <1>1 DEF CorpusTypeOK, batchVars
<1>3. Kept'
  BY <1>0, <1>1 DEF Kept, Unshared, Shared
<1>4. /\ \A q \in Runs \ {r} : at'[q] = at[q] /\ left'[q] = left[q] /\ given'[q] = given[q]
      /\ \/ at'[r] \in {"embed", "insert"} /\ left'[r] = left[r] /\ given'[r] = given[r]
         \/ at'[r] = "dead" /\ left'[r] = <<>> /\ given'[r] = {}
  <2>1. at \in [Runs -> {"idle", "embed", "insert", "done", "dead"}] /\ DOMAIN left = Runs /\ given \in [Runs -> SUBSET Sources]
    BY <1>0 DEF CorpusTypeOK, Pending
  <2>2. CASE \E step \in {"embed", "insert"} : at' = [at EXCEPT ![r] = step] /\ UNCHANGED <<left, given>>
    BY <2>1, <2>2
  <2>3. CASE at' = [at EXCEPT ![r] = "dead"] /\ left' = [left EXCEPT ![r] = <<>>] /\ given' = [given EXCEPT ![r] = {}]
    BY <2>1, <2>3
  <2> QED
    BY <1>1, <2>2, <2>3
<1>5. (\A s : ChunksOf(s)' = ChunksOf(s)) /\ (\A s : RowsOf(s)' = RowsOf(s))
  BY <1>1 DEF ChunksOf, RowsOf, Shared, Key
<1>6. Pending' /\ Ingesting'
  <2>1. <<>> \in Seq(Sources \X Nat) /\ ToSet(<<>>) = {}
    BY DEF ToSet
  <2>2. Pending'
    <3> SUFFICES ASSUME NEW q \in Runs
                 PROVE  /\ at'[q] \in {"idle", "done", "dead"} => left'[q] = <<>>
                        /\ at'[q] \in {"idle", "dead"} => given'[q] = {}
                        /\ \A k \in ToSet(left'[q]) : \E s \in given'[q] : k \in ChunksOf(s)
                        /\ at'[q] = "idle" => \A s \in Sources : wiped[s] # q
      <4>1. left' \in [Runs -> Seq(Sources \X Nat)]
        <5> DEFINE T == Seq(Sources \X Nat)
        <5>1. left \in [Runs -> T] /\ (left' = left \/ left' = [left EXCEPT ![r] = <<>>]) /\ <<>> \in T
          BY <1>0, <1>1, <2>1 DEF Pending
        <5> HIDE DEF T
        <5>2. left' \in [Runs -> T]
          BY <5>1
        <5> QED
          BY <5>2 DEF T
      <4> QED
        BY <1>1, <1>5, <4>1 DEF Pending, Waiting
    <3>1. CASE left'[q] = left[q] /\ given'[q] = given[q] /\ (at'[q] = at[q] \/ at'[q] \in {"embed", "insert"})
      BY <1>0, <3>1 DEF Pending, Waiting
    <3>2. CASE at'[q] = "dead" /\ left'[q] = <<>> /\ given'[q] = {}
      BY <2>1, <3>2
    <3> QED
      BY <1>4, <3>1, <3>2
  <2>3. Ingesting'
    <3> SUFFICES ASSUME NEW s \in Sources, NEW q \in Runs, wiped[s] = q, s \in given'[q], NEW k \in ChunksOf(s)
                 PROVE  [key |-> k, run |-> q] \in rows \/ k \in ToSet(left'[q])
      BY <1>1, <1>5 DEF Ingesting, Waiting
    <3>1. left'[q] = left[q] /\ given'[q] = given[q]
      BY <1>4
    <3> QED
      BY <1>0, <3>1 DEF Ingesting, Waiting
  <2> QED
    BY <2>2, <2>3
<1>7. Apart'
  <2>1. AtWork' \subseteq AtWork
    BY <1>1, <1>4 DEF AtWork
  <2>2. \A q \in AtWork' : given'[q] = given[q]
    BY <1>4 DEF AtWork
  <2>3. \A q \in Runs : at'[q] \in {"embed", "insert", "done"} => given'[q] = given[q] /\ at[q] \in {"embed", "insert", "done"}
    BY <1>1, <1>4
  <2> QED
    BY <1>0, <1>1, <1>5, <2>1, <2>2, <2>3 DEF Apart
<1> QED
  BY <1>2, <1>3, <1>6, <1>7
LEMMA StartKeeps ==
    ASSUME CorpusIInv, NEW r \in Runs, Start(r)
    PROVE  CorpusTypeOK' /\ Pending' /\ Ingesting' /\ Apart' /\ Kept'
<1>0. CorpusTypeOK /\ Pending /\ Ingesting /\ Apart /\ Kept
  BY DEF CorpusIInv
<1>1. PICK of \in SUBSET Sources \ {{}}, reset \in BOOLEAN :
         /\ given' = [given EXCEPT ![r] = of]
         /\ rows' = rows \ UNION {RowsOf(s) : s \in Outdated(of, reset)}
         /\ wiped' = [s \in Sources |-> IF s \in Outdated(of, reset) THEN r ELSE wiped[s]]
         /\ left' = [left EXCEPT ![r] = FlattenSeq(SetToSeq({KeysOf(s) : s \in of}))]
  BY DEF Start
<1> DEFINE gone == Outdated(of, reset)
           keys == FlattenSeq(SetToSeq({KeysOf(s) : s \in of}))
<1>2. /\ at[r] = "idle" /\ at' = [at EXCEPT ![r] = "embed"] /\ UNCHANGED <<files, embedding, batchVars>>
      /\ together' = (together \/ AtWork # {})
  BY DEF Start
<1>3. of \subseteq gone /\ gone \subseteq Sources /\ of \subseteq Sources
  BY DEF Outdated
<1>4. files \in [Sources -> Layouts]
  BY <1>0 DEF CorpusTypeOK
<1>5. keys \in Seq(Sources \X Nat) /\ ToSet(keys) = UNION {ChunksOf(s) : s \in of}
  BY <1>3, <1>4, LeftIs
<1> HIDE DEF gone, keys
<1>6. /\ at'[r] = "embed" /\ given'[r] = of /\ left'[r] = keys /\ left' \in [Runs -> Seq(Sources \X Nat)]
      /\ \A q \in Runs \ {r} : at'[q] = at[q] /\ given'[q] = given[q] /\ left'[q] = left[q]
      /\ \A s \in Sources : wiped'[s] = IF s \in gone THEN r ELSE wiped[s]
  BY <1>0, <1>1, <1>2, <1>5 DEF CorpusTypeOK, Pending, gone, keys
<1>7. /\ rows' = {row \in rows : \A s \in gone : row \notin RowsOf(s)}
      /\ \A s : ChunksOf(s)' = ChunksOf(s)
      /\ \A s \in gone : RowsOf(s)' = {}
      /\ \A s \in Sources \ gone : RowsOf(s)' = RowsOf(s)
      /\ Unshared' = Unshared
  <2>1. rows' = {row \in rows : \A s \in gone : row \notin RowsOf(s)}
    BY <1>1 DEF gone
  <2>2. \A s : ChunksOf(s)' = ChunksOf(s)
    BY <1>2 DEF ChunksOf, Key
  <2> QED
    BY <2>1, <2>2 DEF RowsOf, Shared, Unshared
<1>8. CorpusTypeOK'
  <2>1. rows' \subseteq Row
    BY <1>0, <1>7 DEF CorpusTypeOK
  <2>2. wiped' \in [Sources -> Runs \cup {NoRun}] /\ given' \in [Runs -> SUBSET Sources]
    BY <1>0, <1>1, <1>3 DEF CorpusTypeOK
  <2>3. at' \in [Runs -> {"idle", "embed", "insert", "done", "dead"}]
    BY <1>0, <1>2 DEF CorpusTypeOK
  <2>4. together' \in BOOLEAN
    BY <1>2
  <2> QED
    BY <1>0, <1>2, <2>1, <2>2, <2>3, <2>4 DEF CorpusTypeOK, batchVars
<1>9. Kept'
  <2>1. IsFiniteSet(rows')
    BY <1>0, <1>7, FS_Subset DEF Kept
  <2> QED
    BY <1>0, <1>7, <2>1 DEF Kept
<1>10. Pending'
  <2> SUFFICES ASSUME NEW q \in Runs
               PROVE  /\ at'[q] \in {"idle", "done", "dead"} => left'[q] = <<>>
                      /\ at'[q] \in {"idle", "dead"} => given'[q] = {}
                      /\ \A k \in ToSet(left'[q]) : \E s \in given'[q] : k \in ChunksOf(s)
                      /\ at'[q] = "idle" => \A s \in Sources : wiped'[s] # q
    BY <1>6, <1>7 DEF Pending, Waiting
  <2>1. CASE q = r
    BY <1>5, <1>6, <2>1
  <2>2. CASE q # r
    <3>1. at'[q] = at[q] /\ given'[q] = given[q] /\ left'[q] = left[q]
      BY <1>6, <2>2
    <3>2. \A s \in Sources : wiped'[s] = q => wiped[s] = q
      BY <1>6, <2>2
    <3> QED
      BY <1>0, <3>1, <3>2 DEF Pending, Waiting
  <2> QED
    BY <2>1, <2>2
<1>11. \A s \in Sources \ gone : wiped[s] # r
  BY <1>0, <1>2 DEF Pending
<1>12. Ingesting'
  <2> SUFFICES ASSUME NEW s \in Sources, NEW q \in Runs, wiped'[s] = q, s \in given'[q], NEW k \in ChunksOf(s)
               PROVE  [key |-> k, run |-> q] \in rows' \/ k \in ToSet(left'[q])
    BY <1>7 DEF Ingesting, Waiting
  <2>1. CASE s \in gone
    <3>1. q = r /\ s \in of
      BY <1>6, <2>1
    <3> QED
      BY <1>5, <1>6, <3>1
  <2>2. CASE s \notin gone
    <3>1. wiped[s] = q /\ q # r
      BY <1>6, <1>11, <2>2
    <3>2. given'[q] = given[q] /\ left'[q] = left[q]
      BY <1>6, <3>1
    <3>3. [key |-> k, run |-> q] \in rows \/ k \in ToSet(left[q])
      BY <1>0, <3>1, <3>2 DEF Ingesting, Waiting
    <3>4. k[1] = s
      BY <1>4, KeysAre
    <3>5. \A t \in gone : [key |-> k, run |-> q] \notin RowsOf(t)
      BY <2>2, <3>4 DEF RowsOf
    <3> QED
      BY <1>7, <3>2, <3>3, <3>5
  <2> QED
    BY <2>1, <2>2
<1>13. Apart'
  <2> SUFFICES ASSUME ~together' PROVE Apart'
    BY DEF Apart
  <2>1. ~together /\ AtWork = {}
    BY <1>2
  <2>2. AtWork' = {r}
    BY <1>6, <2>1 DEF AtWork
  <2>3. \A s \in of : wiped'[s] = r
    BY <1>3, <1>6
  <2>4. \A s \in Sources :
           IF wiped'[s] = NoRun THEN RowsOf(s)' = InactiveOf(s)
           ELSE RowsOf(s)' \subseteq {[key |-> k, run |-> wiped'[s]] : k \in ChunksOf(s)}
    <3> SUFFICES ASSUME NEW s \in Sources
                 PROVE  IF wiped'[s] = NoRun THEN RowsOf(s)' = InactiveOf(s)
                        ELSE RowsOf(s)' \subseteq {[key |-> k, run |-> wiped'[s]] : k \in ChunksOf(s)}
      OBVIOUS
    <3>1. CASE s \in gone
      <4>1. wiped'[s] = r /\ r # NoRun /\ RowsOf(s)' = {}
        BY <1>6, <1>7, <3>1, CorpusAssumption
      <4> QED
        BY <4>1
    <3>2. CASE s \notin gone
      <4>1. wiped'[s] = wiped[s] /\ RowsOf(s)' = RowsOf(s)
        BY <1>6, <1>7, <3>2
      <4>2. IF wiped[s] = NoRun THEN RowsOf(s) = InactiveOf(s)
            ELSE RowsOf(s) \subseteq {[key |-> k, run |-> wiped[s]] : k \in ChunksOf(s)}
        BY <2>1, <1>0 DEF Apart
      <4> QED
        BY <4>1, <4>2
    <3> QED
      BY <3>1, <3>2
  <2>5. ASSUME NEW s \in Sources, NEW q \in Runs, wiped'[s] = q, s \notin given'[q], at'[q] \in {"embed", "insert", "done"}
        PROVE  RowsOf(s)' = {}
    <3>1. CASE s \in gone
      BY <1>7, <3>1
    <3>2. CASE s \notin gone
      <4>1. wiped[s] = q /\ q # r
        BY <1>6, <1>11, <2>5, <3>2
      <4>2. RowsOf(s) = {}
        BY <1>0, <1>6, <2>1, <2>5, <4>1 DEF Apart
      <4> QED
        BY <1>7, <3>2, <4>2
    <3> QED
      BY <3>1, <3>2
  <2>6. \A s : {[key |-> k, run |-> wiped'[s]] : k \in ChunksOf(s)'} = {[key |-> k, run |-> wiped'[s]] : k \in ChunksOf(s)}
    BY <1>7
  <2> QED
    BY <1>6, <2>2, <2>3, <2>4, <2>5, <2>6 DEF Apart
<1> QED
  BY <1>8, <1>9, <1>10, <1>12, <1>13

(* A slab.                                                                  *)
LEMMA SlabIs ==
    ASSUME NEW T, NEW q \in Seq(T)
    PROVE  LET slab == {q[i] : i \in DOMAIN q \cap 1..Slab}
               rest == SubSeq(q, Slab + 1, Len(q))
           IN  /\ rest \in Seq(T) /\ ToSet(q) = slab \cup ToSet(rest)
               /\ Len(q) <= Slab => rest = <<>>
<1> DEFINE slab == {q[i] : i \in DOMAIN q \cap 1..Slab}
           rest == SubSeq(q, Slab + 1, Len(q))
           n == Len(q)
<1>1. Slab \in Nat \ {0} /\ n \in Nat /\ DOMAIN q = 1..n
  BY CorpusAssumption
<1>2. CASE n <= Slab
  <2>1. rest = <<>>
    BY <1>1, <1>2
  <2>2. DOMAIN q \subseteq 1..Slab
    BY <1>1, <1>2
  <2>3. ToSet(<<>>) = {} /\ <<>> \in Seq(T)
    BY DEF ToSet
  <2>4. ToSet(q) = slab
    BY <2>2 DEF ToSet
  <2> HIDE DEF rest, slab
  <2>5. ToSet(rest) = {} /\ rest \in Seq(T)
    BY <2>1, <2>3
  <2> QED
    BY <1>2, <2>1, <2>4, <2>5 DEF rest, slab
<1>3. CASE ~(n <= Slab)
  <2>1. /\ rest \in Seq(T) /\ DOMAIN rest = 1..(n - Slab)
        /\ \A i \in 1..(n - Slab) : rest[i] = q[Slab + i]
    BY <1>1, <1>3
  <2>2. \A i \in 1..n : i \in 1..Slab \/ i - Slab \in 1..(n - Slab)
    BY <1>1, <1>3
  <2>3. \A i \in 1..(n - Slab) : Slab + i \in 1..n
    BY <1>1, <1>3
  <2>4. \A i \in 1..n : i \notin 1..Slab => rest[i - Slab] = q[i] /\ i - Slab \in DOMAIN rest
    <3> SUFFICES ASSUME NEW i \in 1..n, i \notin 1..Slab PROVE rest[i - Slab] = q[i] /\ i - Slab \in DOMAIN rest
      OBVIOUS
    <3>1. i - Slab \in 1..(n - Slab) /\ Slab + (i - Slab) = i
      BY <1>1, <2>2
    <3> HIDE DEF rest, n
    <3> QED
      BY <2>1, <3>1
  <2> HIDE DEF rest
  <2>5. ToSet(q) \subseteq slab \cup ToSet(rest)
    <3> SUFFICES ASSUME NEW i \in 1..n PROVE q[i] \in slab \cup ToSet(rest)
      BY <1>1 DEF ToSet
    <3>1. CASE i \in 1..Slab
      BY <1>1, <3>1
    <3>2. CASE i \notin 1..Slab
      BY <2>4, <3>2 DEF ToSet
    <3> QED
      BY <3>1, <3>2
  <2>6. slab \cup ToSet(rest) \subseteq ToSet(q)
    BY <1>1, <2>1, <2>3 DEF ToSet
  <2> QED
    BY <1>3, <2>1, <2>5, <2>6 DEF rest
<1> QED
  BY <1>2, <1>3

LEMMA InsertKeeps ==
    ASSUME CorpusIInv, NEW r \in Runs, Insert(r)
    PROVE  CorpusTypeOK' /\ Pending' /\ Ingesting' /\ Apart' /\ Kept'
<1>0. CorpusTypeOK /\ Pending /\ Ingesting /\ Apart /\ Kept
  BY DEF CorpusIInv
<1> DEFINE slab == {left[r][i] : i \in DOMAIN left[r] \cap 1..Slab}
           rest == SubSeq(left[r], Slab + 1, Len(left[r]))
           new == {[key |-> k, run |-> r] : k \in slab}
<1>1. /\ at[r] = "insert" /\ rows' = rows \cup new /\ left' = [left EXCEPT ![r] = rest]
      /\ at' = [at EXCEPT ![r] = IF Len(left[r]) <= Slab THEN "done" ELSE @]
      /\ UNCHANGED <<files, given, embedding, wiped, together, batchVars>>
  BY DEF Insert
<1>2. left[r] \in Seq(Sources \X Nat)
  BY <1>0 DEF Pending
<1>3. rest \in Seq(Sources \X Nat) /\ Waiting(r) = slab \cup ToSet(rest) /\ (Len(left[r]) <= Slab => rest = <<>>)
  BY <1>2, SlabIs DEF Waiting
<1>4. IsFiniteSet(slab)
  <2> DEFINE D == DOMAIN left[r] \cap 1..Slab
             f == [i \in D |-> left[r][i]]
  <2>1. f \in Surjection(D, slab)
    BY DEF Surjection
  <2>2. IsFiniteSet(D)
    <3>1. Slab \in Int /\ 1 \in Int
      BY CorpusAssumption
    <3>2. IsFiniteSet(1..Slab)
      BY <3>1, FS_Interval
    <3> QED
      BY <3>2, FS_Subset
  <2> HIDE DEF f, D, slab
  <2> QED
    BY <2>1, <2>2, FS_Surjection
<1> HIDE DEF slab, rest
<1>5. IsFiniteSet(new)
  <2> DEFINE f == [k \in slab |-> [key |-> k, run |-> r]]
  <2>1. f \in Surjection(slab, new)
    BY DEF Surjection
  <2> HIDE DEF f, new
  <2> QED
    BY <1>4, <2>1, FS_Surjection
<1>6. files \in [Sources -> Layouts]
  BY <1>0 DEF CorpusTypeOK
<1>7. \A k \in slab : \E s \in given[r] : k \in ChunksOf(s)
  BY <1>0, <1>3 DEF Pending
<1>8. \A k \in slab : k \in Sources \X Nat /\ k \notin Foreign /\ \A s \in Sources : k[1] = s => s \in given[r] /\ k \in ChunksOf(s)
  <2> SUFFICES ASSUME NEW k \in slab
               PROVE  k \in Sources \X Nat /\ k \notin Foreign /\ \A s \in Sources : k[1] = s => s \in given[r] /\ k \in ChunksOf(s)
    OBVIOUS
  <2>1. PICK s \in given[r] : k \in ChunksOf(s)
    BY <1>7
  <2>2. s \in Sources
    BY <1>0 DEF CorpusTypeOK
  <2>3. k \in Sources \X Nat /\ k[1] = s /\ k \notin Foreign
    BY <1>6, <2>1, <2>2, KeysAre
  <2> QED
    BY <2>1, <2>3
<1>9. \A row \in new : /\ row \in Row /\ Shared(row) /\ row.run = r /\ row.key \in slab
                       /\ row = [key |-> row.key, run |-> r]
  BY <1>8 DEF Row, Shared
<1>10. \A k \in slab : [key |-> k, run |-> r] \in new
  OBVIOUS
<1> HIDE DEF new
<1>11. /\ \A q \in Runs \ {r} : at'[q] = at[q] /\ left'[q] = left[q]
       /\ left'[r] = rest /\ at'[r] \in {"insert", "done"} /\ (at'[r] = "done" => rest = <<>>)
       /\ at' \in [Runs -> {"idle", "embed", "insert", "done", "dead"}] /\ left' \in [Runs -> Seq(Sources \X Nat)]
  <2>1. at \in [Runs -> {"idle", "embed", "insert", "done", "dead"}] /\ left \in [Runs -> Seq(Sources \X Nat)]
    BY <1>0 DEF CorpusTypeOK, Pending
  <2>2. at' \in [Runs -> {"idle", "embed", "insert", "done", "dead"}] /\ at'[r] \in {"insert", "done"}
        /\ (at'[r] = "done" => rest = <<>>) /\ \A q \in Runs \ {r} : at'[q] = at[q]
    <3>1. CASE Len(left[r]) <= Slab
      BY <1>1, <1>3, <2>1, <3>1
    <3>2. CASE ~(Len(left[r]) <= Slab)
      BY <1>1, <2>1, <3>2
    <3> QED
      BY <3>1, <3>2
  <2> DEFINE T == Seq(Sources \X Nat)
  <2>3. left \in [Runs -> T] /\ rest \in T
    BY <1>3, <2>1
  <2> HIDE DEF T
  <2>4. left' \in [Runs -> T] /\ left'[r] = rest /\ \A q \in Runs \ {r} : left'[q] = left[q]
    BY <1>1, <2>3
  <2> QED
    BY <2>2, <2>4 DEF T
<1>12. (\A s : ChunksOf(s)' = ChunksOf(s)) /\ \A s : RowsOf(s)' = RowsOf(s) \cup {row \in new : row.key[1] = s}
  BY <1>1, <1>9 DEF ChunksOf, Key, RowsOf, Shared
<1>13. CorpusTypeOK'
  <2>1. rows' \subseteq Row
    BY <1>0, <1>1, <1>9 DEF CorpusTypeOK
  <2> QED
    BY <1>0, <1>1, <1>11, <2>1 DEF CorpusTypeOK, batchVars
<1>14. Kept'
  <2>1. IsFiniteSet(rows')
    BY <1>0, <1>1, <1>5, FS_Union DEF Kept
  <2>2. Unshared' = Unshared
    BY <1>1, <1>9 DEF Unshared, Shared
  <2> QED
    BY <1>0, <2>1, <2>2 DEF Kept
<1>15. Pending'
  <2>1. ToSet(<<>>) = {}
    BY DEF ToSet
  <2> SUFFICES ASSUME NEW q \in Runs
               PROVE  /\ at'[q] \in {"idle", "done", "dead"} => left'[q] = <<>>
                      /\ at'[q] \in {"idle", "dead"} => given[q] = {}
                      /\ \A k \in ToSet(left'[q]) : \E s \in given[q] : k \in ChunksOf(s)
                      /\ at'[q] = "idle" => \A s \in Sources : wiped[s] # q
    BY <1>1, <1>11, <1>12 DEF Pending, Waiting
  <2>2. CASE q = r
    <3>1. \A k \in ToSet(rest) : \E s \in given[r] : k \in ChunksOf(s)
      BY <1>0, <1>3 DEF Pending
    <3> QED
      BY <1>11, <2>2, <3>1
  <2>3. CASE q # r
    BY <1>0, <1>11, <2>3 DEF Pending, Waiting
  <2> QED
    BY <2>2, <2>3
<1>16. Ingesting'
  <2> SUFFICES ASSUME NEW s \in Sources, NEW q \in Runs, wiped[s] = q, s \in given[q], NEW k \in ChunksOf(s)
               PROVE  [key |-> k, run |-> q] \in rows' \/ k \in ToSet(left'[q])
    BY <1>1, <1>12 DEF Ingesting, Waiting
  <2>1. [key |-> k, run |-> q] \in rows \/ k \in Waiting(q)
    BY <1>0 DEF Ingesting
  <2>2. CASE q = r
    BY <1>1, <1>3, <1>10, <1>11, <2>1, <2>2
  <2>3. CASE q # r
    BY <1>1, <1>11, <2>1, <2>3 DEF Waiting
  <2> QED
    BY <2>2, <2>3
<1>17. Apart'
  <2> SUFFICES ASSUME ~together' PROVE Apart'
    BY DEF Apart
  <2>1. ~together
    BY <1>1
  <2>2. AtWork' \subseteq AtWork /\ r \in AtWork
    BY <1>1, <1>11 DEF AtWork
  <2>3. \A s \in given[r] : wiped[s] = r
    BY <1>0, <2>1, <2>2 DEF Apart
  <2>4. \A s \in Sources :
           IF wiped[s] = NoRun THEN RowsOf(s)' = InactiveOf(s)
           ELSE RowsOf(s)' \subseteq {[key |-> k, run |-> wiped[s]] : k \in ChunksOf(s)}
    <3>1. ASSUME NEW s \in Sources, wiped[s] = NoRun PROVE RowsOf(s)' = InactiveOf(s)
      <4>1. s \notin given[r]
        BY <2>3, <3>1, CorpusAssumption
      <4>2. \A row \in new : row.key[1] # s
        BY <1>8, <1>9, <3>1, <4>1
      <4> QED
        BY <1>0, <1>12, <2>1, <3>1, <4>2 DEF Apart
    <3>2. ASSUME NEW s \in Sources, wiped[s] # NoRun, NEW row \in RowsOf(s)'
          PROVE  row \in {[key |-> k, run |-> wiped[s]] : k \in ChunksOf(s)}
      <4>1. CASE row \in RowsOf(s)
        BY <1>0, <2>1, <3>2, <4>1 DEF Apart
      <4>2. CASE row \in new /\ row.key[1] = s
        <5>1. row = [key |-> row.key, run |-> wiped[s]] /\ row.key \in ChunksOf(s)
          BY <1>8, <1>9, <2>3, <3>2, <4>2
        <5> QED
          BY <5>1
      <4> QED
        BY <1>12, <3>2, <4>1, <4>2
    <3> QED
      BY <3>1, <3>2
  <2>5. ASSUME NEW s \in Sources, NEW q \in Runs, wiped[s] = q, s \notin given[q], at'[q] \in {"embed", "insert", "done"}
        PROVE  RowsOf(s)' = {}
    <3>1. at[q] \in {"embed", "insert", "done"}
      BY <1>1, <1>11, <2>5
    <3>2. RowsOf(s) = {}
      BY <1>0, <2>1, <2>5, <3>1 DEF Apart
    <3>3. \A row \in new : row.key[1] # s
      BY <1>8, <1>9, <2>3, <2>5
    <3> QED
      BY <1>12, <3>2, <3>3
  <2>6. (\A p, q \in AtWork' : p = q) /\ \A q \in AtWork' : \A s \in given[q] : wiped[s] = q
    BY <1>0, <2>1, <2>2 DEF Apart
  <2>7. \A s : {[key |-> k, run |-> wiped[s]] : k \in ChunksOf(s)'} = {[key |-> k, run |-> wiped[s]] : k \in ChunksOf(s)}
    BY <1>12
  <2> QED
    BY <1>1, <2>4, <2>5, <2>6, <2>7 DEF Apart
<1> QED
  BY <1>13, <1>14, <1>15, <1>16, <1>17

LEMMA ScriptKeeps ==
    ASSUME CorpusIInv, NEW r \in Runs, RunStep(r)
    PROVE  CorpusIInv'
<1>1. CorpusTypeOK' /\ Pending' /\ Ingesting' /\ Apart' /\ Kept'
  BY StartKeeps, EmbedKeeps, InsertKeeps DEF RunStep
<1>2. UNCHANGED batchVars
  BY DEF RunStep, Start, Embed, Insert, Die
<1>3. Findings' /\ IsFiniteSet(holds') /\ ConnectionsReturned'
  BY <1>2 DEF CorpusIInv, batchVars, Findings, NoneTwice, Shared, Active, ConnectionsReturned
<1> QED
  BY <1>1, <1>3 DEF CorpusIInv

-----------------------------------------------------------------------------
(* Steps of a batch.                                                        *)

(* No two rows of a set are of the same chunk when it has as many chunks as *)
(* rows.                                                                    *)
LEMMA OnePerKey ==
    ASSUME NEW set, IsFiniteSet(set)
    PROVE  /\ IsFiniteSet(KeysIn(set))
           /\ Cardinality(set) = Cardinality(KeysIn(set))
                <=> \A row, other \in set : row.key = other.key => row = other
<1> DEFINE f == [row \in set |-> row.key]
           K == KeysIn(set)
<1>1. f \in Surjection(set, K) /\ \A row \in set : f[row] = row.key
  BY DEF Surjection, KeysIn
<1>2. f \in Injection(set, K) <=> \A row, other \in set : row.key = other.key => row = other
  <2>1. f \in [set -> K]
    BY <1>1 DEF Surjection
  <2> HIDE DEF f, K
  <2> QED
    BY <1>1, <2>1 DEF Injection, IsInjective
<1> HIDE DEF f, K
<1>3. IsFiniteSet(K) /\ (Cardinality(K) = Cardinality(set) <=> f \in Injection(set, K))
  BY <1>1, FS_Surjection
<1> QED
  BY <1>2, <1>3 DEF K

LEMMA NearestIs ==
    ASSUME IsFiniteSet(rows), NEW keys, NEW k \in Nat \ {0}, NEW set \in Nearest(keys, k)
    PROVE  /\ set \subseteq rows /\ IsFiniteSet(set) /\ \A row \in set : Shared(row) /\ Active(row)
           /\ Near(keys) # {} => set # {}
<1>1. /\ set \in SUBSET Near(keys)
      /\ Cardinality(set) = IF Cardinality(Near(keys)) < k THEN Cardinality(Near(keys)) ELSE k
  BY DEF Nearest
<1>2. Near(keys) \subseteq rows /\ \A row \in Near(keys) : Shared(row) /\ Active(row)
  BY DEF Near
<1>3. IsFiniteSet(Near(keys)) /\ IsFiniteSet(set)
  BY <1>1, <1>2, FS_Subset
<1>4. Near(keys) # {} => set # {}
  BY <1>1, <1>3, FS_EmptySet, FS_CardinalityType
<1> QED
  BY <1>1, <1>2, <1>3, <1>4

LEMMA DeduplicatedIs ==
    ASSUME NEW old \in SUBSET Row, NoneTwice(old), NEW new \in SUBSET Row, IsFiniteSet(new),
           \A row \in new : Shared(row) /\ Active(row), NEW all \in Deduplicated(old, new)
    PROVE  /\ all \in SUBSET Row /\ NoneTwice(all)
           /\ old \subseteq all /\ (new # {} => all # {})
<1>1. PICK n \in SUBSET new : /\ all = old \cup n /\ KeysIn(n) = KeysIn(new) \ KeysIn(old)
                              /\ Cardinality(n) = Cardinality(KeysIn(n))
  BY DEF Deduplicated
<1>2. IsFiniteSet(n)
  BY FS_Subset
<1>3. \A row, other \in n : row.key = other.key => row = other
  BY <1>1, <1>2, OnePerKey
<1>4. \A row \in n, other \in old : row.key # other.key
  BY <1>1 DEF KeysIn
<1>5. IsFiniteSet(all)
  BY <1>1, <1>2, FS_Union DEF NoneTwice
<1>6. NoneTwice(all)
  BY <1>1, <1>3, <1>4, <1>5 DEF NoneTwice
<1>7. new # {} => all # {}
  <2> SUFFICES ASSUME NEW row \in new PROVE all # {}
    OBVIOUS
  <2>1. row.key \in KeysIn(old) \/ row.key \in KeysIn(n)
    BY <1>1 DEF KeysIn
  <2> QED
    BY <1>1, <2>1 DEF KeysIn
<1> QED
  BY <1>1, <1>6, <1>7

BatchStates == {"queued", "embed", "query", "ask", "annotated", "lost"}
(* A connection is taken for the queries only, and only from the pool.      *)
Held(b, p) ==
    \/ holds' = holds /\ (b \notin holds \/ p \in {"embed", "query"})
    \/ holds' = holds \ {b}
    \/ holds' = holds \cup {b} /\ p \in {"embed", "query"} /\ (b \in holds \/ Cardinality(holds) < Connections)
MovedOn(b) == \E p \in BatchStates : pc' = [pc EXCEPT ![b] = p] /\ Held(b, p)
Looks(b) ==
    \E x, y \in SUBSET Row :
        /\ NoneTwice(x) /\ NoneTwice(y) /\ (y # {} => pc'[b] = "ask")
        /\ found' = [found EXCEPT ![b] = x] /\ prompt' = [prompt EXCEPT ![b] = y]
Counts == clause' \in [Batches -> 1..Clauses] /\ asking' \in [Batches -> Calls!Call]

LEMMA StandsStill ==
    ASSUME CorpusIInv, NEW b \in Batches
    PROVE  /\ UNCHANGED <<found, prompt>> /\ (pc[b] = "ask" => UNCHANGED pc) => Looks(b)
           /\ Forget(b) => Looks(b) /\ Counts
           /\ UNCHANGED <<clause, asking>> => Counts
           /\ Lose(b) => MovedOn(b) /\ Looks(b) /\ Counts
<1>0. CorpusTypeOK /\ Findings /\ 1 \in 1..Clauses
  BY CorpusAssumption DEF CorpusIInv
<1>1. UNCHANGED <<found, prompt>> /\ (pc[b] = "ask" => UNCHANGED pc) => Looks(b)
  <2>1. (prompt[b] # {} => pc[b] = "ask") /\ found = [found EXCEPT ![b] = found[b]] /\ prompt = [prompt EXCEPT ![b] = prompt[b]]
        /\ found[b] \in SUBSET Row /\ prompt[b] \in SUBSET Row /\ NoneTwice(found[b]) /\ NoneTwice(prompt[b])
    BY <1>0 DEF Findings
  <2> QED
    BY <2>1 DEF Looks
<1>2. Forget(b) => Looks(b) /\ Counts
  <2> SUFFICES ASSUME Forget(b) PROVE Looks(b) /\ Counts
    OBVIOUS
  <2>1. Looks(b)
    BY NothingTwice DEF Forget, Looks
  <2>2. Counts
    BY <1>0, FreshIs DEF Forget, Counts, CorpusTypeOK
  <2> QED
    BY <2>1, <2>2
<1>3. UNCHANGED <<clause, asking>> => Counts
  BY <1>0 DEF Counts, CorpusTypeOK
<1>4. Lose(b) => MovedOn(b)
  BY DEF Lose, Release, MovedOn, Held, BatchStates
<1> QED
  BY <1>1, <1>2, <1>3, <1>4 DEF Lose

(* A clause was looked up, or is blank: what was found is kept.             *)
LEMMA LookedUpIs ==
    ASSUME CorpusIInv, NEW b \in Batches, pc[b] \in {"embed", "query"}, UNCHANGED asking,
           NEW all \in SUBSET Row, NoneTwice(all), LookedUp(b, all)
    PROVE  /\ Looks(b) /\ Counts
           /\ \/ clause[b] < Clauses /\ pc' = [pc EXCEPT ![b] = "embed"]
              \/ clause[b] = Clauses /\ pc' = [pc EXCEPT ![b] = "ask"]
           /\ all # {} => Matched(b)'
<1>0. CorpusTypeOK /\ Findings
  BY DEF CorpusIInv
<1>a. Clauses \in Nat /\ InPrompt \in Nat \ {0} /\ clause[b] \in 1..Clauses
  BY <1>0, CorpusAssumption DEF CorpusTypeOK
<1>1. CASE clause[b] < Clauses
  <2>1. /\ found' = [found EXCEPT ![b] = all] /\ clause' = [clause EXCEPT ![b] = @ + 1]
        /\ pc' = [pc EXCEPT ![b] = "embed"] /\ UNCHANGED prompt
    BY <1>a, <1>1 DEF LookedUp
  <2>2. Looks(b)
    <3>1. prompt' = [prompt EXCEPT ![b] = {}]
      BY <1>0, <2>1 DEF Findings
    <3> QED
      BY <2>1, <3>1, NothingTwice DEF Looks
  <2>3. Counts
    <3>1. clause[b] + 1 \in 1..Clauses
      BY <1>a, <1>1
    <3> QED
      BY <1>0, <2>1, <3>1 DEF CorpusTypeOK, Counts
  <2>4. all # {} => Matched(b)'
    BY <1>0, <2>1 DEF Matched, Findings
  <2> QED
    BY <1>1, <2>1, <2>2, <2>3, <2>4
<1>2. CASE ~(clause[b] < Clauses)
  <2>1. /\ clause[b] = Clauses /\ UNCHANGED clause
        /\ pc' = [pc EXCEPT ![b] = "ask"] /\ found' = [found EXCEPT ![b] = {}]
    BY <1>2 DEF LookedUp
  <2>2. PICK best \in SUBSET all :
            /\ Cardinality(best) = IF Cardinality(all) < InPrompt THEN Cardinality(all) ELSE InPrompt
            /\ prompt' = [prompt EXCEPT ![b] = best]
    BY <1>2 DEF LookedUp
  <2>3. IsFiniteSet(all) /\ IsFiniteSet(best)
    BY FS_Subset DEF NoneTwice
  <2>4. NoneTwice(best) /\ best \in SUBSET Row
    BY <2>3 DEF NoneTwice
  <2>5. pc'[b] = "ask"
    BY <1>0, <2>1 DEF CorpusTypeOK
  <2>6. Looks(b)
    BY <2>1, <2>2, <2>4, <2>5, NothingTwice DEF Looks
  <2>7. Counts
    BY <1>0, <2>1 DEF CorpusTypeOK, Counts
  <2>8. all # {} => best # {}
    BY <1>a, <2>2, <2>3, FS_EmptySet, FS_CardinalityType
  <2>9. prompt'[b] = best
    BY <1>0, <2>2 DEF Findings
  <2> QED
    BY <2>1, <2>6, <2>7, <2>8, <2>9 DEF Matched
<1> QED
  BY <1>1, <1>2

(* A query for a clause.                                                    *)
LEMMA QueryIs ==
    ASSUME CorpusIInv, NEW b \in Batches, Query(b)
    PROVE  /\ MovedOn(b) /\ Looks(b) /\ Counts
           /\ Near(Asked(b)) # {} => Matched(b)'
           /\ found[b] # {} => Matched(b)'
<1>0. CorpusTypeOK /\ Findings /\ IsFiniteSet(rows) /\ pc[b] = "query" /\ UNCHANGED asking
  BY DEF CorpusIInv, Kept, Query
<1>1. PICK set \in Nearest(Asked(b), NearestPerClause) :
         \E all \in Deduplicated(found[b], set) : LookedUp(b, all)
  BY DEF Query
<1>2. PICK all \in Deduplicated(found[b], set) : LookedUp(b, all)
  BY <1>1
<1>3. /\ set \in SUBSET Row /\ IsFiniteSet(set) /\ \A row \in set : Shared(row) /\ Active(row)
      /\ Near(Asked(b)) # {} => set # {}
  BY <1>0, NearestIs, CorpusAssumption DEF CorpusTypeOK
<1>4. all \in SUBSET Row /\ NoneTwice(all) /\ found[b] \subseteq all /\ (set # {} => all # {})
  BY <1>0, <1>3, DeduplicatedIs DEF Findings
<1>5. /\ Looks(b) /\ Counts
      /\ \/ clause[b] < Clauses /\ pc' = [pc EXCEPT ![b] = "embed"]
         \/ clause[b] = Clauses /\ pc' = [pc EXCEPT ![b] = "ask"]
      /\ all # {} => Matched(b)'
  BY <1>0, <1>2, <1>4, LookedUpIs
<1>6. MovedOn(b)
  <2>1. (b \in holds \/ Cardinality(holds) < Connections)
        /\ holds' = IF clause[b] < Clauses THEN holds \cup {b} ELSE holds \ {b}
    BY DEF Query
  <2>2. Clauses \in Nat
    BY CorpusAssumption
  <2> QED
    BY <1>5, <2>1, <2>2 DEF MovedOn, Held, BatchStates
<1> QED
  BY <1>3, <1>4, <1>5, <1>6

LEMMA BlankIs ==
    ASSUME CorpusIInv, NEW b \in Batches, Blank(b)
    PROVE  MovedOn(b) /\ Looks(b) /\ Counts /\ (found[b] # {} => Matched(b)')
<1>0. /\ CorpusTypeOK /\ Findings /\ pc[b] = "embed" /\ UNCHANGED asking /\ LookedUp(b, found[b])
      /\ holds' = IF clause[b] < Clauses THEN holds ELSE holds \ {b}
  BY DEF CorpusIInv, Blank
<1>1. /\ Looks(b) /\ Counts
      /\ \/ clause[b] < Clauses /\ pc' = [pc EXCEPT ![b] = "embed"]
         \/ clause[b] = Clauses /\ pc' = [pc EXCEPT ![b] = "ask"]
      /\ found[b] # {} => Matched(b)'
  BY <1>0, LookedUpIs DEF Findings
<1>2. MovedOn(b)
  <2>1. Clauses \in Nat
    BY CorpusAssumption
  <2> QED
    BY <1>0, <1>1, <2>1 DEF MovedOn, Held, BatchStates
<1> QED
  BY <1>1, <1>2

LEMMA BatchIs ==
    ASSUME CorpusIInv, NEW b \in Batches, BatchStep(b)
    PROVE  MovedOn(b) /\ Looks(b) /\ Counts /\ UNCHANGED <<files, rows, scriptVars>>
<1>0. CorpusTypeOK /\ \A q \in holds : pc[q] \in {"embed", "query"}
  BY DEF CorpusIInv, ConnectionsReturned
<1>1. CASE Take(b)
  <2>1. MovedOn(b)
    BY <1>0, <1>1 DEF Take, MovedOn, Held, BatchStates
  <2> QED
    BY <1>1, <2>1, StandsStill DEF Take
<1>2. CASE EmbedQuery(b)
  <2>1. PICK c \in Calls!Tried(asking[b]) :
             IF c.end = "raised" THEN Lose(b)
             ELSE /\ asking' = [asking EXCEPT ![b] = Going(c)]
                  /\ pc' = [pc EXCEPT ![b] = IF c.end = "reply" THEN "query" ELSE @]
                  /\ UNCHANGED <<clause, holds, found, prompt>>
    BY <1>2 DEF EmbedQuery
  <2>2. pc[b] = "embed" /\ UNCHANGED <<files, rows, scriptVars>>
    BY <1>2 DEF EmbedQuery
  <2>3. CASE c.end = "raised"
    BY <2>1, <2>2, <2>3, StandsStill
  <2>4. CASE c.end # "raised"
    <3>1. /\ asking' = [asking EXCEPT ![b] = Going(c)]
          /\ pc' = [pc EXCEPT ![b] = IF c.end = "reply" THEN "query" ELSE @]
          /\ UNCHANGED <<clause, holds, found, prompt>>
      BY <2>1, <2>4
    <3>2. MovedOn(b)
      <4>1. PICK p \in {"embed", "query"} : p = IF c.end = "reply" THEN "query" ELSE pc[b]
        BY <2>2
      <4>2. pc' = [pc EXCEPT ![b] = p] /\ p \in BatchStates /\ Held(b, p)
        BY <3>1, <4>1 DEF Held, BatchStates
      <4> QED
        BY <4>2 DEF MovedOn
    <3>3. Counts
      <4>1. Going(c) \in Calls!Call
        BY <1>0, FreshIs DEF CorpusTypeOK
      <4> QED
        BY <1>0, <3>1, <4>1 DEF Counts, CorpusTypeOK
    <3> QED
      BY <2>2, <3>1, <3>2, <3>3, StandsStill
  <2> QED
    BY <2>3, <2>4
<1>3. CASE Query(b)
  BY <1>3, QueryIs DEF Query
<1>4. CASE QueryRaises(b)
  BY <1>4, StandsStill DEF QueryRaises
<1>5. CASE Ask(b)
  <2>1. PICK c \in Calls!Tried(asking[b]) :
             IF c.end = "raised" THEN Lose(b)
             ELSE IF c.end = "reply"
             THEN pc' = [pc EXCEPT ![b] = "annotated"] /\ UNCHANGED holds /\ Forget(b)
             ELSE asking' = [asking EXCEPT ![b] = c] /\ UNCHANGED <<pc, clause, holds, found, prompt>>
    BY <1>5 DEF Ask
  <2>2. pc[b] = "ask" /\ b \notin holds /\ UNCHANGED <<files, rows, scriptVars>>
    BY <1>0, <1>5 DEF Ask
  <2>3. CASE c.end = "raised"
    BY <2>1, <2>2, <2>3, StandsStill
  <2>4. CASE c.end # "raised" /\ c.end = "reply"
    <3>1. pc' = [pc EXCEPT ![b] = "annotated"] /\ UNCHANGED holds /\ Forget(b)
      BY <2>1, <2>4
    <3>2. MovedOn(b)
      BY <2>2, <3>1 DEF MovedOn, Held, BatchStates
    <3> QED
      BY <2>2, <3>1, <3>2, StandsStill
  <2>5. CASE c.end # "raised" /\ c.end # "reply"
    <3>1. asking' = [asking EXCEPT ![b] = c] /\ UNCHANGED <<pc, clause, holds, found, prompt>>
      BY <2>1, <2>5
    <3>2. MovedOn(b)
      <4>1. pc' = [pc EXCEPT ![b] = pc[b]] /\ pc[b] \in BatchStates
        BY <1>0, <3>1 DEF CorpusTypeOK, BatchStates
      <4> QED
        BY <2>2, <3>1, <4>1 DEF MovedOn, Held
    <3>3. Counts
      <4>1. c \in Calls!Call
        BY <1>0, FreshIs DEF CorpusTypeOK
      <4> QED
        BY <1>0, <3>1, <4>1 DEF Counts, CorpusTypeOK
    <3> QED
      BY <2>2, <3>1, <3>2, <3>3, StandsStill
  <2> QED
    BY <2>3, <2>4, <2>5
<1>6. CASE Blank(b)
  BY <1>6, BlankIs DEF Blank
<1> QED
  BY <1>1, <1>2, <1>3, <1>4, <1>5, <1>6 DEF BatchStep

LEMMA BatchKeeps ==
    ASSUME CorpusIInv, NEW b \in Batches, BatchStep(b)
    PROVE  CorpusIInv'
<1>0. /\ CorpusTypeOK /\ Pending /\ Ingesting /\ Apart /\ Kept /\ Findings
      /\ IsFiniteSet(holds) /\ ConnectionsReturned
  BY DEF CorpusIInv
<1>1. MovedOn(b) /\ Looks(b) /\ Counts /\ UNCHANGED <<files, rows, scriptVars>>
  BY BatchIs
<1>2. Pending' /\ Ingesting' /\ Apart' /\ Kept'
  <2>1. (\A s : ChunksOf(s)' = ChunksOf(s)) /\ (\A s : RowsOf(s)' = RowsOf(s)) /\ Unshared' = Unshared
        /\ AtWork' = AtWork /\ \A r : Waiting(r)' = Waiting(r)
    BY <1>1 DEF ChunksOf, Key, RowsOf, Shared, Unshared, AtWork, Waiting, scriptVars
  <2>2. Pending' /\ Ingesting' /\ Kept'
    BY <1>0, <1>1, <2>1 DEF Pending, Ingesting, Kept, scriptVars
  <2>3. Apart'
    BY <1>0, <1>1, <2>1 DEF Apart, scriptVars
  <2> QED
    BY <2>2, <2>3
<1>3. PICK p \in BatchStates : pc' = [pc EXCEPT ![b] = p] /\ Held(b, p)
  BY <1>1 DEF MovedOn
<1>4. pc' \in [Batches -> BatchStates] /\ pc'[b] = p /\ \A q \in Batches \ {b} : pc'[q] = pc[q]
  BY <1>0, <1>3 DEF CorpusTypeOK, BatchStates
<1>5. holds' \subseteq Batches /\ IsFiniteSet(holds') /\ ConnectionsReturned'
  <2>0. Connections \in Nat /\ Cardinality(holds) \in Nat /\ Cardinality(holds) <= Connections /\ holds \subseteq Batches
    BY <1>0, CorpusAssumption, FS_CardinalityType DEF ConnectionsReturned, CorpusTypeOK
  <2>1. \A q \in holds : pc[q] \in {"embed", "query"}
    BY <1>0 DEF ConnectionsReturned
  <2>2. CASE holds' = holds /\ (b \notin holds \/ p \in {"embed", "query"})
    BY <1>0, <1>4, <2>0, <2>1, <2>2 DEF ConnectionsReturned
  <2>3. CASE holds' = holds \ {b}
    <3>1. IsFiniteSet(holds \ {b}) /\ Cardinality(holds \ {b}) <= Connections
      <4>1. /\ IsFiniteSet(holds \ {b})
            /\ Cardinality(holds \ {b}) = IF b \in holds THEN Cardinality(holds) - 1 ELSE Cardinality(holds)
        BY ONLY <1>0, FS_RemoveElement
      <4> QED
        BY <2>0, <4>1
    <3> QED
      BY <1>4, <2>0, <2>1, <2>3, <3>1 DEF ConnectionsReturned
  <2>4. CASE holds' = holds \cup {b} /\ p \in {"embed", "query"} /\ (b \in holds \/ Cardinality(holds) < Connections)
    <3>1. IsFiniteSet(holds \cup {b}) /\ Cardinality(holds \cup {b}) <= Connections
      <4>1. /\ IsFiniteSet(holds \cup {b})
            /\ Cardinality(holds \cup {b}) = IF b \in holds THEN Cardinality(holds) ELSE Cardinality(holds) + 1
        BY ONLY <1>0, FS_AddElement
      <4> QED
        BY <2>0, <2>4, <4>1
    <3> QED
      BY <1>4, <2>0, <2>1, <2>4, <3>1 DEF ConnectionsReturned
  <2> QED
    BY <1>3, <2>2, <2>3, <2>4 DEF Held
<1>6. CorpusTypeOK'
  BY <1>0, <1>1, <1>4, <1>5 DEF CorpusTypeOK, Counts, BatchStates, scriptVars
<1>7. Findings'
  <2>1. PICK x, y \in SUBSET Row :
            /\ NoneTwice(x) /\ NoneTwice(y) /\ (y # {} => pc'[b] = "ask")
            /\ found' = [found EXCEPT ![b] = x] /\ prompt' = [prompt EXCEPT ![b] = y]
    BY <1>1 DEF Looks
  <2>2. found' \in [Batches -> SUBSET Row] /\ prompt' \in [Batches -> SUBSET Row]
    BY <1>0, <2>1 DEF Findings
  <2>3. \A q \in Batches : /\ found'[q] = x \/ found'[q] = found[q]
                          /\ prompt'[q] = IF q = b THEN y ELSE prompt[q]
    BY <1>0, <2>1 DEF Findings
  <2>4. \A q \in Batches : NoneTwice(found'[q]) /\ NoneTwice(prompt'[q])
    BY <1>0, <2>1, <2>3 DEF Findings
  <2>5. \A q \in Batches : prompt'[q] # {} => pc'[q] = "ask"
    BY <1>0, <1>4, <2>1, <2>3 DEF Findings
  <2> QED
    BY <2>2, <2>4, <2>5 DEF Findings, NoneTwice, Shared, Active
<1> QED
  BY <1>2, <1>5, <1>6, <1>7 DEF CorpusIInv

(* What the invariant says to a reader.                                     *)
LEMMA CorpusImplies ==
    ASSUME CorpusIInv
    PROVE  CorpusTypeOK /\ AsLastIngested /\ ForeignStaysOut /\ ConnectionsReturned
<1>0. CorpusTypeOK /\ Pending /\ Ingesting /\ Apart /\ Kept /\ Findings /\ ConnectionsReturned
  BY DEF CorpusIInv
<1>1. AsLastIngested
  <2> SUFFICES ASSUME ~together, NEW s \in Sources
               PROVE  LET r == wiped[s]
                          all == {[key |-> k, run |-> r] : k \in ToSet(KeysOf(s))}
                      IN  IF r = NoRun
                            THEN RowsOf(s) = {[key |-> k, run |-> r] : k \in {k \in Inactive : k[1] = s}}
                            ELSE /\ RowsOf(s) \subseteq all
                                 /\ at[r] = "done" => RowsOf(s) = IF s \in given[r] THEN all ELSE {}
    BY DEF AsLastIngested
  <2> DEFINE r == wiped[s]
             all == {[key |-> k, run |-> r] : k \in ToSet(KeysOf(s))}
  <2>1. ToSet(KeysOf(s)) = ChunksOf(s) /\ \A k \in ChunksOf(s) : k[1] = s /\ k \notin Foreign
    BY <1>0, KeysAre DEF CorpusTypeOK
  <2>0. r = NoRun => RowsOf(s) = {[key |-> k, run |-> r] : k \in {k \in Inactive : k[1] = s}}
    BY <1>0 DEF Apart, InactiveOf
  <2>2. r # NoRun => RowsOf(s) \subseteq all
    BY <1>0, <2>1 DEF Apart
  <2>3. ASSUME r # NoRun, at[r] = "done" PROVE RowsOf(s) = IF s \in given[r] THEN all ELSE {}
    <3>1. r \in Runs
      BY <1>0, <2>3 DEF CorpusTypeOK
    <3>2. CASE s \in given[r]
      <4>1. Waiting(r) = {}
        BY <1>0, <2>3, <3>1 DEF Pending, Waiting, ToSet
      <4>2. \A k \in ChunksOf(s) : [key |-> k, run |-> r] \in rows
        BY <1>0, <3>1, <3>2, <4>1 DEF Ingesting
      <4>3. \A k \in ChunksOf(s) : [key |-> k, run |-> r] \in RowsOf(s)
        BY <2>1, <4>2 DEF RowsOf, Shared
      <4> QED
        BY <2>1, <2>2, <2>3, <3>2, <4>3
    <3>3. CASE s \notin given[r]
      BY <1>0, <2>3, <3>1, <3>3 DEF Apart
    <3> QED
      BY <3>2, <3>3
  <2> QED
    BY <2>0, <2>2, <2>3
<1>2. ForeignStaysOut
  <2>1. \A b \in Batches : (\A row \in prompt[b] : Shared(row) /\ Active(row)) /\ Cardinality(prompt[b]) = Cardinality(KeysIn(prompt[b]))
    BY <1>0, OnePerKey DEF Findings, NoneTwice
  <2> QED
    BY <1>0, <2>1 DEF ForeignStaysOut, Kept, Unshared
<1> QED
  BY <1>0, <1>1, <1>2

(* An ingested statute's chunks are all there to be found.                  *)
LEMMA IngestedIsNear ==
    ASSUME CorpusIInv, NEW s \in Sources, Ingested(s), NEW keys, keys \cap ToSet(KeysOf(s)) # {}
    PROVE  Near(keys) # {}
<1>0. CorpusTypeOK /\ Pending /\ Ingesting
  BY DEF CorpusIInv
<1> DEFINE r == wiped[s]
<1>1. r \in Runs /\ r # NoRun /\ s \in given[r] /\ at[r] = "done"
  BY <1>0, CorpusAssumption DEF CorpusTypeOK, Ingested
<1>2. Waiting(r) = {}
  BY <1>0, <1>1 DEF Pending, Waiting, ToSet
<1>3. PICK k \in keys : k \in ChunksOf(s) /\ k \notin Foreign
  BY <1>0, KeysAre DEF CorpusTypeOK
<1>4. [key |-> k, run |-> r] \in rows
  BY <1>0, <1>1, <1>2, <1>3 DEF Ingesting
<1> QED
  BY <1>1, <1>3, <1>4 DEF Near, Shared, Active

(* A step that leaves the invariant true grounds what a batch is told.      *)
GroundedStep ==
    \A b \in Batches :
        /\ pc[b] = "query" /\ pc'[b] \in {"embed", "ask"} =>
              \A s \in Sources :
                  Ingested(s) /\ Asked(b) \cap ToSet(KeysOf(s)) # {} => Matched(b)'
        /\ Matched(b) => Matched(b)' \/ pc'[b] \in {"annotated", "lost"}

LEMMA BatchMatches ==
    ASSUME CorpusIInv, NEW b \in Batches, BatchStep(b)
    PROVE  /\ pc[b] = "query" /\ pc'[b] \in {"embed", "ask"} => Query(b)
           /\ Matched(b) => Matched(b)' \/ pc'[b] \in {"annotated", "lost"}
<1>0. pc \in [Batches -> BatchStates] /\ (prompt[b] # {} => pc[b] = "ask")
  BY DEF CorpusIInv, CorpusTypeOK, BatchStates, Findings
<1>1. CASE Take(b)
  BY <1>0, <1>1 DEF Take, Matched
<1>2. CASE EmbedQuery(b)
  <2>1. CASE Lose(b)
    BY <1>0, <1>2, <2>1 DEF Lose, EmbedQuery
  <2>2. CASE UNCHANGED <<found, prompt>>
    BY <1>0, <1>2, <2>2 DEF Matched, EmbedQuery
  <2> QED
    BY <1>2, <2>1, <2>2 DEF EmbedQuery
<1>3. CASE Query(b)
  BY <1>0, <1>3, QueryIs DEF Query, Matched
<1>4. CASE Blank(b)
  BY <1>0, <1>4, BlankIs DEF Blank, Matched
<1>5. CASE QueryRaises(b)
  BY <1>0, <1>5 DEF QueryRaises, Lose
<1>6. CASE Ask(b)
  <2>1. CASE Lose(b)
    BY <1>0, <1>6, <2>1 DEF Lose, Ask
  <2>2. CASE pc' = [pc EXCEPT ![b] = "annotated"]
    BY <1>0, <1>6, <2>2 DEF Ask
  <2>3. CASE UNCHANGED <<found, prompt>>
    BY <1>0, <1>6, <2>3 DEF Matched, Ask
  <2> QED
    BY <1>6, <2>1, <2>2, <2>3 DEF Ask
<1> QED
  BY <1>1, <1>2, <1>3, <1>4, <1>5, <1>6 DEF BatchStep

LEMMA StepGrounds ==
    ASSUME CorpusIInv, (\E r \in Runs : RunStep(r)) \/ (\E b \in Batches : BatchStep(b)) \/ UNCHANGED corpusVars
    PROVE  GroundedStep
<1>0. CASE UNCHANGED batchVars
  BY <1>0 DEF batchVars, GroundedStep, Matched
<1>1. CASE \E r \in Runs : RunStep(r)
  BY <1>0, <1>1 DEF RunStep, Start, Embed, Insert, Die
<1>2. CASE UNCHANGED corpusVars
  BY <1>0, <1>2 DEF corpusVars
<1>3. ASSUME NEW q \in Batches, BatchStep(q) PROVE GroundedStep
  <2> SUFFICES ASSUME NEW b \in Batches
               PROVE  /\ pc[b] = "query" /\ pc'[b] \in {"embed", "ask"} =>
                            \A s \in Sources :
                                Ingested(s) /\ Asked(b) \cap ToSet(KeysOf(s)) # {} => Matched(b)'
                      /\ Matched(b) => Matched(b)' \/ pc'[b] \in {"annotated", "lost"}
    BY DEF GroundedStep
  <2>1. CASE q # b
    <3>1. MovedOn(q) /\ Looks(q)
      BY <1>3, BatchIs
    <3>2. pc'[b] = pc[b] /\ found'[b] = found[b] /\ prompt'[b] = prompt[b]
      BY <2>1, <3>1 DEF MovedOn, Looks
    <3> QED
      BY <3>2 DEF Matched
  <2>2. CASE q = b
    <3>1. /\ pc[b] = "query" /\ pc'[b] \in {"embed", "ask"} => Query(b)
          /\ Matched(b) => Matched(b)' \/ pc'[b] \in {"annotated", "lost"}
      BY <1>3, <2>2, BatchMatches
    <3>2. ASSUME Query(b), NEW s \in Sources, Ingested(s), Asked(b) \cap ToSet(KeysOf(s)) # {}
          PROVE  Matched(b)'
      BY <3>2, IngestedIsNear, QueryIs
    <3> QED
      BY <3>1, <3>2
  <2> QED
    BY <2>1, <2>2
<1> QED
  BY <1>1, <1>2, <1>3

-----------------------------------------------------------------------------
(* All of the content together.                                             *)

Calling == call \in [Callers -> Cardinal!Call]
ContentIInv ==
    /\ CorpusIInv /\ Calling /\ StartupIInv
    /\ ReadersConsistent /\ ScriptConsistent /\ GuidesTypeOK

LEMMA GuidesInitIs == ASSUME GuidesInit PROVE ReadersConsistent /\ ScriptConsistent /\ GuidesTypeOK
<1>1. ReadersConsistent /\ ScriptConsistent
  BY InitReaders DEF GuidesInit, ScriptConsistent
<1>2. 0 \in 0..MaxStops
  BY GuidesAssumption
<1>3. open \in [Readers -> Entries \cup {NoEntry}]
  BY DEF GuidesInit
<1> QED
  BY <1>1, <1>2, <1>3 DEF GuidesInit, GuidesTypeOK, ReadersConsistent, Rows, Translations

LEMMA GuidesKeep ==
    ASSUME ReadersConsistent, ScriptConsistent, GuidesTypeOK, GuidesNext
    PROVE  ReadersConsistent' /\ ScriptConsistent' /\ GuidesTypeOK'
<1>1. ReadersConsistent' /\ ScriptConsistent'
  BY GuidesStep
<1>2. script' \in {"idle", "running", "done", "dead"} /\ stops' \in 0..MaxStops
      /\ open' \in [Readers -> Entries \cup {NoEntry}]
  <2>0. MaxStops \in Nat /\ stops \in 0..MaxStops
    BY GuidesAssumption DEF GuidesTypeOK
  <2>1. CASE StartScript \/ Translate \/ EndScript
    BY <2>1 DEF StartScript, Translate, EndScript, GuidesTypeOK, readVars
  <2>2. CASE StopScript
    BY <2>0, <2>2 DEF StopScript, GuidesTypeOK, readVars
  <2>3. ASSUME NEW r \in Readers, ReaderNext(r) 
        PROVE  script' \in {"idle", "running", "done", "dead"} /\ stops' \in 0..MaxStops
               /\ open' \in [Readers -> Entries \cup {NoEntry}]
    BY <2>3 DEF ReaderNext, List, ListEnglish, Back, Open, GuidesTypeOK, guideScript
  <2> QED
    BY <2>1, <2>2, <2>3 DEF GuidesNext, ScriptNext
<1> QED
  BY <1>1, <1>2 DEF GuidesTypeOK, ReadersConsistent, Rows, Translations

LEMMA CallsKeep == ASSUME Calling, Cardinal!ProvidersNext PROVE Calling'
<1>1. PICK c \in Callers : Cardinal!Attempt(c)
  BY DEF Cardinal!ProvidersNext
<1>2. PICK next \in Cardinal!Tried(call[c]) : call' = [call EXCEPT ![c] = next]
  BY <1>1 DEF Cardinal!Attempt
<1>3. next \in Cardinal!Call
  <2>1. Attempts \in Nat \ {0} /\ call[c] \in Cardinal!Call
    BY CorpusAssumption DEF Calling
  <2>2. PICK o \in Cardinal!Outcomes : next = Cardinal!After(call[c], o)
    BY DEF Cardinal!Tried
  <2>3. CASE call[c].tries < Attempts
    BY <2>1, <2>2, <2>3 DEF Cardinal!After, Cardinal!Call
  <2>4. CASE ~(call[c].tries < Attempts)
    BY <2>1, <2>2, <2>4 DEF Cardinal!After, Cardinal!Call
  <2> QED
    BY <2>3, <2>4
<1> QED
  BY <1>2, <1>3 DEF Calling

LEMMA CallsInit == ASSUME Cardinal!ProvidersInit PROVE Calling
<1>1. PICK choice \in Selections : call = [c \in Callers |-> Cardinal!Fresh(Cardinal!Selected(choice))]
  BY DEF Cardinal!ProvidersInit
<1>2. Cardinal!Fresh(Cardinal!Selected(choice)) \in Cardinal!Call
  <2>1. 1 \in 1..Attempts
    BY CorpusAssumption
  <2> QED
    BY <2>1 DEF Cardinal!Fresh, Cardinal!Selected, Cardinal!Call, Cardinal!Kinds
<1> QED
  BY <1>1, <1>2 DEF Calling

(* What stands still while another of them moves.                           *)
LEMMA CorpusStands == ASSUME CorpusIInv, UNCHANGED corpusVars PROVE CorpusIInv'
<1>0. CorpusTypeOK /\ Pending /\ Ingesting /\ Apart /\ Kept /\ Findings /\ IsFiniteSet(holds) /\ ConnectionsReturned
  BY DEF CorpusIInv
<1>1. UNCHANGED <<files, rows, at, given, embedding, left, wiped, together>>
      /\ UNCHANGED <<pc, clause, asking, holds, found, prompt>>
  BY DEF corpusVars, scriptVars, batchVars
<1>2. (\A s : ChunksOf(s)' = ChunksOf(s)) /\ (\A s : RowsOf(s)' = RowsOf(s)) /\ Unshared' = Unshared
      /\ AtWork' = AtWork /\ \A r : Waiting(r)' = Waiting(r)
  BY <1>1 DEF ChunksOf, Key, RowsOf, Shared, Active, Unshared, AtWork, Waiting
<1>3. CorpusTypeOK'
  BY <1>0, <1>1 DEF CorpusTypeOK
<1>4. Pending' /\ Ingesting' /\ Kept'
  BY <1>0, <1>1, <1>2 DEF Pending, Ingesting, Kept
<1>5. Apart'
  BY <1>0, <1>1, <1>2 DEF Apart
<1>6. Findings' /\ ConnectionsReturned' /\ IsFiniteSet(holds')
  BY <1>0, <1>1 DEF Findings, NoneTwice, Shared, Active, ConnectionsReturned
<1> QED
  BY <1>3, <1>4, <1>5, <1>6 DEF CorpusIInv

LEMMA StartupStands == ASSUME StartupIInv, UNCHANGED bootVars PROVE StartupIInv'
<1>1. UNCHANGED <<schema, seeded, level, version, boot>>
  BY DEF bootVars
<1>2. BootsBegun' = BootsBegun /\ BootsEnded' = BootsEnded
  BY <1>1 DEF BootsBegun, BootsEnded
<1>3. \A b : Alone(b)' <=> Alone(b)
  BY <1>1, <1>2 DEF Alone, Beside
<1>4. Spoiled' <=> Spoiled
  BY <1>1 DEF Spoiled
<1>5. StartupTypeOK' /\ Recorded' /\ Stepwise'
  BY <1>1, <1>2 DEF StartupIInv, StartupTypeOK, Recorded, Stepwise
<1>6. Undisturbed'
  BY <1>1, <1>3, <1>4 DEF StartupIInv, Undisturbed
<1>7. OneByOne'
  BY <1>1, <1>3, <1>4 DEF StartupIInv, OneByOne
<1> QED
  BY <1>5, <1>6, <1>7 DEF StartupIInv

LEMMA GuidesStand ==
    ASSUME ReadersConsistent, ScriptConsistent, GuidesTypeOK, UNCHANGED guideVars
    PROVE  ReadersConsistent' /\ ScriptConsistent' /\ GuidesTypeOK'
<1>1. UNCHANGED <<active, texts, script, todo, stops>> /\ UNCHANGED <<view, asked, wizard, shown, told, open, got>>
  BY DEF guideVars
<1>2. ReadersConsistent' /\ ScriptConsistent'
  BY <1>1 DEF ReadersConsistent, ScriptConsistent
<1> QED
  BY <1>1, <1>2 DEF GuidesTypeOK

LEMMA ContentInit == ASSUME Init PROVE ContentIInv
BY GuidesInitIs, CorpusInitIs, CallsInit, StartsInit DEF Init, ContentIInv

LEMMA ContentStep == ASSUME ContentIInv, [Next]_vars PROVE ContentIInv'
<1>0. /\ CorpusIInv /\ Calling /\ StartupIInv
      /\ ReadersConsistent /\ ScriptConsistent /\ GuidesTypeOK
  BY DEF ContentIInv
<1>1. UNCHANGED corpusVars \/ (\E r \in Runs : RunStep(r)) \/ \E b \in Batches : BatchStep(b)
  BY DEF Next, Script, Pooled, Guided, Called, Booted, vars
<1>2. CorpusIInv'
  BY <1>0, <1>1, CorpusStands, ScriptKeeps, BatchKeeps
<1>3. UNCHANGED guideVars \/ GuidesNext
  BY DEF Next, Script, Pooled, Guided, Called, Booted, vars
<1>4. ReadersConsistent' /\ ScriptConsistent' /\ GuidesTypeOK'
  BY <1>0, <1>3, GuidesStand, GuidesKeep
<1>5. UNCHANGED call \/ Cardinal!ProvidersNext
  BY DEF Next, Script, Pooled, Guided, Called, Booted, vars
<1>6. Calling'
  BY <1>0, <1>5, CallsKeep DEF Calling
<1>7. UNCHANGED bootVars \/ StartupNext
  BY DEF Next, Script, Pooled, Guided, Called, Booted, vars
<1>8. StartupIInv'
  BY <1>0, <1>7, StartupStands, StartsStep
<1> QED
  BY <1>2, <1>4, <1>6, <1>8 DEF ContentIInv

LEMMA ContentInvariance == Spec => []ContentIInv
BY ContentInit, ContentStep, PTL DEF Spec

(* Whatever the script, the translations, the starts and the calls of the   *)
(* model do between the steps of each other: types, the corpus as it was    *)
(* last ingested, the pool's connections, the lists and the starts that     *)
(* repair what earlier ones left (Inv); and the chunker and the extraction, *)
(* which have no steps.                                                     *)
THEOREM ContentInvHolds == Spec => []Inv
<1>1. ContentIInv => Inv
  <2> SUFFICES ASSUME ContentIInv PROVE Inv
    OBVIOUS
  <2>1. CorpusTypeOK /\ AsLastIngested /\ ForeignStaysOut /\ ConnectionsReturned
    BY CorpusImplies DEF ContentIInv
  <2>2. StartupTypeOK /\ StartsRepair /\ OnlyStampSpoils
    BY StartsImply DEF ContentIInv
  <2>3. GuidesTypeOK /\ ListedIsServed /\ CompleteWhenDone
    BY GuidesImply DEF ContentIInv
  <2> QED
    BY <2>1, <2>2, <2>3, OnlyShortIsLeftOutHolds, HintCostsNothingHolds DEF ContentIInv, Calling, Inv
<1> QED
  BY <1>1, ContentInvariance, PTL

(* A batch is told that the corpus has nothing only while no statute is     *)
(* ingested, whatever the script does between its queries (stage2.py:       *)
(* 217-242).                                                                *)
THEOREM GroundedOnceIngestedHolds == Spec => GroundedOnceIngested
<1>1. ContentIInv /\ [Next]_vars => [GroundedStep]_corpusVars
  <2> SUFFICES ASSUME ContentIInv, [Next]_vars PROVE GroundedStep
    OBVIOUS
  <2>1. UNCHANGED corpusVars \/ (\E r \in Runs : RunStep(r)) \/ \E b \in Batches : BatchStep(b)
    BY DEF Next, Script, Pooled, Guided, Called, Booted, vars
  <2> QED
    BY <2>1, StepGrounds DEF ContentIInv
<1>2. [][GroundedStep]_corpusVars => GroundedOnceIngested
  BY PTL DEF GroundedOnceIngested, GroundedStep
<1> QED
  BY <1>1, <1>2, ContentInvariance, PTL DEF Spec

-----------------------------------------------------------------------------
(* The facts of a tap.  What was found was among the bound data points; and *)
(* where a rider or a restaurant was, the order was before it.              *)
Fetched(facts, p, known, broken) == IF p \notin broken /\ Finds(p, facts, known) THEN facts \cup {p} ELSE facts

LEMMA ResolvedIs ==
    ASSUME NEW order \in Seq(Points), NEW known, NEW broken
    PROVE  \E g \in [0..Len(order) -> SUBSET Points] :
              /\ g[0] = {} /\ \A i \in 1..Len(order) : g[i] = Fetched(g[i - 1], order[i], known, broken)
              /\ Resolved(order, known, broken) = g[Len(order)]
<1> DEFINE n == Len(order)
           F == [x \in (SUBSET Points) \X (1..n) |-> Fetched(x[1], order[x[2]], known, broken)]
           Def(it) == it = [S \in SUBSET (DOMAIN order) |->
                              IF S = {} THEN {} ELSE Fetched(it[S \ {Max(S)}], order[Max(S)], known, broken)]
           it == CHOOSE x : Def(x)
<1>1. n \in Nat /\ DOMAIN order = 1..n
  OBVIOUS
<1>2. F \in [(SUBSET Points) \X (1..n) -> SUBSET Points]
  <2>1. \A i \in 1..n : order[i] \in Points
    OBVIOUS
  <2> QED
    BY <2>1 DEF Fetched
<1>3. \A x \in SUBSET Points, i \in 1..n : F[<<x, i>>] = Fetched(x, order[i], known, broken)
  OBVIOUS
<1>4. PICK h \in [SUBSET (1..n) -> SUBSET Points] : Folds(h, {}, F, n)
  <2> HIDE DEF F
  <2> QED
    BY <1>1, <1>2, FolderExists
<1> HIDE DEF F
<1>5. Def(h)
  <2>1. ASSUME NEW S \in SUBSET (1..n), S # {}
        PROVE  F[<<h[S \ {Max(S)}], Max(S)>>] = Fetched(h[S \ {Max(S)}], order[Max(S)], known, broken)
    <3>1. Max(S) \in 1..n
      <4>1. S \in SUBSET Int /\ n \in Int /\ \A k \in S : k <= n
        BY <1>1
      <4> HIDE DEF n
      <4> QED
        BY ONLY <2>1, <4>1, MaxOf
    <3>2. h[S \ {Max(S)}] \in SUBSET Points
      BY <2>1
    <3> QED
      BY <1>3, <3>1, <3>2
  <2> QED
    BY <1>1, <1>4, <2>1 DEF Folds
<1>6. Def(it)
  <2> HIDE DEF Def
  <2> QED BY <1>5
<1>7. Resolved(order, known, broken) = it[DOMAIN order]
  BY DEF Resolved, FoldLeft, MapThenFoldSet, Fetched
<1> HIDE DEF it
<1> DEFINE g == [i \in 0..n |-> it[1..i]]
<1>8. g[0] = {} /\ Resolved(order, known, broken) = g[n]
  BY <1>1, <1>6, <1>7
<1>9. ASSUME NEW i \in 1..n PROVE g[i] = Fetched(g[i - 1], order[i], known, broken)
  <2>1. Max(1..i) = i /\ (1..i) \ {i} = 1..(i - 1)
    BY MaxIs
  <2>2. 1..i \in SUBSET (DOMAIN order) /\ 1 \in 1..i
    OBVIOUS
  <2>3. it[1..i] = Fetched(it[1..(i - 1)], order[i], known, broken)
    <3>1. it[1..i] = Fetched(it[(1..i) \ {Max(1..i)}], order[Max(1..i)], known, broken)
      BY <1>6, <2>2
    <3> HIDE DEF Def
    <3> QED BY ONLY <2>1, <3>1
  <2>4. i \in 0..n /\ i - 1 \in 0..n
    OBVIOUS
  <2> QED
    BY <2>3, <2>4
<1> HIDE DEF g, n
<1>10. ASSUME NEW i \in 1..n, g[i - 1] \in SUBSET Points PROVE g[i] \in SUBSET Points
  <2>1. order[i] \in Points
    BY DEF n
  <2> QED
    BY <1>9, <1>10, <2>1 DEF Fetched
<1>11. g \in [0..n -> SUBSET Points]
  <2> DEFINE P == {i \in 0..n : g[i] \in SUBSET Points}
  <2>1. 0 \in P
    BY <1>1, <1>8
  <2>2. ASSUME NEW i \in P, i < n PROVE i + 1 \in P
    <3>1. i + 1 \in 1..n /\ (i + 1) - 1 = i /\ i + 1 \in 0..n
      BY <2>2, <1>1
    <3> QED
      BY <1>10, <3>1
  <2>3. 0..n \subseteq P
    <3> HIDE DEF P
    <3> QED
      BY <1>1, <2>1, <2>2, Induction
  <2>4. g = [i \in 0..n |-> g[i]]
    BY DEF g
  <2> QED
    BY <2>3, <2>4
<1> QED
  BY <1>8, <1>9, <1>11 DEF n

(* The bound points come by their sort orders, and a rider or a restaurant  *)
(* is only found after the order.                                           *)
LEMMA FactsInOrder ==
    ASSUME NEW bound \in Bound, NEW order \in Ordered(bound), NEW known, NEW broken, IsFiniteSet(Points)
    PROVE  LET facts == Resolved(order, known, broken)
           IN  /\ facts \subseteq Points
               /\ \A p \in facts \cap {"rider", "restaurant"} : "order" \in facts /\ bound["order"] <= bound[p]
<1> DEFINE some == {p \in Points : bound[p] > 0}
<1>1. Cardinality(some) \in Nat
  <2>1. IsFiniteSet(some)
    BY FS_Subset
  <2> QED
    BY <2>1, FS_CardinalityType
<1>2. order \in Seq(Points) /\ \A i, j \in 1..Len(order) : i < j => bound[order[i]] <= bound[order[j]]
  <2>1. order \in [1..Cardinality(some) -> some]
    BY DEF Ordered, SetToSeqs
  <2>2. order \in Seq(Points) /\ DOMAIN order = 1..Len(order)
    <3> DEFINE c == Cardinality(some)
    <3>1. c \in Nat /\ order \in [1..c -> Points]
      BY <1>1, <2>1
    <3> HIDE DEF c
    <3> QED
      BY ONLY <3>1
  <2> QED
    BY <2>2 DEF Ordered
<1> DEFINE n == Len(order)
<1>3. PICK g \in [0..n -> SUBSET Points] :
         /\ g[0] = {} /\ \A i \in 1..n : g[i] = Fetched(g[i - 1], order[i], known, broken)
         /\ Resolved(order, known, broken) = g[n]
  BY <1>2, ResolvedIs
<1> DEFINE Early(i, p) == \E j \in 1..i : order[j] = p
           Good(i) == \A p \in g[i] :
                        /\ Early(i, p)
                        /\ p \in {"rider", "restaurant"} => "order" \in g[i] /\ bound["order"] <= bound[p]
           P == {i \in 0..n : Good(i)}
<1>4. n \in Nat
  BY <1>2
<1>5. 0 \in P
  BY <1>3, <1>4
<1>6. ASSUME NEW i \in P, i < n PROVE i + 1 \in P
  <2>1. i \in Nat /\ i + 1 \in 1..n /\ i + 1 \in 0..n /\ (i + 1) - 1 = i
    BY <1>4, <1>6
  <2>2. Good(i) /\ g[i + 1] = Fetched(g[i], order[i + 1], known, broken)
    BY <1>3, <2>1
  <2>3. \A p \in g[i] : Early(i + 1, p)
    BY <2>1, <2>2
  <2>4. Early(i + 1, order[i + 1])
    BY <2>1
  <2>5. ASSUME order[i + 1] \in {"rider", "restaurant"}, Finds(order[i + 1], g[i], known)
        PROVE  "order" \in g[i] /\ bound["order"] <= bound[order[i + 1]]
    <3>1. "order" \in g[i]
      BY <2>5 DEF Finds
    <3>2. PICK j \in 1..i : order[j] = "order"
      BY <2>2, <3>1
    <3>3. j \in 1..n /\ j < i + 1
      BY <2>1, <1>4
    <3>4. bound[order[j]] <= bound[order[i + 1]]
      BY <1>2, <2>1, <3>3
    <3> QED
      BY <3>1, <3>2, <3>4
  <2>6. Good(i + 1)
    <3>1. CASE g[i + 1] = g[i]
      BY <2>2, <2>3, <3>1
    <3>2. CASE g[i + 1] = g[i] \cup {order[i + 1]} /\ Finds(order[i + 1], g[i], known)
      BY <2>2, <2>3, <2>4, <2>5, <3>2
    <3> QED
      BY <2>2, <3>1, <3>2 DEF Fetched
  <2> HIDE DEF Good
  <2> QED
    BY <2>1, <2>6
<1>7. 0..n \subseteq P
  <2> HIDE DEF P, n
  <2> QED
    BY <1>4, <1>5, <1>6, Induction
<1>8. n \in 0..n
  BY <1>4
<1>9. Good(n)
  BY <1>7, <1>8
<1> HIDE DEF n
<1>10. g[n] \subseteq Points
  BY <1>3, <1>8
<1> QED
  BY <1>3, <1>9, <1>10

(* What is rendered is something, and shows only facts.                     *)
Said(out, sentence, facts) == IF sentence \subseteq facts THEN Append(out, sentence) ELSE out

LEMMA RenderedIs ==
    ASSUME NEW template \in Seq(SUBSET Points), NEW facts
    PROVE  /\ Rendered(template, facts) \in Seq(SUBSET Points) /\ Rendered(template, facts) # <<>>
           /\ \A i \in DOMAIN Rendered(template, facts) : Rendered(template, facts)[i] \subseteq facts
<1> DEFINE n == Len(template)
           A == Seq((SUBSET Points) \cap SUBSET facts)
           F == [x \in A \X (1..n) |-> Said(x[1], template[x[2]], facts)]
           Def(it) == it = [S \in SUBSET (DOMAIN template) |->
                              IF S = {} THEN <<>> ELSE Said(it[S \ {Max(S)}], template[Max(S)], facts)]
           it == CHOOSE x : Def(x)
           kept == FoldLeft(LAMBDA out, sentence : IF sentence \subseteq facts THEN Append(out, sentence) ELSE out,
                            <<>>, template)
<1>1. n \in Nat /\ DOMAIN template = 1..n
  OBVIOUS
<1>2. ASSUME NEW x \in A, NEW i \in 1..n PROVE Said(x, template[i], facts) \in A
  <2>1. template[i] \in SUBSET Points
    OBVIOUS
  <2>2. CASE template[i] \subseteq facts
    <3>1. template[i] \in (SUBSET Points) \cap SUBSET facts
      BY <2>1, <2>2
    <3> QED
      BY <2>2, <3>1 DEF Said
  <2>3. CASE ~(template[i] \subseteq facts)
    BY <2>3 DEF Said
  <2> QED
    BY <2>2, <2>3
<1>3. F \in [A \X (1..n) -> A] /\ \A x \in A, i \in 1..n : F[<<x, i>>] = Said(x, template[i], facts)
  <2> HIDE DEF A, n
  <2> QED
    BY <1>2
<1>4. <<>> \in A
  OBVIOUS
<1> HIDE DEF A, F
<1>5. PICK h \in [SUBSET (1..n) -> A] : Folds(h, <<>>, F, n)
  BY <1>1, <1>3, <1>4, FolderExists
<1>6. Def(h)
  <2>1. ASSUME NEW S \in SUBSET (1..n), S # {}
        PROVE  F[<<h[S \ {Max(S)}], Max(S)>>] = Said(h[S \ {Max(S)}], template[Max(S)], facts)
    <3>1. Max(S) \in 1..n
      <4>1. S \in SUBSET Int /\ n \in Int /\ \A k \in S : k <= n
        BY <1>1
      <4> HIDE DEF n
      <4> QED
        BY ONLY <2>1, <4>1, MaxOf
    <3>2. h[S \ {Max(S)}] \in A
      BY <2>1
    <3> QED
      BY <1>3, <3>1, <3>2
  <2> QED
    BY <1>1, <1>5, <2>1 DEF Folds
<1>7. Def(it)
  <2> HIDE DEF Def
  <2> QED BY <1>6
<1>8. kept = it[DOMAIN template]
  BY DEF FoldLeft, MapThenFoldSet, Said
<1>9. Rendered(template, facts) = IF kept = <<>> THEN <<Neutral>> ELSE kept
  BY DEF Rendered
<1> HIDE DEF it, kept
<1>10. it[1..0] = <<>>
  BY <1>7
<1>11. ASSUME NEW i \in 1..n PROVE it[1..i] = Said(it[1..(i - 1)], template[i], facts)
  <2>1. Max(1..i) = i /\ (1..i) \ {i} = 1..(i - 1)
    BY MaxIs
  <2>2. 1..i \in SUBSET (DOMAIN template) /\ 1 \in 1..i
    OBVIOUS
  <2>3. it[1..i] = Said(it[(1..i) \ {Max(1..i)}], template[Max(1..i)], facts)
    BY <1>7, <2>2
  <2> HIDE DEF Def
  <2> QED
    BY ONLY <2>1, <2>3
<1>12. kept \in A
  <2> DEFINE P == {i \in 0..n : it[1..i] \in A}
  <2>1. 0 \in P
    BY <1>1, <1>4, <1>10
  <2>2. ASSUME NEW i \in P, i < n PROVE i + 1 \in P
    <3>1. i + 1 \in 1..n /\ (i + 1) - 1 = i /\ i + 1 \in 0..n
      BY <2>2, <1>1
    <3> QED
      BY <1>2, <1>11, <3>1
  <2>3. 0..n \subseteq P
    <3> HIDE DEF P, n
    <3> QED
      BY <1>1, <2>1, <2>2, Induction
  <2>4. n \in 0..n
    BY <1>1
  <2> QED
    BY <1>1, <1>8, <2>3, <2>4
<1>13. kept \in Seq(SUBSET Points) /\ \A i \in DOMAIN kept : kept[i] \subseteq facts
  BY <1>12 DEF A
<1>14. /\ <<Neutral>> \in Seq(SUBSET Points) /\ <<Neutral>> # <<>>
       /\ \A i \in DOMAIN <<Neutral>> : <<Neutral>>[i] \subseteq facts
  BY DEF Neutral
<1>15. CASE kept = <<>>
  <2>1. Rendered(template, facts) = <<Neutral>>
    BY <1>9, <1>15
  <2> QED
    BY <1>14, <2>1, Zenon
<1>16. CASE kept # <<>>
  <2>1. Rendered(template, facts) = kept
    BY <1>9, <1>16
  <2> QED
    BY <1>13, <1>16, <2>1, Zenon
<1> QED
  BY <1>15, <1>16

-----------------------------------------------------------------------------
(* The studio.  A request is typed by its record; what it is about follows  *)
(* its kind; and those it saw ended are ended.                              *)
RequestKinds == {"idle", "addUnit", "editUnit", "dropUnit", "addType", "editType", "dropType", "bind", "template", "tap"}
Request ==
    [kind : RequestKinds, pc : {"idle", "sent", "read"} \cup Ends, unit : Places, type : Types \cup {"none"},
     place : Places, active : BOOLEAN, list : Bound, template : Templates \cup {<<>>},
     state : {"none", "active", "inactive"}, was : [place : Places, active : BOOLEAN], copy : Bound,
     facts : SUBSET Points, ack : Seq(SUBSET Points), before : SUBSET Requests]
About(q) ==
    /\ q.kind \in {"addUnit", "editUnit", "dropUnit"} => q.unit \in Units
    /\ q.kind \in {"addType", "editType", "dropType", "bind", "template", "tap"} => q.type \in Types
    /\ q.pc \in {"sent", "read"} /\ q.kind \in {"addType", "editType"} => q.place \in Units
    /\ q.pc \in {"sent", "read"} /\ q.kind = "bind" => q.list \in Lists
    /\ q.pc \in {"sent", "read"} /\ q.kind = "template" => q.template \in Templates
Requested ==
    /\ req \in [Requests -> Request]
    /\ \A r \in Requests : About(req[r]) /\ req[r].before \subseteq Ended

(* What a step of a request does to the requests.                           *)
Moves(r) ==
    /\ \A q \in Requests \ {r} : req'[q] = req[q]
    /\ req' \in [Requests -> Request] /\ About(req'[r]) /\ req'[r].pc # "idle"
    /\ IF At(r, "idle") THEN req'[r].before = Ended /\ req'[r].pc = "sent"
       ELSE /\ req[r].pc \in {"sent", "read"} /\ req'[r].pc \in {"read"} \cup Ends
            /\ req'[r].kind = req[r].kind /\ req'[r].unit = req[r].unit /\ req'[r].type = req[r].type
            /\ req'[r].before = req[r].before

LEMMA NotYetIs == NotYet \in Request /\ About(NotYet)
<1>1. Unbound \in Bound /\ Absent \in [place : Places, active : BOOLEAN]
  BY DEF Unbound, Bound, Absent, Places
<1>2. <<>> \in Seq(SUBSET Points)
  OBVIOUS
<1> QED
  BY <1>1, <1>2 DEF NotYet, Request, About, RequestKinds, Places

LEMMA SendIs ==
    ASSUME Requested, NEW r \in Requests, NEW what \in Request, Send(r, what), About([what EXCEPT !.pc = "sent"])
    PROVE  Moves(r)
<1>1. At(r, "idle") /\ Ended \subseteq Requests
  BY DEF Send, NextUp, Begun, At, Ended
<1>2. req' = [req EXCEPT ![r] = [what EXCEPT !.pc = "sent", !.before = Ended]]
  BY DEF Send
<1>3. [what EXCEPT !.pc = "sent", !.before = Ended] \in Request
  BY <1>1 DEF Request
<1>4. About([what EXCEPT !.pc = "sent", !.before = Ended])
  BY DEF About, Request
<1> QED
  BY <1>1, <1>2, <1>3, <1>4 DEF Moves, Requested, Request

LEMMA EndIs ==
    ASSUME Requested, NEW r \in Requests, NEW how \in Ends, End(r, how), req[r].pc \in {"sent", "read"}
    PROVE  Moves(r) /\ req'[r].pc = how
<1> DEFINE q == req[r]
           e == [NotYet EXCEPT !.kind = q.kind, !.pc = how, !.unit = q.unit, !.type = q.type, !.before = q.before]
<1>1. q \in Request /\ About(q)
  BY DEF Requested
<1>2. req' = [req EXCEPT ![r] = e]
  BY DEF End
<1>3. /\ e \in Request /\ e.pc = how /\ e.kind = q.kind /\ e.unit = q.unit /\ e.type = q.type
      /\ e.before = q.before
  BY <1>1, NotYetIs, ZenonT(30) DEF Request
<1>4. About(e)
  <2> HIDE DEF e
  <2> QED BY <1>1, <1>3 DEF About, Ends
<1>5. req'[r] = e /\ req' \in [Requests -> Request] /\ \A s \in Requests \ {r} : req'[s] = req[s]
  <2> HIDE DEF e
  <2> QED BY <1>2, <1>3 DEF Requested
<1>6. ~At(r, "idle") /\ how # "idle"
  BY DEF At, Ends
<1> HIDE DEF e
<1> QED
  BY <1>3, <1>4, <1>5, <1>6 DEF Moves

LEMMA GotoIs ==
    ASSUME Requested, NEW r \in Requests, Goto(r, "read"), At(r, "sent")
    PROVE  Moves(r) /\ req'[r] = [req[r] EXCEPT !.pc = "read"]
<1>1. req[r] \in Request /\ About(req[r])
  BY DEF Requested
<1>2. [req[r] EXCEPT !.pc = "read"] \in Request /\ About([req[r] EXCEPT !.pc = "read"])
  BY <1>1 DEF Request, About, At
<1> QED
  BY <1>1, <1>2 DEF Goto, Moves, Requested, At, Request

(* Of two requests that are both under way neither was there before the     *)
(* other.                                                                   *)
UnderWay(r) == req[r].pc \in {"sent", "read"}
LEMMA BothUnderWay ==
    ASSUME Requested, NEW q \in Requests, NEW r \in Requests, q # r, UnderWay(q), UnderWay(r)
    PROVE  Overlap(q, r)
<1>1. q \notin Ended /\ r \notin Ended /\ ~At(q, "idle") /\ ~At(r, "idle")
  BY DEF UnderWay, Ended, Ends, At
<1> QED
  BY <1>1 DEF Requested, Overlap, Begun

(* Requests stay about what they are about, and overlap for ever.           *)
LEMMA MovesKeep ==
    ASSUME Requested, NEW r \in Requests, Moves(r)
    PROVE  /\ Requested'
           /\ Ended \subseteq Ended' /\ Begun \subseteq Begun'
           /\ \A q \in Begun : /\ req'[q].kind = req[q].kind /\ req'[q].unit = req[q].unit
                               /\ req'[q].type = req[q].type /\ req'[q].before = req[q].before
           /\ \A p, q \in Requests : Overlap(p, q) => Overlap(p, q)'
<1>1. Ended \subseteq Ended'
  <2> SUFFICES ASSUME NEW q \in Ended PROVE q \in Ended'
    OBVIOUS
  <2>1. q # r
    BY DEF Moves, Ended, At, Ends
  <2> QED
    BY <2>1 DEF Moves, Ended
<1>2. Begun \subseteq Begun'
  BY DEF Moves, Begun, At
<1>3. \A q \in Begun : /\ req'[q].kind = req[q].kind /\ req'[q].unit = req[q].unit
                        /\ req'[q].type = req[q].type /\ req'[q].before = req[q].before
  BY DEF Moves, Begun
<1>4. ASSUME NEW q \in Requests PROVE About(req'[q]) /\ req'[q].before \subseteq Ended'
  <2>1. CASE q = r
    BY <2>1, <1>1 DEF Moves, Requested
  <2>2. CASE q # r
    BY <2>2, <1>1 DEF Moves, Requested
  <2> QED
    BY <2>1, <2>2
<1>5. Requested'
  BY <1>4 DEF Requested, Moves
<1>6. ASSUME NEW p \in Requests, NEW q \in Requests, Overlap(p, q) PROVE Overlap(p, q)'
  BY <1>2, <1>3, <1>6 DEF Overlap
<1> QED
  BY <1>1, <1>2, <1>3, <1>5, <1>6

(* Every action is a step of one request.                                   *)
Acting(r) ==
    \/ SendUnit(r) \/ SendType(r) \/ SendTap(r)
    \/ AddUnit(r) \/ EditUnitLoad(r) \/ EditUnit(r) \/ DropUnitLoad(r) \/ DropUnit(r)
    \/ TypeLoad(r) \/ AddType(r) \/ EditType(r) \/ DropType(r) \/ Bind(r) \/ SetTemplate(r)
    \/ TapLoad(r) \/ Acknowledge(r)

LEMMA SendMoves ==
    ASSUME Requested, NEW r \in Requests, SendUnit(r) \/ SendType(r) \/ SendTap(r)
    PROVE  Moves(r)
<1>0. NotYet \in Request
  BY NotYetIs
<1>1. CASE SendUnit(r)
  <2>1. PICK u \in Units, place \in Places :
          \/ Send(r, [NotYet EXCEPT !.kind = "addUnit", !.unit = u, !.place = place])
          \/ \E on \in BOOLEAN :
                Send(r, [NotYet EXCEPT !.kind = "editUnit", !.unit = u, !.place = place, !.active = on])
          \/ place = NoUnit /\ Send(r, [NotYet EXCEPT !.kind = "dropUnit", !.unit = u])
    BY <1>1 DEF SendUnit
  <2>2. ASSUME NEW w \in Request, Send(r, w), w.unit = u, w.kind \in {"addUnit", "editUnit", "dropUnit"}
        PROVE  Moves(r)
    <3>1. About([w EXCEPT !.pc = "sent"])
      BY <2>2 DEF About, Request
    <3> QED
      BY <2>2, <3>1, SendIs
  <2>4. CASE Send(r, [NotYet EXCEPT !.kind = "addUnit", !.unit = u, !.place = place])
    <3> DEFINE w == [NotYet EXCEPT !.kind = "addUnit", !.unit = u, !.place = place]
    <3>1. w \in Request /\ w.unit = u /\ w.kind = "addUnit"
      <4>1. "addUnit" \in RequestKinds /\ u \in Places
        BY DEF Places, RequestKinds
      <4> QED
        BY <1>0, <4>1 DEF Request
    <3> HIDE DEF w
    <3> QED
      BY <2>2, <2>4, <3>1 DEF w
  <2>5. ASSUME NEW on \in BOOLEAN,
               Send(r, [NotYet EXCEPT !.kind = "editUnit", !.unit = u, !.place = place, !.active = on])
        PROVE  Moves(r)
    <3> DEFINE w == [NotYet EXCEPT !.kind = "editUnit", !.unit = u, !.place = place, !.active = on]
    <3>1. w \in Request /\ w.unit = u /\ w.kind = "editUnit"
      <4>1. "editUnit" \in RequestKinds /\ u \in Places
        BY DEF Places, RequestKinds
      <4> QED
        BY <1>0, <4>1 DEF Request
    <3> HIDE DEF w
    <3> QED
      BY <2>2, <2>5, <3>1 DEF w
  <2>6. CASE Send(r, [NotYet EXCEPT !.kind = "dropUnit", !.unit = u])
    <3> DEFINE w == [NotYet EXCEPT !.kind = "dropUnit", !.unit = u]
    <3>1. w \in Request /\ w.unit = u /\ w.kind = "dropUnit"
      <4>1. "dropUnit" \in RequestKinds /\ u \in Places
        BY DEF Places, RequestKinds
      <4> QED
        BY <1>0, <4>1, ZenonT(30) DEF Request
    <3> HIDE DEF w
    <3> QED
      BY <2>2, <2>6, <3>1 DEF w
  <2> QED
    BY <2>1, <2>4, <2>5, <2>6, ZenonT(30)
<1>2. CASE SendType(r)
  <2>1. PICK t \in Types :
          \/ \E u \in Units : Send(r, [NotYet EXCEPT !.kind = "addType", !.type = t, !.place = u])
          \/ \E u \in Units, on \in BOOLEAN :
                Send(r, [NotYet EXCEPT !.kind = "editType", !.type = t, !.place = u, !.active = on])
          \/ Send(r, [NotYet EXCEPT !.kind = "dropType", !.type = t])
          \/ \E list \in Lists : Send(r, [NotYet EXCEPT !.kind = "bind", !.type = t, !.list = list])
          \/ \E p \in Templates, state \in {"active", "inactive", "none"} :
                Send(r, [NotYet EXCEPT !.kind = "template", !.type = t, !.template = p, !.state = state])
    BY <1>2 DEF SendType
  <2>2. ASSUME NEW w \in Request, Send(r, w), w.type = t,
               w.kind \in {"addType", "editType", "dropType", "bind", "template"},
               w.kind \in {"addType", "editType"} => w.place \in Units,
               w.kind = "bind" => w.list \in Lists, w.kind = "template" => w.template \in Templates
        PROVE  Moves(r)
    <3>1. About([w EXCEPT !.pc = "sent"])
      BY <2>2 DEF About, Request
    <3> QED
      BY <2>2, <3>1, SendIs
  <2>3. ASSUME NEW u \in Units, Send(r, [NotYet EXCEPT !.kind = "addType", !.type = t, !.place = u])
        PROVE  Moves(r)
    <3> DEFINE w == [NotYet EXCEPT !.kind = "addType", !.type = t, !.place = u]
    <3>1. w \in Request /\ w.type = t /\ w.kind = "addType" /\ w.place = u
      <4>1. "addType" \in RequestKinds /\ u \in Places /\ t \in Types \cup {"none"}
        BY DEF Places, RequestKinds
      <4> QED
        BY <1>0, <4>1 DEF Request
    <3> HIDE DEF w
    <3> QED
      BY <2>2, <2>3, <3>1 DEF w
  <2>4. ASSUME NEW u \in Units, NEW on \in BOOLEAN,
               Send(r, [NotYet EXCEPT !.kind = "editType", !.type = t, !.place = u, !.active = on])
        PROVE  Moves(r)
    <3> DEFINE w == [NotYet EXCEPT !.kind = "editType", !.type = t, !.place = u, !.active = on]
    <3>1. w \in Request /\ w.type = t /\ w.kind = "editType" /\ w.place = u
      <4>1. u \in Places /\ t \in Types \cup {"none"} /\ "editType" \in RequestKinds
        BY DEF Places, RequestKinds
      <4> QED
        BY <1>0, <4>1 DEF Request
    <3> HIDE DEF w
    <3> QED
      BY <2>2, <2>4, <3>1 DEF w
  <2>5. ASSUME Send(r, [NotYet EXCEPT !.kind = "dropType", !.type = t])
        PROVE  Moves(r)
    <3> DEFINE w == [NotYet EXCEPT !.kind = "dropType", !.type = t]
    <3>1. w \in Request /\ w.type = t /\ w.kind = "dropType"
      <4>1. "dropType" \in RequestKinds /\ t \in Types \cup {"none"}
        BY DEF Places, RequestKinds
      <4> QED
        BY <1>0, <4>1 DEF Request
    <3> HIDE DEF w
    <3> QED
      BY <2>2, <2>5, <3>1 DEF w
  <2>6. ASSUME NEW list \in Lists, Send(r, [NotYet EXCEPT !.kind = "bind", !.type = t, !.list = list])
        PROVE  Moves(r)
    <3> DEFINE w == [NotYet EXCEPT !.kind = "bind", !.type = t, !.list = list]
    <3>1. w \in Request /\ w.type = t /\ w.kind = "bind" /\ w.list = list
      <4>1. "bind" \in RequestKinds /\ t \in Types \cup {"none"}
        BY DEF Places, RequestKinds
      <4> QED
        BY <1>0, <4>1, StudioAssumption DEF Request
    <3> HIDE DEF w
    <3> QED
      BY <2>2, <2>6, <3>1 DEF w
  <2>7. ASSUME NEW p \in Templates, NEW state \in {"active", "inactive", "none"},
               Send(r, [NotYet EXCEPT !.kind = "template", !.type = t, !.template = p, !.state = state])
        PROVE  Moves(r)
    <3> DEFINE w == [NotYet EXCEPT !.kind = "template", !.type = t, !.template = p, !.state = state]
    <3>1. w \in Request /\ w.type = t /\ w.kind = "template" /\ w.template = p
      <4>1. "template" \in RequestKinds /\ t \in Types \cup {"none"}
        BY DEF Places, RequestKinds
      <4> QED
        BY <1>0, <4>1 DEF Request
    <3> HIDE DEF w
    <3> QED
      BY <2>2, <2>7, <3>1 DEF w
  <2> QED
    BY <2>1, <2>3, <2>4, <2>5, <2>6, <2>7
<1>3. CASE SendTap(r)
  <2>1. PICK t \in Types : Send(r, [NotYet EXCEPT !.kind = "tap", !.type = t])
    BY <1>3 DEF SendTap, Chips, In, LiveTypes
  <2> DEFINE w == [NotYet EXCEPT !.kind = "tap", !.type = t]
  <2>2. w \in Request /\ w.type = t /\ w.kind = "tap"
    BY <1>0 DEF Request, RequestKinds
  <2> HIDE DEF w
  <2>3. About([w EXCEPT !.pc = "sent"])
    BY <2>2 DEF About, Request
  <2> QED
    BY <2>1, <2>2, <2>3, SendIs DEF w
<1> QED
  BY <1>1, <1>2, <1>3

LEMMA UnitMoves ==
    ASSUME Requested, StudioTypeOK, NEW r \in Requests,
           AddUnit(r) \/ EditUnitLoad(r) \/ EditUnit(r) \/ DropUnitLoad(r) \/ DropUnit(r)
    PROVE  Moves(r)
<1>1. CASE AddUnit(r)
  BY <1>1, EndIs DEF AddUnit, Doing, Ends
<1>2. CASE EditUnitLoad(r)
  <2>1. CASE End(r, "refused")
    BY <1>2, <2>1, EndIs DEF EditUnitLoad, Doing, Ends
  <2>2. CASE ~End(r, "refused")
    <3> DEFINE was == [place |-> units[req[r].unit].parent, active |-> units[req[r].unit].active]
               q == [[req[r] EXCEPT !.pc = "read"] EXCEPT !.was = was]
    <3>1. req[r] \in Request /\ About(req[r]) /\ req[r].unit \in Units /\ Doing(r, "editUnit", "sent")
      BY <1>2 DEF EditUnitLoad, Doing, Requested, About
    <3>2. was \in [place : Places, active : BOOLEAN]
      BY <3>1 DEF StudioTypeOK, Unit
    <3>3. req' = [req EXCEPT ![r] = q]
      BY <1>2, <2>2 DEF EditUnitLoad, Requested
    <3> HIDE DEF was
    <3>4. q \in Request /\ q.pc = "read" /\ q.kind = req[r].kind /\ q.unit = req[r].unit /\ q.type = req[r].type
          /\ q.before = req[r].before /\ About(q)
      BY <3>1, <3>2 DEF Request, About, Doing
    <3> HIDE DEF q
    <3> QED
      BY <3>1, <3>3, <3>4 DEF Moves, Requested, Doing, At
  <2> QED
    BY <2>1, <2>2
<1>3. CASE EditUnit(r)
  BY <1>3, EndIs DEF EditUnit, Doing, Ends
<1>4. CASE DropUnitLoad(r)
  BY <1>4, EndIs, GotoIs DEF DropUnitLoad, Doing, Ends, At
<1>5. CASE DropUnit(r)
  BY <1>5, EndIs DEF DropUnit, Doing, Ends
<1> QED
  BY <1>1, <1>2, <1>3, <1>4, <1>5

LEMMA TypeLoadIs ==
    ASSUME Requested, StudioTypeOK, NEW r \in Requests, TypeLoad(r)
    PROVE  /\ Moves(r)
           /\ \/ req'[r].pc = "refused"
              \/ /\ req'[r].pc = "read" /\ req[r].kind # "addType" => types[req[r].type].exists
                 /\ req'[r].copy = IF req[r].kind = "bind" THEN links[req[r].type] ELSE Unbound
<1>1. CASE End(r, "refused")
  BY <1>1, EndIs DEF TypeLoad, At, Ends
<1>2. CASE ~End(r, "refused")
  <2> DEFINE copy == IF req[r].kind = "bind" THEN links[req[r].type] ELSE Unbound
             was == CASE req[r].kind = "editType" ->
                            [place |-> types[req[r].type].unit, active |-> types[req[r].type].active]
                      [] req[r].kind = "template" ->
                            [Absent EXCEPT !.active = templates[req[r].type][req[r].template] # "none"]
                      [] OTHER -> Absent
             q == [[[req[r] EXCEPT !.pc = "read"] EXCEPT !.copy = copy] EXCEPT !.was = was]
  <2>1. req[r] \in Request /\ About(req[r]) /\ req[r].pc = "sent" /\ req[r].type \in Types
    BY <1>2 DEF TypeLoad, At, Requested, About
  <2>2. copy \in Bound
    BY <2>1 DEF StudioTypeOK, Unbound, Bound
  <2>3. was \in [place : Places, active : BOOLEAN]
    BY <2>1 DEF StudioTypeOK, Type, Absent, Places
  <2>4. req' = [req EXCEPT ![r] = q]
    BY <1>2 DEF TypeLoad, Requested
  <2>5. req[r].kind # "addType" => types[req[r].type].exists
    BY <1>2 DEF TypeLoad
  <2> HIDE DEF copy, was
  <2>6. q \in Request /\ q.pc = "read" /\ q.kind = req[r].kind /\ q.unit = req[r].unit /\ q.type = req[r].type
        /\ q.before = req[r].before /\ About(q) /\ q.copy = copy
    BY <2>1, <2>2, <2>3 DEF Request, About
  <2> HIDE DEF q
  <2> QED
    BY <2>1, <2>4, <2>5, <2>6 DEF Moves, Requested, At, copy
<1> QED
  BY <1>1, <1>2

LEMMA TypeMoves ==
    ASSUME Requested, NEW r \in Requests,
           AddType(r) \/ EditType(r) \/ DropType(r) \/ Bind(r) \/ SetTemplate(r)
    PROVE  Moves(r) /\ req'[r].pc \in Ends
<1>1. CASE AddType(r)
  BY <1>1, EndIs DEF AddType, Doing, Ends
<1>2. CASE EditType(r)
  BY <1>2, EndIs DEF EditType, Doing, Ends
<1>3. CASE DropType(r)
  BY <1>3, EndIs DEF DropType, Doing, Ends
<1>4. CASE Bind(r)
  BY <1>4, EndIs DEF Bind, Doing, Ends
<1>5. CASE SetTemplate(r)
  BY <1>5, EndIs DEF SetTemplate, Doing, Ends
<1> QED
  BY <1>1, <1>2, <1>3, <1>4, <1>5

InOrder(q) == \A p \in q.facts \cap {"rider", "restaurant"} : "order" \in q.facts /\ q.copy["order"] <= q.copy[p]
Says(q) == q.ack # <<>> /\ \A i \in DOMAIN q.ack : q.ack[i] \subseteq q.facts

LEMMA TapLoadIs ==
    ASSUME Requested, StudioTypeOK, NEW r \in Requests, TapLoad(r)
    PROVE  Moves(r) /\ (req'[r].pc \in {"refused", "error"} \/ (req'[r].pc = "read" /\ InOrder(req'[r])))
<1>1. CASE End(r, "refused") \/ End(r, "error")
  BY <1>1, EndIs DEF TapLoad, Doing, Ends
<1>2. CASE ~(End(r, "refused") \/ End(r, "error"))
  <2> DEFINE bound == links[req[r].type]
  <2>1. req[r] \in Request /\ About(req[r]) /\ req[r].pc = "sent" /\ req[r].kind = "tap" /\ req[r].type \in Types
    BY <1>2 DEF TapLoad, Doing, Requested, About
  <2>2. bound \in Bound
    BY <2>1 DEF StudioTypeOK
  <2>3. PICK known \in SUBSET {"order", "customer"}, broken \in {{}, {"order"}}, order \in Ordered(bound) :
           req' = [req EXCEPT ![r].pc = "read", ![r].copy = bound, ![r].facts = Resolved(order, known, broken)]
    BY <1>2 DEF TapLoad
  <2> DEFINE facts == Resolved(order, known, broken)
             q == [[[req[r] EXCEPT !.pc = "read"] EXCEPT !.copy = bound] EXCEPT !.facts = facts]
  <2>4. facts \subseteq Points
        /\ \A p \in facts \cap {"rider", "restaurant"} : "order" \in facts /\ bound["order"] <= bound[p]
    <3> HIDE DEF bound
    <3>1. IsFiniteSet(Points)
      BY StudioAssumption
    <3> QED
      BY <2>2, <3>1, FactsInOrder
  <2>5. req' = [req EXCEPT ![r] = q]
    BY <2>3 DEF Requested
  <2> HIDE DEF bound, facts
  <2>6. q \in Request /\ q.pc = "read" /\ q.kind = req[r].kind /\ q.unit = req[r].unit /\ q.type = req[r].type
        /\ q.before = req[r].before /\ About(q) /\ q.copy = bound /\ q.facts = facts
    BY <2>1, <2>2, <2>4 DEF Request, About
  <2>7. InOrder(q)
    BY <2>4, <2>6 DEF InOrder
  <2> HIDE DEF q
  <2> QED
    BY <2>1, <2>5, <2>6, <2>7 DEF Moves, Requested, At
<1> QED
  BY <1>1, <1>2

LEMMA AcknowledgeIs ==
    ASSUME Requested, NEW r \in Requests, Acknowledge(r)
    PROVE  /\ Moves(r)
           /\ \/ req'[r].pc = "error"
              \/ /\ req'[r].pc = "done" /\ Says(req'[r])
                 /\ req'[r].facts = req[r].facts /\ req'[r].copy = req[r].copy
<1>1. CASE End(r, "error")
  BY <1>1, EndIs DEF Acknowledge, Doing, Ends
<1>2. CASE ~End(r, "error")
  <2>1. req[r] \in Request /\ About(req[r]) /\ req[r].pc = "read" /\ req[r].kind = "tap"
    BY <1>2 DEF Acknowledge, Doing, Requested
  <2> DEFINE pool == {p \in Templates : templates[req[r].type][p] = "active"}
  <2>2. PICK ack \in IF pool = {} THEN {<<Neutral>>} ELSE {Rendered(p, req[r].facts) : p \in pool} :
           req' = [req EXCEPT ![r].pc = "done", ![r].ack = ack]
    BY <1>2 DEF Acknowledge
  <2>3. ack \in Seq(SUBSET Points) /\ ack # <<>> /\ \A i \in DOMAIN ack : ack[i] \subseteq req[r].facts
    <3>1. CASE pool = {}
      <4>1. ack = <<{}>>
        BY <2>2, <3>1 DEF Neutral
      <4> QED
        BY ONLY <4>1
    <3>2. ASSUME NEW p \in Templates, ack = Rendered(p, req[r].facts)
          PROVE  ack \in Seq(SUBSET Points) /\ ack # <<>> /\ \A i \in DOMAIN ack : ack[i] \subseteq req[r].facts
      <4>1. p \in Seq(SUBSET Points)
        BY StudioAssumption
      <4> QED
        BY ONLY <3>2, <4>1, RenderedIs, Zenon
    <3> QED
      BY <2>2, <3>1, <3>2
  <2> DEFINE q == [[req[r] EXCEPT !.pc = "done"] EXCEPT !.ack = ack]
  <2>4. req' = [req EXCEPT ![r] = q]
    BY <2>2 DEF Requested
  <2>5. q \in Request /\ q.pc = "done" /\ q.kind = req[r].kind /\ q.unit = req[r].unit /\ q.type = req[r].type
        /\ q.before = req[r].before /\ About(q) /\ q.copy = req[r].copy /\ q.facts = req[r].facts /\ q.ack = ack
    BY <2>1, <2>3 DEF Request, About, Ends
  <2>6. Says(q)
    BY <2>3, <2>5 DEF Says
  <2> HIDE DEF q
  <2> QED
    BY <2>1, <2>4, <2>5, <2>6 DEF Moves, Requested, At, Ends
<1> QED
  BY <1>1, <1>2

LEMMA ActingMoves ==
    ASSUME Requested, StudioTypeOK, NEW r \in Requests, Acting(r)
    PROVE  Moves(r)
BY SendMoves, UnitMoves, TypeLoadIs, TypeMoves, TapLoadIs, AcknowledgeIs DEF Acting

-----------------------------------------------------------------------------
(* The cascade.  Below(u) goes down paths no longer than there are units;   *)
(* no child is left out, because a shortest path never comes to a unit      *)
(* twice.                                                                   *)
Path(path, n, u, v) ==
    path[1] = u /\ path[n] = v /\ \A i \in 2..n : units[path[i]].parent = path[i - 1]

LEMMA ShortestIsSimple ==
    ASSUME NEW n \in Nat \ {0}, NEW path \in [1..n -> LiveUnits], NEW u, NEW v, Path(path, n, u, v),
           \A m \in 1..(n - 1) : ~\E q \in [1..m -> LiveUnits] : Path(q, m, u, v)
    PROVE  \A i, j \in 1..n : path[i] = path[j] => i = j
<1> SUFFICES ASSUME NEW i \in 1..n, NEW j \in 1..n, path[i] = path[j], i < j PROVE FALSE
  OBVIOUS
<1> DEFINE d == j - i
           m == n - d
           q == [k \in 1..m |-> IF k <= i THEN path[k] ELSE path[k + d]]
<1>1. d \in Nat /\ d >= 1 /\ m \in 1..(n - 1) /\ i <= m
  OBVIOUS
<1>2. \A k \in 1..m : k \in 1..n /\ (k > i => k + d \in 1..n)
  OBVIOUS
<1>3. q \in [1..m -> LiveUnits]
  <2> HIDE DEF d, m
  <2> QED
    BY <1>2
<1>4. q[1] = u
  BY <1>1 DEF Path
<1>5. q[m] = v
  <2>1. m \in 1..m /\ m + d = n
    BY <1>1
  <2>2. CASE m = i
    BY <2>1, <2>2, <1>1 DEF Path
  <2>3. CASE m # i
    BY <2>1, <2>3, <1>1 DEF Path
  <2> QED
    BY <2>2, <2>3
<1>6. ASSUME NEW k \in 2..m PROVE units[q[k]].parent = q[k - 1]
  <2>1. k \in 1..m /\ k - 1 \in 1..m /\ k \in 2..n
    BY <1>1
  <2>2. CASE k <= i
    BY <2>1, <2>2 DEF Path
  <2>3. CASE k > i + 1
    <3>1. k + d \in 2..n /\ (k + d) - 1 = (k - 1) + d /\ k - 1 > i
      BY <2>1, <2>3, <1>1, <1>2
    <3>2. q[k] = path[k + d] /\ q[k - 1] = path[(k + d) - 1]
      <4> HIDE DEF d, m
      <4> QED
        BY <2>1, <2>3, <3>1
    <3> HIDE DEF q, d
    <3> QED
      BY <3>1, <3>2 DEF Path
  <2>4. CASE k = i + 1
    <3>1. q[k] = path[j + 1] /\ q[k - 1] = path[i] /\ j + 1 \in 2..n /\ (j + 1) - 1 = j
      BY <2>1, <2>4, <1>1, <1>2
    <3> HIDE DEF q
    <3> QED
      BY <3>1 DEF Path
  <2> QED
    BY <2>1, <2>2, <2>3, <2>4
<1> HIDE DEF q, m
<1> QED
  BY <1>1, <1>3, <1>4, <1>5, <1>6 DEF Path

LEMMA BelowIsClosed ==
    ASSUME NEW u, NEW v \in Below(u), NEW w \in LiveUnits, units[w].parent = v
    PROVE  w \in Below(u)
<1> DEFINE most == Cardinality(Units)
           T == {n \in 1..most : \E q \in [1..n -> LiveUnits] : Path(q, n, u, v)}
<1>0. IsFiniteSet(Units) /\ most \in Nat
  BY StudioAssumption, FS_CardinalityType
<1>1. T \in SUBSET Nat /\ T # {}
  <2>1. \E n \in 1..most : \E q \in [1..n -> LiveUnits] : Path(q, n, u, v)
    BY DEF Below, Path
  <2> QED
    BY <2>1
<1>2. PICK n \in T : \A k \in T : n <= k
  BY <1>1, Least
<1>3. PICK path \in [1..n -> LiveUnits] : Path(path, n, u, v)
  BY <1>2
<1>4. n \in Nat \ {0} /\ n \in 1..most
  BY <1>2
<1>5. \A m \in 1..(n - 1) : ~\E q \in [1..m -> LiveUnits] : Path(q, m, u, v)
  <2> SUFFICES ASSUME NEW m \in 1..(n - 1), \E q \in [1..m -> LiveUnits] : Path(q, m, u, v) PROVE FALSE
    OBVIOUS
  <2>1. m \in 1..most /\ m < n
    BY <1>0, <1>4
  <2>2. m \in T
    BY <2>1
  <2> QED
    BY <1>2, <2>1, <2>2
<1>6. \A i, j \in 1..n : path[i] = path[j] => i = j
  BY <1>3, <1>4, <1>5, ShortestIsSimple
<1> HIDE DEF most, T
<1>7. CASE n < most
  <2> DEFINE longer == [i \in 1..(n + 1) |-> IF i = n + 1 THEN w ELSE path[i]]
  <2>1. \A i \in 1..(n + 1) : i # n + 1 => i \in 1..n
    BY <1>4
  <2>2. longer \in [1..(n + 1) -> LiveUnits]
    BY <2>1
  <2>3. longer[1] = u /\ longer[n + 1] = w
    BY <1>3, <1>4 DEF Path
  <2>4. ASSUME NEW i \in 2..(n + 1) PROVE units[longer[i]].parent = longer[i - 1]
    <3>1. i \in 1..(n + 1) /\ i - 1 \in 1..n /\ i - 1 \in 1..(n + 1) /\ i - 1 # n + 1
      BY <1>4
    <3>2. CASE i = n + 1
      <4>1. i - 1 = n /\ n \in 1..(n + 1) /\ n # n + 1
        BY <1>4, <3>2
      <4>2. longer[i] = w /\ longer[n] = path[n] /\ path[n] = v
        BY <1>3, <3>1, <3>2, <4>1 DEF Path
      <4> HIDE DEF longer
      <4> QED
        BY <4>1, <4>2
    <3>3. CASE i # n + 1
      <4>1. i \in 2..n
        BY <1>4, <3>3
      <4> QED
        BY <1>3, <3>1, <3>3, <4>1 DEF Path
    <3> QED
      BY <3>2, <3>3
  <2>5. n + 1 \in 1..most
    BY <1>0, <1>4, <1>7
  <2> HIDE DEF longer
  <2> QED
    BY <2>2, <2>3, <2>4, <2>5 DEF Below, most
<1>8. CASE n = most
  <2>1. path \in Injection(1..n, Units)
    BY <1>6 DEF Injection, IsInjective, LiveUnits
  <2>2. Cardinality(1..n) = n
    BY <1>4, FS_Interval
  <2>3. path \in Surjection(1..n, Units)
    BY <1>0, <1>8, <2>1, <2>2, FS_Injection DEF most
  <2>4. PICK k \in 1..n : path[k] = w
    BY <2>3 DEF Surjection, LiveUnits
  <2> DEFINE start == [i \in 1..k |-> path[i]]
  <2>5. k \in 1..most /\ \A i \in 1..k : i \in 1..n
    BY <1>4, <1>8
  <2>6. start \in [1..k -> LiveUnits] /\ start[1] = u /\ start[k] = w
    BY <1>3, <2>4, <2>5 DEF Path
  <2>7. ASSUME NEW i \in 2..k PROVE units[start[i]].parent = start[i - 1]
    <3>1. i \in 1..k /\ i - 1 \in 1..k /\ i \in 2..n
      BY <2>5
    <3> QED
      BY <1>3, <3>1 DEF Path
  <2> HIDE DEF start
  <2> QED
    BY <2>5, <2>6, <2>7 DEF Below, most
<1> QED
  BY <1>0, <1>4, <1>7, <1>8

-----------------------------------------------------------------------------
(* The tables.                                                              *)
Tabled ==
    /\ StudioTypeOK /\ lists \in [Types -> Bound]
    /\ \A t \in Types \ LiveTypes : lists[t] = Unbound

LEMMA SameTables ==
    ASSUME Tabled, UNCHANGED <<tables, lists>> PROVE Tabled'
BY DEF Tabled, tables, StudioTypeOK, LiveTypes

LEMMA UnboundIs == Unbound \in Bound /\ \A p \in Points : Unbound[p] = 0
BY DEF Unbound, Bound

(* A change of the units alone.                                             *)
LEMMA UnitsTabled ==
    ASSUME Tabled, UNCHANGED <<types, links, templates, lists>>, units' \in [Units -> Unit],
           \A u \in Units : units[u].exists => units'[u].exists,
           \A u \in Units : units'[u].parent = NoUnit \/ units'[units'[u].parent].exists,
           \A u \in Units : units'[u].exists \/ units'[u] = NoUnitRow
    PROVE  Tabled'
<1>1. Keyed(units', types)
  <2>1. ASSUME NEW t \in Types, types[t].exists
        PROVE  units'[types[t].unit].exists
    <3>1. types[t].unit \in Units /\ units[types[t].unit].exists
      BY <2>1 DEF Tabled, StudioTypeOK, Keyed, Type, Places
    <3> QED
      BY <3>1
  <2> QED
    BY <2>1 DEF Tabled, StudioTypeOK, Keyed
<1> QED
  BY <1>1 DEF Tabled, StudioTypeOK, LiveTypes

LEMMA AddUnitTabled ==
    ASSUME Tabled, Requested, NEW r \in Requests, AddUnit(r) PROVE Tabled'
<1> DEFINE u == req[r].unit  place == req[r].place
           row == [exists |-> TRUE, parent |-> place, active |-> TRUE]
<1>1. u \in Units /\ place \in Places
  BY DEF AddUnit, Doing, Requested, About, Request
<1>2. CASE UNCHANGED units
  BY <1>2, SameTables DEF AddUnit, tables
<1>3. CASE units' # units
  <2>1. units' = [units EXCEPT ![u] = row] /\ (place = NoUnit \/ units[place].exists)
    BY <1>3 DEF AddUnit
  <2>2. UNCHANGED <<types, links, templates, lists>>
    BY DEF AddUnit
  <2>3. row \in Unit /\ row.exists /\ row.parent = place
    BY <1>1 DEF Unit
  <2>4. units \in [Units -> Unit] /\ \A v \in Units : (units[v].parent = NoUnit \/ units[units[v].parent].exists)
                                          /\ (units[v].exists \/ units[v] = NoUnitRow)
    BY DEF Tabled, StudioTypeOK, Keyed
  <2>5. \A v \in Units : units[v].parent \in Units \cup {NoUnit}
    BY <2>4 DEF Unit, Places
  <2> HIDE DEF row, u, place
  <2>6. units' \in [Units -> Unit] /\ \A v \in Units : units[v].exists => units'[v].exists
    BY <1>1, <2>1, <2>3, <2>4
  <2>7. \A v \in Units : units'[v].exists \/ units'[v] = NoUnitRow
    BY <1>1, <2>1, <2>3, <2>4
  <2>8. \A v \in Units : units'[v].parent = NoUnit \/ units'[units'[v].parent].exists
    BY <1>1, <2>1, <2>3, <2>4, <2>5, <2>6 DEF Places
  <2> QED
    BY <2>2, <2>6, <2>7, <2>8, UnitsTabled
<1> QED
  BY <1>2, <1>3

LEMMA EditUnitTabled ==
    ASSUME Tabled, Requested, NEW r \in Requests, EditUnit(r) PROVE Tabled'
<1> DEFINE u == req[r].unit  place == req[r].place  read == req[r].was
           row == [[units[u] EXCEPT !.parent = Written(units[u].parent, read.place, place)]
                      EXCEPT !.active = Written(units[u].active, read.active, req[r].active)]
<1>1. u \in Units /\ place \in Places /\ req[r].active \in BOOLEAN
  BY DEF EditUnit, Doing, Requested, About, Request
<1>2. CASE UNCHANGED units
  BY <1>2, SameTables DEF EditUnit, tables
<1>3. CASE units' # units
  <2>0. units \in [Units -> Unit] /\ \A v \in Units : (units[v].parent = NoUnit \/ units[units[v].parent].exists)
                                          /\ (units[v].exists \/ units[v] = NoUnitRow)
    BY DEF Tabled, StudioTypeOK, Keyed
  <2>1. units' = [units EXCEPT ![u] = row] /\ units[u].exists
        /\ (place \in {NoUnit, read.place} \/ units[place].exists)
    BY <1>3, <2>0 DEF EditUnit
  <2>2. UNCHANGED <<types, links, templates, lists>>
    BY DEF EditUnit
  <2>3. Written(units[u].parent, read.place, place) \in Places
        /\ Written(units[u].active, read.active, req[r].active) \in BOOLEAN
    BY <1>1, <2>0 DEF Written, Unit
  <2>4. row \in Unit /\ row.exists /\ row.parent = Written(units[u].parent, read.place, place)
    BY <1>1, <2>0, <2>1, <2>3 DEF Unit
  <2>5. \A v \in Units : units[v].parent \in Units \cup {NoUnit}
    BY <2>0 DEF Unit, Places
  <2>6. row.parent = NoUnit \/ (row.parent \in Units /\ units[row.parent].exists)
    <3>1. CASE place = read.place
      BY <1>1, <2>0, <2>4, <2>5, <3>1 DEF Written
    <3>2. CASE place # read.place
      BY <1>1, <2>1, <2>4, <3>2 DEF Written, Places
    <3> QED
      BY <3>1, <3>2
  <2> HIDE DEF row, u, place
  <2>7. units' \in [Units -> Unit] /\ \A v \in Units : units[v].exists => units'[v].exists
    BY <1>1, <2>0, <2>1, <2>4
  <2>8. \A v \in Units : units'[v].exists \/ units'[v] = NoUnitRow
    BY <1>1, <2>0, <2>1, <2>4
  <2>9. \A v \in Units : units'[v].parent = NoUnit \/ units'[units'[v].parent].exists
    BY <1>1, <2>0, <2>1, <2>5, <2>6, <2>7
  <2> QED
    BY <2>2, <2>7, <2>8, <2>9, UnitsTabled
<1> QED
  BY <1>2, <1>3

(* Issue types that go leave nothing behind; the units of the others stay.  *)
LEMMA DropTypesTabled ==
    ASSUME Tabled, NEW gone \in SUBSET Types, DropTypes(gone), units' \in [Units -> Unit],
           \A u \in Units : units'[u].parent = NoUnit \/ units'[units'[u].parent].exists,
           \A u \in Units : units'[u].exists \/ units'[u] = NoUnitRow,
           \A t \in LiveTypes \ gone : units'[types[t].unit].exists
    PROVE  Tabled'
<1>1. types' \in [Types -> Type] /\ links' \in [Types -> Bound] /\ lists' \in [Types -> Bound]
      /\ templates' \in [Types -> TemplateRows]
  <2>1. NoTypeRow \in Type /\ [p \in Templates |-> "none"] \in TemplateRows
    BY DEF NoTypeRow, Type, TemplateRows, Places
  <2> QED
    BY <2>1, UnboundIs DEF DropTypes, Tabled, StudioTypeOK
<1>2. \A t \in Types : types'[t] = IF t \in gone THEN NoTypeRow ELSE types[t]
  BY DEF DropTypes
<1>3. ~NoTypeRow.exists
  BY DEF NoTypeRow
<1>4. Keyed(units', types')
  <2>1. ASSUME NEW t \in Types, types'[t].exists
        PROVE  /\ types'[t].unit # NoUnit /\ units'[types'[t].unit].exists
               /\ \A s \in Types \ {t} : types'[s].exists /\ types'[s].unit = types'[t].unit => CodeOf[s] # CodeOf[t]
    <3>1. t \in LiveTypes \ gone /\ types'[t] = types[t]
      BY <1>2, <1>3, <2>1 DEF LiveTypes
    <3>2. \A s \in Types : types'[s].exists => types'[s] = types[s]
      BY <1>2, <1>3
    <3> QED
      BY <3>1, <3>2 DEF Tabled, StudioTypeOK, Keyed, LiveTypes
  <2>2. ASSUME NEW t \in Types, ~types'[t].exists PROVE types'[t] = NoTypeRow
    BY <1>2, <2>2 DEF Tabled, StudioTypeOK, Keyed
  <2> QED
    BY <2>1, <2>2 DEF Keyed
<1>5. ASSUME NEW t \in Types, ~types'[t].exists
      PROVE  links'[t] = Unbound /\ lists'[t] = Unbound /\ \A p \in Templates : templates'[t][p] = "none"
  <2>1. CASE t \in gone
    BY <2>1 DEF DropTypes
  <2>2. CASE t \notin gone
    BY <1>5, <2>2 DEF DropTypes, Tabled, StudioTypeOK, LiveTypes
  <2> QED
    BY <2>1, <2>2
<1> QED
  BY <1>1, <1>4, <1>5 DEF Tabled, StudioTypeOK, LiveTypes

LEMMA DropUnitTabled ==
    ASSUME Tabled, Requested, NEW r \in Requests, DropUnit(r) PROVE Tabled'
<1> DEFINE gone == Below(req[r].unit)
           away == UNION {In(u) : u \in gone}
<1>1. units' = [u \in Units |-> IF u \in gone THEN NoUnitRow ELSE units[u]] /\ DropTypes(away)
  BY DEF DropUnit
<1>2. \A v \in gone, w \in LiveUnits : units[w].parent = v => w \in gone
  BY BelowIsClosed
<1>3. away \in SUBSET Types
  BY DEF In, LiveTypes
<1>4. \A t \in LiveTypes \ away : types[t].unit \notin gone
  BY DEF In
<1> HIDE DEF gone, away
<1>5. NoUnitRow \in Unit /\ ~NoUnitRow.exists /\ NoUnitRow.parent = NoUnit
  BY DEF NoUnitRow, Unit, Places
<1>6. units \in [Units -> Unit] /\ \A v \in Units : (units[v].parent = NoUnit \/ units[units[v].parent].exists)
                                        /\ (units[v].exists \/ units[v] = NoUnitRow)
  BY DEF Tabled, StudioTypeOK, Keyed
<1>7. units' \in [Units -> Unit] /\ \A u \in Units : units'[u].exists \/ units'[u] = NoUnitRow
  BY <1>1, <1>5, <1>6
<1>8. ASSUME NEW u \in Units PROVE units'[u].parent = NoUnit \/ units'[units'[u].parent].exists
  <2>1. CASE u \in gone \/ units[u].parent = NoUnit
    BY <1>1, <1>5, <2>1
  <2>2. CASE u \notin gone /\ units[u].parent # NoUnit
    <3>1. units[u].parent \in Units /\ units[units[u].parent].exists
      BY <1>6, <2>2 DEF Unit, Places
    <3>2. u \in LiveUnits
      BY <1>5, <1>6, <2>2 DEF LiveUnits
    <3>3. units[u].parent \notin gone
      BY <1>2, <2>2, <3>2
    <3> QED
      BY <1>1, <2>2, <3>1, <3>3
  <2> QED
    BY <2>1, <2>2
<1>9. ASSUME NEW t \in LiveTypes \ away PROVE units'[types[t].unit].exists
  <2>1. types[t].unit \in Units /\ units[types[t].unit].exists
    BY DEF Tabled, StudioTypeOK, Keyed, LiveTypes, Type, Places
  <2> QED
    BY <1>1, <1>4, <2>1
<1> QED
  BY <1>1, <1>3, <1>7, <1>8, <1>9, DropTypesTabled

LEMMA DropTypeTabled ==
    ASSUME Tabled, Requested, NEW r \in Requests, DropType(r) PROVE Tabled'
<1>1. {req[r].type} \in SUBSET Types /\ DropTypes({req[r].type}) /\ units' = units
  BY DEF DropType, Doing, Requested, About
<1> QED
  BY <1>1, DropTypesTabled DEF Tabled, StudioTypeOK, Keyed, LiveTypes

(* An issue type comes to a unit that is there, which has no other of its   *)
(* code.                                                                    *)
LEMMA TypesTabled ==
    ASSUME Tabled, UNCHANGED <<units, links, templates, lists>>, NEW t \in Types, NEW row \in Type,
           types' = [types EXCEPT ![t] = row], row.exists, row.unit # NoUnit, units[row.unit].exists,
           \A s \in LiveTypes \ {t} : types[s].unit = row.unit => CodeOf[s] # CodeOf[t]
    PROVE  Tabled'
<1>1. types \in [Types -> Type] /\ types' \in [Types -> Type] /\ types'[t] = row
      /\ \A s \in Types \ {t} : types'[s] = types[s]
  BY DEF Tabled, StudioTypeOK
<1>2. Keyed(units, types')
  <2>1. ASSUME NEW s \in Types, types'[s].exists
        PROVE  /\ types'[s].unit # NoUnit /\ units[types'[s].unit].exists
               /\ \A q \in Types \ {s} : types'[q].exists /\ types'[q].unit = types'[s].unit => CodeOf[q] # CodeOf[s]
    <3>1. CASE s = t
      BY <1>1, <3>1 DEF LiveTypes
    <3>2. CASE s # t
      <4>1. types'[s] = types[s] /\ types[s].exists
        BY <1>1, <2>1, <3>2
      <4>2. ASSUME NEW q \in Types \ {s}, types'[q].exists, types'[q].unit = types[s].unit
            PROVE  CodeOf[q] # CodeOf[s]
        <5>1. CASE q = t
          BY <1>1, <3>2, <4>1, <4>2, <5>1 DEF LiveTypes
        <5>2. CASE q # t
          BY <1>1, <4>1, <4>2, <5>2 DEF Tabled, StudioTypeOK, Keyed
        <5> QED
          BY <5>1, <5>2
      <4> QED
        BY <4>1, <4>2 DEF Tabled, StudioTypeOK, Keyed
    <3> QED
      BY <3>1, <3>2
  <2>2. ASSUME NEW s \in Types, ~types'[s].exists PROVE types'[s] = NoTypeRow
    BY <1>1, <2>2 DEF Tabled, StudioTypeOK, Keyed
  <2> QED
    BY <2>1, <2>2 DEF Keyed, Tabled, StudioTypeOK
<1>3. \A s \in Types : ~types'[s].exists => ~types[s].exists
  BY <1>1
<1> QED
  BY <1>1, <1>2, <1>3 DEF Tabled, StudioTypeOK, LiveTypes

LEMMA AddTypeTabled ==
    ASSUME Tabled, Requested, NEW r \in Requests, AddType(r) PROVE Tabled'
<1> DEFINE t == req[r].type  u == req[r].place  row == [exists |-> TRUE, unit |-> u, active |-> TRUE]
<1>1. t \in Types /\ u \in Units /\ u # NoUnit
  BY StudioAssumption DEF AddType, Doing, Requested, About
<1>2. CASE UNCHANGED types
  BY <1>2, SameTables DEF AddType, tables
<1>3. CASE types' # types
  <2>1. types' = [types EXCEPT ![t] = row] /\ units[u].exists /\ ~Clash(t, u)
    BY <1>3 DEF AddType
  <2>2. row \in Type /\ row.exists /\ row.unit = u
    BY <1>1 DEF Type, Places
  <2>3. \A s \in LiveTypes \ {t} : types[s].unit = u => CodeOf[s] # CodeOf[t]
    BY <2>1 DEF Clash, In
  <2>4. UNCHANGED <<units, links, templates, lists>>
    BY DEF AddType
  <2> HIDE DEF row, t, u
  <2> QED
    BY <1>1, <2>1, <2>2, <2>3, <2>4, TypesTabled
<1> QED
  BY <1>2, <1>3

LEMMA EditTypeTabled ==
    ASSUME Tabled, Requested, NEW r \in Requests, EditType(r) PROVE Tabled'
<1> DEFINE t == req[r].type  u == req[r].place  read == req[r].was
           row == [[types[t] EXCEPT !.unit = Written(types[t].unit, read.place, u)]
                      EXCEPT !.active = Written(types[t].active, read.active, req[r].active)]
<1>1. t \in Types /\ u \in Units /\ u # NoUnit /\ req[r].active \in BOOLEAN
  BY StudioAssumption DEF EditType, Doing, Requested, About, Request
<1>2. CASE UNCHANGED types
  BY <1>2, SameTables DEF EditType, tables
<1>3. CASE types' # types
  <2>0. types \in [Types -> Type] /\ Keyed(units, types)
    BY DEF Tabled, StudioTypeOK
  <2>1. types' = [types EXCEPT ![t] = row] /\ types[t].exists
        /\ (u = read.place \/ (units[u].exists /\ ~Clash(t, u)))
    BY <1>3, <2>0 DEF EditType
  <2>2. Written(types[t].unit, read.place, u) \in Places
        /\ Written(types[t].active, read.active, req[r].active) \in BOOLEAN
    BY <1>1, <2>0 DEF Written, Type, Places
  <2>3. row \in Type /\ row.exists /\ row.unit = Written(types[t].unit, read.place, u)
    BY <1>1, <2>0, <2>1, <2>2 DEF Type
  <2>4. UNCHANGED <<units, links, templates, lists>>
    BY DEF EditType
  <2>5. /\ row.unit # NoUnit /\ units[row.unit].exists
        /\ \A s \in LiveTypes \ {t} : types[s].unit = row.unit => CodeOf[s] # CodeOf[t]
    <3>1. CASE u = read.place
      <4>1. row.unit = types[t].unit
        BY <2>3, <3>1 DEF Written
      <4> HIDE DEF row, t, u
      <4> QED
        BY <1>1, <2>0, <2>1, <4>1 DEF Keyed, LiveTypes
    <3>2. CASE u # read.place
      <4>1. row.unit = u /\ units[u].exists /\ ~Clash(t, u)
        BY <2>1, <2>3, <3>2 DEF Written
      <4> HIDE DEF row, t, u
      <4> QED
        BY <1>1, <4>1 DEF Clash, In
    <3> QED
      BY <3>1, <3>2
  <2> HIDE DEF row, t, u
  <2> QED
    BY <1>1, <2>1, <2>3, <2>4, <2>5, TypesTabled
<1> QED
  BY <1>2, <1>3

(* What a committed list leaves of the bindings.                            *)
LEMMA BindIs ==
    ASSUME Tabled, Requested, NEW r \in Requests, Bind(r)
    PROVE  /\ req[r].type \in Types /\ UNCHANGED <<units, types, templates>>
           /\ \/ UNCHANGED <<links, lists>>
              \/ LET t == req[r].type  list == req[r].list
                 IN  /\ types[t].exists /\ list \in Bound
                     /\ \A p \in Points \ Named(list) : list[p] = 0
                     /\ lists' = [lists EXCEPT ![t] = list]
                     /\ links' = [links EXCEPT ![t] = [p \in Points |->
                                     IF p \in Named(list) THEN list[p] ELSE Wiped(r)[p]]]
<1>1. req[r].type \in Types /\ req[r].list \in Lists
  BY DEF Bind, Doing, Requested, About
<1>2. /\ req[r].list \in Bound
      /\ \A p \in Points \ Named(req[r].list) : req[r].list[p] = 0
  BY <1>1, StudioAssumption DEF Bound, Named
<1> QED
  BY <1>1, <1>2 DEF Bind

LEMMA BindTabled ==
    ASSUME Tabled, Requested, NEW r \in Requests, Bind(r) PROVE Tabled'
<1> DEFINE t == req[r].type  list == req[r].list
           row == [p \in Points |-> IF p \in Named(list) THEN list[p] ELSE Wiped(r)[p]]
<1>1. CASE UNCHANGED <<links, lists>>
  BY <1>1, BindIs, SameTables DEF tables
<1>2. CASE ~UNCHANGED <<links, lists>>
  <2>1. /\ t \in Types /\ UNCHANGED <<units, types, templates>> /\ types[t].exists /\ list \in Bound
        /\ lists' = [lists EXCEPT ![t] = list] /\ links' = [links EXCEPT ![t] = row]
    BY <1>2, BindIs
  <2>2. \A p \in Points : Wiped(r)[p] \in Nat
    BY <2>1 DEF Wiped, Tabled, StudioTypeOK, Bound
  <2>3. row \in Bound
    BY <2>1, <2>2 DEF Bound
  <2> HIDE DEF row, list, t
  <2> QED
    BY <2>1, <2>3 DEF Tabled, StudioTypeOK, LiveTypes
<1> QED
  BY <1>1, <1>2

LEMMA SetTemplateTabled ==
    ASSUME Tabled, Requested, NEW r \in Requests, SetTemplate(r) PROVE Tabled'
<1>1. CASE UNCHANGED templates
  BY <1>1, SameTables DEF SetTemplate, tables
<1>2. CASE templates' # templates
  <2> DEFINE t == req[r].type  p == req[r].template
  <2>1. t \in Types /\ p \in Templates /\ req[r].state \in {"none", "active", "inactive"}
    BY DEF SetTemplate, Doing, Requested, About, Request
  <2>2. templates' = [templates EXCEPT ![t][p] = req[r].state] /\ types[t].exists
    BY <1>2 DEF SetTemplate
  <2>3. templates' \in [Types -> TemplateRows]
    BY <2>1, <2>2 DEF Tabled, StudioTypeOK, TemplateRows
  <2>4. UNCHANGED <<units, types, links, lists>>
    BY DEF SetTemplate
  <2>5. \A s \in Types : s # t => templates'[s] = templates[s]
    BY <2>1, <2>2 DEF Tabled, StudioTypeOK
  <2> HIDE DEF t, p
  <2> QED
    BY <2>2, <2>3, <2>4, <2>5 DEF Tabled, StudioTypeOK, LiveTypes
<1> QED
  BY <1>1, <1>2

LEMMA ActingTabled ==
    ASSUME Tabled, Requested, NEW r \in Requests, Acting(r) PROVE Tabled'
<1>1. CASE SendUnit(r) \/ SendType(r) \/ SendTap(r) \/ EditUnitLoad(r) \/ DropUnitLoad(r) \/ TypeLoad(r)
           \/ TapLoad(r) \/ Acknowledge(r)
  <2>1. UNCHANGED <<tables, lists>>
    BY <1>1 DEF SendUnit, SendType, SendTap, EditUnitLoad, DropUnitLoad, TypeLoad, TapLoad, Acknowledge
  <2> QED
    BY <2>1, SameTables, SMTT(30)
<1> QED
  BY <1>1, AddUnitTabled, EditUnitTabled, DropUnitTabled, AddTypeTabled, EditTypeTabled, DropTypeTabled, BindTabled,
     SetTemplateTabled DEF Acting

-----------------------------------------------------------------------------
(* The invariant: a list that was read is the list that is there, unless    *)
(* two lists were saved together; a deletion that found a unit without      *)
(* issue types meets only later ones; and what taps found and said.         *)
Mixed(t) ==
    \E q, r \in Requests : /\ Overlap(q, r) /\ req[q].kind = "bind" /\ req[r].kind = "bind"
                           /\ req[q].type = t /\ req[r].type = t
Arrived(t, r) ==
    \E q \in Requests : Overlap(q, r) /\ req[q].kind \in {"addType", "editType"} /\ req[q].type = t
ListsKept == \A t \in Types : links[t] = lists[t] \/ Mixed(t)
Copied ==
    \A r \in Requests : Doing(r, "bind", "read") =>
        Mixed(req[r].type) \/ \A p \in Points : links[req[r].type][p] > 0 => req[r].copy[p] > 0
Vacated ==
    \A r \in Requests : Doing(r, "dropUnit", "read") => \A t \in In(req[r].unit) : Arrived(t, r)
Tapped ==
    \A r \in Requests : req[r].kind = "tap" =>
        /\ req[r].pc \in {"read", "done"} => InOrder(req[r])
        /\ req[r].pc = "done" => Says(req[r])
StudioIInv == Tabled /\ Requested /\ ListsKept /\ Copied /\ Vacated /\ Tapped

LEMMA StudioInitIInv == StudioInit => StudioIInv
<1> SUFFICES ASSUME StudioInit PROVE StudioIInv
  OBVIOUS
<1>1. PICK start \in Starts : units = start.units /\ types = start.types
  BY DEF StudioInit
<1>2. start \in [units : [Units -> Unit], types : [Types -> Type]] /\ Keyed(start.units, start.types)
  BY StudioAssumption
<1>3. units \in [Units -> Unit] /\ types \in [Types -> Type] /\ Keyed(units, types)
  BY <1>1, <1>2
<1>4. Tabled
  BY <1>3, UnboundIs DEF StudioInit, Tabled, StudioTypeOK, TemplateRows
<1>5. \A r \in Requests : req[r] = NotYet
  BY DEF StudioInit
<1>6. NotYet.before = {} /\ NotYet.pc = "idle" /\ NotYet.kind = "idle"
  BY DEF NotYet
<1>7. Requested
  BY <1>5, <1>6, NotYetIs DEF StudioInit, Requested
<1>8. ListsKept /\ Copied /\ Vacated /\ Tapped
  BY <1>5, <1>6 DEF StudioInit, ListsKept, Copied, Vacated, Tapped, Doing
<1> QED
  BY <1>4, <1>7, <1>8 DEF StudioIInv

(* Which steps touch the bindings, and where issue types come from and go.  *)
LEMMA LinksChange ==
    ASSUME Tabled, Requested, NEW r \in Requests, Acting(r), ~Bind(r), NEW t \in Types
    PROVE  (links'[t] = links[t] /\ lists'[t] = lists[t]) \/ (links'[t] = Unbound /\ lists'[t] = Unbound)
<1>1. CASE DropUnit(r)
  BY <1>1 DEF DropUnit, DropTypes
<1>2. CASE DropType(r)
  BY <1>2 DEF DropType, DropTypes
<1>3. CASE ~DropUnit(r) /\ ~DropType(r)
  <2>1. UNCHANGED <<links, lists>>
    BY <1>3 DEF Acting, tables, SendUnit, SendType, SendTap, AddUnit, EditUnitLoad, EditUnit, DropUnitLoad, TypeLoad,
       AddType, EditType, SetTemplate, TapLoad, Acknowledge
  <2> QED
    BY ONLY <2>1, SMTT(30)
<1> QED
  BY <1>1, <1>2, <1>3

LEMMA TypesChange ==
    ASSUME Tabled, Requested, NEW r \in Requests, Acting(r), NEW t \in Types, types'[t] # types[t]
    PROVE  \/ (AddType(r) \/ EditType(r)) /\ req[r].type = t /\ (types[t].exists => types'[t].exists)
           \/ DropType(r) /\ req[r].type = t
           \/ DropUnit(r) /\ ~types'[t].exists
<1>1. CASE AddType(r)
  <2>1. req[r].type \in Types /\ types \in [Types -> Type]
    BY <1>1 DEF AddType, Doing, Requested, About, Tabled, StudioTypeOK
  <2>2. types' = [types EXCEPT ![req[r].type] = [exists |-> TRUE, unit |-> req[r].place, active |-> TRUE]]
    BY <1>1 DEF AddType
  <2>3. req[r].type = t /\ types'[t].exists
    BY <2>1, <2>2
  <2> QED
    BY <1>1, <2>3
<1>2. CASE EditType(r)
  <2>0. Doing(r, "editType", "read")
    BY <1>2 DEF EditType
  <2>1. req[r].type \in Types /\ types \in [Types -> Type]
    BY <2>0 DEF Doing, Requested, About, Tabled, StudioTypeOK
  <2> DEFINE s == req[r].type
             row == [[types[s] EXCEPT !.unit = Written(types[s].unit, req[r].was.place, req[r].place)]
                       EXCEPT !.active = Written(types[s].active, req[r].was.active, req[r].active)]
  <2>2. types' = types \/ types' = [types EXCEPT ![s] = row]
    BY <1>2, <2>1 DEF EditType
  <2>3. row.exists = types[s].exists
    BY <2>1 DEF Type
  <2> HIDE DEF row
  <2>4. s = t /\ types'[t].exists = types[t].exists
    BY <2>1, <2>2, <2>3
  <2> QED
    BY <1>2, <2>4
<1>3. CASE DropType(r)
  BY <1>3 DEF DropType, DropTypes
<1>4. CASE DropUnit(r)
  BY <1>4 DEF DropUnit, DropTypes, NoTypeRow
<1>5. CASE ~AddType(r) /\ ~EditType(r) /\ ~DropType(r) /\ ~DropUnit(r)
  <2>1. UNCHANGED types
    BY <1>5 DEF Acting, tables, SendUnit, SendType, SendTap, AddUnit, EditUnitLoad, EditUnit, DropUnitLoad, TypeLoad,
       Bind, SetTemplate, TapLoad, Acknowledge
  <2> QED
    BY <2>1, SMTT(30)
<1> QED
  BY <1>1, <1>2, <1>3, <1>4, <1>5

LEMMA MixedStays ==
    ASSUME Requested, NEW r \in Requests, Moves(r)
    PROVE  /\ \A t : Mixed(t) => Mixed(t)'
           /\ \A t : \A q \in Requests : Arrived(t, q) => Arrived(t, q)'
<1>1. \A p, q \in Requests : Overlap(p, q) => p \in Begun /\ q \in Begun
  BY DEF Overlap
<1> QED
  BY <1>1, MovesKeep DEF Mixed, Arrived

LEMMA ListsStep ==
    ASSUME Tabled, Requested, ListsKept, Copied, NEW r \in Requests, Acting(r) PROVE ListsKept'
<1>0. Moves(r)
  BY ActingMoves DEF Tabled
<1> SUFFICES ASSUME NEW t \in Types, ~Mixed(t)' PROVE links'[t] = lists'[t]
  BY DEF ListsKept
<1>1. ~Mixed(t) /\ links[t] = lists[t]
  BY <1>0, MixedStays DEF ListsKept
<1>2. CASE ~Bind(r)
  BY <1>1, <1>2, LinksChange
<1>3. CASE UNCHANGED <<links, lists>>
  BY <1>1, <1>3
<1>4. CASE Bind(r) /\ ~UNCHANGED <<links, lists>>
  <2> DEFINE s == req[r].type  list == req[r].list
  <2>1. /\ s \in Types /\ list \in Bound /\ \A p \in Points \ Named(list) : list[p] = 0
        /\ lists' = [lists EXCEPT ![s] = list]
        /\ links' = [links EXCEPT ![s] = [p \in Points |->
                        IF p \in Named(list) THEN list[p] ELSE Wiped(r)[p]]]
    BY <1>4, BindIs
  <2>2. links \in [Types -> Bound] /\ lists \in [Types -> Bound]
    BY DEF Tabled, StudioTypeOK
  <2>3. CASE s # t
    <3> HIDE DEF s, list
    <3> QED
      BY <1>1, <2>1, <2>2, <2>3
  <2>4. CASE s = t
    <3>1. Doing(r, "bind", "read")
      BY <1>4 DEF Bind
    <3>2. \A p \in Points : links[t][p] > 0 => req[r].copy[p] > 0
      BY <1>1, <2>4, <3>1 DEF Copied
    <3>3. \A p \in Points : links[t][p] \in Nat
      BY <2>2 DEF Bound
    <3>4. \A p \in Points : Wiped(r)[p] = 0
      BY <2>4, <3>2, <3>3 DEF Wiped
    <3> HIDE DEF s, list
    <3>5. links'[t] = [p \in Points |-> list[p]]
      BY <2>1, <2>2, <2>4, <3>4
    <3>6. list = [p \in Points |-> list[p]]
      BY <2>1 DEF Bound
    <3>7. lists'[t] = list
      BY <2>1, <2>2, <2>4
    <3> QED
      BY <3>5, <3>6, <3>7
  <2> QED
    BY <2>3, <2>4
<1> QED
  BY <1>2, <1>3, <1>4

LEMMA CopiedStep ==
    ASSUME Tabled, Requested, ListsKept, Copied, NEW r \in Requests, Acting(r) PROVE Copied'
<1>0. Moves(r)
  BY ActingMoves DEF Tabled
<1> SUFFICES ASSUME NEW q \in Requests, Doing(q, "bind", "read")', ~Mixed(req[q].type)', NEW p \in Points,
                    links'[req'[q].type][p] > 0
             PROVE  req'[q].copy[p] > 0
  BY DEF Copied
<1>1. CASE q = r
  <2>1. TypeLoad(r)
    <3>1. req'[r].kind = "bind" /\ req'[r].pc = "read"
      BY <1>1 DEF Doing
    <3>2. ~At(r, "idle") /\ req[r].kind = "bind"
      BY <1>0, <3>1, SMTT(30) DEF Moves
    <3>3. ~SendUnit(r) /\ ~SendType(r) /\ ~SendTap(r)
      BY <3>2 DEF SendUnit, SendType, SendTap, Send, NextUp, Begun
    <3>4. ~AddUnit(r) /\ ~EditUnitLoad(r) /\ ~EditUnit(r) /\ ~DropUnitLoad(r) /\ ~DropUnit(r) /\ ~TapLoad(r)
          /\ ~Acknowledge(r)
      BY <3>2 DEF Doing, AddUnit, EditUnitLoad, EditUnit, DropUnitLoad, DropUnit, TapLoad, Acknowledge
    <3>5. ~AddType(r) /\ ~EditType(r) /\ ~DropType(r) /\ ~Bind(r) /\ ~SetTemplate(r)
      BY <3>1, TypeMoves DEF Ends
    <3> QED
      BY <3>3, <3>4, <3>5 DEF Acting
  <2>2. req'[r].kind = req[r].kind /\ req'[r].type = req[r].type /\ req'[r].pc = "read" /\ req'[r].kind = "bind"
    BY <1>0, <1>1, <2>1 DEF Moves, Doing, TypeLoad, At
  <2>3. req'[r].copy = links[req[r].type]
    BY <2>1, <2>2, TypeLoadIs DEF Tabled
  <2>4. UNCHANGED links
    BY <2>1 DEF TypeLoad, tables
  <2> QED
    BY <1>1, <2>2, <2>3, <2>4
<1>2. CASE q # r
  <2> DEFINE t == req[q].type
  <2>1. req'[q] = req[q] /\ Doing(q, "bind", "read")
    BY <1>0, <1>2 DEF Moves, Doing
  <2>2. t \in Types
    BY <2>1 DEF Doing, Requested, About
  <2>3. ~Mixed(t)
    BY <1>0, <2>1, MixedStays
  <2>4. links[t][p] > 0 => req[q].copy[p] > 0
    BY <2>1, <2>3 DEF Copied
  <2>5. CASE ~Bind(r)
    <3>1. links'[t] = links[t] \/ links'[t] = Unbound
      BY <2>2, <2>5, LinksChange
    <3> QED
      BY <2>1, <2>4, <3>1, UnboundIs
  <2>6. CASE Bind(r)
    <3>1. req[r].type # t
      <4> SUFFICES ASSUME req[r].type = t PROVE FALSE
        OBVIOUS
      <4>1. UnderWay(q) /\ UnderWay(r) /\ req[r].kind = "bind" /\ req[q].kind = "bind"
        BY <2>1, <2>6 DEF Bind, Doing, UnderWay
      <4>2. Overlap(q, r)
        BY <1>2, <4>1, BothUnderWay
      <4> QED
        BY <2>3, <4>1, <4>2 DEF Mixed
    <3>2. links'[t] = links[t]
      BY <2>2, <2>6, <3>1, BindIs DEF Tabled, StudioTypeOK
    <3> QED
      BY <2>1, <2>4, <3>2
  <2> QED
    BY <2>5, <2>6
<1> QED
  BY <1>1, <1>2

LEMMA VacatedStep ==
    ASSUME Tabled, Requested, Vacated, NEW r \in Requests, Acting(r) PROVE Vacated'
<1>0. Moves(r)
  BY ActingMoves DEF Tabled
<1> SUFFICES ASSUME NEW q \in Requests, Doing(q, "dropUnit", "read")', NEW t \in In(req[q].unit)'
             PROVE  Arrived(t, q)'
  BY DEF Vacated
<1>1. CASE q = r
  <2>1. req'[r].kind = "dropUnit" /\ req'[r].pc = "read"
    BY <1>1 DEF Doing
  <2>2. ~At(r, "idle") /\ req[r].kind = "dropUnit" /\ req'[r].unit = req[r].unit
    BY <1>0, <2>1, SMTT(30) DEF Moves
  <2>3. ~SendUnit(r) /\ ~SendType(r) /\ ~SendTap(r)
    BY <2>2 DEF SendUnit, SendType, SendTap, Send, NextUp, Begun
  <2>4. ~AddUnit(r) /\ ~EditUnitLoad(r) /\ ~EditUnit(r) /\ ~TypeLoad(r) /\ ~TapLoad(r) /\ ~Acknowledge(r)
    BY <2>2 DEF Doing, AddUnit, EditUnitLoad, EditUnit, TypeLoad, TapLoad, Acknowledge
  <2>5. ~AddType(r) /\ ~EditType(r) /\ ~DropType(r) /\ ~Bind(r) /\ ~SetTemplate(r)
    BY <2>1, TypeMoves DEF Ends
  <2>6. ~DropUnit(r)
    <3> SUFFICES ASSUME DropUnit(r) PROVE FALSE
      OBVIOUS
    <3>1. req'[r].pc = "done"
      BY EndIs DEF DropUnit, Doing, Ends
    <3> QED
      BY <2>1, <3>1
  <2>7. DropUnitLoad(r)
    BY <2>3, <2>4, <2>5, <2>6 DEF Acting
  <2>8. In(req[r].unit) = {}
    <3>1. ~End(r, "refused") /\ ~End(r, "conflict")
      <4> SUFFICES ASSUME NEW how \in {"refused", "conflict"}, End(r, how) PROVE FALSE
        OBVIOUS
      <4>1. req'[r].pc = how
        BY <2>7, EndIs DEF DropUnitLoad, Doing, Ends
      <4> QED
        BY <2>1, <4>1
    <3> QED
      BY <2>7, <3>1 DEF DropUnitLoad, Attached
  <2>9. UNCHANGED types
    BY <2>7 DEF DropUnitLoad, tables
  <2> QED
    BY <1>1, <2>2, <2>8, <2>9 DEF In, LiveTypes
<1>2. CASE q # r
  <2>1. req'[q] = req[q] /\ Doing(q, "dropUnit", "read")
    BY <1>0, <1>2 DEF Moves, Doing
  <2>2. t \in Types /\ types'[t].exists /\ types'[t].unit = req[q].unit
    BY <2>1 DEF In, LiveTypes
  <2>3. CASE t \in In(req[q].unit)
    <3>1. Arrived(t, q)
      BY <2>1, <2>3 DEF Vacated
    <3> QED
      BY <1>0, <3>1, MixedStays
  <2>4. CASE t \notin In(req[q].unit)
    <3>1. types'[t] # types[t]
      BY <2>2, <2>4 DEF In, LiveTypes
    <3>2. ~DropType(r)
      <4> SUFFICES ASSUME DropType(r), req[r].type = t PROVE FALSE
        BY <2>2, <3>1, TypesChange DEF DropType, DropTypes
      <4> QED
        BY <2>2 DEF DropType, DropTypes, NoTypeRow
    <3>3. (AddType(r) \/ EditType(r)) /\ req[r].type = t
      BY <2>2, <3>1, <3>2, TypesChange
    <3>4. UnderWay(q) /\ UnderWay(r) /\ req[r].kind \in {"addType", "editType"}
      BY <2>1, <3>3 DEF AddType, EditType, Doing, UnderWay
    <3>5. Arrived(t, q)
      BY <1>2, <3>3, <3>4, BothUnderWay DEF Arrived
    <3> QED
      BY <1>0, <3>5, MixedStays
  <2> QED
    BY <2>3, <2>4
<1> QED
  BY <1>1, <1>2

LEMMA TappedStep ==
    ASSUME Tabled, Requested, Tapped, NEW r \in Requests, Acting(r) PROVE Tapped'
<1>0. Moves(r)
  BY ActingMoves DEF Tabled
<1> SUFFICES ASSUME NEW q \in Requests, req'[q].kind = "tap"
             PROVE  /\ req'[q].pc \in {"read", "done"} => InOrder(req'[q])
                    /\ req'[q].pc = "done" => Says(req'[q])
  BY DEF Tapped, InOrder, Says
<1>1. CASE q # r
  BY <1>0, <1>1 DEF Moves, Tapped
<1>2. CASE q = r /\ At(r, "idle")
  BY <1>0, <1>2 DEF Moves
<1>3. CASE q = r /\ ~At(r, "idle")
  <2>1. req[r].kind = "tap"
    BY <1>0, <1>3, SMTT(30) DEF Moves
  <2>2. ~SendUnit(r) /\ ~SendType(r) /\ ~SendTap(r)
    BY <1>3 DEF SendUnit, SendType, SendTap, Send, NextUp, Begun
  <2>3. ~AddUnit(r) /\ ~EditUnitLoad(r) /\ ~EditUnit(r) /\ ~DropUnitLoad(r) /\ ~DropUnit(r) /\ ~TypeLoad(r)
    BY <2>1 DEF Doing, AddUnit, EditUnitLoad, EditUnit, DropUnitLoad, DropUnit, TypeLoad
  <2>4. ~AddType(r) /\ ~EditType(r) /\ ~DropType(r) /\ ~Bind(r) /\ ~SetTemplate(r)
    BY <2>1 DEF Doing, AddType, EditType, DropType, Bind, SetTemplate
  <2>5. CASE TapLoad(r)
    BY <1>3, <2>5, TapLoadIs DEF Tabled
  <2>6. CASE Acknowledge(r)
    <3>1. InOrder(req[r])
      BY <2>1, <2>6 DEF Tapped, Acknowledge, Doing
    <3> QED
      BY <1>3, <2>6, <3>1, AcknowledgeIs DEF InOrder
  <2> QED
    BY <2>2, <2>3, <2>4, <2>5, <2>6 DEF Acting
<1> QED
  BY <1>1, <1>2, <1>3

LEMMA StudioStutter == ASSUME StudioIInv, UNCHANGED studioVars PROVE StudioIInv'
<1>1. UNCHANGED <<units, types, links, templates, req, lists>>
  BY DEF studioVars
<1>2. Tabled'
  BY <1>1, SameTables DEF StudioIInv, tables
<1>3. Requested'
  BY <1>1 DEF StudioIInv, Requested, Ended
<1>4. ListsKept' /\ Copied' /\ Vacated' /\ Tapped'
  BY <1>1 DEF StudioIInv, ListsKept, Copied, Vacated, Tapped, Mixed, Arrived, Overlap, Begun, At, Doing, In, LiveTypes,
     InOrder, Says
<1> QED
  BY <1>2, <1>3, <1>4 DEF StudioIInv

LEMMA StudioInvariance == StudioSpec => []StudioIInv
<1>1. StudioInit => StudioIInv
  BY StudioInitIInv
<1>2. StudioIInv /\ [StudioNext]_studioVars => StudioIInv'
  <2> SUFFICES ASSUME StudioIInv, [StudioNext]_studioVars PROVE StudioIInv'
    OBVIOUS
  <2>1. ASSUME NEW r \in Requests, Acting(r) PROVE StudioIInv'
    <3>1. Moves(r)
      BY <2>1, ActingMoves DEF StudioIInv, Tabled
    <3> QED
      BY <2>1, <3>1, MovesKeep, ActingTabled, ListsStep, CopiedStep, VacatedStep, TappedStep DEF StudioIInv
  <2>2. CASE UNCHANGED studioVars
    BY <2>2, StudioStutter
  <2> QED
    BY <2>1, <2>2 DEF StudioNext, Acting
<1> QED
  BY <1>1, <1>2, PTL DEF StudioSpec

(* The tables keep their foreign and unique keys through any overlap of     *)
(* requests and any cascade; a list of data points is one administrator's,  *)
(* the last one saved, unless two were saved together; and acknowledgments  *)
(* say something, say only what was found, and name a rider only after the  *)
(* order (models.py: 301-457, admin_routes.py: 352-407, service.py:         *)
(* 189-216, render.py: 90-104).                                             *)
THEOREM StudioInvHolds == StudioSpec => []StudioInv
<1>1. StudioIInv => StudioInv
  <2> SUFFICES ASSUME StudioIInv PROVE StudioInv
    OBVIOUS
  <2>1. OneList
    BY DEF StudioIInv, ListsKept, OneList, Mixed, LiveTypes
  <2>2. SaysWhatItKnows
    BY DEF StudioIInv, Tapped, InOrder, Says, SaysWhatItKnows, Doing
  <2> QED
    BY <2>1, <2>2 DEF StudioIInv, Tabled, StudioInv
<1> QED
  BY <1>1, StudioInvariance, PTL

(* An issue type goes by its own deletion, or with a business unit above    *)
(* its own, or because it came into the unit while that was being deleted:  *)
(* the deletion found no issue types when it looked (admin_routes.py:       *)
(* 171-183).                                                                *)
THEOREM OwnTypesSparedHolds == StudioSpec => OwnTypesSpared
<1> DEFINE Fine == \A t \in LiveTypes : ~types'[t].exists =>
          \E r \in Requests : req[r].pc = "read" /\ req'[r].pc = "done" /\
             \/ req[r].kind = "dropType" /\ req[r].type = t
             \/ /\ req[r].kind = "dropUnit"
                /\ \/ types[t].unit \in Below(req[r].unit) \ {req[r].unit}
                   \/ \E q \in Requests : Overlap(q, r) /\ req[q].kind \in {"addType", "editType"} /\ req[q].type = t
<1>1. StudioIInv /\ [StudioNext]_studioVars => [Fine]_studioVars
  <2> SUFFICES ASSUME StudioIInv, StudioNext, NEW t \in LiveTypes, ~types'[t].exists
               PROVE  \E r \in Requests : req[r].pc = "read" /\ req'[r].pc = "done" /\
                         \/ req[r].kind = "dropType" /\ req[r].type = t
                         \/ /\ req[r].kind = "dropUnit"
                            /\ types[t].unit \in Below(req[r].unit) \ {req[r].unit} \/ Arrived(t, r)
    BY DEF Arrived
  <2>1. PICK r \in Requests : Acting(r)
    BY DEF StudioNext, Acting
  <2>2. t \in Types /\ types[t].exists /\ types'[t] # types[t]
    BY DEF LiveTypes
  <2>3. CASE DropType(r) /\ req[r].type = t
    <3>1. req[r].pc = "read" /\ req[r].kind = "dropType"
      BY <2>3 DEF DropType, Doing
    <3>2. req'[r].pc = "done"
      BY <2>3, <3>1, EndIs DEF DropType, StudioIInv, Ends
    <3> QED
      BY <2>3, <3>1, <3>2
  <2>4. CASE DropUnit(r)
    <3>1. req[r].pc = "read" /\ req[r].kind = "dropUnit"
      BY <2>4 DEF DropUnit, Doing
    <3>2. req'[r].pc = "done"
      BY <2>4, <3>1, EndIs DEF DropUnit, StudioIInv, Ends
    <3>3. types[t].unit = req[r].unit => Arrived(t, r)
      BY <2>2, <3>1 DEF StudioIInv, Vacated, Doing, In, LiveTypes
    <3>4. t \in UNION {In(u) : u \in Below(req[r].unit)}
      BY <2>2, <2>4 DEF DropUnit, DropTypes
    <3>5. types[t].unit \in Below(req[r].unit)
      BY <3>4 DEF In
    <3> QED
      BY <3>1, <3>2, <3>3, <3>5
  <2> QED
    BY <2>1, <2>2, <2>3, <2>4, TypesChange DEF StudioIInv
<1>2. [][Fine]_studioVars => OwnTypesSpared
  BY PTL DEF OwnTypesSpared
<1> QED
  BY <1>1, <1>2, StudioInvariance, PTL DEF StudioSpec
=============================================================================
