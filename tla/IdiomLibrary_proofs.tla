------------------------- MODULE IdiomLibrary_proofs -------------------------
(***************************************************************************)
(* Proofs about IdiomLibrary, for any number of idioms, languages, threads *)
(* and requests: its type invariant, and that the lock keeps resets and    *)
(* loads apart.                                                            *)
(***************************************************************************)
EXTENDS IdiomLibrary, FiniteSetTheorems, TLAPS

LEMMA BlankType == Blank \in Row
  BY LibraryAssumption DEF Blank, Row, Values

LEMMA UpdateType ==
    ASSUME NEW db \in Row, NEW old \in Row, NEW new \in Row
    PROVE  Update(db, old, new) \in Row
  BY DEF Update, Column, Row

(* Every library that a load may build is a library.                        *)
LEMMA LibrariesType == Libraries \subseteq Library
  BY DEF Libraries

LEMMA InitType == Init => TypeOK
  BY BlankType, LibraryAssumption DEF Init, TypeOK, ScanPcs, Holding

(* The lock, and every scanner, through one scanner's step.                 *)
LEMMA ScanType ==
    ASSUME TypeOK, NEW s \in Scanners, ScanCheck(s) \/ ScanWork(s)
    PROVE  TypeOK'
<1> USE LibraryAssumption DEF ScanStep, TypeOK, ScanPcs, Holding, tables, requests
<1>1. CASE ScanCheck(s)
  BY <1>1 DEF ScanCheck
<1>2. CASE ScanAcquire(s)
  BY <1>2 DEF ScanAcquire
<1>3. CASE ScanLoad(s)
  <2>1. PICK lib \in Libraries :
          draft' = [draft EXCEPT ![s] = [lib |-> lib, over |-> Uncommitted]]
    BY <1>3 DEF ScanLoad
  <2>2. [lib |-> lib, over |-> Uncommitted] \in Loaded
    BY LibrariesType DEF Loaded, Uncommitted
  <2>3. draft' \in [Scanners -> Loaded \cup {NoLibrary}]
    BY <2>1, <2>2
  <2> QED BY <1>3, <2>3 DEF ScanLoad
<1>4. CASE ScanRaises(s)
  BY <1>4 DEF ScanRaises
<1>5. CASE ScanStore(s)
  BY <1>5 DEF ScanStore
<1>6. CASE ScanRelease(s)
  BY <1>6 DEF ScanRelease
<1>7. CASE ScanReturn(s)
  BY <1>7 DEF ScanReturn
<1>8. CASE ScanDone(s)
  BY <1>8 DEF ScanDone
<1> QED BY <1>1, <1>2, <1>3, <1>4, <1>5, <1>6, <1>7, <1>8 DEF ScanWork

LEMMA OpenType ==
    ASSUME TypeOK, NEW a \in Admins, NEW op \in {"create", "edit", "delete"},
           NEW i \in Idioms, NEW old \in Row, NEW new \in Row,
           Open(a, op, i, old, new)
    PROVE  TypeOK'
  BY LibraryAssumption DEF Open, TypeOK, tables, scanners

LEMMA CloseType ==
    ASSUME TypeOK, NEW a \in Admins, Close(a)
    PROVE  /\ admPc' \in [Admins -> {"idle", "flush", "reset", "commit"}]
           /\ admOp' \in [Admins -> {"create", "edit", "delete"}]
           /\ admId' \in [Admins -> Idioms \cup {NoIdiom}]
           /\ admOld' \in [Admins -> Row] /\ admNew' \in [Admins -> Row]
  BY BlankType DEF Close, TypeOK

(* A request that holds rows has its idiom.                                 *)
HasIdiom == \A a \in Admins : admPc[a] # "idle" => admId[a] \in Idioms

LEMMA AdminType ==
    ASSUME TypeOK, HasIdiom, NEW a \in Admins, AdminStarts(a) \/ AdminWork(a)
    PROVE  TypeOK'
<1>1. CASE AdminStarts(a)
  <2>1. PICK i \in Idioms : \/ \E new \in Row : CreateLoad(a, i, new) \/ EditLoad(a, i, new)
                            \/ DeleteLoad(a, i)
    BY <1>1 DEF AdminStarts
  <2>2. rows[i] \in Row
    BY DEF TypeOK
  <2>3. CASE \E new \in Row : CreateLoad(a, i, new)
    BY <2>3, OpenType, BlankType DEF CreateLoad
  <2>4. CASE \E new \in Row : EditLoad(a, i, new)
    BY <2>4, <2>2, OpenType DEF EditLoad
  <2>5. CASE DeleteLoad(a, i)
    BY <2>5, <2>2, OpenType DEF DeleteLoad
  <2> QED BY <2>1, <2>3, <2>4, <2>5
<1>2. CASE AdminFlush(a)
  BY <1>2 DEF AdminFlush, Goto, TypeOK, tables, scanners, ScanPcs, Holding
<1>3. CASE AdminReset(a)
  BY <1>3 DEF AdminReset, Goto, TypeOK, tables, scanners, ScanPcs, Holding
<1>4. CASE AdminCommit(a)
  <2>1. admId[a] \in Idioms /\ rows[admId[a]] \in Row
    BY <1>4 DEF AdminCommit, HasIdiom, TypeOK
  <2>2. admOld[a] \in Row /\ admNew[a] \in Row
    BY DEF TypeOK
  <2>3. ids' \subseteq Idioms /\ rows' \in [Idioms -> Row]
    BY <1>4, <2>1, <2>2, BlankType, UpdateType DEF AdminCommit, TypeOK, tables
  <2> QED BY <1>4, <2>3, CloseType DEF AdminCommit, TypeOK, scanners, ScanPcs, Holding
<1>5. CASE AdminRaises(a)
  <2>1. faults' \in 0..MaxFaults
    BY <1>5, LibraryAssumption DEF AdminRaises, TypeOK
  <2> QED BY <1>5, <2>1, CloseType DEF AdminRaises, TypeOK, tables, scanners, ScanPcs, Holding
<1> QED BY <1>1, <1>2, <1>3, <1>4, <1>5 DEF AdminWork

LEMMA HasIdiomStep ==
    ASSUME TypeOK, HasIdiom, [Next]_vars
    PROVE  HasIdiom'
<1> USE DEF TypeOK, HasIdiom
<1>1. CASE UNCHANGED vars
  BY <1>1 DEF vars, requests
<1>2. ASSUME NEW s \in Scanners, ScanCheck(s) \/ ScanWork(s)
      PROVE  HasIdiom'
  BY <1>2 DEF ScanCheck, ScanWork, ScanAcquire, ScanLoad, ScanRaises, ScanStore,
     ScanRelease, ScanReturn, ScanDone, ScanStep, requests
<1>3. ASSUME NEW a \in Admins, AdminStarts(a)
      PROVE  HasIdiom'
  BY <1>3 DEF AdminStarts, CreateLoad, EditLoad, DeleteLoad, Open
<1>4. ASSUME NEW a \in Admins, AdminWork(a)
      PROVE  HasIdiom'
  BY <1>4 DEF AdminWork, AdminFlush, AdminReset, AdminCommit, AdminRaises, Goto, Close
<1> QED BY <1>1, <1>2, <1>3, <1>4 DEF Next

LEMMA TypeStep ==
    ASSUME TypeOK, HasIdiom, [Next]_vars
    PROVE  TypeOK'
<1>1. CASE UNCHANGED vars
  BY <1>1 DEF vars, tables, scanners, requests, TypeOK, ScanPcs, Holding
<1> QED BY <1>1, ScanType, AdminType DEF Next

LEMMA InitHasIdiom == Init => HasIdiom
  BY DEF Init, HasIdiom

(* Every reachable state is well typed, and only the scanner that loads     *)
(* holds _cache_lock.                                                       *)
THEOREM TypeCorrect == Spec => []TypeOK
<1>1. Init => TypeOK /\ HasIdiom
  BY InitType, InitHasIdiom
<1>2. (TypeOK /\ HasIdiom) /\ [Next]_vars => (TypeOK /\ HasIdiom)'
  BY TypeStep, HasIdiomStep
<1> QED BY <1>1, <1>2, PTL DEF Spec

-----------------------------------------------------------------------------
(* Freshness.  The invariant follows a library from the SELECT to the cache *)
(* and says what a request between its reset and its commit leaves behind.  *)

CommitsSeen ==
    Uncommitted => cache = NoLibrary \/ cache.over
DraftFresh ==
    \A s \in Scanners : scanPc[s] = "store" =>
        /\ draft[s] # NoLibrary
        /\ ~draft[s].over => draft[s].lib \in Libraries /\ ~Uncommitted
IInv == CommitsSeen /\ DraftFresh /\ FreshUnlessOverlapped

LEMMA InitIInv == Init => IInv
  BY DEF Init, IInv, CommitsSeen, DraftFresh, FreshUnlessOverlapped, Uncommitted

(* A load and the tables: what a step must leave alone.                     *)
LEMMA LibrariesKept ==
    ASSUME UNCHANGED tables
    PROVE  Libraries' = Libraries
  BY DEF tables, Libraries, Entries, ActiveWith, Winners, Rank, Seen

LEMMA ScanFresh ==
    ASSUME TypeOK, IInv, NEW s \in Scanners, ScanCheck(s) \/ ScanWork(s)
    PROVE  IInv'
<1>1. Libraries' = Libraries /\ Uncommitted' = Uncommitted
  <2>1. UNCHANGED tables /\ UNCHANGED admPc
    BY DEF ScanCheck, ScanWork, ScanAcquire, ScanLoad, ScanRaises, ScanStore,
       ScanRelease, ScanReturn, ScanDone, ScanStep, requests
  <2> QED BY <2>1, LibrariesKept DEF Uncommitted
<1> USE DEF IInv, CommitsSeen, DraftFresh, FreshUnlessOverlapped, ScanStep, TypeOK
<1>2. CASE ScanLoad(s)
  <2>1. PICK lib \in Libraries :
          draft' = [draft EXCEPT ![s] = [lib |-> lib, over |-> Uncommitted]]
    BY <1>2 DEF ScanLoad
  <2>2. [lib |-> lib, over |-> Uncommitted] \in Loaded
    BY LibrariesType DEF Loaded, Uncommitted
  <2>3. /\ draft'[s] # NoLibrary
        /\ ~draft'[s].over => draft'[s].lib \in Libraries /\ ~Uncommitted
    BY <2>1, <2>2, LibraryAssumption
  <2>4. \A t \in Scanners \ {s} : draft'[t] = draft[t] /\ scanPc'[t] = scanPc[t]
    BY <1>2, <2>1 DEF ScanLoad
  <2> QED BY <1>1, <1>2, <2>3, <2>4 DEF ScanLoad
<1>3. CASE ScanStore(s)
  BY <1>1, <1>3 DEF ScanStore
<1>4. CASE ScanCheck(s) \/ ScanAcquire(s) \/ ScanRaises(s) \/ ScanRelease(s)
           \/ ScanReturn(s) \/ ScanDone(s)
  BY <1>1, <1>4 DEF ScanCheck, ScanAcquire, ScanRaises, ScanRelease, ScanReturn,
     ScanDone
<1> QED BY <1>2, <1>3, <1>4 DEF ScanWork

LEMMA AdminFresh ==
    ASSUME TypeOK, IInv, NEW a \in Admins, AdminStarts(a) \/ AdminWork(a)
    PROVE  IInv'
<1> USE DEF IInv, CommitsSeen, DraftFresh, FreshUnlessOverlapped, TypeOK
<1>1. UNCHANGED scanners
  BY DEF AdminStarts, CreateLoad, EditLoad, DeleteLoad, Open, AdminWork,
     AdminFlush, AdminReset, AdminCommit, AdminRaises
<1>2. CASE AdminReset(a)
  <2>1. \A s \in Scanners : scanPc'[s] # "store"
    BY <1>1, <1>2, LibraryAssumption DEF AdminReset, scanners, Holding
  <2>2. cache' = NoLibrary
    BY <1>2 DEF AdminReset
  <2>3. CommitsSeen' /\ FreshUnlessOverlapped'
    BY <2>2
  <2>4. DraftFresh'
    BY <2>1
  <2> QED BY <2>3, <2>4
<1>3. CASE AdminCommit(a)
  <2>1. Uncommitted /\ cache' = cache
    BY <1>3 DEF AdminCommit, Uncommitted
  <2>2. \A s \in Scanners : scanPc'[s] = "store" =>
           draft'[s] # NoLibrary /\ draft'[s].over
    BY <1>1, <2>1 DEF scanners
  <2>3. cache' = NoLibrary \/ cache'.over
    BY <2>1
  <2> QED BY <2>2, <2>3
<1>4. CASE AdminStarts(a) \/ AdminFlush(a) \/ AdminRaises(a)
  <2>1. UNCHANGED tables /\ cache' = cache /\ (Uncommitted' => Uncommitted)
    BY <1>4 DEF AdminStarts, CreateLoad, EditLoad, DeleteLoad, Open, AdminFlush,
       AdminRaises, Goto, Close, Uncommitted
  <2> QED BY <1>1, <2>1, LibrariesKept DEF scanners
<1> QED BY <1>2, <1>3, <1>4 DEF AdminWork

LEMMA IInvStep ==
    ASSUME TypeOK, IInv, [Next]_vars
    PROVE  IInv'
<1>1. CASE UNCHANGED vars
  <2>1. Libraries' = Libraries
    BY <1>1, LibrariesKept DEF vars
  <2> QED BY <1>1, <2>1 DEF vars, scanners, requests, IInv, CommitsSeen,
       DraftFresh, FreshUnlessOverlapped, Uncommitted
<1> QED BY <1>1, ScanFresh, AdminFresh DEF Next

(* A library read while no write was between its reset and its commit stays *)
(* what a load of the committed tables would build.                         *)
THEOREM FreshUnlessOverlappedHolds == Spec => []FreshUnlessOverlapped
<1>1. TypeOK /\ IInv /\ [Next]_vars => IInv'
  BY IInvStep
<1>2. IInv => FreshUnlessOverlapped
  BY DEF IInv
<1> QED BY InitIInv, TypeCorrect, <1>1, <1>2, PTL DEF Spec

(* An entry of a library of the committed tables has as many translations   *)
(* as any active idiom with its phrase.                                     *)
LEMMA NoShadow ==
    ASSUME TypeOK, FreshUnlessOverlapped
    PROVE  DuplicateNeverShadows
<1> SUFFICES ASSUME cache # NoLibrary, ~cache.over,
                    NEW p \in Phrases, NEW i \in ActiveWith(p)
             PROVE  /\ cache.lib[p] # NoEntry
                    /\ Rank(i) <= Cardinality({l \in Langs : cache.lib[p][l] \in Texts})
  BY DEF DuplicateNeverShadows
<1>1. cache.lib[p] \in {Seen(w) : w \in Winners(p)}
  BY DEF FreshUnlessOverlapped, Libraries, Entries
<1>2. PICK w \in Winners(p) : cache.lib[p] = Seen(w)
  BY <1>1
<1>3. Rank(i) <= Rank(w)
  BY DEF Winners
<1>4. {l \in Langs : cache.lib[p][l] \in Texts} = {l \in Langs : rows[w].tr[l] \in Texts}
  BY <1>2, LibraryAssumption DEF Seen
<1>5. cache.lib[p] # NoEntry
  <2>1. w \in Idioms /\ rows[w] \in Row
    BY DEF Winners, ActiveWith, TypeOK
  <2>2. Seen(w) \in Entry
    BY <2>1 DEF Seen, Entry, Visible, Row, Values
  <2> QED BY <1>2, <2>2, LibraryAssumption
<1> QED BY <1>3, <1>4, <1>5 DEF Rank

(* No duplicate and no empty placeholder shadows a translated idiom.        *)
THEOREM DuplicateNeverShadowsHolds == Spec => []DuplicateNeverShadows
  BY NoShadow, TypeCorrect, FreshUnlessOverlappedHolds, PTL

-----------------------------------------------------------------------------
(* Commits.  An idiom that a request creates is not in the table yet.       *)
CreatesNew ==
    \A a \in Admins : admPc[a] # "idle" /\ admOp[a] = "create" =>
        /\ admId[a] \notin ids
        /\ \A b \in Admins \ {a} : admId[b] # admId[a]

LEMMA CreatesNewStep ==
    ASSUME TypeOK, HasIdiom, CreatesNew, [Next]_vars
    PROVE  CreatesNew'
<1> USE DEF TypeOK, HasIdiom, CreatesNew
<1>1. CASE UNCHANGED vars
  BY <1>1 DEF vars, requests, tables
<1>2. ASSUME NEW s \in Scanners, ScanCheck(s) \/ ScanWork(s)
      PROVE  CreatesNew'
  BY <1>2 DEF ScanCheck, ScanWork, ScanAcquire, ScanLoad, ScanRaises, ScanStore,
     ScanRelease, ScanReturn, ScanDone, ScanStep, requests, tables
<1>3. ASSUME NEW a \in Admins, AdminStarts(a)
      PROVE  CreatesNew'
  BY <1>3 DEF AdminStarts, CreateLoad, EditLoad, DeleteLoad, Open, tables
<1>4. ASSUME NEW a \in Admins, AdminWork(a)
      PROVE  CreatesNew'
  <2>1. CASE AdminCommit(a)
    BY <2>1, LibraryAssumption DEF AdminCommit, Close, tables
  <2>2. CASE AdminFlush(a) \/ AdminReset(a) \/ AdminRaises(a)
    BY <2>2, LibraryAssumption DEF AdminFlush, AdminReset, AdminRaises, Goto, Close, tables
  <2> QED BY <1>4, <2>1, <2>2 DEF AdminWork
<1> QED BY <1>1, <1>2, <1>3, <1>4 DEF Next

LEMMA InitCreatesNew == Init => CreatesNew
  BY DEF Init, CreatesNew

LEMMA CommitStep ==
    ASSUME TypeOK, HasIdiom, CreatesNew, NEW i \in ids, i \in ids',
           rows'[i] # rows[i], Next
    PROVE  \E a \in Admins :
            /\ admId[a] = i /\ admPc[a] = "commit" /\ admPc'[a] = "idle"
            /\ \A l \in Langs : rows'[i].tr[l] # rows[i].tr[l] =>
                  l \in LangsWritten(a)
<1>1. PICK a \in Admins : AdminCommit(a)
  BY DEF Next, ScanCheck, ScanWork, ScanAcquire, ScanLoad, ScanRaises,
     ScanStore, ScanRelease, ScanReturn, ScanDone, ScanStep, AdminStarts,
     CreateLoad, EditLoad, DeleteLoad, Open, AdminWork, AdminFlush, AdminReset,
     AdminRaises, tables
<1>2. admPc[a] = "commit" /\ admPc'[a] = "idle"
  BY <1>1 DEF AdminCommit, Close, TypeOK
<1>3. /\ admId[a] = i
      /\ rows'[i] = Update(rows[i], admOld[a], admNew[a])
  BY <1>1, <1>2 DEF AdminCommit, TypeOK, CreatesNew, HasIdiom, tables
<1>4. \A l \in Langs : rows'[i].tr[l] =
          Column(rows[i].tr[l], admOld[a].tr[l], admNew[a].tr[l])
  BY <1>3 DEF Update
<1> QED BY <1>2, <1>3, <1>4 DEF Column, LangsWritten

(* A commit changes only what its request wrote.                            *)
THEOREM CommitsOwnColumnsHolds == Spec => CommitsOwnColumns
<1>1. TypeOK /\ HasIdiom /\ CreatesNew /\ [Next]_vars =>
        [\A i \in ids \cap ids' : rows'[i] # rows[i] =>
           \E a \in Admins :
              /\ admId[a] = i /\ admPc[a] = "commit" /\ admPc'[a] = "idle"
              /\ \A l \in Langs : rows'[i].tr[l] # rows[i].tr[l] =>
                    l \in LangsWritten(a)]_vars
  BY CommitStep
<1>2. Init => HasIdiom /\ CreatesNew
  BY InitHasIdiom, InitCreatesNew
<1>3. TypeOK /\ HasIdiom /\ CreatesNew /\ [Next]_vars => (HasIdiom /\ CreatesNew)'
  BY HasIdiomStep, CreatesNewStep
<1> QED BY TypeCorrect, <1>1, <1>2, <1>3, PTL DEF Spec, CommitsOwnColumns
=============================================================================
