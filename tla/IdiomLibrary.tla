---------------------------- MODULE IdiomLibrary ----------------------------
(***************************************************************************)
(* The idiom library: two tables that super-admins edit                    *)
(* (app/idioms/admin_routes.py) and the process-wide automaton built from  *)
(* them (app/translate/idioms.py), which every translation scans with.     *)
(*                                                                         *)
(*   Scanners  threads inside _library(): the double-checked read of the   *)
(*             module global _cache, the load under _cache_lock, and the   *)
(*             second read of the global that is returned.                 *)
(*   Admins    write requests: read, flush, reset_cache(), and the commit  *)
(*             of the session dependency after the handler has returned.   *)
(*                                                                         *)
(* An idiom's row and its translation rows are one record here; a flush    *)
(* writes, and locks, only the parts that its request changed.             *)
(***************************************************************************)
EXTENDS Naturals, FiniteSets

CONSTANTS
    Idioms,     \* idiom ids (uuid4)
    Phrases,    \* canonical (stripped, lower-case) English phrases
    Langs, Texts,
    Scanners, Admins,
    NoIdiom, NoLibrary,  \* None
    NoEntry,    \* a phrase that the automaton does not know
    MaxWrites,  \* bound: write requests accepted
    MaxFaults   \* bound: database calls that raise

Values == Texts \cup {"absent", "inactive"}    \* a translation row
Visible == Texts \cup {"absent"}               \* what the library sees of it
Row == [phrase : Phrases, active : BOOLEAN, tr : [Langs -> Values]]
Entry == [Langs -> Visible]
Library == [Phrases -> Entry \cup {NoEntry}]
\* A loaded library.  over is not in the code: it records that a write was
\* between its reset and its commit when the tables were read.
Loaded == [lib : Library, over : BOOLEAN]

ASSUME LibraryAssumption ==
    /\ "absent" \notin Texts /\ "inactive" \notin Texts
    /\ NoLibrary \notin Loaded /\ NoEntry \notin Entry
    /\ NoIdiom \notin Idioms /\ "free" \notin Scanners
    /\ Phrases # {}
    /\ MaxWrites \in Nat /\ MaxFaults \in Nat

VARIABLES
    ids, rows,      \* the committed tables: live idioms and their rows
    cache, lock,    \* _cache and the holder of _cache_lock
    scanPc, draft, got,             \* scanner: place, loaded, returned library
    admPc, admOp, admId,            \* request: place, operation, idiom,
    admOld, admNew,                 \*   the row it read and the row it wants
    writes, faults                  \* how much of the bounds is spent

tables == <<ids, rows>>
scanners == <<scanPc, draft, got>>
requests == <<admPc, admOp, admId, admOld, admNew>>
vars == <<tables, cache, lock, scanners, requests, writes, faults>>

-----------------------------------------------------------------------------
(* _load: one entry per phrase of an active idiom; of several idioms with   *)
(* one phrase the one with the most active translations, whichever comes    *)
(* first on a tie (the query has no ORDER BY).                              *)

Seen(i) == [l \in Langs |->
              IF rows[i].tr[l] = "inactive" THEN "absent" ELSE rows[i].tr[l]]
Rank(i) == Cardinality({l \in Langs : rows[i].tr[l] \in Texts})
ActiveWith(p) == {i \in ids : rows[i].active /\ rows[i].phrase = p}

(* Mutant: the idiom read last wins.                                        *)
Winners_Last(p) == ActiveWith(p)

Winners(p) ==
    {i \in ActiveWith(p) : \A j \in ActiveWith(p) : Rank(j) <= Rank(i)}

Entries(p) ==
    IF ActiveWith(p) = {} THEN {NoEntry} ELSE {Seen(i) : i \in Winners(p)}

(* The libraries that a load of the committed tables may build.             *)
Libraries == {lib \in Library : \A p \in Phrases : lib[p] \in Entries(p)}

Blank == [phrase |-> CHOOSE p \in Phrases : TRUE, active |-> FALSE,
          tr |-> [l \in Langs |-> "absent"]]

(* The seeded library: any idioms, no phrase twice.                         *)
Init ==
    /\ ids \in SUBSET Idioms
    /\ rows \in {r \in [Idioms -> Row] :
                    /\ \A i \in ids : r[i].active
                    /\ \A i, j \in ids : r[i].phrase = r[j].phrase => i = j
                    /\ \A i \in Idioms \ ids : r[i] = Blank}
    /\ cache = NoLibrary /\ lock = "free"
    /\ scanPc = [s \in Scanners |-> "idle"]
    /\ draft = [s \in Scanners |-> NoLibrary]
    /\ got = [s \in Scanners |-> NoLibrary]
    /\ admPc = [a \in Admins |-> "idle"]
    /\ admOp = [a \in Admins |-> "edit"]
    /\ admId = [a \in Admins |-> NoIdiom]
    /\ admOld = [a \in Admins |-> Blank]
    /\ admNew = [a \in Admins |-> Blank]
    /\ writes = 0 /\ faults = 0

-----------------------------------------------------------------------------
(* Scanners: _library(), called by substitute().                            *)

ScanStep(s, from, to) ==
    /\ scanPc[s] = from
    /\ scanPc' = [scanPc EXCEPT ![s] = to]
    /\ UNCHANGED <<tables, requests, writes>>

(* "if _cache is None", without the lock.                                   *)
ScanCheck(s) ==
    /\ ScanStep(s, "idle", IF cache = NoLibrary THEN "acquire" ELSE "return")
    /\ UNCHANGED <<cache, lock, draft, got, faults>>

(* The lock is taken and the global tested again.                           *)
ScanAcquire(s) ==
    /\ lock = "free" /\ lock' = s
    /\ ScanStep(s, "acquire", IF cache = NoLibrary THEN "load" ELSE "release")
    /\ UNCHANGED <<cache, draft, got, faults>>

Uncommitted == \E a \in Admins : admPc[a] = "commit"

(* A plain SELECT in a session of its own, under the lock.                  *)
ScanLoad(s) ==
    /\ \E lib \in Libraries :
         draft' = [draft EXCEPT ![s] = [lib |-> lib, over |-> Uncommitted]]
    /\ ScanStep(s, "load", "store")
    /\ UNCHANGED <<cache, lock, got, faults>>

(* Mutant: the lock is not freed when the SELECT raises.                    *)
ScanRaises_KeepsLock(s) ==
    /\ faults < MaxFaults /\ faults' = faults + 1
    /\ ScanStep(s, "load", "idle")
    /\ UNCHANGED <<cache, lock, draft, got>>

(* The SELECT raises: the with statement frees the lock, the scan fails.    *)
ScanRaises(s) ==
    /\ faults < MaxFaults /\ faults' = faults + 1
    /\ lock' = "free"
    /\ ScanStep(s, "load", "idle")
    /\ UNCHANGED <<cache, draft, got>>

ScanStore(s) ==
    /\ cache' = draft[s]
    /\ draft' = [draft EXCEPT ![s] = NoLibrary]
    /\ ScanStep(s, "store", "release")
    /\ UNCHANGED <<lock, got, faults>>

ScanRelease(s) ==
    /\ lock' = "free"
    /\ ScanStep(s, "release", "return")
    /\ UNCHANGED <<cache, draft, got, faults>>

(* "return _cache" reads the global once more, without the lock.            *)
ScanReturn(s) ==
    /\ got' = [got EXCEPT ![s] = cache]
    /\ ScanStep(s, "return", "scan")
    /\ UNCHANGED <<cache, lock, draft, faults>>

(* lib.scan and the substitutions: an AttributeError if lib is None.        *)
ScanDone(s) ==
    /\ got' = [got EXCEPT ![s] = NoLibrary]
    /\ ScanStep(s, "scan", "idle")
    /\ UNCHANGED <<cache, lock, draft, faults>>

-----------------------------------------------------------------------------
(* Admin requests.  A refused one (400, 404, 409) changes nothing and has   *)
(* no action.                                                               *)

Open(a, op, i, old, new) ==
    /\ admPc[a] = "idle"
    /\ writes < MaxWrites /\ writes' = writes + 1
    /\ admPc' = [admPc EXCEPT ![a] = "flush"]
    /\ admOp' = [admOp EXCEPT ![a] = op]
    /\ admId' = [admId EXCEPT ![a] = i]
    /\ admOld' = [admOld EXCEPT ![a] = old]
    /\ admNew' = [admNew EXCEPT ![a] = new]
    /\ UNCHANGED <<tables, cache, lock, scanners, faults>>

Close(a) ==
    /\ admPc' = [admPc EXCEPT ![a] = "idle"]
    /\ admOp' = [admOp EXCEPT ![a] = "edit"]
    /\ admId' = [admId EXCEPT ![a] = NoIdiom]
    /\ admOld' = [admOld EXCEPT ![a] = Blank]
    /\ admNew' = [admNew EXCEPT ![a] = Blank]

Goto(a, from, to) ==
    /\ admPc[a] = from
    /\ admPc' = [admPc EXCEPT ![a] = to]
    /\ UNCHANGED <<admOp, admId, admOld, admNew>>

(* POST: refused if an idiom, active or not, already has the phrase.        *)
CreateLoad(a, i, new) ==
    /\ i \notin ids
    /\ \A b \in Admins : admId[b] # i
    /\ \A j \in ids : rows[j].phrase # new.phrase
    /\ Open(a, "create", i, Blank, new)

(* PATCH, PUT and DELETE of a translation: the row with the request applied.*)
Patched(old) == {[old EXCEPT !.phrase = p, !.active = on] :
                    p \in Phrases, on \in BOOLEAN}
Upserted(old) == {[old EXCEPT !.tr[l] = v] :
                    l \in Langs, v \in Values \ {"absent"}}
Removed(old) == {[old EXCEPT !.tr[l] = "absent"] :
                    l \in {m \in Langs : old.tr[m] # "absent"}}

EditLoad(a, i, new) ==
    /\ i \in ids
    /\ new \in Patched(rows[i]) \cup Upserted(rows[i]) \cup Removed(rows[i])
    /\ Open(a, "edit", i, rows[i], new)

DeleteLoad(a, i) ==
    /\ i \in ids
    /\ Open(a, "delete", i, rows[i], rows[i])

(* What the flush writes: columns of the idiom, rows of translations.       *)
IdiomWritten(a) ==
    \/ admOld[a].phrase # admNew[a].phrase
    \/ admOld[a].active # admNew[a].active
LangsWritten(a) == {l \in Langs : admOld[a].tr[l] # admNew[a].tr[l]}

(* An uncommitted write holds its rows; a delete holds all of the idiom's.  *)
RowsHeld(a) ==
    \E b \in Admins \ {a} :
        /\ admPc[b] \in {"reset", "commit"} /\ admId[b] = admId[a]
        /\ \/ "delete" \in {admOp[a], admOp[b]}
           \/ IdiomWritten(a) /\ IdiomWritten(b)
           \/ LangsWritten(a) \cap LangsWritten(b) # {}

(* An UPDATE whose row is gone, an INSERT whose row is there or whose idiom *)
(* is gone.  A DELETE of a row that is gone goes through.                   *)
FlushRefused(a) ==
    LET i == admId[a]
        Gone(l) == i \notin ids \/ rows[i].tr[l] = "absent"
    IN  /\ admOp[a] = "edit"
        /\ \/ IdiomWritten(a) /\ i \notin ids
           \/ \E l \in LangsWritten(a) :
                 /\ admNew[a].tr[l] # "absent"
                 /\ IF admOld[a].tr[l] = "absent"
                    THEN i \notin ids \/ ~Gone(l)
                    ELSE Gone(l)

AdminFlush(a) ==
    /\ ~RowsHeld(a) /\ ~FlushRefused(a)
    /\ Goto(a, "flush", "reset")
    /\ UNCHANGED <<tables, cache, lock, scanners, writes, faults>>

(* Mutant: reset_cache does not take the lock.                              *)
AdminReset_NoLock(a) ==
    /\ cache' = NoLibrary
    /\ Goto(a, "reset", "commit")
    /\ UNCHANGED <<tables, lock, scanners, writes, faults>>

(* reset_cache(), under the lock, before the commit.                        *)
AdminReset(a) ==
    /\ lock = "free"
    /\ cache' = NoLibrary
    /\ Goto(a, "reset", "commit")
    /\ UNCHANGED <<tables, lock, scanners, writes, faults>>

(* Mutant: every column and translation of the ORM copy is written.         *)
Column_WholeRow(db, old, new) == new

Column(db, old, new) == IF new = old THEN db ELSE new

Update(db, old, new) ==
    [phrase |-> Column(db.phrase, old.phrase, new.phrase),
     active |-> Column(db.active, old.active, new.active),
     tr |-> [l \in Langs |-> Column(db.tr[l], old.tr[l], new.tr[l])]]

(* The session dependency commits when the request is torn down.            *)
AdminCommit(a) ==
    LET i == admId[a]  old == admOld[a]  new == admNew[a] IN
    /\ admPc[a] = "commit"
    /\ \/ /\ admOp[a] = "create"
          /\ ids' = ids \cup {i} /\ rows' = [rows EXCEPT ![i] = new]
       \/ /\ admOp[a] = "delete"
          /\ ids' = ids \ {i} /\ rows' = [rows EXCEPT ![i] = Blank]
       \/ /\ admOp[a] = "edit" /\ i \in ids
          /\ rows' = [rows EXCEPT ![i] = Update(@, old, new)]
          /\ UNCHANGED ids
       \/ admOp[a] = "edit" /\ i \notin ids /\ UNCHANGED tables
    /\ Close(a)
    /\ UNCHANGED <<cache, lock, scanners, writes, faults>>

(* The flush is refused, or a database call raises: 409 or 500, rolled back.*)
AdminRaises(a) ==
    /\ \/ /\ admPc[a] = "flush" /\ ~RowsHeld(a) /\ FlushRefused(a)
          /\ UNCHANGED faults
       \/ /\ admPc[a] \in {"flush", "commit"}
          /\ faults < MaxFaults /\ faults' = faults + 1
    /\ Close(a)
    /\ UNCHANGED <<tables, cache, lock, scanners, writes>>

-----------------------------------------------------------------------------
ScanWork(s) ==
    \/ ScanAcquire(s) \/ ScanLoad(s) \/ ScanRaises(s) \/ ScanStore(s)
    \/ ScanRelease(s) \/ ScanReturn(s) \/ ScanDone(s)

AdminStarts(a) ==
    \E i \in Idioms :
        \/ \E new \in Row : CreateLoad(a, i, new) \/ EditLoad(a, i, new)
        \/ DeleteLoad(a, i)

AdminWork(a) ==
    AdminFlush(a) \/ AdminReset(a) \/ AdminCommit(a) \/ AdminRaises(a)

Next ==
    \/ \E s \in Scanners : ScanCheck(s) \/ ScanWork(s)
    \/ \E a \in Admins : AdminStarts(a) \/ AdminWork(a)

Spec == Init /\ [][Next]_vars

-----------------------------------------------------------------------------
(* Properties.                                                              *)

ScanPcs == {"idle", "acquire", "load", "store", "release", "return", "scan"}
Holding == {"load", "store", "release"}

(* Types, and the lock is held by exactly the scanner that loads.           *)
TypeOK ==
    /\ ids \subseteq Idioms /\ rows \in [Idioms -> Row]
    /\ cache \in Loaded \cup {NoLibrary}
    /\ scanPc \in [Scanners -> ScanPcs]
    /\ draft \in [Scanners -> Loaded \cup {NoLibrary}]
    /\ got \in [Scanners -> Loaded \cup {NoLibrary}]
    /\ admPc \in [Admins -> {"idle", "flush", "reset", "commit"}]
    /\ admOp \in [Admins -> {"create", "edit", "delete"}]
    /\ admId \in [Admins -> Idioms \cup {NoIdiom}]
    /\ admOld \in [Admins -> Row] /\ admNew \in [Admins -> Row]
    /\ writes \in 0..MaxWrites /\ faults \in 0..MaxFaults
    /\ lock \in Scanners \cup {"free"}
    /\ \A s \in Scanners : scanPc[s] \in Holding <=> lock = s

(* A cached library that no commit can still outdate, because no write was  *)
(* between its reset and its commit when it was read, is one that a load of *)
(* the committed tables would build now: the lock keeps resets and loads    *)
(* apart (translate/idioms.py, "the next scanner rebuilds under lock").     *)
FreshUnlessOverlapped ==
    cache # NoLibrary /\ ~cache.over => cache.lib \in Libraries

(* "Prevents admin-created duplicates (or empty placeholders) from          *)
(* shadowing a well-populated seed row" (_load): the cached entry of a      *)
(* phrase has no fewer translations than any active idiom with the phrase.  *)
DuplicateNeverShadows ==
    cache # NoLibrary /\ ~cache.over =>
        \A p \in Phrases : \A i \in ActiveWith(p) :
            /\ cache.lib[p] # NoEntry
            /\ Rank(i) <= Cardinality({l \in Langs : cache.lib[p][l] \in Texts})

(* A translation row is never lost to a concurrent request about another    *)
(* language or column: the commit changes what its request wrote.           *)
CommitsOwnColumns ==
    [][\A i \in ids \cap ids' : rows'[i] # rows[i] =>
         \E a \in Admins :
            /\ admId[a] = i /\ admPc[a] = "commit" /\ admPc'[a] = "idle"
            /\ \A l \in Langs : rows'[i].tr[l] # rows[i].tr[l] =>
                  l \in LangsWritten(a)]_vars

=============================================================================
