------------------------------ MODULE Startup ------------------------------
(***************************************************************************)
(* Start-up of the server (app/main.py: _startup, migrations/bootstrap.py, *)
(* alembic/env.py): the starter tables are created, filled from the seed   *)
(* file where they are empty, and the schema is upgraded.  Each step is a  *)
(* transaction of its own, except the upgrade, which is one for all its    *)
(* revisions.  A start may die after any of them, its database may fail,   *)
(* and the next one may begin while it is under way (a new revision's      *)
(* instance comes up beside the old one's).                                *)
(***************************************************************************)
EXTENDS Naturals, Sequences, FiniteSets

CONSTANTS
    MaxBoots,   \* bound on starts; they are numbered as they begin
    Seed,       \* STARTER_TABLES, in order
    Refs,       \* [table -> tables its foreign keys point to]
    Newest        \* the last revision; 1 has the table sessions

ASSUME StartupAssumption ==
    /\ MaxBoots \in Nat /\ Newest \in Nat \ {0, 1}
    /\ Seed \in Seq(DOMAIN Refs) \ {<<>>}
    /\ \A i \in DOMAIN Seed : Refs[Seed[i]] \subseteq {Seed[j] : j \in 1..(i - 1)}

VARIABLES
    schema,     \* the starter tables exist
    seeded,     \* those that are filled
    level,      \* the revision the schema has
    version,    \* the revision alembic_version has; 0 if there is no such table
    boot        \* the starts

bootVars == <<schema, seeded, level, version, boot>>
Boots == 1..MaxBoots
Tables == {Seed[i] : i \in DOMAIN Seed}
BootEnds == {"complete", "refused", "failed", "conflict", "dead"}
Boot == [pc : {"idle", "schema", "check", "copy", "version", "sessions", "stamp", "read", "upgrade"} \cup BootEnds,
         table : 1..(Len(Seed) + 1), known : BOOLEAN, from : 0..Newest, before : SUBSET Boots]
NotBooted == [pc |-> "idle", table |-> 1, known |-> FALSE, from |-> 0, before |-> {}]

(* An empty database, one from before Alembic, or one of an older release.  *)
StartupInit ==
    /\ \/ schema = FALSE /\ seeded = {} /\ level = 0 /\ version = 0
       \/ schema = TRUE /\ seeded = Tables /\ level = 1 /\ version \in {0, 1}
    /\ boot = [b \in Boots |-> NotBooted]

-----------------------------------------------------------------------------
BootsBegun == {b \in Boots : boot[b].pc # "idle"}
BootsEnded == {b \in Boots : boot[b].pc \in BootEnds}
Beside(q, b) == q # b /\ q \in BootsBegun /\ b \in BootsBegun /\ q \notin boot[b].before /\ b \notin boot[q].before
BootAt(b, step) == boot[b].pc = step
(* The locals of a start end with it.                                       *)
BootTo(b, step) ==
    boot' = [boot EXCEPT ![b] = IF step \in BootEnds THEN [NotBooted EXCEPT !.pc = step, !.before = boot[b].before]
                                ELSE [@ EXCEPT !.pc = step]]

(* Outside local development the default secret stops the process.          *)
BeginBoot(b) ==
    /\ BootAt(b, "idle") /\ \A q \in 1..(b - 1) : q \in BootsBegun
    /\ \E step \in {"schema", "refused"} : boot' = [boot EXCEPT ![b].pc = step, ![b].before = BootsEnded]
    /\ UNCHANGED <<schema, seeded, level, version>>

(* CREATE TABLE IF NOT EXISTS, which may collide with that of another start.*)
CreateSchema(b) ==
    /\ BootAt(b, "schema")
    /\ \/ BootTo(b, "check") /\ schema' = TRUE
       \/ (\E q \in Boots : Beside(q, b)) /\ BootTo(b, "conflict") /\ UNCHANGED schema
    /\ UNCHANGED <<seeded, level, version>>

GoOn(b, n) == boot' = [boot EXCEPT ![b].table = n, ![b].pc = IF n > Len(Seed) THEN "version" ELSE "check"]
(* A table is filled only if it is empty ...                                *)
CheckTable(b) ==
    /\ BootAt(b, "check")
    /\ IF Seed[boot[b].table] \in seeded THEN GoOn(b, boot[b].table + 1) ELSE BootTo(b, "copy")
    /\ UNCHANGED <<schema, seeded, level, version>>

(* ... and all its rows are inserted at once, unless a key is taken by now  *)
(* or a row they refer to is missing.                                       *)
CopyTable(b) ==
    /\ BootAt(b, "copy")
    /\ LET t == Seed[boot[b].table]
       IN  IF t \in seeded \/ ~(Refs[t] \subseteq seeded)
           THEN BootTo(b, "conflict") /\ UNCHANGED seeded
           ELSE GoOn(b, boot[b].table + 1) /\ seeded' = seeded \cup {t}
    /\ UNCHANGED <<schema, level, version>>

(* Is there alembic_version, and then: are there sessions?                  *)
SeeVersion(b) ==
    /\ BootAt(b, "version")
    /\ boot' = [boot EXCEPT ![b].pc = "sessions", ![b].known = version > 0]
    /\ UNCHANGED <<schema, seeded, level, version>>

(* Mutant: the stamp does not ask whether the version is known.             *)
SeeSessions_Stamps(b) ==
    /\ BootAt(b, "sessions")
    /\ BootTo(b, IF level > 0 THEN "stamp" ELSE "read")
    /\ UNCHANGED <<schema, seeded, level, version>>
(* A database from before Alembic is stamped as revision 1.                 *)
SeeSessions(b) ==
    /\ BootAt(b, "sessions")
    /\ BootTo(b, IF level > 0 /\ ~boot[b].known THEN "stamp" ELSE "read")
    /\ UNCHANGED <<schema, seeded, level, version>>

Stamp(b) ==
    /\ BootAt(b, "stamp") /\ BootTo(b, "read") /\ version' = 1
    /\ UNCHANGED <<schema, seeded, level>>

ReadVersion(b) ==
    /\ BootAt(b, "read") /\ boot' = [boot EXCEPT ![b].pc = "upgrade", ![b].from = version]
    /\ UNCHANGED <<schema, seeded, level, version>>

(* All revisions behind the one that was read, in one transaction: it fails *)
(* on what is there already.                                                *)
Upgrade(b) ==
    /\ BootAt(b, "upgrade")
    /\ IF boot[b].from = Newest THEN BootTo(b, "complete") /\ UNCHANGED <<level, version>>
       ELSE IF level = boot[b].from /\ version = boot[b].from
       THEN BootTo(b, "complete") /\ level' = Newest /\ version' = Newest
       ELSE BootTo(b, "conflict") /\ UNCHANGED <<level, version>>
    /\ UNCHANGED <<schema, seeded>>

(* A statement raises: the server comes up and serves /ping only; or the    *)
(* process dies.                                                            *)
BootRaises(b) ==
    /\ b \in BootsBegun \ BootsEnded
    /\ \E end \in {"failed", "dead"} : BootTo(b, end)
    /\ UNCHANGED <<schema, seeded, level, version>>

StartupNext ==
    \E b \in Boots :
        \/ BeginBoot(b) \/ CreateSchema(b) \/ CheckTable(b) \/ CopyTable(b) \/ SeeVersion(b) \/ SeeSessions(b)
        \/ Stamp(b) \/ ReadVersion(b) \/ Upgrade(b) \/ BootRaises(b)

-----------------------------------------------------------------------------
StartupTypeOK ==
    /\ schema \in BOOLEAN /\ seeded \subseteq Tables /\ (seeded # {} => schema)
    /\ level \in 0..Newest /\ version \in 0..Newest /\ boot \in [Boots -> Boot]

(* A start that came up completely left every table filled and the schema   *)
(* at its last revision; and whatever earlier starts left half-way, a start *)
(* meets no conflict of its own.  Both hold unless two starts were under    *)
(* way together (bootstrap.py: 1-8, "Idempotent startup", and 164-191).     *)
StartsRepair ==
    /\ \A b \in Boots : BootAt(b, "complete") => seeded = Tables
    /\ (\A q, b \in Boots : ~Beside(q, b)) =>
         \A b \in Boots : /\ ~BootAt(b, "conflict")
                          /\ BootAt(b, "complete") => level = Newest /\ version = Newest
(* What two starts at once may spoil for later ones is the stamp alone: it  *)
(* may set the version back under a schema that is newer.                   *)
OnlyStampSpoils ==
    \A b \in Boots : BootAt(b, "conflict") => (\E q \in Boots : Beside(q, b)) \/ (version = 1 /\ level = Newest)
=============================================================================
