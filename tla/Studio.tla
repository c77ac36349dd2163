------------------------------- MODULE Studio -------------------------------
(***************************************************************************)
(* The conversation studio (conversation_studio/): administrators edit     *)
(* business units, the issue types in them, the data points bound to an    *)
(* issue type and its acknowledgment templates (admin_routes.py); a worker *)
(* taps the chip of an issue type, whose data points are fetched and put   *)
(* into one of its templates (routes.py, service.py, render.py).  Requests *)
(* overlap: each reads committed rows, and writes in one commit, where     *)
(* foreign keys, unique keys and cascades take effect.                     *)
(***************************************************************************)
EXTENDS Naturals, FiniteSets, SequencesExt

CONSTANTS
    Units,         \* business units, each with a code of its own
    Types,         \* issue types
    CodeOf,        \* their codes, unique within a unit
    NoUnit,
    Points,        \* the registry of data points: those of FETCHER_REGISTRY and stale ones
    Lists,         \* what PUT data-points may bind: each data point's sort_order, 0 unbound
    Templates,     \* templates: sequences of sentences, each the set of facts it shows
    Starts,        \* what earlier requests left: units and issue types
    MaxRequests,   \* bound on the requests; they are numbered as they arrive
    Together       \* bound on overlap: a later one comes when none is under way

VARIABLES
    units,      \* table business_units
    types,      \* table issue_types
    links,      \* table issue_type_data_points: sort_order of a bound data point, 0 unbound
    templates,  \* table acknowledgment_templates: "none", "active", "inactive"
    req,        \* the requests
    lists       \* history: what the last committed PUT of an issue type bound

tables == <<units, types, links, templates>>
studioVars == <<units, types, links, templates, req, lists>>

Requests == 1..MaxRequests
Places == Units \cup {NoUnit}
Unit == [exists : BOOLEAN, parent : Places, active : BOOLEAN]
Type == [exists : BOOLEAN, unit : Places, active : BOOLEAN]
NoUnitRow == [exists |-> FALSE, parent |-> NoUnit, active |-> FALSE]
NoTypeRow == [exists |-> FALSE, unit |-> NoUnit, active |-> FALSE]
TemplateRows == [Templates -> {"none", "active", "inactive"}]
Bound == [Points -> Nat]
Unbound == [p \in Points |-> 0]
(* A sort_order is any integer the client gives, also one given twice; they *)
(* are only compared, so their ranks stand for them.                        *)
Named(list) == {p \in Points : list[p] > 0}

(* The foreign and unique keys of the two tables: a parent and the unit of  *)
(* an issue type are there, and a code is taken once within a unit; nothing *)
(* is left of a row that is gone.                                           *)
Keyed(us, ts) ==
    /\ \A u \in Units : /\ us[u].parent = NoUnit \/ us[us[u].parent].exists
                        /\ us[u].exists \/ us[u] = NoUnitRow
    /\ \A t \in Types : IF ts[t].exists
          THEN /\ ts[t].unit # NoUnit /\ us[ts[t].unit].exists
               /\ \A s \in Types \ {t} : ts[s].exists /\ ts[s].unit = ts[t].unit => CodeOf[s] # CodeOf[t]
          ELSE ts[t] = NoTypeRow

ASSUME StudioAssumption ==
    /\ NoUnit \notin Units /\ DOMAIN CodeOf = Types
    /\ IsFiniteSet(Units) /\ IsFiniteSet(Points)
    /\ Lists \subseteq Bound
    /\ Templates \subseteq Seq(SUBSET Points)
    /\ Starts \subseteq [units : [Units -> Unit], types : [Types -> Type]]
    /\ \A start \in Starts : Keyed(start.units, start.types)
    /\ MaxRequests \in Nat /\ Together \in Nat

(* What an update read: where a row was, and whether it was active.         *)
Absent == [place |-> NoUnit, active |-> FALSE]
Ends == {"done", "refused", "conflict", "error"}
NotYet == [kind |-> "idle", pc |-> "idle", unit |-> NoUnit, type |-> "none", place |-> NoUnit, active |-> TRUE,
           list |-> Unbound, template |-> <<>>, state |-> "none",
           was |-> Absent, copy |-> Unbound, facts |-> {}, ack |-> <<>>, before |-> {}]

StudioInit ==
    /\ \E start \in Starts : units = start.units /\ types = start.types
    /\ links = [t \in Types |-> Unbound] /\ lists = links
    /\ templates = [t \in Types |-> [p \in Templates |-> "none"]]
    /\ req = [r \in Requests |-> NotYet]

-----------------------------------------------------------------------------
At(r, step) == req[r].pc = step
Begun == {r \in Requests : ~At(r, "idle")}
Ended == {r \in Requests : req[r].pc \in Ends}
NextUp(r) ==
    /\ r \notin Begun /\ \A q \in 1..(r - 1) : q \in Begun
    /\ r > Together => Begun = Ended
Send(r, what) == NextUp(r) /\ req' = [req EXCEPT ![r] = [what EXCEPT !.pc = "sent", !.before = Ended]]
(* The copies of a request are gone with it; what it was about stays.       *)
End(r, how) ==
    req' = [req EXCEPT ![r] = [NotYet EXCEPT !.kind = req[r].kind, !.pc = how, !.unit = req[r].unit,
                                             !.type = req[r].type, !.before = req[r].before]]
Goto(r, step) == req' = [req EXCEPT ![r].pc = step]
(* A column is written if the new value differs from the one read.          *)
Written(now, read, new) == IF new = read THEN now ELSE new
Changes(r) == [place |-> req[r].place, active |-> req[r].active] # req[r].was
Doing(r, kind, step) == req[r].kind = kind /\ req[r].pc = step

LiveUnits == {u \in Units : units[u].exists}
LiveTypes == {t \in Types : types[t].exists}
In(u) == {t \in LiveTypes : types[t].unit = u}
(* The code of an issue type is unique within its unit.                     *)
Clash(t, u) == \E s \in In(u) \ {t} : CodeOf[s] = CodeOf[t]
(* ON DELETE CASCADE: a unit goes with the units below it.                  *)
Below(u) == {v \in LiveUnits : \E n \in 1..Cardinality(Units) :
                \E path \in [1..n -> LiveUnits] :
                    path[1] = u /\ path[n] = v /\ \A i \in 2..n : units[path[i]].parent = path[i - 1]}

(* The rows of the issue types that go, with all that hangs on them.        *)
DropTypes(gone) ==
    /\ types' = [t \in Types |-> IF t \in gone THEN NoTypeRow ELSE types[t]]
    /\ links' = [t \in Types |-> IF t \in gone THEN Unbound ELSE links[t]]
    /\ lists' = [t \in Types |-> IF t \in gone THEN Unbound ELSE lists[t]]
    /\ templates' = [t \in Types |-> IF t \in gone THEN [p \in Templates |-> "none"] ELSE templates[t]]

-----------------------------------------------------------------------------
(* Business units.                                                          *)
SendUnit(r) ==
    /\ \E u \in Units, place \in Places :
          \/ Send(r, [NotYet EXCEPT !.kind = "addUnit", !.unit = u, !.place = place])
          \/ \E active \in BOOLEAN :
                Send(r, [NotYet EXCEPT !.kind = "editUnit", !.unit = u, !.place = place, !.active = active])
          \/ place = NoUnit /\ Send(r, [NotYet EXCEPT !.kind = "dropUnit", !.unit = u])
    /\ UNCHANGED <<tables, lists>>

(* POST: the code may be taken, or the parent gone; both answer 409.        *)
AddUnit(r) ==
    /\ Doing(r, "addUnit", "sent")
    /\ LET u == req[r].unit  place == req[r].place
       IN  IF units[u].exists \/ (place # NoUnit /\ ~units[place].exists)
           THEN End(r, "conflict") /\ UNCHANGED units
           ELSE End(r, "done") /\ units' = [units EXCEPT ![u] = [exists |-> TRUE, parent |-> place, active |-> TRUE]]
    /\ UNCHANGED <<types, links, templates, lists>>

EditUnitLoad(r) ==
    /\ Doing(r, "editUnit", "sent")
    /\ IF units[req[r].unit].exists
       THEN LET row == units[req[r].unit]
            IN  req' = [req EXCEPT ![r].pc = "read", ![r].was = [place |-> row.parent, active |-> row.active]]
       ELSE End(r, "refused")
    /\ UNCHANGED <<tables, lists>>

(* Nothing keeps a unit from its own descendants as parent.                 *)
EditUnit(r) ==
    /\ Doing(r, "editUnit", "read")
    /\ LET u == req[r].unit  place == req[r].place
       IN  IF ~Changes(r) THEN End(r, "done") /\ UNCHANGED units
           ELSE IF ~units[u].exists \/ (place \notin {NoUnit, req[r].was.place} /\ ~units[place].exists)
           THEN End(r, "error") /\ UNCHANGED units
           ELSE /\ units' = [units EXCEPT ![u].parent = Written(@, req[r].was.place, place),
                                          ![u].active = Written(@, req[r].was.active, req[r].active)]
                /\ End(r, "done")
    /\ UNCHANGED <<types, links, templates, lists>>

(* Mutant: the issue types are not looked for.                              *)
Attached_None(u) == {}
(* DELETE is refused while the unit itself has issue types ...              *)
Attached(u) == In(u)

DropUnitLoad(r) ==
    /\ Doing(r, "dropUnit", "sent")
    /\ IF ~units[req[r].unit].exists THEN End(r, "refused")
       ELSE IF Attached(req[r].unit) # {} THEN End(r, "conflict")
       ELSE Goto(r, "read")
    /\ UNCHANGED <<tables, lists>>

(* ... and cascades to what there is when it is done.                       *)
DropUnit(r) ==
    /\ Doing(r, "dropUnit", "read")
    /\ LET gone == Below(req[r].unit)
       IN  /\ units' = [u \in Units |-> IF u \in gone THEN NoUnitRow ELSE units[u]]
           /\ DropTypes(UNION {In(u) : u \in gone})
    /\ End(r, "done")

-----------------------------------------------------------------------------
(* Issue types.                                                             *)
SendType(r) ==
    /\ \E t \in Types :
          \/ \E u \in Units : Send(r, [NotYet EXCEPT !.kind = "addType", !.type = t, !.place = u])
          \/ \E u \in Units, active \in BOOLEAN :
                Send(r, [NotYet EXCEPT !.kind = "editType", !.type = t, !.place = u, !.active = active])
          \/ Send(r, [NotYet EXCEPT !.kind = "dropType", !.type = t])
          \/ \E list \in Lists : Send(r, [NotYet EXCEPT !.kind = "bind", !.type = t, !.list = list])
          \/ \E p \in Templates, state \in {"active", "inactive", "none"} :
                Send(r, [NotYet EXCEPT !.kind = "template", !.type = t, !.template = p, !.state = state])
    /\ UNCHANGED <<tables, lists>>

(* The issue type there has to be, or the unit it goes to, and the bound    *)
(* data points as they are.                                                 *)
TypeLoad(r) ==
    /\ At(r, "sent") /\ req[r].kind \in {"addType", "editType", "dropType", "bind", "template"}
    /\ IF /\ req[r].kind # "addType" => types[req[r].type].exists
          /\ req[r].kind \in {"addType", "editType"} => units[req[r].place].exists
          /\ req[r].kind = "template" /\ req[r].state = "none" => templates[req[r].type][req[r].template] # "none"
       THEN LET row == types[req[r].type]
            IN  req' = [req EXCEPT ![r].pc = "read",
                           ![r].copy = IF req[r].kind = "bind" THEN links[req[r].type] ELSE Unbound,
                           ![r].was  = CASE req[r].kind = "editType" -> [place |-> row.unit, active |-> row.active]
                                         [] req[r].kind = "template" ->
                                              [Absent EXCEPT !.active = templates[req[r].type][req[r].template] # "none"]
                                         [] OTHER -> Absent]
       ELSE End(r, "refused")
    /\ UNCHANGED <<tables, lists>>

(* The insert fails with 409 if the code is taken or the unit is gone by    *)
(* now.                                                                     *)
AddType(r) ==
    /\ Doing(r, "addType", "read")
    /\ LET t == req[r].type  u == req[r].place
       IN  IF types[t].exists \/ ~units[u].exists \/ Clash(t, u)
           THEN End(r, "conflict") /\ UNCHANGED types
           ELSE End(r, "done") /\ types' = [types EXCEPT ![t] = [exists |-> TRUE, unit |-> u, active |-> TRUE]]
    /\ UNCHANGED <<units, links, templates, lists>>

(* PATCH does not catch what the database refuses; what did not change is   *)
(* not written.                                                             *)
EditType(r) ==
    /\ Doing(r, "editType", "read")
    /\ LET t == req[r].type  u == req[r].place
       IN  IF ~Changes(r) THEN End(r, "done") /\ UNCHANGED types
           ELSE IF ~types[t].exists \/ (u # req[r].was.place /\ (~units[u].exists \/ Clash(t, u)))
           THEN End(r, "error") /\ UNCHANGED types
           ELSE /\ types' = [types EXCEPT ![t].unit = Written(@, req[r].was.place, u),
                                          ![t].active = Written(@, req[r].was.active, req[r].active)]
                /\ End(r, "done")
    /\ UNCHANGED <<units, links, templates, lists>>

DropType(r) ==
    /\ Doing(r, "dropType", "read")
    /\ DropTypes({req[r].type}) /\ End(r, "done")
    /\ UNCHANGED units

Overlap(q, r) == q # r /\ q \in Begun /\ r \in Begun /\ q \notin req[r].before /\ r \notin req[q].before

(* Mutant: the new bindings are added to the old ones.                      *)
Wiped_Nothing(r) == links[req[r].type]
(* What is left after the deletion of the bindings that were read.          *)
Wiped(r) == [p \in Points |-> IF req[r].copy[p] > 0 THEN 0 ELSE links[req[r].type][p]]

(* PUT data-points: an insert beside another request's binding of the same  *)
(* data point fails, also if that one was deleted with a delay.             *)
Bind(r) ==
    /\ Doing(r, "bind", "read")
    /\ LET t == req[r].type
           beside == \E p \in Named(req[r].list) : Wiped(r)[p] > 0
           late   == \E q \in Requests : Doing(q, "bind", "done") /\ req[q].type = t /\ Overlap(q, r)
       IN  \/ /\ ~types[t].exists /\ req[r].list = Unbound /\ End(r, "done")
              /\ UNCHANGED <<links, lists>>
           \/ /\ (~types[t].exists /\ req[r].list # Unbound) \/ (types[t].exists /\ (beside \/ late))
              /\ End(r, "error") /\ UNCHANGED <<links, lists>>
           \/ /\ types[t].exists /\ ~beside
              /\ links' = [links EXCEPT ![t] = [p \in Points |->
                              IF p \in Named(req[r].list) THEN req[r].list[p] ELSE Wiped(r)[p]]]
              /\ lists' = [lists EXCEPT ![t] = req[r].list]
              /\ End(r, "done")
    /\ UNCHANGED <<units, types, templates>>

(* Templates: created for an issue type there is, changed or deleted if     *)
(* they are there; a deletion of what is gone by now passes.                *)
SetTemplate(r) ==
    /\ Doing(r, "template", "read")
    /\ LET t == req[r].type  p == req[r].template
       IN  IF types[t].exists /\ (req[r].was.active => templates[t][p] # "none")
           THEN templates' = [templates EXCEPT ![t][p] = req[r].state] /\ End(r, "done")
           ELSE UNCHANGED templates /\ End(r, IF req[r].state = "none" THEN "done" ELSE "error")
    /\ UNCHANGED <<units, types, links, lists>>

-----------------------------------------------------------------------------
(* A chip tap.                                                              *)
Chips(u) == {t \in In(u) : types[t].active}
(* GET starters: active units at the top with an active issue type.         *)
Starters == {u \in LiveUnits : units[u].active /\ units[u].parent = NoUnit /\ Chips(u) # {}}

SendTap(r) ==
    /\ \E u \in Starters : \E t \in Chips(u) : Send(r, [NotYet EXCEPT !.kind = "tap", !.type = t])
    /\ UNCHANGED <<tables, lists>>

(* The order's restaurant and rider come from the order fetched before, the *)
(* customer's rows also from the id that is known.                          *)
Finds(p, facts, known) ==
    CASE p \in {"order", "incidents"} -> "order" \in known
      [] p \in {"restaurant", "rider"} -> "order" \in facts
      [] p \in {"customer", "complaints", "refunds"} -> "customer" \in known \/ "order" \in facts
      [] OTHER -> FALSE

(* The bindings by sort_order; those with the same one come in any order.   *)
Ordered(bound) ==
    {order \in SetToSeqs({p \in Points : bound[p] > 0}) :
        \A i, j \in DOMAIN order : i < j => bound[order[i]] <= bound[order[j]]}
(* The fetchers run in that order; one that raises, or that finds nothing,  *)
(* is passed over.                                                          *)
Resolved(order, known, broken) ==
    FoldLeft(LAMBDA facts, p : IF p \notin broken /\ Finds(p, facts, known) THEN facts \cup {p} ELSE facts,
             {}, order)

(* The issue type has to be active; a fetcher whose statement fails aborts  *)
(* the transaction, and the request with it.                                *)
TapLoad(r) ==
    /\ Doing(r, "tap", "sent")
    /\ LET t == req[r].type
       IN  \/ ~(types[t].exists /\ types[t].active) /\ End(r, "refused")
           \/ types[t].exists /\ types[t].active /\ links[t] # Unbound /\ End(r, "error")
           \/ /\ types[t].exists /\ types[t].active
              /\ \E known \in SUBSET {"order", "customer"}, broken \in {{}, {"order"}}, order \in Ordered(links[t]) :
                    req' = [req EXCEPT ![r].pc = "read", ![r].copy = links[t],
                                       ![r].facts = Resolved(order, known, broken)]
    /\ UNCHANGED <<tables, lists>>

Neutral == {}
(* A sentence stays if all it shows was found; a template that loses all    *)
(* its sentences gives way to a neutral phrase.                             *)
Rendered(template, facts) ==
    LET kept == FoldLeft(LAMBDA out, sentence : IF sentence \subseteq facts THEN Append(out, sentence) ELSE out,
                         <<>>, template)
    IN  IF kept = <<>> THEN <<Neutral>> ELSE kept

(* One of the active templates is drawn; the choice is stored with the      *)
(* session, whose foreign key fails if the issue type is gone.              *)
Acknowledge(r) ==
    /\ Doing(r, "tap", "read")
    /\ LET t == req[r].type
           pool == {p \in Templates : templates[t][p] = "active"}
       IN  IF ~types[t].exists THEN End(r, "error")
           ELSE \E ack \in IF pool = {} THEN {<<Neutral>>} ELSE {Rendered(p, req[r].facts) : p \in pool} :
                   req' = [req EXCEPT ![r].pc = "done", ![r].ack = ack]
    /\ UNCHANGED <<tables, lists>>

-----------------------------------------------------------------------------
StudioNext ==
    \E r \in Requests :
        \/ SendUnit(r) \/ SendType(r) \/ SendTap(r)
        \/ AddUnit(r) \/ EditUnitLoad(r) \/ EditUnit(r) \/ DropUnitLoad(r) \/ DropUnit(r)
        \/ TypeLoad(r) \/ AddType(r) \/ EditType(r) \/ DropType(r) \/ Bind(r) \/ SetTemplate(r)
        \/ TapLoad(r) \/ Acknowledge(r)
StudioSpec == StudioInit /\ [][StudioNext]_studioVars

-----------------------------------------------------------------------------
(* Types, and the foreign and unique keys of the tables (models.py:         *)
(* 301-457).                                                                *)
StudioTypeOK ==
    /\ units \in [Units -> Unit] /\ types \in [Types -> Type] /\ links \in [Types -> Bound]
    /\ templates \in [Types -> TemplateRows]
    /\ Keyed(units, types)
    /\ \A t \in Types \ LiveTypes : links[t] = Unbound /\ \A p \in Templates : templates[t][p] = "none"

(* An issue type's data points are those of one administrator's list, the   *)
(* last one saved: two lists mix only if they were saved together           *)
(* (admin_routes.py: 352-407).                                              *)
OneList ==
    \A t \in LiveTypes :
        \/ links[t] = lists[t]
        \/ \E q, r \in Requests : /\ Overlap(q, r)
                                  /\ req[q].kind = "bind" /\ req[r].kind = "bind"
                                  /\ req[q].type = t /\ req[r].type = t

(* What a tap shows of an order's rider comes from the order it fetched     *)
(* itself, whatever the sort orders, and every acknowledgment says          *)
(* something that was found (service.py: 189-216, render.py: 90-104).       *)
SaysWhatItKnows ==
    \A r \in Requests : Doing(r, "tap", "done") =>
        /\ req[r].ack # <<>> /\ \A i \in DOMAIN req[r].ack : req[r].ack[i] \subseteq req[r].facts
        /\ \A p \in req[r].facts \cap {"rider", "restaurant"} :
              "order" \in req[r].facts /\ req[r].copy["order"] <= req[r].copy[p]

(* Together: types and keys, one list, and what acknowledgments say.        *)
StudioInv == StudioTypeOK /\ OneList /\ SaysWhatItKnows

(* An issue type goes by its own deletion.  With a business unit it goes    *)
(* only if it was in a unit below that one, or came into the unit while the *)
(* deletion was under way: what the guard asks about, the unit's own issue  *)
(* types, it spares (admin_routes.py: 171-183).                             *)
OwnTypesSpared ==
    [][\A t \in LiveTypes : ~types'[t].exists =>
          \E r \in Requests : req[r].pc = "read" /\ req'[r].pc = "done" /\
             \/ req[r].kind = "dropType" /\ req[r].type = t
             \/ /\ req[r].kind = "dropUnit"
                /\ \/ types[t].unit \in Below(req[r].unit) \ {req[r].unit}
                   \/ \E q \in Requests : Overlap(q, r) /\ req[q].kind \in {"addType", "editType"} /\ req[q].type = t]_studioVars

(* A deletion that the guard let through takes no issue type along          *)
(* "instead of silently cascading" (admin_routes.py: 171-173).              *)
NoSilentCascade ==
    \A r \in Requests : Doing(r, "dropUnit", "read") => \A u \in Below(req[r].unit) : In(u) = {}
=============================================================================
