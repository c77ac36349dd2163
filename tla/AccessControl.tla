---------------------------- MODULE AccessControl ----------------------------
(***************************************************************************)
(* Accounts, super-admins and access to modules (auth/routes.py,           *)
(* auth/dependencies.py, modules/service.py, modules/admin_routes.py,      *)
(* modules/routes.py) and the operator's script that sets up a tenant      *)
(* (scripts/bootstrap_tenant.py).  Requests overlap: each reads committed  *)
(* rows, in one or more steps, and writes in one commit what differs from  *)
(* the copies it read.  An account has a token from its signup on; what a  *)
(* token opens is decided by the account's row at the start of a request.  *)
(***************************************************************************)
EXTENDS Naturals, FiniteSets

CONSTANTS
    Accounts,      \* email addresses
    Modules,       \* keys of modules
    Defaults,      \* settings.default_module_keys
    Configured,    \* settings.super_admin_email, or Nobody
    Nobody,
    Tenants,       \* slugs
    NoTenant,
    Starts,        \* accounts found at the start, as earlier requests left them
    Granted,       \* levels that administrators grant
    Bodies,        \* PATCH bodies: what is set of is_active and is_super_admin
    MaxRequests,   \* bound on the requests; they are numbered as they arrive
    Together       \* bound on overlap: a later one comes when none is under way

VARIABLES
    users,     \* table users
    access,    \* table user_module_access: levels 1 view, 2 edit, 3 admin; 0 no row
    modules,   \* table modules
    tenants,   \* table tenants
    owners,    \* table tenant_memberships
    home,      \* users.default_tenant_id
    req,       \* the requests
    firsts     \* history: the accounts that signup made super-admin

tables == <<users, access, modules, tenants, owners, home>>
vars == <<users, access, modules, tenants, owners, home, req, firsts>>

Requests == 1..MaxRequests
Levels == 0..3
User == [exists : BOOLEAN, active : BOOLEAN, super : BOOLEAN]
AccessRow == [Modules -> Levels]
ModuleRows == SUBSET Modules
TenantRows == SUBSET Tenants
Memberships == SUBSET (Tenants \X Accounts)
Home == Tenants \cup {NoTenant}
NoUser == [exists |-> FALSE, active |-> FALSE, super |-> FALSE]
Maybe == {"keep", "on", "off"}
Body == [active : Maybe, super : Maybe]
Keep == [active |-> "keep", super |-> "keep"]

ASSUME AccessAssumption ==
    /\ Defaults \subseteq Modules
    /\ Nobody \notin Accounts /\ Configured \in Accounts \cup {Nobody} /\ NoTenant \notin Tenants
    /\ Starts \subseteq [Accounts -> User]
    /\ \A start \in Starts, a \in Accounts : ~start[a].exists => start[a] = NoUser
    /\ Granted \subseteq Levels \ {0} /\ Bodies \subseteq Body
    /\ MaxRequests \in Nat /\ Together \in Nat

Kinds == {"signup", "update", "grant", "revoke", "register", "script"}
Ends == {"done", "refused", "conflict", "error"}
Request == [kind : Kinds, pc : {"idle", "sent", "allowed", "read", "checked"} \cup Ends,
            by : Accounts \cup {Nobody}, on : Accounts \cup {Nobody}, module : Modules \cup {Nobody},
            tenant : Tenants \cup {NoTenant},
            body : Body, level : Levels, copy : User, was : Levels, known : BOOLEAN, promote : BOOLEAN,
            before : SUBSET Requests]
NotYet == [kind |-> "signup", pc |-> "idle", by |-> Nobody, on |-> Nobody, module |-> Nobody, tenant |-> NoTenant,
           body |-> Keep, level |-> 0, copy |-> NoUser, was |-> 0, known |-> FALSE, promote |-> FALSE, before |-> {}]

Init ==
    /\ users \in Starts
    /\ access = [a \in Accounts |-> [m \in Modules |-> 0]]
    /\ modules \in SUBSET Defaults /\ tenants = {} /\ owners = {}
    /\ home = [a \in Accounts |-> NoTenant]
    /\ req = [r \in Requests |-> NotYet]
    /\ firsts = {}

-----------------------------------------------------------------------------
At(r, kind, step) == req[r].kind = kind /\ req[r].pc = step
Begun == {r \in Requests : req[r].pc # "idle"}
Ended == {r \in Requests : req[r].pc \in Ends}
NextUp(r) ==
    /\ r \notin Begun /\ \A q \in 1..(r - 1) : q \in Begun
    /\ r > Together => Begun = Ended
Supers == {a \in Accounts : users[a].super}

Send(r, what) == NextUp(r) /\ req' = [req EXCEPT ![r] = [what EXCEPT !.pc = "sent", !.before = Ended]]
(* The copies of a request are gone with it.                                *)
End(r, how) == req' = [req EXCEPT ![r] = [@ EXCEPT !.pc = how, !.copy = NoUser, !.was = 0, !.body = Keep,
                                                   !.known = FALSE, !.promote = FALSE]]
Goto(r, step) == req' = [req EXCEPT ![r].pc = step]

(* get_current_active_user and require_super_admin.                         *)
MayAdminister(a) == users[a].exists /\ users[a].active /\ users[a].super

(* What the sidebar shows of a module (modules/routes.py).                  *)
Shown(a, m) == IF users[a].super THEN 3 ELSE access[a][m]

-----------------------------------------------------------------------------
(* Mutant: an address that is taken gets a fresh row.                       *)
Taken_Never(r, a) == FALSE
(* The unique address: the insert of a second signup waits for the first    *)
(* one's commit, and then fails.                                            *)
Taken(r, a) == users[a].exists
Inserting(a) == \E q \in Requests : At(q, "signup", "checked") /\ req[q].on = a

SendSignup(r) ==
    /\ \E a \in Accounts : Send(r, [NotYet EXCEPT !.kind = "signup", !.on = a])
    /\ UNCHANGED <<tables, firsts>>

(* The configured address, or without one the first account, as far as it   *)
(* is committed.                                                            *)
Promoted(a) == IF Configured = Nobody THEN Supers = {} ELSE a = Configured

(* The row is inserted, promoted and given the default modules ...          *)
SignupInsert(r) ==
    /\ At(r, "signup", "sent") /\ ~Inserting(req[r].on)
    /\ IF Taken(r, req[r].on) THEN End(r, "conflict")
       ELSE req' = [req EXCEPT ![r].pc = "checked", ![r].promote = Promoted(req[r].on)]
    /\ UNCHANGED <<tables, firsts>>

(* apply_default_module_access: view of each default module there is.       *)
DefaultLevel(m) == IF m \in Defaults \cap modules THEN 1 ELSE 0

(* ... and committed with them at the end of the request.                   *)
SignupCommit(r) ==
    /\ At(r, "signup", "checked")
    /\ LET a == req[r].on
       IN  /\ users' = [users EXCEPT ![a] = [exists |-> TRUE, active |-> TRUE, super |-> req[r].promote]]
           /\ access' = [access EXCEPT ![a] = [m \in Modules |-> DefaultLevel(m)]]
           /\ firsts' = IF req[r].promote THEN firsts \cup {a} ELSE firsts
    /\ End(r, "done")
    /\ UNCHANGED <<modules, tenants, owners, home>>

-----------------------------------------------------------------------------
(* The requests of administrators.                                          *)
SendAdmin(r) ==
    /\ \E by \in Accounts, on \in Accounts :
          \/ \E body \in Bodies : Send(r, [NotYet EXCEPT !.kind = "update", !.by = by, !.on = on, !.body = body])
          \/ \E m \in Modules, level \in Granted :
                Send(r, [NotYet EXCEPT !.kind = "grant", !.by = by, !.on = on, !.module = m, !.level = level])
          \/ \E m \in Modules : Send(r, [NotYet EXCEPT !.kind = "revoke", !.by = by, !.on = on, !.module = m])
          \/ \E m \in Modules : Send(r, [NotYet EXCEPT !.kind = "register", !.by = by, !.on = by, !.module = m])
    /\ UNCHANGED <<tables, firsts>>

Authorize(r) ==
    /\ req[r].pc = "sent" /\ req[r].kind \in {"update", "grant", "revoke", "register"}
    /\ IF MayAdminister(req[r].by)
       THEN req' = [req EXCEPT ![r].pc = "allowed", ![r].copy = users[req[r].by]]
       ELSE End(r, "refused")
    /\ UNCHANGED <<tables, firsts>>

(* PATCH: the account is read; the own one stays as the guard read it, the  *)
(* session keeps one copy of a row ...                                      *)
UpdateRead(r) ==
    /\ At(r, "update", "allowed")
    /\ IF req[r].on = req[r].by THEN Goto(r, "read")
       ELSE IF users[req[r].on].exists
       THEN req' = [req EXCEPT ![r].pc = "read", ![r].copy = users[req[r].on]]
       ELSE End(r, "refused")
    /\ UNCHANGED <<tables, firsts>>

(* Mutant: the last super-admin may be demoted.                             *)
Forbidden_NotLast(r) == req[r].body.active = "off" /\ req[r].on = req[r].by
(* ... the last super-admin stays one, and nobody deactivates the own       *)
(* account ...                                                              *)
Forbidden(r) ==
    \/ req[r].body.super = "off" /\ req[r].copy.super /\ Supers \ {req[r].on} = {}
    \/ req[r].body.active = "off" /\ req[r].on = req[r].by

UpdateCheck(r) ==
    /\ At(r, "update", "read")
    /\ IF Forbidden(r) THEN End(r, "refused") ELSE Goto(r, "checked")
    /\ UNCHANGED <<tables, firsts>>

(* A column is written if the new value differs from the copy's.            *)
Written(now, copy, set) == IF set = "keep" \/ copy = (set = "on") THEN now ELSE set = "on"

(* ... and what changed is committed.                                       *)
UpdateCommit(r) ==
    /\ At(r, "update", "checked")
    /\ LET a == req[r].on
       IN  users' = [users EXCEPT ![a].active = Written(@, req[r].copy.active, req[r].body.active),
                                  ![a].super  = Written(@, req[r].copy.super, req[r].body.super)]
    /\ End(r, "done")
    /\ UNCHANGED <<access, modules, tenants, owners, home, firsts>>

(* POST and DELETE access: account, module and the row there is.            *)
AccessRead(r) ==
    /\ req[r].pc = "allowed" /\ req[r].kind \in {"grant", "revoke"}
    /\ IF users[req[r].on].exists /\ req[r].module \in modules
          /\ (req[r].kind = "revoke" => access[req[r].on][req[r].module] > 0)
       THEN req' = [req EXCEPT ![r].pc = "read", ![r].was = access[req[r].on][req[r].module]]
       ELSE End(r, "refused")
    /\ UNCHANGED <<tables, firsts>>

(* Mutant: the level is set whatever it was.                                *)
Raises_Always(r) == TRUE
(* grant_access only ever upgrades the row it read.                         *)
Raises(r) == req[r].level > req[r].was

(* A first grant inserts the row, which fails if there is one by now; a     *)
(* later one updates it, which fails if it is gone.                         *)
GrantCommit(r) ==
    /\ At(r, "grant", "read")
    /\ LET now == access[req[r].on][req[r].module]
       IN  IF ~Raises(r) THEN End(r, "done") /\ UNCHANGED access
           ELSE IF (req[r].was = 0) # (now = 0) THEN End(r, "error") /\ UNCHANGED access
           ELSE End(r, "done") /\ access' = [access EXCEPT ![req[r].on][req[r].module] = req[r].level]
    /\ UNCHANGED <<users, modules, tenants, owners, home, firsts>>

RevokeCommit(r) ==
    /\ At(r, "revoke", "read")
    /\ access' = [access EXCEPT ![req[r].on][req[r].module] = 0]
    /\ End(r, "done")
    /\ UNCHANGED <<users, modules, tenants, owners, home, firsts>>

(* POST modules: the key is unique.                                         *)
RegisterCommit(r) ==
    /\ At(r, "register", "allowed")
    /\ IF req[r].module \in modules THEN End(r, "conflict") ELSE End(r, "done")
    /\ modules' = modules \cup {req[r].module}
    /\ UNCHANGED <<users, access, tenants, owners, home, firsts>>

-----------------------------------------------------------------------------
(* The script: tenant and account are read, ...                             *)
SendScript(r) ==
    /\ \E a \in Accounts, t \in Tenants : Send(r, [NotYet EXCEPT !.kind = "script", !.on = a, !.tenant = t])
    /\ UNCHANGED <<tables, firsts>>

ScriptRead(r) ==
    /\ At(r, "script", "sent")
    /\ req' = [req EXCEPT ![r].pc = "read", ![r].copy = users[req[r].on], ![r].known = req[r].tenant \in tenants]
    /\ UNCHANGED <<tables, firsts>>

(* An account that exists becomes super-admin, if the copy is none.         *)
MadeSuper(r) == ~req[r].copy.super

(* ... and all is committed at once; an insert of what someone else has     *)
(* inserted meanwhile fails the script.  An account found inactive stays    *)
(* so.                                                                      *)
ScriptCommit(r) ==
    /\ At(r, "script", "read") /\ ~Inserting(req[r].on)
    /\ LET a == req[r].on  t == req[r].tenant
       IN  IF (~req[r].copy.exists /\ users[a].exists) \/ (~req[r].known /\ t \in tenants)
           THEN End(r, "error") /\ UNCHANGED tables
           ELSE /\ users' = [users EXCEPT ![a] =
                       IF ~req[r].copy.exists THEN [exists |-> TRUE, active |-> TRUE, super |-> TRUE]
                       ELSE [users[a] EXCEPT !.super = @ \/ MadeSuper(r)]]
                /\ tenants' = tenants \cup {t} /\ owners' = owners \cup {<<t, a>>}
                /\ home' = [home EXCEPT ![a] = t]
                /\ End(r, "done")
                /\ UNCHANGED <<access, modules>>
    /\ UNCHANGED firsts

Commit(r) ==
    SignupCommit(r) \/ UpdateCommit(r) \/ GrantCommit(r) \/ RevokeCommit(r) \/ RegisterCommit(r) \/ ScriptCommit(r)

Next ==
    \E r \in Requests :
        \/ SendSignup(r) \/ SendAdmin(r) \/ SendScript(r)
        \/ SignupInsert(r) \/ Authorize(r) \/ UpdateRead(r) \/ UpdateCheck(r) \/ AccessRead(r) \/ ScriptRead(r)
        \/ Commit(r)
Spec == Init /\ [][Next]_vars

-----------------------------------------------------------------------------
Overlap(q, r) == q # r /\ q \in Begun /\ r \in Begun /\ q \notin req[r].before /\ r \notin req[q].before
Sequential == \A q, r \in Requests : ~Overlap(q, r)
Manages(a) == users[a].active /\ users[a].super

(* Types, and the foreign keys of the tables (models.py: 54-173, 881-949).  *)
TypeOK ==
    /\ users \in [Accounts -> User] /\ access \in [Accounts -> AccessRow]
    /\ modules \in ModuleRows /\ tenants \in TenantRows /\ owners \in Memberships
    /\ home \in [Accounts -> Home]
    /\ req \in [Requests -> Request] /\ firsts \subseteq Accounts
    /\ \A a \in Accounts : ~users[a].exists => users[a] = NoUser /\ home[a] = NoTenant
    /\ \A a \in Accounts, m \in Modules : access[a][m] > 0 => users[a].exists /\ m \in modules
    /\ \A p \in owners : p[1] \in tenants /\ users[p[2]].exists

(* Once somebody can administer, somebody can after every request, as long  *)
(* as requests do not overlap: the last super-admin is not demoted, and     *)
(* nobody deactivates the own account (admin_routes.py: 133-156).  The      *)
(* guard counts super-admins that are deactivated, so this is said only of  *)
(* states without one.                                                      *)
StillManaged ==
    Sequential /\ Supers # {} /\ (\A a \in Supers : users[a].active) => \E a \in Accounts : Manages(a)'
(* Also while requests overlap, a super-admin is left, unless two updates   *)
(* are under way together (137-150).                                        *)
SuperStays ==
    Supers # {} /\ ~(\E q, r \in Requests : Overlap(q, r) /\ req[q].kind = "update" /\ req[r].kind = "update")
    => Supers' # {}
(* Who commits an administrator's change is an active super-admin then,     *)
(* unless another request was under way with it: the guard is asked only    *)
(* at the start (45-53).                                                    *)
AdminsCommit ==
    \A r \in Requests : req[r].kind \notin {"signup", "script"} /\ req'[r].pc = "done" /\ req[r].pc # "done" =>
        Manages(req[r].by) \/ \E q \in Requests : Overlap(q, r)

(* Nobody locks the platform out of its administration, and nobody else     *)
(* administers it.                                                          *)
AdminsInCharge == [][StillManaged /\ SuperStays /\ AdminsCommit]_vars

(* Without a configured address only one account ever becomes super-admin   *)
(* by signing up, whatever administrators do in between; with one, only     *)
(* that account (service.py: 96-122).                                       *)
OneFirst ==
    IF Configured = Nobody THEN Sequential => Cardinality(firsts) <= 1 ELSE firsts \subseteq {Configured}

(* What the sidebar shows of a module falls only by a demotion or by a      *)
(* revocation, unless two grants of the same row overlap: each compares     *)
(* with the level it read (service.py: 48-69, routes.py: 40-53).            *)
OnlyRevocationLowers ==
    [][\A a \in Accounts, m \in Modules : Shown(a, m)' < Shown(a, m) =>
          \/ users[a].super /\ ~users'[a].super
          \/ \E r \in Requests : req[r].on = a /\ req[r].module = m /\ req'[r].pc = "done" /\
               \/ req[r].kind = "revoke"
               \/ \E q \in Requests : Overlap(q, r) /\ req[q].kind = "grant" /\ req[q].on = a /\ req[q].module = m]_vars

(* One signup at most succeeds for an address, also of two at once          *)
(* (auth/routes.py: 57-71).                                                 *)
OneAccount ==
    \A q, r \in Requests : At(q, "signup", "done") /\ At(r, "signup", "done") /\ req[q].on = req[r].on => q = r

(* Together: types and foreign keys, one first super-admin, and one account *)
(* for an address.                                                          *)
Inv == TypeOK /\ OneFirst /\ OneAccount

=============================================================================
