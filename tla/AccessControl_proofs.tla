------------------------ MODULE AccessControl_proofs ------------------------
(***************************************************************************)
(* What holds of accounts and access for every number of requests and      *)
(* every overlap of them: types and foreign keys, one first super-admin,   *)
(* one account for an address, somebody in charge, and access that only a  *)
(* revocation lowers.                                                      *)
(***************************************************************************)
EXTENDS AccessControl, FiniteSetTheorems, TLAPS

-----------------------------------------------------------------------------
(* The inductive invariant.  The properties speak of what is committed; the *)
(* invariant adds what a request at each point has found, and what of that  *)
(* still holds as long as no request that could disturb it overlaps.        *)

Admin == {"update", "grant", "revoke", "register"}
Active(r) == req[r].pc \in {"sent", "allowed", "read", "checked"}
Signing(r) == At(r, "signup", "checked")

(* Requests are formed as they were sent, and know who had ended by then.   *)
Formed ==
    \A r \in Requests : req[r].pc # "idle" =>
        /\ req[r].on \in Accounts
        /\ req[r].kind \in Admin => req[r].by \in Accounts
        /\ req[r].kind \in {"grant", "revoke", "register"} => req[r].module \in Modules
        /\ req[r].kind = "script" => req[r].tenant \in Tenants
        /\ req[r].before \subseteq Ended

(* Accounts and modules that a request has found stay; an address that a    *)
(* signup has found free is its own until it commits.                       *)
Found ==
    /\ \A r \in Requests :
        /\ req[r].pc = "read" /\ req[r].kind \in {"grant", "revoke"} =>
             users[req[r].on].exists /\ req[r].module \in modules
        /\ At(r, "update", "allowed") => users[req[r].by].exists
        /\ req[r].kind = "update" /\ req[r].pc \in {"read", "checked"} => users[req[r].on].exists
        /\ At(r, "script", "read") /\ req[r].copy.exists => users[req[r].on].exists
        /\ At(r, "signup", "done") => users[req[r].on].exists
        /\ Signing(r) => ~users[req[r].on].exists
    /\ \A q, r \in Requests : Signing(q) /\ Signing(r) /\ req[q].on = req[r].on => q = r

(* Nobody else is at work, or no update, or no grant of the same row.       *)
Alone(r) == \A q \in Requests : ~Overlap(q, r)
NoRival(r) == \A q \in Requests : req[q].kind = "update" => ~Overlap(q, r)
NoGrant(r) ==
    \A q \in Requests : req[q].kind = "grant" /\ req[q].on = req[r].on /\ req[q].module = req[r].module =>
                        ~Overlap(q, r)

(* What the guards have established, and the row a grant has read.          *)
Guarded ==
    \A r \in Requests :
        /\ At(r, "update", "checked") =>
             /\ ~(req[r].body.active = "off" /\ req[r].on = req[r].by)
             /\ req[r].body.super = "off" /\ req[r].copy.super /\ NoRival(r) => Supers \ {req[r].on} # {}
        /\ req[r].kind \in Admin /\ req[r].pc \in {"allowed", "read", "checked"} /\ Alone(r) => Manages(req[r].by)
        /\ At(r, "grant", "read") /\ NoGrant(r) => access[req[r].on][req[r].module] \in {req[r].was, 0}

(* Who signup promotes: the configured account, or the first one.           *)
Promoting ==
    IF Configured # Nobody
    THEN firsts \subseteq {Configured} /\ \A r \in Requests : Signing(r) /\ req[r].promote => req[r].on = Configured
    ELSE Sequential => /\ firsts # {} => Supers # {}
                       /\ \A r \in Requests : Signing(r) /\ req[r].promote => firsts = {}
                       /\ \A a, b \in firsts : a = b

IInv == TypeOK /\ Formed /\ Found /\ OneAccount /\ Guarded /\ Promoting

-----------------------------------------------------------------------------
(* What every step leaves alone.                                            *)

Begin(r) == SendSignup(r) \/ SendAdmin(r) \/ SendScript(r)
Work(r) ==
    \/ SignupInsert(r) \/ Authorize(r) \/ UpdateRead(r) \/ UpdateCheck(r) \/ AccessRead(r) \/ ScriptRead(r)
    \/ Commit(r)

(* A request that comes is formed well, and writes nothing.                 *)
Arrived(r) ==
    /\ req[r].pc = "idle" /\ req'[r].pc = "sent"
    /\ \A q \in Requests : q # r => req'[q] = req[q]
    /\ req' \in [Requests -> Request]
    /\ req'[r].on \in Accounts /\ req'[r].before = Ended
    /\ req'[r].kind \in Admin => req'[r].by \in Accounts
    /\ req'[r].kind \in {"grant", "revoke", "register"} => req'[r].module \in Modules
    /\ req'[r].kind = "script" => req'[r].tenant \in Tenants
    /\ UNCHANGED <<tables, firsts>>

LEMMA BeginFrame == ASSUME TypeOK, NEW r \in Requests, Begin(r) PROVE Arrived(r)
<1> USE AccessAssumption
<1>1. req[r].pc = "idle" /\ Ended \subseteq Requests
  BY DEF Begin, SendSignup, SendAdmin, SendScript, Send, NextUp, Begun, Ended
<1>2. NotYet \in Request /\ NotYet.pc = "idle"
  BY DEF NotYet, Request, Kinds, Ends, Body, Maybe, Keep, Levels, User, NoUser
<1>3. ASSUME NEW w \in Request, Send(r, w), w.on \in Accounts,
             w.kind \in Admin => w.by \in Accounts,
             w.kind \in {"grant", "revoke", "register"} => w.module \in Modules,
             w.kind = "script" => w.tenant \in Tenants,
             UNCHANGED <<tables, firsts>>
      PROVE  Arrived(r)
  BY <1>1, <1>3 DEF Send, Arrived, TypeOK, Request
<1>4. CASE SendSignup(r)
  <2>1. PICK a \in Accounts : Send(r, [NotYet EXCEPT !.kind = "signup", !.on = a])
    BY <1>4 DEF SendSignup
  <2> DEFINE w == [NotYet EXCEPT !.kind = "signup", !.on = a]
  <2>2. w \in Request /\ w.on = a /\ w.kind = "signup"
    BY <1>2 DEF Request, Kinds
  <2> HIDE DEF w
  <2> QED BY <1>3, <1>4, <2>1, <2>2 DEF SendSignup, Admin, w
<1>5. CASE SendAdmin(r)
  <2>1. PICK by \in Accounts, on \in Accounts :
          \/ \E body \in Bodies : Send(r, [NotYet EXCEPT !.kind = "update", !.by = by, !.on = on, !.body = body])
          \/ \E m \in Modules, level \in Granted :
                Send(r, [NotYet EXCEPT !.kind = "grant", !.by = by, !.on = on, !.module = m, !.level = level])
          \/ \E m \in Modules : Send(r, [NotYet EXCEPT !.kind = "revoke", !.by = by, !.on = on, !.module = m])
          \/ \E m \in Modules : Send(r, [NotYet EXCEPT !.kind = "register", !.by = by, !.on = by, !.module = m])
    BY <1>5 DEF SendAdmin
  <2>2. ASSUME NEW body \in Bodies,
               Send(r, [NotYet EXCEPT !.kind = "update", !.by = by, !.on = on, !.body = body])
        PROVE  Arrived(r)
    <3> DEFINE w == [NotYet EXCEPT !.kind = "update", !.by = by, !.on = on, !.body = body]
    <3>1. w \in Request /\ w.on = on /\ w.by = by /\ w.kind = "update"
      BY <1>2 DEF Request, Kinds
    <3> HIDE DEF w
    <3> QED BY <1>3, <1>5, <2>2, <3>1 DEF SendAdmin, w
  <2>3. ASSUME NEW m \in Modules, NEW level \in Granted,
               Send(r, [NotYet EXCEPT !.kind = "grant", !.by = by, !.on = on, !.module = m, !.level = level])
        PROVE  Arrived(r)
    <3> DEFINE w == [NotYet EXCEPT !.kind = "grant", !.by = by, !.on = on, !.module = m, !.level = level]
    <3>1. w \in Request /\ w.on = on /\ w.by = by /\ w.module = m /\ w.kind = "grant"
      BY <1>2 DEF Request, Kinds
    <3> HIDE DEF w
    <3> QED BY <1>3, <1>5, <2>3, <3>1 DEF SendAdmin, w
  <2>4. ASSUME NEW kind \in {"revoke", "register"}, NEW a \in Accounts, NEW m \in Modules,
               Send(r, [NotYet EXCEPT !.kind = kind, !.by = by, !.on = a, !.module = m])
        PROVE  Arrived(r)
    <3> DEFINE w == [NotYet EXCEPT !.kind = kind, !.by = by, !.on = a, !.module = m]
    <3>1. w \in Request /\ w.on = a /\ w.by = by /\ w.module = m /\ w.kind = kind
      BY <1>2 DEF Request, Kinds
    <3> HIDE DEF w
    <3> QED BY <1>3, <1>5, <2>4, <3>1 DEF SendAdmin, w
  <2> QED BY <2>1, <2>2, <2>3, <2>4
<1>6. CASE SendScript(r)
  <2>1. PICK a \in Accounts, t \in Tenants : Send(r, [NotYet EXCEPT !.kind = "script", !.on = a, !.tenant = t])
    BY <1>6 DEF SendScript
  <2> DEFINE w == [NotYet EXCEPT !.kind = "script", !.on = a, !.tenant = t]
  <2>2. w \in Request /\ w.on = a /\ w.tenant = t /\ w.kind = "script"
    BY <1>2 DEF Request, Kinds
  <2> HIDE DEF w
  <2> QED BY <1>3, <1>6, <2>1, <2>2 DEF SendScript, Admin, w
<1> QED
  BY <1>4, <1>5, <1>6, SMTT(30) DEF Begin

(* A request at work goes on or ends, and nobody else's changes.            *)
Advanced(r) ==
    /\ Active(r)
    /\ \A q \in Requests : q # r => req'[q] = req[q]
    /\ req' \in [Requests -> Request]
    /\ req'[r].pc \in {"allowed", "read", "checked"} \cup Ends
    /\ req'[r].kind = req[r].kind /\ req'[r].by = req[r].by /\ req'[r].on = req[r].on
    /\ req'[r].module = req[r].module /\ req'[r].tenant = req[r].tenant /\ req'[r].level = req[r].level
    /\ req'[r].before = req[r].before
    /\ req'[r].pc \notin Ends => req'[r].body = req[r].body

LEMMA ReplaceFrame ==
    ASSUME TypeOK, NEW r \in Requests, Active(r), NEW new \in Request,
           req' = [req EXCEPT ![r] = new],
           new.pc \in {"allowed", "read", "checked"} \cup Ends,
           new.kind = req[r].kind, new.by = req[r].by, new.on = req[r].on,
           new.module = req[r].module, new.tenant = req[r].tenant, new.level = req[r].level,
           new.before = req[r].before, new.pc \notin Ends => new.body = req[r].body
    PROVE  Advanced(r) /\ req'[r] = new
BY DEF Advanced, TypeOK

LEMMA EndFrame ==
    ASSUME TypeOK, NEW r \in Requests, Active(r), NEW how \in Ends, End(r, how)
    PROVE  Advanced(r) /\ req'[r].pc = how
<1>1. Keep \in Body /\ NoUser \in User /\ 0 \in Levels
  BY DEF Keep, Body, Maybe, NoUser, User, Levels
<1>2. req[r] \in Request
  BY DEF TypeOK
<1> DEFINE new == [req[r] EXCEPT !.pc = how, !.copy = NoUser, !.was = 0, !.body = Keep,
                                 !.known = FALSE, !.promote = FALSE]
<1>3. new \in Request
  BY <1>1, <1>2 DEF Request
<1>4. new.pc = how
      /\ new.kind = req[r].kind /\ new.by = req[r].by /\ new.on = req[r].on
      /\ new.module = req[r].module /\ new.tenant = req[r].tenant /\ new.level = req[r].level
      /\ new.before = req[r].before
  BY <1>2 DEF Request
<1>5. req' = [req EXCEPT ![r] = new]
  BY DEF End
<1> HIDE DEF new
<1> QED
  BY <1>3, <1>4, <1>5, ReplaceFrame

LEMMA WorkFrame == ASSUME TypeOK, Formed, NEW r \in Requests, Work(r) PROVE Advanced(r)
<1>0. Active(r)
  BY DEF Work, Commit, Active, At, SignupInsert, SignupCommit, Authorize, UpdateRead, UpdateCheck, UpdateCommit,
         AccessRead, GrantCommit, RevokeCommit, RegisterCommit, ScriptRead, ScriptCommit
<1>1. req \in [Requests -> Request] /\ req[r].on \in Accounts
  BY <1>0 DEF TypeOK, Formed, Active
<1>2. \A a \in Accounts : users[a] \in User
  BY DEF TypeOK
<1>3. Ends = {"done", "refused", "conflict", "error"}
  BY DEF Ends
<1>4. ASSUME NEW step \in {"allowed", "read", "checked"}, Goto(r, step) PROVE Advanced(r)
  BY <1>0, <1>1, <1>4 DEF Goto, Advanced, Request
<1>5. ASSUME NEW step \in {"allowed", "read", "checked"}, NEW copy \in User,
             req' = [req EXCEPT ![r].pc = step, ![r].copy = copy]
      PROVE  Advanced(r)
  <2> DEFINE new == [req[r] EXCEPT !.pc = step, !.copy = copy]
  <2>1. req[r] \in Request
    BY <1>1
  <2>2. new \in Request /\ new.pc = step
    BY <2>1 DEF Request
  <2>3. /\ new.kind = req[r].kind /\ new.by = req[r].by /\ new.on = req[r].on
        /\ new.module = req[r].module /\ new.tenant = req[r].tenant /\ new.level = req[r].level
        /\ new.before = req[r].before /\ new.body = req[r].body
    BY <2>1 DEF Request
  <2>4. req' = [req EXCEPT ![r] = new]
    BY <1>5
  <2> HIDE DEF new
  <2> QED
    BY <1>0, <2>2, <2>3, <2>4, ReplaceFrame
<1>6. CASE SignupInsert(r)
  <2>1. CASE req' = [req EXCEPT ![r].pc = "checked", ![r].promote = Promoted(req[r].on)]
    <3>0. Promoted(req[r].on) \in BOOLEAN
      BY DEF Promoted
    <3> DEFINE new == [req[r] EXCEPT !.pc = "checked", !.promote = Promoted(req[r].on)]
    <3>1. req[r] \in Request
      BY <1>1
    <3>2. new \in Request /\ new.pc = "checked"
      BY <3>0, <3>1 DEF Request
    <3>3. /\ new.kind = req[r].kind /\ new.by = req[r].by /\ new.on = req[r].on
          /\ new.module = req[r].module /\ new.tenant = req[r].tenant /\ new.level = req[r].level
          /\ new.before = req[r].before /\ new.body = req[r].body
      BY <3>1 DEF Request
    <3>4. req' = [req EXCEPT ![r] = new]
      BY <2>1
    <3> HIDE DEF new
    <3> QED
      BY <1>0, <3>2, <3>3, <3>4, ReplaceFrame
  <2> QED BY <1>0, <1>3, <1>6, <2>1, EndFrame DEF SignupInsert
<1>7. CASE Authorize(r)
  <2>1. req[r].by \in Accounts
    BY <1>0, <1>7 DEF Authorize, Formed, Admin, Active
  <2> QED BY <1>0, <1>2, <1>3, <1>5, <1>7, <2>1, EndFrame DEF Authorize
<1>8. CASE UpdateRead(r)
  BY <1>0, <1>1, <1>2, <1>3, <1>4, <1>5, <1>8, EndFrame DEF UpdateRead
<1>9. CASE UpdateCheck(r)
  BY <1>0, <1>3, <1>4, <1>9, EndFrame DEF UpdateCheck
<1>10. CASE AccessRead(r)
  <2>1. req[r].module \in Modules
    BY <1>10 DEF AccessRead, Formed
  <2>2. access[req[r].on][req[r].module] \in Levels
    BY <1>1, <2>1 DEF TypeOK, AccessRow
  <2>3. ASSUME req' = [req EXCEPT ![r].pc = "read", ![r].was = access[req[r].on][req[r].module]]
        PROVE  Advanced(r)
    <3> DEFINE new == [req[r] EXCEPT !.pc = "read", !.was = access[req[r].on][req[r].module]]
    <3>1. req[r] \in Request
      BY <1>1
    <3>2. new \in Request /\ new.pc = "read"
      BY <2>2, <3>1 DEF Request
    <3>3. /\ new.kind = req[r].kind /\ new.by = req[r].by /\ new.on = req[r].on
          /\ new.module = req[r].module /\ new.tenant = req[r].tenant /\ new.level = req[r].level
          /\ new.before = req[r].before /\ new.body = req[r].body
      BY <3>1 DEF Request
    <3>4. req' = [req EXCEPT ![r] = new]
      BY <2>3
    <3> HIDE DEF new
    <3> QED
      BY <1>0, <3>2, <3>3, <3>4, ReplaceFrame
  <2> QED BY <1>0, <1>3, <1>10, <2>3, EndFrame DEF AccessRead
<1>11. CASE ScriptRead(r)
  <2>0. (req[r].tenant \in tenants) \in BOOLEAN /\ users[req[r].on] \in User
    BY <1>1, <1>2
  <2> DEFINE new == [req[r] EXCEPT !.pc = "read", !.copy = users[req[r].on], !.known = req[r].tenant \in tenants]
  <2>1. req[r] \in Request
    BY <1>1
  <2>2. new \in Request /\ new.pc = "read"
    BY <2>0, <2>1 DEF Request
  <2>3. /\ new.kind = req[r].kind /\ new.by = req[r].by /\ new.on = req[r].on
        /\ new.module = req[r].module /\ new.tenant = req[r].tenant /\ new.level = req[r].level
        /\ new.before = req[r].before /\ new.body = req[r].body
    BY <2>1 DEF Request
  <2>4. req' = [req EXCEPT ![r] = new]
    BY <1>11 DEF ScriptRead
  <2> HIDE DEF new
  <2> QED
    BY <1>0, <2>2, <2>3, <2>4, ReplaceFrame
<1>12. CASE Commit(r)
  BY <1>0, <1>3, <1>12, EndFrame DEF Commit, SignupCommit, UpdateCommit, GrantCommit, RevokeCommit, RegisterCommit, ScriptCommit
<1> QED
  BY <1>6, <1>7, <1>8, <1>9, <1>10, <1>11, <1>12 DEF Work

(* So every step is that of one request.                                    *)
Moved(r) == Arrived(r) \/ (Work(r) /\ Advanced(r))

LEMMA StepFrame ==
    ASSUME TypeOK, Formed, Next PROVE \E r \in Requests : Moved(r)
<1>1. PICK r \in Requests : Begin(r) \/ Work(r)
  BY DEF Next, Begin, Work
<1> QED
  BY <1>1, BeginFrame, WorkFrame DEF Moved

LEMMA FormedStep ==
    ASSUME TypeOK, Formed, NEW r \in Requests, Moved(r)
    PROVE  Formed' /\ Ended \subseteq Ended' /\ Begun \subseteq Begun'
<1>1. req'[r].pc # "idle" /\ r \notin Ended /\ \A q \in Requests : q # r => req'[q] = req[q]
  BY DEF Moved, Arrived, Advanced, Active, Ended, Ends
<1>2. Ended \subseteq Ended' /\ Begun \subseteq Begun'
  BY <1>1 DEF Ended, Begun
<1>3. CASE Arrived(r)
  BY <1>1, <1>2, <1>3 DEF Arrived, Formed
<1>4. CASE Advanced(r)
  BY <1>1, <1>2, <1>4 DEF Advanced, Active, Formed
<1> QED
  BY <1>2, <1>3, <1>4 DEF Moved

(* Two requests at work overlap, and what overlapped once always has.       *)
LEMMA Rivals ==
    ASSUME Formed, NEW q \in Requests, NEW r \in Requests, Active(q), Active(r), q # r
    PROVE  Overlap(q, r) /\ Overlap(r, q)
BY DEF Formed, Active, Overlap, Begun, Ended, Ends

LEMMA OverlapStays ==
    ASSUME TypeOK, Formed, NEW r \in Requests, Moved(r), NEW p \in Requests, NEW q \in Requests, Overlap(p, q)
    PROVE  Overlap(p, q)'
<1>1. p \in Begun' /\ q \in Begun'
  BY FormedStep DEF Overlap
<1>2. \A s \in {p, q} : req'[s].before = req[s].before
  BY DEF Moved, Arrived, Advanced, Overlap, Begun
<1> QED
  BY <1>1, <1>2 DEF Overlap

(* A request at work, or one that overlaps nothing, keeps what is its own.  *)
LEMMA KeepsOwn ==
    ASSUME Formed, NEW r \in Requests, Moved(r), NEW q \in Requests, req[q].pc # "idle"
    PROVE  /\ req'[q].kind = req[q].kind /\ req'[q].by = req[q].by /\ req'[q].on = req[q].on
           /\ req'[q].module = req[q].module /\ req'[q].level = req[q].level
BY DEF Moved, Arrived, Advanced

-----------------------------------------------------------------------------
(* Types and foreign keys.                                                  *)

LEMMA InitType == ASSUME Init PROVE TypeOK /\ Formed /\ Found /\ OneAccount
<1>1. NotYet \in Request
  BY AccessAssumption DEF NotYet, Request, Kinds, Ends, Body, Maybe, Keep, Levels, User, NoUser
<1>2. req \in [Requests -> Request] /\ \A r \in Requests : req[r].pc = "idle"
  BY <1>1 DEF Init, NotYet
<1>3. users \in [Accounts -> User] /\ \A a \in Accounts : ~users[a].exists => users[a] = NoUser
  BY AccessAssumption DEF Init
<1>4. TypeOK
  BY <1>2, <1>3, AccessAssumption
     DEF Init, TypeOK, AccessRow, ModuleRows, TenantRows, Memberships, Home, Levels
<1> QED
  BY <1>2, <1>4, AccessAssumption DEF Formed, Found, OneAccount, Signing, At

(* Only commits write.                                                      *)
LEMMA WorkWrites ==
    ASSUME NEW r \in Requests, Work(r), ~Commit(r) PROVE UNCHANGED <<tables, firsts>>
BY DEF Work, SignupInsert, Authorize, UpdateRead, UpdateCheck, AccessRead, ScriptRead

LEMMA TypeStep ==
    ASSUME TypeOK, Formed, Found, NEW r \in Requests, Moved(r) PROVE TypeOK'
<1>1. req' \in [Requests -> Request]
  BY DEF Moved, Arrived, Advanced
<1>2. CASE UNCHANGED <<tables, firsts>>
  BY <1>1, <1>2 DEF TypeOK, tables
<1>3. ASSUME Work(r), Commit(r), Active(r) PROVE TypeOK'
  <2> DEFINE a == req[r].on
  <2>0. a \in Accounts /\ req[r] \in Request
    BY <1>3 DEF TypeOK, Formed, Active
  <2>1. CASE SignupCommit(r)
    <3>1. ~users[a].exists /\ users[a] = NoUser /\ req[r].promote \in BOOLEAN
      BY <2>0, <2>1 DEF SignupCommit, Found, Signing, TypeOK, Request
    <3>2. users' = [users EXCEPT ![a] = [exists |-> TRUE, active |-> TRUE, super |-> req[r].promote]]
          /\ access' = [access EXCEPT ![a] = [m \in Modules |-> DefaultLevel(m)]]
          /\ firsts' \subseteq firsts \cup {a} /\ UNCHANGED <<modules, tenants, owners, home>>
      BY <2>1 DEF SignupCommit
    <3>3. \A m \in Modules : DefaultLevel(m) \in Levels /\ (DefaultLevel(m) > 0 => m \in modules)
      BY DEF DefaultLevel, Levels
    <3>4. users' \in [Accounts -> User] /\ access' \in [Accounts -> AccessRow] /\ firsts' \subseteq Accounts
      BY <2>0, <3>1, <3>2, <3>3, SMTT(30) DEF TypeOK, User, AccessRow
    <3> QED
      BY <1>1, <2>0, <3>1, <3>2, <3>3, <3>4 DEF TypeOK, User, AccessRow
  <2>2. CASE UpdateCommit(r)
    <3>1. PICK active \in BOOLEAN, super \in BOOLEAN :
            users' = [users EXCEPT ![a].active = active, ![a].super = super]
      BY <2>0, <2>2 DEF UpdateCommit, Written, TypeOK, User
    <3>2. users[a].exists
      BY <2>2 DEF UpdateCommit, Found, At
    <3>3. users' \in [Accounts -> User] /\ \A b \in Accounts : users'[b].exists = users[b].exists
          /\ (b # a => users'[b] = users[b])
      BY <2>0, <3>1 DEF TypeOK, User
    <3> QED
      BY <1>1, <2>0, <2>2, <3>2, <3>3, ZenonT(60) DEF TypeOK, UpdateCommit, Memberships
  <2>3. CASE GrantCommit(r)
    <3>1. users[a].exists /\ req[r].module \in modules /\ req[r].module \in Modules /\ req[r].level \in Levels
      BY <2>0, <2>3, <1>3 DEF GrantCommit, Found, At, Formed, Active, Request
    <3>2. access' = access \/ access' = [access EXCEPT ![a][req[r].module] = req[r].level]
      BY <2>3 DEF GrantCommit
    <3> DEFINE granted == [access[a] EXCEPT ![req[r].module] = req[r].level]
    <3>3. access' \in [Accounts -> AccessRow]
      <4>1. granted \in AccessRow
        BY <2>0, <3>1 DEF TypeOK, AccessRow
      <4>2. access' = access \/ access' = [access EXCEPT ![a] = granted]
        BY <3>2
      <4> HIDE DEF granted
      <4> QED BY <4>1, <4>2 DEF TypeOK
    <3>4. \A b \in Accounts, m \in Modules :
            access'[b][m] = access[b][m] \/ (b = a /\ m = req[r].module)
      BY <2>0, <3>1, <3>2 DEF TypeOK, AccessRow
    <3> QED
      BY <1>1, <2>3, <3>1, <3>3, <3>4 DEF TypeOK, GrantCommit
  <2>4. CASE RevokeCommit(r)
    <3>1. req[r].module \in Modules /\ 0 \in Levels
      BY <2>4, <1>3 DEF RevokeCommit, At, Formed, Active, Levels
    <3> QED
      BY <1>1, <2>0, <2>4, <3>1 DEF TypeOK, RevokeCommit, AccessRow
  <2>5. CASE RegisterCommit(r)
    <3>1. req[r].module \in Modules
      BY <2>5, <1>3 DEF RegisterCommit, At, Formed, Active
    <3> QED
      BY <1>1, <2>5, <3>1 DEF TypeOK, RegisterCommit, ModuleRows
  <2>6. CASE ScriptCommit(r)
    <3>1. CASE UNCHANGED tables
      BY <1>1, <2>6, <3>1 DEF TypeOK, ScriptCommit, tables
    <3>2. CASE ~UNCHANGED tables
      <4>1. req[r].tenant \in Tenants
        BY <2>6, <1>3 DEF ScriptCommit, At, Formed, Active
      <4> DEFINE new == IF ~req[r].copy.exists THEN [exists |-> TRUE, active |-> TRUE, super |-> TRUE]
                        ELSE [users[a] EXCEPT !.super = @ \/ MadeSuper(r)]
      <4>2. /\ users' = [users EXCEPT ![a] = new]
            /\ tenants' = tenants \cup {req[r].tenant} /\ owners' = owners \cup {<<req[r].tenant, a>>}
            /\ home' = [home EXCEPT ![a] = req[r].tenant]
            /\ UNCHANGED <<access, modules, firsts>>
        BY <2>6, <3>2 DEF ScriptCommit
      <4>3. users' \in [Accounts -> User] /\ users'[a].exists
            /\ \A b \in Accounts : b # a => users'[b] = users[b]
        <5>1. new \in User /\ new.exists
          <6>1. users[a] \in User /\ (req[r].copy.exists => users[a].exists)
            BY <2>0, <2>6 DEF ScriptCommit, Found, At, TypeOK
          <6> QED
            BY <6>1 DEF User, MadeSuper
        <5> HIDE DEF new
        <5> QED BY <2>0, <4>2, <5>1 DEF TypeOK
      <4> HIDE DEF new
      <4> QED
        BY <1>1, <2>0, <4>1, <4>2, <4>3 DEF TypeOK, TenantRows, Memberships, Home
    <3> QED BY <3>1, <3>2
  <2> QED
    BY <1>3, <2>1, <2>2, <2>3, <2>4, <2>5, <2>6 DEF Commit
<1> QED
  BY <1>2, <1>3, WorkWrites DEF Moved, Arrived, Advanced

-----------------------------------------------------------------------------
(* What commits do to accounts.                                             *)

(* Accounts and modules stay, and a request writes one account only.        *)
LEMMA RowsStay ==
    ASSUME TypeOK, Formed, Found, NEW r \in Requests, Moved(r)
    PROVE  /\ modules \subseteq modules'
           /\ \A a \in Accounts : users[a].exists => users'[a].exists
           /\ \A a \in Accounts : users'[a] # users[a] => Commit(r) /\ Active(r) /\ a = req[r].on
<1>1. CASE UNCHANGED <<tables, firsts>>
  BY <1>1 DEF tables
<1>2. ASSUME Commit(r), Active(r) PROVE modules \subseteq modules' /\ \A a \in Accounts :
        /\ users[a].exists => users'[a].exists
        /\ users'[a] # users[a] => a = req[r].on
  <2>1. CASE SignupCommit(r)
    BY <2>1 DEF SignupCommit, TypeOK
  <2>2. CASE UpdateCommit(r)
    <3>1. PICK active, super : users' = [users EXCEPT ![req[r].on].active = active, ![req[r].on].super = super]
      BY <2>2 DEF UpdateCommit
    <3> QED BY <2>2, <3>1 DEF UpdateCommit, TypeOK, User
  <2>3. CASE ScriptCommit(r)
    <3> DEFINE new == IF ~req[r].copy.exists THEN [exists |-> TRUE, active |-> TRUE, super |-> TRUE]
                      ELSE [users[req[r].on] EXCEPT !.super = @ \/ MadeSuper(r)]
    <3>1. users' = users \/ users' = [users EXCEPT ![req[r].on] = new]
      BY <2>3 DEF ScriptCommit, tables
    <3>2. users[req[r].on].exists => new.exists
      BY DEF TypeOK, User
    <3> HIDE DEF new
    <3> QED BY <2>3, <3>1, <3>2 DEF ScriptCommit, TypeOK, tables
  <2>4. CASE GrantCommit(r) \/ RevokeCommit(r) \/ RegisterCommit(r)
    BY <2>4 DEF GrantCommit, RevokeCommit, RegisterCommit
  <2> QED BY <1>2, <2>1, <2>2, <2>3, <2>4 DEF Commit
<1> QED
  BY <1>1, <1>2, WorkWrites DEF Moved, Arrived, Advanced

(* Only an update takes a super-admin or an active account away.            *)
LEMMA AdminsStay ==
    ASSUME TypeOK, Formed, Found, NEW r \in Requests, Moved(r), ~UpdateCommit(r), NEW a \in Accounts
    PROVE  /\ users[a].super => users'[a].super
           /\ users[a].active => users'[a].active
<1>1. CASE users'[a] = users[a]
  BY <1>1
<1>2. CASE users'[a] # users[a]
  <2>1. Commit(r) /\ Active(r) /\ a = req[r].on
    BY <1>2, RowsStay
  <2>2. CASE SignupCommit(r)
    <3>1. ~users[a].super /\ ~users[a].active
      BY <2>1, <2>2 DEF SignupCommit, Found, Signing, TypeOK, NoUser
    <3> QED BY <3>1
  <2>3. CASE ScriptCommit(r)
    <3> DEFINE new == IF ~req[r].copy.exists THEN [exists |-> TRUE, active |-> TRUE, super |-> TRUE]
                      ELSE [users[req[r].on] EXCEPT !.super = @ \/ MadeSuper(r)]
    <3>1. users' = [users EXCEPT ![req[r].on] = new]
      BY <1>2, <2>3 DEF ScriptCommit, tables
    <3>2. (users[a].super => new.super) /\ (users[a].active => new.active)
      BY <2>1 DEF TypeOK, User
    <3> HIDE DEF new
    <3> QED BY <2>1, <3>1, <3>2 DEF TypeOK
  <2>4. CASE GrantCommit(r) \/ RevokeCommit(r) \/ RegisterCommit(r)
    BY <1>2, <2>4 DEF GrantCommit, RevokeCommit, RegisterCommit
  <2> QED BY <2>1, <2>2, <2>3, <2>4 DEF Commit
<1> QED
  BY <1>1, <1>2

(* A commit ends its request, and only a commit ends one well.              *)
LEMMA HowItEnds ==
    ASSUME TypeOK, NEW r \in Requests, Work(r), Advanced(r)
    PROVE  /\ Commit(r) => req'[r].pc \in Ends
           /\ req'[r].pc = "done" => Commit(r)
<1>0. Active(r) /\ req \in [Requests -> Request] /\ Ends = {"done", "refused", "conflict", "error"}
  BY DEF Advanced, TypeOK, Ends
<1>1. \A how \in Ends : End(r, how) => req'[r].pc = how
  BY <1>0, EndFrame
<1>2. \A step \in {"read", "checked"} : Goto(r, step) => req'[r].pc = step
  BY <1>0 DEF Goto
<1>3. Commit(r) => req'[r].pc \in Ends
  BY <1>0, <1>1 DEF Commit, SignupCommit, UpdateCommit, GrantCommit, RevokeCommit, RegisterCommit, ScriptCommit
<1>4. CASE SignupInsert(r)
  <2>1. req' = [req EXCEPT ![r].pc = "checked", ![r].promote = Promoted(req[r].on)] => req'[r].pc = "checked"
    BY <1>0
  <2> QED BY <1>0, <1>1, <1>3, <1>4, <2>1 DEF SignupInsert
<1>5. CASE Authorize(r)
  <2>1. req' = [req EXCEPT ![r].pc = "allowed", ![r].copy = users[req[r].by]] => req'[r].pc = "allowed"
    BY <1>0
  <2> QED BY <1>0, <1>1, <1>3, <1>5, <2>1 DEF Authorize
<1>6. CASE UpdateRead(r)
  <2>1. req' = [req EXCEPT ![r].pc = "read", ![r].copy = users[req[r].on]] => req'[r].pc = "read"
    BY <1>0
  <2> QED BY <1>0, <1>1, <1>2, <1>3, <1>6, <2>1 DEF UpdateRead
<1>7. CASE UpdateCheck(r)
  BY <1>0, <1>1, <1>2, <1>3, <1>7 DEF UpdateCheck
<1>8. CASE AccessRead(r)
  <2>1. req' = [req EXCEPT ![r].pc = "read", ![r].was = access[req[r].on][req[r].module]] => req'[r].pc = "read"
    BY <1>0
  <2> QED BY <1>0, <1>1, <1>3, <1>8, <2>1 DEF AccessRead
<1>9. CASE ScriptRead(r)
  <2> DEFINE known == req[r].tenant \in tenants
  <2>1. req' = [req EXCEPT ![r].pc = "read", ![r].copy = users[req[r].on], ![r].known = known] => req'[r].pc = "read"
    BY <1>0
  <2> QED BY <1>3, <1>9, <2>1 DEF ScriptRead
<1> QED
  BY <1>3, <1>4, <1>5, <1>6, <1>7, <1>8, <1>9 DEF Work

LEMMA FoundStep ==
    ASSUME TypeOK, Formed, Found, OneAccount, NEW r \in Requests, Moved(r) PROVE Found' /\ OneAccount'
<1>1. modules \subseteq modules' /\ \A a \in Accounts : users[a].exists => users'[a].exists
  BY RowsStay
<1>2. \A q \in Requests : q # r => req'[q] = req[q]
  BY DEF Moved, Arrived, Advanced
<1>3. CASE Arrived(r)
  <2>1. users' = users /\ modules' = modules
    BY <1>3 DEF Arrived, tables
  <2> QED BY <1>2, <1>3, <2>1 DEF Arrived, Found, OneAccount, Signing, At
<1>4. ASSUME Work(r), Advanced(r) PROVE Found' /\ OneAccount'
  <2> DEFINE Mine(s, us, ms) ==
        /\ s.pc = "read" /\ s.kind \in {"grant", "revoke"} => us[s.on].exists /\ s.module \in ms
        /\ s.kind = "update" /\ s.pc = "allowed" => us[s.by].exists
        /\ s.kind = "update" /\ s.pc \in {"read", "checked"} => us[s.on].exists
        /\ s.kind = "script" /\ s.pc = "read" /\ s.copy.exists => us[s.on].exists
        /\ s.kind = "signup" /\ s.pc = "done" => us[s.on].exists
  <2>0. req[r].on \in Accounts /\ (req[r].kind = "update" => req[r].by \in Accounts) /\ req[r] \in Request
    BY <1>4 DEF Advanced, Active, Formed, Admin, TypeOK
  <2>1. Mine(req'[r], users', modules')
    <3>1. ASSUME NEW how \in Ends \ {"done"}, End(r, how) PROVE Mine(req'[r], users', modules')
      <4>1. req'[r].pc = how /\ how \notin {"done", "read", "allowed", "checked"}
        BY <1>4, <3>1, EndFrame DEF Ends, Advanced
      <4> QED BY <4>1
    <3>2. CASE SignupInsert(r)
      <4>1. CASE req' = [req EXCEPT ![r].pc = "checked", ![r].promote = Promoted(req[r].on)]
        BY <3>2, <4>1 DEF TypeOK, SignupInsert, At
      <4> QED BY <3>1, <3>2, <4>1 DEF SignupInsert, Ends
    <3>3. CASE Authorize(r)
      <4>1. CASE req' = [req EXCEPT ![r].pc = "allowed", ![r].copy = users[req[r].by]] /\ MayAdminister(req[r].by)
        <5>1. req'[r].pc = "allowed" /\ req[r].by \in Accounts
          BY <1>4, <3>3, <4>1 DEF TypeOK, Authorize, Formed, Admin, Advanced, Active
        <5> QED BY <1>1, <1>4, <3>3, <4>1, <5>1 DEF MayAdminister, Authorize, Advanced
      <4> QED BY <3>1, <3>3, <4>1 DEF Authorize, Ends
    <3>4. CASE UpdateRead(r)
      <4>1. CASE Goto(r, "read") /\ req[r].on = req[r].by
        <5>1. req'[r].pc = "read" /\ users[req[r].on].exists
          BY <3>4, <4>1 DEF TypeOK, Goto, UpdateRead, Found
        <5> QED BY <1>1, <1>4, <2>0, <3>4, <5>1 DEF UpdateRead, At, Advanced
      <4>2. CASE req' = [req EXCEPT ![r].pc = "read", ![r].copy = users[req[r].on]] /\ users[req[r].on].exists
        <5>1. req'[r].pc = "read"
          BY <4>2 DEF TypeOK
        <5> QED BY <1>1, <1>4, <2>0, <3>4, <4>2, <5>1 DEF UpdateRead, At, Advanced
      <4> QED BY <3>1, <3>4, <4>1, <4>2 DEF UpdateRead, Ends
    <3>5. CASE UpdateCheck(r)
      <4>1. CASE Goto(r, "checked")
        <5>1. req'[r].pc = "checked" /\ users[req[r].on].exists
          BY <3>5, <4>1 DEF TypeOK, Goto, UpdateCheck, At, Found
        <5> QED BY <1>1, <1>4, <2>0, <3>5, <5>1 DEF UpdateCheck, At, Advanced
      <4> QED BY <3>1, <3>5, <4>1 DEF UpdateCheck, Ends
    <3>6. CASE AccessRead(r)
      <4>1. CASE req' = [req EXCEPT ![r].pc = "read", ![r].was = access[req[r].on][req[r].module]]
                 /\ users[req[r].on].exists /\ req[r].module \in modules
        <5>1. req'[r].pc = "read"
          BY <4>1 DEF TypeOK
        <5> QED BY <1>1, <1>4, <2>0, <3>6, <4>1, <5>1 DEF AccessRead, Advanced
      <4> QED BY <3>1, <3>6, <4>1 DEF AccessRead, Ends
    <3>7. CASE ScriptRead(r)
      <4>1. req'[r].pc = "read" /\ req'[r].copy = users[req[r].on]
        BY <2>0, <3>7 DEF TypeOK, Request, ScriptRead
      <4> QED BY <1>1, <1>4, <2>0, <3>7, <4>1 DEF ScriptRead, At, Advanced
    <3>8. CASE SignupCommit(r)
      <4>1. req'[r].pc = "done"
        BY <1>4, <3>8, EndFrame DEF SignupCommit, Ends, Advanced
      <4>2. users'[req[r].on].exists
        BY <2>0, <3>8 DEF SignupCommit, TypeOK
      <4> QED BY <1>4, <3>8, <4>1, <4>2 DEF SignupCommit, At, Advanced
    <3>9. CASE UpdateCommit(r) \/ GrantCommit(r) \/ RevokeCommit(r) \/ RegisterCommit(r) \/ ScriptCommit(r)
      <4>1. req'[r].pc \in Ends /\ req[r].kind # "signup"
        BY <1>4, <3>9, EndFrame
           DEF UpdateCommit, GrantCommit, RevokeCommit, RegisterCommit, ScriptCommit, Ends, At, Advanced
      <4> QED BY <1>4, <4>1, SMTT(30) DEF Ends, Advanced
    <3> QED
      BY <1>4, <3>2, <3>3, <3>4, <3>5, <3>6, <3>7, <3>8, <3>9 DEF Work, Commit
  <2>2. ASSUME NEW q \in Requests, q # r, req[q].pc # "idle" PROVE Mine(req'[q], users', modules')
    BY <1>1, <1>2, <2>2 DEF Found, Formed, At, Admin
  <2>3. ASSUME Signing(r)' PROVE
          /\ ~users'[req[r].on].exists
          /\ \A q \in Requests : q # r /\ Signing(q) => req[q].on # req[r].on
    <3>1. req'[r].pc = "checked" /\ req[r].kind = "signup"
      BY <1>4, <2>3 DEF Signing, At, Advanced
    <3>2. ~Commit(r)
      BY <1>4, <3>1, HowItEnds DEF Ends
    <3>3. SignupInsert(r)
      BY <1>4, <3>1, <3>2 DEF Work, At, Authorize, UpdateRead, UpdateCheck, AccessRead, ScriptRead
    <3>4. ~users[req[r].on].exists /\ ~Inserting(req[r].on)
      <4>1. ~End(r, "conflict")
        BY <1>4, <3>1, EndFrame DEF Advanced, Ends
      <4> QED BY <3>3, <4>1 DEF SignupInsert, Taken
    <3> QED
      BY <3>2, <3>4, <1>4, WorkWrites DEF Inserting, Signing, tables
  <2>4. ASSUME NEW q \in Requests, q # r, Signing(q)' PROVE ~users'[req[q].on].exists /\ Signing(q)
    <3>1. Signing(q) /\ req[q].on \in Accounts /\ ~users[req[q].on].exists
      BY <1>2, <2>4 DEF Signing, At, Found, Formed
    <3>2. CASE users'[req[q].on] = users[req[q].on]
      BY <3>1, <3>2
    <3>3. CASE users'[req[q].on] # users[req[q].on]
      <4>1. Commit(r) /\ req[q].on = req[r].on
        BY <3>1, <3>3, RowsStay
      <4>2. CASE SignupCommit(r)
        BY <2>4, <3>1, <4>1, <4>2 DEF SignupCommit, Found, Signing
      <4>3. CASE ScriptCommit(r)
        BY <3>1, <4>1, <4>3 DEF ScriptCommit, Inserting, Signing
      <4>4. CASE UpdateCommit(r)
        BY <3>1, <4>1, <4>4 DEF UpdateCommit, Found, At
      <4>5. CASE GrantCommit(r) \/ RevokeCommit(r) \/ RegisterCommit(r)
        BY <3>3, <4>5 DEF GrantCommit, RevokeCommit, RegisterCommit
      <4> QED BY <4>1, <4>2, <4>3, <4>4, <4>5 DEF Commit
    <3> QED BY <3>1, <3>2, <3>3
  <2>5. Found'
    <3>1. \A q \in Requests : Mine(req'[q], users', modules')
      <4>1. ASSUME NEW q \in Requests, q # r, req[q].pc = "idle" PROVE Mine(req'[q], users', modules')
        BY <1>2, <4>1
      <4> QED BY <2>1, <2>2, <4>1
    <3>2. \A q \in Requests : Signing(q)' => ~users'[req'[q].on].exists
      BY <1>2, <1>4, <2>3, <2>4 DEF Advanced
    <3>3. \A q, s \in Requests : Signing(q)' /\ Signing(s)' /\ req'[q].on = req'[s].on => q = s
      BY <1>2, <1>4, <2>3, <2>4 DEF Advanced, Found
    <3> QED
      BY <3>1, <3>2, <3>3 DEF Found, At, Signing
  <2>6. OneAccount'
    <3>1. ASSUME At(r, "signup", "done")' PROVE \A q \in Requests : q # r /\ At(q, "signup", "done") => req[q].on # req[r].on
      <4>1. SignupCommit(r)
        BY <1>4, <3>1, HowItEnds
           DEF Commit, At, Advanced, UpdateCommit, GrantCommit, RevokeCommit, RegisterCommit, ScriptCommit
      <4> QED BY <4>1, SMTT(30) DEF SignupCommit, Found, Signing
    <3> QED
      BY <1>2, <1>4, <3>1 DEF OneAccount, At, Advanced
  <2> QED BY <2>5, <2>6
<1> QED
  BY <1>3, <1>4 DEF Moved

-----------------------------------------------------------------------------
(* What guards have established.                                            *)

LEMMA WasAlone ==
    ASSUME TypeOK, Formed, NEW r \in Requests, Moved(r), NEW q \in Requests, req[q].pc # "idle"
    PROVE  /\ Alone(q)' => Alone(q)
           /\ NoRival(q)' => NoRival(q)
           /\ NoGrant(q)' => NoGrant(q)
<1>1. \A p \in Requests : Overlap(p, q) =>
        /\ Overlap(p, q)' /\ req'[p].kind = req[p].kind /\ req'[p].on = req[p].on /\ req'[p].module = req[p].module
  BY OverlapStays, KeepsOwn DEF Overlap, Begun
<1>2. req'[q].on = req[q].on /\ req'[q].module = req[q].module
  BY KeepsOwn
<1> QED
  BY <1>1, <1>2 DEF Alone, NoRival, NoGrant

(* The row a grant has read is written by other grants, or emptied.         *)
LEMMA RowOfGrant ==
    ASSUME TypeOK, Formed, Found, NEW r \in Requests, Moved(r), NEW q \in Requests, q # r, At(q, "grant", "read"),
           NoGrant(q)
    PROVE  access'[req[q].on][req[q].module] \in {access[req[q].on][req[q].module], 0}
<1>1. req[q].on \in Accounts /\ req[q].module \in Modules /\ users[req[q].on].exists
  BY DEF Formed, At, Found
<1>2. CASE UNCHANGED access
  BY <1>2
<1>3. ASSUME Commit(r), Active(r), ~UNCHANGED access
      PROVE  access'[req[q].on][req[q].module] \in {access[req[q].on][req[q].module], 0}
  <2>0. req[r].on \in Accounts
    BY <1>3 DEF Active, Formed
  <2>1. CASE SignupCommit(r)
    <3>1. req[r].on # req[q].on
      BY <1>1, <2>1 DEF SignupCommit, Found, Signing
    <3> QED BY <1>1, <2>0, <2>1, <3>1 DEF SignupCommit, TypeOK
  <2>2. CASE GrantCommit(r)
    <3>1. Overlap(r, q)
      BY <1>3, Rivals DEF At, Active
    <3>2. req[r].on # req[q].on \/ req[r].module # req[q].module
      BY <2>2, <3>1 DEF NoGrant, GrantCommit, At
    <3>3. access' = [access EXCEPT ![req[r].on][req[r].module] = req[r].level]
      BY <1>3, <2>2 DEF GrantCommit
    <3> QED BY <1>1, <2>0, <3>2, <3>3 DEF TypeOK, AccessRow
  <2>3. CASE RevokeCommit(r)
    <3>1. access' = [access EXCEPT ![req[r].on][req[r].module] = 0]
      BY <2>3 DEF RevokeCommit
    <3> QED BY <1>1, <2>0, <3>1 DEF TypeOK, AccessRow
  <2>4. CASE UpdateCommit(r) \/ RegisterCommit(r) \/ ScriptCommit(r)
    BY <1>3, <2>4 DEF UpdateCommit, RegisterCommit, ScriptCommit, tables
  <2> QED BY <1>3, <2>1, <2>2, <2>3, <2>4 DEF Commit
<1>4. (Commit(r) /\ Active(r)) \/ UNCHANGED access
  BY WorkWrites DEF Moved, Arrived, Advanced, tables
<1> QED
  BY <1>2, <1>3, <1>4

LEMMA GuardedStep ==
    ASSUME TypeOK, Formed, Found, Guarded, NEW r \in Requests, Moved(r) PROVE Guarded'
<1> DEFINE Checked(q) ==
        At(q, "update", "checked") =>
          /\ ~(req[q].body.active = "off" /\ req[q].on = req[q].by)
          /\ req[q].body.super = "off" /\ req[q].copy.super /\ NoRival(q) => Supers \ {req[q].on} # {}
<1> DEFINE Allowed(q) ==
        req[q].kind \in Admin /\ req[q].pc \in {"allowed", "read", "checked"} /\ Alone(q) => Manages(req[q].by)
<1> DEFINE Unraised(q) ==
        At(q, "grant", "read") /\ NoGrant(q) => access[req[q].on][req[q].module] \in {req[q].was, 0}
<1>0. \A q \in Requests : Checked(q) /\ Allowed(q) /\ Unraised(q)
  BY DEF Guarded
<1>1. ASSUME NEW q \in Requests, q # r PROVE Checked(q)' /\ Allowed(q)' /\ Unraised(q)'
  <2>0. req'[q] = req[q]
    BY <1>1 DEF Moved, Arrived, Advanced
  <2>1. Checked(q)'
    <3> SUFFICES ASSUME At(q, "update", "checked")
                 PROVE  /\ ~(req[q].body.active = "off" /\ req[q].on = req[q].by)
                        /\ req[q].body.super = "off" /\ req[q].copy.super /\ NoRival(q)' => Supers' \ {req[q].on} # {}
      BY <2>0 DEF At
    <3>1. NoRival(q)' => NoRival(q)
      BY WasAlone DEF At
    <3>2. UpdateCommit(r) => ~NoRival(q)
      BY <1>1, Rivals DEF UpdateCommit, At, Active, NoRival
    <3>3. ~UpdateCommit(r) => Supers \subseteq Supers'
      BY AdminsStay DEF Supers
    <3> QED BY <1>0, <3>1, <3>2, <3>3
  <2>2. Allowed(q)'
    <3> SUFFICES ASSUME req[q].kind \in Admin, req[q].pc \in {"allowed", "read", "checked"}, Alone(q)'
                 PROVE  Manages(req[q].by)'
      BY <2>0 DEF Manages
    <3>1. Alone(q) /\ Active(q)
      BY WasAlone DEF Active
    <3>2. ~Active(r)
      BY <1>1, <3>1, Rivals DEF Alone
    <3>3. users' = users
      BY <3>2 DEF Moved, Arrived, Advanced, tables
    <3> QED BY <1>0, <2>0, <3>1, <3>3 DEF Manages
  <2>3. Unraised(q)'
    <3> SUFFICES ASSUME At(q, "grant", "read"), NoGrant(q)'
                 PROVE  access'[req[q].on][req[q].module] \in {req[q].was, 0}
      BY <2>0 DEF At
    <3>1. NoGrant(q)
      BY WasAlone DEF At
    <3> QED BY <1>0, <1>1, <3>1, RowOfGrant
  <2> QED BY <2>1, <2>2, <2>3
<1>2. Checked(r)' /\ Allowed(r)' /\ Unraised(r)'
  <2>1. CASE Arrived(r)
    BY <2>1 DEF Arrived, At
  <2>2. CASE Work(r) /\ Commit(r) /\ Advanced(r)
    <3>1. req'[r].pc \in Ends
      BY <2>2, HowItEnds
    <3> QED BY <3>1 DEF Ends, At
  <2>3. ASSUME Work(r), ~Commit(r), Advanced(r) PROVE Checked(r)' /\ Allowed(r)' /\ Unraised(r)'
    <3>0. UNCHANGED <<users, access>> /\ req[r].pc # "idle" /\ Supers' = Supers
      BY <2>3, WorkWrites DEF Advanced, Active, tables, Supers
    <3>1. ASSUME NEW how \in Ends, End(r, how) PROVE Checked(r)' /\ Allowed(r)' /\ Unraised(r)'
      BY <2>3, <3>1, EndFrame DEF Advanced, Ends, At
    <3>2. CASE SignupInsert(r) \/ ScriptRead(r)
      BY <2>3, <3>2 DEF SignupInsert, ScriptRead, At, Advanced, Admin
    <3>3. CASE Authorize(r)
      <4>1. CASE req' = [req EXCEPT ![r].pc = "allowed", ![r].copy = users[req[r].by]] /\ MayAdminister(req[r].by)
        <5>1. req'[r].pc = "allowed"
          BY <4>1 DEF TypeOK
        <5> QED BY <2>3, <3>0, <4>1, <5>1 DEF MayAdminister, Manages, At, Advanced
      <4> QED BY <3>1, <3>3, <4>1 DEF Authorize, Ends
    <3>4. ASSUME req[r].pc \in {"allowed", "read", "checked"} PROVE Allowed(r)'
      BY <1>0, <2>3, <3>0, <3>4, WasAlone DEF Advanced, Manages
    <3>5. CASE UpdateRead(r)
      <4>1. req'[r].pc # "checked" /\ req'[r].kind = "update"
        <5>1. Goto(r, "read") => req'[r].pc = "read"
          BY DEF TypeOK, Goto
        <5>2. req' = [req EXCEPT ![r].pc = "read", ![r].copy = users[req[r].on]] => req'[r].pc = "read"
          BY DEF TypeOK
        <5>3. End(r, "refused") => req'[r].pc = "refused"
          BY <2>3, EndFrame DEF Ends, Advanced
        <5> QED BY <2>3, <3>5, <5>1, <5>2, <5>3 DEF UpdateRead, At, Advanced
      <4> QED BY <3>4, <3>5, <4>1 DEF UpdateRead, At
    <3>6. CASE UpdateCheck(r)
      <4>1. CASE Goto(r, "checked") /\ ~Forbidden(r)
        <5>1. req'[r].pc = "checked" /\ req'[r].body = req[r].body /\ req'[r].copy = req[r].copy
              /\ req'[r].on = req[r].on /\ req'[r].by = req[r].by /\ req'[r].kind = "update"
          BY <3>6, <4>1 DEF TypeOK, Request, Goto, UpdateCheck, At
        <5> QED BY <3>0, <3>4, <3>6, <4>1, <5>1 DEF Forbidden, UpdateCheck, At
      <4> QED BY <3>1, <3>6, <4>1 DEF UpdateCheck, Ends
    <3>7. CASE AccessRead(r)
      <4>1. CASE req' = [req EXCEPT ![r].pc = "read", ![r].was = access[req[r].on][req[r].module]]
        <5>1. req'[r].pc = "read" /\ req'[r].was = access[req[r].on][req[r].module] /\ req'[r].kind # "update"
          <6>1. req[r] \in Request
            BY DEF TypeOK
          <6> QED BY <3>7, <4>1, <6>1 DEF TypeOK, Request, AccessRead
        <5> QED BY <2>3, <3>0, <3>4, <3>7, <5>1 DEF AccessRead, At, Advanced
      <4> QED BY <3>1, <3>7, <4>1 DEF AccessRead, Ends
    <3> QED
      BY <2>3, <3>2, <3>3, <3>5, <3>6, <3>7 DEF Work
  <2> QED BY <2>1, <2>2, <2>3 DEF Moved
<1> QED
  BY <1>1, <1>2 DEF Guarded

-----------------------------------------------------------------------------
(* Super-admins.                                                            *)

(* What an update writes: only what its body sets, and only if the copy     *)
(* differs.                                                                 *)
LEMMA UpdateWrites ==
    ASSUME TypeOK, Formed, NEW r \in Requests, UpdateCommit(r)
    PROVE  /\ req[r].on \in Accounts
           /\ \A a \in Accounts : a # req[r].on => users'[a] = users[a]
           /\ req[r].body.super # "off" \/ ~req[r].copy.super =>
                (users[req[r].on].super => users'[req[r].on].super)
           /\ req[r].body.active # "off" => (users[req[r].on].active => users'[req[r].on].active)
<1> DEFINE a == req[r].on
<1> DEFINE active == Written(users[a].active, req[r].copy.active, req[r].body.active)
<1> DEFINE super == Written(users[a].super, req[r].copy.super, req[r].body.super)
<1>1. a \in Accounts /\ users[a] \in User /\ req[r] \in Request /\ users \in [Accounts -> User]
  BY DEF UpdateCommit, At, Formed, TypeOK
<1>2. users' = [users EXCEPT ![a].active = active, ![a].super = super]
  BY DEF UpdateCommit
<1>3. \A b \in Accounts : users'[b] = IF b = a THEN [users[a] EXCEPT !.active = active, !.super = super] ELSE users[b]
  BY <1>1, <1>2
<1>4. req[r].body.super # "off" \/ ~req[r].copy.super => (users[a].super => super)
  BY <1>1 DEF Written, Request, User, Body, Maybe
<1>5. req[r].body.active # "off" => (users[a].active => active)
  BY <1>1 DEF Written, Request, User, Body, Maybe
<1> HIDE DEF active, super
<1>6. users'[a].active = active /\ users'[a].super = super
  BY <1>1, <1>3 DEF User
<1> QED
  BY <1>1, <1>3, <1>4, <1>5, <1>6

LEMMA UpdateKeepsASuper ==
    ASSUME TypeOK, Formed, Guarded, NEW r \in Requests, UpdateCommit(r), NoRival(r), Supers # {}
    PROVE  Supers' # {}
<1>1. CASE req[r].body.super = "off" /\ req[r].copy.super
  <2>1. PICK b \in Supers : b # req[r].on
    BY <1>1 DEF Guarded, UpdateCommit
  <2> QED BY <2>1, UpdateWrites DEF Supers
<1>2. CASE req[r].body.super # "off" \/ ~req[r].copy.super
  BY <1>2, UpdateWrites DEF Supers
<1> QED
  BY <1>1, <1>2

LEMMA SequentialWas ==
    ASSUME TypeOK, Formed, NEW r \in Requests, Moved(r), Sequential' PROVE Sequential
BY OverlapStays DEF Sequential

LEMMA PromotingStep ==
    ASSUME TypeOK, Formed, Found, Guarded, Promoting, NEW r \in Requests, Moved(r) PROVE Promoting'
<1>0. \A q \in Requests : q # r => req'[q] = req[q]
  BY DEF Moved, Arrived, Advanced
<1>1. CASE SignupCommit(r)
  <2>0. req[r].on \in Accounts /\ Work(r) /\ Advanced(r) /\ Signing(r)
    BY <1>1 DEF Moved, SignupCommit, Formed, At, Signing, Arrived
  <2>1. req'[r].pc \in Ends
    BY <1>1, <2>0, HowItEnds DEF Commit
  <2>2. ~Signing(r)'
    BY <2>1 DEF Signing, At, Ends
  <2>3. firsts' = IF req[r].promote THEN firsts \cup {req[r].on} ELSE firsts
    BY <1>1 DEF SignupCommit
  <2>4. CASE Configured # Nobody
    BY <1>0, <2>0, <2>2, <2>3, <2>4 DEF Promoting, Signing, At
  <2>5. CASE Configured = Nobody
    <3> SUFFICES ASSUME Sequential'
                 PROVE  /\ firsts' # {} => Supers' # {}
                        /\ \A q \in Requests : Signing(q)' /\ req'[q].promote => firsts' = {}
                        /\ \A a, b \in firsts' : a = b
      BY <2>5 DEF Promoting
    <3>1. Sequential
      BY SequentialWas
    <3>2. Supers \subseteq Supers' /\ (req[r].promote => req[r].on \in Supers')
      <4>1. ~UpdateCommit(r)
        BY <1>1 DEF SignupCommit, UpdateCommit, At
      <4>2. req[r].promote => users'[req[r].on].super
        BY <1>1, <2>0 DEF SignupCommit, TypeOK
      <4> QED BY <2>0, <4>1, <4>2, AdminsStay DEF Supers
    <3>3. \A q \in Requests : q # r => ~Signing(q)
      BY <2>0, <3>1, Rivals, SMTT(30) DEF Sequential, Signing, At, Active
    <3> QED
      BY <1>0, <2>0, <2>2, <2>3, <2>5, <3>1, <3>2, <3>3 DEF Promoting, Signing, At
  <2> QED BY <2>4, <2>5
<1>2. CASE ~SignupCommit(r)
  <2>1. firsts' = firsts
    BY <1>2, WorkWrites DEF Moved, Arrived, Commit, UpdateCommit, GrantCommit, RevokeCommit, RegisterCommit, ScriptCommit
  <2>2. ASSUME Signing(r)', req'[r].promote PROVE
          req'[r].on = req[r].on /\ (Configured # Nobody => req[r].on = Configured) /\ (Configured = Nobody => Supers = {})
    <3>1. Work(r) /\ Advanced(r)
      BY <2>2, SMTT(30) DEF Moved, Arrived, Signing, At
    <3>2. SignupInsert(r)
      BY <2>2, <3>1, HowItEnds
         DEF Work, Advanced, Signing, At, Authorize, UpdateRead, UpdateCheck, AccessRead, ScriptRead, Ends
    <3>3. req' = [req EXCEPT ![r].pc = "checked", ![r].promote = Promoted(req[r].on)]
      BY <2>2, <3>1, <3>2, EndFrame DEF SignupInsert, Signing, At, Advanced, Ends
    <3>4. req'[r].promote = Promoted(req[r].on)
      BY <3>3 DEF TypeOK, Request
    <3> QED BY <2>2, <3>1, <3>4 DEF Promoted, Advanced
  <2>3. CASE Configured # Nobody
    BY <1>0, <2>1, <2>2, <2>3 DEF Promoting, Signing, At
  <2>4. CASE Configured = Nobody
    <3> SUFFICES ASSUME Sequential'
                 PROVE  /\ firsts # {} => Supers' # {}
                        /\ \A q \in Requests : Signing(q)' /\ req'[q].promote => firsts = {}
                        /\ \A a, b \in firsts : a = b
      BY <2>1, <2>4 DEF Promoting
    <3>1. Sequential /\ (firsts # {} => Supers # {})
      BY <2>4, SequentialWas DEF Promoting
    <3>2. Supers # {} => Supers' # {}
      <4>1. CASE UpdateCommit(r)
        BY <3>1, <4>1, UpdateKeepsASuper DEF Sequential, NoRival
      <4>2. CASE ~UpdateCommit(r)
        BY <4>2, AdminsStay DEF Supers
      <4> QED BY <4>1, <4>2
    <3> QED
      BY <1>0, <2>2, <2>4, <3>1, <3>2 DEF Promoting, Signing, At
  <2> QED BY <2>3, <2>4
<1> QED
  BY <1>1, <1>2

-----------------------------------------------------------------------------
LEMMA Invariance == Spec => []IInv
<1>1. Init => IInv
  <2> SUFFICES ASSUME Init PROVE IInv
    OBVIOUS
  <2>1. \A r \in Requests : req[r].pc = "idle"
    BY DEF Init, NotYet
  <2>2. firsts = {}
    BY DEF Init
  <2>3. Guarded /\ Promoting
    BY <2>1, <2>2 DEF Guarded, Promoting, At, Signing
  <2> QED BY <2>3, InitType DEF IInv
<1>2. IInv /\ [Next]_vars => IInv'
  <2> SUFFICES ASSUME IInv, [Next]_vars PROVE IInv'
    OBVIOUS
  <2>1. CASE Next
    <3>1. PICK r \in Requests : Moved(r)
      BY <2>1, StepFrame DEF IInv
    <3> QED
      BY <3>1, TypeStep, FormedStep, FoundStep, GuardedStep, PromotingStep DEF IInv
  <2>2. CASE UNCHANGED vars
    <3>1. UNCHANGED <<users, access, modules, tenants, owners, home, req, firsts>>
      BY <2>2 DEF vars
    <3> QED
      BY <3>1 DEF IInv, TypeOK, Formed, Found, OneAccount, Guarded, Promoting, Ended, Signing, At, Alone, NoRival, NoGrant,
            Overlap, Begun, Supers, Manages, Sequential
  <2> QED BY <2>1, <2>2
<1> QED
  BY <1>1, <1>2, PTL DEF Spec

(* Whatever requests overlap, the tables keep their types and foreign keys, *)
(* one signup at most succeeds for an address, and signing up makes one     *)
(* account at most super-admin: the configured one, or else, as long as no  *)
(* two requests overlap, one account ever (auth/routes.py: 57-71,           *)
(* auth/service.py: 96-122).                                                *)
THEOREM InvHolds == Spec => []Inv
<1>1. IInv => Inv
  <2> SUFFICES ASSUME IInv PROVE Inv
    OBVIOUS
  <2>1. CASE Configured # Nobody
    BY <2>1 DEF IInv, Inv, OneFirst, Promoting
  <2>2. CASE Configured = Nobody
    <3>1. ASSUME Sequential PROVE Cardinality(firsts) <= 1
      <4>1. CASE firsts = {}
        BY <4>1, FS_EmptySet
      <4>2. CASE firsts # {}
        <5>1. PICK a : firsts = {a}
          BY <2>2, <3>1, <4>2 DEF IInv, Promoting
        <5>2. Cardinality(firsts) = 1
          BY <5>1, FS_Singleton
        <5> QED BY <5>2
      <4> QED BY <4>1, <4>2
    <3> QED BY <2>2, <3>1 DEF IInv, Inv, OneFirst
  <2> QED BY <2>1, <2>2
<1> QED
  BY <1>1, Invariance, PTL

-----------------------------------------------------------------------------
(* Somebody is always in charge: as long as no two requests overlap, who    *)
(* can administer is never the last one to go; as long as no two updates    *)
(* overlap, a super-admin is left; and a change that no request overlapped  *)
(* is committed by an active super-admin (admin_routes.py: 45-53, 133-156). *)
THEOREM AdminsInChargeHolds == Spec => AdminsInCharge
<1>1. ASSUME IInv, NEW r \in Requests, Moved(r) PROVE StillManaged
  <2> SUFFICES ASSUME Sequential, Supers # {}, \A a \in Supers : users[a].active
               PROVE  \E a \in Accounts : users'[a].active /\ users'[a].super
    BY DEF StillManaged, Manages
  <2>1. CASE UpdateCommit(r)
    <3>1. Alone(r) /\ NoRival(r) /\ At(r, "update", "checked")
      BY <2>1 DEF Sequential, Alone, NoRival, UpdateCommit
    <3>2. CASE req[r].body.super = "off" /\ req[r].copy.super
      <4>1. PICK b \in Supers : b # req[r].on
        BY <1>1, <3>1, <3>2 DEF IInv, Guarded
      <4> QED BY <1>1, <2>1, <4>1, UpdateWrites DEF Supers, IInv
    <3>3. CASE req[r].body.active = "off"
      <4>1. req[r].by \in Accounts /\ Manages(req[r].by) /\ req[r].on # req[r].by
        BY <1>1, <3>1, <3>3 DEF IInv, Guarded, Admin, At, Formed
      <4> QED BY <1>1, <2>1, <4>1, UpdateWrites DEF Manages, IInv
    <3>4. CASE (req[r].body.super # "off" \/ ~req[r].copy.super) /\ req[r].body.active # "off"
      <4>1. PICK a \in Supers : TRUE
        OBVIOUS
      <4>2. users'[a].super /\ users'[a].active
        BY <1>1, <2>1, <3>4, <4>1, UpdateWrites DEF Supers, IInv
      <4> QED BY <4>1, <4>2 DEF Supers
    <3> QED BY <3>2, <3>3, <3>4
  <2>2. CASE ~UpdateCommit(r)
    <3>1. PICK a \in Supers : TRUE
      OBVIOUS
    <3> QED BY <1>1, <2>2, <3>1, AdminsStay DEF Supers, IInv
  <2> QED BY <2>1, <2>2
<1>2. ASSUME IInv, NEW r \in Requests, Moved(r) PROVE SuperStays
  <2> SUFFICES ASSUME Supers # {},
                      ~(\E q, s \in Requests : Overlap(q, s) /\ req[q].kind = "update" /\ req[s].kind = "update")
               PROVE  Supers' # {}
    BY DEF SuperStays
  <2>1. CASE UpdateCommit(r)
    <3>1. NoRival(r)
      BY <2>1 DEF NoRival, UpdateCommit, At
    <3> QED BY <1>2, <2>1, <3>1, UpdateKeepsASuper DEF IInv
  <2>2. CASE ~UpdateCommit(r)
    BY <1>2, <2>2, AdminsStay DEF Supers, IInv
  <2> QED BY <2>1, <2>2
<1>3. ASSUME IInv, NEW r \in Requests, Moved(r) PROVE AdminsCommit
  <2> SUFFICES ASSUME NEW q \in Requests, req[q].kind \notin {"signup", "script"}, req'[q].pc = "done", req[q].pc # "done"
               PROVE  Manages(req[q].by) \/ \E p \in Requests : Overlap(p, q)
    BY DEF AdminsCommit
  <2>1. q = r /\ Work(r) /\ Advanced(r)
    BY <1>3 DEF Moved, Arrived, Advanced
  <2>2. Commit(r)
    BY <1>3, <2>1, HowItEnds, SMTT(30) DEF IInv
  <2>3. req[r].kind \in Admin /\ req[r].pc \in {"allowed", "read", "checked"}
    BY <2>1, <2>2 DEF Commit, At, Admin, SignupCommit, UpdateCommit, GrantCommit, RevokeCommit, RegisterCommit, ScriptCommit
  <2> QED
    BY <1>3, <2>1, <2>3 DEF IInv, Guarded, Alone
<1>4. IInv /\ [Next]_vars => [StillManaged /\ SuperStays /\ AdminsCommit]_vars
  BY <1>1, <1>2, <1>3, StepFrame DEF IInv
<1> QED
  BY <1>4, Invariance, PTL DEF Spec, AdminsInCharge

(* What the sidebar shows of a module falls only by a demotion, by a        *)
(* revocation, or where two grants of one row overlap (service.py: 48-69).  *)
THEOREM OnlyRevocationLowersHolds == Spec => OnlyRevocationLowers
<1> DEFINE Lowered(a, m) ==
        \/ users[a].super /\ ~users'[a].super
        \/ \E r \in Requests : req[r].on = a /\ req[r].module = m /\ req'[r].pc = "done" /\
             \/ req[r].kind = "revoke"
             \/ \E q \in Requests : Overlap(q, r) /\ req[q].kind = "grant" /\ req[q].on = a /\ req[q].module = m
<1>1. ASSUME IInv, NEW r \in Requests, Moved(r), NEW a \in Accounts, NEW m \in Modules, Shown(a, m)' < Shown(a, m)
      PROVE  Lowered(a, m)
  <2>0. access[a][m] \in Levels /\ access'[a][m] \in Levels /\ TypeOK' /\ a \in Accounts
    BY <1>1, TypeStep DEF IInv, TypeOK, AccessRow
  <2>1. CASE users[a].super
    <3>1. ~users'[a].super
      BY <1>1, <2>0, <2>1 DEF Shown, Levels
    <3> QED BY <2>1, <3>1
  <2>2. CASE ~users[a].super
    <3>1. access'[a][m] < access[a][m]
      BY <1>1, <2>0, <2>2 DEF Shown, Levels
    <3>2. Commit(r) /\ Work(r) /\ Advanced(r)
      BY <1>1, <2>0, <3>1, WorkWrites DEF Moved, Arrived, tables, Levels
    <3>3. req[r].on \in Accounts
      BY <1>1, <3>2 DEF IInv, Formed, Advanced, Active
    <3>4. CASE SignupCommit(r)
      <4>1. a = req[r].on
        BY <1>1, <2>0, <3>1, <3>3, <3>4 DEF SignupCommit, IInv, TypeOK, Levels
      <4>2. access[a][m] = 0
        BY <1>1, <2>0, <3>4, <4>1 DEF SignupCommit, IInv, Found, Signing, TypeOK, Levels
      <4> QED BY <2>0, <3>1, <4>2 DEF Levels
    <3>5. CASE GrantCommit(r)
      <4>1. access' = [access EXCEPT ![req[r].on][req[r].module] = req[r].level] /\ End(r, "done") /\ Raises(r)
            /\ ((req[r].was = 0) <=> (access[req[r].on][req[r].module] = 0))
        BY <2>0, <3>1, <3>5 DEF GrantCommit, Levels
      <4>2. req[r].module \in Modules /\ req[r] \in Request
        BY <1>1, <3>2, <3>5 DEF GrantCommit, At, IInv, Formed, Advanced, Active, TypeOK
      <4>3. a = req[r].on /\ m = req[r].module /\ access'[a][m] = req[r].level
        BY <1>1, <2>0, <3>1, <3>3, <4>1, <4>2 DEF IInv, TypeOK, AccessRow, Levels
      <4>4. access[a][m] # req[r].was
        BY <2>0, <3>1, <4>1, <4>2, <4>3 DEF Raises, Levels, Request
      <4>5. access[a][m] # 0
        BY <2>0, <3>1 DEF Levels
      <4>6. ~NoGrant(r)
        BY <1>1, <3>5, <4>3, <4>4, <4>5 DEF IInv, Guarded, GrantCommit
      <4>7. req'[r].pc = "done"
        BY <1>1, <3>2, <4>1, EndFrame DEF IInv, Advanced, Ends
      <4> QED BY <4>3, <4>6, <4>7 DEF NoGrant
    <3>6. CASE RevokeCommit(r)
      <4>1. req[r].module \in Modules /\ req[r].kind = "revoke"
        BY <1>1, <3>2, <3>6 DEF RevokeCommit, At, IInv, Formed
      <4>2. a = req[r].on /\ m = req[r].module
        BY <1>1, <2>0, <3>1, <3>3, <3>6, <4>1 DEF RevokeCommit, IInv, TypeOK, AccessRow, Levels
      <4>3. req'[r].pc = "done"
        BY <1>1, <3>2, <3>6, EndFrame DEF RevokeCommit, IInv, Advanced, Ends
      <4> QED BY <4>1, <4>2, <4>3
    <3>7. CASE UpdateCommit(r) \/ RegisterCommit(r) \/ ScriptCommit(r)
      BY <2>0, <3>1, <3>7 DEF UpdateCommit, RegisterCommit, ScriptCommit, tables, Levels
    <3> QED BY <3>2, <3>4, <3>5, <3>6, <3>7 DEF Commit
  <2> QED BY <2>1, <2>2
<1>2. IInv /\ [Next]_vars =>
        [\A a \in Accounts, m \in Modules : Shown(a, m)' < Shown(a, m) => Lowered(a, m)]_vars
  BY <1>1, StepFrame DEF IInv
<1> QED
  BY <1>2, Invariance, PTL DEF Spec, OnlyRevocationLowers

=============================================================================
