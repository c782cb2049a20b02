------------------------------- MODULE Access -------------------------------
(***************************************************************************)
(* Who may do what: the stored sessions, a member's status and password,   *)
(* and the back-office accounts of accesstab.  A request works on the copy *)
(* of its session that was loaded when it came in; the row is written back *)
(* at its end only if the copy has changed, and then it is inserted again  *)
(* even if it was deleted meanwhile.                                       *)
(*                                                                         *)
(* One member is modelled.  Roles are two, with full access or without:    *)
(* read-only accounts, which have rights but no writes, count as without.  *)
(***************************************************************************)
EXTENDS Naturals, FiniteSets, FiniteSetsExt

CONSTANTS
    Procs,          \* requests that may be in flight at once
    Sids,           \* session identifiers
    Names,          \* back-office usernames
    Passwords,      \* the member's
    MaxId           \* bound on accesstab.id

VARIABLES
    member,     \* account_status, password, and whether it is PHP-era plaintext
    store,      \* the sessions table
    accounts,   \* accesstab
    desk,       \* the requests in flight
    overlapped  \* history: did two requests that remove full access overlap?

vars == <<member, store, accounts, desk, overlapped>>

Statuses == {"active", "frozen"}
Roles    == {"administrator", "cashier"}
None     == "none"
NoSession == [uid |-> None, admin |-> 0, role |-> None, status |-> None]
Idle      == [step |-> "idle"]

\* At first there is one administrator, who has not signed in yet.
Init ==
    /\ member \in [status : {"active"}, password : Passwords, legacy : BOOLEAN]
    /\ store = [s \in Sids |-> NoSession]
    /\ \E n \in Names : accounts = {[id |-> 1, name |-> n, role |-> "administrator"]}
    /\ desk = [p \in Procs |-> Idle]
    /\ overlapped = FALSE

\* A new random identifier.
Unused(s) ==
    /\ store[s] = NoSession
    /\ \A p \in Procs : "sid" \in DOMAIN desk[p] => desk[p].sid # s

Insert(s, session) == store' = [store EXCEPT ![s] = session]
Admins == {s \in Sids : store[s].admin # 0}
Answer(p) == desk' = [desk EXCEPT ![p] = Idle]

-----------------------------------------------------------------------------
(* Members *)

\* POST /api/auth/login with the right password: the row is read once.
LoginRead(p, pw) ==
    /\ desk[p] = Idle /\ pw = member.password
    /\ desk' = [desk EXCEPT ![p] =
                  [step   |-> IF member.legacy THEN "rehash" ELSE "status",
                   typed  |-> pw, status |-> member.status]]
    /\ UNCHANGED <<member, store, accounts, overlapped>>

\* A plaintext password is stored anew as a bcrypt hash of what was typed.
LoginRehash(p) ==
    /\ desk[p].step = "rehash"
    /\ member' = [member EXCEPT !.password = desk[p].typed, !.legacy = FALSE]
    /\ desk' = [desk EXCEPT ![p].step = "status"]
    /\ UNCHANGED <<store, accounts, overlapped>>

\* 423 for a status that is not active, else a new session.
SignIn(p, s) ==
    /\ desk[p].step = "status"
    /\ Answer(p)
    /\ IF desk[p].status = "active"
       THEN /\ Unused(s)
            /\ Insert(s, [NoSession EXCEPT !.uid = "member", !.status = "active"])
       ELSE UNCHANGED store
    /\ UNCHANGED <<member, accounts, overlapped>>

\* A request with a member's session comes in.  `barred' is a history
\* variable: the member has not been active since.
MemberRequest(p, s) ==
    /\ desk[p] = Idle
    /\ store[s].uid = "member" /\ store[s].admin = 0
    /\ desk' = [desk EXCEPT ![p] = [step |-> "member", sid |-> s, session |-> store[s],
                                    barred |-> member.status # "active"]]
    /\ UNCHANGED <<member, store, accounts, overlapped>>

\* The variant that trusts the status the session remembers.
BugStatusOf(p) == desk[p].session.status

StatusOf(p) == member.status

\* enforceMemberAccountStatus: the row decides; a barred session is destroyed.
CheckStatus(p) ==
    /\ desk[p].step = "member"
    /\ IF StatusOf(p) = "active"
       THEN /\ desk' = [desk EXCEPT ![p].step = "handler"]
            /\ UNCHANGED store
       ELSE /\ Answer(p)
            /\ Insert(desk[p].sid, NoSession)
    /\ UNCHANGED <<member, accounts, overlapped>>

\* A handler that leaves the session alone (the row is touched, not
\* inserted), or an upgrade, which changes and thus stores it.
HandlePlain(p) ==
    /\ desk[p].step = "handler"
    /\ Answer(p)
    /\ UNCHANGED <<member, store, accounts, overlapped>>

HandleUpgrade(p) ==
    /\ desk[p].step = "handler"
    /\ Answer(p)
    /\ Insert(desk[p].sid, desk[p].session)
    /\ UNCHANGED <<member, accounts, overlapped>>

\* PUT /api/account with a new password; other sessions stay.
HandlePassword(p, pw) ==
    /\ desk[p].step = "handler" /\ pw # member.password
    /\ member' = [member EXCEPT !.password = pw, !.legacy = FALSE]
    /\ Answer(p)
    /\ UNCHANGED <<store, accounts, overlapped>>

Logout(s) ==
    /\ store[s] # NoSession
    /\ Insert(s, NoSession)
    /\ UNCHANGED <<member, accounts, desk, overlapped>>

\* The rows of the member's sessions, if the statement works: its failure
\* is ignored, and the table may be named otherwise (SESSION_TABLE).
SessionsDeleted(works) ==
    store' = [s \in Sids |-> IF works /\ store[s].uid = "member" THEN NoSession ELSE store[s]]

\* POST /api/auth/reset-password with a valid link, one transaction.
ResetPassword(pw, works) ==
    /\ pw # member.password
    /\ member' = [member EXCEPT !.password = pw, !.legacy = FALSE]
    /\ SessionsDeleted(works)
    /\ UNCHANGED <<accounts, desk, overlapped>>

\* PUT /api/admin/accounts/:uid/status by any signed-in administrator.
SetStatus(status, works) ==
    /\ Admins # {} /\ member.status # status
    /\ member' = [member EXCEPT !.status = status]
    /\ SessionsDeleted(works /\ status # "active")
    /\ desk' = [p \in Procs |-> IF status = "active" /\ "barred" \in DOMAIN desk[p]
                                THEN [desk[p] EXCEPT !.barred = FALSE] ELSE desk[p]]
    /\ UNCHANGED <<accounts, overlapped>>

-----------------------------------------------------------------------------
(* The back office *)

\* POST /api/admin/auth/login: what the row says is kept in the session and
\* never looked up again.
AdminLogin(s) ==
    /\ Unused(s)
    /\ \E a \in accounts : Insert(s, [NoSession EXCEPT !.admin = a.id, !.role = a.role])
    /\ UNCHANGED <<member, accounts, desk, overlapped>>

\* A GET with X-View-As-Member: the copy's uid is overridden ...
ViewAs(p, s) ==
    /\ desk[p] = Idle /\ s \in Admins /\ store[s].role = "administrator"
    /\ desk' = [desk EXCEPT ![p] = [step |-> "viewing", sid |-> s,
                                    loaded |-> store[s],
                                    session |-> [store[s] EXCEPT !.uid = "member"]]]
    /\ UNCHANGED <<member, store, accounts, overlapped>>

\* ... and restored before the session is saved, which is thus unchanged.
Restored(session) == [session EXCEPT !.uid = None]

EndView(p) ==
    /\ desk[p].step = "viewing"
    /\ LET d == desk[p]
       IN  IF Restored(d.session) = d.loaded
           THEN UNCHANGED store
           ELSE Insert(d.sid, Restored(d.session))
    /\ Answer(p)
    /\ UNCHANGED <<member, accounts, overlapped>>

\* The variant that does not look at what GET_LOCK answered.
BugLockFree(p) == TRUE

\* GET_LOCK('nogatu_accesstab_write').
LockFree(p) == \A q \in Procs \ {p} : desk[q].step # "create"

\* POST /api/admin/access-accounts: under the lock the transaction looks for
\* the username and takes the next id ...
StartCreate(p, name, role) ==
    /\ desk[p] = Idle /\ LockFree(p)
    /\ \E s \in Admins : store[s].role = "administrator"
    /\ \A a \in accounts : a.name # name
    /\ LET next == IF accounts = {} THEN 1 ELSE Max({a.id : a \in accounts}) + 1
       IN /\ next <= MaxId
          /\ desk' = [desk EXCEPT ![p] = [step |-> "create",
                        account |-> [id |-> next, name |-> name, role |-> role]]]
    /\ UNCHANGED <<member, store, accounts, overlapped>>

\* ... inserts the row, commits and releases the lock.
EndCreate(p) ==
    /\ desk[p].step = "create"
    /\ accounts' = accounts \cup {desk[p].account}
    /\ Answer(p)
    /\ UNCHANGED <<member, store, overlapped>>

Full(as) == {a \in as : a.role = "administrator"}

\* countFullAccessExcept: a plain SELECT, which sees what is committed.
Remaining(id) == {a \in Full(accounts) : a.id # id}

Removing(p) == desk[p].step = "change" /\ desk[p].removes

\* PUT and DELETE of an account: its row is locked, and the last one with
\* full access is neither demoted nor deleted.  `to' is the role it gets, or
\* None when it is deleted, which nobody may do to their own.
StartChange(p, s, a, to) ==
    /\ desk[p] = Idle /\ s \in Admins /\ store[s].role = "administrator"
    /\ \A q \in Procs : desk[q].step = "change" => desk[q].account.id # a.id
    /\ to = None => store[s].admin # a.id
    /\ LET removes == a.role = "administrator" /\ to # "administrator"
       IN /\ removes => Remaining(a.id) # {}
          /\ desk' = [desk EXCEPT ![p] = [step |-> "change", account |-> a, to |-> to,
                                          removes |-> removes]]
          /\ overlapped' = (overlapped \/ (removes /\ \E q \in Procs : Removing(q)))
    /\ UNCHANGED <<member, store, accounts>>

EndChange(p) ==
    /\ desk[p].step = "change"
    /\ LET d == desk[p]
       IN  accounts' = (accounts \ {d.account}) \cup
                           (IF d.to = None THEN {} ELSE {[d.account EXCEPT !.role = d.to]})
    /\ Answer(p)
    /\ UNCHANGED <<member, store, overlapped>>

Next ==
    \/ \E p \in Procs :
          \/ \E pw \in Passwords : LoginRead(p, pw) \/ HandlePassword(p, pw)
          \/ LoginRehash(p) \/ CheckStatus(p) \/ HandlePlain(p) \/ HandleUpgrade(p)
          \/ \E s \in Sids : SignIn(p, s) \/ MemberRequest(p, s) \/ ViewAs(p, s)
          \/ EndView(p)
          \/ \E n \in Names, r \in Roles : StartCreate(p, n, r)
          \/ EndCreate(p)
          \/ \E s \in Sids, a \in accounts, to \in Roles \cup {None} : StartChange(p, s, a, to)
          \/ EndChange(p)
    \/ \E s \in Sids : Logout(s) \/ AdminLogin(s)
    \/ \E pw \in Passwords, works \in BOOLEAN : ResetPassword(pw, works)
    \/ \E st \in Statuses, works \in BOOLEAN : SetStatus(st, works)

Spec == Init /\ [][Next]_vars

-----------------------------------------------------------------------------
(* A session never does more than it may.  No handler runs for a member    *)
(* who has been suspended since before the request came: sessions that a   *)
(* login, an upgrade or a failed DELETE left behind the suspension are     *)
(* refused (middleware/auth.js:8).  And no stored session is a member's    *)
(* and an administrator's at once: a view-as override never outlives its   *)
(* request (middleware/auth.js:79).                                        *)
SessionsSound ==
    /\ \A p \in Procs : desk[p].step = "handler" => ~desk[p].barred
    /\ \A s \in Sids : store[s].uid = None \/ store[s].admin = 0

(* Concurrent creations never give two accounts the same username or id,   *)
(* and without two overlapping removals somebody keeps full access         *)
(* (routes/admin/accessAccounts.js:138, 235).                              *)
AccountsSound ==
    /\ \A a, b \in accounts : (a.id = b.id \/ a.name = b.name) => a = b
    /\ Full(accounts) = {} => overlapped

(* Somebody always keeps full access (routes/admin/accessAccounts.js:233). *)
FullAccessKept == Full(accounts) # {}

=============================================================================
