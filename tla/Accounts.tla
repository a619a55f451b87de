-------------------------------- MODULE Accounts --------------------------------
(***************************************************************************)
(* Accounts, sessions and the login guard: AuthSystem (auth_system.py) over *)
(* the tables cgc_auth.users, sessions and blocklist, login_guard.py over   *)
(* cgc_guard.login_attempts, and the routes of main.py that call them.      *)
(*                                                                         *)
(* A handler is one request in one instance.  Every query of AuthSystem and *)
(* of the guard is a transaction of its own, so a sign-in is a sequence of  *)
(* steps between which the other handlers run.  The password check (bcrypt) *)
(* comes after the account was read and decides on what was read.           *)
(* The deletion of an account is the one transaction of several statements: *)
(* READ COMMITTED, each statement sees what is committed when it begins,    *)
(* and a row that was deleted is locked until the COMMIT.                   *)
(***************************************************************************)
EXTENDS Integers, FiniteSets

CONSTANTS
    Emails, Ips, Passwords, Tokens,  \* Tokens bounds the sessions that exist at once
    Handlers,
    NoIp,            \* a request whose client address is unknown
    NoAccount, NoSession,
    Unguessable,     \* the password of an account made by a federated sign-in
    MaxFailures,     \* LOCKOUT_MAX_ATTEMPTS
    MaxEmails,       \* STUFFING_DISTINCT_EMAIL_THRESHOLD
    HardMode,        \* GUARD_HARD_MODE_STUFFING
    MaxProvisions,   \* bound: changes made in the database by hand
    MaxSignIns       \* bound: sign-ins begun

ASSUME AccountsAssumption ==
    /\ IsFiniteSet(Handlers) /\ IsFiniteSet(Emails) /\ Emails # {}
    /\ MaxFailures \in Nat \ {0} /\ MaxEmails \in Nat /\ MaxProvisions \in Nat /\ MaxSignIns \in Nat
    /\ HardMode \in BOOLEAN
    /\ NoIp \notin Ips /\ Unguessable \notin Passwords

VARIABLES
    users,     \* the account of each email
    sessions,  \* the session of each token
    blocked,   \* the addresses on the blocklist; nothing takes one off
    failed,    \* failed attempts of an address in the lockout window
    tried,     \* emails an address tried in the shorter stuffing window
    handler,   \* what each handler is doing
    lapsed,    \* addresses whose lockout query failed once: it then lets through
    provisions, signIns

vars == <<users, sessions, blocked, failed, tried, handler, lapsed, provisions, signIns>>

Roles == {"user", "admin"}
Account == [role : Roles, password : Passwords \cup {Unguessable}, active : BOOLEAN]

\* late is history: how the session was issued, see TooLate.
Session == [email : Emails, role : Roles, late : BOOLEAN]
ASSUME NoAccountAssumption == NoAccount \notin Account

Steps == {"idle", "lockout", "read", "failure", "stuffing", "block", "success",
          "find", "create", "reread", "update", "issue", "delete", "purge", "commit"}

\* locked and doomed are of a deletion not yet committed: it has deleted the
\* row of the account, and the sessions it has found.
Handling == [pc : Steps, email : Emails, ip : Ips \cup {NoIp},
             password : Passwords \cup {Unguessable}, role : Roles,
             locked : BOOLEAN, doomed : SUBSET Tokens]

\* Whoever the last request was from does not matter to the next.
Idle == [pc |-> "idle", email |-> CHOOSE e \in Emails : TRUE, ip |-> NoIp,
         password |-> Unguessable, role |-> "user", locked |-> FALSE, doomed |-> {}]

\* The row of e is deleted and the COMMIT not there yet: who would write it waits.
Locked(e) == \E p \in Handlers : handler[p].locked /\ handler[p].email = e

Goto(p, pc) == handler' = [handler EXCEPT ![p].pc = pc]
Answered(p) == handler' = [handler EXCEPT ![p] = Idle]

------------------------------------------------------------------------------
Init ==
    /\ users = [e \in Emails |-> NoAccount]
    /\ sessions = [t \in Tokens |-> NoSession]
    /\ blocked = {}
    /\ failed = [i \in Ips |-> 0]
    /\ tried = [i \in Ips |-> {}]
    /\ handler = [p \in Handlers |-> Idle]
    /\ lapsed = {}
    /\ provisions = 0
    /\ signIns = 0

\* Mutant: an upsert.
InsertedOrUpdated(e, password) ==
    users' = [users EXCEPT ![e] = [role |-> "user", password |-> password, active |-> TRUE]]

\* create_user: whether the email was free is found by the INSERT itself.
Inserted(e, password) ==
    /\ ~Locked(e)
    /\ users' = IF users[e] # NoAccount THEN users
                ELSE [users EXCEPT ![e] =
                         [role |-> "user", password |-> password, active |-> TRUE]]

\* POST /auth/signup answers "created" whether or not the email was free.
Signup(e, password) ==
    /\ Inserted(e, password)
    /\ UNCHANGED <<sessions, blocked, failed, tried, handler, lapsed, provisions, signIns>>

\* Roles above "user" and deactivation are set in the database, by no route.
Provision(e, role, active) ==
    /\ provisions < MaxProvisions
    /\ provisions' = provisions + 1
    /\ users[e] # NoAccount /\ ~Locked(e)
    /\ users' = [users EXCEPT ![e].role = role, ![e].active = active]
    /\ UNCHANGED <<sessions, blocked, failed, tried, handler, lapsed, signIns>>

(***************************************************************************)
(* POST /auth/signin                                                       *)
(***************************************************************************)

\* is_blocked comes first.  (No email is ever put on the blocklist.)
BeginLogin(p, e, password, ip) ==
    /\ handler[p].pc = "idle"
    /\ ip \notin blocked
    /\ signIns < MaxSignIns
    /\ signIns' = signIns + 1
    /\ handler' = [handler EXCEPT ![p] =
           [Idle EXCEPT !.pc = "lockout", !.email = e, !.ip = ip, !.password = password]]
    /\ UNCHANGED <<users, sessions, blocked, failed, tried, lapsed, provisions>>

\* Mutant: one failure more.
CheckLockoutLate(p) ==
    /\ handler[p].pc = "lockout"
    /\ IF handler[p].ip = NoIp THEN Goto(p, "read")
       ELSE IF failed[handler[p].ip] <= MaxFailures THEN Goto(p, "read") ELSE Answered(p)
    /\ UNCHANGED <<users, sessions, blocked, failed, tried, lapsed, provisions, signIns>>

\* check_login_lockout counts; a request without an address is not counted.
CheckLockout(p) ==
    /\ handler[p].pc = "lockout"
    /\ IF handler[p].ip = NoIp THEN Goto(p, "read")
       ELSE IF failed[handler[p].ip] < MaxFailures THEN Goto(p, "read") ELSE Answered(p)
    /\ UNCHANGED <<users, sessions, blocked, failed, tried, lapsed, provisions, signIns>>

\* The query failed: the attempt is let through.
LockoutLapses(p) ==
    /\ handler[p].pc = "lockout"
    /\ handler[p].ip # NoIp
    /\ lapsed' = lapsed \cup {handler[p].ip}
    /\ Goto(p, "read")
    /\ UNCHANGED <<users, sessions, blocked, failed, tried, provisions, signIns>>

MayEnter(row, password) == row # NoAccount /\ row.active /\ row.password = password

\* From here on only the role that was read matters.
ReadAccount(p) ==
    /\ handler[p].pc = "read"
    /\ LET row == users[handler[p].email]
       IN  IF MayEnter(row, handler[p].password)
           THEN handler' = [handler EXCEPT ![p].pc = "success", ![p].role = row.role,
                                           ![p].password = Unguessable]
           ELSE handler' = [handler EXCEPT ![p].pc = "failure", ![p].password = Unguessable]
    /\ UNCHANGED <<users, sessions, blocked, failed, tried, lapsed, provisions, signIns>>

\* record_login_attempt: an INSERT that fails is ignored.
RecordFailure(p) ==
    /\ handler[p].pc = "failure"
    /\ LET ip == handler[p].ip
       IN  IF ip = NoIp THEN UNCHANGED <<failed, tried>>
           ELSE \/ /\ failed' = [failed EXCEPT ![ip] = @ + 1]
                   /\ tried' = [tried EXCEPT ![ip] = @ \cup {handler[p].email}]
                \/ UNCHANGED <<failed, tried>>
    /\ Goto(p, "stuffing")
    /\ UNCHANGED <<users, sessions, blocked, lapsed, provisions, signIns>>

\* detect_credential_stuffing only flags, unless hard mode makes a block of it.
DetectStuffing(p) ==
    /\ handler[p].pc = "stuffing"
    /\ IF /\ handler[p].ip # NoIp
          /\ HardMode
          /\ Cardinality(tried[handler[p].ip]) >= MaxEmails
       THEN Goto(p, "block") \/ Answered(p)   \* the query may have failed
       ELSE Answered(p)
    /\ UNCHANGED <<users, sessions, blocked, failed, tried, lapsed, provisions, signIns>>

BlockAddress(p) ==
    /\ handler[p].pc = "block"
    /\ blocked' = blocked \cup {handler[p].ip}
    /\ Answered(p)
    /\ UNCHANGED <<users, sessions, failed, tried, lapsed, provisions, signIns>>

\* A success counts for the emails tried, not for the lockout.
RecordSuccess(p) ==
    /\ handler[p].pc = "success"
    /\ LET ip == handler[p].ip
       IN  IF ip = NoIp THEN UNCHANGED tried
           ELSE \/ tried' = [tried EXCEPT ![ip] = @ \cup {handler[p].email}]
                \/ UNCHANGED tried
    /\ Goto(p, "update")
    /\ UNCHANGED <<users, sessions, blocked, failed, lapsed, provisions, signIns>>

\* _update_user counts the sign-in (not modelled), in the row if it is still there.
UpdateUser(p) ==
    /\ handler[p].pc = "update"
    /\ ~Locked(handler[p].email)
    /\ Goto(p, "issue")
    /\ UNCHANGED <<users, sessions, blocked, failed, tried, lapsed, provisions, signIns>>

\* The account of e is gone, or the transaction deleting it has looked for its
\* sessions already.
TooLate(e) ==
    \/ users[e] = NoAccount
    \/ \E q \in Handlers : /\ handler[q].locked /\ handler[q].email = e
                           /\ handler[q].pc = "commit"

\* The session has the role that was read, and no one asks whether the account
\* is still there.  (A token that was deleted is not given out again.)
IssueSession(p, t) ==
    /\ handler[p].pc = "issue"
    /\ sessions[t] = NoSession
    /\ \A q \in Handlers : t \notin handler[q].doomed
    /\ sessions' = [sessions EXCEPT ![t] =
           [email |-> handler[p].email, role |-> handler[p].role,
            late |-> TooLate(handler[p].email)]]
    /\ Answered(p)
    /\ UNCHANGED <<users, blocked, failed, tried, lapsed, provisions, signIns>>

(***************************************************************************)
(* login_federated: the identity provider has vouched for the email        *)
(***************************************************************************)
FederatedPending(e, ip) ==
    [Idle EXCEPT !.pc = "find", !.email = e, !.ip = ip]

\* The callback of Google: state, code exchange and ID token were in order.
BeginGoogle(p, e, ip) ==
    /\ handler[p].pc = "idle"
    /\ ip \notin blocked
    /\ signIns < MaxSignIns
    /\ signIns' = signIns + 1
    /\ handler' = [handler EXCEPT ![p] = FederatedPending(e, ip)]
    /\ UNCHANGED <<users, sessions, blocked, failed, tried, lapsed, provisions>>

FindAccount(p) ==
    /\ handler[p].pc = "find"
    /\ LET row == users[handler[p].email]
       IN  IF row = NoAccount THEN Goto(p, "create")
           ELSE IF row.active
           THEN handler' = [handler EXCEPT ![p].role = row.role, ![p].pc = "update"]
           ELSE Answered(p)
    /\ UNCHANGED <<users, sessions, blocked, failed, tried, lapsed, provisions, signIns>>

\* Another sign-in or a sign-up may have made the account meanwhile: "User already exists".
CreateAccount(p) ==
    /\ handler[p].pc = "create"
    /\ Inserted(handler[p].email, Unguessable)
    /\ IF users[handler[p].email] = NoAccount THEN Goto(p, "reread") ELSE Answered(p)
    /\ UNCHANGED <<sessions, blocked, failed, tried, lapsed, provisions, signIns>>

\* The new account is not asked whether it is active; one that is gone again raises.
RereadAccount(p) ==
    /\ handler[p].pc = "reread"
    /\ LET row == users[handler[p].email]
       IN  IF row = NoAccount THEN Answered(p)
           ELSE handler' = [handler EXCEPT ![p].role = row.role, ![p].pc = "update"]
    /\ UNCHANGED <<users, sessions, blocked, failed, tried, lapsed, provisions, signIns>>

(***************************************************************************)
(* DELETE /admin/users/{email}, tokens, time                               *)
(***************************************************************************)

\* verify_token answers with what the session holds; an administrator may not
\* delete the own account.
AuthorizeDeletion(p, t, e) ==
    /\ handler[p].pc = "idle"
    /\ sessions[t] # NoSession
    /\ sessions[t].role = "admin" /\ sessions[t].email # e
    /\ handler' = [handler EXCEPT ![p].pc = "delete", ![p].email = e]
    /\ UNCHANGED <<users, sessions, blocked, failed, tried, lapsed, provisions, signIns>>

\* _delete_user: the account, whether there is one or not.
DeleteUserRow(p) ==
    /\ handler[p].pc = "delete"
    /\ ~Locked(handler[p].email)
    /\ handler' = [handler EXCEPT ![p].pc = "purge",
                                  ![p].locked = (users[handler[p].email] # NoAccount)]
    /\ UNCHANGED <<users, sessions, blocked, failed, tried, lapsed, provisions, signIns>>

SessionsOf(e) == {t \in Tokens : sessions[t] # NoSession /\ sessions[t].email = e}

\* Mutant: the account goes and its sessions are left to expire.
PurgeNothing(p) ==
    /\ handler[p].pc = "purge"
    /\ Goto(p, "commit")
    /\ UNCHANGED <<users, sessions, blocked, failed, tried, lapsed, provisions, signIns>>

\* The sessions, those there are when this statement begins.  (Nobody needs to
\* wait for the row of a session: whoever deletes it first, it is gone.)
PurgeSessions(p) ==
    /\ handler[p].pc = "purge"
    /\ handler' = [handler EXCEPT ![p].pc = "commit", ![p].doomed = SessionsOf(handler[p].email)]
    /\ UNCHANGED <<users, sessions, blocked, failed, tried, lapsed, provisions, signIns>>

CommitDeletion(p) ==
    /\ handler[p].pc = "commit"
    /\ users' = IF handler[p].locked THEN [users EXCEPT ![handler[p].email] = NoAccount] ELSE users
    /\ sessions' = [t \in Tokens |-> IF t \in handler[p].doomed THEN NoSession ELSE sessions[t]]
    /\ Answered(p)
    /\ UNCHANGED <<blocked, failed, tried, lapsed, provisions, signIns>>

\* Thirty days have passed, and verify_token takes the session out when it is shown.
\* (Until then the row is there and opens nothing.)
Expire(t) ==
    /\ sessions[t] # NoSession
    /\ sessions' = [sessions EXCEPT ![t] = NoSession]
    /\ UNCHANGED <<users, blocked, failed, tried, handler, lapsed, provisions, signIns>>

\* A failed attempt leaves the lockout window, an email the stuffing window.
LeaveWindow(ip) ==
    /\ \/ /\ failed[ip] > 0
          /\ failed' = [failed EXCEPT ![ip] = @ - 1]
          /\ UNCHANGED tried
       \/ \E e \in tried[ip] :
             /\ tried' = [tried EXCEPT ![ip] = @ \ {e}]
             /\ UNCHANGED failed
    /\ UNCHANGED <<users, sessions, blocked, handler, lapsed, provisions, signIns>>

\* A query that raises ends the request with an error wherever it stands, and
\* a transaction of several statements is rolled back.
Raise(p) ==
    /\ handler[p].pc \in {"read", "update", "issue", "find", "create", "reread",
                          "delete", "purge", "commit", "block"}
    /\ Answered(p)
    /\ UNCHANGED <<users, sessions, blocked, failed, tried, lapsed, provisions, signIns>>

SignIn(p) ==
    \/ \E e \in Emails, pw \in Passwords, ip \in Ips \cup {NoIp} : BeginLogin(p, e, pw, ip)
    \/ CheckLockout(p) \/ LockoutLapses(p) \/ ReadAccount(p)
    \/ RecordFailure(p) \/ DetectStuffing(p) \/ BlockAddress(p) \/ RecordSuccess(p)
    \/ UpdateUser(p)
    \/ \E t \in Tokens : IssueSession(p, t)

FederatedSignIn(p) ==
    \/ \E e \in Emails, ip \in Ips \cup {NoIp} : BeginGoogle(p, e, ip)
    \/ FindAccount(p) \/ CreateAccount(p) \/ RereadAccount(p)

Administer(p) ==
    \/ \E t \in Tokens, e \in Emails : AuthorizeDeletion(p, t, e)
    \/ DeleteUserRow(p) \/ PurgeSessions(p) \/ CommitDeletion(p)

Next ==
    \/ \E e \in Emails, pw \in Passwords : Signup(e, pw)
    \/ \E e \in Emails, r \in Roles, a \in BOOLEAN : Provision(e, r, a)
    \/ \E p \in Handlers : SignIn(p) \/ FederatedSignIn(p) \/ Administer(p) \/ Raise(p)
    \/ \E t \in Tokens : Expire(t)
    \/ \E ip \in Ips : LeaveWindow(ip)

Spec == Init /\ [][Next]_vars
------------------------------------------------------------------------------
(***************************************************************************)
(* Properties                                                              *)
(***************************************************************************)
TypeOK ==
    /\ users \in [Emails -> Account \cup {NoAccount}]
    /\ sessions \in [Tokens -> Session \cup {NoSession}]
    /\ blocked \subseteq Ips
    /\ failed \in [Ips -> Nat]
    /\ tried \in [Ips -> SUBSET Emails]
    /\ handler \in [Handlers -> Handling]
    /\ lapsed \subseteq Ips
    /\ provisions \in 0 .. MaxProvisions
    /\ signIns \in 0 .. MaxSignIns

\* Attempts of an address past the lockout check whose failure is not yet recorded.
Guessing(ip) == {p \in Handlers : handler[p].ip = ip /\ handler[p].pc \in {"read", "failure"}}

\* The count is read in one transaction and the failure inserted in another, so
\* guesses made at once all pass; but no more of them than there are handlers:
\* the lockout is late by less than one round of concurrent requests.
GuessBound ==
    \A ip \in Ips \ lapsed :
        failed[ip] + Cardinality(Guessing(ip)) < MaxFailures + Cardinality(Handlers)

\* Sign-up and the first federated sign-in of one email race to create its account,
\* each on what it read: an account that is there keeps its password.
AccountsAreNotTakenOver ==
    [][\A e \in Emails : users[e] # NoAccount /\ users'[e] # NoAccount
           => users'[e].password = users[e].password]_vars

\* Sessions whose account does not exist.
Orphans == {t \in Tokens : sessions[t] # NoSession /\ users[sessions[t].email] = NoAccount}

\* "Permanently delete a user account and revoke every session it holds": every
\* session there is when the deletion looks for them.  One without an account was
\* issued to a sign-in that had read the account before, and it was issued after
\* the account was gone or in the window between that look and the COMMIT.
OnlyLateSessionsAreOrphans == \A t \in Orphans : sessions[t].late
==============================================================================
