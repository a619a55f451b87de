---------------------------- MODULE IdentityProofs ----------------------------
(***************************************************************************)
(* Who may act: accounts (Accounts), the customers' identity providers      *)
(* (SamlConnections) and the applications' keys and bills (Tenancy).  The   *)
(* lockout is late by less than one round of handlers, a session without an *)
(* account was issued too late for its deletion, no creation replaces a     *)
(* password, and what a customer makes live works, for any number of        *)
(* accounts, domains, keys and requests.                                    *)
(***************************************************************************)
EXTENDS Accounts, SamlConnections, Tenancy, FiniteSetTheorems, TLAPS

USE AccountsAssumption, NoAccountAssumption, NoConnectionAssumption, TenancyAssumption, NullsAssumption

-------------------------------------------------------------------------------
\* Handler p has gone on to h, the others are where they were.
Became(p, h) == handler'[p] = h /\ \A q \in Handlers \ {p} : handler'[q] = handler[q]

HandlersOK == handler \in [Handlers -> Handling]

LEMMA IdleType == Idle \in Handling
<1>1. (CHOOSE e \in Emails : TRUE) \in Emails
  OBVIOUS
<1> QED
  BY <1>1 DEF Idle, Handling, Steps, Roles

\* What happens to a handler when it is given something else to do.
LEMMA Given ==
    ASSUME HandlersOK, NEW p \in Handlers, NEW h \in Handling,
           handler' = [handler EXCEPT ![p] = h]
    PROVE  HandlersOK' /\ Became(p, h)
  BY DEF HandlersOK, Became

LEMMA Gone ==
    ASSUME HandlersOK, NEW p \in Handlers, Answered(p)
    PROVE  HandlersOK' /\ Became(p, Idle)
  BY IdleType, Given DEF Answered

\* The record of a handler that only moves on, with what it read.
LEMMA Moved ==
    ASSUME HandlersOK, NEW p \in Handlers, NEW pc \in Steps
    PROVE  /\ handler[p] \in Handling
           /\ [handler[p] EXCEPT !.pc = pc] \in Handling
           /\ [handler[p] EXCEPT !.pc = pc].pc = pc
           /\ [handler[p] EXCEPT !.pc = pc].ip = handler[p].ip
  BY DEF HandlersOK, Handling

LEMMA GoneTo ==
    ASSUME HandlersOK, NEW p \in Handlers, NEW pc \in Steps, Goto(p, pc)
    PROVE  /\ HandlersOK'
           /\ handler'[p].pc = pc /\ handler'[p].ip = handler[p].ip
           /\ \A q \in Handlers \ {p} : handler'[q] = handler[q]
<1>1. handler' = [handler EXCEPT ![p] = [handler[p] EXCEPT !.pc = pc]]
  BY DEF Goto, HandlersOK
<1>2. HandlersOK' /\ Became(p, [handler[p] EXCEPT !.pc = pc])
  BY <1>1, Moved, Given
<1> QED
  BY <1>2, Moved DEF Became

-------------------------------------------------------------------------------
\* What the properties need of TypeOK.
Typed ==
    /\ users \in [Emails -> Account \cup {NoAccount}]
    /\ sessions \in [Tokens -> Session \cup {NoSession}]
    /\ failed \in [Ips -> Nat]
    /\ HandlersOK

LEMMA InitTyped == Init => Typed
  BY IdleType DEF Init, Typed, HandlersOK

\* The accounts after a sign-up, by whatever route.
LEMMA InsertedType ==
    ASSUME Typed, NEW e \in Emails, NEW pw \in Passwords \cup {Unguessable}, Inserted(e, pw)
    PROVE  /\ users' \in [Emails -> Account \cup {NoAccount}]
           /\ \A f \in Emails : users[f] # NoAccount => users'[f] = users[f]
<1>1. [role |-> "user", password |-> pw, active |-> TRUE] \in Account
  BY DEF Account, Roles
<1>2. CASE users[e] # NoAccount
  BY <1>2 DEF Inserted, Typed
<1>3. CASE users[e] = NoAccount
  BY <1>1, <1>3 DEF Inserted, Typed
<1> QED
  BY <1>2, <1>3

LEMMA ProvisionType ==
    ASSUME Typed, NEW e \in Emails, NEW r \in Roles, NEW a \in BOOLEAN, Provision(e, r, a)
    PROVE  /\ users' \in [Emails -> Account \cup {NoAccount}]
           /\ \A f \in Emails : users[f] # NoAccount
                 => users'[f] # NoAccount /\ users'[f].password = users[f].password
<1>1. users[e] \in Account
  BY DEF Provision, Typed
<1>2. users' = [users EXCEPT ![e] = [users[e] EXCEPT !.role = r, !.active = a]]
  BY DEF Provision, Typed
<1>3. [users[e] EXCEPT !.role = r, !.active = a] \in Account
  BY <1>1 DEF Account
<1>4. [users[e] EXCEPT !.role = r, !.active = a].password = users[e].password
  BY <1>1 DEF Account
<1> QED
  BY <1>2, <1>3, <1>4 DEF Typed

\* What the COMMIT of a deletion does to accounts and sessions.
LEMMA CommitType ==
    ASSUME Typed, NEW p \in Handlers, CommitDeletion(p)
    PROVE  /\ users' \in [Emails -> Account \cup {NoAccount}]
           /\ sessions' \in [Tokens -> Session \cup {NoSession}]
           /\ \A f \in Emails : users'[f] # users[f] =>
                 handler[p].locked /\ handler[p].email = f /\ users'[f] = NoAccount
           /\ \A t \in Tokens : sessions'[t] # NoSession =>
                 sessions'[t] = sessions[t] /\ t \notin handler[p].doomed
<1>1. users' = IF handler[p].locked THEN [users EXCEPT ![handler[p].email] = NoAccount] ELSE users
  BY DEF CommitDeletion
<1>2. sessions' = [t \in Tokens |-> IF t \in handler[p].doomed THEN NoSession ELSE sessions[t]]
  BY DEF CommitDeletion
<1>3. handler[p].email \in Emails
  BY DEF Typed, HandlersOK, Handling
<1>4. CASE handler[p].locked
  <2>1. users' = [users EXCEPT ![handler[p].email] = NoAccount]
    BY <1>1, <1>4
  <2> QED
    BY <1>2, <1>3, <1>4, <2>1 DEF Typed
<1>5. CASE ~handler[p].locked
  <2>1. users' = users
    BY <1>1, <1>5
  <2> QED
    BY <1>2, <2>1 DEF Typed
<1> QED
  BY <1>4, <1>5

\* A handler whose deletion goes on.
LEMMA DeletionGoesOn ==
    ASSUME HandlersOK, NEW p \in Handlers, NEW h,
           \/ \E l \in BOOLEAN : h = [handler[p] EXCEPT !.pc = "purge", !.locked = l]
           \/ \E d \in SUBSET Tokens : h = [handler[p] EXCEPT !.pc = "commit", !.doomed = d]
    PROVE  h \in Handling /\ h.pc \in {"purge", "commit"}
<1>1. handler[p] \in Handling
  BY DEF HandlersOK
<1>2. ASSUME NEW l \in BOOLEAN, h = [handler[p] EXCEPT !.pc = "purge", !.locked = l]
      PROVE  h \in Handling /\ h.pc = "purge"
  BY <1>1, <1>2 DEF Handling, Steps
<1>3. ASSUME NEW d \in SUBSET Tokens, h = [handler[p] EXCEPT !.pc = "commit", !.doomed = d]
      PROVE  h \in Handling /\ h.pc = "commit"
  BY <1>1, <1>3 DEF Handling, Steps
<1> QED
  BY <1>2, <1>3

LEMMA RowDeleted ==
    ASSUME HandlersOK, NEW p \in Handlers, DeleteUserRow(p)
    PROVE  \E l \in BOOLEAN :
              handler' = [handler EXCEPT ![p] = [handler[p] EXCEPT !.pc = "purge", !.locked = l]]
<1> DEFINE l == users[handler[p].email] # NoAccount
<1>1. handler' = [handler EXCEPT ![p].pc = "purge", ![p].locked = l] /\ l \in BOOLEAN
  BY DEF DeleteUserRow
<1> HIDE DEF l
<1> QED
  BY <1>1 DEF HandlersOK

LEMMA SessionsFound ==
    ASSUME HandlersOK, NEW p \in Handlers, PurgeSessions(p)
    PROVE  /\ SessionsOf(handler[p].email) \in SUBSET Tokens
           /\ handler' = [handler EXCEPT ![p] =
                 [handler[p] EXCEPT !.pc = "commit", !.doomed = SessionsOf(handler[p].email)]]
<1>1. SessionsOf(handler[p].email) \in SUBSET Tokens
  BY DEF SessionsOf
<1>2. handler' = [handler EXCEPT ![p].pc = "commit", ![p].doomed = SessionsOf(handler[p].email)]
  BY DEF PurgeSessions
<1> QED
  BY <1>1, <1>2 DEF HandlersOK

LEMMA IssuedType ==
    ASSUME Typed, NEW p \in Handlers, NEW t \in Tokens, IssueSession(p, t)
    PROVE  /\ sessions' \in [Tokens -> Session \cup {NoSession}]
           /\ sessions'[t].email = handler[p].email
           /\ sessions'[t].late = TooLate(handler[p].email)
           /\ \A u \in Tokens \ {t} : sessions'[u] = sessions[u]
<1> DEFINE l == TooLate(handler[p].email)
           s == [email |-> handler[p].email, role |-> handler[p].role, late |-> l]
<1>1. handler[p].email \in Emails /\ handler[p].role \in Roles
  BY DEF Typed, HandlersOK, Handling
<1>2. l \in BOOLEAN
  BY DEF TooLate
<1>3. sessions' = [sessions EXCEPT ![t] = s]
  BY DEF IssueSession
<1> HIDE DEF l
<1>4. s \in Session /\ s.email = handler[p].email /\ s.late = l
  BY <1>1, <1>2 DEF Session
<1> HIDE DEF s
<1>5. sessions' \in [Tokens -> Session \cup {NoSession}] /\ sessions'[t] = s
      /\ \A u \in Tokens \ {t} : sessions'[u] = sessions[u]
  BY <1>3, <1>4 DEF Typed
<1> QED
  BY <1>4, <1>5 DEF l

\* The account a handler read, and the handler that goes on with its role.
LEMMA ReadRole ==
    ASSUME Typed, NEW p \in Handlers, users[handler[p].email] # NoAccount
    PROVE  users[handler[p].email].role \in Roles
<1>1. handler[p].email \in Emails
  BY DEF Typed, HandlersOK, Handling
<1>2. users[handler[p].email] \in Account
  BY <1>1 DEF Typed
<1> QED
  BY <1>2 DEF Account

-------------------------------------------------------------------------------
\* A step that lets no guess past the count.
Calm(ip) == failed'[ip] <= failed[ip] /\ Guessing(ip)' \subseteq Guessing(ip)

\* One guess is over and counted.
Counts(ip) ==
    /\ failed'[ip] <= failed[ip] + 1
    /\ \E p \in Guessing(ip) : Guessing(ip)' \subseteq Guessing(ip) \ {p}

\* One was let past a count below the limit.
Admits(ip) == failed'[ip] < MaxFailures

GuessStep == \A ip \in Ips \ lapsed' : Calm(ip) \/ Counts(ip) \/ Admits(ip)

IsGuess(h) == h.pc \in {"read", "failure"}

\* A handler that begins no guess.
LEMMA Quiet ==
    ASSUME Typed, NEW p \in Handlers, UNCHANGED failed,
           IsGuess(handler'[p]) => IsGuess(handler[p]) /\ handler'[p].ip = handler[p].ip,
           \A q \in Handlers \ {p} : handler'[q] = handler[q]
    PROVE  GuessStep
<1>1. \A ip \in Ips : failed'[ip] <= failed[ip]
  BY DEF Typed
<1>2. \A ip : Guessing(ip)' \subseteq Guessing(ip)
  BY DEF Guessing, IsGuess
<1> QED
  BY <1>1, <1>2 DEF GuessStep, Calm

LEMMA Undisturbed ==
    ASSUME Typed, UNCHANGED <<handler, failed>>
    PROVE  GuessStep
<1>1. \A ip \in Ips : failed'[ip] <= failed[ip]
  BY DEF Typed
<1>2. \A ip : Guessing(ip)' = Guessing(ip)
  BY DEF Guessing
<1> QED
  BY <1>1, <1>2 DEF GuessStep, Calm

LEMMA IdleIsNoGuess == ~IsGuess(Idle)
  BY DEF IsGuess, Idle

\* Answering a request begins no guess.
LEMMA QuietAnswer ==
    ASSUME Typed, NEW p \in Handlers, Answered(p), UNCHANGED failed
    PROVE  HandlersOK' /\ GuessStep
<1>1. HandlersOK' /\ Became(p, Idle)
  BY Gone DEF Typed
<1> QED
  BY <1>1, Quiet, IdleIsNoGuess DEF Became

\* Nor does going on to anything else, or from one part of a guess to the next.
LEMMA QuietGoto ==
    ASSUME Typed, NEW p \in Handlers, NEW pc \in Steps, Goto(p, pc), UNCHANGED failed,
           pc \in {"read", "failure"} => IsGuess(handler[p])
    PROVE  HandlersOK' /\ GuessStep
<1>1. HandlersOK' /\ handler'[p].pc = pc /\ handler'[p].ip = handler[p].ip
      /\ \A q \in Handlers \ {p} : handler'[q] = handler[q]
  BY GoneTo DEF Typed
<1>2. IsGuess(handler'[p]) => IsGuess(handler[p])
  BY <1>1 DEF IsGuess
<1> QED
  BY <1>1, <1>2, Quiet

\* Nor does taking up something else.
LEMMA QuietGiven ==
    ASSUME Typed, NEW p \in Handlers, NEW h \in Handling, UNCHANGED failed,
           handler' = [handler EXCEPT ![p] = h],
           IsGuess(h) => IsGuess(handler[p]) /\ h.ip = handler[p].ip
    PROVE  HandlersOK' /\ GuessStep
<1>1. HandlersOK' /\ Became(p, h)
  BY Given DEF Typed
<1> QED
  BY <1>1, Quiet DEF Became

-------------------------------------------------------------------------------
\* Each step of a password sign-in keeps the types and the count of guesses.
LEMMA SignInStep ==
    ASSUME Typed, NEW p \in Handlers, SignIn(p)
    PROVE  Typed' /\ GuessStep
<1>h. handler[p] \in Handling
  BY DEF Typed, HandlersOK
<1>1. ASSUME NEW e \in Emails, NEW pw \in Passwords, NEW ip \in Ips \cup {NoIp}, BeginLogin(p, e, pw, ip)
      PROVE  Typed' /\ GuessStep
  <2> DEFINE h == [Idle EXCEPT !.pc = "lockout", !.email = e, !.ip = ip, !.password = pw]
  <2>1. h \in Handling /\ ~IsGuess(h)
    BY IdleType DEF Handling, Steps, IsGuess
  <2>2. handler' = [handler EXCEPT ![p] = h] /\ UNCHANGED <<users, sessions, failed>>
    BY <1>1 DEF BeginLogin
  <2> HIDE DEF h
  <2> QED
    BY <2>1, <2>2, QuietGiven DEF Typed
<1>2. CASE CheckLockout(p)
  <2>u. UNCHANGED <<users, sessions, failed>>
    BY <1>2 DEF CheckLockout
  <2>1. CASE handler[p].ip = NoIp
    <3>1. Goto(p, "read")
      BY <1>2, <2>1 DEF CheckLockout
    <3>2. HandlersOK' /\ handler'[p].ip = NoIp /\ \A q \in Handlers \ {p} : handler'[q] = handler[q]
      BY <2>1, <3>1, GoneTo DEF Typed, Steps
    <3>3. \A ip \in Ips : Guessing(ip)' \subseteq Guessing(ip) /\ failed'[ip] <= failed[ip]
      BY <2>u, <3>2 DEF Guessing, Typed
    <3> QED
      BY <2>u, <3>2, <3>3 DEF Typed, GuessStep, Calm
  <2>2. CASE handler[p].ip # NoIp /\ failed[handler[p].ip] < MaxFailures
    <3>1. Goto(p, "read")
      BY <1>2, <2>2 DEF CheckLockout
    <3>2. HandlersOK' /\ handler'[p].ip = handler[p].ip
          /\ \A q \in Handlers \ {p} : handler'[q] = handler[q]
      BY <3>1, GoneTo DEF Typed, Steps
    <3>3. \A ip \in Ips \ {handler[p].ip} : Guessing(ip)' \subseteq Guessing(ip) /\ failed'[ip] <= failed[ip]
      BY <2>u, <3>2 DEF Guessing, Typed
    <3>4. handler[p].ip \in Ips => Admits(handler[p].ip)
      BY <2>u, <2>2 DEF Admits
    <3> QED
      BY <2>u, <3>2, <3>3, <3>4 DEF Typed, GuessStep, Calm
  <2>3. CASE handler[p].ip # NoIp /\ ~(failed[handler[p].ip] < MaxFailures)
    <3>1. Answered(p)
      BY <1>2, <2>3 DEF CheckLockout
    <3> QED
      BY <2>u, <3>1, QuietAnswer DEF Typed
  <2> QED
    BY <2>1, <2>2, <2>3
<1>3. CASE LockoutLapses(p)
  <2>1. UNCHANGED <<users, sessions, failed>> /\ lapsed' = lapsed \cup {handler[p].ip} /\ Goto(p, "read")
    BY <1>3 DEF LockoutLapses
  <2>2. HandlersOK' /\ handler'[p].ip = handler[p].ip
        /\ \A q \in Handlers \ {p} : handler'[q] = handler[q]
    BY <2>1, GoneTo DEF Typed, Steps
  <2>3. \A ip \in Ips \ lapsed' : Guessing(ip)' \subseteq Guessing(ip) /\ failed'[ip] <= failed[ip]
    BY <2>1, <2>2 DEF Guessing, Typed
  <2> QED
    BY <2>1, <2>2, <2>3 DEF Typed, GuessStep, Calm
<1>4. CASE ReadAccount(p)
  <2>u. UNCHANGED <<users, sessions, failed>> /\ IsGuess(handler[p])
    BY <1>4 DEF ReadAccount, IsGuess
  <2>1. CASE MayEnter(users[handler[p].email], handler[p].password)
    <3> DEFINE h == [handler[p] EXCEPT !.pc = "success", !.role = users[handler[p].email].role,
                                       !.password = Unguessable]
    <3>1. handler' = [handler EXCEPT ![p] = h]
      BY <1>4, <2>1 DEF ReadAccount, Typed, HandlersOK
    <3>2. users[handler[p].email].role \in Roles
      BY <2>1, ReadRole DEF MayEnter
    <3>3. h \in Handling /\ h.ip = handler[p].ip
      BY <1>h, <3>2 DEF Handling, Steps
    <3> HIDE DEF h
    <3> QED
      BY <2>u, <3>1, <3>3, QuietGiven DEF Typed
  <2>2. CASE ~MayEnter(users[handler[p].email], handler[p].password)
    <3> DEFINE h == [handler[p] EXCEPT !.pc = "failure", !.password = Unguessable]
    <3>1. handler' = [handler EXCEPT ![p] = h]
      BY <1>4, <2>2 DEF ReadAccount, Typed, HandlersOK
    <3>2. h \in Handling /\ h.ip = handler[p].ip
      BY <1>h DEF Handling, Steps
    <3> HIDE DEF h
    <3> QED
      BY <2>u, <3>1, <3>2, QuietGiven DEF Typed
  <2> QED
    BY <2>1, <2>2
<1>5. CASE RecordFailure(p)
  <2>1. UNCHANGED <<users, sessions>> /\ Goto(p, "stuffing") /\ handler[p].pc = "failure"
    BY <1>5 DEF RecordFailure
  <2>2. HandlersOK' /\ handler'[p].pc = "stuffing" /\ handler'[p].ip = handler[p].ip
        /\ \A q \in Handlers \ {p} : handler'[q] = handler[q]
    BY <2>1, GoneTo DEF Typed, Steps
  <2>3. \A ip : Guessing(ip)' \subseteq Guessing(ip) \ {p}
    BY <2>2 DEF Guessing
  <2>4. CASE UNCHANGED failed
    BY <2>1, <2>2, <2>3, <2>4 DEF Typed, GuessStep, Calm
  <2>5. CASE handler[p].ip # NoIp /\ failed' = [failed EXCEPT ![handler[p].ip] = @ + 1]
    <3>1. handler[p].ip \in Ips /\ p \in Guessing(handler[p].ip)
      BY <1>h, <2>1, <2>5 DEF Handling, Guessing
    <3>2. failed' \in [Ips -> Nat] /\ failed'[handler[p].ip] = failed[handler[p].ip] + 1
          /\ \A ip \in Ips \ {handler[p].ip} : failed'[ip] = failed[ip]
      BY <2>5, <3>1 DEF Typed
    <3>3. \A ip \in Ips : failed'[ip] \in Nat /\ failed'[ip] <= failed[ip] + 1
      BY <3>2 DEF Typed
    <3>4. \A ip \in Ips : ip = handler[p].ip => Counts(ip)
      BY <2>3, <3>1, <3>3 DEF Counts
    <3>5. \A ip \in Ips \ {handler[p].ip} : Calm(ip)
      BY <2>3, <3>2 DEF Calm, Typed
    <3> QED
      BY <2>1, <2>2, <3>2, <3>4, <3>5 DEF Typed, GuessStep
  <2> QED
    BY <1>5, <2>4, <2>5 DEF RecordFailure
<1>6. CASE DetectStuffing(p)
  <2>1. UNCHANGED <<users, sessions, failed>> /\ (Goto(p, "block") \/ Answered(p))
    BY <1>6 DEF DetectStuffing
  <2>2. "block" \in Steps /\ "block" \notin {"read", "failure"}
    BY DEF Steps
  <2> QED
    BY <2>1, <2>2, QuietGoto, QuietAnswer DEF Typed
<1>7. CASE BlockAddress(p)
  BY <1>7, QuietAnswer DEF BlockAddress, Typed
<1>8. CASE RecordSuccess(p)
  <2>1. UNCHANGED <<users, sessions, failed>> /\ Goto(p, "update")
    BY <1>8 DEF RecordSuccess
  <2>2. "update" \in Steps /\ "update" \notin {"read", "failure"}
    BY DEF Steps
  <2> QED
    BY <2>1, <2>2, QuietGoto DEF Typed
<1>9. ASSUME NEW t \in Tokens, IssueSession(p, t) PROVE Typed' /\ GuessStep
  <2>1. sessions' \in [Tokens -> Session \cup {NoSession}]
    BY <1>9, IssuedType
  <2> QED
    BY <1>9, <2>1, QuietAnswer DEF IssueSession, Typed
<1>10. CASE UpdateUser(p)
  <2>1. UNCHANGED <<users, sessions, failed>> /\ Goto(p, "issue")
    BY <1>10 DEF UpdateUser
  <2>2. "issue" \in Steps /\ "issue" \notin {"read", "failure"}
    BY DEF Steps
  <2> QED
    BY <2>1, <2>2, QuietGoto DEF Typed
<1> QED
  BY <1>1, <1>2, <1>3, <1>4, <1>5, <1>6, <1>7, <1>8, <1>9, <1>10 DEF SignIn

\* The same of a federated sign-in.
LEMMA FederatedStep ==
    ASSUME Typed, NEW p \in Handlers, FederatedSignIn(p)
    PROVE  Typed' /\ GuessStep
<1>h. handler[p] \in Handling
  BY DEF Typed, HandlersOK
<1>s. /\ {"update", "create", "reread"} \subseteq Steps
      /\ "update" \notin {"read", "failure"} /\ "create" \notin {"read", "failure"}
      /\ "reread" \notin {"read", "failure"}
  BY DEF Steps
<1>1. ASSUME NEW e \in Emails, NEW ip \in Ips \cup {NoIp}, BeginGoogle(p, e, ip)
      PROVE  Typed' /\ GuessStep
  <2>1. FederatedPending(e, ip) \in Handling /\ ~IsGuess(FederatedPending(e, ip))
    BY IdleType DEF FederatedPending, Handling, Steps, IsGuess
  <2> QED
    BY <1>1, <2>1, QuietGiven DEF BeginGoogle, Typed
<1>2. ASSUME users[handler[p].email] # NoAccount, UNCHANGED <<users, sessions, failed>>,
             handler' = [handler EXCEPT ![p] =
                            [handler[p] EXCEPT !.role = users[handler[p].email].role, !.pc = "update"]]
      PROVE  Typed' /\ GuessStep
  <2> DEFINE h == [handler[p] EXCEPT !.role = users[handler[p].email].role, !.pc = "update"]
  <2>r. users[handler[p].email].role \in Roles
    BY <1>2, ReadRole
  <2>1. h \in Handling /\ h.pc = "update"
    BY <1>h, <1>s, <2>r DEF Handling
  <2>2. ~IsGuess(h)
    BY <2>1 DEF IsGuess
  <2> HIDE DEF h
  <2> QED
    BY <1>2, <2>1, <2>2, QuietGiven DEF Typed, h
<1>3. CASE FindAccount(p)
  <2>u. UNCHANGED <<users, sessions, failed>>
    BY <1>3 DEF FindAccount
  <2>1. CASE users[handler[p].email] = NoAccount
    <3>1. Goto(p, "create")
      BY <1>3, <2>1 DEF FindAccount
    <3> QED
      BY <1>s, <2>u, <3>1, QuietGoto DEF Typed
  <2>2. CASE users[handler[p].email] # NoAccount /\ users[handler[p].email].active
    <3>1. handler' = [handler EXCEPT ![p].role = users[handler[p].email].role, ![p].pc = "update"]
      BY <1>3, <2>2 DEF FindAccount
    <3>2. handler' = [handler EXCEPT ![p] =
                         [handler[p] EXCEPT !.role = users[handler[p].email].role, !.pc = "update"]]
      BY <3>1 DEF Typed, HandlersOK
    <3> QED
      BY <1>2, <2>u, <2>2, <3>2
  <2>3. CASE users[handler[p].email] # NoAccount /\ ~users[handler[p].email].active
    <3>1. Answered(p)
      BY <1>3, <2>3 DEF FindAccount
    <3> QED
      BY <2>u, <3>1, QuietAnswer DEF Typed
  <2> QED
    BY <2>1, <2>2, <2>3
<1>4. CASE CreateAccount(p)
  <2>1. users' \in [Emails -> Account \cup {NoAccount}]
    BY <1>h, <1>4, InsertedType DEF CreateAccount, Handling
  <2>2. UNCHANGED <<sessions, failed>> /\ (Goto(p, "reread") \/ Answered(p))
    BY <1>4 DEF CreateAccount
  <2> QED
    BY <1>s, <2>1, <2>2, QuietGoto, QuietAnswer DEF Typed
<1>5. CASE RereadAccount(p)
  <2>u. UNCHANGED <<users, sessions, failed>>
    BY <1>5 DEF RereadAccount
  <2>1. CASE users[handler[p].email] = NoAccount
    <3>1. Answered(p)
      BY <1>5, <2>1 DEF RereadAccount
    <3> QED
      BY <2>u, <3>1, QuietAnswer DEF Typed
  <2>2. CASE users[handler[p].email] # NoAccount
    <3>1. handler' = [handler EXCEPT ![p].role = users[handler[p].email].role, ![p].pc = "update"]
      BY <1>5, <2>2 DEF RereadAccount
    <3>2. handler' = [handler EXCEPT ![p] =
                         [handler[p] EXCEPT !.role = users[handler[p].email].role, !.pc = "update"]]
      BY <3>1 DEF Typed, HandlersOK
    <3> QED
      BY <1>2, <2>u, <2>2, <3>2
  <2> QED
    BY <2>1, <2>2
<1> QED
  BY <1>1, <1>3, <1>4, <1>5 DEF FederatedSignIn

\* And of everything else.
LEMMA OtherSteps ==
    ASSUME Typed, NEW p \in Handlers, Administer(p) \/ Raise(p)
    PROVE  Typed' /\ GuessStep
<1>1. ASSUME NEW t \in Tokens, NEW e \in Emails, AuthorizeDeletion(p, t, e)
      PROVE  Typed' /\ GuessStep
  <2> DEFINE h == [handler[p] EXCEPT !.pc = "delete", !.email = e]
  <2>0. handler[p] \in Handling
    BY DEF Typed, HandlersOK
  <2>1. h \in Handling /\ h.pc = "delete"
    BY <2>0 DEF Handling, Steps
  <2>2. handler' = [handler EXCEPT ![p] = h] /\ UNCHANGED <<users, sessions, failed>>
    BY <1>1 DEF AuthorizeDeletion, Typed, HandlersOK
  <2>3. ~IsGuess(h)
    BY <2>1 DEF IsGuess
  <2> HIDE DEF h
  <2> QED
    BY <2>1, <2>2, <2>3, QuietGiven DEF Typed
<1>2. ASSUME UNCHANGED <<users, sessions, failed>>, NEW h,
             \/ \E l \in BOOLEAN : h = [handler[p] EXCEPT !.pc = "purge", !.locked = l]
             \/ \E d \in SUBSET Tokens : h = [handler[p] EXCEPT !.pc = "commit", !.doomed = d],
             handler' = [handler EXCEPT ![p] = h]
      PROVE  Typed' /\ GuessStep
  <2>1. h \in Handling /\ h.pc \in {"purge", "commit"}
    BY <1>2, DeletionGoesOn DEF Typed
  <2>2. ~IsGuess(h)
    BY <2>1 DEF IsGuess
  <2> QED
    BY <1>2, <2>1, <2>2, QuietGiven DEF Typed
<1>3. CASE DeleteUserRow(p)
  BY <1>2, <1>3, RowDeleted DEF DeleteUserRow, Typed
<1>4. CASE PurgeSessions(p)
  BY <1>2, <1>4, SessionsFound DEF PurgeSessions, Typed
<1>5. CASE CommitDeletion(p)
  BY <1>5, CommitType, QuietAnswer DEF CommitDeletion, Typed
<1>6. CASE Raise(p)
  BY <1>6, QuietAnswer DEF Raise, Typed
<1> QED
  BY <1>1, <1>3, <1>4, <1>5, <1>6 DEF Administer

LEMMA NextStep == Typed /\ [Next]_vars => Typed' /\ GuessStep
<1> SUFFICES ASSUME Typed, [Next]_vars PROVE Typed' /\ GuessStep
  OBVIOUS
<1>1. ASSUME NEW e \in Emails, NEW pw \in Passwords, Signup(e, pw) PROVE Typed' /\ GuessStep
  BY <1>1, InsertedType, Undisturbed DEF Signup, Typed, HandlersOK
<1>2. ASSUME NEW e \in Emails, NEW r \in Roles, NEW a \in BOOLEAN, Provision(e, r, a)
      PROVE  Typed' /\ GuessStep
  <2>1. users' \in [Emails -> Account \cup {NoAccount}]
    BY <1>2, ProvisionType
  <2> QED
    BY <1>2, <2>1, Undisturbed DEF Provision, Typed, HandlersOK
<1>3. ASSUME NEW p \in Handlers, SignIn(p) \/ FederatedSignIn(p) \/ Administer(p) \/ Raise(p)
      PROVE  Typed' /\ GuessStep
  BY <1>3, SignInStep, FederatedStep, OtherSteps
<1>4. ASSUME NEW t \in Tokens, Expire(t) PROVE Typed' /\ GuessStep
  BY <1>4, Undisturbed DEF Expire, Typed, HandlersOK
<1>5. ASSUME NEW ip \in Ips, LeaveWindow(ip) PROVE Typed' /\ GuessStep
  <2>1. UNCHANGED <<users, sessions, handler>>
    BY <1>5 DEF LeaveWindow
  <2>2. CASE UNCHANGED failed
    BY <2>1, <2>2, Undisturbed DEF Typed, HandlersOK
  <2>3. CASE failed[ip] > 0 /\ failed' = [failed EXCEPT ![ip] = @ - 1]
    <3>1. failed' \in [Ips -> Nat] /\ \A i \in Ips : failed'[i] <= failed[i]
      BY <2>3 DEF Typed
    <3>2. \A i : Guessing(i)' = Guessing(i)
      BY <2>1 DEF Guessing
    <3> QED
      BY <2>1, <3>1, <3>2 DEF Typed, HandlersOK, GuessStep, Calm
  <2> QED
    BY <1>5, <2>2, <2>3 DEF LeaveWindow
<1>6. CASE UNCHANGED vars
  BY <1>6, Undisturbed DEF vars, Typed, HandlersOK
<1> QED
  BY <1>1, <1>2, <1>3, <1>4, <1>5, <1>6 DEF Next

-------------------------------------------------------------------------------
LEMMA GuessingIsFinite ==
    \A ip : IsFiniteSet(Guessing(ip)) /\ Cardinality(Guessing(ip)) \in Nat
              /\ Cardinality(Guessing(ip)) <= Cardinality(Handlers)
<1> SUFFICES ASSUME NEW ip
    PROVE  IsFiniteSet(Guessing(ip)) /\ Cardinality(Guessing(ip)) \in Nat
             /\ Cardinality(Guessing(ip)) <= Cardinality(Handlers)
  OBVIOUS
<1>1. Guessing(ip) \in SUBSET Handlers
  BY DEF Guessing
<1> QED
  BY <1>1, FS_Subset, FS_CardinalityType

LEMMA InitBound == Init => GuessBound
<1> SUFFICES ASSUME Init, NEW ip \in Ips
    PROVE  failed[ip] + Cardinality(Guessing(ip)) < MaxFailures + Cardinality(Handlers)
  BY DEF GuessBound
<1>1. failed[ip] = 0
  BY DEF Init
<1>2. Cardinality(Handlers) \in Nat
  BY FS_CardinalityType
<1> QED
  BY <1>1, <1>2, GuessingIsFinite

\* A set of guesses that lost one is smaller.
LEMMA OneLess ==
    ASSUME NEW G, IsFiniteSet(G), NEW p \in G, NEW H, H \subseteq G \ {p}
    PROVE  IsFiniteSet(H) /\ Cardinality(H) \in Nat /\ Cardinality(G) \in Nat
             /\ Cardinality(H) + 1 <= Cardinality(G)
<1>1. IsFiniteSet(G \ {p}) /\ Cardinality(G \ {p}) = Cardinality(G) - 1
  BY FS_RemoveElement
<1>2. H \in SUBSET (G \ {p})
  OBVIOUS
<1>3. IsFiniteSet(H) /\ Cardinality(H) <= Cardinality(G \ {p})
  BY <1>1, <1>2, FS_Subset
<1>4. Cardinality(H) \in Nat /\ Cardinality(G) \in Nat
  BY <1>3, FS_CardinalityType
<1> QED
  BY <1>1, <1>3, <1>4

LEMMA BoundStep == Typed /\ GuessBound /\ Typed' /\ GuessStep /\ lapsed \subseteq lapsed' => GuessBound'
<1> SUFFICES ASSUME Typed, GuessBound, Typed', GuessStep, lapsed \subseteq lapsed',
                    NEW ip \in Ips \ lapsed'
    PROVE  failed'[ip] + Cardinality(Guessing(ip)') < MaxFailures + Cardinality(Handlers)
  BY DEF GuessBound
<1>1. Cardinality(Guessing(ip)) \in Nat /\ IsFiniteSet(Guessing(ip))
  BY GuessingIsFinite
<1>2. Guessing(ip)' \subseteq Handlers
  BY DEF Guessing
<1>3. Cardinality(Guessing(ip)') \in Nat /\ Cardinality(Guessing(ip)') <= Cardinality(Handlers)
      /\ Cardinality(Handlers) \in Nat
  <2>1. Guessing(ip)' \in SUBSET Handlers
    BY <1>2
  <2> QED
    BY <2>1, FS_Subset, FS_CardinalityType
<1>4. failed[ip] \in Nat /\ failed'[ip] \in Nat
  BY DEF Typed
<1>5. failed[ip] + Cardinality(Guessing(ip)) < MaxFailures + Cardinality(Handlers)
  BY DEF GuessBound
<1>6. CASE Calm(ip)
  <2>1. Guessing(ip)' \in SUBSET Guessing(ip) /\ failed'[ip] <= failed[ip]
    BY <1>6 DEF Calm
  <2>2. Cardinality(Guessing(ip)') <= Cardinality(Guessing(ip))
    BY <1>1, <2>1, FS_Subset
  <2> QED
    BY <1>1, <1>3, <1>4, <1>5, <2>1, <2>2
<1>7. CASE Counts(ip)
  <2>1. PICK p \in Guessing(ip) : Guessing(ip)' \subseteq Guessing(ip) \ {p}
    BY <1>7 DEF Counts
  <2>2. Cardinality(Guessing(ip)') + 1 <= Cardinality(Guessing(ip))
    BY <1>1, <2>1, OneLess
  <2>3. failed'[ip] <= failed[ip] + 1
    BY <1>7 DEF Counts
  <2> QED
    BY <1>1, <1>3, <1>4, <1>5, <2>2, <2>3
<1>8. CASE Admits(ip)
  BY <1>3, <1>4, <1>8 DEF Admits
<1> QED
  BY <1>6, <1>7, <1>8 DEF GuessStep

\* Nothing takes an address off lapsed.
LEMMA LapsedGrows == [Next]_vars => lapsed \subseteq lapsed'
<1> SUFFICES ASSUME [Next]_vars PROVE lapsed \subseteq lapsed'
  OBVIOUS
<1>1. ASSUME NEW p \in Handlers, SignIn(p)
      PROVE  lapsed \subseteq lapsed'
  BY <1>1 DEF SignIn, BeginLogin, CheckLockout, LockoutLapses, ReadAccount, RecordFailure,
              DetectStuffing, BlockAddress, RecordSuccess, UpdateUser, IssueSession
<1>2. ASSUME NEW p \in Handlers, FederatedSignIn(p) \/ Administer(p) \/ Raise(p)
      PROVE  lapsed' = lapsed
  BY <1>2 DEF FederatedSignIn, Administer, BeginGoogle, FindAccount, CreateAccount, RereadAccount,
              AuthorizeDeletion, DeleteUserRow, PurgeSessions, CommitDeletion, Raise
<1>3. CASE \/ \E e \in Emails, pw \in Passwords : Signup(e, pw)
           \/ \E e \in Emails, r \in Roles, a \in BOOLEAN : Provision(e, r, a)
           \/ \E t \in Tokens : Expire(t)
           \/ \E ip \in Ips : LeaveWindow(ip)
  BY <1>3 DEF Signup, Provision, Expire, LeaveWindow
<1>4. CASE UNCHANGED vars
  BY <1>4 DEF vars
<1> QED
  BY <1>1, <1>2, <1>3, <1>4 DEF Next

\* However many requests guess from one address at once, the failures of its window and
\* the guesses under way stay below the limit and one for every handler
\* (check_login_lockout, record_login_attempt).
THEOREM LockoutIsLateByARound == Spec => []GuessBound
<1>1. Init => Typed /\ GuessBound
  BY InitTyped, InitBound
<1>2. Typed /\ GuessBound /\ [Next]_vars => (Typed /\ GuessBound)'
  BY NextStep, BoundStep, LapsedGrows
<1> QED
  BY <1>1, <1>2, PTL DEF Spec

-------------------------------------------------------------------------------
\* What a step may do: an account that stays keeps its password, ...
PasswordsStay == \A f \in Emails : users[f] # NoAccount /\ users'[f] # NoAccount
                                      => users'[f].password = users[f].password

\* ... one that goes leaves only sessions its deletion has not found, ...
AccountsGo == \A f \in Emails : users[f] # NoAccount /\ users'[f] = NoAccount =>
    \E p \in Handlers :
       /\ handler[p].pc = "commit" /\ handler[p].locked /\ handler[p].email = f
       /\ \A t \in Tokens : sessions'[t] # NoSession
             => sessions'[t] = sessions[t] /\ t \notin handler[p].doomed

\* ... a session is what it was, unless it is issued and says when, ...
SessionsStay == \A t \in Tokens : sessions'[t] # NoSession =>
    \/ sessions'[t] = sessions[t]
    \/ UNCHANGED users /\ sessions'[t].late = TooLate(sessions'[t].email)

\* ... and a deletion comes to its COMMIT by having found the sessions.
CommitsHaveLooked == \A p \in Handlers : handler'[p].pc = "commit" =>
    \/ handler'[p] = handler[p]
    \/ UNCHANGED sessions /\ SessionsOf(handler'[p].email) \subseteq handler'[p].doomed

Keeps == PasswordsStay /\ AccountsGo /\ SessionsStay

LEMMA NothingChanges == UNCHANGED <<users, sessions>> => Keeps
  BY DEF Keeps, PasswordsStay, AccountsGo, SessionsStay

LEMMA AccountsAdded ==
    ASSUME UNCHANGED sessions,
           \A f \in Emails : users[f] # NoAccount
              => users'[f] # NoAccount /\ users'[f].password = users[f].password
    PROVE  Keeps
  BY DEF Keeps, PasswordsStay, AccountsGo, SessionsStay

LEMMA KeepsStep == Typed /\ [Next]_vars => Keeps
<1> SUFFICES ASSUME Typed, [Next]_vars PROVE Keeps
  OBVIOUS
<1>1. ASSUME NEW e \in Emails, NEW pw \in Passwords, Signup(e, pw) PROVE Keeps
  <2>1. \A f \in Emails : users[f] # NoAccount => users'[f] = users[f]
    BY <1>1, InsertedType DEF Signup
  <2> QED
    BY <1>1, <2>1, AccountsAdded DEF Signup
<1>2. ASSUME NEW e \in Emails, NEW r \in Roles, NEW a \in BOOLEAN, Provision(e, r, a) PROVE Keeps
  BY <1>2, ProvisionType, AccountsAdded DEF Provision
<1>3. ASSUME NEW p \in Handlers, CreateAccount(p) PROVE Keeps
  <2>1. handler[p].email \in Emails
    BY DEF Typed, HandlersOK, Handling
  <2>2. \A f \in Emails : users[f] # NoAccount => users'[f] = users[f]
    BY <1>3, <2>1, InsertedType DEF CreateAccount
  <2> QED
    BY <1>3, <2>2, AccountsAdded DEF CreateAccount
<1>4. ASSUME NEW p \in Handlers, CommitDeletion(p) PROVE Keeps
  <2>1. handler[p].pc = "commit"
    BY <1>4 DEF CommitDeletion
  <2> QED
    BY <1>4, <2>1, CommitType DEF Keeps, PasswordsStay, AccountsGo, SessionsStay
<1>5. ASSUME NEW p \in Handlers, NEW t \in Tokens, IssueSession(p, t) PROVE Keeps
  <2>1. UNCHANGED users
    BY <1>5 DEF IssueSession
  <2> QED
    BY <1>5, <2>1, IssuedType DEF Keeps, PasswordsStay, AccountsGo, SessionsStay
<1>6. ASSUME NEW t \in Tokens, Expire(t) PROVE Keeps
  <2>1. UNCHANGED users /\ sessions'[t] = NoSession
        /\ \A u \in Tokens \ {t} : sessions'[u] = sessions[u]
    BY <1>6 DEF Expire, Typed
  <2> QED
    BY <2>1 DEF Keeps, PasswordsStay, AccountsGo, SessionsStay
<1>7. ASSUME NEW p \in Handlers,
             \/ CheckLockout(p) \/ LockoutLapses(p) \/ ReadAccount(p) \/ RecordFailure(p)
             \/ DetectStuffing(p) \/ BlockAddress(p) \/ RecordSuccess(p)
             \/ UpdateUser(p) \/ FindAccount(p) \/ RereadAccount(p) \/ Raise(p)
             \/ DeleteUserRow(p) \/ PurgeSessions(p)
      PROVE  Keeps
  <2>1. UNCHANGED <<users, sessions>>
    BY <1>7 DEF CheckLockout, LockoutLapses, ReadAccount, RecordFailure, DetectStuffing, BlockAddress,
           RecordSuccess, UpdateUser, FindAccount, RereadAccount, Raise, DeleteUserRow, PurgeSessions
  <2> QED
    BY <2>1, NothingChanges
<1>9. ASSUME NEW p \in Handlers, SignIn(p) PROVE Keeps
  <2>1. ASSUME NEW e \in Emails, NEW pw \in Passwords, NEW ip \in Ips \cup {NoIp},
               BeginLogin(p, e, pw, ip)
        PROVE  Keeps
    BY <2>1, NothingChanges DEF BeginLogin
  <2> QED
    BY <1>5, <1>7, <1>9, <2>1 DEF SignIn
<1>10. ASSUME NEW p \in Handlers, FederatedSignIn(p) PROVE Keeps
  <2>1. ASSUME NEW e \in Emails, NEW ip \in Ips \cup {NoIp}, BeginGoogle(p, e, ip) PROVE Keeps
    BY <2>1, NothingChanges DEF BeginGoogle
  <2> QED
    BY <1>3, <1>7, <1>10, <2>1 DEF FederatedSignIn
<1>11. ASSUME NEW p \in Handlers, Administer(p) PROVE Keeps
  <2>1. ASSUME NEW t \in Tokens, NEW e \in Emails, AuthorizeDeletion(p, t, e) PROVE Keeps
    BY <2>1, NothingChanges DEF AuthorizeDeletion
  <2> QED
    BY <1>4, <1>7, <1>11, <2>1 DEF Administer
<1>12. ASSUME NEW ip \in Ips, LeaveWindow(ip) PROVE Keeps
  BY <1>12, NothingChanges DEF LeaveWindow
<1>13. CASE UNCHANGED vars
  BY <1>13, NothingChanges DEF vars
<1> QED
  BY <1>1, <1>2, <1>6, <1>7, <1>9, <1>10, <1>11, <1>12, <1>13 DEF Next

\* Racing sign-ups and first federated sign-ins never replace the password of an account
\* that is there (create_user, login_federated).
THEOREM PasswordsAreKept == Spec => AccountsAreNotTakenOver
<1>1. Typed /\ [Next]_vars =>
        [\A e \in Emails : users[e] # NoAccount /\ users'[e] # NoAccount
            => users'[e].password = users[e].password]_vars
  BY KeepsStep DEF Keeps, PasswordsStay
<1> QED
  BY <1>1, InitTyped, NextStep, PTL DEF Spec, AccountsAreNotTakenOver

\* A handler that is given something else to do is not at a COMMIT, or was before.
LEMMA NotCommitting ==
    ASSUME HandlersOK, NEW p \in Handlers, NEW h \in Handling,
           handler' = [handler EXCEPT ![p] = h], h.pc # "commit"
    PROVE  CommitsHaveLooked
<1>1. Became(p, h)
  BY Given
<1> QED
  BY <1>1 DEF Became, CommitsHaveLooked

LEMMA GoneElsewhere ==
    ASSUME HandlersOK, NEW p \in Handlers, NEW pc \in Steps \ {"commit"}, Goto(p, pc)
    PROVE  CommitsHaveLooked
<1>1. handler'[p].pc = pc /\ \A q \in Handlers \ {p} : handler'[q] = handler[q]
  BY GoneTo
<1> QED
  BY <1>1 DEF CommitsHaveLooked

LEMMA AnsweredIsIdle ==
    ASSUME HandlersOK, NEW p \in Handlers, Answered(p)
    PROVE  CommitsHaveLooked
  BY IdleType, NotCommitting DEF Answered, Idle

LEMMA StoodStill == UNCHANGED handler => CommitsHaveLooked
  BY DEF CommitsHaveLooked

LEMMA LookedStep == Typed /\ [Next]_vars => CommitsHaveLooked
<1> SUFFICES ASSUME Typed, [Next]_vars PROVE CommitsHaveLooked
  OBVIOUS
<1>s. {"lockout", "read", "failure", "stuffing", "block", "success", "find", "create",
       "reread", "update", "issue", "delete", "purge"} \subseteq Steps \ {"commit"}
  BY DEF Steps
<1>h. ASSUME NEW p \in Handlers PROVE handler[p] \in Handling /\ HandlersOK
  BY DEF Typed, HandlersOK
<1>1. ASSUME NEW p \in Handlers, SignIn(p) PROVE CommitsHaveLooked
  <2>1. ASSUME NEW e \in Emails, NEW pw \in Passwords, NEW ip \in Ips \cup {NoIp}, BeginLogin(p, e, pw, ip)
        PROVE  CommitsHaveLooked
    <3> DEFINE h == [Idle EXCEPT !.pc = "lockout", !.email = e, !.ip = ip, !.password = pw]
    <3>1. h \in Handling /\ h.pc # "commit"
      BY IdleType DEF Handling, Steps
    <3>2. handler' = [handler EXCEPT ![p] = h]
      BY <2>1 DEF BeginLogin
    <3> HIDE DEF h
    <3> QED
      BY <1>h, <3>1, <3>2, NotCommitting
  <2>2. CASE ReadAccount(p)
    <3>1. handler'[p].pc \in {"success", "failure"} /\ \A q \in Handlers \ {p} : handler'[q] = handler[q]
      BY <1>h, <2>2 DEF ReadAccount, HandlersOK, Handling
    <3> QED
      BY <3>1 DEF CommitsHaveLooked
  <2>3. CASE \E t \in Tokens : IssueSession(p, t)
    BY <1>h, <2>3, AnsweredIsIdle DEF IssueSession
  <2>4. CASE CheckLockout(p) \/ LockoutLapses(p) \/ RecordFailure(p) \/ DetectStuffing(p)
             \/ BlockAddress(p) \/ RecordSuccess(p) \/ UpdateUser(p)
    <3>1. Answered(p) \/ \E pc \in Steps \ {"commit"} : Goto(p, pc)
      BY <1>s, <2>4 DEF CheckLockout, LockoutLapses, RecordFailure, DetectStuffing, BlockAddress,
         RecordSuccess, UpdateUser
    <3> QED
      BY <1>h, <3>1, AnsweredIsIdle, GoneElsewhere
  <2> QED
    BY <1>1, <2>1, <2>2, <2>3, <2>4 DEF SignIn
<1>2. ASSUME NEW p \in Handlers, FederatedSignIn(p) PROVE CommitsHaveLooked
  <2>1. ASSUME NEW e \in Emails, NEW ip \in Ips \cup {NoIp}, BeginGoogle(p, e, ip)
        PROVE  CommitsHaveLooked
    <3>1. FederatedPending(e, ip) \in Handling /\ FederatedPending(e, ip).pc # "commit"
      BY IdleType DEF FederatedPending, Handling, Steps
    <3> QED
      BY <1>h, <2>1, <3>1, NotCommitting DEF BeginGoogle
  <2>2. CASE FindAccount(p) \/ CreateAccount(p) \/ RereadAccount(p)
    <3>1. \/ Answered(p)
          \/ \E pc \in Steps \ {"commit"} : Goto(p, pc)
          \/ handler' = [handler EXCEPT ![p].role = users[handler[p].email].role, ![p].pc = "update"]
      BY <1>s, <2>2 DEF FindAccount, CreateAccount, RereadAccount
    <3>2. ASSUME handler' = [handler EXCEPT ![p].role = users[handler[p].email].role, ![p].pc = "update"]
          PROVE  CommitsHaveLooked
      <4>1. handler'[p].pc = "update" /\ \A q \in Handlers \ {p} : handler'[q] = handler[q]
        BY <1>h, <3>2 DEF HandlersOK, Handling
      <4> QED
        BY <4>1 DEF CommitsHaveLooked
    <3> QED
      BY <1>h, <3>1, <3>2, AnsweredIsIdle, GoneElsewhere
  <2> QED
    BY <1>2, <2>1, <2>2 DEF FederatedSignIn
<1>3. ASSUME NEW p \in Handlers, Administer(p) PROVE CommitsHaveLooked
  <2>1. ASSUME NEW t \in Tokens, NEW e \in Emails, AuthorizeDeletion(p, t, e) PROVE CommitsHaveLooked
    <3>1. handler'[p].pc = "delete" /\ \A q \in Handlers \ {p} : handler'[q] = handler[q]
      BY <1>h, <2>1 DEF AuthorizeDeletion, HandlersOK, Handling
    <3> QED
      BY <3>1 DEF CommitsHaveLooked
  <2>2. CASE DeleteUserRow(p)
    <3>1. PICK l \in BOOLEAN :
            handler' = [handler EXCEPT ![p] = [handler[p] EXCEPT !.pc = "purge", !.locked = l]]
      BY <1>h, <2>2, RowDeleted
    <3> DEFINE h == [handler[p] EXCEPT !.pc = "purge", !.locked = l]
    <3>2. h \in Handling /\ h.pc # "commit"
      BY <1>h DEF Handling, Steps
    <3> HIDE DEF h
    <3> QED
      BY <1>h, <3>1, <3>2, NotCommitting DEF h
  <2>3. CASE PurgeSessions(p)
    <3> DEFINE d == SessionsOf(handler[p].email)
               h == [handler[p] EXCEPT !.pc = "commit", !.doomed = d]
    <3>1. d \in SUBSET Tokens /\ handler' = [handler EXCEPT ![p] = h]
      BY <1>h, <2>3, SessionsFound
    <3> HIDE DEF d
    <3>2. h \in Handling /\ h.email = handler[p].email /\ h.doomed = d
      BY <1>h, <3>1 DEF Handling, Steps
    <3> HIDE DEF h
    <3>3. handler'[p] = h /\ \A q \in Handlers \ {p} : handler'[q] = handler[q]
      BY <1>h, <3>1, <3>2, Given DEF Became
    <3>4. UNCHANGED sessions
      BY <2>3 DEF PurgeSessions
    <3>5. SessionsOf(handler'[p].email) \subseteq handler'[p].doomed
      BY <3>2, <3>3 DEF d
    <3> QED
      BY <3>3, <3>4, <3>5 DEF CommitsHaveLooked
  <2>4. CASE CommitDeletion(p)
    BY <1>h, <2>4, AnsweredIsIdle DEF CommitDeletion
  <2> QED
    BY <1>3, <2>1, <2>2, <2>3, <2>4 DEF Administer
<1>4. ASSUME NEW p \in Handlers, Raise(p) PROVE CommitsHaveLooked
  BY <1>h, <1>4, AnsweredIsIdle DEF Raise
<1>5. CASE \/ \E e \in Emails, pw \in Passwords : Signup(e, pw)
           \/ \E e \in Emails, r \in Roles, a \in BOOLEAN : Provision(e, r, a)
           \/ \E t \in Tokens : Expire(t)
           \/ \E ip \in Ips : LeaveWindow(ip)
  BY <1>5, StoodStill DEF Signup, Provision, Expire, LeaveWindow
<1>6. CASE UNCHANGED vars
  BY <1>6, StoodStill DEF vars
<1> QED
  BY <1>1, <1>2, <1>3, <1>4, <1>5, <1>6 DEF Next

\* A deletion that has come to its COMMIT has found every session of its account,
\* but those issued since, which are late.
Foreseen ==
    \A p \in Handlers : handler[p].pc = "commit" /\ handler[p].locked =>
        \A t \in SessionsOf(handler[p].email) : t \in handler[p].doomed \/ sessions[t].late

LEMMA ForeseenStep ==
    ASSUME Typed, Keeps, CommitsHaveLooked, Foreseen
    PROVE  Foreseen'
<1> SUFFICES ASSUME NEW p \in Handlers, handler'[p].pc = "commit", handler'[p].locked,
                    NEW t \in SessionsOf(handler[p].email)'
             PROVE  t \in handler'[p].doomed \/ sessions'[t].late
  BY DEF Foreseen
<1>1. t \in Tokens /\ sessions'[t] # NoSession /\ sessions'[t].email = handler'[p].email
  BY DEF SessionsOf
<1>2. CASE UNCHANGED sessions /\ SessionsOf(handler'[p].email) \subseteq handler'[p].doomed
  <2>1. t \in SessionsOf(handler'[p].email)
    BY <1>1, <1>2 DEF SessionsOf
  <2> QED
    BY <1>2, <2>1
<1>3. CASE handler'[p] = handler[p]
  <2>1. CASE sessions'[t] = sessions[t]
    <3>1. t \in SessionsOf(handler[p].email)
      BY <1>1, <1>3, <2>1 DEF SessionsOf
    <3> QED
      BY <1>3, <2>1, <3>1 DEF Foreseen
  <2>2. CASE sessions'[t].late = TooLate(sessions'[t].email)
    <3>1. TooLate(handler[p].email)
      BY <1>3 DEF TooLate
    <3> QED
      BY <1>1, <1>3, <2>2, <3>1
  <2> QED
    BY <1>1, <2>1, <2>2 DEF Keeps, SessionsStay
<1> QED
  BY <1>2, <1>3 DEF CommitsHaveLooked

LEMMA OrphansStep ==
    ASSUME Typed, Typed', Keeps, Foreseen, OnlyLateSessionsAreOrphans
    PROVE  OnlyLateSessionsAreOrphans'
<1> SUFFICES ASSUME NEW t \in Orphans' PROVE sessions'[t].late
  BY DEF OnlyLateSessionsAreOrphans
<1>1. t \in Tokens /\ sessions'[t] # NoSession /\ users'[sessions'[t].email] = NoAccount
  BY DEF Orphans
<1>2. CASE sessions'[t] = sessions[t]
  <2>1. sessions[t].email \in Emails
    BY <1>1, <1>2 DEF Typed, Session
  <2>2. CASE users[sessions[t].email] = NoAccount
    BY <1>1, <1>2, <2>2 DEF OnlyLateSessionsAreOrphans, Orphans
  <2>3. CASE users[sessions[t].email] # NoAccount
    <3>1. PICK p \in Handlers :
             /\ handler[p].pc = "commit" /\ handler[p].locked
             /\ handler[p].email = sessions[t].email /\ t \notin handler[p].doomed
      BY <1>1, <1>2, <2>1, <2>3 DEF Keeps, AccountsGo
    <3>2. t \in SessionsOf(handler[p].email)
      BY <1>1, <1>2, <3>1 DEF SessionsOf
    <3> QED
      BY <1>2, <3>1, <3>2 DEF Foreseen
  <2> QED
    BY <2>2, <2>3
<1>3. CASE UNCHANGED users /\ sessions'[t].late = TooLate(sessions'[t].email)
  BY <1>1, <1>3 DEF TooLate
<1> QED
  BY <1>1, <1>2, <1>3 DEF Keeps, SessionsStay

\* A session without an account was issued when the account was gone, or after the
\* transaction deleting it had looked for its sessions: every session there is at that
\* look goes with the account (_delete_user, login).
THEOREM OrphansAreLate == Spec => []OnlyLateSessionsAreOrphans
<1>1. Init => OnlyLateSessionsAreOrphans /\ Foreseen
  BY DEF Init, OnlyLateSessionsAreOrphans, Orphans, Foreseen, Idle
<1>2. /\ Typed /\ Typed' /\ OnlyLateSessionsAreOrphans /\ Foreseen /\ [Next]_vars
      => OnlyLateSessionsAreOrphans' /\ Foreseen'
  BY KeepsStep, LookedStep, ForeseenStep, OrphansStep
<1> QED
  BY <1>1, <1>2, InitTyped, NextStep, PTL DEF Spec

-------------------------------------------------------------------------------
(* SAML connections *)

\* The handler holds a draft it read; its test is not recorded yet.
Testing(p) == acs[p] # None /\ ~acs[p].read.active

\* The row a customer has is live only when tested, and tested only when it works.
RowSound ==
    \A d \in Domains \ overtaken :
        Exists(d) /\ ~connection[d].byOperator
            => /\ connection[d].verified => connection[d].metadata \in Works
               /\ connection[d].active => connection[d].verified

\* A draft under test is still the row of its domain, unless an operator replaced it.
TestIsOfRow ==
    \A p \in SsoHandlers :
        LET d == acs[p].domain
        IN  Testing(p) /\ d \notin overtaken
                => /\ Exists(d)
                   /\ connection[d].byOperator \/ connection[d].metadata = acs[p].read.metadata

\* Inductive: LiveConnectionWorks needs to know that a live row was tested, and that
\* what a test is recorded on is what was tested.
SamlInv == SamlTypeOK /\ RowSound /\ TestIsOfRow


--------------------------------------------------------------------------------
LEMMA SamlInitInv == SamlInit => SamlInv
  BY DEF SamlInit, SamlInv, SamlTypeOK, RowSound, TestIsOfRow, Testing, Exists, None, Taking

LEMMA NoneIsNoTaking == None \notin Taking
  BY DEF None, Taking

\* The rows the routes write are rows.
LEMMA WrittenRows ==
    ASSUME SamlTypeOK, NEW d \in Domains, NEW m \in Metadata
    PROVE  /\ Draft(m) \in Connection
           /\ [metadata |-> m, active |-> TRUE, byOperator |-> TRUE,
               verified |-> Exists(d) /\ connection[d].verified] \in Connection
           /\ Exists(d) => /\ connection[d] \in Connection
                           /\ [connection[d] EXCEPT !.active = TRUE] \in Connection
                           /\ [connection[d] EXCEPT !.verified = TRUE] \in Connection
<1>1. Draft(m) \in Connection
  BY DEF Draft, Connection
<1>2. Exists(d) => connection[d] \in Connection
  BY DEF SamlTypeOK, Exists
<1>3. (Exists(d) /\ connection[d].verified) \in BOOLEAN
  OBVIOUS
<1>4. [metadata |-> m, active |-> TRUE, byOperator |-> TRUE,
       verified |-> Exists(d) /\ connection[d].verified] \in Connection
  BY <1>3 DEF Connection
<1>5. Exists(d) => /\ [connection[d] EXCEPT !.active = TRUE] \in Connection
                   /\ [connection[d] EXCEPT !.verified = TRUE] \in Connection
  BY <1>2 DEF Connection
<1> QED
  BY <1>1, <1>2, <1>4, <1>5

LEMMA SamlTypeStep == SamlTypeOK /\ [SamlNext]_samlVars => SamlTypeOK'
<1> SUFFICES ASSUME SamlTypeOK, [SamlNext]_samlVars PROVE SamlTypeOK'
  OBVIOUS
<1>1. ASSUME NEW d \in Domains, NEW m \in Metadata, CreateDraft(d, m) PROVE SamlTypeOK'
  BY <1>1, WrittenRows DEF CreateDraft, Put, SamlTypeOK
<1>2. ASSUME NEW d \in Domains, NEW m \in Metadata, Save(d, m) PROVE SamlTypeOK'
  BY <1>2, WrittenRows DEF Save, Put, SamlTypeOK
<1>3. ASSUME NEW d \in Domains, Activate(d) PROVE SamlTypeOK'
  BY <1>3 DEF Activate, Put, SamlTypeOK, Exists, Connection
<1>4. ASSUME NEW d \in Domains, Delete(d) PROVE SamlTypeOK'
  BY <1>4 DEF Delete, Put, SamlTypeOK
<1>5. ASSUME NEW p \in SsoHandlers, NEW d \in Domains, TakeAssertion(p, d) PROVE SamlTypeOK'
  BY <1>5 DEF TakeAssertion, SamlTypeOK, Exists, Taking
<1>6. ASSUME NEW p \in SsoHandlers, Reject(p) \/ Enter(p) PROVE SamlTypeOK'
  BY <1>6 DEF Reject, Enter, Done, SamlTypeOK
<1>7. ASSUME NEW p \in SsoHandlers, RecordTest(p) PROVE SamlTypeOK'
  <2>1. acs[p].domain \in Domains
    BY <1>7 DEF RecordTest, SamlTypeOK, Taking
  <2>2. acs' \in [SsoHandlers -> Taking \cup {None}] /\ overtaken' \subseteq Domains
    BY <1>7 DEF RecordTest, Done, SamlTypeOK
  <2>3. connection' \in [Domains -> Connection \cup {NoConnection}]
    <3>1. CASE ~Exists(acs[p].domain)
      BY <1>7, <3>1 DEF RecordTest, SamlTypeOK
    <3>2. CASE Exists(acs[p].domain)
      <4>1. [connection[acs[p].domain] EXCEPT !.verified = TRUE] \in Connection
        BY <2>1, <3>2 DEF SamlTypeOK, Exists, Connection
      <4>2. Put(acs[p].domain, [connection[acs[p].domain] EXCEPT !.verified = TRUE])
        BY <1>7, <3>2 DEF RecordTest
      <4> QED
        BY <4>1, <4>2 DEF Put, SamlTypeOK
    <3> QED
      BY <3>1, <3>2
  <2> QED
    BY <2>2, <2>3 DEF SamlTypeOK
<1>8. CASE UNCHANGED samlVars
  BY <1>8 DEF samlVars, SamlTypeOK
<1> QED
  BY <1>1, <1>2, <1>3, <1>4, <1>5, <1>6, <1>7, <1>8 DEF SamlNext

\* A row put in the place of one domain leaves the others as they are.
LEMMA PutOne ==
    ASSUME SamlTypeOK, NEW d \in Domains, NEW row, Put(d, row)
    PROVE  connection'[d] = row /\ \A e \in Domains \ {d} : connection'[e] = connection[e]
  BY DEF Put, SamlTypeOK

LEMMA SamlInvStep == SamlInv /\ [SamlNext]_samlVars => SamlInv'
<1> SUFFICES ASSUME SamlInv, [SamlNext]_samlVars PROVE RowSound' /\ TestIsOfRow'
  BY SamlTypeStep DEF SamlInv
<1> USE DEF SamlInv
<1>d. \A p \in SsoHandlers : acs[p] # None => acs[p].domain \in Domains
  BY DEF SamlTypeOK, Taking
<1>1. ASSUME NEW d \in Domains, NEW m \in Metadata, CreateDraft(d, m) PROVE RowSound' /\ TestIsOfRow'
  <2>1. connection'[d] = Draft(m) /\ \A e \in Domains \ {d} : connection'[e] = connection[e]
    BY <1>1, PutOne DEF CreateDraft
  <2>2. RowSound'
    BY <1>1, <2>1 DEF CreateDraft, RowSound, Exists, Draft
  <2>3. TestIsOfRow'
    BY <1>1, <1>d, <2>1 DEF CreateDraft, TestIsOfRow, Testing, Exists
  <2> QED
    BY <2>2, <2>3
<1>2. ASSUME NEW d \in Domains, NEW m \in Metadata, Save(d, m) PROVE RowSound' /\ TestIsOfRow'
  <2>1. connection'[d].byOperator /\ connection'[d] # NoConnection
    <3> DEFINE row == [metadata |-> m, active |-> TRUE, byOperator |-> TRUE,
                       verified |-> Exists(d) /\ connection[d].verified]
    <3>1. row \in Connection /\ row.byOperator
      BY WrittenRows
    <3>2. Put(d, row)
      BY <1>2 DEF Save
    <3>3. connection'[d] = row
      BY <3>2, PutOne
    <3> QED
      BY <3>1, <3>3
  <2>2. \A e \in Domains \ {d} : connection'[e] = connection[e]
    BY <1>2, PutOne DEF Save
  <2>3. RowSound'
    BY <1>2, <2>1, <2>2 DEF Save, RowSound, Exists
  <2>4. TestIsOfRow'
    BY <1>2, <1>d, <2>1, <2>2 DEF Save, TestIsOfRow, Testing, Exists
  <2> QED
    BY <2>3, <2>4
<1>3. ASSUME NEW d \in Domains, Activate(d) PROVE RowSound' /\ TestIsOfRow'
  <2>1. connection'[d] = [connection[d] EXCEPT !.active = TRUE]
    BY <1>3, PutOne DEF Activate
  <2>2. \A e \in Domains \ {d} : connection'[e] = connection[e]
    BY <1>3, PutOne DEF Activate
  <2>3. connection[d] \in Connection /\ connection[d].verified
    BY <1>3 DEF Activate, Exists, SamlTypeOK
  <2>4. /\ connection'[d] # NoConnection /\ connection'[d].verified
        /\ connection'[d].metadata = connection[d].metadata
        /\ connection'[d].byOperator = connection[d].byOperator
    BY <2>1, <2>3 DEF Connection
  <2>5. RowSound'
    BY <1>3, <2>2, <2>3, <2>4 DEF Activate, RowSound, Exists
  <2>6. TestIsOfRow'
    BY <1>3, <1>d, <2>2, <2>4 DEF Activate, TestIsOfRow, Testing, Exists
  <2> QED
    BY <2>5, <2>6
<1>4. ASSUME NEW d \in Domains, Delete(d) PROVE RowSound' /\ TestIsOfRow'
  <2>1. connection'[d] = NoConnection /\ \A e \in Domains \ {d} : connection'[e] = connection[e]
    BY <1>4, PutOne DEF Delete
  <2>2. RowSound'
    BY <1>4, <2>1 DEF Delete, RowSound, Exists
  <2>3. TestIsOfRow'
    BY <1>4, <1>d, <2>1 DEF Delete, TestIsOfRow, Testing, Exists
  <2> QED
    BY <2>2, <2>3
<1>5. ASSUME NEW p \in SsoHandlers, NEW d \in Domains, TakeAssertion(p, d) PROVE RowSound' /\ TestIsOfRow'
  <2>1. acs'[p] = [domain |-> d, read |-> connection[d]]
    BY <1>5 DEF TakeAssertion, SamlTypeOK
  <2>2. \A q \in SsoHandlers \ {p} : acs'[q] = acs[q]
    BY <1>5 DEF TakeAssertion, SamlTypeOK
  <2>3. RowSound'
    BY <1>5 DEF TakeAssertion, RowSound, Exists
  <2>4. TestIsOfRow'
    BY <1>5, <2>1, <2>2 DEF TakeAssertion, TestIsOfRow, Testing, Exists
  <2> QED
    BY <2>3, <2>4
<1>6. ASSUME NEW p \in SsoHandlers, Reject(p) \/ Enter(p) PROVE RowSound' /\ TestIsOfRow'
  <2>1. acs'[p] = None /\ \A q \in SsoHandlers \ {p} : acs'[q] = acs[q]
    BY <1>6 DEF Reject, Enter, Done, SamlTypeOK
  <2>2. UNCHANGED <<connection, overtaken>>
    BY <1>6 DEF Reject, Enter
  <2> QED
    BY <2>1, <2>2 DEF RowSound, TestIsOfRow, Testing, Exists
<1>7. ASSUME NEW p \in SsoHandlers, RecordTest(p) PROVE RowSound' /\ TestIsOfRow'
  <2> DEFINE d == acs[p].domain
  <2>1. acs'[p] = None /\ \A q \in SsoHandlers \ {p} : acs'[q] = acs[q]
    BY <1>7 DEF RecordTest, Done, SamlTypeOK
  <2>2. d \in Domains /\ Testing(p) /\ acs[p].read.metadata \in Works /\ overtaken' = overtaken
    BY <1>7, <1>d DEF RecordTest, Testing
  <2>3. CASE ~Exists(d)
    <3>1. UNCHANGED connection
      BY <1>7, <2>3 DEF RecordTest
    <3> QED
      BY <2>1, <2>2, <3>1 DEF RowSound, TestIsOfRow, Testing, Exists
  <2>4. CASE Exists(d)
    <3>1. Put(d, [connection[d] EXCEPT !.verified = TRUE])
      BY <1>7, <2>4 DEF RecordTest
    <3>2. connection'[d] = [connection[d] EXCEPT !.verified = TRUE]
      BY <2>2, <3>1, PutOne
    <3>3. \A e \in Domains \ {d} : connection'[e] = connection[e]
      BY <2>2, <3>1, PutOne
    <3>4. connection[d] \in Connection
      BY <2>2, <2>4 DEF Exists, SamlTypeOK
    <3>5. /\ connection'[d] # NoConnection /\ connection'[d].verified
          /\ connection'[d].metadata = connection[d].metadata
          /\ connection'[d].byOperator = connection[d].byOperator
      BY <3>2, <3>4 DEF Connection
    <3>6. d \notin overtaken /\ ~connection[d].byOperator => connection[d].metadata \in Works
      BY <2>2 DEF TestIsOfRow
    <3>7. RowSound'
      BY <2>2, <3>3, <3>5, <3>6 DEF RowSound, Exists
    <3>8. TestIsOfRow'
      BY <1>d, <2>1, <2>2, <3>3, <3>5 DEF TestIsOfRow, Testing, Exists
    <3> QED
      BY <3>7, <3>8
  <2> QED
    BY <2>3, <2>4
<1>8. CASE UNCHANGED samlVars
  BY <1>8 DEF samlVars, RowSound, TestIsOfRow, Testing, Exists
<1> QED
  BY <1>1, <1>2, <1>3, <1>4, <1>5, <1>6, <1>7, <1>8 DEF SamlNext

\* Whatever drafts, deletions and tests come between the steps of one another, a
\* connection a customer made live validates its provider's assertions, unless the draft
\* was deleted under its test (activate_my_saml_connection, saml_acs).
THEOREM LiveConnectionsWork == SamlSpec => []LiveConnectionWorks
<1>1. SamlInv => LiveConnectionWorks
  BY DEF SamlInv, RowSound, LiveConnectionWorks, SelfServed
<1> QED
  BY <1>1, SamlInitInv, SamlInvStep, PTL DEF SamlSpec

\* A step that changes the metadata of a row that stays: only an operator's.
LEMMA OnlySaveReplaces ==
    ASSUME SamlTypeOK, [SamlNext]_samlVars, NEW d \in Domains, Exists(d), Exists(d)',
           connection[d].metadata # connection[d]'.metadata
    PROVE  connection[d]'.byOperator
<1>1. connection[d] \in Connection
  BY DEF SamlTypeOK, Exists
<1>2. ASSUME NEW e \in Domains, NEW m \in Metadata, CreateDraft(e, m) PROVE FALSE
  <2>1. Put(e, Draft(m)) /\ ~Exists(e)
    BY <1>2 DEF CreateDraft
  <2> QED
    BY <2>1, PutOne
<1>3. ASSUME NEW e \in Domains, NEW m \in Metadata, Save(e, m) PROVE connection[d]'.byOperator
  <2> DEFINE row == [metadata |-> m, active |-> TRUE, byOperator |-> TRUE,
                     verified |-> Exists(e) /\ connection[e].verified]
  <2>1. Put(e, row)
    BY <1>3 DEF Save
  <2>2. row.byOperator
    OBVIOUS
  <2>3. connection'[e] = row /\ \A f \in Domains \ {e} : connection'[f] = connection[f]
    BY <2>1, PutOne
  <2>4. d = e
    BY <2>3
  <2> QED
    BY <2>2, <2>3, <2>4
<1>4. ASSUME NEW e \in Domains, Activate(e) PROVE FALSE
  <2>1. connection'[e] = [connection[e] EXCEPT !.active = TRUE]
        /\ \A f \in Domains \ {e} : connection'[f] = connection[f]
    BY <1>4, PutOne DEF Activate
  <2> QED
    BY <1>1, <2>1 DEF Connection
<1>5. ASSUME NEW e \in Domains, Delete(e) PROVE FALSE
  <2>1. connection'[e] = NoConnection /\ \A f \in Domains \ {e} : connection'[f] = connection[f]
    BY <1>5, PutOne DEF Delete
  <2> QED
    BY <2>1 DEF Exists
<1>6. ASSUME NEW p \in SsoHandlers, RecordTest(p) PROVE FALSE
  <2>1. acs[p].domain \in Domains
    BY <1>6 DEF RecordTest, SamlTypeOK, Taking
  <2>2. CASE ~Exists(acs[p].domain)
    BY <1>6, <2>2 DEF RecordTest
  <2>3. CASE Exists(acs[p].domain)
    <3>1. Put(acs[p].domain, [connection[acs[p].domain] EXCEPT !.verified = TRUE])
      BY <1>6, <2>3 DEF RecordTest
    <3>2. connection'[acs[p].domain] = [connection[acs[p].domain] EXCEPT !.verified = TRUE]
      BY <2>1, <3>1, PutOne
    <3>3. \A f \in Domains \ {acs[p].domain} : connection'[f] = connection[f]
      BY <2>1, <3>1, PutOne
    <3>4. d = acs[p].domain
      BY <3>3
    <3> QED
      BY <1>1, <3>2, <3>4 DEF Connection
  <2> QED
    BY <2>2, <2>3
<1>7. ASSUME UNCHANGED connection PROVE FALSE
  BY <1>7
<1> QED
  BY <1>2, <1>3, <1>4, <1>5, <1>6, <1>7
     DEF SamlNext, samlVars, TakeAssertion, Reject, Enter

\* Only an operator replaces a connection under its users: what a customer drafts never
\* takes the place of a row that is there (create_saml_connection_draft).
THEOREM OnlyOperatorsReplace == SamlSpec => RowsAreNotOverwritten
<1>1. SamlTypeOK /\ [SamlNext]_samlVars =>
        [\A d \in Domains :
           Exists(d) /\ Exists(d)' /\ connection[d].metadata # connection[d]'.metadata
             => connection[d]'.byOperator]_samlVars
  BY OnlySaveReplaces
<1>2. SamlInit => SamlTypeOK
  BY SamlInitInv DEF SamlInv
<1> QED
  BY <1>1, <1>2, SamlTypeStep, PTL DEF SamlSpec, RowsAreNotOverwritten

-------------------------------------------------------------------------------
(***************************************************************************)
(* Keys.  A rotation that was alone since it listed the keys still has on   *)
(* its list every active key of its caller, so it ends with the one it      *)
(* issues.                                                                  *)
(***************************************************************************)

LeftWereIssued == \A p \in Routes : request[p] # NoRoute => \A k \in request[p].left : keys[k] # NoKey

\* Keys are claimed and rotated for somebody.
CallersAreKnown ==
    \A p \in Routes : request[p] # NoRoute /\ request[p].pc \in {"claim", "rotate"}
                         => request[p].by \in Principals

RotationListsAll ==
    \A p \in Routes, u \in Principals, a \in Apps :
        Rotating(p, u, a) /\ request[p].alone => Held(u, a) \subseteq request[p].left

(***************************************************************************)
(* Billing.  An application's events are those of its subscriptions, the    *)
(* first names the plan and the last the status; its row, as long as it was *)
(* written in Stripe's order, is what the events up to "applied" say.       *)
(***************************************************************************)
About(i) == events[i].write.sub
Events == 1 .. Len(events)

\* What a handler writes is the event it was given, or the free plan of a claim.
WritesAreEvents ==
    \A p \in Routes : request[p] # NoRoute =>
        LET i == request[p].event
        IN  \/ i = 0 /\ request[p].write = FreeStub
            \/ /\ i \in Events /\ events[i].app = request[p].app
               /\ events[i].write = request[p].write

EventsAreOfSubscriptions ==
    \A i \in Events : /\ About(i) \in Subscriptions /\ subs[About(i)] # NoSubscription
                      /\ subs[About(i)].app = events[i].app

FirstNamesThePlan ==
    \A i \in Events :
        events[i].write.plan = IF \E j \in 1 .. i - 1 : About(j) = About(i)
                               THEN Unset ELSE subs[About(i)].plan

LastNamesTheStatus ==
    \A s \in Subscriptions : subs[s] # NoSubscription =>
        \E i \in Events : /\ About(i) = s /\ events[i].write.status = subs[s].status
                          /\ \A j \in i + 1 .. Len(events) : About(j) # s

AnsweredAreApplied == \A i \in answered : i <= applied[events[i].app]

AppliedIsOwn ==
    \A a \in Apps : applied[a] > 0 => billing[a] # NoRow /\ events[applied[a]].app = a

RowIsWhatStripeSaid ==
    \A a \in straight, s \in Subscriptions :
        SubscriptionsOf(a) = {s} /\ applied[a] > 0
            => /\ billing[a].plan = subs[s].plan
               /\ billing[a].status = events[applied[a]].write.status

TenancyInv ==
    /\ TenancyTypeOK
    /\ CallersAreKnown /\ LeftWereIssued /\ RotationListsAll
    /\ WritesAreEvents /\ EventsAreOfSubscriptions /\ FirstNamesThePlan /\ LastNamesTheStatus
    /\ AnsweredAreApplied /\ AppliedIsOwn /\ RowIsWhatStripeSaid

-------------------------------------------------------------------------------
(* Keys *)

\* Issuing a key adds it to what its creator holds of its application, and to nothing else.
LEMMA IssuedKeys ==
    ASSUME TenancyTypeOK, NEW k \in KeyIds, NEW a \in Apps, NEW u \in Creators, Issued(k, a, u)
    PROVE  /\ keys' \in [KeyIds -> Key \cup {NoKey}]
           /\ \A j \in KeyIds : keys[j] # NoKey => keys'[j] # NoKey
           /\ k \notin Held(u, a)
           /\ \A v, b : Held(v, b)' = IF v = u /\ b = a THEN Held(v, b) \cup {k} ELSE Held(v, b)
<1> DEFINE new == [app |-> a, by |-> u, active |-> TRUE]
<1>1. /\ keys[k] = NoKey /\ keys' = [keys EXCEPT ![k] = new]
      /\ keys \in [KeyIds -> Key \cup {NoKey}]
    BY DEF Issued, TenancyTypeOK
<1>2. /\ new \in Key /\ new # NoKey /\ new.app = a /\ new.by = u /\ new.active
    <2>1. new \in Key
        BY DEF Key
    <2>2. new.app = a /\ new.by = u /\ new.active
        OBVIOUS
    <2> HIDE DEF new
    <2> QED
        BY <2>1, <2>2
<1> HIDE DEF new
<1>3. /\ keys'[k] = new /\ \A j \in KeyIds \ {k} : keys'[j] = keys[j]
      /\ keys' \in [KeyIds -> Key \cup {NoKey}]
    BY <1>1, <1>2
<1>4. \A j \in KeyIds : keys[j] # NoKey => keys'[j] # NoKey
    BY <1>1, <1>3
<1>5. ASSUME NEW v, NEW b
      PROVE  Held(v, b)' = IF v = u /\ b = a THEN Held(v, b) \cup {k} ELSE Held(v, b)
    BY <1>1, <1>2, <1>3 DEF Held, ActiveKeys, KeysOf
<1>6. k \notin Held(u, a)
    BY <1>1 DEF Held, ActiveKeys, KeysOf
<1> QED
    BY <1>3, <1>4, <1>5, <1>6

\* Revoking a key takes it from who holds it, and gives nobody another.
LEMMA RevokedKeys ==
    ASSUME TenancyTypeOK, NEW k \in KeyIds, keys[k] # NoKey, Revoked(k)
    PROVE  /\ keys' \in [KeyIds -> Key \cup {NoKey}]
           /\ \A j \in KeyIds : keys[j] # NoKey => keys'[j] # NoKey
           /\ \A v, b : Held(v, b)' \subseteq Held(v, b) \ {k}
<1> DEFINE old == [keys[k] EXCEPT !.active = FALSE]
<1>1. keys' = [keys EXCEPT ![k] = old] /\ keys \in [KeyIds -> Key \cup {NoKey}]
    BY DEF Revoked, TenancyTypeOK
<1>2. old \in Key /\ old # NoKey /\ ~ old.active
    <2>1. keys[k] \in Key
        BY <1>1
    <2>2. old \in Key /\ old.active = FALSE
        BY <2>1 DEF Key
    <2> HIDE DEF old
    <2> QED
        BY <2>2
<1> HIDE DEF old
<1>3. /\ keys'[k] = old /\ \A j \in KeyIds \ {k} : keys'[j] = keys[j]
      /\ keys' \in [KeyIds -> Key \cup {NoKey}]
    BY <1>1, <1>2
<1>4. \A j \in KeyIds : keys[j] # NoKey => keys'[j] # NoKey
    BY <1>2, <1>3
<1>5. ASSUME NEW v, NEW b
      PROVE  Held(v, b)' \subseteq Held(v, b) \ {k}
    BY <1>2, <1>3 DEF Held, ActiveKeys, KeysOf
<1> QED
    BY <1>3, <1>4, <1>5

-------------------------------------------------------------------------------
(* Handlers *)

LEMMA RequestParts ==
    ASSUME NEW h \in Request
    PROVE  /\ h.pc \in {"claim", "rotate", "look", "insert"} /\ h.app \in Apps
           /\ h.by \in Principals \cup {Unset} /\ h.left \in SUBSET KeyIds
           /\ h.write \in Write /\ h.event \in 0 .. MaxEvents /\ h.alone \in BOOLEAN
           /\ h # NoRoute
    BY DEF Request, NoRoute

\* A handler that goes on keeps whom it works for and what it writes.
GoesOn(q) ==
    request'[q] # NoRoute =>
        /\ request[q] # NoRoute /\ request'[q] \in Request
        /\ request'[q].app = request[q].app /\ request'[q].by = request[q].by
        /\ request'[q].write = request[q].write /\ request'[q].event = request[q].event
        /\ request'[q].left \subseteq request[q].left
        /\ request'[q].alone => request[q].alone
        /\ request'[q].pc \in {"claim", "rotate"} => request'[q].pc = request[q].pc

\* Handlers that go on keep their lists, as long as nobody gains a key unknown to them.
LEMMA HandlersGoOn ==
    ASSUME TenancyInv, request' \in [Routes -> Request \cup {NoRoute}], \A q \in Routes : GoesOn(q),
           \A k \in KeyIds : keys[k] # NoKey => keys'[k] # NoKey,
           \A q \in Routes, u \in Principals, a \in Apps :
               Rotating(q, u, a) /\ Rotating(q, u, a)' /\ request'[q].alone
                   /\ Held(u, a) \subseteq request[q].left
                   => Held(u, a)' \subseteq request'[q].left,
           Len(events) \in Nat, Len(events') \in Nat, Len(events') >= Len(events),
           \A i \in Events : events'[i] = events[i]
    PROVE  CallersAreKnown' /\ LeftWereIssued' /\ RotationListsAll' /\ WritesAreEvents'
<1>0. CallersAreKnown'
    BY DEF CallersAreKnown, GoesOn, TenancyInv
<1>1. LeftWereIssued'
    <2> SUFFICES ASSUME NEW q \in Routes, request'[q] # NoRoute, NEW k \in request'[q].left
                 PROVE  keys'[k] # NoKey
        BY DEF LeftWereIssued
    <2>1. k \in request[q].left /\ request[q] # NoRoute /\ request[q] \in Request
        BY DEF GoesOn, TenancyInv, TenancyTypeOK
    <2>2. k \in KeyIds /\ keys[k] # NoKey
        BY <2>1, RequestParts DEF TenancyInv, LeftWereIssued
    <2> QED
        BY <2>2
<1>2. RotationListsAll'
    <2> SUFFICES ASSUME NEW q \in Routes, NEW u \in Principals, NEW a \in Apps,
                        Rotating(q, u, a)', request'[q].alone
                 PROVE  Held(u, a)' \subseteq request'[q].left
        BY DEF RotationListsAll
    <2>1. Rotating(q, u, a) /\ request[q].alone
        BY DEF Rotating, GoesOn
    <2>2. Held(u, a) \subseteq request[q].left
        BY <2>1 DEF TenancyInv, RotationListsAll
    <2> QED
        BY <2>1, <2>2
<1>3. WritesAreEvents'
    <2> SUFFICES ASSUME NEW q \in Routes, request'[q] # NoRoute
                 PROVE  LET i == request'[q].event
                        IN  \/ i = 0 /\ request'[q].write = FreeStub
                            \/ /\ i \in 1 .. Len(events') /\ events'[i].app = request'[q].app
                               /\ events'[i].write = request'[q].write
        BY DEF WritesAreEvents, Events, FreeStub
    <2>1. /\ request[q] # NoRoute
          /\ request'[q].app = request[q].app
          /\ request'[q].write = request[q].write /\ request'[q].event = request[q].event
        BY DEF GoesOn
    <2>2. \/ request[q].event = 0 /\ request[q].write = FreeStub
          \/ /\ request[q].event \in Events /\ events[request[q].event].app = request[q].app
             /\ events[request[q].event].write = request[q].write
        BY <2>1 DEF TenancyInv, WritesAreEvents
    <2> QED
        BY <2>1, <2>2 DEF Events
<1> QED
    BY <1>0, <1>1, <1>2, <1>3

\* Events, subscriptions and rows as they were: so is what is known of them.
LEMMA BillsStay ==
    ASSUME TenancyInv, UNCHANGED <<billing, subs, events, answered, applied, straight>>
    PROVE  /\ EventsAreOfSubscriptions' /\ FirstNamesThePlan' /\ LastNamesTheStatus'
           /\ AnsweredAreApplied' /\ AppliedIsOwn' /\ RowIsWhatStripeSaid'
<1>1. EventsAreOfSubscriptions' /\ FirstNamesThePlan' /\ LastNamesTheStatus'
    BY DEF TenancyInv, EventsAreOfSubscriptions, FirstNamesThePlan, LastNamesTheStatus, About, Events
<1>2. AnsweredAreApplied' /\ AppliedIsOwn' /\ RowIsWhatStripeSaid'
    BY DEF TenancyInv, AnsweredAreApplied, AppliedIsOwn, RowIsWhatStripeSaid, SubscriptionsOf
<1> QED
    BY <1>1, <1>2

LEMMA EventsLength ==
    ASSUME TenancyTypeOK
    PROVE  /\ Len(events) \in Nat /\ Len(events) <= MaxEvents
           /\ \A i \in Events : events[i] \in Event
    BY DEF TenancyTypeOK, Events

\* A handler begins: with all that its caller holds when it rotates, with an event that
\* was raised when Stripe calls.
LEMMA BeginKeeps ==
    ASSUME TenancyInv, NEW p \in Routes, NEW pc \in {"claim", "rotate", "look"}, NEW a \in Apps,
           NEW u \in Principals \cup {Unset}, NEW left \in SUBSET KeyIds, NEW write \in Write,
           NEW event \in 0 .. MaxEvents, Begin(p, pc, a, u, left, write, event),
           UNCHANGED <<keys, billing, subs, events, answered, applied, straight>>,
           \A k \in left : keys[k] # NoKey,
           pc # "look" => u \in Principals, pc = "rotate" => left = Held(u, a),
           \/ event = 0 /\ write = FreeStub
           \/ event \in Events /\ events[event].app = a /\ events[event].write = write
    PROVE  TenancyInv'
<1> DEFINE new == [pc |-> pc, app |-> a, by |-> u, left |-> left, write |-> write,
                   event |-> event, alone |-> TRUE]
<1>1. /\ request[p] = NoRoute /\ request' = [request EXCEPT ![p] = new]
      /\ request \in [Routes -> Request \cup {NoRoute}]
    BY DEF Begin, TenancyInv, TenancyTypeOK
<1>2. /\ new \in Request /\ new.pc = pc /\ new.app = a /\ new.by = u /\ new.left = left
      /\ new.write = write /\ new.event = event
    BY DEF Request
<1> HIDE DEF new
<1>3. /\ request'[p] = new /\ \A q \in Routes \ {p} : request'[q] = request[q]
      /\ request' \in [Routes -> Request \cup {NoRoute}]
    BY <1>1, <1>2
<1>4. TenancyTypeOK'
    BY <1>3 DEF TenancyInv, TenancyTypeOK
<1>5. CallersAreKnown' /\ LeftWereIssued'
    BY <1>2, <1>3 DEF TenancyInv, LeftWereIssued, CallersAreKnown
<1>6. RotationListsAll'
    <2> SUFFICES ASSUME NEW q \in Routes, NEW v \in Principals, NEW b \in Apps,
                        Rotating(q, v, b)', request'[q].alone
                 PROVE  Held(v, b)' \subseteq request'[q].left
        BY DEF RotationListsAll
    <2>1. Held(v, b)' = Held(v, b)
        BY DEF Held, ActiveKeys, KeysOf
    <2>2. CASE q = p
        BY <1>2, <1>3, <2>1, <2>2 DEF Rotating
    <2>3. CASE q # p
        BY <1>3, <2>1, <2>3 DEF Rotating, TenancyInv, RotationListsAll
    <2> QED
        BY <2>2, <2>3
<1>7. WritesAreEvents'
    BY <1>2, <1>3 DEF TenancyInv, WritesAreEvents, Events, FreeStub
<1> QED
    BY <1>4, <1>5, <1>6, <1>7, BillsStay DEF TenancyInv
\* What stays of the handlers when a key is issued: the rotations of its creator are no
\* longer alone.
LEMMA OvertakenOnes ==
    ASSUME TenancyTypeOK, NEW a, NEW u, NEW q \in Routes
    PROVE  LET h == Overtaken(a, u)[q]
           IN  /\ h = NoRoute <=> request[q] = NoRoute
               /\ h # NoRoute =>
                   /\ h \in Request /\ request[q] \in Request
                   /\ h.pc = request[q].pc /\ h.app = request[q].app /\ h.by = request[q].by
                   /\ h.write = request[q].write /\ h.event = request[q].event
                   /\ h.left = request[q].left /\ (h.alone => request[q].alone)
                   /\ Rotating(q, u, a) => ~ h.alone
<1>1. request[q] \in Request \cup {NoRoute}
    BY DEF TenancyTypeOK
<1>2. CASE Rotating(q, u, a)
    <2>1. Overtaken(a, u)[q] = [request[q] EXCEPT !.alone = FALSE] /\ request[q] \in Request
        BY <1>1, <1>2 DEF Overtaken, Rotating
    <2> DEFINE h == [request[q] EXCEPT !.alone = FALSE]
    <2>2. /\ h \in Request /\ h.pc = request[q].pc /\ h.app = request[q].app /\ h.by = request[q].by
          /\ h.write = request[q].write /\ h.event = request[q].event
          /\ h.left = request[q].left /\ h.alone = FALSE
        BY <2>1 DEF Request
    <2> HIDE DEF h
    <2>3. h # NoRoute /\ request[q] # NoRoute
        BY <2>1, <2>2, RequestParts
    <2>4. Overtaken(a, u)[q] = h
        BY <2>1 DEF h
    <2> QED
        BY <2>1, <2>2, <2>3, <2>4
<1>3. CASE ~ Rotating(q, u, a)
    <2>1. Overtaken(a, u)[q] = request[q]
        BY <1>3 DEF Overtaken
    <2> QED
        BY <1>1, <1>3, <2>1
<1> QED
    BY <1>2, <1>3

\* A claim or a rotation issues its key.
LEMMA IssueKeeps ==
    ASSUME TenancyInv, NEW p \in Routes, NEW k \in KeyIds, IssueClaimed(p, k) \/ IssueRotated(p, k)
    PROVE  TenancyInv'
<1> DEFINE a == request[p].app
           u == request[p].by
           o == Overtaken(a, u)
           last == [o[p] EXCEPT !.pc = "look"]
<1>1. /\ request[p] \in Request /\ request[p] # NoRoute /\ a \in Apps /\ u \in Principals
      /\ Issued(k, a, u)
      /\ request' = [o EXCEPT ![p] = last] \/ request' = [o EXCEPT ![p] = NoRoute]
      /\ UNCHANGED <<billing, subs, events, answered, applied, straight>>
    <2>1. request[p] \in Request /\ request[p] # NoRoute
        BY RequestParts DEF IssueClaimed, IssueRotated, TenancyInv, TenancyTypeOK, NoRoute
    <2> QED
        BY <2>1, RequestParts DEF IssueClaimed, IssueRotated, TenancyInv, CallersAreKnown
<1>2. TenancyTypeOK
    BY DEF TenancyInv
<1>3. /\ o[p] # NoRoute /\ o[p] \in Request
      /\ o[p].pc = request[p].pc /\ o[p].app = a /\ o[p].by = u
      /\ o[p].write = request[p].write /\ o[p].event = request[p].event
      /\ o[p].left = request[p].left /\ (o[p].alone => request[p].alone)
    BY <1>1, <1>2, OvertakenOnes
<1>4. /\ last \in Request /\ last.pc = "look" /\ last.app = a /\ last.by = u
      /\ last.write = request[p].write /\ last.event = request[p].event
      /\ last.left = request[p].left /\ (last.alone => request[p].alone)
    BY <1>3 DEF Request
<1>5. DOMAIN o = Routes /\ o = [q \in Routes |-> o[q]]
    BY DEF Overtaken
<1> HIDE DEF o, last
<1>6. /\ request'[p] \in {last, NoRoute} /\ \A q \in Routes \ {p} : request'[q] = o[q]
      /\ DOMAIN request' = Routes /\ request' = [q \in Routes |-> request'[q]]
    BY <1>1, <1>5
<1>7. ASSUME NEW q \in Routes, q # p
      PROVE  /\ request'[q] = NoRoute <=> request[q] = NoRoute
             /\ request'[q] # NoRoute =>
                   /\ request'[q] \in Request /\ request[q] \in Request
                   /\ request'[q].pc = request[q].pc /\ request'[q].app = request[q].app
                   /\ request'[q].by = request[q].by
                   /\ request'[q].write = request[q].write /\ request'[q].event = request[q].event
                   /\ request'[q].left = request[q].left /\ (request'[q].alone => request[q].alone)
                   /\ Rotating(q, u, a) => ~ request'[q].alone
    BY <1>2, <1>6, <1>7, OvertakenOnes DEF o
<1>8. request' \in [Routes -> Request \cup {NoRoute}]
    BY <1>4, <1>6, <1>7
<1>9. \A q \in Routes : GoesOn(q)
    <2>1. GoesOn(p)
        BY <1>1, <1>4, <1>6 DEF GoesOn
    <2>2. ASSUME NEW q \in Routes, q # p PROVE GoesOn(q)
        BY <1>7, <2>2 DEF GoesOn
    <2> QED
        BY <2>1, <2>2
<1>10. /\ keys' \in [KeyIds -> Key \cup {NoKey}]
       /\ \A j \in KeyIds : keys[j] # NoKey => keys'[j] # NoKey
       /\ \A v, b : Held(v, b)' = IF v = u /\ b = a THEN Held(v, b) \cup {k} ELSE Held(v, b)
    <2>1. u \in Creators
        BY <1>1 DEF Creators
    <2> QED
        BY <1>1, <1>2, <2>1, IssuedKeys
<1>11. ASSUME NEW q \in Routes, NEW v \in Principals, NEW b \in Apps,
              Rotating(q, v, b), Rotating(q, v, b)', request'[q].alone,
              Held(v, b) \subseteq request[q].left
       PROVE  Held(v, b)' \subseteq request'[q].left
    <2>1. q # p
        BY <1>4, <1>6, <1>11 DEF Rotating
    <2>2. ~ Rotating(q, u, a) /\ request'[q].left = request[q].left
        BY <1>7, <1>11, <2>1 DEF Rotating
    <2>3. ~ (v = u /\ b = a)
        BY <1>11, <2>2
    <2> QED
        BY <1>10, <1>11, <2>2, <2>3
<1>12. TenancyTypeOK'
    BY <1>1, <1>2, <1>8, <1>10 DEF TenancyTypeOK
<1>13. CallersAreKnown' /\ LeftWereIssued' /\ RotationListsAll' /\ WritesAreEvents'
    <2>1. events' = events /\ Len(events) \in Nat
        BY <1>1, <1>2, EventsLength
    <2> QED
        BY <1>8, <1>9, <1>10, <1>11, <2>1, HandlersGoOn
<1> QED
    BY <1>1, <1>12, <1>13, BillsStay DEF TenancyInv

\* A key is revoked: by the rotation that has it on its list, or by anybody.
LEMMA RevokeKeeps ==
    ASSUME TenancyInv, NEW k \in KeyIds,
           \/ \E p \in Routes : RevokeListed(p, k)
           \/ \E u \in Principals : RevokeOwn(u, k)
           \/ AdminRevoke(k)
    PROVE  TenancyInv'
<1>1. TenancyTypeOK /\ request \in [Routes -> Request \cup {NoRoute}]
    BY DEF TenancyInv, TenancyTypeOK
<1>2. ASSUME NEW p \in Routes, RevokeListed(p, k)
      PROVE  /\ request[p] \in Request /\ k \in request[p].left /\ keys[k] # NoKey
             /\ request' = [request EXCEPT ![p] = [request[p] EXCEPT !.left = request[p].left \ {k}]]
    <2>1. request[p] \in Request /\ request[p] # NoRoute
        BY <1>1, <1>2, RequestParts DEF RevokeListed, NoRoute
    <2> QED
        BY <1>2, <2>1 DEF RevokeListed, TenancyInv, LeftWereIssued
<1>3. /\ keys[k] # NoKey /\ Revoked(k)
      /\ UNCHANGED <<billing, subs, events, answered, applied, straight>>
    BY <1>2 DEF RevokeListed, RevokeOwn, AdminRevoke
<1> DEFINE Loses(q) ==
               /\ request[q] # NoRoute /\ request'[q] \in Request
               /\ request'[q].app = request[q].app /\ request'[q].by = request[q].by
               /\ request'[q].write = request[q].write /\ request'[q].event = request[q].event
               /\ request'[q].left \subseteq request[q].left
               /\ request[q].left \ {k} \subseteq request'[q].left
               /\ request'[q].alone = request[q].alone /\ request'[q].pc = request[q].pc
<1>4. ASSUME NEW q \in Routes, request'[q] # NoRoute
      PROVE  Loses(q)
    <2>1. CASE request' = request
        BY <1>1, <1>4, <2>1
    <2>2. ASSUME NEW p \in Routes, RevokeListed(p, k)
          PROVE  Loses(q)
        <3> DEFINE h == [request[p] EXCEPT !.left = request[p].left \ {k}]
        <3>1. /\ h \in Request /\ h.app = request[p].app /\ h.by = request[p].by
              /\ h.write = request[p].write /\ h.event = request[p].event
              /\ h.left = request[p].left \ {k}
              /\ h.alone = request[p].alone /\ h.pc = request[p].pc
            BY <1>2, <2>2 DEF Request
        <3>2. request' = [request EXCEPT ![p] = h] /\ request[p] \in Request
            BY <1>2, <2>2
        <3> HIDE DEF h
        <3>3. request[p] # NoRoute
            BY <3>2, RequestParts
        <3>4. CASE q = p
            BY <1>1, <3>1, <3>2, <3>3, <3>4
        <3>5. CASE q # p
            BY <1>1, <1>4, <3>2, <3>5
        <3> QED
            BY <3>4, <3>5
    <2>3. request' = request \/ \E p \in Routes : RevokeListed(p, k)
        BY DEF RevokeOwn, AdminRevoke
    <2> QED
        BY <2>1, <2>2, <2>3
<1>5. request' \in [Routes -> Request \cup {NoRoute}]
    <2>1. DOMAIN request' = Routes /\ request' = [q \in Routes |-> request'[q]]
        BY <1>1, <1>2 DEF RevokeOwn, AdminRevoke
    <2> QED
        BY <1>4, <2>1
<1>6. /\ keys' \in [KeyIds -> Key \cup {NoKey}]
      /\ \A j \in KeyIds : keys[j] # NoKey => keys'[j] # NoKey
      /\ \A v, b : Held(v, b)' \subseteq Held(v, b) \ {k}
    BY <1>1, <1>3, RevokedKeys
<1>7. \A q \in Routes : GoesOn(q)
    BY <1>4 DEF GoesOn
<1>8. ASSUME NEW q \in Routes, NEW v \in Principals, NEW b \in Apps,
             Rotating(q, v, b)', Held(v, b) \subseteq request[q].left
      PROVE  Held(v, b)' \subseteq request'[q].left
    <2>1. request[q].left \ {k} \subseteq request'[q].left
        BY <1>4, <1>8 DEF Rotating
    <2> QED
        BY <1>6, <1>8, <2>1
<1>9. TenancyTypeOK'
    BY <1>1, <1>3, <1>5, <1>6 DEF TenancyTypeOK
<1>10. CallersAreKnown' /\ LeftWereIssued' /\ RotationListsAll' /\ WritesAreEvents'
    <2>1. events' = events /\ Len(events) \in Nat
        BY <1>1, <1>3, EventsLength
    <2> QED
        BY <1>5, <1>6, <1>7, <1>8, <2>1, HandlersGoOn
<1> QED
    BY <1>3, <1>9, <1>10, BillsStay DEF TenancyInv

\* The administrator issues keys of its own.
LEMMA AdminIssueKeeps ==
    ASSUME TenancyInv, NEW k \in KeyIds, NEW a \in Apps, AdminIssue(k, a)
    PROVE  TenancyInv'
<1>1. /\ TenancyTypeOK /\ Issued(k, a, Operator) /\ Operator \in Creators
      /\ UNCHANGED <<billing, request, subs, events, answered, applied, straight>>
    BY DEF TenancyInv, AdminIssue, Creators
<1>2. /\ keys' \in [KeyIds -> Key \cup {NoKey}]
      /\ \A j \in KeyIds : keys[j] # NoKey => keys'[j] # NoKey
      /\ \A v, b : Held(v, b)' = IF v = Operator /\ b = a THEN Held(v, b) \cup {k} ELSE Held(v, b)
    BY <1>1, IssuedKeys
<1>3. \A v \in Principals : v # Operator
    BY DEF Principals
<1>4. \A q \in Routes : GoesOn(q)
    BY <1>1 DEF GoesOn, TenancyTypeOK
<1>5. \A v \in Principals, b \in Apps : Held(v, b)' = Held(v, b)
    BY <1>2, <1>3
<1>6. TenancyTypeOK'
    BY <1>1, <1>2 DEF TenancyTypeOK
<1>7. CallersAreKnown' /\ LeftWereIssued' /\ RotationListsAll' /\ WritesAreEvents'
    <2>1. events' = events /\ Len(events) \in Nat /\ request' \in [Routes -> Request \cup {NoRoute}]
        BY <1>1, EventsLength DEF TenancyTypeOK
    <2> QED
        BY <1>1, <1>2, <1>4, <1>5, <2>1, HandlersGoOn
<1> QED
    BY <1>1, <1>6, <1>7, BillsStay DEF TenancyInv
\* A handler is done, or goes from the SELECT of upsert_billing to its INSERT.
LEMMA AnswerGoesOn ==
    ASSUME TenancyInv, NEW p \in Routes, UNCHANGED <<keys, events>>,
           Answer(p) \/ LookFindsNone(p)
    PROVE  /\ request' \in [Routes -> Request \cup {NoRoute}]
           /\ CallersAreKnown' /\ LeftWereIssued' /\ RotationListsAll' /\ WritesAreEvents'
<1>1. TenancyTypeOK /\ request \in [Routes -> Request \cup {NoRoute}]
    BY DEF TenancyInv, TenancyTypeOK
<1>2. CASE Answer(p)
    <2>1. /\ request' \in [Routes -> Request \cup {NoRoute}]
          /\ request'[p] = NoRoute /\ \A q \in Routes \ {p} : request'[q] = request[q]
        BY <1>1, <1>2 DEF Answer
    <2>2. \A q \in Routes : GoesOn(q)
        BY <1>1, <2>1 DEF GoesOn
    <2>3. \A q \in Routes, u \in Principals, a \in Apps :
              Rotating(q, u, a)' => Held(u, a)' = Held(u, a) /\ request'[q].left = request[q].left
        BY <2>1 DEF Rotating, Held, ActiveKeys, KeysOf
    <2>4. Len(events) \in Nat
        BY <1>1, EventsLength
    <2> QED
        BY <2>1, <2>2, <2>3, <2>4, HandlersGoOn
<1>3. CASE LookFindsNone(p)
    <2> DEFINE h == [request[p] EXCEPT !.pc = "insert"]
    <2>1. /\ request[p] \in Request /\ request[p] # NoRoute
          /\ request' = [request EXCEPT ![p] = h]
        BY <1>1, <1>3, RequestParts DEF LookFindsNone, NoRoute
    <2>2. /\ h \in Request /\ h.pc = "insert" /\ h.app = request[p].app /\ h.by = request[p].by
          /\ h.write = request[p].write /\ h.event = request[p].event
          /\ h.left = request[p].left /\ h.alone = request[p].alone
        BY <2>1 DEF Request
    <2> HIDE DEF h
    <2>3. /\ request' \in [Routes -> Request \cup {NoRoute}]
          /\ request'[p] = h /\ \A q \in Routes \ {p} : request'[q] = request[q]
        BY <1>1, <2>1, <2>2
    <2>4. GoesOn(p)
        BY <2>1, <2>2, <2>3 DEF GoesOn
    <2>5. \A q \in Routes \ {p} : GoesOn(q)
        BY <1>1, <2>3 DEF GoesOn
    <2>6. \A q \in Routes, u \in Principals, a \in Apps :
              Rotating(q, u, a)' => Held(u, a)' = Held(u, a) /\ request'[q].left = request[q].left
        BY <2>2, <2>3 DEF Rotating, Held, ActiveKeys, KeysOf
    <2>7. Len(events) \in Nat
        BY <1>1, EventsLength
    <2> QED
        BY <2>3, <2>4, <2>5, <2>6, <2>7, HandlersGoOn
<1> QED
    BY <1>2, <1>3

-------------------------------------------------------------------------------
(* Billing *)

\* Stripe raises an event about a subscription: its first with the plan, later ones with
\* none, and always with the status it has now.
LEMMA RaisedKeeps ==
    ASSUME TenancyInv, NEW s \in Subscriptions, NEW a \in Apps, NEW plan \in Plans \cup {Unset},
           NEW status \in Statuses, NEW new \in Subscription,
           Raised(a, plan, s, status), subs' = [subs EXCEPT ![s] = new],
           new.app = a, new.status = status,
           \/ subs[s] = NoSubscription /\ plan = new.plan
           \/ subs[s] # NoSubscription /\ plan = Unset /\ subs[s].app = a /\ subs[s].plan = new.plan
    PROVE  TenancyInv'
<1>0. PICK n \in Nat : n = Len(events)
    BY EventsLength DEF TenancyInv
<1> DEFINE e == [app |-> a, write |-> [plan |-> plan, sub |-> s, status |-> status]]
<1>1. /\ n < MaxEvents /\ events' = Append(events, e)
      /\ UNCHANGED <<keys, billing, request, answered, applied, straight>>
    BY <1>0 DEF Raised
<1>2. TenancyTypeOK /\ n \in Nat /\ events \in Seq(Event)
    BY <1>0, EventsLength DEF TenancyInv, TenancyTypeOK
<1>3. /\ e \in Event /\ e.app = a /\ e.write.sub = s /\ e.write.plan = plan /\ e.write.status = status
    BY DEF Event, Write
<1> HIDE DEF e
<1>4. /\ events' \in Seq(Event) /\ Len(events') = n + 1 /\ events'[n + 1] = e
      /\ \A i \in 1 .. n : events'[i] = events[i]
    BY <1>0, <1>1, <1>2, <1>3
<1>5. /\ Events = 1 .. n /\ Events' = 1 .. n + 1
      /\ \A i \in 1 .. n : About(i)' = About(i) /\ events'[i] = events[i]
      /\ About(n + 1)' = s /\ events'[n + 1] = e
    BY <1>0, <1>3, <1>4 DEF Events, About
<1>6. /\ subs' \in [Subscriptions -> Subscription \cup {NoSubscription}]
      /\ subs'[s] = new /\ subs'[s] # NoSubscription
      /\ \A r \in Subscriptions \ {s} : subs'[r] = subs[r]
    BY <1>2 DEF TenancyTypeOK
<1>7. \A r \in Subscriptions : subs[r] # NoSubscription
          => subs'[r] # NoSubscription /\ subs'[r].app = subs[r].app /\ subs'[r].plan = subs[r].plan
    BY <1>6
<1>8. /\ \A i \in 1 .. n : /\ About(i) \in Subscriptions /\ subs[About(i)] # NoSubscription
                           /\ subs[About(i)].app = events[i].app
      /\ \A i \in 1 .. n : events[i].write.plan =
             IF \E j \in 1 .. i - 1 : About(j) = About(i) THEN Unset ELSE subs[About(i)].plan
      /\ \A r \in Subscriptions : subs[r] # NoSubscription =>
             \E i \in 1 .. n : /\ About(i) = r /\ events[i].write.status = subs[r].status
                               /\ \A j \in i + 1 .. n : About(j) # r
    BY <1>0, <1>5 DEF TenancyInv, EventsAreOfSubscriptions, FirstNamesThePlan, LastNamesTheStatus
<1>9. TenancyTypeOK'
    <2>1. answered' \subseteq 1 .. n + 1 /\ applied' \in [Apps -> 0 .. n + 1]
        BY <1>0, <1>1, <1>2 DEF TenancyTypeOK
    <2>2. n + 1 <= MaxEvents
        BY <1>0, <1>1, <1>2
    <2> QED
        BY <1>1, <1>2, <1>4, <1>6, <2>1, <2>2 DEF TenancyTypeOK
<1>10. CallersAreKnown' /\ LeftWereIssued' /\ RotationListsAll' /\ WritesAreEvents'
    <2>1. \A q \in Routes : GoesOn(q)
        BY <1>1, <1>2 DEF GoesOn, TenancyTypeOK
    <2>2. \A u \in Principals, b \in Apps : Held(u, b)' = Held(u, b)
        BY <1>1 DEF Held, ActiveKeys, KeysOf
    <2>3. \A i \in Events : events'[i] = events[i]
        BY <1>5
    <2>4. /\ request' \in [Routes -> Request \cup {NoRoute}] /\ request' = request /\ keys' = keys
          /\ Len(events) \in Nat /\ Len(events') \in Nat /\ Len(events') >= Len(events)
        BY <1>0, <1>1, <1>2, <1>4 DEF TenancyTypeOK
    <2> QED
        BY <2>1, <2>2, <2>3, <2>4, HandlersGoOn
<1>11. EventsAreOfSubscriptions'
    <2> SUFFICES ASSUME NEW i \in 1 .. n + 1
                 PROVE  /\ About(i)' \in Subscriptions /\ subs'[About(i)'] # NoSubscription
                        /\ subs'[About(i)'].app = events'[i].app
        BY <1>5 DEF EventsAreOfSubscriptions, About
    <2>1. CASE i = n + 1
        BY <1>3, <1>5, <1>6, <2>1
    <2>2. CASE i \in 1 .. n
        BY <1>5, <1>7, <1>8, <2>2
    <2> QED
        BY <1>2, <2>1, <2>2
<1>12. FirstNamesThePlan'
    <2> SUFFICES ASSUME NEW i \in 1 .. n + 1
                 PROVE  events'[i].write.plan =
                            IF \E j \in 1 .. i - 1 : About(j)' = About(i)'
                            THEN Unset ELSE subs'[About(i)'].plan
        BY <1>5 DEF FirstNamesThePlan, About
    <2>1. CASE i = n + 1
        <3>1. 1 .. i - 1 = 1 .. n
            BY <1>2, <2>1
        <3>2. CASE subs[s] = NoSubscription
            <4>1. \A j \in 1 .. n : About(j)' # s
                BY <1>5, <1>8, <3>2
            <4> QED
                BY <1>3, <1>5, <1>6, <2>1, <3>1, <3>2, <4>1
        <3>3. CASE subs[s] # NoSubscription
            <4>1. \E j \in 1 .. n : About(j)' = s
                BY <1>5, <1>8, <3>3
            <4> QED
                BY <1>3, <1>5, <2>1, <3>1, <3>3, <4>1
        <3> QED
            BY <3>2, <3>3
    <2>2. CASE i \in 1 .. n
        <3>1. \A j \in 1 .. i - 1 : About(j)' = About(j)
            BY <1>2, <1>5, <2>2
        <3>2. /\ About(i)' = About(i) /\ events'[i] = events[i]
              /\ subs'[About(i)].plan = subs[About(i)].plan
            BY <1>5, <1>7, <1>8, <2>2
        <3> QED
            BY <1>8, <2>2, <3>1, <3>2
    <2> QED
        BY <1>2, <2>1, <2>2
<1>13. LastNamesTheStatus'
    <2> SUFFICES ASSUME NEW r \in Subscriptions, subs'[r] # NoSubscription
                 PROVE  \E i \in 1 .. n + 1 :
                            /\ About(i)' = r /\ events'[i].write.status = subs'[r].status
                            /\ \A j \in i + 1 .. n + 1 : About(j)' # r
        BY <1>4, <1>5 DEF LastNamesTheStatus, About
    <2>1. CASE r = s
        BY <1>2, <1>3, <1>5, <1>6, <2>1
    <2>2. CASE r # s
        <3>1. PICK i \in 1 .. n : /\ About(i) = r /\ events[i].write.status = subs[r].status
                                  /\ \A j \in i + 1 .. n : About(j) # r
            BY <1>6, <1>8, <2>2
        <3>2. \A j \in i + 1 .. n + 1 : About(j)' # r
            <4> SUFFICES ASSUME NEW j \in i + 1 .. n + 1 PROVE About(j)' # r
                OBVIOUS
            <4>1. CASE j = n + 1
                BY <1>5, <2>2, <4>1
            <4>2. CASE j # n + 1
                BY <1>2, <1>5, <3>1, <4>2
            <4> QED
                BY <4>1, <4>2
        <3> QED
            BY <1>2, <1>5, <1>6, <2>2, <3>1, <3>2
    <2> QED
        BY <2>1, <2>2
<1>14. /\ answered \subseteq 1 .. n
       /\ \A b \in Apps : applied[b] \in 0 .. n
       /\ \A b \in Apps : applied[b] > 0 => applied[b] \in 1 .. n /\ events'[applied[b]] = events[applied[b]]
    <2>1. answered \subseteq 1 .. n /\ \A b \in Apps : applied[b] \in 0 .. n
        BY <1>0, <1>2 DEF TenancyTypeOK
    <2> QED
        BY <1>2, <1>5, <2>1
<1>15. AnsweredAreApplied'
    BY <1>1, <1>5, <1>14 DEF TenancyInv, AnsweredAreApplied
<1>16. AppliedIsOwn'
    BY <1>1, <1>14 DEF TenancyInv, AppliedIsOwn
<1>17. RowIsWhatStripeSaid'
    <2> SUFFICES ASSUME NEW b \in straight, NEW r \in Subscriptions,
                        SubscriptionsOf(b)' = {r}, applied[b] > 0
                 PROVE  /\ billing[b].plan = subs'[r].plan
                        /\ billing[b].status = events'[applied[b]].write.status
        BY <1>1 DEF RowIsWhatStripeSaid
    <2>1. b \in Apps
        BY <1>2 DEF TenancyTypeOK
    <2> DEFINE i == applied[b]
    <2>2. i \in 1 .. n /\ events'[i] = events[i] /\ events[i].app = b
        BY <1>14, <2>1 DEF TenancyInv, AppliedIsOwn
    <2>3. SubscriptionsOf(b) \subseteq SubscriptionsOf(b)'
        BY <1>7 DEF SubscriptionsOf
    <2>4. About(i) \in SubscriptionsOf(b)
        BY <1>8, <2>2 DEF SubscriptionsOf
    <2>5. SubscriptionsOf(b) = {r}
        BY <2>3, <2>4
    <2>6. billing[b].plan = subs[r].plan /\ billing[b].status = events[i].write.status
        BY <2>5 DEF TenancyInv, RowIsWhatStripeSaid
    <2>7. subs[r] # NoSubscription
        BY <2>5 DEF SubscriptionsOf
    <2> QED
        BY <1>7, <2>2, <2>6, <2>7
<1> QED
    BY <1>9, <1>10, <1>11, <1>12, <1>13, <1>15, <1>16, <1>17 DEF TenancyInv

\* A handler writes its row: of a claim, of an event that is the next of its application,
\* of the last one again, or of another, which leads the row astray.
LEMMA WrittenKeeps ==
    ASSUME TenancyInv, NEW p \in Routes, request[p] \in Request, NEW old \in Row,
           Written(p, Merged(old, request[p].write)),
           \/ billing[request[p].app] = old
           \/ billing[request[p].app] = NoRow
    PROVE  TenancyInv'
<1> DEFINE a == request[p].app
           i == request[p].event
           write == request[p].write
           row == Merged(old, write)
           n == Len(events)
<1>1. /\ billing' = [billing EXCEPT ![a] = row]
      /\ applied' = [applied EXCEPT ![a] = IF i > applied[a] THEN i ELSE applied[a]]
      /\ straight' = IF i >= applied[a] /\ \A j \in applied[a] + 1 .. i - 1 : events[j].app # a
                     THEN straight ELSE straight \ {a}
      /\ answered' = IF i = 0 THEN answered ELSE answered \cup {i}
      /\ Answer(p) /\ keys' = keys /\ subs' = subs /\ events' = events
    BY DEF Written
<1>2. /\ TenancyTypeOK /\ n \in Nat /\ a \in Apps /\ i \in Nat /\ write \in Write
      /\ applied \in [Apps -> 0 .. n] /\ applied[a] \in 0 .. n /\ answered \subseteq 1 .. n
      /\ straight \subseteq Apps
    BY EventsLength, RequestParts DEF TenancyInv, TenancyTypeOK
<1>3. request[p] # NoRoute
    BY RequestParts
<1>4. \/ i = 0 /\ write = FreeStub
      \/ i \in 1 .. n /\ events[i].app = a /\ events[i].write = write
    BY <1>3 DEF TenancyInv, WritesAreEvents, Events
<1>5. /\ row \in Row /\ row # NoRow /\ row.status = write.status
      /\ row.plan = IF write.plan = Unset THEN old.plan ELSE write.plan
    <2>1. row = [plan |-> IF write.plan = Unset THEN old.plan ELSE write.plan,
                 sub |-> IF write.sub = Unset THEN old.sub ELSE write.sub, status |-> write.status]
        BY DEF Merged
    <2>2. row \in Row
        BY <1>2, <2>1 DEF Row, Write
    <2> HIDE DEF row
    <2> QED
        BY <2>1, <2>2
<1> HIDE DEF a, i, write, row, n
<1>6. /\ applied' \in [Apps -> 0 .. n] /\ applied'[a] = IF i > applied[a] THEN i ELSE applied[a]
      /\ \A b \in Apps \ {a} : applied'[b] = applied[b]
      /\ \A b \in Apps : applied'[b] >= applied[b]
    BY <1>1, <1>2, <1>4
<1>7. /\ billing' \in [Apps -> Row \cup {NoRow}] /\ billing'[a] = row
      /\ \A b \in Apps \ {a} : billing'[b] = billing[b]
    BY <1>1, <1>2, <1>5 DEF TenancyTypeOK
<1>8. /\ request' \in [Routes -> Request \cup {NoRoute}]
      /\ CallersAreKnown' /\ LeftWereIssued' /\ RotationListsAll' /\ WritesAreEvents'
    BY <1>1, AnswerGoesOn
<1>9. TenancyTypeOK'
    <2>1. answered' \subseteq 1 .. n /\ straight' \subseteq Apps
        BY <1>1, <1>2, <1>4
    <2> QED
        BY <1>1, <1>2, <1>6, <1>7, <1>8, <2>1 DEF TenancyTypeOK, n
<1>10. EventsAreOfSubscriptions' /\ FirstNamesThePlan' /\ LastNamesTheStatus'
    BY <1>1 DEF TenancyInv, EventsAreOfSubscriptions, FirstNamesThePlan, LastNamesTheStatus, About, Events
<1>11. AnsweredAreApplied'
    <2> SUFFICES ASSUME NEW j \in answered' PROVE j <= applied'[events[j].app]
        BY <1>1 DEF AnsweredAreApplied
    <2>1. CASE j \in answered
        <3>1. j \in 1 .. n /\ events[j].app \in Apps /\ j <= applied[events[j].app]
            BY <1>2, <2>1, EventsLength DEF TenancyInv, AnsweredAreApplied, Events, Event, n
        <3> QED
            BY <1>2, <1>6, <3>1
    <2>2. CASE j = i /\ i # 0
        BY <1>2, <1>4, <1>6, <2>2
    <2> QED
        BY <1>1, <2>1, <2>2
<1>12. AppliedIsOwn'
    <2> SUFFICES ASSUME NEW b \in Apps, applied'[b] > 0
                 PROVE  billing'[b] # NoRow /\ events[applied'[b]].app = b
        BY <1>1 DEF AppliedIsOwn
    <2>1. CASE b = a
        BY <1>2, <1>4, <1>5, <1>6, <1>7, <2>1 DEF TenancyInv, AppliedIsOwn
    <2>2. CASE b # a
        BY <1>6, <1>7, <2>2 DEF TenancyInv, AppliedIsOwn
    <2> QED
        BY <2>1, <2>2
<1>13. RowIsWhatStripeSaid'
    <2> SUFFICES ASSUME NEW b \in straight', NEW s \in Subscriptions,
                        SubscriptionsOf(b) = {s}, applied'[b] > 0
                 PROVE  /\ billing'[b].plan = subs[s].plan
                        /\ billing'[b].status = events[applied'[b]].write.status
        BY <1>1 DEF RowIsWhatStripeSaid, SubscriptionsOf
    <2>1. b \in straight /\ b \in Apps
        BY <1>1, <1>2
    <2>2. CASE b # a
        BY <1>6, <1>7, <2>1, <2>2 DEF TenancyInv, RowIsWhatStripeSaid
    <2>3. CASE b = a
        <3>1. i >= applied[a] /\ \A j \in applied[a] + 1 .. i - 1 : events[j].app # a
            BY <1>1, <2>3
        <3>2. applied'[a] = i /\ i > 0 /\ i \in 1 .. n /\ events[i].app = a /\ events[i].write = write
            BY <1>2, <1>4, <1>6, <2>3, <3>1
        <3>3. \A j \in 1 .. n : events[j].app = a <=> About(j) = s
            <4> SUFFICES ASSUME NEW j \in 1 .. n PROVE events[j].app = a <=> About(j) = s
                OBVIOUS
            <4>1. /\ About(j) \in Subscriptions /\ subs[About(j)] # NoSubscription
                  /\ subs[About(j)].app = events[j].app
                BY DEF TenancyInv, EventsAreOfSubscriptions, Events, n
            <4> QED
                BY <2>3, <4>1 DEF SubscriptionsOf
        <3>4. /\ About(i) = s /\ s \in Subscriptions
              /\ write.plan = IF \E j \in 1 .. i - 1 : About(j) = s THEN Unset ELSE subs[s].plan
            BY <3>2, <3>3 DEF TenancyInv, FirstNamesThePlan, Events, n
        <3>5. subs[s].plan \in Plans
            <4>1. subs[s] \in Subscription
                BY <1>2 DEF SubscriptionsOf, TenancyTypeOK
            <4> QED
                BY <4>1 DEF Subscription
        <3>6. CASE applied[a] = 0
            <4>1. \A j \in 1 .. i - 1 : About(j) # s
                BY <1>2, <3>1, <3>2, <3>3, <3>6
            <4>2. row.plan = subs[s].plan
                BY <1>5, <3>4, <3>5, <4>1
            <4> QED
                BY <1>5, <1>7, <2>3, <3>2, <4>2
        <3>7. CASE applied[a] > 0
            <4>1. billing[a] # NoRow /\ billing[a].plan = subs[s].plan
                BY <1>2, <2>1, <2>3, <3>7 DEF TenancyInv, AppliedIsOwn, RowIsWhatStripeSaid
            <4>2. old.plan = subs[s].plan
                BY <4>1 DEF a
            <4>3. row.plan = subs[s].plan
                BY <1>5, <3>4, <4>2
            <4> QED
                BY <1>5, <1>7, <2>3, <3>2, <4>3
        <3> QED
            BY <1>2, <3>6, <3>7
    <2> QED
        BY <2>2, <2>3
<1> QED
    BY <1>8, <1>9, <1>10, <1>11, <1>12, <1>13 DEF TenancyInv
-------------------------------------------------------------------------------
LEMMA TenancyInitInv == TenancyInit => TenancyInv
<1> SUFFICES ASSUME TenancyInit PROVE TenancyInv
    OBVIOUS
<1>1. /\ events = <<>> /\ Len(events) = 0 /\ answered = {} /\ 0 \in 0 .. Len(events)
      /\ \A a \in Apps : applied[a] = 0
      /\ \A p \in Routes : request[p] = NoRoute
      /\ \A s \in Subscriptions : subs[s] = NoSubscription
    BY DEF TenancyInit
<1>2. TenancyTypeOK
    BY <1>1 DEF TenancyInit, TenancyTypeOK
<1>3. CallersAreKnown /\ LeftWereIssued /\ RotationListsAll /\ WritesAreEvents
    BY <1>1 DEF CallersAreKnown, LeftWereIssued, RotationListsAll, Rotating, WritesAreEvents
<1>4. Events = {}
    BY <1>1 DEF Events
<1>5. EventsAreOfSubscriptions /\ FirstNamesThePlan /\ LastNamesTheStatus
    BY <1>1, <1>4 DEF EventsAreOfSubscriptions, FirstNamesThePlan, LastNamesTheStatus
<1>6. AnsweredAreApplied /\ AppliedIsOwn /\ RowIsWhatStripeSaid
    BY <1>1 DEF TenancyInit, AnsweredAreApplied, AppliedIsOwn, RowIsWhatStripeSaid
<1> QED
    BY <1>2, <1>3, <1>5, <1>6 DEF TenancyInv

\* Stripe's part: a subscription begins, goes past due and comes back, or ends.
LEMMA StripeKeeps ==
    ASSUME TenancyInv, NEW s \in Subscriptions,
           \/ \E a \in Apps, plan \in Plans : Subscribe(s, a, plan)
           \/ ChangeStatus(s) \/ Cancel(s)
    PROVE  TenancyInv'
<1>1. TenancyTypeOK /\ subs[s] \in Subscription \cup {NoSubscription}
    BY DEF TenancyInv, TenancyTypeOK
<1>2. ASSUME NEW a \in Apps, NEW plan \in Plans, Subscribe(s, a, plan)
      PROVE  TenancyInv'
    <2> DEFINE new == [app |-> a, plan |-> plan, status |-> "active"]
    <2>1. /\ new \in Subscription /\ new.app = a /\ new.plan = plan /\ new.status = "active"
          /\ "active" \in Statuses /\ plan \in Plans \cup {Unset}
        BY DEF Subscription, Statuses
    <2>2. /\ subs[s] = NoSubscription /\ subs' = [subs EXCEPT ![s] = new]
          /\ Raised(a, plan, s, "active")
        BY <1>2 DEF Subscribe
    <2> HIDE DEF new
    <2> QED
        BY <2>1, <2>2, RaisedKeeps
<1>3. ASSUME NEW status \in Statuses, subs[s] # NoSubscription,
             subs' = [subs EXCEPT ![s].status = status], Raised(subs[s].app, Unset, s, status)
      PROVE  TenancyInv'
    <2> DEFINE new == [subs[s] EXCEPT !.status = status]
    <2>1. subs[s] \in Subscription /\ subs[s].app \in Apps
        BY <1>1, <1>3 DEF Subscription
    <2>2. /\ new \in Subscription /\ new.app = subs[s].app /\ new.plan = subs[s].plan
          /\ new.status = status
        BY <2>1 DEF Subscription
    <2>3. subs' = [subs EXCEPT ![s] = new]
        BY <1>3
    <2> HIDE DEF new
    <2> QED
        BY <1>3, <2>1, <2>2, <2>3, RaisedKeeps
<1>4. CASE ChangeStatus(s)
    <2>1. (IF subs[s].status = "active" THEN "past_due" ELSE "active") \in Statuses
        BY DEF Statuses
    <2> QED
        BY <1>3, <1>4, <2>1 DEF ChangeStatus
<1>5. CASE Cancel(s)
    <2>1. "canceled" \in Statuses
        BY DEF Statuses
    <2> QED
        BY <1>3, <1>5, <2>1 DEF Cancel
<1> QED
    BY <1>2, <1>4, <1>5

LEMMA FreeStubType == FreeStub \in Write /\ FreeStub \in Row /\ {} \in SUBSET KeyIds
    BY DEF FreeStub, Write, Row, Statuses

\* Handlers begin, write and end.
LEMMA RoutesKeep ==
    ASSUME TenancyInv, NEW p \in Routes,
           \/ \E u \in Principals, a \in Apps : BeginClaim(p, u, a) \/ BeginRotation(p, u, a)
           \/ \E i \in 1 .. MaxEvents : Deliver(p, i)
           \/ Update(p) \/ LookFindsNone(p) \/ Insert(p) \/ Fail(p)
    PROVE  TenancyInv'
<1>1. /\ TenancyTypeOK /\ 0 \in 0 .. MaxEvents
      /\ \A q \in Routes : request[q] # NoRoute => request[q] \in Request
    BY DEF TenancyInv, TenancyTypeOK
<1>2. ASSUME NEW u \in Principals, NEW a \in Apps, BeginClaim(p, u, a)
      PROVE  TenancyInv'
    <2>1. /\ Begin(p, "claim", a, u, {}, FreeStub, 0)
          /\ UNCHANGED <<keys, billing, subs, events, answered, applied, straight>>
        BY <1>2 DEF BeginClaim
    <2> QED
        BY <1>1, <2>1, FreeStubType, BeginKeeps
<1>3. ASSUME NEW u \in Principals, NEW a \in Apps, BeginRotation(p, u, a)
      PROVE  TenancyInv'
    <2>1. /\ Begin(p, "rotate", a, u, Held(u, a), FreeStub, 0)
          /\ UNCHANGED <<keys, billing, subs, events, answered, applied, straight>>
        BY <1>3 DEF BeginRotation
    <2>2. Held(u, a) \in SUBSET KeyIds /\ \A k \in Held(u, a) : keys[k] # NoKey
        BY DEF Held, ActiveKeys, KeysOf
    <2> QED
        BY <1>1, <2>1, <2>2, FreeStubType, BeginKeeps
<1>4. ASSUME NEW i \in 1 .. MaxEvents, Deliver(p, i)
      PROVE  TenancyInv'
    <2>1. /\ i <= Len(events) /\ Begin(p, "look", events[i].app, Unset, {}, events[i].write, i)
          /\ UNCHANGED <<keys, billing, subs, events, answered, applied, straight>>
        BY <1>4 DEF Deliver
    <2>2. i \in Events /\ events[i] \in Event /\ i \in 0 .. MaxEvents
        BY <1>1, <2>1, EventsLength DEF Events
    <2>3. events[i].app \in Apps /\ events[i].write \in Write
        BY <2>2 DEF Event
    <2> QED
        BY <2>1, <2>2, <2>3, FreeStubType, BeginKeeps
<1>5. CASE Update(p)
    <2>1. /\ request[p] \in Request /\ billing[request[p].app] \in Row
          /\ Written(p, Merged(billing[request[p].app], request[p].write))
        <3>1. request[p] # NoRoute
            BY <1>5 DEF Update, NoRoute
        <3> QED
            BY <1>1, <1>5, <3>1, RequestParts DEF Update, TenancyTypeOK
    <2> QED
        BY <2>1, WrittenKeeps
<1>6. CASE Insert(p)
    <2>1. /\ request[p] \in Request /\ billing[request[p].app] = NoRow
          /\ Written(p, Merged(FreeStub, request[p].write))
        <3>1. request[p] # NoRoute
            BY <1>6 DEF Insert, NoRoute
        <3> QED
            BY <1>1, <1>6, <3>1 DEF Insert
    <2> QED
        BY <2>1, FreeStubType, WrittenKeeps
<1>7. CASE LookFindsNone(p) \/ Fail(p)
    <2>1. /\ UNCHANGED <<keys, billing, subs, events, answered, applied, straight>>
          /\ Answer(p) \/ LookFindsNone(p)
        BY <1>7 DEF LookFindsNone, Fail
    <2>2. /\ request' \in [Routes -> Request \cup {NoRoute}]
          /\ CallersAreKnown' /\ LeftWereIssued' /\ RotationListsAll' /\ WritesAreEvents'
        BY <2>1, AnswerGoesOn
    <2>3. TenancyTypeOK'
        BY <1>1, <2>1, <2>2 DEF TenancyTypeOK
    <2> QED
        BY <2>1, <2>2, <2>3, BillsStay DEF TenancyInv
<1> QED
    BY <1>2, <1>3, <1>4, <1>5, <1>6, <1>7

LEMMA TenancyStutters ==
    ASSUME TenancyInv, UNCHANGED tenancyVars
    PROVE  TenancyInv'
<1>1. /\ UNCHANGED <<billing, subs, events, answered, applied, straight>>
      /\ keys' = keys /\ request' = request
    BY DEF tenancyVars
<1>2. TenancyTypeOK'
    BY <1>1 DEF TenancyInv, TenancyTypeOK
<1>3. CallersAreKnown' /\ LeftWereIssued' /\ RotationListsAll'
    BY <1>1 DEF TenancyInv, CallersAreKnown, LeftWereIssued, RotationListsAll, Rotating,
                Held, ActiveKeys, KeysOf
<1>4. WritesAreEvents'
    BY <1>1 DEF TenancyInv, WritesAreEvents, Events, FreeStub
<1> QED
    BY <1>1, <1>2, <1>3, <1>4, BillsStay DEF TenancyInv

LEMMA TenancyInvStep == TenancyInv /\ [TenancyNext]_tenancyVars => TenancyInv'
<1> SUFFICES ASSUME TenancyInv, [TenancyNext]_tenancyVars PROVE TenancyInv'
    OBVIOUS
<1>1. ASSUME NEW p \in Routes, NEW k \in KeyIds,
             IssueClaimed(p, k) \/ RevokeListed(p, k) \/ IssueRotated(p, k)
      PROVE  TenancyInv'
    BY <1>1, IssueKeeps, RevokeKeeps
<1>2. ASSUME NEW k \in KeyIds,
             \/ \E u \in Principals : RevokeOwn(u, k)
             \/ AdminRevoke(k)
             \/ \E a \in Apps : AdminIssue(k, a)
      PROVE  TenancyInv'
    BY <1>2, RevokeKeeps, AdminIssueKeeps
<1> QED
    BY <1>1, <1>2, RoutesKeep, StripeKeeps, TenancyStutters DEF TenancyNext, ManageKeys

LEMMA TenancyInvariance == TenancySpec => []TenancyInv
    BY TenancyInitInv, TenancyInvStep, PTL DEF TenancySpec

-------------------------------------------------------------------------------
\* Type correctness of the keys, the bills, the handlers and Stripe's events.
THEOREM TenancyTypeCorrect == TenancySpec => []TenancyTypeOK
<1>1. TenancyInv => TenancyTypeOK
    BY DEF TenancyInv
<1> QED
    BY <1>1, TenancyInvariance, PTL

\* Events repeated, failed, or answered by several handlers at once leave in the row of
\* an application what Stripe says of its only subscription, once all are answered and as
\* long as they were written in Stripe's order (upsert_billing, POST /billing/webhook).
THEOREM BillsAgree == TenancySpec => []BillingAgrees
<1>1. ASSUME TenancyInv PROVE BillingAgrees
    <2> SUFFICES ASSUME NEW a \in straight, NEW s \in Subscriptions,
                        SubscriptionsOf(a) = {s}, Pending(a) = {}
                 PROVE  /\ billing[a] # NoRow
                        /\ billing[a].plan = subs[s].plan
                        /\ billing[a].status = subs[s].status
        BY DEF BillingAgrees
    <2> USE <1>1
    <2>1. /\ TenancyTypeOK /\ a \in Apps /\ Len(events) \in Nat
          /\ subs[s] # NoSubscription /\ subs[s].app = a
          /\ applied[a] \in 0 .. Len(events)
        BY EventsLength DEF TenancyInv, TenancyTypeOK, SubscriptionsOf
    <2>2. PICK i \in Events : /\ About(i) = s /\ events[i].write.status = subs[s].status
                              /\ \A j \in i + 1 .. Len(events) : About(j) # s
        BY <2>1 DEF TenancyInv, LastNamesTheStatus
    <2>3. events[i].app = a
        BY <2>1, <2>2 DEF TenancyInv, EventsAreOfSubscriptions
    <2>4. i \in answered
        BY <2>2, <2>3 DEF Pending, Events
    <2>5. i <= applied[a] /\ applied[a] > 0 /\ applied[a] \in Events
        BY <2>1, <2>2, <2>3, <2>4 DEF TenancyInv, AnsweredAreApplied, Events
    <2>6. billing[a] # NoRow /\ events[applied[a]].app = a
        BY <2>1, <2>5 DEF TenancyInv, AppliedIsOwn
    <2>7. About(applied[a]) = s
        BY <2>5, <2>6 DEF TenancyInv, EventsAreOfSubscriptions, SubscriptionsOf
    <2>8. applied[a] = i
        BY <2>1, <2>2, <2>5, <2>7 DEF Events
    <2> QED
        BY <2>2, <2>5, <2>6, <2>8 DEF TenancyInv, RowIsWhatStripeSaid
<1> QED
    BY <1>1, TenancyInvariance, PTL

\* A rotation whose caller was issued no other key since it began leaves its caller one
\* key (rotate_my_keys), whoever else revokes, claims or issues keys meanwhile.
THEOREM RotationsLeaveOneKey == TenancySpec => RotationLeavesOneKey
<1>1. ASSUME TenancyInv, [TenancyNext]_tenancyVars, NEW p \in Routes, NEW u \in Principals,
             NEW a \in Apps, Rotating(p, u, a), request[p].alone, request'[p] = NoRoute,
             keys' # keys
      PROVE  Cardinality(Held(u, a)') = 1
    <2>1. TenancyTypeOK /\ request \in [Routes -> Request \cup {NoRoute}] /\ request[p] # NoRoute
        BY <1>1 DEF TenancyInv, TenancyTypeOK, Rotating
    <2>2. ASSUME NEW q \in Routes, NEW k \in KeyIds, q # p,
                 IssueClaimed(q, k) \/ RevokeListed(q, k) \/ IssueRotated(q, k)
          PROVE  FALSE
        <3>1. CASE RevokeListed(q, k)
            BY <1>1, <2>1, <2>2, <3>1 DEF RevokeListed
        <3>2. CASE IssueClaimed(q, k) \/ IssueRotated(q, k)
            <4> DEFINE o == Overtaken(request[q].app, request[q].by)
            <4>1. o[p] # NoRoute
                BY <2>1, OvertakenOnes
            <4>2. request' = [o EXCEPT ![q].pc = "look"] \/ request' = [o EXCEPT ![q] = NoRoute]
                BY <3>2 DEF IssueClaimed, IssueRotated
            <4>3. DOMAIN o = Routes
                BY DEF Overtaken
            <4> HIDE DEF o
            <4> QED
                BY <1>1, <2>2, <4>1, <4>2, <4>3
        <3> QED
            BY <2>2, <3>1, <3>2
    <2>3. ASSUME NEW k \in KeyIds, IssueClaimed(p, k) \/ RevokeListed(p, k)
          PROVE  FALSE
        <3>1. request[p].pc = "rotate"
            BY <1>1 DEF Rotating
        <3>2. RevokeListed(p, k)
            BY <2>3, <3>1 DEF IssueClaimed
        <3>3. request'[p] = [request[p] EXCEPT !.left = request[p].left \ {k}]
            BY <2>1, <3>2 DEF RevokeListed
        <3>4. request[p] \in Request
            BY <2>1
        <3>5. request'[p].pc = "rotate"
            BY <3>1, <3>3, <3>4 DEF Request
        <3> QED
            BY <1>1, <3>5 DEF NoRoute
    <2>4. \E k \in KeyIds : IssueRotated(p, k)
        <3>1. request' # request
            BY <1>1, <2>1
        <3>2. \E q \in Routes, k \in KeyIds :
                  IssueClaimed(q, k) \/ RevokeListed(q, k) \/ IssueRotated(q, k)
            BY <1>1, <3>1 DEF TenancyNext, ManageKeys, BeginClaim, BeginRotation, Deliver, Update,
                              LookFindsNone, Insert, Written, Fail, RevokeOwn, AdminRevoke, AdminIssue,
                              Subscribe, ChangeStatus, Cancel, Raised, tenancyVars
        <3> QED
            BY <2>2, <2>3, <3>2
    <2>5. PICK k \in KeyIds : IssueRotated(p, k)
        BY <2>4
    <2>6. /\ request[p].left = {} /\ Issued(k, a, u) /\ u \in Creators
        BY <1>1, <2>5 DEF IssueRotated, Rotating, Creators
    <2>7. Held(u, a) = {}
        BY <1>1, <2>6 DEF TenancyInv, RotationListsAll
    <2>8. Held(u, a)' = {k}
        BY <2>1, <2>6, <2>7, IssuedKeys
    <2>9. Cardinality({k}) = 1
        BY FS_Singleton
    <2> QED
        BY <2>8, <2>9
<1>2. TenancyInv /\ [TenancyNext]_tenancyVars =>
          [\A p \in Routes, u \in Principals, a \in Apps :
              (Rotating(p, u, a) /\ request[p].alone /\ request'[p] = NoRoute /\ keys' # keys)
                 => Cardinality(Held(u, a)') = 1]_tenancyVars
    BY <1>1
<1> QED
    BY <1>2, TenancyInvariance, PTL DEF TenancySpec, RotationLeavesOneKey
===============================================================================
