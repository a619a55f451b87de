--------------------------- MODULE CircuitBreaker ---------------------------
(***************************************************************************)
(* The per-actor circuit breaker of the governance endpoint                *)
(* (app/modules/guard/circuit_breaker.py and its call sites in             *)
(* run_cgc_prefilter, app/main.py).                                        *)
(*                                                                         *)
(* One row of cgc_guard.circuit_breaker_state, that of one                 *)
(* (org_id, user_email) pair, is shared by the serverless instances that   *)
(* serve requests of that pair.  A handler runs synchronously inside its   *)
(* instance, so the handlers of different instances interleave at their    *)
(* SQL statements.  A transaction whose only write is its last statement   *)
(* takes effect at that statement: a write is one step with its commit.    *)
(*                                                                         *)
(* Time is an explicit clock.  "now" is read by the code before it asks    *)
(* for a connection or for the lock, hence a local copy at[r].             *)
(*                                                                         *)
(* A few definitions are plausible bugs, defined just before the correct   *)
(* form (LockSkipped before ViolationLocks): no specification uses them;   *)
(* substituted for the correct form, they make a property fail.            *)
(***************************************************************************)
EXTENDS Integers, Sequences, FiniteSets

CONSTANTS Handlers,     \* instances serving requests of the pair at a time
          Threshold,    \* VIOLATION_THRESHOLD
          Window,       \* VIOLATION_WINDOW_SECONDS
          Cooldown,     \* COOLDOWN_SECONDS
          Null,         \* SQL NULL, and "nobody holds the lock"
          MaxTime,      \* bound: the clock stops here
          MaxRequests,  \* bound: requests ever begun
          MaxResets     \* bound: manual resets by an operator

(* A threshold of 1 is excluded: the code's INSERT branch stores the first *)
(* violation as CLOSED whatever the threshold is.                          *)
ASSUME ThresholdAssumption == Threshold \in Nat /\ Threshold > 1
ASSUME DurationAssumption == Window \in Nat /\ Cooldown \in Nat
ASSUME NullAssumption == Null \notin Int /\ Null \notin Handlers
ASSUME BoundAssumption == MaxTime \in Nat /\ MaxRequests \in Nat /\ MaxResets \in Nat

VARIABLES row,      \* the stored row, state "ABSENT" when there is none
          now,      \* the clock
          lock,     \* holder of the advisory transaction lock of the pair
          pc,       \* where each handler is in check / record_*
          at,       \* the handler's local "now"
          seen,     \* the row the handler's SELECT returned
          begun,    \* requests begun
          resets,   \* manual resets made
          log       \* history: the violations recorded, in commit order

vars == <<row, now, lock, pc, at, seen, begun, resets, log>>

Time == 0..MaxTime
States == {"ABSENT", "CLOSED", "OPEN", "HALF_OPEN"}
Rows == [state : States, count : Nat, wstart : Nat \cup {Null}, cool : Nat \cup {Null}]
NoRow == [state |-> "ABSENT", count |-> 0, wstart |-> Null, cool |-> Null]
Points == {"idle", "select", "flip", "evaluate", "lock", "read", "write", "close"}

TypeOK ==
  /\ row \in Rows
  /\ now \in Time
  /\ lock \in Handlers \cup {Null}
  /\ pc \in [Handlers -> Points]
  /\ at \in [Handlers -> Time]
  /\ seen \in [Handlers -> Rows]
  /\ begun \in 0..MaxRequests
  /\ resets \in 0..MaxResets
  /\ log \in Seq([at : Time, when : Time, left : States])

Init ==
  /\ row = NoRow
  /\ now = 0
  /\ lock = Null
  /\ pc = [r \in Handlers |-> "idle"]
  /\ at = [r \in Handlers |-> 0]
  /\ seen = [r \in Handlers |-> NoRow]
  /\ begun = 0
  /\ resets = 0
  /\ log = <<>>

-----------------------------------------------------------------------------
(* Steps of control *)

Goto(r, p) == pc' = [pc EXCEPT ![r] = p]

\* The handler is done; its locals are cleared.
Finish(r) ==
  /\ Goto(r, "idle")
  /\ at' = [at EXCEPT ![r] = 0]
  /\ seen' = [seen EXCEPT ![r] = NoRow]

-----------------------------------------------------------------------------
(* check_breaker *)

\* A request of the pair arrives and check_breaker reads the clock.
BeginCheck(r) ==
  /\ pc[r] = "idle"
  /\ begun < MaxRequests
  /\ begun' = begun + 1
  /\ at' = [at EXCEPT ![r] = now]
  /\ Goto(r, "select")
  /\ UNCHANGED <<row, now, lock, seen, resets, log>>

Cooling(rw, t) == rw.cool # Null /\ t < rw.cool

\* SELECT finds no row, or one that is not OPEN: the request may proceed.
CheckAdmits(r) ==
  /\ pc[r] = "select"
  /\ row.state # "OPEN"
  /\ seen' = [seen EXCEPT ![r] = row]
  /\ Goto(r, "evaluate")
  /\ UNCHANGED <<row, now, lock, at, begun, resets, log>>

\* SELECT finds the breaker OPEN and cooling down: the request is denied.
CheckBlocks(r) ==
  /\ pc[r] = "select"
  /\ row.state = "OPEN"
  /\ Cooling(row, at[r])
  /\ Finish(r)
  /\ UNCHANGED <<row, now, lock, begun, resets, log>>

\* SELECT finds the cooldown elapsed: the handler goes on to its UPDATE.
CheckElapsed(r) ==
  /\ pc[r] = "select"
  /\ row.state = "OPEN"
  /\ ~ Cooling(row, at[r])
  /\ seen' = [seen EXCEPT ![r] = row]
  /\ Goto(r, "flip")
  /\ UNCHANGED <<row, now, lock, at, begun, resets, log>>

\* UPDATE ... SET state = 'HALF_OPEN' WHERE actor_key = %s, whatever the
\* row holds by then; the request proceeds as a trial.
CheckFlips(r) ==
  /\ pc[r] = "flip"
  /\ row' = IF row.state = "ABSENT" THEN row ELSE [row EXCEPT !.state = "HALF_OPEN"]
  /\ Goto(r, "evaluate")
  /\ UNCHANGED <<now, lock, at, seen, begun, resets, log>>

\* A database error in check_breaker is swallowed: the request proceeds.
CheckFails(r) ==
  /\ pc[r] \in {"select", "flip"}
  /\ seen' = [seen EXCEPT ![r] = NoRow]
  /\ Goto(r, "evaluate")
  /\ UNCHANGED <<row, now, lock, at, begun, resets, log>>

-----------------------------------------------------------------------------
(* The verdict on an admitted request (run_cgc_prefilter): a tenant policy *)
(* that hits, an agent_id that does not resolve, or a PreFilter check that *)
(* short-circuits is a violation; anything else is a success.              *)

VerdictViolation(r) ==
  /\ pc[r] = "evaluate"
  /\ at' = [at EXCEPT ![r] = now]
  /\ seen' = [seen EXCEPT ![r] = NoRow]
  /\ Goto(r, "lock")
  /\ UNCHANGED <<row, now, lock, begun, resets, log>>

VerdictAllow(r) ==
  /\ pc[r] = "evaluate"
  /\ Goto(r, "close")
  /\ UNCHANGED <<row, now, lock, at, seen, begun, resets, log>>

-----------------------------------------------------------------------------
(* record_violation *)

LockSkipped(r) ==
  /\ pc[r] = "lock"
  /\ lock' = r
  /\ Goto(r, "read")
  /\ UNCHANGED <<row, now, at, seen, begun, resets, log>>

\* SELECT pg_advisory_xact_lock(hashtext(key)): waits until the lock is free.
ViolationLocks(r) ==
  /\ pc[r] = "lock"
  /\ lock = Null
  /\ lock' = r
  /\ Goto(r, "read")
  /\ UNCHANGED <<row, now, at, seen, begun, resets, log>>

ViolationReads(r) ==
  /\ pc[r] = "read"
  /\ seen' = [seen EXCEPT ![r] = row]
  /\ Goto(r, "write")
  /\ UNCHANGED <<row, now, lock, at, begun, resets, log>>

WindowNeverExpires(w, t) == w = Null
\* The window that started at w is over for a violation raised at time t.
WindowExpired(w, t) == w = Null \/ w < t - Window

NewCount(old, t) == IF WindowExpired(old.wstart, t) THEN 1 ELSE old.count + 1
NewStart(old, t) == IF WindowExpired(old.wstart, t) THEN t ELSE old.wstart

TripsLate(n) == n > Threshold
Trips(n) == n >= Threshold

\* An UPDATE changes only the columns it names.
Opened(rw, c) == [rw EXCEPT !.state = "OPEN", !.cool = c]
Counted(rw, n, w) == [rw EXCEPT !.count = n, !.wstart = w]

\* The write of record_violation, the commit, and with the transaction the
\* release of the lock.
CommitViolation(r, newRow) ==
  /\ pc[r] = "write"
  /\ row' = newRow
  /\ log' = Append(log, [at |-> at[r], when |-> now, left |-> newRow.state])
  /\ lock' = Null
  /\ Finish(r)
  /\ UNCHANGED <<now, begun, resets>>

\* INSERT: the actor's first violation.
FirstViolation(r) ==
  /\ seen[r].state = "ABSENT"
  /\ CommitViolation(r, [state |-> "CLOSED", count |-> 1, wstart |-> at[r], cool |-> Null])

\* A failed trial re-opens the breaker whatever the count.
FailedTrial(r) ==
  /\ seen[r].state = "HALF_OPEN"
  /\ CommitViolation(r, Opened(row, at[r] + Cooldown))

\* Below the threshold the state of the row stays what it is.
CountedViolation(r) ==
  /\ seen[r].state \in {"CLOSED", "OPEN"}
  /\ ~ Trips(NewCount(seen[r], at[r]))
  /\ CommitViolation(r, Counted(row, NewCount(seen[r], at[r]), NewStart(seen[r], at[r])))

TrippingViolation(r) ==
  /\ seen[r].state \in {"CLOSED", "OPEN"}
  /\ Trips(NewCount(seen[r], at[r]))
  /\ CommitViolation(r, Opened(Counted(row, NewCount(seen[r], at[r]), NewStart(seen[r], at[r])),
                               at[r] + Cooldown))

ViolationWrites(r) ==
  FirstViolation(r) \/ FailedTrial(r) \/ CountedViolation(r) \/ TrippingViolation(r)

-----------------------------------------------------------------------------
(* record_success and reset_breaker: one UPDATE each, taking no lock *)

Closed(rw) == [rw EXCEPT !.state = "CLOSED", !.count = 0, !.wstart = Null, !.cool = Null]

SuccessCloses(r) ==
  /\ pc[r] = "close"
  /\ row' = IF row.state \in {"ABSENT", "CLOSED"} THEN row ELSE Closed(row)
  /\ Finish(r)
  /\ UNCHANGED <<now, lock, begun, resets, log>>

\* An operator clears the breaker (POST /guard/activity/circuit-breaker/reset).
ResetBreaker ==
  /\ resets < MaxResets
  /\ resets' = resets + 1
  /\ row' = IF row.state = "ABSENT" THEN row ELSE Closed(row)
  /\ UNCHANGED <<now, lock, pc, at, seen, begun, log>>

-----------------------------------------------------------------------------
(* Failures and time *)

LockLeaked(r) ==
  /\ pc[r] # "idle"
  /\ Finish(r)
  /\ UNCHANGED <<row, now, lock, begun, resets, log>>

\* The instance dies, PreFilter raises, or a statement of record_* fails:
\* the transaction rolls back and its advisory lock goes with it.
Abort(r) ==
  /\ pc[r] # "idle"
  /\ lock' = IF lock = r THEN Null ELSE lock
  /\ Finish(r)
  /\ UNCHANGED <<row, now, begun, resets, log>>

Tick ==
  /\ now < MaxTime
  /\ now' = now + 1
  /\ UNCHANGED <<row, lock, pc, at, seen, begun, resets, log>>

\* Every request the bound allows has been served.
Done ==
  /\ begun = MaxRequests /\ now = MaxTime
  /\ \A r \in Handlers : pc[r] = "idle"
  /\ UNCHANGED vars

Check(r) == CheckAdmits(r) \/ CheckBlocks(r) \/ CheckElapsed(r) \/ CheckFlips(r)
Verdict(r) == VerdictViolation(r) \/ VerdictAllow(r)

Next ==
  \/ \E r \in Handlers :
       \/ BeginCheck(r) \/ Check(r) \/ CheckFails(r) \/ Verdict(r)
       \/ ViolationLocks(r) \/ ViolationReads(r) \/ ViolationWrites(r)
       \/ SuccessCloses(r) \/ Abort(r)
  \/ ResetBreaker \/ Tick \/ Done

Spec == Init /\ [][Next]_vars

(* A live instance runs its handler to the end (weak fairness of each      *)
(* step), and PostgreSQL grants an advisory lock to its waiters in queue   *)
(* order, so no waiter is passed over for ever (strong fairness).  Nothing *)
(* is assumed of arrivals, of errors, of operators or of the clock.        *)
Fairness ==
  \A r \in Handlers :
    /\ WF_vars(Check(r) \/ Verdict(r) \/ ViolationReads(r) \/ ViolationWrites(r) \/ SuccessCloses(r))
    /\ SF_vars(ViolationLocks(r))

FairSpec == Spec /\ Fairness

-----------------------------------------------------------------------------
(* Properties *)

\* A row that is CLOSED holds fewer violations than the threshold, so the
\* actor's next request is never admitted on a count that should have
\* tripped: whatever mixture of violations, late successes, stale flips and
\* resets produced the row (record_violation 151-173, record_success 193-199).
ClosedBelowThreshold == row.state = "CLOSED" => row.count < Threshold

\* Between a violation's SELECT and its UPDATE no other violation is
\* recorded: the count it is about to write is built on the stored one,
\* unless the row was closed meanwhile.  This is what the advisory lock of
\* record_violation (119) is for.
NoLostViolation ==
  \A r \in Handlers : pc[r] = "write" =>
    /\ row.state = "ABSENT" <=> seen[r].state = "ABSENT"
    /\ \/ row.count = seen[r].count /\ row.wstart = seen[r].wstart
       \/ row.count = 0 /\ row.wstart = Null /\ row.state # "OPEN"

\* The recorded violations that were raised no later than the end of the
\* current window and committed since it started.
InWindow ==
  {i \in 1..Len(log) : /\ log[i].when >= row.wstart
                       /\ log[i].at <= row.wstart + Window}

\* The breaker is tripped by a failed trial, or by Threshold recorded
\* violations of one window; never by fewer, nor by those of a window that
\* expired (window_expired, 151-153).
TripNeedsCause ==
  [][ row.state # "OPEN" /\ row'.state = "OPEN" =>
        \/ \E r \in Handlers : pc[r] = "write" /\ seen[r].state = "HALF_OPEN"
        \/ Cardinality(InWindow') >= Threshold ]_vars

\* Let through by a breaker that was not CLOSED, and without a verdict.
OnTrial(r) == pc[r] = "evaluate" /\ seen[r].state \in {"OPEN", "HALF_OPEN"}

\* "Allow exactly one trial request through" (check_breaker, 90): while the breaker is
\* HALF_OPEN one request at most is the trial.  The code does not keep this: only OPEN
\* blocks (75), so all that arrive before the trial's verdict are let through.
OneTrial == row.state = "HALF_OPEN" => Cardinality({r \in Handlers : OnTrial(r)}) <= 1

\* Every request that begins is answered: the lock is never left held, and
\* no handler waits on it for ever, whatever aborts happen.
RequestsEnd == \A r \in Handlers : pc[r] # "idle" ~> pc[r] = "idle"
=============================================================================
