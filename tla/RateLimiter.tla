----------------------------- MODULE RateLimiter ----------------------------
(***************************************************************************)
(* check_rate_limit (app/modules/guard/rate_limiter.py): at most max_count *)
(* events per key in a trailing window, counted in                         *)
(* cgc_guard.rate_limit_events by every serverless instance.               *)
(*                                                                         *)
(* The start of the window is computed before the transaction begins, by   *)
(* the clock of the instance; created_at is the default NOW(), the time    *)
(* the transaction began by the clock of the database; between the two and *)
(* the COUNT lies the wait for the advisory lock.                          *)
(*                                                                         *)
(* Definitions placed just before the one they vary (LockSkipped before    *)
(* Lock) are plausible bugs; no specification uses them.                   *)
(***************************************************************************)
EXTENDS Integers, FiniteSets

CONSTANTS Calls, Keys, Null,
          MaxCount,   \* max_count
          Window,     \* window_seconds
          Skew,       \* how far an instance's clock may be from the database's
          MaxTime     \* bound: clock ticks

ASSUME NullAssumption == Null \notin Calls
ASSUME NumbersAssumption ==
  /\ MaxCount \in Nat \ {0}
  /\ Window \in Nat
  /\ Skew \in Nat
  /\ MaxTime \in Nat

VARIABLES now,      \* the database's clock
          events,   \* committed rows
          lock,     \* holder of each key's advisory lock
          pc,       \* where each call is
          key,      \* the key it is for
          since,    \* the start of its window
          start,    \* when its transaction began
          answer    \* what it returned

vars == <<now, events, lock, pc, key, since, start, answer>>

Events == [call : Calls, key : Keys, at : Nat]

TypeOK ==
  /\ now \in Nat
  /\ events \subseteq Events
  /\ lock \in [Keys -> Calls \cup {Null}]
  /\ pc \in [Calls -> {"new", "begin", "lock", "count", "insert", "done"}]
  /\ key \in [Calls -> Keys]
  /\ since \in [Calls -> Int]
  /\ start \in [Calls -> Nat]
  /\ answer \in [Calls -> {"none", "allowed", "refused", "unchecked"}]

Init ==
  /\ now = 0
  /\ events = {}
  /\ lock = [k \in Keys |-> Null]
  /\ pc = [c \in Calls |-> "new"]
  /\ key \in [Calls -> Keys]
  /\ since = [c \in Calls |-> 0]
  /\ start = [c \in Calls |-> 0]
  /\ answer = [c \in Calls |-> "none"]

-----------------------------------------------------------------------------
Goto(c, p) == pc' = [pc EXCEPT ![c] = p]

CheckRateLimit(c, skew) ==
  /\ pc[c] = "new"
  /\ since' = [since EXCEPT ![c] = now + skew - Window]
  /\ Goto(c, "begin")
  /\ UNCHANGED <<now, events, lock, key, start, answer>>

\* The first statement of the transaction reaches the database: NOW() is fixed.
Begin(c) ==
  /\ pc[c] = "begin"
  /\ start' = [start EXCEPT ![c] = now]
  /\ Goto(c, "lock")
  /\ UNCHANGED <<now, events, lock, key, since, answer>>

LockSkipped(c) ==
  /\ pc[c] = "lock"
  /\ lock' = [lock EXCEPT ![key[c]] = c]
  /\ Goto(c, "count")
  /\ UNCHANGED <<now, events, key, since, start, answer>>

Lock(c) ==
  /\ pc[c] = "lock"
  /\ lock[key[c]] = Null
  /\ lock' = [lock EXCEPT ![key[c]] = c]
  /\ Goto(c, "count")
  /\ UNCHANGED <<now, events, key, since, start, answer>>

\* The rows of SELECT COUNT(*) ... WHERE key = %s AND created_at >= %s.
Counted(c) == {e \in events : e.key = key[c] /\ e.at >= since[c]}

\* The call returns: its transaction is over.
Finish(c, a) ==
  /\ answer' = [answer EXCEPT ![c] = a]
  /\ lock' = [k \in Keys |-> IF lock[k] = c THEN Null ELSE lock[k]]
  /\ Goto(c, "done")

Refuse(c) ==
  /\ pc[c] = "count"
  /\ Cardinality(Counted(c)) >= MaxCount
  /\ Finish(c, "refused")
  /\ UNCHANGED <<now, events, key, since, start>>

Admit(c) ==
  /\ pc[c] = "count"
  /\ Cardinality(Counted(c)) < MaxCount
  /\ Goto(c, "insert")
  /\ UNCHANGED <<now, events, lock, key, since, start, answer>>

\* INSERT and COMMIT; a lost acknowledgement makes no difference to the caller.
Insert(c) ==
  /\ pc[c] = "insert"
  /\ events' = events \cup {[call |-> c, key |-> key[c], at |-> start[c]]}
  /\ Finish(c, "allowed")
  /\ UNCHANGED <<now, key, since, start>>

\* Any error: the transaction is rolled back and the call allowed, uncounted.
FailOpen(c) ==
  /\ pc[c] \in {"begin", "lock", "count", "insert"}
  /\ Finish(c, "unchecked")
  /\ UNCHANGED <<now, events, key, since, start>>

Tick ==
  /\ now < MaxTime
  /\ now' = now + 1
  /\ UNCHANGED <<events, lock, pc, key, since, start, answer>>

Done ==
  /\ \A c \in Calls : pc[c] = "done"
  /\ UNCHANGED vars

Next ==
  \/ \E c \in Calls :
       \/ \E skew \in -Skew..Skew : CheckRateLimit(c, skew)
       \/ Begin(c) \/ Lock(c) \/ Refuse(c) \/ Admit(c) \/ Insert(c) \/ FailOpen(c)
  \/ Tick
  \/ Done

Spec == Init /\ [][Next]_vars

-----------------------------------------------------------------------------
(* Properties *)

\* The events recorded for k from time t on, for as long as the window is.
During(k, t) == {e \in events : e.key = k /\ t <= e.at /\ e.at <= t + Window - Skew}

\* No window holds more than max_count admitted calls, its two ends included,
\* however long calls wait for the lock; clocks that disagree cost as much of
\* the window as they disagree.  (Every fullest window begins at an event.)
WindowBound ==
  \A e \in events : Cardinality(During(e.key, e.at)) <= MaxCount
=============================================================================
