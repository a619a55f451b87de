------------------------ MODULE CircuitBreakerProofs ------------------------
(* Safety of the circuit breaker, for every number of handlers, threshold, *)
(* window and cooldown.                                                    *)
EXTENDS CircuitBreaker, FiniteSetTheorems, TLAPS

\* The handler that holds the advisory lock is the one inside the
\* transaction of record_violation.
LockHeld == \A r \in Handlers : pc[r] \in {"read", "write"} <=> lock = r

\* Inductive: ClosedBelowThreshold needs to know what a violation's UPDATE
\* builds on, which NoLostViolation says, which needs the lock.
Inv == TypeOK /\ LockHeld /\ NoLostViolation /\ ClosedBelowThreshold

USE ThresholdAssumption, DurationAssumption, NullAssumption, BoundAssumption

-----------------------------------------------------------------------------
(* Lemmas *)

\* The count and the window start record_violation computes fit their columns.
LEMMA NewType ==
  ASSUME NEW old \in Rows, NEW t \in Nat
  PROVE  NewCount(old, t) \in Nat /\ NewStart(old, t) \in Nat \cup {Null}
  BY DEF NewCount, NewStart, WindowExpired, Rows

\* The rows the UPDATE statements of record_violation produce are rows.
LEMMA OpenedType ==
  ASSUME NEW rw \in Rows, NEW c \in Nat
  PROVE  Opened(rw, c) \in Rows /\ Opened(rw, c).state = "OPEN"
  BY DEF Opened, Rows, States

LEMMA CountedType ==
  ASSUME NEW rw \in Rows, NEW n \in Nat, NEW w \in Nat \cup {Null}
  PROVE  /\ Counted(rw, n, w) \in Rows
         /\ Counted(rw, n, w).state = rw.state
         /\ Counted(rw, n, w).count = n
  BY DEF Counted, Rows, States

\* Every write of record_violation is a commit of a row of the right type,
\* which exists, and which is CLOSED only below the threshold if the row it
\* replaces is there whenever the SELECT found one.
LEMMA WriteIsCommit ==
  ASSUME TypeOK, NEW r \in Handlers, ViolationWrites(r), NoLostViolation
  PROVE  \E newRow \in Rows :
           /\ CommitViolation(r, newRow)
           /\ newRow.state # "ABSENT"
           /\ newRow.state = "CLOSED" => newRow.count < Threshold
<1> DEFINE n == NewCount(seen[r], at[r])
           w == NewStart(seen[r], at[r])
           c == at[r] + Cooldown
<1>1. at[r] \in Nat /\ seen[r] \in Rows /\ row \in Rows /\ pc[r] = "write" /\ c \in Nat
  BY DEF TypeOK, Time, ViolationWrites, FirstViolation, FailedTrial, CountedViolation,
         TrippingViolation, CommitViolation
<1>2. row.state = "ABSENT" <=> seen[r].state = "ABSENT"
  BY <1>1 DEF NoLostViolation
<1>3. n \in Nat /\ w \in Nat \cup {Null}
  BY <1>1, NewType
<1>4. CASE FirstViolation(r)
  <2> DEFINE new == [state |-> "CLOSED", count |-> 1, wstart |-> at[r], cool |-> Null]
  <2>1. new \in Rows /\ new.state = "CLOSED" /\ new.count = 1
    BY <1>1 DEF Rows, States
  <2>2. CommitViolation(r, new)
    BY <1>4 DEF FirstViolation
  <2> QED
    BY <2>1, <2>2
<1>5. CASE FailedTrial(r)
  <2>1. CommitViolation(r, Opened(row, c))
    BY <1>5 DEF FailedTrial
  <2> HIDE DEF c
  <2> QED
    BY <1>1, <2>1, OpenedType
<1>6. CASE CountedViolation(r)
  <2>1. CommitViolation(r, Counted(row, n, w)) /\ row.state # "ABSENT"
    BY <1>2, <1>6 DEF CountedViolation
  <2>2. n < Threshold
    BY <1>3, <1>6 DEF CountedViolation, Trips
  <2> HIDE DEF n, w
  <2>3. /\ Counted(row, n, w) \in Rows
        /\ Counted(row, n, w).state = row.state
        /\ Counted(row, n, w).count = n
    BY <1>1, <1>3, CountedType
  <2> QED
    BY <2>1, <2>2, <2>3
<1>7. CASE TrippingViolation(r)
  <2>1. CommitViolation(r, Opened(Counted(row, n, w), c))
    BY <1>7 DEF TrippingViolation
  <2> HIDE DEF n, w, c
  <2>2. Counted(row, n, w) \in Rows
    BY <1>1, <1>3, CountedType
  <2> QED
    BY <1>1, <2>1, <2>2, OpenedType
<1> QED
  BY <1>4, <1>5, <1>6, <1>7 DEF ViolationWrites

\* Closing a row zeroes its count and its window.
LEMMA ClosedType ==
  ASSUME NEW rw \in Rows
  PROVE  /\ Closed(rw) \in Rows
         /\ Closed(rw).state = "CLOSED" /\ Closed(rw).count = 0 /\ Closed(rw).wstart = Null
  BY DEF Closed, Rows, States

-----------------------------------------------------------------------------
(* The invariant *)

\* Every reachable state is well typed, only the lock's holder is inside the
\* violation transaction, no violation is lost, and a CLOSED row is below
\* the threshold.
LEMMA InitInv == Init => Inv
  BY DEF Init, Inv, TypeOK, LockHeld, NoLostViolation, ClosedBelowThreshold, NoRow,
         Rows, States, Points, Time
\* Finishing, whatever the row has become, keeps the other handlers' locals.
LEMMA FinishType ==
  ASSUME TypeOK, NEW r \in Handlers, Finish(r)
  PROVE  /\ pc' \in [Handlers -> Points] /\ at' \in [Handlers -> Time]
         /\ seen' \in [Handlers -> Rows]
         /\ pc'[r] = "idle"
         /\ \A q \in Handlers \ {r} : pc'[q] = pc[q] /\ seen'[q] = seen[q]
  BY DEF TypeOK, Finish, Goto, Points, Time, NoRow, Rows, States

\* Every step of the breaker preserves the invariant.
LEMMA StepInv ==
  ASSUME Inv, [Next]_vars
  PROVE  Inv'
<1> USE DEF Inv
<1>1. ASSUME NEW r \in Handlers, BeginCheck(r)
      PROVE  Inv'
  BY <1>1 DEF BeginCheck, Goto, TypeOK, LockHeld, NoLostViolation, ClosedBelowThreshold,
             Points, Time
<1>2. ASSUME NEW r \in Handlers, CheckAdmits(r) \/ CheckElapsed(r)
      PROVE  Inv'
  BY <1>2 DEF CheckAdmits, CheckElapsed, Goto, TypeOK, LockHeld, NoLostViolation,
             ClosedBelowThreshold, Points
<1>3. ASSUME NEW r \in Handlers, CheckBlocks(r)
      PROVE  Inv'
  BY <1>3, FinishType DEF CheckBlocks, TypeOK, LockHeld, NoLostViolation, ClosedBelowThreshold
<1>4. ASSUME NEW r \in Handlers, CheckFlips(r)
      PROVE  Inv'
  <2>1. row' \in Rows /\ (row'.state = "ABSENT" <=> row.state = "ABSENT")
        /\ row'.count = row.count /\ row'.wstart = row.wstart
        /\ row'.state \in {"ABSENT", "HALF_OPEN"}
    BY <1>4 DEF CheckFlips, TypeOK, Rows, States
  <2>2. TypeOK' /\ LockHeld'
    BY <1>4, <2>1 DEF CheckFlips, Goto, TypeOK, LockHeld, Points
  <2>3. NoLostViolation' /\ ClosedBelowThreshold'
    BY <1>4, <2>1 DEF CheckFlips, Goto, TypeOK, NoLostViolation, ClosedBelowThreshold, Points
  <2> QED
    BY <2>2, <2>3
<1>5. ASSUME NEW r \in Handlers, CheckFails(r) \/ VerdictViolation(r)
      PROVE  Inv'
  <2>1. NoRow \in Rows
    BY DEF NoRow, Rows, States
  <2>2. CASE CheckFails(r)
    BY <2>1, <2>2 DEF CheckFails, Goto, TypeOK, LockHeld, NoLostViolation,
                      ClosedBelowThreshold, Points
  <2>3. CASE VerdictViolation(r)
    BY <2>1, <2>3 DEF VerdictViolation, Goto, TypeOK, LockHeld, NoLostViolation,
                      ClosedBelowThreshold, Points
  <2> QED
    BY <1>5, <2>2, <2>3
<1>6. ASSUME NEW r \in Handlers, VerdictAllow(r)
      PROVE  Inv'
  BY <1>6 DEF VerdictAllow, Goto, TypeOK, LockHeld, NoLostViolation, ClosedBelowThreshold, Points
<1>7. ASSUME NEW r \in Handlers, ViolationLocks(r)
      PROVE  Inv'
  BY <1>7 DEF ViolationLocks, Goto, TypeOK, LockHeld, NoLostViolation, ClosedBelowThreshold, Points
<1>8. ASSUME NEW r \in Handlers, ViolationReads(r)
      PROVE  Inv'
  BY <1>8 DEF ViolationReads, Goto, TypeOK, LockHeld, NoLostViolation, ClosedBelowThreshold, Points
<1>9. ASSUME NEW r \in Handlers, ViolationWrites(r)
      PROVE  Inv'
  <2>1. PICK new \in Rows :
          /\ CommitViolation(r, new)
          /\ new.state # "ABSENT"
          /\ new.state = "CLOSED" => new.count < Threshold
    BY <1>9, WriteIsCommit
  <2>2. Finish(r) /\ row' = new /\ lock' = Null /\ UNCHANGED <<now, begun, resets>>
    BY <2>1 DEF CommitViolation
  <2>3. log' \in Seq([at : Time, when : Time, left : States])
    BY <2>1 DEF CommitViolation, TypeOK, Rows
  <2>4. TypeOK'
    BY <2>2, <2>3, FinishType DEF TypeOK
  <2>5. \A q \in Handlers : pc'[q] \notin {"read", "write"}
    BY <2>1, <2>2, FinishType DEF CommitViolation, LockHeld
  <2>6. LockHeld' /\ NoLostViolation'
    BY <2>2, <2>5 DEF LockHeld, NoLostViolation
  <2>7. ClosedBelowThreshold'
    BY <2>1, <2>2 DEF ClosedBelowThreshold
  <2> QED
    BY <2>4, <2>6, <2>7
<1>10. ASSUME NEW r \in Handlers, SuccessCloses(r)
       PROVE  Inv'
  <2>1. Finish(r) /\ UNCHANGED <<now, lock, begun, resets, log>> /\ pc[r] = "close"
        /\ \/ row' = row
           \/ row.state # "ABSENT" /\ row' = Closed(row)
    BY <1>10 DEF SuccessCloses
  <2>2. TypeOK'
    BY <2>1, FinishType, ClosedType DEF TypeOK
  <2>3. LockHeld'
    BY <2>1, FinishType DEF LockHeld
  <2>4. NoLostViolation' /\ ClosedBelowThreshold'
    <3>1. CASE row' = row
      BY <2>1, <3>1, FinishType DEF NoLostViolation, ClosedBelowThreshold
    <3>2. CASE row.state # "ABSENT" /\ row' = Closed(row)
      BY <2>1, <3>2, FinishType, ClosedType DEF NoLostViolation, ClosedBelowThreshold, TypeOK
    <3> QED
      BY <2>1, <3>1, <3>2
  <2> QED
    BY <2>2, <2>3, <2>4
<1>11. ASSUME NEW r \in Handlers, Abort(r)
       PROVE  Inv'
  BY <1>11, FinishType DEF Abort, TypeOK, LockHeld, NoLostViolation, ClosedBelowThreshold
<1>12. ASSUME ResetBreaker
       PROVE  Inv'
  <2>1. CASE row.state = "ABSENT"
    BY <1>12, <2>1 DEF ResetBreaker, TypeOK, LockHeld, NoLostViolation, ClosedBelowThreshold
  <2>2. CASE row.state # "ABSENT"
    BY <1>12, <2>2, ClosedType DEF ResetBreaker, TypeOK, LockHeld, NoLostViolation, ClosedBelowThreshold
  <2> QED
    BY <2>1, <2>2
<1>13. ASSUME Tick
       PROVE  Inv'
  BY <1>13 DEF Tick, Time, TypeOK, LockHeld, NoLostViolation, ClosedBelowThreshold
<1>14. ASSUME UNCHANGED vars
       PROVE  Inv'
  BY <1>14 DEF vars, TypeOK, LockHeld, NoLostViolation, ClosedBelowThreshold
<1> QED
  BY <1>1, <1>2, <1>3, <1>4, <1>5, <1>6, <1>7, <1>8, <1>9, <1>10, <1>11, <1>12, <1>13, <1>14
     DEF Next, Check, Verdict, Done

\* The invariant holds in every reachable state.
LEMMA AlwaysInv == Spec => []Inv
  BY InitInv, StepInv, PTL DEF Spec

-----------------------------------------------------------------------------
(* The results *)

\* The stored row, the lock and the handlers' locals always fit their types.
THEOREM BreakerTypeCorrect == Spec => []TypeOK
<1>1. Inv => TypeOK
  BY DEF Inv
<1> QED
  BY <1>1, AlwaysInv, PTL

\* A CLOSED breaker is always below the threshold: no interleaving of
\* violations, successes, flips and resets leaves a tripped count admitted.
THEOREM ClosedIsBelowThreshold == Spec => []ClosedBelowThreshold
<1>1. Inv => ClosedBelowThreshold
  BY DEF Inv
<1> QED
  BY <1>1, AlwaysInv, PTL

\* No recorded violation overwrites another's count.
THEOREM NoViolationIsLost == Spec => []NoLostViolation
<1>1. Inv => NoLostViolation
  BY DEF Inv
<1> QED
  BY <1>1, AlwaysInv, PTL

-----------------------------------------------------------------------------
(* What a count rests on.  The log has an entry for each violation a count *)
(* counts, that of the stored row and that a handler is about to add to,   *)
(* even when the row has been closed since the handler read it.            *)

\* InWindow, of a window that starts at w.
Since(w) ==
  {i \in 1..Len(log) : log[i].when >= w /\ log[i].at <= w + Window}

Founded(rw) ==
  rw.wstart # Null => rw.wstart <= now /\ rw.count <= Cardinality(Since(rw.wstart))

CountsAreFounded ==
  /\ \A r \in Handlers : at[r] <= now
  /\ Founded(row)
  /\ \A r \in Handlers : pc[r] = "write" => Founded(seen[r])

\* The log only grows, and so does what is in a window.
LogGrows ==
  /\ now' >= now
  /\ \/ log' = log
     \/ \E e \in [at : Time, when : Time, left : States] : log' = Append(log, e)

LEMMA LogAppended ==
  ASSUME TypeOK, LogGrows
  PROVE  /\ Len(log) \in Nat /\ Len(log') \in Nat /\ Len(log) <= Len(log')
         /\ \A i \in 1..Len(log) : log'[i] = log[i]
  BY DEF TypeOK, LogGrows

LEMMA SinceIsFinite ==
  ASSUME NEW w, Len(log) \in Nat
  PROVE  IsFiniteSet(Since(w)) /\ Cardinality(Since(w)) \in Nat
<1>1. Since(w) \in SUBSET (1..Len(log)) /\ IsFiniteSet(1..Len(log))
  BY FS_Interval DEF Since
<1> QED
  BY <1>1, FS_Subset, FS_CardinalityType

LEMMA SinceGrows ==
  ASSUME TypeOK, LogGrows, NEW w
  PROVE  Cardinality(Since(w)) <= Cardinality(Since(w)')
<1>1. /\ Len(log) \in Nat /\ Len(log') \in Nat /\ Len(log) <= Len(log')
      /\ \A i \in 1..Len(log) : log'[i] = log[i]
  BY LogAppended
<1>2. Since(w) \in SUBSET (Since(w)')
  BY <1>1 DEF Since
<1>3. IsFiniteSet(Since(w)')
  <2>1. Since(w)' \in SUBSET (1..Len(log')) /\ IsFiniteSet(1..Len(log'))
    BY <1>1, FS_Interval DEF Since
  <2> QED
    BY <2>1, FS_Subset
<1> QED
  BY <1>2, <1>3, FS_Subset

LEMMA FoundedStays ==
  ASSUME TypeOK, LogGrows, TypeOK', NEW rw \in Rows, Founded(rw)
  PROVE  Founded(rw)'
<1> SUFFICES ASSUME rw.wstart # Null
             PROVE  rw.wstart <= now' /\ rw.count <= Cardinality(Since(rw.wstart)')
  BY DEF Founded
<1> DEFINE w == rw.wstart
<1>1. w \in Nat /\ rw.count \in Nat /\ now \in Nat /\ now' \in Nat
  BY DEF Rows, TypeOK, Time
<1>2. w <= now /\ rw.count <= Cardinality(Since(w))
  BY DEF Founded
<1>3. Cardinality(Since(w)) <= Cardinality(Since(w)')
  BY SinceGrows
<1>4. Cardinality(Since(w)) \in Nat
  BY SinceIsFinite DEF TypeOK
<1>5. Cardinality(Since(w)') \in Nat
  <2>1. Len(log') \in Nat
    BY LogAppended
  <2>2. Since(w)' \in SUBSET (1..Len(log')) /\ IsFiniteSet(1..Len(log'))
    BY <2>1, FS_Interval DEF Since
  <2> QED
    BY <2>2, FS_Subset, FS_CardinalityType
<1>6. w <= now'
  BY <1>1, <1>2 DEF LogGrows
<1> HIDE DEF w
<1> QED
  BY <1>1, <1>2, <1>3, <1>4, <1>5, <1>6 DEF w

\* A recorded violation is one more in every window that has begun and that it was raised
\* before the end of.
LEMMA OneMore ==
  ASSUME TypeOK, NEW e \in [at : Time, when : Time, left : States], log' = Append(log, e),
         NEW w \in Nat, e.when >= w, e.at <= w + Window
  PROVE  Cardinality(Since(w)') = Cardinality(Since(w)) + 1
<1> DEFINE n == Len(log)
<1>1. n \in Nat /\ Len(log') = n + 1 /\ log'[n + 1] = e /\ \A i \in 1..n : log'[i] = log[i]
  BY DEF TypeOK
<1>2. Since(w)' = Since(w) \cup {n + 1}
  <2>1. \A i : i \in Since(w)' <=> i \in Since(w) \/ i = n + 1
    BY <1>1 DEF Since
  <2> QED
    BY <2>1
<1>3. n + 1 \notin Since(w)
  BY <1>1 DEF Since
<1>4. IsFiniteSet(Since(w))
  BY <1>1, SinceIsFinite
<1> QED
  BY <1>2, <1>3, <1>4, FS_AddElement

\* A count of a window that has begun is founded with one violation more.
LEMMA FoundedOneMore ==
  ASSUME TypeOK, NEW e \in [at : Time, when : Time, left : States], log' = Append(log, e),
         UNCHANGED now, e.when = now, NEW rw \in Rows,
         rw.wstart \in Nat, rw.wstart <= now, e.at <= rw.wstart + Window,
         rw.count <= Cardinality(Since(rw.wstart)) + 1
  PROVE  Founded(rw)'
<1> DEFINE w == rw.wstart
<1>1. e.when >= w /\ now \in Nat
  BY DEF TypeOK, Time
<1>2. Cardinality(Since(w)') = Cardinality(Since(w)) + 1
  BY <1>1, OneMore
<1> QED
  BY <1>1, <1>2 DEF Founded

\* What record_violation computes counts no more than the window already
\* holds, and the violation being recorded.
LEMMA NewCountIsFounded ==
  ASSUME TypeOK, NEW old \in Rows, Founded(old), NEW t \in Nat, t <= now, NEW n, NEW w,
         n = NewCount(old, t), w = NewStart(old, t)
  PROVE  /\ w \in Nat /\ w <= now /\ t <= w + Window
         /\ n \in Nat /\ n <= Cardinality(Since(w)) + 1
<1>t. now \in Nat
  BY DEF TypeOK, Time
<1>1. CASE WindowExpired(old.wstart, t)
  <2>1. w = t /\ n = 1
    BY <1>1 DEF NewStart, NewCount
  <2>2. Cardinality(Since(w)) \in Nat
    BY SinceIsFinite DEF TypeOK
  <2> QED
    BY <1>t, <2>1, <2>2
<1>2. CASE ~ WindowExpired(old.wstart, t)
  <2>1. w = old.wstart /\ n = old.count + 1 /\ w # Null /\ ~ (w < t - Window)
    BY <1>2 DEF NewStart, NewCount, WindowExpired
  <2>2. w \in Nat /\ old.count \in Nat
    BY <2>1 DEF Rows
  <2>3. w <= now /\ old.count <= Cardinality(Since(w))
    BY <2>1 DEF Founded
  <2>4. PICK c : c = Cardinality(Since(w))
    OBVIOUS
  <2>5. c \in Nat
    BY <2>4, SinceIsFinite DEF TypeOK
  <2>6. n \in Nat /\ n <= c + 1
    BY <2>1, <2>2, <2>3, <2>4, <2>5
  <2> QED
    BY <1>t, <2>1, <2>2, <2>3, <2>4, <2>6
<1> QED
  BY <1>1, <1>2

\* What the row becomes, and every row a handler is about to add to, is the
\* row before the step or one founded after it.
LEMMA RowsStayFounded ==
  ASSUME TypeOK, TypeOK', CountsAreFounded, LogGrows, NEW new \in Rows, row' = new,
         \/ Founded(new)'
         \/ new.wstart = Null
         \/ new.wstart = row.wstart /\ new.count = row.count,
         \A q \in Handlers : at'[q] <= now',
         \A q \in Handlers : pc'[q] = "write" =>
            seen'[q] = row \/ (pc[q] = "write" /\ seen'[q] = seen[q])
  PROVE  CountsAreFounded'
<1>1. Founded(new)'
  <2>1. CASE new.wstart = Null
    BY <2>1 DEF Founded
  <2>2. CASE new.wstart = row.wstart /\ new.count = row.count
    <3>1. Founded(new)
      BY <2>2 DEF CountsAreFounded, Founded
    <3> QED
      BY <3>1, FoundedStays
  <2> QED
    BY <2>1, <2>2
<1>2. Founded(row)'
  BY <1>1 DEF Founded, Since
<1>3. ASSUME NEW q \in Handlers, pc'[q] = "write"
      PROVE  Founded(seen[q])'
  <2>1. PICK old \in Rows : seen'[q] = old /\ Founded(old)
    BY <1>3 DEF CountsAreFounded, TypeOK
  <2>2. Founded(old)'
    BY <2>1, FoundedStays
  <2> QED
    BY <2>1, <2>2 DEF Founded, Since
<1> QED
  BY <1>2, <1>3 DEF CountsAreFounded

\* The row a violation leaves is founded, or keeps the count it had.
LEMMA WriteIsFounded ==
  ASSUME TypeOK, NoLostViolation, CountsAreFounded, NEW r \in Handlers, ViolationWrites(r)
  PROVE  \/ Founded(row)'
         \/ row'.wstart = row.wstart /\ row'.count = row.count
<1>1. PICK e \in [at : Time, when : Time, left : States] :
        log' = Append(log, e) /\ e.at = at[r] /\ e.when = now
  <2>1. PICK new \in Rows : CommitViolation(r, new)
    BY WriteIsCommit
  <2>2. [at |-> at[r], when |-> now, left |-> new.state] \in [at : Time, when : Time, left : States]
    BY DEF TypeOK, Rows
  <2> QED
    BY <2>1, <2>2 DEF CommitViolation
<1>2. /\ UNCHANGED now /\ pc[r] = "write" /\ at[r] \in Nat /\ at[r] <= now /\ row \in Rows
      /\ seen[r] \in Rows /\ Founded(seen[r]) /\ now \in Nat
  BY DEF ViolationWrites, FirstViolation, FailedTrial, CountedViolation, TrippingViolation,
         CommitViolation, CountsAreFounded, TypeOK, Time
<1>3. ASSUME NEW new \in Rows, row' = new, Founded(new)'
      PROVE  Founded(row)'
  BY <1>3 DEF Founded, Since
<1>4. PICK n, w : n = NewCount(seen[r], at[r]) /\ w = NewStart(seen[r], at[r])
  OBVIOUS
<1>5. /\ w \in Nat /\ w <= now /\ at[r] <= w + Window
      /\ n \in Nat /\ n <= Cardinality(Since(w)) + 1
  <2>1. PICK old \in Rows, t \in Nat : old = seen[r] /\ t = at[r]
    BY <1>2
  <2> QED
    BY <1>2, <1>4, <2>1, NewCountIsFounded
<1>6. ASSUME row'.wstart = w, row'.count = n, row' \in Rows
      PROVE  Founded(row)'
  <2>1. PICK new \in Rows : row' = new
    BY <1>6
  <2>2. Founded(new)'
    BY <1>1, <1>2, <1>5, <1>6, <2>1, FoundedOneMore
  <2> QED
    BY <1>3, <2>1, <2>2
<1>7. CASE FirstViolation(r)
  <2>1. PICK t \in Nat : t = at[r]
    BY <1>2
  <2>2. PICK new \in Rows : row' = new /\ new.wstart = t /\ new.count = 1
    BY <1>7, <2>1 DEF FirstViolation, CommitViolation, Rows, States
  <2>3. Cardinality(Since(t)) \in Nat
    BY SinceIsFinite DEF TypeOK
  <2>4. t <= t + Window /\ 1 <= Cardinality(Since(t)) + 1
    BY <2>3
  <2>5. Founded(new)'
    BY <1>1, <1>2, <2>1, <2>2, <2>4, FoundedOneMore
  <2> QED
    BY <1>3, <2>2, <2>5
<1>8. CASE FailedTrial(r)
  BY <1>8, <1>2 DEF FailedTrial, CommitViolation, Opened, Rows
<1>9. CASE CountedViolation(r)
  <2>1. row' = Counted(row, n, w)
    BY <1>4, <1>9 DEF CountedViolation, CommitViolation
  <2> QED
    BY <1>2, <1>5, <1>6, <2>1 DEF Counted, Rows
<1>10. CASE TrippingViolation(r)
  <2>1. row' = Opened(Counted(row, n, w), at[r] + Cooldown)
    BY <1>4, <1>10 DEF TrippingViolation, CommitViolation
  <2>2. Counted(row, n, w) \in Rows /\ Counted(row, n, w).wstart = w /\ Counted(row, n, w).count = n
    BY <1>2, <1>5 DEF Counted, Rows
  <2>3. PICK cnt \in Rows : cnt = Counted(row, n, w)
    BY <2>2
  <2>4. at[r] + Cooldown \in Nat
    BY <1>2
  <2>5. row' \in Rows /\ row'.wstart = cnt.wstart /\ row'.count = cnt.count
    BY <2>1, <2>3, <2>4 DEF Opened, Rows, States
  <2> QED
    BY <1>6, <2>2, <2>3, <2>5
<1> QED
  BY <1>7, <1>8, <1>9, <1>10 DEF ViolationWrites

LEMMA InitFounded == Init => CountsAreFounded
  BY DEF Init, CountsAreFounded, Founded, NoRow

\* Every step of the breaker keeps every count founded.
LEMMA StepFounded ==
  ASSUME Inv, Inv', CountsAreFounded, [Next]_vars
  PROVE  CountsAreFounded'
<1> USE DEF Inv
<1>t. /\ at \in [Handlers -> Time] /\ seen \in [Handlers -> Rows] /\ pc \in [Handlers -> Points]
      /\ now \in Nat /\ row \in Rows /\ row' \in Rows
      /\ \A q \in Handlers : at[q] \in Nat /\ at[q] <= now
  BY DEF TypeOK, Time, CountsAreFounded
<1>k. ASSUME LogGrows,
             \/ Founded(row)'
             \/ row'.wstart = Null
             \/ row'.wstart = row.wstart /\ row'.count = row.count,
             \A q \in Handlers : at'[q] <= now',
             \A q \in Handlers : pc'[q] = "write" =>
               seen'[q] = row \/ (pc[q] = "write" /\ seen'[q] = seen[q])
      PROVE  CountsAreFounded'
  <2>1. PICK new \in Rows : row' = new
    BY <1>t
  <2>2. Founded(row)' => Founded(new)'
    BY <2>1 DEF Founded, Since
  <2> QED
    BY <1>k, <2>1, <2>2, RowsStayFounded
\* Finish takes the handler out of the transaction and its clock back to 0.
<1>f. ASSUME NEW r \in Handlers, Finish(r), now' = now
      PROVE  /\ \A q \in Handlers : at'[q] <= now'
             /\ \A q \in Handlers : pc'[q] = "write" => pc[q] = "write" /\ seen'[q] = seen[q]
  BY <1>f, <1>t DEF Finish, Goto
<1>1. ASSUME NEW r \in Handlers, BeginCheck(r)
      PROVE  CountsAreFounded'
  BY <1>1, <1>k, <1>t DEF BeginCheck, Goto, LogGrows
<1>2. ASSUME NEW r \in Handlers, CheckAdmits(r) \/ CheckElapsed(r) \/ CheckFails(r)
      PROVE  CountsAreFounded'
  BY <1>2, <1>k, <1>t DEF CheckAdmits, CheckElapsed, CheckFails, Goto, LogGrows
<1>3. ASSUME NEW r \in Handlers, CheckBlocks(r)
      PROVE  CountsAreFounded'
  <2>1. Finish(r) /\ now' = now /\ row' = row /\ log' = log
    BY <1>3 DEF CheckBlocks
  <2> QED
    BY <2>1, <1>f, <1>k, <1>t DEF LogGrows
<1>4. ASSUME NEW r \in Handlers, CheckFlips(r)
      PROVE  CountsAreFounded'
  <2>1. row'.wstart = row.wstart /\ row'.count = row.count
    BY <1>4, <1>t DEF CheckFlips, Rows
  <2> QED
    BY <1>4, <2>1, <1>k, <1>t DEF CheckFlips, Goto, LogGrows
<1>5. ASSUME NEW r \in Handlers, VerdictViolation(r)
      PROVE  CountsAreFounded'
  BY <1>5, <1>k, <1>t DEF VerdictViolation, Goto, LogGrows
<1>6. ASSUME NEW r \in Handlers, VerdictAllow(r) \/ ViolationLocks(r) \/ ViolationReads(r)
      PROVE  CountsAreFounded'
  BY <1>6, <1>k, <1>t DEF VerdictAllow, ViolationLocks, ViolationReads, Goto, LogGrows
<1>7. ASSUME NEW r \in Handlers, ViolationWrites(r)
      PROVE  CountsAreFounded'
  <2>1. PICK new \in Rows : CommitViolation(r, new)
    BY <1>7, WriteIsCommit
  <2>2. [at |-> at[r], when |-> now, left |-> new.state] \in [at : Time, when : Time, left : States]
    BY DEF TypeOK, Rows
  <2>3. Finish(r) /\ now' = now /\ LogGrows
    BY <2>1, <2>2, <1>t DEF CommitViolation, LogGrows
  <2>4. Founded(row)' \/ (row'.wstart = row.wstart /\ row'.count = row.count)
    BY <1>7, WriteIsFounded
  <2> QED
    BY <2>3, <2>4, <1>f, <1>k
<1>8. ASSUME NEW r \in Handlers, SuccessCloses(r)
      PROVE  CountsAreFounded'
  <2>1. Finish(r) /\ now' = now /\ log' = log /\ (row' = row \/ row' = Closed(row))
    BY <1>8 DEF SuccessCloses
  <2>2. row' = row \/ row'.wstart = Null
    BY <2>1, <1>t, ClosedType
  <2> QED
    BY <2>1, <2>2, <1>f, <1>k, <1>t DEF LogGrows
<1>9. ASSUME NEW r \in Handlers, Abort(r)
      PROVE  CountsAreFounded'
  <2>1. Finish(r) /\ now' = now /\ row' = row /\ log' = log
    BY <1>9 DEF Abort
  <2> QED
    BY <2>1, <1>f, <1>k, <1>t DEF LogGrows
<1>10. ASSUME ResetBreaker
       PROVE  CountsAreFounded'
  <2>1. row' = row \/ row'.wstart = Null
    BY <1>10, <1>t, ClosedType DEF ResetBreaker
  <2> QED
    BY <1>10, <2>1, <1>k, <1>t DEF ResetBreaker, LogGrows
<1>11. ASSUME Tick
       PROVE  CountsAreFounded'
  BY <1>11, <1>k, <1>t DEF Tick, LogGrows
<1>12. ASSUME UNCHANGED vars
       PROVE  CountsAreFounded'
  BY <1>12, <1>k, <1>t DEF vars, LogGrows
<1> QED
  BY <1>1, <1>2, <1>3, <1>4, <1>5, <1>6, <1>7, <1>8, <1>9, <1>10, <1>11, <1>12
     DEF Next, Check, Verdict, Done

\* Only a violation trips the breaker: a failed trial, or one whose count
\* reaches the threshold, and that count is in the row.
LEMMA TripIsViolation ==
  ASSUME Inv, [Next]_vars, row.state # "OPEN", row'.state = "OPEN"
  PROVE  \E r \in Handlers :
           /\ pc[r] = "write"
           /\ \/ seen[r].state = "HALF_OPEN"
              \/ row'.count >= Threshold /\ row'.wstart # Null
<1> USE DEF Inv
<1>t. row \in Rows
  BY DEF TypeOK
<1>1. CASE \E r \in Handlers : ViolationWrites(r)
  <2>1. PICK r \in Handlers : ViolationWrites(r)
    BY <1>1
  <2>2. /\ pc[r] = "write" /\ seen[r] \in Rows /\ at[r] \in Nat
    BY <2>1 DEF ViolationWrites, FirstViolation, FailedTrial, CountedViolation,
                TrippingViolation, CommitViolation, TypeOK, Time
  <2>3. PICK n, w : n = NewCount(seen[r], at[r]) /\ w = NewStart(seen[r], at[r])
    OBVIOUS
  <2>4. n \in Nat /\ w \in Nat
    BY <2>2, <2>3 DEF NewCount, NewStart, WindowExpired, Rows
  <2>5. CASE FirstViolation(r)
    BY <2>5 DEF FirstViolation, CommitViolation
  <2>6. CASE FailedTrial(r)
    BY <2>2, <2>6 DEF FailedTrial
  <2>7. CASE CountedViolation(r)
    BY <2>7, <1>t DEF CountedViolation, CommitViolation, Counted, Rows
  <2>8. CASE TrippingViolation(r)
    <3>1. row' = Opened(Counted(row, n, w), at[r] + Cooldown) /\ n >= Threshold
      BY <2>3, <2>8 DEF TrippingViolation, CommitViolation, Trips
    <3>2. row'.count = n /\ row'.wstart = w
      BY <3>1, <2>4, <1>t DEF Opened, Counted, Rows
    <3> QED
      BY <2>2, <2>4, <3>1, <3>2
  <2> QED
    BY <2>1, <2>5, <2>6, <2>7, <2>8 DEF ViolationWrites
<1>2. CASE row' = row
  BY <1>2
<1>3. CASE \E r \in Handlers : CheckFlips(r) \/ SuccessCloses(r)
  BY <1>3, <1>t, ClosedType DEF CheckFlips, SuccessCloses, Rows
<1>4. CASE ResetBreaker
  BY <1>4, <1>t, ClosedType DEF ResetBreaker
<1> QED
  BY <1>1, <1>2, <1>3, <1>4
     DEF Next, Check, Verdict, Done, vars, BeginCheck, CheckAdmits, CheckBlocks, CheckElapsed,
         CheckFails, VerdictViolation, VerdictAllow, ViolationLocks, ViolationReads, Abort, Tick

\* The breaker is tripped by a failed trial or by Threshold recorded
\* violations of one window, never by fewer nor by those of an expired one.
THEOREM TripsHaveCauses == Spec => TripNeedsCause
<1> DEFINE Caused == row.state # "OPEN" /\ row'.state = "OPEN" =>
                       \/ \E r \in Handlers : pc[r] = "write" /\ seen[r].state = "HALF_OPEN"
                       \/ Cardinality(InWindow') >= Threshold
<1>1. Inv /\ CountsAreFounded /\ [Next]_vars => Inv' /\ CountsAreFounded'
  BY StepInv, StepFounded
<1>2. Inv /\ CountsAreFounded /\ [Next]_vars => [Caused]_vars
  <2> SUFFICES ASSUME Inv, CountsAreFounded, [Next]_vars, row.state # "OPEN", row'.state = "OPEN",
                      ~ \E r \in Handlers : pc[r] = "write" /\ seen[r].state = "HALF_OPEN"
               PROVE  Cardinality(InWindow') >= Threshold
    OBVIOUS
  <2>1. row'.count >= Threshold /\ row'.wstart # Null
    BY TripIsViolation
  <2>2. Founded(row)' /\ TypeOK'
    BY <1>1 DEF CountsAreFounded, Inv
  <2>3. row'.count <= Cardinality(InWindow')
    BY <2>1, <2>2 DEF Founded, Since, InWindow
  <2>4. Cardinality(InWindow') \in Nat
    <3>1. PICK members : members = InWindow'
      OBVIOUS
    <3>2. PICK all \in Nat : all = Len(log')
      BY <2>2 DEF TypeOK
    <3>3. members \in SUBSET (1..all) /\ IsFiniteSet(1..all)
      BY <3>1, <3>2, FS_Interval DEF InWindow
    <3>4. IsFiniteSet(members)
      BY <3>3, FS_Subset
    <3> QED
      BY <3>1, <3>4, FS_CardinalityType
  <2> QED
    BY <2>1, <2>2, <2>3, <2>4 DEF TypeOK, Rows
<1>3. Spec => [][Caused]_vars
  BY InitInv, InitFounded, <1>1, <1>2, PTL DEF Spec
<1> QED
  BY <1>3 DEF TripNeedsCause
=============================================================================
