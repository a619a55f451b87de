------------------------- MODULE RateLimiterProofs --------------------------
(* The rate limiter admits no more than it should in any window, for every  *)
(* number of calls and keys, limit, window, and disagreement of clocks.     *)
EXTENDS RateLimiter, FiniteSetTheorems, TLAPS

InTransaction == {"count", "insert"}

\* A call past the lock holds the lock of its key.
LockHeld == \A c \in Calls : pc[c] \in InTransaction => lock[key[c]] = c

\* The window of a call starts no later than it should by the clock its own
\* event is stamped with: it is computed before the transaction begins.
SinceIsOld ==
  \A c \in Calls :
    /\ pc[c] = "begin" => since[c] <= now + Skew - Window
    /\ pc[c] \in {"lock"} \cup InTransaction => since[c] <= start[c] + Skew - Window

\* A call about to insert still finds fewer than max_count events in its window.
RoomLeft == \A c \in Calls : pc[c] = "insert" => Cardinality(Counted(c)) < MaxCount

\* Inductive: WindowBound needs to know what the inserting call has counted,
\* that its window reaches back far enough, and that nobody inserts under it.
Inv == TypeOK /\ IsFiniteSet(events) /\ LockHeld /\ SinceIsOld /\ RoomLeft /\ WindowBound

USE NumbersAssumption, NullAssumption

-----------------------------------------------------------------------------
\* Every subset of the finite table is finite and has a size.
LEMMA CountType ==
  ASSUME IsFiniteSet(events), NEW S, S \subseteq events
  PROVE  IsFiniteSet(S) /\ Cardinality(S) \in Nat
  BY FS_Subset, FS_CardinalityType

\* One element more makes a set at most one larger.
LEMMA OneMore ==
  ASSUME NEW K, IsFiniteSet(K), Cardinality(K) < MaxCount,
         NEW D, D \subseteq K, NEW x, NEW E, E \subseteq D \cup {x}
  PROVE  Cardinality(E) <= MaxCount
<1>1. IsFiniteSet(K \cup {x})
  BY FS_AddElement
<1>2. Cardinality(K \cup {x}) = IF x \in K THEN Cardinality(K) ELSE Cardinality(K) + 1
  BY FS_AddElement
<1>3. Cardinality(K) \in Nat
  BY FS_CardinalityType
<1>4. E \in SUBSET (K \cup {x})
  OBVIOUS
<1>5. IsFiniteSet(E) /\ Cardinality(E) <= Cardinality(K \cup {x})
  BY <1>1, <1>4, FS_Subset
<1>6. Cardinality(E) \in Nat
  BY <1>5, FS_CardinalityType
<1> QED
  BY <1>2, <1>3, <1>5, <1>6

LEMMA NoMore ==
  ASSUME NEW D, IsFiniteSet(D), Cardinality(D) <= MaxCount, NEW E, E \subseteq D
  PROVE  Cardinality(E) <= MaxCount
<1>1. E \in SUBSET D
  OBVIOUS
<1>2. IsFiniteSet(E) /\ Cardinality(E) <= Cardinality(D)
  BY <1>1, FS_Subset
<1>3. Cardinality(D) \in Nat /\ Cardinality(E) \in Nat
  BY <1>2, FS_CardinalityType
<1> QED
  BY <1>2, <1>3

\* With no event inserted, nothing that is counted changes.
LEMMA CountsKept ==
  ASSUME UNCHANGED <<events, key>>, WindowBound
  PROVE  WindowBound'
  BY DEF WindowBound, During

LEMMA InitInv == Init => Inv
<1> SUFFICES ASSUME Init PROVE Inv
  OBVIOUS
<1>1. TypeOK
  BY DEF Init, TypeOK
<1>2. IsFiniteSet(events)
  BY FS_EmptySet DEF Init
<1> QED
  BY <1>1, <1>2 DEF Init, Inv, LockHeld, SinceIsOld, RoomLeft, WindowBound, InTransaction

\* A step that ends a call without inserting preserves the invariant.
LEMMA FinishInv ==
  ASSUME Inv, NEW c \in Calls, NEW a \in {"allowed", "refused", "unchecked"},
         Finish(c, a), UNCHANGED <<now, events, key, since, start>>
  PROVE  Inv'
<1>1. TypeOK'
  BY DEF Inv, TypeOK, Finish, Goto
<1>2. \A d \in Calls : d # c => pc'[d] = pc[d]
  BY DEF Inv, TypeOK, Finish, Goto
<1>3. pc'[c] = "done"
  BY DEF Inv, TypeOK, Finish, Goto
<1>4. LockHeld'
  BY <1>2, <1>3 DEF Inv, TypeOK, LockHeld, Finish, InTransaction
<1>5. SinceIsOld'
  BY <1>2, <1>3 DEF Inv, SinceIsOld, InTransaction
<1>6. RoomLeft'
  BY <1>2, <1>3 DEF Inv, RoomLeft, Counted
<1> QED
  BY <1>1, <1>4, <1>5, <1>6, CountsKept DEF Inv

\* An insertion preserves the invariant: a window that gains the new event was
\* counted, whole, by the call that makes it.
LEMMA InsertInv ==
  ASSUME Inv, NEW c \in Calls, Insert(c)
  PROVE  Inv'
<1> DEFINE row == [call |-> c, key |-> key[c], at |-> start[c]]
<1>1. TypeOK /\ IsFiniteSet(events) /\ pc[c] = "insert" /\ lock[key[c]] = c
  BY DEF Inv, Insert, LockHeld, InTransaction
<1>2. row \in Events /\ row.key = key[c] /\ row.at = start[c] /\ start[c] \in Nat /\ since[c] \in Int
  BY <1>1 DEF TypeOK, Events
<1>3. events' = events \cup {row}
  BY DEF Insert
<1> HIDE DEF row
<1>4. /\ TypeOK'
      /\ \A d \in Calls : d # c => pc'[d] = pc[d]
      /\ pc'[c] = "done"
      /\ UNCHANGED <<now, key, since, start>>
  BY <1>1, <1>2, <1>3 DEF TypeOK, Insert, Finish, Goto
<1>5. IsFiniteSet(events')
  BY <1>1, <1>3, FS_AddElement
<1>6. LockHeld'
  BY <1>1, <1>4 DEF Inv, TypeOK, LockHeld, Insert, Finish, InTransaction
<1>7. SinceIsOld'
  BY <1>4 DEF Inv, SinceIsOld, InTransaction
<1>8. RoomLeft'
  <2> SUFFICES ASSUME NEW d \in Calls, pc'[d] = "insert"
               PROVE  Cardinality(Counted(d)') < MaxCount
    BY DEF RoomLeft
  <2>1. d # c /\ pc[d] = "insert"
    BY <1>4
  <2>2. key[d] # key[c]
    BY <1>1, <2>1 DEF Inv, LockHeld, InTransaction
  <2>3. Counted(d)' = Counted(d)
    BY <1>2, <1>3, <1>4, <2>2 DEF Counted
  <2> QED
    BY <2>1, <2>3 DEF Inv, RoomLeft
<1>9. WindowBound'
  <2> SUFFICES ASSUME NEW e \in events'
               PROVE  Cardinality(During(e.key, e.at)') <= MaxCount
    BY DEF WindowBound
  <2>1. e.at \in Nat
    <3>1. events' \subseteq Events
      BY <1>4 DEF TypeOK
    <3> QED
      BY <3>1 DEF Events
  <2>2. During(e.key, e.at)' \subseteq During(e.key, e.at) \cup {row}
    BY <1>3, <1>4 DEF During
  <2>3. During(e.key, e.at) \subseteq events
    BY DEF During
  <2>4. CASE row \in During(e.key, e.at)'
    <3>1. row.key = e.key /\ e.at <= row.at /\ row.at <= e.at + Window - Skew
      BY <2>4 DEF During
    <3>2. since[c] <= e.at
      <4>1. since[c] <= start[c] + Skew - Window
        BY <1>1 DEF Inv, SinceIsOld, InTransaction
      <4> QED
        BY <1>2, <2>1, <3>1, <4>1
    <3>3. During(e.key, e.at) \subseteq Counted(c)
      <4> SUFFICES ASSUME NEW f \in During(e.key, e.at) PROVE f \in Counted(c)
        OBVIOUS
      <4>1. f \in events /\ f.key = key[c] /\ e.at <= f.at /\ f.at \in Nat
        BY <1>1, <1>2, <3>1 DEF During, TypeOK, Events
      <4> QED
        BY <1>2, <2>1, <3>2, <4>1 DEF Counted
    <3>4. Counted(c) \subseteq events /\ Cardinality(Counted(c)) < MaxCount
      BY <1>1 DEF Inv, RoomLeft, Counted
    <3>5. IsFiniteSet(Counted(c))
      BY <1>1, <3>4, CountType
    <3> QED
      BY <2>2, <3>3, <3>4, <3>5, OneMore
  <2>5. CASE row \notin During(e.key, e.at)'
    <3>1. During(e.key, e.at)' \subseteq During(e.key, e.at)
      BY <2>2, <2>5
    <3>2. IsFiniteSet(During(e.key, e.at))
      BY <1>1, <2>3, CountType
    <3>3. CASE e \in events
      <4>1. Cardinality(During(e.key, e.at)) <= MaxCount
        BY <3>3 DEF Inv, WindowBound
      <4> QED
        BY <3>1, <3>2, <4>1, NoMore
    \* Only when the window is shorter than the skew is an event outside the
    \* window it begins, and then that window is empty.
    <3>4. CASE e = row
      <4>1. Window - Skew < 0
        BY <1>2, <1>3, <2>5, <3>4 DEF During
      <4>2. During(e.key, e.at) = {}
        BY <1>1, <2>1, <4>1 DEF During, TypeOK, Events
      <4>3. Cardinality(During(e.key, e.at)) <= MaxCount
        BY <4>2, FS_EmptySet
      <4> QED
        BY <3>1, <3>2, <4>3, NoMore
    <3> QED
      BY <1>3, <3>3, <3>4
  <2> QED
    BY <2>4, <2>5
<1> QED
  BY <1>4, <1>5, <1>6, <1>7, <1>8, <1>9 DEF Inv

\* Every step preserves the invariant.
LEMMA StepInv == Inv /\ [Next]_vars => Inv'
<1> SUFFICES ASSUME Inv, [Next]_vars PROVE Inv'
  OBVIOUS
<1> USE DEF Inv
<1>1. ASSUME NEW c \in Calls, NEW skew \in -Skew..Skew, CheckRateLimit(c, skew) PROVE Inv'
  <2>1. TypeOK'
    BY <1>1 DEF TypeOK, CheckRateLimit, Goto
  <2>2. UNCHANGED <<now, events, lock, key, start>> /\ \A d \in Calls :
          IF d = c THEN pc'[d] = "begin" /\ since'[d] = now + skew - Window
                   ELSE pc'[d] = pc[d] /\ since'[d] = since[d]
    BY <1>1 DEF TypeOK, CheckRateLimit, Goto
  <2>3. SinceIsOld'
    BY <2>1, <2>2 DEF TypeOK, SinceIsOld, InTransaction
  <2>4. LockHeld' /\ RoomLeft'
    BY <2>2 DEF LockHeld, RoomLeft, Counted, InTransaction
  <2> QED
    BY <2>1, <2>2, <2>3, <2>4, CountsKept
<1>2. ASSUME NEW c \in Calls, Begin(c) PROVE Inv'
  <2>1. TypeOK'
    BY <1>2 DEF TypeOK, Begin, Goto
  <2>2. UNCHANGED <<now, events, lock, key, since>> /\ pc[c] = "begin" /\ \A d \in Calls :
          IF d = c THEN pc'[d] = "lock" /\ start'[d] = now
                   ELSE pc'[d] = pc[d] /\ start'[d] = start[d]
    BY <1>2 DEF TypeOK, Begin, Goto
  <2>3. SinceIsOld'
    BY <2>1, <2>2 DEF TypeOK, SinceIsOld, InTransaction
  <2>4. LockHeld' /\ RoomLeft'
    BY <2>2 DEF LockHeld, RoomLeft, Counted, InTransaction
  <2> QED
    BY <2>1, <2>2, <2>3, <2>4, CountsKept
<1>3. ASSUME NEW c \in Calls, Lock(c) PROVE Inv'
  <2>1. TypeOK'
    BY <1>3 DEF TypeOK, Lock, Goto
  <2>2. UNCHANGED <<now, events, key, since, start>> /\ pc[c] = "lock" /\ lock[key[c]] = Null
    BY <1>3 DEF Lock
  <2>3. \A d \in Calls : pc'[d] = IF d = c THEN "count" ELSE pc[d]
    BY <1>3 DEF TypeOK, Lock, Goto
  <2>4. \A k \in Keys : lock'[k] = IF k = key[c] THEN c ELSE lock[k]
    BY <1>3 DEF TypeOK, Lock
  <2>5. LockHeld'
    BY <2>2, <2>3, <2>4 DEF TypeOK, LockHeld, InTransaction
  <2>6. SinceIsOld' /\ RoomLeft'
    BY <2>2, <2>3 DEF SinceIsOld, RoomLeft, Counted, InTransaction
  <2> QED
    BY <2>1, <2>2, <2>5, <2>6, CountsKept
<1>4. ASSUME NEW c \in Calls, Refuse(c) PROVE Inv'
  BY <1>4, FinishInv DEF Refuse
<1>5. ASSUME NEW c \in Calls, Admit(c) PROVE Inv'
  <2>1. TypeOK'
    BY <1>5 DEF TypeOK, Admit, Goto
  <2>2. /\ UNCHANGED <<now, events, lock, key, since, start>>
        /\ pc[c] = "count" /\ Cardinality(Counted(c)) < MaxCount
        /\ \A d \in Calls : pc'[d] = IF d = c THEN "insert" ELSE pc[d]
    BY <1>5 DEF TypeOK, Admit, Goto
  <2>3. \A d \in Calls : Counted(d)' = Counted(d)
    BY <2>2 DEF Counted
  <2>4. LockHeld' /\ SinceIsOld' /\ RoomLeft'
    BY <2>2, <2>3 DEF LockHeld, SinceIsOld, RoomLeft, InTransaction
  <2> QED
    BY <2>1, <2>2, <2>4, CountsKept
<1>6. ASSUME NEW c \in Calls, Insert(c) PROVE Inv'
  BY <1>6, InsertInv
<1>7. ASSUME NEW c \in Calls, FailOpen(c) PROVE Inv'
  BY <1>7, FinishInv DEF FailOpen
<1>8. CASE Tick
  <2>1. TypeOK' /\ now' >= now /\ UNCHANGED <<events, lock, pc, key, since, start>>
    BY <1>8 DEF TypeOK, Tick
  <2>2. SinceIsOld'
    BY <2>1 DEF TypeOK, SinceIsOld, InTransaction
  <2>3. LockHeld' /\ RoomLeft'
    BY <2>1 DEF LockHeld, RoomLeft, Counted, InTransaction
  <2> QED
    BY <2>1, <2>2, <2>3, CountsKept
<1>9. CASE UNCHANGED vars
  BY <1>9 DEF vars, TypeOK, LockHeld, SinceIsOld, RoomLeft, Counted, WindowBound, During, InTransaction
<1> QED
  BY <1>1, <1>2, <1>3, <1>4, <1>5, <1>6, <1>7, <1>8, <1>9 DEF Next, Done

-----------------------------------------------------------------------------
(* Theorems *)

LEMMA AlwaysInv == Spec => []Inv
  BY InitInv, StepInv, PTL DEF Spec

\* Every variable of the limiter keeps its type.
THEOREM LimiterTypeCorrect == Spec => []TypeOK
  BY AlwaysInv, PTL DEF Inv

\* No window ever holds more than max_count admitted calls of one key
\* (rate_limiter.py:39-58).
THEOREM LimiterBoundsEveryWindow == Spec => []WindowBound
  BY AlwaysInv, PTL DEF Inv
=============================================================================
