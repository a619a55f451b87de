-------------------------- MODULE AuditChainProofs --------------------------
(* Safety of the audit trail, for every number of instances and decisions. *)
EXTENDS AuditChain, TLAPS

USE NullAssumption, BoundAssumption

\* The lock's holder is the instance inside the sealing transaction.
LockHeld == \A i \in Instances : pc[i] \in {"read", "insert"} <=> lock = i

\* A decision in flight belongs to one instance and has no row yet.
InFlightFresh ==
  /\ \A i \in Instances : pc[i] # "idle" => answer[dec[i]] = "pending"
  /\ \A i, j \in Instances : pc[i] # "idle" /\ pc[j] # "idle" /\ dec[i] = dec[j] => i = j
  /\ \A k \in DOMAIN trail : answer[trail[k].dec] \notin {"new", "pending"}

\* Inductive: the chain stays linked because what was read is current, which
\* needs the lock; no decision has two rows because those in flight are fresh.
Inv == TypeOK /\ LockHeld /\ ChainLinked /\ ReadIsCurrent /\ InFlightFresh /\ LoggedIsStored

-----------------------------------------------------------------------------
(* The head of a linked chain *)

\* Every position of the trail holds a block.
LEMMA BlockAt ==
  ASSUME TypeOK, NEW k \in DOMAIN trail
  PROVE  trail[k].num \in Nat /\ trail[k].dec \in Decisions /\ trail[k].hash \in Hashes
<1>1. trail[k] \in Blocks
  BY DEF TypeOK
<1> QED
  BY <1>1 DEF Blocks

\* In a linked chain the highest block is the last row, so LastNum is the
\* length and LastHash the hash of the last row.
LEMMA HeadOfChain ==
  ASSUME TypeOK, ChainLinked
  PROVE  /\ LastNum = Len(trail)
         /\ LastHash = IF Len(trail) = 0 THEN Genesis ELSE trail[Len(trail)].hash
<1>1. trail \in Seq(Blocks) /\ DOMAIN trail = 1..Len(trail) /\ Len(trail) \in Nat
  BY DEF TypeOK
<1>2. CASE Len(trail) = 0
  <2>1. Rows = {}
    BY <1>1, <1>2 DEF Rows
  <2> QED
    BY <1>2, <2>1 DEF LastNum, LastHash
<1>3. CASE Len(trail) # 0
  <2> DEFINE n == Len(trail)
             top == trail[n]
  <2>1. n \in DOMAIN trail /\ top \in Rows /\ Rows # {}
    BY <1>1, <1>3 DEF Rows
  <2>2. \A b \in Rows : \E k \in 1..n : b = trail[k] /\ b.num = k
    BY <1>1 DEF Rows, ChainLinked
  <2>3. top.num = n
    BY <2>1 DEF ChainLinked
  <2>4. \A c \in Rows : c.num <= top.num
    BY <1>1, <2>2, <2>3
  <2>5. \A b \in Rows : (\A c \in Rows : c.num <= b.num) => b = top
    <3> SUFFICES ASSUME NEW b \in Rows, \A c \in Rows : c.num <= b.num
                 PROVE  b = top
      OBVIOUS
    <3>1. PICK k \in 1..n : b = trail[k] /\ b.num = k
      BY <2>2
    <3>2. top.num <= b.num
      BY <2>1
    <3>3. n <= k
      BY <2>3, <3>1, <3>2
    <3> QED
      BY <1>1, <3>1, <3>3
  <2>6. Highest(Rows) = top
    BY <2>1, <2>4, <2>5 DEF Highest
  <2> QED
    BY <1>3, <2>1, <2>3, <2>6 DEF LastNum, LastHash
<1> QED
  BY <1>2, <1>3

\* A block sealed on the current head extends a linked chain to a linked chain.
LEMMA SealKeepsChain ==
  ASSUME TypeOK, ChainLinked, ReadIsCurrent, NEW i \in Instances, Insert(i)
  PROVE  /\ trail' \in Seq(Blocks) /\ ChainLinked'
         /\ trail' = Append(trail, NewBlock(i))
         /\ read[i].num = Len(trail) + 1
<1>1. /\ trail \in Seq(Blocks) /\ DOMAIN trail = 1..Len(trail) /\ Len(trail) \in Nat
      /\ pc[i] = "insert" /\ dec[i] \in Decisions /\ read[i] \in Heads
  BY DEF TypeOK, Insert
<1>2. read[i].num = LastNum + 1 /\ read[i].prev = LastHash
  BY <1>1 DEF ReadIsCurrent
<1>3. /\ read[i].num = Len(trail) + 1
      /\ read[i].prev = IF Len(trail) = 0 THEN Genesis ELSE trail[Len(trail)].hash
  BY <1>2, HeadOfChain
<1>4. NewBlock(i) \in Blocks
  BY <1>1 DEF NewBlock, Blocks, Heads, Hashes, BlockHash
<1>5. trail' = Append(trail, NewBlock(i))
  BY DEF Insert
<1>6. /\ NewBlock(i).num = Len(trail) + 1 /\ NewBlock(i).dec = dec[i]
      /\ NewBlock(i).prev = read[i].prev
      /\ NewBlock(i).hash = BlockHash(dec[i], read[i].prev)
  BY <1>3 DEF NewBlock
<1>7. /\ trail' \in Seq(Blocks) /\ Len(trail') = Len(trail) + 1
      /\ DOMAIN trail' = 1..(Len(trail) + 1)
      /\ \A k \in 1..Len(trail) : trail'[k] = trail[k]
      /\ trail'[Len(trail) + 1] = NewBlock(i)
  BY <1>1, <1>4, <1>5
<1>8. ChainLinked'
  <2> SUFFICES ASSUME NEW k \in 1..(Len(trail) + 1)
               PROVE  /\ trail'[k].num = k
                      /\ trail'[k].prev = IF k = 1 THEN Genesis ELSE trail'[k - 1].hash
                      /\ trail'[k].hash = BlockHash(trail'[k].dec, trail'[k].prev)
    BY <1>7 DEF ChainLinked, BlockHash, Genesis
  <2>1. CASE k \in 1..Len(trail)
    BY <1>1, <1>7, <2>1 DEF ChainLinked
  <2>2. CASE k = Len(trail) + 1
    BY <1>1, <1>3, <1>6, <1>7, <2>2
  <2> QED
    BY <1>1, <2>1, <2>2
<1> QED
  BY <1>3, <1>5, <1>7, <1>8

-----------------------------------------------------------------------------
(* The invariant *)

LEMMA InitInv == Init => Inv
<1> SUFFICES ASSUME Init PROVE Inv
  OBVIOUS
<1>1. trail = <<>> /\ trail \in Seq(Blocks) /\ DOMAIN trail = {}
  BY DEF Init
<1>2. NoHead \in Heads
  BY DEF NoHead, Heads, Genesis, Hashes
<1>3. TypeOK
  BY <1>1, <1>2 DEF Init, TypeOK
<1> QED
  BY <1>1, <1>3 DEF Init, Inv, LockHeld, ChainLinked, ReadIsCurrent, InFlightFresh, LoggedIsStored

\* What every end of a call leaves behind.
LEMMA FinishType ==
  ASSUME TypeOK, LockHeld, NEW i \in Instances, Finish(i)
  PROVE  /\ pc' \in [Instances -> {"idle", "lock", "read", "insert"}]
         /\ dec' \in [Instances -> Decisions \cup {Null}]
         /\ read' \in [Instances -> Heads]
         /\ lock' \in Instances \cup {Null}
         /\ pc'[i] = "idle"
         /\ \A j \in Instances \ {i} : pc'[j] = pc[j] /\ dec'[j] = dec[j] /\ read'[j] = read[j]
         /\ LockHeld'
<1>1. NoHead \in Heads
  BY DEF NoHead, Heads, Genesis, Hashes
<1> QED
  BY <1>1 DEF TypeOK, LockHeld, Finish, Goto

\* LastNum and LastHash depend on the trail only.
LEMMA SameHead ==
  ASSUME trail' = trail
  PROVE  LastNum' = LastNum /\ LastHash' = LastHash /\ Rows' = Rows
  BY DEF LastNum, LastHash, Rows, Highest

\* A call that ends without a row keeps the invariant, whatever it answers
\* but "logged".
LEMMA EndWithoutRow ==
  ASSUME Inv, NEW i \in Instances, Finish(i), trail' = trail,
         total' \in [Instances -> Nat], restarts' \in 0..MaxRestarts,
         \/ pc[i] = "idle" /\ answer' = answer
         \/ /\ pc[i] # "idle"
            /\ \E a \in {"error", "none"} : answer' = [answer EXCEPT ![dec[i]] = a]
  PROVE  Inv'
<1> USE DEF Inv
<1>1. /\ pc' \in [Instances -> {"idle", "lock", "read", "insert"}]
      /\ dec' \in [Instances -> Decisions \cup {Null}]
      /\ read' \in [Instances -> Heads]
      /\ lock' \in Instances \cup {Null}
      /\ pc'[i] = "idle"
      /\ \A j \in Instances \ {i} : pc'[j] = pc[j] /\ dec'[j] = dec[j] /\ read'[j] = read[j]
      /\ LockHeld'
  BY FinishType
<1>2. /\ answer' \in [Decisions -> {"new", "pending", "logged", "error", "none"}]
      /\ \A d \in Decisions : answer'[d] = answer[d] \/ answer'[d] \in {"error", "none"}
      /\ \A d \in Decisions : (pc[i] # "idle" /\ d = dec[i]) \/ answer'[d] = answer[d]
  BY DEF TypeOK
<1>3. TypeOK'
  BY <1>1, <1>2 DEF TypeOK
<1>4. ChainLinked' /\ LoggedIsStored'
  BY <1>2, SameHead DEF ChainLinked, LoggedIsStored, BlockHash, Genesis
<1>5. ReadIsCurrent'
  BY <1>1, SameHead DEF ReadIsCurrent
<1>6. \A j \in Instances \ {i} : pc[j] # "idle" => answer'[dec[j]] = "pending"
  BY <1>2 DEF InFlightFresh, TypeOK
<1>7. \A k \in DOMAIN trail : answer'[trail[k].dec] \notin {"new", "pending"}
  <2> SUFFICES ASSUME NEW k \in DOMAIN trail
               PROVE  answer'[trail[k].dec] \notin {"new", "pending"}
    OBVIOUS
  <2>1. trail[k].dec \in Decisions /\ answer[trail[k].dec] \notin {"new", "pending"}
    BY BlockAt DEF InFlightFresh
  <2> QED
    BY <1>2, <2>1
<1>8. InFlightFresh'
  BY <1>1, <1>6, <1>7 DEF InFlightFresh
<1> QED
  BY <1>1, <1>3, <1>4, <1>5, <1>8

\* A call that seals its block keeps the invariant, whether it is told or not.
LEMMA EndWithRow ==
  ASSUME Inv, NEW i \in Instances, Insert(i), Finish(i), restarts' = restarts,
         total' \in [Instances -> Nat],
         \E a \in {"logged", "error"} : answer' = [answer EXCEPT ![dec[i]] = a]
  PROVE  Inv'
<1> USE DEF Inv
<1>1. /\ pc' \in [Instances -> {"idle", "lock", "read", "insert"}]
      /\ dec' \in [Instances -> Decisions \cup {Null}]
      /\ read' \in [Instances -> Heads]
      /\ lock' \in Instances \cup {Null}
      /\ pc'[i] = "idle"
      /\ \A j \in Instances \ {i} : pc'[j] = pc[j] /\ dec'[j] = dec[j] /\ read'[j] = read[j]
      /\ LockHeld'
  BY FinishType
<1>2. /\ trail' \in Seq(Blocks) /\ ChainLinked'
      /\ trail' = Append(trail, NewBlock(i))
  BY SealKeepsChain
<1>3. pc[i] = "insert" /\ dec[i] \in Decisions /\ answer[dec[i]] = "pending"
  BY DEF Insert, TypeOK, InFlightFresh
<1>4. /\ answer' \in [Decisions -> {"new", "pending", "logged", "error", "none"}]
      /\ answer'[dec[i]] \in {"logged", "error"}
      /\ \A d \in Decisions : d = dec[i] \/ answer'[d] = answer[d]
  BY <1>3 DEF TypeOK
<1>5. TypeOK'
  BY <1>1, <1>2, <1>4 DEF TypeOK
<1>6. \A j \in Instances : pc'[j] # "insert"
  BY <1>1, <1>3 DEF LockHeld
<1>7. ReadIsCurrent'
  BY <1>6 DEF ReadIsCurrent
<1>8. /\ DOMAIN trail = 1..Len(trail) /\ Len(trail) \in Nat
      /\ DOMAIN trail' = 1..(Len(trail) + 1)
      /\ \A k \in 1..Len(trail) : trail'[k] = trail[k] /\ trail[k] \in Blocks
      /\ trail'[Len(trail) + 1].dec = dec[i]
  BY <1>2 DEF TypeOK, NewBlock
<1>9. \A k \in 1..Len(trail) : trail[k].dec \in Decisions /\ trail[k].dec # dec[i]
  BY <1>3, <1>8 DEF InFlightFresh, Blocks
<1>10. \A k \in DOMAIN trail' : answer'[trail'[k].dec] \notin {"new", "pending"}
  BY <1>3, <1>4, <1>8, <1>9 DEF InFlightFresh
<1>11. \A j \in Instances \ {i} : pc[j] # "idle" => dec[j] \in Decisions /\ dec[j] # dec[i]
  BY <1>3 DEF InFlightFresh, TypeOK
<1>12. InFlightFresh'
  BY <1>1, <1>4, <1>10, <1>11 DEF InFlightFresh
<1>13. \A d \in Decisions : answer'[d] = "logged" => \E b \in Rows' : b.dec = d
  <2> SUFFICES ASSUME NEW d \in Decisions, answer'[d] = "logged"
               PROVE  \E k \in DOMAIN trail' : trail'[k].dec = d
    BY DEF Rows
  <2>1. CASE d = dec[i]
    BY <1>8, <2>1
  <2>2. CASE d # dec[i]
    <3>1. \E b \in Rows : b.dec = d
      BY <1>4, <2>2 DEF LoggedIsStored
    <3> QED
      BY <1>8, <3>1 DEF Rows
  <2> QED
    BY <2>1, <2>2
<1>14. \A j, k \in DOMAIN trail' : trail'[j].dec = trail'[k].dec => j = k
  BY <1>8, <1>9 DEF LoggedIsStored
<1>15. LoggedIsStored'
  BY <1>13, <1>14 DEF LoggedIsStored
<1> QED
  BY <1>1, <1>2, <1>5, <1>7, <1>12, <1>15

\* Every step keeps the invariant.
LEMMA StepInv ==
  ASSUME Inv, [Next]_vars
  PROVE  Inv'
<1> USE DEF Inv
<1>1. ASSUME NEW i \in Instances, NEW d \in Decisions, LogDecision(i, d)
      PROVE  Inv'
  <2>1. trail' = trail /\ pc[i] = "idle" /\ answer[d] = "new"
    BY <1>1 DEF LogDecision
  <2>2. TypeOK' /\ LockHeld'
    BY <1>1 DEF LogDecision, Goto, TypeOK, LockHeld
  <2>3. ChainLinked' /\ ReadIsCurrent' /\ LoggedIsStored'
    <3>1. ChainLinked'
      BY <2>1 DEF ChainLinked, BlockHash, Genesis
    <3>2. ReadIsCurrent'
      BY <1>1, <2>1, SameHead DEF LogDecision, Goto, TypeOK, ReadIsCurrent
    <3>3. LoggedIsStored'
      <4>1. \A e \in Decisions : answer'[e] = "logged" => answer[e] = "logged"
        BY <1>1 DEF LogDecision, TypeOK
      <4>2. Rows' = Rows
        BY <2>1 DEF Rows
      <4> QED
        BY <2>1, <4>1, <4>2 DEF LoggedIsStored
    <3> QED
      BY <3>1, <3>2, <3>3
  <2>4. \A j \in Instances : pc[j] # "idle" => dec[j] \in Decisions /\ dec[j] # d
    BY <2>1 DEF InFlightFresh, TypeOK
  <2>5. \A k \in DOMAIN trail : trail[k].dec # d
    BY <2>1 DEF InFlightFresh
  <2>6. InFlightFresh'
    BY <1>1, <2>1, <2>4, <2>5 DEF LogDecision, Goto, TypeOK, InFlightFresh, Blocks
  <2> QED
    BY <2>2, <2>3, <2>6
<1>2. ASSUME NEW i \in Instances, Lock(i)
      PROVE  Inv'
  <2>1. trail' = trail
    BY <1>2 DEF Lock
  <2>2. TypeOK' /\ LockHeld'
    BY <1>2 DEF Lock, Goto, TypeOK, LockHeld
  <2>3. ChainLinked' /\ ReadIsCurrent' /\ LoggedIsStored' /\ InFlightFresh'
    BY <1>2, <2>1, SameHead DEF Lock, Goto, TypeOK, ChainLinked, ReadIsCurrent, LoggedIsStored,
                                InFlightFresh, BlockHash, Genesis
  <2> QED
    BY <2>2, <2>3
<1>3. ASSUME NEW i \in Instances, Read(i)
      PROVE  Inv'
  <2>1. trail' = trail /\ LastNum' = LastNum /\ LastHash' = LastHash /\ Rows' = Rows
    BY <1>3, SameHead DEF Read
  <2>2. LastNum \in Nat /\ LastHash \in Hashes
    <3>1. Len(trail) \in Nat /\ DOMAIN trail = 1..Len(trail) /\ Genesis \in Hashes
      BY DEF TypeOK, Genesis, Hashes
    <3>2. Len(trail) # 0 => trail[Len(trail)].hash \in Hashes
      BY <3>1, BlockAt
    <3> QED
      BY <3>1, <3>2, HeadOfChain
  <2>3. TypeOK' /\ LockHeld'
    BY <1>3, <2>2 DEF Read, Goto, TypeOK, LockHeld, Heads
  <2>4. ReadIsCurrent'
    BY <1>3, <2>1 DEF Read, Goto, TypeOK, ReadIsCurrent, LockHeld
  <2>5. ChainLinked' /\ LoggedIsStored' /\ InFlightFresh'
    BY <1>3, <2>1 DEF Read, Goto, TypeOK, ChainLinked, LoggedIsStored, InFlightFresh,
                      BlockHash, Genesis
  <2> QED
    BY <2>3, <2>4, <2>5
<1>4. ASSUME NEW i \in Instances, CommitLogged(i) \/ CommitUnacked(i)
      PROVE  Inv'
  <2>1. read[i].num \in Nat
    BY DEF TypeOK, Heads
  <2>2. /\ Insert(i) /\ Finish(i) /\ restarts' = restarts
        /\ total' \in [Instances -> Nat]
        /\ \E a \in {"logged", "error"} : answer' = [answer EXCEPT ![dec[i]] = a]
    BY <1>4, <2>1 DEF CommitLogged, CommitUnacked, TypeOK
  <2> QED
    BY <2>2, EndWithRow
<1>5. ASSUME NEW i \in Instances, Fail(i)
      PROVE  Inv'
  <2>1. /\ Finish(i) /\ trail' = trail /\ total' \in [Instances -> Nat]
        /\ restarts' \in 0..MaxRestarts /\ pc[i] # "idle"
        /\ answer' = [answer EXCEPT ![dec[i]] = "error"]
    BY <1>5 DEF Fail, TypeOK
  <2> QED
    BY <2>1, EndWithoutRow
<1>6. ASSUME NEW i \in Instances, Restart(i)
      PROVE  Inv'
  <2>1. Len(trail) \in Nat
    BY DEF TypeOK
  <2>2. /\ Finish(i) /\ trail' = trail /\ total' \in [Instances -> Nat]
        /\ restarts' \in 0..MaxRestarts
    BY <1>6, <2>1 DEF Restart, TypeOK
  <2>3. \/ pc[i] = "idle" /\ answer' = answer
        \/ pc[i] # "idle" /\ answer' = [answer EXCEPT ![dec[i]] = "none"]
    BY <1>6 DEF Restart
  <2> QED
    BY <2>2, <2>3, EndWithoutRow
<1>7. ASSUME UNCHANGED vars
      PROVE  Inv'
  <2>1. trail' = trail
    BY <1>7 DEF vars
  <2> QED
    BY <1>7, <2>1, SameHead DEF vars, TypeOK, LockHeld, ChainLinked, ReadIsCurrent,
                                InFlightFresh, LoggedIsStored, BlockHash, Genesis
<1> QED
  BY <1>1, <1>2, <1>3, <1>4, <1>5, <1>6, <1>7 DEF Next, Done

LEMMA AlwaysInv == Spec => []Inv
  BY InitInv, StepInv, PTL DEF Spec

-----------------------------------------------------------------------------
(* Verification of a linked chain *)

\* On a linked chain verify_chain passes whatever range it is given.
LEMMA LinkedIsVerified ==
  ASSUME TypeOK, ChainLinked, NEW s \in Int, NEW e \in Int
  PROVE  Verified(s, e)
<1> DEFINE B == Between(s, e)
<1>1. Len(trail) \in Nat /\ DOMAIN trail = 1..Len(trail)
  BY DEF TypeOK
<1>2. \A b \in B : \E k \in 1..Len(trail) : b = trail[k] /\ b.num = k /\ s <= k /\ k <= e
  BY <1>1 DEF Between, Rows, ChainLinked
<1>3. \A k \in 1..Len(trail) : s <= k /\ k <= e => trail[k] \in B /\ trail[k].num = k
  BY <1>1 DEF Between, Rows, ChainLinked
<1>4. LinksHold(B)
  <2> HIDE DEF B
  <2> SUFFICES ASSUME NEW b \in B, NEW c \in B, Follows(b, c, B)
               PROVE  c.prev = b.hash
    BY DEF LinksHold
  <2>1. PICK j \in 1..Len(trail) : b = trail[j] /\ b.num = j /\ s <= j /\ j <= e
    BY <1>2
  <2>2. PICK k \in 1..Len(trail) : c = trail[k] /\ c.num = k /\ s <= k /\ k <= e
    BY <1>2
  <2>3. j < k
    BY <2>1, <2>2 DEF Follows
  <2>4. j + 1 \in 1..Len(trail) /\ s <= j + 1 /\ j + 1 <= e
    BY <1>1, <2>1, <2>2, <2>3
  <2>5. trail[j + 1] \in B /\ trail[j + 1].num = j + 1
    BY <1>3, <2>4
  <2>6. k = j + 1
    BY <1>1, <2>1, <2>2, <2>3, <2>5 DEF Follows
  <2>7. trail[k].prev = trail[k - 1].hash
    BY <1>1, <2>1, <2>2, <2>3 DEF ChainLinked
  <2> QED
    BY <2>1, <2>2, <2>6, <2>7
<1>5. GenesisHolds(s, B)
  <2> HIDE DEF B
  <2> SUFFICES ASSUME s = 1, NEW b \in B, \A c \in B : b.num <= c.num
               PROVE  b.prev = Genesis
    BY DEF GenesisHolds
  <2>1. PICK j \in 1..Len(trail) : b = trail[j] /\ b.num = j /\ s <= j /\ j <= e
    BY <1>2
  <2>2. trail[1] \in B /\ trail[1].num = 1
    BY <1>1, <1>3, <2>1
  <2>3. j = 1
    BY <1>1, <2>1, <2>2
  <2> QED
    BY <1>1, <2>1, <2>3 DEF ChainLinked
<1> QED
  BY <1>4, <1>5 DEF Verified

-----------------------------------------------------------------------------
(* The results *)

\* The stored rows and the instances' locals always fit their types.
THEOREM AuditTypeCorrect == Spec => []TypeOK
<1>1. Inv => TypeOK
  BY DEF Inv
<1> QED
  BY <1>1, AlwaysInv, PTL

\* The trail is at every moment one gapless hash chain from genesis.
THEOREM AuditChainIsLinked == Spec => []ChainLinked
<1>1. Inv => ChainLinked
  BY DEF Inv
<1> QED
  BY <1>1, AlwaysInv, PTL

\* No transaction ever inserts on a head that has moved.
THEOREM AuditReadIsCurrent == Spec => []ReadIsCurrent
<1>1. Inv => ReadIsCurrent
  BY DEF Inv
<1> QED
  BY <1>1, AlwaysInv, PTL

\* "logged" is never said of a decision without a row, and no decision has two.
THEOREM AuditLoggedIsStored == Spec => []LoggedIsStored
<1>1. Inv => LoggedIsStored
  BY DEF Inv
<1> QED
  BY <1>1, AlwaysInv, PTL

\* verify_chain never cries wolf, for any range and any stale count.
THEOREM AuditNoFalseAlarm == Spec => []NoFalseAlarm
<1>1. Inv => NoFalseAlarm
  <2> SUFFICES ASSUME Inv PROVE NoFalseAlarm
    OBVIOUS
  <2>1. TypeOK /\ ChainLinked
    BY DEF Inv
  <2>2. \A s, e \in 1..Len(trail) : s \in Int /\ e \in Int
    BY <2>1 DEF TypeOK
  <2>3. \A i \in Instances : DefaultStart(i) \in Int /\ total[i] \in Int
    BY <2>1 DEF TypeOK, DefaultStart
  <2> QED
    BY <2>1, <2>2, <2>3, LinkedIsVerified DEF NoFalseAlarm
<1> QED
  BY <1>1, AlwaysInv, PTL

\* The decisions of the trail in block order, and those reported as logged.
Entries == [k \in DOMAIN trail |-> trail[k].dec]
Acked == {d \in Decisions : answer[d] = "logged"}

\* A sealing step is a step of the abstract ledger.
LEMMA SealImplements ==
  ASSUME Inv, NEW i \in Instances, Insert(i),
         answer' \in {answer, [answer EXCEPT ![dec[i]] = "logged"], [answer EXCEPT ![dec[i]] = "error"]}
  PROVE  Ledger!Next
<1> USE DEF Inv
<1>1. /\ Len(trail) \in Nat /\ DOMAIN trail = 1..Len(trail)
      /\ DOMAIN trail' = 1..(Len(trail) + 1)
      /\ \A k \in 1..Len(trail) : trail'[k] = trail[k]
      /\ trail'[Len(trail) + 1].dec = dec[i]
      /\ dec[i] \in Decisions /\ answer[dec[i]] = "pending"
  <2>1. trail' = Append(trail, NewBlock(i)) /\ trail' \in Seq(Blocks)
    BY SealKeepsChain
  <2> QED
    BY <2>1 DEF TypeOK, NewBlock, Insert, InFlightFresh
<1>2. Entries' = Append(Entries, dec[i])
  <2>1. Entries \in Seq(Decisions) /\ Len(Entries) = Len(trail)
    BY <1>1, BlockAt DEF Entries
  <2>2. /\ Append(Entries, dec[i]) \in Seq(Decisions)
        /\ Len(Append(Entries, dec[i])) = Len(trail) + 1
        /\ \A k \in 1..Len(trail) : Append(Entries, dec[i])[k] = trail[k].dec
        /\ Append(Entries, dec[i])[Len(trail) + 1] = dec[i]
    BY <1>1, <2>1 DEF Entries
  <2>3. \A k \in 1..(Len(trail) + 1) : trail'[k].dec = Append(Entries, dec[i])[k]
    BY <1>1, <2>2
  <2> QED
    BY <1>1, <2>2, <2>3 DEF Entries
<1>3. dec[i] \notin {Entries[k] : k \in DOMAIN Entries}
  BY <1>1 DEF Entries, InFlightFresh
<1>4. Acked' \in {Acked, Acked \cup {dec[i]}}
  <2>1. CASE answer' = [answer EXCEPT ![dec[i]] = "logged"]
    BY <1>1, <2>1 DEF Acked, TypeOK
  <2>2. CASE answer' # [answer EXCEPT ![dec[i]] = "logged"]
    BY <1>1, <2>2 DEF Acked, TypeOK
  <2> QED
    BY <2>1, <2>2
<1> QED
  BY <1>1, <1>2, <1>3, <1>4 DEF Ledger!Next, Ledger!Seal, Ledger!Recorded, Entries, Acked

\* A step that leaves the trail alone and acknowledges nothing is invisible.
LEMMA StutterImplements ==
  ASSUME Inv, trail' = trail,
         \A d \in Decisions : answer'[d] = "logged" <=> answer[d] = "logged"
  PROVE  UNCHANGED Ledger!vars
  BY DEF Ledger!vars

\* The audit trail implements the append-only ledger.
THEOREM AuditImplementsLedger == Spec => ImplementsLedger
<1>1. Init => Ledger!Init
  <2> SUFFICES ASSUME Init PROVE Ledger!Init
    OBVIOUS
  <2>1. trail = <<>> /\ \A d \in Decisions : answer[d] = "new"
    BY DEF Init
  <2>2. [k \in DOMAIN trail |-> trail[k].dec] = <<>>
    BY <2>1
  <2> QED
    BY <2>1, <2>2 DEF Ledger!Init
<1>2. ASSUME Inv, [Next]_vars
      PROVE  [Ledger!Next]_(Ledger!vars)
  <2>1. ASSUME NEW i \in Instances, CommitLogged(i) \/ CommitUnacked(i)
        PROVE  Ledger!Next
    <3>1. /\ Insert(i)
          /\ answer' \in {answer, [answer EXCEPT ![dec[i]] = "logged"],
                                   [answer EXCEPT ![dec[i]] = "error"]}
      BY <2>1 DEF CommitLogged, CommitUnacked
    <3> QED
      BY <1>2, <3>1, SealImplements
  <2>2. ASSUME NEW i \in Instances, NEW d \in Decisions, LogDecision(i, d)
        PROVE  UNCHANGED Ledger!vars
    <3>1. trail' = trail /\ answer[d] = "new" /\ answer' = [answer EXCEPT ![d] = "pending"]
      BY <2>2 DEF LogDecision
    <3>2. \A x \in Decisions : answer'[x] = "logged" <=> answer[x] = "logged"
      BY <1>2, <3>1 DEF Inv, TypeOK
    <3> QED
      BY <1>2, <3>1, <3>2, StutterImplements
  <2>3. ASSUME NEW i \in Instances, Fail(i) \/ Restart(i)
        PROVE  UNCHANGED Ledger!vars
    <3>1. trail' = trail
      BY <2>3 DEF Fail, Restart
    <3>2. pc[i] # "idle" => dec[i] \in Decisions /\ answer[dec[i]] = "pending"
      BY <1>2 DEF Inv, TypeOK, InFlightFresh
    <3>3. \A x \in Decisions : answer'[x] = "logged" <=> answer[x] = "logged"
      BY <1>2, <2>3, <3>2 DEF Fail, Restart, Inv, TypeOK
    <3> QED
      BY <1>2, <3>1, <3>3, StutterImplements
  <2>4. CASE \/ \E i \in Instances : Lock(i) \/ Read(i)
             \/ UNCHANGED vars
    <3>1. trail' = trail /\ answer' = answer
      BY <2>4 DEF Lock, Read, vars
    <3> QED
      BY <1>2, <3>1, StutterImplements
  <2> QED
    BY <1>2, <2>1, <2>2, <2>3, <2>4 DEF Next, Done
<1> QED
  BY <1>1, <1>2, AlwaysInv, PTL DEF Spec, ImplementsLedger, Ledger!Spec
=============================================================================
