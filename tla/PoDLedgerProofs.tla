-------------------------- MODULE PoDLedgerProofs ---------------------------
(***************************************************************************)
(* Safety of the Proof-of-Decision chains, for every number of instances,   *)
(* tenants and intercepts.  The argument is that of AuditChainProofs, for   *)
(* each tenant's chain: the lock makes what was read current, and so each   *)
(* block extends a linked chain.  Besides, an intercept that is in a chain  *)
(* is past its seal and of that chain's tenant, so that one block shows it. *)
(***************************************************************************)
EXTENDS PoDLedger, FiniteSetTheorems, TLAPS

USE NullAssumption, PersistAssumption, BoundAssumption

\* The holder of a tenant's lock is the intercept of that tenant whose transaction has
\* locked and not ended.
LockHeld ==
  /\ \A x \in Intercepts : pc[x] \in {"read", "insert"} => lock[tenant[x]] = x
  /\ \A t \in Tenants : lock[t] # Null =>
       pc[lock[t]] \in {"read", "insert"} /\ tenant[lock[t]] = t

\* The blocks of a tenant are numbered 0, 1, 2 ... and each links to the one before it,
\* the first to genesis.
ChainLinked ==
  \A t \in Tenants : \A k \in DOMAIN ledger[t] :
    /\ ledger[t][k].num = k - 1 /\ ledger[t][k].tenant = t
    /\ ledger[t][k].prev = IF k = 1 THEN Genesis ELSE ledger[t][k - 1].hash

\* What a seal has read is still the end of its chain when it inserts.
ReadIsCurrent ==
  \A x \in Intercepts : pc[x] = "insert" =>
    read[x] = [num |-> NextNumber(tenant[x]), prev |-> LastHash(tenant[x])]

\* An intercept in a chain is past its transaction, belongs to the chain's tenant, and has
\* no second block.
StoredOnce ==
  \A t \in Tenants : \A k \in DOMAIN ledger[t] :
    /\ pc[ledger[t][k].icp] \in {"fallback", "done"}
    /\ tenant[ledger[t][k].icp] = t
    /\ \A j \in DOMAIN ledger[t] : ledger[t][j].icp = ledger[t][k].icp => j = k

\* What was handed out as sealed in the database has its block there.
SealedIsStored ==
  \A x \in Intercepts : sealed[x] = "database" =>
    pc[x] = "done" /\ \E k \in DOMAIN ledger[tenant[x]] : ledger[tenant[x]][k].icp = x

Inv == TypeOK /\ LockHeld /\ ChainLinked /\ ReadIsCurrent /\ StoredOnce /\ SealedIsStored

-----------------------------------------------------------------------------
(* The head of a linked chain *)

LEMMA Links ==
  ASSUME ChainLinked, NEW t \in Tenants, NEW k \in DOMAIN ledger[t]
  PROVE  /\ ledger[t][k].num = k - 1 /\ ledger[t][k].tenant = t
         /\ ledger[t][k].prev = IF k = 1 THEN Genesis ELSE ledger[t][k - 1].hash
  BY DEF ChainLinked

\* The chain of a tenant is a sequence of blocks.
LEMMA ChainType ==
  ASSUME TypeOK, NEW t \in Tenants
  PROVE  /\ ledger[t] \in Seq(Blocks) /\ Len(ledger[t]) \in Nat
         /\ DOMAIN ledger[t] = 1..Len(ledger[t])
         /\ \A k \in DOMAIN ledger[t] :
              /\ ledger[t][k] \in Blocks /\ ledger[t][k].icp \in Intercepts
              /\ ledger[t][k].num \in Nat /\ ledger[t][k].hash \in Hashes
<1>1. ledger[t] \in Seq(Blocks)
  BY DEF TypeOK, Ledgers
<1>2. Len(ledger[t]) \in Nat /\ DOMAIN ledger[t] = 1..Len(ledger[t])
  BY <1>1
<1>3. \A k \in DOMAIN ledger[t] : ledger[t][k] \in Blocks
  BY <1>1, <1>2
<1>4. \A b \in Blocks : b.icp \in Intercepts /\ b.num \in Nat /\ b.hash \in Hashes
  BY DEF Blocks
<1> QED
  BY <1>1, <1>2, <1>3, <1>4

\* The rows of a tenant are the blocks at the positions of its chain.
LEMMA RowsAt ==
  ASSUME NEW t
  PROVE  Rows(t) = {ledger[t][k] : k \in DOMAIN ledger[t]}
  BY DEF Rows, ToSet

\* In a linked chain the highest block is the last row, so the next number is the length
\* of the chain and the last hash that of its last row.
LEMMA HeadOfChain ==
  ASSUME TypeOK, ChainLinked, NEW t \in Tenants
  PROVE  /\ NextNumber(t) = Len(ledger[t])
         /\ LastHash(t) = IF Len(ledger[t]) = 0 THEN Genesis ELSE ledger[t][Len(ledger[t])].hash
<1> DEFINE n == Len(ledger[t])
           top == ledger[t][n]
<1>1. /\ DOMAIN ledger[t] = 1..n /\ n \in Nat
      /\ Rows(t) = {ledger[t][k] : k \in 1..n}
  BY ChainType, RowsAt
<1>2. CASE n = 0
  <2>1. Rows(t) = {}
    BY <1>1, <1>2
  <2> QED
    BY <1>2, <2>1 DEF NextNumber, LastHash
<1>3. CASE n # 0
  <2>0. n \in 1..n
    BY <1>1, <1>3
  <2> HIDE DEF n
  <2>1. n \in DOMAIN ledger[t] /\ top \in Rows(t) /\ Rows(t) # {}
    BY <1>1, <2>0
  <2>2. \A b \in Rows(t) : \E k \in 1..n : b = ledger[t][k] /\ b.num = k - 1
    BY <1>1 DEF ChainLinked
  <2>3. top.num = n - 1
    BY <2>1 DEF ChainLinked
  <2>4. \A c \in Rows(t) : c.num <= top.num
    BY <1>1, <2>2, <2>3
  <2>5. \A b \in Rows(t) : (\A c \in Rows(t) : c.num <= b.num) => b = top
    <3> SUFFICES ASSUME NEW b \in Rows(t), \A c \in Rows(t) : c.num <= b.num
                 PROVE  b = top
      OBVIOUS
    <3>1. PICK k \in 1..n : b = ledger[t][k] /\ b.num = k - 1
      BY <2>2
    <3>2. top.num <= b.num
      BY <2>1
    <3>3. n <= k
      BY <1>1, <2>3, <3>1, <3>2
    <3> QED
      BY <1>1, <3>1, <3>3
  <2>6. Highest(Rows(t)) = top
    BY <2>1, <2>4, <2>5 DEF Highest
  <2>7. NextNumber(t) = top.num + 1 /\ LastHash(t) = top.hash
    BY <2>1, <2>6 DEF NextNumber, LastHash
  <2> QED
    BY <1>1, <1>3, <2>3, <2>7 DEF n
<1> QED
  BY <1>2, <1>3

\* The head depends on the tenant's chain only.
LEMMA SameHead ==
  ASSUME NEW t, ledger'[t] = ledger[t]
  PROVE  NextNumber(t)' = NextNumber(t) /\ LastHash(t)' = LastHash(t)
  BY DEF NextNumber, LastHash, Rows, Highest, ToSet

\* An insert appends the intercept's block to the chain of its tenant, at the number its
\* position has, linked to the last; other chains stay.
LEMMA InsertAppends ==
  ASSUME Inv, NEW x \in Intercepts, Insert(x)
  PROVE  LET t == tenant[x]
             n == Len(ledger[t])
         IN  /\ t \in Tenants /\ n \in Nat /\ DOMAIN ledger[t] = 1..n
             /\ ledger' \in Ledgers
             /\ \A u \in Tenants : u # t => ledger'[u] = ledger[u]
             /\ ledger'[t] = Append(ledger[t], NewBlock(x))
             /\ DOMAIN ledger'[t] = 1..(n + 1)
             /\ \A k \in 1..n : ledger'[t][k] = ledger[t][k]
             /\ ledger'[t][n + 1].icp = x /\ ledger'[t][n + 1].num = n
             /\ ledger'[t][n + 1].tenant = t
             /\ ledger'[t][n + 1].prev = IF n = 0 THEN Genesis ELSE ledger[t][n].hash
<1> DEFINE t == tenant[x]
           n == Len(ledger[t])
<1>1. pc[x] = "insert" /\ t \in Tenants /\ read[x] \in Heads
  BY DEF Inv, TypeOK, Insert
<1>2. ledger[t] \in Seq(Blocks) /\ n \in Nat /\ DOMAIN ledger[t] = 1..n
  BY <1>1, ChainType DEF Inv
<1>3. read[x].num = n /\ read[x].prev = IF n = 0 THEN Genesis ELSE ledger[t][n].hash
  <2>1. read[x] = [num |-> NextNumber(tenant[x]), prev |-> LastHash(tenant[x])]
    BY <1>1 DEF Inv, ReadIsCurrent
  <2> QED
    BY <1>1, <2>1, HeadOfChain DEF Inv
<1>4. NewBlock(x) \in Blocks
  BY <1>1 DEF NewBlock, Block, Blocks, Heads, Hashes, BlockHash
<1>5. /\ NewBlock(x).icp = x /\ NewBlock(x).num = n /\ NewBlock(x).tenant = t
      /\ NewBlock(x).prev = IF n = 0 THEN Genesis ELSE ledger[t][n].hash
  BY <1>3 DEF NewBlock, Block
<1>6. ledger' = [ledger EXCEPT ![t] = Append(ledger[t], NewBlock(x))]
  BY DEF Insert
<1>7. Append(ledger[t], NewBlock(x)) \in Seq(Blocks)
  BY <1>2, <1>4
<1>8. /\ ledger' \in Ledgers /\ ledger'[t] = Append(ledger[t], NewBlock(x))
      /\ \A u \in Tenants : u # t => ledger'[u] = ledger[u]
  BY <1>1, <1>6, <1>7 DEF Inv, TypeOK, Ledgers
<1>9. /\ DOMAIN ledger'[t] = 1..(n + 1) /\ ledger'[t][n + 1] = NewBlock(x)
      /\ \A k \in 1..n : ledger'[t][k] = ledger[t][k]
  BY <1>2, <1>4, <1>8
<1> QED
  BY <1>1, <1>2, <1>5, <1>8, <1>9

-----------------------------------------------------------------------------
(* The invariant *)

LEMMA InitInv == Init => Inv
<1> SUFFICES ASSUME Init PROVE Inv
  OBVIOUS
<1>1. /\ ledger = [t \in Tenants |-> <<>>]
      /\ \A t \in Tenants : ledger[t] = <<>> /\ ledger[t] \in Seq(Blocks) /\ DOMAIN ledger[t] = {}
  BY DEF Init
<1>2. NoHead \in Heads
  BY DEF NoHead, Heads, Genesis, Hashes
<1>3. TypeOK
  BY <1>1, <1>2 DEF Init, TypeOK, Ledgers, InSeal
<1>4. LockHeld /\ ReadIsCurrent /\ SealedIsStored
  BY DEF Init, LockHeld, ReadIsCurrent, SealedIsStored
<1>5. ChainLinked /\ StoredOnce
  BY <1>1 DEF ChainLinked, StoredOnce
<1> QED
  BY <1>3, <1>4, <1>5 DEF Inv

\* An intercept outside its transaction moves on: no chain and no lock is touched.
LEMMA Quiet ==
  ASSUME Inv, TypeOK', NEW x \in Intercepts, NEW p,
         ledger' = ledger, lock' = lock, read' = read, pc' = [pc EXCEPT ![x] = p],
         pc[x] \notin {"read", "insert", "done"}, p \notin {"read", "insert"},
         pc[x] = "fallback" => p = "done",
         \A y \in Intercepts : pc[y] # "new" => tenant'[y] = tenant[y],
         \A y \in Intercepts : sealed'[y] = "database" <=> sealed[y] = "database"
  PROVE  Inv'
<1> USE DEF Inv
<1>1. /\ pc'[x] = p
      /\ \A y \in Intercepts : y # x => pc'[y] = pc[y]
  BY DEF TypeOK
<1>2. \A y \in Intercepts : pc[y] \in {"read", "insert"} => y # x /\ tenant'[y] = tenant[y]
  OBVIOUS
<1>3. LockHeld'
  <2>1. \A y \in Intercepts : pc'[y] \in {"read", "insert"} => lock'[tenant'[y]] = y
    BY <1>1, <1>2 DEF LockHeld
  <2>2. ASSUME NEW t \in Tenants, lock'[t] # Null
        PROVE  pc'[lock'[t]] \in {"read", "insert"} /\ tenant'[lock'[t]] = t
    <3>1. lock[t] \in Intercepts /\ pc[lock[t]] \in {"read", "insert"} /\ tenant[lock[t]] = t
      BY <2>2 DEF LockHeld, TypeOK
    <3> QED
      BY <1>1, <1>2, <3>1
  <2> QED
    BY <2>1, <2>2 DEF LockHeld
<1>4. ChainLinked'
  BY DEF ChainLinked, Genesis
<1>5. ReadIsCurrent'
  <2> SUFFICES ASSUME NEW y \in Intercepts, pc'[y] = "insert"
               PROVE  read'[y] = [num |-> NextNumber(tenant[y])', prev |-> LastHash(tenant[y])']
    BY DEF ReadIsCurrent
  <2>1. pc[y] = "insert" /\ tenant'[y] = tenant[y]
    BY <1>1, <1>2
  <2>2. read[y] = [num |-> NextNumber(tenant[y]), prev |-> LastHash(tenant[y])]
    BY <2>1 DEF ReadIsCurrent
  <2>3. NextNumber(tenant[y])' = NextNumber(tenant[y])
    BY <2>1 DEF NextNumber, Rows, Highest, ToSet
  <2>4. LastHash(tenant[y])' = LastHash(tenant[y])
    BY <2>1 DEF LastHash, Rows, Highest, ToSet
  <2> QED
    BY <2>1, <2>2, <2>3, <2>4
<1>6. StoredOnce'
  <2> SUFFICES ASSUME NEW t \in Tenants, NEW k \in DOMAIN ledger[t]
               PROVE  /\ pc'[ledger[t][k].icp] \in {"fallback", "done"}
                      /\ tenant'[ledger[t][k].icp] = t
                      /\ \A j \in DOMAIN ledger[t] : ledger[t][j].icp = ledger[t][k].icp => j = k
    BY DEF StoredOnce
  <2>1. ledger[t][k].icp \in Intercepts
    BY ChainType
  <2> QED
    BY <1>1, <2>1 DEF StoredOnce
<1>7. SealedIsStored'
  <2> SUFFICES ASSUME NEW y \in Intercepts, sealed'[y] = "database"
               PROVE  /\ pc'[y] = "done"
                      /\ \E k \in DOMAIN ledger[tenant'[y]] : ledger[tenant'[y]][k].icp = y
    BY DEF SealedIsStored
  <2>1. pc[y] = "done" /\ \E k \in DOMAIN ledger[tenant[y]] : ledger[tenant[y]][k].icp = y
    BY DEF SealedIsStored
  <2> QED
    BY <1>1, <2>1
<1> QED
  BY <1>3, <1>4, <1>5, <1>6, <1>7

\* Some intercepts are cut short: they leave no block, and the locks they held are free.
LEMMA CutShort ==
  ASSUME Inv, TypeOK', NEW D \in SUBSET Intercepts,
         ledger' = ledger, tenant' = tenant, read' = read, sealed' = sealed,
         \A y \in Intercepts \ D : pc'[y] = pc[y],
         \A y \in D : pc'[y] = "done" \/ (pc'[y] = "fallback" /\ pc[y] # "done"),
         lock' = [t \in Tenants |-> IF lock[t] \in D THEN Null ELSE lock[t]]
  PROVE  Inv'
<1> USE DEF Inv
<1>1. LockHeld'
  <2>1. ASSUME NEW y \in Intercepts, pc'[y] \in {"read", "insert"}
        PROVE  lock'[tenant[y]] = y
    <3>1. y \notin D /\ pc[y] = pc'[y] /\ tenant[y] \in Tenants /\ lock[tenant[y]] = y
      BY <2>1 DEF LockHeld, TypeOK
    <3> QED
      BY <3>1
  <2>2. ASSUME NEW t \in Tenants, lock'[t] # Null
        PROVE  pc'[lock'[t]] \in {"read", "insert"} /\ tenant[lock'[t]] = t
    <3>1. lock'[t] = lock[t] /\ lock[t] \in Intercepts \ D
      BY <2>2 DEF TypeOK
    <3> QED
      BY <2>2, <3>1 DEF LockHeld
  <2> QED
    BY <2>1, <2>2 DEF LockHeld
<1>2. ChainLinked'
  BY DEF ChainLinked, Genesis
<1>3. ReadIsCurrent'
  <2> SUFFICES ASSUME NEW y \in Intercepts, pc'[y] = "insert"
               PROVE  read'[y] = [num |-> NextNumber(tenant[y])', prev |-> LastHash(tenant[y])']
    BY DEF ReadIsCurrent
  <2>1. pc[y] = "insert"
    OBVIOUS
  <2>2. read[y] = [num |-> NextNumber(tenant[y]), prev |-> LastHash(tenant[y])]
    BY <2>1 DEF ReadIsCurrent
  <2> QED
    BY <2>2 DEF NextNumber, LastHash, Rows, Highest, ToSet
<1>4. StoredOnce'
  <2> SUFFICES ASSUME NEW t \in Tenants, NEW k \in DOMAIN ledger[t]
               PROVE  /\ pc'[ledger[t][k].icp] \in {"fallback", "done"}
                      /\ tenant[ledger[t][k].icp] = t
                      /\ \A j \in DOMAIN ledger[t] : ledger[t][j].icp = ledger[t][k].icp => j = k
    BY DEF StoredOnce
  <2>1. ledger[t][k].icp \in Intercepts
    BY ChainType
  <2> QED
    BY <2>1 DEF StoredOnce
<1>5. SealedIsStored'
  BY DEF SealedIsStored
<1> QED
  BY <1>1, <1>2, <1>3, <1>4, <1>5

\* The transaction ends with its block in the chain, acknowledged or not.
LEMMA EndWithBlock ==
  ASSUME Inv, NEW x \in Intercepts, Insert(x), Release(x),
         NEW p \in {"fallback", "done"}, Goto(x, p),
         \/ sealed' = sealed
         \/ p = "done" /\ sealed' = [sealed EXCEPT ![x] = "database"],
         UNCHANGED <<memory, home, tenant, read, restarts>>
  PROVE  Inv'
<1> DEFINE t == tenant[x]
           n == Len(ledger[t])
<1>1. /\ t \in Tenants /\ n \in Nat /\ DOMAIN ledger[t] = 1..n
      /\ ledger' \in Ledgers
      /\ \A u \in Tenants : u # t => ledger'[u] = ledger[u]
      /\ DOMAIN ledger'[t] = 1..(n + 1)
      /\ \A k \in 1..n : ledger'[t][k] = ledger[t][k]
      /\ ledger'[t][n + 1].icp = x /\ ledger'[t][n + 1].num = n
      /\ ledger'[t][n + 1].tenant = t
      /\ ledger'[t][n + 1].prev = IF n = 0 THEN Genesis ELSE ledger[t][n].hash
  BY InsertAppends
<1>2. /\ pc[x] = "insert" /\ pc'[x] = p
      /\ \A y \in Intercepts : y # x => pc'[y] = pc[y]
      /\ tenant' = tenant /\ read' = read
  BY DEF Inv, TypeOK, Insert, Goto
<1>3. /\ lock[t] = x /\ lock'[t] = Null
      /\ \A u \in Tenants : u # t => lock'[u] = lock[u] /\ lock[u] # x
      /\ lock' \in [Tenants -> Intercepts \cup {Null}]
  BY <1>1, <1>2 DEF Inv, TypeOK, LockHeld, Release
<1>4. TypeOK'
  BY <1>1, <1>2, <1>3 DEF Inv, TypeOK, Goto, InSeal
<1> HIDE DEF n, t
<1>5. LockHeld'
  <2>1. ASSUME NEW y \in Intercepts, pc'[y] \in {"read", "insert"}
        PROVE  lock'[tenant[y]] = y
    <3>1. y # x /\ pc[y] = pc'[y] /\ tenant[y] \in Tenants /\ lock[tenant[y]] = y
      BY <1>2, <2>1 DEF Inv, LockHeld, TypeOK
    <3> QED
      BY <1>3, <3>1
  <2>2. ASSUME NEW u \in Tenants, lock'[u] # Null
        PROVE  pc'[lock'[u]] \in {"read", "insert"} /\ tenant[lock'[u]] = u
    <3>1. lock'[u] = lock[u] /\ lock[u] \in Intercepts /\ lock[u] # x
      BY <1>3, <2>2 DEF Inv, TypeOK
    <3> QED
      BY <1>2, <2>2, <3>1 DEF Inv, LockHeld
  <2> QED
    BY <1>2, <2>1, <2>2 DEF LockHeld
<1>6. ChainLinked'
  <2> SUFFICES ASSUME NEW u \in Tenants, NEW k \in DOMAIN ledger'[u]
               PROVE  /\ ledger'[u][k].num = k - 1 /\ ledger'[u][k].tenant = u
                      /\ ledger'[u][k].prev = IF k = 1 THEN Genesis ELSE ledger'[u][k - 1].hash
    BY DEF ChainLinked, Genesis
  <2>1. CASE u # t
    BY <1>1, <2>1 DEF Inv, ChainLinked
  <2>2. CASE u = t /\ k \in 1..n
    <3>1. /\ ledger[t][k].num = k - 1 /\ ledger[t][k].tenant = t
          /\ ledger[t][k].prev = IF k = 1 THEN Genesis ELSE ledger[t][k - 1].hash
      <4>1. ChainLinked
        BY DEF Inv
      <4>2. t \in Tenants /\ k \in DOMAIN ledger[t]
        BY <1>1, <2>2
      <4> QED
        BY <4>1, <4>2, Links, Zenon
    <3>2. k = 1 \/ k - 1 \in 1..n
      BY <1>1, <2>2
    <3> QED
      BY <1>1, <2>2, <3>1, <3>2
  <2>3. CASE u = t /\ k = n + 1
    <3>1. n = 0 \/ n \in 1..n
      BY <1>1
    <3>2. k - 1 = n /\ (k = 1 <=> n = 0)
      BY <1>1, <2>3
    <3> QED
      BY <1>1, <2>3, <3>1, <3>2
  <2> QED
    BY <1>1, <2>1, <2>2, <2>3
<1>7. ReadIsCurrent'
  <2> SUFFICES ASSUME NEW y \in Intercepts, pc'[y] = "insert"
               PROVE  read[y] = [num |-> NextNumber(tenant[y])', prev |-> LastHash(tenant[y])']
    BY <1>2 DEF ReadIsCurrent
  <2>1. y # x /\ pc[y] = "insert" /\ tenant[y] \in Tenants
    BY <1>2 DEF Inv, TypeOK
  <2>2. lock[tenant[y]] = y
    BY <2>1 DEF Inv, LockHeld
  <2>3. ledger'[tenant[y]] = ledger[tenant[y]]
    BY <1>1, <1>3, <2>1, <2>2
  <2>4. read[y] = [num |-> NextNumber(tenant[y]), prev |-> LastHash(tenant[y])]
    BY <2>1 DEF Inv, ReadIsCurrent
  <2>5. NextNumber(tenant[y])' = NextNumber(tenant[y]) /\ LastHash(tenant[y])' = LastHash(tenant[y])
    BY <1>2, <2>3 DEF NextNumber, LastHash, Rows, Highest, ToSet
  <2> QED
    BY <2>4, <2>5
<1>8. \A u \in Tenants : \A k \in DOMAIN ledger[u] : ledger[u][k].icp \in Intercepts \ {x}
  BY <1>2, ChainType DEF Inv, StoredOnce
<1>9. StoredOnce'
  <2> SUFFICES ASSUME NEW u \in Tenants, NEW k \in DOMAIN ledger'[u]
               PROVE  /\ pc'[ledger'[u][k].icp] \in {"fallback", "done"}
                      /\ tenant[ledger'[u][k].icp] = u
                      /\ \A j \in DOMAIN ledger'[u] : ledger'[u][j].icp = ledger'[u][k].icp => j = k
    BY <1>2 DEF StoredOnce
  <2>1. CASE u # t
    BY <1>1, <1>2, <1>8, <2>1 DEF Inv, StoredOnce
  <2>2. CASE u = t /\ k \in 1..n
    <3>1. /\ pc[ledger[t][k].icp] \in {"fallback", "done"} /\ tenant[ledger[t][k].icp] = t
          /\ \A j \in 1..n : ledger[t][j].icp = ledger[t][k].icp => j = k
      BY <1>1, <2>2 DEF Inv, StoredOnce
    <3>2. ledger[t][k].icp \in Intercepts \ {x}
      BY <1>1, <1>8, <2>2
    <3>3. \A j \in 1..(n + 1) : j \in 1..n \/ j = n + 1
      BY <1>1
    <3> QED
      BY <1>1, <1>2, <2>2, <3>1, <3>2, <3>3
  <2>3. CASE u = t /\ k = n + 1
    <3>1. \A j \in 1..n : ledger'[t][j].icp # x
      BY <1>1, <1>8
    <3>2. \A j \in 1..(n + 1) : j \in 1..n \/ j = n + 1
      BY <1>1
    <3> QED
      BY <1>1, <1>2, <2>3, <3>1, <3>2 DEF t
  <2> QED
    BY <1>1, <2>1, <2>2, <2>3
<1>10. SealedIsStored'
  <2> SUFFICES ASSUME NEW y \in Intercepts, sealed'[y] = "database"
               PROVE  /\ pc'[y] = "done"
                      /\ \E k \in DOMAIN ledger'[tenant[y]] : ledger'[tenant[y]][k].icp = y
    BY <1>2 DEF SealedIsStored
  <2>1. CASE sealed[y] = "database"
    <3>1. pc[y] = "done" /\ \E k \in DOMAIN ledger[tenant[y]] : ledger[tenant[y]][k].icp = y
      BY <2>1 DEF Inv, SealedIsStored
    <3>2. y # x /\ tenant[y] \in Tenants
      BY <1>2, <3>1 DEF Inv, TypeOK
    <3>3. \A k \in 1..n : k \in 1..(n + 1)
      BY <1>1
    <3> QED
      BY <1>1, <1>2, <3>1, <3>2, <3>3
  <2>2. CASE sealed[y] # "database"
    <3>1. y = x /\ p = "done"
      BY <2>2 DEF Inv, TypeOK
    <3>2. n + 1 \in 1..(n + 1)
      BY <1>1
    <3> QED
      BY <1>1, <1>2, <3>1, <3>2 DEF t
  <2> QED
    BY <2>1, <2>2
<1> QED
  BY <1>4, <1>5, <1>6, <1>7, <1>9, <1>10 DEF Inv

\* Every step keeps the invariant.
LEMMA StepInv ==
  ASSUME Inv, [Next]_vars
  PROVE  Inv'
<1>1. ASSUME NEW x \in Intercepts, NEW i \in Instances, NEW t \in Tenants, BeginIntercept(x, i, t)
      PROVE  Inv'
  <2>1. TypeOK'
    BY <1>1 DEF BeginIntercept, Goto, Inv, TypeOK, InSeal
  <2>2. \A y \in Intercepts : pc[y] # "new" => tenant'[y] = tenant[y]
    BY <1>1 DEF BeginIntercept, Inv, TypeOK
  <2>3. /\ ledger' = ledger /\ lock' = lock /\ read' = read /\ sealed' = sealed
        /\ pc' = [pc EXCEPT ![x] = "pending"] /\ pc[x] = "new"
    BY <1>1 DEF BeginIntercept, Goto
  <2>4. /\ pc[x] \notin {"read", "insert", "done"} /\ "pending" \notin {"read", "insert"}
        /\ pc[x] = "fallback" => "pending" = "done"
        /\ \A y \in Intercepts : sealed'[y] = "database" <=> sealed[y] = "database"
    BY <2>3
  <2> QED
    BY <2>1, <2>2, <2>3, <2>4, Quiet, Zenon
<1>2. ASSUME NEW x \in Intercepts,
             SealIntercept(x) \/ SealRaises(x) \/ Connect(x) \/ NoPool(x)
      PROVE  Inv'
  <2>1. TypeOK'
    BY <1>2 DEF SealIntercept, SealRaises, Connect, NoPool, Goto, Inv, TypeOK, InSeal
  <2>2. /\ UNCHANGED <<ledger, lock, read, tenant, sealed>>
        /\ \E p \in {"connect", "fallback", "done", "lock"} : pc' = [pc EXCEPT ![x] = p]
        /\ pc[x] \in {"pending", "connect"}
    BY <1>2 DEF SealIntercept, SealRaises, Connect, NoPool, Goto
  <2> QED
    BY <2>1, <2>2, Quiet
<1>3. ASSUME NEW x \in Intercepts, SealInMemory(x)
      PROVE  Inv'
  <2>1. /\ UNCHANGED <<ledger, lock, read, tenant, home, restarts>>
        /\ pc' = [pc EXCEPT ![x] = "done"] /\ pc[x] = "fallback"
        /\ sealed' = [sealed EXCEPT ![x] = "memory"]
    BY <1>3 DEF SealInMemory, Goto
  <2>2. sealed[x] # "database"
    BY <2>1 DEF Inv, SealedIsStored
  <2>3. \A y \in Intercepts : sealed'[y] = "database" <=> sealed[y] = "database"
    BY <2>1, <2>2 DEF Inv, TypeOK
  <2>4. memory' \in [Instances -> Seq(Blocks)]
    <3> DEFINE i == home[x]
               prev == IF memory[i] = <<>> THEN Genesis ELSE Last(memory[i]).hash
               b == Block(x, Len(memory[i]), prev)
    <3>1. i \in Instances /\ tenant[x] \in Tenants /\ memory[i] \in Seq(Blocks)
      BY <2>1 DEF Inv, TypeOK
    <3>2. prev \in Hashes
      <4>1. CASE memory[i] = <<>>
        BY <4>1 DEF Genesis, Hashes
      <4>2. CASE memory[i] # <<>>
        <5>1. Last(memory[i]) \in Blocks
          BY <3>1, <4>2 DEF Last
        <5> QED
          BY <4>2, <5>1 DEF Blocks
      <4> QED
        BY <4>1, <4>2
    <3>3. Len(memory[i]) \in Nat
      BY <3>1
    <3> HIDE DEF prev
    <3>4. b \in Blocks
      BY <3>1, <3>2, <3>3 DEF Block, Blocks, Hashes, BlockHash
    <3> HIDE DEF b, i
    <3>5. Append(memory[i], b) \in Seq(Blocks)
      BY <3>1, <3>4
    <3>6. memory' = [memory EXCEPT ![i] = Append(memory[i], b)]
      BY <1>3 DEF SealInMemory, b, prev, i
    <3> QED
      BY <3>5, <3>6 DEF Inv, TypeOK
  <2>5. TypeOK'
    BY <2>1, <2>4 DEF Inv, TypeOK, InSeal
  <2>6. /\ ledger' = ledger /\ lock' = lock /\ read' = read
        /\ \A y \in Intercepts : pc[y] # "new" => tenant'[y] = tenant[y]
        /\ \E p \in {"done"} : pc' = [pc EXCEPT ![x] = p]
        /\ pc[x] \in {"fallback"}
    BY <2>1
  <2> QED
    BY <2>3, <2>5, <2>6, Quiet
<1>4. ASSUME NEW x \in Intercepts, Lock(x)
      PROVE  Inv'
  <2>1. /\ UNCHANGED <<ledger, memory, home, tenant, read, sealed, restarts>>
        /\ pc[x] = "lock" /\ lock[tenant[x]] = Null /\ tenant[x] \in Tenants
        /\ pc'[x] = "read" /\ lock'[tenant[x]] = x
        /\ \A y \in Intercepts : y # x => pc'[y] = pc[y]
        /\ \A u \in Tenants : u # tenant[x] => lock'[u] = lock[u]
    BY <1>4 DEF Lock, Goto, Inv, TypeOK
  <2>2. TypeOK'
    BY <1>4 DEF Lock, Goto, Inv, TypeOK, InSeal
  <2>3. LockHeld'
    <3>1. ASSUME NEW y \in Intercepts, pc'[y] \in {"read", "insert"}
          PROVE  lock'[tenant[y]] = y
      <4>1. CASE y = x
        BY <2>1, <4>1
      <4>2. CASE y # x
        BY <2>1, <3>1, <4>2 DEF Inv, TypeOK, LockHeld
      <4> QED
        BY <4>1, <4>2
    <3>2. ASSUME NEW u \in Tenants, lock'[u] # Null
          PROVE  pc'[lock'[u]] \in {"read", "insert"} /\ tenant[lock'[u]] = u
      BY <2>1, <3>2 DEF Inv, TypeOK, LockHeld
    <3> QED
      BY <2>1, <3>1, <3>2 DEF LockHeld
  <2>4. ChainLinked'
    BY <2>1 DEF Inv, ChainLinked, Genesis
  <2>5. ReadIsCurrent'
    <3>1. \A y \in Intercepts : pc'[y] = "insert" => pc[y] = "insert"
      BY <2>1
    <3>2. \A t : NextNumber(t)' = NextNumber(t) /\ LastHash(t)' = LastHash(t)
      BY <2>1 DEF NextNumber, LastHash, Rows, Highest, ToSet
    <3> QED
      BY <2>1, <3>1, <3>2 DEF Inv, ReadIsCurrent
  <2>6. StoredOnce'
    BY <2>1, ChainType DEF Inv, StoredOnce
  <2>7. SealedIsStored'
    BY <2>1 DEF Inv, SealedIsStored
  <2> QED
    BY <2>2, <2>3, <2>4, <2>5, <2>6, <2>7 DEF Inv
<1>5. ASSUME NEW x \in Intercepts, Read(x)
      PROVE  Inv'
  <2>1. /\ UNCHANGED <<ledger, lock, memory, home, tenant, sealed, restarts>>
        /\ pc[x] = "read" /\ pc'[x] = "insert" /\ tenant[x] \in Tenants
        /\ \A y \in Intercepts : y # x => pc'[y] = pc[y] /\ read'[y] = read[y]
        /\ read'[x] = [num |-> NextNumber(tenant[x]), prev |-> LastHash(tenant[x])]
    BY <1>5 DEF Read, Goto, Inv, TypeOK
  <2>2. NextNumber(tenant[x]) \in Nat /\ LastHash(tenant[x]) \in Hashes
    <3>1. Genesis \in Hashes /\ Len(ledger[tenant[x]]) \in Nat
      BY <2>1, ChainType DEF Genesis, Hashes, Inv
    <3>2. Len(ledger[tenant[x]]) # 0 => ledger[tenant[x]][Len(ledger[tenant[x]])].hash \in Hashes
      BY <2>1, <3>1, ChainType DEF Inv
    <3> QED
      BY <2>1, <3>1, <3>2, HeadOfChain DEF Inv
  <2>3. TypeOK'
    <3>1. [num |-> NextNumber(tenant[x]), prev |-> LastHash(tenant[x])] \in Heads
      BY <2>2 DEF Heads
    <3> QED
      BY <1>5, <3>1 DEF Read, Goto, Inv, TypeOK, InSeal
  <2>4. LockHeld'
    <3>1. ASSUME NEW y \in Intercepts, pc'[y] \in {"read", "insert"}
          PROVE  lock[tenant[y]] = y
      BY <2>1, <3>1 DEF Inv, LockHeld
    <3>2. ASSUME NEW u \in Tenants, lock[u] # Null
          PROVE  pc'[lock[u]] \in {"read", "insert"} /\ tenant[lock[u]] = u
      BY <2>1, <3>2 DEF Inv, TypeOK, LockHeld
    <3> QED
      BY <2>1, <3>1, <3>2 DEF LockHeld
  <2>5. ChainLinked'
    BY <2>1 DEF Inv, ChainLinked, Genesis
  <2>6. \A t : NextNumber(t)' = NextNumber(t) /\ LastHash(t)' = LastHash(t)
    BY <2>1 DEF NextNumber, LastHash, Rows, Highest, ToSet
  <2>7. ReadIsCurrent'
    <3> SUFFICES ASSUME NEW y \in Intercepts, pc'[y] = "insert"
                 PROVE  read'[y] = [num |-> NextNumber(tenant[y])', prev |-> LastHash(tenant[y])']
      BY <2>1 DEF ReadIsCurrent
    <3>1. CASE y = x
      BY <2>1, <2>6, <3>1
    <3>2. CASE y # x
      BY <2>1, <2>6, <3>2 DEF Inv, ReadIsCurrent
    <3> QED
      BY <3>1, <3>2
  <2>8. StoredOnce'
    BY <2>1, ChainType DEF Inv, StoredOnce
  <2>9. SealedIsStored'
    BY <2>1 DEF Inv, SealedIsStored
  <2> QED
    BY <2>3, <2>4, <2>5, <2>7, <2>8, <2>9 DEF Inv
<1>6. ASSUME NEW x \in Intercepts, CommitSealed(x) \/ CommitUnacked(x)
      PROVE  Inv'
  <2>1. /\ Insert(x) /\ Release(x) /\ UNCHANGED <<memory, home, tenant, read, restarts>>
        /\ \/ Goto(x, "fallback") /\ sealed' = sealed
           \/ Goto(x, "done") /\ sealed' = [sealed EXCEPT ![x] = "database"]
    BY <1>6 DEF CommitSealed, CommitUnacked
  <2> QED
    BY <2>1, EndWithBlock
<1>7. ASSUME NEW x \in Intercepts, Fail(x)
      PROVE  Inv'
  <2>1. /\ UNCHANGED <<ledger, memory, home, tenant, read, sealed, restarts>>
        /\ lock' = [t \in Tenants |-> IF lock[t] \in {x} THEN Null ELSE lock[t]]
        /\ pc[x] \in {"lock", "read", "insert"} /\ pc' = [pc EXCEPT ![x] = "fallback"]
    BY <1>7 DEF Fail, Goto, Release, InSeal
  <2>2. TypeOK'
    BY <2>1 DEF Inv, TypeOK, InSeal
  <2>3. /\ ledger' = ledger /\ tenant' = tenant /\ read' = read /\ sealed' = sealed
        /\ {x} \in SUBSET Intercepts
        /\ \A y \in Intercepts \ {x} : pc'[y] = pc[y]
        /\ \A y \in {x} : pc'[y] = "done" \/ (pc'[y] = "fallback" /\ pc[y] # "done")
    BY <2>1 DEF Inv, TypeOK
  <2> QED
    BY <2>1, <2>2, <2>3, CutShort
<1>8. ASSUME NEW i \in Instances, Restart(i)
      PROVE  Inv'
  <2> DEFINE D == {x \in Intercepts : home[x] = i}
  <2>1. /\ UNCHANGED <<ledger, home, tenant, read, sealed>>
        /\ memory' = [memory EXCEPT ![i] = <<>>]
        /\ restarts < MaxRestarts /\ restarts' = restarts + 1
        /\ pc' = [x \in Intercepts |-> IF home[x] = i THEN "done" ELSE pc[x]]
        /\ lock' = [t \in Tenants |-> IF \E x \in Intercepts : lock[t] = x /\ home[x] = i
                                      THEN Null ELSE lock[t]]
    BY <1>8 DEF Restart
  <2>2. lock' = [t \in Tenants |-> IF lock[t] \in D THEN Null ELSE lock[t]]
    BY <2>1
  <2>3. (\A y \in Intercepts \ D : pc'[y] = pc[y]) /\ (\A y \in D : pc'[y] = "done")
    BY <2>1
  <2>4. /\ restarts' \in 0..MaxRestarts
        /\ memory' \in [Instances -> Seq(Blocks)]
        /\ lock' \in [Tenants -> Intercepts \cup {Null}]
    <3>1. <<>> \in Seq(Blocks)
      OBVIOUS
    <3> QED
      BY <2>1, <3>1 DEF Inv, TypeOK
  <2>5. /\ pc' \in [Intercepts -> {"new", "pending", "connect", "fallback", "done"} \cup InSeal]
        /\ \A x \in Intercepts : IF pc'[x] = "new" THEN home[x] = Null
                                 ELSE home[x] \in Instances /\ tenant[x] \in Tenants
    <3>1. \A x \in Intercepts : home[x] = i => pc[x] # "new"
      BY DEF Inv, TypeOK
    <3> QED
      BY <2>1, <3>1 DEF Inv, TypeOK
  <2>6. TypeOK'
    BY <2>1, <2>4, <2>5 DEF Inv, TypeOK
  <2> QED
    BY <2>1, <2>2, <2>3, <2>6, CutShort
<1>9. ASSUME UNCHANGED vars
      PROVE  Inv'
  <2>1. UNCHANGED <<ledger, lock, memory, home, tenant, pc, read, sealed, restarts>>
    BY <1>9 DEF vars
  <2>2. TypeOK' /\ LockHeld' /\ SealedIsStored'
    BY <2>1 DEF Inv, TypeOK, InSeal, LockHeld, SealedIsStored
  <2>3. ChainLinked' /\ StoredOnce'
    BY <2>1 DEF Inv, ChainLinked, Genesis, StoredOnce
  <2>4. ReadIsCurrent'
    <3>1. \A t : NextNumber(t)' = NextNumber(t) /\ LastHash(t)' = LastHash(t)
      BY <2>1 DEF NextNumber, LastHash, Rows, Highest, ToSet
    <3> QED
      BY <2>1, <3>1 DEF Inv, ReadIsCurrent
  <2> QED
    BY <2>2, <2>3, <2>4 DEF Inv
<1> QED
  BY <1>1, <1>2, <1>3, <1>4, <1>5, <1>6, <1>7, <1>8, <1>9 DEF Next, Done

LEMMA AlwaysInv == Spec => []Inv
  BY InitInv, StepInv, PTL DEF Spec

-----------------------------------------------------------------------------
(* Verification of a linked chain *)

\* integrity_passed holds of every range of a linked chain.
LEMMA LinkedPasses ==
  ASSUME Inv, NEW t \in Tenants, NEW from \in Int, NEW to \in Int
  PROVE  Passed(ChainRange(t, from, to))
<1> DEFINE R == ChainRange(t, from, to)
           n == Len(ledger[t])
<1>1. n \in Nat /\ DOMAIN ledger[t] = 1..n /\ Rows(t) = {ledger[t][k] : k \in 1..n}
  BY ChainType, RowsAt DEF Inv
<1> HIDE DEF n
<1>2. \A k \in 1..n :
        /\ ledger[t][k].num = k - 1
        /\ ledger[t][k].prev = IF k = 1 THEN Genesis ELSE ledger[t][k - 1].hash
  BY <1>1, Links DEF Inv
<1>3. \A b \in R : \E k \in 1..n : b = ledger[t][k] /\ b.num = k - 1 /\ from <= k - 1 /\ k - 1 <= to
  BY <1>1, <1>2 DEF ChainRange
<1>4. \A k \in 1..n : from <= k - 1 /\ k - 1 <= to => ledger[t][k] \in R
  BY <1>1, <1>2 DEF ChainRange
<1> HIDE DEF R
<1>5. \A b \in R : b.num = 0 => b.prev = Genesis
  <2> SUFFICES ASSUME NEW b \in R, b.num = 0
               PROVE  b.prev = Genesis
    OBVIOUS
  <2>1. PICK k \in 1..n : b = ledger[t][k] /\ b.num = k - 1
    BY <1>3
  <2>2. k = 1
    BY <1>1, <2>1
  <2> QED
    BY <1>2, <2>1, <2>2
<1>6. \A b, c \in R : Follows(b, c, R) => c.prev = b.hash
  <2> SUFFICES ASSUME NEW b \in R, NEW c \in R, Follows(b, c, R)
               PROVE  c.prev = b.hash
    OBVIOUS
  <2>1. PICK j \in 1..n : b = ledger[t][j] /\ b.num = j - 1 /\ from <= j - 1 /\ j - 1 <= to
    BY <1>3
  <2>2. PICK k \in 1..n : c = ledger[t][k] /\ c.num = k - 1 /\ from <= k - 1 /\ k - 1 <= to
    BY <1>3
  <2>3. j < k
    BY <1>1, <2>1, <2>2 DEF Follows
  <2>4. j + 1 \in 1..n /\ from <= (j + 1) - 1 /\ (j + 1) - 1 <= to
    BY <1>1, <2>1, <2>2, <2>3
  <2>5. ledger[t][j + 1] \in R /\ ledger[t][j + 1].num = (j + 1) - 1
    BY <1>2, <1>4, <2>4
  <2>6. k = j + 1
    BY <1>1, <2>1, <2>2, <2>3, <2>5 DEF Follows
  <2>7. k # 1 /\ k - 1 = j
    BY <1>1, <2>1, <2>6
  <2> QED
    BY <1>2, <2>1, <2>2, <2>7
<1> QED
  BY <1>5, <1>6 DEF Passed, R

-----------------------------------------------------------------------------
(* The results *)

\* The stored chains, those in memory and the seals' locals always fit their types.
THEOREM PoDTypeCorrect == Spec => []TypeOK
<1>1. Inv => TypeOK
  BY DEF Inv
<1> QED
  BY <1>1, AlwaysInv, PTL

\* run_integrity_verification passes every range of every tenant's stored chain.
THEOREM PoDNoFalseAlarm == Spec => []NoFalseAlarm
<1>1. Inv => NoFalseAlarm
  <2> SUFFICES ASSUME Inv PROVE NoFalseAlarm
    OBVIOUS
  <2>1. \A t \in Tenants : Len(ledger[t]) \in Nat
    BY ChainType DEF Inv
  <2>2. \A t \in Tenants : \A from, to \in 0..Len(ledger[t]) : from \in Int /\ to \in Int
    BY <2>1
  <2> QED
    BY <2>2, LinkedPasses DEF NoFalseAlarm
<1> QED
  BY <1>1, AlwaysInv, PTL

\* verify_decision shows a decision to its tenant alone, by one block, with a chain proof
\* that has it and passes if its query does not fail; and it can show to that tenant what
\* was handed out as sealed in the database.
THEOREM PoDProofIsShown == Spec => []ProofIsShown
<1>1. Inv => ProofIsShown
  <2> SUFFICES ASSUME Inv, NEW x \in Intercepts, pc[x] # "new", NEW t \in Tenants
               PROVE  LET showing == VerifyDecision(x, t) \ {NothingShown}
                      IN  /\ t # tenant[x] => showing = {}
                          /\ sealed[x] = "database" /\ t = tenant[x] => showing # {}
                          /\ \A v, w \in showing : v.shown = w.shown
                          /\ \A v \in showing : v.proof # {} => v.shown \subseteq v.proof /\ Passed(v.proof)
    BY DEF ProofIsShown
  <2> DEFINE found == Lookup(x, t)
             showing == VerifyDecision(x, t) \ {NothingShown}
             n == Len(ledger[t])
  <2>1. n \in Nat /\ DOMAIN ledger[t] = 1..n /\ Rows(t) = {ledger[t][k] : k \in 1..n}
    BY ChainType, RowsAt DEF Inv
  <2>2. \A b \in found : b \in Rows(t) /\ \E k \in 1..n : b = ledger[t][k] /\ ledger[t][k].icp = x
    BY <2>1 DEF Lookup
  <2>3. \A b, c \in found : b = c
    BY <2>1, <2>2 DEF Inv, StoredOnce
  <2>4. t # tenant[x] => found = {}
    BY <2>1, <2>2 DEF Inv, StoredOnce
  <2>5. sealed[x] = "database" /\ t = tenant[x] => found # {}
    BY <2>1 DEF Inv, SealedIsStored, Lookup
  <2>6. \A b \in found : b \in ChainProof(b) /\ Passed(ChainProof(b))
    <3> SUFFICES ASSUME NEW b \in found
                 PROVE  b \in ChainProof(b) /\ Passed(ChainProof(b))
      OBVIOUS
    <3>1. b \in Rows(t) /\ b.num \in Nat /\ b.tenant = t
      BY <2>1, <2>2, ChainType DEF Inv, ChainLinked
    <3> DEFINE from == IF b.num < ProofLength THEN 0 ELSE b.num - ProofLength
    <3>2. from \in Int /\ from <= b.num /\ b.num \in Int
      BY <3>1
    <3> HIDE DEF from
    <3>3. b \in ChainRange(t, from, b.num)
      BY <3>1, <3>2 DEF ChainRange
    <3>4. Passed(ChainRange(t, from, b.num))
      BY <3>2, LinkedPasses
    <3> QED
      BY <3>1, <3>3, <3>4 DEF ChainProof, from
  <2>7. \A v \in showing : \E b \in found : v.shown = {b} /\ v.proof \in {ChainProof(b), {}}
    BY DEF VerifyDecision
  <2>8. \A b \in found : [shown |-> {b}, proof |-> ChainProof(b)] \in showing
    <3> TAKE b \in found
    <3> DEFINE v == [shown |-> {b}, proof |-> ChainProof(b)]
    <3>1. v \in VerifyDecision(x, t)
      BY DEF VerifyDecision
    <3>2. v # NothingShown
      <4>1. v.shown = {b} /\ NothingShown.shown = {}
        BY DEF NothingShown
      <4> QED
        BY <4>1
    <3> QED
      BY <3>1, <3>2
  <2> HIDE DEF found, showing
  <2>9. \A v, w \in showing : v.shown = w.shown
    BY <2>3, <2>7
  <2>10. \A v \in showing : v.proof # {} => v.shown \subseteq v.proof /\ Passed(v.proof)
    BY <2>6, <2>7
  <2>11. (found = {} => showing = {}) /\ (found # {} => showing # {})
    BY <2>7, <2>8
  <2> QED
    BY <2>4, <2>5, <2>9, <2>10, <2>11 DEF showing
<1> QED
  BY <1>1, AlwaysInv, PTL

\* The intercepts of a tenant's chain in block order, and those told to be sealed there.
Entries(t) == [k \in DOMAIN ledger[t] |-> ledger[t][k].icp]
Acked(t) == {x \in Intercepts : tenant[x] = t /\ sealed[x] = "database"}

\* A step that appends nothing to a chain and tells nobody is invisible to its ledger.
LEMMA StutterImplements ==
  ASSUME Inv, NEW t \in Tenants, ledger'[t] = ledger[t], Acked(t)' = Acked(t)
  PROVE  UNCHANGED Ledger(t)!vars
  BY DEF Ledger!vars, Acked

\* An insert is an append to the ledger of its tenant.
LEMMA SealImplements ==
  ASSUME Inv, NEW x \in Intercepts, Insert(x), tenant' = tenant,
         NEW t \in Tenants, t = tenant[x],
         sealed' \in {sealed, [sealed EXCEPT ![x] = "database"]}
  PROVE  Ledger(t)!Next
<1> DEFINE n == Len(ledger[t])
<1>1. /\ n \in Nat /\ DOMAIN ledger[t] = 1..n
      /\ DOMAIN ledger'[t] = 1..(n + 1)
      /\ \A k \in 1..n : ledger'[t][k] = ledger[t][k]
      /\ ledger'[t][n + 1].icp = x
  BY InsertAppends
<1>2. pc[x] = "insert"
  BY DEF Insert
<1> HIDE DEF n
<1>3. \A k \in 1..n : ledger[t][k].icp \in Intercepts \ {x}
  BY <1>1, <1>2, ChainType DEF Inv, StoredOnce
<1>4. Entries(t)' = Append(Entries(t), x)
  <2>0. Entries(t) = [k \in 1..n |-> ledger[t][k].icp]
    BY <1>1 DEF Entries
  <2>1. Entries(t) \in Seq(Intercepts) /\ Len(Entries(t)) = n
    BY <1>1, <1>3, <2>0
  <2>2. /\ Append(Entries(t), x) \in Seq(Intercepts)
        /\ Len(Append(Entries(t), x)) = n + 1
        /\ \A k \in 1..n : Append(Entries(t), x)[k] = ledger[t][k].icp
        /\ Append(Entries(t), x)[n + 1] = x
    BY <1>1, <2>0, <2>1
  <2>3. \A k \in 1..(n + 1) : ledger'[t][k].icp = Append(Entries(t), x)[k]
    BY <1>1, <2>2
  <2>4. Entries(t)' = [k \in 1..(n + 1) |-> ledger'[t][k].icp]
    BY <1>1 DEF Entries
  <2> DEFINE longer == Append(Entries(t), x)
  <2>5. longer \in Seq(Intercepts) /\ DOMAIN longer = 1..(n + 1)
        /\ \A k \in 1..(n + 1) : ledger'[t][k].icp = longer[k]
    BY <1>1, <2>2, <2>3
  <2> HIDE DEF longer
  <2>6. longer = [k \in 1..(n + 1) |-> longer[k]]
    BY <2>5
  <2> QED
    BY <2>4, <2>5, <2>6 DEF longer
<1>5. x \notin {Entries(t)[k] : k \in DOMAIN Entries(t)}
  BY <1>1, <1>3 DEF Entries
<1>6. Acked(t)' \in {Acked(t), Acked(t) \cup {x}}
  <2>1. CASE sealed' = sealed
    BY <2>1 DEF Acked
  <2>2. CASE sealed' = [sealed EXCEPT ![x] = "database"]
    BY <2>2 DEF Acked, Inv, TypeOK
  <2> QED
    BY <2>1, <2>2
<1> QED
  BY <1>1, <1>4, <1>5, <1>6 DEF Ledger!Next, Ledger!Seal, Ledger!Recorded, Entries, Acked

\* Each tenant's stored chain implements the append-only ledger on its own: a block is
\* appended at most once, at the end, never changed, and told only when it is there.
THEOREM PoDImplementsLedgers == Spec => ImplementsLedgers
<1>1. Init => \A t \in Tenants : Ledger(t)!Init
  <2> SUFFICES ASSUME Init, NEW t \in Tenants
               PROVE  Ledger(t)!Init
    OBVIOUS
  <2>1. ledger[t] = <<>> /\ \A x \in Intercepts : sealed[x] = "no"
    BY DEF Init
  <2>2. [k \in DOMAIN ledger[t] |-> ledger[t][k].icp] = <<>>
    BY <2>1
  <2> QED
    BY <2>1, <2>2 DEF Ledger!Init
<1>2. ASSUME Inv, [Next]_vars
      PROVE  \A t \in Tenants : [Ledger(t)!Next]_(Ledger(t)!vars)
  <2> SUFFICES ASSUME NEW t \in Tenants
               PROVE  Ledger(t)!Next \/ UNCHANGED Ledger(t)!vars
    OBVIOUS
  <2>1. ASSUME NEW x \in Intercepts, CommitSealed(x) \/ CommitUnacked(x)
        PROVE  Ledger(t)!Next \/ UNCHANGED Ledger(t)!vars
    <3>1. /\ Insert(x) /\ tenant' = tenant
          /\ sealed' \in {sealed, [sealed EXCEPT ![x] = "database"]}
      BY <2>1 DEF CommitSealed, CommitUnacked
    <3>2. CASE t = tenant[x]
      BY <1>2, <3>1, <3>2, SealImplements
    <3>3. CASE t # tenant[x]
      <4>1. ledger'[t] = ledger[t]
        BY <1>2, <3>1, <3>3, InsertAppends
      <4>2. Acked(t)' = Acked(t)
        BY <1>2, <3>1, <3>3 DEF Acked, Inv, TypeOK
      <4> QED
        BY <1>2, <4>1, <4>2, StutterImplements
    <3> QED
      BY <3>2, <3>3
  <2>2. ASSUME NEW x \in Intercepts, NEW i \in Instances, NEW u \in Tenants, BeginIntercept(x, i, u)
        PROVE  UNCHANGED Ledger(t)!vars
    <3>1. /\ ledger' = ledger /\ sealed' = sealed /\ sealed[x] # "database"
          /\ \A y \in Intercepts : y # x => tenant'[y] = tenant[y]
      BY <1>2, <2>2 DEF BeginIntercept, Inv, TypeOK, SealedIsStored
    <3>2. Acked(t)' = Acked(t)
      BY <3>1 DEF Acked
    <3> QED
      BY <1>2, <3>1, <3>2, StutterImplements
  <2>3. ASSUME NEW x \in Intercepts, SealInMemory(x)
        PROVE  UNCHANGED Ledger(t)!vars
    <3>1. /\ ledger' = ledger /\ tenant' = tenant /\ sealed[x] # "database"
          /\ sealed' = [sealed EXCEPT ![x] = "memory"]
      BY <1>2, <2>3 DEF SealInMemory, Inv, SealedIsStored
    <3>2. Acked(t)' = Acked(t)
      BY <1>2, <3>1 DEF Acked, Inv, TypeOK
    <3> QED
      BY <1>2, <3>1, <3>2, StutterImplements
  <2>4. CASE \/ \E x \in Intercepts : \/ SealIntercept(x) \/ SealRaises(x) \/ Connect(x) \/ NoPool(x)
                                      \/ Lock(x) \/ Read(x) \/ Fail(x)
             \/ \E i \in Instances : Restart(i)
             \/ UNCHANGED vars
    <3>1. ledger' = ledger /\ tenant' = tenant /\ sealed' = sealed
      BY <2>4 DEF SealIntercept, SealRaises, Connect, NoPool, Lock, Read, Fail, Restart, vars
    <3>2. Acked(t)' = Acked(t)
      BY <3>1 DEF Acked
    <3> QED
      BY <1>2, <3>1, <3>2, StutterImplements
  <2> QED
    BY <1>2, <2>1, <2>2, <2>3, <2>4 DEF Next, Done
<1> QED
  BY <1>1, <1>2, AlwaysInv, PTL DEF Spec, ImplementsLedgers
=============================================================================
