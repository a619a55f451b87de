----------------------------- MODULE PoDLedger ------------------------------
(***************************************************************************)
(* Proof-of-Decision: app/modules/pod/pod_interceptor_v2.py and            *)
(* pod_repository.py.  An intercept is begun before the governance cycle   *)
(* and sealed after it, into its tenant's chain in cgc_pod.pod_ledger, or, *)
(* when that fails, into a chain in the memory of the serverless instance, *)
(* which all tenants share.                                                *)
(*                                                                         *)
(* seal_block_atomic runs on asyncpg: the seals of one instance interleave *)
(* at every await, and those of different instances anywhere.  Hashes are  *)
(* modelled as in AuditChain, by the intercepts they cover.                *)
(*                                                                         *)
(* Definitions placed just before the one they vary (LookupInAnyTenant     *)
(* before Lookup) are plausible bugs; no specification uses them.          *)
(***************************************************************************)
EXTENDS Integers, Sequences, FiniteSets, SequencesExt

CONSTANTS Instances, Tenants, Intercepts, Null,
          Persist,      \* PoDInterceptor has a repository (self._repo)
          MaxConnections, \* max_size of an instance's pool
          ProofLength,  \* blocks of a chain proof before the decision's own (5)
          MaxRestarts   \* bound: instance restarts

ASSUME NullAssumption == Null \notin Instances \cup Tenants \cup Intercepts
ASSUME PersistAssumption == Persist \in BOOLEAN
ASSUME BoundAssumption == 
  MaxConnections \in Nat \ {0} /\ ProofLength \in Nat /\ MaxRestarts \in Nat

VARIABLES ledger,    \* committed blocks of each tenant, in commit order
          lock,      \* holder of each tenant's advisory lock
          memory,    \* InMemoryChain of each instance
          home,      \* the instance that began an intercept
          tenant,    \* the tenant it belongs to
          pc,        \* where it is
          read,      \* next_number and prev_hash of its SELECT
          sealed,    \* where the block that seal_intercept returned is
          restarts

vars == <<ledger, lock, memory, home, tenant, pc, read, sealed, restarts>>

Hashes == Seq(Intercepts)
Genesis == <<>>

\* _compute_block_hash covers the intercept and the previous hash.
BlockHash(x, prev) == Append(prev, x)

\* A chain is numbered from 0.
Block(x, num, prev) ==
  [num |-> num, tenant |-> tenant[x], icp |-> x, prev |-> prev, hash |-> BlockHash(x, prev)]

Blocks == [num : Nat, tenant : Tenants, icp : Intercepts, prev : Hashes, hash : Hashes]
Heads == [num : Nat, prev : Hashes]
NoHead == [num |-> 0, prev |-> Genesis]

\* Where an intercept holds a connection, and its transaction is open.
InSeal == {"lock", "read", "insert"}

\* cgc_pod.pod_ledger, whose rows a trigger keeps from being changed or removed.
Ledgers == [Tenants -> Seq(Blocks)]

TypeOK ==
  /\ ledger \in Ledgers
  /\ lock \in [Tenants -> Intercepts \cup {Null}]
  /\ memory \in [Instances -> Seq(Blocks)]
  /\ home \in [Intercepts -> Instances \cup {Null}]
  /\ tenant \in [Intercepts -> Tenants \cup {Null}]
  /\ pc \in [Intercepts -> {"new", "pending", "connect", "fallback", "done"} \cup InSeal]
  /\ \A x \in Intercepts : IF pc[x] = "new" THEN home[x] = Null
                           ELSE home[x] \in Instances /\ tenant[x] \in Tenants
  /\ read \in [Intercepts -> Heads]
  /\ sealed \in [Intercepts -> {"no", "database", "memory"}]
  /\ restarts \in 0..MaxRestarts

Init ==
  /\ ledger = [t \in Tenants |-> <<>>]
  /\ lock = [t \in Tenants |-> Null]
  /\ memory = [i \in Instances |-> <<>>]
  /\ home = [x \in Intercepts |-> Null]
  /\ tenant = [x \in Intercepts |-> Null]
  /\ pc = [x \in Intercepts |-> "new"]
  /\ read = [x \in Intercepts |-> NoHead]
  /\ sealed = [x \in Intercepts |-> "no"]
  /\ restarts = 0

-----------------------------------------------------------------------------
(* begin_intercept and seal_intercept *)

Goto(x, p) == pc' = [pc EXCEPT ![x] = p]

BeginIntercept(x, i, t) ==
  /\ pc[x] = "new"
  /\ home' = [home EXCEPT ![x] = i]
  /\ tenant' = [tenant EXCEPT ![x] = t]
  /\ Goto(x, "pending")
  /\ UNCHANGED <<ledger, lock, memory, read, sealed, restarts>>

\* The synchronous part: the intercept leaves _pending_intercepts, its
\* triplet is hashed and signed.
SealIntercept(x) ==
  /\ pc[x] = "pending"
  /\ Goto(x, IF Persist THEN "connect" ELSE "fallback")
  /\ UNCHANGED <<ledger, lock, memory, home, tenant, read, sealed, restarts>>

\* The synchronous part raises: the caller logs it and answers without proof.
SealRaises(x) ==
  /\ pc[x] = "pending"
  /\ Goto(x, "done")
  /\ UNCHANGED <<ledger, lock, memory, home, tenant, read, sealed, restarts>>

\* _seal_to_chain: no await, so the block goes to the end it was made for.
SealInMemory(x) ==
  /\ pc[x] = "fallback"
  /\ LET i == home[x]
         prev == IF memory[i] = <<>> THEN Genesis ELSE Last(memory[i]).hash
     IN  memory' = [memory EXCEPT ![i] = Append(@, Block(x, Len(memory[i]), prev))]
  /\ sealed' = [sealed EXCEPT ![x] = "memory"]
  /\ Goto(x, "done")
  /\ UNCHANGED <<ledger, lock, home, tenant, read, restarts>>

-----------------------------------------------------------------------------
(* seal_block_atomic *)

Connections(i) == {x \in Intercepts : home[x] = i /\ pc[x] \in InSeal}

\* get_connection waits while the pool of the instance is at its limit; a pool that is not
\* there is made first, by one task at a time.  A seal that waits for the lock of its tenant
\* holds its connection.
Connect(x) ==
  /\ pc[x] = "connect"
  /\ Cardinality(Connections(home[x])) < MaxConnections
  /\ Goto(x, "lock")
  /\ UNCHANGED <<ledger, lock, memory, home, tenant, read, sealed, restarts>>

\* get_pool returned None.
NoPool(x) ==
  /\ pc[x] = "connect"
  /\ Goto(x, "fallback")
  /\ UNCHANGED <<ledger, lock, memory, home, tenant, read, sealed, restarts>>

Rows(t) == ToSet(ledger[t])
Highest(rows) == CHOOSE b \in rows : \A c \in rows : c.num <= b.num

\* COALESCE(MAX(block_number), -1) + 1 and the last block_hash, of one tenant.
NextNumber(t) == IF Rows(t) = {} THEN 0 ELSE Highest(Rows(t)).num + 1
LastHash(t) == IF Rows(t) = {} THEN Genesis ELSE Highest(Rows(t)).hash

Lock(x) ==
  /\ pc[x] = "lock"
  /\ lock[tenant[x]] = Null
  /\ lock' = [lock EXCEPT ![tenant[x]] = x]
  /\ Goto(x, "read")
  /\ UNCHANGED <<ledger, memory, home, tenant, read, sealed, restarts>>

Read(x) ==
  /\ pc[x] = "read"
  /\ read' = [read EXCEPT ![x] = [num |-> NextNumber(tenant[x]), prev |-> LastHash(tenant[x])]]
  /\ Goto(x, "insert")
  /\ UNCHANGED <<ledger, lock, memory, home, tenant, sealed, restarts>>

\* The transaction has ended, and with it the lock.
Release(x) == lock' = [t \in Tenants |-> IF lock[t] = x THEN Null ELSE lock[t]]

NewBlock(x) == Block(x, read[x].num, read[x].prev)

\* UNIQUE(tenant_id, block_number)
Taken(t, num) == \E b \in Rows(t) : b.num = num

\* Both INSERTs and the COMMIT.  A block_hash that is taken would be skipped
\* silently: it covers a fresh block_uuid, so none is.
Insert(x) ==
  /\ pc[x] = "insert"
  /\ ~ Taken(tenant[x], read[x].num)
  /\ ledger' = [ledger EXCEPT ![tenant[x]] = Append(@, NewBlock(x))]

CommitSealed(x) ==
  /\ Insert(x)
  /\ sealed' = [sealed EXCEPT ![x] = "database"]
  /\ Goto(x, "done")
  /\ Release(x)
  /\ UNCHANGED <<memory, home, tenant, read, restarts>>

CommitRetried(x) ==
  /\ Insert(x)
  /\ Goto(x, "lock")
  /\ Release(x)
  /\ UNCHANGED <<memory, home, tenant, read, sealed, restarts>>

\* The commit reached the server, its acknowledgement did not reach the code:
\* the block is in the ledger, and will be in memory as well.
CommitUnacked(x) ==
  /\ Insert(x)
  /\ Goto(x, "fallback")
  /\ Release(x)
  /\ UNCHANGED <<memory, home, tenant, read, sealed, restarts>>

\* A lost connection, a refused INSERT: rolled back, None returned.
Fail(x) ==
  /\ pc[x] \in InSeal
  /\ Goto(x, "fallback")
  /\ Release(x)
  /\ UNCHANGED <<ledger, memory, home, tenant, read, sealed, restarts>>

\* The instance is killed: its chain in memory and its pending intercepts go
\* with it, the server rolls its transactions back.
Restart(i) ==
  /\ restarts < MaxRestarts
  /\ restarts' = restarts + 1
  /\ memory' = [memory EXCEPT ![i] = <<>>]
  /\ pc' = [x \in Intercepts |-> IF home[x] = i THEN "done" ELSE pc[x]]
  /\ lock' = [t \in Tenants |-> IF \E x \in Intercepts : lock[t] = x /\ home[x] = i
                                 THEN Null ELSE lock[t]]
  /\ UNCHANGED <<ledger, home, tenant, read, sealed>>

\* An intercept whose request failed stays pending: nothing removes it.
Done ==
  /\ \A x \in Intercepts : pc[x] \in {"pending", "done"}
  /\ UNCHANGED vars

Next ==
  \/ \E x \in Intercepts :
       \/ \E i \in Instances, t \in Tenants : BeginIntercept(x, i, t)
       \/ SealIntercept(x) \/ SealRaises(x) \/ SealInMemory(x)
       \/ Connect(x) \/ NoPool(x) \/ Lock(x) \/ Read(x) \/ CommitSealed(x) \/ CommitUnacked(x) \/ Fail(x)
  \/ \E i \in Instances : Restart(i)
  \/ Done

Spec == Init /\ [][Next]_vars

-----------------------------------------------------------------------------
(* Verification *)

\* get_chain_range: the rows of a tenant numbered from..to.
ChainRange(t, from, to) == {b \in Rows(t) : from <= b.num /\ b.num <= to}

Follows(b, c, rows) == b.num < c.num /\ ~ \E x \in rows : b.num < x.num /\ x.num < c.num

PassedFirstAtGenesis(rows) ==
  /\ \A b \in rows : (\A c \in rows : b.num <= c.num) => b.prev = Genesis
  /\ \A b, c \in rows : Follows(b, c, rows) => c.prev = b.hash

\* integrity_passed of run_integrity_verification: the first row is compared
\* with genesis only if it is block 0, and no rows at all pass.
Passed(rows) ==
  /\ \A b \in rows : b.num = 0 => b.prev = Genesis
  /\ \A b, c \in rows : Follows(b, c, rows) => c.prev = b.hash

LookupInAnyTenant(x, t) == {b \in UNION {Rows(u) : u \in Tenants} : b.icp = x}

\* forensic_lookup: the blocks of a decision, asked for by a tenant.
Lookup(x, t) == {b \in Rows(t) : b.icp = x}

\* include_chain_proof: the block and those just before it.
ChainProof(b) ==
  ChainRange(b.tenant, IF b.num < ProofLength THEN 0 ELSE b.num - ProofLength, b.num)

\* What verify_decision may answer, as far as the proof goes: the block that shows the
\* decision and the chain proof of it, read after it, or nothing.  Either query answers
\* nothing when there is no pool or when it fails; what it reads is there for good.
NothingShown == [shown |-> {}, proof |-> {}]
VerifyDecision(x, t) ==
  {NothingShown}
    \cup {[shown |-> {b}, proof |-> ChainProof(b)] : b \in Lookup(x, t)}
    \cup {[shown |-> {b}, proof |-> {}] : b \in Lookup(x, t)}

-----------------------------------------------------------------------------
(* Properties *)

\* A decision whose proof was handed out as sealed in the database can be shown to its
\* tenant; no decision is shown to another tenant, or by two blocks, and a chain proof
\* that is there has the block and passes, whatever was retried, failed or died in between.
ProofIsShown ==
  \A x \in Intercepts : pc[x] # "new" => \A t \in Tenants :
    LET showing == VerifyDecision(x, t) \ {NothingShown}
    IN  /\ t # tenant[x] => showing = {}
        /\ sealed[x] = "database" /\ t = tenant[x] => showing # {}
        /\ \A v, w \in showing : v.shown = w.shown
        /\ \A v \in showing : v.proof # {} => v.shown \subseteq v.proof /\ Passed(v.proof)

\* Every range of every untouched chain passes run_integrity_verification.
NoFalseAlarm ==
  \A t \in Tenants : \A from, to \in 0..Len(ledger[t]) :
    Passed(ChainRange(t, from, to))

\* Each tenant's chain implements the append-only ledger on its own:
\* Ledger(t)!Spec for every tenant t, as one action property.
Ledger(t) == INSTANCE AppendOnlyLedger
               WITH Entry <- Intercepts,
                    entries <- [k \in DOMAIN ledger[t] |-> ledger[t][k].icp],
                    acked <- {x \in Intercepts : tenant[x] = t /\ sealed[x] = "database"}
ImplementsLedgers ==
  /\ \A t \in Tenants : Ledger(t)!Init
  /\ [][\A t \in Tenants : [Ledger(t)!Next]_(Ledger(t)!vars)]_vars
=============================================================================
