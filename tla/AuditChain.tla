----------------------------- MODULE AuditChain -----------------------------
(***************************************************************************)
(* The audit trail of the TCO module (app/modules/tco/tcomodule.py): one   *)
(* global hash chain in cgc_tco.audit_trail, appended to by every          *)
(* serverless instance.                                                    *)
(*                                                                         *)
(* log_decision runs one transaction: advisory lock, SELECT of the highest *)
(* block and its hash, INSERT, COMMIT.  The steps of different instances   *)
(* interleave between these statements; the INSERT becomes visible with    *)
(* its COMMIT, so the two are one step.  A commit whose acknowledgement is *)
(* lost leaves the row behind and reports an error.                        *)
(*                                                                         *)
(* A hash is the sequence of decisions it covers: SHA-256 is taken to have *)
(* no collisions, and the genesis hash covers nothing.                     *)
(*                                                                         *)
(* Definitions placed just before the one they vary (CommitRetried before  *)
(* CommitUnacked) are plausible bugs; no specification uses them.          *)
(***************************************************************************)
EXTENDS Integers, Sequences, FiniteSets

CONSTANTS Instances,    \* serverless instances
          Decisions,    \* decision ids, each logged once
          Null,
          MaxRestarts   \* bound: instance restarts

ASSUME NullAssumption == Null \notin Instances /\ Null \notin Decisions
ASSUME BoundAssumption == MaxRestarts \in Nat

VARIABLES trail,     \* committed rows, in commit order
          lock,      \* holder of the advisory lock "cgc_tco_audit_trail"
          pc,        \* where each instance is in log_decision
          dec,       \* the decision it is logging
          read,      \* block number and previous hash computed from its SELECT
          total,     \* self.total_entries of each instance
          answer,    \* what log_decision said of each decision
          restarts

vars == <<trail, lock, pc, dec, read, total, answer, restarts>>

Hashes == Seq(Decisions)
Genesis == <<>>

\* _generate_block_hash: the hash of a block covers its decision and, through
\* the previous hash, every block before it.
BlockHash(d, prev) == Append(prev, d)

Blocks == [num : Nat \ {0}, dec : Decisions, prev : Hashes, hash : Hashes]
Heads == [num : Nat \ {0}, prev : Hashes]
NoHead == [num |-> 1, prev |-> Genesis]

TypeOK ==
  /\ trail \in Seq(Blocks)
  /\ lock \in Instances \cup {Null}
  /\ pc \in [Instances -> {"idle", "lock", "read", "insert"}]
  /\ dec \in [Instances -> Decisions \cup {Null}]
  /\ \A i \in Instances : pc[i] # "idle" => dec[i] \in Decisions
  /\ read \in [Instances -> Heads]
  /\ total \in [Instances -> Nat]
  /\ answer \in [Decisions -> {"new", "pending", "logged", "error", "none"}]
  /\ restarts \in 0..MaxRestarts

Init ==
  /\ trail = <<>>
  /\ lock = Null
  /\ pc = [i \in Instances |-> "idle"]
  /\ dec = [i \in Instances |-> Null]
  /\ read = [i \in Instances |-> NoHead]
  /\ total = [i \in Instances |-> 0]
  /\ answer = [d \in Decisions |-> "new"]
  /\ restarts = 0

-----------------------------------------------------------------------------
(* Reads of the table *)

Rows == {trail[k] : k \in DOMAIN trail}

Highest(rows) == CHOOSE b \in rows : \A c \in rows : c.num <= b.num

LastHashForgotten == Genesis
\* COALESCE(MAX(block_number), 0), and the block_hash of that row or genesis.
LastNum == IF Rows = {} THEN 0 ELSE Highest(Rows).num
LastHash == IF Rows = {} THEN Genesis ELSE Highest(Rows).hash

-----------------------------------------------------------------------------
(* log_decision *)

Goto(i, p) == pc' = [pc EXCEPT ![i] = p]

FinishHoldingLock(i) ==
  /\ Goto(i, "idle")
  /\ dec' = [dec EXCEPT ![i] = Null]
  /\ read' = [read EXCEPT ![i] = NoHead]
  /\ UNCHANGED lock

\* The call is over: its transaction has ended and the lock is released.
Finish(i) ==
  /\ Goto(i, "idle")
  /\ dec' = [dec EXCEPT ![i] = Null]
  /\ read' = [read EXCEPT ![i] = NoHead]
  /\ lock' = IF lock = i THEN Null ELSE lock

\* execute_governance_cycle hands a fresh decision to log_decision.
LogDecision(i, d) ==
  /\ pc[i] = "idle"
  /\ answer[d] = "new"
  /\ dec' = [dec EXCEPT ![i] = d]
  /\ answer' = [answer EXCEPT ![d] = "pending"]
  /\ Goto(i, "lock")
  /\ UNCHANGED <<trail, lock, read, total, restarts>>

Lock(i) ==
  /\ pc[i] = "lock"
  /\ lock = Null
  /\ lock' = i
  /\ Goto(i, "read")
  /\ UNCHANGED <<trail, dec, read, total, answer, restarts>>

Read(i) ==
  /\ pc[i] = "read"
  /\ read' = [read EXCEPT ![i] = [num |-> LastNum + 1, prev |-> LastHash]]
  /\ Goto(i, "insert")
  /\ UNCHANGED <<trail, lock, dec, total, answer, restarts>>

NewBlock(i) == [num |-> read[i].num, dec |-> dec[i], prev |-> read[i].prev,
                hash |-> BlockHash(dec[i], read[i].prev)]

\* INSERT and COMMIT, which the UNIQUE constraints on block_number and
\* block_hash let through only for a number and a hash not yet there.
Insert(i) ==
  /\ pc[i] = "insert"
  /\ \A b \in Rows : b.num # read[i].num /\ b.hash # NewBlock(i).hash
  /\ trail' = Append(trail, NewBlock(i))

CommitLogged(i) ==
  /\ Insert(i)
  /\ answer' = [answer EXCEPT ![dec[i]] = "logged"]
  /\ total' = [total EXCEPT ![i] = read[i].num]
  /\ Finish(i)
  /\ UNCHANGED restarts

CommitRetried(i) ==
  /\ Insert(i)
  /\ lock' = Null
  /\ Goto(i, "lock")
  /\ UNCHANGED <<dec, read, total, answer, restarts>>

\* The commit reached the server, its acknowledgement did not reach the code.
CommitUnacked(i) ==
  /\ Insert(i)
  /\ answer' = [answer EXCEPT ![dec[i]] = "error"]
  /\ Finish(i)
  /\ UNCHANGED <<total, restarts>>

\* Anything raised on the way (no connection, a lost connection, a UNIQUE
\* violation) rolls the transaction back; log_decision answers "error".
Fail(i) ==
  /\ pc[i] # "idle"
  /\ answer' = [answer EXCEPT ![dec[i]] = "error"]
  /\ Finish(i)
  /\ UNCHANGED <<trail, total, restarts>>

\* The instance is killed and another takes its place: the server rolls the
\* transaction back, nobody is answered, and TCO.__init__ counts the rows, or
\* takes 0 when the database is out of reach.
Restart(i) ==
  /\ restarts < MaxRestarts
  /\ restarts' = restarts + 1
  /\ total' \in {[total EXCEPT ![i] = Len(trail)], [total EXCEPT ![i] = 0]}
  /\ answer' = IF pc[i] = "idle" THEN answer ELSE [answer EXCEPT ![dec[i]] = "none"]
  /\ Finish(i)
  /\ UNCHANGED trail

Done ==
  /\ \A d \in Decisions : answer[d] \notin {"new", "pending"}
  /\ UNCHANGED vars

Next ==
  \/ \E i \in Instances :
       \/ \E d \in Decisions : LogDecision(i, d)
       \/ Lock(i) \/ Read(i) \/ CommitLogged(i) \/ CommitUnacked(i) \/ Fail(i) \/ Restart(i)
  \/ Done

Spec == Init /\ [][Next]_vars

\* An instance runs log_decision to the end; PostgreSQL serves the waiters of
\* an advisory lock in order, so none waits for ever.
Fairness ==
  \A i \in Instances :
    /\ WF_vars(Read(i) \/ CommitLogged(i) \/ CommitUnacked(i))
    /\ SF_vars(Lock(i))

FairSpec == Spec /\ Fairness

-----------------------------------------------------------------------------
(* verify_chain *)

Between(s, e) == {b \in Rows : s <= b.num /\ b.num <= e}

\* c is the row after b in the order of the block numbers.
Follows(b, c, rows) == b.num < c.num /\ ~ \E x \in rows : b.num < x.num /\ x.num < c.num

LinksHold(rows) == \A b, c \in rows : Follows(b, c, rows) => c.prev = b.hash

GenesisAlways(s, rows) ==
  \A b \in rows : (\A c \in rows : b.num <= c.num) => b.prev = Genesis

\* The lowest row of a range that starts at block 1 links to genesis.
GenesisHolds(s, rows) ==
  s = 1 => \A b \in rows : (\A c \in rows : b.num <= c.num) => b.prev = Genesis

\* The "verified" flag of verify_chain(s, e); no rows are verified rows.
Verified(s, e) == LinksHold(Between(s, e)) /\ GenesisHolds(s, Between(s, e))

\* The range verify_chain takes when it is given none: the last 100 blocks
\* by the instance's own count.
DefaultStart(i) == IF total[i] - 100 > 1 THEN total[i] - 100 ELSE 1

-----------------------------------------------------------------------------
(* Properties *)

\* The committed rows are numbered 1, 2, 3 ... and each links to the one
\* before it, the first to genesis: whatever instances append concurrently,
\* fail, lose an acknowledgement or die (_seal_and_store_atomic, 399-437).
ChainLinked ==
  \A k \in DOMAIN trail :
    /\ trail[k].num = k
    /\ trail[k].prev = IF k = 1 THEN Genesis ELSE trail[k - 1].hash
    /\ trail[k].hash = BlockHash(trail[k].dec, trail[k].prev)

\* What a transaction has read is still the end of the chain when it inserts,
\* so its INSERT is never refused by the UNIQUE constraints: the collision
\* the comment at 244-258 recounts cannot happen again.
ReadIsCurrent ==
  \A i \in Instances : pc[i] = "insert" =>
    read[i] = [num |-> LastNum + 1, prev |-> LastHash]

\* A decision log_decision reported "logged" has exactly one row, and no
\* decision has two (the live incident of the same comment: a normal answer
\* and no row).
LoggedIsStored ==
  /\ \A d \in Decisions : answer[d] = "logged" => \E b \in Rows : b.dec = d
  /\ \A j, k \in DOMAIN trail : trail[j].dec = trail[k].dec => j = k

\* verify_chain raises no alarm on a trail nobody touched, whatever range is
\* asked for and however stale the count of the instance that is asked.
NoFalseAlarm ==
  /\ \A s, e \in 1..Len(trail) : Verified(s, e)
  /\ \A i \in Instances : Verified(DefaultStart(i), total[i])

\* The trail implements the append-only ledger: no row is changed, moved,
\* removed or duplicated by any step, and "logged" is said only of rows.
Ledger == INSTANCE AppendOnlyLedger
            WITH Entry <- Decisions,
                 entries <- [k \in DOMAIN trail |-> trail[k].dec],
                 acked <- {d \in Decisions : answer[d] = "logged"}
ImplementsLedger == Ledger!Spec

\* Every call of log_decision ends, and is answered unless its instance dies.
LoggingEnds == \A d \in Decisions : answer[d] = "pending" ~> answer[d] # "pending"
=============================================================================
