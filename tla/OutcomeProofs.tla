----------------------------- MODULE OutcomeProofs -----------------------------
(***************************************************************************)
(* What becomes of a decision: it is signed with its tenant's keys, attested *)
(* and logged (Attestation, KeyVault), and its event is delivered or given  *)
(* up (WebhookDelivery), for all sets of tenants, requests, signatures,     *)
(* ciphertexts, deliveries and runs.                                        *)
(***************************************************************************)
EXTENDS Attestation, WebhookDelivery, FiniteSetTheorems, SequenceTheorems, WellFoundedInduction, TLAPS

USE KeyVaultAssumption, UnknownAssumption, AttestationAssumption

\* The tables b have all that a have.
Extends(a, b) ==
    /\ a.signatures \subseteq b.signatures
    /\ a.audits \subseteq b.audits /\ a.nodes \subseteq b.nodes
    /\ \A t \in Tenants : a.keys[t] <= b.keys[t]

\* What the connection sees is what is committed and what it has not committed yet.
SeenIsAhead == Extends(stored, seen)

\* A tenant in memory has its row, and has not been rotated further than it.
KnownIsStored == \A t \in Tenants : memory[t] # Unknown => memory[t].version <= stored.keys[t]

VaultInv ==
    VaultTypeOK /\ SeenIsAhead /\ KnownIsStored /\ HandedOutIsStored /\ BarredByTornCommit

------------------------------------------------------------------------------
(* The tables *)

LEMMA TablesFields ==
    ASSUME NEW a \in Tables
    PROVE  /\ a.keys \in [Tenants -> 0 .. MaxVersion]
           /\ a.signatures \in SUBSET Signatures
           /\ a.audits \in SUBSET Ciphertexts /\ a.nodes \in SUBSET Ciphertexts
           /\ \A t \in Tenants : a.keys[t] \in Nat
    BY DEF Tables

LEMMA ExtendsSelf ==
    ASSUME NEW a \in Tables
    PROVE  Extends(a, a)
    BY TablesFields DEF Extends

LEMMA ExtendsOnward ==
    ASSUME NEW a \in Tables, NEW b \in Tables, NEW c \in Tables, Extends(a, b), Extends(b, c)
    PROVE  Extends(a, c)
    BY TablesFields DEF Extends

\* A commit stores all that was seen; whatever is handed out with it is stored.
LEMMA CommitKeeps ==
    ASSUME VaultInv, NEW tables \in Tables, Extends(seen, tables), Committed(tables),
           signed' \subseteq signed \cup tables.signatures,
           encrypted' \subseteq encrypted \cup (tables.audits \cap tables.nodes)
    PROVE  /\ stored' = tables /\ seen' = tables
           /\ Extends(stored, stored') /\ SeenIsAhead' /\ HandedOutIsStored'
<1>1. stored' = tables /\ seen' = tables
    BY DEF Committed
<1>2. stored \in Tables /\ seen \in Tables
    BY DEF VaultInv, VaultTypeOK
<1>3. Extends(stored, tables)
    BY <1>2, ExtendsOnward DEF VaultInv, SeenIsAhead
<1>4. SeenIsAhead'
    BY <1>1, ExtendsSelf DEF SeenIsAhead, Extends
<1>5. HandedOutIsStored'
    BY <1>1, <1>3 DEF VaultInv, HandedOutIsStored, Extends
<1> QED
    BY <1>1, <1>3, <1>4, <1>5 DEF Extends

\* A commit that fails stores nothing and takes nothing back.
LEMMA FailureKeeps ==
    ASSUME VaultInv, NEW tables \in Tables, Extends(seen, tables), NotCommitted(tables),
           signed' = signed, encrypted' = encrypted
    PROVE  /\ stored' = stored /\ seen' \in {tables, seen, stored} /\ seen' \in Tables
           /\ SeenIsAhead' /\ HandedOutIsStored'
<1>1. stored' = stored /\ seen' \in {tables, seen, stored}
    BY DEF NotCommitted
<1>2. stored \in Tables /\ seen \in Tables
    BY DEF VaultInv, VaultTypeOK
<1>3. Extends(stored, tables) /\ Extends(stored, seen) /\ Extends(stored, stored)
    BY <1>2, ExtendsOnward, ExtendsSelf DEF VaultInv, SeenIsAhead
<1>4. Extends(stored, seen') /\ Extends(stored', seen')
    BY <1>1, <1>3 DEF Extends
<1>5. SeenIsAhead'
    BY <1>4 DEF SeenIsAhead, Extends
<1>6. HandedOutIsStored'
    BY <1>1 DEF VaultInv, HandedOutIsStored
<1> QED
    BY <1>1, <1>2, <1>5, <1>6

\* Memory and keys as they were: so is what is barred, unless a rollback lifts it.
LEMMA SameTenantsKeep ==
    ASSUME VaultInv, memory' = memory, torn' = torn, kms' = kms,
           stored' \in Tables, seen' \in Tables,
           \A t \in Tenants : stored'.keys[t] >= stored.keys[t] /\ seen'.keys[t] <= seen.keys[t],
           signed' \subseteq Signatures, encrypted' \subseteq Ciphertexts,
           SeenIsAhead', HandedOutIsStored'
    PROVE  VaultInv'
<1>1. VaultTypeOK'
    BY DEF VaultInv, VaultTypeOK
<1>2. /\ \A t \in Tenants : stored.keys[t] \in Nat /\ seen.keys[t] \in Nat
      /\ \A t \in Tenants : stored'.keys[t] \in Nat /\ seen'.keys[t] \in Nat
    BY TablesFields DEF VaultInv, VaultTypeOK
<1>3. \A t \in Tenants : memory[t] # Unknown => memory[t].version \in Nat
    BY DEF VaultInv, VaultTypeOK, Known
<1>4. KnownIsStored'
    BY <1>2, <1>3 DEF VaultInv, KnownIsStored
<1>5. BarredByTornCommit'
    BY <1>2 DEF VaultInv, BarredByTornCommit, Barred
<1> QED
    BY <1>1, <1>4, <1>5 DEF VaultInv

------------------------------------------------------------------------------
(* The operations of SCM *)

LEMMA VaultInitInv == VaultInit => VaultInv
<1> SUFFICES ASSUME VaultInit PROVE VaultInv
    OBVIOUS
<1>1. stored \in Tables /\ seen = stored /\ stored.signatures = {} /\ \A t \in Tenants : stored.keys[t] = 0
    BY DEF VaultInit, Tables
<1>2. VaultTypeOK
    BY <1>1 DEF VaultInit, VaultTypeOK, ChosenProviders, Providers
<1>3. SeenIsAhead /\ KnownIsStored /\ HandedOutIsStored /\ BarredByTornCommit
    BY <1>1, ExtendsSelf DEF VaultInit, SeenIsAhead, KnownIsStored, HandedOutIsStored,
                             BarredByTornCommit, Barred
<1> QED
    BY <1>2, <1>3 DEF VaultInv

LEMMA NewKeyType ==
    ASSUME VaultInv, NEW v \in 1 .. MaxVersion
    PROVE  NewKey(v) \in Known /\ NewKey(v).version = v /\ NewKey(v) # Unknown
<1>1. MakesFernetKeys(kms) \in BOOLEAN
    BY Zenon DEF MakesFernetKeys
<1>2. NewKey(v) = [usable |-> MakesFernetKeys(kms), version |-> v]
    BY DEF NewKey
<1>3. NewKey(v) \in Known
    BY <1>1, <1>2 DEF Known
<1> QED
    BY <1>2, <1>3

\* A registration that commits makes its tenant known; one that does not is remembered.
LEMMA RegisterKeeps ==
    ASSUME VaultInv, NEW t \in Tenants, Register(t)
    PROVE  VaultInv' /\ signed' = signed /\ torn \subseteq torn'
<1> DEFINE tables == [seen EXCEPT !.keys[t] = 1]
<1>1. /\ memory[t] = Unknown /\ seen.keys[t] = 0
      /\ kms' = kms /\ signed' = signed /\ encrypted' = encrypted
      /\ \/ /\ Committed(tables)
            /\ memory' = [memory EXCEPT ![t] = NewKey(1)]
            /\ torn' = torn
         \/ /\ NotCommitted(tables)
            /\ torn' = torn \cup {t} /\ memory' = memory
    BY DEF Register
<1>2. seen \in Tables /\ stored \in Tables /\ 1 \in 1 .. MaxVersion /\ Extends(stored, seen)
    BY DEF VaultInv, VaultTypeOK, SeenIsAhead
<1>3. /\ tables.keys = [seen.keys EXCEPT ![t] = 1]
      /\ tables.signatures = seen.signatures
      /\ tables.audits = seen.audits /\ tables.nodes = seen.nodes
      /\ tables \in Tables
    BY <1>2 DEF Tables
<1>4. /\ tables.keys[t] = 1 /\ \A u \in Tenants : u # t => tables.keys[u] = seen.keys[u]
      /\ \A u \in Tenants : seen.keys[u] \in Nat /\ stored.keys[u] \in Nat
    BY <1>2, <1>3, TablesFields
<1>5. Extends(seen, tables)
    BY <1>1, <1>3, <1>4 DEF Extends
<1> HIDE DEF tables
<1>6. CASE Committed(tables) /\ memory' = [memory EXCEPT ![t] = NewKey(1)] /\ torn' = torn
    <2>1. stored' = tables /\ seen' = tables /\ SeenIsAhead' /\ HandedOutIsStored'
        BY <1>1, <1>3, <1>5, <1>6, CommitKeeps
    <2>2. NewKey(1) \in Known /\ NewKey(1).version = 1 /\ NewKey(1) # Unknown
        BY <1>2, NewKeyType
    <2>3. /\ memory' \in [Tenants -> Known \cup {Unknown}] /\ memory'[t] = NewKey(1)
          /\ \A u \in Tenants : u # t => memory'[u] = memory[u]
        BY <1>6, <2>2 DEF VaultInv, VaultTypeOK
    <2>4. VaultTypeOK'
        BY <1>1, <1>3, <1>6, <2>1, <2>3 DEF VaultInv, VaultTypeOK
    <2>5. KnownIsStored'
        <3> SUFFICES ASSUME NEW u \in Tenants, memory'[u] # Unknown
                     PROVE  memory'[u].version <= stored'.keys[u]
            BY DEF KnownIsStored
        <3>1. CASE u = t
            BY <1>4, <2>1, <2>2, <2>3, <3>1
        <3>2. CASE u # t
            <4>1. memory[u].version <= stored.keys[u] /\ memory[u].version \in Nat
                BY <2>3, <3>2 DEF VaultInv, VaultTypeOK, KnownIsStored, Known
            <4>2. stored.keys[u] <= seen.keys[u]
                BY <1>2 DEF Extends
            <4> QED
                BY <1>4, <2>1, <2>3, <3>2, <4>1, <4>2
        <3> QED
            BY <3>1, <3>2
    <2>6. BarredByTornCommit'
        BY <1>4, <1>6, <2>1, <2>2, <2>3 DEF VaultInv, BarredByTornCommit, Barred
    <2> QED
        BY <1>1, <1>6, <2>1, <2>4, <2>5, <2>6 DEF VaultInv
<1>7. CASE NotCommitted(tables) /\ torn' = torn \cup {t} /\ memory' = memory
    <2>1. /\ stored' = stored /\ seen' \in {tables, seen, stored} /\ seen' \in Tables
          /\ SeenIsAhead' /\ HandedOutIsStored'
        BY <1>1, <1>3, <1>5, <1>7, FailureKeeps
    <2>2. VaultTypeOK'
        BY <1>1, <1>7, <2>1 DEF VaultInv, VaultTypeOK
    <2>3. KnownIsStored'
        BY <1>7, <2>1 DEF VaultInv, KnownIsStored
    <2>4. BarredByTornCommit'
        <3> SUFFICES ASSUME NEW u \in Tenants, u # t, memory'[u] = Unknown, seen'.keys[u] > 0
                     PROVE  u \in torn
            BY <1>7 DEF BarredByTornCommit, Barred
        <3>1. stored.keys[u] <= seen.keys[u]
            BY <1>2 DEF Extends
        <3>2. seen.keys[u] > 0
            BY <1>4, <2>1, <3>1
        <3> QED
            BY <1>7, <3>2 DEF VaultInv, BarredByTornCommit, Barred
    <2> QED
        BY <1>1, <1>7, <2>1, <2>2, <2>3, <2>4 DEF VaultInv
<1> QED
    BY <1>1, <1>6, <1>7

\* A rotation counts the row and the key in memory together, or neither.
LEMMA RotateKeeps ==
    ASSUME VaultInv, NEW t \in Tenants, Rotate(t)
    PROVE  VaultInv' /\ signed' = signed
<1> DEFINE tables == [seen EXCEPT !.keys[t] = seen.keys[t] + 1]
<1>1. /\ memory[t] # Unknown /\ seen.keys[t] < MaxVersion
      /\ kms' = kms /\ signed' = signed /\ encrypted' = encrypted /\ torn' = torn
      /\ \/ /\ Committed(tables)
            /\ memory' = [memory EXCEPT ![t] = NewKey(memory[t].version + 1)]
         \/ NotCommitted(tables) /\ memory' = memory
    BY DEF Rotate
<1>2. seen \in Tables /\ stored \in Tables /\ Extends(stored, seen)
    BY DEF VaultInv, VaultTypeOK, SeenIsAhead
<1>3. seen.keys \in [Tenants -> 0 .. MaxVersion] /\ stored.keys \in [Tenants -> 0 .. MaxVersion]
    BY <1>2, TablesFields
<1>4. /\ tables.keys = [seen.keys EXCEPT ![t] = seen.keys[t] + 1]
      /\ tables.signatures = seen.signatures
      /\ tables.audits = seen.audits /\ tables.nodes = seen.nodes
    BY <1>2 DEF Tables
<1>5. tables \in Tables
    <2>1. seen.keys[t] + 1 \in 0 .. MaxVersion
        BY <1>1, <1>3
    <2>2. [seen.keys EXCEPT ![t] = seen.keys[t] + 1] \in [Tenants -> 0 .. MaxVersion]
        BY <1>3, <2>1
    <2> QED
        BY <1>2, <2>2 DEF Tables
<1>6. tables.keys[t] = seen.keys[t] + 1 /\ \A u \in Tenants : u # t => tables.keys[u] = seen.keys[u]
    BY <1>3, <1>4
<1>7. Extends(seen, tables)
    BY <1>3, <1>4, <1>6 DEF Extends
<1> HIDE DEF tables
<1>8. /\ memory[t] \in Known /\ memory[t].version \in 1 .. MaxVersion
      /\ memory[t].version <= stored.keys[t] /\ stored.keys[t] <= seen.keys[t]
    BY <1>1, <1>2 DEF VaultInv, VaultTypeOK, KnownIsStored, Known, Extends
<1>9. CASE Committed(tables) /\ memory' = [memory EXCEPT ![t] = NewKey(memory[t].version + 1)]
    <2>1. stored' = tables /\ seen' = tables /\ SeenIsAhead' /\ HandedOutIsStored'
        BY <1>1, <1>5, <1>7, <1>9, CommitKeeps
    <2> DEFINE v == memory[t].version + 1
    <2>2. v \in 1 .. MaxVersion /\ v <= seen.keys[t] + 1
        BY <1>1, <1>3, <1>8
    <2>3. NewKey(v) \in Known /\ NewKey(v).version = v /\ NewKey(v) # Unknown
        BY <2>2, NewKeyType
    <2>4. /\ memory' \in [Tenants -> Known \cup {Unknown}] /\ memory'[t] = NewKey(v)
          /\ \A u \in Tenants : u # t => memory'[u] = memory[u]
        BY <1>9, <2>3 DEF VaultInv, VaultTypeOK
    <2>5. VaultTypeOK'
        BY <1>1, <1>5, <2>1, <2>4 DEF VaultInv, VaultTypeOK
    <2>6. KnownIsStored'
        <3> SUFFICES ASSUME NEW u \in Tenants, memory'[u] # Unknown
                     PROVE  memory'[u].version <= stored'.keys[u]
            BY DEF KnownIsStored
        <3>1. CASE u = t
            BY <1>6, <2>1, <2>2, <2>3, <2>4, <3>1
        <3>2. CASE u # t
            <4>1. memory[u].version <= stored.keys[u] /\ memory[u].version \in Nat
                BY <2>4, <3>2 DEF VaultInv, VaultTypeOK, KnownIsStored, Known
            <4>2. stored.keys[u] <= seen.keys[u]
                BY <1>2 DEF Extends
            <4> QED
                BY <1>3, <1>6, <2>1, <2>4, <3>2, <4>1, <4>2
        <3> QED
            BY <3>1, <3>2
    <2>7. BarredByTornCommit'
        BY <1>1, <1>6, <2>1, <2>3, <2>4 DEF VaultInv, BarredByTornCommit, Barred
    <2> QED
        BY <1>1, <2>1, <2>5, <2>6, <2>7 DEF VaultInv
<1>10. CASE NotCommitted(tables) /\ memory' = memory
    <2>1. /\ stored' = stored /\ seen' \in {tables, seen, stored} /\ seen' \in Tables
          /\ SeenIsAhead' /\ HandedOutIsStored'
        BY <1>1, <1>5, <1>7, <1>10, FailureKeeps
    <2>2. VaultTypeOK'
        BY <1>1, <1>10, <2>1 DEF VaultInv, VaultTypeOK
    <2>3. KnownIsStored'
        BY <1>10, <2>1 DEF VaultInv, KnownIsStored
    <2>4. BarredByTornCommit'
        <3> SUFFICES ASSUME NEW u \in Tenants, memory'[u] = Unknown, seen'.keys[u] > 0
                     PROVE  u \in torn
            BY <1>1 DEF BarredByTornCommit, Barred
        <3>1. u # t /\ stored.keys[u] <= seen.keys[u]
            BY <1>1, <1>2, <1>10 DEF Extends
        <3>2. seen.keys[u] > 0
            BY <1>3, <1>6, <2>1, <3>1
        <3> QED
            BY <1>10, <3>2 DEF VaultInv, BarredByTornCommit, Barred
    <2> QED
        BY <1>1, <2>1, <2>2, <2>3, <2>4 DEF VaultInv
<1> QED
    BY <1>1, <1>9, <1>10

\* A signature is handed out with its record.
LEMMA SignKeeps ==
    ASSUME VaultInv, NEW t \in Tenants, NEW s \in Signatures, Sign(t, s),
           UNCHANGED <<kms, memory, encrypted, torn>>
    PROVE  VaultInv' /\ signed' = signed \cup {s}
<1> DEFINE tables == [seen EXCEPT !.signatures = seen.signatures \cup {s}]
<1>1. signed' = signed \cup {s} /\ Committed(tables)
    BY DEF Sign
<1>2. seen \in Tables /\ stored \in Tables /\ Extends(stored, seen)
    BY DEF VaultInv, VaultTypeOK, SeenIsAhead
<1>3. /\ tables.keys = seen.keys /\ tables.signatures = seen.signatures \cup {s}
      /\ tables.audits = seen.audits /\ tables.nodes = seen.nodes /\ tables \in Tables
    BY <1>2 DEF Tables
<1>4. Extends(seen, tables)
    BY <1>2, <1>3, TablesFields DEF Extends
<1> HIDE DEF tables
<1>5. stored' = tables /\ seen' = tables /\ Extends(stored, stored') /\ SeenIsAhead' /\ HandedOutIsStored'
    BY <1>1, <1>3, <1>4, CommitKeeps
<1>6. /\ \A u \in Tenants : stored'.keys[u] >= stored.keys[u] /\ seen'.keys[u] <= seen.keys[u]
      /\ signed' \subseteq Signatures /\ encrypted' \subseteq Ciphertexts
    BY <1>1, <1>2, <1>3, <1>5, TablesFields DEF Extends, VaultInv, VaultTypeOK
<1> QED
    BY <1>1, <1>3, <1>5, <1>6, SameTenantsKeep

\* What was seen is stored, or stays as uncommitted as it was, or is rolled back.
LEMMA PlainCommitKeeps ==
    ASSUME VaultInv, Committed(seen) \/ NotCommitted(seen),
           UNCHANGED <<kms, memory, signed, encrypted, torn>>
    PROVE  VaultInv'
<1>1. seen \in Tables /\ stored \in Tables /\ Extends(stored, seen) /\ Extends(seen, seen)
    BY ExtendsSelf DEF VaultInv, VaultTypeOK, SeenIsAhead
<1>2. /\ stored' \in {stored, seen} /\ seen' \in {stored, seen}
      /\ SeenIsAhead' /\ HandedOutIsStored'
    BY <1>1, CommitKeeps, FailureKeeps
<1>3. /\ \A u \in Tenants : stored'.keys[u] >= stored.keys[u] /\ seen'.keys[u] <= seen.keys[u]
      /\ signed' \subseteq Signatures /\ encrypted' \subseteq Ciphertexts
    BY <1>1, <1>2, TablesFields DEF Extends, VaultInv, VaultTypeOK
<1> QED
    BY <1>1, <1>2, <1>3, SameTenantsKeep

\* A ciphertext is handed out with its audit record and its node.
LEMMA EncryptKeeps ==
    ASSUME VaultInv, NEW t \in Tenants, NEW c \in Ciphertexts, Encrypt(t, c)
    PROVE  VaultInv' /\ signed' = signed
<1> DEFINE tables == [seen EXCEPT !.audits = seen.audits \cup {c}, !.nodes = seen.nodes \cup {c}]
<1>1. /\ encrypted' = encrypted \cup {c} /\ Committed(tables)
      /\ UNCHANGED <<kms, memory, signed, torn>>
    BY DEF Encrypt
<1>2. seen \in Tables /\ stored \in Tables /\ Extends(stored, seen)
    BY DEF VaultInv, VaultTypeOK, SeenIsAhead
<1>3. /\ tables.keys = seen.keys /\ tables.signatures = seen.signatures
      /\ tables.audits = seen.audits \cup {c} /\ tables.nodes = seen.nodes \cup {c}
      /\ tables \in Tables
    BY <1>2 DEF Tables
<1>4. Extends(seen, tables)
    BY <1>2, <1>3, TablesFields DEF Extends
<1> HIDE DEF tables
<1>5. stored' = tables /\ seen' = tables /\ Extends(stored, stored') /\ SeenIsAhead' /\ HandedOutIsStored'
    BY <1>1, <1>3, <1>4, CommitKeeps
<1>6. /\ \A u \in Tenants : stored'.keys[u] >= stored.keys[u] /\ seen'.keys[u] <= seen.keys[u]
      /\ signed' \subseteq Signatures /\ encrypted' \subseteq Ciphertexts
    BY <1>1, <1>2, <1>3, <1>5, TablesFields DEF Extends, VaultInv, VaultTypeOK
<1> QED
    BY <1>1, <1>3, <1>5, <1>6, SameTenantsKeep

\* The process starts again with what is stored, and bars nobody.
LEMMA RestartKeeps ==
    ASSUME VaultInv, Restart
    PROVE  VaultInv' /\ signed' = signed
<1>1. /\ kms' \in ChosenProviders /\ stored' = stored /\ seen' = stored /\ torn' = {}
      /\ memory' = [t \in Tenants |-> IF stored.keys[t] = 0 THEN Unknown
                                      ELSE [usable |-> FALSE, version |-> 1]]
      /\ signed' = signed /\ encrypted' = encrypted
    BY DEF Restart, LoadedKeys
<1>2. stored \in Tables
    BY DEF VaultInv, VaultTypeOK
<1>3. \A t \in Tenants : stored.keys[t] \in Nat
    BY <1>2, TablesFields
<1>4. [usable |-> FALSE, version |-> 1] \in Known
    BY DEF Known
<1>5. VaultTypeOK'
    BY <1>1, <1>2, <1>4 DEF VaultInv, VaultTypeOK, ChosenProviders, Providers
<1>6. SeenIsAhead'
    BY <1>1, <1>2, ExtendsSelf DEF SeenIsAhead, Extends
<1>7. KnownIsStored'
    BY <1>1, <1>3 DEF KnownIsStored
<1>8. HandedOutIsStored'
    BY <1>1 DEF VaultInv, HandedOutIsStored
<1>9. BarredByTornCommit'
    <2> SUFFICES ASSUME NEW t \in Tenants PROVE ~ Barred(t)'
        BY DEF BarredByTornCommit
    <2>1. stored.keys[t] > 0 => memory'[t] = [usable |-> FALSE, version |-> 1]
        BY <1>1, <1>3
    <2>2. stored.keys[t] > 0 => memory'[t] # Unknown
        BY <1>4, <2>1
    <2> QED
        BY <1>1, <2>2 DEF Barred
<1> QED
    BY <1>1, <1>5, <1>6, <1>7, <1>8, <1>9 DEF VaultInv

\* Whatever SCM's callers do keeps its records, and takes no signature back.
LEMMA VaultNextKeeps ==
    ASSUME VaultInv, VaultNext
    PROVE  VaultInv' /\ signed \subseteq signed'
<1>1. ASSUME NEW t \in Tenants, Register(t) \/ Rotate(t) \/ EncryptRaises(t)
                                \/ \E c \in Ciphertexts : Encrypt(t, c)
      PROVE  VaultInv' /\ signed \subseteq signed'
    BY <1>1, RegisterKeeps, RotateKeeps, PlainCommitKeeps, EncryptKeeps DEF EncryptRaises
<1>2. ASSUME NEW t \in Tenants, SignRaises(t) \/ \E s \in Signatures : Sign(t, s),
             UNCHANGED <<kms, memory, encrypted, torn>>
      PROVE  VaultInv' /\ signed \subseteq signed'
    BY <1>2, PlainCommitKeeps, SignKeeps DEF SignRaises
<1>3. ASSUME NEW s \in Signatures, VerifySignature(s)
      PROVE  VaultInv' /\ signed \subseteq signed'
    BY <1>3, PlainCommitKeeps DEF VerifySignature
<1> QED
    BY <1>1, <1>2, <1>3 DEF VaultNext

------------------------------------------------------------------------------
(***************************************************************************)
(* The end of the cycle.  Its steps come in the order of pc, and what each   *)
(* leaves on the request is never undone; a profile holds evaluations of    *)
(* its own industry only, and loses one for good to the next.               *)
(***************************************************************************)

\* A signature on a request was handed out by SCM.
Handed == \A r \in Requests : request[r].signature # None => request[r].signature \in signed

SignedBefore == \A r \in Requests : request[r].pc = "evaluate" => request[r].signature # None

\* Signed, and evaluated with no requirement failed.
Attested(r) ==
    /\ request[r].signature # None
    /\ request[r].counts[1] > 0 /\ request[r].counts[2] = 0

AttestedBefore ==
    \A r \in Requests : request[r].pc \in {"report", "log"} \/ r \in logged => Attested(r)

ProfilesHoldTheirOwn ==
    \A i \in Profiles : profile[i] # None => ProfileOf(request[profile[i]].industry) = i

ToldOfItsProfile == \A r \in Requests : request[r].told # None => SameProfile(request[r].told, r)

\* A request told of another's evaluation has been evaluated, and its own is gone.
OverwrittenForGood ==
    \A r \in Requests : request[r].told \notin {r, None} =>
        /\ request[r].pc \notin {"new", "sign", "evaluate"}
        /\ Evaluation(r) # r

EndTypeOK ==
    /\ request \in [Requests -> Request]
    /\ profile \in [Profiles -> Requests \cup {None}]
    /\ logged \subseteq Requests

EndInv ==
    /\ EndTypeOK
    /\ Handed /\ SignedBefore /\ AttestedBefore
    /\ ProfilesHoldTheirOwn /\ ToldOfItsProfile /\ OverwrittenForGood

Inv == VaultInv /\ EndInv

LEMMA RequestFields ==
    ASSUME NEW q \in Request
    PROVE  /\ q.pc \in Steps /\ q.tenant \in Tenants
           /\ q.industry \in {s.industry : s \in Submissions}
           /\ q.signature \in Signatures \cup {None}
           /\ q.counts \in Nat \X Nat \X Nat
           /\ q.told \in Requests \cup {None}
    BY DEF Request

LEMMA ProfileOfType == \A industry : ProfileOf(industry) \in Profiles
    BY DEF ProfileOf, Profiles

LEMMA RequirementsFinite == IsFiniteSet(Requirements)
<1>1. \A S, x : IsFiniteSet(S) => IsFiniteSet(S \cup {x})
    BY FS_AddElement
<1>2. Requirements = (((((({} \cup {"data_representative"}) \cup {"transparency"})
          \cup {"human_oversight"}) \cup {"cybersecurity"}) \cup {"performance_logs"})
          \cup {"ce_marking"}) \cup {"system_registry"}
    BY DEF Requirements
<1> QED
    BY <1>1, <1>2, FS_EmptySet

LEMMA CountType == \A q, status : Count(q, status) \in Nat
<1> SUFFICES ASSUME NEW q, NEW status PROVE Count(q, status) \in Nat
    OBVIOUS
<1> DEFINE S == {p \in Requirements : Status(q, p) = status}
<1>1. S \subseteq Requirements
    OBVIOUS
<1> HIDE DEF S
<1>2. IsFiniteSet(S)
    BY <1>1, RequirementsFinite, FS_Subset
<1>3. Cardinality(S) \in Nat
    BY <1>2, FS_CardinalityType
<1>4. Cardinality({p \in Requirements : Status(q, p) = status}) \in Nat
    BY <1>3 DEF S
<1> QED
    BY <1>4 DEF Count

\* A signed decision meets every requirement that is not left to a person.
LEMMA SummaryOfSigned ==
    ASSUME NEW q, q.signature # None
    PROVE  /\ Summary(q) \in Nat \X Nat \X Nat
           /\ Summary(q)[1] > 0 /\ Summary(q)[2] = 0
<1>1. Count(q, "PASS") \in Nat /\ Count(q, "FAIL") \in Nat /\ Count(q, "MANUAL") \in Nat
    BY CountType
<1>2. Count(q, "FAIL") = 0
    <2>1. \A p \in Requirements : Status(q, p) # "FAIL"
        BY DEF Requirements, Status
    <2>2. {p \in Requirements : Status(q, p) = "FAIL"} = {}
        BY <2>1
    <2>3. Cardinality({}) = 0
        BY FS_EmptySet
    <2> QED
        BY <2>2, <2>3 DEF Count
<1>3. Count(q, "PASS") # 0
    <2> DEFINE S == {p \in Requirements : Status(q, p) = "PASS"}
    <2>1. "transparency" \in S
        BY DEF Requirements, Status
    <2>2. S \subseteq Requirements
        OBVIOUS
    <2>3. Count(q, "PASS") = Cardinality(S)
        BY DEF Count
    <2> HIDE DEF S
    <2>4. IsFiniteSet(S)
        BY <2>2, RequirementsFinite, FS_Subset
    <2>5. Cardinality(S) # 0
        BY <2>1, <2>4, FS_EmptySet
    <2> QED
        BY <2>3, <2>5
<1>4. Summary(q) = <<Count(q, "PASS"), Count(q, "FAIL"), Count(q, "MANUAL")>>
    BY DEF Summary
<1> QED
    BY <1>1, <1>2, <1>3, <1>4

\* A step that only moves a request on: it moves to the report and to the trail once it
\* is attested, and never back before its evaluation.
LEMMA GotoKeeps ==
    ASSUME EndInv, NEW r \in Requests, NEW step \in Steps, Goto(r, step),
           step # "new", step # "evaluate", step = "sign" => request[r].pc \in {"new", "sign"},
           profile' = profile, signed \subseteq signed',
           logged \subseteq logged', logged' \subseteq logged \cup {r},
           step \in {"report", "log"} \/ r \in logged' => Attested(r)
    PROVE  EndInv'
<1>1. /\ request' = [request EXCEPT ![r].pc = step] /\ request \in [Requests -> Request]
      /\ request[r] \in Request
    BY DEF Goto, EndInv, EndTypeOK
<1>2. /\ request'[r] = [request[r] EXCEPT !.pc = step]
      /\ \A q \in Requests : q # r => request'[q] = request[q]
    BY <1>1
<1>3. /\ request'[r].pc = step /\ request'[r].signature = request[r].signature
      /\ request'[r].industry = request[r].industry /\ request'[r].told = request[r].told
      /\ request'[r].counts = request[r].counts /\ request'[r] \in Request
    BY <1>1, <1>2 DEF Request
<1>4. request' \in [Requests -> Request]
    BY <1>1, <1>3
<1>5. /\ \A q \in Requests : /\ request'[q].signature = request[q].signature
                             /\ request'[q].industry = request[q].industry
                             /\ request'[q].told = request[q].told
                             /\ request'[q].counts = request[q].counts
      /\ \A q \in Requests : q # r => request'[q].pc = request[q].pc
    BY <1>2, <1>3
<1> HIDE DEF Steps
<1>6. EndTypeOK'
    BY <1>4 DEF EndInv, EndTypeOK
<1>7. Handed' /\ SignedBefore'
    BY <1>3, <1>5 DEF EndInv, Handed, SignedBefore
<1>8. AttestedBefore'
    BY <1>3, <1>5 DEF EndInv, AttestedBefore, Attested
<1>9. ProfilesHoldTheirOwn'
    BY <1>5 DEF EndInv, EndTypeOK, ProfilesHoldTheirOwn
<1>10. ToldOfItsProfile'
    <2> SUFFICES ASSUME NEW q \in Requests, request'[q].told # None
                 PROVE  ProfileOf(request'[request'[q].told].industry) = ProfileOf(request'[q].industry)
        BY DEF ToldOfItsProfile, SameProfile, ProfileOf
    <2>1. request[q].told \in Requests /\ request'[q].told = request[q].told /\ SameProfile(request[q].told, q)
        BY <1>1, <1>5, RequestFields DEF EndInv, ToldOfItsProfile
    <2> QED
        BY <1>5, <2>1 DEF SameProfile
<1>11. OverwrittenForGood'
    BY <1>3, <1>5 DEF EndInv, OverwrittenForGood, Evaluation
<1> QED
    BY <1>6, <1>7, <1>8, <1>9, <1>10, <1>11 DEF EndInv

\* What a request is told of is the evaluation its profile holds then.
LEMMA TellKeeps ==
    ASSUME EndInv, NEW r \in Requests, NEW next \in {"post", "answer", "answered"},
           Tell(r, next, Evaluation(r)), UNCHANGED <<profile, logged>>, signed \subseteq signed'
    PROVE  EndInv'
<1> DEFINE v == Evaluation(r)
<1>1. /\ request' = [request EXCEPT ![r].pc = next, ![r].told = v] /\ request \in [Requests -> Request]
      /\ request[r] \in Request
    BY DEF Tell, EndInv, EndTypeOK
<1>2. /\ v \in Requests \cup {None}
      /\ v # None => ProfileOf(request[v].industry) = ProfileOf(request[r].industry)
    BY ProfileOfType DEF Evaluation, EndInv, EndTypeOK, ProfilesHoldTheirOwn
<1>3. /\ request'[r] = [request[r] EXCEPT !.pc = next, !.told = v]
      /\ \A q \in Requests : q # r => request'[q] = request[q]
    BY <1>1
<1>4. v = profile[ProfileOf(request[r].industry)]
    BY DEF Evaluation
<1> HIDE DEF v
<1>5. /\ request'[r].pc = next /\ request'[r].signature = request[r].signature
      /\ request'[r].industry = request[r].industry /\ request'[r].told = v
      /\ request'[r].counts = request[r].counts /\ request'[r] \in Request
    BY <1>1, <1>2, <1>3 DEF Request, Steps
<1>6. request' \in [Requests -> Request]
    BY <1>1, <1>5
<1>7. /\ \A q \in Requests : /\ request'[q].signature = request[q].signature
                             /\ request'[q].industry = request[q].industry
                             /\ request'[q].counts = request[q].counts
      /\ \A q \in Requests : q # r => /\ request'[q].pc = request[q].pc
                                      /\ request'[q].told = request[q].told
    BY <1>3, <1>5
<1>8. EndTypeOK'
    BY <1>6 DEF EndInv, EndTypeOK
<1>9. Handed' /\ SignedBefore'
    BY <1>5, <1>7 DEF EndInv, Handed, SignedBefore
<1>10. AttestedBefore'
    BY <1>5, <1>7 DEF EndInv, AttestedBefore, Attested
<1>11. ProfilesHoldTheirOwn'
    BY <1>7 DEF EndInv, EndTypeOK, ProfilesHoldTheirOwn
<1>12. ToldOfItsProfile'
    <2> SUFFICES ASSUME NEW q \in Requests, request'[q].told # None
                 PROVE  ProfileOf(request'[request'[q].told].industry) = ProfileOf(request'[q].industry)
        BY DEF ToldOfItsProfile, SameProfile, ProfileOf
    <2>1. CASE q = r
        BY <1>2, <1>5, <1>7, <2>1 DEF SameProfile
    <2>2. CASE q # r
        <3>1. request[q].told \in Requests /\ request'[q].told = request[q].told /\ SameProfile(request[q].told, q)
            BY <1>1, <1>7, <2>2, RequestFields DEF EndInv, ToldOfItsProfile
        <3> QED
            BY <1>7, <3>1 DEF SameProfile
    <2> QED
        BY <2>1, <2>2
<1>13. OverwrittenForGood'
    <2> SUFFICES ASSUME NEW q \in Requests, request'[q].told \notin {q, None}
                 PROVE  /\ request'[q].pc \notin {"new", "sign", "evaluate"}
                        /\ profile[ProfileOf(request[q].industry)] # q
        BY <1>7 DEF OverwrittenForGood, Evaluation
    <2>1. CASE q = r
        BY <1>4, <1>5, <2>1
    <2>2. CASE q # r
        BY <1>7, <2>2 DEF EndInv, OverwrittenForGood, Evaluation
    <2> QED
        BY <2>1, <2>2
<1> QED
    BY <1>8, <1>9, <1>10, <1>11, <1>12, <1>13 DEF EndInv

LEMMA SignArtifactKeeps ==
    ASSUME EndInv, NEW r \in Requests, NEW s \in Signatures, SignArtifact(r, s),
           signed' = signed \cup {s}
    PROVE  EndInv'
<1>1. /\ request[r].pc = "sign" /\ profile' = profile /\ logged' = logged
      /\ request' = [request EXCEPT ![r].pc = "evaluate", ![r].signature = s]
      /\ request \in [Requests -> Request] /\ request[r] \in Request
    BY DEF SignArtifact, EndInv, EndTypeOK
<1>2. /\ request'[r] = [request[r] EXCEPT !.pc = "evaluate", !.signature = s]
      /\ \A q \in Requests : q # r => request'[q] = request[q]
    BY <1>1
<1>3. /\ request'[r].pc = "evaluate" /\ request'[r].signature = s
      /\ request'[r].industry = request[r].industry /\ request'[r].told = request[r].told
      /\ request'[r].counts = request[r].counts /\ request'[r] \in Request /\ s # None
    BY <1>1, <1>2 DEF Request, Steps
<1>4. request' \in [Requests -> Request]
    BY <1>1, <1>3
<1>5. /\ \A q \in Requests : /\ request'[q].industry = request[q].industry
                             /\ request'[q].told = request[q].told
                             /\ request'[q].counts = request[q].counts
      /\ \A q \in Requests : q # r => /\ request'[q].pc = request[q].pc
                                      /\ request'[q].signature = request[q].signature
    BY <1>2, <1>3
<1>6. EndTypeOK'
    BY <1>1, <1>4 DEF EndInv, EndTypeOK
<1>7. Handed' /\ SignedBefore'
    BY <1>3, <1>5 DEF EndInv, Handed, SignedBefore
<1>8. AttestedBefore'
    BY <1>1, <1>3, <1>5 DEF EndInv, AttestedBefore, Attested
<1>9. ProfilesHoldTheirOwn'
    BY <1>1, <1>5 DEF EndInv, EndTypeOK, ProfilesHoldTheirOwn
<1>10. ToldOfItsProfile'
    <2> SUFFICES ASSUME NEW q \in Requests, request'[q].told # None
                 PROVE  ProfileOf(request'[request'[q].told].industry) = ProfileOf(request'[q].industry)
        BY DEF ToldOfItsProfile, SameProfile, ProfileOf
    <2>1. request[q].told \in Requests /\ request'[q].told = request[q].told /\ SameProfile(request[q].told, q)
        BY <1>1, <1>5, RequestFields DEF EndInv, ToldOfItsProfile
    <2> QED
        BY <1>5, <2>1 DEF SameProfile
<1>11. OverwrittenForGood'
    BY <1>1, <1>3, <1>5 DEF EndInv, OverwrittenForGood, Evaluation
<1> QED
    BY <1>6, <1>7, <1>8, <1>9, <1>10, <1>11 DEF EndInv

\* The evaluation replaces the one its profile held.
LEMMA EvaluateKeeps ==
    ASSUME EndInv, NEW r \in Requests, Evaluate(r), signed' = signed
    PROVE  EndInv'
<1> DEFINE counts == Summary(request[r])
           mine == ProfileOf(request[r].industry)
<1>1. /\ request[r].pc = "evaluate" /\ logged' = logged
      /\ request' = [request EXCEPT ![r].pc = "report", ![r].counts = counts]
      /\ profile' = [profile EXCEPT ![mine] = r]
      /\ request \in [Requests -> Request] /\ request[r] \in Request
      /\ profile \in [Profiles -> Requests \cup {None}]
    BY DEF Evaluate, EndInv, EndTypeOK
<1>2. request[r].signature # None
    BY <1>1 DEF EndInv, SignedBefore
<1>3. counts \in Nat \X Nat \X Nat /\ counts[1] > 0 /\ counts[2] = 0
    BY <1>2, SummaryOfSigned
<1>4. mine \in Profiles /\ mine = ProfileOf(request[r].industry)
    BY ProfileOfType
<1> HIDE DEF counts, mine
<1>5. /\ request'[r] = [request[r] EXCEPT !.pc = "report", !.counts = counts]
      /\ \A q \in Requests : q # r => request'[q] = request[q]
    BY <1>1
<1>6. /\ request'[r].pc = "report" /\ request'[r].signature = request[r].signature
      /\ request'[r].industry = request[r].industry /\ request'[r].told = request[r].told
      /\ request'[r].counts = counts /\ request'[r] \in Request
    BY <1>1, <1>3, <1>5 DEF Request, Steps
<1>7. request' \in [Requests -> Request]
    BY <1>1, <1>6
<1>8. /\ \A q \in Requests : /\ request'[q].industry = request[q].industry
                             /\ request'[q].told = request[q].told
                             /\ request'[q].signature = request[q].signature
      /\ \A q \in Requests : q # r => /\ request'[q].pc = request[q].pc
                                      /\ request'[q].counts = request[q].counts
    BY <1>5, <1>6
<1>9. /\ profile' \in [Profiles -> Requests \cup {None}] /\ profile'[mine] = r
      /\ \A i \in Profiles : i # mine => profile'[i] = profile[i]
    BY <1>1, <1>4
<1>10. EndTypeOK'
    BY <1>1, <1>7, <1>9 DEF EndInv, EndTypeOK
<1>11. Handed' /\ SignedBefore'
    BY <1>6, <1>8 DEF EndInv, Handed, SignedBefore
<1>12. AttestedBefore'
    BY <1>1, <1>2, <1>3, <1>6, <1>8 DEF EndInv, AttestedBefore, Attested
<1>13. ProfilesHoldTheirOwn'
    <2> SUFFICES ASSUME NEW i \in Profiles, profile'[i] # None
                 PROVE  ProfileOf(request'[profile'[i]].industry) = i
        BY DEF ProfilesHoldTheirOwn, ProfileOf
    <2>1. CASE i = mine
        BY <1>4, <1>6, <1>9, <2>1
    <2>2. CASE i # mine
        BY <1>1, <1>8, <1>9, <2>2 DEF EndInv, ProfilesHoldTheirOwn
    <2> QED
        BY <2>1, <2>2
<1>14. ToldOfItsProfile'
    <2> SUFFICES ASSUME NEW q \in Requests, request'[q].told # None
                 PROVE  ProfileOf(request'[request'[q].told].industry) = ProfileOf(request'[q].industry)
        BY DEF ToldOfItsProfile, SameProfile, ProfileOf
    <2>1. request[q].told \in Requests /\ request'[q].told = request[q].told /\ SameProfile(request[q].told, q)
        BY <1>1, <1>8, RequestFields DEF EndInv, ToldOfItsProfile
    <2> QED
        BY <1>8, <2>1 DEF SameProfile
<1>15. OverwrittenForGood'
    <2> SUFFICES ASSUME NEW q \in Requests, request'[q].told \notin {q, None}
                 PROVE  /\ request'[q].pc \notin {"new", "sign", "evaluate"}
                        /\ profile'[ProfileOf(request[q].industry)] # q
        BY <1>8 DEF OverwrittenForGood, Evaluation, ProfileOf
    <2>1. /\ request[q].pc \notin {"new", "sign", "evaluate"} /\ q # r
          /\ profile[ProfileOf(request[q].industry)] # q
        BY <1>1, <1>8 DEF EndInv, OverwrittenForGood, Evaluation
    <2>2. ProfileOf(request[q].industry) \in Profiles
        BY ProfileOfType
    <2> QED
        BY <1>8, <1>9, <2>1, <2>2
<1> QED
    BY <1>10, <1>11, <1>12, <1>13, <1>14, <1>15 DEF EndInv

\* The profiles are lost, and with them the requests that were under way.
LEMMA CrashKeeps ==
    ASSUME EndInv, Crash, signed' = signed
    PROVE  EndInv'
<1>1. /\ logged' = logged /\ profile' = [i \in Profiles |-> None]
      /\ request' = [r \in Requests |->
             IF request[r].pc \in {"new", "answered"} THEN request[r]
             ELSE [request[r] EXCEPT !.pc = "error", !.told = None]]
      /\ request \in [Requests -> Request]
    BY DEF Crash, EndInv, EndTypeOK
<1>2. ASSUME NEW q \in Requests
      PROVE  /\ request'[q] \in Request /\ request'[q].signature = request[q].signature
             /\ request'[q].industry = request[q].industry
             /\ request'[q].counts = request[q].counts
             /\ \/ (request'[q].pc = request[q].pc /\ request[q].pc \in {"new", "answered"})
                \/ request'[q].pc = "error"
             /\ \/ (request'[q].told = request[q].told /\ request'[q].pc = request[q].pc)
                \/ request'[q].told = None
    <2>1. request[q] \in Request
        BY <1>1
    <2>2. CASE request[q].pc \in {"new", "answered"}
        BY <1>1, <2>1, <2>2
    <2>3. CASE request[q].pc \notin {"new", "answered"}
        <3>1. request'[q] = [request[q] EXCEPT !.pc = "error", !.told = None]
            BY <1>1, <2>3
        <3> QED
            BY <2>1, <3>1 DEF Request, Steps
    <2> QED
        BY <2>2, <2>3
<1>3. EndTypeOK'
    <2>1. request' \in [Requests -> Request]
        BY <1>1, <1>2
    <2> QED
        BY <1>1, <2>1 DEF EndInv, EndTypeOK
<1>4. Handed' /\ SignedBefore'
    BY <1>2 DEF EndInv, Handed, SignedBefore
<1>5. AttestedBefore'
    BY <1>1, <1>2 DEF EndInv, AttestedBefore, Attested
<1>6. ProfilesHoldTheirOwn'
    BY <1>1 DEF ProfilesHoldTheirOwn
<1>7. ToldOfItsProfile'
    <2> SUFFICES ASSUME NEW q \in Requests, request'[q].told # None
                 PROVE  ProfileOf(request'[request'[q].told].industry) = ProfileOf(request'[q].industry)
        BY DEF ToldOfItsProfile, SameProfile, ProfileOf
    <2>1. request[q].told \in Requests /\ request'[q].told = request[q].told /\ SameProfile(request[q].told, q)
        BY <1>1, <1>2, RequestFields DEF EndInv, ToldOfItsProfile
    <2> QED
        BY <1>2, <2>1 DEF SameProfile
<1>8. OverwrittenForGood'
    <2> SUFFICES ASSUME NEW q \in Requests, request'[q].told \notin {q, None}
                 PROVE  /\ request'[q].pc \notin {"new", "sign", "evaluate"}
                        /\ profile'[ProfileOf(request[q].industry)] # q
        BY <1>2 DEF OverwrittenForGood, Evaluation, ProfileOf
    <2>1. request[q].pc \notin {"new", "sign", "evaluate"} /\ request'[q].pc = request[q].pc
        BY <1>2 DEF EndInv, OverwrittenForGood
    <2>2. profile'[ProfileOf(request[q].industry)] = None
        BY <1>1, ProfileOfType
    <2> QED
        BY <2>1, <2>2
<1> QED
    BY <1>3, <1>4, <1>5, <1>6, <1>7, <1>8 DEF EndInv

------------------------------------------------------------------------------
(* The steps *)

LEMMA VaultStutters ==
    ASSUME VaultInv, UNCHANGED vaultVars
    PROVE  VaultInv'
    BY DEF VaultInv, VaultTypeOK, SeenIsAhead, Extends, KnownIsStored, HandedOutIsStored,
           BarredByTornCommit, Barred, vaultVars

LEMMA EndStutters ==
    ASSUME EndInv, UNCHANGED endVars, signed \subseteq signed'
    PROVE  EndInv'
<1>1. EndTypeOK' /\ Handed' /\ SignedBefore' /\ AttestedBefore'
    BY DEF EndInv, EndTypeOK, endVars, Handed, SignedBefore, AttestedBefore, Attested
<1>2. ProfilesHoldTheirOwn' /\ ToldOfItsProfile' /\ OverwrittenForGood'
    BY DEF EndInv, endVars, ProfilesHoldTheirOwn, ToldOfItsProfile, SameProfile,
           OverwrittenForGood, Evaluation, ProfileOf
<1> QED
    BY <1>1, <1>2 DEF EndInv

LEMMA InitInv == Init => Inv
<1> SUFFICES ASSUME Init PROVE Inv
    OBVIOUS
<1>1. VaultInv
    BY VaultInitInv DEF Init
<1>2. \A s \in Submissions : New(s) \in Request
    BY DEF New, Request, Steps
<1>3. \A r \in Requests : /\ request[r] \in Request /\ request[r].pc = "new"
                          /\ request[r].signature = None /\ request[r].told = None
    BY <1>2 DEF Init, New
<1>4. request \in [Requests -> Request]
    BY <1>2 DEF Init
<1>5. EndTypeOK
    BY <1>4 DEF Init, EndTypeOK
<1>6. Handed /\ SignedBefore /\ AttestedBefore
    BY <1>3 DEF Init, Handed, SignedBefore, AttestedBefore
<1>7. ProfilesHoldTheirOwn /\ ToldOfItsProfile /\ OverwrittenForGood
    BY <1>3 DEF Init, ProfilesHoldTheirOwn, ToldOfItsProfile, OverwrittenForGood
<1> QED
    BY <1>1, <1>5, <1>6, <1>7 DEF Inv, EndInv

LEMMA CycleStepKeeps ==
    ASSUME Inv, NEW r \in Requests, CycleStep(r)
    PROVE  Inv'
<1> USE DEF Inv
<1> DEFINE Others == UNCHANGED <<kms, memory, encrypted, torn>>
<1>1. CASE BeginCycle(r)
    <2>1. VaultInv'
        BY <1>1, VaultStutters DEF BeginCycle
    <2>2. /\ Goto(r, "sign") /\ request[r].pc = "new" /\ profile' = profile
          /\ logged' = logged /\ signed' = signed
        BY <1>1 DEF BeginCycle, vaultVars
    <2>3. r \in logged => Attested(r)
        BY DEF EndInv, AttestedBefore
    <2>4. EndInv'
        BY <2>2, <2>3, GotoKeeps DEF Steps
    <2> QED
        BY <2>1, <2>4
<1>2. CASE RegisterTenant(r)
    <2>1. Register(request[r].tenant) /\ request[r].tenant \in Tenants
        BY <1>2, RequestFields DEF RegisterTenant, EndInv, EndTypeOK
    <2>2. VaultInv' /\ signed' = signed
        BY <2>1, RegisterKeeps
    <2>3. /\ Goto(r, "error") \/ UNCHANGED request
          /\ profile' = profile /\ logged' = logged
        BY <1>2 DEF RegisterTenant
    <2>4. r \in logged => Attested(r)
        BY DEF EndInv, AttestedBefore
    <2>5. CASE UNCHANGED request
        BY <2>2, <2>3, <2>5, EndStutters DEF endVars
    <2>6. CASE Goto(r, "error")
        BY <2>2, <2>3, <2>4, <2>6, GotoKeeps DEF Steps
    <2> QED
        BY <2>2, <2>3, <2>5, <2>6
<1>3. CASE SignFails(r)
    <2>1. VaultInv' /\ signed' = signed
        <3>1. CASE UNCHANGED <<stored, seen, signed>>
            BY <1>3, <3>1, VaultStutters DEF SignFails, vaultVars
        <3>2. CASE SignRaises(request[r].tenant)
            BY <1>3, <3>2, PlainCommitKeeps DEF SignFails, SignRaises
        <3> QED
            BY <1>3, <3>1, <3>2 DEF SignFails
    <2>2. Goto(r, "error") /\ profile' = profile /\ logged' = logged
        BY <1>3 DEF SignFails
    <2>3. r \in logged => Attested(r)
        BY DEF EndInv, AttestedBefore
    <2>4. EndInv'
        BY <2>1, <2>2, <2>3, GotoKeeps DEF Steps
    <2> QED
        BY <2>1, <2>4
<1>4. CASE Evaluate(r)
    BY <1>4, VaultStutters, EvaluateKeeps DEF Evaluate, vaultVars
<1>5. ASSUME NEW s \in Signatures, SignArtifact(r, s)
      PROVE  Inv'
    <2>1. request[r].tenant \in Tenants
        BY RequestFields DEF EndInv, EndTypeOK
    <2>2. Sign(request[r].tenant, s) /\ Others
        BY <1>5 DEF SignArtifact
    <2>3. VaultInv' /\ signed' = signed \cup {s}
        BY <2>1, <2>2, SignKeeps
    <2> QED
        BY <1>5, <2>3, SignArtifactKeeps
<1>6. ASSUME NEW s \in Signatures, Report(r, s)
      PROVE  Inv'
    <2>1. request[r].tenant \in Tenants
        BY RequestFields DEF EndInv, EndTypeOK
    <2>2. Sign(request[r].tenant, s) /\ Others
        BY <1>6 DEF Report
    <2>3. VaultInv' /\ signed' = signed \cup {s}
        BY <2>1, <2>2, SignKeeps
    <2>4. /\ Goto(r, "log") /\ profile' = profile /\ logged' = logged
          /\ Attested(r)
        BY <1>6 DEF Report, EndInv, AttestedBefore
    <2>5. EndInv'
        BY <2>3, <2>4, GotoKeeps DEF Steps
    <2> QED
        BY <2>3, <2>5
<1>7. CASE ReportFails(r)
    <2>1. VaultInv' /\ signed' = signed
        <3>1. CASE UNCHANGED <<stored, seen, signed>>
            BY <1>7, <3>1, VaultStutters DEF ReportFails, vaultVars
        <3>2. CASE SignRaises(request[r].tenant)
            BY <1>7, <3>2, PlainCommitKeeps DEF ReportFails, SignRaises
        <3> QED
            BY <1>7, <3>1, <3>2 DEF ReportFails
    <2>2. /\ Goto(r, "log") /\ profile' = profile /\ logged' = logged
          /\ Attested(r)
        BY <1>7 DEF ReportFails, EndInv, AttestedBefore
    <2>3. EndInv'
        BY <2>1, <2>2, GotoKeeps DEF Steps
    <2> QED
        BY <2>1, <2>3
<1>8. CASE Log(r) \/ LogFails(r)
    <2>1. /\ Goto(r, "seal") /\ profile' = profile /\ UNCHANGED vaultVars
          /\ logged \subseteq logged' /\ logged' \subseteq logged \cup {r}
          /\ Attested(r)
        BY <1>8 DEF Log, LogFails, EndInv, AttestedBefore
    <2>2. VaultInv' /\ signed' = signed
        BY <2>1, VaultStutters DEF vaultVars
    <2>3. EndInv'
        BY <2>1, <2>2, GotoKeeps DEF Steps
    <2> QED
        BY <2>2, <2>3
<1> QED
    BY <1>1, <1>2, <1>3, <1>4, <1>5, <1>6, <1>7, <1>8 DEF CycleStep

LEMMA TellStepKeeps ==
    ASSUME Inv, NEW r \in Requests, Seal(r) \/ Post(r) \/ Respond(r)
    PROVE  Inv'
<1>1. /\ UNCHANGED <<vaultVars, profile, logged>>
      /\ \E next \in {"post", "answer", "answered"} :
            Tell(r, next, Evaluation(r)) \/ Goto(r, next)
    BY DEF Seal, Post, Respond
<1>2. VaultInv' /\ signed' = signed
    BY <1>1, VaultStutters DEF Inv, vaultVars
<1>3. PICK next \in {"post", "answer", "answered"} : Tell(r, next, Evaluation(r)) \/ Goto(r, next)
    BY <1>1
<1>4. r \in logged => Attested(r)
    BY DEF Inv, EndInv, AttestedBefore
<1>5. EndInv'
    <2>1. CASE Tell(r, next, Evaluation(r))
        BY <1>1, <1>2, <2>1, TellKeeps DEF Inv
    <2>2. CASE Goto(r, next)
        BY <1>1, <1>2, <1>4, <2>2, GotoKeeps DEF Inv, Steps
    <2> QED
        BY <1>3, <2>1, <2>2
<1> QED
    BY <1>2, <1>5 DEF Inv

LEMMA InvStep == Inv /\ [Next]_vars => Inv'
<1> SUFFICES ASSUME Inv, [Next]_vars PROVE Inv'
    OBVIOUS
<1>1. ASSUME NEW r \in Requests, CycleStep(r) \/ Seal(r) \/ Post(r) \/ Respond(r)
      PROVE  Inv'
    BY <1>1, CycleStepKeeps, TellStepKeeps
<1>2. CASE OtherCalls
    <2>1. VaultInv' /\ signed \subseteq signed'
        BY <1>2, VaultNextKeeps DEF OtherCalls, Inv
    <2> QED
        BY <1>2, <2>1, EndStutters DEF OtherCalls, Inv
<1>3. CASE Crash
    <2>1. VaultInv' /\ signed' = signed
        BY <1>3, RestartKeeps DEF Crash, Inv
    <2> QED
        BY <1>3, <2>1, CrashKeeps DEF Inv
<1>4. CASE UNCHANGED vars
    BY <1>4, VaultStutters, EndStutters DEF vars, vaultVars, endVars, Inv
<1> QED
    BY <1>1, <1>2, <1>3, <1>4 DEF Next

LEMMA Invariance == Spec => []Inv
    BY InitInv, InvStep, PTL DEF Spec

\* A request keeps its industry, and is told of what its profile holds or of nothing new.
LEMMA RequestStep ==
    ASSUME Inv, [Next]_vars, NEW q \in Requests
    PROVE  /\ request'[q].industry = request[q].industry
           /\ request'[q].told \in {request[q].told, None, Evaluation(q)}
<1>1. request \in [Requests -> Request] /\ request[q] \in Request
    BY DEF Inv, EndInv, EndTypeOK
<1> HIDE DEF Evaluation
<1>2. ASSUME NEW r \in Requests, NEW step \in Steps, Goto(r, step)
      PROVE  request'[q].industry = request[q].industry /\ request'[q].told = request[q].told
    BY <1>1, <1>2 DEF Goto, Request
<1>3. ASSUME NEW r \in Requests, NEW next \in Steps, Tell(r, next, Evaluation(r))
      PROVE  /\ request'[q].industry = request[q].industry
             /\ request'[q].told \in {request[q].told, Evaluation(q)}
    BY <1>1, <1>3 DEF Tell, Request
<1>4. ASSUME NEW r \in Requests,
             \/ \E s \in Signatures : SignArtifact(r, s)
             \/ Evaluate(r)
      PROVE  request'[q].industry = request[q].industry /\ request'[q].told = request[q].told
    BY <1>1, <1>4 DEF SignArtifact, Evaluate, Request
<1>5. CASE Crash
    BY <1>1, <1>5 DEF Crash, Request
<1>6. CASE UNCHANGED request
    BY <1>6
<1>7. ASSUME NEW r \in Requests, CycleStep(r)
      PROVE  \/ \E s \in Signatures : SignArtifact(r, s)
             \/ Evaluate(r) \/ UNCHANGED request
             \/ \E step \in Steps : Goto(r, step)
    BY <1>7 DEF CycleStep, BeginCycle, RegisterTenant, SignFails, Report, ReportFails,
                Log, LogFails, Steps
<1>8. ASSUME NEW r \in Requests, Seal(r) \/ Post(r) \/ Respond(r)
      PROVE  \E next \in Steps : Tell(r, next, Evaluation(r)) \/ Goto(r, next)
    BY <1>8 DEF Seal, Post, Respond, Steps
<1>9. CASE OtherCalls \/ UNCHANGED vars
    BY <1>6, <1>9 DEF OtherCalls, endVars, vars
<1> QED
    BY <1>2, <1>3, <1>4, <1>5, <1>6, <1>7, <1>8, <1>9 DEF Next

------------------------------------------------------------------------------
(***************************************************************************)
(* Theorems                                                                *)
(***************************************************************************)

\* Type correctness of the tables, the keys in memory, the requests and the profiles.
THEOREM AttestationTypeCorrect == Spec => []TypeOK
<1>1. Inv => TypeOK
    BY DEF Inv, VaultInv, EndInv, EndTypeOK, TypeOK
<1> QED
    BY <1>1, Invariance, PTL

\* Commits that fail, the next commit that stores their leftovers, rollbacks and restarts
\* take back nothing that was handed out (sign_data, encrypt_data).
THEOREM VaultHandedOutIsStored == Spec => []HandedOutIsStored
<1>1. Inv => HandedOutIsStored
    BY DEF Inv, VaultInv
<1> QED
    BY <1>1, Invariance, PTL

\* A tenant nothing can be signed for is one whose own registration was not committed in
\* this process (register_tenant).
THEOREM VaultBarredByTornCommit == Spec => []BarredByTornCommit
<1>1. Inv => BarredByTornCommit
    BY DEF Inv, VaultInv
<1> QED
    BY <1>1, Invariance, PTL

\* Whatever fails between the steps of its cycle, a decision of the audit trail has its
\* signature in the ledger and no failed requirement.
THEOREM AttestationLoggedIsAttested == Spec => []LoggedIsAttested
<1>1. Inv => LoggedIsAttested
    BY DEF Inv, VaultInv, EndInv, EndTypeOK, Handed, AttestedBefore, Attested,
           HandedOutIsStored, LoggedIsAttested
<1> QED
    BY <1>1, Invariance, PTL

\* What a request's proof, webhook and answer refer to is an evaluation of its own
\* profile, and never again its own once another request's came between.
THEOREM AttestationChangesForGood == Spec => EvaluationsChangeForGood
<1>1. ASSUME Inv, Inv', [Next]_vars, NEW r \in Requests, NEW q \in Requests,
             request'[r].told = q
      PROVE  SameProfile(q, r) /\ (q = r => request[r].told \in {r, None})
    <2>1. SameProfile(q, r)
        <3>1. ProfileOf(request'[q].industry) = ProfileOf(request'[r].industry)
            BY <1>1 DEF Inv, EndInv, ToldOfItsProfile, SameProfile, ProfileOf
        <3> QED
            BY <1>1, <3>1, RequestStep DEF SameProfile
    <2>2. ASSUME q = r, request[r].told \notin {r, None}
          PROVE  FALSE
        <3>1. Evaluation(r) # r
            BY <1>1, <2>2 DEF Inv, EndInv, OverwrittenForGood
        <3>2. request'[r].told \in {request[r].told, None, Evaluation(r)}
            BY <1>1, RequestStep
        <3> QED
            BY <1>1, <2>2, <3>1, <3>2
    <2> QED
        BY <2>1, <2>2
<1>2. Inv /\ Inv' /\ [Next]_vars =>
          [\A r \in Requests : \A q \in Requests : request'[r].told = q =>
              /\ SameProfile(q, r)
              /\ q = r => request[r].told \in {r, None}]_vars
    BY <1>1
<1> QED
    BY <1>2, Invariance, PTL DEF Spec, EvaluationsChangeForGood

------------------------------------------------------------------------------
(***************************************************************************)
(* Deliveries.  First what Only selects, by induction on the place in the   *)
(* sequence: a least place where it failed would follow one where it held.  *)
(***************************************************************************)

LEMMA Least ==
    ASSUME NEW T \in SUBSET Nat, T # {}
    PROVE  \E x \in T : \A y \in T : x <= y
<1>1. PICK R : IsWellFoundedOn(R, Nat) /\ \A x, y \in Nat : <<x, y>> \in R <=> x < y
    <2> DEFINE R == {ss \in Nat \X Nat : ss[1] < ss[2]}
    <2>1. IsWellFoundedOn(R, Nat)
        BY NatLessThanWellFounded DEF OpToRel
    <2>2. \A x, y \in Nat : <<x, y>> \in R <=> x < y
        OBVIOUS
    <2> HIDE DEF R
    <2> QED
        BY <2>1, <2>2
<1>2. T \subseteq Nat
    OBVIOUS
<1>3. \E x \in T : \A y \in T : ~ (<<y, x>> \in R)
    <2>1. IsWellFoundedOn(R, Nat) /\ T \subseteq Nat /\ T # {}
        BY <1>1, <1>2
    <2> QED
        BY <2>1, WFMin, Zenon
<1>4. \A x, y \in T : <<y, x>> \in R \/ x <= y
    BY <1>1, <1>2
<1> QED
    BY <1>3, <1>4

LEMMA OnlySelects ==
    ASSUME NEW S, NEW s \in Seq(S), NEW W
    PROVE  Only(s, W) \in Seq(S \cap W)
<1> DEFINE n == Len(s)
           Def(g, i) == IF i = 0 THEN <<>> ELSE IF s[i] \in W THEN Append(g[i - 1], s[i]) ELSE g[i - 1]
           IsSel(g, m) == g = [i \in 0 .. m |-> Def(g, i)]
           F == CHOOSE g : IsSel(g, n)
<1>1. Only(s, W) = F[n]
    BY DEF Only
<1>2. n \in Nat /\ \A i \in 1 .. n : s[i] \in S
    OBVIOUS
<1> HIDE DEF n
<1>3. ASSUME NEW m \in Nat, m <= n
      PROVE  \E g : IsSel(g, m)
    <2> DEFINE T == {k \in Nat : k <= n /\ ~ \E g : IsSel(g, k)}
    <2> SUFFICES ASSUME T # {} PROVE FALSE
        BY <1>3
    <2>1. PICK k \in T : \A j \in T : k <= j
        <3>1. T \in SUBSET Nat
            OBVIOUS
        <3> HIDE DEF T
        <3> QED
            BY <3>1, Least
    <2>2. CASE k = 0
        <3> DEFINE g == [i \in 0 .. 0 |-> <<>>]
        <3>1. IsSel(g, 0)
            BY SMT
        <3> QED
            BY <2>1, <2>2, <3>1
    <2>3. CASE k > 0
        <3>0. k \in Nat /\ k <= n
            OBVIOUS
        <3>1. k - 1 \in Nat /\ k - 1 <= n /\ k - 1 \notin T
            <4>1. k - 1 \in Nat /\ k - 1 <= n /\ ~ (k <= k - 1)
                BY <1>2, <3>0, <2>3
            <4> HIDE DEF T
            <4> QED
                BY <2>1, <4>1
        <3>2. PICK g : IsSel(g, k - 1)
            BY <3>1
        <3> DEFINE h == [i \in 0 .. k |-> IF i < k THEN g[i] ELSE Def(g, k)]
        <3>3. \A i \in 0 .. k - 1 : g[i] = Def(g, i)
            BY <3>2
        <3>4. \A i \in 0 .. k : h[i] = Def(h, i)
            BY <2>1, <2>3, <3>3
        <3>5. h = [i \in 0 .. k |-> h[i]]
            OBVIOUS
        <3>6. IsSel(h, k)
            <4> HIDE DEF h
            <4> QED 
                BY <3>4, <3>5
        <3> QED
            BY <2>1, <3>6
    <2> QED
        BY <2>1, <2>2, <2>3
<1>4. IsSel(F, n)
    <2> HIDE DEF IsSel
    <2>1. n \in Nat /\ n <= n
        BY <1>2
    <2>2. \E g : IsSel(g, n)
        BY <1>3, <2>1
    <2> QED
        BY <2>2
<1>5. \A i \in 0 .. n : F[i] = Def(F, i)
    <2> HIDE DEF F
    <2> QED
        BY <1>4
<1> HIDE DEF F
<1>6. ASSUME NEW i \in Nat, i <= n
      PROVE  F[i] \in Seq(S \cap W)
    <2> DEFINE T == {k \in Nat : k <= n /\ F[k] \notin Seq(S \cap W)}
    <2> SUFFICES ASSUME T # {} PROVE FALSE
        BY <1>6
    <2>1. PICK k \in T : \A j \in T : k <= j
        <3>1. T \in SUBSET Nat
            OBVIOUS
        <3> HIDE DEF T
        <3> QED
            BY <3>1, Least
    <2>2. k \in Nat /\ k <= n /\ F[k] \notin Seq(S \cap W) /\ F[k] = Def(F, k)
        BY <1>2, <1>5, <2>1
    <2>3. k # 0
        BY <2>2
    <2>4. k \in 1 .. n /\ k - 1 \in Nat /\ k - 1 <= n /\ k - 1 \notin T
        BY <1>2, <2>1, <2>2, <2>3
    <2>5. F[k - 1] \in Seq(S \cap W)
        BY <2>4
    <2> HIDE DEF T
    <2>6. CASE s[k] \in W
        <3>1. s[k] \in S \cap W
            BY <1>2, <2>4, <2>6
        <3>2. F[k] = Append(F[k - 1], s[k])
            BY <2>2, <2>3, <2>6
        <3> QED
            BY <2>2, <2>5, <3>1, <3>2
    <2>7. CASE s[k] \notin W
        <3>1. F[k] = F[k - 1]
            BY <2>2, <2>3, <2>7
        <3> QED
            BY <2>2, <2>5, <3>1
    <2> QED
        BY <2>6, <2>7
<1> QED
    BY <1>1, <1>2, <1>6

(* A run that is not idle holds the deliveries it has still to settle, the one it is at
   first; a queued delivery is no longer its request's. *)
DeliveriesTyped ==
    /\ pc \in [Deliveries -> {"new", "post", "good", "bad", "enqueue", "done"}]
    /\ row \in [Deliveries -> [status : {"none", "pending", "delivered", "failed_permanently"},
                               attempts : Nat]]
    /\ due \in Seq(Deliveries)
    /\ run \in [Runs -> [at : {"idle", "hook", "post", "record", "write"}, batch : Seq(Deliveries),
                         ok : BOOLEAN, seen : Nat]]
    /\ tries \in [Deliveries -> Nat]
    /\ accepted \in [Deliveries -> Nat]

BatchesGoOn == \A r \in Runs : run[r].at # "idle" => run[r].batch # <<>>

BatchesAreQueued == \A r \in Runs : \A d \in ToSet(run[r].batch) : row[d].status # "none"

QueuedWhenDone == \A d \in Deliveries : row[d].status # "none" => pc[d] = "done"

\* What a run is about to record has happened.
SuccessWasAccepted ==
    \A r \in Runs : run[r].at = "record" /\ run[r].ok => accepted[Current(r)] >= 1

ReadWasTried == \A r \in Runs : run[r].at = "write" => run[r].seen <= tries[Current(r)]

WebhookInv ==
    /\ DeliveriesTyped /\ BatchesGoOn /\ BatchesAreQueued /\ QueuedWhenDone
    /\ SuccessWasAccepted /\ ReadWasTried
    /\ DeliveredWasAccepted /\ GivesUpOnlyWhenSpent

USE NullAssumption, NumbersAssumption

\* What a step leaves of the deliveries that are settled and in no batch.
LeavesTheSettled ==
    \A d \in Deliveries :
        row[d].status \in {"delivered", "failed_permanently"} /\ ~ Held(d) =>
            row'[d] = row[d] /\ accepted'[d] = accepted[d] /\ ~ Held(d)'

LEMMA WebhookInitially == WebhookInit => WebhookInv
<1> SUFFICES ASSUME WebhookInit PROVE WebhookInv
    OBVIOUS
<1>1. DeliveriesTyped
    BY DEF WebhookInit, DeliveriesTyped, NoRow, Idle
<1>2. BatchesGoOn /\ BatchesAreQueued /\ SuccessWasAccepted /\ ReadWasTried
    BY DEF WebhookInit, BatchesGoOn, BatchesAreQueued, SuccessWasAccepted, ReadWasTried, Idle, ToSet
<1>3. QueuedWhenDone /\ DeliveredWasAccepted /\ GivesUpOnlyWhenSpent
    BY DEF WebhookInit, QueuedWhenDone, DeliveredWasAccepted, GivesUpOnlyWhenSpent, NoRow
<1> QED
    BY <1>1, <1>2, <1>3 DEF WebhookInv

\* The rows a run takes are pending ones, and so none that is settled.
LEMMA DueArePending ==
    ASSUME DeliveriesTyped
    PROVE  /\ DueRetries \in Seq(Deliveries)
           /\ \A d \in ToSet(DueRetries) : d \in Deliveries /\ Pending(d)
<1> DEFINE W == {d \in Deliveries : Pending(d)}
           pending == Only(due, W)
           n == IF Limit < Len(pending) THEN Limit ELSE Len(pending)
<1>1. pending \in Seq(Deliveries \cap W)
    BY OnlySelects DEF DeliveriesTyped
<1>2. DueRetries = SubSeq(pending, 1, n)
    BY DEF DueRetries
<1>3. Deliveries \cap W = W
    OBVIOUS
<1> HIDE DEF pending
<1>4. n \in Int /\ \A i \in 1 .. n : pending[i] \in W
    BY <1>1, <1>3
<1> HIDE DEF n, W
<1>5. DueRetries \in Seq(W)
    BY <1>2, <1>4, SubSeqProperties
<1>6. \A d \in ToSet(DueRetries) : d \in W
    BY <1>5 DEF ToSet
<1>7. W \subseteq Deliveries /\ \A d \in W : Pending(d)
    BY DEF W
<1> QED
    BY <1>5, <1>6, <1>7

\* The delivery a run is at is one of its batch; what is left of the batch is part of it.
LEMMA BatchAtHand ==
    ASSUME DeliveriesTyped, BatchesGoOn, NEW r \in Runs, run[r].at # "idle"
    PROVE  /\ Current(r) \in Deliveries /\ Current(r) \in ToSet(run[r].batch)
           /\ Tail(run[r].batch) \in Seq(Deliveries)
           /\ ToSet(Tail(run[r].batch)) \subseteq ToSet(run[r].batch)
           /\ Len(run[r].batch) # 1 => Tail(run[r].batch) # <<>>
<1> DEFINE b == run[r].batch
<1>1. b \in Seq(Deliveries) /\ b # <<>>
    BY DEF DeliveriesTyped, BatchesGoOn
<1> HIDE DEF b
<1>2. /\ Tail(b) \in Seq(Deliveries) /\ Len(Tail(b)) = Len(b) - 1
      /\ \A i \in 1 .. Len(Tail(b)) : Tail(b)[i] = b[i + 1]
    BY <1>1, HeadTailProperties
<1>3. Len(b) \in Nat /\ Len(b) >= 1
    BY <1>1
<1>4. b[1] \in Deliveries /\ b[1] \in ToSet(b)
    BY <1>1, <1>3 DEF ToSet
<1>5. ToSet(Tail(b)) \subseteq ToSet(b)
    BY <1>2, <1>3 DEF ToSet
<1>6. Len(b) # 1 => Tail(b) # <<>>
    <2>1. Len(b) # 1 => Len(Tail(b)) # 0
        BY <1>2, <1>3
    <2>2. Len(<<>>) = 0
        OBVIOUS
    <2> QED
        BY <2>1, <2>2, Zenon
<1> QED
    BY <1>2, <1>4, <1>5, <1>6 DEF b, Current

\* Batches that lose deliveries, or keep theirs, hold no delivery anew.
LEMMA NotHeldAnew ==
    ASSUME \A r \in Runs : ToSet(run'[r].batch) \subseteq ToSet(run[r].batch), NEW d, ~ Held(d)
    PROVE  ~ Held(d)'
    BY DEF Held

\* A step that is not of a request, a row or a run.
LEMMA HooksAside ==
    ASSUME WebhookInv, UNCHANGED <<pc, row, due, run, tries, accepted>>
    PROVE  WebhookInv' /\ LeavesTheSettled
    BY DEF WebhookInv, DeliveriesTyped, BatchesGoOn, BatchesAreQueued, QueuedWhenDone,
           SuccessWasAccepted, ReadWasTried, DeliveredWasAccepted, GivesUpOnlyWhenSpent, LeavesTheSettled,
           Held, Current

\* A step of the request of a delivery, which has no row yet.
LEMMA RequestsAside ==
    ASSUME WebhookInv, NEW d \in Deliveries, pc[d] # "done",
           NEW p \in {"post", "good", "bad", "enqueue", "done"}, pc' = [pc EXCEPT ![d] = p],
           NEW k \in Nat, accepted' = [accepted EXCEPT ![d] = accepted[d] + k],
           UNCHANGED <<row, due, run, tries>>
    PROVE  WebhookInv' /\ LeavesTheSettled
<1>1. DeliveriesTyped'
    <2>1. accepted[d] + k \in Nat
        BY DEF WebhookInv, DeliveriesTyped
    <2>2. accepted' \in [Deliveries -> Nat]
        BY <2>1 DEF WebhookInv, DeliveriesTyped
    <2>3. pc' \in [Deliveries -> {"new", "post", "good", "bad", "enqueue", "done"}]
        BY DEF WebhookInv, DeliveriesTyped
    <2> QED
        BY <2>2, <2>3 DEF WebhookInv, DeliveriesTyped
<1>2. row[d].status = "none"
    BY DEF WebhookInv, QueuedWhenDone
<1>3. \A q \in Deliveries : accepted[q] \in Nat /\ accepted'[q] \in Nat /\ accepted'[q] >= accepted[q]
    BY DEF WebhookInv, DeliveriesTyped
<1>4. BatchesGoOn' /\ BatchesAreQueued' /\ ReadWasTried' /\ GivesUpOnlyWhenSpent'
    BY DEF WebhookInv, BatchesGoOn, BatchesAreQueued, ReadWasTried, GivesUpOnlyWhenSpent, Current
<1>5. QueuedWhenDone'
    BY <1>2 DEF WebhookInv, DeliveriesTyped, QueuedWhenDone
<1>6. SuccessWasAccepted'
    <2> SUFFICES ASSUME NEW r \in Runs, run[r].at = "record", run[r].ok
                 PROVE  accepted'[Current(r)] >= 1
        BY DEF SuccessWasAccepted, Current
    <2>1. Current(r) \in Deliveries
        BY BatchAtHand DEF WebhookInv
    <2>2. accepted[Current(r)] >= 1
        BY DEF WebhookInv, SuccessWasAccepted
    <2> QED
        BY <1>3, <2>1, <2>2
<1>7. DeliveredWasAccepted'
    <2> SUFFICES ASSUME NEW q \in Deliveries, row[q].status = "delivered"
                 PROVE  accepted'[q] >= 1
        BY DEF DeliveredWasAccepted
    <2> QED
        BY <1>3 DEF WebhookInv, DeliveredWasAccepted
<1>8. LeavesTheSettled
    <2>1. \A q \in Deliveries : q # d => accepted'[q] = accepted[q]
        BY DEF WebhookInv, DeliveriesTyped
    <2> QED
        BY <1>2, <2>1 DEF LeavesTheSettled, Held
<1> QED
    BY <1>1, <1>4, <1>5, <1>6, <1>7, <1>8 DEF WebhookInv

\* The rows and counts a step of a run leaves in order: the rows it writes say delivered
\* of accepted events only, and no more attempts than were made.
RunsInOrder(r) ==
    /\ run[r].at # "idle"
    /\ run' \in [Runs -> [at : {"idle", "hook", "post", "record", "write"}, batch : Seq(Deliveries),
                          ok : BOOLEAN, seen : Nat]]
    /\ \A q \in Runs \ {r} : run'[q] = run[q]
    /\ ToSet(run'[r].batch) \subseteq ToSet(run[r].batch)
    /\ run'[r].at # "idle" => run'[r].batch # <<>>
    /\ run'[r].at = "record" /\ run'[r].ok => accepted'[run'[r].batch[1]] >= 1
    /\ run'[r].at = "write" => run'[r].seen <= tries'[run'[r].batch[1]]

RowsInOrder(r) ==
    /\ row' \in [Deliveries -> [status : {"none", "pending", "delivered", "failed_permanently"},
                                attempts : Nat]]
    /\ \A d \in Deliveries : d # Current(r) => row'[d] = row[d]
    /\ row'[Current(r)].status # "none"
    /\ row'[Current(r)].status = "delivered" => accepted'[Current(r)] >= 1
    /\ row'[Current(r)].status = "failed_permanently" => tries'[Current(r)] >= MaxAttempts
    /\ row'[Current(r)].attempts <= tries'[Current(r)]

CountsInOrder(r) ==
    /\ tries' \in [Deliveries -> Nat] /\ accepted' \in [Deliveries -> Nat]
    /\ \A d \in Deliveries : tries'[d] >= tries[d] /\ accepted'[d] >= accepted[d]
    /\ \A d \in Deliveries : d # Current(r) => accepted'[d] = accepted[d]

\* Then the step is in order.
LEMMA RunsAside ==
    ASSUME WebhookInv, NEW r \in Runs, RunsInOrder(r), RowsInOrder(r), CountsInOrder(r),
           due' \in Seq(Deliveries), pc' = pc
    PROVE  WebhookInv' /\ LeavesTheSettled
<1>0. /\ Current(r) \in Deliveries /\ Current(r) \in ToSet(run[r].batch)
      /\ \A q \in Runs : run[q].at # "idle" => Current(q) \in Deliveries
    BY BatchAtHand DEF WebhookInv, RunsInOrder
<1>1. DeliveriesTyped'
    BY DEF WebhookInv, DeliveriesTyped, RunsInOrder, RowsInOrder, CountsInOrder
<1>2. BatchesGoOn'
    BY DEF WebhookInv, BatchesGoOn, RunsInOrder
<1>3. BatchesAreQueued'
    <2> SUFFICES ASSUME NEW q \in Runs, NEW d \in ToSet(run'[q].batch)
                 PROVE  row'[d].status # "none"
        BY DEF BatchesAreQueued
    <2>1. d \in ToSet(run[q].batch)
        <3>1. CASE q = r
            BY <3>1 DEF RunsInOrder
        <3>2. CASE q # r
            <4>1. run'[q] = run[q]
                BY <3>2 DEF RunsInOrder
            <4> QED
                BY <4>1, Zenon
        <3> QED
            BY <3>1, <3>2
    <2>2. d \in Deliveries
        <3>1. run[q].batch \in Seq(Deliveries)
            BY DEF WebhookInv, DeliveriesTyped
        <3> QED
            BY <2>1, <3>1 DEF ToSet
    <2> QED
        BY <2>1, <2>2 DEF WebhookInv, BatchesAreQueued, RowsInOrder
<1>3a. QueuedWhenDone'
    <2>1. pc[Current(r)] = "done"
        BY <1>0 DEF WebhookInv, BatchesAreQueued, QueuedWhenDone
    <2> QED
        BY <2>1 DEF WebhookInv, QueuedWhenDone, RowsInOrder
<1>4. \A d \in Deliveries :
          /\ tries[d] \in Nat /\ tries'[d] \in Nat /\ accepted[d] \in Nat /\ accepted'[d] \in Nat
          /\ tries'[d] >= tries[d] /\ accepted'[d] >= accepted[d]
          /\ row[d].attempts \in Nat
    BY DEF WebhookInv, DeliveriesTyped, CountsInOrder
<1>5. SuccessWasAccepted'
    <2> SUFFICES ASSUME NEW q \in Runs, run'[q].at = "record", run'[q].ok
                 PROVE  accepted'[run'[q].batch[1]] >= 1
        BY DEF SuccessWasAccepted, Current
    <2>1. CASE q = r
        BY <2>1 DEF RunsInOrder
    <2>2. CASE q # r
        <3>1. run'[q] = run[q]
            BY <2>2 DEF RunsInOrder
        <3>2. run[q].at = "record" /\ run[q].ok /\ run'[q].batch[1] = Current(q)
            BY <3>1 DEF Current
        <3>3. accepted[Current(q)] >= 1 /\ Current(q) \in Deliveries
            BY <1>0, <3>2 DEF WebhookInv, SuccessWasAccepted
        <3> QED
            BY <1>4, <3>2, <3>3
    <2> QED
        BY <2>1, <2>2
<1>6. ReadWasTried'
    <2> SUFFICES ASSUME NEW q \in Runs, run'[q].at = "write"
                 PROVE  run'[q].seen <= tries'[run'[q].batch[1]]
        BY DEF ReadWasTried, Current
    <2>1. CASE q = r
        BY <2>1 DEF RunsInOrder
    <2>2. CASE q # r
        <3>1. run'[q] = run[q]
            BY <2>2 DEF RunsInOrder
        <3>2. run[q].at = "write" /\ run'[q].batch[1] = Current(q)
            BY <3>1 DEF Current
        <3>3. run[q].seen <= tries[Current(q)] /\ Current(q) \in Deliveries /\ run[q].seen \in Nat
            BY <1>0, <3>2 DEF WebhookInv, ReadWasTried, DeliveriesTyped
        <3> QED
            BY <1>4, <3>1, <3>2, <3>3
    <2> QED
        BY <2>1, <2>2
<1>7. DeliveredWasAccepted'
    <2> SUFFICES ASSUME NEW d \in Deliveries, row'[d].status = "delivered"
                 PROVE  accepted'[d] >= 1
        BY DEF DeliveredWasAccepted
    <2>1. CASE d = Current(r)
        BY <2>1 DEF RowsInOrder
    <2>2. CASE d # Current(r)
        <3>1. accepted[d] >= 1
            BY <2>2 DEF RowsInOrder, WebhookInv, DeliveredWasAccepted
        <3> QED
            BY <1>4, <3>1
    <2> QED
        BY <2>1, <2>2
<1>8. GivesUpOnlyWhenSpent'
    <2> SUFFICES ASSUME NEW d \in Deliveries
                 PROVE  /\ row'[d].status = "failed_permanently" => tries'[d] >= MaxAttempts
                        /\ row'[d].attempts <= tries'[d]
        BY DEF GivesUpOnlyWhenSpent
    <2>1. CASE d = Current(r)
        BY <2>1 DEF RowsInOrder
    <2>2. CASE d # Current(r)
        <3>1. /\ row[d].status = "failed_permanently" => tries[d] >= MaxAttempts
              /\ row[d].attempts <= tries[d]
            BY DEF WebhookInv, GivesUpOnlyWhenSpent
        <3>2. row'[d] = row[d]
            BY <2>2 DEF RowsInOrder
        <3> QED
            BY <1>4, <3>1, <3>2
    <2> QED
        BY <2>1, <2>2
<1>9. LeavesTheSettled
    <2> SUFFICES ASSUME NEW d \in Deliveries, ~ Held(d)
                 PROVE  row'[d] = row[d] /\ accepted'[d] = accepted[d] /\ ~ Held(d)'
        BY DEF LeavesTheSettled
    <2>1. d # Current(r)
        BY <1>0 DEF Held
    <2>2. \A q \in Runs : ToSet(run'[q].batch) \subseteq ToSet(run[q].batch)
        <3> TAKE q \in Runs
        <3>1. q # r => run'[q].batch = run[q].batch
            BY DEF RunsInOrder
        <3>2. q = r => ToSet(run'[q].batch) \subseteq ToSet(run[q].batch)
            BY DEF RunsInOrder
        <3>3. CASE q = r
            BY <3>2, <3>3
        <3>4. CASE q # r
            BY <3>1, <3>4, Zenon
        <3> QED
            BY <3>3, <3>4
    <2> QED
        BY <2>1, <2>2, NotHeldAnew DEF RowsInOrder, CountsInOrder
<1> QED
    BY <1>1, <1>2, <1>3, <1>3a, <1>5, <1>6, <1>7, <1>8, <1>9 DEF WebhookInv

\* What the steps of runs have in common.
LEMMA RunFacts ==
    ASSUME WebhookInv, NEW r \in Runs, run[r].at # "idle"
    PROVE  LET c == Current(r) IN
           /\ c \in Deliveries /\ row[c].attempts \in Nat /\ tries[c] \in Nat /\ accepted[c] \in Nat
           /\ row[c].status # "none"
           /\ row[c].status = "delivered" => accepted[c] >= 1
           /\ row[c].status = "failed_permanently" => tries[c] >= MaxAttempts
           /\ row[c].attempts <= tries[c]
           /\ run[r].seen \in Nat
    BY BatchAtHand DEF WebhookInv, DeliveriesTyped, BatchesAreQueued, DeliveredWasAccepted,
                       GivesUpOnlyWhenSpent

\* A run goes on to another place with the delivery it is at.
LEMMA RunsOn ==
    ASSUME WebhookInv, NEW r \in Runs, run[r].at # "idle",
           NEW at \in {"hook", "post", "record", "write"}, NEW ok \in BOOLEAN, NEW seen0 \in Nat,
           run' = [run EXCEPT ![r].at = at, ![r].ok = ok, ![r].seen = seen0],
           NEW k \in Nat, accepted' = [accepted EXCEPT ![Current(r)] = accepted[Current(r)] + k],
           at = "record" /\ ok => accepted[Current(r)] + k >= 1,
           at = "write" => seen0 <= tries[Current(r)],
           UNCHANGED <<pc, row, due, tries>>
    PROVE  WebhookInv' /\ LeavesTheSettled
<1> DEFINE here == [at |-> at, batch |-> run[r].batch, ok |-> ok, seen |-> seen0]
<1>1. run' = [run EXCEPT ![r] = here]
    <2>1. run \in [Runs -> [at : {"idle", "hook", "post", "record", "write"}, batch : Seq(Deliveries),
                           ok : BOOLEAN, seen : Nat]]
        BY DEF WebhookInv, DeliveriesTyped
    <2>2. run'[r] = here
        BY <2>1
    <2> QED
        BY <2>1, <2>2
<1>2. /\ run'[r].at = at /\ run'[r].ok = ok /\ run'[r].seen = seen0
      /\ run'[r].batch = run[r].batch
      /\ \A q \in Runs \ {r} : run'[q] = run[q]
      /\ run' \in [Runs -> [at : {"idle", "hook", "post", "record", "write"}, batch : Seq(Deliveries),
                            ok : BOOLEAN, seen : Nat]]
    <2>1. run \in [Runs -> [at : {"idle", "hook", "post", "record", "write"}, batch : Seq(Deliveries),
                           ok : BOOLEAN, seen : Nat]]
        BY DEF WebhookInv, DeliveriesTyped
    <2>2. here \in [at : {"idle", "hook", "post", "record", "write"}, batch : Seq(Deliveries),
                    ok : BOOLEAN, seen : Nat]
        BY <2>1
    <2>3. run'[r] = here
        BY <1>1, <2>1
    <2>4. run'[r].at = at /\ run'[r].ok = ok /\ run'[r].seen = seen0 /\ run'[r].batch = run[r].batch
        BY <2>3
    <2> HIDE DEF here
    <2>5. \A q \in Runs \ {r} : run'[q] = run[q]
        BY <1>1, <2>1
    <2>6. run' \in [Runs -> [at : {"idle", "hook", "post", "record", "write"}, batch : Seq(Deliveries),
                            ok : BOOLEAN, seen : Nat]]
        BY <1>1, <2>1, <2>2
    <2> QED
        BY <2>4, <2>5, <2>6
<1>3. run[r].batch # <<>> /\ run'[r].batch[1] = Current(r)
    BY <1>2 DEF WebhookInv, BatchesGoOn, Current
<1>4. /\ Current(r) \in Deliveries /\ accepted'[Current(r)] = accepted[Current(r)] + k
      /\ \A d \in Deliveries : d # Current(r) => accepted'[d] = accepted[d]
    BY RunFacts DEF WebhookInv, DeliveriesTyped
<1>5. RunsInOrder(r)
    <2>1. ToSet(run'[r].batch) \subseteq ToSet(run[r].batch)
        BY <1>2, Zenon
    <2>2. at = "record" /\ ok => accepted'[run'[r].batch[1]] >= 1
        BY <1>3, <1>4
    <2>3. at = "write" => seen0 <= tries'[run'[r].batch[1]]
        BY <1>3
    <2> QED
        BY <1>2, <1>3, <2>1, <2>2, <2>3 DEF RunsInOrder
<1>6. CountsInOrder(r)
    <2>1. accepted' \in [Deliveries -> Nat]
        <3>1. accepted[Current(r)] + k \in Nat
            BY RunFacts
        <3> QED
            BY <3>1 DEF WebhookInv, DeliveriesTyped
    <2>2. \A d \in Deliveries : tries[d] \in Nat /\ accepted[d] \in Nat
        BY DEF WebhookInv, DeliveriesTyped
    <2>3. \A d \in Deliveries : accepted'[d] >= accepted[d]
        <3> TAKE d \in Deliveries
        <3>1. CASE d = Current(r)
            BY <1>4, <2>2, <3>1
        <3>2. CASE d # Current(r)
            BY <1>4, <2>2, <3>2
        <3> QED
            BY <3>1, <3>2
    <2>4. tries' = tries /\ tries \in [Deliveries -> Nat]
        BY DEF WebhookInv, DeliveriesTyped
    <2> QED
        BY <1>4, <2>1, <2>2, <2>3, <2>4 DEF CountsInOrder
<1>7. RowsInOrder(r)
    <2>0. accepted[Current(r)] \in Nat
        BY <1>4 DEF WebhookInv, DeliveriesTyped
    <2>1. /\ accepted'[Current(r)] >= accepted[Current(r)]
          /\ accepted[Current(r)] \in Nat /\ accepted'[Current(r)] \in Nat
        BY <1>4, <2>0
    <2>2. row[Current(r)].status = "delivered" => accepted'[Current(r)] >= 1
        BY <2>1, RunFacts
    <2> QED
        BY <2>2, RunFacts DEF RowsInOrder, WebhookInv, DeliveriesTyped
<1>8. due' \in Seq(Deliveries) /\ pc' = pc
    BY DEF WebhookInv, DeliveriesTyped
<1> QED
    BY <1>5, <1>6, <1>7, <1>8, RunsAside

\* A run is done with a delivery, whose row it has written, and goes on to the next.
LEMMA RunsToNext ==
    ASSUME WebhookInv, NEW r \in Runs, run[r].at # "idle", NextRow(r),
           NEW w \in [status : {"none", "pending", "delivered", "failed_permanently"}, attempts : Nat],
           row' = [row EXCEPT ![Current(r)] = w],
           w.status # "none",
           w.status = "delivered" => accepted[Current(r)] >= 1,
           w.status = "failed_permanently" => tries[Current(r)] + 1 >= MaxAttempts,
           w.attempts <= tries[Current(r)] + 1,
           due' \in Seq(Deliveries), UNCHANGED <<pc, accepted>>
    PROVE  WebhookInv' /\ LeavesTheSettled
<1>1. /\ Current(r) \in Deliveries /\ Tail(run[r].batch) \in Seq(Deliveries)
      /\ ToSet(Tail(run[r].batch)) \subseteq ToSet(run[r].batch)
      /\ Len(run[r].batch) # 1 => Tail(run[r].batch) # <<>>
    BY BatchAtHand DEF WebhookInv
<1> DEFINE b == Tail(run[r].batch)
           last == Len(run[r].batch) = 1
<1>2. run' = [run EXCEPT ![r] = IF last THEN Idle ELSE Working(b)]
    BY DEF NextRow
<1>3. b \in Seq(Deliveries) /\ ToSet(b) \subseteq ToSet(run[r].batch) /\ (~ last => b # <<>>)
    BY <1>1
<1> HIDE DEF b, last
<1>4. ToSet(<<>>) \subseteq ToSet(run[r].batch)
    BY DEF ToSet
<1>5. /\ run'[r] = IF last THEN Idle ELSE Working(b)
      /\ \A q \in Runs \ {r} : run'[q] = run[q]
      /\ run' \in [Runs -> [at : {"idle", "hook", "post", "record", "write"}, batch : Seq(Deliveries),
                            ok : BOOLEAN, seen : Nat]]
    BY <1>2, <1>3 DEF WebhookInv, DeliveriesTyped, Idle, Working
<1>6. /\ run'[r].at = IF last THEN "idle" ELSE "hook"
      /\ run'[r].batch = IF last THEN <<>> ELSE b
    BY <1>5 DEF Idle, Working
<1>7. ToSet(run'[r].batch) \subseteq ToSet(run[r].batch)
    BY <1>3, <1>4, <1>6, Zenon
<1>8. RunsInOrder(r)
    BY <1>3, <1>5, <1>6, <1>7 DEF RunsInOrder
<1>9. tries' = [tries EXCEPT ![Current(r)] = tries[Current(r)] + 1]
    BY DEF NextRow
<1>10. CountsInOrder(r)
    <2>0. \A d \in Deliveries : tries[d] \in Nat /\ accepted[d] \in Nat
        BY DEF WebhookInv, DeliveriesTyped
    <2>1. tries[Current(r)] + 1 \in Nat
        BY <1>1, <2>0
    <2>2. tries' \in [Deliveries -> Nat] /\ accepted' \in [Deliveries -> Nat]
        BY <1>9, <2>1 DEF WebhookInv, DeliveriesTyped
    <2>3. \A d \in Deliveries : tries'[d] >= tries[d] /\ accepted'[d] >= accepted[d]
        <3> TAKE d \in Deliveries
        <3>1. tries'[d] = IF d = Current(r) THEN tries[d] + 1 ELSE tries[d]
            BY <1>9 DEF WebhookInv, DeliveriesTyped
        <3> QED
            BY <2>0, <3>1
    <2> QED
        BY <2>2, <2>3 DEF CountsInOrder
<1>11. RowsInOrder(r)
    <2>1. tries'[Current(r)] = tries[Current(r)] + 1 /\ row'[Current(r)] = w
        BY <1>1, <1>9 DEF WebhookInv, DeliveriesTyped
    <2>2. \A d \in Deliveries : d # Current(r) => row'[d] = row[d]
        BY DEF WebhookInv, DeliveriesTyped
    <2>3. row' \in [Deliveries -> [status : {"none", "pending", "delivered", "failed_permanently"},
                                   attempts : Nat]]
        BY DEF WebhookInv, DeliveriesTyped
    <2> QED
        BY <2>1, <2>2, <2>3 DEF RowsInOrder
<1> QED
    BY <1>8, <1>10, <1>11, RunsAside

LEMMA RunStarts ==
    ASSUME WebhookInv, NEW r \in Runs, StartRun(r)
    PROVE  WebhookInv' /\ LeavesTheSettled
<1>1. /\ DueRetries \in Seq(Deliveries) /\ DueRetries # <<>>
      /\ \A d \in ToSet(DueRetries) : d \in Deliveries /\ Pending(d)
    BY DueArePending DEF WebhookInv, StartRun
<1> DEFINE b == DueRetries
<1>2. run' = [run EXCEPT ![r] = Working(b)]
    BY DEF StartRun
<1> HIDE DEF b
<1>3. UNCHANGED <<pc, row, due, tries, accepted>>
    BY DEF StartRun
<1>4. /\ run'[r] = Working(b)
      /\ \A q \in Runs : q # r => run'[q] = run[q]
    BY <1>2 DEF WebhookInv, DeliveriesTyped
<1>5. DeliveriesTyped'
    BY <1>1, <1>2, <1>3 DEF WebhookInv, DeliveriesTyped, Working, b
<1>6. BatchesGoOn'
    BY <1>1, <1>4 DEF WebhookInv, BatchesGoOn, Working, b
<1>6a. BatchesAreQueued'
    <2> SUFFICES ASSUME NEW q \in Runs, NEW d \in ToSet(run'[q].batch)
                 PROVE  row[d].status # "none"
        BY <1>3 DEF BatchesAreQueued
    <2>1. CASE q = r
        <3>1. d \in ToSet(b)
            BY <1>4, <2>1 DEF Working
        <3> QED
            BY <1>1, <3>1 DEF b, Pending
    <2>2. CASE q # r
        <3>1. run'[q] = run[q]
            BY <1>4, <2>2
        <3>2. d \in ToSet(run[q].batch)
            BY <3>1, Zenon
        <3> QED
            BY <3>2 DEF WebhookInv, BatchesAreQueued
    <2> QED
        BY <2>1, <2>2
<1>7. QueuedWhenDone' /\ DeliveredWasAccepted' /\ GivesUpOnlyWhenSpent'
    BY <1>3 DEF WebhookInv, QueuedWhenDone, DeliveredWasAccepted, GivesUpOnlyWhenSpent
<1>8. SuccessWasAccepted' /\ ReadWasTried'
    BY <1>3, <1>4 DEF WebhookInv, SuccessWasAccepted, ReadWasTried, Working, Current
<1>9. LeavesTheSettled
    <2> SUFFICES ASSUME NEW d \in Deliveries, ~ Held(d),
                        row[d].status \in {"delivered", "failed_permanently"}
                 PROVE  \A q \in Runs : d \notin ToSet(run'[q].batch)
        BY <1>3 DEF LeavesTheSettled, Held
    <2> TAKE q \in Runs
    <2>1. d \notin ToSet(b)
        BY <1>1 DEF b, Pending
    <2>2. run'[r].batch = b
        BY <1>4 DEF Working
    <2>3. CASE q = r
        BY <2>1, <2>2, <2>3
    <2>4. CASE q # r
        <3>1. run'[q].batch = run[q].batch /\ d \notin ToSet(run[q].batch)
            BY <1>4, <2>4 DEF Held
        <3> QED
            BY <3>1
    <2> QED
        BY <2>3, <2>4
<1> QED
    BY <1>5, <1>6, <1>6a, <1>7, <1>8, <1>9 DEF WebhookInv

LEMMA RunIsCut ==
    ASSUME WebhookInv, NEW r \in Runs, RunCut(r)
    PROVE  WebhookInv' /\ LeavesTheSettled
<1>1. run' = [run EXCEPT ![r] = Idle] /\ UNCHANGED <<pc, row, due, tries, accepted>>
    BY DEF RunCut
<1>2. /\ run'[r] = Idle
      /\ \A q \in Runs : q # r => run'[q] = run[q]
    BY <1>1 DEF WebhookInv, DeliveriesTyped
<1>3. DeliveriesTyped'
    BY <1>1 DEF WebhookInv, DeliveriesTyped, Idle
<1>4. BatchesGoOn' /\ SuccessWasAccepted' /\ ReadWasTried'
    BY <1>1, <1>2 DEF WebhookInv, BatchesGoOn, SuccessWasAccepted, ReadWasTried, Idle, Current
<1>5. QueuedWhenDone' /\ DeliveredWasAccepted' /\ GivesUpOnlyWhenSpent'
    BY <1>1 DEF WebhookInv, QueuedWhenDone, DeliveredWasAccepted, GivesUpOnlyWhenSpent
<1>6. \A q \in Runs : ToSet(run'[q].batch) \subseteq ToSet(run[q].batch)
    <2> TAKE q \in Runs
    <2>1. CASE q = r
        <3>1. run'[q].batch = <<>>
            BY <1>2, <2>1 DEF Idle
        <3>2. ToSet(<<>>) = {}
            BY DEF ToSet
        <3> QED
            BY <3>1, <3>2
    <2>2. CASE q # r
        <3>1. run'[q].batch = run[q].batch
            BY <1>2, <2>2
        <3> QED
            BY <3>1
    <2> QED
        BY <2>1, <2>2
<1>7. LeavesTheSettled
    BY <1>1, <1>6, NotHeldAnew DEF LeavesTheSettled
<1>8. BatchesAreQueued'
    BY <1>1, <1>6 DEF WebhookInv, BatchesAreQueued
<1> QED
    BY <1>3, <1>4, <1>5, <1>7, <1>8 DEF WebhookInv

LEMMA RequestEnqueues ==
    ASSUME WebhookInv, NEW d \in Deliveries, EnqueueWebhookRetry(d)
    PROVE  WebhookInv' /\ LeavesTheSettled
<1>1. /\ pc[d] = "enqueue" /\ row' = [row EXCEPT ![d] = Queued] /\ pc' = [pc EXCEPT ![d] = "done"]
      /\ UNCHANGED <<due, run, tries, accepted>>
    BY DEF EnqueueWebhookRetry, Reach
<1>2. row[d].status = "none"
    BY <1>1 DEF WebhookInv, QueuedWhenDone
<1>3. DeliveriesTyped'
    BY <1>1 DEF WebhookInv, DeliveriesTyped, Queued
<1>4. BatchesGoOn' /\ SuccessWasAccepted' /\ ReadWasTried'
    BY <1>1 DEF WebhookInv, BatchesGoOn, SuccessWasAccepted, ReadWasTried, Current
<1>8. BatchesAreQueued'
    <2> SUFFICES ASSUME NEW r \in Runs, NEW q \in ToSet(run[r].batch)
                 PROVE  row'[q].status # "none"
        BY <1>1 DEF BatchesAreQueued
    <2>1. row[q].status # "none"
        BY DEF WebhookInv, BatchesAreQueued
    <2>2. row'[q] = row[q] \/ row'[q] = Queued
        BY <1>1 DEF WebhookInv, DeliveriesTyped
    <2> QED
        BY <2>1, <2>2 DEF Queued
<1>5. QueuedWhenDone'
    BY <1>1 DEF WebhookInv, DeliveriesTyped, QueuedWhenDone
<1>6. DeliveredWasAccepted' /\ GivesUpOnlyWhenSpent'
    BY <1>1 DEF WebhookInv, DeliveriesTyped, DeliveredWasAccepted, GivesUpOnlyWhenSpent, Queued
<1>7. LeavesTheSettled
    BY <1>1, <1>2 DEF LeavesTheSettled, Held, WebhookInv, DeliveriesTyped
<1> QED
    BY <1>3, <1>4, <1>5, <1>6, <1>7, <1>8 DEF WebhookInv

LEMMA RowFallsDue ==
    ASSUME WebhookInv, NEW d \in Deliveries, BecomeDue(d)
    PROVE  WebhookInv' /\ LeavesTheSettled
<1>1. due' \in Seq(Deliveries) /\ UNCHANGED <<pc, row, run, tries, accepted>>
    BY DEF BecomeDue, WebhookInv, DeliveriesTyped
<1> QED
    BY <1>1 DEF WebhookInv, DeliveriesTyped, BatchesGoOn, BatchesAreQueued, QueuedWhenDone,
                SuccessWasAccepted, ReadWasTried, DeliveredWasAccepted, GivesUpOnlyWhenSpent, LeavesTheSettled,
                Held, Current

LEMMA RequestSteps ==
    ASSUME WebhookInv, NEW d \in Deliveries,
           \/ \E a \in Apps : Dispatch(d, a)
           \/ \E o \in Outcomes : FirstPost(d, o)
           \/ RecordDelivery(d) \/ RequestCut(d)
    PROVE  WebhookInv' /\ LeavesTheSettled
<1>0. /\ accepted = [accepted EXCEPT ![d] = accepted[d] + 0]
      /\ accepted[d] \in Nat
    BY DEF WebhookInv, DeliveriesTyped
<1>1. /\ pc[d] # "done"
      /\ \E p \in {"post", "good", "bad", "enqueue", "done"} : pc' = [pc EXCEPT ![d] = p]
      /\ \E k \in Nat : accepted' = [accepted EXCEPT ![d] = accepted[d] + k]
      /\ UNCHANGED <<row, due, run, tries>>
    <2>1. CASE \E a \in Apps : Dispatch(d, a)
        BY <1>0, <2>1 DEF Dispatch, Reach
    <2>2. ASSUME NEW o \in Outcomes, FirstPost(d, o)
          PROVE  <1>1!:
        <3>1. accepted' = [accepted EXCEPT ![d] = accepted[d] + IF o.got THEN 1 ELSE 0]
            BY <1>0, <2>2 DEF FirstPost, Accept
        <3> QED
            BY <2>2, <3>1 DEF FirstPost, Reach
    <2>3. CASE RecordDelivery(d)
        BY <1>0, <2>3 DEF RecordDelivery, Reach
    <2>4. CASE RequestCut(d)
        <3>1. pc[d] # "done" /\ pc' = [pc EXCEPT ![d] = "done"] /\ UNCHANGED <<row, due, run, tries, accepted>>
            BY <2>4 DEF RequestCut, Reach
        <3> QED
            BY <1>0, <3>1
    <2> QED
        BY <2>1, <2>2, <2>3, <2>4
<1> QED
    BY <1>1, RequestsAside

LEMMA RunSteps ==
    ASSUME WebhookInv, NEW r \in Runs, Run(r)
    PROVE  WebhookInv' /\ LeavesTheSettled
<1> DEFINE c == Current(r)
<1>1. run[r].at # "idle"
    BY DEF Run, HookPresent, HookMissing, PostRetry, RecordSuccess, ReadAttempts, GiveUp, Reschedule
<1>2. /\ c \in Deliveries /\ run[r].ok \in BOOLEAN /\ run[r].seen \in Nat
      /\ accepted[c] \in Nat /\ tries[c] \in Nat /\ row[c].attempts \in Nat
      /\ accepted = [accepted EXCEPT ![c] = accepted[c] + 0]
    <2>1. /\ c \in Deliveries /\ accepted[c] \in Nat /\ tries[c] \in Nat /\ row[c].attempts \in Nat
          /\ run[r].seen \in Nat
        BY <1>1, RunFacts
    <2> HIDE DEF c
    <2>2. run[r].ok \in BOOLEAN
        BY DEF WebhookInv, DeliveriesTyped
    <2>3. accepted = [accepted EXCEPT ![c] = accepted[c] + 0]
        BY <2>1 DEF WebhookInv, DeliveriesTyped
    <2> QED
        BY <2>1, <2>2, <2>3
<1>3. run[r] = [at |-> run[r].at, batch |-> run[r].batch, ok |-> run[r].ok, seen |-> run[r].seen]
    BY DEF WebhookInv, DeliveriesTyped
<1>4. CASE HookPresent(r)
    <2>1. run' = [run EXCEPT ![r].at = "post", ![r].ok = run[r].ok, ![r].seen = run[r].seen]
        <3>1. /\ run' = [run EXCEPT ![r].at = "post"]
              /\ run \in [Runs -> [at : {"idle", "hook", "post", "record", "write"},
                                   batch : Seq(Deliveries), ok : BOOLEAN, seen : Nat]]
            BY <1>4 DEF HookPresent, WebhookInv, DeliveriesTyped
        <3> QED
            BY <3>1
    <2>2. UNCHANGED <<pc, row, due, tries>> /\ accepted' = [accepted EXCEPT ![c] = accepted[c] + 0]
        BY <1>2, <1>4 DEF HookPresent
    <2> QED
        BY <1>1, <1>2, <2>1, <2>2, RunsOn
<1>5. CASE HookMissing(r)
    <2>1. run' = [run EXCEPT ![r].at = "record", ![r].ok = FALSE, ![r].seen = run[r].seen]
        BY <1>2, <1>5 DEF HookMissing, WebhookInv, DeliveriesTyped
    <2>2. UNCHANGED <<pc, row, due, tries>> /\ accepted' = [accepted EXCEPT ![c] = accepted[c] + 0]
        BY <1>2, <1>5 DEF HookMissing
    <2> QED
        BY <1>1, <1>2, <2>1, <2>2, RunsOn
<1>6. ASSUME NEW o \in Outcomes, PostRetry(r, o)
      PROVE  WebhookInv' /\ LeavesTheSettled
    <2> DEFINE k == IF o.got THEN 1 ELSE 0
    <2>1. run' = [run EXCEPT ![r].at = "record", ![r].ok = o.ok, ![r].seen = run[r].seen]
        BY <1>2, <1>6 DEF PostRetry, WebhookInv, DeliveriesTyped
    <2>2. UNCHANGED <<pc, row, due, tries>> /\ accepted' = [accepted EXCEPT ![c] = accepted[c] + k]
        BY <1>2, <1>6 DEF PostRetry, Accept
    <2>3. o.ok \in BOOLEAN /\ (o.ok => o.got)
        <3>1. \/ o = [got |-> FALSE, ok |-> FALSE] \/ o = [got |-> TRUE, ok |-> FALSE]
              \/ o = [got |-> TRUE, ok |-> TRUE]
            BY DEF Outcomes, NotPosted, AnswerLost
        <3>2. CASE o = [got |-> FALSE, ok |-> FALSE]
            BY <3>2
        <3>3. CASE o = [got |-> TRUE, ok |-> FALSE]
            BY <3>3
        <3>4. CASE o = [got |-> TRUE, ok |-> TRUE]
            BY <3>4
        <3> QED
            BY <3>1, <3>2, <3>3, <3>4
    <2>4. k \in Nat /\ (o.ok => accepted[c] + k >= 1)
        BY <1>2, <2>3
    <2> HIDE DEF k, c
    <2> QED
        BY <1>1, <1>2, <2>1, <2>2, <2>3, <2>4, RunsOn DEF c
<1>7. CASE ReadAttempts(r)
    <2>1. run' = [run EXCEPT ![r].at = "write", ![r].ok = run[r].ok, ![r].seen = row[c].attempts]
        BY <1>2, <1>7 DEF ReadAttempts, WebhookInv, DeliveriesTyped
    <2>2. UNCHANGED <<pc, row, due, tries>> /\ accepted' = [accepted EXCEPT ![c] = accepted[c] + 0]
        BY <1>2, <1>7 DEF ReadAttempts
    <2>3. row[c].attempts <= tries[c]
        BY <1>1, RunFacts
    <2> QED
        BY <1>1, <1>2, <2>1, <2>2, <2>3, RunsOn
<1>8. /\ row[c].status # "none"
      /\ row[c].status = "delivered" => accepted[c] >= 1
      /\ row[c].status = "failed_permanently" => tries[c] >= MaxAttempts
      /\ row[c].attempts <= tries[c]
      /\ row[c] \in [status : {"none", "pending", "delivered", "failed_permanently"}, attempts : Nat]
    BY <1>1, RunFacts DEF WebhookInv, DeliveriesTyped
<1>9. CASE RecordSuccess(r)
    <2> DEFINE w == [row[c] EXCEPT !.status = "delivered"]
    <2>1. row' = [row EXCEPT ![c] = w] /\ NextRow(r) /\ UNCHANGED <<pc, due, accepted>>
        BY <1>9 DEF RecordSuccess
    <2>2. /\ w \in [status : {"none", "pending", "delivered", "failed_permanently"}, attempts : Nat]
          /\ w.status = "delivered" /\ w.attempts = row[c].attempts
        BY <1>8
    <2>3. accepted[c] >= 1
        BY <1>9 DEF RecordSuccess, WebhookInv, SuccessWasAccepted
    <2>5. w.attempts <= tries[c] + 1
        BY <1>2, <1>8, <2>2
    <2>6. due' \in Seq(Deliveries)
        BY <2>1 DEF WebhookInv, DeliveriesTyped
    <2> HIDE DEF w, c
    <2> QED
        BY <1>1, <2>1, <2>2, <2>3, <2>5, <2>6, RunsToNext DEF c
<1>10. /\ run[r].at = "write" => run[r].seen <= tries[c]
       /\ run[r].seen + 1 \in Nat /\ tries[c] + 1 \in Nat /\ MaxAttempts \in Nat
    BY <1>2 DEF WebhookInv, ReadWasTried
<1>11. CASE GiveUp(r)
    <2> DEFINE w == [status |-> "failed_permanently", attempts |-> run[r].seen + 1]
    <2>1. /\ row' = [row EXCEPT ![c] = w] /\ NextRow(r) /\ UNCHANGED <<pc, due, accepted>>
          /\ run[r].at = "write" /\ run[r].seen + 1 >= MaxAttempts
        BY <1>11 DEF GiveUp, Exhausted
    <2>2. /\ w \in [status : {"none", "pending", "delivered", "failed_permanently"}, attempts : Nat]
          /\ w.status = "failed_permanently" /\ w.attempts = run[r].seen + 1
        BY <1>10
    <2>3. w.attempts <= tries[c] + 1 /\ tries[c] + 1 >= MaxAttempts
        BY <1>2, <1>10, <2>1, <2>2
    <2>4. due' \in Seq(Deliveries)
        BY <2>1 DEF WebhookInv, DeliveriesTyped
    <2> HIDE DEF w, c
    <2> QED
        BY <1>1, <2>1, <2>2, <2>3, <2>4, RunsToNext DEF c
<1>12. CASE Reschedule(r)
    <2> DEFINE w == [row[c] EXCEPT !.attempts = run[r].seen + 1]
    <2>1. /\ row' = [row EXCEPT ![c] = w] /\ NextRow(r) /\ UNCHANGED <<pc, accepted>>
          /\ run[r].at = "write" /\ due' = Only(due, Deliveries \ {c})
        BY <1>12 DEF Reschedule
    <2>2. /\ w \in [status : {"none", "pending", "delivered", "failed_permanently"}, attempts : Nat]
          /\ w.status = row[c].status /\ w.attempts = run[r].seen + 1
        BY <1>8, <1>10
    <2>3. w.attempts <= tries[c] + 1
        BY <1>2, <1>10, <2>1, <2>2
    <2>4. w.status = "failed_permanently" => tries[c] + 1 >= MaxAttempts
        BY <1>2, <1>8, <1>10, <2>2
    <2>5. due' \in Seq(Deliveries)
        <3>1. Only(due, Deliveries \ {c}) \in Seq(Deliveries \cap (Deliveries \ {c}))
            BY OnlySelects DEF WebhookInv, DeliveriesTyped
        <3>2. Deliveries \cap (Deliveries \ {c}) \subseteq Deliveries
            OBVIOUS
        <3> QED
            BY <2>1, <3>1, <3>2
    <2> HIDE DEF w, c
    <2> QED
        BY <1>1, <1>8, <2>1, <2>2, <2>3, <2>4, <2>5, RunsToNext DEF c
<1> QED
    BY <1>4, <1>5, <1>6, <1>7, <1>9, <1>11, <1>12 DEF Run

LEMMA WebhookStep ==
    ASSUME WebhookInv, [WebhookNext]_webhookVars
    PROVE  WebhookInv' /\ LeavesTheSettled
<1>1. CASE (\E a \in Apps : SaveWebhook(a) \/ DeleteWebhook(a)) \/ Done \/ UNCHANGED webhookVars
    BY <1>1, HooksAside DEF SaveWebhook, DeleteWebhook, Done, webhookVars
<1>2. CASE \E d \in Deliveries :
              \/ \E a \in Apps : Dispatch(d, a)
              \/ \E o \in Outcomes : FirstPost(d, o)
              \/ RecordDelivery(d) \/ EnqueueWebhookRetry(d) \/ RequestCut(d) \/ BecomeDue(d)
    BY <1>2, RequestSteps, RequestEnqueues, RowFallsDue
<1>3. CASE \E r \in Runs : StartRun(r) \/ Run(r) \/ RunCut(r)
    BY <1>3, RunStarts, RunSteps, RunIsCut
<1> QED
    BY <1>1, <1>2, <1>3 DEF WebhookNext

LEMMA WebhookInvariant == WebhookSpec => []WebhookInv
<1>1. WebhookInv /\ [WebhookNext]_webhookVars => WebhookInv'
    BY WebhookStep
<1> QED
    BY <1>1, WebhookInitially, PTL DEF WebhookSpec

(* What the queue says was delivered was accepted by the endpoint, with any number of
   overlapping runs cut anywhere: RecordSuccess writes it only after a POST that was
   answered, and no other statement does. *)
THEOREM WebhookDeliveredWasAccepted == WebhookSpec => []DeliveredWasAccepted
    BY WebhookInvariant, PTL DEF WebhookInv

(* A row is given up only after MaxAttempts attempts were made, and never counts more
   than were: an attempts column read by several runs at once can only fall behind. *)
THEOREM WebhookGivesUpOnlyWhenSpent == WebhookSpec => []GivesUpOnlyWhenSpent
    BY WebhookInvariant, PTL DEF WebhookInv

(* A settled row in nobody's batch is settled for good: get_due_webhook_retries takes only
   pending rows, and the request of a delivery with a row is over. *)
THEOREM WebhookSettledIsLeftAlone == WebhookSpec => SettledIsLeftAlone
<1>1. WebhookInv /\ [WebhookNext]_webhookVars =>
          [\A d \in Deliveries :
              row[d].status \in {"delivered", "failed_permanently"} /\ ~ Held(d) =>
                  row'[d] = row[d] /\ accepted'[d] = accepted[d] /\ ~ Held(d)']_webhookVars
    BY WebhookStep DEF LeavesTheSettled
<1> QED
    BY <1>1, WebhookInvariant, PTL DEF WebhookSpec, SettledIsLeftAlone
================================================================================
