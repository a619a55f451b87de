-------------------------------- MODULE KeyVault --------------------------------
(***************************************************************************)
(* SCM (scmmodule.py): the keys of each tenant and the records of what was  *)
(* signed and encrypted with them, in one process with its SQLite file.     *)
(*                                                                         *)
(* All of SCM shares one connection: a transaction begins with the first    *)
(* statement that writes and ends with the next commit, whoever commits.  A *)
(* commit that fails (a locked file, a full disk) raises, and leaves the    *)
(* transaction open or rolls it back; if it stays open, the commit of the   *)
(* next operation stores what the failed one had written.                   *)
(*                                                                         *)
(* A tenant's data key is in memory only.  It comes from the KMS the process *)
(* started with: AWS when it is configured and its client could be made,    *)
(* else one in the process itself, which falls in silently.                 *)
(***************************************************************************)
EXTENDS Integers, FiniteSets

CONSTANTS
    Tenants,
    Signatures,     \* bound: the signatures ever made
    Ciphertexts,    \* bound: the ciphertexts ever made
    MaxVersion,     \* bound: versions of a tenant's key
    AwsConfigured,  \* AWS_KMS_MASTER_KEY_ID is set
    Unknown         \* a tenant that is not registered in this process

ASSUME KeyVaultAssumption == MaxVersion \in Nat \ {0} /\ AwsConfigured \in BOOLEAN

VARIABLES
    kms,         \* the KMS of this process
    stored,      \* the tables as committed
    seen,        \* the tables as the connection sees them
    memory,      \* tenant_keys: the tenants this process knows
    signed,      \* the signatures handed out
    encrypted,   \* the ciphertexts handed out
    torn         \* history: tenants whose registration was not committed, in this process

vaultVars == <<kms, stored, seen, memory, signed, encrypted, torn>>

\* keys: version of the row in tenant_keys, 0 for none.  signatures: signature_ledger.
\* audits, nodes: what encryption_audit and merkle_chain have of each ciphertext.  The verdicts of
\* compliance_verification are left out: nothing but a report reads them.
Tables == [keys : [Tenants -> 0 .. MaxVersion], signatures : SUBSET Signatures,
           audits : SUBSET Ciphertexts, nodes : SUBSET Ciphertexts]

\* usable: the data key itself is there.
Known == [usable : BOOLEAN, version : 1 .. MaxVersion]
ASSUME UnknownAssumption == Unknown \notin Known

Providers == {"aws", "local"}

\* _init_kms_provider: AWS that cannot be reached for is replaced.
ChosenProviders == IF AwsConfigured THEN Providers ELSE {"local"}

\* A data key of AWS is 32 raw bytes, which Fernet refuses; the local KMS makes Fernet keys.
MakesFernetKeys(provider) == provider = "local"

VaultInit ==
    /\ kms \in ChosenProviders
    /\ stored = [keys |-> [t \in Tenants |-> 0], signatures |-> {},
                 audits |-> {}, nodes |-> {}]
    /\ seen = stored
    /\ memory = [t \in Tenants |-> Unknown]
    /\ signed = {}
    /\ encrypted = {}
    /\ torn = {}

Committed(tables) == stored' = tables /\ seen' = tables

\* The statement raised, or its commit did; the transaction is open or rolled back.
NotCommitted(tables) == stored' = stored /\ seen' \in {tables, seen, stored}

NewKey(version) == [usable |-> MakesFernetKeys(kms), version |-> version]

------------------------------------------------------------------------------

\* register_tenant.  A row that is there already, and not in memory, is a primary key
\* violated: the call raises, then and whenever it is repeated.
Register(t) ==
    /\ memory[t] = Unknown /\ seen.keys[t] = 0
    /\ LET tables == [seen EXCEPT !.keys[t] = 1]
       IN  \/ /\ Committed(tables)
              /\ memory' = [memory EXCEPT ![t] = NewKey(1)]
              /\ UNCHANGED torn
           \/ /\ NotCommitted(tables)
              /\ torn' = torn \cup {t}
              /\ UNCHANGED memory
    /\ UNCHANGED <<kms, signed, encrypted>>

\* Mutant: the signature is returned without waiting for its record.
SignedUnrecorded(t, s) ==
    /\ memory[t] # Unknown
    /\ s \notin seen.signatures \cup signed
    /\ signed' = signed \cup {s}
    /\ seen' = [seen EXCEPT !.signatures = @ \cup {s}]
    /\ UNCHANGED stored

\* sign_data once the tenant is registered: the KMS signs with a key of its own.
Sign(t, s) ==
    /\ memory[t] # Unknown
    /\ s \notin seen.signatures \cup signed
    /\ signed' = signed \cup {s}
    /\ Committed([seen EXCEPT !.signatures = @ \cup {s}])

\* The record could not be committed: RuntimeError, no signature.  (The record of a
\* signature nobody has is left out.)
SignRaises(t) ==
    /\ memory[t] # Unknown
    /\ NotCommitted(seen)
    /\ UNCHANGED signed

\* verify_signature, which records its verdict.  (It gives the KMS what the caller passes
\* as the hash; the signature is over the data.)
VerifySignature(s) ==
    /\ s \in signed
    /\ Committed(seen) \/ NotCommitted(seen)
    /\ UNCHANGED <<kms, memory, signed, encrypted, torn>>

\* encrypt_data, with one layer or two: the audit record and the node of the chain are
\* commits of their own.
Encrypt(t, c) ==
    /\ memory[t] # Unknown /\ memory[t].usable   \* else KeyError or ValueError
    /\ c \notin encrypted
    /\ Committed([seen EXCEPT !.audits = @ \cup {c}, !.nodes = @ \cup {c}])
    /\ encrypted' = encrypted \cup {c}
    /\ UNCHANGED <<kms, memory, signed, torn>>

\* One of the two commits failed: RuntimeError.  (What they left of a ciphertext nobody has
\* is left out.)
EncryptRaises(t) ==
    /\ memory[t] # Unknown
    /\ Committed(seen) \/ NotCommitted(seen)
    /\ UNCHANGED <<kms, memory, signed, encrypted, torn>>

\* Mutant: the version is counted before the row is stored.
\* rotate_tenant_keys: the row counts from what is stored, memory from what it knows.
\* What the key before encrypted cannot be decrypted any more.
Rotate(t) ==
    /\ memory[t] # Unknown /\ seen.keys[t] < MaxVersion
    /\ LET tables == [seen EXCEPT !.keys[t] = @ + 1]
       IN  \/ /\ Committed(tables)
              /\ memory' = [memory EXCEPT ![t] = NewKey(@.version + 1)]
           \/ NotCommitted(tables) /\ UNCHANGED memory
    /\ UNCHANGED <<kms, signed, encrypted, torn>>

\* Mutant: what the file has is not read at the start.
NoKeysLoaded == [t \in Tenants |-> Unknown]

\* The process starts again: _load_tenant_keys reads the rows, which hold no data key
\* and no key_version.
LoadedKeys ==
    [t \in Tenants |-> IF stored.keys[t] = 0 THEN Unknown ELSE [usable |-> FALSE, version |-> 1]]

Restart ==
    /\ kms' \in ChosenProviders
    /\ seen' = stored
    /\ memory' = LoadedKeys
    /\ torn' = {}
    /\ UNCHANGED <<stored, signed, encrypted>>

\* What the rest of the service and its operators call.
VaultNext ==
    \/ \E t \in Tenants :
          \/ Register(t) \/ Rotate(t) \/ EncryptRaises(t)
          \/ \E c \in Ciphertexts : Encrypt(t, c)
          \/ /\ SignRaises(t) \/ \E s \in Signatures : Sign(t, s)
             /\ UNCHANGED <<kms, memory, encrypted, torn>>
    \/ \E s \in Signatures : VerifySignature(s)

------------------------------------------------------------------------------
(***************************************************************************)
(* Properties                                                              *)
(***************************************************************************)
VaultTypeOK ==
    /\ kms \in Providers
    /\ stored \in Tables /\ seen \in Tables
    /\ memory \in [Tenants -> Known \cup {Unknown}]
    /\ signed \subseteq Signatures
    /\ encrypted \subseteq Ciphertexts
    /\ torn \subseteq Tenants

\* A signature or a ciphertext is handed out only when its records are committed:
\* neither a commit that fails, then or later, nor a restart takes them back.
HandedOutIsStored ==
    /\ signed \subseteq stored.signatures
    /\ encrypted \subseteq stored.audits \cap stored.nodes

\* A tenant that cannot be registered any more in this process: nothing is signed for it.
Barred(t) == memory[t] = Unknown /\ seen.keys[t] > 0

\* Only a registration whose own commit failed bars its tenant, and a restart lifts it.
BarredByTornCommit == \A t \in Tenants : Barred(t) => t \in torn
==============================================================================
