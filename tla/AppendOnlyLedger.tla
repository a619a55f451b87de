-------------------------- MODULE AppendOnlyLedger --------------------------
(***************************************************************************)
(* What a sealed ledger promises, free of locks, blocks and hashes: an     *)
(* entry is appended at most once, at the end, and nothing already there   *)
(* ever changes; an entry is acknowledged only when it is there.           *)
(* The audit trail of the TCO module and each tenant's Proof-of-Decision   *)
(* chain are meant to implement it.                                        *)
(***************************************************************************)
EXTENDS Sequences

CONSTANT Entry

VARIABLES entries,  \* the ledger, oldest entry first
          acked     \* the entries whose writer was told they are sealed

vars == <<entries, acked>>

Recorded == {entries[i] : i \in DOMAIN entries}

Init == entries = <<>> /\ acked = {}

\* The acknowledgement may be lost, or come with the append.
Seal(e) ==
  /\ e \notin Recorded
  /\ entries' = Append(entries, e)
  /\ acked' \in {acked, acked \cup {e}}

Next == \E e \in Entry : Seal(e)

Spec == Init /\ [][Next]_vars
=============================================================================
