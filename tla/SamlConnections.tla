----------------------------- MODULE SamlConnections -----------------------------
(***************************************************************************)
(* Enterprise sign-on: one connection per email domain in the table        *)
(* cgc_saml_connections (database.py), drafted, tested and activated by    *)
(* the domain's own accounts or set by an administrator (main.py), and     *)
(* used by the sign-on routes (saml_sso.py).                               *)
(*                                                                         *)
(* Every route runs one statement on the table, except the one that takes  *)
(* the assertion (saml_acs): it reads the connection, awaits the form, and *)
(* only then records the test or signs the caller in.  The caller of the   *)
(* other routes is authenticated by what its session says, which is in     *)
(* Accounts; here it is the domain it belongs to.                          *)
(***************************************************************************)
EXTENDS Naturals

CONSTANTS
    Domains,
    SsoHandlers,   \* requests that bring an assertion, in any instance
    Metadata,      \* what a customer may paste: entity id, URL and certificate
    Works,         \* the metadata that validates the provider's assertions
    NoConnection

ASSUME MetadataAssumption == Works \subseteq Metadata

VARIABLES
    connection,  \* the row of each domain
    acs,         \* the assertion each handler is taking
    overtaken    \* history: domains whose row was deleted under a test

samlVars == <<connection, acs, overtaken>>

\* byOperator is history: the row was last written by an administrator.
Connection == [metadata : Metadata, active : BOOLEAN, verified : BOOLEAN,
               byOperator : BOOLEAN]
ASSUME NoConnectionAssumption == NoConnection \notin Connection

Taking == [domain : Domains, read : Connection]
None == [domain |-> "none"]

Draft(m) == [metadata |-> m, active |-> FALSE, verified |-> FALSE, byOperator |-> FALSE]

SamlInit ==
    /\ connection = [d \in Domains |-> NoConnection]
    /\ acs = [p \in SsoHandlers |-> None]
    /\ overtaken = {}

Exists(d) == connection[d] # NoConnection
Put(d, row) == connection' = [connection EXCEPT ![d] = row]

\* Mutant: a draft replaces the one that is there.
CreateOrReplaceDraft(d, m) ==
    /\ Put(d, Draft(m))
    /\ UNCHANGED <<acs, overtaken>>

\* POST /tenants/saml-connections by an account of the domain: inserts or does nothing.
CreateDraft(d, m) ==
    /\ ~Exists(d)
    /\ Put(d, Draft(m))
    /\ UNCHANGED <<acs, overtaken>>

\* POST /admin/saml-connections: an upsert, live at once.  A test that the old
\* metadata passed stays on the row.
Save(d, m) ==
    /\ Put(d, [metadata |-> m, active |-> TRUE, byOperator |-> TRUE,
               verified |-> Exists(d) /\ connection[d].verified])
    /\ UNCHANGED <<acs, overtaken>>

\* Mutant: the test is not asked for.
\* POST .../activate: WHERE test_verified_at IS NOT NULL.
Activate(d) ==
    /\ Exists(d) /\ connection[d].verified
    /\ Put(d, [connection[d] EXCEPT !.active = TRUE])
    /\ UNCHANGED <<acs, overtaken>>

\* DELETE /tenants/saml-connections/{domain}
Delete(d) ==
    /\ Exists(d)
    /\ Put(d, NoConnection)
    /\ overtaken' = IF \E p \in SsoHandlers : acs[p] # None /\ acs[p].domain = d
                    THEN overtaken \cup {d} ELSE overtaken
    /\ UNCHANGED acs

(***************************************************************************)
(* POST /auth/saml/{domain}/acs                                            *)
(***************************************************************************)

\* The row is read, active or not; none is a 404.
TakeAssertion(p, d) ==
    /\ acs[p] = None
    /\ Exists(d)
    /\ acs' = [acs EXCEPT ![p] = [domain |-> d, read |-> connection[d]]]
    /\ UNCHANGED <<connection, overtaken>>

Done(p) == acs' = [acs EXCEPT ![p] = None]

\* The signature, the audience or the domain of the email is not as it must be.
Reject(p) ==
    /\ acs[p] # None
    /\ Done(p)
    /\ UNCHANGED <<connection, overtaken>>

\* Mutant: whatever came back from the provider counts as a test.
RecordAnyTest(p) ==
    /\ acs[p] # None
    /\ ~acs[p].read.active
    /\ LET d == acs[p].domain
       IN  IF Exists(d) THEN Put(d, [connection[d] EXCEPT !.verified = TRUE])
           ELSE UNCHANGED connection
    /\ Done(p)
    /\ UNCHANGED overtaken

\* A draft was read: the assertion is a test of it, recorded on the row the domain
\* has by now.
RecordTest(p) ==
    /\ acs[p] # None
    /\ acs[p].read.metadata \in Works
    /\ ~acs[p].read.active
    /\ LET d == acs[p].domain
       IN  IF Exists(d) THEN Put(d, [connection[d] EXCEPT !.verified = TRUE])
           ELSE UNCHANGED connection
    /\ Done(p)
    /\ UNCHANGED overtaken

\* A live connection was read: the sign-in goes on as FederatedSignIn of Accounts.
Enter(p) ==
    /\ acs[p] # None
    /\ acs[p].read.metadata \in Works
    /\ acs[p].read.active
    /\ Done(p)
    /\ UNCHANGED <<connection, overtaken>>

SamlNext ==
    \/ \E d \in Domains, m \in Metadata : CreateDraft(d, m) \/ Save(d, m)
    \/ \E d \in Domains : Activate(d) \/ Delete(d)
    \/ \E p \in SsoHandlers, d \in Domains : TakeAssertion(p, d)
    \/ \E p \in SsoHandlers : Reject(p) \/ RecordTest(p) \/ Enter(p)

SamlSpec == SamlInit /\ [][SamlNext]_samlVars
------------------------------------------------------------------------------
(***************************************************************************)
(* Properties                                                              *)
(***************************************************************************)
SamlTypeOK ==
    /\ connection \in [Domains -> Connection \cup {NoConnection}]
    /\ acs \in [SsoHandlers -> Taking \cup {None}]
    /\ overtaken \subseteq Domains

\* A live connection that no operator wrote.
SelfServed(d) == Exists(d) /\ connection[d].active /\ ~connection[d].byOperator

\* What the test before activation is for: a connection a customer made live works,
\* unless the draft under test was deleted before the test was recorded.
LiveConnectionWorks ==
    \A d \in Domains \ overtaken : SelfServed(d) => connection[d].metadata \in Works

\* A row is replaced under its users by an operator only: a customer deletes it first.
\* So a draft that lost the race for the domain never becomes its connection.
RowsAreNotOverwritten ==
    [][\A d \in Domains :
          Exists(d) /\ Exists(d)' /\ connection[d].metadata # connection[d]'.metadata
             => connection[d]'.byOperator]_samlVars
==============================================================================
