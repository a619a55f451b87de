------------------------------- MODULE Attestation -------------------------------
(***************************************************************************)
(* The end of a governance cycle in one process: the decision is signed     *)
(* (SCM), evaluated against the EU AI Act (ComplianceEngine), reported as a *)
(* PDF and logged; then its proof is sealed, its webhook posted and its     *)
(* answer sent (cgc_loop.py, compliance_engine.py, main.py).                *)
(*                                                                         *)
(* The cycle runs without an await, so nothing comes between its steps; the *)
(* three that follow it await, and other cycles run between them.  The      *)
(* evaluation is not in the response but in the profile of the industry,    *)
(* which the process keeps and the response refers to.                      *)
(***************************************************************************)
EXTENDS KeyVault

CONSTANTS
    Requests,
    Submissions,      \* the tenants that send requests, each with its industry
    Registered,       \* EU_AI_ACT_SYSTEM_REGISTERED
    None

ASSUME AttestationAssumption ==
    /\ Registered \in BOOLEAN /\ None \notin Requests \cup Signatures
    /\ \A s \in Submissions : s.tenant \in Tenants

VARIABLES
    request,    \* each request: where it is and what it holds
    profile,    \* the request whose evaluation each profile holds
    logged      \* the decisions in the audit trail

vars == <<kms, stored, seen, memory, signed, encrypted, torn,
          request, profile, logged>>
endVars == <<request, profile, logged>>

Profiles == {"banking", "healthcare"}
Steps == {"new", "sign", "evaluate", "report", "log", "seal", "post", "answer",
          "answered", "error"}

\* signature: None until signed.  counts: the numbers of the summary.  told: whose
\* evaluation was told last of the request, by its proof, its webhook or its answer.
Request ==
    [pc : Steps, tenant : Tenants, industry : {s.industry : s \in Submissions},
     signature : Signatures \cup {None}, counts : Nat \X Nat \X Nat,
     told : Requests \cup {None}]

New(s) ==
    [pc |-> "new", tenant |-> s.tenant, industry |-> s.industry, signature |-> None, counts |-> <<0, 0, 0>>,
     told |-> None]

Init ==
    /\ VaultInit
    /\ request \in [Requests -> {New(s) : s \in Submissions}]
    /\ profile = [i \in Profiles |-> None]
    /\ logged = {}

Goto(r, pc) == request' = [request EXCEPT ![r].pc = pc]

\* The request whose cycle is running, if there is one.
InCycle(r) == request[r].pc \in {"sign", "evaluate", "report", "log"}
Running == {r \in Requests : InCycle(r)}

(***************************************************************************)
(* ComplianceEngine                                                        *)
(***************************************************************************)
Requirements == {"data_representative", "transparency", "human_oversight",
                 "cybersecurity", "performance_logs", "ce_marking", "system_registry"}

\* The cycle has always put a reason and the scores of all modules on the artifact and
\* approves no critical violation (Decisions); without the audit trail there is no engine.
Status(req, requirement) ==
    CASE requirement \in {"data_representative", "ce_marking"} -> "MANUAL"
      [] requirement = "system_registry" -> IF Registered THEN "PASS" ELSE "MANUAL"
      [] requirement \in {"transparency", "human_oversight", "performance_logs"} -> "PASS"
      [] requirement = "cybersecurity" -> IF req.signature # None THEN "PASS" ELSE "FAIL"

Count(req, status) == Cardinality({q \in Requirements : Status(req, q) = status})

\* _generate_compliance_summary
Summary(req) == <<Count(req, "PASS"), Count(req, "FAIL"), Count(req, "MANUAL")>>

\* The profile of an industry that has none is that of banking.
ProfileOf(industry) == IF industry \in Profiles THEN industry ELSE "banking"

------------------------------------------------------------------------------
(***************************************************************************)
(* The cycle                                                               *)
(***************************************************************************)
BeginCycle(r) ==
    /\ request[r].pc = "new"
    /\ Running = {}
    /\ Goto(r, "sign")
    /\ UNCHANGED <<vaultVars, profile, logged>>

\* sign_artifact registers the tenant when the process does not know it.
RegisterTenant(r) ==
    /\ request[r].pc = "sign"
    /\ Register(request[r].tenant)
    /\ IF request[r].tenant \in torn' \ torn THEN Goto(r, "error") ELSE UNCHANGED request
    /\ UNCHANGED <<profile, logged>>

SignArtifact(r, s) ==
    /\ request[r].pc = "sign"
    /\ Sign(request[r].tenant, s)
    /\ request' = [request EXCEPT ![r].pc = "evaluate", ![r].signature = s]
    /\ UNCHANGED <<kms, memory, encrypted, torn, profile, logged>>

\* The tenant is barred, the KMS fails or the record is not committed: the answer is an
\* error, nothing was logged.
SignFails(r) ==
    /\ request[r].pc = "sign"
    /\ \/ UNCHANGED <<stored, seen, signed>>
       \/ SignRaises(request[r].tenant)
    /\ Goto(r, "error")
    /\ UNCHANGED <<kms, memory, encrypted, torn, profile, logged>>

\* Mutant: the profile is not chosen.
EvaluateBanking(r) ==
    /\ request[r].pc = "evaluate"
    /\ profile' = [profile EXCEPT !["banking"] = r]
    /\ request' = [request EXCEPT ![r].pc = "report", ![r].counts = Summary(request[r])]
    /\ UNCHANGED <<vaultVars, logged>>

\* validate_eu_ai_act: the numbers are the summary's, the checklist is the profile's.
Evaluate(r) ==
    /\ request[r].pc = "evaluate"
    /\ profile' = [profile EXCEPT ![ProfileOf(request[r].industry)] = r]
    /\ request' = [request EXCEPT ![r].pc = "report", ![r].counts = Summary(request[r])]
    /\ UNCHANGED <<vaultVars, logged>>

\* The report is signed as well.  (Its file is named for the second it is written in.)
Report(r, s) ==
    /\ request[r].pc = "report"
    /\ Sign(request[r].tenant, s)
    /\ Goto(r, "log")
    /\ UNCHANGED <<kms, memory, encrypted, torn, profile, logged>>

ReportFails(r) ==
    /\ request[r].pc = "report"
    /\ \/ UNCHANGED <<stored, seen, signed>>
       \/ SignRaises(request[r].tenant)
    /\ Goto(r, "log")
    /\ UNCHANGED <<kms, memory, encrypted, torn, profile, logged>>

\* Mutant: the decision is logged before it is signed.
LogFirst(r) ==
    /\ request[r].pc \in {"sign", "log"}
    /\ logged' = logged \cup {r}
    /\ IF request[r].pc = "log" THEN Goto(r, "seal") ELSE UNCHANGED request
    /\ UNCHANGED <<vaultVars, profile>>

\* log_decision; when it fails the cycle goes on all the same.
Log(r) ==
    /\ request[r].pc = "log"
    /\ logged' = logged \cup {r}
    /\ Goto(r, "seal")
    /\ UNCHANGED <<vaultVars, profile>>

LogFails(r) ==
    /\ request[r].pc = "log"
    /\ Goto(r, "seal")
    /\ UNCHANGED <<vaultVars, profile, logged>>

(***************************************************************************)
(* After the cycle                                                         *)
(***************************************************************************)
Evaluation(r) == profile[ProfileOf(request[r].industry)]

Tell(r, next, evaluation) ==
    request' = [request EXCEPT ![r].pc = next, ![r].told = evaluation]

\* seal_intercept hashes the response as it is when the call begins; without it, or when
\* it fails, there is no proof.
Seal(r) ==
    /\ request[r].pc = "seal"
    /\ Running = {}
    /\ Tell(r, "post", Evaluation(r)) \/ Goto(r, "post")
    /\ UNCHANGED <<vaultVars, profile, logged>>

\* The body of the webhook is made once the registration was read; an unknown application
\* has none.
Post(r) ==
    /\ request[r].pc = "post"
    /\ Running = {}
    /\ Tell(r, "answer", Evaluation(r)) \/ Goto(r, "answer")
    /\ UNCHANGED <<vaultVars, profile, logged>>

\* The endpoint has answered or the five seconds are over.
Respond(r) ==
    /\ request[r].pc = "answer"
    /\ Running = {}
    /\ Tell(r, "answered", Evaluation(r))
    /\ UNCHANGED <<vaultVars, profile, logged>>

\* The profiles go with the process, and so do its requests.
Crash ==
    /\ Restart
    /\ request' = [r \in Requests |->
           IF request[r].pc \in {"new", "answered"} THEN request[r]
           ELSE [request[r] EXCEPT !.pc = "error", !.told = None]]
    /\ profile' = [i \in Profiles |-> None]
    /\ UNCHANGED logged

\* POST /audit/seal and SCM's other callers, between cycles.
OtherCalls == Running = {} /\ VaultNext /\ UNCHANGED endVars

CycleStep(r) ==
    \/ BeginCycle(r) \/ RegisterTenant(r) \/ SignFails(r) \/ Evaluate(r)
    \/ \E s \in Signatures : SignArtifact(r, s) \/ Report(r, s)
    \/ ReportFails(r) \/ Log(r) \/ LogFails(r)

Next ==
    \/ \E r \in Requests : CycleStep(r) \/ Seal(r) \/ Post(r) \/ Respond(r)
    \/ OtherCalls \/ Crash

Spec == Init /\ [][Next]_vars
------------------------------------------------------------------------------
(***************************************************************************)
(* Properties                                                              *)
(***************************************************************************)
TypeOK ==
    /\ VaultTypeOK
    /\ request \in [Requests -> Request]
    /\ profile \in [Profiles -> Requests \cup {None}]
    /\ logged \subseteq Requests

\* A decision of the audit trail was signed and evaluated before: the ledger of
\* signatures still has its signature, whatever commit failed and whenever the process
\* died, and its evaluation failed no requirement, since what each checks was done.
LoggedIsAttested ==
    \A r \in logged :
        /\ request[r].signature \in stored.signatures
        /\ request[r].counts[1] > 0 /\ request[r].counts[2] = 0

SameProfile(q, r) == ProfileOf(request[q].industry) = ProfileOf(request[r].industry)

\* The evaluations a request's proof, webhook and answer refer to are of its own
\* profile, and change for good: once one was another request's, none is its own again.
EvaluationsChangeForGood ==
    [][\A r \in Requests : \A q \in Requests : request'[r].told = q =>
          /\ SameProfile(q, r)
          /\ q = r => request[r].told \in {r, None}]_vars
================================================================================
