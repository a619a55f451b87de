------------------------------ MODULE Decisions ------------------------------
(***************************************************************************)
(* How one request becomes APPROVE, REQUIRE_HUMAN, REJECT or DENY:         *)
(* PreFilter extracts the facts, then PAN, ECM, PFM and SDA run in that    *)
(* order, each on the calibration row its loader serves it, and the loop   *)
(* weighs what they return.  A module that raises returns an error that    *)
(* the loop replaces by a default score; the cycle goes on.                *)
(*                                                                         *)
(* The guards before PreFilter, the quota, the audit row and the answer's  *)
(* way out are in GovernanceDecision; the numbers are in Scoring.          *)
(***************************************************************************)
EXTENDS Scoring

CONSTANTS
    Requests,    \* the requests that may arrive
    NoAgent,     \* the agent of a request that names none
    Overrides,   \* the weightings a tenant may have set for itself
    NoOverride,
    EditedPan, EditedEcm, EditedPfm, EditedSda  \* a row an administrator has rewritten

\* The fields of the data are counted, and so are those of them that are not empty;
\* its text is the set of words found in it.
DataRecords ==
    [fields : Nat, filled : Nat, words : SUBSET STRING, entities : BOOLEAN, excellent : BOOLEAN]

\* The sensitive domains a request names are counted too.
ASSUME DataAssumption == \A r \in Requests : r.sensitive \in Nat /\ r.data \in DataRecords

\* The critical factors are a list.  The code does not check the numbers: a risk below
\* zero would count as more than none.
ASSUME EditedPfmAssumption ==
    /\ IsFiniteSet(EditedPfm.factors)
    /\ EditedPfm.risk \in Nat
    /\ EditedPfm.multiplier \in Nat
    /\ EditedPfm.multiplier >= 15

\* The numbers of a row are numbers and it has a framework: one without raises.
ASSUME EditedEcmAssumption ==
    /\ IsFiniteSet(DOMAIN EditedEcm.base) /\ DOMAIN EditedEcm.base # {}
    /\ \A f \in DOMAIN EditedEcm.base : EditedEcm.base[f] \in Int
    /\ \A l \in Levels : EditedEcm.multiplier[l] \in Int /\ EditedEcm.threshold[l] \in Int
    /\ EditedEcm.bonus \in Int

VARIABLES
    pc,        \* the step that comes next
    req,       \* the request, as PreFilter passes it on
    kinds,     \* which row each module was served
    res,       \* what each module returned
    override,  \* the tenant's weighting found when the loop decided
    outcome

vars == <<pc, req, kinds, res, override, outcome>>

Modules == {"pan", "ecm", "pfm", "sda"}

\* As seeded, the loader's fallback after a query failed, rewritten by an
\* administrator, or rewritten so that the module raises: a PUT checks no value.
Kinds == {"Seeded", "Fallback", "Edited", "Unusable"}

NotRun == [failed |-> FALSE]
Failure == [failed |-> TRUE]

(***************************************************************************)
(* PreFilter                                                               *)
(***************************************************************************)

\* Mutant: an agent made up for the caller is permissive about its owners too.
AgentOfOwned(r) ==
    IF r.agent = NoAgent
    THEN [roles |-> r.roles, scopes |-> {}, owners |-> {"COMPLIANCE_OWNER"}, capabilities |-> {}]
    ELSE r.agent

\* Without an agent_id the caller's own roles make the agent.  An agent_id that names
\* no agent of the app is refused, as an agent without roles is.
AgentOf(r) ==
    IF r.agent = NoAgent
    THEN [roles |-> r.roles, scopes |-> {}, owners |-> {}, capabilities |-> {}]
    ELSE r.agent

\* No area blocks a domain, and the agent's status is reported, not judged.
Admitted(r) ==
    /\ r.roles \cap AgentOf(r).roles # {}
    /\ r.scopes \subseteq AgentOf(r).scopes
    /\ AgentOf(r).capabilities = {} \/ r.action \in AgentOf(r).capabilities

IdentifiedArea(area) == IF area \in Areas THEN area ELSE "DEFAULT"

\* What PreFilter passes on: the area, the count of sensitive domains, the owner.
Extracted(r) ==
    [area |-> IdentifiedArea(r.area), sensitive |-> r.sensitive,
     owner |-> "COMPLIANCE_OWNER" \in AgentOf(r).owners,
     registered |-> r.agent # NoAgent, data |-> r.data]

LevelOf(q) == SensitivityLevel(q.area, q.sensitive)

(***************************************************************************)
(* The four modules on a row of a kind                                     *)
(***************************************************************************)
RowOf(kind, seeded, fallback, edited) ==
    CASE kind = "Seeded" -> seeded [] kind = "Fallback" -> fallback [] kind = "Edited" -> edited

PanResult(kind, q) ==
    IF kind = "Unusable" THEN Failure
    ELSE [failed |-> FALSE,
          score |-> PanScore(RowOf(kind, SeedPan[q.area], FallbackPan, EditedPan), q.data, q.area)]

EcmModule(kind, q) ==
    IF kind = "Unusable" THEN Failure
    ELSE EcmResult(RowOf(kind, SeedEcm[q.area], FallbackEcm, EditedEcm),
                   q.data, q.area, LevelOf(q), q.owner)

PfmResult(kind, q) ==
    IF kind = "Unusable" THEN Failure
    ELSE [failed |-> FALSE,
          risk |-> RiskScore(RowOf(kind, SeedPfm[q.area], FallbackPfm, EditedPfm),
                             q.data, q.area, LevelOf(q))]

SdaResult(kind, q) ==
    LET row == RowOf(kind, SeedSda[q.area], FallbackSda, EditedSda)
    IN  IF kind = "Unusable" THEN Failure
        ELSE IF AdviceRaises(row) THEN Failure
        ELSE [failed |-> FALSE, count |-> Recommendations(row, q.data, LevelOf(q))]

(***************************************************************************)
(* The loop                                                                *)
(***************************************************************************)

\* The limits main.py puts on the weights a tenant sets.
ValidOverride(w) ==
    /\ \A x \in {w.ecm, w.pfm, w.pan, w.sda, w.threshold} : x \in 0 .. 100
    /\ w.ecm + w.pfm + w.pan + w.sda \in 98 .. 102

WeightsFor(ov, q) ==
    IF ov = NoOverride THEN WeightingMatrix[q.area][LevelOf(q)] ELSE ov

\* An ECM that failed reports no concerns.
CriticalViolation(ecm) == ~ecm.failed /\ ecm.critical

Decision(r4, ov, q) ==
    LET w == WeightsFor(ov, q)
    IN  Outcome(Aggregated(ModuleScores(r4.pan, r4.ecm, r4.pfm, r4.sda), w), w,
                CriticalViolation(r4.ecm), q.owner)
------------------------------------------------------------------------------
NoRequest == [area |-> "DEFAULT", sensitive |-> 0, owner |-> FALSE, registered |-> FALSE,
              data |-> [fields |-> 0, filled |-> 0, words |-> {},
                        entities |-> FALSE, excellent |-> FALSE]]

Init ==
    /\ pc = "idle"
    /\ req = NoRequest
    /\ kinds = [m \in Modules |-> "Seeded"]
    /\ res = [m \in Modules |-> NotRun]
    /\ override = NoOverride
    /\ outcome = "NONE"

\* PreFilter.evaluate: a DENY ends the request.
Receive(r) ==
    /\ pc = "idle"
    /\ req' = Extracted(r)
    /\ IF Admitted(r) THEN pc' = "pan" /\ outcome' = outcome
       ELSE pc' = "answered" /\ outcome' = "DENY"
    /\ UNCHANGED <<kinds, res, override>>

Run(module, next, kind, result) ==
    /\ pc = module
    /\ kinds' = [kinds EXCEPT ![module] = kind]
    /\ res' = [res EXCEPT ![module] = result]
    /\ pc' = next
    /\ UNCHANGED <<req, override, outcome>>

Analyze(kind) == Run("pan", "ecm", kind, PanResult(kind, req))
Calibrate(kind) == Run("ecm", "pfm", kind, EcmModule(kind, req))
Predict(kind) == Run("pfm", "sda", kind, PfmResult(kind, req))
Advise(kind) == Run("sda", "loop", kind, SdaResult(kind, req))

\* The override is looked up now; a lookup that fails is as none.
Decide(ov) ==
    /\ pc = "loop"
    /\ override' = ov
    /\ outcome' = Decision(res, ov, req)
    /\ pc' = "answered"
    /\ UNCHANGED <<req, kinds, res>>

\* The answer leaves, and the instance is ready for the next request.
Answer ==
    /\ pc = "answered"
    /\ pc' = "idle"
    /\ req' = NoRequest
    /\ kinds' = [m \in Modules |-> "Seeded"]
    /\ res' = [m \in Modules |-> NotRun]
    /\ override' = NoOverride
    /\ outcome' = "NONE"

Next ==
    \/ \E r \in Requests : Receive(r)
    \/ \E k \in Kinds : Analyze(k) \/ Calibrate(k) \/ Predict(k) \/ Advise(k)
    \/ \E ov \in {w \in Overrides : ValidOverride(w)} \cup {NoOverride} : Decide(ov)
    \/ Answer

Spec == Init /\ [][Next]_vars
------------------------------------------------------------------------------
(***************************************************************************)
(* Properties                                                              *)
(***************************************************************************)

\* Every score is in its range, and a request that was denied ran no module.
TypeOK ==
    /\ pc \in {"idle", "pan", "ecm", "pfm", "sda", "loop", "answered"}
    /\ req.area \in Areas
    /\ kinds \in [Modules -> Kinds]
    /\ outcome \in {"NONE", "DENY", "APPROVE", "REQUIRE_HUMAN", "REJECT"}
    /\ pc \in {"loop", "answered"} /\ outcome # "DENY" =>
          LET s == ModuleScores(res.pan, res.ecm, res.pfm, res.sda)
          IN  {s.pan, s.ecm, s.pfm, s.sda} \subseteq 0 .. 1000

\* A request the loop approved by the built-in weights.
Approved == pc = "answered" /\ outcome = "APPROVE" /\ override = NoOverride

\* What the loop would have decided had the request or a row been another.
Instead(ks, q) ==
    Decision([pan |-> PanResult(ks.pan, q), ecm |-> EcmModule(ks.ecm, q),
              pfm |-> PfmResult(ks.pfm, q), sda |-> SdaResult(ks.sda, q)], NoOverride, q)

\* An ECM that raised reports no concerns, so enforcement finds nothing: that its
\* default of .5 is too low for every threshold is all that then keeps a request
\* of a named area from being approved without an ethical evaluation.  (HEALTHCARE
\* is weighed as DEFAULT, whose thresholds are not too high.)
FailedEthicsNeverApproves ==
    Approved /\ res.ecm.failed => req.area \in {"DEFAULT", "HEALTHCARE"}

\* A request approved although ECM or PFM raised would have been approved by the
\* seeded row too: the defaults that stand in for a failure are not lenient.
FailureNeverHelps ==
    Approved => \A m \in {"ecm", "pfm"} :
        kinds[m] = "Unusable" => Instead([kinds EXCEPT ![m] = "Seeded"], req) = "APPROVE"

\* A row an administrator wrote may reward what it should not: a number below zero, or
\* a critical factor that is itself a term of personal data or of bias.
Sensible(ks) ==
    /\ ks.ecm = "Edited" => /\ \A f \in DOMAIN EditedEcm.base : EditedEcm.base[f] >= 0
                            /\ \A l \in Levels : EditedEcm.multiplier[l] >= 0
    /\ ks.pfm = "Edited" => EditedPfm.factors \cap (PiiTerms \cup BiasTerms) = {}

\* Where the weight moves from PAN to ECM and PFM, one more sensitive domain favours data
\* that is hardly filled: a RETAIL request with .2 of it is approved at MEDIUM, not at LOW.
LevelsAgree ==
    /\ \A m \in Modules : kinds[m] = "Seeded"
    /\ req.area \in {"RETAIL", "DEFAULT"} => res.pan.score >= 400

\* Exposed personal data and biased terms never turn a refusal into an approval.  When
\* every row is as seeded and the data is not nearly empty, neither do they together with
\* more sensitive domains, although the level changes the weights, the threshold, the
\* multipliers and what is enforced.
WorseRequestNeverHelps ==
    Approved /\ Sensible(kinds) =>
        LET counts == IF LevelsAgree THEN 0 .. req.sensitive ELSE {req.sensitive}
            texts == {req.data.words \ BiasTerms, req.data.words \ PiiTerms,
                      req.data.words \cup {"masked"}}
        IN  \A words \in texts, n \in counts :
                Instead(kinds, [req EXCEPT !.data.words = words, !.sensitive = n]) = "APPROVE"

\* Without a registered agent there is no owner to escalate to: a violation of a
\* critical framework is refused, and only a review required by the weights asks a human.
NoAgentNoEscalation ==
    pc = "answered" /\ outcome = "REQUIRE_HUMAN" /\ ~req.registered =>
        ~(CriticalViolation(res.ecm) /\ WeightsFor(override, req).enforce)
==============================================================================
