---------------------------- MODULE MCDecisions ----------------------------
(***************************************************************************)
(* Every area at each of its three levels, with and without an owner, data *)
(* that is absent, poor or complete, and texts that help, harm or both;    *)
(* each of them on every combination of rows.                              *)
(***************************************************************************)
EXTENDS Decisions

\* Terms that raise a score in some area, closed under the substrings they contain.
Favourable ==
    {"audit", "log", "metadata", "documented", "customer", "approval", "verified",
     "confidential", "encryption", "encrypt", "kyc", "kycaml", "gdpr", "compliance",
     "review", "approved", "mfa", "secure"}

Texts == {{}, {"email"}, {"bias", "unfair"}, Favourable, Favourable \cup {"phone", "bias"}}

Data(fields, filled, words) ==
    [fields |-> fields, filled |-> filled, words |-> words,
     entities |-> fields > 1, excellent |-> filled = 10]

\* At the limit of LevelsAgree, and below it.
Datas == {Data(0, 0, {}), Data(10, 2, {})} \cup {Data(10, n, w) : n \in {4, 10}, w \in Texts}

Owner == [roles |-> {"analyst"}, scopes |-> {"read"}, owners |-> {"COMPLIANCE_OWNER"},
          capabilities |-> {"act"}]

Request(agent, scopes, action, area, sensitive, data) ==
    [agent |-> agent, roles |-> {"analyst"}, scopes |-> scopes, action |-> action,
     area |-> area, sensitive |-> sensitive, data |-> data]

\* The boundary of each level, and a count beyond the last.
Counts(area) == {0, LevelStarts(area).MEDIUM, LevelStarts(area).HIGH, LevelStarts(area).HIGH + 1}

MCRequests ==
    UNION {{Request(ag, {}, "act", area, n, d) :
              ag \in {NoAgent, Owner}, n \in Counts(area), d \in Datas} : area \in Areas}
    \cup {Request(NoAgent, {}, "act", "UNLISTED", 4, Data(10, 10, {})),
          Request(NoAgent, {"read"}, "act", "AUDIT", 0, Data(10, 10, {})),
          Request(Owner, {"write"}, "act", "AUDIT", 0, Data(10, 10, {})),
          Request(Owner, {"read"}, "other", "AUDIT", 0, Data(10, 10, {})),
          Request([Owner EXCEPT !.roles = {"clerk"}], {}, "act", "AUDIT", 0, Data(10, 10, {}))}

\* A tenant that turns enforcement off and approves everything, one that is stricter
\* than the matrix, and one whose weights do not add up to 1.
MCOverrides ==
    {Weighting(25, 25, 25, 25, 0, FALSE, FALSE), Weighting(60, 20, 10, 10, 95, TRUE, TRUE),
     Weighting(50, 50, 50, 50, 50, FALSE, FALSE)}

MCEditedPan == [patterns |-> TRUE]
MCEditedEcm == [FallbackEcm EXCEPT !.base.privacy = 99, !.bonus = 10, !.critical = {}]
MCEditedPfm == RiskModel(95, 110, {"kyc_verified", "aml_check", "amount_threshold", "privilege"})
MCEditedSda == [requirements |-> FALSE, factors |-> TRUE]
==============================================================================
