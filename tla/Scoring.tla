------------------------------- MODULE Scoring -------------------------------
(***************************************************************************)
(* The arithmetic of one governance decision: what the four scoring        *)
(* modules (PAN, ECM, PFM, SDA) make of a request under the calibration    *)
(* row each of them is served, and the weights the loop aggregates them    *)
(* with.  Pure definitions; the order of the steps is in Decisions.        *)
(*                                                                         *)
(* Numbers are integers: framework scores in millionths, module scores in  *)
(* thousandths (the code rounds them to three places), weights, factors    *)
(* and thresholds in hundredths.  A framework score is rounded down where  *)
(* a float is not: a comparison with a threshold of two places is the same *)
(* for both.  Text is the set of words the code looks for and finds in it. *)
(***************************************************************************)
EXTENDS Integers, FiniteSets, FiniteSetsExt

Areas == {"BANKING", "LEGAL", "RETAIL", "AUDIT", "FINANCE", "HEALTHCARE", "DEFAULT"}

Levels == {"LOW", "MEDIUM", "HIGH"}

AtMost(x, cap) == IF x > cap THEN cap ELSE x
AtLeast(x, floor) == IF x < floor THEN floor ELSE x

\* n/d rounded to the nearest integer; a tie goes up.
Rounded(n, d) == (2 * n + d) \div (2 * d)

\* The number of sensitive domains from which each level starts.
LevelStarts(area) ==
    CASE area \in {"BANKING", "FINANCE"} -> [MEDIUM |-> 1, HIGH |-> 3]
      [] area = "LEGAL"                  -> [MEDIUM |-> 1, HIGH |-> 2]
      [] OTHER                           -> [MEDIUM |-> 2, HIGH |-> 4]

\* Mutant: a level only at its very limit.
SensitivityLevelAtLimit(area, sensitive) ==
    CASE sensitive = LevelStarts(area).HIGH   -> "HIGH"
      [] sensitive = LevelStarts(area).MEDIUM -> "MEDIUM"
      [] OTHER                                -> "LOW"

\* The loop's copy; ECM, PAN, PFM and SDA each hold another with the same limits.
SensitivityLevel(area, sensitive) ==
    IF sensitive >= LevelStarts(area).HIGH THEN "HIGH"
    ELSE IF sensitive >= LevelStarts(area).MEDIUM THEN "MEDIUM"
    ELSE "LOW"

(***************************************************************************)
(* The calibration rows: as seeded, and the bundled fallback of the loader *)
(***************************************************************************)
Frameworks == {"transparency", "fairness", "accountability", "privacy",
               "security", "compliance", "sustainability", "human_oversight"}

Baselines(tra, fai, acc, pri, sec, com, sus, hum) ==
    [transparency |-> tra, fairness |-> fai, accountability |-> acc, privacy |-> pri,
     security |-> sec, compliance |-> com, sustainability |-> sus, human_oversight |-> hum]

ByLevel(low, medium, high) == [LOW |-> low, MEDIUM |-> medium, HIGH |-> high]

FallbackEcm == [base |-> Baselines(90, 90, 90, 90, 90, 90, 80, 90),
                multiplier |-> ByLevel(100, 97, 94), threshold |-> ByLevel(80, 85, 90),
                bonus |-> 2, critical |-> {"accountability", "compliance"}]

SeedEcm ==
  [BANKING |-> [base |-> Baselines(85, 90, 97, 92, 97, 98, 75, 93),
                multiplier |-> ByLevel(100, 95, 90), threshold |-> ByLevel(85, 90, 95),
                bonus |-> 3, critical |-> {"compliance", "security", "accountability"}],
   LEGAL   |-> [base |-> Baselines(80, 88, 93, 95, 93, 90, 75, 95),
                multiplier |-> ByLevel(100, 96, 92), threshold |-> ByLevel(82, 88, 93),
                bonus |-> 3, critical |-> {"privacy", "accountability", "human_oversight"}],
   RETAIL  |-> [base |-> Baselines(90, 90, 88, 88, 90, 85, 85, 85),
                multiplier |-> ByLevel(100, 97, 94), threshold |-> ByLevel(78, 83, 88),
                bonus |-> 2, critical |-> {"privacy", "fairness"}],
   AUDIT   |-> [base |-> Baselines(95, 90, 98, 85, 92, 97, 75, 95),
                multiplier |-> ByLevel(100, 96, 92), threshold |-> ByLevel(85, 90, 95),
                bonus |-> 4, critical |-> {"accountability", "transparency", "compliance"}],
   FINANCE |-> [base |-> Baselines(90, 90, 95, 88, 93, 96, 78, 90),
                multiplier |-> ByLevel(100, 96, 92), threshold |-> ByLevel(83, 89, 94),
                bonus |-> 3, critical |-> {"compliance", "accountability", "transparency"}],
   HEALTHCARE |-> [base |-> Baselines(85, 90, 95, 98, 96, 95, 75, 93),
                multiplier |-> ByLevel(100, 95, 90), threshold |-> ByLevel(85, 90, 95),
                bonus |-> 3, critical |-> {"privacy", "security", "compliance"}],
   DEFAULT |-> FallbackEcm]

\* baseline_risk, sensitivity_multiplier and critical_factors
RiskModel(risk, multiplier, factors) ==
    [risk |-> risk, multiplier |-> multiplier, factors |-> factors]

FallbackPfm == RiskModel(25, 120, {})

SeedPfm ==
  [BANKING |-> RiskModel(40, 140, {}),    LEGAL |-> RiskModel(30, 125, {}),
   RETAIL |-> RiskModel(20, 110, {}),     AUDIT |-> RiskModel(35, 130, {}),
   FINANCE |-> RiskModel(38, 135, {}),    HEALTHCARE |-> RiskModel(42, 145, {}),
   DEFAULT |-> FallbackPfm]

\* Of the practices only whether there are data requirements and quality factors matters.
FallbackSda == [requirements |-> FALSE, factors |-> FALSE]
SeedSda == [a \in Areas |-> IF a = "DEFAULT" THEN FallbackSda
                            ELSE [requirements |-> TRUE, factors |-> TRUE]]

\* Of the domain patterns, those that find entities: no seeded row has any.
FallbackPan == [patterns |-> FALSE]
SeedPan == [a \in Areas |-> FallbackPan]

(***************************************************************************)
(* PAN: how well the data is filled                                        *)
(***************************************************************************)

\* _assess_data_quality, in thousandths.  filled of fields are not empty.
DataQuality(data, area) ==
    LET n == IF data.fields = 0 THEN 1 ELSE data.filled
        d == IF data.fields = 0 THEN 2 ELSE data.fields
    IN  IF area = "BANKING"
        THEN IF 10 * n > 8 * d THEN Rounded(950 * n, d) ELSE Rounded(800 * n * n, d * d)
        ELSE IF area = "LEGAL" THEN Rounded(100 * n * AtMost(data.fields, 10), d)
        ELSE Rounded(1000 * n, d)

\* analyze: a single entity already earns the whole bonus, min(n/10, 0.1).
PanScore(row, data, area) ==
    AtMost(DataQuality(data, area) + (IF row.patterns /\ data.entities THEN 100 ELSE 0), 990)

(***************************************************************************)
(* ECM: eight frameworks, each from its baseline                           *)
(***************************************************************************)
PiiTerms == {"email", "phone", "ssn", "address", "personal", "kyc_data"}
ProtectionTerms == {"encrypt", "secure", "protected", "masked"}
BiasTerms == {"discriminat", "bias", "unfair", "stereotype"}

\* "PII" and "EXPOSED" stand for the two tests _eval_privacy makes of the text.
Seen(words) ==
    words \cup (IF words \cap PiiTerms # {} THEN {"PII"} ELSE {})
          \cup (IF words \cap PiiTerms # {} /\ words \cap ProtectionTerms = {}
                THEN {"EXPOSED"} ELSE {})

Rule(framework, areas, terms, percent) ==
    [framework |-> framework, areas |-> areas, terms |-> terms, percent |-> percent]

\* Each rule multiplies its framework once when one of its terms is seen.
Rules ==
    {Rule("transparency", {"BANKING"}, {"audit", "log"}, 102),
     Rule("transparency", {"AUDIT"}, {"metadata", "trace"}, 103),
     Rule("transparency", {"LEGAL"}, {"documented"}, 102),
     Rule("fairness", {"RETAIL"}, {"customer"}, 101),
     Rule("accountability", {"BANKING", "FINANCE"}, {"approval", "authorization"}, 102),
     Rule("accountability", {"AUDIT"}, {"verified"}, 103),
     Rule("privacy", Areas, {"EXPOSED"}, 90),
     Rule("privacy", {"RETAIL"}, {"PII"}, 98),
     Rule("privacy", {"LEGAL"}, {"confidential"}, 102),
     Rule("security", {"BANKING", "FINANCE"}, {"encryption"}, 102),
     Rule("compliance", {"BANKING"}, {"kyc"}, 102),
     Rule("compliance", {"AUDIT"}, {"compliance"}, 103),
     Rule("human_oversight", {"LEGAL"}, {"review"}, 103),
     Rule("human_oversight", {"AUDIT"}, {"approved"}, 102)}
    \cup {Rule("fairness", Areas, {t}, 93) : t \in BiasTerms}
    \cup {Rule("security", Areas, {t}, 101) :
            t \in {"encrypt", "secure", "protect", "authentication", "mfa"}}
    \cup {Rule("compliance", Areas, {t}, 101) :
            t \in {"gdpr", "hipaa", "sox", "kycaml", "pci", "mifid"}}

\* _evaluate_framework: fairness has a floor and no cap, privacy neither.
Evaluated(framework, baseline, area, words) ==
    LET applied == {r \in Rules : /\ r.framework = framework
                                  /\ area \in r.areas
                                  /\ r.terms \cap Seen(words) # {}}
        raw == FoldSet(LAMBDA r, score : (score * r.percent) \div 100, baseline * 10000, applied)
    IN  CASE framework = "fairness" -> AtLeast(raw, 750000)
          [] framework = "privacy"  -> raw
          [] OTHER                  -> AtMost(raw, 1000000)

FrameworkScores(row, data, area, level) ==
    [f \in DOMAIN row.base |->
        AtMost((Evaluated(f, row.base[f], area, data.words) * row.multiplier[level]) \div 100,
               1000000)]

\* calibrate: the mean with the owner's bonus, and whether a critical framework falls short.
EcmResult(row, data, area, level, owner) ==
    LET scores == FrameworkScores(row, data, area, level)
        mean == MapThenSumSet(LAMBDA f : scores[f], DOMAIN scores) \div Cardinality(DOMAIN scores)
        overall == AtMost(mean + (IF owner THEN row.bonus * 10000 ELSE 0), 1000000)
    IN  [failed |-> FALSE, score |-> Rounded(overall, 1000),
         critical |-> \E f \in row.critical \cap DOMAIN scores :
                          scores[f] < row.threshold[level] * 10000]

(***************************************************************************)
(* PFM: the risk, 0 to 100                                                 *)
(***************************************************************************)

\* The terms taken for a critical factor, besides its own name.
Synonyms(area, factor) ==
    CASE area = "BANKING" /\ factor = "kyc_verified"     -> {"kyc", "verified", "identity"}
      [] area = "BANKING" /\ factor = "aml_check"        -> {"aml", "compliance", "check"}
      [] area = "BANKING" /\ factor = "amount_threshold" -> {"$", "amount"}
      [] area = "LEGAL" /\ factor = "privilege"          -> {"confidential", "attorney"}
      [] area = "LEGAL" /\ factor = "jurisdiction"       -> {"law", "court"}
      [] area = "FINANCE" /\ factor = "market_volatility" -> {"volatility", "market", "movement"}
      [] area = "FINANCE" /\ factor = "exposure_limits"  -> {"exposure", "limit", "max"}
      [] OTHER                                           -> {}

\* _calculate_critical_factors_score, in tenths.
FactorsTenths(factors, area, words) ==
    LET total == Cardinality(factors)
        found == Cardinality({f \in factors : ({f} \cup Synonyms(area, f)) \cap words # {}})
    IN  IF total = 0 THEN 8
        ELSE IF found = total THEN 7
        ELSE IF 4 * found >= 3 * total THEN 8
        ELSE IF 2 * found >= total THEN 9
        ELSE 10

\* Mutant: no limit at 100.
\* predict: the multiplier counts in full when HIGH, 0.15 less when MEDIUM.
RiskScore(row, data, area, level) ==
    LET percent == CASE level = "HIGH"   -> row.multiplier
                     [] level = "MEDIUM" -> row.multiplier - 15
                     [] OTHER            -> 100
    IN  AtMost((row.risk * percent * FactorsTenths(row.factors, area, data.words)) \div 1000, 100)

(***************************************************************************)
(* SDA: how many recommendations                                           *)
(***************************************************************************)

\* _check_completeness hands any() a Boolean for the first requirement: TypeError.
AdviceRaises(row) == row.requirements

\* Mutant: without the last, generic recommendation.
\* Completeness is 0 without requirements: a recommendation of high priority at
\* HIGH, one unless the rating is excellent, and one for want of any other.
Recommendations(row, data, level) ==
    AtLeast((IF level = "HIGH" THEN 1 ELSE 0)
              + (IF row.factors /\ data.excellent THEN 0 ELSE 1), 1)

(***************************************************************************)
(* The loop: DECISION_WEIGHTING_MATRIX                                     *)
(***************************************************************************)
Weighting(ecm, pfm, pan, sda, threshold, enforce, review) ==
    [ecm |-> ecm, pfm |-> pfm, pan |-> pan, sda |-> sda, threshold |-> threshold,
     enforce |-> enforce, review |-> review]

DefaultWeights ==
    ByLevel(Weighting(40, 35, 20, 5, 70, FALSE, FALSE),
            Weighting(45, 40, 10, 5, 75, FALSE, FALSE),
            Weighting(50, 40, 5, 5, 80, FALSE, FALSE))

\* HEALTHCARE has calibration rows and no entry here: it is weighed as DEFAULT.
WeightingMatrix ==
  [BANKING |-> ByLevel(Weighting(50, 30, 15, 5, 80, FALSE, FALSE),
                       Weighting(55, 35, 7, 3, 85, TRUE, FALSE),
                       Weighting(65, 25, 5, 5, 92, TRUE, TRUE)),
   LEGAL   |-> ByLevel(Weighting(60, 20, 15, 5, 82, FALSE, FALSE),
                       Weighting(65, 20, 10, 5, 87, TRUE, FALSE),
                       Weighting(75, 15, 5, 5, 94, TRUE, TRUE)),
   FINANCE |-> ByLevel(Weighting(45, 40, 10, 5, 82, FALSE, FALSE),
                       Weighting(50, 45, 3, 2, 88, TRUE, FALSE),
                       Weighting(55, 40, 3, 2, 93, TRUE, TRUE)),
   RETAIL  |-> ByLevel(Weighting(50, 25, 20, 5, 75, FALSE, FALSE),
                       Weighting(55, 30, 10, 5, 80, FALSE, FALSE),
                       Weighting(60, 30, 5, 5, 85, FALSE, FALSE)),
   AUDIT   |-> ByLevel(Weighting(40, 30, 25, 5, 80, TRUE, FALSE),
                       Weighting(50, 35, 10, 5, 85, TRUE, FALSE),
                       Weighting(60, 30, 5, 5, 90, TRUE, TRUE)),
   HEALTHCARE |-> DefaultWeights,
   DEFAULT |-> DefaultWeights]

\* Mutant: an ECM that failed counts in full, as one without a concern.
ModuleScoresFullEthics(pan, ecm, pfm, sda) ==
    [pan |-> IF pan.failed THEN 500 ELSE pan.score,
     ecm |-> IF ecm.failed THEN 1000 ELSE ecm.score,
     pfm |-> 1000 - 10 * (IF pfm.failed THEN 50 ELSE pfm.risk),
     sda |-> AtLeast(1000 - 700 * (IF sda.failed THEN 0 ELSE sda.count), 0)]

\* Mutant: a PFM that failed counts as no risk.
ModuleScoresNoRisk(pan, ecm, pfm, sda) ==
    [pan |-> IF pan.failed THEN 500 ELSE pan.score,
     ecm |-> IF ecm.failed THEN 500 ELSE ecm.score,
     pfm |-> 1000 - 10 * (IF pfm.failed THEN 0 ELSE pfm.risk),
     sda |-> AtLeast(1000 - 700 * (IF sda.failed THEN 0 ELSE sda.count), 0)]

\* _extract_module_scores: a module that failed counts .5, .5, 50 and no recommendations.
ModuleScores(pan, ecm, pfm, sda) ==
    [pan |-> IF pan.failed THEN 500 ELSE pan.score,
     ecm |-> IF ecm.failed THEN 500 ELSE ecm.score,
     pfm |-> 1000 - 10 * (IF pfm.failed THEN 50 ELSE pfm.risk),
     sda |-> AtLeast(1000 - 700 * (IF sda.failed THEN 0 ELSE sda.count), 0)]

\* _aggregate_scores, in hundred-thousandths.
Aggregated(scores, w) ==
    AtMost(scores.ecm * w.ecm + scores.pfm * w.pfm + scores.pan * w.pan + scores.sda * w.sda,
           100000)

\* _make_decision: an enforced critical violation comes before the threshold.
Outcome(aggregated, w, critical, owner) ==
    LET violated == w.enforce /\ critical
        enough == ~violated /\ aggregated >= w.threshold * 1000
    IN  IF (violated /\ owner) \/ (enough /\ w.review) THEN "REQUIRE_HUMAN"
        ELSE IF enough THEN "APPROVE" ELSE "REJECT"
==============================================================================
