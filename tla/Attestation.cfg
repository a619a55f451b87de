SPECIFICATION Spec
CONSTANTS
  t1 = t1
  t2 = t2
  Tenants = {t1, t2}
  Signatures = {s1, s2}
  Ciphertexts = {c1}
  MaxVersion = 2
  AwsConfigured = TRUE
  Unknown = Unknown
  Requests = {r1, r2}
  Submissions <- TwoSubmissions
  Registered = FALSE
  None = None
SYMMETRY AttestationSymmetry
INVARIANTS HandedOutIsStored BarredByTornCommit LoggedIsAttested
PROPERTIES EvaluationsChangeForGood
