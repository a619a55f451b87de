SPECIFICATION Spec
CONSTANTS
  Instances = {i1, i2}
  Tenants = {t1, t2}
  Intercepts = {x1, x2, x3, x4}
  Null = Null
  Persist = TRUE
  MaxConnections = 2
  ProofLength = 1
  MaxRestarts = 1
SYMMETRY PoDSymmetry
INVARIANTS ProofIsShown NoFalseAlarm
PROPERTIES ImplementsLedgers
