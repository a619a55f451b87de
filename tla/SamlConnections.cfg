SPECIFICATION SamlSpec
CONSTANTS
  Domains = {d1, d2}
  SsoHandlers = {p1, p2}
  Metadata = {good, broken}
  Works = {good}
  NoConnection = NoConnection
SYMMETRY SamlSymmetry
INVARIANTS LiveConnectionWorks
PROPERTIES RowsAreNotOverwritten
