SPECIFICATION Spec
CONSTANTS
  Emails = {e1, e2}
  Ips = {i1}
  Passwords = {pw}
  Tokens = {t1, t2}
  Handlers = {p1, p2}
  NoIp = NoIp
  NoAccount = NoAccount
  NoSession = NoSession
  Unguessable = Unguessable
  MaxFailures = 1
  MaxEmails = 2
  HardMode = TRUE
  MaxProvisions = 1
  MaxSignIns = 3
SYMMETRY AccountsSymmetry
INVARIANTS GuessBound OnlyLateSessionsAreOrphans
PROPERTIES AccountsAreNotTakenOver
