SPECIFICATION Spec
CONSTANTS
  Handlers = {h1, h2}
  Threshold = 2
  Window = 1
  Cooldown = 1
  Null = Null
  MaxTime = 3
  MaxRequests = 4
  MaxResets = 0
INVARIANTS OneTrial
