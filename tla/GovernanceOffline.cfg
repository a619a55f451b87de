SPECIFICATION Spec
CONSTANTS
  Requests = {r1}
  Apps = {a1}
  Null = Null
  Offline = {r1}
  Limits <- MCTwoLimits
  DefaultLimit = 1
  MaxChanges = 1
  MaxMonths = 0
  MaxCrashes = 0
INVARIANTS SwitchStopsEverywhere
