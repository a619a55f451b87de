SPECIFICATION Spec
CONSTANTS
  Requests = {r1, r2}
  Apps = {a1}
  Null = Null
  Offline = {}
  Limits <- MCTwoLimits
  DefaultLimit = 1
  MaxChanges = 1
  MaxMonths = 1
  MaxCrashes = 1
SYMMETRY RequestSymmetry
INVARIANTS SwitchStops PolicyStops StruckOnce QuotaBound UsageIsCounted RecordsAgree
