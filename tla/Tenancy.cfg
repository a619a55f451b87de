SPECIFICATION TenancySpec
CONSTANTS
  Accounts = {u1, u2}
  Apps = {a1}
  KeyIds = {k1, k2, k3}
  Routes = {p1, p2}
  Plans = {standard}
  Subscriptions = {s1}
  MaxEvents = 3
  Operator = Operator
  NoKey = NoKey
  NoRow = NoRow
  NoSubscription = NoSubscription
  Unset = Unset
SYMMETRY TenancySymmetry
INVARIANTS BillingAgrees
PROPERTIES RotationLeavesOneKey
