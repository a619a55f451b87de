SPECIFICATION CalibrationSpec
CONSTANTS
  row = row  default = default  other = other  a = a  b = b  fixed = fixed  x = x  y = y
  Instances = {i1}
  Rows = {row}
  Columns = {a, b, fixed}
  Editable = {a, b}
  Keys = {default, other}
  KeyRow <- BothKeys
  Values = {x, y}
  Seed = x
  Payloads <- SomePayloads
  Updates = {u1}
  Null = Null
  MaxRestarts = 0
INVARIANTS NoSilentChange
