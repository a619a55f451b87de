SPECIFICATION FairSpec
CONSTANTS
  Instances = {i1, i2, i3}
  Decisions = {d1, d2, d3}
  Null = Null
  MaxRestarts = 2
INVARIANTS ChainLinked NoFalseAlarm
PROPERTIES ImplementsLedger LoggingEnds
