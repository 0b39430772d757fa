SPECIFICATION ClientsSpec
CONSTANTS
  Keys = {k1, k2}
  Values = {v1, NoValue}
  NoKey = NoKey
  NoValue = NoValue
  Size = 4
  Ttl = 1
  MaxTime = 2
CONSTRAINT Clock
PROPERTY ImplementsRecent
