SPECIFICATION FairSpec
CONSTANTS
  a = a
  b = b
  c = c
  k1 = k1
  k2 = k2
  Runs = {a, b, c}
  Sessions = {k1, k2}
  Type = Type
  Null = Null
  Worlds <- AllWorlds
INVARIANTS
  TypeOK
  InsertedOnce
  RowBeforeRun
  CascadeWhole
  NoOrphan
PROPERTIES
  SessionsEnd
CHECK_DEADLOCK FALSE
