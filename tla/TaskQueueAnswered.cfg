SPECIFICATION FairSpec
CONSTANTS
  r1 = r1
  r2 = r2
  r3 = r3
  w1 = w1
  w2 = w2
  Requests = {r1, r2, r3}
  Workers = {w1, w2}
  None = None
  Worlds <- PlainWorlds
PROPERTIES
  EveryRequestAnswered
CHECK_DEADLOCK FALSE
