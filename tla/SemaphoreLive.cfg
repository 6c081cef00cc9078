CONSTANTS
  Clients = {c1, c2}
  MayStop = {c1}
  Nobody = Nobody
  MaxLeases = 1
  Ttl = 2
  ExtendTtls = {1, 2}
  BeatTtl = 2
  BeatInterval = 1
  MaxLag = 1
  MaxExtends = 1
  TimelyBeats = TRUE
SPECIFICATION FairSpec
PROPERTIES EventuallyServed
