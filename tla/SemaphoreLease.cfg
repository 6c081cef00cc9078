CONSTANTS
  Clients = {c1, c2}
  MayStop = {c1, c2}
  Nobody = Nobody
  MaxLeases = 1
  Ttl = 1
  ExtendTtls = {1, 2}
  BeatTtl = 2
  BeatInterval = 1
  MaxLag = 1
  MaxExtends = 1
  TimelyBeats = FALSE
SPECIFICATION Spec
SYMMETRY Symmetry
INVARIANTS TypeOK LeaseHonoured LeaseCapacity MutualExclusion OnePlace
PROPERTIES LeasePoolSpec KeepsPlace
