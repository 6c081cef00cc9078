SPECIFICATION Spec
CONSTANTS
  c1 = c1
  c2 = c2
  c3 = c3
  Clients = {c1, c2, c3}
  Request <- Weights
  Capacity = 4
  Rate = 2
  MaxLag = 1
  Rounds = 3
INVARIANTS
  RateLimited
