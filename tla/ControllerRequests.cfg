SPECIFICATION MCSpec
CONSTANTS
  Clients = {remote, localhost}
  Requests = {r1, r2}
  Limiters = {l1, l2, l3}
  None = None
  Burst = 1
  CleanupInterval = 1
  MaxSeconds = 2
  Whitelisted = {localhost}
  AuthEnabled = TRUE
  GrpcAuth = TRUE
  TokenLives = {1}
  Clusters = {k1}
  Names = {name1, name2}
  MaxTokens = 1
  MaxBoots = 2
  MaxNow = 2
SYMMETRY RequestSymmetry
INVARIANT WithinBudget
PROPERTY ChangesEntitled
