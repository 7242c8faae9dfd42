SPECIFICATION Spec
CONSTANTS
  Workers = {w1, w2}
  MaxKey = 3
  MaxTokens = 1
  MaxTime = 7
  Apps = {a1, a2}
  a1 = a1
  a2 = a2
  Scenes <- MCScenes
  TTL = 1
  Tolerance = 1
  Window = 4
  CacheTTL = 1
  Delay = 1
  Crashes = TRUE
CHECK_DEADLOCK FALSE
SYMMETRY Symmetry
INVARIANTS TokensVerify NoFalseReject TrustIsBrief
