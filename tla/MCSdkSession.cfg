SPECIFICATION FairSpec
CONSTANTS
  NoPair = NoPair
  Callers = {c1, c2}
  Managers = {m1}
  MaxToken = 3
  Setups <- MCSetups
CHECK_DEADLOCK FALSE
INVARIANTS ReuseMeansLoss HoldsLiveToken
PROPERTIES StopsPresenting CallsReturn
