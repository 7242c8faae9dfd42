SPECIFICATION ThrottleSpec
CONSTANTS
  Ips = {i1, i2}
  Emails = {e1}
  NoEmail = NoEmail
  Requests = {w1, w2}
  Policy <- SmallPolicy
  SweepAge = 2
  Delay = 0
  Unruly = {i2}
  MaxTime = 5
  MaxFailures = 2
CHECK_DEADLOCK FALSE
SYMMETRY Symmetry
INVARIANTS GuessesArePaced OnlyOwnFailuresLock
PROPERTY LockStands
