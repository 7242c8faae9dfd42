SPECIFICATION FairSpec
CONSTANTS
  None = None
  Apps = {a1, a2}
  Unruly = {a2}
  Callers = {c1, c2}
  Admins = {d1}
  Adapters = {i1, i2, i3}
  Max = 1
  TTL = 2
  MaxVersion = 2
INVARIANTS OwnDatabase NoLeak EditTakesEffect
PROPERTY StaleIsReplaced
