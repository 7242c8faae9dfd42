SPECIFICATION Spec
CONSTANTS
  b1 = b1
  b2 = b2
  t = t
  k = k
  l = l
  c = c
  d = d
  p1 = p1
  p2 = p2
  x = x
  y = y
  None = None
  Colleague = Colleague
  Customer = Customer
  Browsers = {b1, b2}
  Totps = {t}
  Passkeys = {k, l}
  Credentials = {c}
  BackupCodes = {x, y}
  MaxRows = 3
  Devices = {d}
  Procs = {p1, p2}
  MaxAge = 1
  DeviceTTL = 2
  ChallengeTTL = 1
  Minutes = 1
  Delay = 1
  Bounds <- MCBounds
SYMMETRY Symmetry
INVARIANT
  OneUse
  GateEarned
  OneOpen
PROPERTY
  EndedStands
CHECK_DEADLOCK FALSE
