SPECIFICATION Spec
CONSTANTS
  c1 = c1
  c2 = c2
  e = e
  f = f
  g = g
  p1 = p1
  p2 = p2
  r1 = r1
  r2 = r2
  l1 = l1
  l2 = l2
  a = a
  n = n
  NoRow = NoRow
  Secrets = {c1, c2, e, f, g}
  Table <- MCTable
  Seeded = {e}
  Processes = {p1, p2}
  Runs = {r1, r2}
  Procedure <- Runbook
  Bounds <- MCBounds
  Apps = {a}
  Projects = {n}
  Rows = {l1, l2}
  Limit = 2
SYMMETRY Symmetry
INVARIANTS Openable NothingReverted NoUnknownOrphan ReleasedIsGone
CHECK_DEADLOCK FALSE
