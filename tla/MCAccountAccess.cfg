SPECIFICATION Spec
CONSTANTS
  Links = {l1, l2}
  Workers = {w1, w2}
  NoLink = NoLink
  MaxEpoch = 2
  Scenes <- MCScenes
CHECK_DEADLOCK FALSE
SYMMETRY Symmetry
INVARIANTS OneReset OneLink SweptClean
