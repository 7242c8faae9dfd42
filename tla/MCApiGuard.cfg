SPECIFICATION GuardSpec
CONSTANTS
  k1 = k1
  k2 = k2
  w1 = w1
  w2 = w2
  i1 = i1
  i2 = i2
  Home = Home
  Away = Away
  Keys <- MCKeys
  Workers <- MCWorkers
  Instances <- MCInstances
  Addresses <- MCAddresses
  Allowlists <- MCAllowlists
  Drafts <- MCDrafts
  Accounts = {A}
  A = A
  NoAccount = NoAccount
  Limit = 1
  Window = 2
  MaxLocal = 1
  Delay = 1
  q1 = q1
  q2 = q2
  Subjects = {q1, q2}
  Latencies = {3}
  LATENCY_BUCKETS_MS <- MCBuckets
  MAX_TRACKED_KEYS = 1
  FLUSH_INTERVAL_MS = 1
  Bounds <- MCBounds
SYMMETRY Symmetry
INVARIANT
  Accounted
  TwiceAtMost
  RefusalsEarned
PROPERTY
  MachineKeysObey
CHECK_DEADLOCK FALSE
