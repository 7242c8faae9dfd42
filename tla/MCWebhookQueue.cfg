SPECIFICATION FairSpec
CONSTANTS
  NoRow = NoRow
  e1 = e1
  e2 = e2
  Endpoints = {e1, e2}
  Deliveries = {1, 2}
  Workers = {w1, w2}
  Threshold = 2
  Scenes <- MCScenes
INVARIANTS SendsBounded BreakerTrips
PROPERTIES SettledStaysSettled EventuallySettled
