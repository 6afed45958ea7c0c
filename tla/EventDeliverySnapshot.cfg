\* Two views and one source that ends; nothing is lost.
CONSTANTS
  View = {v1, v2}
  MaxEnds = 1
  MaxLosses = 0
SPECIFICATION EventSpec
INVARIANTS EventsFollowTheirSnapshot
CHECK_DEADLOCK FALSE
