CONSTANTS
  Dialog = {d1, d2, d3}
  Root = {r1, r2}
  Element = {e1}
SYMMETRY Interchangeable
SPECIFICATION Spec
CHECK_DEADLOCK FALSE
INVARIANTS
  NothingOpenNothingChanged
  PageFollowsOpenDialogs
PROPERTY FollowsContract
