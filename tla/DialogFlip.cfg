CONSTANTS
  Dialog = {d1}
  Root = {r1}
  Element = {e1}
SPECIFICATION Spec
CHECK_DEADLOCK FALSE
INVARIANT FlipHidesPage
