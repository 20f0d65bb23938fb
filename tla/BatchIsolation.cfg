SPECIFICATION Spec
CONSTANTS
  N = 3
  a1 = a1
  b1 = b1
  Addresses = {a1, b1}
  Limits = {1, 2}
INVARIANTS ItemsFailAlone
CHECK_DEADLOCK FALSE
