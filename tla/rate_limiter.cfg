SPECIFICATION Spec
CONSTANTS
  a = a
  b = b
  IPs = {a, b}
  MaxRequests = 2
  Window = 3
  Ticks = 2
  MaxTime = 9
SYMMETRY Symmetry
INVARIANTS WindowBounded RetryAfterSuffices
CHECK_DEADLOCK FALSE
