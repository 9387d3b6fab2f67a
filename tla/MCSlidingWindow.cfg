SPECIFICATION Spec
CONSTANTS
  Calls = {c1, c2, c3, c4}
  Requests = 1
  Window = 2
  TicksPerSecond = 1
  FallbackSeconds = 60
  MaxDelay = 1
  CacheConfigured = TRUE
  MaxTime = 4
  MaxFaults = 0
SYMMETRY Symmetry
INVARIANT SlidingWindow
CHECK_DEADLOCK FALSE
