SPECIFICATION RateSpec
CONSTANTS
  Calls = {c1, c2, c3}
  Origins <- SomeOrigins
  Limit = 1
  Second = 2
  Window = 4
  KeySlack = 1
  MaxClock = 6
INVARIANT
  RetryAfterIsEnough
CHECK_DEADLOCK FALSE
