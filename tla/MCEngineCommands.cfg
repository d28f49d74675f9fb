SPECIFICATION Spec
CHECK_DEADLOCK FALSE
CONSTANTS
  a = a
  b = b
  Addrs = {a}
  Channels = {1, 30}
  Typed <- TypedLines
  Msgs <- Silence
  Coalesce = TRUE
  IntMax = 15
  MsPerSec = 2
  MaxTyped = 2
  MaxOut = 1
INVARIANTS
  EndHasCause
  RetryOnSameChannel
