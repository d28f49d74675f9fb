SPECIFICATION Spec
CHECK_DEADLOCK FALSE
CONSTANTS
  a = a
  b = b
  Addrs = {a, b}
  Channels = {30}
  Typed <- Dialogue
  Msgs <- SomeMsgs
  Coalesce = FALSE
  IntMax = 15
  MsPerSec = 2
  MaxTyped = 2
  MaxOut = 1
INVARIANTS
  TypeOK
  LevelsConserved
  EndIsClean
