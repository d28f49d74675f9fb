SPECIFICATION FairSpec
CHECK_DEADLOCK FALSE
CONSTANTS
  a = a
  b = b
  Addrs = {a, b}
  Channels = {1}
  Typed <- Stoppable
  Msgs <- FewMsgs
  Coalesce = FALSE
  IntMax = 15
  MsPerSec = 2
  MaxTyped = 2
  MaxOut = 1
PROPERTIES
  
  CommandsAnswered
