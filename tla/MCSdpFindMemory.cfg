\* Devices that fall silent, stdin that ends, stores that are seen late.
SPECIFICATION Spec
CONSTANTS
  Reqs = {r1, r2}
  Silent = {r1}
  StdinEnds = TRUE
  SeenLate = {"main", "sdp"}
  NoReq = none
INVARIANTS NoLostWakeup UseAfterFreeTakesARace ResultsFreed QuietStopIsClean
\* Idle, or stopped, the process waits for ever.
CHECK_DEADLOCK FALSE
