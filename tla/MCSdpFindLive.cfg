\* Two requests, of devices that keep talking, with stdin left open.
SPECIFICATION FairSpec
CONSTANTS
  Reqs = {r1, r2}
  Silent = {}
  StdinEnds = FALSE
  SeenLate = {}
  NoReq = none
INVARIANT TypeOK
PROPERTIES ResultGiven QuietStopEnds
\* Idle, or stopped, the process waits for ever.
CHECK_DEADLOCK FALSE
