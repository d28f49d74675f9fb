\* As MCSdpFindLive, but whoever started the engine closes its stdin.
SPECIFICATION FairSpec
CONSTANTS
  Reqs = {r1}
  Silent = {}
  StdinEnds = TRUE
  SeenLate = {}
  NoReq = none
PROPERTY ResultGiven
CHECK_DEADLOCK FALSE
