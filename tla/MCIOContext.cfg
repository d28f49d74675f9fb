\* Three timers of four delays, a descriptor that is never drained, and waits
\* that are interrupted or fail.
SPECIFICATION Spec
CONSTANTS
  Timers = {t1, t2, t3}
  Delays <- SignedDelays
  Res = 2
  Fds = {stuck}
  Unpollable = {}
  Stuck = {stuck}
  AbortFd = abort
  NoHandle = none
  IOC_MAX_EVENTS = 1
  ReadSize = 1
  MaxElapsed = 3
  MaxPipe = 1
  PollMayFail = TRUE
SYMMETRY TimerSymmetry
INVARIANTS TypeOK Timely SortedUnlessSkewed GuardGoesFirst
PROPERTY ImplementsTimerService
