\* Two timers, two descriptors and one that epoll refuses: a timer may be armed
\* before, during or after a wait, overtaken, interrupted, and blocked by input
\* and wake-ups.
SPECIFICATION LiveSpec
CONSTANTS
  Timers = {t1, t2}
  Delays = {0, 1}
  Res = 2
  Fds = {f1, f2, file}
  Unpollable = {file}
  Stuck = {}
  AbortFd = abort
  NoHandle = none
  IOC_MAX_EVENTS = 2
  ReadSize = 2
  MaxElapsed = 2
  MaxPipe = 3
  PollMayFail = FALSE
  MaxCalls = 3
INVARIANTS LoopInv NoSleepPastHead DispatchLive
PROPERTIES ArmedEventuallyLeaves WakeupsAreConsumed
\* With nothing armed and no call left, epoll_wait() sleeps for ever.
CHECK_DEADLOCK FALSE
