--------------------------- MODULE IOContextLive ----------------------------
(***************************************************************************)
(* What must eventually happen in a context: IOContext with the fairness   *)
(* its threads and the clock provide, and a bound on what is asked of it.  *)
(* The same instance carries the invariants of the loop and of the         *)
(* descriptors, which need handlers, input and refused descriptors.        *)
(*                                                                         *)
(* The bound is needed: a timer runs only when epoll_wait() returns no     *)
(* event, so that descriptors that never stop delivering, wake-ups that    *)
(* never stop and 0-delay timers that never stop all starve it.  So do     *)
(* interruptions that never stop: the time between two waits is taken off  *)
(* no timer, and that is when the millisecond may each time turn.          *)
(***************************************************************************)
EXTENDS IOContext

CONSTANT MaxCalls   \* bound: calls, inputs and interruptions in a behaviour

VARIABLE calls      \* those left

LiveInit == Init /\ calls = MaxCalls

\* The thread that calls ioc_wait_once() keeps running, and so do the
\* handlers it calls.
Progress ==
  \/ Wait \/ PollEvents \/ PollTimeout \/ FireHead \/ TimerReturn
  \/ DispatchAbort \/ FdReturn \/ Account \/ Leave
  \/ \E f \in Fds : DispatchFd(f)

LiveNext ==
  \/ (Progress \/ Other \/ Tick) /\ UNCHANGED calls
  \/ calls > 0 /\ (Client \/ PollEintr) /\ calls' = calls - 1

\* Both threads are scheduled: the other one ends the call it has begun.
Fairness == WF_vars(Progress) /\ WF_vars(Other) /\ WF_vars(Tick)

LiveSpec == LiveInit /\ [][LiveNext]_<<vars, calls>> /\ Fairness

\* An armed timer is not forgotten, whatever was armed, removed, delivered
\* or interrupted around it, and whatever order the list is in, unless a
\* handler removed a descriptor whose event was waiting, and the process ended.
ArmedEventuallyLeaves ==
  \A t \in Timers : t \in Armed ~> t \notin Armed \/ pc = "crashed"

\* Wake-ups are consumed, also when there are more than one read takes: the
\* loop does not spin on its own pipe.
WakeupsAreConsumed == abort_pipe > 0 ~> abort_pipe = 0 \/ pc = "crashed"
=============================================================================
