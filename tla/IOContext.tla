----------------------------- MODULE IOContext ------------------------------
(***************************************************************************)
(* One io_context_t of battery_level_engine/srcs/io_context.c: the list of *)
(* armed timers, the descriptors registered with epoll, the wake-up pipe,  *)
(* and the thread that calls ioc_wait_once() over and over.                *)
(*                                                                         *)
(* The loop thread is the sequence of states of pc; its handlers call the  *)
(* interface back while a wait is in progress (pc = "fdcb", "timercb"),    *)
(* and its owner calls it between two waits (pc = "idle").  One other      *)
(* thread calls it at any time, in this program only to hand over a result *)
(* or a request, that is with a delay of 0, or to wake the loop.  Its call *)
(* takes several steps (callpc), since the plain bool is_runnning that it  *)
(* reads may change between them.  That it changes the list in one of them *)
(* is an abstraction; module SdpFind takes the change itself apart.        *)
(*                                                                         *)
(* Time is counted in ticks, Res of them to the millisecond.  __now() cuts *)
(* the clock down to whole milliseconds, so that what a wait measures is   *)
(* the number of millisecond boundaries it crossed (elapsed), whatever the *)
(* position inside the millisecond (phase) where it began (start).         *)
(***************************************************************************)
EXTENDS Integers, Sequences, FiniteSets, SequencesExt

CONSTANTS
  Timers,          \* the nodes ioc_timeout() can allocate
  Delays,          \* the delays, in milliseconds, the clients ask for
  Res,             \* ticks in a millisecond
  Fds,             \* the descriptors clients register
  Unpollable,      \* those epoll_ctl() refuses, as it does a regular file
  Stuck,           \* those that stay readable for ever, as after end of file
  AbortFd,         \* the read end of the wake-up pipe
  NoHandle,        \* no handler is running
  IOC_MAX_EVENTS,  \* events one epoll_wait() returns at most
  ReadSize,        \* bytes one read of the wake-up pipe takes (8 in the code)
  MaxElapsed,      \* bound: milliseconds one wait may last
  MaxPipe,         \* bound: wake-up bytes written and not yet read
  PollMayFail      \* whether epoll_wait() may fail for good

ASSUME ResAssumption == Res \in Nat \ {0}
ASSUME DelaysAssumption == Delays \subseteq Int /\ 0 \in Delays
ASSUME FdsAssumption ==
  /\ Unpollable \subseteq Fds /\ Stuck \subseteq Fds
  /\ AbortFd \notin Fds /\ Fds \cap Timers = {}
  /\ NoHandle \notin Fds \cup Timers
ASSUME BoundsAssumption ==
  /\ IOC_MAX_EVENTS \in Nat \ {0} /\ ReadSize \in Nat \ {0}
  /\ MaxElapsed \in Nat /\ MaxPipe \in Nat \ {0} /\ PollMayFail \in BOOLEAN

VARIABLES
  pc,                 \* where the loop thread is
  is_runnning,        \* a call of ioc_wait_once() is in progress
  polltimeout,        \* the timeout given to epoll_wait(), -1 for none
  batch,              \* the events returned and not yet dispatched
  handle,             \* the handle whose handler is running
  timeout_data_list,  \* the armed timers, the head first
  val,                \* each armed timer's value.timeout.val
  take_care_later,    \* the timers armed during the wait in progress
  event_data_list,    \* the descriptors with a node in the event list
  freed,              \* those whose node was freed but is still linked
  stale,              \* history: those in batch whose node was removed since
  interest,           \* the descriptors epoll watches
  ready,              \* the descriptors with something to read
  abort_pipe,         \* wake-up bytes in the pipe
  callpc,             \* where the other thread is in its call, if in one
  node,               \* the timer it has filled in and not yet linked
  mark,               \* the is_runnning it read for that timer
  phase,              \* the clock, inside the current millisecond
  start,              \* phase when the wait in progress read the clock
  elapsed,            \* __now() - start, in milliseconds
  due,                \* history: ticks left before each timer is really due
  skewed              \* history: see AccountSkews

loopVars  == <<pc, is_runnning, polltimeout, batch, handle>>
timerVars == <<timeout_data_list, val, take_care_later>>
fdVars    == <<event_data_list, freed, stale, interest, ready>>
callVars  == <<callpc, node, mark>>
clockVars == <<phase, start, elapsed>>
vars == <<loopVars, timerVars, fdVars, abort_pipe, callVars, clockVars, due,
          skewed>>

-----------------------------------------------------------------------------
(* The wake-up pipe, and where calls come from.                            *)

\* One byte for the loop; MaxPipe bounds those that are not yet read.
WakeUp == abort_pipe' = IF abort_pipe < MaxPipe THEN abort_pipe + 1 ELSE MaxPipe

\* ioc_stop_wait(), by the thread of the loop.
ioc_stop_wait == IF is_runnning THEN WakeUp ELSE UNCHANGED abort_pipe

\* The loop thread runs client code: its owner's, or a handler's.
InClient == pc \in {"idle", "fdcb", "timercb"}

Alive == pc \notin {"failed", "crashed", "deleted"}

-----------------------------------------------------------------------------
(* Timers.                                                                 *)

\* A mutant: the last timer's val is not looked at.
InsertPosHeadOnly(L, v, d) ==
  IF L = <<>> THEN 1 ELSE IF v[L[1]] >= d THEN 1 ELSE Len(L) + 1

\* Where ioc_timeout() links a timer of delay d in the list L: at the head
\* when the head's val is not smaller, at the end when the last one's is not
\* larger, or else before the first of the others whose val is not smaller.
InsertPos(L, v, d) ==
  IF L = <<>> THEN 1
  ELSE IF v[L[1]] >= d THEN 1
  ELSE IF d >= v[L[Len(L)]] THEN Len(L) + 1
  ELSE Min({j \in 2..Len(L) : v[L[j]] >= d})

Armed == ToSet(timeout_data_list)

\* A mutant: no timer is marked.
MarkedNever(t, m) == take_care_later

\* A timer armed during a wait is marked, to be left alone by its accounting.
Marked(t, m) == IF m THEN take_care_later \cup {t} ELSE take_care_later

\* Lines 275 to 308: the node is filled in with its mark, and linked.
Insert(t, d, m) ==
  /\ timeout_data_list' =
       InsertAt(timeout_data_list, InsertPos(timeout_data_list, val, d), t)
  /\ val' = [val EXCEPT ![t] = d]
  /\ take_care_later' = Marked(t, m)
  /\ due' = [due EXCEPT ![t] = d * Res]

\* The memory malloc() may return.
Unused == Timers \ (Armed \cup {handle, node})

\* ioc_timeout() by the thread of the loop.  A negative delay is refused, and
\* so is nothing else.
Arm(t, d) ==
  /\ InClient
  /\ d >= 0
  /\ t \in Unused
  /\ Insert(t, d, is_runnning)
  /\ ioc_stop_wait
  /\ UNCHANGED <<loopVars, fdVars, callVars, clockVars, skewed>>

\* ioc_timeout() by the other thread, which arms timers of delay 0 only.  Up
\* to line 286 it has read is_runnning into the mark.
OtherBegin(t) ==
  /\ Alive /\ callpc = "none"
  /\ t \in Unused
  /\ callpc' = "link" /\ node' = t /\ mark' = is_runnning
  /\ UNCHANGED <<loopVars, timerVars, fdVars, abort_pipe, clockVars, due,
                 skewed>>

\* A mutant: lines 309 to 311 are not there.
OtherLinkOnly ==
  /\ Alive /\ callpc = "link"
  /\ Insert(node, 0, mark)
  /\ callpc' = "none" /\ node' = NoHandle /\ mark' = FALSE
  /\ UNCHANGED <<loopVars, fdVars, abort_pipe, clockVars, skewed>>

\* Lines 287 to 308, wherever the loop is by now.
OtherLink ==
  /\ Alive /\ callpc = "link"
  /\ Insert(node, 0, mark)
  /\ callpc' = "look" /\ node' = NoHandle /\ mark' = FALSE
  /\ UNCHANGED <<loopVars, fdVars, abort_pipe, clockVars, skewed>>

\* ioc_stop_wait() by the other thread, as at the end of the process.
OtherStop ==
  /\ Alive /\ callpc = "none"
  /\ callpc' = "look"
  /\ UNCHANGED <<loopVars, timerVars, fdVars, abort_pipe, node, mark,
                 clockVars, due, skewed>>

\* Lines 309 and 204: is the loop in a wait?
OtherLook ==
  /\ Alive /\ callpc = "look"
  /\ callpc' = IF is_runnning THEN "write" ELSE "none"
  /\ UNCHANGED <<loopVars, timerVars, fdVars, abort_pipe, node, mark,
                 clockVars, due, skewed>>

\* Line 205: the byte is written, even if the wait is over by now.
OtherWrite ==
  /\ Alive /\ callpc = "write"
  /\ WakeUp
  /\ callpc' = "none"
  /\ UNCHANGED <<loopVars, timerVars, fdVars, node, mark, clockVars, due,
                 skewed>>

\* A timer leaves the list: it is about to fire, or its handle was removed.
Unlink(i) ==
  LET t == timeout_data_list[i] IN
  /\ timeout_data_list' = RemoveAt(timeout_data_list, i)
  /\ val' = [val EXCEPT ![t] = 0]
  /\ due' = [due EXCEPT ![t] = 0]
  /\ take_care_later' = take_care_later \ {t}
  /\ skewed' = (skewed /\ Len(timeout_data_list) > 2)

\* ioc_remove_handle() of a timer, by the loop thread.
Cancel(i) ==
  /\ InClient /\ i \in DOMAIN timeout_data_list
  /\ Unlink(i)
  /\ UNCHANGED <<loopVars, fdVars, abort_pipe, callVars, clockVars>>

-----------------------------------------------------------------------------
(* Descriptors.                                                            *)

\* ioc_add_fd(): the node is linked before epoll_ctl() can refuse it; a
\* refused node is freed and stays in the list.
AddFd(f) ==
  /\ InClient /\ f \in Fds \ event_data_list
  /\ event_data_list' = event_data_list \cup {f}
  /\ \/ /\ f \in Unpollable
        /\ freed' = freed \cup {f}
        /\ UNCHANGED <<interest, abort_pipe>>
     \/ /\ f \notin Unpollable
        /\ interest' = interest \cup {f}
        /\ ioc_stop_wait
        /\ UNCHANGED freed
  /\ UNCHANGED <<loopVars, timerVars, stale, ready, callVars, clockVars, due,
                 skewed>>

\* A mutant: epoll goes on watching the descriptor.
RemoveFdWatched(f) ==
  /\ InClient /\ f \in interest
  /\ event_data_list' = event_data_list \ {f}
  /\ UNCHANGED <<loopVars, timerVars, freed, stale, interest, ready, abort_pipe,
                 callVars, clockVars, due, skewed>>

\* ioc_remove_handle() of a descriptor.  If epoll_ctl() fails nothing changes;
\* otherwise the node is freed, even if its event waits in the batch.
RemoveFd(f) ==
  /\ InClient /\ f \in interest
  /\ \/ UNCHANGED <<event_data_list, interest, stale>>
     \/ /\ interest' = interest \ {f}
        /\ event_data_list' = event_data_list \ {f}
        /\ stale' = stale \cup ({f} \cap batch)
  /\ UNCHANGED <<loopVars, timerVars, freed, ready, abort_pipe, callVars,
                 clockVars, due, skewed>>

\* The other end writes to a descriptor, or closes it.  Of one that epoll
\* refused the loop does not hear.
Arrive(f) ==
  /\ f \in Fds \ (Unpollable \cup ready)
  /\ ready' = ready \cup {f}
  /\ UNCHANGED <<loopVars, timerVars, event_data_list, freed, stale, interest,
                 abort_pipe, callVars, clockVars, due, skewed>>

\* What epoll has to report.
Pending == (ready \cap interest) \cup (IF abort_pipe > 0 THEN {AbortFd} ELSE {})

-----------------------------------------------------------------------------
(* ioc_wait_once().                                                        *)

\* Lines 139 to 149: read the clock and the head's val, and start polling.
Wait ==
  /\ pc = "idle"
  /\ pc' = "poll" /\ is_runnning' = TRUE
  /\ start' = phase /\ elapsed' = 0
  /\ polltimeout' = IF timeout_data_list = <<>> THEN -1
                    ELSE val[Head(timeout_data_list)]
  /\ UNCHANGED <<batch, handle, timerVars, fdVars, abort_pipe, callVars, phase,
                 due, skewed>>

\* epoll_wait() returns as many of the pending events as there is room for.
PollEvents ==
  /\ pc = "poll" /\ Pending # {}
  /\ batch' \in {B \in SUBSET Pending : Cardinality(B) =
                   IF Cardinality(Pending) <= IOC_MAX_EVENTS
                   THEN Cardinality(Pending) ELSE IOC_MAX_EVENTS}
  /\ pc' = "dispatch"
  /\ UNCHANGED <<is_runnning, polltimeout, handle, timerVars, fdVars,
                 abort_pipe, callVars, clockVars, due, skewed>>

\* The ticks since the wait began are elapsed * Res + phase - start.
PollTimeout ==
  /\ pc = "poll" /\ Pending = {}
  /\ polltimeout >= 0
  /\ elapsed * Res + phase - start >= polltimeout * Res
  /\ pc' = "expired"
  /\ UNCHANGED <<is_runnning, polltimeout, batch, handle, timerVars, fdVars,
                 abort_pipe, callVars, clockVars, due, skewed>>

\* A mutant: an interruption is taken for a timeout.
PollEintrAsTimeout ==
  /\ pc = "poll" /\ polltimeout >= 0
  /\ pc' = "expired"
  /\ UNCHANGED <<is_runnning, polltimeout, batch, handle, timerVars, fdVars,
                 abort_pipe, callVars, clockVars, due, skewed>>

PollEintr ==
  /\ pc = "poll"
  /\ pc' = "account"
  /\ UNCHANGED <<is_runnning, polltimeout, batch, handle, timerVars, fdVars,
                 abort_pipe, callVars, clockVars, due, skewed>>

\* Any other error: ioc_wait_once() returns -1 and accounts for nothing.
PollError ==
  /\ PollMayFail
  /\ pc = "poll"
  /\ pc' = "failed" /\ is_runnning' = FALSE
  /\ polltimeout' = -1 /\ start' = 0 /\ elapsed' = 0
  /\ UNCHANGED <<batch, handle, timerVars, fdVars, abort_pipe, callVars, phase,
                 due, skewed>>

\* Lines 157 to 160: the head, whichever it is by now, leaves the list and
\* its handler starts.
FireHead ==
  /\ pc = "expired"
  /\ handle' = Head(timeout_data_list)
  /\ Unlink(1)
  /\ pc' = "timercb"
  /\ UNCHANGED <<is_runnning, polltimeout, batch, fdVars, abort_pipe, callVars,
                 clockVars>>

\* Lines 161 to 164: the handler is back, and its node is freed.
TimerReturn ==
  /\ pc = "timercb"
  /\ handle' = NoHandle /\ pc' = "account"
  /\ UNCHANGED <<is_runnning, polltimeout, batch, timerVars, fdVars,
                 abort_pipe, callVars, clockVars, due, skewed>>

\* A mutant: nothing is read.
DispatchAbortUnread ==
  /\ pc = "dispatch" /\ AbortFd \in batch
  /\ batch' = batch \ {AbortFd}
  /\ UNCHANGED <<pc, is_runnning, polltimeout, handle, timerVars, fdVars,
                 abort_pipe, callVars, clockVars, due, skewed>>

\* The context's own handler reads as many bytes as its buffer holds.
DispatchAbort ==
  /\ pc = "dispatch" /\ AbortFd \in batch
  /\ batch' = batch \ {AbortFd}
  /\ abort_pipe' = IF abort_pipe > ReadSize THEN abort_pipe - ReadSize ELSE 0
  /\ UNCHANGED <<pc, is_runnning, polltimeout, handle, timerVars, fdVars,
                 callVars, clockVars, due, skewed>>

\* Lines 167 to 171.  The node of a stale event has been freed: what is read
\* there is still the handler, or something that ends the process.
DispatchFd(f) ==
  /\ pc = "dispatch" /\ f \in batch \ {AbortFd}
  /\ batch' = batch \ {f} /\ stale' = stale \ {f}
  /\ \/ pc' = "fdcb" /\ handle' = f
     \/ f \in stale /\ pc' = "crashed" /\ UNCHANGED handle
  /\ UNCHANGED <<is_runnning, polltimeout, timerVars, event_data_list, freed,
                 interest, ready, abort_pipe, callVars, clockVars, due, skewed>>

\* The handler read what there was; one that left some is one that new input
\* (Arrive) caught up with.
FdReturn ==
  /\ pc = "fdcb"
  /\ ready' = IF handle \in Stuck THEN ready ELSE ready \ {handle}
  /\ handle' = NoHandle /\ pc' = "dispatch"
  /\ UNCHANGED <<is_runnning, polltimeout, batch, timerVars, event_data_list,
                 freed, stale, interest, abort_pipe, callVars, clockVars, due,
                 skewed>>

\* A mutant: a val is not kept from falling below zero.
AfterWaitUnclamped(t) == IF t \in take_care_later THEN val[t] ELSE val[t] - elapsed

\* What the time a wait took leaves of a timer's val.
AfterWait(t) ==
  IF t \in take_care_later THEN val[t]
  ELSE IF val[t] > elapsed THEN val[t] - elapsed ELSE 0

\* The pass below spares a timer armed during the wait, although others give
\* up the time the wait took: from here on the list may be out of order.
AccountSkews ==
  /\ elapsed > 0 /\ Len(timeout_data_list) > 1
  /\ \E t \in take_care_later : val[t] > 0

AtAccount == pc = "account" \/ (pc = "dispatch" /\ batch = {})

\* A mutant: the marks are not cleared.
AccountKeepsMarks ==
  /\ AtAccount
  /\ val' = [t \in Timers |-> AfterWait(t)]
  /\ skewed' = (skewed \/ AccountSkews)
  /\ pc' = "leave" /\ polltimeout' = -1 /\ start' = 0 /\ elapsed' = 0
  /\ UNCHANGED <<is_runnning, batch, handle, timeout_data_list,
                 take_care_later, fdVars, abort_pipe, callVars, phase, due>>

\* Lines 174 to 191: the time the wait took comes off every timer but those
\* armed meanwhile, which are marked to be counted from now on.
Account ==
  /\ AtAccount
  /\ val' = [t \in Timers |-> AfterWait(t)]
  /\ take_care_later' = {}
  /\ skewed' = (skewed \/ AccountSkews)
  /\ pc' = "leave" /\ polltimeout' = -1 /\ start' = 0 /\ elapsed' = 0
  /\ UNCHANGED <<is_runnning, batch, handle, timeout_data_list, fdVars,
                 abort_pipe, callVars, phase, due>>

\* Lines 193 and 194.  A timer that the other thread has linked behind the
\* walk, or links from here on with the flag it read before, stays marked.
Leave ==
  /\ pc = "leave"
  /\ pc' = "idle" /\ is_runnning' = FALSE
  /\ UNCHANGED <<polltimeout, batch, handle, timerVars, fdVars, abort_pipe,
                 callVars, clockVars, due, skewed>>

-----------------------------------------------------------------------------
(* The environment, and the end.                                           *)

\* The clock has been read on entry and not yet for the accounting.
Measuring ==
  pc \in {"poll", "dispatch", "fdcb", "expired", "timercb", "account"}

\* Time passes, whatever the threads are doing.
Tick ==
  /\ phase' = (IF phase = Res - 1 THEN 0 ELSE phase + 1)
  /\ due' = [t \in Timers |-> IF due[t] > 0 THEN due[t] - 1 ELSE 0]
  /\ elapsed' = IF Measuring /\ phase = Res - 1 THEN elapsed + 1 ELSE elapsed
  /\ elapsed' <= MaxElapsed
  /\ UNCHANGED <<loopVars, timerVars, fdVars, abort_pipe, callVars, start,
                 skewed>>

\* delete_io_context(), by the owner: the nodes of both lists are freed.  What
\* a call of the other thread does to a context that is gone is not followed.
Delete ==
  /\ pc \in {"idle", "failed"}
  /\ pc' = "deleted"
  /\ timeout_data_list' = <<>> /\ take_care_later' = {}
  /\ val' = [t \in Timers |-> 0] /\ due' = [t \in Timers |-> 0]
  /\ event_data_list' = {} /\ freed' = {} /\ interest' = {}
  /\ abort_pipe' = 0 /\ skewed' = FALSE
  /\ callpc' = "none" /\ node' = NoHandle /\ mark' = FALSE
  /\ UNCHANGED <<is_runnning, polltimeout, batch, handle, stale, ready,
                 clockVars>>

\* create_io_context(): only the wake-up pipe is registered.  What clients are
\* going to register may have something to read already.
Init ==
  /\ pc = "idle" /\ is_runnning = FALSE /\ polltimeout = -1
  /\ batch = {} /\ handle = NoHandle
  /\ timeout_data_list = <<>> /\ val = [t \in Timers |-> 0]
  /\ take_care_later = {}
  /\ event_data_list = {} /\ freed = {} /\ stale = {}
  /\ interest = {} /\ ready \in SUBSET (Fds \ Unpollable)
  /\ abort_pipe = 0
  /\ callpc = "none" /\ node = NoHandle /\ mark = FALSE
  /\ phase \in 0..Res-1 /\ start = 0 /\ elapsed = 0
  /\ due = [t \in Timers |-> 0] /\ skewed = FALSE

Loop ==
  \/ Wait \/ PollEvents \/ PollTimeout \/ PollEintr \/ PollError
  \/ FireHead \/ TimerReturn \/ DispatchAbort \/ FdReturn
  \/ Account \/ Leave
  \/ \E f \in Fds : DispatchFd(f)

Client ==
  \/ \E t \in Timers, d \in Delays : Arm(t, d)
  \/ \E i \in 1..Len(timeout_data_list) : Cancel(i)
  \/ \E f \in Fds : AddFd(f) \/ RemoveFd(f) \/ Arrive(f)
  \/ \E t \in Timers : OtherBegin(t)
  \/ OtherStop
  \/ Delete

\* The other thread, once it has begun.
Other == OtherLink \/ OtherLook \/ OtherWrite

Next == Loop \/ Client \/ Other \/ Tick

Spec == Init /\ [][Next]_vars

-----------------------------------------------------------------------------
(* What is expected of the context.                                        *)

\* Every variable has its type; the armed timers are listed once each.
TypeOK ==
  /\ pc \in {"idle", "poll", "dispatch", "fdcb", "expired", "timercb",
             "account", "leave", "failed", "crashed", "deleted"}
  /\ is_runnning = (pc \notin {"idle", "failed", "deleted"})
  /\ polltimeout \in Nat \cup {-1}
  /\ batch \subseteq Fds \cup {AbortFd}
  /\ handle \in Fds \cup Timers \cup {NoHandle}
  /\ timeout_data_list \in Seq(Timers) /\ IsInjective(timeout_data_list)
  /\ val \in [Timers -> Nat]
  /\ take_care_later \subseteq Armed
  /\ event_data_list \subseteq Fds /\ freed \subseteq Fds
  /\ stale \subseteq Fds /\ interest \subseteq Fds /\ ready \subseteq Fds
  /\ abort_pipe \in Nat
  /\ callpc \in {"none", "link", "look", "write"}
  /\ node \in Timers \cup {NoHandle} /\ mark \in BOOLEAN
  /\ phase \in 0..Res-1 /\ start \in 0..Res-1 /\ elapsed \in Nat
  /\ due \in [Timers -> Nat] /\ skewed \in BOOLEAN

\* What the list says of a timer is never less than what is left of its
\* delay, counting in the time the wait in progress has not yet taken off
\* and the part of a millisecond that __now() cuts off.
TimelyTimer(t) ==
  \/ due[t] = 0
  \/ t \in take_care_later /\ due[t] <= val[t] * Res
  \/ t \notin take_care_later
     /\ due[t] <= (val[t] - elapsed) * Res + Res - 1 - phase
Timely == \A t \in Armed : TimelyTimer(t)

\* The values of the list never decrease along it, so that the head is the
\* next to fire, as long as no timer of a positive delay was armed inside a
\* wait that took time (AccountSkews) since the list was last this short.
SortedUnlessSkewed ==
  ~skewed => \A i, j \in DOMAIN timeout_data_list :
               i < j => val[timeout_data_list[i]] <= val[timeout_data_list[j]]

\* Whatever the list looks like, a timer armed right after another one with
\* a shorter delay is placed ahead of it, so that it runs in time to remove
\* the other (tests/io_context_tests.c, test_timeout).
GuardGoesFirst ==
  \A t \in Timers \ Armed, d1, d2 \in Delays :
    0 <= d2 /\ d2 < d1 =>
      LET p == InsertPos(timeout_data_list, val, d1)
      IN InsertPos(InsertAt(timeout_data_list, p, t),
                   [val EXCEPT ![t] = d1], d2) <= p

\* The loop never sleeps past the head of the list: what epoll_wait() was
\* given is the head's val, or a wake-up byte is in the pipe, or the other
\* thread is still to look whether one is needed.
NoSleepPastHead ==
  pc = "poll" /\ timeout_data_list # <<>> =>
    \/ abort_pipe > 0
    \/ polltimeout = val[Head(timeout_data_list)]
    \/ callpc \in {"look", "write"}

\* What is about to be dispatched has a node that is linked and not freed,
\* unless a handler of the same batch removed it: whatever is refused, added
\* again or removed between two waits is not reached through epoll.
DispatchLive ==
  batch \ {AbortFd} \subseteq (event_data_list \ freed) \cup stale

\* Where the loop is determines the rest of its state.  While it polls, the
\* head is the timer whose val it gave epoll_wait(), or one due at once that
\* the other thread put before it; when epoll_wait() has timed out there is a
\* timer to fire and its val has gone by since the wait began; once a wait is
\* accounted for, a timer that is still marked is one due at once, so that
\* the next wait may spare it without making it late.  Timely and this one
\* are inductive together.
HeadIsPolled ==
  LET h == timeout_data_list[1] IN
  \/ timeout_data_list = <<>>
  \/ val[h] = 0
  \/ h \notin take_care_later /\ val[h] = polltimeout
\* What the other thread has filled in is in nobody else's hands.
NodeIsApart ==
  /\ callpc = "link" => node \in Timers \ (Armed \cup {handle})
  /\ callpc # "link" => node = NoHandle
LoopInv ==
  /\ ~is_runnning \/ pc = "leave" => elapsed = 0
  /\ pc \in {"idle", "leave"} => \A t \in take_care_later : val[t] = 0
  /\ pc \notin {"dispatch", "fdcb", "crashed"} => batch = {}
  /\ pc = "timercb" => handle \in Timers
  /\ pc \notin {"fdcb", "timercb"} => handle = NoHandle
  /\ pc = "poll" /\ polltimeout >= 0 => timeout_data_list # <<>>
  /\ pc = "expired" => /\ timeout_data_list # <<>>
                       /\ elapsed * Res + phase - start >= polltimeout * Res
  /\ pc \in {"poll", "expired"} => HeadIsPolled
  /\ NodeIsApart
  /\ stale \subseteq batch
  /\ freed \subseteq event_data_list
  /\ interest \subseteq event_data_list \ freed

\* The context keeps what the timer service promises.
remaining == [t \in Armed |-> due[t]]
running == IF pc = "timercb" THEN handle ELSE NoHandle
TS == INSTANCE TimerService WITH due <- remaining, NoTimer <- NoHandle
ImplementsTimerService == TS!Spec
=============================================================================
