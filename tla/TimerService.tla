---------------------------- MODULE TimerService ----------------------------
(***************************************************************************)
(* What ioc_timeout() promises the rest of the engine, without the list,   *)
(* the event loop or the wake-up pipe: a handler armed with a delay of d   *)
(* milliseconds runs at most once, never after it was removed, never while *)
(* another one runs, and never a whole millisecond before d milliseconds   *)
(* have gone by.  IOContext implements this module.                        *)
(*                                                                         *)
(* Time is counted in ticks, Res of them to the millisecond, because the   *)
(* implementation measures durations by subtracting two clock readings     *)
(* that are each cut down to whole milliseconds.                           *)
(***************************************************************************)
EXTENDS Naturals

CONSTANTS
  Timers,   \* the handles ioc_timeout() can return
  Delays,   \* the delays, in milliseconds, the clients ask for
  Res,      \* ticks in a millisecond
  NoTimer   \* no handler runs

VARIABLES
  due,      \* the ticks left before each armed timer is due
  running   \* the timer whose handler runs

Armed == DOMAIN due

Init == due = [t \in {} |-> 0] /\ running = NoTimer

Arm(t, d) ==
  /\ t \notin Armed /\ t # running
  /\ due' = [u \in Armed \cup {t} |-> IF u = t THEN d * Res ELSE due[u]]
  /\ UNCHANGED running

Disarm(t) == due' = [u \in Armed \ {t} |-> due[u]]

Cancel(t) == t \in Armed /\ Disarm(t) /\ UNCHANGED running

\* The handler starts.  Only what is due may start, and one at a time.
Fire(t) ==
  /\ running = NoTimer
  /\ t \in Armed /\ due[t] < Res
  /\ Disarm(t) /\ running' = t

Return == running # NoTimer /\ running' = NoTimer /\ UNCHANGED due

Tick ==
  /\ due' = [u \in Armed |-> IF due[u] > 0 THEN due[u] - 1 ELSE 0]
  /\ UNCHANGED running

\* The context is deleted between two handlers, and every timer with it.
Close == running = NoTimer /\ due' = [u \in {} |-> 0] /\ UNCHANGED running

Next ==
  \/ \E t \in Timers, d \in Delays : Arm(t, d)
  \/ \E t \in Timers : Cancel(t) \/ Fire(t)
  \/ Return \/ Tick \/ Close

Spec == Init /\ [][Next]_<<due, running>>
=============================================================================
