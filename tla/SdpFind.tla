------------------------------ MODULE SdpFind -------------------------------
(***************************************************************************)
(* ble_find_rfcomm_channel() of battery_level_engine.c: the main thread    *)
(* hands a request to the SDP worker thread by arming a 0-delay timer in   *)
(* the worker's io_context, and the worker hands the result back the same  *)
(* way.  The threads share both contexts without a lock; this module takes *)
(* ioc_timeout() and ioc_wait_once() apart into the steps between which    *)
(* the other thread may run, as IOContext does not.                        *)
(*                                                                         *)
(* All delays are 0, so that a new timer always becomes the head and a     *)
(* context's list is a stack.  Linking a node, and unlinking one, is to    *)
(* read the head and then to write the links and the head.  Where the two  *)
(* threads do so to one list at the same time (overlapped), the head just  *)
(* read may be gone, and a node just linked may be lost again.  That the   *)
(* node that was unlinked may stay reachable is not followed further:      *)
(* nothing is claimed of what comes after an overlap.                      *)
(*                                                                         *)
(* A use of freed memory is recorded in touched, and the behaviour goes on *)
(* as if the memory still held what it did: properties speak only of the   *)
(* behaviours where touched stays empty, any other outcome being possible. *)
(***************************************************************************)
EXTENDS Integers, SequencesExt

CONSTANTS
  Reqs,         \* the "connect-to" commands, one device each
  Silent,       \* devices that send one command and then nothing more
  StdinEnds,    \* whether stdin may reach end of file
  SeenLate,     \* threads whose stores to is_runnning may be seen late
  NoReq

ASSUME ReqsAssumption ==
  /\ Silent \subseteq Reqs /\ NoReq \notin Reqs
  /\ StdinEnds \in BOOLEAN /\ SeenLate \subseteq {"main", "sdp"}

VARIABLES
  pc,           \* where each thread is
  polltimeout,  \* what it gave epoll_wait(): 0, or -1 for ever
  batch,        \* the events epoll_wait() returned and not yet dispatched
  job,          \* the request each thread is handling
  running,      \* is_runnning of each thread's context
  buffered,     \* its store of TRUE is not visible yet
  queue,        \* timeout_data_list of each thread's context
  pipe,         \* wake-up bytes in the pipe of each thread's context
  input,        \* commands typed and not yet read
  eof,          \* stdin has reached end of file
  signal,       \* a stop signal is waiting in the signalfd
  socket,       \* the connection to each device
  asked,        \* requests made
  given,        \* requests whose result was given to the registered handler
  stop,         \* ctx_data.stop
  exiting,      \* the main thread is in exit()
  quiet,        \* history: the worker was asleep when the main loop ended
  sdp_stop,     \* _sdp_thread_stop
  delfunc,      \* result nodes whose free_data_func is set
  freed,        \* objects freed
  touched,      \* history: objects used after they were freed
  first,        \* the head of the other's list, read by ioc_timeout()
  overlapped,   \* history: both threads have changed one list at once
  missed        \* history: threads in a wait the other did not see begin

loopVars == <<pc, polltimeout, batch, job>>
ctxVars  == <<running, buffered, queue, pipe>>
envVars  == <<input, eof, signal, socket>>
reqVars  == <<asked, given>>
stopVars == <<stop, exiting, quiet, sdp_stop>>
memVars  == <<delfunc, freed, touched>>
raceVars == <<first, overlapped, missed>>
vars == <<loopVars, ctxVars, envVars, reqVars, stopVars, memVars, raceVars>>

Threads == {"main", "sdp"}
Other(t) == IF t = "main" THEN "sdp" ELSE "main"

Context(t) == <<"ctx", t>>     \* the io_context of thread t
Engine(r)  == <<"ble", r>>     \* the ble_t and the address of a device
Request(r) == <<"req", r>>     \* the timer that carries a request
Node(r)    == <<"node", r>>    \* the timer that carries a result
Result(r)  == <<"res", r>>     \* the result it carries

\* The timers in the list of thread t.
Timer(t, r) == IF t = "main" THEN Node(r) ELSE Request(r)
Timers(t) == {Timer(t, r) : r \in ToSet(queue[t])}

HeadOf(q) == IF q = <<>> THEN NoReq ELSE Head(q)

Goto(t, l) == pc' = [pc EXCEPT ![t] = l]

\* Memory that is used: whatever of it was freed is recorded.
Use(objs) == touched' = touched \cup (objs \cap freed)

-----------------------------------------------------------------------------
(* ioc_wait_once(), by either thread on its own context.                   *)

\* A mutant: is_runnning is not set.
StartUnsaid(t) ==
  /\ pc[t] = "idle"
  /\ Goto(t, "begun")
  /\ UNCHANGED <<polltimeout, batch, job, ctxVars, envVars, reqVars, stopVars,
                 memVars, raceVars>>

\* Line 143, a store to a plain bool: the other thread may see it later than
\* what this thread then reads of its list.
Start(t) ==
  /\ pc[t] = "idle"
  /\ Goto(t, "begun")
  /\ \/ running' = [running EXCEPT ![t] = TRUE] /\ UNCHANGED buffered
     \/ /\ t \in SeenLate
        /\ buffered' = [buffered EXCEPT ![t] = TRUE] /\ UNCHANGED running
  /\ UNCHANGED <<polltimeout, batch, job, queue, pipe, envVars, reqVars,
                 stopVars, memVars, raceVars>>

\* The store is seen; at the latest when epoll_wait() returns.
Flush(t) ==
  /\ buffered[t]
  /\ buffered' = [buffered EXCEPT ![t] = FALSE]
  /\ running' = [running EXCEPT ![t] = TRUE]
  /\ UNCHANGED <<loopVars, queue, pipe, envVars, reqVars, stopVars, memVars,
                 raceVars>>

\* Lines 145 to 147.
ReadHead(t) ==
  /\ pc[t] = "begun"
  /\ Goto(t, "poll")
  /\ polltimeout' = [polltimeout EXCEPT ![t] = IF queue[t] = <<>> THEN -1
                                               ELSE 0]
  /\ Use({Timer(t, r) : r \in {HeadOf(queue[t])} \ {NoReq}})
  /\ UNCHANGED <<batch, job, ctxVars, envVars, reqVars, stopVars, delfunc,
                 freed, raceVars>>

\* What epoll has to report: the pipe, and for the main thread stdin, the
\* signalfd and the sockets.
Pending(t) ==
  (IF pipe[t] > 0 THEN {"pipe"} ELSE {}) \cup
  (IF t = "sdp" THEN {}
   ELSE (IF input # {} \/ eof THEN {"stdin"} ELSE {}) \cup
        (IF signal THEN {"signal"} ELSE {}) \cup
        {r \in Reqs : socket[r] = "ready"})

PollEvents(t) ==
  /\ pc[t] = "poll" /\ ~buffered[t] /\ Pending(t) # {}
  /\ batch' = [batch EXCEPT ![t] = Pending(t)]
  /\ Goto(t, "dispatch")
  /\ UNCHANGED <<polltimeout, job, ctxVars, envVars, reqVars, stopVars,
                 memVars, raceVars>>

PollTimeout(t) ==
  /\ pc[t] = "poll" /\ ~buffered[t] /\ Pending(t) = {}
  /\ polltimeout[t] = 0
  /\ Goto(t, "expired")
  /\ UNCHANGED <<polltimeout, batch, job, ctxVars, envVars, reqVars, stopVars,
                 memVars, raceVars>>

\* Line 157, and what 159 reads: the head as it is by now.
FireHead(t) ==
  /\ pc[t] = "expired"
  /\ job' = [job EXCEPT ![t] = Head(queue[t])]
  /\ Use({Timer(t, Head(queue[t]))})
  /\ overlapped' = (overlapped \/ pc[Other(t)] = "splice")
  /\ Goto(t, "unlink")
  /\ UNCHANGED <<polltimeout, batch, ctxVars, envVars, reqVars, stopVars,
                 delfunc, freed, first, missed>>

\* What line 159 writes: the links of the neighbours, and the head.  What the
\* other thread has linked in front in the meantime stays, or is lost.
Unlink(t) ==
  /\ pc[t] = "unlink"
  /\ LET q == queue[t] IN
       \E k \in DOMAIN q :
         /\ q[k] = job[t]
         /\ \E front \in {SubSeq(q, 1, k - 1), <<>>} :
              queue' = [queue EXCEPT ![t] = front \o SubSeq(q, k + 1, Len(q))]
  /\ Goto(t, "handler")
  /\ UNCHANGED <<polltimeout, batch, job, running, buffered, pipe, envVars,
                 reqVars, stopVars, memVars, raceVars>>

DispatchPipe(t) ==
  /\ pc[t] = "dispatch" /\ "pipe" \in batch[t]
  /\ batch' = [batch EXCEPT ![t] = @ \ {"pipe"}]
  /\ pipe' = [pipe EXCEPT ![t] = IF @ > 8 THEN @ - 8 ELSE 0]
  /\ UNCHANGED <<pc, polltimeout, job, running, buffered, queue, envVars,
                 reqVars, stopVars, memVars, raceVars>>

\* Lines 174 to 193: every timer is met, and nothing is left to take off a
\* delay of 0.
Finish(t) ==
  /\ pc[t] = "account" \/ (pc[t] = "dispatch" /\ batch[t] = {})
  /\ Use(Timers(t))
  /\ running' = [running EXCEPT ![t] = FALSE]
  /\ missed' = missed \ {t}
  /\ polltimeout' = [polltimeout EXCEPT ![t] = -1]
  /\ Goto(t, "check")
  /\ UNCHANGED <<batch, job, buffered, queue, pipe, envVars, reqVars, stopVars,
                 delfunc, freed, first, overlapped>>

-----------------------------------------------------------------------------
(* ioc_timeout(other context, 0) and ioc_stop_wait(), by a handler.        *)

\* Lines 287 and 293.  The worker first reads its way there: ble->ctx.
ReadFirst(t) ==
  /\ pc[t] = "link"
  /\ Use({Context(Other(t))} \cup
         (IF t = "sdp" THEN {Engine(job[t])} ELSE {}))
  /\ first' = [first EXCEPT ![t] = HeadOf(queue[Other(t)])]
  /\ overlapped' = (overlapped \/ pc[Other(t)] = "unlink")
  /\ Goto(t, "splice")
  /\ UNCHANGED <<polltimeout, batch, job, ctxVars, envVars, reqVars, stopVars,
                 delfunc, freed, missed>>

\* Lines 294 to 296 in front of what was read, or line 288.
Link(t) ==
  /\ pc[t] = "splice"
  /\ Use({Context(Other(t))} \cup
         {Timer(Other(t), r) : r \in {first[t]} \ {NoReq}})
  /\ queue' = [queue EXCEPT ![Other(t)] = <<job[t]>> \o @]
  /\ job' = IF t = "main" THEN [job EXCEPT ![t] = NoReq] ELSE job
  /\ first' = [first EXCEPT ![t] = NoReq]
  /\ Goto(t, "look")
  /\ UNCHANGED <<polltimeout, batch, running, buffered, pipe, envVars, reqVars,
                 stopVars, delfunc, freed, overlapped, missed>>

\* Where the thread goes on: the main thread to the end of exit() or of the
\* command handler, the worker to ioc_set_handle_delete_func().
AfterWake(t) ==
  IF t = "sdp" THEN "setfree" ELSE IF exiting THEN "join" ELSE "dispatch"

\* Line 309, and once more line 204: is the other thread's loop in a wait?
Look(t, from, to) ==
  /\ pc[t] = from
  /\ Use({Context(Other(t))})
  /\ Goto(t, IF running[Other(t)] THEN to ELSE AfterWake(t))
  /\ missed' = IF buffered[Other(t)] THEN missed \cup {Other(t)} ELSE missed
  /\ UNCHANGED <<polltimeout, batch, job, ctxVars, envVars, reqVars, stopVars,
                 delfunc, freed, first, overlapped>>

LookOnce(t)  == Look(t, "look", "looktwice")
LookTwice(t) == Look(t, "looktwice", "write")

\* A mutant: it wakes the context of the calling thread.
WakeSelf(t) ==
  /\ pc[t] = "write"
  /\ Use({Context(t)})
  /\ pipe' = [pipe EXCEPT ![t] = @ + 1]
  /\ Goto(t, AfterWake(t))
  /\ UNCHANGED <<polltimeout, batch, job, running, buffered, queue, envVars,
                 reqVars, stopVars, delfunc, freed, raceVars>>

\* Line 205.
WakeOther(t) ==
  /\ pc[t] = "write"
  /\ Use({Context(Other(t))})
  /\ pipe' = [pipe EXCEPT ![Other(t)] = @ + 1]
  /\ Goto(t, AfterWake(t))
  /\ UNCHANGED <<polltimeout, batch, job, running, buffered, queue, envVars,
                 reqVars, stopVars, delfunc, freed, raceVars>>

-----------------------------------------------------------------------------
(* The worker thread: _internal_ble_find_rfcomm_channel() and              *)
(* _sdp_routine().                                                         *)

\* pthread_create() has returned in the main thread; the new thread begins.
ThreadStart ==
  /\ pc["sdp"] = "new"
  /\ Goto("sdp", "idle")
  /\ UNCHANGED <<polltimeout, batch, job, ctxVars, envVars, reqVars, stopVars,
                 memVars, raceVars>>

\* A mutant: what the session is for is freed before it has been read.
EndSessionForgetful ==
  /\ pc["sdp"] = "handler"
  /\ job' = [job EXCEPT !["sdp"] = NoReq]
  /\ Goto("sdp", "link")
  /\ UNCHANGED <<polltimeout, batch, ctxVars, envVars, reqVars, stopVars,
                 memVars, raceVars>>

\* The SDP session has come to its end, with a channel or without.
EndSession ==
  /\ pc["sdp"] = "handler"
  /\ Use({Engine(job["sdp"])})
  /\ Goto("sdp", "link")
  /\ UNCHANGED <<polltimeout, batch, job, ctxVars, envVars, reqVars, stopVars,
                 delfunc, freed, raceVars>>

\* ioc_set_handle_delete_func(), on a node the main thread may have fired; and
\* lines 161 to 164 for the request, which has no delete function.
SetFree ==
  /\ pc["sdp"] = "setfree"
  /\ Use({Node(job["sdp"])})
  /\ delfunc' = delfunc \cup {job["sdp"]}
  /\ freed' = freed \cup {Request(job["sdp"])}
  /\ job' = [job EXCEPT !["sdp"] = NoReq]
  /\ Goto("sdp", "account")
  /\ UNCHANGED <<polltimeout, batch, ctxVars, envVars, reqVars, stopVars,
                 raceVars>>

\* A mutant: it stops after every wait.
SdpCheckOnce ==
  /\ pc["sdp"] = "check"
  /\ Goto("sdp", "closing")
  /\ UNCHANGED <<polltimeout, batch, job, ctxVars, envVars, reqVars, stopVars,
                 memVars, raceVars>>

\* Lines 76 to 79.
SdpCheck ==
  /\ pc["sdp"] = "check"
  /\ Goto("sdp", IF sdp_stop THEN "closing" ELSE "idle")
  /\ UNCHANGED <<polltimeout, batch, job, ctxVars, envVars, reqVars, stopVars,
                 memVars, raceVars>>

SdpClose ==
  /\ pc["sdp"] = "closing"
  /\ freed' = freed \cup {Context("sdp")} \cup Timers("sdp")
  /\ Goto("sdp", "done")
  /\ UNCHANGED <<polltimeout, batch, job, ctxVars, envVars, reqVars, stopVars,
                 delfunc, touched, raceVars>>

-----------------------------------------------------------------------------
(* The main thread: its handlers, main() and exit().                       *)

\* The constructor has returned, sched_yield() or not, and main() begins.
EnterMain ==
  /\ pc["main"] = "new"
  /\ Goto("main", "idle")
  /\ UNCHANGED <<polltimeout, batch, job, ctxVars, envVars, reqVars, stopVars,
                 memVars, raceVars>>

\* on_stdin_data_pending(): one command, or nothing at end of file.
ReadStdin ==
  /\ pc["main"] = "dispatch" /\ "stdin" \in batch["main"]
  /\ batch' = [batch EXCEPT !["main"] = @ \ {"stdin"}]
  /\ \/ \E r \in input :
          /\ input' = input \ {r} /\ asked' = asked \cup {r}
          /\ job' = [job EXCEPT !["main"] = r]
          /\ Goto("main", "link")
     \/ /\ input = {}
        /\ UNCHANGED <<pc, job, input, asked, raceVars>>
  /\ UNCHANGED <<polltimeout, ctxVars, eof, signal, socket, given, stopVars,
                 memVars, raceVars>>

ReadSignal ==
  /\ pc["main"] = "dispatch" /\ "signal" \in batch["main"]
  /\ batch' = [batch EXCEPT !["main"] = @ \ {"signal"}]
  /\ signal' = FALSE /\ stop' = TRUE
  /\ UNCHANGED <<pc, polltimeout, job, ctxVars, input, eof, socket, reqVars,
                 exiting, quiet, sdp_stop, memVars, raceVars>>

\* _ble_on_socket_data_is_pending(): a loop of blocking recv() calls, which
\* only a battery level or an error ends.
EnterRecv(r) ==
  /\ pc["main"] = "dispatch" /\ r \in batch["main"]
  /\ batch' = [batch EXCEPT !["main"] = @ \ {r}]
  /\ job' = [job EXCEPT !["main"] = r]
  /\ Goto("main", "recv")
  /\ UNCHANGED <<polltimeout, ctxVars, envVars, reqVars, stopVars, memVars,
                 raceVars>>

LeaveRecv ==
  /\ pc["main"] = "recv" /\ job["main"] \notin Silent
  /\ socket' = [socket EXCEPT ![job["main"]] = "heard"]
  /\ job' = [job EXCEPT !["main"] = NoReq]
  /\ Goto("main", "dispatch")
  /\ UNCHANGED <<polltimeout, batch, ctxVars, input, eof, signal, reqVars,
                 stopVars, memVars, raceVars>>

\* The registered handler: it connects to the device, and ioc_add_fd(), called
\* in a wait, wakes its own thread (lines 253 to 255); or, when there is no
\* channel or no connection, it calls exit().
GiveResult ==
  /\ pc["main"] = "handler"
  /\ given' = given \cup {job["main"]}
  /\ \/ /\ socket' = [socket EXCEPT ![job["main"]] = "open"]
        /\ pipe' = IF running["main"] THEN [pipe EXCEPT !["main"] = @ + 1]
                   ELSE pipe
        /\ Goto("main", "release")
        /\ UNCHANGED exiting
     \/ /\ exiting' = TRUE
        /\ Goto("main", "exit")
        /\ UNCHANGED <<socket, pipe>>
  /\ UNCHANGED <<polltimeout, batch, job, running, buffered, queue, input, eof,
                 signal, asked, stop, quiet, sdp_stop, memVars, raceVars>>

\* A mutant: the result stays allocated.
ReleaseNode ==
  /\ pc["main"] = "release"
  /\ freed' = freed \cup {Node(job["main"])}
  /\ job' = [job EXCEPT !["main"] = NoReq]
  /\ Goto("main", "account")
  /\ UNCHANGED <<polltimeout, batch, ctxVars, envVars, reqVars, stopVars,
                 delfunc, touched, raceVars>>

\* Lines 161 to 164.
Release ==
  /\ pc["main"] = "release"
  /\ LET r == job["main"] IN
       freed' = freed \cup {Node(r)} \cup
                  (IF r \in delfunc THEN {Result(r)} ELSE {})
  /\ job' = [job EXCEPT !["main"] = NoReq]
  /\ Goto("main", "account")
  /\ UNCHANGED <<polltimeout, batch, ctxVars, envVars, reqVars, stopVars,
                 delfunc, touched, raceVars>>

\* The worker sleeps, and is seen to, with nothing to do and nothing on its way.
WorkerAsleep ==
  /\ pc["sdp"] = "poll" /\ polltimeout["sdp"] = -1 /\ running["sdp"]
  /\ queue["sdp"] = <<>> /\ pipe["sdp"] = 0

\* Lines 70 to 74 of main.c.
MainCheck ==
  /\ pc["main"] = "check"
  /\ Goto("main", IF stop THEN "teardown" ELSE "idle")
  /\ quiet' = (stop /\ WorkerAsleep)
  /\ UNCHANGED <<polltimeout, batch, job, ctxVars, envVars, reqVars, stop,
                 exiting, sdp_stop, memVars, raceVars>>

\* cm_delete() and delete_battery_level_engine().
DeleteConnections ==
  /\ pc["main"] = "teardown"
  /\ freed' = freed \cup {Engine(r) : r \in asked}
  /\ Goto("main", "delete")
  /\ UNCHANGED <<polltimeout, batch, job, ctxVars, envVars, reqVars, stopVars,
                 delfunc, touched, raceVars>>

\* delete_io_context(), with the results not yet given.
DeleteContext ==
  /\ pc["main"] = "delete"
  /\ LET left == ToSet(queue["main"]) IN
       freed' = freed \cup {Context("main")} \cup {Node(r) : r \in left} \cup
                  {Result(r) : r \in left \cap delfunc}
  /\ exiting' = TRUE
  /\ Goto("main", "exit")
  /\ UNCHANGED <<polltimeout, batch, job, ctxVars, envVars, reqVars, stop,
                 quiet, sdp_stop, delfunc, touched, raceVars>>

\* A mutant: the worker's context is deleted first, by the main thread.
StopWorkerDeleting ==
  /\ pc["main"] = "exit"
  /\ sdp_stop' = TRUE
  /\ freed' = freed \cup {Context("sdp")}
  /\ Goto("main", "looktwice")
  /\ UNCHANGED <<polltimeout, batch, job, ctxVars, envVars, reqVars, stop,
                 exiting, quiet, delfunc, touched, raceVars>>

\* A mutant: the worker is not woken.
StopWorkerAsleep ==
  /\ pc["main"] = "exit"
  /\ sdp_stop' = TRUE
  /\ Goto("main", "join")
  /\ UNCHANGED <<polltimeout, batch, job, ctxVars, envVars, reqVars, stop,
                 exiting, quiet, memVars, raceVars>>

\* _cleanup_sdp_thread(): ask the worker to stop, wake it, and join it.
StopWorker ==
  /\ pc["main"] = "exit"
  /\ sdp_stop' = TRUE
  /\ Goto("main", "looktwice")
  /\ UNCHANGED <<polltimeout, batch, job, ctxVars, envVars, reqVars, stop,
                 exiting, quiet, memVars, raceVars>>

JoinWorker ==
  /\ pc["main"] = "join" /\ pc["sdp"] = "done"
  /\ Goto("main", "done")
  /\ UNCHANGED <<polltimeout, batch, job, ctxVars, envVars, reqVars, stopVars,
                 memVars, raceVars>>

-----------------------------------------------------------------------------
(* The user, the devices, and the whole.                                   *)

Type(r) ==
  /\ r \notin input \cup asked /\ ~eof
  /\ input' = input \cup {r}
  /\ UNCHANGED <<loopVars, ctxVars, eof, signal, socket, reqVars, stopVars,
                 memVars, raceVars>>

CloseStdin ==
  /\ StdinEnds /\ ~eof
  /\ eof' = TRUE
  /\ UNCHANGED <<loopVars, ctxVars, input, signal, socket, reqVars, stopVars,
                 memVars, raceVars>>

\* SIGTERM and the like, once.
Terminate ==
  /\ ~signal /\ ~stop
  /\ signal' = TRUE
  /\ UNCHANGED <<loopVars, ctxVars, input, eof, socket, reqVars, stopVars,
                 memVars, raceVars>>

\* A connected device sends a command.
Talk(r) ==
  /\ socket[r] = "open"
  /\ socket' = [socket EXCEPT ![r] = "ready"]
  /\ UNCHANGED <<loopVars, ctxVars, input, eof, signal, reqVars, stopVars,
                 memVars, raceVars>>

Environment ==
  \/ \E r \in Reqs : Type(r) \/ Talk(r)
  \/ CloseStdin
  \/ Terminate

Wait(t) ==
  \/ Start(t) \/ ReadHead(t) \/ PollEvents(t) \/ PollTimeout(t)
  \/ FireHead(t) \/ Unlink(t) \/ DispatchPipe(t) \/ Finish(t)
HandOver(t) ==
  ReadFirst(t) \/ Link(t) \/ LookOnce(t) \/ LookTwice(t) \/ WakeOther(t)

Worker ==
  \/ Wait("sdp") \/ HandOver("sdp")
  \/ ThreadStart \/ EndSession \/ SetFree \/ SdpCheck \/ SdpClose

Main ==
  \/ Wait("main") \/ HandOver("main")
  \/ EnterMain \/ ReadStdin \/ ReadSignal \/ GiveResult \/ Release
  \/ \E r \in Reqs : EnterRecv(r)
  \/ LeaveRecv \/ MainCheck \/ DeleteConnections \/ DeleteContext
  \/ StopWorker \/ JoinWorker

\* _create_sdp_thread() has made the worker's context.
Init ==
  /\ pc = [t \in Threads |-> "new"]
  /\ polltimeout = [t \in Threads |-> -1]
  /\ batch = [t \in Threads |-> {}] /\ job = [t \in Threads |-> NoReq]
  /\ running = [t \in Threads |-> FALSE]
  /\ buffered = [t \in Threads |-> FALSE]
  /\ queue = [t \in Threads |-> <<>>] /\ pipe = [t \in Threads |-> 0]
  /\ input = {} /\ eof = FALSE /\ signal = FALSE
  /\ socket = [r \in Reqs |-> "none"]
  /\ asked = {} /\ given = {}
  /\ stop = FALSE /\ exiting = FALSE /\ quiet = FALSE /\ sdp_stop = FALSE
  /\ delfunc = {} /\ freed = {} /\ touched = {}
  /\ first = [t \in Threads |-> NoReq]
  /\ overlapped = FALSE /\ missed = {}

Next == Main \/ Worker \/ (\E t \in Threads : Flush(t)) \/ Environment

Spec == Init /\ [][Next]_vars

\* The threads are scheduled, stores become visible, SDP sessions end, and a
\* device that is not Silent goes on until it has reported its battery level.
\* Nobody has to type, to stop the program or to send.
Fairness ==
  WF_vars(Main) /\ WF_vars(Worker) /\ WF_vars(\E t \in Threads : Flush(t))

FairSpec == Spec /\ Fairness

-----------------------------------------------------------------------------
(* What is expected of the pair of threads.                                *)

Handling == {"unlink", "handler", "link", "splice", "setfree", "release",
             "recv"}
WaitPcs == Handling \cup
           {"begun", "poll", "dispatch", "expired", "look", "looktwice",
            "write", "account"}

Types ==
  /\ pc \in [Threads -> WaitPcs \cup
              {"new", "idle", "check", "closing", "teardown", "delete",
               "exit", "join", "done"}]
  /\ polltimeout \in [Threads -> {-1, 0}]
  /\ batch \in [Threads -> SUBSET ({"pipe", "stdin", "signal"} \cup Reqs)]
  /\ job \in [Threads -> Reqs \cup {NoReq}]
  /\ running \in [Threads -> BOOLEAN] /\ buffered \in [Threads -> BOOLEAN]
  /\ queue \in [Threads -> Seq(Reqs)] /\ pipe \in [Threads -> Nat]
  /\ input \subseteq Reqs /\ asked \subseteq Reqs /\ given \subseteq asked
  /\ first \in [Threads -> Reqs \cup {NoReq}]
  /\ overlapped \in BOOLEAN /\ missed \subseteq Threads
  /\ eof \in BOOLEAN /\ signal \in BOOLEAN
  /\ socket \in [Reqs -> {"none", "open", "ready", "heard"}]
  /\ stop \in BOOLEAN /\ exiting \in BOOLEAN /\ quiet \in BOOLEAN
  /\ sdp_stop \in BOOLEAN
  /\ delfunc \subseteq Reqs /\ touched \subseteq freed

\* Types; and a thread that handles a request has one at hand.
TypeOK ==
  Types /\ \A t \in Threads : pc[t] \in Handling => job[t] # NoReq

\* A thread that sleeps with a timer in its list is about to be woken: a
\* byte is in its pipe, or the other thread is between linking the timer
\* and writing one (io_context.c:143-149 against 287-312, 201-205).  The only
\* way to lose a wake-up is that the other thread looked at is_runnning
\* before it could see the store of this wait.
NoLostWakeup ==
  \A t \in Threads :
    pc[t] = "poll" /\ polltimeout[t] = -1 /\ queue[t] # <<>> =>
      \/ pipe[t] > 0
      \/ pc[Other(t)] \in {"look", "looktwice", "write"}
      \/ t \in missed

\* "result will be given by registring event" (battery_level_engine.c:239):
\* whoever asks for a channel is answered, unless the program is told to
\* stop, exits, or one of three races was run: a store seen late, a list
\* changed by both threads at once, and a use of memory that had been freed.
ResultGiven ==
  \A r \in Reqs :
    r \in asked ~> \/ r \in given \/ stop \/ exiting
                   \/ missed # {} \/ overlapped \/ touched # {}

\* Until the program ends, it takes one of two races to use freed memory.
\* Either both threads change one list at the same time: the head that
\* ioc_timeout() has read (io_context.c:293-296) may then be a timer that its
\* owner fires and frees (157-164).  Or what is used is the node of a result
\* that the main thread fired while the worker was still about to set its
\* delete function (battery_level_engine.c:233-236).
UseAfterFreeTakesARace ==
  \/ pc["main"] \in {"delete", "exit", "looktwice", "write", "join", "done"}
  \/ overlapped
  \/ touched \subseteq {Node(r) : r \in {q \in given : Result(q) \notin freed}}

\* A result is freed when its handler has returned, but for those same races.
ResultsFreed ==
  \A r \in given :
    Node(r) \in freed =>
      \/ Result(r) \in freed
      \/ Node(r) \in touched
      \/ job["sdp"] = r
      \/ overlapped

\* When the worker is asleep with nothing to do at the time the main loop
\* ends, the end of the process uses nothing it has freed, if no list was ever
\* changed by both threads at once ...
QuietStopIsClean ==
  quiet /\ ~overlapped => touched \subseteq {Node(r) : r \in given}

\* ... and the worker is woken and joined.
QuietStopEnds == quiet ~> pc["main"] = "done"
=============================================================================
