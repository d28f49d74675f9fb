--------------------------- MODULE SdpFindProofs ----------------------------
(***************************************************************************)
(* Proofs about SdpFind, for every number of requests and whichever way    *)
(* the threads see each other's stores: how a wake-up can be lost          *)
(* (NoLostWakeup), and what is freed and what of it is used (TypeOK,       *)
(* UseAfterFreeTakesARace, ResultsFreed, QuietStopIsClean).                *)
(***************************************************************************)
EXTENDS SdpFind, SequenceLemmas, TLAPS

Waking == {"look", "looktwice", "write"}

\* What NoLostWakeup needs to be inductive: a thread about to sleep has said
\* so in is_runnning, seen by the other or not.  The other conjuncts are the
\* part of the types used.
SaysItSleeps ==
  /\ DOMAIN pc = Threads /\ DOMAIN polltimeout = Threads
  /\ DOMAIN running = Threads /\ DOMAIN queue = Threads
  /\ DOMAIN buffered = Threads
  /\ pipe \in [Threads -> Nat]
  /\ \A t \in Threads : pc[t] \in {"begun", "poll"} => running[t] \/ buffered[t]
WakeInv == SaysItSleeps /\ NoLostWakeup

LEMMA OtherThread ==
  \A t \in Threads : Other(t) \in Threads /\ Other(t) # t /\ Other(Other(t)) = t
  BY DEF Threads, Other

\* A step that leaves both contexts alone and moves one thread that was not
\* waking the other, and does not start to poll, breaks nothing.
LEMMA Elsewhere ==
  ASSUME WakeInv, NEW t \in Threads, NEW l,
         Goto(t, l), l \notin {"begun", "poll"}, pc[t] \notin Waking,
         UNCHANGED <<polltimeout, running, buffered, queue, pipe, missed>>
  PROVE  WakeInv'
  BY OtherThread DEF WakeInv, SaysItSleeps, NoLostWakeup, Goto, Waking

\* The steps of ioc_wait_once() by one thread.
LEMMA WaitKeeps ==
  ASSUME WakeInv, NEW t \in Threads, Wait(t) PROVE WakeInv'
<1>1. CASE Start(t)
  BY <1>1, OtherThread
  DEF Start, Goto, raceVars, WakeInv, SaysItSleeps, NoLostWakeup, Waking
<1>2. CASE ReadHead(t)
  BY <1>2, OtherThread
  DEF ReadHead, Goto, ctxVars, raceVars, WakeInv, SaysItSleeps, NoLostWakeup,
      Waking
<1>3. CASE PollEvents(t) \/ PollTimeout(t) \/ FireHead(t)
  BY <1>3, Elsewhere DEF PollEvents, PollTimeout, FireHead, ctxVars, raceVars,
     Waking
<1>4. CASE Unlink(t)
  BY <1>4, OtherThread
  DEF Unlink, Goto, raceVars, WakeInv, SaysItSleeps, NoLostWakeup, Waking
<1>5. CASE DispatchPipe(t)
  <2>1. pipe' \in [Threads -> Nat]
    BY <1>5 DEF DispatchPipe, WakeInv, SaysItSleeps
  <2> QED BY <1>5, <2>1, OtherThread
          DEF DispatchPipe, raceVars, WakeInv, SaysItSleeps, NoLostWakeup
<1>6. CASE Finish(t)
  BY <1>6, OtherThread
  DEF Finish, Goto, WakeInv, SaysItSleeps, NoLostWakeup, Waking
<1> QED BY <1>1, <1>2, <1>3, <1>4, <1>5, <1>6 DEF Wait

\* The steps of handing a request or a result over.
LEMMA HandOverKeeps ==
  ASSUME WakeInv, NEW t \in Threads, HandOver(t) PROVE WakeInv'
<1>1. CASE Link(t)
  BY <1>1, OtherThread
  DEF Link, Goto, WakeInv, SaysItSleeps, NoLostWakeup, Waking
<1>4. CASE ReadFirst(t)
  BY <1>4, Elsewhere DEF ReadFirst, ctxVars, Waking
<1>2. ASSUME NEW from \in Waking, NEW to \in Waking, Look(t, from, to)
      PROVE  WakeInv'
  <2>1. AfterWake(t) \notin {"begun", "poll"} /\ to \notin {"begun", "poll"}
    BY DEF AfterWake, Waking
  <2>2. /\ pc[t] # "poll" /\ pc[t] = from
        /\ pc' = [pc EXCEPT ![t] = IF running[Other(t)] THEN to
                                   ELSE AfterWake(t)]
        /\ missed' = IF buffered[Other(t)] THEN missed \cup {Other(t)}
                     ELSE missed
        /\ UNCHANGED <<polltimeout, running, buffered, queue, pipe>>
    BY <1>2 DEF Look, Goto, ctxVars, Waking
  <2>3. CASE running[Other(t)]
    BY <2>1, <2>2, <2>3, OtherThread
    DEF WakeInv, SaysItSleeps, NoLostWakeup, Waking
  <2>4. CASE ~running[Other(t)]
    <3>1. pc[Other(t)] = "poll" => Other(t) \in missed'
      BY <2>2, <2>4, OtherThread DEF WakeInv, SaysItSleeps
    <3> QED BY <2>1, <2>2, <2>4, <3>1, OtherThread
            DEF WakeInv, SaysItSleeps, NoLostWakeup, Waking
  <2> QED BY <2>3, <2>4
<1>3. CASE WakeOther(t)
  <2>1. AfterWake(t) \notin {"begun", "poll"}
    BY DEF AfterWake
  <2>2. pipe' \in [Threads -> Nat] /\ pipe'[Other(t)] > 0
    BY <1>3, OtherThread DEF WakeOther, WakeInv, SaysItSleeps
  <2> QED BY <1>3, <2>1, <2>2, OtherThread
          DEF WakeOther, Goto, raceVars, WakeInv, SaysItSleeps, NoLostWakeup
<1> QED BY <1>1, <1>2, <1>3, <1>4 DEF HandOver, LookOnce, LookTwice, Waking

\* Linking first and looking at is_runnning afterwards is enough: a thread
\* sleeps on a timer that the other has linked only if the other looked when
\* the store of line 143 was made and could not be seen yet.
THEOREM NobodySleepsOnAResult == Spec => []NoLostWakeup
<1>0. "main" \in Threads /\ "sdp" \in Threads
  BY DEF Threads
<1>1. Init => WakeInv
  BY DEF Init, WakeInv, SaysItSleeps, NoLostWakeup
<1>2. WakeInv /\ [Next]_vars => WakeInv'
  <2> SUFFICES ASSUME WakeInv, [Next]_vars PROVE WakeInv'
    OBVIOUS
  <2>1. CASE UNCHANGED vars
    BY <2>1 DEF vars, loopVars, ctxVars, raceVars, WakeInv, SaysItSleeps,
      NoLostWakeup
  <2>2. CASE \E t \in Threads : Wait(t) \/ HandOver(t)
    BY <2>2, WaitKeeps, HandOverKeeps
  <2>3. CASE \E t \in Threads : Flush(t)
    BY <2>3 DEF Flush, loopVars, raceVars, WakeInv, SaysItSleeps, NoLostWakeup
  <2>4. CASE \/ ThreadStart \/ EndSession \/ SetFree \/ SdpCheck \/ SdpClose
    BY <1>0, <2>4, Elsewhere DEF ThreadStart, EndSession, SetFree, SdpCheck,
      SdpClose, ctxVars, raceVars, Waking
  <2>5. CASE \/ EnterMain \/ (\E r \in Reqs : EnterRecv(r)) \/ LeaveRecv
             \/ Release \/ MainCheck \/ DeleteConnections
             \/ DeleteContext \/ StopWorker \/ JoinWorker
    BY <1>0, <2>5, Elsewhere DEF EnterMain, EnterRecv, LeaveRecv,
      Release, MainCheck, DeleteConnections, DeleteContext, StopWorker,
      JoinWorker, ctxVars, raceVars, Waking
  <2>8. CASE GiveResult
    <3>1. pipe' \in [Threads -> Nat] /\ \A t \in Threads : pipe'[t] >= pipe[t]
      BY <1>0, <2>8 DEF GiveResult, WakeInv, SaysItSleeps
    <3>2. /\ pc["main"] = "handler"
          /\ \E l \in {"release", "exit"} : pc' = [pc EXCEPT !["main"] = l]
          /\ UNCHANGED <<polltimeout, running, buffered, queue, missed>>
      BY <2>8 DEF GiveResult, Goto, raceVars
    <3> QED BY <1>0, <3>1, <3>2, OtherThread
            DEF WakeInv, SaysItSleeps, NoLostWakeup, Waking
  <2>6. CASE ReadStdin
    <3>1. CASE UNCHANGED pc
      BY <2>6, <3>1 DEF ReadStdin, ctxVars, raceVars, WakeInv, SaysItSleeps,
        NoLostWakeup
    <3>2. CASE Goto("main", "link")
      BY <1>0, <2>6, <3>2, Elsewhere DEF ReadStdin, ctxVars, raceVars, Waking
    <3> QED BY <2>6, <3>1, <3>2 DEF ReadStdin
  <2>7. CASE ReadSignal \/ Environment
    BY <2>7 DEF ReadSignal, Environment, Type, CloseStdin, Terminate, Talk,
      loopVars, ctxVars, raceVars, WakeInv, SaysItSleeps, NoLostWakeup
  <2> QED BY <1>0, <2>1, <2>2, <2>3, <2>4, <2>5, <2>6, <2>7, <2>8
          DEF Next, Main, Worker
<1>3. WakeInv => NoLostWakeup
  BY DEF WakeInv
<1> QED BY <1>1, <1>2, <1>3, PTL DEF Spec

-----------------------------------------------------------------------------
(* The memory.                                                             *)

Late == {"look", "looktwice", "write", "setfree"}
EndPcs == {"exit", "looktwice", "write", "join", "done"}
Searching == {"handler", "link", "splice"}
MainPcs == {"new", "idle", "begun", "poll", "expired", "dispatch", "unlink",
            "handler", "release", "link", "splice", "look", "looktwice",
            "write", "recv", "account", "check", "teardown", "delete", "exit",
            "join", "done"}
SdpPcs == {"new", "idle", "begun", "poll", "expired", "dispatch", "unlink",
           "account", "check", "closing", "done"} \cup Searching \cup Late

-----------------------------------------------------------------------------
(* Where the threads are, and what they then have at hand.                 *)

Control ==
  /\ pc["main"] \in MainPcs /\ pc["sdp"] \in SdpPcs
  /\ \A t \in Threads :
       pc[t] = "expired" \/ (pc[t] = "poll" /\ polltimeout[t] = 0) =>
         queue[t] # <<>>
  /\ \A t \in Threads : ToSet(queue[t]) \subseteq asked
  /\ pc["main"] \in {"link", "splice", "unlink", "handler", "release"} =>
       job["main"] \in asked
  /\ pc["main"] = "recv" => job["main"] \in Reqs
  /\ pc["sdp"] \in {"unlink"} \cup Searching \cup Late => job["sdp"] \in asked
  /\ pc["sdp"] \notin {"unlink"} \cup Searching \cup Late => job["sdp"] = NoReq
  /\ input \cap asked = {}
  /\ exiting => pc["main"] \in EndPcs
  /\ pc["main"] \in {"exit", "join", "done"} => exiting
  /\ sdp_stop => exiting
  /\ pc["sdp"] \in {"closing", "done"} => sdp_stop
  /\ Context("sdp") \in freed => pc["sdp"] = "done"

Shape == Types /\ Control

\* Nothing freed has the name of something else.
LEMMA Names ==
  \A r, q : /\ Node(r) = Node(q) => r = q
            /\ Result(r) = Result(q) => r = q
            /\ Request(r) = Request(q) => r = q
            /\ Node(r) # Result(q) /\ Node(r) # Request(q)
            /\ Result(r) # Request(q)
            /\ Node(r) # Engine(q) /\ Result(r) # Engine(q)
            /\ Request(r) # Engine(q)
            /\ Node(r) # Context(q) /\ Result(r) # Context(q)
            /\ Request(r) # Context(q) /\ Engine(r) # Context(q)
            /\ Context("main") # Context("sdp")
  BY DEF Node, Result, Request, Engine, Context

LEMMA BothThreads ==
  /\ Threads = {"main", "sdp"} /\ "main" # "sdp"
  /\ Other("main") = "sdp" /\ Other("sdp") = "main"
  BY DEF Threads, Other

LEMMA InitShape == Init => Shape
<1> SUFFICES ASSUME Init PROVE Shape
  OBVIOUS
<1>1. Types
  <2>1. queue \in [Threads -> Seq(Reqs)]
    BY DEF Init
  <2>2. pc \in [Threads -> {"new"}] /\ polltimeout \in [Threads -> {-1, 0}]
    BY DEF Init
  <2> QED BY <2>1, <2>2 DEF Init, Types, WaitPcs, Handling
<1>2. ToSet(<<>>) = {}
  BY DEF ToSet
<1>3. Control
  BY <1>2, BothThreads DEF Init, Control, MainPcs, SdpPcs, Searching, Late,
     EndPcs
<1> QED BY <1>1, <1>3 DEF Shape

LEMMA TouchFreed ==
  ASSUME touched \subseteq freed, NEW objs, Use(objs)
  PROVE  touched' \subseteq freed
  BY DEF Use

\* What is left of a list when a request has been unlinked.
LEMMA RestElements ==
  ASSUME NEW S, NEW q \in Seq(S), NEW k \in DOMAIN q,
         NEW front \in {SubSeq(q, 1, k - 1), <<>>}
  PROVE  /\ front \o SubSeq(q, k + 1, Len(q)) \in Seq(S)
         /\ ToSet(front \o SubSeq(q, k + 1, Len(q))) \subseteq ToSet(q)
<1> DEFINE rest == SubSeq(q, k + 1, Len(q))
           s == front \o rest
<1>1. Len(q) \in Nat /\ DOMAIN q = 1..Len(q) /\ k \in 1..Len(q)
  BY LenProperties
<1>2. /\ rest \in Seq(S) /\ Len(rest) = Len(q) - k
      /\ \A i \in 1..Len(rest) : rest[i] = q[k + i]
  BY <1>1, SubSeqProperties
<1>3. /\ front \in Seq(S) /\ Len(front) \in 0..Len(q)
      /\ \A i \in 1..Len(front) : front[i] = q[i]
  <2>1. CASE front = <<>>
    BY <1>1, <2>1
  <2>2. CASE front = SubSeq(q, 1, k - 1)
    BY <1>1, <2>2, SubSeqProperties
  <2> QED BY <2>1, <2>2
<1> HIDE DEF rest
<1>4. /\ s \in Seq(S) /\ Len(s) = Len(front) + Len(rest)
      /\ \A i \in 1..Len(s) : s[i] = IF i <= Len(front) THEN front[i]
                                     ELSE rest[i - Len(front)]
  <2>1. /\ s \in Seq(S) /\ Len(s) = Len(front) + Len(rest)
        /\ \A i \in 1..Len(front) + Len(rest) :
             s[i] = IF i <= Len(front) THEN front[i] ELSE rest[i - Len(front)]
    <3>1. front \in Seq(S) /\ rest \in Seq(S)
      BY <1>2, <1>3
    <3> HIDE DEF s
    <3>2. ASSUME s = front \o rest
          PROVE  /\ s \in Seq(S) /\ Len(s) = Len(front) + Len(rest)
                 /\ \A i \in 1..Len(front) + Len(rest) :
                      s[i] = IF i <= Len(front) THEN front[i]
                             ELSE rest[i - Len(front)]
      BY ONLY <3>1, <3>2, ConcatProperties
    <3> QED BY <3>2 DEF s
  <2> QED BY ONLY <2>1
<1> HIDE DEF s
<1>5. DOMAIN s = 1..Len(s) /\ Len(s) \in Nat
  BY <1>4, LenProperties
<1>6. ASSUME NEW i \in 1..Len(s) PROVE s[i] \in ToSet(q)
  <2>1. CASE i <= Len(front)
    <3>1. i \in 1..Len(q) /\ s[i] = q[i]
      BY <1>1, <1>3, <1>4, <1>6, <2>1
    <3> QED BY <1>1, <3>1 DEF ToSet
  <2>2. CASE ~(i <= Len(front))
    <3>1. i - Len(front) \in 1..Len(rest)
      BY <1>1, <1>2, <1>3, <1>4, <1>5, <1>6, <2>2
    <3>2. k + (i - Len(front)) \in 1..Len(q)
      BY <1>1, <1>2, <3>1
    <3>3. s[i] = q[k + (i - Len(front))]
      BY <1>2, <1>4, <1>6, <2>2, <3>1
    <3> QED BY <1>1, <3>2, <3>3 DEF ToSet
  <2> QED BY <2>1, <2>2
<1>7. ToSet(s) \subseteq ToSet(q)
  BY <1>5, <1>6 DEF ToSet
<1> QED BY <1>4, <1>7 DEF s, rest

\* The steps of ioc_wait_once() by one thread.
LEMMA WaitShape ==
  ASSUME Shape, NEW t \in Threads, Wait(t) PROVE Shape'
<1>1. CASE Start(t) \/ PollTimeout(t)
  <2>1. Types'
    <3>1. CASE Start(t)
      BY <3>1, BothThreads DEF Start, Goto, envVars, reqVars, stopVars,
        memVars, raceVars, Shape, Types, WaitPcs, Handling
    <3>2. CASE PollTimeout(t)
      BY <3>2, BothThreads DEF PollTimeout, Goto, ctxVars, envVars, reqVars,
        stopVars, memVars, raceVars, Shape, Types, WaitPcs, Handling
    <3> QED BY <1>1, <3>1, <3>2
  <2>2. Control'
    BY <1>1, BothThreads DEF Start, PollTimeout, Goto, ctxVars, envVars,
      reqVars, stopVars, memVars, raceVars, Shape, Types, Control, MainPcs,
      SdpPcs, Searching, Late, EndPcs
  <2> QED BY <2>1, <2>2 DEF Shape
<1>2. CASE ReadHead(t) \/ Finish(t)
  <2>1. touched' \subseteq freed
    BY <1>2, TouchFreed DEF ReadHead, Finish, Shape, Types
  <2>2. Types'
    <3>1. CASE ReadHead(t)
      BY <2>1, <3>1, BothThreads DEF ReadHead, Goto, ctxVars, envVars, reqVars,
        stopVars, raceVars, Shape, Types, WaitPcs, Handling
    <3>2. CASE Finish(t)
      BY <2>1, <3>2, BothThreads DEF Finish, Goto, envVars, reqVars, stopVars,
        Shape, Types, WaitPcs, Handling
    <3> QED BY <1>2, <3>1, <3>2
  <2>3. Control'
    BY <1>2, BothThreads DEF ReadHead, Finish, Goto, ctxVars, envVars,
      reqVars, stopVars, raceVars, Shape, Types, Control, MainPcs,
      SdpPcs, Searching, Late, EndPcs
  <2> QED BY <2>2, <2>3 DEF Shape
<1>3. CASE PollEvents(t)
  <2>1. Pending(t) \subseteq {"pipe", "stdin", "signal"} \cup Reqs
    BY DEF Pending
  <2>2. Types'
    BY <1>3, <2>1, BothThreads DEF PollEvents, Goto, ctxVars, envVars,
      reqVars, stopVars, memVars, raceVars, Shape, Types, WaitPcs, Handling
  <2>3. Control'
    BY <1>3, BothThreads DEF PollEvents, Goto, ctxVars, envVars, reqVars,
      stopVars, memVars, raceVars, Shape, Types, Control, MainPcs, SdpPcs,
      Searching, Late, EndPcs
  <2> QED BY <2>2, <2>3 DEF Shape
<1>4. CASE FireHead(t)
  <2>1. /\ queue[t] \in Seq(Reqs) /\ queue[t] # <<>>
        /\ ToSet(queue[t]) \subseteq asked /\ asked \subseteq Reqs
    BY <1>4 DEF FireHead, Shape, Types, Control
  <2> DEFINE h == Head(queue[t])
  <2>2. h \in asked
    BY <2>1, PopElements
  <2>3. /\ pc[t] = "expired" /\ pc' = [pc EXCEPT ![t] = "unlink"]
        /\ job' = [job EXCEPT ![t] = h]
        /\ UNCHANGED <<polltimeout, batch, ctxVars, envVars, reqVars, stopVars,
                       delfunc, freed, first, missed>>
    BY <1>4 DEF FireHead, Goto
  <2>6. touched' \subseteq freed /\ overlapped' \in BOOLEAN
    BY <1>4, TouchFreed DEF FireHead, Shape, Types
  <2> HIDE DEF h
  <2>4. Types'
    BY <2>1, <2>2, <2>3, <2>6, BothThreads DEF ctxVars, envVars, reqVars,
      stopVars, Shape, Types, WaitPcs, Handling
  <2>5. Control'
    BY <2>1, <2>2, <2>3, BothThreads DEF ctxVars, envVars, reqVars, stopVars,
      Shape, Types, Control, MainPcs, SdpPcs, Searching, Late, EndPcs
  <2> QED BY <2>4, <2>5 DEF Shape
<1>6. CASE Unlink(t)
  <2>1. queue[t] \in Seq(Reqs) /\ ToSet(queue[t]) \subseteq asked
    BY <1>6 DEF Shape, Types, Control
  <2>2. PICK q \in Seq(Reqs) :
          /\ ToSet(q) \subseteq ToSet(queue[t])
          /\ queue' = [queue EXCEPT ![t] = q]
    BY <1>6, <2>1, RestElements DEF Unlink
  <2>3. /\ pc[t] = "unlink" /\ pc' = [pc EXCEPT ![t] = "handler"]
        /\ UNCHANGED <<polltimeout, batch, job, running, buffered, pipe,
                       envVars, reqVars, stopVars, memVars, raceVars>>
    BY <1>6 DEF Unlink, Goto
  <2>4. Types'
    BY <2>1, <2>2, <2>3, BothThreads DEF envVars, reqVars, stopVars, memVars,
      raceVars, Shape, Types, WaitPcs, Handling
  <2>5. Control'
    BY <2>1, <2>2, <2>3, BothThreads DEF envVars, reqVars, stopVars, memVars,
      Shape, Types, Control, MainPcs, SdpPcs, Searching, Late, EndPcs
  <2> QED BY <2>4, <2>5 DEF Shape
<1>5. CASE DispatchPipe(t)
  <2>1. pipe' \in [Threads -> Nat]
    BY <1>5 DEF DispatchPipe, Shape, Types
  <2>2. Types'
    BY <1>5, <2>1, BothThreads DEF DispatchPipe, envVars, reqVars, stopVars,
      memVars, raceVars, Shape, Types, WaitPcs, Handling
  <2>3. Control'
    BY <1>5, BothThreads DEF DispatchPipe, envVars, reqVars, stopVars,
      memVars, raceVars, Shape, Types, Control
  <2> QED BY <2>2, <2>3 DEF Shape
<1> QED BY <1>1, <1>2, <1>3, <1>4, <1>5, <1>6 DEF Wait

\* Where a thread is after ioc_stop_wait().
LEMMA AfterWakePc ==
  ASSUME Shape
  PROVE  /\ AfterWake("sdp") = "setfree"
         /\ AfterWake("main") = IF exiting THEN "join" ELSE "dispatch"
  BY DEF AfterWake

\* The steps of handing a request or a result over.
LEMMA HandOverShape ==
  ASSUME Shape, NEW t \in Threads, HandOver(t) PROVE Shape'
<1>1. Other(t) \in Threads /\ Other(t) # t
  BY BothThreads
<1>2. CASE Link(t)
  <2>1. /\ job[t] \in asked /\ asked \subseteq Reqs /\ touched' \subseteq freed
        /\ queue[Other(t)] \in Seq(Reqs) /\ ToSet(queue[Other(t)]) \subseteq asked
    <3>1. touched' \subseteq freed
      BY <1>2, TouchFreed DEF Link, Shape, Types
    <3>2. pc[t] = "splice"
      BY <1>2 DEF Link
    <3> QED BY <1>1, <3>1, <3>2, BothThreads
            DEF Shape, Types, Control, Searching
  <2> DEFINE q == <<job[t]>> \o queue[Other(t)]
  <2>2. q \in Seq(Reqs) /\ ToSet(q) \subseteq asked /\ q # <<>>
    BY <2>1, PushElements
  <2>3. /\ pc[t] = "splice" /\ pc' = [pc EXCEPT ![t] = "look"]
        /\ job' = IF t = "main" THEN [job EXCEPT ![t] = NoReq] ELSE job
        /\ queue' = [queue EXCEPT ![Other(t)] = q]
        /\ first' = [first EXCEPT ![t] = NoReq]
        /\ UNCHANGED <<polltimeout, batch, running, buffered, pipe, envVars,
                       reqVars, stopVars, delfunc, freed, overlapped, missed>>
    BY <1>2 DEF Link, Goto
  <2> HIDE DEF q
  <2>4. Types'
    BY <2>1, <2>2, <2>3, BothThreads DEF envVars, reqVars, stopVars, raceVars,
      Shape, Types, WaitPcs, Handling
  <2>5. Control'
    BY <2>1, <2>2, <2>3, BothThreads DEF envVars, reqVars, stopVars, raceVars,
      Shape, Types, Control, MainPcs, SdpPcs, Searching, Late, EndPcs
  <2> QED BY <2>4, <2>5 DEF Shape
<1>4. CASE ReadFirst(t)
  <2>1. /\ touched' \subseteq freed /\ overlapped' \in BOOLEAN
        /\ HeadOf(queue[Other(t)]) \in Reqs \cup {NoReq}
    BY <1>1, <1>4, PopElements, TouchFreed
    DEF ReadFirst, HeadOf, Shape, Types
  <2>2. /\ pc[t] = "link" /\ pc' = [pc EXCEPT ![t] = "splice"]
        /\ first' \in [Threads -> Reqs \cup {NoReq}]
        /\ UNCHANGED <<polltimeout, batch, job, ctxVars, envVars, reqVars,
                       stopVars, delfunc, freed, missed>>
    BY <1>4, <2>1 DEF ReadFirst, Goto, Shape, Types
  <2>3. Types'
    BY <2>1, <2>2, BothThreads DEF ctxVars, envVars, reqVars, stopVars,
      Shape, Types, WaitPcs, Handling
  <2>4. Control'
    BY <2>2, BothThreads DEF ctxVars, envVars, reqVars, stopVars,
      Shape, Types, Control, MainPcs, SdpPcs, Searching, Late, EndPcs
  <2> QED BY <2>3, <2>4 DEF Shape
<1>3. CASE LookOnce(t) \/ LookTwice(t) \/ WakeOther(t)
  <2>1. touched' \subseteq freed
    <3>1. Use({Context(Other(t))}) /\ touched \subseteq freed
      BY <1>3 DEF LookOnce, LookTwice, Look, WakeOther, Shape, Types
    <3> QED BY <3>1, TouchFreed
  <2>2. PICK l \in {"looktwice", "write", AfterWake(t)} :
          /\ pc[t] \in {"look", "looktwice", "write"}
          /\ pc' = [pc EXCEPT ![t] = l]
    <3>1. ASSUME NEW from \in {"look", "looktwice"},
                 NEW to \in {"looktwice", "write"}, Look(t, from, to)
          PROVE  \E l \in {to, AfterWake(t)} :
                   pc[t] = from /\ pc' = [pc EXCEPT ![t] = l]
      BY <3>1 DEF Look, Goto
    <3>2. CASE LookOnce(t) \/ LookTwice(t)
      BY <3>1, <3>2 DEF LookOnce, LookTwice
    <3>3. CASE WakeOther(t)
      BY <3>3 DEF WakeOther, Goto
    <3> QED BY <1>3, <3>2, <3>3
  <2>3. /\ pipe' \in [Threads -> Nat] /\ missed' \subseteq Threads
        /\ UNCHANGED <<polltimeout, batch, job, running, buffered, queue,
                       envVars, reqVars, stopVars, delfunc, freed, first,
                       overlapped>>
    <3>1. CASE LookOnce(t) \/ LookTwice(t)
      BY <1>1, <3>1 DEF LookOnce, LookTwice, Look, ctxVars, Shape, Types
    <3>2. CASE WakeOther(t)
      BY <1>1, <3>2 DEF WakeOther, raceVars, Shape, Types
    <3> QED BY <1>3, <3>1, <3>2
  <2>4. /\ l \in {"looktwice", "write", "setfree", "join", "dispatch"}
        /\ t = "sdp" => l \in Late
        /\ t = "main" => l # "setfree" /\ (l = "join" => exiting)
                         /\ (exiting => l # "dispatch")
    BY BothThreads, AfterWakePc, <2>2 DEF Late
  <2>5. Types'
    BY <2>1, <2>2, <2>3, <2>4, BothThreads DEF envVars, reqVars, stopVars,
      raceVars, Shape, Types, WaitPcs, Handling
  <2>6. Control'
    BY <2>2, <2>3, <2>4, BothThreads DEF envVars, reqVars, stopVars, raceVars,
      Shape, Types, Control, MainPcs, SdpPcs, Searching, Late, EndPcs
  <2> QED BY <2>5, <2>6 DEF Shape
<1> QED BY <1>2, <1>3, <1>4 DEF HandOver

\* The other steps of the worker.
LEMMA WorkerShape ==
  ASSUME Shape, ThreadStart \/ EndSession \/ SetFree \/ SdpCheck \/ SdpClose
  PROVE  Shape'
<1>1. CASE ThreadStart \/ SdpCheck
  <2>1. Types'
    <3>1. \E l \in {"idle", "closing"} : pc' = [pc EXCEPT !["sdp"] = l]
      BY <1>1 DEF ThreadStart, SdpCheck, Goto
    <3>2. UNCHANGED <<polltimeout, batch, job, ctxVars, envVars, reqVars,
                      stopVars, memVars, raceVars>>
      BY <1>1 DEF ThreadStart, SdpCheck
    <3> QED BY <3>1, <3>2 DEF ctxVars, envVars, reqVars, stopVars, memVars,
        raceVars, Shape, Types
  <2>2. Control'
    BY <1>1, BothThreads DEF ThreadStart, SdpCheck, Goto, ctxVars, envVars,
      reqVars, stopVars, memVars, raceVars, Shape, Types, Control, SdpPcs,
      Searching, Late
  <2> QED BY <2>1, <2>2 DEF Shape
<1>2. CASE EndSession
  <2>1. touched' \subseteq freed
    BY <1>2, TouchFreed DEF EndSession, Shape, Types
  <2>2. Types'
    BY <1>2, <2>1, BothThreads DEF EndSession, Goto, ctxVars, envVars,
      reqVars, stopVars, raceVars, Shape, Types, WaitPcs, Handling
  <2>3. Control'
    BY <1>2, BothThreads DEF EndSession, Goto, ctxVars, envVars, reqVars,
      stopVars, raceVars, Shape, Types, Control, SdpPcs, Searching, Late
  <2> QED BY <2>2, <2>3 DEF Shape
<1>3. CASE SetFree
  <2>1. touched' \subseteq freed /\ job["sdp"] \in Reqs
    BY <1>3, TouchFreed DEF SetFree, Shape, Types, Control, Searching, Late
  <2>2. Types'
    BY <1>3, <2>1, BothThreads DEF SetFree, Goto, ctxVars, envVars,
      reqVars, stopVars, raceVars, Shape, Types, WaitPcs, Handling
  <2>4. Context("sdp") \in freed' => Context("sdp") \in freed
    BY <1>3, Names DEF SetFree
  <2>3. Control'
    BY <1>3, <2>4, BothThreads DEF SetFree, Goto, ctxVars, envVars,
      reqVars, stopVars, Shape, Types, Control, SdpPcs, Searching, Late
  <2> QED BY <2>2, <2>3 DEF Shape
<1>4. CASE SdpClose
  <2>1. Types'
    BY <1>4, BothThreads DEF SdpClose, Goto, ctxVars, envVars,
      reqVars, stopVars, raceVars, Shape, Types, WaitPcs, Handling
  <2>2. Control'
    BY <1>4, BothThreads DEF SdpClose, Goto, ctxVars, envVars, reqVars,
      stopVars, raceVars, Shape, Types, Control, SdpPcs, Searching, Late
  <2> QED BY <2>1, <2>2 DEF Shape
<1> QED BY <1>1, <1>2, <1>3, <1>4

\* The other steps of the main thread, up to its last wait.
LEMMA MainShape ==
  ASSUME Shape, \/ EnterMain \/ ReadStdin \/ ReadSignal \/ LeaveRecv
                \/ (\E r \in Reqs : EnterRecv(r)) \/ GiveResult \/ Release
                \/ MainCheck
  PROVE  Shape'
<1>1. CASE EnterMain \/ ReadSignal \/ MainCheck
  <2>1. Types'
    <3>1. CASE EnterMain
      BY <3>1, BothThreads DEF EnterMain, Goto, ctxVars, envVars, reqVars,
        stopVars, memVars, raceVars, Shape, Types, WaitPcs, Handling
    <3>2. CASE ReadSignal
      BY <3>2, BothThreads DEF ReadSignal, ctxVars, reqVars, memVars, raceVars,
        Shape, Types, WaitPcs, Handling
    <3>3. CASE MainCheck
      <4>1. quiet' \in BOOLEAN
        BY <3>3 DEF MainCheck
      <4>2. pc' \in [Threads -> {"teardown", "idle"} \cup {pc[t] : t \in Threads}]
        BY <3>3 DEF MainCheck, Goto, Shape, Types
      <4> QED BY <3>3, <4>1, <4>2, BothThreads DEF MainCheck, ctxVars, envVars,
        reqVars, memVars, raceVars, Shape, Types, WaitPcs, Handling
    <3> QED BY <1>1, <3>1, <3>2, <3>3
  <2>2. Control'
    BY <1>1, BothThreads DEF EnterMain, ReadSignal, MainCheck, Goto, ctxVars,
      envVars, reqVars, stopVars, memVars, raceVars, Shape, Types, Control,
      MainPcs, EndPcs
  <2> QED BY <2>1, <2>2 DEF Shape
<1>2. CASE ReadStdin
  <2>1. CASE UNCHANGED <<pc, job, input, asked>>
    <3>1. Types'
      BY <1>2, <2>1, BothThreads DEF ReadStdin, ctxVars, stopVars, memVars,
        raceVars, Shape, Types, WaitPcs, Handling
    <3>2. Control'
      BY <1>2, <2>1, BothThreads DEF ReadStdin, ctxVars, stopVars, memVars,
        raceVars, Shape, Types, Control
    <3> QED BY <3>1, <3>2 DEF Shape
  <2>2. ASSUME NEW r \in input, input' = input \ {r},
               asked' = asked \cup {r}, job' = [job EXCEPT !["main"] = r],
               Goto("main", "link")
        PROVE  Shape'
    <3>1. Types'
      BY <1>2, <2>2, BothThreads DEF ReadStdin, Goto, ctxVars, stopVars,
        memVars, raceVars, Shape, Types, WaitPcs, Handling
    <3>2. Control'
      BY <1>2, <2>2, BothThreads DEF ReadStdin, Goto, ctxVars, stopVars,
        memVars, raceVars, Shape, Types, Control, MainPcs, EndPcs
    <3> QED BY <3>1, <3>2 DEF Shape
  <2> QED BY <1>2, <2>1, <2>2 DEF ReadStdin
<1>3. CASE LeaveRecv \/ \E r \in Reqs : EnterRecv(r)
  <2>1. Types'
    <3>1. ASSUME NEW r \in Reqs, EnterRecv(r) PROVE Types'
      BY <3>1, BothThreads DEF EnterRecv, Goto, ctxVars, envVars, reqVars,
        stopVars, memVars, raceVars, Shape, Types, WaitPcs, Handling
    <3>2. CASE LeaveRecv
      BY <3>2, BothThreads DEF LeaveRecv, Goto, ctxVars, reqVars, stopVars,
        memVars, raceVars, Shape, Types, WaitPcs, Handling
    <3> QED BY <1>3, <3>1, <3>2
  <2>2. ASSUME NEW r \in Reqs, EnterRecv(r) PROVE Control'
    BY <2>2, BothThreads DEF EnterRecv, Goto, ctxVars, envVars, reqVars,
      stopVars, memVars, raceVars, Shape, Types, Control, MainPcs, EndPcs
  <2>3. ASSUME LeaveRecv PROVE Control'
    BY <2>3, BothThreads DEF LeaveRecv, Goto, ctxVars, envVars, reqVars,
      stopVars, memVars, raceVars, Shape, Types, Control, MainPcs, EndPcs
  <2> QED BY <1>3, <2>1, <2>2, <2>3 DEF Shape
<1>4. CASE GiveResult
  <2>1. given' \subseteq asked /\ pipe' \in [Threads -> Nat]
    BY <1>4 DEF GiveResult, Shape, Types, Control
  <2>2. Types'
    <3>1. /\ socket' \in [Reqs -> {"none", "open", "ready", "heard"}]
          /\ pc' \in [Threads -> WaitPcs \cup
                       {"new", "idle", "check", "closing", "teardown",
                        "delete", "exit", "join", "done"}]
          /\ exiting' \in BOOLEAN
      <4>1. socket' \in [Reqs -> {"none", "open", "ready", "heard"}]
        BY <1>4 DEF GiveResult, Shape, Types
      <4>2. exiting' \in BOOLEAN
        BY <1>4 DEF GiveResult, Shape, Types
      <4>3. \E l \in {"release", "exit"} : pc' = [pc EXCEPT !["main"] = l]
        BY <1>4 DEF GiveResult, Goto
      <4>4. pc' \in [Threads -> WaitPcs \cup
                      {"new", "idle", "check", "closing", "teardown",
                       "delete", "exit", "join", "done"}]
        BY <4>3 DEF Shape, Types, WaitPcs, Handling
      <4> QED BY <4>1, <4>2, <4>4
    <3>2. UNCHANGED <<polltimeout, batch, job, running, buffered, queue, input,
                      eof, signal, asked, stop, quiet, sdp_stop, delfunc, freed,
                      touched, first, overlapped, missed>>
      BY <1>4 DEF GiveResult, memVars, raceVars
    <3> QED BY <2>1, <3>1, <3>2 DEF Shape, Types
  <2>3. Control'
    BY <1>4, BothThreads DEF GiveResult, Goto, ctxVars, memVars, raceVars,
      Shape, Types, Control, MainPcs, EndPcs
  <2> QED BY <2>2, <2>3 DEF Shape
<1>5. CASE Release
  <2>1. Types'
    BY <1>5, BothThreads DEF Release, Goto, ctxVars, envVars, reqVars, stopVars,
      raceVars, Shape, Types, WaitPcs, Handling
  <2>2. Context("sdp") \in freed' => Context("sdp") \in freed
    BY <1>5, Names DEF Release
  <2>3. Control'
    BY <1>5, <2>2, BothThreads DEF Release, Goto, ctxVars, envVars, reqVars,
      stopVars, raceVars, Shape, Types, Control, MainPcs, EndPcs
  <2> QED BY <2>1, <2>3 DEF Shape
<1> QED BY <1>1, <1>2, <1>3, <1>4, <1>5

\* Its teardown and exit().
LEMMA EndShape ==
  ASSUME Shape, DeleteConnections \/ DeleteContext \/ StopWorker \/ JoinWorker
  PROVE  Shape'
<1>1. CASE DeleteConnections \/ DeleteContext
  <2>1. Types'
    <3>1. CASE DeleteConnections
      BY <3>1, BothThreads DEF DeleteConnections, Goto, ctxVars, envVars,
        reqVars, stopVars, raceVars, Shape, Types, WaitPcs, Handling
    <3>2. CASE DeleteContext
      BY <3>2, BothThreads DEF DeleteContext, Goto, ctxVars, envVars, reqVars,
        stopVars, raceVars, Shape, Types, WaitPcs, Handling
    <3> QED BY <1>1, <3>1, <3>2
  <2>2. Context("sdp") \in freed' => Context("sdp") \in freed
    BY <1>1, Names DEF DeleteConnections, DeleteContext
  <2>3. Control'
    BY <1>1, <2>2, BothThreads DEF DeleteConnections, DeleteContext, Goto,
      ctxVars, envVars, reqVars, stopVars, raceVars, Shape, Types, Control,
      MainPcs, EndPcs
  <2> QED BY <2>1, <2>3 DEF Shape
<1>2. CASE StopWorker \/ JoinWorker
  <2>1. Types'
    <3>1. CASE StopWorker
      BY <3>1, BothThreads DEF StopWorker, Goto, ctxVars, envVars, reqVars,
        memVars, raceVars, Shape, Types, WaitPcs, Handling
    <3>2. CASE JoinWorker
      BY <3>2, BothThreads DEF JoinWorker, Goto, ctxVars, envVars, reqVars,
        stopVars, memVars, raceVars, Shape, Types
    <3> QED BY <1>2, <3>1, <3>2
  <2>2. Control'
    BY <1>2, BothThreads DEF StopWorker, JoinWorker, Goto, ctxVars, envVars,
      reqVars, stopVars, memVars, raceVars, Shape, Types, Control, MainPcs,
      EndPcs
  <2> QED BY <2>1, <2>2 DEF Shape
<1> QED BY <1>1, <1>2

\* What happens outside the two threads.
LEMMA OutsideShape ==
  ASSUME Shape, Environment \/ (\E t \in Threads : Flush(t)) \/ UNCHANGED vars
  PROVE  Shape'
<1>1. CASE Environment
  <2>1. Types'
    <3>1. CASE CloseStdin \/ Terminate
      BY <3>1 DEF CloseStdin, Terminate, loopVars, ctxVars, reqVars, stopVars,
        memVars, raceVars, Shape, Types
    <3>2. ASSUME NEW r \in Reqs, Type(r) PROVE Types'
      BY <3>2 DEF Type, loopVars, ctxVars, reqVars, stopVars, memVars,
        raceVars, Shape, Types
    <3>3. ASSUME NEW r \in Reqs, Talk(r) PROVE Types'
      BY <3>3 DEF Talk, loopVars, ctxVars, reqVars, stopVars, memVars,
        raceVars, Shape, Types
    <3> QED BY <1>1, <3>1, <3>2, <3>3 DEF Environment
  <2>2. Control'
    BY <1>1 DEF Environment, Type, CloseStdin, Terminate, Talk, loopVars,
      ctxVars, reqVars, stopVars, memVars, raceVars, Shape, Control
  <2> QED BY <2>1, <2>2 DEF Shape
<1>2. CASE (\E t \in Threads : Flush(t)) \/ UNCHANGED vars
  <2>1. Types'
    <3>1. ASSUME NEW t \in Threads, Flush(t) PROVE Types'
      BY <3>1 DEF Flush, loopVars, envVars, reqVars, stopVars, memVars,
        raceVars, Shape, Types
    <3>2. CASE UNCHANGED vars
      BY <3>2 DEF vars, loopVars, ctxVars, envVars, reqVars, stopVars, memVars,
        raceVars, Shape, Types
    <3> QED BY <1>2, <3>1, <3>2
  <2>2. Control'
    BY <1>2 DEF Flush, vars, loopVars, ctxVars, envVars, reqVars, stopVars,
      memVars, raceVars, Shape, Control
  <2> QED BY <2>1, <2>2 DEF Shape
<1> QED BY <1>1, <1>2

\* The steps of Next, with those of the worker and those of the main thread.
LEMMA NextCases ==
  ASSUME [Next]_vars
  PROVE  \/ \E t \in Threads : Wait(t) \/ HandOver(t)
         \/ ThreadStart \/ EndSession \/ SetFree \/ SdpCheck \/ SdpClose
         \/ EnterMain \/ ReadStdin \/ ReadSignal \/ LeaveRecv
         \/ (\E r \in Reqs : EnterRecv(r)) \/ GiveResult \/ Release \/ MainCheck
         \/ DeleteConnections \/ DeleteContext \/ StopWorker \/ JoinWorker
         \/ Environment \/ (\E t \in Threads : Flush(t)) \/ UNCHANGED vars
  BY BothThreads DEF Next, Main, Worker

LEMMA ShapeStep == Shape /\ [Next]_vars => Shape'
  BY NextCases, WaitShape, HandOverShape, WorkerShape, MainShape, EndShape,
     OutsideShape

LEMMA ShapeTypes == Shape => TypeOK
  BY ReqsAssumption, BothThreads
  DEF Shape, Types, TypeOK, Control, MainPcs, SdpPcs, Searching, Late, Handling

-----------------------------------------------------------------------------
(* A request goes through six stages, and is in one place at a time: asked *)
(* for (1), in the worker's list (2), searched (3), in the main thread's   *)
(* list (4), given (5), released (6).  That is so until both threads have  *)
(* changed one list at once, or the program exits.                         *)

Stages(st) ==
  /\ st \in [Reqs -> 0..6]
  /\ \A r \in Reqs : st[r] = 0 <=> r \notin asked
  /\ \A t \in Threads : IsInjective(queue[t])
  /\ pc["main"] \in {"link", "splice"} => st[job["main"]] = 1
  /\ \A r \in ToSet(queue["sdp"]) : st[r] = 2
  /\ pc["sdp"] \in Searching => st[job["sdp"]] = 3
  /\ \A r \in ToSet(queue["main"]) : st[r] = 4
  /\ pc["main"] \in {"handler", "release"} => st[job["main"]] = 5
  /\ pc["main"] = "release" => job["main"] \in given
  /\ \A r \in given : st[r] >= 5
  /\ \A r \in Reqs : st[r] = 6 => r \in given

\* Whose delete function is set, and what of it is freed.
Deletes(st) ==
  /\ pc["sdp"] \in Late => st[job["sdp"]] >= 4 /\ job["sdp"] \notin delfunc
  /\ \A r \in delfunc : st[r] >= 4
  /\ \A r \in Reqs : st[r] >= 4 => \/ r \in delfunc
                                   \/ pc["sdp"] \in Late /\ job["sdp"] = r
  /\ \A r \in Reqs : Request(r) \in freed => st[r] >= 4
  /\ \A r \in Reqs : Node(r) \in freed => st[r] = 6
  /\ \A r \in Reqs : Result(r) \in freed => st[r] = 6 /\ r \in delfunc

\* What a thread has read of a list is still so: whoever unlinks its head, and
\* whoever links something in front, is alone with the list.
Heads ==
  \A t \in Threads :
    /\ pc[t] = "unlink" => queue[t] # <<>> /\ Head(queue[t]) = job[t]
    /\ pc[t] = "splice" => /\ first[t] = HeadOf(queue[Other(t)])
                           /\ pc[Other(t)] # "unlink"

OneByOne ==
  \/ exiting
  \/ overlapped
  \/ Heads /\ \E st : Stages(st) /\ Deletes(st)

LEMMA ShapeFacts ==
  ASSUME Shape
  PROVE  /\ asked \subseteq Reqs /\ given \subseteq asked /\ delfunc \subseteq Reqs
         /\ ToSet(queue["main"]) \subseteq asked
         /\ ToSet(queue["sdp"]) \subseteq asked
         /\ pc["main"] \in {"link", "splice", "unlink", "handler", "release"} =>
              job["main"] \in asked
         /\ pc["sdp"] \in {"unlink"} \cup Searching \cup Late =>
              job["sdp"] \in asked
         /\ input \subseteq Reqs /\ input \cap asked = {}
  BY BothThreads DEF Shape, Types, Control

Placed == \E st : Stages(st) /\ Deletes(st)

\* A step that moves no request.
Unmoved ==
  /\ UNCHANGED <<queue, asked, given, delfunc>>
  /\ pc'["main"] \in {"handler", "release"} =>
       pc'["main"] = pc["main"] /\ job'["main"] = job["main"]
  /\ pc'["main"] \in {"link", "splice"} =>
       pc["main"] \in {"link", "splice"} /\ job'["main"] = job["main"]
  /\ pc'["sdp"] \in Searching =>
       pc["sdp"] \in Searching /\ job'["sdp"] = job["sdp"]
  /\ pc'["sdp"] \in Late <=> pc["sdp"] \in Late
  /\ pc'["sdp"] \in Late => job'["sdp"] = job["sdp"]
  /\ \A r \in Reqs : /\ Node(r) \in freed' => Node(r) \in freed
                     /\ Result(r) \in freed' => Result(r) \in freed
                     /\ Request(r) \in freed' => Request(r) \in freed

LEMMA NothingMoves ==
  ASSUME NEW st, Stages(st), Deletes(st), Unmoved PROVE Placed'
<1>1. Stages(st)'
  BY DEF Stages, Unmoved
<1>2. Deletes(st)'
  <2>1. /\ pc'["sdp"] \in Late => st[job'["sdp"]] >= 4 /\ job'["sdp"] \notin delfunc'
        /\ \A r \in delfunc' : st[r] >= 4
    BY DEF Deletes, Unmoved
  <2>2. \A r \in Reqs : st[r] >= 4 => \/ r \in delfunc'
                                      \/ pc'["sdp"] \in Late /\ job'["sdp"] = r
    BY DEF Deletes, Unmoved
  <2>3. /\ \A r \in Reqs : Request(r) \in freed' => st[r] >= 4
        /\ \A r \in Reqs : Node(r) \in freed' => st[r] = 6
        /\ \A r \in Reqs : Result(r) \in freed' => st[r] = 6 /\ r \in delfunc'
    BY DEF Deletes, Unmoved
  <2> QED BY <2>1, <2>2, <2>3 DEF Deletes
<1> QED BY <1>1, <1>2 DEF Placed

\* What Unlink does while nobody else changes the list.
LEMMA UnlinksHead ==
  ASSUME Shape, Heads, NEW t \in Threads, IsInjective(queue[t]), Unlink(t)
  PROVE  /\ queue[t] # <<>> /\ job[t] = Head(queue[t])
         /\ queue' = [queue EXCEPT ![t] = Tail(queue[t])]
<1>1. /\ queue[t] \in Seq(Reqs) /\ queue[t] # <<>> /\ job[t] = Head(queue[t])
  BY DEF Unlink, Heads, Shape, Types
<1>2. /\ Len(queue[t]) \in Nat /\ Len(queue[t]) >= 1
      /\ DOMAIN queue[t] = 1..Len(queue[t]) /\ job[t] = queue[t][1]
  BY <1>1, LenProperties, EmptySeq
<1>3. PICK k \in DOMAIN queue[t] :
        /\ queue[t][k] = job[t]
        /\ \E front \in {SubSeq(queue[t], 1, k - 1), <<>>} :
             queue' = [queue EXCEPT ![t] =
                         front \o SubSeq(queue[t], k + 1, Len(queue[t]))]
  BY DEF Unlink
<1>4. k = 1
  BY <1>2, <1>3 DEF IsInjective
<1> DEFINE q == queue[t]
<1>5. SubSeq(q, 1, 0) = <<>> /\ SubSeq(q, 2, Len(q)) = Tail(q)
  BY <1>1, <1>2
<1>6. <<>> \o Tail(q) = Tail(q)
  BY <1>1, PopElements
<1> HIDE DEF q
<1>7. \A front \in {SubSeq(q, 1, k - 1), <<>>} :
        front \o SubSeq(q, k + 1, Len(q)) = Tail(q)
  BY ONLY <1>4, <1>5, <1>6
<1> QED BY <1>1, <1>3, <1>7 DEF q

\* Steps of the worker.
LEMMA WorkerOneByOne ==
  ASSUME Shape, Shape', Heads, NEW st, Stages(st), Deletes(st),
         Wait("sdp") \/ HandOver("sdp")
         \/ ThreadStart \/ EndSession \/ SetFree \/ SdpCheck \/ SdpClose
  PROVE  exiting' \/ Placed'
<1>1. CASE Wait("sdp") /\ ~Unlink("sdp")
  <2>1. Unmoved
    BY <1>1, BothThreads DEF Unmoved, Searching, Late, Wait, Start, ReadHead,
      PollEvents, PollTimeout, FireHead, DispatchPipe, Finish, Goto, ctxVars,
      reqVars, memVars, Shape, Types
  <2> QED BY <2>1, NothingMoves
<1>2. CASE HandOver("sdp") /\ ~Link("sdp")
  <2>1. Unmoved
    BY <1>2, BothThreads, AfterWakePc DEF Unmoved, Searching, Late, HandOver,
      ReadFirst, LookOnce, LookTwice, Look, WakeOther, Goto, ctxVars, reqVars,
      Shape, Types
  <2> QED BY <2>1, NothingMoves
<1>3. CASE ThreadStart \/ EndSession \/ SdpCheck
  <2>1. Unmoved
    BY <1>3, BothThreads DEF Unmoved, Searching, Late, ThreadStart, EndSession,
      SdpCheck, Goto, ctxVars, reqVars, memVars, Shape, Types
  <2> QED BY <2>1, NothingMoves
<1>4. CASE SdpClose
  BY <1>4, BothThreads DEF SdpClose, stopVars, Shape, Control
<1>5. CASE SetFree
  <2>1. Stages(st)'
    <3>1. /\ pc'["sdp"] = "account" /\ pc'["main"] = pc["main"]
          /\ job'["main"] = job["main"] /\ UNCHANGED <<queue, asked, given>>
      BY <1>5, BothThreads DEF SetFree, Goto, ctxVars, reqVars, Shape, Types
    <3> QED BY <3>1 DEF Stages, Searching
  <2>3. \A r \in Reqs :
          /\ Node(r) \in freed' => Node(r) \in freed
          /\ Result(r) \in freed' => Result(r) \in freed
          /\ Request(r) \in freed' => Request(r) \in freed \/ r = job["sdp"]
    BY <1>5, Names DEF SetFree
  <2>4. /\ pc["sdp"] = "setfree" /\ pc'["sdp"] = "account"
        /\ delfunc' = delfunc \cup {job["sdp"]}
    BY <1>5, BothThreads DEF SetFree, Goto, Shape, Types
  <2>2. Deletes(st)'
    BY <2>3, <2>4 DEF Deletes, Late
  <2> QED BY <2>1, <2>2 DEF Placed
<1>6. CASE Unlink("sdp")
  <2> DEFINE h == Head(queue["sdp"])
             q == Tail(queue["sdp"])
  <2>1. /\ queue["sdp"] \in Seq(Reqs) /\ queue["sdp"] # <<>>
        /\ IsInjective(queue["sdp"]) /\ \A r \in ToSet(queue["sdp"]) : st[r] = 2
        /\ ToSet(queue["sdp"]) \subseteq asked
    BY <1>6, UnlinksHead, BothThreads DEF Shape, Types, Control, Stages
  <2>2. /\ h \in Reqs /\ h \in asked /\ st[h] = 2 /\ IsInjective(q)
        /\ h \notin ToSet(q) /\ \A r \in ToSet(q) : st[r] = 2 /\ r \in Reqs
    BY <2>1, PopElements DEF Shape, Types
  <2>3. /\ pc["sdp"] = "unlink" /\ pc'["sdp"] = "handler"
        /\ pc'["main"] = pc["main"]
        /\ job'["sdp"] = h /\ job'["main"] = job["main"]
        /\ queue'["sdp"] = q /\ queue'["main"] = queue["main"]
        /\ UNCHANGED <<asked, given, delfunc, freed>>
    <3>1. IsInjective(queue["sdp"])
      BY <2>1
    <3> HIDE DEF h, q
    <3>2. queue' = [queue EXCEPT !["sdp"] = q] /\ job["sdp"] = h
      BY <1>6, <3>1, UnlinksHead, BothThreads DEF h, q
    <3> QED BY <1>6, <3>2, BothThreads DEF Unlink, Goto, reqVars, memVars,
        Shape, Types
  <2>4. PICK st2 \in [Reqs -> 0..6] :
          st2[h] = 3 /\ \A r \in Reqs : r # h => st2[r] = st[r]
    <3> DEFINE u == [st EXCEPT ![h] = 3]
    <3>1. /\ u \in [Reqs -> 0..6] /\ u[h] = 3
          /\ \A r \in Reqs : r # h => u[r] = st[r]
      BY <2>2 DEF Stages, Searching
    <3> HIDE DEF u
    <3> QED BY <3>1
  <2> HIDE DEF h, q
  <2>5. Stages(st2)'
    BY ONLY <2>2, <2>3, <2>4, BothThreads, ShapeFacts, Shape, Stages(st)
    DEF Stages, Searching
  <2>6. Deletes(st2)'
    BY ONLY <2>2, <2>3, <2>4, ShapeFacts, Shape, Stages(st), Deletes(st)
    DEF Stages, Deletes, Searching, Late
  <2> QED BY <2>5, <2>6 DEF Placed
<1>7. CASE Link("sdp")
  <2> DEFINE h == job["sdp"]
             q == <<h>> \o queue["main"]
  <2>1. /\ queue["main"] \in Seq(Reqs) /\ IsInjective(queue["main"])
        /\ \A r \in ToSet(queue["main"]) : st[r] = 4 /\ r \in Reqs
        /\ h \in Reqs /\ h \in asked /\ st[h] = 3
    BY <1>7, BothThreads DEF Link, Searching, Shape, Types, Control, Stages
  <2>2. IsInjective(q) /\ ToSet(q) = ToSet(queue["main"]) \cup {h}
    BY <2>1, PushElements
  <2>3. /\ pc["sdp"] = "splice" /\ pc'["sdp"] = "look"
        /\ pc'["main"] = pc["main"]
        /\ queue'["main"] = q /\ queue'["sdp"] = queue["sdp"]
        /\ UNCHANGED <<job, asked, given, delfunc, freed>>
    BY <1>7, BothThreads DEF Link, Goto, reqVars, Shape, Types
  <2>4. PICK st2 \in [Reqs -> 0..6] :
          st2[h] = 4 /\ \A r \in Reqs : r # h => st2[r] = st[r]
    <3> DEFINE u == [st EXCEPT ![h] = 4]
    <3>1. /\ u \in [Reqs -> 0..6] /\ u[h] = 4
          /\ \A r \in Reqs : r # h => u[r] = st[r]
      BY <2>1 DEF Stages, Searching
    <3> HIDE DEF u
    <3> QED BY <3>1
  <2> HIDE DEF q
  <2>5. Stages(st2)'
    BY ONLY <2>1, <2>2, <2>3, <2>4, BothThreads, ShapeFacts, Shape, Stages(st)
    DEF Stages, Searching
  <2>6. Deletes(st2)'
    BY ONLY <2>1, <2>3, <2>4, ShapeFacts, Shape, Stages(st), Deletes(st)
    DEF Stages, Deletes, Searching, Late
  <2> QED BY <2>5, <2>6 DEF Placed
<1> QED BY <1>1, <1>2, <1>3, <1>4, <1>5, <1>6, <1>7

\* Steps of the main thread.
LEMMA MainOneByOne ==
  ASSUME Shape, Shape', Heads, NEW st, Stages(st), Deletes(st),
         Wait("main") \/ HandOver("main")
         \/ EnterMain \/ ReadStdin \/ ReadSignal \/ LeaveRecv
         \/ (\E r \in Reqs : EnterRecv(r)) \/ GiveResult \/ Release \/ MainCheck
         \/ DeleteConnections \/ DeleteContext \/ StopWorker \/ JoinWorker
  PROVE  exiting' \/ Placed'
<1>1. CASE Wait("main") /\ ~Unlink("main")
  <2>1. Unmoved
    BY <1>1, BothThreads DEF Unmoved, Searching, Late, Wait, Start, ReadHead,
      PollEvents, PollTimeout, FireHead, DispatchPipe, Finish, Goto, ctxVars,
      reqVars, memVars, Shape, Types
  <2> QED BY <2>1, NothingMoves
<1>2. CASE HandOver("main") /\ ~Link("main")
  <2>1. Unmoved
    BY <1>2, BothThreads, AfterWakePc DEF Unmoved, Searching, Late, HandOver,
      ReadFirst, LookOnce, LookTwice, Look, WakeOther, Goto, ctxVars, reqVars,
      Shape, Types
  <2> QED BY <2>1, NothingMoves
<1>3. CASE EnterMain \/ ReadSignal \/ MainCheck \/ StopWorker \/ JoinWorker
  <2>1. Unmoved
    BY <1>3, BothThreads DEF Unmoved, Searching, Late, EnterMain, ReadSignal,
      MainCheck, StopWorker, JoinWorker, Goto, ctxVars, reqVars, memVars, Shape,
      Types
  <2> QED BY <2>1, NothingMoves
<1>4. CASE LeaveRecv \/ \E r \in Reqs : EnterRecv(r)
  <2>1. Unmoved
    BY <1>4, BothThreads DEF Unmoved, Searching, Late, LeaveRecv, EnterRecv,
      Goto, ctxVars, reqVars, memVars, Shape, Types
  <2> QED BY <2>1, NothingMoves
<1>5. CASE DeleteConnections
  <2>1. \A r \in Reqs : /\ Node(r) \in freed' => Node(r) \in freed
                        /\ Result(r) \in freed' => Result(r) \in freed
                        /\ Request(r) \in freed' => Request(r) \in freed
    BY <1>5, Names DEF DeleteConnections
  <2>2. Unmoved
    BY <1>5, <2>1, BothThreads DEF Unmoved, Searching, Late, DeleteConnections,
      Goto, ctxVars, reqVars, Shape, Types
  <2> QED BY <2>2, NothingMoves
<1>6. CASE DeleteContext
  BY <1>6 DEF DeleteContext
<1>7. CASE GiveResult
  <2>1. CASE exiting'
    BY <2>1
  <2>2. CASE ~exiting'
    <3>1. /\ pc["main"] = "handler" /\ pc'["main"] = "release"
          /\ pc'["sdp"] = pc["sdp"] /\ given' = given \cup {job["main"]}
          /\ UNCHANGED <<job, queue, asked, delfunc, freed>>
      BY <1>7, <2>2, BothThreads DEF GiveResult, Goto, ctxVars, memVars, Shape,
        Types
    <3>2. Stages(st)' /\ Deletes(st)'
      BY <3>1, BothThreads, ShapeFacts DEF Stages, Deletes, Searching, Late
    <3> QED BY <3>2 DEF Placed
  <2> QED BY <2>1, <2>2
<1>8. CASE ReadStdin
  <2>1. CASE UNCHANGED <<pc, job, input, asked>>
    <3>1. Unmoved
      BY <1>8, <2>1 DEF Unmoved, ReadStdin, ctxVars, memVars
    <3> QED BY <3>1, NothingMoves
  <2>2. ASSUME NEW h \in input, asked' = asked \cup {h},
               job' = [job EXCEPT !["main"] = h], Goto("main", "link")
        PROVE  exiting' \/ Placed'
    <3>1. h \in Reqs /\ h \notin asked
      BY ShapeFacts
    <3>2. /\ pc["main"] = "dispatch" /\ pc'["main"] = "link"
          /\ pc'["sdp"] = pc["sdp"]
          /\ job'["main"] = h /\ job'["sdp"] = job["sdp"]
          /\ UNCHANGED <<queue, given, delfunc, freed>>
      BY <1>8, <2>2, BothThreads DEF ReadStdin, Goto, ctxVars, memVars, Shape,
        Types
    <3>3. PICK st2 \in [Reqs -> 0..6] :
            st2[h] = 1 /\ \A r \in Reqs : r # h => st2[r] = st[r]
      <4> DEFINE u == [st EXCEPT ![h] = 1]
      <4>1. /\ u \in [Reqs -> 0..6] /\ u[h] = 1
            /\ \A r \in Reqs : r # h => u[r] = st[r]
        BY <3>1 DEF Stages, Searching
      <4> HIDE DEF u
      <4> QED BY <4>1
    <3>4. st[h] = 0
      BY <3>1 DEF Stages, Searching
    <3>5. Stages(st2)'
      BY ONLY <2>2, <3>1, <3>2, <3>3, <3>4, BothThreads, ShapeFacts, Shape,
         Stages(st)
      DEF Stages, Searching
    <3>6. Deletes(st2)'
      BY ONLY <3>1, <3>2, <3>3, <3>4, ShapeFacts, Shape, Stages(st), Deletes(st)
      DEF Stages, Deletes, Searching, Late
    <3> QED BY <3>5, <3>6 DEF Placed
  <2> QED BY <1>8, <2>1, <2>2 DEF ReadStdin
<1>9. CASE Unlink("main")
  <2> DEFINE h == Head(queue["main"])
             q == Tail(queue["main"])
  <2>1. /\ queue["main"] \in Seq(Reqs) /\ queue["main"] # <<>>
        /\ IsInjective(queue["main"]) /\ \A r \in ToSet(queue["main"]) : st[r] = 4
        /\ ToSet(queue["main"]) \subseteq asked
    BY <1>9, UnlinksHead, BothThreads DEF Shape, Types, Control, Stages
  <2>2. /\ h \in Reqs /\ h \in asked /\ st[h] = 4 /\ IsInjective(q)
        /\ h \notin ToSet(q) /\ \A r \in ToSet(q) : st[r] = 4 /\ r \in Reqs
    BY <2>1, PopElements DEF Shape, Types
  <2>3. /\ pc["main"] = "unlink" /\ pc'["main"] = "handler"
        /\ pc'["sdp"] = pc["sdp"]
        /\ job'["main"] = h /\ job'["sdp"] = job["sdp"]
        /\ queue'["main"] = q /\ queue'["sdp"] = queue["sdp"]
        /\ UNCHANGED <<asked, given, delfunc, freed>>
    <3>1. IsInjective(queue["main"])
      BY <2>1
    <3> HIDE DEF h, q
    <3>2. queue' = [queue EXCEPT !["main"] = q] /\ job["main"] = h
      BY <1>9, <3>1, UnlinksHead, BothThreads DEF h, q
    <3> QED BY <1>9, <3>2, BothThreads DEF Unlink, Goto, reqVars, memVars,
        Shape, Types
  <2>4. PICK st2 \in [Reqs -> 0..6] :
          st2[h] = 5 /\ \A r \in Reqs : r # h => st2[r] = st[r]
    <3> DEFINE u == [st EXCEPT ![h] = 5]
    <3>1. /\ u \in [Reqs -> 0..6] /\ u[h] = 5
          /\ \A r \in Reqs : r # h => u[r] = st[r]
      BY <2>2 DEF Stages, Searching
    <3> HIDE DEF u
    <3> QED BY <3>1
  <2> HIDE DEF h, q
  <2>5. Stages(st2)'
    BY ONLY <2>2, <2>3, <2>4, BothThreads, ShapeFacts, Shape, Stages(st)
    DEF Stages, Searching
  <2>6. Deletes(st2)'
    BY ONLY <2>2, <2>3, <2>4, ShapeFacts, Shape, Stages(st), Deletes(st)
    DEF Stages, Deletes, Searching, Late
  <2> QED BY <2>5, <2>6 DEF Placed
<1>10. CASE Link("main")
  <2> DEFINE h == job["main"]
             q == <<h>> \o queue["sdp"]
  <2>1. /\ queue["sdp"] \in Seq(Reqs) /\ IsInjective(queue["sdp"])
        /\ \A r \in ToSet(queue["sdp"]) : st[r] = 2 /\ r \in Reqs
        /\ h \in Reqs /\ h \in asked /\ st[h] = 1
    BY <1>10, BothThreads DEF Link, Shape, Types, Control, Stages
  <2>2. IsInjective(q) /\ ToSet(q) = ToSet(queue["sdp"]) \cup {h}
    BY <2>1, PushElements
  <2>3. /\ pc["main"] = "splice" /\ pc'["main"] = "look"
        /\ pc'["sdp"] = pc["sdp"] /\ job'["sdp"] = job["sdp"]
        /\ queue'["sdp"] = q /\ queue'["main"] = queue["main"]
        /\ UNCHANGED <<asked, given, delfunc, freed>>
    BY <1>10, BothThreads DEF Link, Goto, reqVars, Shape, Types
  <2>4. PICK st2 \in [Reqs -> 0..6] :
          st2[h] = 2 /\ \A r \in Reqs : r # h => st2[r] = st[r]
    <3> DEFINE u == [st EXCEPT ![h] = 2]
    <3>1. /\ u \in [Reqs -> 0..6] /\ u[h] = 2
          /\ \A r \in Reqs : r # h => u[r] = st[r]
      BY <2>1 DEF Stages, Searching
    <3> HIDE DEF u
    <3> QED BY <3>1
  <2> HIDE DEF h, q
  <2>5. Stages(st2)'
    BY ONLY <2>1, <2>2, <2>3, <2>4, BothThreads, ShapeFacts, Shape, Stages(st)
    DEF Stages, Searching
  <2>6. Deletes(st2)'
    <3>1. \A r \in Reqs : /\ st2[r] >= 4 <=> st[r] >= 4
                          /\ st2[r] = 6 <=> st[r] = 6
      BY ONLY <2>1, <2>4
    <3>2. /\ pc["sdp"] \in Late => job["sdp"] \in Reqs
          /\ delfunc \subseteq Reqs
      BY ShapeFacts
    <3> QED BY ONLY <2>3, <3>1, <3>2, Deletes(st) DEF Deletes, Late
  <2> QED BY <2>5, <2>6 DEF Placed
<1>11. CASE Release
  <2> DEFINE h == job["main"]
  <2>1. h \in Reqs /\ h \in asked /\ st[h] = 5 /\ h \in given
    BY <1>11 DEF Release, Shape, Types, Control, Stages
  <2>2. \A r \in Reqs :
          /\ Request(r) \in freed' => Request(r) \in freed
          /\ Node(r) \in freed' => Node(r) \in freed \/ r = h
          /\ Result(r) \in freed' => Result(r) \in freed \/ (r = h /\ r \in delfunc)
    BY <1>11, Names DEF Release
  <2>3. /\ pc["main"] = "release" /\ pc'["main"] = "account"
        /\ pc'["sdp"] = pc["sdp"] /\ job'["sdp"] = job["sdp"]
        /\ UNCHANGED <<queue, asked, given, delfunc>>
    BY <1>11, BothThreads DEF Release, Goto, ctxVars, reqVars, Shape, Types
  <2>4. PICK st2 \in [Reqs -> 0..6] :
          st2[h] = 6 /\ \A r \in Reqs : r # h => st2[r] = st[r]
    <3> DEFINE u == [st EXCEPT ![h] = 6]
    <3>1. /\ u \in [Reqs -> 0..6] /\ u[h] = 6
          /\ \A r \in Reqs : r # h => u[r] = st[r]
      BY <2>1 DEF Stages, Searching
    <3> HIDE DEF u
    <3> QED BY <3>1
  <2> HIDE DEF h
  <2>5. Stages(st2)'
    BY ONLY <2>1, <2>3, <2>4, BothThreads, ShapeFacts, Shape, Stages(st)
    DEF Stages, Searching
  <2>6. Deletes(st2)'
    BY ONLY <2>1, <2>2, <2>3, <2>4, ShapeFacts, Shape, Stages(st), Deletes(st)
    DEF Stages, Deletes, Searching, Late
  <2> QED BY <2>5, <2>6 DEF Placed
<1> QED BY <1>1, <1>2, <1>3, <1>4, <1>5, <1>6, <1>7, <1>8, <1>9, <1>10, <1>11

LEMMA ExitingStays ==
  ASSUME [Next]_vars
  PROVE  (exiting => exiting') /\ (overlapped => overlapped')
<1>1. CASE \E t \in Threads : Wait(t) \/ HandOver(t)
  <2> PICK t \in Threads : Wait(t) \/ HandOver(t)
    BY <1>1
  <2>1. UNCHANGED exiting
    BY DEF Wait, Start, ReadHead, PollEvents, PollTimeout, FireHead, Unlink,
      DispatchPipe, Finish, HandOver, ReadFirst, Link, LookOnce, LookTwice,
      Look, WakeOther, stopVars
  <2>2. CASE FireHead(t)
    BY <2>1, <2>2, Zenon DEF FireHead
  <2>3. CASE ReadFirst(t)
    BY <2>1, <2>3, Zenon DEF ReadFirst
  <2>4. CASE ~FireHead(t) /\ ~ReadFirst(t)
    BY <2>1, <2>4 DEF Wait, Start, ReadHead, PollEvents, PollTimeout, Unlink,
      DispatchPipe, Finish, HandOver, Link, LookOnce, LookTwice, Look,
      WakeOther, raceVars
  <2> QED BY <2>2, <2>3, <2>4
<1>3. CASE ThreadStart \/ EndSession \/ SetFree \/ SdpCheck \/ SdpClose
  BY <1>3 DEF ThreadStart, EndSession, SetFree, SdpCheck, SdpClose, stopVars,
    raceVars
<1>4. CASE \/ EnterMain \/ ReadStdin \/ ReadSignal \/ LeaveRecv
           \/ (\E r \in Reqs : EnterRecv(r)) \/ GiveResult \/ Release
           \/ MainCheck
  BY <1>4 DEF EnterMain, ReadStdin, ReadSignal, LeaveRecv, EnterRecv,
    GiveResult, Release, MainCheck, stopVars, raceVars
<1>5. CASE \/ DeleteConnections \/ DeleteContext \/ StopWorker \/ JoinWorker
  BY <1>5 DEF DeleteConnections, DeleteContext, StopWorker, JoinWorker,
    stopVars, raceVars
<1>6. CASE Environment \/ (\E t \in Threads : Flush(t)) \/ UNCHANGED vars
  BY <1>6 DEF Environment, Type, CloseStdin, Terminate, Talk, Flush, vars,
    stopVars, raceVars
<1> QED BY <1>1, <1>3, <1>4, <1>5, <1>6, NextCases

\* A step of one thread that touches no list.
LEMMA HeadsElsewhere ==
  ASSUME Shape, Heads, NEW t \in Threads, NEW l, l \notin {"unlink", "splice"},
         pc' = [pc EXCEPT ![t] = l], UNCHANGED <<queue, first>>,
         job'[Other(t)] = job[Other(t)]
  PROVE  Heads'
<1>1. /\ Other(t) \in Threads /\ Threads = {t, Other(t)} /\ t # Other(t)
      /\ Other(Other(t)) = t
  BY BothThreads
<1>2. pc'[t] = l /\ pc'[Other(t)] = pc[Other(t)]
  BY <1>1 DEF Shape, Types
<1> QED BY <1>1, <1>2 DEF Heads

\* As long as the lists are not changed by both, what was read of them holds.
LEMMA HeadsStep ==
  ASSUME Shape, Heads, [Next]_vars, ~overlapped'
  PROVE  Heads'
<1>0. ASSUME NEW t \in Threads
      PROVE  /\ Other(t) \in Threads /\ Threads = {t, Other(t)}
             /\ t # Other(t) /\ Other(Other(t)) = t
  BY BothThreads
<1>1. ASSUME NEW t \in Threads, Wait(t) PROVE Heads'
  <2>2. CASE \/ Start(t) \/ ReadHead(t) \/ PollEvents(t) \/ PollTimeout(t)
             \/ Finish(t)
    <3>1. PICK l \in {"begun", "poll", "dispatch", "expired", "check"} :
            pc' = [pc EXCEPT ![t] = l]
      BY <2>2 DEF Start, ReadHead, PollEvents, PollTimeout, Finish, Goto
    <3>2. UNCHANGED <<queue, first, job>>
      BY <2>2 DEF Start, ReadHead, PollEvents, PollTimeout, Finish, ctxVars,
        raceVars
    <3> QED BY <3>1, <3>2, HeadsElsewhere
  <2>5. CASE DispatchPipe(t)
    BY <2>5 DEF DispatchPipe, raceVars, Heads
  <2>3. CASE FireHead(t)
    <3>1. /\ pc'[t] = "unlink" /\ pc'[Other(t)] = pc[Other(t)]
          /\ job'[t] = Head(queue[t]) /\ job'[Other(t)] = job[Other(t)]
          /\ UNCHANGED <<queue, first>>
      BY <1>0, <2>3 DEF FireHead, Goto, ctxVars, Shape, Types
    <3>2. queue[t] # <<>>
      BY <2>3 DEF FireHead, Shape, Control
    <3>3. pc[Other(t)] # "splice"
      BY <2>3, Zenon DEF FireHead
    <3> QED BY <1>0, <3>1, <3>2, <3>3 DEF Heads
  <2>4. CASE Unlink(t)
    <3>1. /\ pc[t] = "unlink" /\ pc'[t] = "handler"
          /\ pc'[Other(t)] = pc[Other(t)]
          /\ queue'[Other(t)] = queue[Other(t)] /\ UNCHANGED <<job, first>>
      BY <1>0, <2>4 DEF Unlink, Goto, raceVars, Shape, Types
    <3> QED BY <1>0, <3>1 DEF Heads
  <2> QED BY <1>1, <2>2, <2>3, <2>4, <2>5 DEF Wait
<1>2. ASSUME NEW t \in Threads, HandOver(t) PROVE Heads'
  <2>2. CASE ReadFirst(t)
    <3>1. /\ pc'[t] = "splice" /\ pc'[Other(t)] = pc[Other(t)]
          /\ pc[t] = "link" /\ pc[Other(t)] # "unlink"
          /\ first'[t] = HeadOf(queue[Other(t)])
          /\ first'[Other(t)] = first[Other(t)]
          /\ UNCHANGED <<queue, job>>
      BY <1>0, <2>2 DEF ReadFirst, Goto, ctxVars, Shape, Types
    <3> QED BY <1>0, <3>1 DEF Heads
  <2>3. CASE Link(t)
    <3>1. /\ pc'[t] = "look" /\ pc'[Other(t)] = pc[Other(t)]
          /\ pc[t] = "splice"
          /\ queue'[t] = queue[t] /\ first'[Other(t)] = first[Other(t)]
          /\ job'[Other(t)] = job[Other(t)]
      BY <1>0, <2>3 DEF Link, Goto, Shape, Types
    <3> QED BY <1>0, <3>1 DEF Heads
  <2>4. CASE LookOnce(t) \/ LookTwice(t) \/ WakeOther(t)
    <3>1. PICK l \in {"looktwice", "write", "setfree", "join", "dispatch"} :
            pc' = [pc EXCEPT ![t] = l]
      BY <2>4 DEF LookOnce, LookTwice, Look, WakeOther, AfterWake, Goto
    <3>2. UNCHANGED <<queue, first, job>>
      BY <2>4 DEF LookOnce, LookTwice, Look, WakeOther, ctxVars, raceVars
    <3> QED BY <3>1, <3>2, HeadsElsewhere
  <2> QED BY <1>2, <2>2, <2>3, <2>4 DEF HandOver
<1>3. CASE ThreadStart \/ EndSession \/ SetFree \/ SdpCheck \/ SdpClose
  <2>1. PICK l \in {"idle", "link", "account", "closing", "done"} :
          pc' = [pc EXCEPT !["sdp"] = l]
    BY <1>3 DEF ThreadStart, EndSession, SetFree, SdpCheck, SdpClose, Goto
  <2>2. UNCHANGED <<queue, first>> /\ job'["main"] = job["main"]
    BY <1>3, BothThreads DEF ThreadStart, EndSession, SetFree, SdpCheck,
      SdpClose, ctxVars, raceVars, Shape, Types
  <2> QED BY <2>1, <2>2, HeadsElsewhere, BothThreads
<1>4. CASE \/ EnterMain \/ ReadStdin \/ ReadSignal \/ LeaveRecv
           \/ \E r \in Reqs : EnterRecv(r)
  <2>1. \/ UNCHANGED pc
        \/ \E l \in {"idle", "link", "dispatch", "recv"} :
             pc' = [pc EXCEPT !["main"] = l]
    BY <1>4 DEF EnterMain, ReadStdin, ReadSignal, LeaveRecv, EnterRecv, Goto
  <2>2. UNCHANGED <<queue, first>> /\ job'["sdp"] = job["sdp"]
    BY <1>4, BothThreads DEF EnterMain, ReadStdin, ReadSignal, LeaveRecv,
      EnterRecv, ctxVars, raceVars, Shape, Types
  <2>4. UNCHANGED pc => pc["main"] = "dispatch"
    BY <1>4, BothThreads
    DEF EnterMain, ReadStdin, ReadSignal, LeaveRecv, EnterRecv, Goto, Shape,
      Types
  <2>5. CASE UNCHANGED pc
    BY <2>2, <2>4, <2>5, BothThreads DEF Heads
  <2> QED BY <2>1, <2>2, <2>5, HeadsElsewhere, BothThreads
<1>5. CASE \/ GiveResult \/ Release \/ MainCheck \/ DeleteConnections
           \/ DeleteContext \/ StopWorker \/ JoinWorker
  <2>1. PICK l \in {"release", "exit", "account", "teardown", "idle", "delete",
                   "looktwice", "done"} :
          pc' = [pc EXCEPT !["main"] = l]
    BY <1>5 DEF GiveResult, Release, MainCheck, DeleteConnections,
      DeleteContext, StopWorker, JoinWorker, Goto
  <2>2. UNCHANGED <<queue, first>> /\ job'["sdp"] = job["sdp"]
    BY <1>5, BothThreads DEF GiveResult, Release, MainCheck, DeleteConnections,
      DeleteContext, StopWorker, JoinWorker, ctxVars, raceVars, Shape, Types
  <2> QED BY <2>1, <2>2, HeadsElsewhere, BothThreads
<1>6. CASE Environment \/ (\E t \in Threads : Flush(t)) \/ UNCHANGED vars
  BY <1>6 DEF Environment, Type, CloseStdin, Terminate, Talk, Flush, vars,
    loopVars, ctxVars, raceVars, Heads
<1> QED BY <1>1, <1>2, <1>3, <1>4, <1>5, <1>6, NextCases

LEMMA OneByOneStep ==
  ASSUME Shape, Shape', OneByOne, [Next]_vars
  PROVE  OneByOne'
<1>1. CASE exiting \/ overlapped \/ overlapped'
  <2>1. exiting' \/ overlapped'
    BY <1>1, ExitingStays
  <2> QED BY <2>1 DEF OneByOne
<1>2. ASSUME NEW st, Stages(st), Deletes(st), Heads, ~overlapped'
      PROVE  OneByOne'
  <2>1. CASE Environment \/ (\E t \in Threads : Flush(t)) \/ UNCHANGED vars
    <3>1. Unmoved
      BY <2>1 DEF Unmoved, Environment, Type, CloseStdin, Terminate, Talk,
        Flush, vars, loopVars, ctxVars, reqVars, memVars
    <3>2. Placed'
      BY <1>2, <3>1, NothingMoves
    <3>3. Heads'
      BY <1>2, HeadsStep
    <3> QED BY <3>2, <3>3 DEF OneByOne, Placed
  <2>2. CASE Wait("sdp") \/ HandOver("sdp")
             \/ ThreadStart \/ EndSession \/ SetFree \/ SdpCheck \/ SdpClose
    <3>1. exiting' \/ Placed'
      BY <1>2, <2>2, WorkerOneByOne
    <3> QED BY <1>2, <3>1, HeadsStep DEF OneByOne, Placed
  <2>3. CASE Wait("main") \/ HandOver("main")
             \/ EnterMain \/ ReadStdin \/ ReadSignal \/ LeaveRecv
             \/ (\E r \in Reqs : EnterRecv(r)) \/ GiveResult \/ Release
             \/ MainCheck \/ DeleteConnections \/ DeleteContext \/ StopWorker
             \/ JoinWorker
    <3>1. exiting' \/ Placed'
      BY <1>2, <2>3, MainOneByOne
    <3> QED BY <1>2, <3>1, HeadsStep DEF OneByOne, Placed
  <2> QED BY <2>1, <2>2, <2>3, NextCases, BothThreads
<1> QED BY <1>1, <1>2 DEF OneByOne

-----------------------------------------------------------------------------
(* What is freed before the end, and which of it is used.                  *)

LateNodes == {Node(r) : r \in {q \in given : Result(q) \notin freed}}

FreedBeforeEnd ==
  /\ freed \subseteq {Node(r) : r \in Reqs} \cup {Result(r) : r \in Reqs}
                       \cup {Request(r) : r \in Reqs}
  /\ touched \subseteq LateNodes

Memory ==
  exiting \/ overlapped \/ pc["main"] = "delete" \/ FreedBeforeEnd

\* The steps that free nothing and give nothing, and use but what is not freed.
LEMMA UsesAllocated ==
  ASSUME FreedBeforeEnd, UNCHANGED <<given, freed>>,
         UNCHANGED touched \/ \E objs : Use(objs) /\ objs \cap freed = {}
  PROVE  FreedBeforeEnd'
<1>1. UNCHANGED touched
  BY DEF Use
<1> QED BY <1>1 DEF FreedBeforeEnd, LateNodes

\* Before the end contexts and engines are allocated, and so is what is in a
\* list and what was read of it.
LEMMA Allocated ==
  ASSUME Shape, FreedBeforeEnd, Heads, NEW st, Stages(st), Deletes(st)
  PROVE  /\ \A t, r : Context(t) \notin freed /\ Engine(r) \notin freed
         /\ \A t \in Threads : \A r \in ToSet(queue[t]) : Timer(t, r) \notin freed
         /\ \A t \in Threads : HeadOf(queue[t]) # NoReq =>
                                 HeadOf(queue[t]) \in ToSet(queue[t])
<1>1. \A t, r : Context(t) \notin freed /\ Engine(r) \notin freed
  <2>1. ASSUME NEW o \in freed
        PROVE  \E q \in Reqs : o \in {Node(q), Result(q), Request(q)}
    BY DEF FreedBeforeEnd
  <2>2. ASSUME NEW t, NEW r, NEW q
        PROVE  {Node(q), Result(q), Request(q)} \cap {Context(t), Engine(r)} = {}
    BY Names
  <2> QED BY <2>1, <2>2
<1>2. \A r \in ToSet(queue["main"]) : Node(r) \notin freed
  BY ShapeFacts DEF Stages, Deletes
<1>3. \A r \in ToSet(queue["sdp"]) : Request(r) \notin freed
  BY ShapeFacts DEF Stages, Deletes
<1>4. \A t \in Threads : \A r \in ToSet(queue[t]) : Timer(t, r) \notin freed
  BY <1>2, <1>3, BothThreads DEF Timer
<1>5. ASSUME NEW t \in Threads, HeadOf(queue[t]) # NoReq
      PROVE  HeadOf(queue[t]) \in ToSet(queue[t])
  <2>1. queue[t] \in Seq(Reqs) /\ queue[t] # <<>> /\ HeadOf(queue[t]) = Head(queue[t])
    BY <1>5 DEF HeadOf, Shape, Types
  <2> QED BY <2>1, PopElements
<1> QED BY <1>1, <1>4, <1>5

LEMMA MemoryStep ==
  ASSUME Shape, Shape', OneByOne, Memory, [Next]_vars
  PROVE  Memory'
<1>1. CASE exiting \/ overlapped \/ overlapped'
  BY <1>1, ExitingStays DEF Memory
<1>2. CASE ~exiting /\ pc["main"] = "delete"
  <2>1. pc'["main"] = "delete" \/ DeleteContext
    <3>1. CASE \E t \in Threads : Wait(t)
      BY <1>2, <3>1, BothThreads DEF Wait, Start, ReadHead, PollEvents,
        PollTimeout, FireHead, Unlink, DispatchPipe, Finish, Goto, Shape, Types
    <3>2. CASE \E t \in Threads : HandOver(t)
      BY <1>2, <3>2, BothThreads DEF HandOver, ReadFirst, Link, LookOnce,
        LookTwice, Look, WakeOther, Goto, Shape, Types
    <3>3. CASE ThreadStart \/ EndSession \/ SetFree \/ SdpCheck \/ SdpClose
      BY <1>2, <3>3, BothThreads DEF ThreadStart, EndSession, SetFree, SdpCheck,
        SdpClose, Goto, Shape, Types
    <3>4. CASE \/ EnterMain \/ ReadStdin \/ ReadSignal \/ LeaveRecv
               \/ (\E r \in Reqs : EnterRecv(r)) \/ GiveResult \/ Release
               \/ MainCheck \/ DeleteConnections \/ StopWorker \/ JoinWorker
      BY <1>2, <3>4 DEF EnterMain, ReadStdin, ReadSignal, LeaveRecv, EnterRecv,
        GiveResult, Release, MainCheck, DeleteConnections, StopWorker,
        JoinWorker
    <3>5. CASE Environment \/ (\E t \in Threads : Flush(t)) \/ UNCHANGED vars
      BY <1>2, <3>5 DEF Environment, Type, CloseStdin, Terminate, Talk, Flush,
        vars, loopVars, raceVars
    <3> QED BY <3>1, <3>2, <3>3, <3>4, <3>5, NextCases
  <2> QED BY <2>1 DEF Memory, DeleteContext
<1>3. CASE ~exiting /\ ~overlapped' /\ FreedBeforeEnd
  <2> PICK st : Stages(st) /\ Deletes(st)
    BY <1>3, ExitingStays DEF OneByOne
  <2>0. Heads
    BY <1>3, ExitingStays DEF OneByOne
  <2>1. CASE \E t \in Threads : Wait(t)
    <3> PICK t \in Threads : Wait(t)
      BY <2>1
    <3>1. UNCHANGED <<given, freed>>
      BY DEF Wait, Start, ReadHead, PollEvents, PollTimeout, FireHead, Unlink,
        DispatchPipe, Finish, reqVars, memVars
    <3>2. CASE ReadHead(t) \/ FireHead(t) \/ Finish(t)
      <4>1. FireHead(t) => /\ queue[t] # <<>>
                           /\ Head(queue[t]) = HeadOf(queue[t])
                           /\ queue[t] \in Seq(Reqs)
        BY DEF FireHead, HeadOf, Shape, Types, Control
      <4>2. FireHead(t) => Head(queue[t]) \in ToSet(queue[t])
        BY <4>1, PopElements
      <4>3. PICK S \in SUBSET ToSet(queue[t]) : Use({Timer(t, r) : r \in S})
        <5>1. CASE ReadHead(t)
          BY <1>3, <2>0, <5>1, Allocated DEF ReadHead
        <5>2. CASE FireHead(t)
          <6>1. {Timer(t, Head(queue[t]))} =
                  {Timer(t, r) : r \in {Head(queue[t])}}
            OBVIOUS
          <6> QED BY <4>2, <5>2, <6>1 DEF FireHead
        <5>3. CASE Finish(t)
          BY <5>3 DEF Finish, Timers
        <5> QED BY <3>2, <5>1, <5>2, <5>3
      <4>4. {Timer(t, r) : r \in S} \cap freed = {}
        BY <1>3, <2>0, Allocated
      <4> QED BY <1>3, <3>1, <4>3, <4>4, UsesAllocated DEF Memory
    <3>3. CASE ~(ReadHead(t) \/ FireHead(t) \/ Finish(t))
      <4>1. UNCHANGED touched
        BY <3>3 DEF Wait, Start, PollEvents, PollTimeout, Unlink, DispatchPipe,
          memVars
      <4> QED BY <1>3, <3>1, <4>1, UsesAllocated DEF Memory
    <3> QED BY <3>2, <3>3
  <2>2. CASE \E t \in Threads : HandOver(t)
    <3> PICK t \in Threads : HandOver(t)
      BY <2>2
    <3>1. UNCHANGED <<given, freed>>
      BY DEF HandOver, ReadFirst, Link, LookOnce, LookTwice, Look, WakeOther,
        reqVars
    <3>2. \E objs : Use(objs) /\ objs \cap freed = {}
      <4>1. Other(t) \in Threads
        BY BothThreads
      <4>2. \A u, r : Context(u) \notin freed /\ Engine(r) \notin freed
        BY <1>3, <2>0, Allocated
      <4>3. CASE ReadFirst(t)
        BY <4>2, <4>3 DEF ReadFirst
      <4>4. CASE Link(t)
        <5>1. \A r \in {first[t]} \ {NoReq} : Timer(Other(t), r) \notin freed
          BY <1>3, <2>0, <4>1, <4>4, Allocated DEF Link, Heads
        <5>2. ({Context(Other(t))} \cup
               {Timer(Other(t), r) : r \in {first[t]} \ {NoReq}}) \cap freed = {}
          BY <4>2, <5>1
        <5> QED BY <4>4, <5>2 DEF Link
      <4>5. CASE LookOnce(t) \/ LookTwice(t) \/ WakeOther(t)
        BY <4>2, <4>5 DEF LookOnce, LookTwice, Look, WakeOther
      <4> QED BY <4>3, <4>4, <4>5 DEF HandOver
    <3> QED BY <1>3, <3>1, <3>2, UsesAllocated DEF Memory
  <2>3. CASE ThreadStart \/ SdpCheck \/ EnterMain \/ ReadStdin \/ ReadSignal
             \/ LeaveRecv \/ (\E r \in Reqs : EnterRecv(r)) \/ MainCheck
             \/ StopWorker \/ JoinWorker
    BY <1>3, <2>3, UsesAllocated DEF Memory, ThreadStart, SdpCheck, EnterMain,
      ReadStdin, ReadSignal, LeaveRecv, EnterRecv, MainCheck, StopWorker,
      JoinWorker, reqVars, memVars, raceVars
  <2>4. CASE EndSession
    <3>1. {Engine(job["sdp"])} \cap freed = {}
      BY <1>3, <2>0, Allocated
    <3> QED BY <1>3, <2>4, <3>1, UsesAllocated DEF Memory, EndSession, reqVars
  <2>5. CASE SdpClose \/ DeleteContext \/ DeleteConnections
    BY <1>3, <2>5, BothThreads DEF SdpClose, DeleteContext, DeleteConnections,
      Goto, Memory, Shape, Types, Control
  <2>6. CASE GiveResult
    <3>1. UNCHANGED <<freed, touched>> /\ given \subseteq given'
      BY <2>6 DEF GiveResult, memVars, raceVars
    <3> QED BY <1>3, <3>1 DEF Memory, FreedBeforeEnd, LateNodes
  <2>7. CASE SetFree
    <3> DEFINE r == job["sdp"]
    <3>1. r \in Reqs /\ pc["sdp"] \in Late
      BY <2>7, ShapeFacts DEF SetFree, Late
    <3>3. Node(r) \in freed => r \in given /\ Result(r) \notin freed
      BY <3>1 DEF Stages, Deletes
    <3>4. /\ touched' \subseteq touched \cup ({Node(r)} \cap freed)
          /\ freed' = freed \cup {Request(r)} /\ UNCHANGED given
      BY <2>7 DEF SetFree, Use, reqVars
    <3> HIDE DEF r
    <3>5. \A q : Result(q) \in freed' => Result(q) \in freed
      BY <3>4, Names
    <3>6. touched' \subseteq LateNodes'
      BY <1>3, <3>3, <3>4, <3>5 DEF FreedBeforeEnd, LateNodes
    <3> QED BY <1>3, <3>1, <3>4, <3>6 DEF Memory, FreedBeforeEnd
  <2>8. CASE Release
    <3> DEFINE r == job["main"]
    <3>1. r \in Reqs /\ pc["main"] = "release"
      BY <2>8, ShapeFacts DEF Release
    <3>3. Node(r) \notin freed
      BY <3>1 DEF Stages, Deletes
    <3>4. /\ freed' \subseteq freed \cup {Node(r), Result(r)}
          /\ UNCHANGED <<given, touched>> /\ touched \subseteq freed
      BY <2>8 DEF Release, reqVars, raceVars, Shape, Types
    <3> HIDE DEF r
    <3>5. touched \subseteq LateNodes'
      <4> SUFFICES ASSUME NEW o \in touched PROVE o \in LateNodes'
        OBVIOUS
      <4>1. PICK q \in given : o = Node(q) /\ Result(q) \notin freed
        BY <1>3 DEF FreedBeforeEnd, LateNodes
      <4>2. q # r
        BY <3>3, <3>4, <4>1
      <4>3. Result(q) \notin freed'
        BY <3>4, <4>1, <4>2, Names
      <4> QED BY <3>4, <4>1, <4>3 DEF LateNodes
    <3> QED BY <1>3, <3>1, <3>4, <3>5 DEF Memory, FreedBeforeEnd
  <2>9. CASE Environment \/ (\E t \in Threads : Flush(t)) \/ UNCHANGED vars
    BY <1>3, <2>9, UsesAllocated DEF Memory, Environment, Type, CloseStdin,
      Terminate, Talk, Flush, vars, reqVars, memVars, raceVars
  <2> QED BY <2>1, <2>2, <2>3, <2>4, <2>5, <2>6, <2>7, <2>8, <2>9, NextCases
<1> QED BY <1>1, <1>2, <1>3 DEF Memory

\* Until the program ends, and unless both have changed one list at once, the
\* worker alone is late, and only for a node whose result was given.
LEMMA MemorySafe == Shape /\ Memory => UseAfterFreeTakesARace
  BY DEF Shape, Control, EndPcs, Memory, FreedBeforeEnd, LateNodes,
     UseAfterFreeTakesARace

-----------------------------------------------------------------------------
(* The results.                                                            *)

LEMMA ResultsStep ==
  ASSUME Shape, OneByOne, ResultsFreed, [Next]_vars
  PROVE  ResultsFreed'
<1> SUFFICES ASSUME ~overlapped, ~overlapped' PROVE ResultsFreed'
  BY ExitingStays DEF ResultsFreed
<1>1. CASE GiveResult
  <2>1. /\ job["main"] \in Reqs /\ pc["main"] = "handler" /\ ~exiting
        /\ given' = given \cup {job["main"]}
        /\ UNCHANGED <<job, freed, touched>>
    BY <1>1, ShapeFacts DEF GiveResult, memVars, raceVars, Shape, Control,
      EndPcs
  <2>2. PICK st : Stages(st) /\ Deletes(st)
    BY <2>1 DEF OneByOne
  <2>3. Node(job["main"]) \notin freed
    BY <2>1, <2>2 DEF Stages, Deletes
  <2> QED BY <2>1, <2>3 DEF ResultsFreed
<1>2. CASE Release
  <2> DEFINE h == job["main"]
  <2>1. /\ h \in Reqs /\ pc["main"] = "release" /\ ~exiting
        /\ UNCHANGED <<given, delfunc, touched>> /\ job'["sdp"] = job["sdp"]
        /\ freed' = freed \cup {Node(h)} \cup
                      (IF h \in delfunc THEN {Result(h)} ELSE {})
    BY <1>2, ShapeFacts, BothThreads DEF Release, reqVars, raceVars, Shape,
      Control, EndPcs, Types
  <2>2. PICK st : Stages(st) /\ Deletes(st)
    BY <2>1 DEF OneByOne
  <2>3. h \in delfunc \/ job["sdp"] = h
    BY <2>1, <2>2 DEF Stages, Deletes
  <2> HIDE DEF h
  <2> QED BY <2>1, <2>3, Names DEF ResultsFreed
<1>3. CASE DeleteContext
  <2>1. /\ pc["main"] = "delete" /\ ~exiting
        /\ UNCHANGED <<given, job, touched>> /\ freed \subseteq freed'
        /\ \A r : Node(r) \in freed' =>
                    Node(r) \in freed \/ r \in ToSet(queue["main"])
    <3> DEFINE left == ToSet(queue["main"])
    <3>1. /\ pc["main"] = "delete"
          /\ freed' = freed \cup {Context("main")} \cup {Node(r) : r \in left}
                        \cup {Result(r) : r \in left \cap delfunc}
          /\ UNCHANGED <<given, job, touched>>
      BY <1>3 DEF DeleteContext, reqVars
    <3>2. left = ToSet(queue["main"])
      OBVIOUS
    <3> HIDE DEF left
    <3>3. \A r : Node(r) \in freed' => Node(r) \in freed \/ r \in left
      BY <3>1, Names
    <3>4. ~exiting
      BY <3>1 DEF Shape, Control, EndPcs
    <3> QED BY <3>1, <3>2, <3>3, <3>4
  <2>2. PICK st : Stages(st) /\ Deletes(st)
    BY <2>1 DEF OneByOne
  <2>3. \A r \in given : r \notin ToSet(queue["main"])
    BY <2>2 DEF Stages
  <2> QED BY <2>1, <2>3 DEF ResultsFreed
<1>4. CASE SetFree
  <2>1. /\ touched' = touched \cup ({Node(job["sdp"])} \cap freed)
        /\ freed' = freed \cup {Request(job["sdp"])} /\ UNCHANGED given
    BY <1>4 DEF SetFree, Use, reqVars
  <2>2. \A r : Node(r) \in freed' => Node(r) \in freed
    BY <2>1, Names
  <2> QED BY <2>1, <2>2 DEF ResultsFreed
<1>5. CASE DeleteConnections \/ SdpClose
  <2>1. /\ UNCHANGED <<given, job, touched>> /\ freed \subseteq freed'
        /\ \A r : Node(r) \in freed' => Node(r) \in freed
    <3>1. \A r, q : Timer("sdp", q) # Node(r)
      BY Names, BothThreads DEF Timer
    <3> QED BY <1>5, <3>1, Names
            DEF DeleteConnections, SdpClose, Timers, reqVars
  <2> QED BY <2>1 DEF ResultsFreed
<1>6. CASE FireHead("sdp")
  <2>1. job["sdp"] = NoReq /\ NoReq \notin given
    BY <1>6, ReqsAssumption, ShapeFacts
    DEF FireHead, Shape, Control, Searching, Late
  <2>2. UNCHANGED <<given, freed>> /\ touched \subseteq touched'
    BY <1>6 DEF FireHead, Use, reqVars
  <2> QED BY <2>1, <2>2 DEF ResultsFreed
<1>7. CASE /\ UNCHANGED <<given, freed>> /\ touched \subseteq touched'
           /\ job'["sdp"] = job["sdp"]
  BY <1>7 DEF ResultsFreed
<1>8. ASSUME \/ \E t \in Threads : Wait(t) /\ ~FireHead("sdp")
             \/ \E t \in Threads : HandOver(t)
      PROVE  /\ UNCHANGED <<given, freed>> /\ touched \subseteq touched'
             /\ job'["sdp"] = job["sdp"]
  <2>1. CASE \E t \in Threads : Wait(t) /\ ~FireHead("sdp")
    BY <2>1, BothThreads DEF Wait, Start, ReadHead, PollEvents, PollTimeout,
      FireHead, Unlink, DispatchPipe, Finish, Use, reqVars, memVars, Shape,
      Types
  <2>2. CASE \E t \in Threads : HandOver(t)
    BY <2>2, BothThreads DEF HandOver, ReadFirst, Link, LookOnce, LookTwice,
      Look, WakeOther, Use, reqVars, Shape, Types
  <2> QED BY <1>8, <2>1, <2>2
<1>9. ASSUME \/ ThreadStart \/ EndSession \/ SdpCheck \/ EnterMain \/ ReadStdin
             \/ ReadSignal \/ LeaveRecv \/ (\E r \in Reqs : EnterRecv(r))
             \/ MainCheck \/ StopWorker \/ JoinWorker \/ Environment
             \/ (\E t \in Threads : Flush(t)) \/ UNCHANGED vars
      PROVE  /\ UNCHANGED <<given, freed>> /\ touched \subseteq touched'
             /\ job'["sdp"] = job["sdp"]
  <2>1. CASE ReadStdin \/ LeaveRecv \/ \E r \in Reqs : EnterRecv(r)
    BY <2>1, BothThreads DEF ReadStdin, LeaveRecv, EnterRecv, reqVars, memVars,
      raceVars, Shape, Types
  <2>2. CASE \/ ThreadStart \/ EndSession \/ SdpCheck \/ EnterMain
             \/ ReadSignal \/ MainCheck \/ StopWorker \/ JoinWorker
    BY <2>2 DEF ThreadStart, EndSession, SdpCheck, EnterMain, ReadSignal,
      MainCheck, StopWorker, JoinWorker, Use, reqVars, memVars, raceVars
  <2>3. CASE Environment \/ (\E t \in Threads : Flush(t)) \/ UNCHANGED vars
    BY <2>3 DEF Environment, Type, CloseStdin, Terminate, Talk, Flush, vars,
      loopVars, reqVars, memVars, raceVars
  <2> QED BY <1>9, <2>1, <2>2, <2>3
<1> QED BY <1>1, <1>2, <1>3, <1>4, <1>5, <1>6, <1>7, <1>8, <1>9, NextCases

-----------------------------------------------------------------------------
(* The quiet stop: from then on the worker only wakes to end.              *)

Quiet ==
  quiet =>
    /\ ~overlapped => touched \subseteq {Node(r) : r \in given}
    /\ pc["main"] \in {"teardown", "delete"} \cup EndPcs
    /\ pc["sdp"] \in {"poll", "dispatch", "check", "closing", "done"}
    /\ pc["main"] \notin {"join", "done"} => pc["sdp"] = "poll" /\ pipe["sdp"] = 0
    /\ pc["main"] \notin {"teardown", "delete", "exit"} => sdp_stop
    /\ queue["sdp"] = <<>> /\ polltimeout["sdp"] = -1

LEMMA QuietStep ==
  ASSUME Shape, Shape', Memory, Quiet, [Next]_vars
  PROVE  Quiet'
<1>1. CASE MainCheck
  <2> SUFFICES ASSUME quiet' PROVE Quiet'
    BY DEF Quiet
  <2>1. /\ WorkerAsleep /\ pc'["main"] = "teardown" /\ pc'["sdp"] = "poll"
        /\ UNCHANGED <<touched, given, pipe, queue, polltimeout, overlapped>>
    BY <1>1, BothThreads DEF MainCheck, WorkerAsleep, Goto, ctxVars, reqVars,
      memVars, raceVars, Shape, Types
  <2>2. ~overlapped => touched \subseteq {Node(r) : r \in given}
    BY <1>1 DEF MainCheck, Memory, FreedBeforeEnd, LateNodes, Shape, Control,
      EndPcs
  <2> QED BY <2>1, <2>2 DEF Quiet, WorkerAsleep
<1>2. CASE ~quiet /\ ~MainCheck
  <2>1. UNCHANGED quiet
    BY <1>2, NextCases DEF Wait, Start, ReadHead, PollEvents, PollTimeout,
      FireHead, Unlink, DispatchPipe, Finish, HandOver, ReadFirst, Link,
      LookOnce, LookTwice, Look, WakeOther, ThreadStart, EndSession, SetFree,
      SdpCheck, SdpClose, EnterMain, ReadStdin, ReadSignal, LeaveRecv,
      EnterRecv, GiveResult, Release, DeleteConnections, DeleteContext,
      StopWorker, JoinWorker, Environment, Type, CloseStdin, Terminate, Talk,
      Flush, vars, stopVars, raceVars
  <2> QED BY <1>2, <2>1 DEF Quiet
<1>3. CASE quiet
  <2>1. CASE Wait("main") \/ Wait("sdp")
    <3>1. CASE PollEvents("sdp")
      <4>1. pc["main"] \in {"join", "done"}
        BY <1>3, <3>1, BothThreads DEF PollEvents, Pending, Quiet
      <4> QED BY <1>3, <3>1, <4>1, BothThreads DEF PollEvents, Goto, ctxVars,
          reqVars, stopVars, memVars, raceVars, Quiet, Shape, Types
    <3>2. CASE DispatchPipe("sdp")
      BY <1>3, <3>2, BothThreads DEF DispatchPipe, Goto, reqVars,
        stopVars, memVars, raceVars, Quiet, Shape, Types
    <3>3. CASE Finish("sdp")
      <4>1. Timers("sdp") = {}
        <5>1. ToSet(<<>>) = {}
          BY DEF ToSet
        <5> QED BY <1>3, <5>1 DEF Timers, Quiet
      <4>2. UNCHANGED touched
        BY <3>3, <4>1 DEF Finish, Use
      <4> QED BY <1>3, <3>3, <4>2, BothThreads DEF Finish, Goto, reqVars,
          stopVars, Quiet, Shape, Types
    <3>4. ~Wait("main")
      BY <1>3 DEF Wait, Start, ReadHead, PollEvents, PollTimeout, FireHead,
        Unlink, DispatchPipe, Finish, Quiet, EndPcs
    <3>5. Wait("sdp") => PollEvents("sdp") \/ DispatchPipe("sdp") \/ Finish("sdp")
      BY <1>3 DEF Wait, Start, ReadHead, PollTimeout, FireHead, Unlink, Quiet
    <3> QED BY <2>1, <3>1, <3>2, <3>3, <3>4, <3>5
  <2>2. CASE LookTwice("main") \/ WakeOther("main")
    <3>1. exiting /\ sdp_stop /\ pc["sdp"] = "poll"
      BY <1>3, <2>2 DEF LookTwice, Look, WakeOther, Quiet, Shape, Control
    <3>2. Context("sdp") \notin freed
      BY <3>1 DEF Shape, Control
    <3>3. UNCHANGED <<touched, given, polltimeout, queue, quiet, sdp_stop,
                      overlapped>>
      BY <2>2, <3>2, BothThreads DEF LookTwice, Look, WakeOther, Use, ctxVars,
        reqVars, stopVars, raceVars
    <3>4. pc'["sdp"] = "poll" /\ pc'["main"] \in {"write", "join"}
      BY <2>2, <3>1, BothThreads, AfterWakePc DEF LookTwice, Look, WakeOther,
        Goto, Shape, Types
    <3>5. pc'["main"] # "join" => UNCHANGED pipe
      BY <2>2, <3>1, BothThreads, AfterWakePc DEF LookTwice, Look, WakeOther,
        Goto, ctxVars, raceVars, Shape, Types
    <3> QED BY <1>3, <2>2, <3>1, <3>3, <3>4, <3>5
            DEF Quiet, EndPcs, LookTwice, Look, WakeOther
  <2>3. CASE /\ HandOver("main") \/ HandOver("sdp")
             /\ ~LookTwice("main") /\ ~WakeOther("main")
    BY <1>3, <2>3 DEF HandOver, ReadFirst, Link, LookOnce, LookTwice, Look,
      WakeOther, Quiet, EndPcs
  <2>4. CASE SdpCheck \/ SdpClose \/ JoinWorker
    BY <1>3, <2>4, BothThreads DEF SdpCheck, SdpClose, JoinWorker, Goto,
      ctxVars, reqVars, stopVars, memVars, raceVars, Quiet, Shape, Types,
      Control, EndPcs
  <2>5. CASE DeleteConnections \/ DeleteContext \/ StopWorker
    BY <1>3, <2>5, BothThreads DEF DeleteConnections, DeleteContext, StopWorker,
      Goto, ctxVars, reqVars, stopVars, memVars, raceVars, Quiet, Shape, Types,
      EndPcs
  <2>6. CASE \/ ThreadStart \/ EndSession \/ SetFree \/ EnterMain \/ ReadStdin
             \/ ReadSignal \/ LeaveRecv \/ (\E r \in Reqs : EnterRecv(r))
             \/ GiveResult \/ Release \/ MainCheck
    BY <1>3, <2>6 DEF ThreadStart, EndSession, SetFree, EnterMain, ReadStdin,
      ReadSignal, LeaveRecv, EnterRecv, GiveResult, Release, MainCheck, Quiet,
      EndPcs
  <2>7. CASE Environment \/ (\E t \in Threads : Flush(t)) \/ UNCHANGED vars
    BY <1>3, <2>7 DEF Environment, Type, CloseStdin, Terminate, Talk, Flush,
      vars, loopVars, ctxVars, reqVars, stopVars, memVars, raceVars, Quiet
  <2> QED BY <2>1, <2>2, <2>3, <2>4, <2>5, <2>6, <2>7, NextCases, BothThreads
<1> QED BY <1>1, <1>2, <1>3

-----------------------------------------------------------------------------
(* The theorems.                                                           *)

MemoryInv == Shape /\ OneByOne /\ Memory /\ ResultsFreed /\ Quiet

LEMMA InitMemoryInv == Init => MemoryInv
<1> SUFFICES ASSUME Init PROVE MemoryInv
  OBVIOUS
<1>1. Shape
  BY InitShape
<1>2. OneByOne
  <2> DEFINE st == [r \in Reqs |-> 0]
  <2>1. st \in [Reqs -> 0..6] /\ \A r \in Reqs : st[r] = 0
    OBVIOUS
  <2> HIDE DEF st
  <2>2. ToSet(<<>>) = {} /\ IsInjective(<<>>)
    BY DEF ToSet, IsInjective
  <2>3. Stages(st)
    BY <2>1, <2>2, BothThreads DEF Init, Stages, Searching
  <2>4. Deletes(st)
    BY <2>1, BothThreads DEF Init, Deletes, Late
  <2>5. Heads
    BY DEF Init, Heads
  <2> QED BY <2>3, <2>4, <2>5 DEF OneByOne
<1>3. Memory /\ ResultsFreed /\ Quiet
  BY DEF Init, Memory, FreedBeforeEnd, ResultsFreed, Quiet
<1> QED BY <1>1, <1>2, <1>3 DEF MemoryInv

LEMMA MemoryInvStep == MemoryInv /\ [Next]_vars => MemoryInv'
<1> SUFFICES ASSUME MemoryInv, [Next]_vars PROVE MemoryInv'
  OBVIOUS
<1>1. Shape /\ Shape' /\ OneByOne /\ Memory /\ ResultsFreed /\ Quiet
  BY ShapeStep DEF MemoryInv
<1> QED BY <1>1, OneByOneStep, MemoryStep, ResultsStep, QuietStep DEF MemoryInv

\* Types of both threads' state, for any number of requests, and whichever way
\* stores are seen.
THEOREM SdpFindTypeCorrect == Spec => []TypeOK
<1>1. MemoryInv => TypeOK
  BY ShapeTypes DEF MemoryInv
<1> QED BY <1>1, InitMemoryInv, MemoryInvStep, PTL DEF Spec

\* Until the program ends, it takes one of two races to use freed memory: both
\* threads changing one list at once, or the main thread firing a result while
\* the worker is still about to set its delete function.
THEOREM FreedMemoryTakesARace == Spec => []UseAfterFreeTakesARace
<1>1. MemoryInv => UseAfterFreeTakesARace
  BY MemorySafe DEF MemoryInv
<1> QED BY <1>1, InitMemoryInv, MemoryInvStep, PTL DEF Spec

\* A result whose handler has returned is freed, but for those same races.
THEOREM ResultsAreFreed == Spec => []ResultsFreed
<1>1. MemoryInv => ResultsFreed
  BY DEF MemoryInv
<1> QED BY <1>1, InitMemoryInv, MemoryInvStep, PTL DEF Spec

\* When the worker sleeps with nothing to do as the main loop ends, and no list
\* was changed by both threads at once, the end of the process uses nothing it
\* has freed.
THEOREM QuietStopClean == Spec => []QuietStopIsClean
<1>1. MemoryInv => QuietStopIsClean
  BY DEF MemoryInv, Quiet, QuietStopIsClean
<1> QED BY <1>1, InitMemoryInv, MemoryInvStep, PTL DEF Spec
=============================================================================
