-------------------------------- MODULE Engine --------------------------------
(***************************************************************************)
(* The main thread of battery_level_engine as a program: the commands of   *)
(* stdin, the stop signals, the connections and the hands-free dialogue    *)
(* with each device.  One action is one handler, but for the socket        *)
(* handler and ble_connect_to(), which are cut where they block.           *)
(*                                                                         *)
(* The event loop is what IOContext shows it to be, seen without time: a   *)
(* wait returns every descriptor that is ready, or, if none is, runs one   *)
(* timer.  The worker thread is what SdpFind shows it to be: a search      *)
(* ends, and its result is a timer of this thread.                         *)
(*                                                                         *)
(* A device sends a command and waits for the answer before the next, as   *)
(* the hands-free profile demands of it, each in one RFCOMM frame: a       *)
(* recv() returns one command.                                             *)
(***************************************************************************)
EXTENDS Integers, Sequences, FiniteSets, SequencesExt

CONSTANTS
  Addrs,        \* addresses of devices
  Channels,     \* what an SDP record may give as the RFCOMM channel
  Typed,        \* command lines the user may type
  Msgs,         \* what a device may send
  Coalesce,     \* stdin is a pipe, and a read takes all that is there
  IntMax,       \* the largest int
  MsPerSec,     \* 1000, smaller where IntMax is
  MaxTyped,     \* bound: command lines typed
  MaxOut        \* lines the pipe of stdout holds

(* A command line is the operation it ends in and the seconds of the       *)
(* "timeout" prefixes before it.  A garbled one is a timeout whose number  *)
(* or whose command is missing.                                            *)
Ops == {"stop", "connect-to", "list-active-connections", "unknown", "garbled"}
Commands == [after : Seq(Int), op : Ops, addr : Addrs]

(* What a device sends: AT+IPHONEACCEV with its key-value pairs, a key     *)
(* being its digits, AT+APLSIRI?, or a command that is only answered.      *)
Pairs == [key : Seq(0..9) \ {<<>>}, value : 0..9]
Plain == {"BRSF", "CIND=", "CIND?", "XAPL", "other"}
Messages == [kind : {"IPHONEACCEV", "APLSIRI"} \cup Plain, pairs : Seq(Pairs)]
NoMsg == [kind |-> "none", pairs |-> <<>>]

RFCOMM_CHANNEL_MAX == 30

ASSUME EngineAssumption ==
  /\ Channels \subseteq 1..RFCOMM_CHANNEL_MAX
  /\ Typed \subseteq Commands
  /\ Msgs \subseteq Messages
  /\ Coalesce \in BOOLEAN
  /\ IntMax \in Nat \ {0} /\ MsPerSec \in Nat \ {0}
  /\ MaxTyped \in Nat /\ MaxOut \in Nat \ {0}

VARIABLES
  pc,           \* where the main thread is
  batch,        \* descriptors epoll_wait() returned, not yet dispatched
  cur,          \* the connection it is busy with
  chan,         \* the channel argument of ble_connect_to()
  want,         \* history: the channel the search had found
  heard,        \* the command recv() returned and nothing has answered yet
  level,        \* the level about to be printed
  conns,        \* the connections in list order, each with its ble_t
  searches,     \* connections the worker searches a channel for
  found,        \* armed timers that carry a result: <<connection, channel>>
  later,        \* armed timers that carry a command
  stdin,        \* lines typed and not yet read
  eof,          \* stdin has reached end of file
  signal,       \* the stop signal: "none", "pending" or "read"
  stop,         \* ctx_data.stop
  typed,        \* history: lines typed
  due,          \* history: commands a timer has run
  wire,         \* what each device has sent and recv() has not returned
  awaiting,     \* connections whose device waits for an answer
  gone,         \* connections whose device has hung up
  noticed,      \* those where recv() has returned the error
  owed,         \* history: levels sent, whose line nobody has read yet
  stdio,        \* lines printed and not flushed
  out           \* lines in the pipe of stdout

loopVars == <<pc, batch, cur>>
dialVars == <<chan, want>>
taskVars == <<conns, searches, found, later, stop, due>>
userVars == <<stdin, eof, signal, typed>>
linkVars == <<wire, awaiting, gone, noticed, owed>>
outVars  == <<stdio, out>>
saidVars == <<heard, level>>
vars == <<loopVars, dialVars, saidVars, taskVars, userVars, linkVars, outVars>>

Ids == 1..MaxTyped     \* there are never more connections than commands
Over == pc \in {"ended", "failed", "crashed"}

\* A mutant: the value as it is.
LevelOfZero(value) == value * 10
\* Line 296.
LevelOf(value) == (value + 1) * 10

-----------------------------------------------------------------------------
(* Commands.                                                               *)

\* cm_add_connection(): at the end of the circular list.  What else came in
\* the same read is part of the address text, of which str2ba() takes the
\* first characters only.
NewConnection(c, rest) ==
  [addr |-> c.addr, rest |-> rest, is_connected |-> FALSE, open |-> FALSE,
   polled |-> FALSE, ready |-> FALSE]

\* x as an int of the machine.
AsInt(x) == ((x + IntMax + 1) % (2 * (IntMax + 1))) - (IntMax + 1)

\* The operations, where l is what is left of the timers with a command.
Timeout(c, l) ==
  /\ c.after # <<>>
  /\ IF AsInt(Head(c.after) * MsPerSec) < 0
     THEN pc' = "crashed" /\ later' = l   \* a write through NULL, line 139
     ELSE /\ later' = Append(l, [c EXCEPT !.after = Tail(@)])
          /\ pc' = "dispatch"
  /\ UNCHANGED <<conns, searches, stop, outVars>>

\* timeout or str are uninitialized: any delay, and any text once typed.
Garbled(c, l) ==
  /\ c.after = <<>> /\ c.op = "garbled"
  /\ \/ pc' = "crashed" /\ later' = l
     \/ /\ \E d \in Typed : later' = Append(l, d)
        /\ pc' = "dispatch"
  /\ UNCHANGED <<conns, searches, stop, outVars>>

\* A mutant: the name of a command is found anywhere in the line.
StopAnywhere(c, l) ==
  /\ c.op = "stop"
  /\ stop' = TRUE
  /\ pc' = "dispatch" /\ later' = l
  /\ UNCHANGED <<conns, searches, outVars>>

Stop(c, l) ==
  /\ c.after = <<>> /\ c.op = "stop"
  /\ stop' = TRUE
  /\ pc' = "dispatch" /\ later' = l
  /\ UNCHANGED <<conns, searches, outVars>>

ConnectTo(c, rest, l) ==
  /\ c.after = <<>> /\ c.op = "connect-to"
  /\ conns' = Append(conns, NewConnection(c, rest))
  /\ searches' = searches \cup {Len(conns) + 1}
  /\ pc' = "dispatch" /\ later' = l
  /\ UNCHANGED <<stop, outVars>>

\* Lines that are not flushed stay in the buffer of stdio.
List(c, l) ==
  /\ c.after = <<>> /\ c.op = "list-active-connections"
  /\ stdio' = Append(stdio, [devices |-> Len(conns)])
  /\ pc' = "dispatch" /\ later' = l
  /\ UNCHANGED <<conns, searches, stop, out>>

Unknown(c, l) ==
  /\ c.after = <<>> /\ c.op = "unknown"
  /\ pc' = "dispatch" /\ later' = l
  /\ UNCHANGED <<conns, searches, stop, outVars>>

\* exec_command(): by the first word of the line.
Exec(c, rest, l) ==
  \/ Timeout(c, l) \/ Garbled(c, l) \/ Stop(c, l)
  \/ ConnectTo(c, rest, l) \/ List(c, l) \/ Unknown(c, l)

-----------------------------------------------------------------------------
(* The loop of main().                                                     *)

\* The descriptors in the epoll set.
Stdin     == <<"stdin", 0>>
SignalFd  == <<"signal", 0>>
Socket(i) == <<"socket", i>>

\* What epoll has to report.  A socket whose device has hung up is ready.
Pending ==
  (IF stdin # <<>> \/ eof THEN {Stdin} ELSE {}) \cup
  (IF signal = "pending" THEN {SignalFd} ELSE {}) \cup
  {Socket(i) : i \in {j \in DOMAIN conns :
                        conns[j].polled /\ (wire[j] # NoMsg \/ j \in gone)}}

PollEvents ==
  /\ pc = "wait" /\ Pending # {}
  /\ batch' = Pending
  /\ pc' = "dispatch"
  /\ UNCHANGED <<cur, dialVars, saidVars, taskVars, userVars, linkVars, outVars>>

\* on_stdin_data_pending(): one command per read, whatever was read.
ReadStdin ==
  /\ pc = "dispatch" /\ Stdin \in batch
  /\ batch' = batch \ {Stdin}
  /\ IF stdin = <<>>
     THEN UNCHANGED <<pc, conns, searches, later, stop, stdin, outVars>>
     ELSE /\ stdin' = IF Coalesce THEN <<>> ELSE Tail(stdin)
          /\ Exec(Head(stdin), IF Coalesce THEN Tail(stdin) ELSE <<>>, later)
  /\ UNCHANGED <<cur, dialVars, saidVars, found, due, eof, signal, typed,
                 linkVars>>

\* A mutant: the handler is given a copy of the context.
ReadSignalInCopy ==
  /\ pc = "dispatch" /\ SignalFd \in batch
  /\ batch' = batch \ {SignalFd}
  /\ signal' = "read"
  /\ UNCHANGED <<pc, cur, dialVars, saidVars, taskVars, stdin, eof, typed,
                 linkVars, outVars>>

\* _internal_on_sig_recvd(), then _signal_handler().
ReadSignal ==
  /\ pc = "dispatch" /\ SignalFd \in batch
  /\ batch' = batch \ {SignalFd}
  /\ signal' = "read" /\ stop' = TRUE
  /\ UNCHANGED <<pc, cur, dialVars, saidVars, conns, searches, found, later, due,
                 stdin, eof, typed, linkVars, outVars>>

\* A timer that carries a command: exec_command() on the copy of the text.
FireCommand ==
  /\ pc = "wait" /\ Pending = {}
  /\ \E k \in DOMAIN later :
       /\ due' = due \cup {later[k]}
       /\ Exec(later[k], <<>>, RemoveAt(later, k))
  /\ UNCHANGED <<batch, cur, dialVars, saidVars, found, userVars, linkVars>>

\* The end of a pass: stop is looked at once all of the batch is handled.
Pass ==
  /\ pc = "dispatch" /\ batch = {}
  /\ pc' = IF stop THEN "closing" ELSE "wait"
  /\ UNCHANGED <<batch, cur, dialVars, saidVars, taskVars, userVars, linkVars,
                 outVars>>

\* exit(EXIT_FAILURE), which flushes stdio.
ExitFailure ==
  /\ pc' = "failed"
  /\ out' = out \o stdio /\ stdio' = <<>>

\* A mutant: the socket goes with the handle.
DeleteWithHandle(b) ==
  [b EXCEPT !.polled = FALSE, !.open = @ /\ ~b.polled]
\* delete_battery_level_engine(): the handle if there is one, and the socket
\* if there was a connection.
DeleteEngine(b) ==
  [b EXCEPT !.polled = FALSE, !.open = @ /\ ~b.is_connected]

\* cm_delete(), signal_delete(), delete_io_context() and the return of main().
Teardown ==
  /\ pc = "closing"
  /\ conns' = [i \in DOMAIN conns |-> DeleteEngine(conns[i])]
  /\ found' = {} /\ later' = <<>>
  /\ pc' = "ended"
  /\ out' = out \o stdio /\ stdio' = <<>>
  /\ UNCHANGED <<batch, cur, dialVars, saidVars, searches, stop, due, userVars,
                 linkVars>>

-----------------------------------------------------------------------------
(* Connecting to a device.                                                 *)

\* The search has ended, with a channel or without (0).
SearchEnds ==
  \E i \in searches, ch \in Channels \cup {0} :
    /\ ~Over
    /\ searches' = searches \ {i}
    /\ found' = found \cup {<<i, ch>>}
    /\ UNCHANGED <<loopVars, dialVars, saidVars, conns, later, stop, due,
                   userVars, linkVars, outVars>>

\* _on_ble_rfcomm_channel_found(), called by the timer with the result.
FireResult ==
  /\ pc = "wait" /\ Pending = {}
  /\ \E f \in found :
       /\ found' = found \ {f}
       /\ cur' = f[1]
       /\ IF f[2] = 0
          THEN ExitFailure /\ UNCHANGED dialVars
          ELSE /\ pc' = "connect" /\ chan' = f[2] /\ want' = f[2]
               /\ UNCHANGED outVars
  /\ UNCHANGED <<batch, saidVars, conns, searches, later, stop, due, userVars,
                 linkVars>>

\* A mutant: off by one.
FirstTryBelow == chan < RFCOMM_CHANNEL_MAX
\* ble_connect_to(): a channel above the largest says that this is the retry.
FirstTry == chan <= RFCOMM_CHANNEL_MAX
Channel == IF FirstTry THEN chan ELSE chan - RFCOMM_CHANNEL_MAX

\* The kernel refuses a second connection to the channel of a device.
Busy == \E j \in DOMAIN conns :
          conns[j].open /\ j \notin gone /\ conns[j].addr = conns[cur].addr

\* connect() succeeds.  That ioc_add_fd() fails goes unnoticed.
Connect ==
  /\ pc = "connect" /\ ~Busy
  /\ \E polled \in BOOLEAN :
       conns' = [conns EXCEPT ![cur].open = TRUE, ![cur].polled = polled,
                              ![cur].is_connected = TRUE]
  /\ pc' = "dispatch" /\ cur' = 0 /\ chan' = 0 /\ want' = 0
  /\ UNCHANGED <<batch, saidVars, searches, found, later, stop, due, userVars,
                 linkVars, outVars>>

Refused ==
  /\ pc = "connect" /\ ~Busy /\ FirstTry
  /\ chan' = Channel + RFCOMM_CHANNEL_MAX
  /\ UNCHANGED <<loopVars, want, saidVars, taskVars, userVars, linkVars, outVars>>

\* Refused for the second time, or another error, of socket() perhaps.
ConnectFails ==
  /\ pc = "connect"
  /\ ExitFailure
  /\ UNCHANGED <<batch, cur, chan, want, saidVars, taskVars, userVars, linkVars>>

-----------------------------------------------------------------------------
(* _ble_on_socket_data_is_pending(): recv() until a level or an error.     *)

EnterRecv ==
  /\ pc = "dispatch"
  /\ \E i \in DOMAIN conns :
       Socket(i) \in batch /\ batch' = batch \ {Socket(i)} /\ cur' = i
  /\ pc' = "recv"
  /\ UNCHANGED <<dialVars, saidVars, taskVars, userVars, linkVars, outVars>>

\* A mutant: the loop over the pairs stops before the last.
BatteryNotLast(m) ==
  {j \in DOMAIN m.pairs : Head(m.pairs[j].key) = 1 /\ j < Len(m.pairs)}
\* The pairs of an AT+IPHONEACCEV taken for the battery level: the code looks
\* at the first digit of the key.
Battery(m) == {j \in DOMAIN m.pairs : Head(m.pairs[j].key) = 1}

\* recv() returns a command.
Recv ==
  /\ pc = "recv" /\ wire[cur] # NoMsg
  /\ wire' = [wire EXCEPT ![cur] = NoMsg]
  /\ heard' = wire[cur] /\ pc' = "answer"
  /\ UNCHANGED <<batch, cur, dialVars, level, taskVars, userVars, awaiting,
                 gone, noticed, owed, outVars>>

\* send(), which fails when the device has hung up; nobody looks.
Send == awaiting' = IF cur \in gone THEN awaiting ELSE awaiting \ {cur}

\* The branches that answer and do nothing else: lines 265 to 272 and 303.
Acknowledge ==
  /\ pc = "answer" /\ heard.kind \in Plain
  /\ Send
  /\ heard' = NoMsg /\ pc' = "recv"
  /\ UNCHANGED <<batch, cur, dialVars, level, taskVars, userVars, wire, gone,
                 noticed, owed, outVars>>

\* The end of the handshake.  No handler is registered for BLE_READY.
AnswerSiri ==
  /\ pc = "answer" /\ heard.kind = "APLSIRI"
  /\ Send
  /\ conns' = [conns EXCEPT ![cur].ready = TRUE]
  /\ heard' = NoMsg /\ pc' = "recv"
  /\ UNCHANGED <<batch, cur, dialVars, level, searches, found, later, stop,
                 due, userVars, wire, gone, noticed, owed, outVars>>

\* Lines 280 to 301: only a battery level ends the loop.
ReadPairs ==
  IF Battery(heard) # {}
  THEN pc' = "report" /\ level' = LevelOf(heard.pairs[Min(Battery(heard))].value)
  ELSE pc' = "recv" /\ UNCHANGED level

\* A mutant: without a comma the loop goes on before the "OK" is sent.
AnswerAccevUnlessEmpty ==
  /\ pc = "answer" /\ heard.kind = "IPHONEACCEV"
  /\ IF heard.pairs = <<>> THEN UNCHANGED awaiting ELSE Send
  /\ ReadPairs
  /\ heard' = NoMsg
  /\ UNCHANGED <<batch, cur, dialVars, taskVars, userVars, wire, gone,
                 noticed, owed, outVars>>

AnswerAccev ==
  /\ pc = "answer" /\ heard.kind = "IPHONEACCEV"
  /\ Send
  /\ ReadPairs
  /\ heard' = NoMsg
  /\ UNCHANGED <<batch, cur, dialVars, taskVars, userVars, wire, gone,
                 noticed, owed, outVars>>

\* recv() returns -1.  The socket stays registered, and a further recv()
\* either blocks or returns 0 for ever: there is no step for it.
RecvError ==
  /\ pc = "recv" /\ wire[cur] = NoMsg
  /\ cur \in gone \ noticed
  /\ noticed' = noticed \cup {cur}
  /\ pc' = "dispatch" /\ cur' = 0
  /\ UNCHANGED <<batch, dialVars, saidVars, taskVars, userVars, wire,
                 awaiting, gone, owed, outVars>>

\* _on_battery_level_change(): printf() and fflush(), which wait for room.
Report ==
  /\ pc = "report" /\ Len(out) < MaxOut
  /\ out' = out \o stdio \o <<[connection |-> cur, level |-> level]>>
  /\ stdio' = <<>>
  /\ pc' = "dispatch" /\ cur' = 0 /\ level' = 0
  /\ UNCHANGED <<batch, dialVars, heard, taskVars, userVars, linkVars>>

-----------------------------------------------------------------------------
(* The user, the devices and the reader of stdout.                         *)

Type ==
  \E c \in Typed :
    /\ Len(typed) < MaxTyped /\ ~eof /\ ~Over
    /\ typed' = Append(typed, c) /\ stdin' = Append(stdin, c)
    /\ UNCHANGED <<loopVars, dialVars, saidVars, taskVars, eof, signal, linkVars,
                   outVars>>

CloseStdin ==
  /\ ~eof /\ ~Over
  /\ eof' = TRUE
  /\ UNCHANGED <<loopVars, dialVars, saidVars, taskVars, stdin, signal, typed,
                 linkVars, outVars>>

Terminate ==
  /\ signal = "none" /\ ~Over
  /\ signal' = "pending"
  /\ UNCHANGED <<loopVars, dialVars, saidVars, taskVars, stdin, eof, typed,
                 linkVars, outVars>>

\* The level a device tells, in percent, if it sends key 1: 0 to 9 stand for
\* 10 to 100.
Told(m) ==
  {10 + 10 * p.value : p \in {q \in Range(m.pairs) : q.key = <<1>>}}
TheLevel(m) == CHOOSE l \in Told(m) : TRUE

\* The profile knows the keys 1 and 2: none but 1 begins with that digit.
ASSUME OnlyOneBeginsWithOne ==
  \A m \in Msgs : \A p \in Range(m.pairs) : Head(p.key) = 1 => p.key = <<1>>

\* A device does not tell two levels at once.
ASSUME OneLevelAtATime == \A m \in Msgs : \A k, l \in Told(m) : k = l

Talk(i, m) ==
  /\ ~Over /\ i \in DOMAIN conns /\ conns[i].open
  /\ i \notin awaiting \cup gone /\ wire[i] = NoMsg
  /\ wire' = [wire EXCEPT ![i] = m]
  /\ awaiting' = awaiting \cup {i}
  /\ owed' = IF m.kind = "IPHONEACCEV" /\ Told(m) # {}
             THEN [owed EXCEPT ![i] = Append(@, TheLevel(m))]
             ELSE owed
  /\ UNCHANGED <<loopVars, dialVars, saidVars, taskVars, userVars, gone, noticed,
                 outVars>>

HangUp(i) ==
  /\ ~Over /\ i \in DOMAIN conns /\ conns[i].open /\ i \notin gone
  /\ gone' = gone \cup {i}
  /\ UNCHANGED <<loopVars, dialVars, saidVars, taskVars, userVars, wire,
                 awaiting, noticed, owed, outVars>>

ReadOut ==
  /\ out # <<>>
  /\ out' = Tail(out)
  /\ owed' = IF "level" \in DOMAIN Head(out)
             THEN [owed EXCEPT ![Head(out).connection] = SubSeq(@, 2, Len(@))]
             ELSE owed
  /\ UNCHANGED <<loopVars, dialVars, saidVars, taskVars, userVars, wire,
                 awaiting, gone, noticed, stdio>>

-----------------------------------------------------------------------------
Main ==
  \/ PollEvents \/ ReadStdin \/ ReadSignal \/ FireCommand \/ Pass \/ Teardown
  \/ FireResult \/ Connect \/ Refused \/ ConnectFails
  \/ EnterRecv \/ Recv \/ Acknowledge \/ AnswerSiri \/ AnswerAccev
  \/ RecvError \/ Report

Devices == \E i \in Ids : HangUp(i) \/ \E m \in Msgs : Talk(i, m)

Next == Main \/ SearchEnds \/ Type \/ CloseStdin \/ Terminate \/ Devices \/ ReadOut

Init ==
  /\ pc = "wait" /\ batch = {} /\ cur = 0
  /\ chan = 0 /\ want = 0 /\ heard = NoMsg /\ level = 0
  /\ conns = <<>> /\ searches = {} /\ found = {} /\ later = <<>>
  /\ stop = FALSE /\ due = {}
  /\ stdin = <<>> /\ eof = FALSE /\ signal = "none" /\ typed = <<>>
  /\ wire = [i \in Ids |-> NoMsg] /\ awaiting = {} /\ gone = {}
  /\ noticed = {} /\ owed = [i \in Ids |-> <<>>]
  /\ stdio = <<>> /\ out = <<>>

Spec == Init /\ [][Next]_vars

\* The main thread runs, searches end, and the reader of stdout reads.  No
\* device has to say anything.
Fairness == WF_vars(Main) /\ WF_vars(SearchEnds) /\ WF_vars(ReadOut)

FairSpec == Spec /\ Fairness

-----------------------------------------------------------------------------
(* Properties.                                                             *)

Connections ==
  [addr : Addrs, rest : Seq(Commands), is_connected : BOOLEAN, open : BOOLEAN,
   polled : BOOLEAN, ready : BOOLEAN]
Levels == {10 * n : n \in 1..10}
Lines == [devices : Nat] \cup [connection : Ids, level : Levels]

\* Where the main thread is, and with what.
LoopTyped ==
  /\ pc \in {"wait", "dispatch", "connect", "recv", "answer", "report",
            "closing", "ended", "failed", "crashed"}
  /\ batch \subseteq {Stdin, SignalFd} \cup {Socket(i) : i \in DOMAIN conns}
  /\ cur \in {0} \cup DOMAIN conns
  /\ pc \in {"connect", "recv", "answer", "report"} => cur # 0
  /\ pc = "answer" => heard \in Msgs
  /\ chan \in 0..(2 * RFCOMM_CHANNEL_MAX) /\ want \in Channels \cup {0}
  /\ level \in Levels \cup {0}
  /\ pc = "report" => level # 0

\* What it has to do.  A line typed makes at most one connection, whatever
\* timers it goes through.
TasksTyped ==
  /\ conns \in Seq(Connections)
  /\ searches \subseteq DOMAIN conns
  /\ found \subseteq (DOMAIN conns) \X (Channels \cup {0})
  /\ later \in Seq(Commands) /\ stdin \in Seq(Commands)
  /\ typed \in Seq(Commands) /\ due \subseteq Commands
  /\ Len(conns) + Len(later) + Len(stdin) <= Len(typed)
  /\ Len(typed) <= MaxTyped
  /\ signal \in {"none", "pending", "read"}
  /\ stop \in BOOLEAN /\ eof \in BOOLEAN

LinksTyped ==
  /\ wire \in [Ids -> Msgs \cup {NoMsg}] /\ owed \in [Ids -> Seq(Levels)]
  /\ awaiting \subseteq Ids /\ gone \subseteq Ids /\ noticed \subseteq gone
  /\ stdio \in Seq(Lines) /\ out \in Seq(Lines)

\* The type invariant: among it, that there is a connection at hand whenever
\* the main thread is busy with one, and that levels are 10, 20, ... 100.
TypeOK == LoopTyped /\ TasksTyped /\ LinksTyped

\* The lines of s that tell a level of connection i, and that q is what they
\* tell, in their order.
TellsOf(s, i) ==
  {k \in DOMAIN s : "level" \in DOMAIN s[k] /\ s[k].connection = i}
Shows(s, i, q) ==
  \E at \in [DOMAIN q -> TellsOf(s, i)] :
    /\ \A j, k \in DOMAIN q : j < k => at[j] < at[k]
    /\ \A k \in TellsOf(s, i) : \E j \in DOMAIN q : at[j] = k
    /\ \A j \in DOMAIN q : s[at[j]].level = q[j]

\* What is on its way to the reader of stdout behind the lines in the pipe:
\* a level about to be printed or in a command at hand, and one in the socket.
Reports == {m \in Msgs : m.kind = "IPHONEACCEV" /\ Told(m) # {}}
LevelLine(i, l) == [connection |-> i, level |-> l]
Coming(i) ==
  (IF pc = "report" /\ cur = i THEN <<LevelLine(i, level)>>
   ELSE IF pc = "answer" /\ cur = i /\ heard \in Reports
        THEN <<LevelLine(i, TheLevel(heard))>> ELSE <<>>) \o
  (IF wire[i] \in Reports THEN <<LevelLine(i, TheLevel(wire[i]))>> ELSE <<>>)

\* No level is lost, invented, repeated, put in another order or said to be
\* another device's, from the device to the reader of stdout, however the
\* dialogues and the commands interleave.
LevelsConserved == \A i \in Ids : Shows(out \o Coming(i), i, owed[i])

\* The process ends for a reason only: in order, because the stop signal was
\* read or a "stop" was run, typed as such or when the time it was put off
\* for was over; with EXIT_FAILURE, because a device could not be reached;
\* and by a fault, because of a "timeout" that is incomplete or out of range.
OutOfRange(c) ==
  \/ c.op = "garbled"
  \/ \E k \in DOMAIN c.after :
       c.after[k] < 0 \/ c.after[k] * MsPerSec > IntMax

EndHasCause ==
  /\ pc \in {"closing", "ended"} =>
       \/ signal = "read"
       \/ \E c \in Range(typed) \cup due : c.op = "stop" /\ c.after = <<>>
  /\ pc = "failed" => \E b \in Range(conns) : ~b.is_connected
  /\ pc = "crashed" => \E c \in Range(typed) : OutOfRange(c)

\* Every connect() is on the channel the search has found, also the retry,
\* which is told from the first try by a number above the largest channel.
RetryOnSameChannel == pc = "connect" => Channel = want

\* A process that ends in order has closed every socket, also of a
\* connection that epoll refused, and left no timer and no line behind.
EndIsClean ==
  pc = "ended" => /\ \A b \in Range(conns) : ~b.open /\ ~b.polled
                  /\ found = {} /\ later = <<>> /\ stdio = <<>>

\* The main thread is in the loop of recv() calls with a device, which only a
\* level that the device tells, or its first hanging up, ends.
InDialogue == pc \in {"recv", "answer"}

\* A stop that is typed, signalled or decided ends the process, unless the
\* dialogue with one device never comes to an end.
StopWanted ==
  \/ stop \/ signal = "pending"
  \/ \E k \in DOMAIN stdin : stdin[k].op = "stop" /\ stdin[k].after = <<>>
StopEnds == (StopWanted ~> Over) \/ <>[]InDialogue

\* A command of a device whose socket is watched is answered, unless the
\* dialogue with another one never comes to an end: the device and the handler
\* do not wait for each other.
CommandsAnswered ==
  \A i \in Ids :
    \/ (i \in awaiting /\ conns[i].polled) ~> (i \notin awaiting \/ i \in gone \/ Over)
    \/ <>[](InDialogue /\ cur # i)

=============================================================================
