--------------------------- MODULE EngineEndProofs ---------------------------
(***************************************************************************)
(* Why the process of Engine ends, for all devices, command lines, and     *)
(* sizes of an int: a proof of EndHasCause.                                *)
(***************************************************************************)
EXTENDS EngineProofs

-----------------------------------------------------------------------------
(* The commands, from the line typed to what they do.                      *)

\* Somebody typed a timeout that is incomplete or out of range.
Fault == \E k \in DOMAIN typed : OutOfRange(typed[k])

StopCause ==
  \/ signal = "read"
  \/ \E k \in DOMAIN typed : typed[k].op = "stop" /\ typed[k].after = <<>>
  \/ \E c \in due : c.op = "stop" /\ c.after = <<>>

CauseInv ==
  /\ \A k \in DOMAIN stdin : \E j \in DOMAIN typed : stdin[k] = typed[j]
  /\ \A k \in DOMAIN later : OutOfRange(later[k]) => Fault
  /\ stop => StopCause
  /\ pc \in {"closing", "ended"} => stop
  /\ pc = "crashed" => Fault

\* An int that is in range is itself.
LEMMA InRange ==
  ASSUME EngineAssumption, NEW x \in Int, 0 <= x, x <= IntMax
  PROVE  AsInt(x) = x
<1> DEFINE n == IntMax + 1
<1>1. n \in Nat /\ n > 0 /\ x + n \in Nat /\ x + n < 2 * n
  BY DEF EngineAssumption
<1>2. AsInt(x) = ((x + n) % (2 * n)) - n
  BY DEF AsInt
<1> HIDE DEF n
<1>3. (x + n) % (2 * n) = x + n
  BY <1>1
<1> QED BY <1>1, <1>2, <1>3

\* A product that overflows comes from a number that is out of range.
LEMMA Overflow ==
  ASSUME EngineAssumption, NEW c \in Commands, c.after # <<>>,
         AsInt(Head(c.after) * MsPerSec) < 0
  PROVE  OutOfRange(c)
<1>1. c.after \in Seq(Int)
  BY DEF Commands
<1>2. Head(c.after) \in Int /\ Head(c.after) = c.after[1] /\ 1 \in DOMAIN c.after
  BY <1>1
<1> DEFINE h == Head(c.after)
<1>3. h \in Int /\ MsPerSec \in Nat /\ IntMax \in Nat
  BY <1>2 DEF EngineAssumption
<1> HIDE DEF h
<1>4. h * MsPerSec \in Int
  BY <1>3
<1>5. h >= 0 => h * MsPerSec >= 0
  BY <1>3
<1>6. h < 0 \/ h * MsPerSec > IntMax
  <2> SUFFICES ASSUME h >= 0, h * MsPerSec <= IntMax PROVE FALSE
    BY <1>3, <1>4
  <2>1. AsInt(h * MsPerSec) = h * MsPerSec
    BY <1>4, <1>5, InRange
  <2> QED BY <1>4, <1>5, <2>1 DEF h
<1> QED BY <1>2, <1>6 DEF OutOfRange, h

\* What is left of a command is out of range only if the command was.
LEMMA DelayedOutOfRange ==
  ASSUME NEW c \in Commands, c.after # <<>>,
         OutOfRange([c EXCEPT !.after = Tail(@)])
  PROVE  OutOfRange(c)
<1> DEFINE d == [c EXCEPT !.after = Tail(@)]
<1>1. d.op = c.op /\ d.after = Tail(c.after) /\ c.after \in Seq(Int)
  BY DEF Commands
<1> HIDE DEF d
<1>2. \A k \in DOMAIN d.after : k + 1 \in DOMAIN c.after /\ d.after[k] = c.after[k + 1]
  BY <1>1
<1>3. OutOfRange(d)
  BY DEF d
<1> QED BY <1>1, <1>2, <1>3 DEF OutOfRange

\* What exec_command() owes to the command it is given.
LEMMA ExecCause ==
  ASSUME EngineAssumption, NEW c \in Commands, NEW rest, NEW l \in Seq(Commands),
         Exec(c, rest, l),
         OutOfRange(c) => Fault,
         \A k \in DOMAIN l : OutOfRange(l[k]) => Fault
  PROVE  /\ pc' = "dispatch" \/ (pc' = "crashed" /\ Fault)
         /\ \A k \in DOMAIN later' : OutOfRange(later'[k]) => Fault
         /\ stop' = stop \/ (c.op = "stop" /\ c.after = <<>>)
<1>1. ASSUME NEW d, OutOfRange(d) => Fault, later' = Append(l, d)
      PROVE  \A k \in DOMAIN later' : OutOfRange(later'[k]) => Fault
  <2>1. /\ DOMAIN later' = 1..(Len(l) + 1) /\ DOMAIN l = 1..Len(l) /\ Len(l) \in Nat
        /\ \A k \in DOMAIN l : later'[k] = l[k]
        /\ later'[Len(l) + 1] = d
    BY <1>1
  <2>2. \A k \in DOMAIN later' : k \in DOMAIN l \/ k = Len(l) + 1
    BY <2>1
  <2> QED BY <1>1, <2>1, <2>2
<1>2. CASE Timeout(c, l)
  <2>1. CASE AsInt(Head(c.after) * MsPerSec) < 0
    <3>1. Fault
      BY <1>2, <2>1, Overflow DEF Timeout
    <3> QED BY <1>2, <2>1, <3>1 DEF Timeout
  <2>2. CASE ~(AsInt(Head(c.after) * MsPerSec) < 0)
    <3>1. OutOfRange([c EXCEPT !.after = Tail(@)]) => Fault
      BY <1>2, DelayedOutOfRange DEF Timeout
    <3>2. later' = Append(l, [c EXCEPT !.after = Tail(@)])
      BY <1>2, <2>2 DEF Timeout
    <3> QED BY <1>1, <1>2, <2>2, <3>1, <3>2 DEF Timeout
  <2> QED BY <2>1, <2>2
<1>3. CASE Garbled(c, l)
  <2>1. Fault
    BY <1>3 DEF Garbled, OutOfRange
  <2> QED BY <1>3, <2>1 DEF Garbled
<1>4. CASE Stop(c, l) \/ ConnectTo(c, rest, l) \/ List(c, l) \/ Unknown(c, l)
  BY <1>4 DEF Stop, ConnectTo, List, Unknown
<1> QED BY <1>2, <1>3, <1>4 DEF Exec

\* A command read: it was typed.
LEMMA ReadCause == ASSUME TypeOK, CauseInv, ReadStdin PROVE CauseInv'
<1> USE DEF CauseInv
<1>0. /\ EngineAssumption
      /\ stdin \in Seq(Commands) /\ later \in Seq(Commands) /\ typed \in Seq(Commands)
  BY EngineAssumption DEF TypeOK, TasksTyped
<1>1. UNCHANGED <<due, signal, typed>> /\ pc = "dispatch"
  BY DEF ReadStdin
<1>2. (Fault <=> Fault') /\ (StopCause => StopCause')
  BY <1>1 DEF Fault, StopCause
<1>3. CASE stdin = <<>>
  <2>1. UNCHANGED <<pc, later, stop, stdin>>
    BY <1>3 DEF ReadStdin
  <2> QED BY <1>1, <1>2, <2>1
<1>4. CASE stdin # <<>>
  <2> DEFINE c == Head(stdin)
  <2>1. /\ stdin' = <<>> \/ stdin' = Tail(stdin)
        /\ Exec(c, IF Coalesce THEN Tail(stdin) ELSE <<>>, later)
    BY <1>4 DEF ReadStdin
  <2>2. c \in Commands /\ \E j \in DOMAIN typed : c = typed[j]
    <3>1. c = stdin[1] /\ 1 \in DOMAIN stdin /\ c \in Commands
      BY <1>0, <1>4
    <3> QED BY <3>1
  <2>3. OutOfRange(c) => Fault
    BY <2>2 DEF Fault
  <2> HIDE DEF c
  <2>4. /\ pc' = "dispatch" \/ (pc' = "crashed" /\ Fault)
        /\ \A k \in DOMAIN later' : OutOfRange(later'[k]) => Fault
        /\ stop' = stop \/ (c.op = "stop" /\ c.after = <<>>)
    BY <1>0, <2>1, <2>2, <2>3, ExecCause
  <2>5. \A k \in DOMAIN stdin' : \E j \in DOMAIN typed' : stdin'[k] = typed'[j]
    <3>1. CASE stdin' = <<>>
      BY <3>1
    <3>2. CASE stdin' = Tail(stdin)
      <4>1. \A k \in DOMAIN stdin' : k + 1 \in DOMAIN stdin /\ stdin'[k] = stdin[k + 1]
        BY <1>0, <1>4, <3>2
      <4> QED BY <1>1, <4>1
    <3> QED BY <2>1, <3>1, <3>2
  <2>6. stop' => StopCause'
    <3>1. CASE stop' = stop
      BY <1>2, <3>1
    <3>2. CASE c.op = "stop" /\ c.after = <<>>
      BY <1>1, <2>2, <3>2 DEF StopCause
    <3> QED BY <2>4, <3>1, <3>2
  <2> QED BY <1>2, <2>4, <2>5, <2>6
<1> QED BY <1>3, <1>4

\* A command that a timer runs: it is noted in due.
LEMMA FireCause == ASSUME TypeOK, CauseInv, FireCommand PROVE CauseInv'
<1> USE DEF CauseInv
<1>0. EngineAssumption /\ later \in Seq(Commands) /\ DOMAIN later = 1..Len(later)
  BY EngineAssumption DEF TypeOK, TasksTyped
<1>1. UNCHANGED <<stdin, signal, typed>> /\ pc = "wait"
  BY DEF FireCommand, userVars
<1>2. PICK k \in DOMAIN later :
        due' = due \cup {later[k]} /\ Exec(later[k], <<>>, RemoveAt(later, k))
  BY DEF FireCommand
<1>3. (Fault <=> Fault') /\ (StopCause => StopCause')
  BY <1>1, <1>2 DEF Fault, StopCause
<1> DEFINE c == later[k]
           l == RemoveAt(later, k)
<1>4. /\ l \in Seq(Commands) /\ Len(l) = Len(later) - 1
      /\ \A j \in 1..Len(later)-1 : l[j] = IF j < k THEN later[j] ELSE later[j+1]
  <2>1. k \in 1..Len(later) /\ later \in Seq(Commands)
    BY <1>0
  <2> QED BY ONLY <2>1, RemoveAtProperties
<1>5. c \in Commands /\ (OutOfRange(c) => Fault)
  BY <1>0
<1> HIDE DEF l
<1>6. \A j \in DOMAIN l : OutOfRange(l[j]) => Fault
  <2> SUFFICES ASSUME NEW j \in DOMAIN l PROVE OutOfRange(l[j]) => Fault
    OBVIOUS
  <2>1. j \in 1..Len(later)-1 /\ Len(later) \in Nat
    BY <1>0, <1>4
  <2>2. PICK m \in DOMAIN later : l[j] = later[m]
    BY <1>0, <1>4, <2>1
  <2> QED BY <2>2
<1>7. Exec(c, <<>>, l)
  BY <1>2 DEF l
<1> HIDE DEF c
<1>8. /\ pc' = "dispatch" \/ (pc' = "crashed" /\ Fault)
      /\ \A j \in DOMAIN later' : OutOfRange(later'[j]) => Fault
      /\ stop' = stop \/ (c.op = "stop" /\ c.after = <<>>)
  BY <1>0, <1>4, <1>5, <1>6, <1>7, ExecCause
<1>9. stop' => StopCause'
  <2>1. c \in due'
    BY <1>2 DEF c
  <2>2. CASE c.op = "stop" /\ c.after = <<>>
    BY <2>1, <2>2 DEF StopCause
  <2>3. CASE stop' = stop
    BY <1>3, <2>3
  <2> QED BY <1>8, <2>2, <2>3
<1> QED BY <1>1, <1>3, <1>8, <1>9

LEMMA CauseInductive == TypeOK /\ CauseInv /\ [Next]_vars => CauseInv'
<1> SUFFICES ASSUME TypeOK, CauseInv, [Next]_vars PROVE CauseInv'
  OBVIOUS
<1> USE DEF CauseInv
<1>1. CASE ReadStdin
  BY <1>1, ReadCause
<1>2. CASE FireCommand
  BY <1>2, FireCause
<1>3. CASE ReadSignal
  BY <1>3 DEF ReadSignal, StopCause, Fault
<1>4. CASE Type
  <2>1. PICK c \in Typed : typed' = Append(typed, c) /\ stdin' = Append(stdin, c)
    BY <1>4 DEF Type
  <2>2. /\ typed \in Seq(Commands) /\ stdin \in Seq(Commands) /\ c \in Commands
    BY EngineAssumption DEF EngineAssumption, TypeOK, TasksTyped
  <2>3. /\ Len(typed) + 1 \in DOMAIN typed' /\ typed'[Len(typed) + 1] = c
        /\ \A j \in DOMAIN typed : j \in DOMAIN typed' /\ typed'[j] = typed[j]
    BY <2>1, <2>2
  <2>4. \A k \in DOMAIN stdin' :
          stdin'[k] = c \/ (k \in DOMAIN stdin /\ stdin'[k] = stdin[k])
    BY <2>1, <2>2
  <2>5. UNCHANGED <<pc, later, stop, due, signal>>
    BY <1>4 DEF Type, loopVars, taskVars
  <2>6. (Fault => Fault') /\ (StopCause => StopCause')
    BY <2>3, <2>5 DEF Fault, StopCause
  <2>7. \A k \in DOMAIN stdin' : \E j \in DOMAIN typed' : stdin'[k] = typed'[j]
    BY <2>3, <2>4
  <2> QED BY <2>5, <2>6, <2>7
<1>5. CASE Terminate
  BY <1>5 DEF Terminate, StopCause, Fault, loopVars, taskVars
<1>6. CASE Pass
  BY <1>6 DEF Pass, StopCause, Fault, taskVars, userVars
<1>7. CASE Teardown
  BY <1>7 DEF Teardown, StopCause, Fault, userVars
<1>8. CASE /\ UNCHANGED <<later, stop, due, stdin, signal, typed>>
           /\ pc' = pc \/ pc' \notin {"closing", "ended", "crashed"}
  BY <1>8 DEF StopCause, Fault
<1>9. PollEvents \/ FireResult \/ Connect \/ Refused \/ ConnectFails \/ EnterRecv
        \/ Recv \/ Acknowledge \/ AnswerSiri \/ AnswerAccev \/ RecvError \/ Report
      => /\ UNCHANGED <<later, stop, due, stdin, signal, typed>>
         /\ pc' = pc \/ pc' \notin {"closing", "ended", "crashed"}
  BY DEF PollEvents, FireResult, Connect, Refused, ConnectFails, ExitFailure,
         EnterRecv, Recv, Acknowledge, AnswerSiri, AnswerAccev, ReadPairs, RecvError,
         Report, taskVars, userVars, loopVars
<1>10. SearchEnds \/ CloseStdin \/ Devices \/ ReadOut \/ UNCHANGED vars
       => /\ UNCHANGED <<later, stop, due, stdin, signal, typed>>
          /\ pc' = pc \/ pc' \notin {"closing", "ended", "crashed"}
  BY DEF SearchEnds, CloseStdin, Devices, HangUp, Talk, ReadOut, vars, taskVars,
         userVars, loopVars
<1> QED BY <1>1, <1>2, <1>3, <1>4, <1>5, <1>6, <1>7, <1>8, <1>9, <1>10 DEF Next, Main

-----------------------------------------------------------------------------
(* The connections: each is tried once.                                    *)

Trying(i) == pc = "connect" /\ cur = i
Awaited(i) == \E f \in found : f[1] = i

\* A connection is searched for, found, tried or connected, one at a time.
TriedOnce ==
  /\ \A f, g \in found : f[1] = g[1] => f = g
  /\ \A i \in searches : ~Awaited(i) /\ ~Trying(i)
  /\ \A i \in DOMAIN conns : Awaited(i) => ~Trying(i)
  /\ \A i \in DOMAIN conns :
       conns[i].is_connected => i \notin searches /\ ~Awaited(i) /\ ~Trying(i)
  /\ pc = "failed" => \E i \in DOMAIN conns : ~conns[i].is_connected

\* A step that neither begins nor ends an attempt.
LEMMA TriedKept ==
  ASSUME TypeOK, TriedOnce, found' \subseteq found, UNCHANGED searches,
         DOMAIN conns' = DOMAIN conns,
         \A i \in DOMAIN conns : conns'[i].is_connected <=> conns[i].is_connected,
         \/ pc' = pc /\ cur' = cur
         \/ pc' \notin {"connect", "failed"}
  PROVE  TriedOnce'
<1>1. \A i : Awaited(i)' => Awaited(i)
  BY DEF Awaited
<1>2. \A i : Trying(i)' => Trying(i)
  BY DEF Trying
<1>3. pc' = "failed" => \E i \in DOMAIN conns' : ~conns'[i].is_connected
  BY DEF TriedOnce
<1> QED BY <1>1, <1>2, <1>3 DEF TriedOnce

LEMMA TriedByExec ==
  ASSUME TypeOK, TriedOnce, NEW c, NEW rest, NEW l, Exec(c, rest, l), UNCHANGED found
  PROVE  TriedOnce'
<1>0. /\ conns \in Seq(Connections) /\ DOMAIN conns = 1..Len(conns) /\ Len(conns) \in Nat
      /\ searches \subseteq DOMAIN conns /\ \A f \in found : f[1] \in DOMAIN conns
  BY DEF TypeOK, TasksTyped
<1>1. pc' \notin {"connect", "failed"}
  BY DEF Exec, Timeout, Garbled, Stop, ConnectTo, List, Unknown
<1>2. CASE ConnectTo(c, rest, l)
  <2> DEFINE b == NewConnection(c, rest)
             n == Len(conns) + 1
  <2>1. conns' = Append(conns, b) /\ searches' = searches \cup {n} /\ ~b.is_connected
    BY <1>2 DEF ConnectTo, NewConnection
  <2> HIDE DEF b
  <2>2. /\ DOMAIN conns' = DOMAIN conns \cup {n} /\ n \notin DOMAIN conns
        /\ \A i \in DOMAIN conns : conns'[i] = conns[i]
        /\ conns'[n] = b
    BY <1>0, <2>1
  <2> HIDE DEF n
  <2>3. ~Awaited(n) /\ \A i : Awaited(i)' <=> Awaited(i)
    BY <1>0, <2>2 DEF Awaited
  <2>4. \A i : ~Trying(i)'
    BY <1>1 DEF Trying
  <2>5. \A i \in searches' : ~Awaited(i)'
    BY <2>1, <2>3 DEF TriedOnce
  <2>6. \A i \in DOMAIN conns' : conns'[i].is_connected => i \notin searches' /\ ~Awaited(i)'
    BY <1>0, <2>1, <2>2, <2>3 DEF TriedOnce
  <2> QED BY <1>1, <2>4, <2>5, <2>6 DEF TriedOnce
<1>3. CASE UNCHANGED <<conns, searches>>
  BY <1>1, <1>3, TriedKept
<1> QED BY <1>2, <1>3 DEF Exec, Timeout, Garbled, Stop, List, Unknown

LEMMA TriedInductive == TypeOK /\ TriedOnce /\ [Next]_vars => TriedOnce'
<1> SUFFICES ASSUME TypeOK, TriedOnce, [Next]_vars PROVE TriedOnce'
  OBVIOUS
<1>0. /\ conns \in Seq(Connections) /\ searches \subseteq DOMAIN conns
      /\ \A f \in found : f = <<f[1], f[2]>> /\ f[1] \in DOMAIN conns
      /\ \A i \in DOMAIN conns : conns[i] \in Connections
  <2>1. conns \in Seq(Connections) /\ searches \subseteq DOMAIN conns
        /\ found \subseteq (DOMAIN conns) \X (Channels \cup {0})
    BY DEF TypeOK, TasksTyped
  <2> QED BY <2>1
<1>1. CASE ReadStdin
  <2>1. CASE stdin = <<>>
    <3>1. UNCHANGED <<pc, cur, conns, searches, found>>
      BY <1>1, <2>1 DEF ReadStdin
    <3> QED BY <3>1, TriedKept
  <2>2. CASE stdin # <<>>
    BY <1>1, <2>2, TriedByExec DEF ReadStdin
  <2> QED BY <2>1, <2>2
<1>2. CASE FireCommand
  BY <1>2, TriedByExec DEF FireCommand
<1>3. CASE SearchEnds
  <2>1. PICK i \in searches, ch \in Channels \cup {0} :
          searches' = searches \ {i} /\ found' = found \cup {<<i, ch>>}
    BY <1>3 DEF SearchEnds
  <2>2. UNCHANGED <<pc, cur, conns>>
    BY <1>3 DEF SearchEnds, loopVars
  <2>3. /\ \A j : Awaited(j)' <=> (Awaited(j) \/ j = i)
        /\ \A j : Trying(j)' <=> Trying(j)
    <3>1. <<i, ch>> \in found' /\ <<i, ch>>[1] = i
      BY <2>1
    <3>2. \A f \in found' : f \in found \/ f = <<i, ch>>
      BY <2>1
    <3>3. \A f \in found : f \in found'
      BY <2>1
    <3>4. \A j : Awaited(j)' <=> (Awaited(j) \/ j = i)
      BY <3>1, <3>2, <3>3 DEF Awaited
    <3> QED BY <2>2, <3>4 DEF Trying
  <2>4. ~Awaited(i) /\ ~Trying(i) /\ ~conns[i].is_connected
    BY <1>0 DEF TriedOnce
  <2>5. \A f, g \in found' : f[1] = g[1] => f = g
    BY <2>1, <2>4 DEF TriedOnce, Awaited
  <2> QED BY <2>1, <2>2, <2>3, <2>4, <2>5 DEF TriedOnce
<1>4. CASE FireResult
  <2>1. PICK f \in found :
          /\ found' = found \ {f} /\ cur' = f[1]
          /\ pc' = "failed" \/ pc' = "connect"
    BY <1>4 DEF FireResult, ExitFailure
  <2>2. UNCHANGED <<conns, searches>>
    BY <1>4 DEF FireResult
  <2>3. /\ \A j : Awaited(j)' => Awaited(j) /\ j # f[1]
        /\ Awaited(f[1]) /\ \A j : Trying(j)' => j = f[1]
    BY <2>1 DEF Awaited, Trying, TriedOnce
  <2>4. ~conns[f[1]].is_connected /\ f[1] \in DOMAIN conns /\ f[1] \notin searches
    BY <1>0, <2>3 DEF TriedOnce
  <2> QED BY <2>1, <2>2, <2>3, <2>4 DEF TriedOnce
<1>5. CASE Connect
  <2>1. PICK polled \in BOOLEAN :
          conns' = [conns EXCEPT ![cur].open = TRUE, ![cur].polled = polled,
                                 ![cur].is_connected = TRUE]
    BY <1>5 DEF Connect
  <2>2. /\ DOMAIN conns' = DOMAIN conns
        /\ \A i \in DOMAIN conns : i # cur => conns'[i] = conns[i]
    BY <1>0, <2>1
  <2>3. Trying(cur) /\ pc' = "dispatch" /\ UNCHANGED <<searches, found>>
    BY <1>5 DEF Connect, Trying
  <2>4. /\ \A j : Awaited(j)' <=> Awaited(j)
        /\ \A j : ~Trying(j)'
    BY <2>3 DEF Awaited, Trying
  <2>5. cur \notin searches /\ ~Awaited(cur)
    BY <1>0, <2>3 DEF TriedOnce, Awaited
  <2> QED BY <2>2, <2>3, <2>4, <2>5 DEF TriedOnce
<1>6. CASE ConnectFails
  <2>1. Trying(cur) /\ pc' = "failed" /\ UNCHANGED <<conns, searches, found, cur>>
    BY <1>6 DEF ConnectFails, ExitFailure, Trying, taskVars
  <2>2. cur \in DOMAIN conns
    BY <1>6 DEF ConnectFails, TypeOK, LoopTyped
  <2>3. ~conns[cur].is_connected
    BY <2>1, <2>2 DEF TriedOnce
  <2>4. /\ \A j : Awaited(j)' <=> Awaited(j)
        /\ \A j : ~Trying(j)'
    BY <2>1 DEF Awaited, Trying
  <2> QED BY <2>1, <2>2, <2>3, <2>4 DEF TriedOnce
<1>7. CASE AnswerSiri
  <2>1. conns' = [conns EXCEPT ![cur].ready = TRUE]
        /\ UNCHANGED <<searches, found>> /\ pc' \notin {"connect", "failed"}
    BY <1>7 DEF AnswerSiri
  <2>2. DOMAIN conns' = DOMAIN conns
        /\ \A i \in DOMAIN conns : conns'[i].is_connected <=> conns[i].is_connected
    BY <1>0, <2>1 DEF Connections
  <2> QED BY <2>1, <2>2, TriedKept
<1>8. CASE Teardown
  <2>1. conns' = [i \in DOMAIN conns |-> DeleteEngine(conns[i])]
        /\ UNCHANGED searches /\ found' = {} /\ pc' = "ended"
    BY <1>8 DEF Teardown
  <2>2. DOMAIN conns' = DOMAIN conns
        /\ \A i \in DOMAIN conns : conns'[i].is_connected <=> conns[i].is_connected
    BY <1>0, <2>1 DEF DeleteEngine, Connections
  <2> QED BY <2>1, <2>2, TriedKept
<1>9. CASE /\ UNCHANGED <<conns, searches, found>>
           /\ (pc' = pc /\ cur' = cur) \/ pc' \notin {"connect", "failed"}
  BY <1>9, TriedKept
<1>10. PollEvents \/ ReadSignal \/ Pass \/ Refused \/ EnterRecv \/ Recv \/ Acknowledge \/ AnswerAccev
         \/ RecvError \/ Report
       => /\ UNCHANGED <<conns, searches, found>>
          /\ (pc' = pc /\ cur' = cur) \/ pc' \notin {"connect", "failed"}
  BY DEF PollEvents, ReadSignal, Pass, Refused, EnterRecv, Recv, Acknowledge,
         AnswerAccev, ReadPairs, RecvError, Report,
         taskVars, loopVars
<1>11. Type \/ CloseStdin \/ Terminate \/ Devices \/ ReadOut \/ UNCHANGED vars
       => /\ UNCHANGED <<conns, searches, found>>
          /\ (pc' = pc /\ cur' = cur) \/ pc' \notin {"connect", "failed"}
  BY DEF Type, CloseStdin, Terminate, Devices, HangUp, Talk, ReadOut, vars,
         taskVars, loopVars
<1> QED BY <1>1, <1>2, <1>3, <1>4, <1>5, <1>6, <1>7, <1>8, <1>9, <1>10, <1>11 DEF Next, Main

\* However commands are delayed, cut off or coalesced, and whatever the size
\* of an int: the process ends in order only after a stop signal or a "stop"
\* that was run, fails only with a device that could not be reached, and
\* crashes only after a "timeout" that is incomplete or out of range was
\* typed (command.c:96-140, connection_manager.c:61-72, main.c:70-76).
THEOREM EndsForAReason == Spec => []EndHasCause
<1>1. Init => CauseInv /\ TriedOnce
  BY DEF Init, CauseInv, TriedOnce, Awaited, Trying
<1>2. CauseInv /\ TriedOnce => EndHasCause
  BY DEF CauseInv, TriedOnce, StopCause, Fault, EndHasCause, Range
<1> QED BY <1>1, <1>2, CauseInductive, TriedInductive, EngineTypeCorrect, PTL DEF Spec
=============================================================================
