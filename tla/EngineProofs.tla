----------------------------- MODULE EngineProofs -----------------------------
(***************************************************************************)
(* Theorems about Engine, for all devices, command lines and messages.     *)
(***************************************************************************)
EXTENDS Engine, SequenceLemmas, TLAPS

-----------------------------------------------------------------------------
(* Lemmas on single operators.                                             *)

\* A connection comes in addition to those there are.
LEMMA NewConnectionProperties ==
  ASSUME NEW c \in Commands, NEW rest \in Seq(Commands),
         conns \in Seq(Connections)
  PROVE  LET s == Append(conns, NewConnection(c, rest))
         IN s \in Seq(Connections) /\ Len(s) = Len(conns) + 1
            /\ DOMAIN s = DOMAIN conns \cup {Len(conns) + 1}
<1>1. NewConnection(c, rest) \in Connections
  BY DEF NewConnection, Connections, Commands
<1>2. Len(conns) \in Nat /\ DOMAIN conns = 1..Len(conns)
  BY LenProperties
<1>3. /\ Append(conns, NewConnection(c, rest)) \in Seq(Connections)
      /\ Len(Append(conns, NewConnection(c, rest))) = Len(conns) + 1
  BY <1>1, AppendProperties
<1>4. DOMAIN Append(conns, NewConnection(c, rest)) = 1..Len(conns) + 1
  BY <1>3, LenProperties
<1>5. 1..Len(conns) + 1 = 1..Len(conns) \cup {Len(conns) + 1}
  BY <1>2
<1> QED
  BY <1>2, <1>3, <1>4, <1>5

\* Delaying a command leaves the command at the end of its line.
LEMMA DelayedCommand ==
  ASSUME NEW c \in Commands, c.after # <<>>
  PROVE  [c EXCEPT !.after = Tail(@)] \in Commands
<1>1. c.after \in Seq(Int)
  BY DEF Commands
<1>2. Tail(c.after) \in Seq(Int)
  BY <1>1, HeadTailProperties
<1> QED
  BY <1>2 DEF Commands

\* What exec_command() does to the tasks: it uses up one command, and makes
\* at most one connection or one timer of it.
LEMMA ExecTyped ==
  ASSUME TasksTyped, LinksTyped, EngineAssumption,
         NEW c \in Commands, NEW rest \in Seq(Commands),
         NEW l \in Seq(Commands), Exec(c, rest, l)
  PROVE  /\ conns' \in Seq(Connections) /\ DOMAIN conns \subseteq DOMAIN conns'
         /\ searches' \subseteq DOMAIN conns'
         /\ later' \in Seq(Commands)
         /\ Len(conns') + Len(later') <= Len(conns) + Len(l) + 1
         /\ stop' \in BOOLEAN
         /\ stdio' \in Seq(Lines) /\ out' \in Seq(Lines)
         /\ pc' \in {"dispatch", "crashed"}
<1> USE DEF TasksTyped, LinksTyped
<1>0. Len(l) \in Nat /\ Len(conns) \in Nat /\ DOMAIN conns = 1..Len(conns)
  BY LenProperties
<1>1. \A d \in Commands : Append(l, d) \in Seq(Commands)
                          /\ Len(Append(l, d)) = Len(l) + 1
  BY AppendProperties
<1>2. CASE Timeout(c, l)
  <2>1. [c EXCEPT !.after = Tail(@)] \in Commands
    BY <1>2, DelayedCommand DEF Timeout
  <2>2. later' = l \/ later' = Append(l, [c EXCEPT !.after = Tail(@)])
    BY <1>2, Zenon DEF Timeout
  <2>3. pc' = "dispatch" \/ pc' = "crashed"
    BY <1>2, Zenon DEF Timeout
  <2>4. UNCHANGED <<conns, searches, stop, stdio, out>>
    BY <1>2 DEF Timeout, outVars
  <2>5. later' \in Seq(Commands) /\ Len(later') <= Len(l) + 1
    BY ONLY <2>1, <2>2, <1>0, <1>1, l \in Seq(Commands)
  <2> QED
    BY <2>3, <2>4, <2>5, <1>0, LenProperties
<1>3. CASE Garbled(c, l)
  <2>1. later' = l \/ \E d \in Commands : later' = Append(l, d)
    BY <1>3 DEF Garbled, EngineAssumption
  <2>2. UNCHANGED <<conns, searches, stop, stdio, out>>
    BY <1>3 DEF Garbled, outVars
  <2>3. later' \in Seq(Commands) /\ Len(later') <= Len(l) + 1
    BY ONLY <2>1, <1>0, <1>1, l \in Seq(Commands)
  <2> QED
    BY <2>2, <2>3, <1>0, <1>3, LenProperties DEF Garbled
<1>4. CASE Stop(c, l)
  BY <1>0, <1>4 DEF Stop, outVars
<1>5. CASE ConnectTo(c, rest, l)
  <2>1. /\ conns' \in Seq(Connections) /\ Len(conns') = Len(conns) + 1
        /\ DOMAIN conns' = DOMAIN conns \cup {Len(conns) + 1}
    BY <1>5, NewConnectionProperties DEF ConnectTo
  <2>2. searches' \subseteq DOMAIN conns'
    BY <2>1, <1>5 DEF ConnectTo
  <2> QED
    BY <2>1, <2>2, <1>0, <1>5 DEF ConnectTo, outVars
<1>6. CASE List(c, l)
  <2>1. [devices |-> Len(conns)] \in Lines
    BY <1>0 DEF Lines
  <2>2. stdio' \in Seq(Lines)
    BY <2>1, <1>6, AppendProperties DEF List
  <2> QED
    BY <2>2, <1>0, <1>6 DEF List
<1>7. CASE Unknown(c, l)
  BY <1>0, <1>7 DEF Unknown, outVars
<1> QED
  BY <1>2, <1>3, <1>4, <1>5, <1>6, <1>7 DEF Exec

\* exit() and the flush of stdio.
LEMMA FlushTyped ==
  ASSUME LinksTyped, out' = out \o stdio, stdio' = <<>>
  PROVE  out' \in Seq(Lines) /\ stdio' \in Seq(Lines)
BY ConcatProperties DEF LinksTyped

-----------------------------------------------------------------------------
(* Type correctness.                                                       *)

LEMMA InitTyped == Init => TypeOK
<1> SUFFICES ASSUME Init PROVE TypeOK
  OBVIOUS
<1>1. MaxTyped \in Nat
  BY EngineAssumption DEF EngineAssumption
<1>2. Len(<<>>) = 0 /\ DOMAIN conns = {}
  BY DEF Init
<1>3. LoopTyped
  BY <1>2 DEF Init, LoopTyped, RFCOMM_CHANNEL_MAX
<1>4. TasksTyped
  <2>1. conns = <<>> /\ later = <<>> /\ stdin = <<>> /\ typed = <<>>
    BY DEF Init
  <2>2. /\ conns \in Seq(Connections) /\ later \in Seq(Commands)
        /\ stdin \in Seq(Commands) /\ typed \in Seq(Commands)
        /\ Len(conns) + Len(later) + Len(stdin) <= Len(typed)
        /\ Len(typed) <= MaxTyped
    BY ONLY <2>1, <1>1, <1>2
  <2> QED
    BY ONLY <2>2, Init DEF Init, TasksTyped
<1>5. LinksTyped
  BY DEF Init, LinksTyped
<1> QED
  BY <1>3, <1>4, <1>5 DEF TypeOK

\* The steps of the loop.
LEMMA LoopStepTyped ==
  ASSUME TypeOK, PollEvents \/ ReadStdin \/ ReadSignal \/ FireCommand \/ Pass
  PROVE  TypeOK'
<1> USE DEF TypeOK
<1>0. Len(conns) \in Nat /\ Len(later) \in Nat /\ Len(stdin) \in Nat
      /\ Len(typed) \in Nat
  BY LenProperties DEF TasksTyped
<1>1. CASE PollEvents
  <2>1. Pending \subseteq {Stdin, SignalFd} \cup {Socket(i) : i \in DOMAIN conns}
    BY DEF Pending
  <2>2. LoopTyped'
    BY <2>1, <1>1 DEF PollEvents, LoopTyped, dialVars, saidVars, taskVars
  <2>3. TasksTyped' /\ LinksTyped'
    BY <1>1 DEF PollEvents, TasksTyped, LinksTyped, taskVars, userVars,
                linkVars, outVars, Connections
  <2> QED
    BY <2>2, <2>3
<1>2. CASE ReadStdin /\ stdin = <<>>
  <2>1. UNCHANGED <<pc, cur, dialVars, saidVars, taskVars, userVars, linkVars,
                    outVars>> /\ batch' \subseteq batch
    BY <1>2 DEF ReadStdin, taskVars, userVars
  <2> QED
    BY <2>1 DEF LoopTyped, TasksTyped, LinksTyped, dialVars, saidVars, taskVars, userVars,
                linkVars, outVars
<1>3. CASE ReadStdin /\ stdin # <<>>
  <2> DEFINE rest == IF Coalesce THEN Tail(stdin) ELSE <<>>
  <2>1. /\ Head(stdin) \in Commands
        /\ Tail(stdin) \in Seq(Commands) /\ Len(Tail(stdin)) = Len(stdin) - 1
    BY <1>3, HeadTailProperties DEF TasksTyped
  <2>2. rest \in Seq(Commands)
    BY <2>1
  <2>3. Exec(Head(stdin), rest, later)
    BY <1>3 DEF ReadStdin
  <2>10. stdin' = <<>> \/ stdin' = Tail(stdin)
    BY <1>3, Zenon DEF ReadStdin
  <2>11. Len(Tail(stdin)) \in Nat /\ Len(<<>>) = 0
    BY <2>1, LenProperties
  <2>4. /\ stdin' \in Seq(Commands) /\ Len(stdin') <= Len(stdin) - 1
        /\ Len(stdin') \in Nat
    <3>1. CASE stdin' = <<>>
      <4>1. Len(stdin') = 0 /\ 0 <= Len(stdin) - 1
        BY ONLY <2>1, <2>11, <1>0, <3>1
      <4> QED
        BY ONLY <3>1, <4>1, EmptySeq
    <3>2. CASE stdin' = Tail(stdin)
      BY ONLY <2>1, <2>11, <1>0, <3>2
    <3> QED
      BY <2>10, <3>1, <3>2
  <2> HIDE DEF rest
  <2>5. /\ conns' \in Seq(Connections) /\ DOMAIN conns \subseteq DOMAIN conns'
        /\ searches' \subseteq DOMAIN conns'
        /\ later' \in Seq(Commands)
        /\ Len(conns') + Len(later') <= Len(conns) + Len(later) + 1
        /\ stop' \in BOOLEAN
        /\ stdio' \in Seq(Lines) /\ out' \in Seq(Lines)
        /\ pc' \in {"dispatch", "crashed"}
    BY <2>1, <2>2, <2>3, ExecTyped, EngineAssumption DEF TasksTyped
  <2>6. UNCHANGED <<cur, chan, want, heard, level, found, due, eof, signal, typed, wire,
                    awaiting, gone, noticed, owed>> /\ batch' \subseteq batch
    BY <1>3 DEF ReadStdin, dialVars, saidVars, linkVars
  <2>7. LoopTyped'
    BY <2>5, <2>6 DEF LoopTyped
  <2>8. Len(conns') \in Nat /\ Len(later') \in Nat
    BY <2>5, LenProperties
  <2>9. TasksTyped'
    BY <2>4, <2>5, <2>6, <2>8, <1>0 DEF TasksTyped
  <2>12. LinksTyped'
    BY <2>5, <2>6 DEF LinksTyped
  <2> QED
    BY <2>7, <2>9, <2>12
<1>4. CASE ReadSignal
  <2>1. LoopTyped'
    BY <1>4 DEF ReadSignal, LoopTyped, dialVars, saidVars
  <2>2. TasksTyped' /\ LinksTyped'
    BY <1>4 DEF ReadSignal, TasksTyped, LinksTyped, linkVars, outVars
  <2> QED
    BY <2>1, <2>2
<1>5. CASE FireCommand
  <2>1. PICK k \in DOMAIN later : /\ due' = due \cup {later[k]}
                                 /\ Exec(later[k], <<>>, RemoveAt(later, k))
    BY <1>5 DEF FireCommand
  <2>2. k \in 1..Len(later) /\ later[k] \in Commands
    BY LenProperties DEF TasksTyped
  <2>3. /\ RemoveAt(later, k) \in Seq(Commands)
        /\ Len(RemoveAt(later, k)) = Len(later) - 1
    BY <2>2, RemoveAtProperties DEF TasksTyped
  <2>4. <<>> \in Seq(Commands)
    OBVIOUS
  <2>5. /\ conns' \in Seq(Connections) /\ DOMAIN conns \subseteq DOMAIN conns'
        /\ searches' \subseteq DOMAIN conns'
        /\ later' \in Seq(Commands)
        /\ Len(conns') + Len(later') <= Len(conns) + Len(RemoveAt(later, k)) + 1
        /\ stop' \in BOOLEAN
        /\ stdio' \in Seq(Lines) /\ out' \in Seq(Lines)
        /\ pc' \in {"dispatch", "crashed"}
    BY <2>1, <2>2, <2>3, <2>4, ExecTyped, EngineAssumption
  <2>6. UNCHANGED <<batch, cur, chan, want, heard, level, found, stdin, eof, signal,
                    typed, wire, awaiting, gone, noticed, owed>>
    BY <1>5 DEF FireCommand, dialVars, saidVars, linkVars, userVars
  <2>7. LoopTyped'
    BY <2>5, <2>6 DEF LoopTyped
  <2>8. Len(conns') \in Nat /\ Len(later') \in Nat
    BY <2>5, LenProperties
  <2>9. TasksTyped'
    BY <2>1, <2>2, <2>3, <2>5, <2>6, <2>8, <1>0 DEF TasksTyped
  <2>10. LinksTyped'
    BY <2>5, <2>6 DEF LinksTyped
  <2> QED
    BY <2>7, <2>9, <2>10
<1>6. CASE Pass
  <2>1. LoopTyped'
    BY <1>6 DEF Pass, LoopTyped, dialVars, saidVars, taskVars
  <2>2. TasksTyped' /\ LinksTyped'
    BY <1>6 DEF Pass, TasksTyped, LinksTyped, taskVars, userVars, linkVars, outVars
  <2> QED
    BY <2>1, <2>2
<1> QED
  BY <1>1, <1>2, <1>3, <1>4, <1>5, <1>6

\* The end, and connecting to a device.
LEMMA ConnectStepTyped ==
  ASSUME TypeOK,
         Teardown \/ SearchEnds \/ FireResult \/ Connect \/ Refused \/ ConnectFails
  PROVE  TypeOK'
<1> USE DEF TypeOK
<1>0. DOMAIN conns = 1..Len(conns) /\ Len(conns) \in Nat /\ Len(later) \in Nat
      /\ Len(stdin) \in Nat /\ Len(typed) \in Nat
  BY LenProperties DEF TasksTyped
<1>1. CASE Teardown
  <2>1. \A b \in Connections : DeleteEngine(b) \in Connections
    BY DEF Connections, DeleteEngine
  <2>2. /\ conns' \in Seq(Connections) /\ Len(conns') = Len(conns)
        /\ DOMAIN conns' = DOMAIN conns
    <3>1. conns' = [i \in 1..Len(conns) |-> DeleteEngine(conns[i])]
      BY <1>0, <1>1 DEF Teardown
    <3>2. \A i \in 1..Len(conns) : DeleteEngine(conns[i]) \in Connections
      BY <2>1, <1>0, ElementOfSeq DEF TasksTyped
    <3> QED
      BY <3>1, <3>2, <1>0
  <2>3. out' \in Seq(Lines) /\ stdio' \in Seq(Lines)
    BY <1>1, FlushTyped DEF Teardown
  <2>4. LoopTyped'
    BY <2>2, <1>1 DEF Teardown, LoopTyped, dialVars, saidVars
  <2>5. TasksTyped'
    BY <2>2, <1>0, <1>1 DEF Teardown, TasksTyped, userVars
  <2>6. LinksTyped'
    BY <2>3, <1>1 DEF Teardown, LinksTyped, linkVars
  <2> QED
    BY <2>4, <2>5, <2>6
<1>2. CASE SearchEnds
  BY <1>2 DEF SearchEnds, LoopTyped, TasksTyped, LinksTyped, loopVars, dialVars, saidVars,
              userVars, linkVars, outVars
<1>3. CASE FireResult
  <2>1. PICK f \in found :
          /\ found' = found \ {f}
          /\ cur' = f[1]
          /\ IF f[2] = 0
             THEN ExitFailure /\ UNCHANGED dialVars
             ELSE /\ pc' = "connect" /\ chan' = f[2] /\ want' = f[2]
                  /\ UNCHANGED outVars
    BY <1>3 DEF FireResult
  <2>2. f[1] \in DOMAIN conns /\ f[2] \in Channels \cup {0}
    BY DEF TasksTyped
  <2>3. cur' \in DOMAIN conns /\ cur' # 0
    BY <2>1, <2>2, <1>0
  <2>4. out' \in Seq(Lines) /\ stdio' \in Seq(Lines)
    BY <2>1, FlushTyped DEF ExitFailure, outVars, LinksTyped
  <2>5. UNCHANGED <<batch, saidVars, conns, searches, later, stop, due, userVars,
                    linkVars>>
    BY <1>3 DEF FireResult
  <2>6. LoopTyped'
    <3>1. /\ pc' \in {"connect", "failed"}
          /\ chan' \in 0..(2 * RFCOMM_CHANNEL_MAX)
          /\ want' \in Channels \cup {0}
      <4>1. CASE f[2] = 0
        BY <2>1, <4>1 DEF ExitFailure, dialVars, saidVars, LoopTyped
      <4>2. CASE f[2] # 0
        <5>1. pc' = "connect" /\ chan' = f[2] /\ want' = f[2]
          BY <2>1, <4>2
        <5>2. f[2] \in 1..30
          BY <2>2, <4>2, EngineAssumption
             DEF EngineAssumption, RFCOMM_CHANNEL_MAX
        <5> QED
          BY ONLY <5>1, <5>2, <2>2 DEF RFCOMM_CHANNEL_MAX
      <4> QED
        BY <4>1, <4>2
    <3> QED
      BY <3>1, <2>3, <2>5 DEF LoopTyped, saidVars
  <2>7. TasksTyped'
    BY <2>1, <2>5 DEF TasksTyped, userVars
  <2>8. LinksTyped'
    BY <2>4, <2>5 DEF LinksTyped, linkVars
  <2> QED
    BY <2>6, <2>7, <2>8
<1>4. CASE Connect
  <2>1. PICK polled \in BOOLEAN :
          conns' = [conns EXCEPT ![cur].open = TRUE, ![cur].polled = polled,
                                 ![cur].is_connected = TRUE]
    BY <1>4 DEF Connect
  <2>2. cur \in 1..Len(conns)
    BY <1>0, <1>4 DEF Connect, LoopTyped
  <2> DEFINE b == [conns[cur] EXCEPT !.open = TRUE, !.polled = polled,
                                     !.is_connected = TRUE]
  <2>3. conns[cur] \in Connections
    BY <2>2, ElementOfSeq DEF TasksTyped
  <2>8. b \in Connections
    BY ONLY <2>3, polled \in BOOLEAN DEF Connections
  <2>4. conns' = [conns EXCEPT ![cur] = b]
    BY <2>1, <2>2, <1>0
  <2> HIDE DEF b
  <2>5. /\ conns' \in Seq(Connections) /\ Len(conns') = Len(conns)
        /\ DOMAIN conns' = DOMAIN conns
    BY <2>2, <2>8, <2>4, <1>0, ExceptSeq DEF TasksTyped
  <2>9. /\ pc' = "dispatch" /\ cur' = 0 /\ chan' = 0 /\ want' = 0
        /\ batch' = batch /\ level' = level /\ heard' = heard
    BY <1>4 DEF Connect, saidVars
  <2>6. LoopTyped'
    BY <2>5, <2>9 DEF LoopTyped, RFCOMM_CHANNEL_MAX
  <2>7. TasksTyped' /\ LinksTyped'
    BY <2>5, <1>4 DEF Connect, TasksTyped, LinksTyped, userVars, linkVars, outVars
  <2> QED
    BY <2>6, <2>7
<1>5. CASE Refused
  <2>1. chan' \in 0..(2 * RFCOMM_CHANNEL_MAX)
    BY <1>5 DEF Refused, Channel, FirstTry, LoopTyped, RFCOMM_CHANNEL_MAX
  <2>2. LoopTyped'
    BY <2>1, <1>5 DEF Refused, LoopTyped, loopVars, taskVars, saidVars
  <2>3. TasksTyped' /\ LinksTyped'
    BY <1>5 DEF Refused, TasksTyped, LinksTyped, taskVars, userVars, linkVars,
                outVars
  <2> QED
    BY <2>2, <2>3
<1>6. CASE ConnectFails
  <2>1. out' \in Seq(Lines) /\ stdio' \in Seq(Lines)
    BY <1>6, FlushTyped DEF ConnectFails, ExitFailure
  <2>2. LoopTyped'
    BY <1>6 DEF ConnectFails, ExitFailure, LoopTyped, taskVars, saidVars
  <2>3. TasksTyped' /\ LinksTyped'
    BY <2>1, <1>6 DEF ConnectFails, TasksTyped, LinksTyped, taskVars, userVars,
                      linkVars
  <2> QED
    BY <2>2, <2>3
<1> QED
  BY <1>1, <1>2, <1>3, <1>4, <1>5, <1>6

\* The level printed is one of those a device can mean.
LEMMA LevelOfBattery ==
  ASSUME NEW m \in Msgs, Battery(m) # {}
  PROVE  LevelOf(m.pairs[Min(Battery(m))].value) \in Levels
<1>0. m \in Messages
  BY EngineAssumption DEF EngineAssumption
<1>1. m.pairs \in Seq(Pairs)
  BY <1>0 DEF Messages
<1>2. Len(m.pairs) \in Nat /\ DOMAIN m.pairs = 1..Len(m.pairs)
  BY <1>1, LenProperties
<1>3. Battery(m) \in SUBSET (0..Len(m.pairs))
  BY <1>2 DEF Battery
<1>4. Min(Battery(m)) \in Battery(m)
  BY <1>2, <1>3, MinOfBounded
<1>5. Min(Battery(m)) \in 1..Len(m.pairs)
  BY <1>2, <1>4 DEF Battery
<1>6. m.pairs[Min(Battery(m))] \in Pairs
  BY <1>1, <1>5, ElementOfSeq
<1>7. m.pairs[Min(Battery(m))].value \in 0..9
  BY <1>6 DEF Pairs
<1> QED
  BY <1>7 DEF LevelOf, Levels

\* And so is the level a device tells.
LEMMA ToldLevels ==
  ASSUME NEW m \in Messages
  PROVE  Told(m) \subseteq Levels
<1>1. m.pairs \in Seq(Pairs)
  BY DEF Messages
<1>2. \A j \in DOMAIN m.pairs : m.pairs[j] \in Pairs
  BY <1>1, LenProperties, ElementOfSeq
<1>3. \A q \in Range(m.pairs) : q.value \in 0..9
  BY <1>2 DEF Range, Pairs
<1> QED
  BY <1>3 DEF Told, Levels

\* The dialogue with a device.
LEMMA DialogueStepTyped ==
  ASSUME TypeOK,
         \/ EnterRecv \/ Recv \/ Acknowledge \/ AnswerSiri \/ AnswerAccev
         \/ RecvError \/ Report
  PROVE  TypeOK'
<1> USE DEF TypeOK
<1>0. DOMAIN conns = 1..Len(conns) /\ Len(conns) \in Nat /\ Len(typed) \in Nat
      /\ Len(later) \in Nat /\ Len(stdin) \in Nat /\ MaxTyped \in Nat
  BY LenProperties, EngineAssumption DEF TasksTyped, EngineAssumption
<1>1. DOMAIN conns \subseteq Ids
  BY <1>0 DEF Ids, TasksTyped
<1>2. CASE EnterRecv
  <2>1. cur' \in DOMAIN conns /\ cur' # 0 /\ batch' \subseteq batch
    BY <1>0, <1>2 DEF EnterRecv
  <2>2. LoopTyped'
    BY <2>1, <1>2 DEF EnterRecv, LoopTyped, dialVars, saidVars, taskVars
  <2>3. TasksTyped' /\ LinksTyped'
    BY <1>2 DEF EnterRecv, TasksTyped, LinksTyped, taskVars, userVars, linkVars,
                outVars
  <2> QED
    BY <2>2, <2>3
<1>3. CASE Recv
  <2>1. cur \in Ids /\ wire[cur] \in Msgs
    BY <1>0, <1>1, <1>3 DEF Recv, LoopTyped, LinksTyped
  <2>2. LoopTyped'
    BY <2>1, <1>3 DEF Recv, LoopTyped, dialVars, taskVars
  <2>3. TasksTyped' /\ LinksTyped'
    BY <1>3 DEF Recv, TasksTyped, LinksTyped, taskVars, userVars, outVars
  <2> QED
    BY <2>2, <2>3
<1>6. CASE Acknowledge
  <2>1. awaiting' \subseteq Ids
    BY <1>6 DEF Acknowledge, Send, LinksTyped
  <2>2. LoopTyped'
    BY <1>6 DEF Acknowledge, LoopTyped, dialVars, taskVars
  <2>3. TasksTyped' /\ LinksTyped'
    BY <2>1, <1>6 DEF Acknowledge, TasksTyped, LinksTyped, taskVars, userVars,
                      outVars
  <2> QED
    BY <2>2, <2>3
<1>7. CASE AnswerSiri
  <2>1. cur \in DOMAIN conns /\ cur \in 1..Len(conns)
    BY <1>0, <1>7 DEF AnswerSiri, LoopTyped
  <2> DEFINE b == [conns[cur] EXCEPT !.ready = TRUE]
  <2>2. conns[cur] \in Connections
    BY <2>1, ElementOfSeq DEF TasksTyped
  <2>3. b \in Connections
    BY ONLY <2>2 DEF Connections
  <2>4. conns' = [conns EXCEPT ![cur] = b]
    BY <1>7 DEF AnswerSiri
  <2> HIDE DEF b
  <2>5. /\ conns' \in Seq(Connections) /\ Len(conns') = Len(conns)
        /\ DOMAIN conns' = DOMAIN conns
    BY <2>1, <2>3, <2>4, <1>0, ExceptSeq DEF TasksTyped
  <2>6. LoopTyped'
    BY <2>5, <1>7 DEF AnswerSiri, LoopTyped, dialVars
  <2>7. TasksTyped'
    BY <2>5, <1>7 DEF AnswerSiri, TasksTyped, userVars
  <2>8. LinksTyped'
    BY <1>7 DEF AnswerSiri, Send, LinksTyped, outVars
  <2> QED
    BY <2>6, <2>7, <2>8
<1>8. CASE AnswerAccev
  <2>1. heard \in Msgs /\ cur \in DOMAIN conns /\ cur # 0
    BY <1>8 DEF AnswerAccev, LoopTyped
  <2>2. \/ pc' = "report" /\ level' \in Levels
        \/ pc' = "recv" /\ level' = level
    <3>1. CASE Battery(heard) # {}
      <4>1. /\ level' = LevelOf(heard.pairs[Min(Battery(heard))].value)
            /\ pc' = "report"
        BY <3>1, <1>8, Zenon DEF AnswerAccev, ReadPairs
      <4>2. level' \in Levels
        BY ONLY <4>1, <3>1, <2>1, LevelOfBattery
      <4> QED
        BY <4>1, <4>2
    <3>2. CASE Battery(heard) = {}
      BY <3>2, <1>8, Zenon DEF AnswerAccev, ReadPairs
    <3> QED
      BY <3>1, <3>2
  <2>3. 0 \notin Levels
    BY DEF Levels
  <2>4. UNCHANGED <<batch, cur, chan, want, conns>>
    BY <1>8 DEF AnswerAccev, dialVars, taskVars
  <2>5. LoopTyped'
    BY <2>1, <2>2, <2>3, <2>4 DEF LoopTyped
  <2>6. TasksTyped'
    BY <1>8 DEF AnswerAccev, TasksTyped, taskVars, userVars
  <2>7. LinksTyped'
    BY <1>8 DEF AnswerAccev, Send, LinksTyped, outVars
  <2> QED
    BY <2>5, <2>6, <2>7
<1>4. CASE RecvError
  <2>1. LoopTyped'
    BY <1>4 DEF RecvError, LoopTyped, dialVars, saidVars, taskVars
  <2>2. TasksTyped' /\ LinksTyped'
    BY <1>4 DEF RecvError, TasksTyped, LinksTyped, taskVars, userVars, outVars
  <2> QED
    BY <2>1, <2>2
<1>5. CASE Report
  <2>1. cur \in Ids /\ level \in Levels
    BY <1>0, <1>1, <1>5 DEF Report, LoopTyped
  <2>2. <<[connection |-> cur, level |-> level]>> \in Seq(Lines)
    BY <2>1 DEF Lines
  <2>3. out \o stdio \in Seq(Lines)
    BY ConcatProperties DEF LinksTyped
  <2>4. out' \in Seq(Lines) /\ stdio' \in Seq(Lines)
    BY <2>2, <2>3, <1>5, ConcatProperties DEF Report
  <2>5. LoopTyped'
    BY <1>5 DEF Report, LoopTyped, dialVars, saidVars, taskVars
  <2>6. TasksTyped' /\ LinksTyped'
    BY <2>4, <1>5 DEF Report, TasksTyped, LinksTyped, taskVars, userVars, linkVars
  <2> QED
    BY <2>5, <2>6
<1> QED
  BY <1>2, <1>3, <1>4, <1>5, <1>6, <1>7, <1>8

\* The user, the devices and the reader of stdout.
LEMMA OutsideStepTyped ==
  ASSUME TypeOK, Type \/ CloseStdin \/ Terminate \/ Devices \/ ReadOut
  PROVE  TypeOK'
<1> USE DEF TypeOK
<1>0. Len(conns) \in Nat /\ Len(later) \in Nat /\ Len(stdin) \in Nat
      /\ Len(typed) \in Nat /\ MaxTyped \in Nat
  BY LenProperties, EngineAssumption DEF TasksTyped, EngineAssumption
<1>1. CASE Type
  <2>1. PICK c \in Commands :
          /\ Len(typed) < MaxTyped
          /\ typed' = Append(typed, c) /\ stdin' = Append(stdin, c)
    BY <1>1, EngineAssumption DEF Type, EngineAssumption
  <2>2. /\ typed' \in Seq(Commands) /\ Len(typed') = Len(typed) + 1
        /\ stdin' \in Seq(Commands) /\ Len(stdin') = Len(stdin) + 1
    BY <2>1, AppendProperties DEF TasksTyped
  <2>3. UNCHANGED <<loopVars, dialVars, saidVars, taskVars, eof, signal, linkVars,
                    outVars>>
    BY <1>1 DEF Type
  <2>4. LoopTyped' /\ LinksTyped'
    BY <2>3 DEF LoopTyped, LinksTyped, loopVars, dialVars, saidVars, taskVars, linkVars,
                outVars
  <2>5. TasksTyped'
    BY <2>1, <2>2, <2>3, <1>0 DEF TasksTyped, taskVars
  <2> QED
    BY <2>4, <2>5
<1>2. CASE CloseStdin \/ Terminate
  <2>1. LoopTyped' /\ LinksTyped'
    BY <1>2 DEF CloseStdin, Terminate, LoopTyped, LinksTyped, loopVars, dialVars, saidVars,
                taskVars, linkVars, outVars
  <2>2. TasksTyped'
    BY <1>2 DEF CloseStdin, Terminate, TasksTyped, taskVars
  <2> QED
    BY <2>1, <2>2
<1>3. CASE Devices
  <2>1. LoopTyped' /\ TasksTyped'
    BY <1>3 DEF Devices, HangUp, Talk, LoopTyped, TasksTyped, loopVars, dialVars, saidVars,
                taskVars, userVars
  <2>2. ASSUME NEW i \in Ids, HangUp(i)
        PROVE  LinksTyped'
    BY <2>2 DEF HangUp, LinksTyped, outVars
  <2>3. ASSUME NEW i \in Ids, NEW m \in Msgs, Talk(i, m)
        PROVE  LinksTyped'
    <3>1. wire' \in [Ids -> Msgs \cup {NoMsg}] /\ awaiting' \subseteq Ids
      BY <2>3 DEF Talk, LinksTyped
    <3>2. owed' \in [Ids -> Seq(Levels)]
      <4>1. CASE m.kind = "IPHONEACCEV" /\ Told(m) # {}
        <5> DEFINE l == TheLevel(m)
        <5>1. owed' = [owed EXCEPT ![i] = Append(@, l)]
          BY <2>3, <4>1 DEF Talk
        <5>2. l \in Levels
          BY <4>1, ToldLevels, EngineAssumption DEF EngineAssumption, TheLevel
        <5> HIDE DEF l
        <5>3. owed[i] \in Seq(Levels)
          BY DEF LinksTyped
        <5>4. Append(owed[i], l) \in Seq(Levels)
          BY <5>2, <5>3, AppendProperties
        <5> QED
          BY <5>1, <5>4 DEF LinksTyped
      <4>2. CASE ~(m.kind = "IPHONEACCEV" /\ Told(m) # {})
        BY <2>3, <4>2 DEF Talk, LinksTyped
      <4> QED
        BY <4>1, <4>2
    <3> QED
      BY <3>1, <3>2, <2>3 DEF Talk, LinksTyped, outVars
  <2> QED
    BY <2>1, <2>2, <2>3, <1>3 DEF Devices
<1>4. CASE ReadOut
  <2>1. Head(out) \in Lines /\ Tail(out) \in Seq(Lines)
    BY <1>4, HeadTailProperties DEF ReadOut, LinksTyped
  <2>2. owed' \in [Ids -> Seq(Levels)]
    <3>1. CASE "level" \in DOMAIN Head(out)
      <4> DEFINE i == Head(out).connection
                 s == SubSeq(owed[i], 2, Len(owed[i]))
      <4>1. owed' = [owed EXCEPT ![i] = s]
        BY <1>4, <3>1 DEF ReadOut
      <4>2. i \in Ids
        BY <2>1, <3>1 DEF Lines
      <4>3. owed[i] \in Seq(Levels)
        BY <4>2 DEF LinksTyped
      <4>4. Len(owed[i]) \in Nat /\ \A k \in 2..Len(owed[i]) : owed[i][k] \in Levels
        BY <4>3, LenProperties, ElementOfSeq
      <4>5. s \in Seq(Levels)
        BY <4>4, SubSeqProperties
      <4> HIDE DEF s, i
      <4> QED
        BY <4>1, <4>5 DEF LinksTyped
    <3>2. CASE "level" \notin DOMAIN Head(out)
      BY <1>4, <3>2 DEF ReadOut, LinksTyped
    <3> QED
      BY <3>1, <3>2
  <2>3. LinksTyped'
    BY <2>1, <2>2, <1>4 DEF ReadOut, LinksTyped
  <2>4. LoopTyped' /\ TasksTyped'
    BY <1>4 DEF ReadOut, LoopTyped, TasksTyped, loopVars, dialVars, saidVars, taskVars,
                userVars
  <2> QED
    BY <2>3, <2>4
<1> QED
  BY <1>1, <1>2, <1>3, <1>4

\* Type correctness of Engine: among it, that the main thread always has a
\* connection at hand when it connects, receives or reports, and that a line
\* typed makes one connection at most, however often it is put off.
THEOREM EngineTypeCorrect == Spec => []TypeOK
<1>1. TypeOK /\ [Next]_vars => TypeOK'
  <2> SUFFICES ASSUME TypeOK, [Next]_vars PROVE TypeOK'
    OBVIOUS
  <2>1. CASE UNCHANGED vars
    BY <2>1 DEF vars, TypeOK, LoopTyped, TasksTyped, LinksTyped, loopVars,
                dialVars, saidVars, taskVars, userVars, linkVars, outVars
  <2>2. CASE Next
    BY <2>2, LoopStepTyped, ConnectStepTyped, DialogueStepTyped,
       OutsideStepTyped DEF Next, Main
  <2> QED
    BY <2>1, <2>2
<1> QED
  BY <1>1, InitTyped, PTL DEF Spec

-----------------------------------------------------------------------------
(* The dialogue.                                                           *)

\* The channel of a connection attempt, with what tells the retry.
ChannelInv ==
  pc = "connect" => want \in Channels /\ chan \in {want, want + RFCOMM_CHANNEL_MAX}

\* Each connect(), the retry included, is on the channel the search found.
THEOREM RetryKeepsChannel == Spec => []RetryOnSameChannel
<1>1. Init => ChannelInv
  BY DEF Init, ChannelInv
<1>2. TypeOK /\ ChannelInv /\ [Next]_vars => ChannelInv'
  <2> SUFFICES ASSUME TypeOK, ChannelInv, [Next]_vars PROVE ChannelInv'
    OBVIOUS
  <2> USE DEF ChannelInv
  <2>1. CASE FireResult
    <3>1. PICK f \in found : IF f[2] = 0 THEN ExitFailure
                             ELSE pc' = "connect" /\ chan' = f[2] /\ want' = f[2]
      BY <2>1 DEF FireResult
    <3>2. f[2] \in Channels \cup {0}
      BY DEF TypeOK, TasksTyped
    <3> QED
      BY <3>1, <3>2 DEF ExitFailure
  <2>2. CASE Refused
    <3>1. want \in 1..RFCOMM_CHANNEL_MAX
      BY <2>2, EngineAssumption DEF Refused, EngineAssumption
    <3> QED
      BY <3>1, <2>2 DEF Refused, Channel, FirstTry, RFCOMM_CHANNEL_MAX
  <2>3. CASE UNCHANGED <<pc, chan, want>>
    BY <2>3
  <2>4. CASE pc' # "connect"
    BY <2>4
  <2>5. ReadStdin \/ FireCommand
          => UNCHANGED <<chan, want>> /\ (pc' = pc \/ pc' # "connect")
    BY DEF ReadStdin, FireCommand, Exec, Timeout, Garbled, Stop, ConnectTo, List,
           Unknown, dialVars, saidVars
  <2>6. Main => \/ FireResult \/ Refused \/ ReadStdin \/ FireCommand
                \/ pc' # "connect" \/ UNCHANGED <<pc, chan, want>>
    BY DEF Main, PollEvents, ReadSignal, Pass, Teardown, Connect, ConnectFails,
           ExitFailure, EnterRecv, Recv, Acknowledge, AnswerSiri, AnswerAccev,
           ReadPairs, RecvError, Report, dialVars, saidVars
  <2>7. SearchEnds \/ Type \/ CloseStdin \/ Terminate \/ Devices \/ ReadOut
          => UNCHANGED <<pc, chan, want>>
    BY DEF SearchEnds, Type, CloseStdin, Terminate, Devices, HangUp, Talk, ReadOut,
           loopVars, dialVars, saidVars
  <2>8. UNCHANGED vars => UNCHANGED <<pc, chan, want>>
    BY DEF vars, loopVars, dialVars, saidVars
  <2> QED
    BY <2>1, <2>2, <2>3, <2>4, <2>5, <2>6, <2>7, <2>8 DEF Next
<1>3. ChannelInv => RetryOnSameChannel
  <2> SUFFICES ASSUME ChannelInv, pc = "connect" PROVE Channel = want
    BY DEF RetryOnSameChannel
  <2>1. want \in 1..RFCOMM_CHANNEL_MAX
    BY EngineAssumption DEF ChannelInv, EngineAssumption
  <2> QED
    BY <2>1 DEF ChannelInv, Channel, FirstTry, RFCOMM_CHANNEL_MAX
<1> QED
  BY <1>1, <1>2, <1>3, EngineTypeCorrect, PTL DEF Spec

\* A socket is open only in a connection that says it is connected.
OpenInv == \A i \in DOMAIN conns : conns[i].open => conns[i].is_connected

\* Whatever the commands, connections and errors were, a process that ends in
\* order closes every socket, also where epoll refused the descriptor.
THEOREM EndsClean == Spec => []EndIsClean
<1>1. Init => OpenInv /\ EndIsClean
  BY DEF Init, OpenInv, EndIsClean
<1>2. TypeOK /\ OpenInv /\ [Next]_vars => OpenInv'
  <2> SUFFICES ASSUME TypeOK, OpenInv, [Next]_vars PROVE OpenInv'
    OBVIOUS
  <2> USE DEF OpenInv
  <2>0. /\ conns \in Seq(Connections)
        /\ DOMAIN conns = 1..Len(conns) /\ Len(conns) \in Nat
        /\ \A i \in DOMAIN conns : conns[i] \in Connections
    BY LenProperties, ElementOfSeq DEF TypeOK, TasksTyped
  <2>1. ASSUME NEW c \in Commands, NEW rest, NEW l, ConnectTo(c, rest, l)
        PROVE  OpenInv'
    <3> DEFINE b == NewConnection(c, rest)
    <3>1. b.open = FALSE
      BY DEF NewConnection
    <3>2. conns' = Append(conns, b)
      BY <2>1 DEF ConnectTo
    <3> HIDE DEF b
    <3>3. DOMAIN conns' = 1..Len(conns) + 1
      BY <3>2, <2>0
    <3>4. \A i \in 1..Len(conns) : conns'[i] = conns[i]
      BY <3>2, <2>0
    <3>5. conns'[Len(conns) + 1] = b
      BY <3>2, <2>0
    <3>6. \A i \in DOMAIN conns' : i \in 1..Len(conns) \/ i = Len(conns) + 1
      BY <3>3, <2>0
    <3> QED
      BY <3>1, <3>4, <3>5, <3>6, <2>0
  <2>2. CASE Connect
    <3>1. PICK polled \in BOOLEAN :
            conns' = [conns EXCEPT ![cur].open = TRUE, ![cur].polled = polled,
                                   ![cur].is_connected = TRUE]
      BY <2>2 DEF Connect
    <3> QED
      BY <3>1, <2>0 DEF Connections
  <2>3. CASE AnswerSiri
    BY <2>3, <2>0 DEF AnswerSiri, Connections
  <2>4. CASE Teardown
    BY <2>4, <2>0 DEF Teardown, DeleteEngine, Connections
  <2>5. CASE UNCHANGED conns
    BY <2>5
  <2>6. ASSUME NEW c \in Commands, NEW rest, NEW l, Exec(c, rest, l)
        PROVE  OpenInv'
    <3>1. ConnectTo(c, rest, l) \/ UNCHANGED conns
      BY <2>6 DEF Exec, Timeout, Garbled, Stop, List, Unknown
    <3> QED
      BY <2>1, <2>5, <3>1
  <2>7. CASE ReadStdin
    <3>1. CASE stdin = <<>>
      BY <2>5, <2>7, <3>1 DEF ReadStdin
    <3>2. CASE stdin # <<>>
      <4>1. Head(stdin) \in Commands
        BY <3>2, HeadTailProperties DEF TypeOK, TasksTyped
      <4>2. Exec(Head(stdin), IF Coalesce THEN Tail(stdin) ELSE <<>>, later)
        BY <2>7, <3>2 DEF ReadStdin
      <4> QED
        BY <2>6, <4>1, <4>2
    <3> QED
      BY <3>1, <3>2
  <2>8. CASE FireCommand
    <3>1. PICK k \in DOMAIN later : Exec(later[k], <<>>, RemoveAt(later, k))
      BY <2>8 DEF FireCommand
    <3>2. later[k] \in Commands
      BY LenProperties, ElementOfSeq DEF TypeOK, TasksTyped
    <3> QED
      BY <2>6, <3>1, <3>2
  <2>9. Next => \/ Connect \/ AnswerSiri \/ Teardown \/ ReadStdin \/ FireCommand
                \/ UNCHANGED conns
    BY DEF Next, Main, PollEvents, ReadSignal, Pass, FireResult, Refused,
           ConnectFails, EnterRecv, Recv, Acknowledge, AnswerAccev, RecvError,
           Report, SearchEnds, Type,
           CloseStdin, Terminate, Devices, HangUp, Talk, ReadOut, taskVars
  <2>10. UNCHANGED vars => UNCHANGED conns
    BY DEF vars, taskVars
  <2> QED
    BY <2>2, <2>3, <2>4, <2>5, <2>7, <2>8, <2>9, <2>10
<1>3. TypeOK /\ OpenInv /\ EndIsClean /\ [Next]_vars => EndIsClean'
  <2> SUFFICES ASSUME TypeOK, OpenInv, EndIsClean, [Next]_vars PROVE EndIsClean'
    OBVIOUS
  <2>1. CASE Teardown
    <3>1. \A i \in DOMAIN conns : conns[i] \in Connections
      BY LenProperties, ElementOfSeq DEF TypeOK, TasksTyped
    <3>2. \A i \in DOMAIN conns' : ~conns'[i].open /\ ~conns'[i].polled
      BY <2>1, <3>1 DEF Teardown, DeleteEngine, Connections, OpenInv
    <3>3. found' = {} /\ later' = <<>> /\ stdio' = <<>>
      BY <2>1 DEF Teardown
    <3> QED
      BY <3>2, <3>3 DEF EndIsClean, Range
  <2>2. CASE UNCHANGED <<pc, conns, found, later, stdio>>
    BY <2>2 DEF EndIsClean, Range
  <2>3. CASE pc' # "ended"
    BY <2>3 DEF EndIsClean
  <2>4. SearchEnds => pc' # "ended"
    BY DEF SearchEnds, loopVars, Over
  <2>5. Type \/ CloseStdin \/ Terminate \/ Devices \/ ReadOut \/ UNCHANGED vars
          => UNCHANGED <<pc, conns, found, later, stdio>>
    BY DEF Type, CloseStdin, Terminate, Devices, HangUp, Talk, ReadOut, vars,
           loopVars, taskVars, outVars
  <2>6. Main => Teardown \/ pc' # "ended"
    BY DEF Main, PollEvents, ReadStdin, ReadSignal, FireCommand, Pass, FireResult,
           Connect, Refused, ConnectFails, ExitFailure, EnterRecv, Recv,
           Acknowledge, AnswerSiri, AnswerAccev, ReadPairs, RecvError, Report, Exec, Timeout, Garbled, Stop, ConnectTo, List,
           Unknown, taskVars, loopVars
  <2> QED
    BY <2>1, <2>2, <2>3, <2>4, <2>5, <2>6 DEF Next
<1> QED
  BY <1>1, <1>2, <1>3, EngineTypeCorrect, PTL DEF Spec

-----------------------------------------------------------------------------
(* The levels on their way to the reader of stdout.                        *)

\* The lines of s that tell a level of i stand in r as well, in their order
\* and with no other: h says where.
Moves(h, s, r, i) ==
  /\ h \in [TellsOf(s, i) -> TellsOf(r, i)]
  /\ \A j, k \in TellsOf(s, i) : j < k => h[j] < h[k]
  /\ \A k \in TellsOf(r, i) : \E j \in TellsOf(s, i) : h[j] = k
  /\ \A j \in TellsOf(s, i) : r[h[j]] = s[j]

\* That q is what the lines of s tell of i, the places of the lines being at.
Places(at, s, i, q) ==
  /\ at \in [DOMAIN q -> TellsOf(s, i)]
  /\ \A j, k \in DOMAIN q : j < k => at[j] < at[k]
  /\ \A k \in TellsOf(s, i) : \E j \in DOMAIN q : at[j] = k
  /\ \A j \in DOMAIN q : s[at[j]].level = q[j]

LEMMA ShowsMoved ==
  ASSUME NEW s, NEW r, NEW i, NEW q, NEW h, Moves(h, s, r, i), Shows(s, i, q)
  PROVE  Shows(r, i, q)
<1>1. PICK at : Places(at, s, i, q)
  BY DEF Shows, Places
<1> DEFINE to == [j \in DOMAIN q |-> h[at[j]]]
<1>2. \A j \in DOMAIN q : at[j] \in TellsOf(s, i) /\ to[j] = h[at[j]]
  BY <1>1 DEF Places
<1>3. to \in [DOMAIN q -> TellsOf(r, i)]
  BY <1>2 DEF Moves
<1> HIDE DEF to
<1>4. \A j, k \in DOMAIN q : j < k => to[j] < to[k]
  BY <1>1, <1>2 DEF Moves, Places
<1>5. ASSUME NEW k \in TellsOf(r, i) PROVE \E j \in DOMAIN q : to[j] = k
  <2>1. PICK l \in TellsOf(s, i) : h[l] = k
    BY DEF Moves
  <2>2. PICK j \in DOMAIN q : at[j] = l
    BY <1>1 DEF Places
  <2> QED BY <1>2, <2>1, <2>2
<1>6. \A j \in DOMAIN q : r[to[j]].level = q[j]
  BY <1>1, <1>2 DEF Moves, Places
<1> QED BY <1>3, <1>4, <1>5, <1>6 DEF Shows

\* Lines of others between two parts of the lines are of no account.
LEMMA OthersBetween ==
  ASSUME NEW a \in Seq(Lines), NEW b \in Seq(Lines), NEW c \in Seq(Lines),
         NEW i, TellsOf(c, i) = {}, NEW q, Shows(a \o b, i, q)
  PROVE  Shows((a \o c) \o b, i, q)
<1>1. /\ a \o b \in Seq(Lines) /\ Len(a \o b) = Len(a) + Len(b)
      /\ \A k \in 1..(Len(a) + Len(b)) :
           (a \o b)[k] = IF k <= Len(a) THEN a[k] ELSE b[k - Len(a)]
  BY ConcatProperties
<1>2. /\ a \o c \in Seq(Lines) /\ Len(a \o c) = Len(a) + Len(c)
      /\ \A k \in 1..(Len(a) + Len(c)) :
           (a \o c)[k] = IF k <= Len(a) THEN a[k] ELSE c[k - Len(a)]
  BY ConcatProperties
<1>3. PICK s \in Seq(Lines), r \in Seq(Lines) : s = a \o b /\ r = (a \o c) \o b
  BY <1>1, <1>2, ConcatProperties
<1>4. /\ Len(r) = Len(a \o c) + Len(b)
      /\ \A k \in 1..(Len(a \o c) + Len(b)) :
           r[k] = IF k <= Len(a \o c) THEN (a \o c)[k] ELSE b[k - Len(a \o c)]
  BY ONLY <1>2, <1>3, b \in Seq(Lines), ConcatProperties
<1>5. PICK x \in Nat, y \in Nat, z \in Nat : x = Len(a) /\ y = Len(b) /\ z = Len(c)
  BY LenProperties
<1>6. DOMAIN s = 1..(x + y) /\ DOMAIN r = 1..(x + z + y) /\ DOMAIN c = 1..z
  <2>1. DOMAIN s = 1..Len(s) /\ DOMAIN r = 1..Len(r) /\ DOMAIN c = 1..Len(c)
    BY LenProperties
  <2> QED BY <1>1, <1>2, <1>3, <1>4, <1>5, <2>1
<1>7. /\ \A k \in 1..x : s[k] = a[k] /\ r[k] = a[k]
      /\ \A k \in (x + 1)..(x + z) : r[k] = c[k - x]
      /\ \A k \in (x + 1)..(x + y) : s[k] = b[k - x] /\ r[k + z] = b[k - x]
  <2>1. /\ \A k \in 1..(x + y) : s[k] = IF k <= x THEN a[k] ELSE b[k - x]
        /\ \A k \in 1..(x + z) : (a \o c)[k] = IF k <= x THEN a[k] ELSE c[k - x]
        /\ \A k \in 1..(x + z + y) :
             r[k] = IF k <= x + z THEN (a \o c)[k] ELSE b[k - (x + z)]
    BY ONLY <1>1, <1>2, <1>3, <1>4, <1>5
  <2>2. \A k \in 1..x : k \in 1..(x + y) /\ k \in 1..(x + z) /\ k \in 1..(x + z + y)
                        /\ k <= x /\ k <= x + z
    OBVIOUS
  <2>3. \A k \in (x + 1)..(x + z) : k \in 1..(x + z) /\ k \in 1..(x + z + y)
                                    /\ ~(k <= x) /\ k <= x + z
    OBVIOUS
  <2>4. \A k \in (x + 1)..(x + y) :
          k \in 1..(x + y) /\ ~(k <= x) /\ k + z \in 1..(x + z + y)
          /\ ~(k + z <= x + z) /\ (k + z) - (x + z) = k - x
    OBVIOUS
  <2>5. \A k \in 1..x : s[k] = a[k] /\ r[k] = a[k]
    BY ONLY <2>1, <2>2
  <2>6. \A k \in (x + 1)..(x + z) : r[k] = c[k - x]
    BY ONLY <2>1, <2>3
  <2>7. ASSUME NEW k \in (x + 1)..(x + y) PROVE s[k] = b[k - x] /\ r[k + z] = b[k - x]
    <3>1. s[k] = b[k - x]
      BY ONLY <2>1, <2>4, k \in (x + 1)..(x + y)
    <3>2. r[k + z] = b[(k + z) - (x + z)]
      BY ONLY <2>1, <2>4, k \in (x + 1)..(x + y)
    <3> QED BY ONLY <2>4, <3>1, <3>2, k \in (x + 1)..(x + y)
  <2> QED BY <2>5, <2>6, <2>7
<1> DEFINE to(k) == IF k <= x THEN k ELSE k + z
           h == [k \in TellsOf(s, i) |-> to(k)]
           Mine(l) == "level" \in DOMAIN l /\ l.connection = i
<1>8. \A k \in 1..(x + y) : to(k) \in 1..(x + z + y) /\ r[to(k)] = s[k]
  <2> SUFFICES ASSUME NEW k \in 1..(x + y)
               PROVE  to(k) \in 1..(x + z + y) /\ r[to(k)] = s[k]
    OBVIOUS
  <2>1. CASE k <= x
    <3>1. to(k) = k /\ k \in 1..x /\ k \in 1..(x + z + y)
      BY <2>1
    <3> QED BY <1>7, <3>1
  <2>2. CASE ~(k <= x)
    <3>1. to(k) = k + z /\ k \in (x + 1)..(x + y) /\ k + z \in 1..(x + z + y)
      BY <2>2
    <3> QED BY <1>7, <3>1
  <2> QED BY <2>1, <2>2
<1>9. /\ \A k : k \in TellsOf(s, i) <=> k \in 1..(x + y) /\ Mine(s[k])
      /\ \A k : k \in TellsOf(r, i) <=> k \in 1..(x + z + y) /\ Mine(r[k])
      /\ \A k \in 1..z : ~Mine(c[k])
  BY <1>6 DEF TellsOf
<1>10. \A j, k \in 1..(x + y) : j < k => to(j) < to(k)
  OBVIOUS
<1>11. ASSUME NEW k \in TellsOf(r, i) PROVE \E j \in TellsOf(s, i) : to(j) = k
  <2>1. k \in 1..(x + z + y) /\ Mine(r[k])
    BY <1>9
  <2>2. PICK j \in 1..(x + y) : to(j) = k
    <3>1. CASE k <= x
      <4>1. k \in 1..(x + y) /\ to(k) = k
        BY <2>1, <3>1
      <4> QED BY <4>1
    <3>2. CASE k > x + z
      <4>1. k - z \in 1..(x + y) /\ ~(k - z <= x) /\ (k - z) + z = k
        BY <2>1, <3>2
      <4> QED BY <4>1
    <3>3. CASE k > x /\ k <= x + z
      <4>1. k \in (x + 1)..(x + z) /\ k - x \in 1..z
        BY <2>1, <3>3
      <4>2. r[k] = c[k - x]
        BY <1>7, <4>1
      <4>3. ~Mine(r[k])
        <5> HIDE DEF Mine
        <5> QED BY <1>9, <4>1, <4>2
      <4> QED BY <2>1, <4>3
    <3> QED BY <2>1, <3>1, <3>2, <3>3
  <2>3. Mine(s[j])
    BY <1>8, <2>1, <2>2
  <2> QED BY <1>9, <2>2, <2>3
<1>12. Moves(h, s, r, i)
  <2> HIDE DEF Mine, to
  <2>1. \A k \in TellsOf(s, i) : h[k] = to(k) /\ k \in 1..(x + y)
    BY <1>9
  <2>2. \A k \in TellsOf(s, i) : to(k) \in TellsOf(r, i) /\ r[to(k)] = s[k]
    <3>1. \A k \in TellsOf(s, i) : k \in 1..(x + y) /\ Mine(s[k])
      BY <1>9
    <3>2. \A k \in TellsOf(s, i) : to(k) \in 1..(x + z + y) /\ r[to(k)] = s[k]
      BY ONLY <1>8, <3>1
    <3>3. \A k \in TellsOf(s, i) : Mine(r[to(k)])
      BY <3>1, <3>2
    <3> QED BY <1>9, <3>2, <3>3
  <2>3. h \in [TellsOf(s, i) -> TellsOf(r, i)]
    BY <2>2
  <2> HIDE DEF h
  <2> QED BY <1>10, <1>11, <2>1, <2>2, <2>3 DEF Moves
<1> HIDE DEF h
<1> QED BY <1>3, <1>12, ShowsMoved

\* A line of i at the end adds a level at the end.
LEMMA OneMore ==
  ASSUME NEW a \in Seq(Lines), NEW i \in Ids, NEW l \in Levels,
         NEW q \in Seq(Levels), Shows(a, i, q)
  PROVE  Shows(a \o <<LevelLine(i, l)>>, i, Append(q, l))
<1>1. LevelLine(i, l) \in Lines
  BY DEF LevelLine, Lines
<1>2. PICK s, p : s = Append(a, LevelLine(i, l)) /\ p = Append(q, l)
  OBVIOUS
<1>3. s = a \o <<LevelLine(i, l)>>
  BY <1>1, <1>2, AppendIsConcat
<1>4. PICK x \in Nat, n \in Nat : x = Len(a) /\ n = Len(q)
  BY LenProperties
<1>5. /\ DOMAIN a = 1..x /\ DOMAIN s = 1..(x + 1)
      /\ DOMAIN q = 1..n /\ DOMAIN p = 1..(n + 1)
  <2>1. /\ s \in Seq(Lines) /\ Len(s) = x + 1 /\ p \in Seq(Levels) /\ Len(p) = n + 1
    BY <1>1, <1>2, <1>4, AppendProperties
  <2> QED BY <1>4, <2>1, LenProperties
<1>6. /\ \A k \in 1..x : s[k] = a[k]
      /\ s[x + 1] = LevelLine(i, l)
      /\ \A k \in 1..n : p[k] = q[k]
      /\ p[n + 1] = l
  BY <1>1, <1>2, <1>4, AppendProperties
<1>7. "level" \in DOMAIN s[x + 1] /\ s[x + 1].connection = i /\ s[x + 1].level = l
  BY <1>6 DEF LevelLine
<1>8. TellsOf(s, i) = TellsOf(a, i) \cup {x + 1} /\ TellsOf(a, i) \subseteq 1..x
  BY <1>5, <1>6, <1>7 DEF TellsOf
<1>9. PICK at : Places(at, a, i, q)
  BY DEF Shows, Places
<1> DEFINE to == [j \in 1..(n + 1) |-> IF j = n + 1 THEN x + 1 ELSE at[j]]
<1>10. /\ \A j \in 1..n : to[j] = at[j] /\ at[j] \in TellsOf(a, i) /\ at[j] \in 1..x
       /\ to[n + 1] = x + 1
  <2>1. \A j \in 1..n : at[j] \in TellsOf(a, i)
    BY <1>5, <1>9 DEF Places
  <2>2. \A j \in 1..n : at[j] \in 1..x
    BY <1>8, <2>1
  <2>3. \A j \in 1..n : j \in 1..(n + 1) /\ j # n + 1
    OBVIOUS
  <2> QED BY <2>1, <2>2, <2>3
<1>11. to \in [1..(n + 1) -> TellsOf(s, i)]
  <2>1. \A j \in 1..(n + 1) : j = n + 1 \/ j \in 1..n
    OBVIOUS
  <2> QED BY <1>8, <1>10, <2>1
<1> HIDE DEF to
<1>12. \A j, k \in 1..(n + 1) : j < k => to[j] < to[k]
  <2> SUFFICES ASSUME NEW j \in 1..(n + 1), NEW k \in 1..(n + 1), j < k
               PROVE  to[j] < to[k]
    OBVIOUS
  <2>1. j \in 1..n /\ (k \in 1..n \/ k = n + 1)
    OBVIOUS
  <2>2. CASE k \in 1..n
    BY <1>5, <1>9, <1>10, <2>1, <2>2 DEF Places
  <2>3. CASE k = n + 1
    <3>1. to[j] \in 1..x /\ to[k] = x + 1
      BY <1>10, <2>1, <2>3
    <3> QED BY ONLY <3>1, x \in Nat
  <2> QED BY <2>1, <2>2, <2>3
<1>13. ASSUME NEW k \in TellsOf(s, i) PROVE \E j \in 1..(n + 1) : to[j] = k
  <2>1. CASE k = x + 1
    <3>1. n + 1 \in 1..(n + 1)
      OBVIOUS
    <3> QED BY <1>10, <2>1, <3>1
  <2>2. CASE k \in TellsOf(a, i)
    <3>1. PICK j \in 1..n : at[j] = k
      BY <1>5, <1>9, <2>2 DEF Places
    <3>2. j \in 1..(n + 1)
      OBVIOUS
    <3> QED BY <1>10, <3>1, <3>2
  <2> QED BY <1>8, <2>1, <2>2
<1>14. ASSUME NEW j \in 1..(n + 1) PROVE s[to[j]].level = p[j]
  <2>1. CASE j \in 1..n
    BY <1>5, <1>6, <1>9, <1>10, <2>1 DEF Places
  <2>2. CASE j = n + 1
    BY <1>6, <1>7, <1>10, <2>2
  <2> QED BY <2>1, <2>2
<1>15. Shows(s, i, p)
  <2>1. /\ to \in [DOMAIN p -> TellsOf(s, i)]
        /\ \A j, k \in DOMAIN p : j < k => to[j] < to[k]
        /\ \A k \in TellsOf(s, i) : \E j \in DOMAIN p : to[j] = k
        /\ \A j \in DOMAIN p : s[to[j]].level = p[j]
    BY <1>5, <1>11, <1>12, <1>13, <1>14
  <2> QED BY ONLY <2>1 DEF Shows
<1> QED BY <1>2, <1>3, <1>15

\* The first line read, its level is the first, or none.
LEMMA OneLess ==
  ASSUME NEW s \in Seq(Lines), s # <<>>, NEW i, NEW q \in Seq(Levels), Shows(s, i, q)
  PROVE  Shows(Tail(s), i, IF 1 \in TellsOf(s, i) THEN SubSeq(q, 2, Len(q)) ELSE q)
<1>1. PICK r \in Seq(Lines) : r = Tail(s)
  BY HeadTailProperties
<1>2. PICK x \in Nat, n \in Nat : Len(s) = x + 1 /\ n = Len(q)
  <2>1. Len(s) \in Nat /\ Len(s) # 0 /\ Len(q) \in Nat
    BY LenProperties, EmptySeq
  <2>2. Len(s) - 1 \in Nat /\ Len(s) = (Len(s) - 1) + 1
    BY <2>1
  <2> QED BY <2>1, <2>2
<1>3. /\ DOMAIN s = 1..(x + 1) /\ DOMAIN r = 1..x /\ DOMAIN q = 1..n
      /\ \A k \in 1..x : r[k] = s[k + 1]
  <2>1. Len(r) = Len(s) - 1 /\ \A k \in 1..Len(r) : r[k] = s[k + 1]
    BY <1>1, HeadTailProperties
  <2>2. Len(r) = x
    BY <1>2, <2>1
  <2> QED BY <1>2, <2>1, <2>2, LenProperties
<1>4. /\ \A k \in TellsOf(r, i) : k \in 1..x /\ k + 1 \in TellsOf(s, i)
      /\ \A k \in TellsOf(s, i) : k \in 1..(x + 1) /\ (k # 1 => k - 1 \in TellsOf(r, i))
  <2>1. \A k \in TellsOf(r, i) : k \in 1..x /\ k + 1 \in TellsOf(s, i)
    <3>1. \A k \in 1..x : k + 1 \in 1..(x + 1)
      OBVIOUS
    <3> QED BY <1>3, <3>1 DEF TellsOf
  <2>2. ASSUME NEW k \in TellsOf(s, i), k # 1 PROVE k - 1 \in TellsOf(r, i)
    <3>1. k \in 1..(x + 1)
      BY <1>3 DEF TellsOf
    <3>2. k - 1 \in 1..x /\ (k - 1) + 1 = k
      BY <2>2, <3>1
    <3>3. r[k - 1] = s[k]
      BY <1>3, <3>2
    <3> QED BY <1>3, <3>2, <3>3 DEF TellsOf
  <2>3. \A k \in TellsOf(s, i) : k \in 1..(x + 1)
    BY <1>3 DEF TellsOf
  <2> QED BY <2>1, <2>2, <2>3
<1>5. CASE 1 \notin TellsOf(s, i)
  <2> DEFINE h == [k \in TellsOf(s, i) |-> k - 1]
  <2>1. \A k \in TellsOf(s, i) : k - 1 \in TellsOf(r, i) /\ k \in Int /\ r[k - 1] = s[k]
    <3>1. ASSUME NEW k \in TellsOf(s, i)
          PROVE  k - 1 \in TellsOf(r, i) /\ k \in Int /\ r[k - 1] = s[k]
      <4>1. k - 1 \in TellsOf(r, i) /\ k \in Int
        BY <1>4, <1>5
      <4>2. k - 1 \in 1..x /\ (k - 1) + 1 = k
        BY <1>4, <4>1
      <4> QED BY <1>3, <4>1, <4>2
    <3> QED BY <3>1
  <2>2. ASSUME NEW k \in TellsOf(r, i) PROVE \E j \in TellsOf(s, i) : h[j] = k
    <3>1. k + 1 \in TellsOf(s, i) /\ (k + 1) - 1 = k
      BY <1>4
    <3> QED BY <3>1
  <2>3. Moves(h, s, r, i)
    BY <2>1, <2>2 DEF Moves
  <2> HIDE DEF h
  <2> QED BY <1>1, <1>5, <2>3, ShowsMoved
<1>6. CASE 1 \in TellsOf(s, i)
  <2>1. PICK at : Places(at, s, i, q)
    BY DEF Shows, Places
  <2>2. \A j \in 1..n : at[j] \in TellsOf(s, i) /\ at[j] \in 1..(x + 1)
    <3>1. \A j \in 1..n : at[j] \in TellsOf(s, i)
      BY <1>3, <2>1 DEF Places
    <3> QED BY <1>4, <3>1
  <2>3. n # 0 /\ at[1] = 1
    <3>1. PICK j \in 1..n : at[j] = 1
      BY <1>3, <1>6, <2>1 DEF Places
    <3>2. j = 1
      <4> SUFFICES ASSUME j # 1 PROVE FALSE
        OBVIOUS
      <4>1. 1 \in 1..n /\ 1 < j
        OBVIOUS
      <4>2. at[1] < at[j]
        BY <1>3, <2>1, <4>1 DEF Places
      <4>3. at[1] \in 1..(x + 1)
        BY <2>2, <4>1
      <4> QED BY ONLY <3>1, <4>2, <4>3, x \in Nat
    <3> QED BY <3>1, <3>2
  <2>4. \A j \in 2..n : at[j] # 1
    <3>1. \A j \in 2..n : j \in 1..n /\ 1 \in 1..n /\ 1 < j
      OBVIOUS
    <3>2. \A j \in 2..n : at[1] < at[j]
      BY <1>3, <2>1, <3>1 DEF Places
    <3> QED BY ONLY <2>3, <3>2
  <2>5. PICK p : p = SubSeq(q, 2, n)
    OBVIOUS
  <2>6. DOMAIN p = 1..(n - 1) /\ \A j \in 1..(n - 1) : p[j] = q[j + 1]
    <3>1. \A j \in 2..n : q[j] \in Levels
      <4>1. \A j \in 2..n : j \in 1..Len(q)
        BY <1>2
      <4> QED BY <4>1, ElementOfSeq
    <3>2. 2 \in Int /\ n \in Int
      OBVIOUS
    <3>3. /\ p \in Seq(Levels) /\ Len(p) = IF 2 <= n THEN n - 2 + 1 ELSE 0
          /\ \A j \in 1..(n - 2 + 1) : p[j] = q[2 + j - 1]
      BY ONLY <2>5, <3>1, <3>2, SubSeqProperties
    <3>4. Len(p) = n - 1 /\ n - 2 + 1 = n - 1 /\ \A j \in 1..(n - 1) : 2 + j - 1 = j + 1
      BY <2>3, <3>3
    <3>5. \A j \in 1..(n - 1) : p[j] = q[j + 1]
      BY ONLY <3>3, <3>4
    <3>6. DOMAIN p = 1..Len(p)
      BY <3>3, LenProperties
    <3> QED BY ONLY <3>4, <3>5, <3>6
  <2> DEFINE to == [j \in 1..(n - 1) |-> at[j + 1] - 1]
  <2>7. ASSUME NEW j \in 1..(n - 1)
        PROVE  /\ j + 1 \in 1..n /\ to[j] = at[j + 1] - 1 /\ to[j] \in TellsOf(r, i)
               /\ at[j + 1] \in Int /\ r[to[j]] = s[at[j + 1]]
    <3>1. j + 1 \in 1..n /\ j + 1 \in 2..n
      OBVIOUS
    <3>2. at[j + 1] \in TellsOf(s, i) /\ at[j + 1] \in 1..(x + 1) /\ at[j + 1] # 1
      BY <2>2, <2>4, <3>1
    <3>3. to[j] = at[j + 1] - 1
      OBVIOUS
    <3>4. at[j + 1] - 1 \in TellsOf(r, i)
      BY <1>4, <3>2
    <3>5. at[j + 1] - 1 \in 1..x /\ (at[j + 1] - 1) + 1 = at[j + 1] /\ at[j + 1] \in Int
      BY ONLY <3>2, x \in Nat
    <3> QED BY <1>3, <3>1, <3>3, <3>4, <3>5
  <2>8. to \in [DOMAIN p -> TellsOf(r, i)]
    BY <2>6, <2>7
  <2> HIDE DEF to
  <2>9. ASSUME NEW j \in DOMAIN p, NEW k \in DOMAIN p, j < k PROVE to[j] < to[k]
    <3>1. j \in 1..(n - 1) /\ k \in 1..(n - 1) /\ j + 1 < k + 1
      BY <2>6, <2>9
    <3>2. at[j + 1] < at[k + 1]
      BY <1>3, <2>1, <2>7, <3>1 DEF Places
    <3>3. \A l \in 1..(n - 1) : to[l] = at[l + 1] - 1 /\ at[l + 1] \in Int
      BY <2>7
    <3>4. /\ to[j] = at[j + 1] - 1 /\ to[k] = at[k + 1] - 1
          /\ at[j + 1] \in Int /\ at[k + 1] \in Int
      BY ONLY <3>1, <3>3
    <3> QED BY ONLY <3>2, <3>4
  <2>10. ASSUME NEW k \in TellsOf(r, i) PROVE \E j \in DOMAIN p : to[j] = k
    <3>1. k \in 1..x /\ k + 1 \in TellsOf(s, i)
      BY <1>4
    <3>2. PICK l \in 1..n : at[l] = k + 1
      BY <1>3, <2>1, <3>1 DEF Places
    <3>3. l # 1
      BY <2>3, <3>1, <3>2
    <3>4. PICK j \in 1..(n - 1) : l = j + 1
      <4>1. l - 1 \in 1..(n - 1) /\ l = (l - 1) + 1
        BY <3>3
      <4> QED BY <4>1
    <3>5. to[j] = (k + 1) - 1
      BY <2>7, <3>2, <3>4
    <3>6. j \in DOMAIN p
      BY <2>6
    <3>7. to[j] = k
      BY ONLY <3>1, <3>5, x \in Nat
    <3> QED BY <3>6, <3>7
  <2>11. ASSUME NEW j \in DOMAIN p PROVE r[to[j]].level = p[j]
    <3>1. j \in 1..(n - 1) /\ j + 1 \in 1..n
      BY <2>6, <2>7
    <3>2. s[at[j + 1]].level = q[j + 1]
      BY <1>3, <2>1, <3>1 DEF Places
    <3> QED BY <2>6, <2>7, <3>1, <3>2
  <2>12. Shows(r, i, p)
    BY <2>8, <2>9, <2>10, <2>11 DEF Shows
  <2> QED BY <1>1, <1>2, <1>6, <2>5, <2>12
<1> QED BY <1>5, <1>6

-----------------------------------------------------------------------------
(* Levels are conserved.                                                   *)

\* And a line that waits in stdio tells no level: those are flushed at once.
ConservedInv ==
  /\ LevelsConserved
  /\ \A k \in DOMAIN stdio : "level" \notin DOMAIN stdio[k]

LEMMA TheLevelIs ==
  ASSUME NEW m \in Reports PROVE TheLevel(m) \in Levels
BY ToldLevels, EngineAssumption DEF EngineAssumption, Reports, TheLevel

\* The code tells what the device tells.
LEMMA CodeTellsIt ==
  ASSUME NEW m \in Msgs, m.kind = "IPHONEACCEV"
  PROVE  /\ Battery(m) # {} <=> m \in Reports
         /\ m \in Reports => LevelOf(m.pairs[Min(Battery(m))].value) = TheLevel(m)
<1>1. m \in Messages
  BY EngineAssumption DEF EngineAssumption
<1>2. m.pairs \in Seq(Pairs)
  BY <1>1 DEF Messages
<1>3. Len(m.pairs) \in Nat /\ DOMAIN m.pairs = 1..Len(m.pairs)
  BY <1>2, LenProperties
<1>4. \A j \in Battery(m) : 10 + 10 * m.pairs[j].value \in Told(m)
  BY OnlyOneBeginsWithOne DEF OnlyOneBeginsWithOne, Battery, Told, Range
<1>5. Told(m) # {} => Battery(m) # {}
  <2>1. Head(<<1>>) = 1
    OBVIOUS
  <2> QED BY <2>1 DEF Battery, Told, Range
<1>6. Battery(m) # {} <=> m \in Reports
  BY <1>4, <1>5 DEF Reports
<1>7. ASSUME m \in Reports
      PROVE  LevelOf(m.pairs[Min(Battery(m))].value) = TheLevel(m)
  <2>1. Battery(m) \in SUBSET (0..Len(m.pairs))
    BY <1>3 DEF Battery
  <2>2. PICK j \in Battery(m) : j = Min(Battery(m))
    BY <1>3, <1>6, <1>7, <2>1, MinOfBounded
  <2>3. j \in 1..Len(m.pairs)
    BY <1>3 DEF Battery
  <2>4. m.pairs[j].value \in 0..9
    <3>1. m.pairs[j] \in Pairs
      BY <1>2, <2>3, ElementOfSeq
    <3> QED BY <3>1 DEF Pairs
  <2>5. LevelOf(m.pairs[j].value) = 10 + 10 * m.pairs[j].value
    BY <2>4 DEF LevelOf
  <2>6. TheLevel(m) \in Told(m)
    BY <1>4, <2>2 DEF TheLevel
  <2>7. 10 + 10 * m.pairs[j].value = TheLevel(m)
    BY <1>4, <2>2, <2>6, OneLevelAtATime DEF OneLevelAtATime
  <2> QED BY <2>2, <2>5, <2>7
<1> QED BY <1>6, <1>7

InHand(i) ==
  IF pc = "report" /\ cur = i THEN <<LevelLine(i, level)>>
  ELSE IF pc = "answer" /\ cur = i /\ heard \in Reports
       THEN <<LevelLine(i, TheLevel(heard))>> ELSE <<>>
InSocket(i) == IF wire[i] \in Reports THEN <<LevelLine(i, TheLevel(wire[i]))>> ELSE <<>>

LEMMA ComingLines ==
  ASSUME TypeOK, NEW i \in Ids
  PROVE  /\ Coming(i) = InHand(i) \o InSocket(i) /\ Coming(i) \in Seq(Lines)
         /\ InHand(i) \in Seq(Lines) /\ InSocket(i) \in Seq(Lines)
         /\ out \in Seq(Lines) /\ stdio \in Seq(Lines) /\ owed[i] \in Seq(Levels)
<1>1. \A l \in Levels : <<LevelLine(i, l)>> \in Seq(Lines)
  BY DEF LevelLine, Lines
<1>2. InHand(i) \in Seq(Lines)
  <2>1. pc = "report" => level \in Levels
    BY DEF TypeOK, LoopTyped
  <2>2. heard \in Reports => TheLevel(heard) \in Levels
    BY TheLevelIs
  <2> QED BY <1>1, <2>1, <2>2 DEF InHand
<1>3. InSocket(i) \in Seq(Lines)
  BY <1>1, TheLevelIs DEF InSocket
<1>4. Coming(i) = InHand(i) \o InSocket(i)
  BY DEF Coming, InHand, InSocket
<1>5. Coming(i) \in Seq(Lines)
  BY <1>2, <1>3, <1>4, ConcatProperties
<1> QED BY <1>2, <1>3, <1>4, <1>5 DEF TypeOK, LinksTyped

\* The rest of a concatenation whose first part is not empty.
LEMMA TailOfConcat ==
  ASSUME NEW S, NEW a \in Seq(S), NEW b \in Seq(S), a # <<>>
  PROVE  Tail(a \o b) = Tail(a) \o b
<1>1. PICK s, t : s = a \o b /\ t = Tail(a)
  OBVIOUS
<1>2. /\ s \in Seq(S) /\ Len(s) = Len(a) + Len(b)
      /\ \A k \in 1..(Len(a) + Len(b)) : s[k] = IF k <= Len(a) THEN a[k] ELSE b[k - Len(a)]
  BY ONLY <1>1, a \in Seq(S), b \in Seq(S), ConcatProperties
<1>3. PICK x \in Nat, y \in Nat : Len(a) = x + 1 /\ Len(b) = y
  <2>1. Len(a) \in Nat /\ Len(a) # 0 /\ Len(b) \in Nat
    BY LenProperties, EmptySeq
  <2>2. Len(a) - 1 \in Nat /\ Len(a) = (Len(a) - 1) + 1
    BY <2>1
  <2> QED BY <2>1, <2>2
<1>4. s # <<>>
  BY <1>2, <1>3
<1>5. /\ t \in Seq(S) /\ Len(t) = x /\ \A k \in 1..x : t[k] = a[k + 1]
  <2>1. t \in Seq(S) /\ Len(t) = Len(a) - 1 /\ \A k \in 1..Len(t) : t[k] = a[k + 1]
    BY <1>1, HeadTailProperties
  <2>2. Len(t) = x
    BY <1>3, <2>1
  <2> QED BY ONLY <2>1, <2>2
<1>6. /\ Tail(s) \in Seq(S) /\ Len(Tail(s)) = x + y
      /\ \A k \in 1..(x + y) : Tail(s)[k] = s[k + 1]
  <2>1. /\ Tail(s) \in Seq(S) /\ Len(Tail(s)) = Len(s) - 1
        /\ \A k \in 1..Len(Tail(s)) : Tail(s)[k] = s[k + 1]
    BY ONLY <1>2, <1>4, HeadTailProperties
  <2>2. Len(Tail(s)) = x + y
    BY <1>2, <1>3, <2>1
  <2> QED BY ONLY <2>1, <2>2
<1>7. /\ t \o b \in Seq(S) /\ Len(t \o b) = x + y
      /\ \A k \in 1..(x + y) : (t \o b)[k] = IF k <= x THEN t[k] ELSE b[k - x]
  <2>1. /\ t \o b \in Seq(S) /\ Len(t \o b) = Len(t) + Len(b)
        /\ \A k \in 1..(Len(t) + Len(b)) : (t \o b)[k] = IF k <= Len(t) THEN t[k] ELSE b[k - Len(t)]
    BY ONLY <1>5, b \in Seq(S), ConcatProperties
  <2> QED BY ONLY <1>3, <1>5, <2>1
<1>8. ASSUME NEW k \in 1..(x + y) PROVE Tail(s)[k] = (t \o b)[k]
  <2>1. Tail(s)[k] = s[k + 1]
    BY <1>6
  <2>2. k + 1 \in 1..(x + 1 + y)
    OBVIOUS
  <2>3. s[k + 1] = IF k + 1 <= x + 1 THEN a[k + 1] ELSE b[k + 1 - (x + 1)]
    BY ONLY <1>2, <1>3, <2>2
  <2>4. CASE k <= x
    <3>1. k + 1 <= x + 1 /\ k \in 1..x
      BY <2>4
    <3> QED BY <1>5, <1>7, <2>1, <2>3, <2>4, <3>1
  <2>5. CASE ~(k <= x)
    <3>1. ~(k + 1 <= x + 1) /\ k + 1 - (x + 1) = k - x
      BY <2>5
    <3> QED BY <1>7, <2>1, <2>3, <2>5, <3>1
  <2> QED BY <2>4, <2>5
<1>9. Tail(s) = t \o b
  BY ONLY <1>6, <1>7, <1>8, SeqEqual
<1> QED BY <1>1, <1>9

NothingInHand == pc \notin {"report", "answer"}

\* What exit() and the end of main() flush are no levels.
LEMMA FlushConserves ==
  ASSUME TypeOK, ConservedInv, out' = out \o stdio, stdio' = <<>>,
         UNCHANGED <<owed, wire>>, NothingInHand, NothingInHand'
  PROVE  ConservedInv'
<1>1. ASSUME NEW i \in Ids PROVE Shows(out \o Coming(i), i, owed[i])'
  <2>1. PICK a, b, c, q : a = out /\ b = Coming(i) /\ c = stdio /\ q = owed[i]
    OBVIOUS
  <2>2. Coming(i)' = b /\ owed'[i] = q
    BY <2>1 DEF Coming, NothingInHand
  <2>3. a \in Seq(Lines) /\ b \in Seq(Lines) /\ c \in Seq(Lines)
    BY <2>1, ComingLines
  <2>4. TellsOf(c, i) = {}
    BY <2>1 DEF ConservedInv, TellsOf
  <2>5. Shows(a \o b, i, q)
    BY <2>1 DEF ConservedInv, LevelsConserved
  <2>6. Shows((a \o c) \o b, i, q)
    BY ONLY <2>3, <2>4, <2>5, OthersBetween
  <2>7. out' = a \o c
    BY <2>1
  <2> QED BY ONLY <2>2, <2>6, <2>7
<1>2. LevelsConserved'
  BY <1>1 DEF LevelsConserved
<1> QED BY <1>2 DEF ConservedInv

\* printf() and fflush() move a level from the main thread to the pipe.
LEMMA ReportConserves == ASSUME TypeOK, ConservedInv, Report PROVE ConservedInv'
<1>1. /\ pc = "report" /\ pc' = "dispatch" /\ stdio' = <<>>
      /\ out' = (out \o stdio) \o <<LevelLine(cur, level)>>
      /\ UNCHANGED <<owed, wire>>
  BY DEF Report, linkVars, LevelLine
<1>2. cur \in Ids /\ level \in Levels
  <2>1. Len(conns) \in Nat /\ Len(later) \in Nat /\ Len(stdin) \in Nat
        /\ Len(typed) \in Nat /\ MaxTyped \in Nat /\ DOMAIN conns = 1..Len(conns)
    BY LenProperties, EngineAssumption DEF TypeOK, TasksTyped, EngineAssumption
  <2>2. cur \in DOMAIN conns /\ level \in Levels
    BY <1>1 DEF TypeOK, LoopTyped
  <2> QED BY <2>1, <2>2 DEF TypeOK, TasksTyped, Ids
<1>3. ASSUME NEW i \in Ids PROVE Shows(out \o Coming(i), i, owed[i])'
  <2>1. PICK a, b, c, d, q, o : /\ a = out /\ b = InSocket(i) /\ c = stdio /\ q = owed[i]
                                /\ d = <<LevelLine(cur, level)>> /\ o = (a \o c) \o d
    OBVIOUS
  <2>2. d \in Seq(Lines)
    BY <1>2, <2>1 DEF LevelLine, Lines
  <2>3. a \in Seq(Lines) /\ b \in Seq(Lines) /\ c \in Seq(Lines)
    BY <2>1, ComingLines
  <2>4. TellsOf(c, i) = {}
    BY <2>1 DEF ConservedInv, TellsOf
  <2>5. Shows(a \o Coming(i), i, q)
    BY <2>1 DEF ConservedInv, LevelsConserved
  <2>6. a \o c \in Seq(Lines)
    BY <2>3, ConcatProperties
  <2>7. out' = o /\ owed'[i] = q
    BY <1>1, <2>1
  <2>8. Coming(i)' = b
    <3>1. Coming(i)' = <<>> \o b
      BY <1>1, <2>1 DEF Coming, InSocket
    <3> QED BY <2>3, <3>1, ConcatEmptySeq
  <2>9. Shows(o \o b, i, q)
    <3>1. CASE cur = i
      <4>1. Coming(i) = d \o b
        BY <1>1, <2>1, <3>1 DEF Coming, InSocket
      <4>2. d \o b \in Seq(Lines)
        BY <2>2, <2>3, ConcatProperties
      <4>3. Shows((a \o c) \o (d \o b), i, q)
        <5>1. Shows(a \o (d \o b), i, q)
          BY <2>5, <4>1
        <5> QED BY ONLY <2>3, <2>4, <4>2, <5>1, OthersBetween
      <4>4. (a \o c) \o (d \o b) = ((a \o c) \o d) \o b
        <5>1. PICK e : e = a \o c
          OBVIOUS
        <5>2. e \in Seq(Lines)
          BY <2>6, <5>1
        <5>3. d \in Seq(Lines) /\ b \in Seq(Lines)
          BY <2>2, <2>3
        <5>4. (e \o d) \o b = e \o (d \o b)
          BY ONLY <5>2, <5>3, ConcatAssociative
        <5> QED BY ONLY <5>1, <5>4
      <4> QED BY ONLY <2>1, <4>3, <4>4
    <3>2. CASE cur # i
      <4>1. Coming(i) = b
        <5>1. Coming(i) = <<>> \o b
          BY <2>1, <3>2 DEF Coming, InSocket
        <5> QED BY <2>3, <5>1, ConcatEmptySeq
      <4>2. Shows((a \o c) \o b, i, q)
        <5>1. Shows(a \o b, i, q)
          BY <2>5, <4>1
        <5> QED BY ONLY <2>3, <2>4, <5>1, OthersBetween
      <4>3. TellsOf(d, i) = {}
        <5>1. DOMAIN d = {1} /\ d[1].connection = cur
          BY <2>1 DEF LevelLine
        <5> QED BY <3>2, <5>1 DEF TellsOf
      <4>4. Shows(((a \o c) \o d) \o b, i, q)
        BY ONLY <2>2, <2>3, <2>6, <4>2, <4>3, OthersBetween
      <4> QED BY ONLY <2>1, <4>4
    <3> QED BY <3>1, <3>2
  <2> QED BY ONLY <2>7, <2>8, <2>9
<1>4. LevelsConserved'
  BY <1>3 DEF LevelsConserved
<1> QED BY <1>1, <1>4 DEF ConservedInv

\* What is in hand and what is in the socket tell the levels together.
LEMMA SameComing ==
  ASSUME TypeOK, ConservedInv, UNCHANGED <<owed, out, stdio>>,
         \A i \in Ids : Coming(i)' = Coming(i)
  PROVE  ConservedInv'
<1>1. ASSUME NEW i \in Ids PROVE Shows(out \o Coming(i), i, owed[i])'
  <2>1. Shows(out \o Coming(i), i, owed[i])
    BY DEF ConservedInv, LevelsConserved
  <2> QED BY <2>1
<1>2. LevelsConserved'
  BY <1>1 DEF LevelsConserved
<1> QED BY <1>2 DEF ConservedInv

\* recv() moves a level from the socket to the main thread.
LEMMA RecvConserves == ASSUME TypeOK, ConservedInv, Recv PROVE ConservedInv'
<1>1. /\ pc = "recv" /\ wire[cur] # NoMsg /\ wire' = [wire EXCEPT ![cur] = NoMsg]
      /\ pc' = "answer" /\ heard' = wire[cur]
      /\ UNCHANGED <<cur, owed, stdio, out>>
  BY DEF Recv, outVars
<1>2. NoMsg \notin Reports
  BY DEF Reports, NoMsg
<1>3. ASSUME NEW i \in Ids PROVE Coming(i)' = Coming(i)
  <2>1. wire'[i] = IF i = cur THEN NoMsg ELSE wire[i]
    BY <1>1 DEF TypeOK, LinksTyped
  <2>2. CASE i # cur \/ wire[i] \notin Reports
    <3>1. InHand(i)' = InHand(i) /\ InSocket(i)' = InSocket(i)
      BY <1>1, <1>2, <2>1, <2>2 DEF InHand, InSocket
    <3> QED BY ONLY <3>1 DEF Coming, InHand, InSocket
  <2>3. CASE i = cur /\ wire[i] \in Reports
    <3>1. PICK d : d = <<LevelLine(i, TheLevel(wire[i]))>>
      OBVIOUS
    <3>2. Coming(i) = <<>> \o d
      BY <1>1, <2>3, <3>1 DEF Coming
    <3>3. Coming(i)' = d \o <<>>
      BY <1>1, <1>2, <2>1, <2>3, <3>1 DEF Coming
    <3>4. d \in Seq({LevelLine(i, TheLevel(wire[i]))})
      BY <3>1
    <3> QED BY ONLY <3>2, <3>3, <3>4, ConcatEmptySeq
  <2> QED BY <2>2, <2>3
<1> QED BY <1>1, <1>3, SameComing

\* The answer leaves a level in hand, now as the number to print, and no
\* branch but that of AT+IPHONEACCEV comes upon one.
LEMMA AnswerConserves ==
  ASSUME TypeOK, ConservedInv, Acknowledge \/ AnswerSiri \/ AnswerAccev
  PROVE  ConservedInv'
<1>1. /\ pc = "answer" /\ heard \in Msgs
      /\ UNCHANGED <<cur, wire, owed, stdio, out>>
  BY DEF Acknowledge, AnswerSiri, AnswerAccev, outVars, TypeOK, LoopTyped
<1>2. ASSUME NEW i \in Ids PROVE InHand(i)' = InHand(i)
  <2>1. CASE Acknowledge \/ AnswerSiri
    <3>1. heard \notin Reports /\ pc' = "recv"
      BY <2>1 DEF Acknowledge, AnswerSiri, Plain, Reports
    <3> QED BY <1>1, <3>1 DEF InHand
  <2>2. CASE AnswerAccev /\ heard \in Reports
    <3>1. pc' = "report" /\ level' = LevelOf(heard.pairs[Min(Battery(heard))].value)
      BY <1>1, <2>2, CodeTellsIt DEF AnswerAccev, ReadPairs, Reports
    <3>2. level' = TheLevel(heard)
      BY <1>1, <2>2, <3>1, CodeTellsIt DEF Reports
    <3> QED BY <1>1, <2>2, <3>1, <3>2 DEF InHand
  <2>3. CASE AnswerAccev /\ heard \notin Reports
    <3>1. pc' = "recv"
      BY <1>1, <2>3, CodeTellsIt DEF AnswerAccev, ReadPairs
    <3> QED BY <1>1, <2>3, <3>1 DEF InHand
  <2> QED BY <2>1, <2>2, <2>3
<1>3. ASSUME NEW i \in Ids PROVE Coming(i)' = Coming(i)
  <2>1. InSocket(i)' = InSocket(i)
    BY <1>1 DEF InSocket
  <2> QED BY ONLY <1>2, <2>1, i \in Ids DEF Coming, InHand, InSocket
<1> QED BY <1>1, <1>3, SameComing

\* A device puts a level into the socket.
LEMMA TalkConserves ==
  ASSUME TypeOK, ConservedInv, NEW j \in Ids, NEW m \in Msgs, Talk(j, m)
  PROVE  ConservedInv'
<1>1. /\ wire[j] = NoMsg /\ wire' = [wire EXCEPT ![j] = m]
      /\ owed' = IF m.kind = "IPHONEACCEV" /\ Told(m) # {}
                 THEN [owed EXCEPT ![j] = Append(@, TheLevel(m))] ELSE owed
      /\ UNCHANGED <<pc, cur, level, heard, stdio, out>>
  BY DEF Talk, outVars, loopVars, saidVars
<1>2. NoMsg \notin Reports
  BY DEF Reports, NoMsg
<1>3. ASSUME NEW i \in Ids PROVE Shows(out \o Coming(i), i, owed[i])'
  <2>1. Shows(out \o Coming(i), i, owed[i])
    BY DEF ConservedInv, LevelsConserved
  <2>2. CASE i # j
    <3>1. wire'[i] = wire[i] /\ owed'[i] = owed[i]
      BY <1>1, <2>2 DEF TypeOK, LinksTyped
    <3>2. Coming(i)' = Coming(i)
      BY <1>1, <3>1 DEF Coming
    <3> QED BY <1>1, <2>1, <3>1, <3>2
  <2>3. CASE i = j /\ m \notin Reports
    <3>1. wire'[i] = m /\ owed'[i] = owed[i] /\ wire[i] = NoMsg
      BY <1>1, <2>3 DEF TypeOK, LinksTyped, Reports
    <3>2. Coming(i)' = Coming(i)
      BY <1>1, <1>2, <2>3, <3>1 DEF Coming
    <3> QED BY <1>1, <2>1, <3>1, <3>2
  <2>4. CASE i = j /\ m \in Reports
    <3>1. PICK a, b, q, l : /\ a = out /\ b = InHand(i) /\ q = owed[i] /\ l = TheLevel(m)
      OBVIOUS
    <3>2. a \in Seq(Lines) /\ b \in Seq(Lines) /\ q \in Seq(Levels) /\ l \in Levels
      BY <2>4, <3>1, ComingLines, TheLevelIs
    <3>3. wire'[i] = m /\ owed'[i] = Append(q, l) /\ wire[i] = NoMsg
      BY <1>1, <2>4, <3>1 DEF TypeOK, LinksTyped, Reports
    <3>4. Coming(i) = b
      <4>1. Coming(i) = b \o <<>>
        BY <1>2, <3>1, <3>3 DEF Coming, InHand
      <4> QED BY <3>2, <4>1, ConcatEmptySeq
    <3>5. Coming(i)' = b \o <<LevelLine(i, l)>>
      BY <1>1, <2>4, <3>1, <3>3 DEF Coming, InHand
    <3>6. a \o b \in Seq(Lines) /\ <<LevelLine(i, l)>> \in Seq(Lines)
      BY <3>2, ConcatProperties DEF LevelLine, Lines
    <3>7. Shows((a \o b) \o <<LevelLine(i, l)>>, i, Append(q, l))
      <4>1. Shows(a \o b, i, q)
        BY <2>1, <3>1, <3>4
      <4> QED BY ONLY i \in Ids, <3>2, <3>6, <4>1, OneMore
    <3>8. (a \o b) \o <<LevelLine(i, l)>> = a \o (b \o <<LevelLine(i, l)>>)
      BY ONLY <3>2, <3>6, ConcatAssociative
    <3>9. out' = a
      BY <1>1, <3>1
    <3> QED BY ONLY <3>3, <3>5, <3>7, <3>8, <3>9
  <2> QED BY <2>2, <2>3, <2>4
<1>4. LevelsConserved'
  BY <1>3 DEF LevelsConserved
<1> QED BY <1>1, <1>4 DEF ConservedInv

\* The reader takes a line out of the pipe.
LEMMA ReadOutConserves == ASSUME TypeOK, ConservedInv, ReadOut PROVE ConservedInv'
<1>1. /\ out # <<>> /\ out' = Tail(out)
      /\ owed' = IF "level" \in DOMAIN Head(out)
                 THEN [owed EXCEPT ![Head(out).connection] = SubSeq(@, 2, Len(@))]
                 ELSE owed
      /\ UNCHANGED <<pc, cur, level, heard, wire, stdio>>
  BY DEF ReadOut, loopVars, saidVars
<1>2. ASSUME NEW i \in Ids PROVE Shows(out \o Coming(i), i, owed[i])'
  <2>1. PICK a, b, q, s : a = out /\ b = Coming(i) /\ q = owed[i] /\ s = a \o b
    OBVIOUS
  <2>2. a \in Seq(Lines) /\ b \in Seq(Lines) /\ q \in Seq(Levels) /\ a # <<>>
    BY <1>1, <2>1, ComingLines
  <2>3. Coming(i)' = b
    BY <1>1, <2>1 DEF Coming
  <2>4. s \in Seq(Lines) /\ s # <<>> /\ s[1] = a[1] /\ 1 \in DOMAIN s
    <3>1. /\ s \in Seq(Lines) /\ Len(s) = Len(a) + Len(b)
          /\ \A k \in 1..(Len(a) + Len(b)) : s[k] = IF k <= Len(a) THEN a[k] ELSE b[k - Len(a)]
      BY ONLY <2>1, <2>2, ConcatProperties
    <3>2. Len(a) \in Nat \ {0} /\ Len(b) \in Nat
      BY <2>2, LenProperties, EmptySeq
    <3>3. DOMAIN s = 1..Len(s)
      BY <3>1, LenProperties
    <3> QED BY <3>1, <3>2, <3>3
  <2>5. Tail(s) = Tail(a) \o b
    BY ONLY <2>1, <2>2, TailOfConcat
  <2>6. Head(out) = s[1] /\ Head(out) \in Lines
    BY <2>1, <2>2, <2>4, HeadTailProperties
  <2>7. owed'[i] = IF 1 \in TellsOf(s, i) THEN SubSeq(q, 2, Len(q)) ELSE q
    <3>1. 1 \in TellsOf(s, i) <=> "level" \in DOMAIN s[1] /\ s[1].connection = i
      BY <2>4 DEF TellsOf
    <3>2. owed \in [Ids -> Seq(Levels)]
      BY DEF TypeOK, LinksTyped
    <3> QED BY <1>1, <2>1, <2>6, <3>1, <3>2
  <2>8. Shows(s, i, q)
    BY <2>1 DEF ConservedInv, LevelsConserved
  <2>9. Shows(Tail(s), i, IF 1 \in TellsOf(s, i) THEN SubSeq(q, 2, Len(q)) ELSE q)
    BY ONLY <2>2, <2>4, <2>8, OneLess
  <2>10. out' = Tail(a)
    BY <1>1, <2>1
  <2> QED BY ONLY <2>3, <2>5, <2>7, <2>9, <2>10
<1>3. LevelsConserved'
  BY <1>2 DEF LevelsConserved
<1> QED BY <1>1, <1>3 DEF ConservedInv

\* Each level a device tells is printed once, in order and as its own,
\* whatever else the engine does (battery_level_engine.c:234-310, main.c).
THEOREM NoLevelIsLost == Spec => []LevelsConserved
<1>1. Init => ConservedInv
  <2> SUFFICES ASSUME Init PROVE ConservedInv
    OBVIOUS
  <2>1. ASSUME NEW i \in Ids PROVE Shows(out \o Coming(i), i, owed[i])
    <3>1. out = <<>> /\ owed[i] = <<>> /\ NothingInHand /\ wire[i] = NoMsg
      BY DEF Init, NothingInHand
    <3>2. NoMsg \notin Reports
      BY DEF Reports, NoMsg
    <3>3. Coming(i) = <<>> \o <<>>
      BY <3>1, <3>2 DEF Coming, NothingInHand
    <3>4. <<>> \o <<>> = <<>>
      OBVIOUS
    <3>5. TellsOf(<<>>, i) = {}
      BY DEF TellsOf
    <3>6. Shows(<<>>, i, <<>>)
      <4> DEFINE at == [j \in {} |-> 0]
      <4>1. at \in [DOMAIN <<>> -> TellsOf(<<>>, i)]
        OBVIOUS
      <4> QED BY <3>5, <4>1 DEF Shows
    <3> QED BY <3>1, <3>3, <3>4, <3>6
  <2> QED BY <2>1 DEF ConservedInv, LevelsConserved, Init
<1>2. TypeOK /\ ConservedInv /\ [Next]_vars => ConservedInv'
  <2> SUFFICES ASSUME TypeOK, ConservedInv, [Next]_vars PROVE ConservedInv'
    OBVIOUS
  <2>1. CASE /\ UNCHANGED <<owed, wire, out>>
             /\ \/ UNCHANGED <<pc, cur, level, heard>>
                \/ NothingInHand /\ NothingInHand'
             /\ \/ UNCHANGED stdio
                \/ \E n : stdio' = Append(stdio, [devices |-> n])
    <3>1. \A i \in Ids : Coming(i)' = Coming(i)
      BY <2>1 DEF Coming, NothingInHand
    <3>2. ASSUME NEW i \in Ids PROVE Shows(out \o Coming(i), i, owed[i])'
      <4>1. Shows(out \o Coming(i), i, owed[i])
        BY DEF ConservedInv, LevelsConserved
      <4> QED BY <2>1, <3>1, <4>1
    <3>3. LevelsConserved'
      BY <3>2 DEF LevelsConserved
    <3>4. \A k \in DOMAIN stdio' : "level" \notin DOMAIN stdio'[k]
      <4>1. CASE UNCHANGED stdio
        BY <4>1 DEF ConservedInv
      <4>2. ASSUME NEW n, stdio' = Append(stdio, [devices |-> n])
            PROVE  \A k \in DOMAIN stdio' : "level" \notin DOMAIN stdio'[k]
        <5>1. /\ stdio \in Seq(Lines \cup {[devices |-> n]})
              /\ [devices |-> n] \in Lines \cup {[devices |-> n]}
          BY DEF TypeOK, LinksTyped
        <5>2. PICK x \in Nat : x = Len(stdio) /\ DOMAIN stdio = 1..x
          BY <5>1, LenProperties
        <5>3. /\ DOMAIN stdio' = 1..(x + 1) /\ \A k \in 1..x : stdio'[k] = stdio[k]
              /\ stdio'[x + 1] = [devices |-> n]
          <6>1. /\ stdio' \in Seq(Lines \cup {[devices |-> n]}) /\ Len(stdio') = Len(stdio) + 1
                /\ \A k \in 1..Len(stdio) : stdio'[k] = stdio[k]
                /\ stdio'[Len(stdio) + 1] = [devices |-> n]
            BY <4>2, <5>1, AppendProperties
          <6>2. DOMAIN stdio' = 1..Len(stdio')
            BY <6>1, LenProperties
          <6> QED BY <5>2, <6>1, <6>2
        <5>4. "level" \notin DOMAIN [devices |-> n]
          OBVIOUS
        <5>5. \A k \in 1..(x + 1) : k \in 1..x \/ k = x + 1
          OBVIOUS
        <5> QED BY <5>2, <5>3, <5>4, <5>5 DEF ConservedInv
      <4> QED BY <2>1, <4>1, <4>2
    <3> QED BY <3>3, <3>4 DEF ConservedInv
  <2>2. CASE /\ out' = out \o stdio /\ stdio' = <<>> /\ UNCHANGED <<owed, wire>>
             /\ NothingInHand /\ NothingInHand'
    BY <2>2, FlushConserves
  <2>3. ReadStdin \/ FireCommand
          => /\ UNCHANGED <<owed, wire, out>> /\ NothingInHand /\ NothingInHand'
             /\ \/ UNCHANGED stdio
                \/ \E n : stdio' = Append(stdio, [devices |-> n])
    BY DEF ReadStdin, FireCommand, Exec, Timeout, Garbled, Stop, ConnectTo, List,
           Unknown, linkVars, outVars, NothingInHand
  <2>4. PollEvents \/ ReadSignal \/ Pass \/ Connect \/ Refused \/ EnterRecv \/ RecvError
          => UNCHANGED <<owed, wire, out, stdio>> /\ NothingInHand /\ NothingInHand'
    BY DEF PollEvents, ReadSignal, Pass, Connect, Refused, EnterRecv, RecvError,
           linkVars, outVars, loopVars, NothingInHand
  <2>5. Teardown \/ ConnectFails
          => /\ out' = out \o stdio /\ stdio' = <<>> /\ UNCHANGED <<owed, wire>>
             /\ NothingInHand /\ NothingInHand'
    BY DEF Teardown, ConnectFails, ExitFailure, linkVars, NothingInHand
  <2>6. FireResult
          => /\ UNCHANGED <<owed, wire>> /\ NothingInHand /\ NothingInHand'
             /\ \/ out' = out \o stdio /\ stdio' = <<>>
                \/ UNCHANGED <<out, stdio>>
    BY DEF FireResult, ExitFailure, linkVars, outVars, NothingInHand
  <2>7. SearchEnds \/ Type \/ CloseStdin \/ Terminate \/ UNCHANGED vars
          => UNCHANGED <<owed, wire, out, stdio, pc, cur, level, heard>>
    BY DEF SearchEnds, Type, CloseStdin, Terminate, vars, linkVars, outVars,
           loopVars, saidVars
  <2>8. ASSUME NEW i \in Ids, HangUp(i)
        PROVE  UNCHANGED <<owed, wire, out, stdio, pc, cur, level, heard>>
    BY <2>8 DEF HangUp, outVars, loopVars, saidVars
  <2>9. CASE Main
    BY <2>1, <2>2, <2>3, <2>4, <2>5, <2>6, <2>9, ReportConserves, RecvConserves,
       AnswerConserves DEF Main
  <2>10. CASE Devices
    BY <2>1, <2>8, <2>10, TalkConserves DEF Devices
  <2> QED BY <2>1, <2>7, <2>9, <2>10, ReadOutConserves DEF Next
<1>3. ConservedInv => LevelsConserved
  BY DEF ConservedInv
<1> QED BY <1>1, <1>2, <1>3, EngineTypeCorrect, PTL DEF Spec
=============================================================================
