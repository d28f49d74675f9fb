--------------------------- MODULE ExtensionProofs ---------------------------
(***************************************************************************)
(* Theorems about Extension, for any set of devices, any lines an engine   *)
(* may print, and any number of calls and of processes.                    *)
(***************************************************************************)
EXTENDS Extension, FiniteSetTheorems, TLAPS

Device == [mac : Macs, connected : BOOLEAN, lvl : Lines \cup {Unknown}, started : BOOLEAN]
Process(D) == [obj : D, alive : BOOLEAN, watched : BOOLEAN, told : BOOLEAN,
               line : Lines \cup {Unknown}, read : Lines \cup {Unknown}]

\* OneEngine without a cardinality: what a watch is and what a mark means.
Watched ==
  /\ \A p, q \in DOMAIN procs :
       procs[p].watched /\ procs[q].watched /\ procs[p].obj = procs[q].obj => p = q
  /\ \A o \in DOMAIN objs :
       objs[o].started <=> \E p \in DOMAIN procs : procs[p].obj = o /\ procs[p].watched

Budget == enables + events <= MaxEvents

IInv == TypeOK /\ Budget /\ Watched /\ Registered /\ NoEngineLeftBehind

-----------------------------------------------------------------------------
(* The devices and the processes alone, while the rest stays as it is.     *)

\* What start() may do to a list of devices and to the processes.
LEMMA Starting ==
  ASSUME NEW STATE D, NEW STATE os, os \in Seq(Device), D = DOMAIN os,
         NEW STATE o, o \in D, procs \in Seq(Process(D)), Start(os, o),
         \A p, q \in DOMAIN procs :
           procs[p].watched /\ procs[q].watched /\ procs[p].obj = procs[q].obj => p = q,
         \A d \in D :
           os[d].started <=> \E p \in DOMAIN procs : procs[p].obj = d /\ procs[p].watched
  PROVE  /\ objs' \in Seq(Device) /\ DOMAIN objs' = D
         /\ \A d \in D : objs'[d].mac = os[d].mac /\ objs'[d].lvl = os[d].lvl
         /\ procs' \in Seq(Process(D))
         /\ \A p \in DOMAIN procs : p \in DOMAIN procs' /\ procs'[p] = procs[p]
         /\ \A p \in DOMAIN procs' : p \in DOMAIN procs \/ procs'[p] = NewProcess(o)
         /\ Watched'
<1>1. PICK spawned \in BOOLEAN :
        LET starts == os[o].connected /\ ~os[o].started /\ spawned IN
          /\ spawned => Len(procs) < MaxProcs
          /\ objs' = [os EXCEPT ![o].started = @ \/ starts]
          /\ procs' = IF starts THEN Append(procs, NewProcess(o)) ELSE procs
  BY DEF Start
<1> DEFINE starts == os[o].connected /\ ~os[o].started /\ spawned
<1>2. /\ objs' = [os EXCEPT ![o].started = @ \/ starts]
      /\ procs' = IF starts THEN Append(procs, NewProcess(o)) ELSE procs
  BY <1>1
<1>3. os[o] \in Device /\ starts \in BOOLEAN
  <2>1. \A x \in DOMAIN os : os[x] \in Device
    OBVIOUS
  <2> QED BY <2>1
<1> HIDE DEF starts
<1>4. /\ objs' \in Seq(Device) /\ DOMAIN objs' = D
      /\ \A d \in D : objs'[d].started <=> (os[d].started \/ (d = o /\ starts))
      /\ \A d \in D : objs'[d].mac = os[d].mac /\ objs'[d].lvl = os[d].lvl
  <2> DEFINE e == [os[o] EXCEPT !.started = os[o].started \/ starts]
  <2>1. os \in [1..Len(os) -> Device] /\ Len(os) \in Nat /\ D = 1..Len(os)
    OBVIOUS
  <2>2. (os[o].started \/ starts) \in BOOLEAN
    OBVIOUS
  <2>3. e \in Device /\ e.started = (os[o].started \/ starts)
        /\ e.mac = os[o].mac /\ e.lvl = os[o].lvl
    BY <1>3, <2>2 DEF Device
  <2>4. objs' = [os EXCEPT ![o] = e]
    BY <1>2, <2>1
  <2> HIDE DEF e
  <2>5. objs' \in [1..Len(os) -> Device]
    BY <2>1, <2>3, <2>4
  <2>6. objs'[o] = e /\ \A d \in D : d # o => objs'[d] = os[d]
    BY <2>1, <2>4
  <2>7. objs' \in Seq(Device) /\ DOMAIN objs' = D
    BY <2>1, <2>5
  <2> QED BY <2>3, <2>6, <2>7
<1>5. CASE ~starts
  BY <1>2, <1>4, <1>5 DEF Watched
<1>6. CASE starts
  <2>1. NewProcess(o) \in Process(D)
    BY DEF NewProcess, Process
  <2>2. procs' = Append(procs, NewProcess(o))
    BY <1>2, <1>6
  <2>3. /\ procs' \in Seq(Process(D))
        /\ DOMAIN procs = 1..Len(procs)
        /\ DOMAIN procs' = 1..(Len(procs) + 1)
        /\ Len(procs) \in Nat
        /\ \A p \in DOMAIN procs : procs'[p] = procs[p]
        /\ procs'[Len(procs) + 1] = NewProcess(o)
    BY <2>1, <2>2
  <2>4. /\ NewProcess(o).obj = o /\ NewProcess(o).watched
    BY DEF NewProcess
  <2>5. \A p \in DOMAIN procs : ~(procs[p].obj = o /\ procs[p].watched)
    BY <1>6 DEF starts
  <2>6. \A p \in DOMAIN procs' : p \in DOMAIN procs \/ p = Len(procs) + 1
    BY <2>3
  <2>7. ASSUME NEW p \in DOMAIN procs', NEW q \in DOMAIN procs',
               procs'[p].watched, procs'[q].watched, procs'[p].obj = procs'[q].obj
        PROVE  p = q
    BY <2>3, <2>4, <2>5, <2>6, <2>7
  <2>8. ASSUME NEW d \in DOMAIN objs'
        PROVE  objs'[d].started <=>
                 \E p \in DOMAIN procs' : procs'[p].obj = d /\ procs'[p].watched
    <3>1. CASE d = o
      <4>1. Len(procs) + 1 \in DOMAIN procs'
        BY <2>3
      <4> QED BY <1>4, <1>6, <2>3, <2>4, <3>1, <4>1
    <3>2. CASE d # o
      <4>1. ASSUME NEW p \in DOMAIN procs', procs'[p].obj = d
            PROVE  p \in DOMAIN procs /\ procs'[p] = procs[p]
        BY <2>3, <2>4, <2>6, <3>2, <4>1
      <4>2. \A p \in DOMAIN procs : p \in DOMAIN procs' /\ procs'[p] = procs[p]
        BY <2>3
      <4> QED BY <1>4, <2>8, <3>2, <4>1, <4>2
    <3> QED BY <3>1, <3>2
  <2> QED BY <1>4, <2>3, <2>4, <2>6, <2>7, <2>8 DEF Watched
<1> QED BY <1>5, <1>6

\* What a signal of a row may do to them: nothing is taken away, and a new
\* process belongs to a device of the list.
Grown ==
  /\ objs' \in Seq(Device) /\ DOMAIN objs \subseteq DOMAIN objs'
  /\ procs' \in Seq(Process(DOMAIN objs'))
  /\ list \subseteq list' /\ list' \subseteq DOMAIN objs'
  /\ \A p \in DOMAIN procs : p \in DOMAIN procs' /\ procs'[p] = procs[p]
  /\ \A p \in DOMAIN procs' :
       p \in DOMAIN procs \/ \E o \in list' : procs'[p] = NewProcess(o)
  /\ \A d \in DOMAIN objs : objs'[d].mac = objs[d].mac /\ objs'[d].lvl = objs[d].lvl
  /\ \A d \in DOMAIN objs' : d \in DOMAIN objs \/ objs'[d].lvl = Unknown
  /\ Watched'

LEMMA Unchanged ==
  ASSUME TypeOK, Watched, UNCHANGED engines
  PROVE  Grown
BY DEF Grown, engines, TypeOK, Watched, Device, Process

LEMMA Widening ==
  ASSUME NEW STATE D, NEW STATE E, D \subseteq E, procs \in Seq(Process(D))
  PROVE  procs \in Seq(Process(E))
<1>1. Process(D) \subseteq Process(E)
  BY DEF Process
<1>2. procs \in [1..Len(procs) -> Process(D)] /\ Len(procs) \in Nat
  OBVIOUS
<1>3. procs \in [1..Len(procs) -> Process(E)]
  BY <1>1, <1>2
<1> QED BY <1>2, <1>3

LEMMA Adding ==
  ASSUME TypeOK, Watched, NEW m \in Macs, NEW c \in BOOLEAN, AddDevice(m, c)
  PROVE  Grown
<1>1. CASE UNCHANGED engines
  BY <1>1, Unchanged
<1>2. CASE /\ list' = list \cup {Len(objs) + 1}
           /\ Start(Append(objs, NewDevice(m, c)), Len(objs) + 1)
  <2> DEFINE o == Len(objs) + 1
             os == Append(objs, NewDevice(m, c))
             D == DOMAIN os
  <2>1. objs \in Seq(Device) /\ procs \in Seq(Process(DOMAIN objs)) /\ list \subseteq DOMAIN objs
    BY DEF TypeOK, Device, Process
  <2>2. NewDevice(m, c) \in Device /\ ~NewDevice(m, c).started
    BY DEF NewDevice, Device
  <2>3. /\ os \in Seq(Device) /\ D = 1..(Len(objs) + 1) /\ DOMAIN objs = 1..Len(objs)
        /\ Len(objs) \in Nat /\ os[o] = NewDevice(m, c)
        /\ \A d \in DOMAIN objs : os[d] = objs[d]
    BY <2>1, <2>2
  <2>4. DOMAIN objs \subseteq D /\ o \in D /\ \A d \in D : d \in DOMAIN objs \/ d = o
    BY <2>3
  <2>5. o \notin DOMAIN objs
    BY <2>3
  <2>6. \A p \in DOMAIN procs : procs[p].obj \in DOMAIN objs
    <3>1. \A p \in DOMAIN procs : procs[p] \in Process(DOMAIN objs)
      BY <2>1
    <3> QED BY <3>1 DEF Process
  <2>7. \A d \in D :
          os[d].started <=> \E p \in DOMAIN procs : procs[p].obj = d /\ procs[p].watched
    BY <2>2, <2>3, <2>4, <2>5, <2>6 DEF Watched
  <2>8. procs \in Seq(Process(D))
    BY <2>1, <2>4, Widening
  <2>9. \A p, q \in DOMAIN procs :
          procs[p].watched /\ procs[q].watched /\ procs[p].obj = procs[q].obj => p = q
    BY DEF Watched
  <2> HIDE DEF os, D, o
  <2>10. Start(os, o)
    BY <1>2 DEF os, o
  <2>11. /\ objs' \in Seq(Device) /\ DOMAIN objs' = D
         /\ \A d \in D : objs'[d].mac = os[d].mac /\ objs'[d].lvl = os[d].lvl
         /\ procs' \in Seq(Process(D))
         /\ \A p \in DOMAIN procs : p \in DOMAIN procs' /\ procs'[p] = procs[p]
         /\ \A p \in DOMAIN procs' : p \in DOMAIN procs \/ procs'[p] = NewProcess(o)
         /\ Watched'
    BY <2>3, <2>4, <2>7, <2>8, <2>9, <2>10, Starting DEF D
  <2>12. list' = list \cup {o}
    BY <1>2 DEF o
  <2>13. os[o].lvl = Unknown /\ \A d \in DOMAIN objs : os[d] = objs[d]
    BY <2>3 DEF NewDevice
  <2> QED BY <2>1, <2>4, <2>11, <2>12, <2>13 DEF Grown
<1> QED BY <1>1, <1>2 DEF AddDevice

LEMMA Updating ==
  ASSUME TypeOK, Watched, NEW m \in Macs, NEW c \in BOOLEAN, UpdateDevice(m, c)
  PROVE  Grown
<1>1. CASE Listed(m) = {} /\ UNCHANGED <<objs, procs>>
  BY <1>1, Unchanged DEF UpdateDevice, engines
<1>2. CASE \E o \in Listed(m) : Start([objs EXCEPT ![o].connected = c], o)
  <2> PICK o \in Listed(m) : Start([objs EXCEPT ![o].connected = c], o)
    BY <1>2
  <2> DEFINE os == [objs EXCEPT ![o].connected = c]
             D == DOMAIN objs
  <2>1. objs \in Seq(Device) /\ procs \in Seq(Process(D)) /\ list \subseteq D
    BY DEF TypeOK, Device, Process
  <2>2. o \in list /\ o \in D /\ list' = list
    BY <2>1 DEF Listed, UpdateDevice
  <2>3. /\ os \in Seq(Device) /\ D = DOMAIN os
        /\ \A d \in D : os[d].started = objs[d].started
        /\ \A d \in D : os[d].mac = objs[d].mac /\ os[d].lvl = objs[d].lvl
    <3> DEFINE e == [objs[o] EXCEPT !.connected = c]
    <3>1. objs \in [1..Len(objs) -> Device] /\ Len(objs) \in Nat /\ D = 1..Len(objs)
      BY <2>1
    <3>2. objs[o] \in Device
      BY <2>2, <3>1
    <3>3. e \in Device /\ e.started = objs[o].started
          /\ e.mac = objs[o].mac /\ e.lvl = objs[o].lvl
      BY <3>2 DEF Device
    <3>4. os = [objs EXCEPT ![o] = e]
      BY <2>2, <3>1
    <3> HIDE DEF e
    <3>5. os \in [1..Len(objs) -> Device]
      BY <3>1, <3>3, <3>4
    <3>6. os[o] = e /\ \A d \in D : d # o => os[d] = objs[d]
      BY <2>2, <3>1, <3>4
    <3> HIDE DEF os
    <3> QED BY <3>1, <3>3, <3>5, <3>6
  <2>4. Start(os, o)
    OBVIOUS
  <2> HIDE DEF os, D
  <2>5. /\ \A p, q \in DOMAIN procs :
             procs[p].watched /\ procs[q].watched /\ procs[p].obj = procs[q].obj => p = q
        /\ \A d \in D :
             os[d].started <=> \E p \in DOMAIN procs : procs[p].obj = d /\ procs[p].watched
    BY <2>3 DEF Watched, D
  <2>6. /\ objs' \in Seq(Device) /\ DOMAIN objs' = D
        /\ \A d \in D : objs'[d].mac = os[d].mac /\ objs'[d].lvl = os[d].lvl
        /\ procs' \in Seq(Process(D))
        /\ \A p \in DOMAIN procs : p \in DOMAIN procs' /\ procs'[p] = procs[p]
        /\ \A p \in DOMAIN procs' : p \in DOMAIN procs \/ procs'[p] = NewProcess(o)
        /\ Watched'
    BY <2>1, <2>2, <2>3, <2>4, <2>5, Starting
  <2> QED BY <2>1, <2>2, <2>3, <2>6 DEF Grown, D
<1> QED BY <1>1, <1>2 DEF UpdateDevice

-----------------------------------------------------------------------------
(* The steps, each with all it changes.                                    *)

Labels == {Shell, Count} \cup [kind : {"level"}, mac : Macs, lvl : Lines \cup {100}]

LEMMA Types ==
  ASSUME TypeOK
  PROVE  /\ on \in BOOLEAN /\ enables \in Nat /\ events \in Nat
         /\ objs \in Seq(Device) /\ procs \in Seq(Process(DOMAIN objs))
         /\ \A o \in DOMAIN objs : objs[o] \in Device
         /\ \A p \in DOMAIN procs : procs[p] \in Process(DOMAIN objs)
         /\ label \in Labels
<1>1. objs \in Seq(Device) /\ procs \in Seq(Process(DOMAIN objs))
  BY DEF TypeOK, Device, Process
<1>2. /\ \A o \in DOMAIN objs : objs[o] \in Device
      /\ \A p \in DOMAIN procs : procs[p] \in Process(DOMAIN objs)
  BY <1>1
<1> QED BY <1>1, <1>2, ExtensionAssumption DEF TypeOK, Labels

LEMMA Initial == Init => IInv
<1> SUFFICES ASSUME Init PROVE IInv
  OBVIOUS
<1> USE DEF Init
<1>1. TypeOK
  <2>1. objs \in Seq(Device) /\ procs \in Seq(Process(DOMAIN objs))
    OBVIOUS
  <2>2. enables \in 0..MaxEvents /\ events \in 0..MaxEvents
    BY ExtensionAssumption
  <2> QED BY <2>1, <2>2 DEF TypeOK, Device, Process
<1>2. Budget /\ Watched /\ Registered /\ NoEngineLeftBehind
  BY ExtensionAssumption DEF Budget, Watched, Registered, NoEngineLeftBehind
<1> QED BY <1>1, <1>2 DEF IInv

\* A row was inserted or has changed, or any other signal came.
LEMMA Signal ==
  ASSUME IInv, Event, Trigger, Grown, rows' \subseteq Macs,
         UNCHANGED <<on, heard, lost, enables>>,
         heard # {} \/ UNCHANGED engines
  PROVE  IInv'
<1> USE DEF IInv
<1>1. TypeOK'
  <2>1. events' \in 0..MaxEvents
    BY ExtensionAssumption DEF Event, TypeOK
  <2>2. pending' \subseteq 1..enables' /\ hooks' \subseteq 1..enables'
    BY DEF Trigger, TypeOK
  <2>3. label' \in Labels
    BY DEF Trigger, Labels
  <2>4. lost' \subseteq DOMAIN objs'
    BY DEF Grown, TypeOK
  <2> QED BY <2>1, <2>2, <2>3, <2>4 DEF TypeOK, Grown, Labels, Device, Process
<1>2. Budget' /\ Watched'
  BY ExtensionAssumption DEF Event, Budget, TypeOK, Grown
<1>3. Registered'
  BY DEF Registered, Trigger
<1>4. NoEngineLeftBehind'
  <2>1. CASE UNCHANGED engines
    BY <2>1 DEF NoEngineLeftBehind, engines
  <2>2. CASE heard # {}
    <3>1. on /\ on'
      BY <2>2 DEF Registered
    <3> SUFFICES ASSUME NEW p \in DOMAIN procs', procs'[p].watched, procs'[p].alive
                 PROVE  \/ procs'[p].told \/ procs'[p].obj \in lost'
                        \/ (on' /\ procs'[p].obj \in list')
      BY DEF NoEngineLeftBehind
    <3>2. CASE p \in DOMAIN procs
      BY <3>1, <3>2 DEF Grown, NoEngineLeftBehind
    <3>3. CASE \E o \in list' : procs'[p] = NewProcess(o)
      BY <3>1, <3>3 DEF NewProcess
    <3> QED BY <3>2, <3>3 DEF Grown
  <2> QED BY <2>1, <2>2
<1> QED BY <1>1, <1>2, <1>3, <1>4

\* The marks and the watches are as they were.
LEMMA StillWatched ==
  ASSUME Watched, DOMAIN procs' = DOMAIN procs, DOMAIN objs' = DOMAIN objs,
         \A o \in DOMAIN objs : objs'[o].started <=> objs[o].started,
         \A p \in DOMAIN procs :
           procs'[p].obj = procs[p].obj /\ (procs'[p].watched <=> procs[p].watched)
  PROVE  Watched'
<1>1. ASSUME NEW p \in DOMAIN procs', NEW q \in DOMAIN procs',
             procs'[p].watched, procs'[q].watched, procs'[p].obj = procs'[q].obj
      PROVE  p = q
  BY <1>1 DEF Watched
<1>2. ASSUME NEW o \in DOMAIN objs'
      PROVE  objs'[o].started <=>
               \E p \in DOMAIN procs' : procs'[p].obj = o /\ procs'[p].watched
  BY DEF Watched
<1> QED BY <1>1, <1>2 DEF Watched

\* A process went on: it printed, was read, was told or ended, and its
\* device may have got a level.
LEMMA Going ==
  ASSUME IInv, UNCHANGED <<on, heard, hooks, pending, rows, list, lost, enables, events>>,
         objs' \in Seq(Device), DOMAIN objs' = DOMAIN objs,
         procs' \in Seq(Process(DOMAIN objs)), DOMAIN procs' = DOMAIN procs,
         \A o \in DOMAIN objs : objs'[o].started <=> objs[o].started,
         \A p \in DOMAIN procs :
           /\ procs'[p].obj = procs[p].obj /\ (procs'[p].watched <=> procs[p].watched)
           /\ (procs'[p].told <=> procs[p].told) /\ (procs'[p].alive => procs[p].alive),
         label' \in Labels
  PROVE  IInv'
<1> USE DEF IInv
<1>1. TypeOK'
  BY DEF TypeOK, Labels, Device, Process
<1>2. Budget' /\ Registered'
  BY DEF Budget, Registered
<1>3. Watched'
  BY StillWatched
<1>4. NoEngineLeftBehind'
  BY DEF NoEngineLeftBehind
<1> QED BY <1>1, <1>2, <1>3, <1>4

\* One process of the list replaced by another.
LEMMA Replacing ==
  ASSUME NEW STATE D, procs \in Seq(Process(D)), NEW STATE p, p \in DOMAIN procs,
         NEW STATE e, e \in Process(D), procs' = [procs EXCEPT ![p] = e]
  PROVE  /\ procs' \in Seq(Process(D)) /\ DOMAIN procs' = DOMAIN procs
         /\ procs'[p] = e
         /\ \A q \in DOMAIN procs : q # p => procs'[q] = procs[q]
<1>1. procs \in [1..Len(procs) -> Process(D)] /\ Len(procs) \in Nat
      /\ DOMAIN procs = 1..Len(procs)
  OBVIOUS
<1>2. procs' \in [1..Len(procs) -> Process(D)]
  BY <1>1
<1> QED BY <1>1, <1>2

\* One device of the list replaced by another.
LEMMA ReplacingDevice ==
  ASSUME objs \in Seq(Device), NEW STATE o, o \in DOMAIN objs,
         NEW STATE e, e \in Device, objs' = [objs EXCEPT ![o] = e]
  PROVE  /\ objs' \in Seq(Device) /\ DOMAIN objs' = DOMAIN objs
         /\ objs'[o] = e
         /\ \A d \in DOMAIN objs : d # o => objs'[d] = objs[d]
<1>1. objs \in [1..Len(objs) -> Device] /\ Len(objs) \in Nat
      /\ DOMAIN objs = 1..Len(objs)
  OBVIOUS
<1>2. objs' \in [1..Len(objs) -> Device]
  BY <1>1
<1> QED BY <1>1, <1>2

LEMMA Enabling == ASSUME IInv, Enable PROVE IInv'
<1> USE DEF IInv
<1>1. /\ events' = events - 1 /\ events > 0 /\ enables' = enables + 1
      /\ enables \in Nat /\ events \in Nat /\ MaxEvents \in Nat
      /\ enables + events <= MaxEvents
  BY Types, ExtensionAssumption DEF Enable, Event, Budget
<1>2. enables' \in 0..MaxEvents /\ events' \in 0..MaxEvents
  BY <1>1
<1>3. 1..enables \subseteq 1..enables' /\ enables' \in 1..enables'
  BY <1>1
<1>4. hooks' = hooks \cup {enables'} /\ heard' = {enables'} /\ on'
  BY DEF Enable, Register, Registered
<1>5. TypeOK'
  <2>1. hooks' \subseteq 1..enables' /\ heard' \subseteq 1..enables'
        /\ pending' \subseteq 1..enables'
    BY <1>3, <1>4 DEF Enable, TypeOK
  <2>2. on' \in BOOLEAN /\ list' \subseteq DOMAIN objs' /\ rows' \subseteq Macs
    BY DEF Enable
  <2>3. UNCHANGED <<objs, procs, label, lost>>
    BY DEF Enable
  <2> QED BY <1>2, <2>1, <2>2, <2>3 DEF TypeOK
<1>6. Budget'
  BY <1>1 DEF Budget
<1>7. Watched'
  BY DEF Watched, Enable
<1>8. Registered'
  BY <1>4 DEF Registered, Enable
<1>9. NoEngineLeftBehind'
  BY DEF NoEngineLeftBehind, Enable
<1> QED BY <1>5, <1>6, <1>7, <1>8, <1>9

\* disable() reaches every watched process that still runs, or notes its
\* device as lost: the device is marked started while the watch stands.
LEMMA Disabling == ASSUME IInv, Disable PROVE IInv'
<1> USE DEF IInv
<1>1. /\ procs \in Seq(Process(DOMAIN objs)) /\ objs \in Seq(Device)
      /\ \A p \in DOMAIN procs : procs[p] \in Process(DOMAIN objs)
      /\ events \in Nat /\ enables \in Nat /\ MaxEvents \in Nat
  BY Types, ExtensionAssumption
<1>2. /\ procs' = [p \in DOMAIN procs |->
           [procs[p] EXCEPT !.told = @ \/ \E o \in Stopped : p \in ProcessOf(o)]]
      /\ lost' = lost \cup (Stoppable \ Stopped)
      /\ heard' = {} /\ on' = FALSE /\ rows' = {}
      /\ UNCHANGED <<pending, objs, list, enables>>
      /\ events' = events - 1 /\ events > 0
  BY DEF Disable, StopEngines, Tell, UnregisterAll, Event
<1>3. /\ procs' \in Seq(Process(DOMAIN objs)) /\ DOMAIN procs' = DOMAIN procs
      /\ \A p \in DOMAIN procs :
           /\ procs'[p].obj = procs[p].obj /\ (procs'[p].watched <=> procs[p].watched)
           /\ procs'[p].alive <=> procs[p].alive
           /\ procs'[p].told <=> (procs[p].told \/ \E o \in Stopped : p \in ProcessOf(o))
  <2>1. DOMAIN procs = 1..Len(procs) /\ Len(procs) \in Nat
    BY <1>1
  <2>2. ASSUME NEW p \in DOMAIN procs
        PROVE  /\ procs'[p] \in Process(DOMAIN objs)
               /\ procs'[p].obj = procs[p].obj /\ (procs'[p].watched <=> procs[p].watched)
               /\ procs'[p].alive <=> procs[p].alive
               /\ procs'[p].told <=> (procs[p].told \/ \E o \in Stopped : p \in ProcessOf(o))
    <3> DEFINE t == procs[p].told \/ \E o \in Stopped : p \in ProcessOf(o)
    <3>1. procs'[p] = [procs[p] EXCEPT !.told = t]
      BY <1>2
    <3>2. t \in BOOLEAN /\ procs[p] \in Process(DOMAIN objs)
      BY <1>1
    <3> HIDE DEF t
    <3>3. /\ procs'[p] \in Process(DOMAIN objs)
          /\ procs'[p].obj = procs[p].obj /\ procs'[p].watched = procs[p].watched
          /\ procs'[p].alive = procs[p].alive /\ procs'[p].told = t
      BY <3>1, <3>2 DEF Process
    <3> QED BY <3>3 DEF t
  <2>3. DOMAIN procs' = DOMAIN procs
    BY <1>2
  <2>4. procs' \in [1..Len(procs) -> Process(DOMAIN objs)]
    BY <1>2, <2>1, <2>2
  <2>5. procs' \in Seq(Process(DOMAIN objs))
    BY <2>1, <2>4
  <2> QED BY <2>2, <2>3, <2>5
<1>4. /\ hooks' \subseteq hooks /\ label' \in Labels
      /\ hooks' = {} \/ Broken # {}
  BY Types DEF Disable, ResetIndicator, UnregisterAll, Labels
<1>5. TypeOK'
  <2>1. lost' \subseteq DOMAIN objs'
    BY <1>2 DEF TypeOK, Stoppable
  <2>2. events' \in 0..MaxEvents
    BY <1>1, <1>2 DEF TypeOK
  <2> QED BY <1>2, <1>3, <1>4, <2>1, <2>2 DEF TypeOK, Labels, Device, Process
<1>6. Budget'
  BY <1>1, <1>2 DEF Budget
<1>7. Watched'
  <2>1. DOMAIN objs' = DOMAIN objs /\ \A o \in DOMAIN objs : objs'[o].started <=> objs[o].started
    BY <1>2
  <2> QED BY <1>3, <2>1, StillWatched
<1>8. Registered'
  <2>1. ASSUME lost' = {} PROVE hooks' = {}
    <3>1. Stoppable \subseteq Stopped
      BY <1>2, <2>1
    <3>2. ASSUME NEW b \in Broken PROVE FALSE
      <4>1. b \in Stopped /\ b \in Nat
        BY <1>1, <3>1 DEF Broken, Stoppable, TypeOK
      <4>2. b < b
        BY <4>1 DEF Stopped
      <4> QED BY <4>1, <4>2
    <3> QED BY <1>4, <3>2
  <2> QED BY <1>2, <2>1 DEF Registered
<1>9. NoEngineLeftBehind'
  <2> SUFFICES ASSUME NEW p \in DOMAIN procs', procs'[p].watched, procs'[p].alive
               PROVE  procs'[p].told \/ procs'[p].obj \in lost'
    BY DEF NoEngineLeftBehind
  <2>1. p \in DOMAIN procs /\ procs[p].watched /\ procs[p].alive
    BY <1>3
  <2> DEFINE o == procs[p].obj
  <2>2. o \in DOMAIN objs
    BY <1>1, <2>1 DEF Process
  <2>3. objs[o].started /\ p \in ProcessOf(o)
    BY <2>1, <2>2 DEF Watched, ProcessOf
  <2>4. CASE procs[p].told \/ o \in lost
    BY <1>2, <1>3, <2>1, <2>4
  <2>5. CASE o \in list
    <3>1. o \in Stoppable
      BY <2>3, <2>5 DEF Stoppable
    <3>2. CASE o \in Stopped
      BY <1>3, <2>1, <2>3, <3>2
    <3>3. CASE o \notin Stopped
      BY <1>2, <1>3, <2>1, <3>1, <3>3
    <3> QED BY <3>2, <3>3
  <2> QED BY <2>1, <2>4, <2>5 DEF NoEngineLeftBehind
<1> QED BY <1>5, <1>6, <1>7, <1>8, <1>9

LEMMA Refreshing == ASSUME IInv, NEW k \in pending, Refresh(k) PROVE IInv'
<1> USE DEF IInv
<1>1. /\ pending' \subseteq pending
      /\ UNCHANGED <<on, heard, hooks, rows, lost, enables, events, objs, list, procs>>
  BY DEF Refresh, engines
<1>2. label' \in Labels
  <2>1. CASE Cardinality(Connected) = 1
    <3> DEFINE d == CHOOSE d \in Connected : TRUE
    <3>1. label' = Level(objs[d].mac, Displayed(objs[d].lvl))
      BY <2>1 DEF Refresh
    <3>2. Connected # {}
      BY <2>1, FS_EmptySet
    <3>3. d \in Connected
      BY <3>2
    <3> HIDE DEF d
    <3>4. d \in DOMAIN objs
      BY <3>3 DEF Connected, TypeOK
    <3>5. objs[d].mac \in Macs /\ objs[d].lvl \in Lines \cup {Unknown}
      BY <3>4, Types DEF Device
    <3>6. Displayed(objs[d].lvl) \in Lines \cup {100}
      BY <3>5 DEF Displayed
    <3> QED BY <3>1, <3>5, <3>6 DEF Level, Labels
  <2>2. CASE Cardinality(Connected) # 1
    BY <2>2, Types DEF Refresh
  <2> QED BY <2>1, <2>2
<1>3. TypeOK'
  BY <1>1, <1>2 DEF TypeOK, Labels
<1>4. Budget' /\ Watched' /\ Registered' /\ NoEngineLeftBehind'
  <2>1. Budget'
    BY <1>1 DEF Budget
  <2>2. Watched'
    BY <1>1 DEF Watched
  <2>3. Registered'
    BY <1>1 DEF Registered
  <2>4. NoEngineLeftBehind'
    BY <1>1 DEF NoEngineLeftBehind
  <2> QED BY <2>1, <2>2, <2>3, <2>4
<1> QED BY <1>3, <1>4

LEMMA Answering ==
  ASSUME IInv, NEW p \in DOMAIN procs, NEW l \in Lines, Answer(p, l)
  PROVE  IInv'
<1> USE DEF IInv
<1> DEFINE e == [procs[p] EXCEPT !.line = l]
<1>1. procs[p] \in Process(DOMAIN objs) /\ procs \in Seq(Process(DOMAIN objs))
  BY Types
<1>2. /\ e \in Process(DOMAIN objs)
      /\ e.obj = procs[p].obj /\ (e.watched <=> procs[p].watched)
      /\ (e.told <=> procs[p].told) /\ (e.alive <=> procs[p].alive)
  BY <1>1 DEF Process
<1>3. procs' = [procs EXCEPT ![p] = e]
  BY DEF Answer
<1> HIDE DEF e
<1>4. /\ procs' \in Seq(Process(DOMAIN objs)) /\ DOMAIN procs' = DOMAIN procs
      /\ procs'[p] = e
      /\ \A q \in DOMAIN procs : q # p => procs'[q] = procs[q]
  BY <1>1, <1>2, <1>3, Replacing
<1>5. /\ UNCHANGED <<on, heard, hooks, pending, rows, list, lost, enables, events>>
      /\ UNCHANGED <<objs, label>>
  BY DEF Answer, indicator
<1> QED BY <1>2, <1>4, <1>5, Types, Going

LEMMA Ending == ASSUME IInv, NEW p \in DOMAIN procs, Exit(p) PROVE IInv'
<1> USE DEF IInv
<1> DEFINE e == [procs[p] EXCEPT !.alive = FALSE]
<1>1. procs[p] \in Process(DOMAIN objs) /\ procs \in Seq(Process(DOMAIN objs))
  BY Types
<1>2. /\ e \in Process(DOMAIN objs)
      /\ e.obj = procs[p].obj /\ (e.watched <=> procs[p].watched)
      /\ (e.told <=> procs[p].told) /\ ~e.alive
  BY <1>1 DEF Process
<1>3. procs' = [procs EXCEPT ![p] = e]
  BY DEF Exit
<1> HIDE DEF e
<1>4. /\ procs' \in Seq(Process(DOMAIN objs)) /\ DOMAIN procs' = DOMAIN procs
      /\ procs'[p] = e
      /\ \A q \in DOMAIN procs : q # p => procs'[q] = procs[q]
  BY <1>1, <1>2, <1>3, Replacing
<1>5. /\ UNCHANGED <<on, heard, hooks, pending, rows, list, lost, enables, events>>
      /\ UNCHANGED <<objs, label>>
  BY DEF Exit, indicator
<1> QED BY <1>2, <1>4, <1>5, Types, Going

\* The line is shown beside its own device; NaN changes neither.
LEMMA Reading == ASSUME IInv, NEW p \in DOMAIN procs, ReadLine(p) PROVE IInv'
<1> USE DEF IInv
<1> DEFINE o == procs[p].obj
           l == procs[p].line
           e == [procs[p] EXCEPT !.read = l, !.line = Unknown]
<1>1. procs[p] \in Process(DOMAIN objs) /\ procs \in Seq(Process(DOMAIN objs))
  BY Types
<1>2. o \in DOMAIN objs /\ l \in Lines
  BY <1>1 DEF Process, ReadLine
<1>3. /\ e \in Process(DOMAIN objs)
      /\ e.obj = procs[p].obj /\ (e.watched <=> procs[p].watched)
      /\ (e.told <=> procs[p].told) /\ (e.alive <=> procs[p].alive)
  BY <1>1 DEF Process
<1>4. procs' = [procs EXCEPT ![p] = e]
  BY DEF ReadLine
<1>5. /\ procs' \in Seq(Process(DOMAIN objs)) /\ DOMAIN procs' = DOMAIN procs
      /\ procs'[p] = e
      /\ \A q \in DOMAIN procs : q # p => procs'[q] = procs[q]
  BY <1>1, <1>3, <1>4, Replacing
<1>6. UNCHANGED <<on, heard, hooks, pending, rows, list, lost, enables, events>>
  BY DEF ReadLine
<1>7. /\ objs' \in Seq(Device) /\ DOMAIN objs' = DOMAIN objs
      /\ \A d \in DOMAIN objs : objs'[d].started <=> objs[d].started
      /\ label' \in Labels
  <2>1. objs \in Seq(Device) /\ objs[o] \in Device /\ label \in Labels
    BY <1>2, Types
  <2>2. CASE l = NaN
    BY <2>1, <2>2 DEF ReadLine
  <2>3. CASE l # NaN
    <3> DEFINE b == [objs[o] EXCEPT !.lvl = l]
    <3>1. objs' = [objs EXCEPT ![o].lvl = l] /\ ShowLevel(objs[o].mac, l)
      BY <2>3 DEF ReadLine
    <3>2. objs' = [objs EXCEPT ![o] = b]
      BY <1>2, <2>1, <3>1
    <3>3. b \in Device /\ (b.started <=> objs[o].started) /\ objs[o].mac \in Macs
      BY <1>2, <2>1 DEF Device
    <3> HIDE DEF b
    <3>4. /\ objs' \in Seq(Device) /\ DOMAIN objs' = DOMAIN objs
          /\ objs'[o] = b
          /\ \A d \in DOMAIN objs : d # o => objs'[d] = objs[d]
      BY <1>2, <2>1, <3>2, <3>3, ReplacingDevice
    <3>5. label' \in Labels
      BY <1>2, <2>1, <3>1, <3>3 DEF ShowLevel, Level, Labels
    <3> QED BY <3>3, <3>4, <3>5
  <2> QED BY <2>2, <2>3
<1> HIDE DEF e
<1> QED BY <1>3, <1>5, <1>6, <1>7, Going

\* The one process of the device is no longer watched.
LEMMA Reaping == ASSUME IInv, NEW p \in DOMAIN procs, ChildWatch(p) PROVE IInv'
<1> USE DEF IInv
<1> DEFINE o == procs[p].obj
           e == [procs[p] EXCEPT !.watched = FALSE]
           b == [objs[o] EXCEPT !.started = FALSE]
<1>1. /\ procs[p] \in Process(DOMAIN objs) /\ procs \in Seq(Process(DOMAIN objs))
      /\ objs \in Seq(Device)
  BY Types
<1>2. o \in DOMAIN objs /\ objs[o] \in Device
  BY <1>1, Types DEF Process
<1>3. /\ e \in Process(DOMAIN objs) /\ e.obj = o /\ ~e.watched
  BY <1>1 DEF Process
<1>4. b \in Device /\ ~b.started
  BY <1>2 DEF Device
<1>5. /\ procs' = [procs EXCEPT ![p] = e]
      /\ objs' = [objs EXCEPT ![o] = b]
      /\ procs[p].watched
  BY <1>1, <1>2 DEF ChildWatch
<1> HIDE DEF e, b
<1>6. /\ procs' \in Seq(Process(DOMAIN objs)) /\ DOMAIN procs' = DOMAIN procs
      /\ procs'[p] = e
      /\ \A q \in DOMAIN procs : q # p => procs'[q] = procs[q]
  BY <1>1, <1>3, <1>5, Replacing
<1>7. /\ objs' \in Seq(Device) /\ DOMAIN objs' = DOMAIN objs
      /\ objs'[o] = b
      /\ \A d \in DOMAIN objs : d # o => objs'[d] = objs[d]
  BY <1>1, <1>2, <1>4, <1>5, ReplacingDevice
<1>8. UNCHANGED <<on, heard, hooks, pending, label, rows, list, lost, enables, events>>
  BY DEF ChildWatch, indicator
<1>9. TypeOK'
  BY <1>6, <1>7, <1>8 DEF TypeOK, Device, Process
<1>10. Budget' /\ Registered'
  BY <1>8 DEF Budget, Registered
<1>11. Watched'
  <2>1. ASSUME NEW q \in DOMAIN procs', NEW r \in DOMAIN procs',
               procs'[q].watched, procs'[r].watched, procs'[q].obj = procs'[r].obj
        PROVE  q = r
    BY <1>3, <1>6, <2>1 DEF Watched
  <2>2. ASSUME NEW d \in DOMAIN objs'
        PROVE  objs'[d].started <=>
                 \E q \in DOMAIN procs' : procs'[q].obj = d /\ procs'[q].watched
    <3>1. CASE d = o
      <4>1. ASSUME NEW q \in DOMAIN procs', procs'[q].obj = o, procs'[q].watched
            PROVE  FALSE
        <5>1. q # p /\ procs'[q] = procs[q] /\ q \in DOMAIN procs
          BY <1>3, <1>6, <4>1
        <5> QED BY <1>5, <4>1, <5>1 DEF Watched
      <4> QED BY <1>4, <1>7, <3>1, <4>1
    <3>2. CASE d # o
      <4>1. ASSUME NEW q \in DOMAIN procs
            PROVE  (procs'[q].obj = d /\ procs'[q].watched)
                     <=> (procs[q].obj = d /\ procs[q].watched)
        BY <1>3, <1>6, <3>2
      <4>2. objs'[d].started <=> objs[d].started
        BY <1>7, <3>2
      <4> QED BY <1>6, <1>7, <4>1, <4>2 DEF Watched
    <3> QED BY <3>1, <3>2
  <2> QED BY <2>1, <2>2 DEF Watched
<1>12. NoEngineLeftBehind'
  BY <1>3, <1>6, <1>8 DEF NoEngineLeftBehind
<1> QED BY <1>9, <1>10, <1>11, <1>12

-----------------------------------------------------------------------------
LEMMA Inductive == IInv /\ [Next]_vars => IInv'
<1> SUFFICES ASSUME IInv, [Next]_vars PROVE IInv'
  OBVIOUS
<1>1. CASE Enable
  BY <1>1, Enabling
<1>2. CASE Disable
  BY <1>2, Disabling
<1>3. CASE ShellSync
  <2>1. Grown
    BY <1>3, Unchanged DEF IInv, ShellSync
  <2> QED BY <1>3, <2>1, Signal DEF ShellSync, IInv, TypeOK
<1>4. ASSUME NEW m \in Macs, NEW c \in BOOLEAN, RowInserted(m, c)
      PROVE  IInv'
  <2>1. Grown
    BY <1>4, Adding DEF IInv, RowInserted
  <2>2. rows' \subseteq Macs
    BY <1>4 DEF IInv, TypeOK, RowInserted
  <2> QED BY <1>4, <2>1, <2>2, Signal DEF RowInserted
<1>5. ASSUME NEW m \in Macs, NEW c \in BOOLEAN, RowChanged(m, c)
      PROVE  IInv'
  <2>1. Grown
    BY <1>5, Updating DEF IInv, RowChanged
  <2>2. rows' \subseteq Macs
    BY <1>5 DEF IInv, TypeOK, RowChanged
  <2> QED BY <1>5, <2>1, <2>2, Signal DEF RowChanged
<1>6. ASSUME NEW m \in Macs, RowDeleted(m) PROVE IInv'
  <2>1. Grown
    BY <1>6, Unchanged DEF IInv, RowDeleted
  <2>2. rows' \subseteq Macs
    BY <1>6 DEF IInv, TypeOK, RowDeleted
  <2> QED BY <1>6, <2>1, <2>2, Signal DEF RowDeleted
<1>7. ASSUME NEW k \in pending, Refresh(k) PROVE IInv'
  BY <1>7, Refreshing
<1>8. ASSUME NEW p \in DOMAIN procs, NEW l \in Lines, Answer(p, l) PROVE IInv'
  BY <1>8, Answering
<1>9. ASSUME NEW p \in DOMAIN procs, Exit(p) PROVE IInv'
  BY <1>9, Ending
<1>10. ASSUME NEW p \in DOMAIN procs, ChildWatch(p) PROVE IInv'
  BY <1>10, Reaping
<1>11. ASSUME NEW p \in DOMAIN procs, ReadLine(p) PROVE IInv'
  BY <1>11, Reading
<1>12. CASE UNCHANGED vars
  <2>1. UNCHANGED <<on, heard, hooks, pending, label, rows, list, lost, enables, events, objs, procs>>
    BY <1>12 DEF vars
  <2>2. TypeOK'
    BY <2>1 DEF IInv, TypeOK
  <2>3. Budget' /\ Registered'
    BY <2>1 DEF IInv, Budget, Registered
  <2>4. Watched'
    BY <2>1 DEF IInv, Watched
  <2>5. NoEngineLeftBehind'
    BY <2>1 DEF IInv, NoEngineLeftBehind
  <2> QED BY <2>2, <2>3, <2>4, <2>5 DEF IInv
<1> QED BY <1>1, <1>2, <1>3, <1>4, <1>5, <1>6, <1>7, <1>8, <1>9, <1>10, <1>11, <1>12 DEF Next

\* At most one watched process is at most one in number.
LEMMA OneAtMost == ASSUME TypeOK, Watched PROVE OneEngine
<1> SUFFICES ASSUME NEW o \in DOMAIN objs
             PROVE  /\ Cardinality(ProcessOf(o)) <= 1
                    /\ objs[o].started <=> ProcessOf(o) # {}
  BY DEF OneEngine
<1>1. objs[o].started <=> ProcessOf(o) # {}
  BY DEF Watched, ProcessOf
<1>2. CASE ProcessOf(o) = {}
  BY <1>1, <1>2, FS_EmptySet
<1>3. CASE ProcessOf(o) # {}
  <2>1. PICK p \in ProcessOf(o) : TRUE
    BY <1>3
  <2>2. ProcessOf(o) = {p}
    BY <2>1 DEF Watched, ProcessOf
  <2>3. Cardinality({p}) = 1
    BY FS_Singleton
  <2> QED BY <1>1, <2>2, <2>3
<1> QED BY <1>2, <1>3

LEMMA Invariant == Spec => []IInv
BY Initial, Inductive, PTL DEF Spec

\* Every device, process, registration and label keeps its type, whatever
\* the shell, the Bluetooth model and the engines do and in whatever order.
THEOREM ExtensionTypeCorrect == Spec => []TypeOK
<1>1. IInv => TypeOK
  BY DEF IInv
<1> QED BY <1>1, Invariant, PTL

\* However many devices, events and failing spawns there are, a device is
\* marked started exactly while one process of it is watched, never two
\* (battery_level_engine.js:160-166, 185-201).
THEOREM OneEnginePerDevice == Spec => []OneEngine
<1>1. IInv => OneEngine
  BY OneAtMost DEF IInv
<1> QED BY <1>1, Invariant, PTL

\* No running engine that is still watched is forgotten: it was told to stop,
\* or a stop() that threw kept disable() from it, or its device is in the list
\* of an enabled extension (battery_level_engine.js:52-55, 197-201).
THEOREM NoEngineForgotten == Spec => []NoEngineLeftBehind
<1>1. IInv => NoEngineLeftBehind
  BY DEF IInv
<1> QED BY <1>1, Invariant, PTL

\* After any number of enables and disables the rows are heard once or not
\* at all, and the indicator's handlers outlive a disable() only after a
\* stop() that threw (battery_level_extention.js:98-113).
THEOREM HandlersBalanced == Spec => []Registered
<1>1. IInv => Registered
  BY DEF IInv
<1> QED BY <1>1, Invariant, PTL

-----------------------------------------------------------------------------
(* Levels.                                                                 *)

\* An engine is read once.
ReadOnce == \A p \in DOMAIN procs : procs[p].line # Unknown => procs[p].read = Unknown

\* The level of a device is what one of its engines said.
LevelRead ==
  \A o \in DOMAIN objs :
    \/ objs[o].lvl = Unknown
    \/ \E p \in DOMAIN procs : procs[p].obj = o /\ procs[p].read = objs[o].lvl

TInv == ReadOnce /\ LevelRead /\ LevelIsTold

\* What was read stays read, and the devices stay what they are.
Kept ==
  /\ DOMAIN procs \subseteq DOMAIN procs' /\ DOMAIN objs \subseteq DOMAIN objs'
  /\ \A o \in DOMAIN objs : objs'[o].mac = objs[o].mac
  /\ \A p \in DOMAIN procs :
       /\ procs'[p].obj = procs[p].obj
       /\ procs[p].read = Unknown \/ procs'[p].read = procs[p].read

LEMMA KeptTold ==
  ASSUME TypeOK, LevelIsTold, Kept, label' = label \/ label'.kind # "level"
  PROVE  LevelIsTold'
<1> SUFFICES ASSUME label' = label, label.kind = "level", label.lvl # 100
             PROVE  \E p \in DOMAIN procs' :
                      objs'[procs'[p].obj].mac = label.mac /\ procs'[p].read = label.lvl
  BY DEF LevelIsTold
<1>1. PICK p \in DOMAIN procs :
        objs[procs[p].obj].mac = label.mac /\ procs[p].read = label.lvl
  BY DEF LevelIsTold
<1>2. procs[p].obj \in DOMAIN objs
  BY Types DEF Process
<1>3. label.lvl # Unknown
  <2>1. label \in [kind : {"level"}, mac : Macs, lvl : Lines \cup {100}]
    BY Types DEF Labels, Shell, Count
  <2> QED BY <2>1, ExtensionAssumption
<1> QED BY <1>1, <1>2, <1>3 DEF Kept

\* A step that reads nothing and shows no level.
LEMMA KeptAll ==
  ASSUME TypeOK, TInv, Kept, label' = label \/ label'.kind # "level",
         \A o \in DOMAIN objs' :
           objs'[o].lvl = Unknown \/ (o \in DOMAIN objs /\ objs'[o].lvl = objs[o].lvl),
         \A p \in DOMAIN procs' :
           \/ procs'[p].line = Unknown
           \/ procs'[p].read = Unknown
           \/ p \in DOMAIN procs /\ procs'[p].line = procs[p].line
                                 /\ procs'[p].read = procs[p].read
  PROVE  TInv'
<1>1. LevelIsTold'
  BY KeptTold DEF TInv
<1>2. ReadOnce'
  BY DEF TInv, ReadOnce
<1>3. LevelRead'
  <2> SUFFICES ASSUME NEW o \in DOMAIN objs', objs'[o].lvl # Unknown
               PROVE  \E p \in DOMAIN procs' :
                        procs'[p].obj = o /\ procs'[p].read = objs'[o].lvl
    BY DEF LevelRead
  <2>1. o \in DOMAIN objs /\ objs'[o].lvl = objs[o].lvl
    OBVIOUS
  <2>2. PICK p \in DOMAIN procs : procs[p].obj = o /\ procs[p].read = objs[o].lvl
    BY <2>1 DEF TInv, LevelRead
  <2> QED BY <2>1, <2>2 DEF Kept
<1> QED BY <1>1, <1>2, <1>3 DEF TInv

LEMMA KeptBySignals ==
  ASSUME TypeOK, TInv, Grown, label' = label \/ label' = Shell
  PROVE  TInv'
<1>1. Kept
  BY DEF Kept, Grown
<1>2. label' = label \/ label'.kind # "level"
  BY DEF Shell
<1>3. \A o \in DOMAIN objs' :
        objs'[o].lvl = Unknown \/ (o \in DOMAIN objs /\ objs'[o].lvl = objs[o].lvl)
  BY DEF Grown
<1>4. \A p \in DOMAIN procs' :
        \/ procs'[p].line = Unknown
        \/ p \in DOMAIN procs /\ procs'[p].line = procs[p].line
                              /\ procs'[p].read = procs[p].read
  BY DEF Grown, NewProcess
<1> QED BY <1>1, <1>2, <1>3, <1>4, KeptAll

LEMMA KeptByReading ==
  ASSUME TypeOK, TInv, NEW p \in DOMAIN procs, ReadLine(p)
  PROVE  TInv'
<1> DEFINE o == procs[p].obj
           l == procs[p].line
           e == [procs[p] EXCEPT !.read = l, !.line = Unknown]
<1>1. /\ procs[p] \in Process(DOMAIN objs) /\ procs \in Seq(Process(DOMAIN objs))
      /\ objs \in Seq(Device)
  BY Types
<1>2. /\ o \in DOMAIN objs /\ l \in Lines /\ l # Unknown /\ procs[p].read = Unknown
      /\ objs[o] \in Device
  BY <1>1, Types DEF Process, ReadLine, TInv, ReadOnce
<1>3. e \in Process(DOMAIN objs) /\ e.obj = o /\ e.read = l /\ e.line = Unknown
  BY <1>1 DEF Process
<1>4. procs' = [procs EXCEPT ![p] = e]
  BY DEF ReadLine
<1> HIDE DEF e
<1>5. /\ DOMAIN procs' = DOMAIN procs /\ procs'[p] = e
      /\ \A q \in DOMAIN procs : q # p => procs'[q] = procs[q]
  BY <1>1, <1>3, <1>4, Replacing
<1>6. /\ DOMAIN objs' = DOMAIN objs
      /\ \A d \in DOMAIN objs : objs'[d].mac = objs[d].mac
      /\ \A d \in DOMAIN objs : objs'[d].lvl = objs[d].lvl \/ (d = o /\ objs'[d].lvl = l)
      /\ label' = label \/ label' = Level(objs[o].mac, l)
  <2>1. CASE l = NaN
    BY <2>1 DEF ReadLine
  <2>2. CASE l # NaN
    <3> DEFINE b == [objs[o] EXCEPT !.lvl = l]
    <3>1. objs' = [objs EXCEPT ![o].lvl = l] /\ ShowLevel(objs[o].mac, l)
      BY <2>2 DEF ReadLine
    <3>2. objs' = [objs EXCEPT ![o] = b]
      BY <1>2, <3>1
    <3>3. b \in Device /\ b.mac = objs[o].mac /\ b.lvl = l
      BY <1>2 DEF Device
    <3> HIDE DEF b
    <3>4. /\ DOMAIN objs' = DOMAIN objs /\ objs'[o] = b
          /\ \A d \in DOMAIN objs : d # o => objs'[d] = objs[d]
      BY <1>1, <1>2, <3>2, <3>3, ReplacingDevice
    <3> QED BY <3>1, <3>3, <3>4 DEF ShowLevel
  <2> QED BY <2>1, <2>2
<1>7. Kept
  BY <1>2, <1>3, <1>5, <1>6 DEF Kept
<1>8. ReadOnce'
  BY <1>3, <1>5 DEF TInv, ReadOnce
<1>9. LevelRead'
  <2> SUFFICES ASSUME NEW d \in DOMAIN objs', objs'[d].lvl # Unknown
               PROVE  \E q \in DOMAIN procs' :
                        procs'[q].obj = d /\ procs'[q].read = objs'[d].lvl
    BY DEF LevelRead
  <2>1. CASE d = o /\ objs'[d].lvl = l
    BY <1>3, <1>5, <2>1
  <2>2. CASE objs'[d].lvl = objs[d].lvl
    <3>1. PICK q \in DOMAIN procs : procs[q].obj = d /\ procs[q].read = objs[d].lvl
      BY <1>6, <2>2 DEF TInv, LevelRead
    <3> QED BY <1>5, <1>7, <2>2, <3>1 DEF Kept
  <2> QED BY <1>6, <2>1, <2>2
<1>10. LevelIsTold'
  <2>1. CASE label' = label
    BY <1>7, <2>1, KeptTold DEF TInv
  <2>2. CASE label' = Level(objs[o].mac, l)
    <3>1. objs'[procs'[p].obj].mac = label'.mac /\ procs'[p].read = label'.lvl
      BY <1>2, <1>3, <1>5, <1>6, <2>2 DEF Level
    <3> QED BY <1>5, <3>1 DEF LevelIsTold
  <2> QED BY <1>6, <2>1, <2>2
<1> QED BY <1>8, <1>9, <1>10 DEF TInv

LEMMA KeptByRefreshing ==
  ASSUME TypeOK, TInv, NEW k \in pending, Refresh(k)
  PROVE  TInv'
<1>1. UNCHANGED <<objs, procs>>
  BY DEF Refresh, engines
<1>2. Kept
  BY <1>1 DEF Kept
<1>3. ReadOnce' /\ LevelRead'
  BY <1>1 DEF TInv, ReadOnce, LevelRead
<1>4. LevelIsTold'
  <2>1. CASE label' = label
    BY <1>2, <2>1, KeptTold DEF TInv
  <2>2. CASE label' # label
    <3> DEFINE d == CHOOSE d \in Connected : TRUE
    <3>1. Cardinality(Connected) = 1 /\ label' = Level(objs[d].mac, Displayed(objs[d].lvl))
      BY <2>2 DEF Refresh
    <3>2. d \in Connected
      <4>1. Connected # {}
        BY <3>1, FS_EmptySet
      <4> QED BY <4>1
    <3> HIDE DEF d
    <3>3. d \in DOMAIN objs
      BY <3>2 DEF Connected, TypeOK
    <3>4. CASE label'.lvl = 100
      BY <3>4 DEF LevelIsTold
    <3>5. CASE label'.lvl # 100
      <4>1. label'.lvl = objs[d].lvl /\ objs[d].lvl # Unknown /\ label'.mac = objs[d].mac
        BY <3>1, <3>5 DEF Level, Displayed
      <4>2. PICK p \in DOMAIN procs : procs[p].obj = d /\ procs[p].read = objs[d].lvl
        BY <3>3, <4>1 DEF TInv, LevelRead
      <4> QED BY <1>1, <4>1, <4>2 DEF LevelIsTold
    <3> QED BY <3>4, <3>5
  <2> QED BY <2>1, <2>2
<1> QED BY <1>3, <1>4 DEF TInv

\* A step of the processes that reads nothing.
LEMMA KeptByProcesses ==
  ASSUME TypeOK, TInv, label' = label \/ label'.kind # "level",
         DOMAIN procs' = DOMAIN procs, DOMAIN objs' = DOMAIN objs,
         \A o \in DOMAIN objs : objs'[o].mac = objs[o].mac /\ objs'[o].lvl = objs[o].lvl,
         \A p \in DOMAIN procs :
           /\ procs'[p].obj = procs[p].obj /\ procs'[p].read = procs[p].read
           /\ procs'[p].line = procs[p].line \/ procs[p].read = Unknown
  PROVE  TInv'
<1>1. Kept
  BY DEF Kept
<1> QED BY <1>1, KeptAll

LEMMA KeptByStopping == ASSUME TypeOK, TInv, Disable PROVE TInv'
<1>1. /\ procs' = [p \in DOMAIN procs |->
           [procs[p] EXCEPT !.told = @ \/ \E o \in Stopped : p \in ProcessOf(o)]]
      /\ objs' = objs
      /\ label' = label \/ label' = Count
  BY DEF Disable, StopEngines, Tell, ResetIndicator
<1>2. ASSUME NEW p \in DOMAIN procs
      PROVE  /\ procs'[p].obj = procs[p].obj /\ procs'[p].read = procs[p].read
             /\ procs'[p].line = procs[p].line
  <2> DEFINE t == procs[p].told \/ \E o \in Stopped : p \in ProcessOf(o)
  <2>1. procs'[p] = [procs[p] EXCEPT !.told = t] /\ procs[p] \in Process(DOMAIN objs)
    BY <1>1, Types
  <2> HIDE DEF t
  <2> QED BY <2>1 DEF Process
<1>3. label' = label \/ label'.kind # "level"
  BY <1>1 DEF Count
<1>4. DOMAIN procs' = DOMAIN procs
  BY <1>1
<1> QED BY <1>1, <1>2, <1>3, <1>4, KeptByProcesses

LEMMA KeptByOne ==
  ASSUME TypeOK, TInv, NEW p \in DOMAIN procs,
         Exit(p) \/ ChildWatch(p) \/ \E l \in Lines : Answer(p, l)
  PROVE  TInv'
<1>1. /\ procs[p] \in Process(DOMAIN objs) /\ procs \in Seq(Process(DOMAIN objs))
      /\ objs \in Seq(Device) /\ label' = label
  BY Types DEF Exit, ChildWatch, Answer, indicator
<1>2. PICK e \in Process(DOMAIN objs) :
        /\ procs' = [procs EXCEPT ![p] = e]
        /\ e.obj = procs[p].obj /\ e.read = procs[p].read
        /\ e.line = procs[p].line \/ procs[p].read = Unknown
  <2>1. CASE Exit(p)
    <3> DEFINE e == [procs[p] EXCEPT !.alive = FALSE]
    <3>1. /\ e \in Process(DOMAIN objs) /\ e.obj = procs[p].obj
          /\ e.read = procs[p].read /\ e.line = procs[p].line
      BY <1>1 DEF Process
    <3>2. procs' = [procs EXCEPT ![p] = e]
      BY <2>1 DEF Exit
    <3> HIDE DEF e
    <3> QED BY <3>1, <3>2
  <2>2. CASE ChildWatch(p)
    <3> DEFINE e == [procs[p] EXCEPT !.watched = FALSE]
    <3>1. /\ e \in Process(DOMAIN objs) /\ e.obj = procs[p].obj
          /\ e.read = procs[p].read /\ e.line = procs[p].line
      BY <1>1 DEF Process
    <3>2. procs' = [procs EXCEPT ![p] = e]
      BY <2>2 DEF ChildWatch
    <3> HIDE DEF e
    <3> QED BY <3>1, <3>2
  <2>3. ASSUME NEW l \in Lines, Answer(p, l)
        PROVE  \E e \in Process(DOMAIN objs) :
                 /\ procs' = [procs EXCEPT ![p] = e]
                 /\ e.obj = procs[p].obj /\ e.read = procs[p].read
                 /\ e.line = procs[p].line \/ procs[p].read = Unknown
    <3> DEFINE e == [procs[p] EXCEPT !.line = l]
    <3>1. /\ e \in Process(DOMAIN objs) /\ e.obj = procs[p].obj
          /\ e.read = procs[p].read
      BY <1>1 DEF Process
    <3>2. procs' = [procs EXCEPT ![p] = e] /\ procs[p].read = Unknown
      BY <2>3 DEF Answer
    <3> HIDE DEF e
    <3> QED BY <3>1, <3>2
  <2> QED BY <2>1, <2>2, <2>3
<1>3. /\ DOMAIN procs' = DOMAIN procs /\ procs'[p] = e
      /\ \A q \in DOMAIN procs : q # p => procs'[q] = procs[q]
  BY <1>1, <1>2, Replacing
<1>4. /\ DOMAIN objs' = DOMAIN objs
      /\ \A o \in DOMAIN objs : objs'[o].mac = objs[o].mac /\ objs'[o].lvl = objs[o].lvl
  <2>1. CASE objs' = objs
    BY <2>1
  <2>2. CASE ChildWatch(p)
    <3> DEFINE o == procs[p].obj
               b == [objs[o] EXCEPT !.started = FALSE]
    <3>1. o \in DOMAIN objs /\ objs[o] \in Device
      BY <1>1, Types DEF Process
    <3>2. b \in Device /\ b.mac = objs[o].mac /\ b.lvl = objs[o].lvl
      BY <3>1 DEF Device
    <3>3. objs' = [objs EXCEPT ![o] = b]
      BY <2>2, <3>1 DEF ChildWatch
    <3> HIDE DEF b
    <3>4. /\ DOMAIN objs' = DOMAIN objs /\ objs'[o] = b
          /\ \A d \in DOMAIN objs : d # o => objs'[d] = objs[d]
      BY <1>1, <3>1, <3>2, <3>3, ReplacingDevice
    <3> QED BY <3>2, <3>4
  <2> QED BY <2>1, <2>2 DEF Exit, Answer
<1> QED BY <1>1, <1>2, <1>3, <1>4, KeptByProcesses

LEMMA ToldInductive == IInv /\ TInv /\ [Next]_vars => TInv'
<1> SUFFICES ASSUME TypeOK, Watched, TInv, [Next]_vars PROVE TInv'
  BY DEF IInv
<1>1. CASE Enable
  <2>1. UNCHANGED <<objs, procs, label>>
    BY <1>1 DEF Enable
  <2> QED BY <2>1, KeptByProcesses
<1>2. CASE Disable
  BY <1>2, KeptByStopping
<1>3. CASE ShellSync
  BY <1>3, Unchanged, KeptBySignals DEF ShellSync, Trigger
<1>4. ASSUME NEW m \in Macs, NEW c \in BOOLEAN, RowInserted(m, c) PROVE TInv'
  BY <1>4, Adding, KeptBySignals DEF RowInserted, Trigger
<1>5. ASSUME NEW m \in Macs, NEW c \in BOOLEAN, RowChanged(m, c) PROVE TInv'
  BY <1>5, Updating, KeptBySignals DEF RowChanged, Trigger
<1>6. ASSUME NEW m \in Macs, RowDeleted(m) PROVE TInv'
  BY <1>6, Unchanged, KeptBySignals DEF RowDeleted, Trigger
<1>7. ASSUME NEW k \in pending, Refresh(k) PROVE TInv'
  BY <1>7, KeptByRefreshing
<1>8. ASSUME NEW p \in DOMAIN procs,
             Exit(p) \/ ChildWatch(p) \/ \E l \in Lines : Answer(p, l)
      PROVE  TInv'
  BY <1>8, KeptByOne
<1>9. ASSUME NEW p \in DOMAIN procs, ReadLine(p) PROVE TInv'
  BY <1>9, KeptByReading
<1>10. CASE UNCHANGED vars
  <2>1. UNCHANGED <<objs, procs, label>>
    BY <1>10 DEF vars
  <2> QED BY <2>1, KeptByProcesses
<1> QED BY <1>1, <1>2, <1>3, <1>4, <1>5, <1>6, <1>7, <1>8, <1>9, <1>10 DEF Next

\* Whatever is started, stopped, connected or read late, a level shown beside
\* a device is one an engine of that device printed, or 100
\* (battery_level_extention.js:73-79, 84-91).
THEOREM ShownLevelsAreTold == Spec => []LevelIsTold
<1>1. Init => TInv
  BY DEF Init, TInv, ReadOnce, LevelRead, LevelIsTold, Shell
<1>2. TInv => LevelIsTold
  BY DEF TInv
<1> QED BY <1>1, <1>2, ToldInductive, Invariant, PTL DEF Spec

\* After a disable() that no stop() broke, an engine that is still ending
\* writes nothing into the menu: only a timer that was armed before does
\* (battery_level_extention.js:94-113).
THEOREM DisabledIsQuiet == Spec => QuietAfterDisable
<1> DEFINE A == ~on /\ ~on' /\ lost = {} /\ label' # label =>
                  label' = Shell \/ \E k \in pending : pending' = pending \ {k}
<1>1. ASSUME IInv, [Next]_vars PROVE [A]_vars
  <2> SUFFICES ASSUME ~on, ~on', lost = {}, label' # label, Next
               PROVE  label' = Shell \/ \E k \in pending : pending' = pending \ {k}
    BY <1>1 DEF vars
  <2>1. hooks = {}
    BY <1>1 DEF IInv, Registered
  <2>2. CASE \E k \in pending : Refresh(k)
    BY <2>2 DEF Refresh
  <2>3. CASE \E p \in DOMAIN procs : ReadLine(p)
    BY <2>1, <2>3 DEF ReadLine, ShowLevel
  <2>4. CASE \/ Enable \/ Disable
             \/ \E p \in DOMAIN procs :
                  (\E l \in Lines : Answer(p, l)) \/ Exit(p) \/ ChildWatch(p)
    BY <2>4 DEF Enable, Disable, Answer, Exit, ChildWatch, indicator
  <2>5. CASE \/ ShellSync
             \/ \E m \in Macs :
                  \/ \E c \in BOOLEAN : RowInserted(m, c) \/ RowChanged(m, c)
                  \/ RowDeleted(m)
    BY <2>5 DEF ShellSync, RowInserted, RowChanged, RowDeleted, Trigger
  <2> QED BY <2>2, <2>3, <2>4, <2>5 DEF Next
<1> QED BY <1>1, Invariant, PTL DEF Spec, QuietAfterDisable
=============================================================================
