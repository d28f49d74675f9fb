------------------------------ MODULE Extension ------------------------------
(***************************************************************************)
(* The GNOME Shell extension: the indicator (battery_level_extention.js),  *)
(* the list of devices and their engine processes (battery_level_engine.js)*)
(* the registry of signals (signals.js) and the attenuator of events       *)
(* (event_trigger_attenuator.js).                                          *)
(*                                                                         *)
(* All of it runs in the shell's main loop, one callback at a time.  What  *)
(* interleaves is the order of the callbacks: Bluetooth rows, the lock     *)
(* screen that disables and enables, the 500 ms timers, the lines of the   *)
(* engines and the watches on them.                                        *)
(*                                                                         *)
(* logger.error() of an Error throws (logger.js:61 names a variable that   *)
(* does not exist), so that a start that fails ends its signal handler and *)
(* changes nothing more.  GTK passes no iterator with "row-deleted", so    *)
(* that a device never leaves the list (battery_level_engine.js:37).       *)
(***************************************************************************)
EXTENDS Integers, FiniteSets, Sequences

CONSTANTS
  Macs,       \* the addresses of the devices
  Lines,      \* what an engine may print first: integers, NaN; or nothing
  NaN,        \* a line that parseInt() finds no number in
  Unknown,    \* battery_lvl before any line: null
  MaxEvents,  \* bound: calls of the shell and of the Bluetooth model
  MaxProcs    \* bound: engine processes ever started

ASSUME ExtensionAssumption ==
  /\ Lines \subseteq Int \cup {NaN}
  /\ NaN \notin Int /\ Unknown \notin Int \cup {NaN}
  /\ MaxEvents \in Nat /\ MaxProcs \in Nat

VARIABLES
  on,       \* the shell has the extension enabled
  heard,    \* registrations of the row handlers that still fire
  hooks,    \* registrations of the indicator's handlers that still fire
  pending,  \* attenuators, one per registration, whose timer is armed
  rows,     \* devices the Bluetooth model has
  objs,     \* every bluetooth_device ever listed, in the order of creation
  list,     \* _bt_devices: indices of objs, in the order of the list
  procs,    \* every engine process ever started
  label,    \* what the menu shows
  lost,     \* history: devices whose stop() a failing disable() did not reach
  enables,  \* history: calls of enable()
  events    \* bound: calls of the environment left

vars == <<on, heard, hooks, pending, rows, objs, list, procs, label, lost,
          enables, events>>

indicator == <<hooks, pending, label>>
engines == <<objs, list, procs>>

Shell == [kind |-> "shell"]   \* a text of the shell's own
Count == [kind |-> "count"]   \* "N connected", set by disable()
Level(m, l) == [kind |-> "level", mac |-> m, lvl |-> l]

NewDevice(m, c) ==
  [mac |-> m, connected |-> c, lvl |-> Unknown, started |-> FALSE]

\* line: what it printed and nobody read; read: the line the extension took.
NewProcess(o) ==
  [obj |-> o, alive |-> TRUE, watched |-> TRUE, told |-> FALSE,
   line |-> Unknown, read |-> Unknown]

Listed(m) == {o \in list : objs[o].mac = m}
Connected == {o \in list : objs[o].connected}

Init ==
  /\ on = FALSE /\ heard = {} /\ hooks = {} /\ pending = {} /\ rows = {}
  /\ objs = <<>> /\ list = {} /\ procs = <<>> /\ label = Shell
  /\ lost = {} /\ enables = 0 /\ events = MaxEvents

-----------------------------------------------------------------------------
(* Devices.                                                                *)

\* Mutant: a device that is started is started again.
StartAgain(os, o) ==
  \E spawned \in BOOLEAN :
    LET starts == os[o].connected /\ spawned IN
      /\ spawned => Len(procs) < MaxProcs
      /\ objs' = [os EXCEPT ![o].started = @ \/ starts]
      /\ procs' = IF starts THEN Append(procs, NewProcess(o)) ELSE procs

\* start(): a process for a connected device that has none.  The spawn may
\* fail, and then nothing is marked.
Start(os, o) ==
  \E spawned \in BOOLEAN :
    LET starts == os[o].connected /\ ~os[o].started /\ spawned IN
      /\ spawned => Len(procs) < MaxProcs
      /\ objs' = [os EXCEPT ![o].started = @ \/ starts]
      /\ procs' = IF starts THEN Append(procs, NewProcess(o)) ELSE procs

\* add_device(): a device already in the list is neither updated nor started.
AddDevice(m, c) ==
  IF Listed(m) = {}
  THEN /\ list' = list \cup {Len(objs) + 1}
       /\ Start(Append(objs, NewDevice(m, c)), Len(objs) + 1)
  ELSE UNCHANGED engines

\* update_device(): merge() keeps the level and the process; a device that
\* is not in the list is an error, which throws.
UpdateDevice(m, c) ==
  /\ UNCHANGED list
  /\ \/ Listed(m) = {} /\ UNCHANGED <<objs, procs>>
     \/ \E o \in Listed(m) : Start([objs EXCEPT ![o].connected = c], o)

-----------------------------------------------------------------------------
(* Signals.                                                                *)

\* One call of the environment.
Event == events > 0 /\ events' = events - 1

\* Mutant: the attenuator removes its timer and arms none.
TriggerOnce ==
  /\ label' = Shell
  /\ pending' = (pending \ hooks) \cup (hooks \ pending)
  /\ UNCHANGED hooks

\* The shell's own handler of the signal rewrites the label; the
\* indicator's re-arms its 500 ms timer, once per registration.
Trigger ==
  /\ label' = Shell
  /\ pending' = pending \cup hooks
  /\ UNCHANGED hooks

RowInserted(m, c) ==
  /\ Event /\ heard # {} /\ m \notin rows
  /\ rows' = rows \cup {m}
  /\ Trigger
  /\ AddDevice(m, c)
  /\ UNCHANGED <<on, heard, lost, enables>>

RowChanged(m, c) ==
  /\ Event /\ heard # {} /\ m \in rows
  /\ Trigger
  /\ UpdateDevice(m, c)
  /\ UNCHANGED <<on, heard, rows, lost, enables>>

RowDeleted(m) ==
  /\ Event /\ heard # {} /\ m \in rows
  /\ rows' = rows \ {m}
  /\ Trigger
  /\ UNCHANGED <<on, heard, lost, enables, engines>>

\* "g-properties-changed" of the Rfkill proxy, "updated" of the session mode.
ShellSync ==
  /\ Event
  /\ Trigger
  /\ UNCHANGED <<on, heard, rows, lost, enables, engines>>

\* Mutant: no default for a level nobody has told.
DisplayedAsIs(l) == l

\* The timer of attenuator k: refresh.  A level of 0 or null shows as 100.
Displayed(l) == IF l \in {0, Unknown} THEN 100 ELSE l

Refresh(k) ==
  /\ k \in pending
  /\ pending' = pending \ {k}
  /\ label' = IF Cardinality(Connected) = 1
              THEN LET d == CHOOSE d \in Connected : TRUE
                   IN  Level(objs[d].mac, Displayed(objs[d].lvl))
              ELSE label
  /\ UNCHANGED <<on, heard, hooks, rows, lost, enables, events, engines>>

-----------------------------------------------------------------------------
(* The shell enables and disables.                                         *)

\* register_signal() notes what it connects, unregister_signal_all()
\* disconnects all that was noted.
Register(regs) == regs \cup {enables + 1}
UnregisterAll == {}

\* The model of the new client may already have rows, which are not signalled.
Enable ==
  /\ Event /\ ~on
  /\ on' = TRUE
  /\ enables' = enables + 1
  /\ hooks' = Register(hooks)
  /\ heard' = Register(heard)
  /\ rows' \in SUBSET Macs
  /\ list' = {}
  /\ UNCHANGED <<pending, objs, procs, label, lost>>

\* The process the device writes to, while its watch has not run.
ProcessOf(o) == {p \in DOMAIN procs : procs[p].obj = o /\ procs[p].watched}

\* Writing "stop" to a process that has exited throws: the first such device
\* of the list ends disable() there.
\* Mutant: only the connected devices are stopped.
StoppableConnected == {o \in Connected : objs[o].started}

Stoppable == {o \in list : objs[o].started}
Broken == {o \in Stoppable : \E p \in ProcessOf(o) : ~procs[p].alive}
Stopped == {o \in Stoppable : \A b \in Broken : o < b}

Tell(os) ==
  procs' = [p \in DOMAIN procs |->
              [procs[p] EXCEPT !.told = @ \/ \E o \in os : p \in ProcessOf(o)]]

\* Mutant: the handlers of the rows go last, and not when a stop() throws.
StopEnginesFirst ==
  /\ heard' = IF Broken = {} THEN {} ELSE heard
  /\ Tell(Stopped)
  /\ lost' = lost \cup (Stoppable \ Stopped)

\* What comes first: the handlers of the rows go, whatever the devices do.
StopEngines ==
  /\ heard' = UnregisterAll
  /\ Tell(Stopped)
  /\ lost' = lost \cup (Stoppable \ Stopped)

\* Mutant: the indicator's handlers stay.
ResetLabelOnly == UNCHANGED hooks /\ label' = IF Broken = {} THEN Count ELSE label

\* _unregister_signals() and the label, when no stop() has thrown.
ResetIndicator ==
  IF Broken = {} THEN hooks' = UnregisterAll /\ label' = Count
                 ELSE UNCHANGED <<hooks, label>>

Disable ==
  /\ Event /\ on
  /\ on' = FALSE
  /\ StopEngines
  /\ ResetIndicator
  /\ rows' = {}
  /\ UNCHANGED <<pending, objs, list, enables>>

-----------------------------------------------------------------------------
(* The engine processes.                                                   *)

\* An engine that has been told to connect prints its first line.  The
\* extension itself never writes "connect-to": with Lines empty nobody does.
Answer(p, l) ==
  /\ procs[p].alive /\ procs[p].line = Unknown /\ procs[p].read = Unknown
  /\ procs' = [procs EXCEPT ![p].line = l]
  /\ UNCHANGED <<on, heard, rows, objs, list, indicator, lost, enables, events>>

\* It ends, told to or not.
Exit(p) ==
  /\ procs[p].alive
  /\ procs' = [procs EXCEPT ![p].alive = FALSE]
  /\ UNCHANGED <<on, heard, rows, objs, list, indicator, lost, enables, events>>

\* The watch runs.  The process was not spawned as a child to be reaped
\* (flags 0), and a watch on what is no child may run before it has exited.
ChildWatch(p) ==
  /\ procs[p].watched
  /\ procs' = [procs EXCEPT ![p].watched = FALSE]
  /\ objs' = [objs EXCEPT ![procs[p].obj].started = FALSE]
  /\ UNCHANGED <<on, heard, rows, list, indicator, lost, enables, events>>

\* Mutant: the level is shown beside the device that is connected.
ShowConnected(m, l) ==
  label' = IF hooks # {} /\ Cardinality(Connected) = 1
           THEN Level(objs[CHOOSE d \in Connected : TRUE].mac, l) ELSE label

\* "battery_level_change": each registration shows the level of the device
\* whose engine spoke, when exactly one listed device is connected.
ShowLevel(m, l) ==
  label' = IF hooks # {} /\ Cardinality(Connected) = 1 THEN Level(m, l) ELSE label

\* The only line the extension ever reads of a process; the reader lives on
\* after the device left the list and after the process has exited.
ReadLine(p) ==
  /\ procs[p].line # Unknown
  /\ procs' = [procs EXCEPT ![p].read = procs[p].line,
                           ![p].line = Unknown]
  /\ LET o == procs[p].obj
         l == procs[p].line
     IN  IF l = NaN
         THEN UNCHANGED <<objs, label>>
         ELSE objs' = [objs EXCEPT ![o].lvl = l] /\ ShowLevel(objs[o].mac, l)
  /\ UNCHANGED <<on, heard, hooks, pending, rows, list, lost, enables, events>>

Next ==
  \/ Enable \/ Disable \/ ShellSync
  \/ \E m \in Macs :
       \/ \E c \in BOOLEAN : RowInserted(m, c) \/ RowChanged(m, c)
       \/ RowDeleted(m)
  \/ \E k \in pending : Refresh(k)
  \/ \E p \in DOMAIN procs :
       \/ \E l \in Lines : Answer(p, l)
       \/ Exit(p) \/ ChildWatch(p) \/ ReadLine(p)

Spec == Init /\ [][Next]_vars

\* The main loop runs what is due: the timers and the readers.
Fairness ==
  /\ \A k \in 1..MaxEvents : WF_vars(Refresh(k))
  /\ \A p \in 1..MaxProcs : WF_vars(p \in DOMAIN procs /\ ReadLine(p))

FairSpec == Spec /\ Fairness

\* Every engine that lives on prints a line, if it prints lines at all.
AnsweredSpec ==
  FairSpec /\ \A p \in 1..MaxProcs :
    WF_vars(p \in DOMAIN procs /\ \E l \in Lines : Answer(p, l))

-----------------------------------------------------------------------------
TypeOK ==
  /\ on \in BOOLEAN
  /\ enables \in 0..MaxEvents /\ events \in 0..MaxEvents
  /\ heard \subseteq 1..enables /\ hooks \subseteq 1..enables
  /\ pending \subseteq 1..enables
  /\ rows \subseteq Macs
  /\ objs \in Seq([mac : Macs, connected : BOOLEAN, lvl : Lines \cup {Unknown},
                   started : BOOLEAN])
  /\ list \subseteq DOMAIN objs /\ lost \subseteq DOMAIN objs
  /\ procs \in Seq([obj : DOMAIN objs, alive : BOOLEAN, watched : BOOLEAN,
                    told : BOOLEAN, line : Lines \cup {Unknown},
                    read : Lines \cup {Unknown}])
  /\ label \in {Shell, Count} \cup
               [kind : {"level"}, mac : Macs, lvl : Lines \cup {100}]

\* A device is marked started exactly while one process it started is
\* watched, and there is never a second: stop() has one process to write to,
\* however rows, spawn failures and watches interleave
\* (battery_level_engine.js:160-166, 185-201).
OneEngine ==
  \A o \in DOMAIN objs :
    /\ Cardinality(ProcessOf(o)) <= 1
    /\ objs[o].started <=> ProcessOf(o) # {}

\* No engine the extension still watches is forgotten: it belongs to a device
\* of the list of an enabled extension, or it was told to stop, or a failing
\* disable() did not reach it (battery_level_engine.js:52-55, 197-201).  An
\* engine whose watch has run early is no longer watched, and is forgotten.
NoEngineLeftBehind ==
  \A p \in DOMAIN procs :
    procs[p].watched /\ procs[p].alive =>
      procs[p].told \/ procs[p].obj \in lost \/ (on /\ procs[p].obj \in list)

\* The rows are heard by the current registration alone, whatever disable()
\* met on its way, and the handlers of the indicator outlive a disable() only
\* when a stop() has thrown in it (battery_level_engine.js:52-55,
\* battery_level_extention.js:98-113).
Registered ==
  /\ heard = IF on THEN {enables} ELSE {}
  /\ on => enables \in hooks
  /\ lost = {} => hooks = heard

\* A level the menu shows beside a device is one an engine of that device has
\* printed, or the 100 of a device that has told none
\* (battery_level_extention.js:73-79, 84-91).
LevelIsTold ==
  label.kind = "level" =>
    \/ label.lvl = 100
    \/ \E p \in DOMAIN procs :
         objs[procs[p].obj].mac = label.mac /\ procs[p].read = label.lvl

\* Once disable() has run to its end only a timer armed before it may put a
\* level in the menu, and once per registration: no line of an engine that is
\* still ending does (battery_level_extention.js:94-113).
QuietAfterDisable ==
  [][~on /\ ~on' /\ lost = {} /\ label' # label =>
       label' = Shell \/ \E k \in pending : pending' = pending \ {k}]_vars

\* When the shell has rewritten the label and exactly one device is
\* connected, its level comes back, in every order of the signals and of the
\* timers they re-arm (event_trigger_attenuator.js:11-20).
LabelReturns ==
  on /\ label = Shell /\ Cardinality(Connected) = 1
    ~> label.kind = "level" \/ ~on \/ Cardinality(Connected) # 1

\* "Show bluetooth device battery level" (metadata.json:3): the level of a
\* connected device becomes known, if its engine neither ends nor is taken
\* for ended (battery_level_engine.js:117-148).
LevelBecomesKnown ==
  \A o \in 1..MaxEvents :
    on /\ o \in Connected /\ ProcessOf(o) # {}
      ~> \/ ~on \/ o \notin Connected
         \/ \E p \in DOMAIN procs :
              procs[p].obj = o /\ ~(procs[p].alive /\ procs[p].watched)
         \/ objs[o].lvl # Unknown
=============================================================================
