----------------------------- MODULE WatchService -----------------------------
(***************************************************************************)
(* The guard process: WatchService.cpp starts the modules of the terminal,  *)
(* kills those that do not answer, and closes them all for a restart or the *)
(* end of the system.                                                       *)
(*                                                                          *)
(* Its slots run one at a time in one thread; a pass over the modules goes  *)
(* by their names.  Processes go on meanwhile.  Delays are timers that may  *)
(* expire at any time; of the time since the last answer only matters which *)
(* timeouts it has exceeded, and the one to close a module is the shorter.  *)
(* Left out: the splash screen, log and memory messages, a start that       *)
(* fails, and the reboot after 85 vain attempts to open the server.         *)
(***************************************************************************)
EXTENDS Integers, SequencesExt

CONSTANTS
  Order,          \* the modules by name (mModules)
  AutoStart,      \* autostart=true
  StartPriority,  \* priority
  ClosePriority,  \* close_priority
  MaxStarts,      \* maxstartcount, 0 for no limit
  Exclusive,      \* startmode=exclusive
  Updater,        \* the module every close sequence tells to close
  Ordered,        \* modules that commands name
  MaxCommands,    \* bound: commands
  MaxFaults       \* bound: modules that crash or hang, servers that do not open

Modules == ToSet(Order)

ASSUME OrderAssumption == Order \in Seq(Modules)
ASSUME ModulesAssumption == {Updater} \union AutoStart \union Exclusive \union Ordered \subseteq Modules
ASSUME SettingsAssumption == {StartPriority, ClosePriority, MaxStarts} \subseteq [Modules -> Nat]
ASSUME BoundsAssumption == {MaxCommands, MaxFaults} \subseteq Nat

VARIABLES
  mods,       \* mods[m]: the module and its process
  timer,      \* mTimer runs: modules are checked
  server,     \* mServer is open: commands arrive
  action,     \* mCloseAction, where exit, reboot and shutdown are one
  chains,     \* pending timers of closeModules()
  pauses,     \* pending timers of reinitialize()
  returns,    \* pending timers of checkAutoStartModules()
  quit,       \* the service has ended
  orphans,    \* modules with a process the service has lost track of
  early,      \* a command has had the modules checked with reinitialize() to come
  doubled,    \* a close sequence has ended with reinitialize() of another to come
  orderly,    \* since a close sequence began no command has had the modules checked
  bounds      \* used up of the bounds

timers == <<timer, chains, pauses, returns>>
ghosts == <<early, doubled, orderly>>
vars == <<mods, server, action, timers, quit, orphans, ghosts, bounds>>

-----------------------------------------------------------------------------
(* A module. *)

\* loadConfiguration()
Configured(m) ==
  [need |-> m \in AutoStart, previous |-> FALSE, starts |-> 0, misses |-> 0,
   proc |-> "off", age |-> 0, told |-> FALSE, hung |-> FALSE]

\* A process is up when it has answered; one that is starting has not
\* (initDate = lastUpdate). Age 1: it could be killed for its silence, age 2: the
\* time for the first answer is over too.
Running(r) == r.proc # "off"
Ended(r) == [r EXCEPT !.proc = "off", !.age = 0, !.told = FALSE, !.hung = FALSE]

\* startModule()
Started(r, m) ==
  [Ended(r) EXCEPT !.proc = "starting", !.starts = IF MaxStarts[m] > 0 THEN @ + 1 ELSE 0]

\* canRun()
CanRun(s, m) ==
  IF m \in Exclusive
  THEN \A x \in Modules : ~Running(s[x])
  ELSE \A x \in Modules :
         StartPriority[x] < StartPriority[m] /\ s[x].need => s[x].proc = "up"

\* canTerminate()
CanTerminate(s, m) ==
  \A x \in Modules : ClosePriority[x] < ClosePriority[m] => ~Running(s[x])

\* Mutant: a module is not killed.
CloseWithoutKill(s, m, ignorePriority) ==
  IF ~Running(s[m]) THEN s
  ELSE IF ~ignorePriority /\ ~CanTerminate(s, m) THEN [s EXCEPT ![m].need = FALSE]
  ELSE [s EXCEPT ![m].need = FALSE, ![m].told = TRUE]

\* closeModule(): told to close, or killed when it has been silent for too long.
Close(s, m, ignorePriority) ==
  IF ~Running(s[m]) THEN s
  ELSE IF ~ignorePriority /\ ~CanTerminate(s, m) THEN [s EXCEPT ![m].need = FALSE]
  ELSE IF s[m].age > 0 THEN [s EXCEPT ![m] = [Ended(@) EXCEPT !.need = FALSE]]
  ELSE [s EXCEPT ![m].need = FALSE, ![m].told = TRUE]

-----------------------------------------------------------------------------
(* onCheckModules(): one pass. *)

\* The limit of starts is reached: after an exclusive module the others return.
GiveUp(s, m) ==
  [x \in Modules |->
     IF x = m THEN [s[x] EXCEPT !.need = FALSE]
     ELSE IF m \in Exclusive /\ x \notin Exclusive
     THEN [s[x] EXCEPT !.need = s[x].previous]
     ELSE s[x]]

StartIfPossible(s, m) ==
  IF ~CanRun(s, m) THEN s
  ELSE IF MaxStarts[m] > 0 /\ s[m].starts >= MaxStarts[m] THEN GiveUp(s, m)
  ELSE [s EXCEPT ![m] = Started(@, m)]

\* Mutant: the silence is counted and nothing done.
WatchIdly(r) == [r EXCEPT !.misses = IF r.age = 0 THEN 0 ELSE @ + 1]

\* A module that is silent at two checks is killed; one that has just been
\* started gets the time for its first answer.
Watch(r) ==
  IF r.proc = "starting" /\ r.age < 2 THEN r
  ELSE IF r.age = 0 THEN [r EXCEPT !.misses = 0]
  ELSE IF r.misses = 0 THEN [r EXCEPT !.misses = 1]
  ELSE [Ended(r) EXCEPT !.misses = 0]

CheckModule(s, m) ==
  IF ~s[m].need THEN Close(s, m, TRUE)
  ELSE IF Running(s[m]) THEN [s EXCEPT ![m] = Watch(@)]
  ELSE StartIfPossible(s, m)

\* A pass over the modules gives the set of its outcomes, here one.
Checked(s) ==
  LET pass[i \in 0..Len(Order)] ==
        IF i = 0 THEN {s} ELSE {CheckModule(t, Order[i]) : t \in pass[i - 1]}
  IN  pass[Len(Order)]

-----------------------------------------------------------------------------
(* Closing and beginning again. *)

\* initialize(): the modules anew; what still runs is lost track of.
Initialize(s) ==
  /\ mods' = [m \in Modules |-> Configured(m)]
  /\ orphans' = orphans \union {m \in Modules : Running(s[m])}

\* One pass of doCloseModules(), not sent by the updater.
CloseInOrder(s) ==
  LET pass[i \in 0..Len(Order)] ==
        IF i = 0 THEN {s} ELSE {Close(t, Order[i], FALSE) : t \in pass[i - 1]}
  IN  {[t EXCEPT ![Updater].told = Running(t[Updater])] : t \in pass[Len(Order)]}

\* Mutant: the modules are checked on.
KeepTimer == UNCHANGED timer

StopTimer == timer' = FALSE

\* Mutant: only the module visited last decides.
LastClosed(t) == ~Running(t[Order[Len(Order)]])

AllClosed(t) == \A m \in Modules : ~Running(t[m])

\* doCloseModules(): again in a second as long as one runs, then closeAction().
\* c timers of it are pending besides.
CloseModules(s, a, c) ==
  \E t \in CloseInOrder(s) :
    /\ doubled' = (doubled \/ (AllClosed(t) /\ a # "quit" /\ pauses > 0))
    /\ \/ /\ ~AllClosed(t)
          /\ mods' = t /\ action' = a /\ chains' = c + 1
          /\ StopTimer
          /\ UNCHANGED <<server, pauses, quit, orphans>>
       \/ /\ AllClosed(t) /\ a = "none"
          /\ mods' = t /\ action' = a /\ chains' = c /\ pauses' = pauses + 1
          /\ StopTimer
          /\ UNCHANGED <<server, quit, orphans>>
       \/ /\ AllClosed(t) /\ a = "restart"
          /\ action' = "none" /\ chains' = c
          /\ Initialize(t)
          /\ timer' = TRUE
          /\ UNCHANGED <<server, pauses, quit>>
       \/ /\ AllClosed(t) /\ a = "quit"
          /\ mods' = t /\ action' = a /\ chains' = c /\ quit' = TRUE
          /\ StopTimer
          /\ UNCHANGED <<server, pauses, orphans>>

-----------------------------------------------------------------------------
(* The timers of the service. *)

Tick ==
  /\ ~quit /\ timer
  /\ mods' \in Checked(mods)
  /\ orderly' = (orderly /\ chains > 0)
  /\ UNCHANGED <<server, action, timers, quit, orphans, early, doubled, bounds>>

CloseAgain ==
  /\ ~quit /\ chains > 0
  /\ CloseModules(mods, action, chains - 1)
  /\ UNCHANGED <<returns, early, orderly, bounds>>

\* reinitialize(), after 5 minutes. A server that does not open is tried again
\* after 7 seconds.
Reinitialize ==
  /\ ~quit /\ pauses > 0
  /\ Initialize(mods)
  /\ timer' = TRUE /\ server' = TRUE
  /\ pauses' = pauses - 1
  /\ UNCHANGED <<action, chains, returns, quit, ghosts, bounds>>

ReinitializeFails ==
  /\ ~quit /\ pauses > 0 /\ bounds.faults < MaxFaults
  /\ Initialize(mods)
  /\ timer' = FALSE /\ server' = FALSE
  /\ bounds' = [bounds EXCEPT !.faults = @ + 1]
  /\ UNCHANGED <<action, chains, pauses, returns, quit, ghosts>>

\* Mutant: the modules that were closed by a command are left closed.
ReturnNobody == UNCHANGED <<mods, ghosts>>

\* checkAutoStartModules() looks for modules to return; each one found starts a
\* check of all.
ReturnModules ==
  LET Return(s, m) ==
        IF m \in AutoStart /\ ~s[m].need
        THEN Checked([s EXCEPT ![m].need = TRUE, ![m].starts = 0])
        ELSE {s}
      pass[i \in 0..Len(Order)] ==
        IF i = 0 THEN {mods} ELSE UNION {Return(t, Order[i]) : t \in pass[i - 1]}
  IN  IF \A m \in AutoStart : mods[m].need
      THEN UNCHANGED <<mods, ghosts>>
      ELSE /\ mods' \in pass[Len(Order)]
           /\ early' = (early \/ pauses > 0)
           /\ orderly' = FALSE
           /\ UNCHANGED doubled

CheckAutoStartModules ==
  /\ ~quit /\ returns > 0
  /\ returns' = returns - 1
  /\ ReturnModules
  /\ UNCHANGED <<server, action, timer, chains, pauses, quit, orphans, bounds>>

-----------------------------------------------------------------------------
(* Commands, from the modules and the tray application (messageReceived). *)

Command ==
  /\ ~quit /\ server /\ bounds.commands < MaxCommands
  /\ bounds' = [bounds EXCEPT !.commands = @ + 1]

CheckOnCommand(s) ==
  /\ mods' \in Checked(s)
  /\ early' = (early \/ pauses > 0)
  /\ orderly' = FALSE
  /\ UNCHANGED doubled

\* start_module: an exclusive module remembers who was needed, itself included.
StartModule(m) ==
  /\ Command
  /\ CheckOnCommand(
       [x \in Modules |->
          LET r == IF m \in Exclusive
                   THEN [mods[x] EXCEPT !.previous = mods[x].need, !.need = FALSE]
                   ELSE mods[x]
          IN  IF x = m THEN [r EXCEPT !.need = TRUE, !.starts = 0] ELSE r])
  /\ UNCHANGED <<server, action, timers, quit, orphans>>

\* close_module: a module of the terminal returns after 10 minutes.
CloseModule(m) ==
  /\ Command
  /\ CheckOnCommand([mods EXCEPT ![m].need = FALSE])
  /\ returns' = returns + (IF m \in AutoStart THEN 1 ELSE 0)
  /\ UNCHANGED <<server, action, timer, chains, pauses, quit, orphans>>

\* close, restart; exit, reboot and shutdown.
CloseFor(a) ==
  /\ Command
  /\ orderly' = (orderly \/ \A m \in Modules : ~mods[m].told)
  /\ CloseModules([m \in Modules |-> [mods[m] EXCEPT !.need = FALSE]], a, chains)
  /\ UNCHANGED <<returns, early>>

-----------------------------------------------------------------------------
(* The processes. *)

Process(m, r) ==
  /\ mods' = [mods EXCEPT ![m] = r]
  /\ UNCHANGED <<server, action, timers, quit, orphans, ghosts>>

Fault == bounds.faults < MaxFaults /\ bounds' = [bounds EXCEPT !.faults = @ + 1]

\* touch(), on every message.
Answer(m) ==
  /\ Running(mods[m]) /\ ~mods[m].hung
  /\ Process(m, [mods[m] EXCEPT !.proc = "up", !.age = 0])
  /\ UNCHANGED bounds

\* A module closes when it is told to, or ends by itself when it is not there to stay.
Obey(m) ==
  /\ Running(mods[m]) /\ ~mods[m].hung /\ (mods[m].told \/ MaxStarts[m] > 0)
  /\ Process(m, Ended(mods[m]))
  /\ UNCHANGED bounds

Crash(m) ==
  /\ Running(mods[m]) /\ Fault
  /\ Process(m, Ended(mods[m]))

Hang(m) ==
  /\ Running(mods[m]) /\ ~mods[m].hung /\ Fault
  /\ Process(m, [mods[m] EXCEPT !.hung = TRUE])

GoOn(m) ==
  /\ mods[m].hung
  /\ Process(m, [mods[m] EXCEPT !.hung = FALSE])
  /\ UNCHANGED bounds

\* A timeout of a module that does not answer passes.
KeepSilent(m) ==
  /\ mods[m].hung /\ mods[m].age < 2
  /\ Process(m, [mods[m] EXCEPT !.age = @ + 1])
  /\ UNCHANGED bounds

\* A process without its server closes (ServiceController::onDisconnected).
OrphanEnds(m) ==
  /\ m \in orphans
  /\ orphans' = orphans \ {m}
  /\ UNCHANGED <<mods, server, action, timers, quit, ghosts, bounds>>

-----------------------------------------------------------------------------
Init ==
  /\ mods = [m \in Modules |-> Configured(m)]
  /\ timer = TRUE /\ server = TRUE /\ action = "none"
  /\ chains = 0 /\ pauses = 0 /\ returns = 0
  /\ quit = FALSE /\ orphans = {}
  /\ early = FALSE /\ doubled = FALSE /\ orderly = FALSE
  /\ bounds = [commands |-> 0, faults |-> 0]

Timers == Tick \/ CloseAgain \/ Reinitialize \/ CheckAutoStartModules
Commands == (\E m \in Ordered : StartModule(m) \/ CloseModule(m))
            \/ \E a \in {"none", "restart", "quit"} : CloseFor(a)
Live(m) == Answer(m) \/ Obey(m) \/ KeepSilent(m) \/ OrphanEnds(m)
Next == Timers \/ ReinitializeFails \/ Commands
        \/ \E m \in Modules : Live(m) \/ Crash(m) \/ Hang(m) \/ GoOn(m)

Spec == Init /\ [][Next]_vars

\* Timers expire; a process answers, does as it is told or is silent for long.
FairSpec == Spec /\ WF_vars(Timers) /\ \A m \in Modules : WF_vars(Live(m))

-----------------------------------------------------------------------------
(* Properties. *)

\* Type invariant.
TypeOK ==
  /\ mods \in [Modules -> [need : BOOLEAN, previous : BOOLEAN, starts : Nat, misses : {0, 1},
                           proc : {"off", "starting", "up"}, age : 0..2,
                           told : BOOLEAN, hung : BOOLEAN]]
  /\ {timer, server, quit, early, doubled, orderly} \subseteq BOOLEAN
  /\ action \in {"none", "restart", "quit"}
  /\ {chains, pauses, returns} \subseteq Nat
  /\ orphans \subseteq Modules
  /\ bounds \in [commands : 0..MaxCommands, faults : 0..MaxFaults]

\* The table of modules is thrown away with a process in it, and the module then
\* run twice, only in two ways: a command has the modules checked, and so started,
\* in the five minutes before reinitialize(), or a second close sequence ends in
\* them, whose own reinitialize() comes when the first has had the modules started.
\* The service's own checks, its timers in whatever order, modules that are
\* killed, crash or close, and a server that does not open never bring it about
\* (doCloseModules, closeAction, reinitialize).
NobodyForgotten == ~early /\ ~doubled => orphans = {}

\* A module is told to close only when all that are to be closed before it are
\* down, and those stay down; the updater is told at once. A check of the modules
\* would close them in any order, so the timer of the checks has to be off as
\* long as a sequence goes on, a second one included (doCloseModules, mTimer).
ClosedInOrder ==
  orderly => \A x, y \in Modules :
    ClosePriority[x] < ClosePriority[y] /\ y # Updater /\ mods[y].told => ~Running(mods[x])

\* The terminal comes back: whatever was closed, restarted, killed or given up,
\* in the end the modules that start by themselves are up, or the service was
\* told to quit (onCheckModules, closeAction, checkAutoStartModules).
ComesBack == <>[](quit \/ \A m \in AutoStart : mods[m].proc = "up")

\* A service that is told to quit does, past modules that hang, are started
\* meanwhile or are closed by a second sequence, unless another command
\* replaces that one (doCloseModules, closeAction).
QuitsWhenTold == action = "quit" ~> quit \/ action # "quit"

=============================================================================
