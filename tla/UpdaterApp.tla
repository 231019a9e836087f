------------------------------ MODULE UpdaterApp ------------------------------
(***************************************************************************)
(* The process of the update, UpdaterApp.cpp: it downloads while the client *)
(* works, has the watch service close the client, stops the service, and    *)
(* deploys when the connection to it breaks; then it starts the service     *)
(* again, which starts the client.                                          *)
(*                                                                          *)
(* The slots run in one thread; deploy() is one of them, so no other runs   *)
(* in between.  Timers may expire at any time.  The command to update       *)
(* comes from the client; a second instance ends at once.                   *)
(***************************************************************************)
EXTENDS UpdateDeploy

CONSTANT MaxRuns  \* bound: updates

ASSUME RunsAssumption == MaxRuns \in Nat

VARIABLES
  state,       \* mState; "exit": no process; "Locked": the splash screen stays
  link,        \* mWatchServiceClient is connected
  subscribed,  \* to onModuleClosed()
  timer,       \* mErrorStopTimer runs
  failing,     \* onFailStopClient() has been called, errorExit() is due
  service,     \* the watch service
  client,      \* the client; asked: told to close
  runs,        \* updates so far
  lost, late   \* in this update the service has broken down; the client was reported
               \* closed after the timer

waiting == <<subscribed, timer, failing>>
outside == <<service, client>>
ghosts == <<lost, late>>
app == <<state, link, waiting, outside, runs, ghosts>>
vars == <<engine, app>>

-----------------------------------------------------------------------------
\* UpdaterApp::run(), runUpdate()
Start ==
  /\ state = "exit" /\ service = "up" /\ client = "up" /\ runs < MaxRuns
  /\ DownloadComponents /\ phase = "idle"
  /\ state' = "Download" /\ link' = TRUE /\ runs' = runs + 1
  /\ lost' = FALSE /\ late' = FALSE
  /\ UNCHANGED <<waiting, outside>>

Downloading ==
  /\ Download /\ state = "Download"
  /\ UNCHANGED app

\* Mutant: nothing limits the wait for the client.
OnDownloadCompleteNoTimer ==
  /\ state = "Download" /\ phase = "download" /\ tasks = {}
  /\ state' = "Deploy" /\ subscribed' = TRUE
  /\ client' = IF link /\ service = "up" /\ client = "up" THEN "asked" ELSE client
  /\ UNCHANGED <<engine, link, timer, failing, service, runs, ghosts>>

\* onDownloadComplete(): the service is asked to close the client, if it hears.
OnDownloadComplete ==
  /\ state = "Download" /\ phase = "download" /\ tasks = {}
  /\ state' = "Deploy" /\ subscribed' = TRUE /\ timer' = TRUE
  /\ client' = IF link /\ service = "up" /\ client = "up" THEN "asked" ELSE client
  /\ UNCHANGED <<engine, link, failing, service, runs, ghosts>>

\* Mutant: deploy() does not wait for the service to stop.
OnModuleClosedHasty ==
  /\ state = "Deploy" /\ phase = "download" /\ subscribed /\ service = "up" /\ link
  /\ subscribed' = FALSE /\ timer' = FALSE /\ service' = "stopping" /\ late' = failing
  /\ Deploy /\ UNCHANGED <<state, link, failing, client, runs, lost>>

\* onModuleClosed()
OnModuleClosed ==
  /\ state = "Deploy" /\ phase = "download" /\ subscribed
  /\ client = "down" /\ service = "up" /\ link
  /\ subscribed' = FALSE /\ timer' = FALSE /\ service' = "stopping"
  /\ late' = failing
  /\ UNCHANGED <<engine, state, link, failing, client, runs, lost>>

\* onDisconnected(): while it downloads it tries to connect again, every second and in
\* vain; the timer of the next attempt finds that the download is over.
OnDisconnected ==
  /\ state \in {"Download", "Deploy"} /\ phase = "download"
  /\ link \/ state = "Deploy"
  /\ service = "down" /\ link' = FALSE
  /\ IF state = "Deploy" THEN Deploy ELSE UNCHANGED engine
  /\ UNCHANGED <<state, waiting, outside, runs, ghosts>>

Deployment ==
  /\ state = "Deploy" /\ DeployStep
  /\ UNCHANGED app

\* onFailStopClient(): the client is started, if it has closed, and the process ends.
OnFailStopClient ==
  /\ timer /\ phase \notin Deploying /\ state \in {"Deploy", "Locked"}
  /\ timer' = FALSE /\ failing' = TRUE
  /\ client' = IF link /\ service = "up" /\ client = "down" THEN "up" ELSE client
  /\ UNCHANGED <<engine, state, link, subscribed, service, runs, ghosts>>

\* Mutant: the service is only started after a deployment that went well.
OnUpdateCompleteIfOK ==
  /\ phase \in Results /\ state \in {"Download", "Deploy"} /\ state' = "Finish"
  /\ IF state = "Deploy" /\ phase = "OK" THEN service' = "up" /\ client' = "up"
     ELSE UNCHANGED outside
  /\ UNCHANGED <<engine, link, waiting, runs, ghosts>>

\* onUpdateComplete(): after a deployment the service is started, or the screen stays
\* locked.
OnUpdateComplete ==
  /\ phase \in Results /\ state \in {"Download", "Deploy"}
  /\ \/ state = "Download" /\ state' = "Finish" /\ NoFault /\ UNCHANGED outside
     \/ state = "Deploy" /\ state' = "Finish" /\ NoFault /\ service' = "up" /\ client' = "up"
     \/ state = "Deploy" /\ state' = "Locked" /\ Fault /\ UNCHANGED outside
  /\ UNCHANGED <<disk, temp, backup, phase, tasks, fails, lists, todo, left, clumsy>>
  /\ UNCHANGED <<link, waiting, runs, ghosts>>

End ==
  /\ Forget /\ state' = "exit"
  /\ link' = FALSE /\ subscribed' = FALSE /\ timer' = FALSE /\ failing' = FALSE
  /\ UNCHANGED <<runs, ghosts>>

\* errorExit() after onFailStopClient(), the exit of delayedExit(), tooLondToDownload(),
\* onCloseCommandReceived(): the last two do nothing once the download is over.
Exit ==
  /\ phase \notin Deploying
  /\ failing \/ state \in {"Finish", "Download"}
  /\ NoFault /\ UNCHANGED <<disk, outside>> /\ End

-----------------------------------------------------------------------------
(* The watch service and the client: see WatchService. *)

ClientCloses ==
  /\ client = "asked" \/ (client = "up" /\ service = "stopping")
  /\ client' = "down"
  /\ UNCHANGED <<engine, state, link, waiting, service, runs, ghosts>>

\* start_module, or the return of a module that was closed by a command.
ClientReturns ==
  /\ client = "down" /\ service = "up" /\ (failing \/ state = "exit")
  /\ client' = "up"
  /\ UNCHANGED <<engine, state, link, waiting, service, runs, ghosts>>

ServiceStops ==
  /\ service = "stopping" /\ client = "down"
  /\ service' = "down"
  /\ UNCHANGED <<engine, state, link, waiting, client, runs, ghosts>>

ServiceBreaksDown ==
  /\ service = "up" /\ phase = "download"
  /\ Fault /\ service' = "down" /\ lost' = TRUE
  /\ UNCHANGED <<disk, temp, backup, phase, tasks, fails, lists, todo, left, clumsy>>
  /\ UNCHANGED <<state, link, waiting, client, runs, late>>

ClientWrites ==
  /\ client = "up" /\ phase = "download"
  /\ \E f \in Files : Write(f)
  /\ UNCHANGED app

\* After a power failure the system starts the service, and the service the client.
PowerFails ==
  /\ state # "exit"
  /\ EngineCrash /\ state' = "exit"
  /\ link' = FALSE /\ subscribed' = FALSE /\ timer' = FALSE /\ failing' = FALSE
  /\ service' = "up" /\ client' = "up"
  /\ UNCHANGED <<runs, ghosts>>

-----------------------------------------------------------------------------
Init ==
  /\ EngineInit
  /\ state = "exit" /\ link = FALSE /\ subscribed = FALSE /\ timer = FALSE /\ failing = FALSE
  /\ service = "up" /\ client = "up" /\ runs = 0 /\ lost = FALSE /\ late = FALSE

Slots == OnDownloadComplete \/ OnModuleClosed \/ OnDisconnected \/ Deployment
         \/ OnFailStopClient \/ OnUpdateComplete \/ Exit
Outside == ClientCloses \/ ClientReturns \/ ServiceStops
Next == Start \/ Downloading \/ Slots \/ Outside
        \/ ServiceBreaksDown \/ ClientWrites \/ PowerFails

Spec == Init /\ [][Next]_vars

\* A service that stops closes the client and ends, and one that runs starts the client.
\* A client that is only told to close may never do so.
Certain == (service = "stopping" /\ ClientCloses) \/ ClientReturns \/ ServiceStops

\* The slots of the process are called and its timers expire.
FairSpec == Spec /\ WF_vars(Slots) /\ WF_vars(Certain)

-----------------------------------------------------------------------------
(* Properties. *)

TypeOK ==
  /\ EngineTypeOK
  /\ state \in {"exit", "Download", "Deploy", "Finish", "Locked"}
  /\ service \in {"up", "stopping", "down"} /\ client \in {"up", "asked", "down"}
  /\ {link, subscribed, timer, failing, lost, late} \subseteq BOOLEAN
  /\ runs \in 0 .. MaxRuns

\* The files are only replaced while the client is closed: onDisconnected() takes the
\* end of the connection for the end of the service, and that for the end of the client.
\* A service that breaks down in between deceives it.
FilesChangeAlone == phase \in Deploying => client = "down" \/ lost

\* An update that has ended, in whatever way, leaves a service that runs, so that the
\* client returns: unless the service has broken down, or the client was reported closed
\* in the moment between onFailStopClient() and errorExit(), when the service is stopped
\* and nobody is left to start it.
LeftRunning == state = "exit" => service = "up" \/ lost \/ late

\* Every update ends: downloads that never come to an end, a client that does not close
\* and a service that is not there do not hold it up. Then the client works again, or has
\* not closed at all (see LeftRunning for when it may be down), or the screen is locked.
UpdateEnds ==
  state # "exit" ~> (state = "exit" /\ (client # "down" \/ lost \/ late)) \/ state = "Locked"
=============================================================================
