----------------------------- MODULE UpdateDeploy -----------------------------
(***************************************************************************)
(* The update engine: Updater.cpp, Folder.cpp and Package.cpp download the  *)
(* files of the new version into a temporary folder, and deploy() replaces  *)
(* those of the terminal, with a backup to restore when a step fails.       *)
(*                                                                          *)
(* A file is there in the version of the update, in another one, cut short  *)
(* by an interrupted write, or not there.  Left out: the exception          *)
(* directories (logs, user, ...), empty folders, the files post-actions     *)
(* write, their own download in folders, BITS, and getting the list of      *)
(* components.  The code's lists of files are sets too; components are      *)
(* taken in any order.                                                      *)
(***************************************************************************)
EXTENDS Integers, FiniteSets

CONSTANTS
  Files,
  Components,    \* mComponents: the components to update
  FilesOf,       \* getFiles()
  Packages,      \* components of type package, one archive each; the others are folders
  SkipExisting,  \* skip_existing
  Optional,      \* optional
  PostActions,   \* components with post-actions
  Partial,       \* haveSkippedComponents(): only some components are updated
  FirstDisks,    \* what may be installed before the first update
  MaxFails,      \* CUpdater::MaxFails
  MaxFaults      \* bound: operations that fail, crashes, writes of the client

ASSUME FilesAssumption == FilesOf \in [Components -> SUBSET Files]
ASSUME DisjointAssumption ==
  \A c, d \in Components : c # d => FilesOf[c] \intersect FilesOf[d] = {}
ASSUME KindsAssumption ==
  {Packages, SkipExisting, Optional, PostActions} \subseteq SUBSET Components
ASSUME PartialAssumption == Partial \in BOOLEAN
ASSUME FirstDisksAssumption == FirstDisks \subseteq [Files -> {"none", "old", "new"}]
ASSUME UpdateBoundsAssumption == MaxFails \in Nat \ {0} /\ MaxFaults \in Nat

VARIABLES
  disk,      \* disk[f]: the file in mWorkingDir
  temp,      \* files of the new version in the temporary folder, in archives too
  backup,    \* backup[f]: the copy in the backup folder of this deployment
  phase,     \* where the engine is, or how it ended: done()
  tasks,     \* mActiveTasks: the files each is to bring
  fails,     \* mFailCount, no further than MaxFails
  oldFiles, newFiles,  \* of deploy()
  todo,      \* components the loop at hand has still to take
  left,      \* files the loop at hand has still to take
  was,       \* what was on the disk when deploy() began
  clumsy,    \* a step of the rollback has failed
  faults     \* used up of MaxFaults

lists == <<oldFiles, newFiles, was>>
engine == <<disk, temp, backup, phase, tasks, fails, lists, todo, left, clumsy, faults>>

Contents == {"none", "old", "new", "torn"}
Deploying == {"backup", "delete", "deploy", "actions", "drop", "restore"}
Results == {"OK", "NetworkError", "UnknownError", "DeployError"}

FilesOfAny(cs) == UNION {FilesOf[c] : c \in cs}
Downloaded == FilesOfAny(Components)
Archived == FilesOfAny(Packages)
Spared == FilesOfAny(SkipExisting \union Optional)
Current == {f \in Files : disk[f] # "none"}

Fault == faults < MaxFaults /\ faults' = faults + 1
NoFault == UNCHANGED faults

-----------------------------------------------------------------------------
(* Download. *)

\* Folder::download(), Package::download(): a task for each file, or for the archive,
\* that is neither installed in this version nor in the temporary folder already;
\* post-actions need the archive in any case.
TasksOf(c) ==
  LET missing == {f \in FilesOf[c] : disk[f] # "new"} IN
  IF c \notin Packages THEN {{f} : f \in missing \ temp}
  ELSE IF FilesOf[c] \subseteq temp \/ (missing = {} /\ c \notin PostActions) THEN {}
  ELSE {FilesOf[c]}

\* downloadComponents()
DownloadComponents ==
  /\ phase' = "download"
  /\ tasks' = UNION {TasksOf(c) : c \in Components}
  /\ UNCHANGED <<disk, temp, backup, fails, lists, todo, left, clumsy, faults>>

\* Mutant: a download takes back one failure instead of all.
NextTaskForgiving(t) == tasks' = tasks \ {t} /\ fails' = fails - 1 /\ UNCHANGED phase

\* goToNextFile() of downloadComplete()
NextTask(t) == tasks' = tasks \ {t} /\ fails' = 0 /\ UNCHANGED phase

\* downloadComplete(), the task has no error.
TaskDone(t) ==
  /\ NextTask(t)
  /\ temp' = temp \union t
  /\ UNCHANGED <<disk, backup, lists, todo, left, clumsy, faults>>

\* downloadComplete(), the task has failed: what came is not the file (wrong), or the
\* transfer broke off, with data (more) or without any. The file of an optional
\* component is done without, others are tried again up to MaxFails times.
TaskFails(t, wrong, more) ==
  LET reached == fails + 1 >= MaxFails /\ (wrong \/ ~more)
  IN /\ IF t \subseteq FilesOfAny(Optional) /\ (wrong \/ reached) THEN NextTask(t)
        ELSE /\ fails' = IF fails < MaxFails THEN fails + 1 ELSE fails
             /\ phase' = IF reached THEN "NetworkError" ELSE phase
             /\ UNCHANGED tasks
     /\ UNCHANGED <<disk, temp, backup, lists, todo, left, clumsy, faults>>

Download ==
  /\ phase = "download"
  /\ \E t \in tasks : TaskDone(t) \/ \E wrong, more \in BOOLEAN : TaskFails(t, wrong, more)

-----------------------------------------------------------------------------
(* deploy(): the lists and the backup. *)

\* Mutant: what is not in the list of files is let be in a full update too.
OldFilesOfList ==
  {f \in Current \ Spared : f \in Downloaded /\ disk[f] # "new"}

\* What a full update removes is all that is not of the new version, a partial one
\* only what it replaces; files of optional components, and of those that skip
\* existing files, stay.
OldFiles ==
  {f \in Current \ Spared : (Partial => f \in Downloaded) /\ ~(f \in Downloaded /\ disk[f] = "new")}

NewFiles == {f \in Downloaded : disk[f] # "new"}

Deploy ==
  /\ phase' = "backup"
  /\ oldFiles' = OldFiles /\ newFiles' = NewFiles /\ left' = OldFiles
  /\ was' = disk /\ backup' = [f \in Files |-> "none"]
  /\ UNCHANGED <<disk, temp, tasks, fails, todo, clumsy, faults>>

Remain == UNCHANGED <<temp, tasks, fails, lists>>

\* copyFiles(mWorkingDir, backupDir, oldFiles)
BackUp(f) ==
  /\ backup' = [backup EXCEPT ![f] = disk[f]]
  /\ left' = left \ {f}
  /\ NoFault /\ Remain /\ UNCHANGED <<disk, phase, todo, clumsy>>

\* Mutant: the deletion goes on with a backup that failed.
BackUpFailsUnheard ==
  /\ Fault /\ phase' = "delete" /\ left' = oldFiles
  /\ Remain /\ UNCHANGED <<disk, backup, todo, clumsy>>

BackUpFails ==
  /\ Fault /\ phase' = "UnknownError"
  /\ Remain /\ UNCHANGED <<disk, backup, todo, left, clumsy>>

BackedUp ==
  /\ left = {} /\ phase' = "delete" /\ left' = oldFiles
  /\ NoFault /\ Remain /\ UNCHANGED <<disk, backup, todo, clumsy>>

-----------------------------------------------------------------------------
(* deploy(): old files out, new files in. *)

\* The handler of an Exception: it restores the backup.
RollBack ==
  /\ phase' = "drop" /\ left' = newFiles /\ todo' = {}
  /\ Remain /\ UNCHANGED <<backup, clumsy>>

\* deleteFiles(oldFiles)
Delete(f) ==
  /\ disk' = [disk EXCEPT ![f] = "none"]
  /\ left' = left \ {f}
  /\ NoFault /\ Remain /\ UNCHANGED <<backup, phase, todo, clumsy>>

DeleteFails == Fault /\ RollBack /\ UNCHANGED disk

Deleted ==
  /\ left = {} /\ phase' = "deploy" /\ todo' = Components
  /\ NoFault /\ Remain /\ UNCHANGED <<disk, backup, left, clumsy>>

\* Folder::deploy() takes its files of the list; Package::deploy() unpacks the whole
\* archive if one of its files is in the list, and an optional one only if it is there.
TakeComponent(c) ==
  LET mine == newFiles \intersect FilesOf[c]
      packed == c \in Packages /\ mine # {}
      there == FilesOf[c] \subseteq temp
  IN /\ left = {} /\ NoFault /\ UNCHANGED disk
     /\ IF packed /\ ~there /\ c \notin Optional THEN RollBack
        ELSE /\ left' = IF packed THEN (IF there THEN FilesOf[c] ELSE {}) ELSE mine
             /\ todo' = todo \ {c}
             /\ Remain /\ UNCHANGED <<backup, phase, clumsy>>

\* A file that is left as it is: one that was not downloaded, of an optional component,
\* or one that exists already.
Passes(f) ==
  \/ f \in FilesOfAny(Optional) /\ f \notin temp
  \/ f \in FilesOfAny(SkipExisting) /\ disk[f] # "none"

InPlace(f) == f \in Archived \/ disk[f] = "none"

\* One file of the loop of Folder::deploy(), or of the archive.
PassBy(f) ==
  /\ Passes(f) /\ left' = left \ {f}
  /\ NoFault /\ Remain /\ UNCHANGED <<disk, backup, phase, todo, clumsy>>

RemoveExisting(f) ==
  /\ ~Passes(f) /\ ~InPlace(f)
  /\ disk' = [disk EXCEPT ![f] = "none"]
  /\ NoFault /\ Remain /\ UNCHANGED <<backup, phase, todo, left, clumsy>>

Put(f) ==
  /\ ~Passes(f) /\ InPlace(f) /\ f \in temp
  /\ disk' = [disk EXCEPT ![f] = "new"] /\ left' = left \ {f}
  /\ NoFault /\ Remain /\ UNCHANGED <<backup, phase, todo, clumsy>>

\* The file was not downloaded, or it cannot be written; an archive may break off in
\* the middle of a file.
PutFails(f) ==
  /\ ~Passes(f)
  /\ (f \notin temp /\ InPlace(f) /\ NoFault) \/ Fault
  /\ \/ UNCHANGED disk
     \/ f \in Archived /\ disk' = [disk EXCEPT ![f] = "torn"]
  /\ RollBack

ComponentsDeployed ==
  /\ left = {} /\ todo = {} /\ phase' = "actions" /\ todo' = PostActions
  /\ NoFault /\ Remain /\ UNCHANGED <<disk, backup, left, clumsy>>

\* applyPostActions(): a package takes them from its archive.
ApplyPostActions(c) ==
  /\ todo' = todo \ {c}
  /\ c \in Packages => FilesOf[c] \subseteq temp
  /\ NoFault /\ Remain /\ UNCHANGED <<disk, backup, phase, left, clumsy>>

PostActionsFail(c) ==
  /\ (c \in Packages /\ ~(FilesOf[c] \subseteq temp) /\ NoFault) \/ Fault
  /\ RollBack /\ UNCHANGED disk

\* saveUpdateConfiguration(), done(OK)
Succeed ==
  /\ todo = {} /\ phase' = "OK"
  /\ NoFault /\ Remain /\ UNCHANGED <<disk, backup, todo, left, clumsy>>

-----------------------------------------------------------------------------
(* deploy(): the rollback. What fails in it is ignored. *)

\* Mutant: the new files are not removed, so that nothing can be copied over them.
DropNothing(f) ==
  /\ left' = left \ {f} /\ NoFault
  /\ Remain /\ UNCHANGED <<disk, backup, phase, todo, clumsy>>

\* deleteFiles(newFiles, true)
Drop(f) ==
  /\ left' = left \ {f}
  /\ \/ disk' = [disk EXCEPT ![f] = "none"] /\ NoFault /\ UNCHANGED clumsy
     \/ disk[f] # "none" /\ Fault /\ clumsy' = TRUE /\ UNCHANGED disk
  /\ Remain /\ UNCHANGED <<backup, phase, todo>>

Dropped ==
  /\ left = {} /\ phase' = "restore" /\ left' = oldFiles
  /\ NoFault /\ Remain /\ UNCHANGED <<disk, backup, todo, clumsy>>

\* copyFiles(backupDir, mWorkingDir, oldFiles, true): QFile::copy() replaces nothing.
Restore(f) ==
  /\ left' = left \ {f}
  /\ \/ /\ disk' = IF disk[f] = "none" THEN [disk EXCEPT ![f] = backup[f]] ELSE disk
        /\ NoFault /\ UNCHANGED clumsy
     \/ disk[f] = "none" /\ Fault /\ clumsy' = TRUE /\ UNCHANGED disk
  /\ Remain /\ UNCHANGED <<backup, phase, todo>>

Restored ==
  /\ left = {} /\ phase' = "DeployError"
  /\ NoFault /\ Remain /\ UNCHANGED <<disk, backup, todo, left, clumsy>>

-----------------------------------------------------------------------------
DeployStep ==
  \/ phase = "backup" /\ ((\E f \in left : BackUp(f)) \/ BackUpFails \/ BackedUp)
  \/ phase = "delete" /\ ((\E f \in left : Delete(f)) \/ DeleteFails \/ Deleted)
  \/ /\ phase = "deploy"
     /\ \/ \E c \in todo : TakeComponent(c)
        \/ \E f \in left : PassBy(f) \/ RemoveExisting(f) \/ Put(f) \/ PutFails(f)
        \/ ComponentsDeployed
  \/ phase = "actions" /\ ((\E c \in todo : ApplyPostActions(c) \/ PostActionsFail(c)) \/ Succeed)
  \/ phase = "drop" /\ ((\E f \in left : Drop(f)) \/ Dropped)
  \/ phase = "restore" /\ ((\E f \in left : Restore(f)) \/ Restored)

\* The process is gone, and what it kept in memory.
Forget ==
  /\ phase' = "idle" /\ tasks' = {} /\ fails' = 0
  /\ oldFiles' = {} /\ newFiles' = {} /\ was' = disk' /\ backup' = [f \in Files |-> "none"]
  /\ todo' = {} /\ left' = {} /\ clumsy' = FALSE
  /\ UNCHANGED temp

BeingWritten(f) ==
  \/ phase = "deploy" /\ ~Passes(f) /\ InPlace(f)
  \/ phase = "restore" /\ disk[f] = "none"

\* A power failure cuts a file short that is being written.
EngineCrash ==
  /\ Fault
  /\ UNCHANGED disk \/ \E f \in left : BeingWritten(f) /\ disk' = [disk EXCEPT ![f] = "torn"]
  /\ Forget

\* The running client writes one of the files.
Write(f) ==
  /\ Fault
  /\ disk' = [disk EXCEPT ![f] = "old"]
  /\ UNCHANGED <<temp, backup, phase, tasks, fails, lists, todo, left, clumsy>>

EngineInit ==
  /\ disk \in FirstDisks /\ temp = {}
  /\ phase = "idle" /\ tasks = {} /\ fails = 0
  /\ oldFiles = {} /\ newFiles = {} /\ was = disk /\ backup = [f \in Files |-> "none"]
  /\ todo = {} /\ left = {} /\ clumsy = FALSE /\ faults = 0

-----------------------------------------------------------------------------
(* Properties. *)

EngineTypeOK ==
  /\ {disk, was, backup} \subseteq [Files -> Contents]
  /\ {temp, oldFiles, newFiles, left} \subseteq SUBSET Files
  /\ phase \in {"idle", "download"} \union Deploying \union Results
  /\ tasks \subseteq SUBSET Files /\ todo \subseteq Components
  /\ fails \in 0 .. MaxFails /\ faults \in 0 .. MaxFaults /\ clumsy \in BOOLEAN

\* An update that ended well (done(OK)) has every file of the components it updates in
\* the new version, but for those of optional components and, if they were there,
\* those of components that skip existing files; a full one has left no other file.
\* Whatever earlier attempts did: broken off, failed, with files cut short.
UpToDate ==
  phase = "OK" =>
    \A f \in Files :
      /\ f \in Downloaded \ Spared => disk[f] = "new"
      /\ f \in FilesOfAny(SkipExisting \ Optional) => disk[f] # "none"
      /\ f \notin Downloaded /\ ~Partial => disk[f] = "none"

\* Files that deploy() may lose although it says it restores them (Updater.cpp:747-753):
\* those of spared components are not backed up but are deleted with the new files, and
\* an archive that breaks off may have cut short a file that needed no update.
Unprotected == Spared \union {f \in Archived : was[f] = "new"}

\* A deployment that failed (done(DeployError)) leaves the disk as it found it, but for
\* those files, unless a step of the rollback failed too.
RolledBack ==
  phase = "DeployError" /\ ~clumsy => \A f \in Files \ Unprotected : disk[f] = was[f]

\* At every moment of a deployment each file it found, but for those, is on the disk as
\* it was or in the backup: a power failure loses none for good.
CopyExists ==
  phase \in Deploying =>
    \A f \in Files \ Unprotected : was[f] \in {"none", disk[f], backup[f]}
=============================================================================
