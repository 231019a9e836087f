--------------------------- MODULE UpdaterApp_proofs ---------------------------
(***************************************************************************)
(* Proofs about UpdaterApp, for any files, components and numbers of        *)
(* updates and faults.                                                      *)
(*                                                                          *)
(* The files are proved about phase by phase.  While the new files go in,   *)
(* what matters of a component is whether the loop has still to take it:    *)
(* then its files are as the deletion left them, and otherwise those the    *)
(* loop has passed are what a good update leaves.  For the rollback the     *)
(* files of the two lists are told from the others, which nothing touches.  *)
(***************************************************************************)
EXTENDS UpdaterApp, TLAPS

(***************************************************************************)
(* The files of the components.                                             *)
(***************************************************************************)
LEMMA FilesOfAnyDef ==
  ASSUME NEW cs \in SUBSET Components
  PROVE  \A f : f \in FilesOfAny(cs) <=> \E c \in cs : f \in FilesOf[c]
BY DEF FilesOfAny

LEMMA SetFacts ==
  /\ Downloaded \subseteq Files
  /\ Archived \subseteq Downloaded
  /\ Spared \subseteq Downloaded
  /\ FilesOfAny(Optional) \subseteq Spared
  /\ FilesOfAny(SkipExisting) \subseteq Spared
  /\ \A f \in Spared : f \in FilesOfAny(Optional) \/ f \in FilesOfAny(SkipExisting)
  /\ \A f \in FilesOfAny(SkipExisting \ Optional) :
       f \in FilesOfAny(SkipExisting) /\ f \notin FilesOfAny(Optional)
<1> USE FilesAssumption, KindsAssumption, DisjointAssumption
<1>1. /\ Downloaded \subseteq Files
      /\ Archived \subseteq Downloaded
      /\ Spared \subseteq Downloaded
  BY FilesOfAnyDef DEF Downloaded, Archived, Spared, FilesOfAny
<1>2. /\ FilesOfAny(Optional) \subseteq Spared
      /\ FilesOfAny(SkipExisting) \subseteq Spared
      /\ \A f \in Spared : f \in FilesOfAny(Optional) \/ f \in FilesOfAny(SkipExisting)
  BY DEF Spared, FilesOfAny
<1>3. \A f \in FilesOfAny(SkipExisting \ Optional) :
        f \in FilesOfAny(SkipExisting) /\ f \notin FilesOfAny(Optional)
  BY DEF FilesOfAny
<1> QED BY <1>1, <1>2, <1>3

LEMMA ComponentFacts ==
  ASSUME NEW c \in Components, NEW f \in FilesOf[c]
  PROVE  /\ f \in Files /\ f \in Downloaded
         /\ f \in Archived <=> c \in Packages
         /\ f \in FilesOfAny(Optional) <=> c \in Optional
         /\ \A d \in Components : f \in FilesOf[d] => d = c
BY FilesAssumption, KindsAssumption, DisjointAssumption
   DEF Downloaded, Archived, FilesOfAny

LEMMA DownloadedHasComponent ==
  \A f \in Downloaded : \E c \in Components : f \in FilesOf[c]
BY DEF Downloaded, FilesOfAny

-----------------------------------------------------------------------------
(***************************************************************************)
(* The invariant.                                                           *)
(***************************************************************************)

\* The two lists, as deploy() makes them of what it finds.
Lists ==
  \A f \in Files :
    /\ f \in oldFiles <=> /\ was[f] # "none" /\ f \notin Spared
                          /\ Partial => f \in Downloaded
                          /\ f \in Downloaded => was[f] # "new"
    /\ f \in newFiles <=> f \in Downloaded /\ was[f] # "new"

Changing == {"delete", "deploy", "actions", "drop", "restore"}

ListsHold == phase \in Deploying \union {"OK", "DeployError"} => Lists
BackupHolds == phase \in Changing => \A f \in oldFiles : backup[f] = was[f]

BackingUp ==
  phase = "backup" =>
    /\ left \subseteq oldFiles /\ disk = was
    /\ \A f \in oldFiles \ left : backup[f] = was[f]

\* What the deletion of the old files leaves.
AsDeleted(f) == disk[f] = IF f \in oldFiles THEN "none" ELSE was[f]

DeletingOld ==
  phase = "delete" =>
    /\ left \subseteq oldFiles
    /\ \A f \in left : disk[f] = was[f]
    /\ \A f \in Files \ left : AsDeleted(f)

\* What a good update leaves of a file.
Good(f) ==
  /\ f \in Downloaded \ Spared => disk[f] = "new"
  /\ f \in FilesOfAny(SkipExisting \ Optional) => disk[f] # "none"
  /\ f \notin Downloaded /\ ~Partial => disk[f] = "none"

DeployingNew ==
  phase = "deploy" =>
    /\ \A f \in Files \ Downloaded : AsDeleted(f)
    /\ \A c \in todo : \A f \in FilesOf[c] : AsDeleted(f) /\ f \notin left
    /\ \A c \in Components \ todo : \A f \in FilesOf[c] : f \in left \/ Good(f)
    /\ left \subseteq Downloaded /\ left \ Archived \subseteq newFiles

AllGood == phase \in {"actions", "OK"} => \A f \in Files : Good(f)

\* The files of neither list are not touched, and those that are only to be removed
\* are removed or not.
Untouched ==
  phase \in Changing \union {"DeployError"} =>
    \A f \in Files \ Unprotected :
      /\ f \notin oldFiles \union newFiles => disk[f] = was[f]
      /\ f \in oldFiles \ newFiles => disk[f] \in {"none", was[f]}

Dropping ==
  phase = "drop" =>
    /\ left \subseteq newFiles
    /\ ~clumsy => \A f \in newFiles \ left : disk[f] = "none"

Restoring ==
  phase = "restore" =>
    /\ left \subseteq oldFiles
    /\ ~clumsy => /\ \A f \in newFiles \ oldFiles : disk[f] = "none"
                  /\ \A f \in oldFiles : disk[f] \in {"none", was[f]}
                  /\ \A f \in oldFiles \ left : disk[f] = was[f]

FilesInv ==
  /\ EngineTypeOK
  /\ ListsHold /\ BackupHolds /\ BackingUp /\ DeletingOld /\ DeployingNew /\ AllGood
  /\ Untouched /\ Dropping /\ Restoring /\ RolledBack

\* The process, the service and the client.
ServiceInv ==
  /\ phase \in Deploying => state = "Deploy" /\ service = "down"
  /\ service = "down" => client = "down" \/ lost
  /\ service # "up" /\ ~lost /\ ~late => state \in {"Deploy", "Locked"} /\ ~timer /\
     ~failing

AppTypeOK ==
  /\ state \in {"exit", "Download", "Deploy", "Finish", "Locked"}
  /\ service \in {"up", "stopping", "down"} /\ client \in {"up", "asked", "down"}
  /\ {link, subscribed, timer, failing, lost, late} \subseteq BOOLEAN
  /\ runs \in 0 .. MaxRuns

IInv == FilesInv /\ AppTypeOK /\ ServiceInv

-----------------------------------------------------------------------------
(***************************************************************************)
(* What the lists say of a file.                                            *)
(***************************************************************************)
LEMMA ListFacts ==
  ASSUME Lists, NEW f \in Files
  PROVE  /\ f \in oldFiles /\ f \in Downloaded => f \in newFiles
         /\ f \notin Unprotected /\ f \in newFiles \ oldFiles => was[f] = "none"
         /\ f \in newFiles => f \in Downloaded
         /\ f \in Archived /\ f \notin Unprotected => f \in newFiles
BY SetFacts DEF Lists, Unprotected

\* The component that is taken leaves the ones to come: those of its files that are not
\* to be deployed are good already, the others are what is left to do.
LEMMA TakenKeeps ==
  ASSUME EngineTypeOK, phase = "deploy", Lists, DeployingNew,
         NEW c \in todo, TakeComponent(c)
  PROVE  DeployingNew'
<1>1. CASE phase' = "drop"
  BY <1>1 DEF DeployingNew
<1>2. CASE phase' # "drop"
  <2> DEFINE mine == newFiles \intersect FilesOf[c]
  <2>1. /\ c \in Components /\ left = {} /\ todo \subseteq Components
        /\ todo' = todo \ {c} /\ UNCHANGED <<disk, phase, oldFiles, newFiles, was>>
        /\ left' = IF c \in Packages /\ mine # {}
                   THEN (IF FilesOf[c] \subseteq temp THEN FilesOf[c] ELSE {}) ELSE mine
        /\ c \in Packages /\ mine # {} /\ ~(FilesOf[c] \subseteq temp) => c \in Optional
    BY <1>2 DEF TakeComponent, RollBack, Remain, lists, EngineTypeOK
  <2>2. left' \subseteq FilesOf[c] /\ left' \subseteq Downloaded
    BY <2>1, ComponentFacts
  <2>3. left' \ Archived \subseteq newFiles'
    BY <2>1, ComponentFacts
  <2>4. \A f \in Files \ Downloaded : AsDeleted(f)'
    BY <2>1 DEF DeployingNew, AsDeleted
  <2>5. \A d \in todo' : \A f \in FilesOf[d] : AsDeleted(f)' /\ f \notin left'
    BY <2>1, <2>2, ComponentFacts DEF DeployingNew, AsDeleted
  <2>6. \A f \in FilesOf[c] : f \in left' \/ Good(f)'
    <3> SUFFICES ASSUME NEW f \in FilesOf[c], f \notin left'
                 PROVE  Good(f)'
      OBVIOUS
    <3>1. f \in Files /\ f \in Downloaded /\ AsDeleted(f)
      BY <2>1, ComponentFacts DEF DeployingNew
    <3>2. CASE f \in newFiles
      <4>1. f \in FilesOfAny(Optional)
        BY <2>1, <3>2, ComponentFacts
      <4> QED BY <4>1, <3>1, SetFacts DEF Good
    <3>3. CASE f \notin newFiles
      BY <2>1, <3>1, <3>3 DEF Good, Lists, AsDeleted
    <3> QED BY <3>2, <3>3
  <2>7. \A d \in Components \ todo : \A f \in FilesOf[d] : Good(f)'
    BY <2>1 DEF DeployingNew, Good
  <2> QED BY <2>1, <2>2, <2>3, <2>4, <2>5, <2>6, <2>7 DEF DeployingNew
<1> QED BY <1>1, <1>2

\* A file that is passed by is of an optional component, or exists in one that skips
\* existing files.
LEMMA PassedIsGood ==
  ASSUME NEW f \in Downloaded, Passes(f)
  PROVE  Good(f)
BY SetFacts DEF Passes, Good

LEMMA AllDeployed ==
  ASSUME EngineTypeOK, phase = "deploy", Lists, DeployingNew, left = {}, todo = {}
  PROVE  \A f \in Files : Good(f)
<1>1. \A f \in Downloaded : Good(f)
  BY DownloadedHasComponent DEF DeployingNew
<1>2. ASSUME NEW f \in Files \ Downloaded
      PROVE  Good(f)
  <2>1. AsDeleted(f) /\ f \notin Spared /\ f \notin FilesOfAny(SkipExisting \ Optional)
    BY SetFacts DEF DeployingNew
  <2> QED BY <2>1 DEF Good, AsDeleted, Lists
<1> QED BY <1>1, <1>2

LEMMA RestoredAll ==
  ASSUME EngineTypeOK, phase = "restore", Lists, Restoring, Untouched, left = {},
     ~clumsy
  PROVE  \A f \in Files \ Unprotected : disk[f] = was[f]
BY ListFacts DEF Restoring, Untouched, Changing, EngineTypeOK

-----------------------------------------------------------------------------
(***************************************************************************)
(* Each step of the engine keeps the invariant. Most of its parts are about *)
(* another phase than the one the step is in, or ends in.                   *)
(***************************************************************************)
LEMMA FilesUnchanged ==
  ASSUME FilesInv, EngineTypeOK',
         UNCHANGED <<disk, backup, phase, lists, todo, left, clumsy>>
  PROVE  FilesInv'
<1>1. EngineTypeOK'
  OBVIOUS
<1>2. RolledBack'
  BY DEF FilesInv, RolledBack, Unprotected, lists
<1>3. Untouched'
  BY DEF FilesInv, Untouched, Unprotected, Changing, lists
<1>4. DeployingNew' /\ DeletingOld' /\ AllGood'
  BY DEF FilesInv, DeployingNew, DeletingOld, AllGood, AsDeleted, Good, lists
<1>5. ListsHold'
  BY DEF FilesInv, ListsHold, Lists, lists
<1>6. BackupHolds' /\ BackingUp' /\ Dropping' /\ Restoring'
  BY DEF FilesInv, BackupHolds, BackingUp, Dropping, Restoring, Changing, Deploying,
     lists
<1> QED BY <1>1, <1>2, <1>3, <1>4, <1>5, <1>6 DEF FilesInv

LEMMA DeployKeeps ==
  ASSUME FilesInv, Deploy
  PROVE  FilesInv'
<1>1. EngineTypeOK'
  BY KindsAssumption, UpdateBoundsAssumption, SetFacts
     DEF FilesInv, EngineTypeOK, Contents, Deploying, Results, Deploy, OldFiles,
        NewFiles, Current
<1>2. ListsHold'
  BY SetFacts DEF FilesInv, ListsHold, Lists, Deploy, OldFiles, NewFiles, Current
<1>3. BackingUp'
  BY DEF FilesInv, BackingUp, Deploy, OldFiles, NewFiles, Current
<1>4. BackupHolds' /\ DeletingOld' /\ DeployingNew' /\ AllGood' /\ Untouched' /\
  Dropping' /\ Restoring' /\ RolledBack'
  BY DEF FilesInv, BackupHolds, DeletingOld, DeployingNew, AllGood, Untouched, Dropping,
     Restoring, RolledBack, Changing, Deploying, Deploy, OldFiles, NewFiles, Current
<1> QED BY <1>1, <1>2, <1>3, <1>4 DEF FilesInv

LEMMA BackUpKeeps ==
  ASSUME FilesInv, phase = "backup", NEW f \in left, BackUp(f)
  PROVE  FilesInv'
<1>1. EngineTypeOK'
  BY KindsAssumption, UpdateBoundsAssumption, SetFacts
     DEF FilesInv, EngineTypeOK, Contents, Deploying, Results, BackUp, Remain, NoFault,
        lists
<1>2. ListsHold'
  BY DEF FilesInv, ListsHold, Lists, Deploying, BackUp, Remain, NoFault, lists
<1>3. BackingUp'
  BY DEF FilesInv, BackingUp, EngineTypeOK, BackUp, Remain, NoFault, lists
<1>4. BackupHolds' /\ DeletingOld' /\ DeployingNew' /\ AllGood' /\ Untouched' /\
  Dropping' /\ Restoring' /\ RolledBack'
  BY DEF FilesInv, BackupHolds, DeletingOld, DeployingNew, AllGood, Untouched, Dropping,
     Restoring, RolledBack, Changing, Deploying, BackUp, Remain, NoFault, lists
<1> QED BY <1>1, <1>2, <1>3, <1>4 DEF FilesInv

LEMMA BackUpFailsKeeps ==
  ASSUME FilesInv, phase = "backup", BackUpFails
  PROVE  FilesInv'
<1>1. EngineTypeOK'
  BY KindsAssumption, UpdateBoundsAssumption, SetFacts
     DEF FilesInv, EngineTypeOK, Contents, Deploying, Results, BackUpFails, Fault,
        Remain, lists
<1>2. ListsHold' /\ BackupHolds' /\ BackingUp' /\ DeletingOld' /\ DeployingNew' /\
  AllGood' /\ Untouched' /\ Dropping' /\ Restoring' /\ RolledBack'
  BY DEF FilesInv, ListsHold, BackupHolds, BackingUp, DeletingOld, DeployingNew,
     AllGood, Untouched, Dropping, Restoring, RolledBack, Changing, Deploying,
     BackUpFails, Fault, Remain, lists
<1> QED BY <1>1, <1>2 DEF FilesInv

LEMMA BackedUpKeeps ==
  ASSUME FilesInv, phase = "backup", BackedUp
  PROVE  FilesInv'
<1>1. EngineTypeOK'
  BY KindsAssumption, UpdateBoundsAssumption, SetFacts
     DEF FilesInv, EngineTypeOK, Contents, Deploying, Results, BackedUp, Remain,
        NoFault, lists
<1>2. ListsHold'
  BY DEF FilesInv, ListsHold, Lists, Deploying, BackedUp, Remain, NoFault, lists
<1>3. BackupHolds'
  BY DEF FilesInv, BackupHolds, BackingUp, BackedUp, Remain, NoFault, lists
<1>4. DeletingOld'
  BY DEF FilesInv, DeletingOld, BackingUp, AsDeleted, BackedUp, Remain, NoFault, lists
<1>5. Untouched'
  BY DEF FilesInv, Untouched, BackingUp, Unprotected, Changing, BackedUp, Remain,
     NoFault, lists
<1>6. BackingUp' /\ DeployingNew' /\ AllGood' /\ Dropping' /\ Restoring' /\ RolledBack'
  BY DEF FilesInv, BackingUp, DeployingNew, AllGood, Dropping, Restoring, RolledBack,
     Changing, Deploying, BackedUp, Remain, NoFault, lists
<1> QED BY <1>1, <1>2, <1>3, <1>4, <1>5, <1>6 DEF FilesInv

LEMMA DeleteKeeps ==
  ASSUME FilesInv, phase = "delete", NEW f \in left, Delete(f)
  PROVE  FilesInv'
<1>1. EngineTypeOK'
  BY KindsAssumption, UpdateBoundsAssumption, SetFacts
     DEF FilesInv, EngineTypeOK, Contents, Deploying, Results, Delete, Remain, NoFault,
        lists
<1>2. ListsHold'
  BY DEF FilesInv, ListsHold, Lists, Deploying, Delete, Remain, NoFault, lists
<1>3. BackupHolds'
  BY DEF FilesInv, BackupHolds, Changing, Delete, Remain, NoFault, lists
<1>4. DeletingOld'
  BY DEF FilesInv, DeletingOld, AsDeleted, EngineTypeOK, Delete, Remain, NoFault, lists
<1>5. Untouched'
  BY DEF FilesInv, Untouched, DeletingOld, Unprotected, Changing, EngineTypeOK, Delete,
     Remain, NoFault, lists
<1>6. BackingUp' /\ DeployingNew' /\ AllGood' /\ Dropping' /\ Restoring' /\ RolledBack'
  BY DEF FilesInv, BackingUp, DeployingNew, AllGood, Dropping, Restoring, RolledBack,
     Changing, Deploying, Delete, Remain, NoFault, lists
<1> QED BY <1>1, <1>2, <1>3, <1>4, <1>5, <1>6 DEF FilesInv

LEMMA DeleteFailsKeeps ==
  ASSUME FilesInv, phase = "delete", DeleteFails
  PROVE  FilesInv'
<1>1. EngineTypeOK'
  BY KindsAssumption, UpdateBoundsAssumption, SetFacts
     DEF FilesInv, EngineTypeOK, Contents, Deploying, Results, DeleteFails, RollBack,
        Remain, Fault, lists
<1>2. ListsHold'
  BY DEF FilesInv, ListsHold, Lists, Deploying, DeleteFails, RollBack, Remain, Fault,
     lists
<1>3. BackupHolds'
  BY DEF FilesInv, BackupHolds, Changing, DeleteFails, RollBack, Remain, Fault, lists
<1>4. Untouched'
  BY DEF FilesInv, Untouched, Unprotected, Changing, DeleteFails, RollBack, Remain,
     Fault, lists
<1>5. Dropping'
  BY DEF FilesInv, Dropping, Changing, DeleteFails, RollBack, Remain, Fault, lists
<1>6. BackingUp' /\ DeletingOld' /\ DeployingNew' /\ AllGood' /\ Restoring' /\
  RolledBack'
  BY DEF FilesInv, BackingUp, DeletingOld, DeployingNew, AllGood, Restoring, RolledBack,
     Changing, Deploying, DeleteFails, RollBack, Remain, Fault, lists
<1> QED BY <1>1, <1>2, <1>3, <1>4, <1>5, <1>6 DEF FilesInv

LEMMA DeletedKeeps ==
  ASSUME FilesInv, phase = "delete", Deleted
  PROVE  FilesInv'
<1>1. EngineTypeOK'
  BY KindsAssumption, UpdateBoundsAssumption, SetFacts
     DEF FilesInv, EngineTypeOK, Contents, Deploying, Results, Deleted, Remain, NoFault,
        lists
<1>2. ListsHold'
  BY DEF FilesInv, ListsHold, Lists, Deploying, Deleted, Remain, NoFault, lists
<1>3. BackupHolds'
  BY DEF FilesInv, BackupHolds, Changing, Deleted, Remain, NoFault, lists
<1>4. DeployingNew'
  BY FilesAssumption, SetFacts DEF FilesInv, DeployingNew, DeletingOld, AsDeleted,
     Deleted, Remain, NoFault, lists
<1>5. Untouched'
  BY DEF FilesInv, Untouched, Unprotected, Changing, Deleted, Remain, NoFault, lists
<1>6. BackingUp' /\ DeletingOld' /\ AllGood' /\ Dropping' /\ Restoring' /\ RolledBack'
  BY DEF FilesInv, BackingUp, DeletingOld, AllGood, Dropping, Restoring, RolledBack,
     Changing, Deploying, Deleted, Remain, NoFault, lists
<1> QED BY <1>1, <1>2, <1>3, <1>4, <1>5, <1>6 DEF FilesInv

LEMMA TakeComponentKeeps ==
  ASSUME FilesInv, phase = "deploy", NEW c \in todo, TakeComponent(c)
  PROVE  FilesInv'
<1>1. EngineTypeOK'
  BY KindsAssumption, UpdateBoundsAssumption, SetFacts
     DEF FilesInv, EngineTypeOK, Contents, Deploying, Results, TakeComponent, RollBack,
        Remain, NoFault, lists
<1>2. ListsHold'
  BY DEF FilesInv, ListsHold, Lists, Deploying, TakeComponent, RollBack, Remain,
     NoFault, lists
<1>3. BackupHolds'
  BY DEF FilesInv, BackupHolds, Changing, TakeComponent, RollBack, Remain, NoFault,
     lists
<1>4. DeployingNew'
  BY TakenKeeps DEF FilesInv, EngineTypeOK, ListsHold, Deploying
<1>5. Untouched'
  BY DEF FilesInv, Untouched, Unprotected, Changing, TakeComponent, RollBack, Remain,
     NoFault, lists
<1>6. Dropping'
  BY DEF FilesInv, Dropping, Changing, TakeComponent, RollBack, Remain, NoFault, lists
<1>7. BackingUp' /\ DeletingOld' /\ AllGood' /\ Restoring' /\ RolledBack'
  BY DEF FilesInv, BackingUp, DeletingOld, AllGood, Restoring, RolledBack, Changing,
     Deploying, TakeComponent, RollBack, Remain, NoFault, lists
<1> QED BY <1>1, <1>2, <1>3, <1>4, <1>5, <1>6, <1>7 DEF FilesInv

LEMMA PassByKeeps ==
  ASSUME FilesInv, phase = "deploy", NEW f \in left, PassBy(f)
  PROVE  FilesInv'
<1>1. EngineTypeOK'
  BY KindsAssumption, UpdateBoundsAssumption, SetFacts
     DEF FilesInv, EngineTypeOK, Contents, Deploying, Results, PassBy, Remain, NoFault,
        lists
<1>2. ListsHold'
  BY DEF FilesInv, ListsHold, Lists, Deploying, PassBy, Remain, NoFault, lists
<1>3. BackupHolds'
  BY DEF FilesInv, BackupHolds, Changing, PassBy, Remain, NoFault, lists
<1>4. DeployingNew'
  BY PassedIsGood DEF FilesInv, DeployingNew, DeployingNew, AsDeleted, Good,
     EngineTypeOK, PassBy, Remain, NoFault, lists
<1>5. Untouched'
  BY DEF FilesInv, Untouched, Unprotected, Changing, PassBy, Remain, NoFault, lists
<1>6. BackingUp' /\ DeletingOld' /\ AllGood' /\ Dropping' /\ Restoring' /\ RolledBack'
  BY DEF FilesInv, BackingUp, DeletingOld, AllGood, Dropping, Restoring, RolledBack,
     Changing, Deploying, PassBy, Remain, NoFault, lists
<1> QED BY <1>1, <1>2, <1>3, <1>4, <1>5, <1>6 DEF FilesInv

LEMMA RemoveExistingKeeps ==
  ASSUME FilesInv, phase = "deploy", NEW f \in left, RemoveExisting(f)
  PROVE  FilesInv'
<1>1. EngineTypeOK'
  BY KindsAssumption, UpdateBoundsAssumption, SetFacts
     DEF FilesInv, EngineTypeOK, Contents, Deploying, Results, RemoveExisting, Remain,
        NoFault, lists
<1>2. ListsHold'
  BY DEF FilesInv, ListsHold, Lists, Deploying, RemoveExisting, Remain, NoFault, lists
<1>3. BackupHolds'
  BY DEF FilesInv, BackupHolds, Changing, RemoveExisting, Remain, NoFault, lists
<1>4. DeployingNew'
  BY SetFacts, FilesAssumption DEF FilesInv, DeployingNew, DeployingNew, AsDeleted,
     Good, EngineTypeOK, RemoveExisting, Remain, NoFault, lists
<1>5. Untouched'
  BY DEF FilesInv, Untouched, Unprotected, Changing, InPlace, DeployingNew, AsDeleted,
     Good, EngineTypeOK, RemoveExisting, Remain, NoFault, lists
<1>6. BackingUp' /\ DeletingOld' /\ AllGood' /\ Dropping' /\ Restoring' /\ RolledBack'
  BY DEF FilesInv, BackingUp, DeletingOld, AllGood, Dropping, Restoring, RolledBack,
     Changing, Deploying, RemoveExisting, Remain, NoFault, lists
<1> QED BY <1>1, <1>2, <1>3, <1>4, <1>5, <1>6 DEF FilesInv

LEMMA PutKeeps ==
  ASSUME FilesInv, phase = "deploy", NEW f \in left, Put(f)
  PROVE  FilesInv'
<1>1. EngineTypeOK'
  BY KindsAssumption, UpdateBoundsAssumption, SetFacts
     DEF FilesInv, EngineTypeOK, Contents, Deploying, Results, Put, Remain, NoFault,
        lists
<1>2. ListsHold'
  BY DEF FilesInv, ListsHold, Lists, Deploying, Put, Remain, NoFault, lists
<1>3. BackupHolds'
  BY DEF FilesInv, BackupHolds, Changing, Put, Remain, NoFault, lists
<1>4. DeployingNew'
  BY SetFacts, FilesAssumption DEF FilesInv, DeployingNew, DeployingNew, AsDeleted,
     Good, EngineTypeOK, Put, Remain, NoFault, lists
<1>5. Untouched'
  BY SetFacts, ListFacts DEF FilesInv, Untouched, Unprotected, Changing, InPlace,
     ListsHold, Deploying, DeployingNew, AsDeleted, Good, EngineTypeOK, Put, Remain,
     NoFault, lists
<1>6. BackingUp' /\ DeletingOld' /\ AllGood' /\ Dropping' /\ Restoring' /\ RolledBack'
  BY DEF FilesInv, BackingUp, DeletingOld, AllGood, Dropping, Restoring, RolledBack,
     Changing, Deploying, Put, Remain, NoFault, lists
<1> QED BY <1>1, <1>2, <1>3, <1>4, <1>5, <1>6 DEF FilesInv

LEMMA PutFailsKeeps ==
  ASSUME FilesInv, phase = "deploy", NEW f \in left, PutFails(f)
  PROVE  FilesInv'
<1>1. EngineTypeOK'
  BY KindsAssumption, UpdateBoundsAssumption, SetFacts
     DEF FilesInv, EngineTypeOK, Contents, Deploying, Results, PutFails, RollBack,
        Fault, Remain, NoFault, lists
<1>2. ListsHold'
  BY DEF FilesInv, ListsHold, Lists, Deploying, PutFails, RollBack, Fault, Remain,
     NoFault, lists
<1>3. BackupHolds'
  BY DEF FilesInv, BackupHolds, Changing, PutFails, RollBack, Fault, Remain, NoFault,
     lists
<1>4. Untouched'
  BY SetFacts, ListFacts DEF FilesInv, Untouched, Unprotected, Changing, InPlace,
     ListsHold, Deploying, DeployingNew, AsDeleted, Good, EngineTypeOK, PutFails,
     RollBack, Fault, Remain, NoFault, lists
<1>5. Dropping'
  BY DEF FilesInv, Dropping, Changing, PutFails, RollBack, Fault, Remain, NoFault, lists
<1>6. BackingUp' /\ DeletingOld' /\ DeployingNew' /\ AllGood' /\ Restoring' /\
  RolledBack'
  BY DEF FilesInv, BackingUp, DeletingOld, DeployingNew, AllGood, Restoring, RolledBack,
     Changing, Deploying, PutFails, RollBack, Fault, Remain, NoFault, lists
<1> QED BY <1>1, <1>2, <1>3, <1>4, <1>5, <1>6 DEF FilesInv

LEMMA ComponentsDeployedKeeps ==
  ASSUME FilesInv, phase = "deploy", ComponentsDeployed
  PROVE  FilesInv'
<1>1. EngineTypeOK'
  BY KindsAssumption, UpdateBoundsAssumption, SetFacts
     DEF FilesInv, EngineTypeOK, Contents, Deploying, Results, ComponentsDeployed,
        Remain, NoFault, lists
<1>2. ListsHold'
  BY DEF FilesInv, ListsHold, Lists, Deploying, ComponentsDeployed, Remain, NoFault,
     lists
<1>3. BackupHolds'
  BY DEF FilesInv, BackupHolds, Changing, ComponentsDeployed, Remain, NoFault, lists
<1>4. AllGood'
  BY AllDeployed DEF FilesInv, EngineTypeOK, ListsHold, Deploying, DeployingNew,
     AllGood, Good, ComponentsDeployed
<1>5. Untouched'
  BY DEF FilesInv, Untouched, Unprotected, Changing, ComponentsDeployed, Remain,
     NoFault, lists
<1>6. BackingUp' /\ DeletingOld' /\ DeployingNew' /\ Dropping' /\ Restoring' /\
  RolledBack'
  BY DEF FilesInv, BackingUp, DeletingOld, DeployingNew, Dropping, Restoring,
     RolledBack, Changing, Deploying, ComponentsDeployed, Remain, NoFault, lists
<1> QED BY <1>1, <1>2, <1>3, <1>4, <1>5, <1>6 DEF FilesInv

LEMMA ApplyPostActionsKeeps ==
  ASSUME FilesInv, phase = "actions", NEW c \in todo, ApplyPostActions(c)
  PROVE  FilesInv'
<1>1. EngineTypeOK'
  BY KindsAssumption, UpdateBoundsAssumption, SetFacts
     DEF FilesInv, EngineTypeOK, Contents, Deploying, Results, ApplyPostActions, Remain,
        NoFault, lists
<1>2. ListsHold'
  BY DEF FilesInv, ListsHold, Lists, Deploying, ApplyPostActions, Remain, NoFault, lists
<1>3. BackupHolds'
  BY DEF FilesInv, BackupHolds, Changing, ApplyPostActions, Remain, NoFault, lists
<1>4. AllGood'
  BY DEF FilesInv, AllGood, Good, ApplyPostActions, Remain, NoFault, lists
<1>5. Untouched'
  BY DEF FilesInv, Untouched, Unprotected, Changing, ApplyPostActions, Remain, NoFault,
     lists
<1>6. BackingUp' /\ DeletingOld' /\ DeployingNew' /\ Dropping' /\ Restoring' /\
  RolledBack'
  BY DEF FilesInv, BackingUp, DeletingOld, DeployingNew, Dropping, Restoring,
     RolledBack, Changing, Deploying, ApplyPostActions, Remain, NoFault, lists
<1> QED BY <1>1, <1>2, <1>3, <1>4, <1>5, <1>6 DEF FilesInv

LEMMA PostActionsFailKeeps ==
  ASSUME FilesInv, phase = "actions", NEW c \in todo, PostActionsFail(c)
  PROVE  FilesInv'
<1>1. EngineTypeOK'
  BY KindsAssumption, UpdateBoundsAssumption, SetFacts
     DEF FilesInv, EngineTypeOK, Contents, Deploying, Results, PostActionsFail,
        RollBack, Fault, Remain, NoFault, lists
<1>2. ListsHold'
  BY DEF FilesInv, ListsHold, Lists, Deploying, PostActionsFail, RollBack, Fault,
     Remain, NoFault, lists
<1>3. BackupHolds'
  BY DEF FilesInv, BackupHolds, Changing, PostActionsFail, RollBack, Fault, Remain,
     NoFault, lists
<1>4. Untouched'
  BY DEF FilesInv, Untouched, Unprotected, Changing, PostActionsFail, RollBack, Fault,
     Remain, NoFault, lists
<1>5. Dropping'
  BY DEF FilesInv, Dropping, Changing, PostActionsFail, RollBack, Fault, Remain,
     NoFault, lists
<1>6. BackingUp' /\ DeletingOld' /\ DeployingNew' /\ AllGood' /\ Restoring' /\
  RolledBack'
  BY DEF FilesInv, BackingUp, DeletingOld, DeployingNew, AllGood, Restoring, RolledBack,
     Changing, Deploying, PostActionsFail, RollBack, Fault, Remain, NoFault, lists
<1> QED BY <1>1, <1>2, <1>3, <1>4, <1>5, <1>6 DEF FilesInv

LEMMA SucceedKeeps ==
  ASSUME FilesInv, phase = "actions", Succeed
  PROVE  FilesInv'
<1>1. EngineTypeOK'
  BY KindsAssumption, UpdateBoundsAssumption, SetFacts
     DEF FilesInv, EngineTypeOK, Contents, Deploying, Results, Succeed, Remain, NoFault,
        lists
<1>2. ListsHold'
  BY DEF FilesInv, ListsHold, Lists, Deploying, Succeed, Remain, NoFault, lists
<1>3. AllGood'
  BY DEF FilesInv, AllGood, Good, Succeed, Remain, NoFault, lists
<1>4. BackupHolds' /\ BackingUp' /\ DeletingOld' /\ DeployingNew' /\ Untouched' /\
  Dropping' /\ Restoring' /\ RolledBack'
  BY DEF FilesInv, BackupHolds, BackingUp, DeletingOld, DeployingNew, Untouched,
     Dropping, Restoring, RolledBack, Changing, Deploying, Succeed, Remain, NoFault,
     lists
<1> QED BY <1>1, <1>2, <1>3, <1>4 DEF FilesInv

LEMMA DropKeeps ==
  ASSUME FilesInv, phase = "drop", NEW f \in left, Drop(f)
  PROVE  FilesInv'
<1>1. EngineTypeOK'
  <2>1. disk' \in [Files -> Contents]
    BY DEF FilesInv, EngineTypeOK, Contents, Drop
  <2>3. clumsy' \in BOOLEAN
    BY DEF FilesInv, EngineTypeOK, Drop
  <2>2. faults' \in 0 .. MaxFaults
    BY UpdateBoundsAssumption DEF FilesInv, EngineTypeOK, Drop, Fault, NoFault
  <2> QED BY <2>1, <2>2, <2>3 DEF FilesInv, EngineTypeOK, Drop, Remain, lists
<1>2. ListsHold'
  BY DEF FilesInv, ListsHold, Lists, Deploying, Drop, Fault, Remain, NoFault, lists
<1>3. BackupHolds'
  BY DEF FilesInv, BackupHolds, Changing, Drop, Fault, Remain, NoFault, lists
<1>4. Untouched'
  BY DEF FilesInv, Untouched, Unprotected, Changing, Dropping, EngineTypeOK, Drop,
     Fault, Remain, NoFault, lists
<1>5. Dropping'
  BY DEF FilesInv, Dropping, EngineTypeOK, Drop, Fault, Remain, NoFault, lists
<1>6. BackingUp' /\ DeletingOld' /\ DeployingNew' /\ AllGood' /\ Restoring' /\
  RolledBack'
  BY DEF FilesInv, BackingUp, DeletingOld, DeployingNew, AllGood, Restoring, RolledBack,
     Changing, Deploying, Drop, Fault, Remain, NoFault, lists
<1> QED BY <1>1, <1>2, <1>3, <1>4, <1>5, <1>6 DEF FilesInv

LEMMA DroppedKeeps ==
  ASSUME FilesInv, phase = "drop", Dropped
  PROVE  FilesInv'
<1>1. EngineTypeOK'
  BY KindsAssumption, UpdateBoundsAssumption, SetFacts
     DEF FilesInv, EngineTypeOK, Contents, Deploying, Results, Dropped, Remain, NoFault,
        lists
<1>2. ListsHold'
  BY DEF FilesInv, ListsHold, Lists, Deploying, Dropped, Remain, NoFault, lists
<1>3. BackupHolds'
  BY DEF FilesInv, BackupHolds, Changing, Dropped, Remain, NoFault, lists
<1>4. Untouched'
  BY DEF FilesInv, Untouched, Unprotected, Changing, Dropped, Remain, NoFault, lists
<1>5. Restoring'
  BY SetFacts DEF FilesInv, Restoring, Dropping, Untouched, Changing, Unprotected,
     Lists, ListsHold, Deploying, EngineTypeOK, Dropped, Remain, NoFault, lists
<1>6. BackingUp' /\ DeletingOld' /\ DeployingNew' /\ AllGood' /\ Dropping' /\
  RolledBack'
  BY DEF FilesInv, BackingUp, DeletingOld, DeployingNew, AllGood, Dropping, RolledBack,
     Changing, Deploying, Dropped, Remain, NoFault, lists
<1> QED BY <1>1, <1>2, <1>3, <1>4, <1>5, <1>6 DEF FilesInv

LEMMA RestoreKeeps ==
  ASSUME FilesInv, phase = "restore", NEW f \in left, Restore(f)
  PROVE  FilesInv'
<1>1. EngineTypeOK'
  <2>1. disk' \in [Files -> Contents]
    BY DEF FilesInv, EngineTypeOK, Contents, Restore
  <2>3. clumsy' \in BOOLEAN
    BY DEF FilesInv, EngineTypeOK, Restore
  <2>2. faults' \in 0 .. MaxFaults
    BY UpdateBoundsAssumption DEF FilesInv, EngineTypeOK, Restore, Fault, NoFault
  <2> QED BY <2>1, <2>2, <2>3 DEF FilesInv, EngineTypeOK, Restore, Remain, lists
<1>2. ListsHold'
  BY DEF FilesInv, ListsHold, Lists, Deploying, Restore, Fault, Remain, NoFault, lists
<1>3. BackupHolds'
  BY DEF FilesInv, BackupHolds, Changing, Restore, Fault, Remain, NoFault, lists
<1>4. Untouched'
  BY DEF FilesInv, Untouched, Unprotected, Changing, Restoring, BackupHolds,
     EngineTypeOK, Restore, Fault, Remain, NoFault, lists
<1>5. Restoring'
  BY DEF FilesInv, Restoring, EngineTypeOK, BackupHolds, Changing, Restore, Fault,
     Remain, NoFault, lists
<1>6. BackingUp' /\ DeletingOld' /\ DeployingNew' /\ AllGood' /\ Dropping' /\
  RolledBack'
  BY DEF FilesInv, BackingUp, DeletingOld, DeployingNew, AllGood, Dropping, RolledBack,
     Changing, Deploying, Restore, Fault, Remain, NoFault, lists
<1> QED BY <1>1, <1>2, <1>3, <1>4, <1>5, <1>6 DEF FilesInv

LEMMA RestoredKeeps ==
  ASSUME FilesInv, phase = "restore", Restored
  PROVE  FilesInv'
<1>1. EngineTypeOK'
  BY KindsAssumption, UpdateBoundsAssumption, SetFacts
     DEF FilesInv, EngineTypeOK, Contents, Deploying, Results, Restored, Remain,
        NoFault, lists
<1>2. ListsHold'
  BY DEF FilesInv, ListsHold, Lists, Deploying, Restored, Remain, NoFault, lists
<1>3. Untouched'
  BY DEF FilesInv, Untouched, Unprotected, Changing, Restored, Remain, NoFault, lists
<1>4. RolledBack'
  BY RestoredAll DEF FilesInv, EngineTypeOK, ListsHold, Deploying, RolledBack,
     Unprotected, Restored, lists, Remain
<1>5. BackupHolds' /\ BackingUp' /\ DeletingOld' /\ DeployingNew' /\ AllGood' /\
  Dropping' /\ Restoring'
  BY DEF FilesInv, BackupHolds, BackingUp, DeletingOld, DeployingNew, AllGood, Dropping,
     Restoring, Changing, Deploying, Restored, Remain, NoFault, lists
<1> QED BY <1>1, <1>2, <1>3, <1>4, <1>5 DEF FilesInv

\* Outside of a deployment only the types matter.
LEMMA FilesAtRest ==
  ASSUME EngineTypeOK', phase' \notin Deploying \union {"OK", "DeployError"}
  PROVE  FilesInv'
BY DEF FilesInv, ListsHold, BackupHolds, BackingUp, DeletingOld, DeployingNew, AllGood,
       Untouched, Dropping, Restoring, RolledBack, Changing, Deploying

LEMMA DeployStepKeeps ==
  ASSUME FilesInv, DeployStep
  PROVE  FilesInv'
<1>1. CASE phase = "backup" /\ ((\E f \in left : BackUp(f)) \/ BackUpFails \/ BackedUp)
  BY <1>1, BackUpKeeps, BackUpFailsKeeps, BackedUpKeeps
<1>2. CASE phase = "delete" /\ ((\E f \in left : Delete(f)) \/ DeleteFails \/ Deleted)
  BY <1>2, DeleteKeeps, DeleteFailsKeeps, DeletedKeeps
<1>3. CASE phase = "deploy" /\ \E c \in todo : TakeComponent(c)
  BY <1>3, TakeComponentKeeps
<1>4. CASE phase = "deploy" /\ \E f \in left : PassBy(f) \/ RemoveExisting(f)
  BY <1>4, PassByKeeps, RemoveExistingKeeps
<1>5. CASE phase = "deploy" /\ \E f \in left : Put(f) \/ PutFails(f)
  BY <1>5, PutKeeps, PutFailsKeeps
<1>6. CASE phase = "deploy" /\ ComponentsDeployed
  BY <1>6, ComponentsDeployedKeeps
<1>7. CASE phase = "actions" /\ \E c \in todo : ApplyPostActions(c) \/
  PostActionsFail(c)
  BY <1>7, ApplyPostActionsKeeps, PostActionsFailKeeps
<1>8. CASE phase = "actions" /\ Succeed
  BY <1>8, SucceedKeeps
<1>9. CASE phase = "drop" /\ ((\E f \in left : Drop(f)) \/ Dropped)
  BY <1>9, DropKeeps, DroppedKeeps
<1>10. CASE phase = "restore" /\ ((\E f \in left : Restore(f)) \/ Restored)
  BY <1>10, RestoreKeeps, RestoredKeeps
<1> QED
  BY <1>1, <1>2, <1>3, <1>4, <1>5, <1>6, <1>7, <1>8, <1>9, <1>10 DEF DeployStep

\* Where deploy() may take the engine.
LEMMA DeployStepPhase ==
  ASSUME DeployStep
  PROVE  phase \in Deploying
BY DEF DeployStep, Deploying

-----------------------------------------------------------------------------
(***************************************************************************)
(* The other steps of the engine.                                           *)
(***************************************************************************)
LEMMA TasksAreFiles ==
  UNION {TasksOf(c) : c \in Components} \subseteq SUBSET Files
<1>1. \A c \in Components : TasksOf(c) \subseteq SUBSET Files
  BY FilesAssumption DEF TasksOf
<1> QED BY <1>1

LEMMA DownloadComponentsKeeps ==
  ASSUME FilesInv, DownloadComponents
  PROVE  FilesInv'
<1>1. EngineTypeOK'
  BY TasksAreFiles DEF FilesInv, EngineTypeOK, DownloadComponents, lists
<1>2. phase' \notin Deploying \union {"OK", "DeployError"}
  BY DEF DownloadComponents, Deploying
<1> QED BY <1>1, <1>2, FilesAtRest

LEMMA DownloadKeeps ==
  ASSUME FilesInv, Download
  PROVE  FilesInv'
<1>1. PICK t \in tasks : TaskDone(t) \/ \E wrong, more \in BOOLEAN : TaskFails(t, wrong,
  more)
  BY DEF Download
<1>2. phase' \in {"download", "NetworkError"} /\ tasks' \subseteq SUBSET Files
      /\ fails' \in 0 .. MaxFails /\ temp' \subseteq Files
  <2>1. CASE TaskDone(t)
    BY <2>1, UpdateBoundsAssumption DEF Download, TaskDone, NextTask, FilesInv,
       EngineTypeOK
  <2>2. CASE \E wrong, more \in BOOLEAN : TaskFails(t, wrong, more)
    BY <2>2, UpdateBoundsAssumption DEF Download, TaskFails, NextTask, FilesInv,
       EngineTypeOK
  <2> QED BY <1>1, <2>1, <2>2
<1>3. UNCHANGED <<disk, backup, lists, todo, left, clumsy, faults>>
  BY <1>1 DEF TaskDone, TaskFails
<1>4. EngineTypeOK'
  BY <1>2, <1>3 DEF FilesInv, EngineTypeOK, lists, Results
<1>5. phase' \notin Deploying \union {"OK", "DeployError"}
  BY <1>2 DEF Deploying
<1> QED BY <1>4, <1>5, FilesAtRest

\* A process that is gone, and its files as they are or cut short.
LEMMA ForgetKeeps ==
  ASSUME FilesInv, Forget, disk' \in [Files -> Contents], faults' \in 0 .. MaxFaults
  PROVE  FilesInv' /\ phase' = "idle"
<1>1. EngineTypeOK'
  <2>1. {disk', was', backup'} \subseteq [Files -> Contents]
    BY DEF Forget, Contents
  <2>2. /\ {temp', oldFiles', newFiles', left'} \subseteq SUBSET Files
        /\ tasks' \subseteq SUBSET Files /\ todo' \subseteq Components
        /\ phase' = "idle" /\ clumsy' = FALSE
    BY DEF FilesInv, EngineTypeOK, Forget
  <2>3. fails' \in 0 .. MaxFails
    BY UpdateBoundsAssumption DEF Forget
  <2> QED BY <2>1, <2>2, <2>3 DEF EngineTypeOK
<1>2. phase' = "idle" /\ phase' \notin Deploying \union {"OK", "DeployError"}
  BY DEF Forget, Deploying
<1> QED BY <1>1, <1>2, FilesAtRest

LEMMA EngineCrashKeeps ==
  ASSUME FilesInv, EngineCrash
  PROVE  FilesInv' /\ phase' = "idle"
<1>1. disk' \in [Files -> Contents]
  BY DEF EngineCrash, FilesInv, EngineTypeOK, Contents
<1>2. faults' \in 0 .. MaxFaults
  BY UpdateBoundsAssumption DEF EngineCrash, Fault, FilesInv, EngineTypeOK
<1> QED BY <1>1, <1>2, ForgetKeeps DEF EngineCrash

LEMMA WriteKeeps ==
  ASSUME FilesInv, phase = "download", NEW f \in Files, Write(f)
  PROVE  FilesInv'
<1>1. disk' \in [Files -> Contents]
  BY DEF Write, FilesInv, EngineTypeOK, Contents
<1>2. faults' \in 0 .. MaxFaults
  BY UpdateBoundsAssumption DEF Write, Fault, FilesInv, EngineTypeOK
<1>3. EngineTypeOK'
  BY <1>1, <1>2 DEF Write, FilesInv, EngineTypeOK, lists
<1>4. phase' \notin Deploying \union {"OK", "DeployError"}
  BY DEF Write, Deploying
<1> QED BY <1>3, <1>4, FilesAtRest

\* A step that does not touch the files, with or without a fault.
LEMMA EngineStays ==
  ASSUME FilesInv, faults' \in 0 .. MaxFaults,
         UNCHANGED <<disk, temp, backup, phase, tasks, fails, lists, todo, left,
            clumsy>>
  PROVE  FilesInv'
<1>1. EngineTypeOK'
  BY DEF FilesInv, EngineTypeOK, lists
<1> QED BY <1>1, FilesUnchanged

LEMMA EngineUnchanged ==
  ASSUME FilesInv, UNCHANGED engine
  PROVE  FilesInv'
BY EngineStays DEF engine, FilesInv, EngineTypeOK

LEMMA FaultIsBounded ==
  ASSUME FilesInv, Fault \/ NoFault
  PROVE  faults' \in 0 .. MaxFaults
BY UpdateBoundsAssumption DEF FilesInv, EngineTypeOK, Fault, NoFault

-----------------------------------------------------------------------------
(***************************************************************************)
(* The process, the service and the client.                                 *)
(***************************************************************************)
LEMMA StartKeeps ==
  ASSUME IInv, Start
  PROVE  IInv'
<1>1. FilesInv'
  BY DownloadComponentsKeeps DEF IInv, Start
<1>2. AppTypeOK'
  <2>1. runs' \in 0 .. MaxRuns
    BY RunsAssumption DEF IInv, Start, AppTypeOK
  <2>2. /\ state' = "Download" /\ link' = TRUE /\ lost' = FALSE /\ late' = FALSE
        /\ UNCHANGED <<subscribed, timer, failing, service, client>>
    BY DEF Start, waiting, outside
  <2> QED BY <2>1, <2>2 DEF IInv, AppTypeOK
<1>3. ServiceInv'
  BY DEF IInv, Start, DownloadComponents, ServiceInv, Deploying, waiting, outside
<1> QED BY <1>1, <1>2, <1>3 DEF IInv

LEMMA DownloadingKeeps ==
  ASSUME IInv, Downloading
  PROVE  IInv'
<1>1. FilesInv'
  BY DownloadKeeps DEF IInv, Downloading, Download, TaskDone, TaskFails, NextTask,
     FilesInv, EngineTypeOK
<1>2. AppTypeOK'
  BY DEF IInv, Downloading, Download, TaskDone, TaskFails, NextTask, AppTypeOK, app,
     waiting, outside, ghosts
<1>3. ServiceInv'
  BY DownloadKeeps DEF IInv, Downloading, Download, TaskDone, TaskFails, NextTask,
     ServiceInv, AppTypeOK, Deploying, Results, engine, app, waiting, outside, ghosts
<1> QED BY <1>1, <1>2, <1>3 DEF IInv

LEMMA OnDownloadCompleteKeeps ==
  ASSUME IInv, OnDownloadComplete
  PROVE  IInv'
<1>1. FilesInv'
  BY EngineUnchanged DEF IInv, OnDownloadComplete, FilesInv, EngineTypeOK
<1>2. AppTypeOK'
  BY DEF IInv, OnDownloadComplete, AppTypeOK, app, waiting, outside, ghosts
<1>3. ServiceInv'
  BY EngineUnchanged DEF IInv, OnDownloadComplete, ServiceInv, AppTypeOK, Deploying,
     Results, engine, app, waiting, outside, ghosts
<1> QED BY <1>1, <1>2, <1>3 DEF IInv

LEMMA OnModuleClosedKeeps ==
  ASSUME IInv, OnModuleClosed
  PROVE  IInv'
<1>1. FilesInv'
  BY EngineUnchanged DEF IInv, OnModuleClosed, FilesInv, EngineTypeOK
<1>2. AppTypeOK'
  BY DEF IInv, OnModuleClosed, AppTypeOK, app, waiting, outside, ghosts
<1>3. ServiceInv'
  BY EngineUnchanged DEF IInv, OnModuleClosed, ServiceInv, AppTypeOK, Deploying,
     Results, engine, app, waiting, outside, ghosts
<1> QED BY <1>1, <1>2, <1>3 DEF IInv

LEMMA OnDisconnectedKeeps ==
  ASSUME IInv, OnDisconnected
  PROVE  IInv'
<1>1. FilesInv'
  BY EngineUnchanged, DeployKeeps DEF IInv, OnDisconnected, Deploy, FilesInv,
     EngineTypeOK
<1>2. AppTypeOK'
  BY DEF IInv, OnDisconnected, Deploy, AppTypeOK, app, waiting, outside, ghosts
<1>3. ServiceInv'
  BY EngineUnchanged, DeployKeeps DEF IInv, OnDisconnected, Deploy, ServiceInv,
     AppTypeOK, Deploying, Results, engine, app, waiting, outside, ghosts
<1> QED BY <1>1, <1>2, <1>3 DEF IInv

LEMMA DeploymentKeeps ==
  ASSUME IInv, Deployment
  PROVE  IInv'
<1>1. FilesInv'
  BY DeployStepKeeps, DeployStepPhase DEF IInv, Deployment, FilesInv, EngineTypeOK
<1>2. AppTypeOK'
  BY DEF IInv, Deployment, AppTypeOK, app, waiting, outside, ghosts
<1>3. ServiceInv'
  BY DeployStepKeeps, DeployStepPhase DEF IInv, Deployment, ServiceInv, AppTypeOK,
     Deploying, Results, engine, app, waiting, outside, ghosts
<1> QED BY <1>1, <1>2, <1>3 DEF IInv

LEMMA OnFailStopClientKeeps ==
  ASSUME IInv, OnFailStopClient
  PROVE  IInv'
<1>1. FilesInv'
  BY EngineUnchanged DEF IInv, OnFailStopClient, FilesInv, EngineTypeOK
<1>2. AppTypeOK'
  BY DEF IInv, OnFailStopClient, AppTypeOK, app, waiting, outside, ghosts
<1>3. ServiceInv'
  BY EngineUnchanged DEF IInv, OnFailStopClient, ServiceInv, AppTypeOK, Deploying,
     Results, engine, app, waiting, outside, ghosts
<1> QED BY <1>1, <1>2, <1>3 DEF IInv

LEMMA OnUpdateCompleteKeeps ==
  ASSUME IInv, OnUpdateComplete
  PROVE  IInv'
<1>1. FilesInv'
  BY EngineStays, FaultIsBounded DEF IInv, OnUpdateComplete, FilesInv, EngineTypeOK
<1>2. AppTypeOK'
  BY DEF IInv, OnUpdateComplete, AppTypeOK, app, waiting, outside, ghosts
<1>3. ServiceInv'
  BY EngineStays, FaultIsBounded DEF IInv, OnUpdateComplete, ServiceInv, AppTypeOK,
     Deploying, Results, engine, app, waiting, outside, ghosts
<1> QED BY <1>1, <1>2, <1>3 DEF IInv

LEMMA ExitKeeps ==
  ASSUME IInv, Exit
  PROVE  IInv'
<1>1. FilesInv'
  BY ForgetKeeps, FaultIsBounded DEF IInv, Exit, End, FilesInv, EngineTypeOK
<1>2. AppTypeOK'
  BY DEF IInv, Exit, End, AppTypeOK, app, waiting, outside, ghosts
<1>3. phase' = "idle"
  BY DEF Exit, End, Forget
<1>4. ServiceInv'
  BY <1>3 DEF IInv, Exit, End, ServiceInv, Deploying, outside, ghosts
<1> QED BY <1>1, <1>2, <1>4 DEF IInv

LEMMA ClientClosesKeeps ==
  ASSUME IInv, ClientCloses
  PROVE  IInv'
<1>1. FilesInv'
  BY EngineUnchanged DEF IInv, ClientCloses, FilesInv, EngineTypeOK
<1>2. AppTypeOK'
  BY DEF IInv, ClientCloses, AppTypeOK, app, waiting, outside, ghosts
<1>3. ServiceInv'
  BY EngineUnchanged DEF IInv, ClientCloses, ServiceInv, AppTypeOK, Deploying, Results,
     engine, app, waiting, outside, ghosts
<1> QED BY <1>1, <1>2, <1>3 DEF IInv

LEMMA ClientReturnsKeeps ==
  ASSUME IInv, ClientReturns
  PROVE  IInv'
<1>1. FilesInv'
  BY EngineUnchanged DEF IInv, ClientReturns, FilesInv, EngineTypeOK
<1>2. AppTypeOK'
  BY DEF IInv, ClientReturns, AppTypeOK, app, waiting, outside, ghosts
<1>3. ServiceInv'
  BY EngineUnchanged DEF IInv, ClientReturns, ServiceInv, AppTypeOK, Deploying, Results,
     engine, app, waiting, outside, ghosts
<1> QED BY <1>1, <1>2, <1>3 DEF IInv

LEMMA ServiceStopsKeeps ==
  ASSUME IInv, ServiceStops
  PROVE  IInv'
<1>1. FilesInv'
  BY EngineUnchanged DEF IInv, ServiceStops, FilesInv, EngineTypeOK
<1>2. AppTypeOK'
  BY DEF IInv, ServiceStops, AppTypeOK, app, waiting, outside, ghosts
<1>3. ServiceInv'
  BY EngineUnchanged DEF IInv, ServiceStops, ServiceInv, AppTypeOK, Deploying, Results,
     engine, app, waiting, outside, ghosts
<1> QED BY <1>1, <1>2, <1>3 DEF IInv

LEMMA ServiceBreaksDownKeeps ==
  ASSUME IInv, ServiceBreaksDown
  PROVE  IInv'
<1>1. FilesInv'
  BY EngineStays, FaultIsBounded DEF IInv, ServiceBreaksDown, FilesInv, EngineTypeOK
<1>2. AppTypeOK'
  BY DEF IInv, ServiceBreaksDown, AppTypeOK, app, waiting, outside, ghosts
<1>3. ServiceInv'
  BY EngineStays, FaultIsBounded DEF IInv, ServiceBreaksDown, ServiceInv, AppTypeOK,
     Deploying, Results, engine, app, waiting, outside, ghosts
<1> QED BY <1>1, <1>2, <1>3 DEF IInv

LEMMA ClientWritesKeeps ==
  ASSUME IInv, ClientWrites
  PROVE  IInv'
<1>1. FilesInv'
  BY WriteKeeps DEF IInv, ClientWrites, Write, FilesInv, EngineTypeOK
<1>2. AppTypeOK'
  BY DEF IInv, ClientWrites, Write, AppTypeOK, app, waiting, outside, ghosts
<1>3. ServiceInv'
  BY WriteKeeps DEF IInv, ClientWrites, Write, ServiceInv, AppTypeOK, Deploying,
     Results, engine, app, waiting, outside, ghosts
<1> QED BY <1>1, <1>2, <1>3 DEF IInv

LEMMA PowerFailsKeeps ==
  ASSUME IInv, PowerFails
  PROVE  IInv'
<1>1. FilesInv'
  BY EngineCrashKeeps DEF IInv, PowerFails, FilesInv, EngineTypeOK
<1>2. AppTypeOK'
  BY DEF IInv, PowerFails, AppTypeOK, app, waiting, outside, ghosts
<1>3. ServiceInv'
  BY EngineCrashKeeps DEF IInv, PowerFails, ServiceInv, AppTypeOK, Deploying, Results,
     engine, app, waiting, outside, ghosts
<1> QED BY <1>1, <1>2, <1>3 DEF IInv

LEMMA StutterKeeps ==
  ASSUME IInv, UNCHANGED vars
  PROVE  IInv'
<1>1. FilesInv'
  BY EngineUnchanged DEF IInv, vars
<1>2. AppTypeOK' /\ ServiceInv'
  BY DEF IInv, vars, engine, app, waiting, outside, ghosts, AppTypeOK, ServiceInv
<1> QED BY <1>1, <1>2 DEF IInv

LEMMA InitInv ==
  ASSUME Init
  PROVE  IInv
<1>1. EngineTypeOK
  <2>1. {disk, was, backup} \subseteq [Files -> Contents]
    BY FirstDisksAssumption DEF Init, EngineInit, Contents
  <2>2. fails \in 0 .. MaxFails /\ faults \in 0 .. MaxFaults
    BY UpdateBoundsAssumption DEF Init, EngineInit
  <2> QED BY <2>1, <2>2 DEF Init, EngineInit, EngineTypeOK
<1>2. FilesInv
  BY <1>1 DEF Init, EngineInit, FilesInv, ListsHold, BackupHolds, BackingUp,
     DeletingOld,
     DeployingNew, AllGood, Untouched, Dropping, Restoring, RolledBack, Changing,
        Deploying
<1>3. AppTypeOK
  <2>1. runs \in 0 .. MaxRuns
    BY RunsAssumption DEF Init
  <2> QED BY <2>1 DEF Init, AppTypeOK
<1>4. ServiceInv
  BY DEF Init, EngineInit, ServiceInv, Deploying
<1> QED BY <1>2, <1>3, <1>4 DEF IInv

\* A backup that is whole, and files outside of the lists that are not touched, keep a
\* copy of everything.
LEMMA CopiesExist ==
  ASSUME FilesInv
  PROVE  CopyExists
<1> SUFFICES ASSUME phase \in Deploying, NEW f \in Files \ Unprotected
             PROVE  was[f] \in {"none", disk[f], backup[f]}
  BY DEF CopyExists
<1>1. Lists
  BY DEF FilesInv, ListsHold
<1>2. CASE phase = "backup"
  BY <1>2 DEF FilesInv, BackingUp
<1>3. CASE phase # "backup"
  <2>1. phase \in Changing
    BY <1>3 DEF Deploying, Changing
  <2>2. CASE f \in oldFiles
    BY <2>1, <2>2 DEF FilesInv, BackupHolds
  <2>3. CASE f \notin oldFiles /\ f \in newFiles
    BY <1>1, <2>3, ListFacts
  <2>4. CASE f \notin oldFiles /\ f \notin newFiles
    BY <2>1, <2>4 DEF FilesInv, Untouched
  <2> QED BY <2>2, <2>3, <2>4
<1> QED BY <1>2, <1>3

-----------------------------------------------------------------------------
(***************************************************************************)
(* The theorems.                                                            *)
(***************************************************************************)

\* Every reachable state satisfies the invariant.
THEOREM UpdateInvariance == Spec => []IInv
<1>1. Init => IInv
  BY InitInv
<1>2. IInv /\ [Next]_vars => IInv'
  <2> SUFFICES ASSUME IInv, [Next]_vars
               PROVE  IInv'
    OBVIOUS
  <2>1. CASE Start \/ Downloading
    BY <2>1, StartKeeps, DownloadingKeeps
  <2>2. CASE Slots
    BY <2>2, OnDownloadCompleteKeeps, OnModuleClosedKeeps, OnDisconnectedKeeps,
       DeploymentKeeps, OnFailStopClientKeeps, OnUpdateCompleteKeeps, ExitKeeps DEF
          Slots
  <2>3. CASE Outside
    BY <2>3, ClientClosesKeeps, ClientReturnsKeeps, ServiceStopsKeeps DEF Outside
  <2>4. CASE ServiceBreaksDown \/ ClientWrites \/ PowerFails
    BY <2>4, ServiceBreaksDownKeeps, ClientWritesKeeps, PowerFailsKeeps
  <2>5. CASE UNCHANGED vars
    BY <2>5, StutterKeeps
  <2> QED BY <2>1, <2>2, <2>3, <2>4, <2>5 DEF Next
<1> QED BY <1>1, <1>2, PTL DEF Spec

\* Types.
THEOREM UpdateTypeCorrect == Spec => []TypeOK
<1>1. IInv => TypeOK
  BY DEF IInv, FilesInv, AppTypeOK, TypeOK
<1> QED BY <1>1, UpdateInvariance, PTL

\* An update that ended well has left the new version, whatever earlier attempts have
\* left behind (Updater::deploy).
THEOREM UpToDateTheorem == Spec => []UpToDate
<1>1. IInv => UpToDate
  BY DEF IInv, FilesInv, AllGood, Good, UpToDate
<1> QED BY <1>1, UpdateInvariance, PTL

\* A deployment that failed has left what it found, but for the files it does not back
\* up (the handler of the exception in Updater::deploy).
THEOREM RolledBackTheorem == Spec => []RolledBack
<1>1. IInv => RolledBack
  BY DEF IInv, FilesInv
<1> QED BY <1>1, UpdateInvariance, PTL

\* At every moment of a deployment there is a copy of every such file.
THEOREM CopyExistsTheorem == Spec => []CopyExists
<1>1. IInv => CopyExists
  BY CopiesExist DEF IInv
<1> QED BY <1>1, UpdateInvariance, PTL

\* Files are replaced only while the client is closed (UpdaterApp::onDisconnected).
THEOREM FilesChangeAloneTheorem == Spec => []FilesChangeAlone
<1>1. IInv => FilesChangeAlone
  BY DEF IInv, ServiceInv, FilesChangeAlone
<1> QED BY <1>1, UpdateInvariance, PTL

\* An update leaves the service running (UpdaterApp::onUpdateComplete, errorExit).
THEOREM LeftRunningTheorem == Spec => []LeftRunning
<1>1. IInv => LeftRunning
  BY DEF IInv, ServiceInv, LeftRunning
<1> QED BY <1>1, UpdateInvariance, PTL

=============================================================================
