----------------------------- MODULE PaymentStore -----------------------------
(***************************************************************************)
(* Who writes the row of a payment: the payment thread works on an object it *)
(* has loaded and saves that, the main thread loads copies of its own        *)
(* (updatePaymentFields, and processPayment from the service menu) and saves *)
(* those.  A save replaces the columns of the row, but of the parameters     *)
(* only the ones that were set since the load; it carries a signature of     *)
(* columns and parameters together, and a row that does not match its        *)
(* signature is loaded as Cheated.                                           *)
(*                                                                          *)
(* One payment, not the active one. process() is reduced to CHECK, the save, *)
(* PAY and STATUS: PaymentProtocol has the whole of it. The object shared    *)
(* between the threads is read at one moment of a save.                      *)
(***************************************************************************)
EXTENDS Integers, FiniteSets

CONSTANTS
  MaxSessions,   \* bound: session numbers
  MaxUpdates,    \* bound: calls of the main thread
  MaxCrashes     \* bound: crashes

ASSUME BoundsAssumption == MaxSessions \in Nat \ {0} /\ {MaxUpdates, MaxCrashes} \subseteq Nat

VARIABLES
  row,        \* the row of the payment and its parameters
  obj,        \* the object of the payment thread, which is mOfflinePayment if offline
  pc,         \* where the payment thread is
  offline,    \* mOfflinePaymentID is the payment
  commands,   \* queued updates (mCommands)
  main,       \* the call of the main thread: at, kind, and the signature it made
  copy,       \* the object it has loaded
  locked,     \* the main thread holds mOfflinePaymentLock
  made,       \* session numbers made
  charged,    \* the sessions the gateway has taken money for
  moved,      \* the row was written since copy was loaded
  stale,      \* a copy older than the row was saved
  kept,       \* a forced update of mOfflinePayment has returned
  bounds      \* used up of the bounds

threadVars == <<obj, pc, offline, commands>>
mainVars == <<main, copy, locked>>
ghosts == <<moved, stale, kept>>
vars == <<row, threadVars, mainVars, made, charged, ghosts, bounds>>

Queued == {"ReadyForCheck", "ProcessError"}
Statuses == Queued \union {"Completed", "Cheated"}
Steps == {"Init", "Pay"}

\* createSignature(): the columns and parameters it covers.
Signature(o) == <<o.status, o.step, o.session>>

\* stepSet: STEP is among the parameters serialize() returns.
NoObject == [status |-> "ReadyForCheck", step |-> "Init", session |-> 0,
             printed |-> FALSE, stepSet |-> FALSE]
AtRest == [at |-> "idle", kind |-> "none", signature |-> Signature(NoObject)]

Init ==
  /\ row = [status |-> "ReadyForCheck", step |-> "Init", session |-> 0, printed |-> FALSE,
            signature |-> Signature(NoObject)]
  /\ obj = NoObject /\ pc = "idle" /\ offline = FALSE /\ commands = 0
  /\ main = AtRest /\ copy = NoObject /\ locked = FALSE
  /\ made = 0 /\ charged = {}
  /\ moved = FALSE /\ stale = FALSE /\ kept = FALSE
  /\ bounds = [updates |-> 0, crashes |-> 0]

-----------------------------------------------------------------------------
(* The database. *)

Genuine(r) == r.signature = Signature(r)

\* getPayment(): what restore() makes of the row.
Loaded ==
  [status |-> IF Genuine(row) THEN row.status ELSE "Cheated", step |-> row.step,
   session |-> row.session, printed |-> row.printed, stepSet |-> FALSE]

\* savePayment(): every column, and the parameters that were set.
Saved(o, signature) ==
  [row EXCEPT !.status = o.status, !.session = o.session, !.printed = o.printed,
              !.step = IF o.stepSet THEN o.step ELSE @, !.signature = signature]

\* A save by the payment thread, and one of the main thread's own copy.
ThreadSaves(o) ==
  /\ row' = Saved(o, Signature(o))
  /\ moved' = TRUE
  /\ UNCHANGED <<stale, kept>>

CopySaved(o) ==
  /\ row' = Saved(o, Signature(o))
  /\ stale' = (stale \/ moved)
  /\ UNCHANGED moved

-----------------------------------------------------------------------------
(* The payment thread. *)

ProcessError(o) == [o EXCEPT !.status = "ProcessError"]

\* onProcessPayments(): the payment is in the queue; getPayment() loads it.
Take ==
  /\ pc = "idle" /\ row.status \in Queued
  /\ obj' = Loaded
  /\ pc' = IF Genuine(row) THEN "loaded" ELSE "condemn"
  /\ UNCHANGED <<row, offline, commands, mainVars, made, charged, ghosts, bounds>>

\* The signature did not match: the payment is saved as Cheated.
CondemnTaken ==
  /\ pc = "condemn"
  /\ ThreadSaves(obj)
  /\ pc' = "loaded"
  /\ UNCHANGED <<obj, offline, commands, mainVars, made, charged, bounds>>

\* processPaymentInternal(): the object becomes mOfflinePayment.
Announce ==
  /\ pc = "loaded" /\ ~locked
  /\ offline' = TRUE
  /\ pc' = IF obj.status = "Cheated" THEN "finish" ELSE "process"
  /\ UNCHANGED <<row, obj, commands, mainVars, made, charged, ghosts, bounds>>

\* process(), step Init: the initial session, or a new one, and CHECK.
StartSession ==
  /\ pc = "process" /\ obj.step = "Init" /\ made < MaxSessions
  /\ made' = made + 1
  /\ obj' = [obj EXCEPT !.session = IF @ = 0 THEN 1 ELSE made + 1]
  /\ pc' = "check"
  /\ UNCHANGED <<row, offline, commands, mainVars, charged, ghosts, bounds>>

Check ==
  /\ pc = "check"
  /\ \/ obj' = [obj EXCEPT !.step = "Pay", !.stepSet = TRUE] /\ pc' = "saving"
     \/ obj' = ProcessError(obj) /\ pc' = "finish"
  /\ UNCHANGED <<row, offline, commands, mainVars, made, charged, ghosts, bounds>>

\* Mutant: the PAY is sent without a save.
PayUnsaved ==
  /\ pc = "saving"
  /\ pc' = "pay"
  /\ UNCHANGED <<row, obj, offline, commands, mainVars, made, charged, ghosts, bounds>>

\* performTransactionPay(): saved before PAY is sent.
SaveBeforePay ==
  /\ pc = "saving"
  /\ ThreadSaves(obj)
  /\ pc' = "pay"
  /\ UNCHANGED <<obj, offline, commands, mainVars, made, charged, bounds>>

\* PAY is answered, or lost on its way there or back.
Pay ==
  /\ pc = "pay"
  /\ \/ charged' = charged \union {obj.session} /\ obj' = [obj EXCEPT !.status = "Completed"]
     \/ charged' = charged \union {obj.session} /\ obj' = ProcessError(obj)
     \/ UNCHANGED charged /\ obj' = ProcessError(obj)
  /\ pc' = "finish"
  /\ UNCHANGED <<row, offline, commands, mainVars, made, ghosts, bounds>>

\* process(), step Pay: STATUS is answered, or lost.
Status ==
  /\ pc = "process" /\ obj.step = "Pay"
  /\ \/ /\ obj.session \in charged
        /\ obj' = [obj EXCEPT !.status = "Completed"] /\ pc' = "finish"
     \/ /\ obj.session \notin charged
        /\ obj' = [obj EXCEPT !.step = "Init", !.stepSet = TRUE] /\ UNCHANGED pc
     \/ obj' = ProcessError(obj) /\ pc' = "finish"
  /\ UNCHANGED <<row, offline, commands, mainVars, made, charged, ghosts, bounds>>

\* Mutant: the object is saved without the lock.
FinishUnlocked ==
  /\ pc = "finish"
  /\ offline' = FALSE
  /\ ThreadSaves(obj)
  /\ pc' = "commands"
  /\ UNCHANGED <<obj, commands, mainVars, made, charged, bounds>>

\* The payment is let go and saved, under the lock.
Finish ==
  /\ pc = "finish" /\ ~locked
  /\ offline' = FALSE
  /\ ThreadSaves(obj)
  /\ pc' = "commands"
  /\ UNCHANGED <<obj, commands, mainVars, made, charged, bounds>>

\* Mutant: one update too many.
RunCommandUncounted ==
  /\ pc = "commands"
  /\ commands' = commands - 1
  /\ ThreadSaves([Loaded EXCEPT !.printed = TRUE])
  /\ UNCHANGED <<obj, pc, offline, mainVars, made, charged, bounds>>

\* The queued updates, each on a fresh copy.
RunCommand ==
  /\ pc = "commands" /\ commands > 0
  /\ commands' = commands - 1
  /\ ThreadSaves([Loaded EXCEPT !.printed = TRUE])
  /\ UNCHANGED <<obj, pc, offline, mainVars, made, charged, bounds>>

CommandsDone ==
  /\ pc = "commands" /\ commands = 0
  /\ pc' = "idle" /\ obj' = NoObject
  /\ UNCHANGED <<row, offline, commands, mainVars, made, charged, ghosts, bounds>>

-----------------------------------------------------------------------------
(* The main thread. *)

CountUpdate ==
  /\ main.at = "idle" /\ bounds.updates < MaxUpdates
  /\ bounds' = [bounds EXCEPT !.updates = @ + 1]

\* updatePaymentFields() of a payment that is not being processed: a copy is
\* loaded and saved, under the lock.
Update ==
  /\ CountUpdate /\ ~offline
  /\ main' = [AtRest EXCEPT !.at = "load", !.kind = "update"]
  /\ locked' = TRUE
  /\ UNCHANGED <<row, threadVars, copy, made, charged, ghosts>>

\* Mutant: a forced update leaves the object of the payment thread alone.
UpdateForcedCopyOnly ==
  /\ CountUpdate /\ offline
  /\ main' = [AtRest EXCEPT !.at = "load", !.kind = "forced"]
  /\ locked' = TRUE
  /\ UNCHANGED <<row, threadVars, copy, made, charged, ghosts>>

\* A forced update of the one being processed: set in mOfflinePayment, which is
\* signed here and written in the next step.
UpdateForced ==
  /\ CountUpdate /\ offline
  /\ obj' = [obj EXCEPT !.printed = TRUE]
  /\ main' = [at |-> "shared", kind |-> "forced", signature |-> Signature(obj)]
  /\ locked' = TRUE
  /\ UNCHANGED <<row, pc, offline, commands, copy, made, charged, ghosts>>

\* Not forced: it is left to the payment thread.
UpdateLater ==
  /\ CountUpdate /\ offline /\ pc # "commands"
  /\ commands' = commands + 1
  /\ UNCHANGED <<row, obj, pc, offline, mainVars, made, charged, ghosts>>

SaveShared ==
  /\ main.at = "shared"
  /\ row' = Saved(obj, main.signature)
  /\ main' = [main EXCEPT !.at = "load"]
  /\ UNCHANGED <<threadVars, copy, locked, made, charged, ghosts, bounds>>

\* processPayment(offline), from the service menu, takes no lock.
Reprocess ==
  /\ CountUpdate
  /\ main' = [AtRest EXCEPT !.at = "load", !.kind = "reprocess"]
  /\ UNCHANGED <<row, threadVars, copy, locked, made, charged, ghosts>>

LoadCopy ==
  /\ main.at = "load"
  /\ copy' = Loaded /\ moved' = FALSE
  /\ main' = [main EXCEPT !.at = IF Genuine(row) THEN "save" ELSE "condemn"]
  /\ UNCHANGED <<row, threadVars, locked, made, charged, stale, kept, bounds>>

CondemnCopy ==
  /\ main.at = "condemn"
  /\ CopySaved(copy)
  /\ main' = [main EXCEPT !.at = "save"]
  /\ UNCHANGED <<threadVars, copy, locked, made, charged, kept, bounds>>

SaveCopy ==
  /\ main.at = "save"
  /\ \/ /\ main.kind # "reprocess"
        /\ CopySaved([copy EXCEPT !.printed = TRUE])
     \/ /\ main.kind = "reprocess" /\ copy.status \in Queued
        /\ CopySaved([copy EXCEPT !.status = "ReadyForCheck"])
     \/ /\ main.kind = "reprocess" /\ copy.status \notin Queued
        /\ UNCHANGED <<row, stale, moved>>
  /\ kept' = (kept \/ main.kind = "forced")
  /\ main' = AtRest /\ copy' = NoObject /\ locked' = FALSE
  /\ UNCHANGED <<threadVars, made, charged, bounds>>

-----------------------------------------------------------------------------
\* Both threads are lost; the database and the gateway stay.
Crash ==
  /\ bounds.crashes < MaxCrashes
  /\ bounds' = [bounds EXCEPT !.crashes = @ + 1]
  /\ obj' = NoObject /\ pc' = "idle" /\ offline' = FALSE /\ commands' = 0
  /\ main' = AtRest /\ copy' = NoObject /\ locked' = FALSE
  /\ moved' = FALSE
  /\ UNCHANGED <<row, made, charged, stale, kept>>

Thread == Take \/ CondemnTaken \/ Announce \/ StartSession \/ Check \/ SaveBeforePay
          \/ Pay \/ Status \/ Finish \/ RunCommand \/ CommandsDone
Main == Update \/ UpdateForced \/ UpdateLater \/ SaveShared \/ Reprocess
        \/ LoadCopy \/ CondemnCopy \/ SaveCopy
Next == Thread \/ Main \/ Crash

Spec == Init /\ [][Next]_vars

-----------------------------------------------------------------------------
(* Properties. *)

Objects == [status : Statuses, step : Steps, session : 0..MaxSessions, printed : BOOLEAN,
            stepSet : BOOLEAN]
Signatures == Statuses \X Steps \X (0..MaxSessions)

\* Type invariant.
TypeOK ==
  /\ row \in [status : Statuses, step : Steps, session : 0..MaxSessions, printed : BOOLEAN,
              signature : Signatures]
  /\ obj \in Objects /\ copy \in Objects
  /\ pc \in {"idle", "loaded", "condemn", "process", "check", "saving", "pay", "finish",
             "commands"}
  /\ main \in [at : {"idle", "shared", "load", "condemn", "save"},
               kind : {"none", "update", "forced", "reprocess"}, signature : Signatures]
  /\ offline \in BOOLEAN /\ locked \in BOOLEAN /\ moved \in BOOLEAN
  /\ stale \in BOOLEAN /\ kept \in BOOLEAN
  /\ commands \in 0..MaxUpdates /\ made \in 0..MaxSessions
  /\ charged \subseteq 1..MaxSessions
  /\ bounds \in [updates : 0..MaxUpdates, crashes : 0..MaxCrashes]

\* A customer is never charged twice (Payment.cpp, performTransactionPay: the
\* save before PAY is there for it).
ChargedOnce == Cardinality(charged) <= 1

\* The same as long as no copy older than the row is saved: neither the object
\* the threads share, nor its signature made too early, nor a crash at any
\* moment charges twice (updatePaymentFields, getPayment, processPaymentInternal).
ChargedOnceUnlessStale == ~stale => ChargedOnce

\* The row is whole again when the turn is over, whatever was written into it
\* by the main thread meanwhile: it bears the signature of its own contents and
\* the session that was charged (the save inside the lock, processPaymentInternal).
WholeAfterTurn ==
  pc \in {"idle", "commands"} /\ bounds.crashes = 0 /\ ~stale =>
    Genuine(row) /\ charged \subseteq {row.session}

\* A field forced into the payment being processed stays in the row, through
\* the saves of the payment thread and a crash (updatePaymentFields).
ForcedFieldStays == kept => row.printed

=============================================================================
