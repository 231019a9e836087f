------------------------- MODULE PaymentStore_proofs -------------------------
(***************************************************************************)
(* Proofs about PaymentStore, for any number of sessions, of calls of the    *)
(* main thread and of crashes.                                              *)
(***************************************************************************)
EXTENDS PaymentStore, TLAPS, FiniteSetTheorems

-----------------------------------------------------------------------------
\* The inductive invariant.

\* The payment is mOfflinePayment; the thread holds an object of it.
Announced == {"process", "check", "saving", "pay", "finish"}
Busy      == Announced \union {"loaded", "condemn"}

\* What the payment thread knows of its object: a session number and a step
\* that is in the row or will be written with the next save.
ThreadInv ==
  /\ commands <= bounds.updates
  /\ offline <=> pc \in Announced
  /\ pc \in {"check", "saving", "pay"} => obj.session # 0
  /\ pc \in {"saving", "pay"} => obj.step = "Pay" /\ obj.stepSet
  /\ pc \in Busy /\ ~obj.stepSet => obj.step = row.step

\* The lock is held through an update, and keeps the payment announced through a
\* forced one. A copy sets no step, and is the row's as long as nothing is written.
MainInv ==
  /\ locked <=> main.kind \in {"update", "forced"}
  /\ main.at = "idle" <=> main.kind = "none"
  /\ main.at = "shared" => main.kind = "forced"
  /\ main.kind = "forced" => offline
  /\ main.at \in {"condemn", "save"} => ~copy.stepSet
  /\ main.at \in {"condemn", "save"} /\ ~moved =>
       copy.session = row.session /\ copy.step = row.step

\* A charge is in the row and in the object, and a PAY is sent only when there
\* is none and the row has its session.
ChargeInv == ~stale =>
  /\ charged # {} => charged = {row.session} /\ row.step = "Pay"
  /\ charged # {} /\ pc \in Busy => obj.session = row.session /\ obj.step = "Pay"
  /\ pc \in {"check", "saving", "pay"} => charged = {}
  /\ pc = "pay" => row.session = obj.session /\ row.step = "Pay"

\* Between two turns the signature is that of the row.
WholeInv == pc \in {"idle", "commands"} /\ bounds.crashes = 0 /\ ~stale => Genuine(row)

\* A forced field is in every object that may still be saved.
KeptInv ==
  /\ kept => row.printed
  /\ kept /\ pc # "idle" => obj.printed
  /\ kept /\ main.at \in {"condemn", "save"} => copy.printed
  /\ main.kind = "forced" =>
       /\ obj.printed
       /\ main.at # "shared" => row.printed
       /\ main.at \in {"condemn", "save"} => copy.printed

IInv == TypeOK /\ ThreadInv /\ MainInv /\ ChargeInv /\ WholeInv /\ KeptInv

-----------------------------------------------------------------------------
\* What the database returns and keeps.

Rows == [status : Statuses, step : Steps, session : 0..MaxSessions, printed : BOOLEAN,
         signature : Signatures]

\* A signature of an object is one, and a loaded object carries what the row has.
LEMMA LoadedFacts ==
  ASSUME row \in Rows
  PROVE  /\ Loaded \in Objects
         /\ Loaded.step = row.step /\ Loaded.session = row.session
         /\ Loaded.printed = row.printed /\ ~Loaded.stepSet
         /\ Genuine(row) => Loaded.status = row.status
         /\ ~Genuine(row) => Loaded.status = "Cheated"
  BY DEF Loaded, Objects, Rows, Statuses

LEMMA SignatureFacts ==
  ASSUME NEW o \in Objects
  PROVE  Signature(o) \in Signatures
  BY DEF Signature, Signatures, Objects

\* A save replaces everything but a step that was not set.
LEMMA SavedFacts ==
  ASSUME row \in Rows, NEW o \in Objects, NEW s \in Signatures
  PROVE  /\ Saved(o, s) \in Rows
         /\ Saved(o, s).status = o.status /\ Saved(o, s).session = o.session
         /\ Saved(o, s).printed = o.printed /\ Saved(o, s).signature = s
         /\ o.stepSet => Saved(o, s).step = o.step
         /\ ~o.stepSet => Saved(o, s).step = row.step
  BY DEF Saved, Objects, Rows

\* The changes the thread makes to its object.
LEMMA ObjectFacts ==
  ASSUME NEW o \in Objects
  PROVE  /\ ProcessError(o) \in Objects
         /\ \A t \in Statuses : [o EXCEPT !.status = t] \in Objects
         /\ \A t \in Steps : [o EXCEPT !.step = t, !.stepSet = TRUE] \in Objects
         /\ [o EXCEPT !.printed = TRUE] \in Objects
  BY DEF ProcessError, Objects, Statuses, Queued

\* Constants of the model are among its values.
LEMMA ValueFacts ==
  /\ {"ReadyForCheck", "ProcessError", "Completed", "Cheated"} \subseteq Statuses
  /\ {"Init", "Pay"} \subseteq Steps
  BY DEF Statuses, Queued, Steps

LEMMA NoObjectFacts ==
  /\ NoObject \in Objects
  /\ AtRest \in [at : {"idle", "shared", "load", "condemn", "save"},
                 kind : {"none", "update", "forced", "reprocess"}, signature : Signatures]
  /\ AtRest.at = "idle" /\ AtRest.kind = "none"
  BY BoundsAssumption DEF NoObject, AtRest, Signature, Objects, Signatures, Statuses, Queued, Steps

-----------------------------------------------------------------------------
\* Initially.

LEMMA InitIInv == Init => IInv
  <1> SUFFICES ASSUME Init PROVE IInv
    OBVIOUS
  <1>1. TypeOK
    <2>1. NoObject \in Objects /\ Signature(NoObject) \in Signatures /\ AtRest = main
      BY NoObjectFacts, SignatureFacts DEF Init
    <2>2. row \in Rows
      <3>1. row = [status |-> "ReadyForCheck", step |-> "Init", session |-> 0, printed |-> FALSE,
                   signature |-> Signature(NoObject)]
        BY DEF Init
      <3>2. 0 \in 0..MaxSessions
        BY BoundsAssumption
      <3> QED
        BY <2>1, <3>1, <3>2, ValueFacts DEF Rows
    <2>3. obj \in Objects /\ copy \in Objects
      BY <2>1 DEF Init
    <2>4. main \in [at : {"idle", "shared", "load", "condemn", "save"},
                    kind : {"none", "update", "forced", "reprocess"}, signature : Signatures]
      BY <2>1, NoObjectFacts
    <2>5. /\ pc = "idle" /\ charged \subseteq 1..MaxSessions
          /\ offline \in BOOLEAN /\ locked \in BOOLEAN /\ moved \in BOOLEAN
          /\ stale \in BOOLEAN /\ kept \in BOOLEAN
      BY DEF Init
    <2>6. commands \in 0..MaxUpdates /\ made \in 0..MaxSessions
      <3>1. 0 \in 0..MaxUpdates /\ 0 \in 0..MaxSessions
        BY BoundsAssumption
      <3> QED
        BY <3>1 DEF Init
    <2>7. bounds \in [updates : 0..MaxUpdates, crashes : 0..MaxCrashes]
      <3>1. 0 \in 0..MaxUpdates /\ 0 \in 0..MaxCrashes
        BY BoundsAssumption
      <3> QED
        BY <3>1 DEF Init
    <2> QED
      BY <2>2, <2>3, <2>4, <2>5, <2>6, <2>7 DEF TypeOK, Rows
  <1>2. ThreadInv
    BY DEF Init, ThreadInv, Announced, Busy
  <1>3. MainInv
    BY NoObjectFacts DEF Init, MainInv
  <1>4. ChargeInv /\ WholeInv
    BY DEF Init, ChargeInv, WholeInv, Genuine, Signature, NoObject
  <1>5. KeptInv
    BY NoObjectFacts DEF Init, KeptInv
  <1> QED
    BY <1>1, <1>2, <1>3, <1>4, <1>5 DEF IInv

-----------------------------------------------------------------------------
\* Steps.

LEMMA TakeStep == IInv /\ Take => IInv'
  <1> SUFFICES ASSUME IInv, Take PROVE IInv'
    OBVIOUS
  <1> USE DEF IInv
  <1>0. row \in Rows /\ obj \in Objects /\ copy \in Objects
    BY DEF TypeOK, Rows
  <1>1. TypeOK'
    BY <1>0, LoadedFacts, BoundsAssumption DEF Take, TypeOK, threadVars, mainVars, ghosts, ThreadInv, Objects, Rows, Statuses, Queued, Steps
  <1>2. ThreadInv'
    BY <1>0, LoadedFacts DEF Take, TypeOK, ThreadInv, MainInv, threadVars, mainVars, ghosts, Announced, Busy, Objects
  <1>3. MainInv'
    BY <1>0, LoadedFacts DEF Take, TypeOK, ThreadInv, MainInv, threadVars, mainVars, ghosts, Announced, Busy, Objects
  <1>4. ChargeInv'
    BY <1>0, LoadedFacts DEF Take, TypeOK, ThreadInv, MainInv, ChargeInv, threadVars, mainVars, ghosts, Announced, Busy, Objects
  <1>5. WholeInv'
    BY <1>0, LoadedFacts DEF Take, TypeOK, ThreadInv, MainInv, WholeInv, ChargeInv, threadVars, mainVars, ghosts, Genuine, Signature, Announced, Busy, Objects
  <1>6. KeptInv'
    BY <1>0, LoadedFacts DEF Take, TypeOK, ThreadInv, MainInv, KeptInv, threadVars, mainVars, ghosts, Announced, Busy, Objects
  <1> QED
    BY <1>1, <1>2, <1>3, <1>4, <1>5, <1>6

LEMMA CondemnTakenStep == IInv /\ CondemnTaken => IInv'
  <1> SUFFICES ASSUME IInv, CondemnTaken PROVE IInv'
    OBVIOUS
  <1> USE DEF IInv
  <1>0. row \in Rows /\ obj \in Objects /\ copy \in Objects
    BY DEF TypeOK, Rows
  <1>1. row' = Saved(obj, Signature(obj))
    BY DEF CondemnTaken, ThreadSaves
  <1>2. /\ row' \in Rows
        /\ row'.status = obj.status /\ row'.session = obj.session
        /\ row'.printed = obj.printed /\ row'.signature = Signature(obj)
        /\ obj.stepSet => row'.step = obj.step
        /\ ~obj.stepSet => row'.step = row.step
    BY <1>0, <1>1, SavedFacts, SignatureFacts
  <1>3. TypeOK'
    BY <1>0, <1>2, BoundsAssumption DEF CondemnTaken, ThreadSaves, TypeOK, threadVars, mainVars, ghosts, ThreadInv, Objects, Rows, Statuses, Queued, Steps
  <1>4. ThreadInv'
    BY <1>0, <1>2 DEF CondemnTaken, ThreadSaves, TypeOK, ThreadInv, MainInv, threadVars, mainVars, ghosts, Announced, Busy, Objects
  <1>5. MainInv'
    BY <1>0, <1>2 DEF CondemnTaken, ThreadSaves, TypeOK, ThreadInv, MainInv, threadVars, mainVars, ghosts, Announced, Busy, Objects
  <1>6. ChargeInv'
    BY <1>0, <1>2 DEF CondemnTaken, ThreadSaves, TypeOK, ThreadInv, MainInv, ChargeInv, threadVars, mainVars, ghosts, Announced, Busy, Objects
  <1>7. WholeInv'
    BY <1>0, <1>2 DEF CondemnTaken, ThreadSaves, TypeOK, ThreadInv, MainInv, WholeInv, ChargeInv, threadVars, mainVars, ghosts, Genuine, Signature, Announced, Busy, Objects
  <1>8. KeptInv'
    BY <1>0, <1>2 DEF CondemnTaken, ThreadSaves, TypeOK, ThreadInv, MainInv, KeptInv, threadVars, mainVars, ghosts, Announced, Busy, Objects
  <1> QED
    BY <1>3, <1>4, <1>5, <1>6, <1>7, <1>8

LEMMA AnnounceStep == IInv /\ Announce => IInv'
  <1> SUFFICES ASSUME IInv, Announce PROVE IInv'
    OBVIOUS
  <1> USE DEF IInv
  <1>0. row \in Rows /\ obj \in Objects /\ copy \in Objects
    BY DEF TypeOK, Rows
  <1>1. TypeOK'
    BY <1>0, BoundsAssumption DEF Announce, TypeOK, threadVars, mainVars, ghosts, ThreadInv, Objects, Rows, Statuses, Queued, Steps
  <1>2. ThreadInv'
    BY <1>0 DEF Announce, TypeOK, ThreadInv, MainInv, threadVars, mainVars, ghosts, Announced, Busy, Objects
  <1>3. MainInv'
    BY <1>0 DEF Announce, TypeOK, ThreadInv, MainInv, threadVars, mainVars, ghosts, Announced, Busy, Objects
  <1>4. ChargeInv'
    BY <1>0 DEF Announce, TypeOK, ThreadInv, MainInv, ChargeInv, threadVars, mainVars, ghosts, Announced, Busy, Objects
  <1>5. WholeInv'
    BY <1>0 DEF Announce, TypeOK, ThreadInv, MainInv, WholeInv, ChargeInv, threadVars, mainVars, ghosts, Genuine, Signature, Announced, Busy, Objects
  <1>6. KeptInv'
    BY <1>0 DEF Announce, TypeOK, ThreadInv, MainInv, KeptInv, threadVars, mainVars, ghosts, Announced, Busy, Objects
  <1> QED
    BY <1>1, <1>2, <1>3, <1>4, <1>5, <1>6

LEMMA StartSessionStep == IInv /\ StartSession => IInv'
  <1> SUFFICES ASSUME IInv, StartSession PROVE IInv'
    OBVIOUS
  <1> USE DEF IInv
  <1>0. row \in Rows /\ obj \in Objects /\ copy \in Objects
    BY DEF TypeOK, Rows
  <1>1. TypeOK'
    BY <1>0, BoundsAssumption DEF StartSession, TypeOK, threadVars, mainVars, ghosts, ThreadInv, Objects, Rows, Statuses, Queued, Steps
  <1>2. ThreadInv'
    BY <1>0 DEF StartSession, TypeOK, ThreadInv, MainInv, threadVars, mainVars, ghosts, Announced, Busy, Objects
  <1>3. MainInv'
    BY <1>0 DEF StartSession, TypeOK, ThreadInv, MainInv, threadVars, mainVars, ghosts, Announced, Busy, Objects
  <1>4. ChargeInv'
    BY <1>0 DEF StartSession, TypeOK, ThreadInv, MainInv, ChargeInv, threadVars, mainVars, ghosts, Announced, Busy, Objects
  <1>5. WholeInv'
    BY <1>0 DEF StartSession, TypeOK, ThreadInv, MainInv, WholeInv, ChargeInv, threadVars, mainVars, ghosts, Genuine, Signature, Announced, Busy, Objects
  <1>6. KeptInv'
    BY <1>0 DEF StartSession, TypeOK, ThreadInv, MainInv, KeptInv, threadVars, mainVars, ghosts, Announced, Busy, Objects
  <1> QED
    BY <1>1, <1>2, <1>3, <1>4, <1>5, <1>6

LEMMA CheckStep == IInv /\ Check => IInv'
  <1> SUFFICES ASSUME IInv, Check PROVE IInv'
    OBVIOUS
  <1> USE DEF IInv
  <1>0. row \in Rows /\ obj \in Objects /\ copy \in Objects
    BY DEF TypeOK, Rows
  <1>1. TypeOK'
    <2>1. obj' \in Objects
      BY <1>0, ObjectFacts, ValueFacts DEF Check
    <2> QED
      BY <2>1 DEF Check, TypeOK, threadVars, mainVars, ghosts
  <1>2. ThreadInv'
    BY <1>0 DEF Check, ProcessError, TypeOK, ThreadInv, MainInv, threadVars, mainVars, ghosts, Announced, Busy, Objects
  <1>3. MainInv'
    BY <1>0 DEF Check, ProcessError, TypeOK, ThreadInv, MainInv, threadVars, mainVars, ghosts, Announced, Busy, Objects
  <1>4. ChargeInv'
    BY <1>0 DEF Check, ProcessError, TypeOK, ThreadInv, MainInv, ChargeInv, threadVars, mainVars, ghosts, Announced, Busy, Objects
  <1>5. WholeInv'
    BY <1>0 DEF Check, ProcessError, TypeOK, ThreadInv, MainInv, WholeInv, ChargeInv, threadVars, mainVars, ghosts, Genuine, Signature, Announced, Busy, Objects
  <1>6. KeptInv'
    BY <1>0 DEF Check, ProcessError, TypeOK, ThreadInv, MainInv, KeptInv, threadVars, mainVars, ghosts, Announced, Busy, Objects
  <1> QED
    BY <1>1, <1>2, <1>3, <1>4, <1>5, <1>6

LEMMA SaveBeforePayStep == IInv /\ SaveBeforePay => IInv'
  <1> SUFFICES ASSUME IInv, SaveBeforePay PROVE IInv'
    OBVIOUS
  <1> USE DEF IInv
  <1>0. row \in Rows /\ obj \in Objects /\ copy \in Objects
    BY DEF TypeOK, Rows
  <1>1. row' = Saved(obj, Signature(obj))
    BY DEF SaveBeforePay, ThreadSaves
  <1>2. /\ row' \in Rows
        /\ row'.status = obj.status /\ row'.session = obj.session
        /\ row'.printed = obj.printed /\ row'.signature = Signature(obj)
        /\ obj.stepSet => row'.step = obj.step
        /\ ~obj.stepSet => row'.step = row.step
    BY <1>0, <1>1, SavedFacts, SignatureFacts
  <1>3. TypeOK'
    BY <1>0, <1>2, BoundsAssumption DEF SaveBeforePay, ThreadSaves, TypeOK, threadVars, mainVars, ghosts, ThreadInv, Objects, Rows, Statuses, Queued, Steps
  <1>4. ThreadInv'
    BY <1>0, <1>2 DEF SaveBeforePay, ThreadSaves, TypeOK, ThreadInv, MainInv, threadVars, mainVars, ghosts, Announced, Busy, Objects
  <1>5. MainInv'
    BY <1>0, <1>2 DEF SaveBeforePay, ThreadSaves, TypeOK, ThreadInv, MainInv, threadVars, mainVars, ghosts, Announced, Busy, Objects
  <1>6. ChargeInv'
    BY <1>0, <1>2 DEF SaveBeforePay, ThreadSaves, TypeOK, ThreadInv, MainInv, ChargeInv, threadVars, mainVars, ghosts, Announced, Busy, Objects
  <1>7. WholeInv'
    BY <1>0, <1>2 DEF SaveBeforePay, ThreadSaves, TypeOK, ThreadInv, MainInv, WholeInv, ChargeInv, threadVars, mainVars, ghosts, Genuine, Signature, Announced, Busy, Objects
  <1>8. KeptInv'
    BY <1>0, <1>2 DEF SaveBeforePay, ThreadSaves, TypeOK, ThreadInv, MainInv, KeptInv, threadVars, mainVars, ghosts, Announced, Busy, Objects
  <1> QED
    BY <1>3, <1>4, <1>5, <1>6, <1>7, <1>8

LEMMA PayStep == IInv /\ Pay => IInv'
  <1> SUFFICES ASSUME IInv, Pay PROVE IInv'
    OBVIOUS
  <1> USE DEF IInv
  <1>0. row \in Rows /\ obj \in Objects /\ copy \in Objects
    BY DEF TypeOK, Rows
  <1>1. TypeOK'
    BY <1>0, BoundsAssumption DEF Pay, ProcessError, TypeOK, threadVars, mainVars, ghosts, ThreadInv, Objects, Rows, Statuses, Queued, Steps
  <1>2. ThreadInv'
    BY <1>0 DEF Pay, ProcessError, TypeOK, ThreadInv, MainInv, threadVars, mainVars, ghosts, Announced, Busy, Objects
  <1>3. MainInv'
    BY <1>0 DEF Pay, ProcessError, TypeOK, ThreadInv, MainInv, threadVars, mainVars, ghosts, Announced, Busy, Objects
  <1>4. ChargeInv'
    BY <1>0 DEF Pay, ProcessError, TypeOK, ThreadInv, MainInv, ChargeInv, threadVars, mainVars, ghosts, Announced, Busy, Objects
  <1>5. WholeInv'
    BY <1>0 DEF Pay, ProcessError, TypeOK, ThreadInv, MainInv, WholeInv, ChargeInv, threadVars, mainVars, ghosts, Genuine, Signature, Announced, Busy, Objects
  <1>6. KeptInv'
    BY <1>0 DEF Pay, ProcessError, TypeOK, ThreadInv, MainInv, KeptInv, threadVars, mainVars, ghosts, Announced, Busy, Objects
  <1> QED
    BY <1>1, <1>2, <1>3, <1>4, <1>5, <1>6

LEMMA StatusStep == IInv /\ Status => IInv'
  <1> SUFFICES ASSUME IInv, Status PROVE IInv'
    OBVIOUS
  <1> USE DEF IInv
  <1>0. row \in Rows /\ obj \in Objects /\ copy \in Objects
    BY DEF TypeOK, Rows
  <1>1. TypeOK'
    <2>1. obj' \in Objects
      BY ZenonT(30), <1>0, ObjectFacts, ValueFacts DEF Status
    <2> QED
      BY <2>1 DEF Status, TypeOK, threadVars, mainVars, ghosts
  <1>2. ThreadInv'
    BY <1>0 DEF Status, ProcessError, TypeOK, ThreadInv, MainInv, threadVars, mainVars, ghosts, Announced, Busy, Objects
  <1>3. MainInv'
    BY <1>0 DEF Status, ProcessError, TypeOK, ThreadInv, MainInv, threadVars, mainVars, ghosts, Announced, Busy, Objects
  <1>4. ChargeInv'
    BY <1>0 DEF Status, ProcessError, TypeOK, ThreadInv, MainInv, ChargeInv, threadVars, mainVars, ghosts, Announced, Busy, Objects
  <1>5. WholeInv'
    BY <1>0 DEF Status, ProcessError, TypeOK, ThreadInv, MainInv, WholeInv, ChargeInv, threadVars, mainVars, ghosts, Genuine, Signature, Announced, Busy, Objects
  <1>6. KeptInv'
    BY <1>0 DEF Status, ProcessError, TypeOK, ThreadInv, MainInv, KeptInv, threadVars, mainVars, ghosts, Announced, Busy, Objects
  <1> QED
    BY <1>1, <1>2, <1>3, <1>4, <1>5, <1>6

LEMMA FinishStep == IInv /\ Finish => IInv'
  <1> SUFFICES ASSUME IInv, Finish PROVE IInv'
    OBVIOUS
  <1> USE DEF IInv
  <1>0. row \in Rows /\ obj \in Objects /\ copy \in Objects
    BY DEF TypeOK, Rows
  <1>1. row' = Saved(obj, Signature(obj))
    BY DEF Finish, ThreadSaves
  <1>2. /\ row' \in Rows
        /\ row'.status = obj.status /\ row'.session = obj.session
        /\ row'.printed = obj.printed /\ row'.signature = Signature(obj)
        /\ obj.stepSet => row'.step = obj.step
        /\ ~obj.stepSet => row'.step = row.step
    BY <1>0, <1>1, SavedFacts, SignatureFacts
  <1>3. TypeOK'
    BY <1>0, <1>2 DEF Finish, ThreadSaves, Rows, TypeOK, mainVars
  <1>4. ThreadInv'
    BY <1>0, <1>2 DEF Finish, ThreadSaves, TypeOK, ThreadInv, MainInv, threadVars, mainVars, ghosts, Announced, Busy, Objects
  <1>5. MainInv'
    BY <1>0, <1>2 DEF Finish, ThreadSaves, TypeOK, ThreadInv, MainInv, threadVars, mainVars, ghosts, Announced, Busy, Objects
  <1>6. ChargeInv'
    BY <1>0, <1>2 DEF Finish, ThreadSaves, TypeOK, ThreadInv, MainInv, ChargeInv, threadVars, mainVars, ghosts, Announced, Busy, Objects
  <1>7. WholeInv'
    BY <1>0, <1>2 DEF Finish, ThreadSaves, TypeOK, ThreadInv, MainInv, WholeInv, ChargeInv, threadVars, mainVars, ghosts, Genuine, Signature, Announced, Busy, Objects
  <1>8. KeptInv'
    BY <1>0, <1>2 DEF Finish, ThreadSaves, TypeOK, ThreadInv, MainInv, KeptInv, threadVars, mainVars, ghosts, Announced, Busy, Objects
  <1> QED
    BY <1>3, <1>4, <1>5, <1>6, <1>7, <1>8

LEMMA RunCommandStep == IInv /\ RunCommand => IInv'
  <1> SUFFICES ASSUME IInv, RunCommand PROVE IInv'
    OBVIOUS
  <1> USE DEF IInv
  <1>0. row \in Rows /\ obj \in Objects /\ copy \in Objects
    BY DEF TypeOK, Rows
  <1> DEFINE o == [Loaded EXCEPT !.printed = TRUE]
  <1>1. /\ o \in Objects /\ o.step = row.step /\ o.session = row.session
        /\ o.printed /\ ~o.stepSet
    BY <1>0, LoadedFacts DEF Objects
  <1>2. row' = Saved(o, Signature(o))
    BY DEF RunCommand, ThreadSaves
  <1>3. /\ row' \in Rows
        /\ row'.status = o.status /\ row'.session = o.session
        /\ row'.printed = o.printed /\ row'.signature = Signature(o)
        /\ o.stepSet => row'.step = o.step
        /\ ~o.stepSet => row'.step = row.step
    BY <1>0, <1>1, <1>2, SavedFacts, SignatureFacts
  <1>4. TypeOK'
    BY <1>0, <1>1, <1>3, BoundsAssumption DEF RunCommand, ThreadSaves, TypeOK, threadVars, mainVars, ghosts, ThreadInv, Objects, Rows, Statuses, Queued, Steps
  <1>5. ThreadInv'
    BY <1>0, <1>1, <1>3 DEF RunCommand, ThreadSaves, TypeOK, ThreadInv, MainInv, threadVars, mainVars, ghosts, Announced, Busy, Objects
  <1>6. MainInv'
    BY <1>0, <1>1, <1>3 DEF RunCommand, ThreadSaves, TypeOK, ThreadInv, MainInv, threadVars, mainVars, ghosts, Announced, Busy, Objects
  <1>7. ChargeInv'
    BY <1>0, <1>1, <1>3 DEF RunCommand, ThreadSaves, TypeOK, ThreadInv, MainInv, ChargeInv, threadVars, mainVars, ghosts, Announced, Busy, Objects
  <1>8. WholeInv'
    BY ZenonT(30), <1>0, <1>1, <1>3 DEF RunCommand, ThreadSaves, TypeOK, ThreadInv, MainInv, WholeInv, ChargeInv, threadVars, mainVars, ghosts, Genuine, Signature, Announced, Busy, Objects
  <1>9. KeptInv'
    BY <1>0, <1>1, <1>3 DEF RunCommand, ThreadSaves, TypeOK, ThreadInv, MainInv, KeptInv, threadVars, mainVars, ghosts, Announced, Busy, Objects
  <1> QED
    BY <1>4, <1>5, <1>6, <1>7, <1>8, <1>9

LEMMA CommandsDoneStep == IInv /\ CommandsDone => IInv'
  <1> SUFFICES ASSUME IInv, CommandsDone PROVE IInv'
    OBVIOUS
  <1> USE DEF IInv
  <1>0. row \in Rows /\ obj \in Objects /\ copy \in Objects
    BY DEF TypeOK, Rows
  <1>1. TypeOK'
    BY <1>0, NoObjectFacts, BoundsAssumption DEF CommandsDone, TypeOK, threadVars, mainVars, ghosts, ThreadInv, Objects, Rows, Statuses, Queued, Steps
  <1>2. ThreadInv'
    BY <1>0, NoObjectFacts DEF CommandsDone, TypeOK, ThreadInv, MainInv, threadVars, mainVars, ghosts, Announced, Busy, Objects
  <1>3. MainInv'
    BY <1>0, NoObjectFacts DEF CommandsDone, TypeOK, ThreadInv, MainInv, threadVars, mainVars, ghosts, Announced, Busy, Objects
  <1>4. ChargeInv'
    BY <1>0, NoObjectFacts DEF CommandsDone, TypeOK, ThreadInv, MainInv, ChargeInv, threadVars, mainVars, ghosts, Announced, Busy, Objects
  <1>5. WholeInv'
    BY <1>0, NoObjectFacts DEF CommandsDone, TypeOK, ThreadInv, MainInv, WholeInv, ChargeInv, threadVars, mainVars, ghosts, Genuine, Signature, Announced, Busy, Objects
  <1>6. KeptInv'
    BY <1>0, NoObjectFacts DEF CommandsDone, TypeOK, ThreadInv, MainInv, KeptInv, threadVars, mainVars, ghosts, Announced, Busy, Objects
  <1> QED
    BY <1>1, <1>2, <1>3, <1>4, <1>5, <1>6

LEMMA UpdateStep == IInv /\ Update => IInv'
  <1> SUFFICES ASSUME IInv, Update PROVE IInv'
    OBVIOUS
  <1> USE DEF IInv
  <1>0. row \in Rows /\ obj \in Objects /\ copy \in Objects
    BY DEF TypeOK, Rows
  <1>1. TypeOK'
    <2>1. main' \in [at : {"idle", "shared", "load", "condemn", "save"},
                     kind : {"none", "update", "forced", "reprocess"}, signature : Signatures]
      BY <1>0, NoObjectFacts, SignatureFacts DEF Update, TypeOK
    <2>2. copy' \in Objects /\ obj' \in Objects
      BY <1>0, NoObjectFacts, LoadedFacts, ObjectFacts DEF Update, threadVars, mainVars
    <2>3. row' \in Rows
      BY <1>0 DEF Update
    <2>4. bounds' \in [updates : 0..MaxUpdates, crashes : 0..MaxCrashes]
      <3>1. bounds \in [updates : 0..MaxUpdates, crashes : 0..MaxCrashes]
        BY DEF TypeOK
      <3>2. bounds.updates + 1 \in 0..MaxUpdates
        BY <3>1, BoundsAssumption DEF Update, CountUpdate
      <3> QED
        BY <3>1, <3>2 DEF Update, CountUpdate
    <2> QED
      BY <2>1, <2>2, <2>3, <2>4 DEF Update, Rows, ThreadInv, TypeOK, threadVars, mainVars, ghosts
  <1>2. ThreadInv'
    BY <1>0, NoObjectFacts DEF Update, CountUpdate, TypeOK, ThreadInv, MainInv, threadVars, mainVars, ghosts, Announced, Busy, Objects
  <1>3. MainInv'
    BY <1>0, NoObjectFacts DEF Update, CountUpdate, TypeOK, ThreadInv, MainInv, threadVars, mainVars, ghosts, Announced, Busy, Objects
  <1>4. ChargeInv'
    BY <1>0, NoObjectFacts DEF Update, CountUpdate, TypeOK, ThreadInv, MainInv, ChargeInv, threadVars, mainVars, ghosts, Announced, Busy, Objects
  <1>5. WholeInv'
    BY <1>0, NoObjectFacts DEF Update, CountUpdate, TypeOK, ThreadInv, MainInv, WholeInv, ChargeInv, threadVars, mainVars, ghosts, Genuine, Signature, Announced, Busy, Objects
  <1>6. KeptInv'
    BY <1>0, NoObjectFacts DEF Update, CountUpdate, TypeOK, ThreadInv, MainInv, KeptInv, threadVars, mainVars, ghosts, Announced, Busy, Objects
  <1> QED
    BY <1>1, <1>2, <1>3, <1>4, <1>5, <1>6

LEMMA UpdateForcedStep == IInv /\ UpdateForced => IInv'
  <1> SUFFICES ASSUME IInv, UpdateForced PROVE IInv'
    OBVIOUS
  <1> USE DEF IInv
  <1>0. row \in Rows /\ obj \in Objects /\ copy \in Objects
    BY DEF TypeOK, Rows
  <1>1. TypeOK'
    <2>1. main' \in [at : {"idle", "shared", "load", "condemn", "save"},
                     kind : {"none", "update", "forced", "reprocess"}, signature : Signatures]
      BY <1>0, NoObjectFacts, SignatureFacts DEF UpdateForced, TypeOK
    <2>2. copy' \in Objects /\ obj' \in Objects
      BY <1>0, NoObjectFacts, LoadedFacts, ObjectFacts DEF UpdateForced, threadVars, mainVars
    <2>3. row' \in Rows
      BY <1>0 DEF UpdateForced
    <2>4. bounds' \in [updates : 0..MaxUpdates, crashes : 0..MaxCrashes]
      <3>1. bounds \in [updates : 0..MaxUpdates, crashes : 0..MaxCrashes]
        BY DEF TypeOK
      <3>2. bounds.updates + 1 \in 0..MaxUpdates
        BY <3>1, BoundsAssumption DEF UpdateForced, CountUpdate
      <3> QED
        BY <3>1, <3>2 DEF UpdateForced, CountUpdate
    <2> QED
      BY <2>1, <2>2, <2>3, <2>4 DEF UpdateForced, Rows, ThreadInv, TypeOK, threadVars, mainVars, ghosts
  <1>2. ThreadInv'
    BY <1>0, NoObjectFacts, SignatureFacts DEF UpdateForced, CountUpdate, TypeOK, ThreadInv, MainInv, threadVars, mainVars, ghosts, Announced, Busy, Objects
  <1>3. MainInv'
    BY <1>0, NoObjectFacts, SignatureFacts DEF UpdateForced, CountUpdate, TypeOK, ThreadInv, MainInv, threadVars, mainVars, ghosts, Announced, Busy, Objects
  <1>4. ChargeInv'
    BY <1>0, NoObjectFacts, SignatureFacts DEF UpdateForced, CountUpdate, TypeOK, ThreadInv, MainInv, ChargeInv, threadVars, mainVars, ghosts, Announced, Busy, Objects
  <1>5. WholeInv'
    BY <1>0, NoObjectFacts, SignatureFacts DEF UpdateForced, CountUpdate, TypeOK, ThreadInv, MainInv, WholeInv, ChargeInv, threadVars, mainVars, ghosts, Genuine, Signature, Announced, Busy, Objects
  <1>6. KeptInv'
    BY <1>0, NoObjectFacts, SignatureFacts DEF UpdateForced, CountUpdate, TypeOK, ThreadInv, MainInv, KeptInv, threadVars, mainVars, ghosts, Announced, Busy, Objects
  <1> QED
    BY <1>1, <1>2, <1>3, <1>4, <1>5, <1>6

LEMMA UpdateLaterStep == IInv /\ UpdateLater => IInv'
  <1> SUFFICES ASSUME IInv, UpdateLater PROVE IInv'
    OBVIOUS
  <1> USE DEF IInv
  <1>0. row \in Rows /\ obj \in Objects /\ copy \in Objects
    BY DEF TypeOK, Rows
  <1>1. TypeOK'
    BY <1>0, BoundsAssumption DEF UpdateLater, CountUpdate, TypeOK, threadVars, mainVars, ghosts, ThreadInv, Objects, Rows, Statuses, Queued, Steps
  <1>2. ThreadInv'
    BY <1>0 DEF UpdateLater, CountUpdate, TypeOK, ThreadInv, MainInv, threadVars, mainVars, ghosts, Announced, Busy, Objects
  <1>3. MainInv'
    BY <1>0 DEF UpdateLater, CountUpdate, TypeOK, ThreadInv, MainInv, threadVars, mainVars, ghosts, Announced, Busy, Objects
  <1>4. ChargeInv'
    BY <1>0 DEF UpdateLater, CountUpdate, TypeOK, ThreadInv, MainInv, ChargeInv, threadVars, mainVars, ghosts, Announced, Busy, Objects
  <1>5. WholeInv'
    BY <1>0 DEF UpdateLater, CountUpdate, TypeOK, ThreadInv, MainInv, WholeInv, ChargeInv, threadVars, mainVars, ghosts, Genuine, Signature, Announced, Busy, Objects
  <1>6. KeptInv'
    BY <1>0 DEF UpdateLater, CountUpdate, TypeOK, ThreadInv, MainInv, KeptInv, threadVars, mainVars, ghosts, Announced, Busy, Objects
  <1> QED
    BY <1>1, <1>2, <1>3, <1>4, <1>5, <1>6

LEMMA SaveSharedStep == IInv /\ SaveShared => IInv'
  <1> SUFFICES ASSUME IInv, SaveShared PROVE IInv'
    OBVIOUS
  <1> USE DEF IInv
  <1>0. row \in Rows /\ obj \in Objects /\ copy \in Objects
    BY DEF TypeOK, Rows
  <1>1. row' = Saved(obj, main.signature) /\ main.signature \in Signatures
    BY DEF SaveShared, TypeOK
  <1>2. /\ row' \in Rows
        /\ row'.status = obj.status /\ row'.session = obj.session
        /\ row'.printed = obj.printed
        /\ obj.stepSet => row'.step = obj.step
        /\ ~obj.stepSet => row'.step = row.step
    BY <1>0, <1>1, SavedFacts
  <1>3. TypeOK'
    BY <1>0, <1>2, BoundsAssumption DEF SaveShared, TypeOK, threadVars, mainVars, ghosts, ThreadInv, Objects, Rows, Statuses, Queued, Steps
  <1>4. ThreadInv'
    BY <1>0, <1>2 DEF SaveShared, TypeOK, ThreadInv, MainInv, threadVars, mainVars, ghosts, Announced, Busy, Objects
  <1>5. MainInv'
    BY <1>0, <1>2 DEF SaveShared, TypeOK, ThreadInv, MainInv, threadVars, mainVars, ghosts, Announced, Busy, Objects
  <1>6. ChargeInv'
    BY <1>0, <1>2 DEF SaveShared, TypeOK, ThreadInv, MainInv, ChargeInv, threadVars, mainVars, ghosts, Announced, Busy, Objects
  <1>7. WholeInv'
    BY <1>0, <1>2 DEF SaveShared, TypeOK, ThreadInv, MainInv, WholeInv, ChargeInv, threadVars, mainVars, ghosts, Genuine, Signature, Announced, Busy, Objects
  <1>8. KeptInv'
    BY <1>0, <1>2 DEF SaveShared, TypeOK, ThreadInv, MainInv, KeptInv, threadVars, mainVars, ghosts, Announced, Busy, Objects
  <1> QED
    BY <1>3, <1>4, <1>5, <1>6, <1>7, <1>8

LEMMA ReprocessStep == IInv /\ Reprocess => IInv'
  <1> SUFFICES ASSUME IInv, Reprocess PROVE IInv'
    OBVIOUS
  <1> USE DEF IInv
  <1>0. row \in Rows /\ obj \in Objects /\ copy \in Objects
    BY DEF TypeOK, Rows
  <1>1. TypeOK'
    <2>1. main' \in [at : {"idle", "shared", "load", "condemn", "save"},
                     kind : {"none", "update", "forced", "reprocess"}, signature : Signatures]
      BY <1>0, NoObjectFacts, SignatureFacts DEF Reprocess, TypeOK
    <2>2. copy' \in Objects /\ obj' \in Objects
      BY <1>0, NoObjectFacts, LoadedFacts, ObjectFacts DEF Reprocess, threadVars, mainVars
    <2>3. row' \in Rows
      BY <1>0 DEF Reprocess
    <2>4. bounds' \in [updates : 0..MaxUpdates, crashes : 0..MaxCrashes]
      <3>1. bounds \in [updates : 0..MaxUpdates, crashes : 0..MaxCrashes]
        BY DEF TypeOK
      <3>2. bounds.updates + 1 \in 0..MaxUpdates
        BY <3>1, BoundsAssumption DEF Reprocess, CountUpdate
      <3> QED
        BY <3>1, <3>2 DEF Reprocess, CountUpdate
    <2> QED
      BY <2>1, <2>2, <2>3, <2>4 DEF Reprocess, Rows, ThreadInv, TypeOK, threadVars, mainVars, ghosts
  <1>2. ThreadInv'
    BY <1>0, NoObjectFacts DEF Reprocess, CountUpdate, TypeOK, ThreadInv, MainInv, threadVars, mainVars, ghosts, Announced, Busy, Objects
  <1>3. MainInv'
    BY <1>0, NoObjectFacts DEF Reprocess, CountUpdate, TypeOK, ThreadInv, MainInv, threadVars, mainVars, ghosts, Announced, Busy, Objects
  <1>4. ChargeInv'
    BY <1>0, NoObjectFacts DEF Reprocess, CountUpdate, TypeOK, ThreadInv, MainInv, ChargeInv, threadVars, mainVars, ghosts, Announced, Busy, Objects
  <1>5. WholeInv'
    BY <1>0, NoObjectFacts DEF Reprocess, CountUpdate, TypeOK, ThreadInv, MainInv, WholeInv, ChargeInv, threadVars, mainVars, ghosts, Genuine, Signature, Announced, Busy, Objects
  <1>6. KeptInv'
    BY <1>0, NoObjectFacts DEF Reprocess, CountUpdate, TypeOK, ThreadInv, MainInv, KeptInv, threadVars, mainVars, ghosts, Announced, Busy, Objects
  <1> QED
    BY <1>1, <1>2, <1>3, <1>4, <1>5, <1>6

LEMMA LoadCopyStep == IInv /\ LoadCopy => IInv'
  <1> SUFFICES ASSUME IInv, LoadCopy PROVE IInv'
    OBVIOUS
  <1> USE DEF IInv
  <1>0. row \in Rows /\ obj \in Objects /\ copy \in Objects
    BY DEF TypeOK, Rows
  <1>1. TypeOK'
    <2>1. main' \in [at : {"idle", "shared", "load", "condemn", "save"},
                     kind : {"none", "update", "forced", "reprocess"}, signature : Signatures]
      BY <1>0, NoObjectFacts DEF LoadCopy, TypeOK
    <2>2. copy' \in Objects /\ obj' \in Objects
      BY <1>0, NoObjectFacts, LoadedFacts, ObjectFacts DEF LoadCopy, threadVars, mainVars
    <2>3. row' \in Rows
      BY <1>0 DEF LoadCopy
    <2> QED
      BY <2>1, <2>2, <2>3 DEF LoadCopy, Rows, ThreadInv, TypeOK, threadVars, mainVars, ghosts
  <1>2. ThreadInv'
    BY <1>0, LoadedFacts DEF LoadCopy, TypeOK, ThreadInv, MainInv, threadVars, mainVars, ghosts, Announced, Busy, Objects
  <1>3. MainInv'
    BY <1>0, LoadedFacts DEF LoadCopy, TypeOK, ThreadInv, MainInv, threadVars, mainVars, ghosts, Announced, Busy, Objects
  <1>4. ChargeInv'
    BY <1>0, LoadedFacts DEF LoadCopy, TypeOK, ThreadInv, MainInv, ChargeInv, threadVars, mainVars, ghosts, Announced, Busy, Objects
  <1>5. WholeInv'
    BY <1>0, LoadedFacts DEF LoadCopy, TypeOK, ThreadInv, MainInv, WholeInv, ChargeInv, threadVars, mainVars, ghosts, Genuine, Signature, Announced, Busy, Objects
  <1>6. KeptInv'
    BY <1>0, LoadedFacts DEF LoadCopy, TypeOK, ThreadInv, MainInv, KeptInv, threadVars, mainVars, ghosts, Announced, Busy, Objects
  <1> QED
    BY <1>1, <1>2, <1>3, <1>4, <1>5, <1>6

LEMMA CondemnCopyStep == IInv /\ CondemnCopy => IInv'
  <1> SUFFICES ASSUME IInv, CondemnCopy PROVE IInv'
    OBVIOUS
  <1> USE DEF IInv
  <1>0. row \in Rows /\ obj \in Objects /\ copy \in Objects
    BY DEF TypeOK, Rows
  <1>1. row' = Saved(copy, Signature(copy))
    BY DEF CondemnCopy, CopySaved
  <1>2. /\ row' \in Rows
        /\ row'.status = copy.status /\ row'.session = copy.session
        /\ row'.printed = copy.printed /\ row'.signature = Signature(copy)
        /\ copy.stepSet => row'.step = copy.step
        /\ ~copy.stepSet => row'.step = row.step
    BY <1>0, <1>1, SavedFacts, SignatureFacts
  <1>3. TypeOK'
    BY <1>0, <1>2, BoundsAssumption DEF CondemnCopy, CopySaved, TypeOK, threadVars, mainVars, ghosts, ThreadInv, Objects, Rows, Statuses, Queued, Steps
  <1>4. ThreadInv'
    BY <1>0, <1>2 DEF CondemnCopy, CopySaved, TypeOK, ThreadInv, MainInv, threadVars, mainVars, ghosts, Announced, Busy, Objects
  <1>5. MainInv'
    BY <1>0, <1>2 DEF CondemnCopy, CopySaved, TypeOK, ThreadInv, MainInv, threadVars, mainVars, ghosts, Announced, Busy, Objects
  <1>6. ChargeInv'
    BY <1>0, <1>2 DEF CondemnCopy, CopySaved, TypeOK, ThreadInv, MainInv, ChargeInv, threadVars, mainVars, ghosts, Announced, Busy, Objects
  <1>7. WholeInv'
    BY <1>0, <1>2 DEF CondemnCopy, CopySaved, TypeOK, ThreadInv, MainInv, WholeInv, ChargeInv, threadVars, mainVars, ghosts, Genuine, Signature, Announced, Busy, Objects
  <1>8. KeptInv'
    BY <1>0, <1>2 DEF CondemnCopy, CopySaved, TypeOK, ThreadInv, MainInv, KeptInv, threadVars, mainVars, ghosts, Announced, Busy, Objects
  <1> QED
    BY <1>3, <1>4, <1>5, <1>6, <1>7, <1>8

LEMMA SaveCopyStep == IInv /\ SaveCopy => IInv'
  <1> SUFFICES ASSUME IInv, SaveCopy PROVE IInv'
    OBVIOUS
  <1> USE DEF IInv
  <1>0. row \in Rows /\ obj \in Objects /\ copy \in Objects
    BY DEF TypeOK, Rows
  <1>1. ASSUME row' # row
        PROVE  \E o \in Objects :
                 /\ row' = Saved(o, Signature(o)) /\ stale' = (stale \/ moved)
                 /\ o.step = copy.step /\ o.session = copy.session /\ o.stepSet = copy.stepSet
                 /\ o.printed = (copy.printed \/ main.kind # "reprocess")
    <2>1. CASE main.kind # "reprocess"
      <3>1. [copy EXCEPT !.printed = TRUE] \in Objects
        BY <1>0 DEF Objects
      <3> QED
        BY <1>0, <1>1, <2>1, <3>1 DEF SaveCopy, CopySaved, Objects
    <2>2. CASE main.kind = "reprocess"
      <3>1. [copy EXCEPT !.status = "ReadyForCheck"] \in Objects
        BY <1>0 DEF Objects, Statuses, Queued
      <3> QED
        BY <1>0, <1>1, <2>2, <3>1 DEF SaveCopy, CopySaved, Objects
    <2> QED
      BY <2>1, <2>2
  <1>2. row' # row =>
          /\ row' \in Rows /\ stale' = (stale \/ moved)
          /\ row'.session = copy.session /\ row'.step = row.step
          /\ row'.printed = (copy.printed \/ main.kind # "reprocess")
          /\ row'.signature = <<row'.status, copy.step, row'.session>>
    <2> SUFFICES ASSUME row' # row
                 PROVE  /\ row' \in Rows /\ stale' = (stale \/ moved)
                        /\ row'.session = copy.session /\ row'.step = row.step
                        /\ row'.printed = (copy.printed \/ main.kind # "reprocess")
                        /\ row'.signature = <<row'.status, copy.step, row'.session>>
      OBVIOUS
    <2>1. PICK o \in Objects :
            /\ row' = Saved(o, Signature(o)) /\ stale' = (stale \/ moved)
            /\ o.step = copy.step /\ o.session = copy.session /\ o.stepSet = copy.stepSet
            /\ o.printed = (copy.printed \/ main.kind # "reprocess")
      BY <1>1
    <2>2. Signature(o) \in Signatures /\ ~o.stepSet
      BY <2>1, SignatureFacts DEF MainInv, SaveCopy
    <2> QED
      BY <1>0, <2>1, <2>2, SavedFacts DEF Signature
  <1>3. TypeOK'
    <2>1. main' \in [at : {"idle", "shared", "load", "condemn", "save"},
                     kind : {"none", "update", "forced", "reprocess"}, signature : Signatures]
      BY <1>0, NoObjectFacts DEF SaveCopy, TypeOK
    <2>2. copy' \in Objects /\ obj' \in Objects
      BY <1>0, NoObjectFacts, LoadedFacts, ObjectFacts DEF SaveCopy, threadVars, mainVars
    <2>3. row' \in Rows
      BY <1>0, <1>2 DEF SaveCopy
    <2> QED
      BY <2>1, <2>2, <2>3 DEF SaveCopy, CopySaved, Rows, ThreadInv, TypeOK, threadVars, mainVars, ghosts
  <1>4. ThreadInv'
    BY <1>0, <1>2, NoObjectFacts DEF SaveCopy, CopySaved, TypeOK, ThreadInv, MainInv, threadVars, mainVars, ghosts, Announced, Busy, Objects
  <1>5. MainInv'
    BY <1>0, <1>2, NoObjectFacts DEF SaveCopy, CopySaved, TypeOK, ThreadInv, MainInv, threadVars, mainVars, ghosts, Announced, Busy, Objects
  <1>6. ChargeInv'
    BY <1>0, <1>2, NoObjectFacts DEF SaveCopy, CopySaved, TypeOK, ThreadInv, MainInv, ChargeInv, threadVars, mainVars, ghosts, Announced, Busy, Objects
  <1>7. WholeInv'
    BY <1>0, <1>2, NoObjectFacts DEF SaveCopy, CopySaved, TypeOK, ThreadInv, MainInv, WholeInv, ChargeInv, threadVars, mainVars, ghosts, Genuine, Signature, Announced, Busy, Objects
  <1>8. KeptInv'
    BY <1>0, <1>2, NoObjectFacts DEF SaveCopy, CopySaved, TypeOK, ThreadInv, MainInv, KeptInv, threadVars, mainVars, ghosts, Announced, Busy, Objects
  <1> QED
    BY <1>3, <1>4, <1>5, <1>6, <1>7, <1>8

LEMMA CrashStep == IInv /\ Crash => IInv'
  <1> SUFFICES ASSUME IInv, Crash PROVE IInv'
    OBVIOUS
  <1> USE DEF IInv
  <1>0. row \in Rows /\ obj \in Objects /\ copy \in Objects
    BY DEF TypeOK, Rows
  <1>1. TypeOK'
    <2>1. main' \in [at : {"idle", "shared", "load", "condemn", "save"},
                     kind : {"none", "update", "forced", "reprocess"}, signature : Signatures]
      BY <1>0, NoObjectFacts DEF Crash, TypeOK
    <2>2. copy' \in Objects /\ obj' \in Objects
      BY <1>0, NoObjectFacts, LoadedFacts, ObjectFacts DEF Crash, threadVars, mainVars
    <2>3. row' \in Rows
      BY <1>0 DEF Crash
    <2>4. bounds' \in [updates : 0..MaxUpdates, crashes : 0..MaxCrashes]
      <3>1. bounds \in [updates : 0..MaxUpdates, crashes : 0..MaxCrashes]
        BY DEF TypeOK
      <3>2. bounds.crashes + 1 \in 0..MaxCrashes
        BY <3>1, BoundsAssumption DEF Crash
      <3> QED
        BY <3>1, <3>2 DEF Crash
    <2>5. commands' \in 0..MaxUpdates
      BY BoundsAssumption DEF Crash
    <2> QED
      BY <2>1, <2>2, <2>3, <2>4, <2>5 DEF Crash, Rows, ThreadInv, TypeOK, threadVars, mainVars, ghosts
  <1>2. ThreadInv'
    BY <1>0, NoObjectFacts DEF Crash, TypeOK, ThreadInv, MainInv, threadVars, mainVars, ghosts, Announced, Busy, Objects
  <1>3. MainInv'
    BY <1>0, NoObjectFacts DEF Crash, TypeOK, ThreadInv, MainInv, threadVars, mainVars, ghosts, Announced, Busy, Objects
  <1>4. ChargeInv'
    BY <1>0, NoObjectFacts DEF Crash, TypeOK, ThreadInv, MainInv, ChargeInv, threadVars, mainVars, ghosts, Announced, Busy, Objects
  <1>5. WholeInv'
    BY <1>0, NoObjectFacts DEF Crash, TypeOK, ThreadInv, MainInv, WholeInv, ChargeInv, threadVars, mainVars, ghosts, Genuine, Signature, Announced, Busy, Objects
  <1>6. KeptInv'
    BY <1>0, NoObjectFacts DEF Crash, TypeOK, ThreadInv, MainInv, KeptInv, threadVars, mainVars, ghosts, Announced, Busy, Objects
  <1> QED
    BY <1>1, <1>2, <1>3, <1>4, <1>5, <1>6

-----------------------------------------------------------------------------
\* The theorems.

LEMMA NextIInv == IInv /\ [Next]_vars => IInv'
  <1> SUFFICES ASSUME IInv, [Next]_vars PROVE IInv'
    OBVIOUS
  <1>1. CASE UNCHANGED vars
    BY <1>1 DEF IInv, TypeOK, ThreadInv, MainInv, ChargeInv, WholeInv, KeptInv, Announced, Busy,
                Genuine, Signature, vars, threadVars, mainVars, ghosts
  <1>2. CASE Thread
    BY <1>2, TakeStep, CondemnTakenStep, AnnounceStep, StartSessionStep, CheckStep,
       SaveBeforePayStep, PayStep, StatusStep, FinishStep, RunCommandStep, CommandsDoneStep
       DEF Thread
  <1>3. CASE Main
    BY <1>3, UpdateStep, UpdateForcedStep, UpdateLaterStep, SaveSharedStep, ReprocessStep,
       LoadCopyStep, CondemnCopyStep, SaveCopyStep DEF Main
  <1>4. CASE Crash
    BY <1>4, CrashStep
  <1> QED
    BY <1>1, <1>2, <1>3, <1>4 DEF Next

\* The inductive invariant holds in every reachable state.
THEOREM StoreInvariance == Spec => []IInv
  <1> QED
    BY InitIInv, NextIInv, PTL DEF Spec

\* Type correctness: no counter, queue or record leaves its set, whatever the
\* two threads write (PaymentService.cpp).
THEOREM StoreTypeCorrect == Spec => []TypeOK
  <1>1. IInv => TypeOK
    BY DEF IInv
  <1> QED
    BY <1>1, StoreInvariance, PTL

\* As long as no copy older than the row is saved a customer is charged once,
\* for any number of updates, sessions and crashes (performTransactionPay).
THEOREM ChargedOnceUnlessStaleTheorem == Spec => []ChargedOnceUnlessStale
  <1>1. IInv => ChargedOnceUnlessStale
    <2> SUFFICES ASSUME IInv, ~stale PROVE Cardinality(charged) <= 1
      BY DEF ChargedOnceUnlessStale, ChargedOnce
    <2>1. CASE charged = {}
      BY <2>1, FS_EmptySet
    <2>2. CASE charged # {}
      <3>1. charged = {row.session}
        BY <2>2 DEF IInv, ChargeInv
      <3> QED
        BY <3>1, FS_Singleton
    <2> QED
      BY <2>1, <2>2
  <1> QED
    BY <1>1, StoreInvariance, PTL

\* After a turn the row bears its own signature and the session that was
\* charged (processPaymentInternal).
THEOREM WholeAfterTurnTheorem == Spec => []WholeAfterTurn
  <1>1. IInv => WholeAfterTurn
    BY DEF IInv, WholeInv, ChargeInv, WholeAfterTurn
  <1> QED
    BY <1>1, StoreInvariance, PTL

\* A forced field stays in the row (updatePaymentFields).
THEOREM ForcedFieldTheorem == Spec => []ForcedFieldStays
  <1>1. IInv => ForcedFieldStays
    BY DEF IInv, KeptInv, ForcedFieldStays
  <1> QED
    BY <1>1, StoreInvariance, PTL

=============================================================================
