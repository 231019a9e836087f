------------------------ MODULE PaymentProtocol_proofs ------------------------
(***************************************************************************)
(* Proofs about PaymentProtocol, for any number of payments, sessions,       *)
(* faults and commands, and any limit of tries.                             *)
(***************************************************************************)
EXTENDS PaymentProtocol, TLAPS

-----------------------------------------------------------------------------
\* The inductive invariant.

Busy    == {"process", "check", "saving", "pay", "already", "removing", "finish"}
Talking == {"check", "saving", "pay", "already", "removing"}

\* The thread knows its payment and, when it talks to the gateway, its session.
ThreadInv ==
  /\ pc \in Busy => cur \in Payments
  /\ pc \in Talking => obj.session # 0
  /\ obj.step = "Pay" => obj.session # 0
  /\ \A p \in Payments : db[p].step = "Pay" => db[p].session # 0
  /\ pc \in {"check", "already"} => obj.step = "Init"
  /\ pc \in {"saving", "pay", "removing"} => obj.step = "Pay"
  /\ pc \in {"process", "check", "saving", "pay"} => obj.status \in Queued
  /\ pc = "removing" => job # "queue"
  /\ pc \in {"idle", "commands"} => job = "queue"
  /\ job # "queue" => cmds # <<>>

\* What the row says of charges, the object the thread works on says too, and
\* a PAY is sent only for a checked session that is in the row already.
ChargeInv ==
  /\ ChargeIsOnRecord
  /\ pc \in Busy => \A n \in Sessions :
       MayBeCharged(cur, n) => obj.step = "Pay" /\ obj.session = n
  /\ pc \in {"saving", "pay"} => srv[cur][obj.session] # "none"
  /\ pc = "pay" => db[cur].step = "Pay" /\ db[cur].session = obj.session
  /\ \A p \in Payments : \A n \in late[p] : srv[p][n] # "none"

CompletedInv ==
  /\ CompletedWasAccepted
  /\ pc \in Busy /\ obj.status = "Completed" =>
       /\ obj.session # 0
       /\ srv[cur][obj.session] \in Accepted \/ obj.session \in misread[cur]

IInv == TypeOK /\ ThreadInv /\ ChargeInv /\ CompletedInv

-----------------------------------------------------------------------------
\* What the decisions of the payment object return.

\* A payment stays a payment; neither step nor session is touched, and the
\* outcome is an error status.
LEMMA SetProcessErrorFacts ==
  ASSUME NEW o \in Rows
  PROVE  /\ SetProcessError(o) \in Rows
         /\ SetProcessError(o).step = o.step
         /\ SetProcessError(o).session = o.session
         /\ SetProcessError(o).error = o.error
         /\ SetProcessError(o).status \in {"BadPayment", "ProcessError"}
  <1> DEFINE status == IF o.tries > TriesLimit THEN "BadPayment" ELSE "ProcessError"
             tries  == IF o.error # "NetworkError" THEN o.tries + 1
                       ELSE IF o.tries = 0 THEN 1 ELSE o.tries
  <1>1. SetProcessError(o) = [o EXCEPT !.due = FALSE, !.status = status, !.tries = tries]
    BY DEF SetProcessError
  <1>2. status \in {"BadPayment", "ProcessError"}
    OBVIOUS
  <1>3. tries \in Nat
    BY DEF Rows
  <1> HIDE DEF status, tries
  <1> QED
    BY <1>1, <1>2, <1>3 DEF Rows, Statuses, Queued

LEMMA WithErrorFacts ==
  ASSUME NEW o \in Rows, NEW e \in Errors
  PROVE  /\ WithError(o, e) \in Rows
         /\ WithError(o, e).step = o.step
         /\ WithError(o, e).session = o.session
         /\ WithError(o, e).status = o.status
  BY DEF WithError, Rows

LEMMA CheckFailedFacts ==
  ASSUME NEW o \in Rows, NEW e \in Errors
  PROVE  /\ CheckFailed(o, e) \in Rows
         /\ CheckFailed(o, e).step = o.step
         /\ CheckFailed(o, e).session = o.session
         /\ CheckFailed(o, e).status \in {"BadPayment", "ProcessError"}
  <1>1. WithError(o, e) \in Rows
    BY WithErrorFacts
  <1> DEFINE r == SetProcessError(WithError(o, e))
  <1>2. /\ r \in Rows /\ r.step = o.step /\ r.session = o.session
        /\ r.status \in {"BadPayment", "ProcessError"}
    BY <1>1, WithErrorFacts, SetProcessErrorFacts
  <1> HIDE DEF r
  <1>3. /\ UpdateNumberOfTries(r) \in Rows
        /\ UpdateNumberOfTries(r).step = o.step
        /\ UpdateNumberOfTries(r).session = o.session
        /\ UpdateNumberOfTries(r).status \in {"BadPayment", "ProcessError"}
    BY <1>2 DEF UpdateNumberOfTries, Rows, Statuses
  <1>4. CheckFailed(o, e) = IF IsCriticalError(e) THEN [r EXCEPT !.status = "BadPayment"]
                            ELSE IF e = "OperatorNumberReject" THEN UpdateNumberOfTries(r)
                            ELSE r
    BY DEF CheckFailed, r
  <1> QED
    BY <1>2, <1>3, <1>4 DEF Rows, Statuses

LEMMA AfterPayFacts ==
  ASSUME NEW o \in Rows, NEW e \in Errors
  PROVE  /\ AfterPay(o, e) \in Rows
         /\ AfterPay(o, e).step = o.step
         /\ AfterPay(o, e).session = o.session
         /\ e # "Ok" => AfterPay(o, e).status \in {"BadPayment", "ProcessError"}
  <1> DEFINE w == WithError(o, e)
             r == SetProcessError(w)
  <1>1. w \in Rows /\ w.step = o.step /\ w.session = o.session
    BY WithErrorFacts
  <1>2. /\ r \in Rows /\ r.step = o.step /\ r.session = o.session
        /\ r.status \in {"BadPayment", "ProcessError"}
    BY <1>1, SetProcessErrorFacts
  <1>3. AfterPay(o, e) = IF e = "Ok" THEN [w EXCEPT !.status = "Completed"]
                         ELSE IF IsCriticalError(e) THEN [r EXCEPT !.status = "BadPayment"]
                         ELSE r
    BY DEF AfterPay
  <1> HIDE DEF w, r
  <1> QED
    BY <1>1, <1>2, <1>3 DEF Rows, Statuses

LEMMA AfterStatusFacts ==
  ASSUME NEW o \in Rows, NEW result \in Results, NEW e \in Errors
  PROVE  /\ AfterStatus(o, result, e) \in Rows
         /\ AfterStatus(o, result, e).session = o.session
         /\ NotPaid(result, e) => /\ AfterStatus(o, result, e).step = "Init"
                                  /\ AfterStatus(o, result, e).status = o.status
         /\ ~NotPaid(result, e) => AfterStatus(o, result, e).step = o.step
         /\ AfterStatus(o, result, e).status = "Completed"
              => o.status = "Completed" \/ (~NotPaid(result, e) /\ Paid(result, e))
  <1> DEFINE w == WithError(o, e)
             r == SetProcessError(w)
  <1>1. w \in Rows /\ w.step = o.step /\ w.session = o.session /\ w.status = o.status
    BY WithErrorFacts
  <1>2. /\ r \in Rows /\ r.step = o.step /\ r.session = o.session
        /\ r.status \in {"BadPayment", "ProcessError"}
    BY <1>1, SetProcessErrorFacts
  <1>3. AfterStatus(o, result, e) = IF NotPaid(result, e) THEN [w EXCEPT !.step = "Init"]
                                    ELSE IF Paid(result, e) THEN [w EXCEPT !.status = "Completed"]
                                    ELSE IF StillWaiting(result, e) THEN r
                                    ELSE w
    BY DEF AfterStatus
  <1> HIDE DEF w, r
  <1> QED
    BY <1>1, <1>2, <1>3 DEF Rows, Statuses, Steps

-----------------------------------------------------------------------------
\* What the gateway's replies may be.

LEMMA CheckReplyFacts ==
  ASSUME NEW state \in SessionStates, NEW r \in CheckReplies(state)
  PROVE  /\ r.state \in SessionStates /\ r.error \in Errors
         /\ r.state = state \/ (state = "none" /\ r.state = "checked")
         /\ r.error = "Ok" => r.state # "none"
  BY DEF CheckReplies, SessionStates, Errors

LEMMA PayReplyFacts ==
  ASSUME NEW state \in SessionStates, NEW r \in PayReplies(state)
  PROVE  /\ r.state \in SessionStates /\ r.error \in Errors
         /\ r.state # state => state = "checked" /\ r.state # "none"
         /\ r.state \in Live => state \in {"checked", "waiting", "done"}
         /\ r.state = "checked" => state = "checked"
         /\ state \in Accepted => r.state \in Accepted
         /\ r.error = "Ok" => r.state \in Live
  BY DEF PayReplies, SessionStates, Errors, Live, Accepted

LEMMA StatusReplyFacts ==
  ASSUME NEW state \in SessionStates, NEW r \in StatusReplies(state)
  PROVE  /\ r.state \in SessionStates /\ r.error \in Errors /\ r.result \in Results
         /\ r.state = state \/ (state = "checked" /\ r.state = "void")
         /\ NotPaid(r.result, r.error) => r.state \in {"none", "void", "failed"}
         /\ Paid(r.result, r.error) => r.state = "done"
         /\ AlreadyPaid(r.result, r.error) => r.state \in Live
  BY DEF StatusReplies, SessionStates, Errors, Results, NotPaid, Paid, AlreadyPaid, Live

LEMMA FaultyReplyFacts ==
  ASSUME NEW state \in SessionStates, NEW r \in FaultyStatusReplies(state)
  PROVE  /\ r.state = state /\ r.error \in Errors /\ r.result \in Results
         /\ ~NotPaid(r.result, r.error) /\ ~Paid(r.result, r.error)
  BY DEF FaultyStatusReplies, Errors, Results, NotPaid, Paid

-----------------------------------------------------------------------------
\* Every action preserves the invariant.

\* Loading a row keeps what the invariant says of it.
LEMMA LoadFacts ==
  ASSUME TypeOK, NEW p \in Payments
  PROVE  /\ Load(p) \in Rows
         /\ Load(p).step = db[p].step
         /\ Load(p).session = db[p].session
         /\ Load(p).status = db[p].status
  BY DEF TypeOK, Load, Rows

LEMMA TakePaymentStep ==
  ASSUME IInv, NEW p \in Payments, TakePayment(p)
  PROVE  IInv'
  <1>1. Load(p) \in Rows /\ Load(p).step = db[p].step /\ Load(p).session = db[p].session
        /\ Load(p).status = db[p].status
    BY LoadFacts DEF IInv
  <1>2. obj' = Load(p) /\ cur' = p /\ pc' = "process" /\ job' = "queue" /\ db[p].status \in Queued
        /\ UNCHANGED <<db, cmds, registered, made, misread, srv, late, connected, faults>>
    BY DEF TakePayment, Eligible, netVars, envVars
  <1>3. TypeOK'
    BY <1>1, <1>2 DEF TypeOK, IInv
  <1>4. ThreadInv'
    BY <1>1, <1>2 DEF ThreadInv, IInv, Busy, Talking
  <1>5. ChargeInv'
    BY <1>1, <1>2 DEF ChargeInv, IInv, ChargeIsOnRecord, MayBeCharged, Busy
  <1>6. CompletedInv'
    BY <1>1, <1>2 DEF CompletedInv, IInv, CompletedWasAccepted, Busy, Queued
  <1> QED
    BY <1>3, <1>4, <1>5, <1>6 DEF IInv

LEMMA NothingToTakeStep ==
  ASSUME IInv, NothingToTake
  PROVE  IInv'
  <1>1. /\ pc = "idle" /\ pc' = "commands"
        /\ UNCHANGED <<db, job, cur, obj, cmds, registered, made, misread, srv, late, connected, faults>>
    BY DEF NothingToTake, netVars, envVars
  <1>2. TypeOK'
    BY <1>1 DEF TypeOK, IInv
  <1>3. ThreadInv'
    BY <1>1 DEF ThreadInv, IInv, Busy, Talking
  <1>4. ChargeInv'
    BY <1>1 DEF ChargeInv, IInv, ChargeIsOnRecord, MayBeCharged, Busy
  <1>5. CompletedInv'
    BY <1>1 DEF CompletedInv, IInv, CompletedWasAccepted, Busy
  <1> QED
    BY <1>2, <1>3, <1>4, <1>5 DEF IInv

LEMMA FirstCommand ==
  ASSUME TypeOK, cmds # <<>>
  PROVE  Head(cmds) \in Commands /\ Head(cmds).payment \in Payments /\ Tail(cmds) \in Seq(Commands)
  <1>1. Head(cmds) \in Commands /\ Tail(cmds) \in Seq(Commands)
    BY DEF TypeOK
  <1> QED
    BY <1>1 DEF Commands

LEMMA RunForceStep ==
  ASSUME IInv, RunForce
  PROVE  IInv'
  <1> DEFINE p == Head(cmds).payment
             l == Load(p)
  <1>1. p \in Payments
    BY FirstCommand DEF RunForce, IInv
  <1>2. l \in Rows /\ l.step = db[p].step /\ l.session = db[p].session
    BY <1>1, LoadFacts DEF IInv
  <1>3. /\ obj' = [l EXCEPT !.tries = 1, !.status = "ProcessError"]
        /\ cur' = p /\ pc' = "process" /\ job' = "force" /\ cmds # <<>>
        /\ UNCHANGED <<db, cmds, registered, made, misread, srv, late, connected, faults>>
    BY DEF RunForce, netVars, envVars
  <1> HIDE DEF p, l
  <1>4. /\ obj' \in Rows /\ obj'.step = db[p].step /\ obj'.session = db[p].session
        /\ obj'.status = "ProcessError"
    BY <1>2, <1>3 DEF Rows, Statuses, Queued
  <1>5. TypeOK'
    BY <1>1, <1>3, <1>4 DEF TypeOK, IInv
  <1>6. ThreadInv'
    BY <1>1, <1>3, <1>4 DEF ThreadInv, IInv, Busy, Talking, Queued
  <1>7. ChargeInv'
    BY <1>1, <1>3, <1>4 DEF ChargeInv, IInv, ChargeIsOnRecord, MayBeCharged, Busy
  <1>8. CompletedInv'
    BY <1>1, <1>3, <1>4 DEF CompletedInv, IInv, CompletedWasAccepted, Busy
  <1> QED
    BY <1>5, <1>6, <1>7, <1>8 DEF IInv

LEMMA RunRemoveStep ==
  ASSUME IInv, RunRemove
  PROVE  IInv'
  <1> DEFINE p == Head(cmds).payment
             l == Load(p)
  <1>1. p \in Payments
    BY FirstCommand DEF RunRemove, IInv
  <1>2. l \in Rows /\ l.step = db[p].step /\ l.session = db[p].session /\ l.status = db[p].status
    BY <1>1, LoadFacts DEF IInv
  <1>3. /\ cur' = p /\ job' = "remove" /\ cmds # <<>>
        /\ \/ /\ db[p].step = "Init" /\ obj' = [l EXCEPT !.status = "Deleted"] /\ pc' = "finish"
           \/ db[p].step # "Init" /\ obj' = l /\ pc' = "removing"
        /\ UNCHANGED <<db, cmds, registered, made, misread, srv, late, connected, faults>>
    BY DEF RunRemove, netVars, envVars
  <1> HIDE DEF p, l
  <1>4. /\ obj' \in Rows /\ obj'.step = db[p].step /\ obj'.session = db[p].session
        /\ obj'.status \in {"Deleted", db[p].status}
        /\ pc' \in {"finish", "removing"} /\ (pc' = "removing" => db[p].step # "Init")
    BY <1>2, <1>3 DEF Rows, Statuses
  <1>5. db[p].step \in {"Init", "Pay"}
    BY <1>1 DEF IInv, TypeOK, Rows, Steps
  <1>6. TypeOK'
    BY <1>1, <1>3, <1>4 DEF TypeOK, IInv
  <1>7. ThreadInv'
    BY <1>1, <1>3, <1>4, <1>5 DEF ThreadInv, IInv, Busy, Talking
  <1>8. ChargeInv'
    BY <1>1, <1>3, <1>4 DEF ChargeInv, IInv, ChargeIsOnRecord, MayBeCharged, Busy
  <1>9. CompletedInv'
    BY <1>1, <1>3, <1>4 DEF CompletedInv, IInv, CompletedWasAccepted, Busy
  <1> QED
    BY <1>6, <1>7, <1>8, <1>9 DEF IInv

LEMMA NewRowFacts ==
  ASSUME NEW st \in Statuses
  PROVE  NewRow(st) \in Rows /\ NewRow(st).step = "Init" /\ NewRow(st).session = 0
         /\ NewRow(st).status = st
  BY BoundsAssumption DEF NewRow, Rows, Steps, Errors

\* The thread forgets what it was doing (the end of a tick, a crash).
LEMMA IdleStep ==
  ASSUME IInv, Idle, cmds' \in Seq(Commands), registered' \in Nat, faults' \in Nat,
         UNCHANGED <<db, made, misread, srv, late, connected>>
  PROVE  IInv'
  <1>1. obj' \in Rows /\ obj'.step = "Init" /\ pc' = "idle" /\ job' = "queue" /\ cur' = None
    BY NewRowFacts DEF Idle, NoObject, Statuses, Queued
  <1>2. TypeOK'
    BY <1>1 DEF TypeOK, IInv
  <1>3. ThreadInv'
    BY <1>1 DEF ThreadInv, IInv, Busy, Talking
  <1>4. ChargeInv'
    BY <1>1 DEF ChargeInv, IInv, ChargeIsOnRecord, MayBeCharged, Busy
  <1>5. CompletedInv'
    BY <1>1 DEF CompletedInv, IInv, CompletedWasAccepted, Busy
  <1> QED
    BY <1>2, <1>3, <1>4, <1>5 DEF IInv

LEMMA StartSessionStep ==
  ASSUME IInv, StartSession
  PROVE  IInv'
  <1>1. cur \in Payments /\ obj \in Rows /\ obj.step = "Init" /\ obj.status \in Queued
        /\ made[cur] \in Sessions
    BY DEF StartSession, IInv, ThreadInv, TypeOK, Busy
  <1>2. PICK n \in Sessions : obj' = [obj EXCEPT !.session = n]
    <2>1. CASE obj.session = 0
      BY <2>1, BoundsAssumption DEF StartSession, Sessions
    <2>2. CASE obj.session # 0
      BY <1>1, <2>2, BoundsAssumption DEF StartSession, Sessions
    <2> QED
      BY <2>1, <2>2
  <1>3. obj' \in Rows /\ obj'.step = "Init" /\ obj'.session # 0 /\ obj'.status \in Queued
    BY <1>1, <1>2 DEF Rows, Sessions
  <1>4. made' \in [Payments -> Sessions]
    <2>1. made \in [Payments -> Sessions] /\ MaxSessions \in Nat /\ made[cur] \in 1..MaxSessions
      BY <1>1, BoundsAssumption DEF IInv, TypeOK, Sessions
    <2>2. CASE UNCHANGED made
      BY <2>1, <2>2
    <2>3. CASE made[cur] < MaxSessions /\ made' = [made EXCEPT ![cur] = @ + 1]
      BY <1>1, <2>1, <2>3 DEF Sessions
    <2> QED
      BY <2>2, <2>3 DEF StartSession
  <1>5. /\ pc = "process" /\ pc' = "check"
        /\ UNCHANGED <<job, cur, db, cmds, registered, misread, srv, late, connected, faults>>
    BY DEF StartSession, GoTo, netVars, envVars
  <1>6. TypeOK'
    BY <1>3, <1>4, <1>5 DEF TypeOK, IInv
  <1>7. ThreadInv'
    BY <1>1, <1>3, <1>5 DEF ThreadInv, IInv, Busy, Talking
  <1>8. ChargeInv'
    BY <1>1, <1>3, <1>5 DEF ChargeInv, IInv, ChargeIsOnRecord, MayBeCharged, Busy
  <1>9. CompletedInv'
    BY <1>1, <1>3, <1>5 DEF CompletedInv, IInv, CompletedWasAccepted, Busy, Queued
  <1> QED
    BY <1>6, <1>7, <1>8, <1>9 DEF IInv

\* Facts shared by the requests: the session the thread asks about exists.
LEMMA TalkingFacts ==
  ASSUME IInv, pc \in Talking \/ (pc = "process" /\ obj.step = "Pay")
  PROVE  /\ cur \in Payments /\ obj \in Rows /\ obj.session \in Sessions
         /\ StateAt \in SessionStates
  <1>1. cur \in Payments /\ obj \in Rows /\ obj.session # 0
    BY DEF IInv, TypeOK, ThreadInv, Busy, Talking
  <1>2. obj.session \in Sessions
    BY <1>1, BoundsAssumption DEF Rows, Sessions
  <1> QED
    BY <1>1, <1>2 DEF IInv, TypeOK, StateAt

\* The gateway's state of the session changes, or not (a reply that was lost).
LEMMA ServerUpdate ==
  ASSUME IInv, cur \in Payments, obj.session \in Sessions,
         NEW state \in SessionStates, ServerBecomes(state)
  PROVE  /\ srv' \in [Payments -> [Sessions -> SessionStates]]
         /\ \A p \in Payments : \A n \in Sessions :
              srv'[p][n] = IF p = cur /\ n = obj.session THEN state ELSE srv[p][n]
  BY DEF IInv, TypeOK, ServerBecomes

LEMMA ServerSame ==
  ASSUME IInv, cur \in Payments, obj.session \in Sessions, UNCHANGED srv
  PROVE  /\ srv' \in [Payments -> [Sessions -> SessionStates]]
         /\ StateAt \in SessionStates
         /\ \A p \in Payments : \A n \in Sessions :
              srv'[p][n] = IF p = cur /\ n = obj.session THEN StateAt ELSE srv[p][n]
  BY DEF IInv, TypeOK, StateAt

\* CHECK: at most the session becomes "checked", and no PAY for it is out yet.
LEMMA CheckStep ==
  ASSUME IInv, pc = "check", NEW state \in SessionStates,
         state = StateAt \/ (StateAt = "none" /\ state = "checked"),
         srv' \in [Payments -> [Sessions -> SessionStates]],
         \A p \in Payments : \A n \in Sessions :
              srv'[p][n] = IF p = cur /\ n = obj.session THEN state ELSE srv[p][n],
         obj' \in Rows, obj'.session = obj.session,
         obj'.status # "Completed",
         \/ obj'.step = "Init" /\ pc' \in {"finish", "already"}
         \/ obj'.step = "Pay" /\ pc' = "saving" /\ state # "none" /\ obj'.status \in Queued,
         faults' \in Nat,
         UNCHANGED <<job, cur, db, cmds, registered, made, misread, late, connected>>
  PROVE  IInv'
  <1>1. cur \in Payments /\ obj.session \in Sessions /\ obj.step = "Init"
    BY TalkingFacts DEF Talking, IInv, ThreadInv
  <1>2. TypeOK'
    BY DEF TypeOK, IInv
  <1>3. ThreadInv'
    BY <1>1 DEF ThreadInv, IInv, Busy, Talking, Sessions
  <1>4. \A p \in Payments : \A n \in Sessions : MayBeCharged(p, n)' => MayBeCharged(p, n)
    BY <1>1 DEF MayBeCharged, Live, IInv, ChargeInv, StateAt
  <1>5. \A n \in Sessions : ~MayBeCharged(cur, n)
    BY <1>1 DEF IInv, ChargeInv, Busy
  <1>6. srv'[cur][obj'.session] = state
    BY <1>1
  <1>7. ChargeInv'
    <2>1. ChargeIsOnRecord'
      BY <1>4 DEF ChargeIsOnRecord, IInv, ChargeInv
    <2>2. \A n \in Sessions : ~MayBeCharged(cur, n)'
      BY <1>1, <1>4, <1>5 DEF MayBeCharged
    <2>3. \A p \in Payments : \A n \in late'[p] : srv'[p][n] # "none"
      BY DEF IInv, ChargeInv, TypeOK, StateAt
    <2> QED
      BY <1>6, <2>1, <2>2, <2>3 DEF ChargeInv
  <1>8. CompletedInv'
    <2>1. \A p \in Payments : \A n \in Sessions : srv[p][n] \in Accepted => srv'[p][n] \in Accepted
      BY DEF StateAt, Accepted
    <2>2. \A p \in Payments : db[p].session \in 0..MaxSessions
      BY DEF IInv, TypeOK, Rows
    <2>3. CompletedWasAccepted'
      BY <2>1, <2>2, BoundsAssumption DEF CompletedWasAccepted, IInv, CompletedInv, Sessions
    <2> QED
      BY <2>3 DEF CompletedInv
  <1> QED
    BY <1>2, <1>3, <1>7, <1>8 DEF IInv

LEMMA CheckAnsweredStep ==
  ASSUME IInv, CheckAnswered
  PROVE  IInv'
  <1>1. /\ cur \in Payments /\ obj \in Rows /\ obj.session \in Sessions
        /\ StateAt \in SessionStates /\ pc = "check" /\ obj.step = "Init" /\ obj.status \in Queued
    BY TalkingFacts DEF CheckAnswered, Talking, IInv, ThreadInv
  <1>2. PICK r \in CheckReplies(StateAt) :
          /\ ServerBecomes(r.state)
          /\ IF r.error = "Ok"
             THEN obj' = [WithError(obj, "Ok") EXCEPT !.step = "Pay"] /\ GoTo("saving")
             ELSE /\ obj' = CheckFailed(obj, r.error)
                  /\ GoTo(IF r.error = "SessionAlreadyExist" THEN "already" ELSE "finish")
    BY DEF CheckAnswered
  <1>3. /\ r.state \in SessionStates /\ r.error \in Errors
        /\ r.state = StateAt \/ (StateAt = "none" /\ r.state = "checked")
        /\ r.error = "Ok" => r.state # "none"
    BY <1>1, CheckReplyFacts
  <1>4. /\ srv' \in [Payments -> [Sessions -> SessionStates]]
        /\ \A p \in Payments : \A n \in Sessions :
              srv'[p][n] = IF p = cur /\ n = obj.session THEN r.state ELSE srv[p][n]
    BY <1>1, <1>2, <1>3, ServerUpdate
  <1>5. faults' \in Nat /\ UNCHANGED <<job, cur, db, cmds, registered, made, misread, late, connected>>
    BY <1>2 DEF CheckAnswered, NoFault, envVars, GoTo, IInv, TypeOK
  <1>6. CASE r.error = "Ok"
    <2> DEFINE w == WithError(obj, "Ok")
    <2>1. w \in Rows /\ w.session = obj.session /\ w.status = obj.status
      BY <1>1, WithErrorFacts DEF Errors
    <2>2. obj' = [w EXCEPT !.step = "Pay"] /\ pc' = "saving"
      BY <1>2, <1>6 DEF GoTo
    <2> HIDE DEF w
    <2>3. obj' \in Rows /\ obj'.session = obj.session /\ obj'.step = "Pay" /\ obj'.status \in Queued
      BY <1>1, <2>1, <2>2 DEF Rows, Steps
    <2> QED
      BY <1>1, <1>3, <1>4, <1>5, <1>6, <2>2, <2>3, CheckStep DEF Queued
  <1>7. CASE r.error # "Ok"
    <2>1. obj' = CheckFailed(obj, r.error) /\ pc' \in {"finish", "already"}
      BY <1>2, <1>7 DEF GoTo
    <2>2. /\ obj' \in Rows /\ obj'.session = obj.session /\ obj'.step = "Init"
          /\ obj'.status # "Completed"
      BY <1>1, <1>3, <2>1, CheckFailedFacts
    <2> QED
      BY <1>1, <1>3, <1>4, <1>5, <2>1, <2>2, CheckStep
  <1> QED
    BY <1>6, <1>7

LEMMA CheckLostStep ==
  ASSUME IInv, CheckLost
  PROVE  IInv'
  <1>1. /\ cur \in Payments /\ obj \in Rows /\ obj.session \in Sessions
        /\ StateAt \in SessionStates /\ pc = "check" /\ obj.step = "Init"
    BY TalkingFacts DEF CheckLost, Talking, IInv, ThreadInv
  <1>2. PICK state \in SessionStates :
          /\ state = StateAt \/ (StateAt = "none" /\ state = "checked")
          /\ srv' \in [Payments -> [Sessions -> SessionStates]]
          /\ \A p \in Payments : \A n \in Sessions :
               srv'[p][n] = IF p = cur /\ n = obj.session THEN state ELSE srv[p][n]
    <2>1. CASE UNCHANGED srv
      BY <1>1, <2>1, ServerSame
    <2>2. CASE \E r \in CheckReplies(StateAt) : ServerBecomes(r.state)
      BY <1>1, <2>2, CheckReplyFacts, ServerUpdate
    <2> QED
      BY <2>1, <2>2 DEF CheckLost
  <1>3. obj' = CheckFailed(obj, "NetworkError") /\ pc' = "finish"
    BY DEF CheckLost, GoTo
  <1>4. /\ obj' \in Rows /\ obj'.session = obj.session /\ obj'.step = "Init"
        /\ obj'.status # "Completed"
    BY <1>1, <1>3, CheckFailedFacts DEF Errors
  <1>5. faults' \in Nat /\ UNCHANGED <<job, cur, db, cmds, registered, made, misread, late, connected>>
    BY DEF CheckLost, Fault, GoTo, IInv, TypeOK
  <1> QED
    BY <1>1, <1>2, <1>3, <1>4, <1>5, CheckStep

\* Saving the object: the row now says what the object says.
LEMMA SaveRowFacts ==
  ASSUME IInv, cur \in Payments, SaveRow
  PROVE  /\ db' \in [Payments -> Rows]
         /\ db'[cur] = obj
         /\ \A p \in Payments : p # cur => db'[p] = db[p]
  BY DEF IInv, TypeOK, SaveRow

LEMMA SaveBeforePayStep ==
  ASSUME IInv, SaveBeforePay
  PROVE  IInv'
  <1>1. /\ cur \in Payments /\ obj \in Rows /\ obj.session \in Sessions
        /\ obj.step = "Pay" /\ pc = "saving" /\ obj.status \in Queued
    BY TalkingFacts DEF SaveBeforePay, Talking, IInv, ThreadInv
  <1>2. /\ db' \in [Payments -> Rows] /\ db'[cur] = obj
        /\ \A p \in Payments : p # cur => db'[p] = db[p]
    BY <1>1, SaveRowFacts DEF SaveBeforePay
  <1>3. pc' = "pay" /\ UNCHANGED <<job, cur, obj, cmds, registered, made, misread, srv, late, connected, faults>>
    BY DEF SaveBeforePay, GoTo, netVars, envVars
  <1>4. TypeOK'
    BY <1>2, <1>3 DEF TypeOK, IInv
  <1>5. ThreadInv'
    BY <1>1, <1>2, <1>3 DEF ThreadInv, IInv, Busy, Talking, Sessions
  <1>6. ChargeInv'
    BY <1>1, <1>2, <1>3 DEF ChargeInv, IInv, ChargeIsOnRecord, MayBeCharged, Busy
  <1>7. CompletedInv'
    BY <1>1, <1>2, <1>3 DEF CompletedInv, IInv, CompletedWasAccepted, Busy, Queued
  <1> QED
    BY <1>4, <1>5, <1>6, <1>7 DEF IInv

LEMMA SaveBeforePayFailsStep ==
  ASSUME IInv, SaveBeforePayFails
  PROVE  IInv'
  <1>1. /\ cur \in Payments /\ obj \in Rows /\ obj.session \in Sessions
        /\ obj.step = "Pay" /\ pc = "saving" /\ obj.status \in Queued
    BY TalkingFacts DEF SaveBeforePayFails, Talking, IInv, ThreadInv
  <1>2. /\ obj' \in Rows /\ obj'.session = obj.session /\ obj'.step = obj.step
        /\ obj'.status = obj.status
    BY <1>1, WithErrorFacts DEF SaveBeforePayFails, Errors
  <1>3. /\ pc' = "finish" /\ faults' \in Nat
        /\ UNCHANGED <<job, cur, db, cmds, registered, made, misread, srv, late, connected>>
    BY DEF SaveBeforePayFails, GoTo, netVars, Fault, IInv, TypeOK
  <1>4. TypeOK'
    BY <1>2, <1>3 DEF TypeOK, IInv
  <1>5. ThreadInv'
    BY <1>1, <1>2, <1>3 DEF ThreadInv, IInv, Busy, Talking, Sessions
  <1>6. ChargeInv'
    BY <1>1, <1>2, <1>3 DEF ChargeInv, IInv, ChargeIsOnRecord, MayBeCharged, Busy
  <1>7. CompletedInv'
    BY <1>1, <1>2, <1>3 DEF CompletedInv, IInv, CompletedWasAccepted, Busy, Queued
  <1> QED
    BY <1>4, <1>5, <1>6, <1>7 DEF IInv

\* PAY: the row and the object both name the session, so whatever the gateway
\* makes of the request, now or later, it is on record.
LEMMA PayStep ==
  ASSUME IInv, pc = "pay", NEW state \in SessionStates,
         state # "none",
         StateAt \in Accepted => state \in Accepted,
         srv' \in [Payments -> [Sessions -> SessionStates]],
         \A p \in Payments : \A n \in Sessions :
              srv'[p][n] = IF p = cur /\ n = obj.session THEN state ELSE srv[p][n],
         late' \in [Payments -> SUBSET Sessions],
         \A p \in Payments : \A n \in late'[p] : n \in late[p] \/ (p = cur /\ n = obj.session),
         obj' \in Rows, obj'.step = obj.step, obj'.session = obj.session,
         obj'.status = "Completed" => state \in Accepted,
         pc' = "finish", faults' \in Nat,
         UNCHANGED <<job, cur, db, cmds, registered, made, misread, connected>>
  PROVE  IInv'
  <1>1. /\ cur \in Payments /\ obj.session \in Sessions /\ obj.step = "Pay"
        /\ db[cur].step = "Pay" /\ db[cur].session = obj.session
    BY TalkingFacts DEF Talking, IInv, ThreadInv, ChargeInv
  <1>2. TypeOK'
    BY DEF TypeOK, IInv
  <1>3. ThreadInv'
    BY <1>1 DEF ThreadInv, IInv, Busy, Talking, Sessions
  <1>4. \A p \in Payments : \A n \in Sessions :
          MayBeCharged(p, n)' => MayBeCharged(p, n) \/ (p = cur /\ n = obj.session)
    BY <1>1 DEF MayBeCharged
  <1>5. ChargeIsOnRecord'
    BY <1>1, <1>4 DEF ChargeIsOnRecord, IInv, ChargeInv
  <1>6. \A n \in Sessions : MayBeCharged(cur, n)' => n = obj.session
    BY <1>1, <1>4 DEF IInv, ChargeInv, Busy
  <1>7. \A p \in Payments : \A n \in late'[p] : srv'[p][n] # "none"
    BY <1>1 DEF IInv, ChargeInv, TypeOK
  <1>8. ChargeInv'
    BY <1>1, <1>5, <1>6, <1>7 DEF ChargeInv, MayBeCharged
  <1>9. CompletedInv'
    <2>1. \A p \in Payments : \A n \in Sessions :
            srv[p][n] \in Accepted => srv'[p][n] \in Accepted
      BY DEF StateAt
    <2>2. \A p \in Payments : db[p].session \in 0..MaxSessions
      BY DEF IInv, TypeOK, Rows
    <2>3. CompletedWasAccepted'
      BY <2>1, <2>2, BoundsAssumption DEF CompletedWasAccepted, IInv, CompletedInv, Sessions
    <2>4. srv'[cur'][obj'.session] = state /\ obj'.session # 0
      BY <1>1 DEF Sessions
    <2> QED
      BY <2>3, <2>4 DEF CompletedInv
  <1> QED
    BY <1>2, <1>3, <1>8, <1>9 DEF IInv

LEMMA PayAnsweredStep ==
  ASSUME IInv, PayAnswered
  PROVE  IInv'
  <1>1. /\ cur \in Payments /\ obj \in Rows /\ obj.session \in Sessions
        /\ StateAt \in SessionStates /\ pc = "pay" /\ StateAt # "none"
    BY TalkingFacts DEF PayAnswered, Talking, IInv, ChargeInv, StateAt
  <1>2. PICK r \in PayReplies(StateAt) :
          ServerBecomes(r.state) /\ obj' = AfterPay(obj, r.error)
    BY DEF PayAnswered
  <1>3. /\ r.state \in SessionStates /\ r.error \in Errors /\ r.state # "none"
        /\ StateAt \in Accepted => r.state \in Accepted
        /\ r.error = "Ok" => r.state \in Accepted
    BY <1>1, PayReplyFacts DEF Live, Accepted
  <1>4. /\ obj' \in Rows /\ obj'.step = obj.step /\ obj'.session = obj.session
        /\ obj'.status = "Completed" => r.state \in Accepted
    BY <1>1, <1>2, <1>3, AfterPayFacts
  <1>5. /\ srv' \in [Payments -> [Sessions -> SessionStates]]
        /\ \A p \in Payments : \A n \in Sessions :
              srv'[p][n] = IF p = cur /\ n = obj.session THEN r.state ELSE srv[p][n]
    BY <1>1, <1>2, <1>3, ServerUpdate
  <1>6. /\ pc' = "finish" /\ faults' \in Nat /\ late' \in [Payments -> SUBSET Sessions]
        /\ UNCHANGED <<job, cur, db, cmds, registered, made, misread, late, connected>>
    BY DEF PayAnswered, GoTo, NoFault, envVars, IInv, TypeOK
  <1> QED
    BY <1>1, <1>3, <1>4, <1>5, <1>6, PayStep

LEMMA PayLostStep ==
  ASSUME IInv, PayLost
  PROVE  IInv'
  <1>1. /\ cur \in Payments /\ obj \in Rows /\ obj.session \in Sessions
        /\ StateAt \in SessionStates /\ pc = "pay" /\ StateAt # "none"
    BY TalkingFacts DEF PayLost, Talking, IInv, ChargeInv, StateAt
  <1>2. PICK state \in SessionStates :
          /\ state # "none" /\ (StateAt \in Accepted => state \in Accepted)
          /\ srv' \in [Payments -> [Sessions -> SessionStates]]
          /\ \A p \in Payments : \A n \in Sessions :
               srv'[p][n] = IF p = cur /\ n = obj.session THEN state ELSE srv[p][n]
    <2>1. CASE UNCHANGED srv
      BY <1>1, <2>1, ServerSame
    <2>2. CASE \E r \in PayReplies(StateAt) : ServerBecomes(r.state)
      <3>1. PICK r \in PayReplies(StateAt) : ServerBecomes(r.state)
        BY <2>2
      <3>2. r.state \in SessionStates /\ r.state # "none" /\ (StateAt \in Accepted => r.state \in Accepted)
        BY <1>1, PayReplyFacts
      <3> QED
        BY <1>1, <3>1, <3>2, ServerUpdate
    <2> QED
      BY <2>1, <2>2 DEF PayLost, netVars
  <1>3. /\ late' \in [Payments -> SUBSET Sessions]
        /\ \A p \in Payments : \A n \in late'[p] : n \in late[p] \/ (p = cur /\ n = obj.session)
    BY SMTT(20), <1>1 DEF PayLost, netVars, IInv, TypeOK
  <1>4. /\ obj' \in Rows /\ obj'.step = obj.step /\ obj'.session = obj.session
        /\ obj'.status # "Completed"
    BY <1>1, AfterPayFacts DEF PayLost, Errors
  <1>5. /\ pc' = "finish" /\ faults' \in Nat
        /\ UNCHANGED <<job, cur, db, cmds, registered, made, misread, connected>>
    BY DEF PayLost, GoTo, Fault, IInv, TypeOK
  <1> QED
    BY <1>1, <1>2, <1>3, <1>4, <1>5, PayStep

\* STATUS: it charges nothing, and it may close a checked session.  The object
\* goes back to step Init only if its session can no longer be charged.
LEMMA StatusStep ==
  ASSUME IInv, pc \in {"process", "already", "removing"},
         cur \in Payments, obj.session \in Sessions, NEW state \in SessionStates,
         state = StateAt \/ (StateAt = "checked" /\ state = "void"),
         srv' \in [Payments -> [Sessions -> SessionStates]],
         \A p \in Payments : \A n \in Sessions :
              srv'[p][n] = IF p = cur /\ n = obj.session THEN state ELSE srv[p][n],
         obj' \in Rows, obj'.session = obj.session,
         obj'.step = obj.step \/ (obj'.step = "Init" /\ state \in {"none", "void", "failed"}),
         obj'.status = "Completed" => obj.status = "Completed" \/ state \in Accepted,
         pc' \in {"process", "finish", "commands"},
         pc' = "process" => obj'.status \in Queued,
         \/ pc' # "commands" /\ UNCHANGED <<job, cmds>>
         \/ pc' = "commands" /\ job' = "queue" /\ cmds' \in Seq(Commands),
         faults' \in Nat,
         UNCHANGED <<cur, db, registered, made, misread, late, connected>>
  PROVE  IInv'
  <1>1. TypeOK'
    BY DEF TypeOK, IInv
  <1>2. ThreadInv'
    BY DEF ThreadInv, IInv, Busy, Talking, Sessions
  <1>3. \A p \in Payments : \A n \in Sessions : MayBeCharged(p, n)' => MayBeCharged(p, n)
    BY DEF MayBeCharged, Live, StateAt
  <1>4. ChargeInv'
    <2>1. ChargeIsOnRecord'
      BY <1>3 DEF ChargeIsOnRecord, IInv, ChargeInv
    <2>2. \A n \in Sessions : MayBeCharged(cur, n)' => obj'.step = "Pay" /\ obj'.session = n
      <3> SUFFICES ASSUME NEW n \in Sessions, MayBeCharged(cur, n)'
                   PROVE  obj'.step = "Pay" /\ obj'.session = n
        OBVIOUS
      <3>1. obj.step = "Pay" /\ obj.session = n
        BY <1>3 DEF IInv, ChargeInv, Busy
      <3>2. state \notin {"none", "void", "failed"}
        BY <3>1 DEF MayBeCharged, Live
      <3> QED
        BY <3>1, <3>2
    <2>3. \A p \in Payments : \A n \in late'[p] : srv'[p][n] # "none"
      BY DEF IInv, ChargeInv, TypeOK, StateAt
    <2> QED
      BY <2>1, <2>2, <2>3 DEF ChargeInv, MayBeCharged
  <1>5. \A p \in Payments : \A n \in Sessions : srv[p][n] \in Accepted => srv'[p][n] \in Accepted
    BY DEF StateAt, Accepted
  <1>6. CompletedInv'
    <2>1. \A p \in Payments : db[p].session \in 0..MaxSessions
      BY DEF IInv, TypeOK, Rows
    <2>2. CompletedWasAccepted'
      BY <1>5, <2>1, BoundsAssumption DEF CompletedWasAccepted, IInv, CompletedInv, Sessions
    <2>3. srv'[cur'][obj'.session] = state /\ obj'.session # 0
      BY DEF Sessions
    <2>4. obj'.status = "Completed" => state \in Accepted \/ obj.session \in misread[cur]
      BY <1>5 DEF IInv, CompletedInv, Busy
    <2> QED
      BY <2>2, <2>3, <2>4 DEF CompletedInv
  <1> QED
    BY <1>1, <1>2, <1>4, <1>6 DEF IInv

\* The gateway's part of a STATUS that nobody hears the answer of.
LEMMA StatusUnheardFacts ==
  ASSUME IInv, cur \in Payments, obj.session \in Sessions, StatusUnheard
  PROVE  \E state \in SessionStates :
           /\ state = StateAt \/ (StateAt = "checked" /\ state = "void")
           /\ srv' \in [Payments -> [Sessions -> SessionStates]]
           /\ \A p \in Payments : \A n \in Sessions :
                srv'[p][n] = IF p = cur /\ n = obj.session THEN state ELSE srv[p][n]
  <1>1. StateAt \in SessionStates
    BY DEF IInv, TypeOK, StateAt
  <1>2. CASE UNCHANGED srv
    BY <1>2, ServerSame
  <1>3. CASE \E r \in StatusReplies(StateAt) : ServerBecomes(r.state)
    <2>1. PICK r \in StatusReplies(StateAt) : ServerBecomes(r.state)
      BY <1>3
    <2>2. r.state \in SessionStates /\ (r.state = StateAt \/ (StateAt = "checked" /\ r.state = "void"))
      BY <1>1, StatusReplyFacts
    <2> QED
      BY <2>1, <2>2, ServerUpdate
  <1> QED
    BY <1>2, <1>3 DEF StatusUnheard

\* The two ways process() hears an answer to STATUS.
LEMMA StatusReplyStep ==
  ASSUME IInv, pc = "process", obj.step = "Pay", NEW r, AfterStatusReply(r),
         r \in StatusReplies(StateAt) \/ r \in FaultyStatusReplies(StateAt),
         faults' \in Nat, UNCHANGED connected
  PROVE  IInv'
  <1>1. /\ cur \in Payments /\ obj \in Rows /\ obj.session \in Sessions
        /\ StateAt \in SessionStates /\ obj.status \in Queued
    BY TalkingFacts DEF IInv, ThreadInv
  <1>2. /\ r.state \in SessionStates /\ r.error \in Errors /\ r.result \in Results
        /\ r.state = StateAt \/ (StateAt = "checked" /\ r.state = "void")
        /\ NotPaid(r.result, r.error) => r.state \in {"none", "void", "failed"}
        /\ Paid(r.result, r.error) => r.state \in Accepted
    BY <1>1, StatusReplyFacts, FaultyReplyFacts DEF Accepted
  <1>3. /\ srv' \in [Payments -> [Sessions -> SessionStates]]
        /\ \A p \in Payments : \A n \in Sessions :
              srv'[p][n] = IF p = cur /\ n = obj.session THEN r.state ELSE srv[p][n]
    BY <1>1, <1>2, ServerUpdate DEF AfterStatusReply
  <1>4. /\ obj' = AfterStatus(obj, r.result, r.error)
        /\ pc' = IF NotPaid(r.result, r.error) THEN "process" ELSE "finish"
        /\ UNCHANGED <<job, cmds, cur, db, registered, made, misread, late>>
    BY DEF AfterStatusReply, GoTo
  <1>5. /\ obj' \in Rows /\ obj'.session = obj.session
        /\ obj'.step = obj.step \/ (obj'.step = "Init" /\ r.state \in {"none", "void", "failed"})
        /\ obj'.status = "Completed" => obj.status = "Completed" \/ r.state \in Accepted
        /\ NotPaid(r.result, r.error) => obj'.status \in Queued
    BY <1>1, <1>2, <1>4, AfterStatusFacts
  <1>6. pc' \in {"process", "finish"} /\ (pc' = "process" => obj'.status \in Queued)
    BY <1>4, <1>5
  <1> QED
    BY <1>1, <1>2, <1>3, <1>4, <1>5, <1>6, StatusStep

LEMMA StatusHeardStep ==
  ASSUME IInv, StatusAnswered \/ StatusFaulty
  PROVE  IInv'
  <1>1. /\ pc = "process" /\ obj.step = "Pay" /\ faults' \in Nat /\ UNCHANGED connected
        /\ \E r : /\ AfterStatusReply(r)
                  /\ r \in StatusReplies(StateAt) \/ r \in FaultyStatusReplies(StateAt)
    BY DEF StatusAnswered, StatusFaulty, NoFault, Fault, envVars, IInv, TypeOK
  <1> QED
    BY <1>1, StatusReplyStep

LEMMA StatusLostStep ==
  ASSUME IInv, StatusLost
  PROVE  IInv'
  <1>1. /\ cur \in Payments /\ obj \in Rows /\ obj.session \in Sessions
        /\ pc = "process" /\ obj.step = "Pay"
    BY TalkingFacts DEF StatusLost
  <1>2. PICK state \in SessionStates :
           /\ state = StateAt \/ (StateAt = "checked" /\ state = "void")
           /\ srv' \in [Payments -> [Sessions -> SessionStates]]
           /\ \A p \in Payments : \A n \in Sessions :
                srv'[p][n] = IF p = cur /\ n = obj.session THEN state ELSE srv[p][n]
    BY <1>1, StatusUnheardFacts DEF StatusLost
  <1>3. /\ obj' \in Rows /\ obj'.session = obj.session /\ obj'.step = obj.step
        /\ obj'.status # "Completed"
    BY <1>1, WithErrorFacts, SetProcessErrorFacts DEF StatusLost, Errors
  <1>4. /\ pc' = "finish" /\ faults' \in Nat
        /\ UNCHANGED <<job, cmds, cur, db, registered, made, misread, late, connected>>
    BY DEF StatusLost, GoTo, Fault, IInv, TypeOK
  <1> QED
    BY <1>1, <1>2, <1>3, <1>4, StatusStep

\* A session that existed before its first CHECK is never truly paid: the row
\* would have said so.  What performTransaction() takes for paid is misread.
LEMMA NeverAlreadyPaid ==
  ASSUME IInv, pc = "already", NEW r \in StatusReplies(StateAt)
  PROVE  ~AlreadyPaid(r.result, r.error)
  <1>1. /\ cur \in Payments /\ obj.session \in Sessions /\ StateAt \in SessionStates
        /\ obj.step = "Init"
    BY TalkingFacts DEF Talking, IInv, ThreadInv
  <1>2. StateAt \notin Live
    BY <1>1 DEF IInv, ChargeInv, Busy, MayBeCharged, StateAt
  <1>3. r.state \notin Live
    BY <1>1, <1>2, StatusReplyFacts DEF Live
  <1> QED
    BY <1>1, <1>3, StatusReplyFacts

\* A reply that is not taken for paid only leaves its error.
LEMMA AlreadyReplyStep ==
  ASSUME IInv, pc = "already", NEW r, NEW saved \in BOOLEAN, AlreadyReply(r, saved),
         r \in StatusReplies(StateAt) \/ r \in FaultyStatusReplies(StateAt),
         ~AlreadyPaid(r.result, r.error),
         faults' \in Nat, UNCHANGED <<connected, misread>>
  PROVE  IInv'
  <1>1. /\ cur \in Payments /\ obj \in Rows /\ obj.session \in Sessions
        /\ StateAt \in SessionStates
    BY TalkingFacts DEF Talking
  <1>2. /\ r.state \in SessionStates /\ r.error \in Errors
        /\ r.state = StateAt \/ (StateAt = "checked" /\ r.state = "void")
    BY <1>1, StatusReplyFacts, FaultyReplyFacts
  <1>3. /\ srv' \in [Payments -> [Sessions -> SessionStates]]
        /\ \A p \in Payments : \A n \in Sessions :
              srv'[p][n] = IF p = cur /\ n = obj.session THEN r.state ELSE srv[p][n]
    BY <1>1, <1>2, ServerUpdate DEF AlreadyReply
  <1>4. /\ obj' = WithError(obj, r.error) /\ pc' = "finish"
        /\ UNCHANGED <<job, cmds, cur, db, registered, made, late>>
    BY DEF AlreadyReply, GoTo
  <1>5. /\ obj' \in Rows /\ obj'.session = obj.session /\ obj'.step = obj.step
        /\ obj'.status = obj.status
    BY <1>1, <1>2, <1>4, WithErrorFacts
  <1> QED
    BY <1>1, <1>2, <1>3, <1>4, <1>5, StatusStep

LEMMA AlreadyAnsweredStep ==
  ASSUME IInv, AlreadyAnswered \/ AlreadySaveFails
  PROVE  IInv'
  <1>1. pc = "already" /\ faults' \in Nat /\ UNCHANGED <<connected, misread>>
    <2>1. faults \in Nat
      BY DEF IInv, TypeOK
    <2>2. CASE AlreadyAnswered
      BY <2>1, <2>2 DEF AlreadyAnswered, NoFault, envVars
    <2>3. CASE AlreadySaveFails
      BY <2>1, <2>3 DEF AlreadySaveFails, Fault
    <2> QED
      BY <2>2, <2>3
  <1>2. PICK r \in StatusReplies(StateAt) : AlreadyReply(r, TRUE) \/ AlreadyReply(r, FALSE)
    BY DEF AlreadyAnswered, AlreadySaveFails
  <1> QED
    BY <1>1, <1>2, NeverAlreadyPaid, AlreadyReplyStep

\* An unreadable reply that is taken for paid: nothing is charged, the payment
\* is completed, in the row as well or in the object only, and it is misread.
LEMMA MisreadStep ==
  ASSUME IInv, pc = "already", NEW r \in FaultyStatusReplies(StateAt), NEW saved \in BOOLEAN,
         AlreadyReply(r, saved), AlreadyPaid(r.result, r.error),
         misread' = [misread EXCEPT ![cur] = @ \cup {obj.session}],
         faults' \in Nat, UNCHANGED connected
  PROVE  IInv'
  <1>1. /\ cur \in Payments /\ obj \in Rows /\ obj.session \in Sessions
        /\ obj.session # 0 /\ StateAt \in SessionStates /\ obj.step = "Init"
    BY TalkingFacts DEF Talking, IInv, ThreadInv
  <1>2. r.state = StateAt /\ r.error \in Errors
    BY <1>1, FaultyReplyFacts
  <1>3. srv' = srv
    BY <1>1, <1>2 DEF AlreadyReply, ServerBecomes, StateAt, IInv, TypeOK
  <1>4. /\ obj' \in Rows /\ obj'.session = obj.session /\ obj'.step = "Pay"
        /\ obj'.status = "Completed"
    <2> DEFINE e == IF saved THEN r.error ELSE "DatabaseError"
    <2>1. e \in Errors
      BY <1>2 DEF Errors
    <2>2. obj' = [obj EXCEPT !.step = "Pay", !.status = "Completed", !.error = e]
      BY DEF AlreadyReply
    <2> HIDE DEF e
    <2> QED
      BY <1>1, <2>1, <2>2 DEF Rows, Steps, Statuses
  <1>5. /\ db' \in [Payments -> Rows] /\ db'[cur] \in {db[cur], obj'}
        /\ \A p \in Payments : p # cur => db'[p] = db[p]
    <2>1. db' = [db EXCEPT ![cur] = obj'] \/ db' = db
      BY DEF AlreadyReply
    <2> QED
      BY <1>1, <1>4, <2>1 DEF IInv, TypeOK
  <1>6. pc' = "finish" /\ UNCHANGED <<job, cmds, cur, registered, made, late>>
    BY DEF AlreadyReply, GoTo
  <1>7. /\ misread' \in [Payments -> SUBSET Sessions] /\ obj.session \in misread'[cur]
        /\ \A p \in Payments : misread[p] \subseteq misread'[p]
    BY <1>1 DEF IInv, TypeOK
  <1>8. TypeOK'
    BY <1>3, <1>4, <1>5, <1>6, <1>7 DEF TypeOK, IInv
  <1>9. ThreadInv'
    BY <1>1, <1>4, <1>5, <1>6 DEF ThreadInv, IInv, Busy, Talking
  <1>10. ChargeInv'
    <2>1. \A n \in Sessions : ~MayBeCharged(cur, n)
      BY <1>1 DEF IInv, ChargeInv, Busy
    <2>2. \A p \in Payments : \A n \in Sessions : MayBeCharged(p, n)' <=> MayBeCharged(p, n)
      BY <1>3, <1>6 DEF MayBeCharged
    <2>3. ChargeIsOnRecord'
      BY <1>5, <2>1, <2>2 DEF ChargeIsOnRecord, IInv, ChargeInv
    <2> QED
      BY <1>1, <1>3, <1>6, <2>1, <2>2, <2>3 DEF ChargeInv, IInv, MayBeCharged
  <1>11. CompletedInv'
    <2>1. CompletedWasAccepted'
      BY <1>1, <1>3, <1>4, <1>5, <1>7 DEF CompletedWasAccepted, IInv, CompletedInv
    <2> QED
      BY <1>1, <1>4, <1>6, <1>7, <2>1 DEF CompletedInv
  <1> QED
    BY <1>8, <1>9, <1>10, <1>11 DEF IInv

LEMMA AlreadyFaultyStep ==
  ASSUME IInv, AlreadyFaulty
  PROVE  IInv'
  <1>1. pc = "already" /\ faults' \in Nat /\ UNCHANGED connected
    BY DEF AlreadyFaulty, Fault, IInv, TypeOK
  <1>2. PICK r \in FaultyStatusReplies(StateAt), saved \in BOOLEAN :
          /\ AlreadyReply(r, saved)
          /\ misread' = IF AlreadyPaid(r.result, r.error)
                        THEN [misread EXCEPT ![cur] = @ \cup {obj.session}] ELSE misread
    BY DEF AlreadyFaulty
  <1>3. CASE AlreadyPaid(r.result, r.error)
    BY <1>1, <1>2, <1>3, MisreadStep
  <1>4. CASE ~AlreadyPaid(r.result, r.error)
    BY <1>1, <1>2, <1>4, AlreadyReplyStep
  <1> QED
    BY <1>3, <1>4

LEMMA AlreadyLostStep ==
  ASSUME IInv, AlreadyLost
  PROVE  IInv'
  <1>1. cur \in Payments /\ obj \in Rows /\ obj.session \in Sessions /\ pc = "already"
    BY TalkingFacts DEF AlreadyLost, Talking
  <1>2. PICK state \in SessionStates :
           /\ state = StateAt \/ (StateAt = "checked" /\ state = "void")
           /\ srv' \in [Payments -> [Sessions -> SessionStates]]
           /\ \A p \in Payments : \A n \in Sessions :
                srv'[p][n] = IF p = cur /\ n = obj.session THEN state ELSE srv[p][n]
    BY <1>1, StatusUnheardFacts DEF AlreadyLost
  <1>3. /\ obj' \in Rows /\ obj'.session = obj.session /\ obj'.step = obj.step
        /\ obj'.status = obj.status
    BY <1>1, WithErrorFacts DEF AlreadyLost, Errors
  <1>4. /\ pc' = "finish" /\ faults' \in Nat
        /\ UNCHANGED <<job, cmds, cur, db, registered, made, misread, late, connected>>
    BY DEF AlreadyLost, GoTo, Fault, IInv, TypeOK
  <1> QED
    BY <1>1, <1>2, <1>3, <1>4, StatusStep

LEMMA CommandsLeftFacts ==
  ASSUME IInv
  PROVE  CommandsLeft \in Seq(Commands)
  <1>1. job # "queue" => Tail(cmds) \in Seq(Commands)
    BY FirstCommand DEF IInv, ThreadInv
  <1> QED
    BY <1>1 DEF CommandsLeft, IInv, TypeOK

LEMMA FinishStep ==
  ASSUME IInv, Finish
  PROVE  IInv'
  <1>1. cur \in Payments /\ pc = "finish"
    BY DEF Finish, IInv, ThreadInv, Busy
  <1>2. /\ db' \in [Payments -> Rows] /\ db'[cur] = obj
        /\ \A p \in Payments : p # cur => db'[p] = db[p]
    BY <1>1, SaveRowFacts DEF Finish
  <1>3. /\ pc' = "commands" /\ job' = "queue" /\ cmds' \in Seq(Commands)
        /\ UNCHANGED <<cur, obj, registered, made, misread, srv, late, connected, faults>>
    BY CommandsLeftFacts DEF Finish, netVars, envVars
  <1>4. TypeOK'
    BY <1>2, <1>3 DEF TypeOK, IInv
  <1>5. ThreadInv'
    BY <1>1, <1>2, <1>3 DEF ThreadInv, IInv, Busy, Talking
  <1>6. ChargeInv'
    BY <1>1, <1>2, <1>3 DEF ChargeInv, IInv, ChargeIsOnRecord, MayBeCharged, Busy
  <1>7. CompletedInv'
    BY <1>1, <1>2, <1>3 DEF CompletedInv, IInv, CompletedWasAccepted, Busy
  <1> QED
    BY <1>4, <1>5, <1>6, <1>7 DEF IInv

LEMMA FinishSaveFailsStep ==
  ASSUME IInv, FinishSaveFails
  PROVE  IInv'
  <1>1. /\ pc' = "commands" /\ job' = "queue" /\ cmds' \in Seq(Commands) /\ faults' \in Nat
        /\ UNCHANGED <<db, cur, obj, registered, made, misread, srv, late, connected>>
    BY CommandsLeftFacts DEF FinishSaveFails, netVars, Fault, IInv, TypeOK
  <1>2. TypeOK'
    BY <1>1 DEF TypeOK, IInv
  <1>3. ThreadInv'
    BY <1>1 DEF ThreadInv, IInv, Busy, Talking
  <1>4. ChargeInv'
    BY <1>1 DEF ChargeInv, IInv, ChargeIsOnRecord, MayBeCharged, Busy
  <1>5. CompletedInv'
    BY <1>1 DEF CompletedInv, IInv, CompletedWasAccepted, Busy
  <1> QED
    BY <1>2, <1>3, <1>4, <1>5 DEF IInv

\* remove(): whatever the answer, step and session stay on record.
LEMMA RemoveReplyStep ==
  ASSUME IInv, pc = "removing", NEW r, RemoveReply(r),
         r \in StatusReplies(StateAt) \/ r \in FaultyStatusReplies(StateAt),
         faults' \in Nat, UNCHANGED connected
  PROVE  IInv'
  <1>1. /\ cur \in Payments /\ obj \in Rows /\ obj.session \in Sessions
        /\ StateAt \in SessionStates /\ cmds # <<>>
    BY TalkingFacts DEF Talking, IInv, ThreadInv
  <1>2. /\ r.state \in SessionStates /\ r.error \in Errors
        /\ r.state = StateAt \/ (StateAt = "checked" /\ r.state = "void")
    BY <1>1, StatusReplyFacts, FaultyReplyFacts
  <1>3. /\ srv' \in [Payments -> [Sessions -> SessionStates]]
        /\ \A p \in Payments : \A n \in Sessions :
              srv'[p][n] = IF p = cur /\ n = obj.session THEN r.state ELSE srv[p][n]
    BY <1>1, <1>2, ServerUpdate DEF RemoveReply
  <1>4. UNCHANGED <<db, cur, registered, made, misread, late>>
    BY DEF RemoveReply
  <1>5. CASE Removable(r.result, r.error)
    <2> DEFINE w == WithError(obj, r.error)
    <2>1. w \in Rows /\ w.session = obj.session /\ w.step = obj.step
      BY <1>1, <1>2, WithErrorFacts
    <2>2. obj' = [w EXCEPT !.status = "Deleted"] /\ pc' = "finish" /\ UNCHANGED <<job, cmds>>
      BY <1>5 DEF RemoveReply
    <2> HIDE DEF w
    <2>3. /\ obj' \in Rows /\ obj'.session = obj.session /\ obj'.step = obj.step
          /\ obj'.status # "Completed"
      BY <2>1, <2>2 DEF Rows, Statuses
    <2> QED
      BY <1>1, <1>2, <1>3, <1>4, <2>2, <2>3, StatusStep
  <1>6. CASE ~Removable(r.result, r.error)
    <2>1. obj' = obj /\ pc' = "commands" /\ job' = "queue" /\ cmds' \in Seq(Commands)
      BY <1>1, <1>6, FirstCommand DEF RemoveReply, IInv
    <2> QED
      BY <1>1, <1>2, <1>3, <1>4, <2>1, StatusStep
  <1> QED
    BY <1>5, <1>6

LEMMA RemoveHeardStep ==
  ASSUME IInv, RemoveAnswered \/ RemoveFaulty
  PROVE  IInv'
  <1>1. /\ pc = "removing" /\ faults' \in Nat /\ UNCHANGED connected
        /\ \E r : /\ RemoveReply(r)
                  /\ r \in StatusReplies(StateAt) \/ r \in FaultyStatusReplies(StateAt)
    BY DEF RemoveAnswered, RemoveFaulty, NoFault, Fault, envVars, IInv, TypeOK
  <1> QED
    BY <1>1, RemoveReplyStep

LEMMA RemoveLostStep ==
  ASSUME IInv, RemoveLost
  PROVE  IInv'
  <1>1. /\ cur \in Payments /\ obj \in Rows /\ obj.session \in Sessions
        /\ pc = "removing" /\ cmds # <<>>
    BY TalkingFacts DEF RemoveLost, Talking, IInv, ThreadInv
  <1>2. PICK state \in SessionStates :
           /\ state = StateAt \/ (StateAt = "checked" /\ state = "void")
           /\ srv' \in [Payments -> [Sessions -> SessionStates]]
           /\ \A p \in Payments : \A n \in Sessions :
                srv'[p][n] = IF p = cur /\ n = obj.session THEN state ELSE srv[p][n]
    BY <1>1, StatusUnheardFacts DEF RemoveLost
  <1>3. /\ pc' = "commands" /\ job' = "queue" /\ cmds' \in Seq(Commands) /\ faults' \in Nat
        /\ UNCHANGED <<obj, cur, db, registered, made, misread, late, connected>>
    BY <1>1, FirstCommand DEF RemoveLost, Fault, IInv, TypeOK
  <1> QED
    BY <1>1, <1>2, <1>3, StatusStep

LEMMA CommandsDoneStep ==
  ASSUME IInv, CommandsDone
  PROVE  IInv'
  BY IdleStep DEF CommandsDone, netVars, envVars, IInv, TypeOK

LEMMA CrashStep ==
  ASSUME IInv, Crash
  PROVE  IInv'
  BY IdleStep DEF Crash, Fault, netVars, IInv, TypeOK

-----------------------------------------------------------------------------
\* The surroundings.

LEMMA RegisterStep ==
  ASSUME IInv, NEW kind \in {"force", "remove"}, NEW p \in Payments, Register(kind, p)
  PROVE  IInv'
  <1>1. [kind |-> kind, payment |-> p] \in Commands
    BY DEF Commands
  <1>2. cmds' \in Seq(Commands) /\ cmds' # <<>> /\ registered' \in Nat
    BY <1>1 DEF Register, IInv, TypeOK
  <1>3. UNCHANGED <<db, pc, job, cur, obj, made, misread, srv, late, connected, faults>>
    BY DEF Register, threadVars, netVars, envVars
  <1>4. TypeOK'
    BY <1>2, <1>3 DEF TypeOK, IInv
  <1>5. ThreadInv'
    BY <1>2, <1>3 DEF ThreadInv, IInv, Busy, Talking
  <1>6. ChargeInv'
    BY <1>3 DEF ChargeInv, IInv, ChargeIsOnRecord, MayBeCharged, Busy
  <1>7. CompletedInv'
    BY <1>3 DEF CompletedInv, IInv, CompletedWasAccepted, Busy
  <1> QED
    BY <1>4, <1>5, <1>6, <1>7 DEF IInv

LEMMA NextTryDatePassesStep ==
  ASSUME IInv, NEW p \in Payments, NextTryDatePasses(p)
  PROVE  IInv'
  <1>1. /\ db' \in [Payments -> Rows]
        /\ \A q \in Payments : /\ db'[q].step = db[q].step /\ db'[q].session = db[q].session
                               /\ db'[q].status = db[q].status
    BY DEF NextTryDatePasses, IInv, TypeOK, Rows
  <1>2. UNCHANGED <<pc, job, cur, obj, cmds, registered, made, misread, srv, late, connected, faults>>
    BY DEF NextTryDatePasses, threadVars, netVars, envVars
  <1>3. TypeOK'
    BY <1>1, <1>2 DEF TypeOK, IInv
  <1>4. ThreadInv'
    BY <1>1, <1>2 DEF ThreadInv, IInv, Busy, Talking
  <1>5. ChargeInv'
    BY <1>1, <1>2 DEF ChargeInv, IInv, ChargeIsOnRecord, MayBeCharged, Busy, ThreadInv
  <1>6. CompletedInv'
    BY <1>1, <1>2 DEF CompletedInv, IInv, CompletedWasAccepted, Busy
  <1> QED
    BY <1>3, <1>4, <1>5, <1>6 DEF IInv

\* The gateway moves on by itself: it charges only what may be charged, and
\* never forgets a session or that it accepted one.
LEMMA GatewayStep ==
  ASSUME IInv,
         srv' \in [Payments -> [Sessions -> SessionStates]],
         late' \in [Payments -> SUBSET Sessions],
         \A p \in Payments : late'[p] \subseteq late[p],
         \A p \in Payments : \A n \in Sessions :
           /\ srv[p][n] # "none" => srv'[p][n] # "none"
           /\ srv[p][n] \in Accepted => srv'[p][n] \in Accepted
           /\ MayBeCharged(p, n)' => MayBeCharged(p, n),
         UNCHANGED <<db, pc, job, cur, obj, cmds, registered, made, misread, connected, faults>>
  PROVE  IInv'
  <1>1. TypeOK'
    BY DEF TypeOK, IInv
  <1>2. ThreadInv'
    BY DEF ThreadInv, IInv
  <1>3. \A n \in Sessions : pc \in Busy /\ MayBeCharged(cur, n)' => MayBeCharged(cur, n)
    BY DEF IInv, ThreadInv
  <1>4. ChargeInv'
    <2>1. ChargeIsOnRecord'
      BY DEF ChargeIsOnRecord, IInv, ChargeInv
    <2>2. pc' \in Busy => \A n \in Sessions :
            MayBeCharged(cur, n)' => obj'.step = "Pay" /\ obj'.session = n
      BY <1>3 DEF IInv, ChargeInv
    <2>3. pc' \in {"saving", "pay"} => srv'[cur][obj.session] # "none"
      BY TalkingFacts DEF IInv, ChargeInv, Talking
    <2>4. \A p \in Payments : \A n \in late'[p] : srv'[p][n] # "none"
      BY DEF IInv, ChargeInv, TypeOK
    <2> QED
      BY <2>1, <2>2, <2>3, <2>4 DEF ChargeInv, IInv, MayBeCharged
  <1>5. CompletedInv'
    <2>1. \A p \in Payments : db[p].session \in 0..MaxSessions
      BY DEF IInv, TypeOK, Rows
    <2>2. CompletedWasAccepted'
      BY <2>1, BoundsAssumption DEF CompletedWasAccepted, IInv, CompletedInv, Sessions
    <2>3. pc \in Busy => cur \in Payments /\ obj.session \in 0..MaxSessions
      BY DEF IInv, TypeOK, ThreadInv, Rows
    <2> QED
      BY <2>2, <2>3, BoundsAssumption DEF CompletedInv, IInv, Sessions
  <1> QED
    BY <1>1, <1>2, <1>4, <1>5 DEF IInv

LEMMA LatePayStep ==
  ASSUME IInv, NEW p \in Payments, NEW n \in Sessions, LatePay(p, n)
  PROVE  IInv'
  <1>1. PICK r \in PayReplies(srv[p][n]) : srv' = [srv EXCEPT ![p][n] = r.state]
    BY DEF LatePay
  <1>2. /\ r.state \in SessionStates
        /\ r.state # srv[p][n] => srv[p][n] = "checked" /\ r.state # "none"
        /\ srv[p][n] \in Accepted => r.state \in Accepted
    BY PayReplyFacts DEF IInv, TypeOK
  <1>3. /\ srv' \in [Payments -> [Sessions -> SessionStates]]
        /\ \A q \in Payments : \A m \in Sessions :
             srv'[q][m] = IF q = p /\ m = n THEN r.state ELSE srv[q][m]
    BY <1>1, <1>2 DEF IInv, TypeOK
  <1>4. /\ n \in late[p] /\ late' \in [Payments -> SUBSET Sessions]
        /\ \A q \in Payments : late'[q] \subseteq late[q]
        /\ UNCHANGED <<db, pc, job, cur, obj, cmds, registered, made, misread, connected, faults>>
    BY DEF LatePay, threadVars, envVars, IInv, TypeOK
  <1>5. \A q \in Payments : \A m \in Sessions :
           /\ srv[q][m] # "none" => srv'[q][m] # "none"
           /\ srv[q][m] \in Accepted => srv'[q][m] \in Accepted
           /\ MayBeCharged(q, m)' => MayBeCharged(q, m)
    BY <1>2, <1>3, <1>4 DEF MayBeCharged
  <1> QED
    BY <1>3, <1>4, <1>5, GatewayStep

LEMMA OperatorAnswersStep ==
  ASSUME IInv, NEW p \in Payments, NEW n \in Sessions, OperatorAnswers(p, n)
  PROVE  IInv'
  <1>1. PICK s \in {"done", "failed"} : srv' = [srv EXCEPT ![p][n] = s]
    BY DEF OperatorAnswers
  <1>2. /\ srv' \in [Payments -> [Sessions -> SessionStates]]
        /\ \A q \in Payments : \A m \in Sessions :
             srv'[q][m] = IF q = p /\ m = n THEN s ELSE srv[q][m]
    BY <1>1 DEF IInv, TypeOK, SessionStates
  <1>3. /\ srv[p][n] = "waiting" /\ late' \in [Payments -> SUBSET Sessions] /\ UNCHANGED late
        /\ UNCHANGED <<db, pc, job, cur, obj, cmds, registered, made, misread, connected, faults>>
    BY DEF OperatorAnswers, threadVars, envVars, IInv, TypeOK
  <1>4. \A q \in Payments : \A m \in Sessions :
           /\ srv[q][m] # "none" => srv'[q][m] # "none"
           /\ srv[q][m] \in Accepted => srv'[q][m] \in Accepted
           /\ MayBeCharged(q, m)' => MayBeCharged(q, m)
    BY <1>2, <1>3 DEF MayBeCharged, Live, Accepted
  <1> QED
    BY <1>2, <1>3, <1>4, GatewayStep

LEMMA ConnectionStep ==
  ASSUME IInv, Connect \/ Disconnect
  PROVE  IInv'
  <1>1. connected' \in BOOLEAN
    BY DEF Connect, Disconnect
  <1>2. faults' \in Nat
    BY DEF Connect, Disconnect, IInv, TypeOK
  <1>3. UNCHANGED <<db, pc, job, cur, obj, cmds, registered, made, misread, srv, late>>
    BY DEF Connect, Disconnect, threadVars, netVars
  <1>4. TypeOK'
    BY <1>1, <1>2, <1>3 DEF IInv, TypeOK
  <1>5. ThreadInv' /\ ChargeInv' /\ CompletedInv'
    BY <1>3 DEF IInv, ThreadInv, ChargeInv, CompletedInv, ChargeIsOnRecord, MayBeCharged,
                CompletedWasAccepted
  <1> QED
    BY <1>4, <1>5 DEF IInv

LEMMA StutterStep ==
  ASSUME IInv, UNCHANGED vars
  PROVE  IInv'
  BY DEF vars, threadVars, netVars, envVars, IInv, TypeOK, ThreadInv, ChargeInv, CompletedInv,
         ChargeIsOnRecord, MayBeCharged, CompletedWasAccepted, StateAt

-----------------------------------------------------------------------------
\* The theorems.

LEMMA InitInv == Init => IInv
  <1> SUFFICES ASSUME Init PROVE IInv
    OBVIOUS
  <1>1. /\ \A p \in Payments : db[p] \in Rows /\ db[p].step = "Init" /\ db[p].status # "Completed"
        /\ db \in [Payments -> Rows]
        /\ obj \in Rows /\ obj.step = "Init"
    BY NewRowFacts DEF Init, NoObject, Statuses, Queued
  <1>2. /\ srv = [p \in Payments |-> [n \in Sessions |-> "none"]]
        /\ late = [p \in Payments |-> {}] /\ misread = [p \in Payments |-> {}]
        /\ made = [p \in Payments |-> 1]
        /\ pc = "idle" /\ job = "queue" /\ cur = None /\ cmds = <<>>
        /\ registered = 0 /\ connected = TRUE /\ faults = 0
    BY DEF Init
  <1>3. TypeOK
    BY <1>1, <1>2, BoundsAssumption DEF TypeOK, SessionStates, Sessions
  <1>4. ThreadInv
    BY <1>1, <1>2 DEF ThreadInv, Busy, Talking
  <1>5. ChargeInv
    BY <1>2 DEF ChargeInv, ChargeIsOnRecord, MayBeCharged, Live, Busy
  <1>6. CompletedInv
    BY <1>1, <1>2 DEF CompletedInv, CompletedWasAccepted, Busy
  <1> QED
    BY <1>3, <1>4, <1>5, <1>6 DEF IInv

LEMMA NextInv == IInv /\ [Next]_vars => IInv'
  <1> SUFFICES ASSUME IInv, [Next]_vars PROVE IInv'
    OBVIOUS
  <1>1. CASE Tick
    BY <1>1, TakePaymentStep, NothingToTakeStep DEF Tick
  <1>2. CASE Command
    BY <1>2, RunForceStep, RunRemoveStep, CommandsDoneStep DEF Command
  <1>3. CASE StartSession
    BY <1>3, StartSessionStep
  <1>4. CASE Request
    BY <1>4, CheckAnsweredStep, PayAnsweredStep, StatusHeardStep, AlreadyAnsweredStep, RemoveHeardStep
    DEF Request
  <1>5. CASE LostRequest
    BY <1>5, CheckLostStep, PayLostStep, StatusLostStep, AlreadyLostStep, RemoveLostStep
    DEF LostRequest
  <1>6. CASE FaultyReply
    BY <1>6, StatusHeardStep, AlreadyFaultyStep, RemoveHeardStep DEF FaultyReply
  <1>7. CASE Save \/ FailedSave
    BY <1>7, SaveBeforePayStep, FinishStep, SaveBeforePayFailsStep, AlreadyAnsweredStep,
       FinishSaveFailsStep
    DEF Save, FailedSave
  <1>8. CASE Environment
    BY <1>8, RegisterStep, NextTryDatePassesStep, LatePayStep, OperatorAnswersStep, ConnectionStep
    DEF Environment
  <1>9. CASE Crash
    BY <1>9, CrashStep
  <1>10. CASE UNCHANGED vars
    BY <1>10, StutterStep
  <1> QED
    BY <1>1, <1>2, <1>3, <1>4, <1>5, <1>6, <1>7, <1>8, <1>9, <1>10 DEF Next, Thread, Processing

\* The invariant holds in every reachable state.
THEOREM Invariance == Spec => []IInv
  BY InitInv, NextInv, PTL DEF Spec

\* Type correctness of the payment thread, its row, object and commands.
THEOREM TypeCorrect == Spec => []TypeOK
  BY Invariance, PTL DEF IInv

\* The row always names the session that is, or may still be, charged.
THEOREM RecordTheorem == Spec => []ChargeIsOnRecord
  <1>1. IInv => ChargeIsOnRecord
    BY DEF IInv, ChargeInv
  <1> QED
    BY <1>1, Invariance, PTL

\* No payment is ever charged twice: two charges would be in the same row.
THEOREM ChargedOnceTheorem == Spec => []NeverChargedTwice
  <1>1. IInv => NeverChargedTwice
    BY DEF IInv, ChargeInv, ChargeIsOnRecord, MayBeCharged, NeverChargedTwice
  <1> QED
    BY <1>1, Invariance, PTL

\* A payment recorded as Completed was accepted by the gateway, or the STATUS of
\* the very session on record was taken for paid unread (Payment.cpp:402).
THEOREM CompletedTheorem == Spec => []CompletedWasAccepted
  <1>1. IInv => CompletedWasAccepted
    BY DEF IInv, CompletedInv
  <1> QED
    BY <1>1, Invariance, PTL

\* A new session is started only when no earlier one can be charged any more:
\* the thread starts it with step Init, and then nothing is on record.
THEOREM NewSessionTheorem == Spec => NewSessionIsSafe
  <1> DEFINE Safe == \A p \in Payments :
                       made'[p] # made[p] => \A n \in Sessions : ~MayBeCharged(p, n)
  <1>1. ASSUME IInv, StartSession PROVE Safe
    <2>1. cur \in Payments /\ \A n \in Sessions : ~MayBeCharged(cur, n)
      BY <1>1 DEF IInv, ThreadInv, ChargeInv, StartSession, Busy
    <2>2. \A p \in Payments : p # cur => made'[p] = made[p]
      BY <1>1 DEF StartSession, IInv, TypeOK
    <2> QED
      BY <2>1, <2>2
  <1>2. ASSUME [Next]_vars, ~StartSession PROVE UNCHANGED made
    BY <1>2 DEF Next, Thread, Tick, Processing, Command, Request, LostRequest, FaultyReply, Save,
       FailedSave, Environment, TakePayment, NothingToTake, RunForce, RunRemove, CommandsDone,
       CheckAnswered, CheckLost, SaveBeforePay, SaveBeforePayFails, PayAnswered, PayLost,
       StatusAnswered, StatusFaulty, StatusLost, AfterStatusReply, AlreadyReply, AlreadyAnswered,
       AlreadySaveFails, AlreadyFaulty, AlreadyLost, Finish, FinishSaveFails, RemoveReply, RemoveAnswered, RemoveFaulty, RemoveLost, Register,
       NextTryDatePasses, LatePay, OperatorAnswers, Connect, Disconnect, Crash, vars
  <1>3. IInv /\ [Next]_vars => [Safe]_vars
    BY <1>1, <1>2
  <1> QED
    BY <1>3, Invariance, PTL DEF Spec, NewSessionIsSafe

-----------------------------------------------------------------------------
\* Refinement: every step of the thread is a step of the ledger, or none.

Held     == [p \in Payments |-> {n \in Sessions : srv[p][n] \in Live}]
Granted  == [p \in Payments |-> {n \in Sessions : srv[p][n] \in Accepted}]
Reported == [p \in Payments |-> Outcome(db[p].status)]

LedgerStep == [Ledger!LNext]_<<Held, Granted, Reported, misread>>

\* A change of one session at the gateway.
LEMMA GatewayIsLedger ==
  ASSUME IInv, NEW p \in Payments, NEW n \in Sessions, NEW state \in SessionStates,
         \A q \in Payments : \A m \in Sessions :
           srv'[q][m] = IF q = p /\ m = n THEN state ELSE srv[q][m],
         UNCHANGED <<db, misread>>,
         \/ state = srv[p][n]
         \/ srv[p][n] \in {"none", "checked"} /\ state \in {"checked", "void"}
         \/ srv[p][n] = "checked" /\ \A m \in Sessions : srv[p][m] \notin Live
         \/ srv[p][n] = "waiting" /\ state \in {"done", "failed"}
  PROVE  LedgerStep
  <1>1. Reported' = Reported
    BY DEF Reported
  <1>2. CASE \/ state = srv[p][n]
             \/ srv[p][n] \in {"none", "checked"} /\ state \in {"none", "checked", "void"}
             \/ srv[p][n] = "waiting" /\ state = "done"
    <2>1. Held' = Held /\ Granted' = Granted
      BY <1>2 DEF Held, Granted, Live, Accepted
    <2> QED
      BY <1>1, <2>1 DEF LedgerStep
  <1>3. CASE srv[p][n] = "checked" /\ (\A m \in Sessions : srv[p][m] \notin Live) /\ state \in Accepted
    <2>1. Held[p] = {} /\ n \notin Granted[p]
      BY <1>3 DEF Held, Granted, Accepted
    <2>2. Granted' = [Granted EXCEPT ![p] = @ \cup {n}]
      <3>1. \A q \in Payments : q # p => Granted'[q] = Granted[q]
        BY DEF Granted
      <3>2. Granted'[p] = Granted[p] \cup {n}
        BY <1>3 DEF Granted
      <3> QED
        BY <3>1, <3>2 DEF Granted
    <2>3. \E h \in {{}, {n}} : Held' = [Held EXCEPT ![p] = h]
      <3>1. CASE state = "failed"
        <4>1. Held' = [Held EXCEPT ![p] = {}]
          BY ZenonT(30), <1>3, <3>1 DEF Held, Live
        <4> QED
          BY <4>1
      <3>2. CASE state # "failed"
        <4>1. Held' = [Held EXCEPT ![p] = {n}]
          BY ZenonT(30), <1>3, <3>2 DEF Held, Live, Accepted
        <4> QED
          BY <4>1
      <3> QED
        BY <3>1, <3>2
    <2>4. Ledger!Charge(p, n)
      BY <1>1, <2>1, <2>2, <2>3 DEF Ledger!Charge, Held, Granted, Reported
    <2> QED
      BY <2>4 DEF LedgerStep, Ledger!LNext
  <1>4. CASE srv[p][n] = "waiting" /\ state = "failed"
    <2>1. \A m \in Sessions : srv[p][m] \in Live => m = n
      BY <1>4 DEF IInv, ChargeInv, ChargeIsOnRecord, MayBeCharged, Live
    <2>2. Held[p] # {}
      BY <1>4 DEF Held, Live
    <2>3. Held' = [Held EXCEPT ![p] = {}]
      <3>1. \A q \in Payments : q # p => Held'[q] = Held[q]
        BY DEF Held
      <3>2. Held'[p] = {}
        BY <1>4, <2>1 DEF Held, Live
      <3> QED
        BY <3>1, <3>2 DEF Held
    <2>4. Granted' = Granted
      BY <1>4 DEF Granted, Accepted
    <2>5. Ledger!Release(p)
      BY <1>1, <2>2, <2>3, <2>4 DEF Ledger!Release, Held, Granted, Reported
    <2> QED
      BY <2>5 DEF LedgerStep, Ledger!LNext
  <1> QED
    BY <1>2, <1>3, <1>4 DEF SessionStates, Accepted

\* A change of one row.
LEMMA SaveIsLedger ==
  ASSUME IInv, IInv', NEW p \in Payments, UNCHANGED <<srv, misread>>,
         \A q \in Payments : q # p => db'[q] = db[q]
  PROVE  LedgerStep
  <1>1. Held' = Held /\ Granted' = Granted
    BY DEF Held, Granted
  <1>2. Reported' = [Reported EXCEPT ![p] = Outcome(db'[p].status)]
    BY DEF Reported
  <1>3. Outcome(db'[p].status) \in {"open", "completed", "closed"}
    BY DEF Outcome
  <1>4. Outcome(db'[p].status) = "completed" => Granted[p] \cup misread[p] # {}
    <2> SUFFICES ASSUME Outcome(db'[p].status) = "completed" PROVE Granted[p] \cup misread[p] # {}
      OBVIOUS
    <2>1. db'[p].status = "Completed"
      BY DEF Outcome
    <2>2. /\ db'[p].session # 0
          /\ srv[p][db'[p].session] \in Accepted \/ db'[p].session \in misread[p]
      BY <2>1 DEF IInv, CompletedInv, CompletedWasAccepted
    <2>3. db'[p].session \in Sessions
      <3>1. db' \in [Payments -> Rows]
        BY DEF IInv, TypeOK
      <3>2. db'[p].session \in 0..MaxSessions
        BY <3>1 DEF Rows
      <3> QED
        BY <2>2, <3>2, BoundsAssumption DEF Sessions
    <2> QED
      BY <2>2, <2>3 DEF Granted
  <1>5. Ledger!Report(p, Outcome(db'[p].status))
    BY <1>1, <1>2, <1>4 DEF Ledger!Report, Held, Granted, Reported
  <1> QED
    BY <1>3, <1>5 DEF LedgerStep, Ledger!LNext

LEMMA NothingIsLedger ==
  ASSUME UNCHANGED <<db, srv, misread>>
  PROVE  LedgerStep
  BY DEF LedgerStep, Held, Granted, Reported

\* A request of the thread, as the gateway handles it.
LEMMA ServerIsLedger ==
  ASSUME IInv, cur \in Payments, obj.session \in Sessions, UNCHANGED <<db, misread>>,
         NEW state \in SessionStates, ServerBecomes(state),
         \/ state = StateAt
         \/ StateAt \in {"none", "checked"} /\ state \in {"checked", "void"}
         \/ StateAt = "checked" /\ \A m \in Sessions : srv[cur][m] \notin Live
  PROVE  LedgerStep
  <1>1. \A p \in Payments : \A n \in Sessions :
          srv'[p][n] = IF p = cur /\ n = obj.session THEN state ELSE srv[p][n]
    BY ServerUpdate
  <1> QED
    BY <1>1, GatewayIsLedger DEF StateAt

LEMMA CheckIsLedger ==
  ASSUME IInv, CheckAnswered \/ CheckLost
  PROVE  LedgerStep
  <1>1. /\ cur \in Payments /\ obj.session \in Sessions /\ StateAt \in SessionStates
        /\ UNCHANGED <<db, misread>>
        /\ \/ UNCHANGED srv
           \/ \E r \in CheckReplies(StateAt) : ServerBecomes(r.state)
    BY TalkingFacts DEF CheckAnswered, CheckLost, Talking
  <1>2. CASE UNCHANGED srv
    BY <1>1, <1>2, NothingIsLedger
  <1>3. CASE \E r \in CheckReplies(StateAt) : ServerBecomes(r.state)
    <2>1. PICK r \in CheckReplies(StateAt) : ServerBecomes(r.state)
      BY <1>3
    <2>2. r.state \in SessionStates /\ (r.state = StateAt \/ (StateAt = "none" /\ r.state = "checked"))
      BY <1>1, CheckReplyFacts
    <2> QED
      BY <1>1, <2>1, <2>2, ServerIsLedger
  <1> QED
    BY <1>1, <1>2, <1>3

\* A session that a PAY may still charge is the only one: none is charged yet.
LEMMA NoneIsLive ==
  ASSUME IInv, NEW p \in Payments, NEW n \in Sessions,
         \/ n \in late[p] /\ srv[p][n] = "checked"
         \/ db[p].step = "Pay" /\ db[p].session = n /\ srv[p][n] = "checked"
  PROVE  \A m \in Sessions : srv[p][m] \notin Live
  BY DEF IInv, ChargeInv, ChargeIsOnRecord, MayBeCharged, Live

LEMMA PayIsLedger ==
  ASSUME IInv, PayAnswered \/ PayLost
  PROVE  LedgerStep
  <1>1. /\ cur \in Payments /\ obj.session \in Sessions /\ StateAt \in SessionStates
        /\ UNCHANGED <<db, misread>>
        /\ \/ UNCHANGED srv
           \/ \E r \in PayReplies(StateAt) : ServerBecomes(r.state)
    BY TalkingFacts DEF PayAnswered, PayLost, Talking, netVars
  <1>2. CASE UNCHANGED srv
    BY <1>1, <1>2, NothingIsLedger
  <1>3. CASE \E r \in PayReplies(StateAt) : ServerBecomes(r.state)
    <2>1. PICK r \in PayReplies(StateAt) : ServerBecomes(r.state)
      BY <1>3
    <2>2. r.state \in SessionStates /\ (r.state # StateAt => StateAt = "checked")
      BY <1>1, PayReplyFacts
    <2>3. db[cur].step = "Pay" /\ db[cur].session = obj.session
      BY DEF PayAnswered, PayLost, IInv, ChargeInv
    <2>4. StateAt = "checked" => \A m \in Sessions : srv[cur][m] \notin Live
      BY <1>1, <2>3, NoneIsLive DEF StateAt
    <2> QED
      BY <1>1, <2>1, <2>2, <2>4, ServerIsLedger
  <1> QED
    BY <1>1, <1>2, <1>3

LEMMA StatusIsLedger ==
  ASSUME IInv,
         \/ StatusAnswered \/ StatusFaulty \/ StatusLost
         \/ AlreadyAnswered \/ AlreadySaveFails \/ AlreadyLost
         \/ RemoveAnswered \/ RemoveFaulty \/ RemoveLost
  PROVE  LedgerStep
  <1>1. /\ cur \in Payments /\ obj.session \in Sessions /\ StateAt \in SessionStates
    BY TalkingFacts DEF StatusAnswered, StatusFaulty, StatusLost, AlreadyAnswered, AlreadySaveFails,
       AlreadyLost, RemoveAnswered, RemoveFaulty, RemoveLost, Talking
  <1>2. UNCHANGED <<db, misread>>
    <2>1. CASE AlreadyAnswered \/ AlreadySaveFails
      BY <1>1, <2>1, NeverAlreadyPaid DEF AlreadyAnswered, AlreadySaveFails, AlreadyReply
    <2> QED
      BY <2>1 DEF StatusAnswered, StatusFaulty, StatusLost, AlreadyLost, AfterStatusReply,
         RemoveAnswered, RemoveFaulty, RemoveLost, RemoveReply
  <1>3. \/ UNCHANGED srv
        \/ \E r \in StatusReplies(StateAt) \cup FaultyStatusReplies(StateAt) : ServerBecomes(r.state)
    BY DEF StatusAnswered, StatusFaulty, StatusLost, AlreadyAnswered, AlreadySaveFails, AlreadyLost,
       AlreadyReply, StatusUnheard, AfterStatusReply, RemoveAnswered, RemoveFaulty, RemoveLost, RemoveReply
  <1>4. CASE UNCHANGED srv
    BY <1>2, <1>4, NothingIsLedger
  <1>5. CASE \E r \in StatusReplies(StateAt) \cup FaultyStatusReplies(StateAt) : ServerBecomes(r.state)
    <2>1. PICK r \in StatusReplies(StateAt) \cup FaultyStatusReplies(StateAt) : ServerBecomes(r.state)
      BY <1>5
    <2>2. r.state \in SessionStates /\ (r.state = StateAt \/ (StateAt = "checked" /\ r.state = "void"))
      BY <1>1, StatusReplyFacts, FaultyReplyFacts
    <2> QED
      BY <1>1, <1>2, <2>1, <2>2, ServerIsLedger
  <1> QED
    BY <1>3, <1>4, <1>5

\* The one step that takes an unread answer for "paid" is the ledger's.
LEMMA MisreadIsLedger ==
  ASSUME IInv, AlreadyFaulty
  PROVE  LedgerStep
  <1>1. cur \in Payments /\ obj.session \in Sessions /\ StateAt \in SessionStates
    BY TalkingFacts DEF AlreadyFaulty, Talking
  <1>2. PICK r \in FaultyStatusReplies(StateAt), saved \in BOOLEAN :
          /\ AlreadyReply(r, saved)
          /\ misread' = IF AlreadyPaid(r.result, r.error)
                        THEN [misread EXCEPT ![cur] = @ \cup {obj.session}] ELSE misread
    BY DEF AlreadyFaulty
  <1>3. UNCHANGED srv
    BY <1>1, <1>2, FaultyReplyFacts DEF AlreadyReply, ServerBecomes, StateAt, IInv, TypeOK
  <1>4. CASE ~AlreadyPaid(r.result, r.error)
    BY <1>2, <1>3, <1>4, NothingIsLedger DEF AlreadyReply
  <1>5. CASE AlreadyPaid(r.result, r.error)
    <2>1. misread' = [misread EXCEPT ![cur] = @ \cup {obj.session}]
      BY <1>2, <1>5
    <2>2. Held' = Held /\ Granted' = Granted
      BY <1>3 DEF Held, Granted
    <2>3. obj'.status = "Completed"
      BY <1>1, <1>2, <1>5 DEF AlreadyReply, IInv, TypeOK, Rows
    <2>4. db' = db \/ db' = [db EXCEPT ![cur] = obj']
      BY <1>2, <1>5 DEF AlreadyReply
    <2>5. \E o \in {Reported[cur], "completed"} : Reported' = [Reported EXCEPT ![cur] = o]
      <3>1. CASE db' = db
        BY <3>1 DEF Reported
      <3>2. CASE db' = [db EXCEPT ![cur] = obj']
        <4>1. \A p \in Payments : db'[p] = IF p = cur THEN obj' ELSE db[p]
          BY <3>2 DEF IInv, TypeOK
        <4>2. Outcome(obj'.status) = "completed"
          BY <2>3 DEF Outcome, Queued
        <4>3. Reported' = [Reported EXCEPT ![cur] = "completed"]
          BY <1>1, <4>1, <4>2 DEF Reported
        <4> QED
          BY <4>3
      <3> QED
        BY <2>4, <3>1, <3>2
    <2>6. Ledger!Misread(cur, obj.session)
      BY <2>1, <2>2, <2>5 DEF Ledger!Misread, Held, Granted, Reported
    <2> QED
      BY <1>1, <2>6 DEF LedgerStep, Ledger!LNext
  <1> QED
    BY <1>4, <1>5

LEMMA EnvironmentIsLedger ==
  ASSUME IInv, IInv', Environment
  PROVE  LedgerStep
  <1>1. ASSUME NEW p \in Payments, NEW n \in Sessions, LatePay(p, n) PROVE LedgerStep
    <2>1. PICK r \in PayReplies(srv[p][n]) : srv' = [srv EXCEPT ![p][n] = r.state]
      BY <1>1 DEF LatePay
    <2>2. r.state \in SessionStates /\ (r.state # srv[p][n] => srv[p][n] = "checked")
      BY <2>1, PayReplyFacts DEF IInv, TypeOK
    <2>3. \A q \in Payments : \A m \in Sessions :
            srv'[q][m] = IF q = p /\ m = n THEN r.state ELSE srv[q][m]
      BY <2>1, <2>2 DEF IInv, TypeOK
    <2>4. n \in late[p] /\ UNCHANGED <<db, misread>>
      BY <1>1 DEF LatePay
    <2>5. srv[p][n] = "checked" => \A m \in Sessions : srv[p][m] \notin Live
      BY <2>4, NoneIsLive
    <2> QED
      BY <2>2, <2>3, <2>4, <2>5, GatewayIsLedger
  <1>2. ASSUME NEW p \in Payments, NEW n \in Sessions, OperatorAnswers(p, n) PROVE LedgerStep
    <2>1. PICK s \in {"done", "failed"} : srv' = [srv EXCEPT ![p][n] = s]
      BY <1>2 DEF OperatorAnswers
    <2>2. \A q \in Payments : \A m \in Sessions :
            srv'[q][m] = IF q = p /\ m = n THEN s ELSE srv[q][m]
      BY <2>1 DEF IInv, TypeOK
    <2>3. srv[p][n] = "waiting" /\ s \in SessionStates /\ UNCHANGED <<db, misread>>
      BY <1>2 DEF OperatorAnswers, SessionStates
    <2> QED
      BY <2>2, <2>3, GatewayIsLedger
  <1>3. ASSUME NEW p \in Payments, NextTryDatePasses(p) PROVE LedgerStep
    <2>1. UNCHANGED <<srv, misread>> /\ \A q \in Payments : q # p => db'[q] = db[q]
      BY <1>3 DEF NextTryDatePasses, netVars, IInv, TypeOK
    <2> QED
      BY <2>1, SaveIsLedger
  <1>4. ASSUME NEW p \in Payments, NEW kind \in {"force", "remove"}, Register(kind, p)
        PROVE LedgerStep
    BY <1>4, NothingIsLedger DEF Register, netVars
  <1>5. ASSUME Connect \/ Disconnect PROVE LedgerStep
    BY <1>5, NothingIsLedger DEF Connect, Disconnect, netVars
  <1> QED
    BY <1>1, <1>2, <1>3, <1>4, <1>5 DEF Environment

LEMMA NextIsLedger == IInv /\ IInv' /\ [Next]_vars => LedgerStep
  <1> SUFFICES ASSUME IInv, IInv', [Next]_vars PROVE LedgerStep
    OBVIOUS
  <1>1. CASE Request \/ LostRequest \/ FaultyReply
    BY <1>1, CheckIsLedger, PayIsLedger, StatusIsLedger, MisreadIsLedger
    DEF Request, LostRequest, FaultyReply
  <1>2. CASE Save
    <2>1. cur \in Payments /\ UNCHANGED <<srv, misread>> /\ SaveRow
      BY <1>2 DEF Save, SaveBeforePay, Finish, netVars, IInv, ThreadInv, Busy
    <2>2. \A q \in Payments : q # cur => db'[q] = db[q]
      BY <2>1, SaveRowFacts
    <2> QED
      BY <2>1, <2>2, SaveIsLedger
  <1>3. CASE Environment
    BY <1>3, EnvironmentIsLedger
  <1>4. CASE AlreadySaveFails
    BY <1>4, StatusIsLedger
  <1>5. CASE \/ Tick \/ Command \/ StartSession \/ SaveBeforePayFails \/ FinishSaveFails
             \/ Crash \/ UNCHANGED vars
    <2>1. UNCHANGED <<db, srv, misread>>
      BY <1>5 DEF Tick, TakePayment, NothingToTake, Command, RunForce, RunRemove, CommandsDone,
         StartSession, SaveBeforePayFails, FinishSaveFails, Crash, vars, netVars
    <2> QED
      BY <2>1, NothingIsLedger
  <1> QED
    BY <1>1, <1>2, <1>3, <1>4, <1>5 DEF Next, Thread, Processing, FailedSave

LEMMA InitIsLedger == Init => Ledger!LInit
  <1> SUFFICES ASSUME Init PROVE Ledger!LInit
    OBVIOUS
  <1>1. /\ misread = [p \in Payments |-> {}]
        /\ \A p \in Payments : /\ {n \in Sessions : srv[p][n] \in Live} = {}
                               /\ {n \in Sessions : srv[p][n] \in Accepted} = {}
    BY DEF Init, Live, Accepted
  <1>2. \A p \in Payments : Outcome(db[p].status) = "open"
    BY NewRowFacts DEF Init, Outcome, Queued, NewRow
  <1> QED
    BY <1>1, <1>2 DEF Ledger!LInit

\* The payment thread, with its losses, late requests and crashes, implements
\* the ledger: it charges a payment when nothing is held for it, and reports it
\* as completed when a charge was granted or an answer was misread.
THEOREM LedgerTheorem == Spec => ImplementsLedger
  <1>1. LedgerStep <=> [Ledger!LNext]_(Ledger!lvars)
    BY DEF LedgerStep, Ledger!lvars, Held, Granted, Reported
  <1>2. IInv /\ IInv' /\ [Next]_vars => [Ledger!LNext]_(Ledger!lvars)
    BY <1>1, NextIsLedger
  <1> QED
    BY <1>2, InitIsLedger, Invariance, PTL DEF Spec, ImplementsLedger, Ledger!LSpec

=============================================================================
