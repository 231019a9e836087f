--------------------------- MODULE PaymentProtocol ---------------------------
(***************************************************************************)
(* The payment thread of PaymentService: it takes payments from the queue    *)
(* in the database, runs them against the gateway (CHECK, save, PAY, or      *)
(* STATUS when a PAY may have been sent), saves the outcome, and then runs   *)
(* the registered commands (process now, remove).  Requests and replies can  *)
(* be lost, a PAY can arrive late, a save can fail, the program can crash.   *)
(*                                                                          *)
(* Simplifications:                                                         *)
(*  - payments are offline-capable, have money and are not the active one:   *)
(*    the rows processPayment(offline) or an abandoned payment leaves;       *)
(*  - dates are the flag `due`, so the queue's order is arbitrary;           *)
(*  - sessions are numbered 1, 2, ... per payment and never repeat.          *)
(* MaxSessions, MaxFaults and MaxCommands bound the exploration only.        *)
(***************************************************************************)
EXTENDS CyberplatPayment, CyberplatServer, Sequences

CONSTANTS Payments,        \* the payments in the database
          None,            \* no payment
          MaxSessions,     \* session numbers a payment may use
          MaxFaults,       \* losses, failed saves, odd replies, crashes, outages
          MaxCommands      \* commands registered

ASSUME PaymentsAssumption == None \notin Payments
ASSUME BoundsAssumption == MaxSessions \in Nat \ {0} /\ MaxFaults \in Nat /\ MaxCommands \in Nat

VARIABLES
  db,          \* db[p]: the row of payment p, which survives a crash
  pc,          \* where the payment thread is
  job,         \* what it processes `cur` for: the queue or a command
  cur,         \* the payment it processes
  obj,         \* the payment object it works on, a copy of the row
  cmds,        \* mCommands
  registered,  \* commands registered so far
  made,        \* made[p]: session numbers generated so far
  srv,         \* srv[p][n]: the gateway's state of session n of p
  late,        \* late[p]: sessions whose PAY is still on its way
  misread,     \* misread[p]: sessions taken for paid on a RESULT the client does
               \* not know; read by the properties only
  connected,   \* NetworkService::isConnected
  faults       \* faults so far

threadVars == <<pc, job, cur, obj>>
netVars    == <<srv, late>>
envVars    == <<connected, faults>>
vars == <<db, threadVars, cmds, registered, made, netVars, misread, envVars>>

Sessions == 1..MaxSessions
Rows     == [status : Statuses, step : Steps, session : 0..MaxSessions,
             tries : Nat, error : Errors, due : BOOLEAN]
Commands == [kind : {"force", "remove"}, payment : Payments]

NewRow(status) ==
  [status |-> status, step |-> "Init", session |-> 0, tries |-> 0, error |-> "Ok", due |-> TRUE]
NoObject == NewRow("Init")

Init ==
  /\ db \in [Payments -> {NewRow("Init"), NewRow("ReadyForCheck")}]
  /\ pc = "idle" /\ job = "queue" /\ cur = None /\ obj = NoObject
  /\ cmds = <<>> /\ registered = 0
  /\ made = [p \in Payments |-> 1]
  /\ srv = [p \in Payments |-> [n \in Sessions |-> "none"]]
  /\ late = [p \in Payments |-> {}]
  /\ misread = [p \in Payments |-> {}]
  /\ connected = TRUE /\ faults = 0

-----------------------------------------------------------------------------
\* Small steps of the thread.

Fault   == faults < MaxFaults /\ faults' = faults + 1 /\ UNCHANGED connected
NoFault == UNCHANGED envVars

GoTo(label) == pc' = label /\ UNCHANGED <<job, cur>>

\* NEXT_TRY_DATE is not among the columns getPaymentParameters() reads, so a
\* loaded payment has an empty one, which the next save writes back.
LoadForgetsStep(p) == [db[p] EXCEPT !.due = TRUE, !.step = "Init"]   \* faulty variant
Load(p) == [db[p] EXCEPT !.due = TRUE]

StateAt == srv[cur][obj.session]
ServerBecomes(state) == srv' = [srv EXCEPT ![cur][obj.session] = state]

SaveRow == db' = [db EXCEPT ![cur] = obj]

Idle == pc' = "idle" /\ job' = "queue" /\ cur' = None /\ obj' = NoObject

\* mCommandMutex is held from the first command to the last.
RunningCommands == pc = "commands" \/ job # "queue"

-----------------------------------------------------------------------------
\* onProcessPayments(): one tick of the timer.

Eligible(p) == db[p].status \in Queued /\ db[p].due

TakePayment(p) ==
  /\ pc = "idle" /\ connected /\ Eligible(p)
  /\ pc' = "process" /\ job' = "queue" /\ cur' = p /\ obj' = Load(p)
  /\ UNCHANGED <<db, cmds, registered, made, misread, netVars, envVars>>

NothingToTake ==
  /\ pc = "idle" /\ connected /\ \A p \in Payments : ~Eligible(p)
  /\ pc' = "commands"
  /\ UNCHANGED <<db, job, cur, obj, cmds, registered, made, misread, netVars, envVars>>

\* The registered commands, in order.
RunForce ==
  /\ pc = "commands" /\ cmds # <<>> /\ Head(cmds).kind = "force"
  /\ LET p == Head(cmds).payment
     IN  /\ cur' = p
         /\ obj' = [Load(p) EXCEPT !.tries = 1, !.status = "ProcessError"]
  /\ pc' = "process" /\ job' = "force"
  /\ UNCHANGED <<db, cmds, registered, made, misread, netVars, envVars>>

RunRemove ==
  /\ pc = "commands" /\ cmds # <<>> /\ Head(cmds).kind = "remove"
  /\ LET p == Head(cmds).payment
     IN  /\ cur' = p
         /\ IF db[p].step = "Init"
            THEN obj' = [Load(p) EXCEPT !.status = "Deleted"] /\ pc' = "finish"
            ELSE obj' = Load(p) /\ pc' = "removing"
  /\ job' = "remove"
  /\ UNCHANGED <<db, cmds, registered, made, misread, netVars, envVars>>

CommandsDone ==
  /\ pc = "commands" /\ cmds = <<>>
  /\ Idle
  /\ UNCHANGED <<db, cmds, registered, made, misread, netVars, envVars>>

-----------------------------------------------------------------------------
\* process(): one pass of its loop.

\* Step Init: the initial session if none was used yet, else a new one.
StartSession ==
  /\ pc = "process" /\ obj.step = "Init"
  /\ IF obj.session = 0
     THEN obj' = [obj EXCEPT !.session = 1] /\ UNCHANGED made
     ELSE /\ made[cur] < MaxSessions
          /\ made' = [made EXCEPT ![cur] = @ + 1]
          /\ obj' = [obj EXCEPT !.session = made[cur] + 1]
  /\ GoTo("check")
  /\ UNCHANGED <<db, cmds, registered, misread, netVars, envVars>>

CheckAnswered ==
  /\ pc = "check"
  /\ \E r \in CheckReplies(StateAt) :
       /\ ServerBecomes(r.state)
       /\ IF r.error = "Ok"
          THEN obj' = [WithError(obj, "Ok") EXCEPT !.step = "Pay"] /\ GoTo("saving")
          ELSE /\ obj' = CheckFailed(obj, r.error)
               /\ GoTo(IF r.error = "SessionAlreadyExist" THEN "already" ELSE "finish")
  /\ NoFault
  /\ UNCHANGED <<db, cmds, registered, made, misread, late>>

CheckLost ==
  /\ pc = "check" /\ Fault
  /\ \/ UNCHANGED srv
     \/ \E r \in CheckReplies(StateAt) : ServerBecomes(r.state)
  /\ obj' = CheckFailed(obj, "NetworkError")
  /\ GoTo("finish")
  /\ UNCHANGED <<db, cmds, registered, made, misread, late>>

\* Faulty variant: the PAY goes out with nothing on disk.
PayWithoutSave ==
  /\ pc = "saving"
  /\ GoTo("pay")
  /\ UNCHANGED <<db, obj, cmds, registered, made, misread, netVars, envVars>>

\* The save that prevents paying twice: step Pay is on disk before the PAY.
SaveBeforePay ==
  /\ pc = "saving"
  /\ SaveRow
  /\ GoTo("pay")
  /\ UNCHANGED <<obj, cmds, registered, made, misread, netVars, envVars>>

SaveBeforePayFails ==
  /\ pc = "saving" /\ Fault
  /\ obj' = WithError(obj, "DatabaseError")
  /\ GoTo("finish")
  /\ UNCHANGED <<db, cmds, registered, made, misread, netVars>>

PayAnswered ==
  /\ pc = "pay"
  /\ \E r \in PayReplies(StateAt) :
       /\ ServerBecomes(r.state)
       /\ obj' = AfterPay(obj, r.error)
  /\ GoTo("finish") /\ NoFault
  /\ UNCHANGED <<db, cmds, registered, made, misread, late>>

\* No reply: the PAY is lost, or handled with its reply lost, or delayed.
PayLost ==
  /\ pc = "pay" /\ Fault
  /\ \/ UNCHANGED netVars
     \/ (\E r \in PayReplies(StateAt) : ServerBecomes(r.state)) /\ UNCHANGED late
     \/ late' = [late EXCEPT ![cur] = @ \cup {obj.session}] /\ UNCHANGED srv
  /\ obj' = AfterPay(obj, "NetworkError")
  /\ GoTo("finish")
  /\ UNCHANGED <<db, cmds, registered, made, misread>>

AfterStatusReply(r) ==
  /\ ServerBecomes(r.state)
  /\ obj' = AfterStatus(obj, r.result, r.error)
  /\ GoTo(IF NotPaid(r.result, r.error) THEN "process" ELSE "finish")
  /\ UNCHANGED <<db, cmds, registered, made, misread, late>>

StatusAnswered ==
  /\ pc = "process" /\ obj.step = "Pay" /\ NoFault
  /\ \E r \in StatusReplies(StateAt) : AfterStatusReply(r)

StatusFaulty ==
  /\ pc = "process" /\ obj.step = "Pay" /\ Fault
  /\ \E r \in FaultyStatusReplies(StateAt) : AfterStatusReply(r)

\* A STATUS without a reply; the gateway may have handled it.
StatusUnheard ==
  \/ UNCHANGED srv
  \/ \E r \in StatusReplies(StateAt) : ServerBecomes(r.state)

StatusLost ==
  /\ pc = "process" /\ obj.step = "Pay" /\ Fault
  /\ StatusUnheard
  /\ obj' = SetProcessError(WithError(obj, "NetworkError"))
  /\ GoTo("finish")
  /\ UNCHANGED <<db, cmds, registered, made, misread, late>>

\* performTransaction(): the gateway knew the session; is it paid already?
\* Its outcome is saved at once; the save may fail, and Finish tries again.
AlreadyReply(r, saved) ==
  /\ ServerBecomes(r.state)
  /\ IF AlreadyPaid(r.result, r.error)
     THEN /\ obj' = [obj EXCEPT !.step = "Pay", !.status = "Completed",
                                !.error = IF saved THEN r.error ELSE "DatabaseError"]
          /\ db' = IF saved THEN [db EXCEPT ![cur] = obj'] ELSE db
     ELSE obj' = WithError(obj, r.error) /\ UNCHANGED db
  /\ GoTo("finish")
  /\ UNCHANGED <<cmds, registered, made, late>>

AlreadyAnswered ==
  /\ pc = "already" /\ NoFault
  /\ \E r \in StatusReplies(StateAt) : AlreadyReply(r, TRUE)
  /\ UNCHANGED misread

AlreadySaveFails ==
  /\ pc = "already" /\ Fault
  /\ \E r \in StatusReplies(StateAt) : AlreadyReply(r, FALSE)
  /\ UNCHANGED misread

AlreadyFaulty ==
  /\ pc = "already" /\ Fault
  /\ \E r \in FaultyStatusReplies(StateAt), saved \in BOOLEAN :
       /\ AlreadyReply(r, saved)
       /\ misread' = IF AlreadyPaid(r.result, r.error)
                     THEN [misread EXCEPT ![cur] = @ \cup {obj.session}] ELSE misread

AlreadyLost ==
  /\ pc = "already" /\ Fault
  /\ StatusUnheard
  /\ obj' = WithError(obj, "NetworkError")
  /\ GoTo("finish")
  /\ UNCHANGED <<db, cmds, registered, made, misread, late>>

-----------------------------------------------------------------------------
\* The end of a payment's turn: save it, and take the next command.

CommandsNeverCleared == cmds   \* faulty variant
CommandsLeft == IF job = "queue" THEN cmds ELSE Tail(cmds)

Finish ==
  /\ pc = "finish"
  /\ SaveRow
  /\ pc' = "commands" /\ job' = "queue" /\ cmds' = CommandsLeft
  /\ UNCHANGED <<cur, obj, registered, made, misread, netVars, envVars>>

FinishSaveFails ==
  /\ pc = "finish" /\ Fault
  /\ pc' = "commands" /\ job' = "queue" /\ cmds' = CommandsLeft
  /\ UNCHANGED <<db, cur, obj, registered, made, misread, netVars>>

\* remove() with step Pay.
RemoveReply(r) ==
  /\ ServerBecomes(r.state)
  /\ IF Removable(r.result, r.error)
     THEN obj' = [WithError(obj, r.error) EXCEPT !.status = "Deleted"]
          /\ pc' = "finish" /\ UNCHANGED <<job, cmds>>
     ELSE UNCHANGED obj /\ pc' = "commands" /\ job' = "queue" /\ cmds' = Tail(cmds)
  /\ UNCHANGED <<db, cur, registered, made, misread, late>>

RemoveAnswered ==
  /\ pc = "removing" /\ NoFault
  /\ \E r \in StatusReplies(StateAt) : RemoveReply(r)

RemoveFaulty ==
  /\ pc = "removing" /\ Fault
  /\ \E r \in FaultyStatusReplies(StateAt) : RemoveReply(r)

RemoveLost ==
  /\ pc = "removing" /\ Fault
  /\ StatusUnheard
  /\ pc' = "commands" /\ job' = "queue" /\ cmds' = Tail(cmds)
  /\ UNCHANGED <<db, cur, obj, registered, made, misread, late>>

-----------------------------------------------------------------------------
\* The surroundings.

Register(kind, p) ==
  /\ ~RunningCommands /\ registered < MaxCommands
  /\ cmds' = Append(cmds, [kind |-> kind, payment |-> p])
  /\ registered' = registered + 1
  /\ UNCHANGED <<db, threadVars, made, misread, netVars, envVars>>

NextTryDatePasses(p) ==
  /\ ~db[p].due
  /\ db' = [db EXCEPT ![p].due = TRUE]
  /\ UNCHANGED <<threadVars, cmds, registered, made, misread, netVars, envVars>>

LatePay(p, n) ==
  /\ n \in late[p]
  /\ late' = [late EXCEPT ![p] = @ \ {n}]
  /\ \E r \in PayReplies(srv[p][n]) : srv' = [srv EXCEPT ![p][n] = r.state]
  /\ UNCHANGED <<db, threadVars, cmds, registered, made, misread, envVars>>

OperatorAnswers(p, n) ==
  /\ srv[p][n] = "waiting"
  /\ \E s \in {"done", "failed"} : srv' = [srv EXCEPT ![p][n] = s]
  /\ UNCHANGED <<db, threadVars, cmds, registered, made, misread, late, envVars>>

Disconnect ==
  /\ connected /\ faults < MaxFaults
  /\ connected' = FALSE /\ faults' = faults + 1
  /\ UNCHANGED <<db, threadVars, cmds, registered, made, misread, netVars>>

Connect ==
  /\ ~connected /\ connected' = TRUE
  /\ UNCHANGED <<db, threadVars, cmds, registered, made, misread, netVars, faults>>

\* The thread and the commands are lost, the database and the gateway stay.
\* A PAY being sent may still arrive: PayLost followed by Crash.
Crash ==
  /\ Fault
  /\ Idle /\ cmds' = <<>>
  /\ UNCHANGED <<db, registered, made, misread, netVars>>

-----------------------------------------------------------------------------

Request == CheckAnswered \/ PayAnswered \/ StatusAnswered \/ AlreadyAnswered \/ RemoveAnswered
LostRequest == CheckLost \/ PayLost \/ StatusLost \/ AlreadyLost \/ RemoveLost
FaultyReply == StatusFaulty \/ AlreadyFaulty \/ RemoveFaulty
Save == SaveBeforePay \/ Finish
FailedSave == SaveBeforePayFails \/ AlreadySaveFails \/ FinishSaveFails
Tick == (\E p \in Payments : TakePayment(p)) \/ NothingToTake
Command == RunForce \/ RunRemove \/ CommandsDone

Processing == Command \/ StartSession \/ Request \/ LostRequest \/ FaultyReply
              \/ Save \/ FailedSave

Thread == Tick \/ Processing

Environment ==
  \/ \E p \in Payments :
       \/ \E kind \in {"force", "remove"} : Register(kind, p)
       \/ NextTryDatePasses(p)
       \/ \E n \in Sessions : LatePay(p, n) \/ OperatorAnswers(p, n)
  \/ Connect \/ Disconnect

Next == Thread \/ Environment \/ Crash

Spec == Init /\ [][Next]_vars

\* The timer restarts itself and every request ends (in an answer or a time
\* out), so the thread goes on; time passes; an outage ends.  Nothing is
\* assumed of the gateway or of the operators.
Fairness ==
  /\ WF_vars(Thread)
  /\ \A p \in Payments : WF_vars(NextTryDatePasses(p))
  /\ WF_vars(Connect)

FairSpec == Spec /\ Fairness

-----------------------------------------------------------------------------
\* Properties.

\* Type invariant.
TypeOK ==
  /\ db \in [Payments -> Rows]
  /\ pc \in {"idle", "process", "check", "saving", "pay", "already", "removing",
             "finish", "commands"}
  /\ job \in {"queue", "force", "remove"}
  /\ cur \in Payments \cup {None}
  /\ obj \in Rows
  /\ cmds \in Seq(Commands)
  /\ registered \in Nat
  /\ made \in [Payments -> Sessions]
  /\ srv \in [Payments -> [Sessions -> SessionStates]]
  /\ late \in [Payments -> SUBSET Sessions]
  /\ misread \in [Payments -> SUBSET Sessions]
  /\ connected \in BOOLEAN
  /\ faults \in Nat

\* The gateway holds money for session n of p, or a PAY on its way may still
\* make it do so.
MayBeCharged(p, n) ==
  \/ srv[p][n] \in Live
  \/ n \in late[p] /\ srv[p][n] = "checked"

\* A customer is never charged twice for one payment, whatever is lost, late
\* or crashes (Payment.cpp, performTransactionPay: "to prevent doubling").
NeverChargedTwice ==
  \A p \in Payments : \A m, n \in Sessions :
    srv[p][m] \in Live /\ srv[p][n] \in Live => m = n

\* At every moment a crash would lose nothing: a session that is charged, or
\* may still be, is the one in the row, and the row says that it must be asked
\* about (step Pay) before another one is started.
ChargeIsOnRecord ==
  \A p \in Payments : \A n \in Sessions :
    MayBeCharged(p, n) => db[p].step = "Pay" /\ db[p].session = n

\* A payment is recorded as Completed only when the gateway accepted a PAY for
\* the session that is on record with it, or when performTransaction() took the
\* STATUS of that very session, with a RESULT the client does not know, for paid
\* (Payment.cpp:402): that is the only way to complete a payment unpaid.
CompletedWasAccepted ==
  \A p \in Payments :
    db[p].status = "Completed" =>
      LET n == db[p].session
      IN  n # 0 /\ (srv[p][n] \in Accepted \/ n \in misread[p])

\* PaymentBase.cpp:960, "a payment can be cancelled only if there was no PAY
\* request": what has been removed holds no money at the gateway.
RemovedIsNotCharged ==
  \A p \in Payments : \A n \in Sessions :
    db[p].status = "Deleted" => srv[p][n] \notin Live

\* Another session is started only when no earlier one can be charged any more.
NewSessionIsSafe ==
  [][\A p \in Payments :
       made'[p] # made[p] => \A n \in Sessions : ~MayBeCharged(p, n)]_vars

\* Every payment leaves the queue for good: completed, given up or removed.
EveryPaymentSettles == \A p \in Payments : <>[](db[p].status \notin Queued)

\* Every registered command is carried out (or lost with the program).
CommandsAreCarriedOut == (cmds # <<>>) ~> (cmds = <<>>)

-----------------------------------------------------------------------------
\* Refinement: the ledger seen through the gateway's and the database's state.

Outcome(status) ==
  IF status \in Queued THEN "open" ELSE IF status = "Completed" THEN "completed" ELSE "closed"

Ledger == INSTANCE PaymentLedger WITH
  Charges <- Sessions,
  held    <- [p \in Payments |-> {n \in Sessions : srv[p][n] \in Live}],
  granted <- [p \in Payments |-> {n \in Sessions : srv[p][n] \in Accepted}],
  report  <- [p \in Payments |-> Outcome(db[p].status)],
  misread <- misread

\* The payment thread implements the ledger, crashes and losses included.
ImplementsLedger == Ledger!LSpec

=============================================================================
