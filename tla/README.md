# TLA+ models of TerminalClient

TerminalClient is the client of a payment kiosk: a C++/Qt program that takes a
customer's data and cash, pays a provider through the Cyberplat gateway, gives
change, prints receipts, and is watched and updated by helper programs. This
directory holds its TLA+ models, the TLC configurations that check them on small
instances, and TLAPS proofs of the properties that matter most. Source paths
below are relative to `3.0/src/`; `Payment.cpp` is
`plugins/Payments/Cyberplat/src/Payment.cpp`, the services are in
`apps/PaymentProcessor/src/Services/`, the update engine is in
`modules/UpdateEngine/src/`.

## 1. Inventory

| Component | State it keeps | Operations | Talks to | What makes it correct | Module |
|---|---|---|---|---|---|
| **PaymentService**, payment thread | the queue in the database, the commands, the payment in work | timer tick, force and remove commands, save | gateway, database, main thread | a payment is charged once, however requests and the program fail | `PaymentProtocol` |
| **Cyberplat Payment** | status, step, session, tries, error, next try | CHECK, PAY, STATUS, back off, give up, remove | gateway (HTTP), PaymentService (save) | PAY only after its session is on disk; a new session only when the old one is void | `CyberplatPayment`, `CyberplatServer` |
| **PaymentService**, main thread and the row of a payment | the offline payment shared with the thread, queued updates, copies, signatures | update fields (now, forced, later), process again | payment thread, database | no update lost, no stale copy over a newer row, signatures match rows | `PaymentStore` |
| **Sums and change** in PaymentService | `AMOUNT_ALL`, `CHANGE` of the payments, the change payment | note stacked, move change to and from a payment, reset, dispensed | acceptors, dispenser, database | money in = money on payments + change + given out | `ChangeFlow` |
| **CashAcceptorManager** and its drivers | the session of a payment, limits, subscriptions; what each device does | enable, disable, escrow, stacked, status, poll | acceptors, PaymentService, charge screen | limits kept, each bill booked before the payment is processed, whoever waits is answered | `CashAcceptor`, `CashAcceptorDriver` |
| **CashDispenserManager** and its drivers | notes in each unit, the request in work | canDispense, dispense, dispensed, rejected, unit empty | dispensers, PaymentService, screen | what comes out is taken off the change | `CashDispenser` |
| **WatchService** | modules, their processes, pending timers, the close action | start, watch, kill, close in order, restart, quit | every process of the terminal | none forgotten, none running twice, the terminal comes back | `WatchService` |
| **UpdateEngine, Updater** | files, temporary files, backup, tasks, timers | download, deploy, roll back; wait for client and service | update server, WatchService, client, disk | no half-installed update, nothing replaced under the running client, the terminal is started again | `UpdateDeploy`, `UpdaterApp` |
| PaymentBase | parameters of a payment | limits, commission, serialise, restore | settings | sums add up | in `ChangeFlow` (capping), `PaymentProtocol` (remove) |
| DatabaseUtils | payments, parameters, notes, encashments | save, load, queue, balance, backup | SQLite | each operation is one transaction | in `PaymentStore` |
| ServiceController | services by dependency | start, stop, close command | all services, WatchService | order of start and stop | answers only, in `WatchService` |
| PrintingService, NetworkService, RemoteService, SchedulerService, TerminalService, NetworkTaskManager, RequestSender | receipts, connection, commands, tasks, status | | printers, network | | section 6 |
| DeviceService, EventService, PluginService, SettingsService, CryptService, DatabaseService, GUI, HID, hooks, audio, graphics, advertising, hardware protocols | | | | | section 6 |

How the parts interact. Screens call `PaymentService` (create, fields, process)
and the two cash managers. Notes reach the payment through queued signals of the
acceptor drivers, each in a thread of its own. A payment that may be processed
offline gets status `ReadyForCheck` and is left to the payment thread: a timer
whose slot `onProcessPayments()` takes one payment from the queue, runs
`Payment::process()` against the gateway, saves it, runs the registered commands
and restarts the timer. Meanwhile the main thread may write into the row of the
same payment. The database is the only state that survives a crash. Outside the
client, `WatchService` keeps the processes alive, and `Updater`, one of its
modules, has it close the client, stops it, replaces the files and starts it again.

Hard behaviours: a PAY whose reply is lost or that arrives late; a crash between
the save of step `Pay` and the reply; several copies of one payment; money moved
between two rows with two saves; notes stacked after the screen has left;
switch-offs deferred under a note; several close sequences at once; an update
broken off anywhere. `PROJECT.json` lists each as a hazard at its line, with the
properties that would notice it going wrong.

## 2. Modules

| Module | Stands for | State and actions |
|---|---|---|
| `CyberplatPayment` | decisions of `Payment.cpp` | no state: operators on a payment record (`SetProcessError`, `CheckFailed`, `AfterPay`, `AfterStatus`, `NotPaid`, `Removable`) |
| `CyberplatServer` | the gateway (external) | the replies it may give to CHECK, PAY and STATUS and what they make of a session |
| `PaymentProtocol` | the payment thread | `db` the rows; `pc`, `job`, `cur`, `obj` the thread; `cmds` the commands; `srv`, `late` gateway and network |
| `PaymentLedger` | the abstract promise | `held`, `granted`, `report` per payment: `Charge`, `Release`, `Report` |
| `PaymentStore` | the row of one payment and its writers | `row` with its signature; `obj`, `pc`, `offline`, `commands` of the payment thread; `main`, `copy`, `locked` of the main thread |
| `ChangeFlow` | the customer's money in the main thread | `active`, `object`, `change` in memory; `row`, `changeRow`, `closedRows` on disk; `todo` the saves the running handler has still to do: one action per handler, `Step` per save, `Crash` between any two |
| `CashAcceptorDriver` | one acceptor as its driver sees it | no state: operators on a device record; each gives the records it may become |
| `CashAcceptor` | manager, drivers, charge screen | `dev` the devices, `events` the queued signals, `session`, `main` the running `enable()` or `disable()`, `ui`, `pay` the screen, `booked` the notes |
| `CashDispenser` | manager, drivers, dispense screen | `stock`, `job`, `error`, `known` of the units; `count`, `amounts`, `main` of the manager; `available`, `waiting` of the screen; `change`; for the properties `paid`, `gone`, `untold`, `stale`, `overdrawn`, `silent`, `crossed` |
| `WatchService` | the guard process | `mods` modules and processes; `timer`, `chains`, `pauses`, `returns` its timers; `action`, `server`, `orphans`, `quit`; `early`, `doubled`, `orderly` for the properties |
| `UpdateDeploy` | `Updater`, `Folder`, `Package` | `disk`, `temp`, `backup` the files; `phase`, `tasks`, `fails`, `todo`, `left` where the engine is. One action per file copied, deleted or unpacked |
| `UpdaterApp` | `UpdaterApp.cpp`, with the service and the client around it | extends `UpdateDeploy`; `state`, `link`, `subscribed`, `timer`, `failing` of the process; `service`, `client` |
| `MC...` | | small instances for TLC |
| `..._proofs` | | inductive invariants, theorems, lemmas |
| `InductionLemmas` | | induction and recursive functions, for the proofs |

Definitions whose comment begins with *Mutant* or *Faulty* are not used by the
specifications. Each is a plausible bug in the definition below it, and one of
them breaks each property the runs check: a property that survives its mutant
would not be watching the code.

### The payment thread

A payment is a record `[status, step, session, tries, error, due]`. `session` 0
is the empty string, n the n-th number generated for this payment; `due` stands
for `NEXT_TRY_DATE` being empty or past. A row is such a record, and so is the
thread's object: `Load` reads the row without `NEXT_TRY_DATE`, because
`getPaymentParameters()` does not select it, and `SaveRow` writes all of it.
One turn of the thread is a path through `pc`:

    idle --TakePayment--> process --StartSession--> check --> saving --> pay --> finish --> commands
                             |  ^                     |                            ^
                             |  +--"not paid"---+     +--> already ----------------+
                             +-- STATUS (step Pay) -----------------------------------> finish
    commands --RunForce--> process      commands --RunRemove--> removing or finish
    commands --CommandsDone--> idle

Each request has an action for an answer, one for no answer, and STATUS one for
an answer that says nothing or has a RESULT the client does not know
(`FaultyReply`). A PAY without an answer is lost, or
handled with its reply lost, or still on its way (`late`); `LatePay` delivers it
at any later time. `Crash` drops the thread's state and the commands and keeps
`db` and the gateway. `PaymentStore` refines the saves of this thread for one
payment and reduces the rest: there the question is which copy is written when.

### Cash

`enable()` and `disable()` take the acceptors one by one while the devices go on,
so each acceptor is a step. A driver answers a switch-on at once or late, defers
a switch-off while a note is in the path, and repeats by its poll what did not
succeed. Its signals wait in `events` until the main thread is idle. The screens
are `cash_charge_scenario.js` and `cash_dispense_scenario.js`: they fix which
calls come in which order, and which signals they wait for.

What a dispenser's driver reports need not be what came out. `ComeOut(u, k, r, n, s)`
lets k notes out and r into the reject box and reports n and s: equal in `PayOut`,
less in `PayOutAmiss`, where the answer that tells is lost, or the command was not
answered and sent again (`MostOut`, SuzoHopper.cpp:57-74). `KeepSilent` reports
nothing, before the command to pay out was sent or after it (SuzoHopper.cpp:188-204).
Notes that leave a unit so are in `gone`, their worth in `untold`.

### Watching and updating

Slots of `WatchService` are atomic; a pass over the modules is a recursive
function over their order. Delays may expire at any time; of the time since a
module's last answer only counts which timeouts it has exceeded. In `UpdateDeploy` a file is
`none`, `old`, `new` or `torn` (cut short by an interrupted write): `File::verify`
compares hashes, so nothing else about its contents matters. A folder puts its
files one by one, a package unpacks the whole archive over what is there. A power
failure may strike before any of these steps, or tear the file being written.

## 3. Runs

| Run | Instance | Shows |
|---|---|---|
| `safety` | 2 payments (symmetric), 1 fault, 5 sessions | types; none charged twice (`NeverChargedTwice`), every charge on record (`ChargeIsOnRecord`), `NewSessionIsSafe` |
| `liveness` | 1 payment, 2 faults, 1 command, 8 sessions | `EveryPaymentSettles`, `CommandsAreCarriedOut`; with commands and two faults, `NeverChargedTwice` again, `CompletedWasAccepted`, and the thread implements the ledger (`ImplementsLedger`) |
| `saves` | 1 payment, 3 sessions, 3 calls of the main thread, 1 crash | `ChargedOnceUnlessStale`, `WholeAfterTurn` (row, signature and charge agree after a turn), `ForcedFieldStays` |
| `money` | 2 payments with limits 2 and 3, notes of 1 and 4, 5 in cash, 1 crash | `BookedOnce` (each note booked exactly once between handlers), `NothingLost` (a crash costs at most what the handler moves) |
| `cash` | 2 bill acceptors (symmetric), 2 payments, 2 visits, 3 notes of 2 | `LimitKept`, `NoChange`, `BookedBeforeProcessing` |
| `disable` | a bill acceptor and one of coins, 1 note, 2 visits, or 1 and a fault | `BillsAreHeard`, `DisableAnswered` |
| `change` | change of 5, two twos and three ones, 2 requests, 2 faults | `PaidIsTakenOff`, `NotMoreThanChange`, `CountsAreTrue`, `RequestAnswered` |
| `watch` | the modules of `WatchService.ini` but the interface, 3 commands, 1 fault | `NobodyForgotten`, `ClosedInOrder`, `ComesBack`, `QuitsWhenTold` |
| `update` | a folder with post-action, an archive of 2 files, a folder that skips existing files, an optional one, a file of no component; 2 updates, 2 faults | `UpToDate`, `RolledBack`, `CopyExists`, `FilesChangeAlone`, `LeftRunning`, `UpdateEnds` |
| `remove` (violation) | 1 payment, 1 fault, 1 command | `RemovedIsNotCharged`: the remove command deletes a payment that is charged |
| `overwrite` (violation) | as `money`, no crash | `NotesAreBooked`: a late note overwrites the change payment |
| `twice` (violation) | 3 sessions, 1 call, 1 crash | `ChargedOnce`: a stale copy makes the row forget a PAY |

Every run also checks the type invariant of its module, `disable`, `liveness` and
the violations apart.

### Bounds

* Payments do not share sessions, so one payment carries the protocol and a
  second one shows that turns do not mix. Two faults are enough for a lost PAY that
  arrives late after a crash or a failed save, and for a crash after CHECK whose next
  turn misreads a STATUS (Payment.cpp:402); what a completed payment rests on is
  therefore checked by `liveness`. There are more sessions than tries and
  faults can use up: the guard `made[cur] < MaxSessions` never blocks, and TLC
  checks for deadlock in these runs. `TriesLimit` is 25 in the code; 0 makes the
  limit reachable with few faults.
* `money`: a note of 4 overfills either payment, a note of 1 neither, and the
  change of one payment can fill the other and leave a rest. The run does not
  follow states after a mix-up (`CONSTRAINT NotMixedUp`), because its two properties
  say nothing of them; `overwrite` does.
* `saves`: an update, a forced one and a repeated processing can all meet one turn.
* `cash`: each acceptor can hold a note of its own, and a third note comes after.
  The first payment is of a fixed amount, so the change control does not apply to
  it; the second has it. `disable` has faults and coins instead; `MaxVaried` lets
  either a second visit or a fault happen, for the sake of size.
* `change`: 5 takes both units and several batches, two faults reach a rejected
  note after a jam, or a lost report and a second request on top of the rest. A
  command is sent up to 3 times (`CommandMaxIteration`), more than a unit holds.
* `watch`: three commands give two close sequences at once and a start between them.
* `update`: two updates, so that the second finds what the first has left, torn
  files and a half-filled temporary folder included. `MaxFails` is 18 in the
  code; 2 reaches the limit. `Partial` is FALSE here and free in the proofs.

Runs with `CHECK_DEADLOCK FALSE` are those whose customers stop: each payment is
created once, notes, visits, calls, commands and updates are used up, and with the
service told to quit or the screen locked nothing goes on.

### Fairness

* `PaymentProtocol`: the payment timer restarts itself and every request ends in
  an answer or a timeout (`WF_vars(Thread)`); time passes (`NextTryDatePasses`);
  an outage ends (`Connect`). Nothing is assumed of gateway or operators: a payment
  settles because tries are counted. Transport errors are not counted by the
  code, so `MaxFaults` has to be finite.
* `CashAcceptor`, `CashDispenser`: the main thread handles its queue
  (`WF_vars(Manager)`), a driver polls and does what it is asked (`WF_vars(Driver(u))`;
  one that keeps silent has done its step).
* `WatchService`: timers expire (`WF_vars(Timers)`); a process answers, obeys or is
  silent for long (`WF_vars(Live(m))`). A hung one is not assumed to recover.
* `UpdaterApp`: slots are called and timers expire (`WF_vars(Slots)`); a service that
  stops closes the client and ends, one that runs starts it (`WF_vars(Certain)`). A
  client that is only told to close need not do it: the service tells it once, and
  kills it only if it is silent (WatchService.cpp:935-958).
  Downloading has no fairness at all: a download may stall for ever and the update
  still ends, by `tooLondToDownload()`.

## 4. Proofs

The theorems hold for every value of the constants that meets the `ASSUME`s of
the modules (names ending in `Assumption`): any payments, sessions, acceptors,
units, nominals, modules, files, components, faults. Each module proves an
inductive `IInv`, `Init => IInv` and `IInv /\ [Next]_vars => IInv'` with one lemma
or step per action. Every invariant that a passing run checks is a theorem, and so
are the action property and the refinement; `LimitKept` and `NoChange` are proved
for terminals with bill acceptors only.

The assumptions that are more than types: a payment has a limit above 0, some note
is the largest (`NotesAssumption`), sets of devices, units and files are finite,
what has an order or a setting in `WatchService.ini` is one of its modules.

**`PaymentProtocol_proofs`**: `TypeOK`, `NeverChargedTwice`, `ChargeIsOnRecord`,
`CompletedWasAccepted`, the action property `NewSessionIsSafe`, and the refinement
`Spec => Ledger!LSpec`. "Never charged twice" is not inductive: a second charge is
kept away by what is on disk. `ChargeIsOnRecord` says that a session that is
charged, or may be by a late PAY, is the one in the row, with step Pay; two would
have to be the same. It is preserved because the thread's object agrees with the
row as far as charges go (`ChargeInv`), a PAY is sent only after the save, and the
step goes back to Init only after an answer that makes the session void.
`ThreadInv` ties the program counter to the object, `CompletedInv` carries a
session that was accepted, or misread as accepted, from the reply to the row. For
the refinement, changes at the gateway are `Charge` or `Release`, saves are `Report`,
the rest is invisible but for `Misread`. A by-product is `NeverAlreadyPaid`: the branch of `performTransaction()`
for a session already paid (Payment.cpp:402-415) is never taken on an answer that
means it, only on a RESULT the client does not know. `Misread` is that step; the
theorems say that nothing else completes a payment without a charge.

**`PaymentStore_proofs`**: `TypeOK`, `ChargedOnceUnlessStale`, `WholeAfterTurn`,
`ForcedFieldStays`. A save writes only the parameters that were set, so an object
that has set no step cannot take back the step Pay of the row; the invariant says
when the object, the copy and the row agree, who holds the lock, and that a
signature made outside the lock is either that of the row to be or will be
replaced by the thread's last save.

**`CashAcceptor_proofs`**: `TypeOK`, `BillsAreHeard`, `BookedBeforeProcessing`,
`LimitKept`, `NoChange`. The
queue of signals carries the argument: after a bill acceptor's Disabled no Stacked
of it follows, because it reports itself off only with an empty path; an acceptor
that is to stack is subscribed to. A by-product: `disable()` never answers false for
the payment of the screen (`refused` stays FALSE).

`LimitKept` and `NoChange` count what is booked, but a note passes the check in one
step and is booked in another. `RoomInv` therefore reserves a largest note for each
acceptor with a note on its way (`Out`): with all of them booked the payment would
still keep its limit. A note that is accepted joins `Out` only while the session has
room (`AmountInv` ties the session's amount and maximum to the payment and its
limit), one that is booked leaves it. `ChangeInv` does the same with the change
control, where the last note accepted counts with its own nominal, because
`onEscrowChangeControl()` has compared that one; `NoteInv` says whose note a signal
is and that no acceptor has two. A session ends while notes are on their way, and
these go to the next one: it has a room of its own, and `Out` stays at most one
note for each acceptor. The two theorems are about bill acceptors
(`Bills = Acceptors`): coins are in the box before anything is compared, so with a
coin acceptor neither bound holds, in the code as in the model.

**`CashDispenser_proofs`**: `TypeOK`, `CountsAreTrue`, `PaidIsTakenOff`,
`NotMoreThanChange`. The manager counts a unit off when it hears of a batch, so in
between its count is too high: `Counted` says by how much, the weight of the unit's
signals in the queue and what left the unit without a report, or that a unit
reported empty is empty. `Booked` is the equation of the money, with no hypothesis:
what came out is off the change, booked, on its way in the queue, or named, as
`untold` or `overdrawn`. The bound needs more (`Money`): that requests do not mix
(`OneAtATime`: one batch at most is asked for, reported or being decided about) and
that the batch asked for is within what is to be paid out (`WithinChange`, from
`FoundWithinAmount`: what `canDispense()` finds is never more than it is asked for).
Both end when a request meets the remains of another (`crossed`), and there more than
the change does come out (section 5).

**`WatchService_proofs`**: `TypeOK`, `NobodyForgotten`, `ClosedInOrder`. Neither of
the last two is inductive. Nobody is forgotten because nothing runs, the timer of the
checks is off and no second `reinitialize()` is to come while one is pending
(`Paused`); a server that does not open keeps it so. A command in the pause ends this
(`early`: it has the modules checked), and so does a second close sequence that ends
in it (`doubled`: its `reinitialize()` comes after the first has started the timer).
The theorem is about all other runs, the service's own checks among them. Modules close
in order because nothing has been told to close while the timer of the checks runs
(`Untold`): a check tells modules to close in any order and starts those a sequence
has closed. A pass over the modules keeps what each visit keeps, for any number of
modules in any order.

**`InductionLemmas`** is what these two rest on. A pass, the weight of a queue and
`canDispense()` are recursive functions of the number of elements visited. The
library's induction takes an operator as a parameter; here a property is the *set*
of the numbers that have it, and a least number outside this set is found from
the well-foundedness of strict inclusion among finite intervals (`LeastNumber`,
`InductionUpTo`). With it `RecursionUpTo` shows that a recursive function exists and
obeys its equation, and the `Weight...` lemmas what a signal adds to a queue and
takes off it.

**`ChangeFlow_proofs`**: `TypeOK`, `BookedOnce`, `NothingLost`. The invariant says, for
each shape of `todo`, what the saves to come will bring: the difference between what
is on the rows and what was put in is exactly what the handler has in hand. The
money on the payments is the cardinality of a set of units, which has laws to
cite, where a sum over payments would need an induction; its finiteness is part
of the invariant. `OnlyCrashesLose` shows that `gone` grows by a crash alone.

**`UpdaterApp_proofs`**: `TypeOK`, `UpToDate`, `RolledBack`, `CopyExists`,
`FilesChangeAlone`, `LeftRunning`. The invariant goes phase by phase. While new files
go in, a component that is still to be taken is as the deletion left it, the files
the loop has passed are as a good update leaves them; files of neither list are
untouched, and a file of the old list has its backup from the first deletion on.
This includes partial updates, which the run does not.

Checked by TLC only: all liveness (`EveryPaymentSettles`, `CommandsAreCarriedOut`,
`DisableAnswered`, `RequestAnswered`, `ComesBack`, `QuitsWhenTold`, `UpdateEnds`), for
which the installed provers have no rule. The bounds on the number of calls,
faults and visits, by which the runs are finite, are arbitrary in the proofs.

## 5. What was found

### Findings, each with a run

* `remove`. After a PAY the gateway answers STATUS with a general error and an
  empty RESULT. `process()` waits in this case (Payment.cpp:545-548), `remove()`
  deletes (Payment.cpp:641), against the rule of PaymentBase.cpp:960.
* `overwrite`. The customer's change is in payment p; he inserts a note, presses
  Back while it is being stacked, and the screen moves p's money back to the
  change. The note arrives: `onAmountUpdated()` sees no `CHANGE` on p, computes what
  exceeds p's limit and sets the change payment to it (PaymentService.cpp:1007). The
  amount moved back is on no row.
* `twice`. `processPayment()` offline (PaymentService.cpp:863) loads a copy and saves
  it without the lock, and a forced update (738) holds a lock the save before PAY
  does not take. A copy older than that save, written after it, puts back the step
  and the session; after a crash or a lost reply a new session is charged.

### Seen in the models, without a run of their own

* A payment is completed without a PAY by a RESULT the client does not know. The
  program dies between CHECK and the save; the first session is checked again, exists
  already, and STATUS is answered with error Ok and such a RESULT, which
  `sendRequest()` passes on: `>= Error3` takes it for paid (Payment.cpp:402), where
  `process()` and `remove()` wait. The model has it (`AlreadyFaulty`, `misread`);
  `CompletedWasAccepted` and the ledger except it by name.
* A hopper that meets an error returns without a report, also after the command to
  pay out was sent, perhaps several times (SuzoHopper.cpp:57-74, 188-204); a status
  that is lost ends the loop with what the last one said (206-213), and a Puloon
  counts only what was answered (PuloonCashDispenser.cpp:259-285). The change then
  stays what it was although notes are out: `PaidIsTakenOff` has this amount as
  `untold`, `CountsAreTrue` the notes as `gone`.
* After a silent driver the screen gives up by its timeout, the request stays in
  `mAmounts` (CashDispenserManager.cpp:440), and the next one is paid out on top:
  more than the change comes out, which PaymentService.cpp:1036 logs as fatal.
  `NotMoreThanChange` ends where requests cross (`crossed`).
* A hopper never says that it is empty (SuzoHopperData.h:44 is commented out). After a
  report was lost the manager counts coins that are gone, asks for a batch, is told
  of none, and asks again; each time it restarts the screen's timeout
  (CashDispenserManager.cpp:272), so this does not end. `RequestAnswered` excepts a
  unit that has run dry unreported (`RunDry`).
* `dispense()` gives out what `canDispense()` found when the screen was opened
  (FundsService.cpp:72); if a late report has lessened the change since, the
  difference comes out too (`stale`).
* A device that fails between `canDispense()` and the rest of a request: 0 is
  reported for what was paid out in part (CashDispenserManager.cpp:274); counted in
  `untold`.
* The rollback of `deploy()` deletes files it has no copy of: those of components with
  `skip_existing` or `optional` are taken off the list of files to back up but not off
  the list of new files (Updater.cpp:681-690, 747-753). An archive that breaks off may
  have torn a file that needed no update. `Unprotected` names both; `RolledBack` and
  `CopyExists` hold for all other files.
* The post-actions of an optional archive that was not downloaded fail and roll the
  whole update back (Package.cpp:138-147).
* `onFailStopClient()` leaves 10 ms before `errorExit()`. A `module_closed` in between
  stops the service, and the process that would start it again ends (`late`).
* `onDisconnected()` takes a service that breaks down for one that has stopped and
  deploys with the client running (`lost`). So does its reconnect timer (143), when it
  was set during the download and fires after the end of it.
* What the client writes during the download is not downloaded again: `deploy()`
  makes its list anew, and a file that is missing in the temporary folder fails it.
* The branch of `performTransaction()` for a rejected number (Payment.cpp:389) is never
  taken: `isCriticalError()` lists the same code, so the payment is bad at once.
* `hangupProcessing()` would run a second `onProcessPayments()` in the main thread; it
  has no caller.
* The change control compares a note with the limit of the payment it was put in
  for. Booked to the next payment, it makes change of a limit smaller than itself:
  two late notes of 2 and a limit of 1. `NoChange` counts such a limit as the largest
  note, and TLC refutes the bound without this when a limit is that small.
* Coins taken after a switch-on that was answered as failed and repeated by the poll
  are not heard; a late Disabled of a coin acceptor takes it out of a session that
  was resumed.
* `WatchService`: in the five minutes before `reinitialize()` a start or close command
  (`early`), or the end of a second close sequence (`doubled`), leads to modules that
  are started and then forgotten: two close commands are enough, the first
  `reinitialize()` starts the timer, the next check the modules, and the second
  `reinitialize()` loads the table anew. With an exclusive module (none is shipped) the
  terminal need not come back.

## 6. Not modelled

* Payments: the online step of the active payment (its status keeps it out of the
  thread's queue), encashment, `LostChange`, priorities, parameters of the force
  command. The order of the queue is arbitrary, which includes the code's order, so
  starvation by order is no question to this model.
* `ChangeFlow`: saves that fail, the table of notes, cards. Notes given out but not
  reported when the program crashes are not counted.
* Acceptors: charge providers, rejected and cheated notes, initialisation, the wire
  protocols; a switch-off without a connection, which answers true and reports
  nothing until the next poll meets the error (PortCashAcceptor.cpp:355-358; the silent
  answer false to a switch-on is in). Dispensers: the setting of nominals, the records
  of notes, the time until a poll tells that a device has an error or has lost it.
* `WatchService`: splash screen, memory report, a start that fails, the reboot after
  85 vain attempts. `UpdateEngine`: BITS, the list of components and its signature
  (it decides what `Components` is), the integrity check, configurations and user
  packs, reports to the server, the exception directories.
* `PrintingService` (a receipt is a file that a retry prints again), `NetworkService`
  (seen as `connected`; the dial-up is driven by the system), `RemoteService` (its
  payment commands are in `PaymentProtocol`), `SchedulerService` (starts tasks by
  time), `TerminalService` (aggregates states for the screens), `NetworkTaskManager`
  and `RequestSender` (their errors are the lost requests), commissions and settings
  (arithmetic on reals, files), user interface, drivers, graphics, third-party code.
  `PROJECT.json` gives the reason for each. Most of the repository by size is
  vendored code, generated wrappers and device protocols.

## 7. Assumptions about the surroundings

The gateway (`CyberplatServer`): once STATUS has answered that a session was not
paid, that session is never paid afterwards (ErrorCodes.h: start again with a new
session number); a session is checked at most once and paid at most once; session
numbers, made of the time and a random number, do not repeat. The database: a save
is one transaction. The file system: a copy or deletion is done, or fails, or is
cut short by a power failure in the file being written, and no other; a hash
tells such a file. After a power failure the system starts the service.

The dispensers (`CashDispenser`): a report may say less than came out, never more, and
never more than the batch; a unit is reported empty only when it is; nobody loads notes
while a customer is paid out.

## 8. What could come next

The online step of the active payment, with the worker that runs it, as a third
writer in `PaymentStore`; failed saves in `ChangeFlow`, and its composition with
`CashAcceptor`, so that `accepting` there is derived; encashment and the table of
notes; the dates of the queue, for starvation.
