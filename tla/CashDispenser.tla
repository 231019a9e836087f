---------------------------- MODULE CashDispenser ----------------------------
(***************************************************************************)
(* Paying out the change: CashDispenserManager (main thread), the drivers of *)
(* the dispensers (a thread each; DispenserBase, PuloonLCDM, SuzoHopper), the *)
(* scenario that asks (Scripting::FundsService, cash_dispense_scenario.js)   *)
(* and PaymentService, which takes what was paid out off the change.         *)
(*                                                                          *)
(* A request is paid out batch by batch, one unit at a time; the signals of  *)
(* a driver are queued for the main thread. What a driver reports need not be *)
(* what came out: answers of the device are lost, commands are repeated. A   *)
(* dispenser has one unit here, and its status is known at once. Nothing is  *)
(* loaded meanwhile.                                                        *)
(***************************************************************************)
EXTENDS Integers, FiniteSets, Sequences

CONSTANTS
  Units,       \* units of the dispensers
  Nominal,     \* nominal of each
  Stock,       \* notes in each at first
  Change,      \* the change at first
  MaxCalls,    \* bound: calls of dispense() by the scenario
  MaxFaults,   \* bound: jams, rejected notes, lost answers, silence and errors
  CommandMaxIteration \* times a command is sent that is not answered

ASSUME UnitsAssumption == IsFiniteSet(Units)
ASSUME NominalAssumption == Nominal \in [Units -> Nat \ {0}] /\ Stock \in [Units -> Nat]
ASSUME BoundsAssumption == {Change, MaxCalls, MaxFaults, CommandMaxIteration} \subseteq Nat

VARIABLES
  stock,      \* notes in the unit
  job,        \* job[u]: batches the driver is asked for (performDispense, queued)
  error,      \* units whose device reports an error
  known,      \* known[u]: the driver takes the unit for not empty (mUnitData)
  events,     \* signals queued for the main thread
  count,      \* mCurrencyCashList
  amounts,    \* mAmounts: toDispensing, dispensed
  main,       \* where onDispensed() is
  available,  \* mAvaliableAmount of the scenario
  waiting,    \* the scenario waits for dispensed()
  change,     \* the change in PaymentService
  bounds,     \* used up of the bounds
              \* For the properties only:
  paid,       \* paid out in all
  gone,       \* gone[u]: notes that have left the unit without a report
  untold,     \* paid out and never told to PaymentService, by a driver or the manager
  stale,      \* asked for beyond the change, which was paid out since canDispense()
  overdrawn,  \* reported beyond the change
  silent,     \* a driver has not answered
  crossed     \* a request has met the remains of another

deviceVars == <<stock, job, error, known>>
managerVars == <<count, amounts, main>>
scenarioVars == <<available, waiting>>
outVars == <<paid, gone, silent>>
ghostVars == <<outVars, untold, stale, overdrawn, crossed>>
vars == <<deviceVars, events, managerVars, scenarioVars, change, bounds, ghostVars>>

NoAmounts == [toDispensing |-> 0, dispensed |-> 0]
Event(u, kind, n) == [unit |-> u, kind |-> kind, items |-> n]

Init ==
  /\ stock = Stock /\ count = Stock
  /\ job = [u \in Units |-> <<>>]
  /\ error = {} /\ known = [u \in Units |-> Stock[u] # 0]
  /\ events = <<>> /\ amounts = NoAmounts /\ main = "idle"
  /\ available = 0 /\ waiting = FALSE
  /\ change = Change
  /\ paid = 0 /\ gone = [u \in Units |-> 0] /\ untold = 0 /\ stale = 0 /\ overdrawn = 0
  /\ silent = FALSE /\ crossed = FALSE
  /\ bounds = [calls |-> 0, faults |-> 0]

-----------------------------------------------------------------------------
(* What can be paid out. *)

Least(a, b) == IF a <= b THEN a ELSE b

\* getItemDataSet(): the units that can take part in paying out a.
Ready(u) == u \notin error /\ known[u]
Usable(a) == {u \in Units : Ready(u) /\ count[u] # 0 /\ Nominal[u] <= a}

\* The notes of a nominal that can take part.
CountOf(n, a) ==
  Cardinality(UNION {{u} \X (1 .. count[u]) : u \in {v \in Usable(a) : Nominal[v] = n}})

\* canDispense(): from the largest nominal down, as many notes as fit. found[i] is
\* what the i nominals from a down have come to.
CanDispense(a) ==
  LET found[i \in 0 .. a] ==
        IF i = 0 THEN 0
        ELSE LET sum == found[i - 1]
                 n   == a - i + 1
             IN  sum + n * Least(CountOf(n, a), (a - sum) \div n)
  IN  IF a > 0 THEN found[a] ELSE 0

\* getItemData() in dispense(): the largest nominal, from the first unit of it.
Largest(a) == {u \in Usable(a) : \A v \in Usable(a) : Nominal[v] <= Nominal[u]}

\* Mutant: the batch is not limited by the amount.
WholeUnit(u, a) == count[u]

Batch(u, a) == Least(count[u], a \div Nominal[u])

-----------------------------------------------------------------------------
(* The manager. *)

Beyond(a) == IF a <= change THEN 0 ELSE a - change

\* dispensed(a) is emitted: PaymentService takes it off the change, and the
\* scenario waits no more.
Report(a) ==
  /\ change' = IF a <= change THEN change - a ELSE 0
  /\ overdrawn' = overdrawn + Beyond(a)
  /\ waiting' = FALSE

\* dispense(a): a unit is asked for a batch. An amount is stored only when no
\* other is being paid out.
SendBatch(a) ==
  /\ amounts' = IF amounts = NoAmounts THEN [NoAmounts EXCEPT !.toDispensing = a] ELSE amounts
  /\ \E u \in Largest(a) : job' = [job EXCEPT ![u] = Append(@, Batch(u, a))]
  /\ UNCHANGED <<change, overdrawn, untold>>

\* dispense(a) with nothing to pay out from: 0 is reported, whatever was paid.
ReportNothing ==
  /\ amounts' = NoAmounts
  /\ Report(0)
  /\ untold' = untold + amounts.dispensed
  /\ UNCHANGED job

\* Scripting::FundsService: canDispense(), and later dispense() of what it found.
AskCanDispense ==
  /\ main = "idle" /\ ~waiting
  /\ available' = CanDispense(change)
  /\ UNCHANGED <<deviceVars, events, managerVars, waiting, change, bounds, ghostVars>>

AskDispense ==
  /\ main = "idle" /\ ~waiting /\ available # 0 /\ bounds.calls < MaxCalls
  /\ \/ Usable(available) # {} /\ SendBatch(available) /\ waiting' = TRUE
     \/ Usable(available) = {} /\ ReportNothing
  /\ available' = 0
  /\ stale' = stale + Beyond(available)
  /\ crossed' = (crossed \/ amounts # NoAmounts)
  /\ bounds' = [bounds EXCEPT !.calls = @ + 1]
  /\ UNCHANGED <<stock, error, known, events, count, main, outVars>>

\* The state of the scenario ends by its timeout of 180 s.
GiveUp ==
  /\ main = "idle" /\ waiting
  /\ waiting' = FALSE
  /\ UNCHANGED <<deviceVars, events, managerVars, available, change, bounds, ghostVars>>

\* Mutant: counted off below zero.
CountOffAll(e) ==
  /\ count' = [count EXCEPT ![e.unit] = @ - e.items]
  /\ known' = [known EXCEPT ![e.unit] = @ /\ count'[e.unit] # 0]

\* handleSignal(): the notes are counted off, never below zero; of a unit that
\* comes to zero the driver is told.
CountOff(e) ==
  /\ count' = [count EXCEPT ![e.unit] = @ - Least(e.items, @)]
  /\ known' = [known EXCEPT ![e.unit] = @ /\ count'[e.unit] # 0]

\* Mutant: the batches before are forgotten.
AddedAlone(a) == [toDispensing |-> amounts.toDispensing - a, dispensed |-> a]

\* mAmounts += SAmounts(-a, a).
Added(a) == [toDispensing |-> amounts.toDispensing - a, dispensed |-> amounts.dispensed + a]

\* onDispensed(): the notes are booked; whether more can be paid out is a step
\* of its own, and so is the next batch, because the devices go on meanwhile.
OnDispensed(e) ==
  /\ e.kind = "dispensed"
  /\ CountOff(e)
  /\ amounts' = Added(e.items * Nominal[e.unit])
  /\ main' = "decide"

\* Mutant: rejected notes stay on the list.
RejectedIgnored(e) ==
  /\ e.kind = "rejected"
  /\ UNCHANGED <<count, known, amounts, main>>

OnRejected(e) ==
  /\ e.kind = "rejected"
  /\ CountOff(e)
  /\ UNCHANGED <<amounts, main>>

OnUnitEmpty(e) ==
  /\ e.kind = "empty"
  /\ count' = [count EXCEPT ![e.unit] = 0]
  /\ UNCHANGED <<known, amounts, main>>

HandleEvent ==
  /\ main = "idle" /\ events # <<>>
  /\ events' = Tail(events)
  /\ LET e == Head(events) IN OnDispensed(e) \/ OnRejected(e) \/ OnUnitEmpty(e)
  /\ UNCHANGED <<stock, job, error, scenarioVars, change, bounds, ghostVars>>

\* Mutant: only what was paid out in full is reported.
DecideInFull ==
  /\ main = "decide"
  /\ \/ /\ CanDispense(amounts.toDispensing) # 0
        /\ main' = "again"
        /\ UNCHANGED <<amounts, change, overdrawn, waiting>>
     \/ /\ amounts.toDispensing = 0
        /\ main' = "idle"
        /\ amounts' = NoAmounts /\ Report(amounts.dispensed)
  /\ UNCHANGED <<deviceVars, events, count, available, bounds, outVars, untold, stale, crossed>>

\* Another batch, or the report of what was paid out.
Decide ==
  /\ main = "decide"
  /\ \/ /\ CanDispense(amounts.toDispensing) # 0
        /\ main' = "again"
        /\ UNCHANGED <<amounts, change, overdrawn, waiting>>
     \/ /\ CanDispense(amounts.toDispensing) = 0
        /\ main' = "idle"
        /\ amounts' = NoAmounts /\ Report(amounts.dispensed)
  /\ UNCHANGED <<deviceVars, events, count, available, bounds, outVars, untold, stale, crossed>>

DispenseRest ==
  /\ main = "again"
  /\ main' = "idle"
  /\ LET rest == amounts.toDispensing
     IN  \/ /\ Usable(rest) # {} /\ SendBatch(rest)
            /\ UNCHANGED waiting
         \/ Usable(rest) = {} /\ ReportNothing
  /\ UNCHANGED <<stock, error, known, events, count, available, bounds, outVars, stale, crossed>>

-----------------------------------------------------------------------------
(* The drivers and the devices. *)

Fault == bounds.faults < MaxFaults /\ bounds' = [bounds EXCEPT !.faults = @ + 1]

\* k notes come out and r go to the reject box.
Leave(u, k, r) ==
  /\ stock' = [stock EXCEPT ![u] = @ - k - r]
  /\ paid' = paid + k * Nominal[u]

\* ... of which n and s are reported. A unit found empty is reported before them.
ComeOut(u, k, r, n, s) ==
  /\ Leave(u, k, r)
  /\ gone' = [gone EXCEPT ![u] = @ + (k - n) + (r - s)]
  /\ untold' = untold + (k - n) * Nominal[u]
  /\ \E empty \in {FALSE, stock'[u] = 0} :
       /\ known' = [known EXCEPT ![u] = @ /\ ~empty]
       /\ events' = events \o (IF empty THEN <<Event(u, "empty", 0)>> ELSE <<>>)
                           \o (IF s > 0 THEN <<Event(u, "rejected", s)>> ELSE <<>>)
                           \o <<Event(u, "dispensed", n)>>
  /\ UNCHANGED silent

NextJob(u) == job[u] # <<>> /\ job' = [job EXCEPT ![u] = Tail(@)]

\* The batch is paid out, as far as the unit has it, and is reported.
PayOut(u) ==
  /\ NextJob(u)
  /\ LET k == Least(Head(job[u]), stock[u]) IN ComeOut(u, k, 0, k, 0)
  /\ UNCHANGED <<error, managerVars, scenarioVars, change, bounds, stale, overdrawn, crossed>>

\* What can come out for a batch: a command that is not answered is sent again.
MostOut(u) == Least(CommandMaxIteration * Head(job[u]), stock[u])

\* A jam, rejected notes, or lost answers: n and s are what the last answers say.
PayOutAmiss(u) ==
  /\ NextJob(u) /\ Fault
  /\ \E k \in 0 .. MostOut(u) : \E r \in 0 .. stock[u] - k, n \in 0 .. Least(k, Head(job[u])) :
       \E s \in 0 .. r : ComeOut(u, k, r, n, s)
  /\ UNCHANGED <<error, managerVars, scenarioVars, change, stale, overdrawn, crossed>>

\* SuzoHopper::performDispense() returns on an error and reports nothing, be it
\* before the command to pay out is sent or after.
KeepSilent(u) ==
  /\ NextJob(u) /\ Fault
  /\ \E k \in 0 .. MostOut(u) :
       /\ Leave(u, k, 0)
       /\ gone' = [gone EXCEPT ![u] = @ + k]
       /\ untold' = untold + k * Nominal[u]
  /\ silent' = TRUE
  /\ UNCHANGED <<error, known, events, managerVars, scenarioVars, change, stale, overdrawn,
                 crossed>>

Fail(u) ==
  /\ u \notin error /\ Fault
  /\ error' = error \union {u}
  /\ UNCHANGED <<stock, job, known, events, managerVars, scenarioVars, change, ghostVars>>

Recover(u) ==
  /\ u \in error
  /\ error' = error \ {u}
  /\ UNCHANGED <<stock, job, known, events, managerVars, scenarioVars, change, bounds,
                 ghostVars>>

Manager == HandleEvent \/ Decide \/ DispenseRest
Scenario == AskCanDispense \/ AskDispense \/ GiveUp
Driver(u) == PayOut(u) \/ PayOutAmiss(u) \/ KeepSilent(u)

Next == Manager \/ Scenario \/ \E u \in Units : Driver(u) \/ Fail(u) \/ Recover(u)

Spec == Init /\ [][Next]_vars

\* The main thread handles what is queued, and a driver does what it is asked.
FairSpec == Spec /\ WF_vars(Manager) /\ \A u \in Units : WF_vars(Driver(u))

-----------------------------------------------------------------------------
(* Properties. *)

\* Type invariant.
TypeOK ==
  /\ {stock, count, gone} \subseteq [Units -> Nat]
  /\ known \in [Units -> BOOLEAN] /\ error \subseteq Units
  /\ job \in [Units -> Seq(Nat)]
  /\ events \in Seq([unit : Units, kind : {"dispensed", "rejected", "empty"}, items : Nat])
  /\ amounts \in [toDispensing : Int, dispensed : Nat]
  /\ main \in {"idle", "decide", "again"} /\ {waiting, silent, crossed} \subseteq BOOLEAN
  /\ {available, change, paid, untold, stale, overdrawn} \subseteq Nat
  /\ bounds \in [calls : 0..MaxCalls, faults : 0..MaxFaults]

\* What the driver has reported and the manager has not handled.
Worth(e) == IF e.kind = "dispensed" THEN e.items * Nominal[e.unit] ELSE 0

Unheard ==
  LET worth[i \in 0 .. Len(events)] ==
        IF i = 0 THEN 0 ELSE worth[i - 1] + Worth(events[i])
  IN  worth[Len(events)]

\* Whatever is lost on the way, every note that came out is taken off the change,
\* or booked, or reported, through partial batches, rejected notes, units that run
\* out and requests that cross: but for what was never told to PaymentService (a
\* lost answer of a device, or dispense() that reports 0 for the rest) and what
\* exceeds the change (onDispensed, onAmountDispensed).
PaidIsTakenOff ==
  paid = (Change - change) + amounts.dispensed + Unheard + untold + overdrawn

\* As long as no request meets the remains of another one, no more comes out than
\* the change, what was never told, and what a request asked for beyond the change
\* because its amount was found before (dispense, canDispense).
NotMoreThanChange == ~crossed => paid <= Change + untold + stale

\* With no signal of a unit on its way the manager counts what is in it and what
\* left it without a report, or knows that it is empty (handleSignal, onUnitEmpty).
CountsAreTrue ==
  \A u \in Units : (\A i \in DOMAIN events : events[i].unit # u) =>
    count[u] = stock[u] + gone[u] \/ (count[u] = 0 /\ stock[u] = 0)

\* A unit without notes that the manager counts on, since they left it without a
\* report.
RunDry(u) == stock[u] = 0 /\ gone[u] > 0 /\ count[u] > 0

\* A request is answered, unless a driver keeps silent or a unit has run dry: a
\* hopper does not say that it is empty, and is asked without end (onDispensed: a
\* batch is followed by another one or by the report).
RequestAnswered == waiting ~> (~waiting \/ silent \/ \E u \in Units : RunDry(u))
=============================================================================
