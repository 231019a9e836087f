----------------------------- MODULE CashAcceptor -----------------------------
(***************************************************************************)
(* Accepting cash: CashAcceptorManager (main thread), the drivers of the     *)
(* acceptors (a thread each, CashAcceptorDriver) and the scenario that calls *)
(* the manager (cash_charge_scenario.js, main thread).                       *)
(*                                                                           *)
(* A signal of a driver is queued for the main thread and handled when the   *)
(* main thread is idle; enable() and disable() go through the acceptors one  *)
(* by one while the devices go on. Statuses that change nothing but counters *)
(* (rejected, cheated), charge providers (card plugins) and the change of a  *)
(* payment are left out.                                                     *)
(***************************************************************************)
EXTENDS CashAcceptorDriver, Integers, Sequences, FiniteSets

CONSTANTS
  Acceptors,      \* mDeviceList
  Bills,          \* the bill acceptors: they hold a note in escrow and may return it
  NumPayments,    \* payments 1..NumPayments are made one after the other
  Limit,          \* Limit[p]: MAX_AMOUNT_ALL of p
  Fixed,          \* payments of a fixed amount
  ChangeControl,  \* mDisableAmountOverflow
  Notes,          \* denominations
  MaxNotes,       \* bound: notes put in
  MaxVisits,      \* bound: visits to the charge screen
  MaxFaults,      \* bound: errors and failed switch-ons of the devices
  MaxVaried       \* bound: visits and faults together

ASSUME AcceptorsAssumption == Bills \subseteq Acceptors /\ IsFiniteSet(Acceptors)
ASSUME LimitAssumption == Limit \in [1..NumPayments -> Nat \ {0}]
ASSUME NotesAssumption == Notes \subseteq Nat \ {0} /\ \E n \in Notes : \A m \in Notes : m <= n
ASSUME ControlAssumption == ChangeControl \in BOOLEAN /\ Fixed \subseteq 1..NumPayments
ASSUME BoundsAssumption ==
  NumPayments \in Nat \ {0} /\ {MaxNotes, MaxVisits, MaxFaults, MaxVaried} \subseteq Nat

VARIABLES
  dev,       \* dev[a]: the device and its driver
  events,    \* signals queued for the main thread
  session,   \* mPaymentData: pay, max, amount, valid (validators)
  main,      \* the call of the main thread in progress
  ui,        \* where the charge scenario is
  pay,       \* getActivePaymentID()
  again,     \* validatorEnabled, as the disable state reads it
  booked,    \* booked[p]: notes of p in the database (addPaymentNote)
  orderedFor, \* orderedFor[a]: the payment for which a note was last ordered to be stacked
  lost,      \* notes logged as stacked without a payment
  unheard,   \* acceptors that have stacked a note while nobody was subscribed
  refused,   \* disable() has answered false
  bounds     \* used up of the bounds

devVars == <<dev, events>>
uiVars == <<ui, pay, again>>
moneyVars == <<booked, orderedFor, lost, unheard>>
vars == <<devVars, session, main, uiVars, moneyVars, refused, bounds>>

Idle == [op |-> "idle", todo |-> {}, cur |-> {}, failed |-> FALSE]
NoSession == [pay |-> 0, max |-> 0, amount |-> 0, valid |-> {}]
Event(a, kind, n) == [acc |-> a, kind |-> kind, note |-> n]
Kinds == {"escrow", "stacked", "disabled", "error"}

TypeOK ==
  /\ dev \in [Acceptors -> Devices]
  /\ \A i \in DOMAIN events : events[i] \in [acc : Acceptors, kind : Kinds, note : Nat]
  /\ session \in [pay : 0..NumPayments, max : Int, amount : Nat, valid : SUBSET Acceptors]
  /\ main \in [op : {"idle", "enable", "subscribe", "disable"}, todo : SUBSET Acceptors,
               cur : SUBSET Acceptors, failed : BOOLEAN]
  /\ ui \in {"away", "charge", "disable", "linger", "leave", "failed"}
  /\ pay \in 1..NumPayments /\ again \in BOOLEAN /\ refused \in BOOLEAN
  /\ booked \in [1..NumPayments -> Nat] /\ orderedFor \in [Acceptors -> 0..NumPayments]
  /\ lost \in Nat /\ unheard \subseteq Acceptors
  /\ bounds \in [notes : 0..MaxNotes, visits : 0..MaxVisits, faults : 0..MaxFaults]

Init ==
  /\ dev = [a \in Acceptors |-> Fresh]
  /\ events = <<>>
  /\ session = NoSession
  /\ main = Idle
  /\ ui = "away" /\ pay = 1 /\ again = FALSE /\ refused = FALSE
  /\ booked = [p \in 1..NumPayments |-> 0] /\ orderedFor = [a \in Acceptors |-> 0]
  /\ lost = 0 /\ unheard = {}
  /\ bounds = [notes |-> 0, visits |-> 0, faults |-> 0]

-----------------------------------------------------------------------------
(* The manager. *)

\* SPaymentData::maxAmountReached(): a maximum of 0 is no maximum.
MaxAmountReached(s) == s.max # 0 /\ s.amount >= s.max

\* enable(): the session it leaves, before the acceptors are switched on.
SessionFor(s, p, max) ==
  IF s.pay = p
  THEN IF s.amount = 0 THEN [s EXCEPT !.max = max] ELSE s
  ELSE [NoSession EXCEPT !.pay = p, !.max = max]

\* enable(p, max) has been called.
Enable(p, max) ==
  LET s == SessionFor(session, p, max)
  IN  /\ session' = s
      /\ main' = [main EXCEPT !.op = "enable",
                              !.todo = IF MaxAmountReached(s) THEN {} ELSE Acceptors]

\* enable() and disable() return into onStatusChanged(), which reports the error
\* to the scenario; the scenario goes forward.
AfterCall(u) == IF main.failed /\ u \in {"disable", "linger", "leave"} THEN "failed" ELSE u

\* disabled(p) is emitted; the handler of the disable state, which looks at no
\* id, runs within. An enable() it calls has no maximum.
EmitDisabled ==
  IF ui = "disable" /\ again
  THEN /\ Enable(pay, 0)
       /\ ui' = "linger"
  ELSE /\ ui' = AfterCall(IF ui = "disable" THEN "leave" ELSE ui)
       /\ main' = Idle
       /\ UNCHANGED session

\* disable(p) has been called: with the data of another payment it only reports.
BeginDisable(p, s, failed) ==
  IF s.pay = p
  THEN /\ main' = [op |-> "disable", todo |-> s.valid, cur |-> {}, failed |-> failed]
       /\ refused' = FALSE
  ELSE /\ main' = [Idle EXCEPT !.op = "disable"]
       /\ refused' = TRUE

-----------------------------------------------------------------------------
(* A driver: its record becomes d, and what it emits is queued. The timer of *)
(* a bill acceptor runs for 0 ms.                                            *)

Becomes(a, d, emitted) ==
  LET now == a \in Bills /\ d.timers > 0
  IN  /\ dev' = [dev EXCEPT ![a] = IF now THEN [d EXCEPT !.timers = 0] ELSE d]
      /\ events' = events \o emitted
                          \o (IF now THEN <<Event(a, "disabled", 0)>> ELSE <<>>)

MayFail == bounds.faults < MaxFaults /\ bounds.visits + bounds.faults < MaxVaried

\* One acceptor of the loop in enable(): a device in error is not ready, one
\* that obeys is subscribed to in a second step.
EnableAcceptor(a) ==
  /\ main.op = "enable" /\ a \in main.todo
  /\ IF dev[a].err
     THEN /\ main' = [main EXCEPT !.todo = @ \ {a}]
          /\ UNCHANGED <<devVars, bounds>>
     ELSE \E r \in SwitchedOn(dev[a]) :
            /\ r.ok \/ MayFail
            /\ Becomes(a, r.dev, <<>>)
            /\ main' = [main EXCEPT !.todo = @ \ {a},
                                    !.op = IF r.ok THEN "subscribe" ELSE "enable",
                                    !.cur = IF r.ok THEN {a} ELSE {}]
            /\ bounds' = [bounds EXCEPT !.faults = IF r.ok THEN @ ELSE @ + 1]
  /\ UNCHANGED <<session, uiVars, moneyVars, refused>>

SubscribeAcceptor ==
  /\ main.op = "subscribe"
  /\ dev' = [a \in Acceptors |-> [dev[a] EXCEPT !.sub = @ \/ a \in main.cur]]
  /\ session' = [session EXCEPT !.valid = @ \union main.cur]
  /\ main' = [main EXCEPT !.op = "enable", !.cur = {}]
  /\ UNCHANGED <<events, uiVars, moneyVars, refused, bounds>>

\* The scenario goes back when there is nothing to take money with.
EnableReturns ==
  /\ main.op = "enable" /\ main.todo = {}
  /\ main' = Idle
  /\ ui' = IF ui = "charge" /\ session.valid = {} THEN "failed" ELSE AfterCall(ui)
  /\ UNCHANGED <<devVars, session, pay, again, moneyVars, refused, bounds>>

\* One acceptor of the loop in disable().
DisableAcceptor(a) ==
  /\ main.op = "disable" /\ a \in main.todo
  /\ \E r \in SwitchedOff(dev[a], a \in Bills, FALSE) :
       Becomes(a, r.dev, IF r.sent THEN <<Event(a, "disabled", 0)>> ELSE <<>>)
  /\ main' = [main EXCEPT !.todo = @ \ {a}]
  /\ UNCHANGED <<session, uiVars, moneyVars, refused, bounds>>

\* Mutant: the session is not looked at, disable() reports as it returns.
DisableReturnsAndReports ==
  /\ main.op = "disable" /\ main.todo = {}
  /\ EmitDisabled
  /\ UNCHANGED <<devVars, pay, again, moneyVars, refused, bounds>>

\* disable() ends: with no acceptor left in the session it reports.
DisableReturns ==
  /\ main.op = "disable" /\ main.todo = {}
  /\ IF refused \/ session.valid = {}
     THEN EmitDisabled
     ELSE /\ main' = Idle
          /\ ui' = AfterCall(ui)
          /\ UNCHANGED session
  /\ UNCHANGED <<devVars, pay, again, moneyVars, refused, bounds>>

\* onEscrowChangeControl(): the note would make change.
WouldOverflow(a, n) ==
  /\ ChangeControl /\ a \in session.valid /\ session.pay \notin Fixed
  /\ booked[session.pay] + n > Limit[session.pay]

\* Mutants: onEscrow() without the limit, and without the change control.
AcceptsOverLimit(a, n) == a \in session.valid /\ ~WouldOverflow(a, n)
AcceptsChange(a, n) == a \in session.valid /\ ~MaxAmountReached(session)

\* onEscrow(): the note may be stacked.
Accepts(a, n) ==
  a \in session.valid /\ ~MaxAmountReached(session) /\ ~WouldOverflow(a, n)

OnEscrow(e) ==
  /\ e.kind = "escrow"
  /\ dev' = [dev EXCEPT ![e.acc] = IF Accepts(e.acc, e.note) THEN Stacking(@) ELSE Rejecting(@)]
  /\ orderedFor' = [orderedFor EXCEPT ![e.acc] =
                      IF dev[e.acc].path = "escrow" /\ dev'[e.acc].path = "stacking"
                      THEN session.pay ELSE @]
  /\ UNCHANGED <<session, main, ui, again, booked, lost, refused>>

\* onStacked(): the note is written and added, and the last one disables.
OnStacked(e) ==
  /\ e.kind = "stacked"
  /\ IF e.acc \in session.valid
     THEN LET s == [session EXCEPT !.amount = @ + e.note]
          IN  /\ session' = s
              /\ booked' = [booked EXCEPT ![s.pay] = @ + e.note]
              /\ again' = (again \/ ui \in {"charge", "disable", "linger"})
              /\ IF MaxAmountReached(s)
                 THEN BeginDisable(s.pay, s, FALSE)
                 ELSE UNCHANGED <<main, refused>>
              /\ UNCHANGED lost
     ELSE /\ lost' = lost + e.note
          /\ UNCHANGED <<session, main, again, booked, refused>>
  /\ UNCHANGED <<dev, ui, orderedFor>>

\* onStatusChanged(), Disabled: unsubscribed and removed from the session, as
\* whichever session there is now; the last one reports.
OnDisabled(e) ==
  /\ e.kind = "disabled"
  /\ dev' = [dev EXCEPT ![e.acc].sub = FALSE]
  /\ LET s == [session EXCEPT !.valid = @ \ {e.acc}]
     IN  /\ session' = s
         /\ main' = IF s.pay # 0 /\ s.valid = {} THEN [Idle EXCEPT !.op = "disable"] ELSE main
         /\ refused' = FALSE
  /\ UNCHANGED <<ui, again, booked, orderedFor, lost>>

\* onStatusChanged(), an error: whatever is accepted is stopped.
OnError(e) ==
  /\ e.kind = "error"
  /\ IF session.pay # 0
     THEN BeginDisable(session.pay, session, TRUE)
     ELSE UNCHANGED <<main, refused>>
  /\ UNCHANGED <<dev, session, ui, again, booked, orderedFor, lost>>

HandleEvent ==
  /\ main.op = "idle" /\ events # <<>>
  /\ events' = Tail(events)
  /\ LET e == Head(events) IN OnEscrow(e) \/ OnStacked(e) \/ OnDisabled(e) \/ OnError(e)
  /\ UNCHANGED <<pay, unheard, bounds>>

-----------------------------------------------------------------------------
(* The hardware and the threads of the drivers. *)

\* A note is put in. A coin cannot be held: it falls into the box. Taking a note
\* in lasts a second and more, so the signals of the note before it are handled
\* by then, and enable() has subscribed: the one assumption about time.
Insert(a, n) ==
  /\ dev[a].power = "on" /\ dev[a].path = "empty" /\ ~dev[a].err
  /\ a \notin main.cur
  /\ \A i \in DOMAIN events : events[i].acc # a
  /\ bounds.notes < MaxNotes
  /\ dev' = [dev EXCEPT ![a].note = n,
                       ![a].path = IF a \in Bills THEN "accepting" ELSE "stacking"]
  /\ bounds' = [bounds EXCEPT !.notes = @ + 1]
  /\ UNCHANGED <<events, session, main, uiVars, moneyVars, refused>>

\* The note is recognised and held; sendStatuses() is silent about it while a
\* switch-off is queued, and nobody hears it without a subscription.
Recognise(a) ==
  /\ dev[a].path = "accepting"
  /\ dev' = [dev EXCEPT ![a].path = "escrow"]
  /\ events' = IF dev[a].sub /\ ~dev[a].closing
               THEN Append(events, Event(a, "escrow", dev[a].note)) ELSE events
  /\ UNCHANGED <<session, main, uiVars, moneyVars, refused, bounds>>

\* The device gives the note back: not recognised, or held for too long.
GiveBack(a) ==
  /\ dev[a].path \in {"accepting", "escrow"}
  /\ dev' = [dev EXCEPT ![a].path = "empty", ![a].note = 0]
  /\ UNCHANGED <<events, session, main, uiVars, moneyVars, refused, bounds>>

\* The note is in the stacker.
Stacked(a) ==
  /\ dev[a].path = "stacking"
  /\ dev' = [dev EXCEPT ![a].path = "empty", ![a].note = 0]
  /\ IF dev[a].sub
     THEN /\ events' = Append(events, Event(a, "stacked", dev[a].note))
          /\ UNCHANGED unheard
     ELSE /\ unheard' = unheard \union {a}
          /\ UNCHANGED events
  /\ UNCHANGED <<session, main, uiVars, booked, orderedFor, lost, refused, bounds>>

\* The device reports an error and takes no notes; a note in the path stays the
\* customer's.
Fail(a) ==
  /\ ~dev[a].err /\ MayFail
  /\ dev' = [dev EXCEPT ![a].err = TRUE, ![a].power = "off", ![a].path = "empty",
                       ![a].note = 0]
  /\ events' = Append(events, Event(a, "error", 0))
  /\ bounds' = [bounds EXCEPT !.faults = @ + 1]
  /\ UNCHANGED <<session, main, uiVars, moneyVars, refused>>

Recover(a) ==
  /\ dev[a].err
  /\ dev' = [dev EXCEPT ![a].err = FALSE]
  /\ UNCHANGED <<events, session, main, uiVars, moneyVars, refused, bounds>>

\* processEnable(false), queued by setEnable(false), runs in the driver's thread.
RunClosing(a) ==
  /\ dev[a].closing
  /\ Becomes(a, Closed(dev[a]), <<>>)
  /\ UNCHANGED <<session, main, uiVars, moneyVars, refused, bounds>>

\* postPollingAction() of a poll.
Poll(a) ==
  /\ ~dev[a].closing
  /\ \/ /\ PollSwitchesOff(dev[a])
        /\ \E r \in SwitchedOff(dev[a], a \in Bills, TRUE) :
             Becomes(a, r.dev, IF r.sent THEN <<Event(a, "disabled", 0)>> ELSE <<>>)
     \/ /\ PollSwitchesOn(dev[a])
        /\ \E r \in SwitchedOn(dev[a]) : Becomes(a, r.dev, <<>>)
  /\ UNCHANGED <<session, main, uiVars, moneyVars, refused, bounds>>

\* onSendDisabled(), by the timer that processEnable(false) has started.
SendDisabled(a) ==
  /\ dev[a].timers > 0
  /\ dev' = [dev EXCEPT ![a].timers = @ - 1]
  /\ events' = Append(events, Event(a, "disabled", 0))
  /\ UNCHANGED <<session, main, uiVars, moneyVars, refused, bounds>>

-----------------------------------------------------------------------------
(* The scenario: a handler of it runs when the main thread is idle. *)

\* The charge screen opens for the active payment, or for the next one.
EnterCharge(p) ==
  /\ main.op = "idle" /\ ui = "away"
  /\ bounds.visits < MaxVisits /\ bounds.visits + bounds.faults < MaxVaried
  /\ booked[p] < Limit[p]
  /\ Enable(p, Limit[p] - booked[p])
  /\ pay' = p /\ ui' = "charge" /\ again' = FALSE
  /\ bounds' = [bounds EXCEPT !.visits = @ + 1]
  /\ UNCHANGED <<devVars, moneyVars, refused>>

\* Back or Abort, or the end of the disable state: onStop() disables and does
\* not wait. The disable state also ends by its timeout.
Leave ==
  /\ main.op = "idle" /\ ui \in {"charge", "disable", "linger", "leave", "failed"}
  /\ BeginDisable(pay, session, FALSE)
  /\ ui' = "away"
  /\ UNCHANGED <<devVars, session, pay, again, moneyVars, bounds>>

\* Forward or a timeout: the disable state waits for disabled().
Forward ==
  /\ main.op = "idle" /\ ui = "charge"
  /\ BeginDisable(pay, session, FALSE)
  /\ ui' = "disable" /\ again' = FALSE
  /\ UNCHANGED <<devVars, session, pay, moneyVars, bounds>>

Manager == SubscribeAcceptor \/ EnableReturns \/ DisableReturns \/ HandleEvent
           \/ \E a \in Acceptors : EnableAcceptor(a) \/ DisableAcceptor(a)
Driver(a) == Recognise(a) \/ GiveBack(a) \/ Stacked(a) \/ RunClosing(a) \/ Poll(a) \/ SendDisabled(a)
Customer(a) == (\E n \in Notes : Insert(a, n)) \/ Fail(a) \/ Recover(a)
Scenario == Leave \/ Forward \/ \E p \in {pay, pay + 1} \cap (1..NumPayments) : EnterCharge(p)

Next == Manager \/ Scenario \/ \E a \in Acceptors : Driver(a) \/ Customer(a)

Spec == Init /\ [][Next]_vars

-----------------------------------------------------------------------------
(* Properties. *)

MaxNote == CHOOSE n \in Notes : \A m \in Notes : m <= n

\* Each acceptor oversteps the limit of a payment by less than one note, with
\* notes held by several acceptors at once, a session that ends under a note
\* and one that is resumed (onEscrow, onStacked, enable; bill acceptors).
LimitKept == \A p \in 1..NumPayments :
  booked[p] < Limit[p] + Cardinality(Bills) * MaxNote

\* With the change control only the notes that the other acceptors had in hand
\* when the last one was accepted can make change (onEscrowChangeControl compares
\* with the notes booked so far). A note of the payment before that is booked
\* late was compared with another limit: it makes change of a limit below it.
NoChange == \A p \in (1..NumPayments) \ Fixed :
  booked[p] <= (IF Limit[p] < MaxNote THEN MaxNote ELSE Limit[p])
               + (Cardinality(Bills) - 1) * MaxNote

\* A note of acceptor a is stacked, or reported as stacked, and not yet booked.
Outstanding(a) ==
  \/ dev[a].path = "stacking"
  \/ \E i \in DOMAIN events : events[i].acc = a /\ events[i].kind = "stacked"

\* When the disable state has been told that the acceptors are off and goes on
\* to the processing of the payment, no bill is still to be booked for it
\* (disabled() follows the last Stacked; disableEnterHandler).
BookedBeforeProcessing ==
  ui = "leave" => \A a \in Bills : orderedFor[a] = pay => ~Outstanding(a)

\* No bill gets into the stacker unheard: the poll repeats a switch-on that has
\* failed, and then nobody is subscribed, but a bill waits in escrow for an order
\* that only a subscriber gives, and Disabled, which ends the subscription,
\* follows Stacked (enable, postPollingAction, sendStatuses). A coin does not wait.
BillsAreHeard == unheard \intersect Bills = {}

\* Whoever waits in the disable state is answered (disable, postPollingAction:
\* every acceptor of the session ends in a Disabled).
DisableAnswered == ui = "disable" ~> ui # "disable"

-----------------------------------------------------------------------------
\* The main thread handles what is queued, a driver polls its
\* device, and the device does not hold a note for ever.
FairSpec == Spec /\ WF_vars(Manager) /\ \A a \in Acceptors : WF_vars(Driver(a))

=============================================================================
