------------------------------ MODULE ChangeFlow ------------------------------
(***************************************************************************)
(* Where the customer's money is booked: notes, the sums of the payments     *)
(* and the change payment of PaymentService (PaymentService.cpp), with the   *)
(* screens that call it and the acceptor and dispenser that report to it.    *)
(*                                                                           *)
(* All of it runs in the main thread. A handler changes the objects in       *)
(* memory and saves rows one after the other; the program may crash between  *)
(* two saves, so the saves still to be done are kept in `todo`, and the next *)
(* handler starts when it is empty. A save that fails, encashment, and the   *)
(* other threads' copies of a payment are not modelled here. Commission is   *)
(* part of AMOUNT_ALL.                                                       *)
(***************************************************************************)
EXTENDS Integers, Sequences, FiniteSets

CONSTANTS
  Payments,     \* payments that are funded, each created once
  Limit,        \* Limit[p]: MAX_AMOUNT_ALL of p
  Notes,        \* denominations
  None,
  MaxCash,      \* bound: what the customers put in
  MaxCrashes    \* bound: crashes

ASSUME LimitAssumption == Limit \in [Payments -> Nat \ {0}]
ASSUME NotesAssumption == Notes \subseteq Nat \ {0}
ASSUME NoneAssumption == None \notin Payments \union Nat \union [all : Nat, change : Nat]
ASSUME BoundsAssumption == MaxCash \in Nat /\ MaxCrashes \in Nat

VARIABLES
  active,     \* mActivePayment: its id, or None
  object,     \* the sums in memory of the active payment
  row,        \* row[p]: the saved sums of p, or None: not created yet
  change,     \* AMOUNT_ALL of mChangePayment, or None: there is no such object
  changeRow,  \* the saved amount of the row of mChangePayment
  closedRows, \* amounts of change rows that mChangePayment has left behind
  todo,       \* what the running handler still has to do
  session,    \* mPaymentData->paymentId: the payment that notes are credited to
  accepting,  \* an acceptor of the session may still stack a note
  offer,      \* mAvaliableAmount: what the result screen offers to give out
  giving,     \* what the dispenser was told to give out and has not reported
  cash,       \* notes the customers put in
  out,        \* notes given out
  inHand,     \* what the running handler moves and no row holds in between
  gone,       \* what was in hand in a crash
  crashes,
  mixedUp     \* a handler met a change payment that was not the one it assumed

moneyVars == <<active, object, row, change, changeRow, closedRows, todo, inHand>>
deviceVars == <<session, accepting, offer, giving>>
ghostVars == <<cash, out, gone, crashes, mixedUp>>
vars == <<moneyVars, deviceVars, ghostVars>>

Sums == [all : Nat, change : Nat]
Empty == [all |-> 0, change |-> 0]

\* Faulty: the limit is not applied.
RecalculatedWithoutLimit(p, amount) == [all |-> amount, change |-> 0]

\* calculateCommission(): what exceeds the limit is change.
Recalculated(p, amount) ==
  IF amount > Limit[p]
    THEN [all |-> Limit[p], change |-> amount - Limit[p]]
    ELSE [all |-> amount, change |-> 0]

\* getChangeAmount()
ChangeAmount == IF change = None THEN 0 ELSE change

\* getPayment(): the active object, or one made from the row.
Loaded(p) == IF p = active THEN object ELSE row[p]

Idle == todo = <<>>

SavePayment(p, sums) == [do |-> "payment", of |-> p, sums |-> sums]
SaveChange(amount) == [do |-> "change", amount |-> amount]
CloseChange(amount) == [do |-> "close", amount |-> amount]
EnableAcceptor == [do |-> "enable"]

\* The handler has changed payment p to `sums`: so has the active object.
InMemory(p, sums) ==
  object' = IF p = active THEN sums ELSE object

TypeOK ==
  /\ active \in Payments \cup {None}
  /\ object \in Sums
  /\ \A p \in Payments : row[p] = None \/ row[p] \in Sums
  /\ change = None \/ change \in Nat
  /\ {changeRow, closedRows, offer, giving, cash, out, inHand, gone, crashes} \subseteq Nat
  /\ session \in Payments \cup {None}
  /\ accepting \in BOOLEAN /\ mixedUp \in BOOLEAN
  /\ active # None => row[active] # None /\ object.all <= Limit[active]
  /\ session # None => row[session] # None

Init ==
  /\ active = None /\ object = Empty
  /\ row = [p \in Payments |-> None]
  /\ change = None /\ changeRow = 0 /\ closedRows = 0
  /\ todo = <<>> /\ inHand = 0
  /\ session = None /\ accepting = FALSE
  /\ offer = 0 /\ giving = 0
  /\ cash = 0 /\ out = 0 /\ gone = 0 /\ crashes = 0 /\ mixedUp = FALSE

-----------------------------------------------------------------------------
(* The screens. *)

\* createPayment(): an active payment is dropped as it is.
CreatePayment(p) ==
  /\ Idle /\ row[p] = None
  /\ active' = p /\ object' = Empty
  /\ row' = [row EXCEPT ![p] = Empty]
  /\ UNCHANGED <<change, changeRow, closedRows, todo, inHand, deviceVars, ghostVars>>

\* moveChangeToPayment(active): the change payment keeps what does not fit and
\* is saved first. The screen enables the acceptor afterwards.
MoveChangeToPayment ==
  LET sums == Recalculated(active, object.all + change) IN
  /\ ChangeAmount # 0
  /\ object' = sums
  /\ change' = sums.change
  /\ inHand' = change - sums.change
  /\ todo' = <<SaveChange(sums.change), SavePayment(active, sums), EnableAcceptor>>

\* chargeEnterHandler(): use the change, then let the acceptor run if there is
\* room.
ChargeEnter ==
  /\ Idle /\ active # None
  /\ \/ MoveChangeToPayment
     \/ /\ ChangeAmount = 0
        /\ todo' = <<EnableAcceptor>>
        /\ UNCHANGED <<object, change, inHand>>
  /\ UNCHANGED <<active, row, changeRow, closedRows, deviceVars, ghostVars>>

\* What the change payment holds after the move.
Together == ChangeAmount + object.all

\* The sums of the active payment become `left`, their amount goes to the
\* change payment; setChangeAmount() creates it if there is none.
MovePayment(left, saves) ==
  /\ Idle /\ active # None /\ Together # 0
  /\ change' = Together
  /\ object' = left
  /\ todo' = saves
  /\ UNCHANGED <<active, row, changeRow, closedRows, inHand, deviceVars, ghostVars>>

\* Faulty: the payment keeps its sums.
MovePaymentKeepsSums ==
  MovePayment(object, <<SaveChange(Together), SavePayment(active, object)>>)

\* Faulty: the payment is emptied on disk before the change is saved.
MovePaymentEmptiedFirst ==
  MovePayment(Empty, <<SavePayment(active, Empty), SaveChange(Together)>>)

\* movePaymentToChange(active), from the back, abort and finish handlers: the
\* change payment is saved before the payment is emptied.
MovePaymentToChange ==
  MovePayment(Empty, <<SaveChange(Together), SavePayment(active, Empty)>>)

\* resetChange(): the change payment is closed as LostChange, or deleted when
\* it is empty.
ResetChange ==
  /\ Idle /\ change # None
  /\ change' = None
  /\ todo' = <<CloseChange(change)>>
  /\ UNCHANGED <<active, object, row, changeRow, closedRows, inHand, deviceVars, ghostVars>>

\* deactivatePayment(): save the active payment, drop it, and delete an empty
\* change payment.
DeactivatePayment ==
  /\ Idle /\ active # None
  /\ active' = None /\ object' = Empty
  /\ IF change = 0
       THEN change' = None /\ todo' = <<SavePayment(active, object), CloseChange(0)>>
       ELSE UNCHANGED change /\ todo' = <<SavePayment(active, object)>>
  /\ UNCHANGED <<row, changeRow, closedRows, inHand, deviceVars, ghostVars>>

\* canDispense(): the result screen caches what it offers.
OfferChange ==
  /\ Idle /\ active # None
  /\ \E a \in 0..ChangeAmount : offer' = a
  /\ UNCHANGED <<moneyVars, session, accepting, giving, ghostVars>>

\* dispense(): give out what was offered.
Dispense ==
  /\ Idle /\ offer # 0 /\ giving = 0
  /\ giving' = offer /\ offer' = 0
  /\ UNCHANGED <<moneyVars, session, accepting, ghostVars>>

-----------------------------------------------------------------------------
(* The devices. *)

\* onStacked() and onAmountUpdated(): the note and the change the payment knows
\* of are added to the payment, and the change payment is set to its new
\* change, if any.
NoteStacked(n) ==
  LET before == Loaded(session)
      sums == Recalculated(session, before.all + before.change + n)
      save == SavePayment(session, sums) IN
  /\ Idle /\ accepting /\ cash + n <= MaxCash
  /\ cash' = cash + n
  /\ inHand' = n
  /\ InMemory(session, sums)
  /\ IF sums.change # 0
       THEN /\ change' = sums.change
            /\ todo' = <<save, SaveChange(sums.change)>>
            /\ mixedUp' = (mixedUp \/ before.change # ChangeAmount)
       ELSE /\ todo' = <<save>>
            /\ mixedUp' = (mixedUp \/ before.change # 0)
            /\ UNCHANGED change
  /\ UNCHANGED <<active, row, changeRow, closedRows, deviceVars, out, gone, crashes>>

\* The last acceptor of the session reports that it is off.
AcceptorsDisabled ==
  /\ Idle /\ accepting
  /\ accepting' = FALSE
  /\ UNCHANGED <<moneyVars, session, offer, giving, ghostVars>>

\* onAmountDispensed(): the dispenser reports what it has given out.
AmountDispensed(a) ==
  /\ Idle /\ a \in 1..giving
  /\ giving' = 0
  /\ out' = out + a
  /\ mixedUp' = (mixedUp \/ ChangeAmount < a)
  /\ IF change = None
       THEN UNCHANGED <<change, todo>>
       ELSE LET left == IF change >= a THEN change - a ELSE 0 IN
            change' = left /\ todo' = <<SaveChange(left)>>
  /\ UNCHANGED <<active, object, row, changeRow, closedRows, inHand,
                 session, accepting, offer, cash, gone, crashes>>

\* The dispenser gives nothing out and reports 0.
NothingDispensed ==
  /\ Idle /\ giving # 0
  /\ giving' = 0
  /\ UNCHANGED <<moneyVars, session, accepting, offer, ghostVars>>

-----------------------------------------------------------------------------
(* The saves of a handler, in order, and a crash between them. *)

\* enable(): a payment with room becomes the one that notes are credited to.
Enable ==
  IF object.all < Limit[active]
    THEN session' = active /\ accepting' = TRUE
    ELSE UNCHANGED <<session, accepting>>

Step ==
  /\ ~Idle
  /\ todo' = Tail(todo)
  /\ inHand' = IF Len(todo) = 1 THEN 0 ELSE inHand
  /\ LET s == Head(todo) IN
     \/ /\ s.do = "payment"
        /\ row' = [row EXCEPT ![s.of] = s.sums]
        /\ UNCHANGED <<changeRow, closedRows, session, accepting>>
     \/ /\ s.do = "change"
        /\ changeRow' = s.amount
        /\ UNCHANGED <<row, closedRows, session, accepting>>
     \/ /\ s.do = "close"
        /\ closedRows' = closedRows + s.amount
        /\ changeRow' = 0
        /\ UNCHANGED <<row, session, accepting>>
     \/ /\ s.do = "enable"
        /\ Enable
        /\ UNCHANGED <<row, changeRow, closedRows>>
  /\ UNCHANGED <<active, object, change, offer, giving, ghostVars>>

\* The program ends between two saves or two handlers; the row of the change
\* payment stays, and no object leads to it any more.
Crash ==
  /\ crashes < MaxCrashes
  /\ crashes' = crashes + 1
  /\ active' = None /\ object' = Empty /\ change' = None
  /\ closedRows' = closedRows + changeRow /\ changeRow' = 0
  /\ todo' = <<>> /\ inHand' = 0 /\ gone' = gone + inHand
  /\ session' = None /\ accepting' = FALSE /\ offer' = 0
  /\ giving' = 0
  /\ UNCHANGED <<row, cash, out, mixedUp>>

Next ==
  \/ \E p \in Payments : CreatePayment(p)
  \/ ChargeEnter
  \/ MovePaymentToChange
  \/ ResetChange
  \/ DeactivatePayment
  \/ OfferChange
  \/ Dispense
  \/ \E n \in Notes : NoteStacked(n)
  \/ AcceptorsDisabled
  \/ \E a \in 1..MaxCash : AmountDispensed(a)
  \/ NothingDispensed
  \/ Step
  \/ Crash

Spec == Init /\ [][Next]_vars

-----------------------------------------------------------------------------
(* Properties *)

\* The money on all rows of the database; on those of the payments as a set of
\* units.
Amount(p) == IF row[p] = None THEN 0 ELSE row[p].all
OnPayments == UNION {{p} \X (1..Amount(p)) : p \in Payments}
Saved == Cardinality(OnPayments) + changeRow + closedRows

\* Between two handlers every note is booked exactly once: on the payments, on
\* the change payment, on the changes left behind or as given out. It holds
\* until a crash or until a note or a report of the dispenser meets a change
\* payment that is not the one it assumes (onAmountUpdated() takes the CHANGE
\* of the payment for the amount of the change payment).
BookedOnce ==
  Idle /\ crashes = 0 /\ ~mixedUp => cash = Saved + out

\* onAmountUpdated() lets a payment "recalculate its sums, the change included":
\* whatever the order of notes, screens and reports, the database lacks no more
\* than what the handler has in hand, or had in hand when the program crashed.
NotesAreBooked == cash <= Saved + out + inHand + gone

\* The same, crashes between any two saves included, as long as no note and no
\* report of the dispenser has met a change payment other than the one it
\* assumes: each pair of saves is in an order that risks only what the handler
\* moves.
NothingLost == ~mixedUp => NotesAreBooked

=============================================================================
