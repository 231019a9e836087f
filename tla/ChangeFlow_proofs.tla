-------------------------- MODULE ChangeFlow_proofs --------------------------
(***************************************************************************)
(* Proofs about ChangeFlow, for any payments, limits, notes and number of    *)
(* crashes.                                                                 *)
(***************************************************************************)
EXTENDS ChangeFlow, TLAPS, FunctionTheorems, FiniteSetTheorems

-----------------------------------------------------------------------------
\* The inductive invariant.

Money == Cardinality(OnPayments)
Surplus == Saved + out + gone - cash

\* A row holds no more than the limit. The units on the rows are finitely many:
\* they are an invariant too, as Cardinality means nothing otherwise.
RowInv ==
  /\ row \in [Payments -> Sums \union {None}]
  /\ \A p \in Payments : row[p] # None => row[p].all <= Limit[p]
  /\ IsFiniteSet(OnPayments)
  /\ accepting => session # None

\* A payment without a save to come is on its row as it is in memory, and so is
\* the change payment.
PaymentRests == active # None => object = row[active]
ChangeRests == changeRow = ChangeAmount

\* Payment p is to be saved with sums s, the change payment with a, or closed with a.
PaymentDue(p, s) ==
  /\ p \in Payments /\ s \in Sums /\ s.all <= Limit[p] /\ row[p] # None
  /\ active # None => object = IF active = p THEN s ELSE row[active]
ChangeDue(a) == a \in Nat /\ change = a
CloseDue(a) == a \in Nat /\ change = None

\* What a save adds to the rows.
Gain(p, s) == s.all - Amount(p)
ChangeGain(a) == a - changeRow

\* With x more on the rows the books balance; with x more nothing is missing but
\* what is in hand.
Balanced(x) == ~mixedUp => Surplus + x >= 0 /\ (crashes = 0 => Surplus + x = 0)
Covered(x) == ~mixedUp => Surplus + inHand + x >= 0

\* The saves to come, with what they bring.
Rest == todo = <<>> /\ PaymentRests /\ ChangeRests /\ Balanced(0) /\ inHand = 0

RestEnable ==
  todo = <<EnableAcceptor>> /\ PaymentRests /\ ChangeRests /\ Balanced(0) /\ active # None

OneChange(a) ==
  /\ todo = <<SaveChange(a)>>
  /\ PaymentRests /\ ChangeDue(a) /\ Balanced(ChangeGain(a))

OneClose(a) ==
  /\ todo = <<CloseChange(a)>>
  /\ PaymentRests /\ CloseDue(a) /\ Balanced(ChangeGain(a))

OnePayment(p, s) ==
  /\ todo = <<SavePayment(p, s)>>
  /\ PaymentDue(p, s) /\ ChangeRests /\ Balanced(Gain(p, s))

PaymentEnable(p, s) ==
  /\ todo = <<SavePayment(p, s), EnableAcceptor>> /\ active # None
  /\ PaymentDue(p, s) /\ ChangeRests /\ Balanced(Gain(p, s))

PaymentChange(p, s, a) ==
  /\ todo = <<SavePayment(p, s), SaveChange(a)>>
  /\ PaymentDue(p, s) /\ ChangeDue(a)
  /\ Balanced(Gain(p, s) + ChangeGain(a)) /\ Covered(Gain(p, s))

PaymentClose(p, s, a) ==
  /\ todo = <<SavePayment(p, s), CloseChange(a)>>
  /\ PaymentDue(p, s) /\ CloseDue(a)
  /\ Balanced(Gain(p, s) + ChangeGain(a)) /\ Covered(Gain(p, s))

ChangePayment(a, p, s) ==
  /\ todo = <<SaveChange(a), SavePayment(p, s)>>
  /\ PaymentDue(p, s) /\ ChangeDue(a)
  /\ Balanced(Gain(p, s) + ChangeGain(a)) /\ Covered(ChangeGain(a))

ChangePaymentEnable(a, p, s) ==
  /\ todo = <<SaveChange(a), SavePayment(p, s), EnableAcceptor>> /\ active # None
  /\ PaymentDue(p, s) /\ ChangeDue(a)
  /\ Balanced(Gain(p, s) + ChangeGain(a)) /\ Covered(ChangeGain(a))

ToDo ==
  \/ Rest \/ RestEnable
  \/ \E a \in Nat : OneChange(a) \/ OneClose(a)
  \/ \E p \in Payments, s \in Sums :
       \/ OnePayment(p, s) \/ PaymentEnable(p, s)
       \/ \E a \in Nat : \/ PaymentChange(p, s, a) \/ PaymentClose(p, s, a)
                         \/ ChangePayment(a, p, s) \/ ChangePaymentEnable(a, p, s)

GoneInv == crashes = 0 => gone = 0

IInv == TypeOK /\ RowInv /\ ToDo /\ Covered(0)

-----------------------------------------------------------------------------
\* Money on rows.

LEMMA UnitFacts ==
  ASSUME NEW p, NEW n \in Nat
  PROVE  IsFiniteSet({p} \X (1..n)) /\ Cardinality({p} \X (1..n)) = n
  <1> DEFINE f == [i \in 1..n |-> <<p, i>>]
  <1>1. f \in Bijection(1..n, {p} \X (1..n))
    <2>1. f \in [1..n -> {p} \X (1..n)]
      OBVIOUS
    <2>2. \A i, j \in 1..n : f[i] = f[j] => i = j
      OBVIOUS
    <2>3. \A u \in {p} \X (1..n) : \E i \in 1..n : f[i] = u
      OBVIOUS
    <2> HIDE DEF f
    <2>4. f \in Injection(1..n, {p} \X (1..n))
      BY <2>1, <2>2 DEF Injection, IsInjective
    <2>5. f \in Surjection(1..n, {p} \X (1..n))
      BY <2>1, <2>3 DEF Surjection
    <2> QED
      BY <2>4, <2>5 DEF Bijection
  <1>2. ExistsBijection(1..n, {p} \X (1..n))
    BY <1>1 DEF ExistsBijection
  <1>3. IsFiniteSet(1..n) /\ Cardinality(1..n) = n
    BY FS_Interval
  <1> QED
    BY <1>2, <1>3, FS_Bijection

LEMMA UnitsJoined ==
  ASSUME NEW S, NEW T, IsFiniteSet(S), IsFiniteSet(T), S \cap T = {}
  PROVE  IsFiniteSet(S \union T) /\ Cardinality(S \union T) = Cardinality(S) + Cardinality(T)
  <1>1. /\ IsFiniteSet(S \union T)
        /\ Cardinality(S \union T) = Cardinality(S) + Cardinality(T) - Cardinality(S \cap T)
    BY FS_Union
  <1>2. Cardinality(S \cap T) = 0
    BY FS_EmptySet
  <1>3. Cardinality(S) \in Nat /\ Cardinality(T) \in Nat
    BY FS_CardinalityType
  <1> QED
    BY <1>1, <1>2, <1>3

\* Another amount on one row.
LEMMA RowSaved ==
  ASSUME RowInv, NEW p \in Payments, NEW s \in Sums, row' = [row EXCEPT ![p] = s]
  PROVE  /\ row' \in [Payments -> Sums \union {None}] /\ row'[p] = s /\ s # None
         /\ \A q \in Payments \ {p} : row'[q] = row[q]
         /\ Amount(p) \in Nat
         /\ IsFiniteSet(OnPayments') /\ Money' = Money - Amount(p) + s.all
         /\ Money \in Nat
  <1>1. /\ row' \in [Payments -> Sums \union {None}] /\ row'[p] = s /\ s # None
        /\ \A q \in Payments \ {p} : row'[q] = row[q]
    BY NoneAssumption DEF RowInv, Sums
  <1>2. Amount(p) \in Nat /\ s.all \in Nat
    BY DEF RowInv, Amount, Sums
  <1> DEFINE A == {p} \X (1..Amount(p))
             B == {p} \X (1..s.all)
             R == OnPayments \ A
  <1>3. IsFiniteSet(A) /\ Cardinality(A) = Amount(p)
    BY <1>2, UnitFacts
  <1>4. IsFiniteSet(B) /\ Cardinality(B) = s.all
    BY <1>2, UnitFacts
  <1>5. IsFiniteSet(R)
    BY FS_Subset DEF RowInv
  <1>6. A \subseteq OnPayments /\ OnPayments = R \union A /\ R \cap A = {}
    BY DEF OnPayments
  <1>7. OnPayments' = R \union B /\ R \cap B = {}
    <2>1. \A u : u \in OnPayments <=> \E q \in Payments : u \in {q} \X (1..Amount(q))
      BY DEF OnPayments
    <2>2. \A u : u \in OnPayments' <=> \E q \in Payments : u \in {q} \X (1..Amount(q)')
      BY DEF OnPayments
    <2>3. Amount(p)' = s.all /\ \A q \in Payments \ {p} : Amount(q)' = Amount(q)
      BY <1>1 DEF Amount
    <2>4. \A u : u \in R <=> \E q \in Payments \ {p} : u \in {q} \X (1..Amount(q))
      BY <2>1
    <2>5. \A u : u \in OnPayments' <=> u \in R \/ u \in B
      BY <2>2, <2>3, <2>4
    <2> QED
      BY <2>4, <2>5
  <1> HIDE DEF A, B, R
  <1>8. Cardinality(OnPayments) = Cardinality(R) + Cardinality(A)
    BY <1>3, <1>5, <1>6, UnitsJoined
  <1>9. IsFiniteSet(OnPayments') /\ Cardinality(OnPayments') = Cardinality(R) + Cardinality(B)
    BY <1>4, <1>5, <1>7, UnitsJoined
  <1>10. Cardinality(R) \in Nat
    BY <1>5, FS_CardinalityType
  <1> QED
    BY <1>1, <1>2, <1>3, <1>4, <1>8, <1>9, <1>10 DEF Money

\* The numbers are numbers.
LEMMA NumberFacts ==
  ASSUME TypeOK, RowInv
  PROVE  /\ Money \in Nat /\ changeRow \in Nat /\ closedRows \in Nat /\ out \in Nat
         /\ gone \in Nat /\ cash \in Nat /\ inHand \in Nat /\ Saved \in Nat /\ Surplus \in Int
         /\ ChangeAmount \in Nat
         /\ \A p \in Payments : Amount(p) \in Nat
  <1>1. Money \in Nat
    BY FS_CardinalityType DEF RowInv, Money
  <1>2. \A p \in Payments : Amount(p) \in Nat
    BY DEF RowInv, Amount, Sums
  <1> QED
    BY <1>1, <1>2 DEF TypeOK, Saved, Surplus, Money, ChangeAmount

\* The three saves.
LEMMA PaymentSaved ==
  ASSUME TypeOK, RowInv, NEW p \in Payments, NEW s \in Sums, s.all <= Limit[p],
         row' = [row EXCEPT ![p] = s],
         UNCHANGED <<changeRow, closedRows, out, gone, cash, accepting, session>>
  PROVE  RowInv' /\ Surplus' = Surplus + Gain(p, s)
         /\ row'[p] = s /\ s # None /\ \A q \in Payments \ {p} : row'[q] = row[q]
  <1>1. RowInv'
    BY RowSaved DEF RowInv
  <1>2. Surplus' = Surplus + Gain(p, s)
    <2>1. s.all \in Nat /\ Amount(p) \in Nat /\ Money \in Nat
      BY NumberFacts DEF Sums
    <2>2. Money' = Money - Amount(p) + s.all
      BY RowSaved
    <2>3. /\ Saved = Money + changeRow + closedRows
          /\ Saved' = Money' + changeRow' + closedRows'
      BY DEF Saved, Money
    <2>4. {changeRow, closedRows, out, gone, cash} \subseteq Nat
      BY DEF TypeOK
    <2> HIDE DEF Money, Amount
    <2>5. Surplus = Money + changeRow + closedRows + out + gone - cash
      BY <2>1, <2>3, <2>4 DEF Surplus
    <2>6. Surplus' = Money' + changeRow + closedRows + out + gone - cash
      BY <2>1, <2>2, <2>3, <2>4 DEF Surplus
    <2> QED
      BY <2>1, <2>2, <2>4, <2>5, <2>6 DEF Gain
  <1> QED
    BY <1>1, <1>2, RowSaved

LEMMA ChangeSaved ==
  ASSUME TypeOK, RowInv, NEW a \in Nat,
         changeRow' = a, UNCHANGED <<row, closedRows, out, gone, cash, accepting, session>>
  PROVE  RowInv' /\ Surplus' = Surplus + ChangeGain(a)
  <1>1. OnPayments' = OnPayments
    BY DEF OnPayments, Amount
  <1>2. RowInv'
    BY <1>1 DEF RowInv
  <1> QED
    BY <1>1, <1>2, NumberFacts DEF Surplus, Saved, Money, ChangeGain

LEMMA ChangeClosed ==
  ASSUME TypeOK, RowInv, NEW a \in Nat,
         closedRows' = closedRows + a, changeRow' = 0,
         UNCHANGED <<row, out, gone, cash, accepting, session>>
  PROVE  RowInv' /\ Surplus' = Surplus + ChangeGain(a)
  <1>1. OnPayments' = OnPayments
    BY DEF OnPayments, Amount
  <1>2. RowInv'
    BY <1>1 DEF RowInv
  <1> QED
    BY <1>1, <1>2, NumberFacts DEF Surplus, Saved, Money, ChangeGain

\* No row is written.
LEMMA RowsStay ==
  ASSUME TypeOK, RowInv, UNCHANGED <<row, changeRow, closedRows>>, accepting' => session' # None
  PROVE  RowInv' /\ Saved' = Saved /\ Money' = Money /\ \A p \in Payments : Amount(p)' = Amount(p)
  <1>1. OnPayments' = OnPayments /\ \A p \in Payments : Amount(p)' = Amount(p)
    BY DEF OnPayments, Amount
  <1> QED
    BY <1>1 DEF RowInv, Saved, Money

LEMMA RecalculatedFacts ==
  ASSUME NEW p \in Payments, NEW amount \in Nat
  PROVE  /\ Recalculated(p, amount) \in Sums
         /\ Recalculated(p, amount).all <= Limit[p]
         /\ Recalculated(p, amount).all + Recalculated(p, amount).change = amount
         /\ Recalculated(p, amount).change = 0 \/ Recalculated(p, amount).all = Limit[p]
  BY LimitAssumption DEF Recalculated, Sums

-----------------------------------------------------------------------------
\* The handlers.

LEMMA IdleRests ==
  ASSUME IInv, Idle
  PROVE  Rest
  BY DEF IInv, Idle, ToDo, Rest, RestEnable, OneChange, OneClose, OnePayment, PaymentEnable,
         PaymentChange, PaymentClose, ChangePayment, ChangePaymentEnable

LEMMA ListFacts ==
  ASSUME NEW x, NEW y, NEW z
  PROVE  /\ Head(<<x>>) = x /\ Tail(<<x>>) = <<>> /\ Len(<<x>>) = 1
         /\ Head(<<x, y>>) = x /\ Tail(<<x, y>>) = <<y>> /\ Len(<<x, y>>) = 2
         /\ Head(<<x, y, z>>) = x /\ Tail(<<x, y, z>>) = <<y, z>> /\ Len(<<x, y, z>>) = 3
  OBVIOUS

LEMMA CreatePaymentStep ==
  ASSUME IInv, NEW p \in Payments, CreatePayment(p)
  PROVE  IInv'
  <1>1. Rest
    BY IdleRests DEF CreatePayment
  <1>2. /\ row[p] = None /\ active' = p /\ object' = Empty
        /\ row' = [row EXCEPT ![p] = Empty]
        /\ UNCHANGED <<change, changeRow, closedRows, todo, inHand, deviceVars, ghostVars>>
    BY DEF CreatePayment
  <1>3. Empty \in Sums /\ Empty.all = 0 /\ 0 <= Limit[p]
    BY LimitAssumption DEF Empty, Sums
  <1>4. /\ RowInv' /\ Surplus' = Surplus + Gain(p, Empty)
        /\ row'[p] = Empty /\ Empty # None /\ \A q \in Payments \ {p} : row'[q] = row[q]
    BY <1>2, <1>3, PaymentSaved DEF IInv, deviceVars, ghostVars
  <1>5. Gain(p, Empty) = 0
    BY <1>2, <1>3 DEF Gain, Amount
  <1>6. Surplus' = Surplus
    BY <1>4, <1>5, NumberFacts DEF IInv
  <1>7. TypeOK'
    BY <1>2, <1>3, <1>4, NoneAssumption DEF IInv, TypeOK, deviceVars, ghostVars
  <1>8. Rest'
    BY <1>1, <1>2, <1>4, <1>6
       DEF Rest, PaymentRests, ChangeRests, ChangeAmount, Balanced, ghostVars
  <1>9. Covered(0)'
    BY <1>2, <1>6 DEF IInv, Covered, ghostVars
  <1> QED
    BY <1>4, <1>7, <1>8, <1>9 DEF IInv, ToDo

\* A handler that writes no row and moves no money in memory.
LEMMA NothingMoves ==
  ASSUME IInv, Rest, TypeOK', accepting' => session' # None,
         UNCHANGED <<moneyVars, cash, out, gone, crashes, mixedUp>>
  PROVE  IInv'
  <1>1. RowInv' /\ Saved' = Saved
    BY RowsStay DEF IInv, moneyVars
  <1>2. Surplus' = Surplus
    BY <1>1 DEF Surplus
  <1>3. Rest'
    BY <1>2 DEF Rest, PaymentRests, ChangeRests, ChangeAmount, Balanced, moneyVars
  <1>4. Covered(0)'
    BY <1>2 DEF IInv, Covered, moneyVars
  <1> QED
    BY <1>1, <1>3, <1>4 DEF IInv, ToDo

LEMMA QuietSteps ==
  ASSUME IInv, OfferChange \/ Dispense \/ AcceptorsDisabled \/ NothingDispensed
  PROVE  IInv'
  <1>1. Rest
    BY IdleRests DEF OfferChange, Dispense, AcceptorsDisabled, NothingDispensed
  <1>2. ChangeAmount \in Nat
    BY NumberFacts DEF IInv
  <1>3. /\ UNCHANGED <<moneyVars, session, cash, out, gone, crashes, mixedUp>>
        /\ offer' \in Nat /\ giving' \in Nat /\ accepting' \in BOOLEAN
        /\ accepting' => accepting
    <2>1. /\ offer \in Nat /\ giving \in Nat /\ accepting \in BOOLEAN
      BY DEF IInv, TypeOK
    <2>2. CASE OfferChange
      BY <1>2, <2>1, <2>2 DEF OfferChange, ghostVars
    <2>3. CASE Dispense
      BY <2>1, <2>3 DEF Dispense, ghostVars
    <2>4. CASE AcceptorsDisabled
      BY <2>1, <2>4 DEF AcceptorsDisabled, ghostVars
    <2>5. CASE NothingDispensed
      BY <2>1, <2>5 DEF NothingDispensed, ghostVars
    <2> QED
      BY <2>2, <2>3, <2>4, <2>5
  <1>4. TypeOK' /\ (accepting' => session' # None)
    BY <1>3 DEF IInv, TypeOK, RowInv, moneyVars
  <1> QED
    BY <1>1, <1>3, <1>4, NothingMoves

\* What a payment at rest has, in numbers.
LEMMA ActiveFacts ==
  ASSUME IInv, Rest, active # None
  PROVE  /\ active \in Payments /\ row[active] = object /\ row[active] # None
         /\ object \in Sums /\ object.all \in Nat /\ object.change \in Nat
         /\ object.all <= Limit[active] /\ Amount(active) = object.all
         /\ Limit[active] \in Nat
  BY LimitAssumption DEF IInv, Rest, PaymentRests, TypeOK, Amount, Sums

\* A handler without a note or a report, the saves to come being todo'.
LEMMA RowsWait ==
  ASSUME IInv, Rest,
         UNCHANGED <<row, changeRow, closedRows, session, accepting, cash, out, gone,
                     crashes, mixedUp>>
  PROVE  /\ RowInv' /\ Surplus' = Surplus /\ Surplus \in Int
         /\ \A q \in Payments : Amount(q)' = Amount(q) /\ Amount(q) \in Nat
         /\ ~mixedUp => Surplus >= 0 /\ (crashes = 0 => Surplus = 0)
         /\ changeRow = ChangeAmount /\ changeRow \in Nat
  <1>1. RowInv' /\ Saved' = Saved /\ \A q \in Payments : Amount(q)' = Amount(q)
    BY RowsStay DEF IInv, RowInv
  <1>2. Surplus' = Surplus
    BY <1>1 DEF Surplus
  <1>3. Surplus \in Int /\ changeRow \in Nat /\ \A q \in Payments : Amount(q) \in Nat
    BY NumberFacts DEF IInv
  <1>4. changeRow = ChangeAmount /\ Balanced(0)
    BY DEF Rest, ChangeRests
  <1>5. ~mixedUp => Surplus >= 0 /\ (crashes = 0 => Surplus = 0)
    BY <1>3, <1>4 DEF Balanced
  <1> QED
    BY <1>1, <1>2, <1>3, <1>4, <1>5

LEMMA ChargeEnterStep ==
  ASSUME IInv, ChargeEnter
  PROVE  IInv'
  <1>1. Rest
    BY IdleRests DEF ChargeEnter
  <1>2. /\ active # None
        /\ UNCHANGED <<active, row, changeRow, closedRows, deviceVars, ghostVars>>
    BY DEF ChargeEnter
  <1>3. /\ RowInv' /\ Surplus' = Surplus /\ Surplus \in Int
        /\ \A q \in Payments : Amount(q)' = Amount(q) /\ Amount(q) \in Nat
        /\ ~mixedUp => Surplus >= 0 /\ (crashes = 0 => Surplus = 0)
        /\ changeRow = ChangeAmount /\ changeRow \in Nat
    BY <1>1, <1>2, RowsWait DEF deviceVars, ghostVars
  <1>4. /\ active \in Payments /\ row[active] = object /\ row[active] # None
        /\ object \in Sums /\ object.all \in Nat
        /\ object.all <= Limit[active] /\ Amount(active) = object.all
        /\ Limit[active] \in Nat
    BY <1>1, <1>2, ActiveFacts
  <1>5. CASE MoveChangeToPayment
    <2> PICK p \in Payments : p = active
      BY <1>4
    <2> DEFINE v == Recalculated(active, object.all + change)
    <2> PICK s : s = v
      OBVIOUS
    <2>1. change # None /\ change \in Nat /\ changeRow = change
      BY <1>3, <1>5 DEF MoveChangeToPayment, ChangeAmount, IInv, TypeOK
    <2>2. /\ s \in Sums /\ s.all <= Limit[p] /\ s.all + s.change = object.all + change
          /\ s.change = 0 \/ s.all = Limit[p]
      <3>1. object.all + change \in Nat
        BY <1>4, <2>1
      <3> QED
        BY <3>1, <1>4, RecalculatedFacts
    <2>3. s.all \in Nat /\ s.change \in Nat
      BY <2>2 DEF Sums
    <2>4. s.change <= change
      BY <1>4, <2>1, <2>2, <2>3
    <2>5. /\ object' = s /\ change' = s.change /\ inHand' = change - s.change
          /\ todo' = <<SaveChange(s.change), SavePayment(p, s), EnableAcceptor>>
      BY <1>5 DEF MoveChangeToPayment
    <2>6. todo' = <<SaveChange(s.change), SavePayment(p, s), EnableAcceptor>>
      BY <2>5
    <2>7. inHand' \in Nat /\ inHand' = change - s.change
      BY <2>1, <2>3, <2>4, <2>5
    <2>8. TypeOK'
      <3>1. object'.all <= Limit'[active'] /\ row'[active'] # None /\ object' \in Sums
            /\ change' \in Nat /\ inHand' \in Nat /\ active' = active /\ active \in Payments
        BY <1>2, <1>4, <2>2, <2>3, <2>5, <2>7
      <3> QED
        BY <1>2, <3>1 DEF IInv, TypeOK, deviceVars, ghostVars
    <2> DEFINE a == s.change
    <2>9. PaymentDue(p, s)' /\ ChangeDue(a)'
      BY <1>2, <1>4, <2>2, <2>3, <2>5 DEF PaymentDue, ChangeDue
    <2>10. Gain(p, s)' = s.all - object.all /\ ChangeGain(a)' = s.change - change
      BY <1>2, <1>3, <1>4, <2>1 DEF Gain, ChangeGain
    <2>11. /\ Surplus' + inHand' + ChangeGain(a)' = Surplus
           /\ Surplus' + (Gain(p, s)' + ChangeGain(a)') = Surplus
      <3> HIDE DEF a
      <3>1. Gain(p, s)' + ChangeGain(a)' = 0
        BY <1>4, <2>1, <2>2, <2>3, <2>10
      <3>2. inHand' + ChangeGain(a)' = 0
        BY <2>1, <2>3, <2>7, <2>10
      <3>3. Gain(p, s)' \in Int /\ ChangeGain(a)' \in Int
        BY <1>4, <2>1, <2>3, <2>10
      <3> QED
        BY <1>3, <2>7, <3>1, <3>2, <3>3
    <2>12. Balanced(Gain(p, s) + ChangeGain(a))' /\ Covered(ChangeGain(a))'
      BY <1>2, <1>3, <2>11 DEF Balanced, Covered, ghostVars
    <2>13. Covered(0)'
      BY <1>2, <1>3, <2>7 DEF Covered, ghostVars
    <2>14. ChangePaymentEnable(a, p, s)'
      BY <1>2, <2>6, <2>9, <2>12 DEF ChangePaymentEnable
    <2> QED
      BY <1>3, <2>2, <2>3, <2>8, <2>13, <2>14 DEF IInv, ToDo
  <1>6. CASE /\ todo' = <<EnableAcceptor>>
             /\ UNCHANGED <<object, change, inHand>>
    <2>1. TypeOK'
      BY <1>2, <1>6 DEF IInv, TypeOK, deviceVars, ghostVars
    <2>2. RestEnable'
      BY <1>1, <1>2, <1>3, <1>6 DEF RestEnable, Rest, PaymentRests, ChangeRests, ChangeAmount,
                              Balanced, ghostVars
    <2>3. Covered(0)'
      BY <1>2, <1>3, <1>6 DEF IInv, Covered, ghostVars
    <2> QED
      BY <1>3, <2>1, <2>2, <2>3 DEF IInv, ToDo
  <1> QED
    BY <1>5, <1>6 DEF ChargeEnter

LEMMA MovePaymentToChangeStep ==
  ASSUME IInv, MovePaymentToChange
  PROVE  IInv'
  <1>1. Rest
    BY IdleRests DEF MovePaymentToChange, MovePayment
  <1>2. /\ active # None
        /\ change' = Together /\ object' = Empty
        /\ todo' = <<SaveChange(Together), SavePayment(active, Empty)>>
        /\ UNCHANGED <<active, row, changeRow, closedRows, inHand, deviceVars, ghostVars>>
    BY DEF MovePaymentToChange, MovePayment
  <1>3. /\ RowInv' /\ Surplus' = Surplus /\ Surplus \in Int
        /\ \A q \in Payments : Amount(q)' = Amount(q) /\ Amount(q) \in Nat
        /\ ~mixedUp => Surplus >= 0 /\ (crashes = 0 => Surplus = 0)
        /\ changeRow = ChangeAmount /\ changeRow \in Nat
    BY <1>1, <1>2, RowsWait DEF deviceVars, ghostVars
  <1>4. /\ active \in Payments /\ row[active] = object /\ row[active] # None
        /\ object.all \in Nat /\ Amount(active) = object.all
        /\ Limit[active] \in Nat
    BY <1>1, <1>2, ActiveFacts
  <1>5. Empty \in Sums /\ Empty.all = 0
    BY DEF Empty, Sums
  <1> PICK p \in Payments : p = active
    BY <1>4
  <1>6. Together \in Nat /\ Together = changeRow + object.all
    BY <1>3, <1>4 DEF Together
  <1> PICK a \in Nat : a = Together
    BY <1>6
  <1>7. TypeOK'
    <2>1. object'.all <= Limit'[active'] /\ change' \in Nat /\ object' \in Sums
      BY <1>2, <1>4, <1>5, <1>6
    <2> QED
      BY <1>2, <2>1 DEF IInv, TypeOK, deviceVars, ghostVars
  <1>8. PaymentDue(p, Empty)' /\ ChangeDue(a)'
    BY <1>2, <1>4, <1>5 DEF PaymentDue, ChangeDue
  <1>9. Gain(p, Empty)' = 0 - object.all /\ ChangeGain(a)' = object.all
    <2>1. Amount(p)' = object.all /\ changeRow' = changeRow /\ a = changeRow + object.all
      BY <1>2, <1>3, <1>4, <1>6
    <2> HIDE DEF Amount
    <2> QED
      BY <2>1, <1>3, <1>4, <1>5 DEF Gain, ChangeGain
  <1>10. /\ Surplus' + (Gain(p, Empty)' + ChangeGain(a)') = Surplus
         /\ Surplus' + inHand' + ChangeGain(a)' = Surplus + object.all
    BY <1>1, <1>2, <1>3, <1>4, <1>9 DEF Rest
  <1>11. Balanced(Gain(p, Empty) + ChangeGain(a))' /\ Covered(ChangeGain(a))'
    BY <1>2, <1>3, <1>4, <1>10 DEF Balanced, Covered, ghostVars
  <1>12. Covered(0)'
    BY <1>2, <1>3 DEF IInv, Covered, ghostVars
  <1>13. ChangePayment(a, p, Empty)'
    BY <1>2, <1>8, <1>11 DEF ChangePayment
  <1> QED
    BY <1>3, <1>5, <1>7, <1>12, <1>13 DEF IInv, ToDo

LEMMA ResetChangeStep ==
  ASSUME IInv, ResetChange
  PROVE  IInv'
  <1>1. Rest
    BY IdleRests DEF ResetChange
  <1>2. /\ change # None /\ change' = None /\ todo' = <<CloseChange(change)>>
        /\ UNCHANGED <<active, object, row, changeRow, closedRows, inHand, deviceVars, ghostVars>>
    BY DEF ResetChange
  <1>3. /\ RowInv' /\ Surplus' = Surplus /\ Surplus \in Int
        /\ ~mixedUp => Surplus >= 0 /\ (crashes = 0 => Surplus = 0)
        /\ changeRow = ChangeAmount
    BY <1>1, <1>2, RowsWait DEF deviceVars, ghostVars
  <1>4. change \in Nat /\ changeRow = change
    BY <1>2, <1>3 DEF IInv, TypeOK, ChangeAmount
  <1> PICK a \in Nat : a = change
    BY <1>4
  <1>5. ChangeGain(a)' = 0
    BY <1>2, <1>4 DEF ChangeGain
  <1>6. TypeOK'
    BY <1>2 DEF IInv, TypeOK, deviceVars, ghostVars
  <1>7. OneClose(a)'
    BY <1>1, <1>2, <1>3, <1>5
       DEF OneClose, CloseDue, Rest, PaymentRests, Balanced, ghostVars
  <1>8. Covered(0)'
    BY <1>1, <1>2, <1>3 DEF Rest, Covered, ghostVars
  <1> QED
    BY <1>3, <1>6, <1>7, <1>8 DEF IInv, ToDo

LEMMA DeactivatePaymentStep ==
  ASSUME IInv, DeactivatePayment
  PROVE  IInv'
  <1>1. Rest
    BY IdleRests DEF DeactivatePayment
  <1>2. /\ active # None /\ active' = None /\ object' = Empty
        /\ UNCHANGED <<row, changeRow, closedRows, inHand, deviceVars, ghostVars>>
        /\ \/ /\ change = 0 /\ change' = None
              /\ todo' = <<SavePayment(active, object), CloseChange(0)>>
           \/ UNCHANGED change /\ todo' = <<SavePayment(active, object)>>
    BY DEF DeactivatePayment
  <1>3. /\ RowInv' /\ Surplus' = Surplus /\ Surplus \in Int
        /\ \A q \in Payments : Amount(q)' = Amount(q) /\ Amount(q) \in Nat
        /\ ~mixedUp => Surplus >= 0 /\ (crashes = 0 => Surplus = 0)
        /\ changeRow = ChangeAmount /\ changeRow \in Nat
    BY <1>1, <1>2, RowsWait DEF deviceVars, ghostVars
  <1>4. /\ active \in Payments /\ row[active] = object /\ row[active] # None
        /\ object \in Sums /\ object.all \in Nat /\ object.all <= Limit[active]
        /\ Amount(active) = object.all
    BY <1>1, <1>2, ActiveFacts
  <1>5. Empty \in Sums
    BY DEF Empty, Sums
  <1> PICK p \in Payments, s \in Sums : p = active /\ s = object
    BY <1>4
  <1>6. TypeOK'
    BY <1>2, <1>5, NoneAssumption DEF IInv, TypeOK, deviceVars, ghostVars
  <1>7. PaymentDue(p, s)'
    BY <1>2, <1>4 DEF PaymentDue
  <1>8. Gain(p, s)' = 0
    <2>1. Amount(p)' = s.all /\ s.all \in Nat
      BY <1>3, <1>4
    <2> QED
      BY <2>1 DEF Gain
  <1>9. Covered(0)'
    BY <1>1, <1>2, <1>3 DEF Rest, Covered, ghostVars
  <1>10. CASE /\ change = 0 /\ change' = None
              /\ todo' = <<SavePayment(active, object), CloseChange(0)>>
    <2>1. ChangeGain(0)' = 0
      BY <1>2, <1>3, <1>10, NoneAssumption DEF ChangeGain, ChangeAmount
    <2>2. PaymentClose(p, s, 0)'
      BY <1>1, <1>2, <1>3, <1>7, <1>8, <1>10, <2>1
         DEF PaymentClose, CloseDue, Balanced, Covered, Rest, ghostVars
    <2> QED
      BY <1>3, <1>6, <1>9, <2>2 DEF IInv, ToDo
  <1>11. CASE UNCHANGED change /\ todo' = <<SavePayment(active, object)>>
    <2>1. OnePayment(p, s)'
      BY <1>2, <1>3, <1>7, <1>8, <1>11
         DEF OnePayment, ChangeRests, ChangeAmount, Balanced, ghostVars
    <2> QED
      BY <1>3, <1>6, <1>9, <2>1 DEF IInv, ToDo
  <1> QED
    BY <1>2, <1>10, <1>11

LEMMA NoteStackedStep ==
  ASSUME IInv, NEW n \in Notes, NoteStacked(n)
  PROVE  IInv'
  <1>1. Rest
    BY IdleRests DEF NoteStacked
  <1> DEFINE before == Loaded(session)
             v == Recalculated(session, before.all + before.change + n)
  <1> PICK p, b, s : p = session /\ b = before /\ s = v
    OBVIOUS
  <1>2. /\ accepting /\ cash' = cash + n /\ inHand' = n
        /\ object' = IF p = active THEN s ELSE object
        /\ UNCHANGED <<active, row, changeRow, closedRows, deviceVars, out, gone, crashes>>
    BY DEF NoteStacked, InMemory
  <1>3. \/ /\ s.change # 0 /\ change' = s.change
           /\ todo' = <<SavePayment(p, s), SaveChange(s.change)>>
           /\ mixedUp' = (mixedUp \/ b.change # ChangeAmount)
        \/ /\ s.change = 0
           /\ todo' = <<SavePayment(p, s)>>
           /\ mixedUp' = (mixedUp \/ b.change # 0)
           /\ UNCHANGED change
    BY DEF NoteStacked
  <1>4. n \in Nat /\ n > 0
    BY NotesAssumption
  <1>5. p \in Payments /\ row[p] # None
    BY <1>2 DEF IInv, RowInv, TypeOK
  <1>6. b = row[p] /\ b \in Sums
    <2>1. row[p] \in Sums
      BY <1>5 DEF IInv, RowInv
    <2>2. p = active => object = row[p]
      BY <1>1, <1>5, NoneAssumption DEF Rest, PaymentRests
    <2> QED
      BY <2>1, <2>2 DEF Loaded
  <1>7. /\ b.all \in Nat /\ b.change \in Nat /\ b.all <= Limit[p] /\ Amount(p) = b.all
        /\ Limit[p] \in Nat
    BY <1>5, <1>6, LimitAssumption DEF Sums, Amount, IInv, RowInv
  <1>8. /\ s \in Sums /\ s.all <= Limit[p]
        /\ s.all + s.change = b.all + b.change + n
        /\ s.change = 0 \/ s.all = Limit[p]
    <2>1. b.all + b.change + n \in Nat
      BY <1>4, <1>7
    <2> QED
      BY <2>1, <1>5, RecalculatedFacts
  <1>9. s.all \in Nat /\ s.change \in Nat
    BY <1>8 DEF Sums
  <1>10. /\ RowInv' /\ Saved' = Saved /\ \A q \in Payments : Amount(q)' = Amount(q)
    BY <1>2, RowsStay DEF IInv, RowInv, deviceVars
  <1>11. /\ Surplus \in Int /\ changeRow \in Nat /\ changeRow = ChangeAmount /\ cash \in Nat
         /\ Saved \in Nat /\ out \in Nat /\ gone \in Nat
    BY <1>1, NumberFacts DEF IInv, Rest, ChangeRests
  <1>12. Surplus' = Surplus - n /\ Surplus' \in Int
    BY <1>2, <1>4, <1>10, <1>11 DEF Surplus
  <1>13. ~mixedUp => Surplus >= 0 /\ (crashes = 0 => Surplus = 0)
    BY <1>1, <1>11 DEF Rest, Balanced
  <1>14. mixedUp' \in BOOLEAN /\ change' \in Nat \union {None} /\ (~mixedUp' => ~mixedUp)
    BY <1>3, <1>9 DEF IInv, TypeOK
  <1>15. PaymentDue(p, s)'
    BY <1>1, <1>2, <1>5, <1>8 DEF PaymentDue, Rest, PaymentRests
  <1>16. Gain(p, s)' = s.all - b.all
    BY <1>5, <1>7, <1>10 DEF Gain
  <1>17. TypeOK'
    <2>1. /\ object' \in Sums /\ cash' \in Nat /\ inHand' \in Nat
          /\ active # None => object'.all <= Limit[active]
      BY <1>2, <1>4, <1>8, <1>11 DEF IInv, TypeOK
    <2> QED
      BY <1>2, <1>14, <2>1 DEF IInv, TypeOK, deviceVars
  <1>18. Covered(0)'
    BY <1>2, <1>4, <1>11, <1>12, <1>13, <1>14 DEF Covered
  <1>19. CASE /\ s.change # 0 /\ change' = s.change
              /\ todo' = <<SavePayment(p, s), SaveChange(s.change)>>
              /\ mixedUp' = (mixedUp \/ b.change # ChangeAmount)
    <2> PICK a \in Nat : a = s.change
      BY <1>9
    <2>1. todo' = <<SavePayment(p, s), SaveChange(a)>>
      BY <1>19
    <2>2. ChangeDue(a)'
      BY <1>19 DEF ChangeDue
    <2>3. ~mixedUp' => ChangeGain(a)' = s.change - b.change
      BY <1>2, <1>11, <1>19 DEF ChangeGain
    <2>4. ~mixedUp' => Surplus' + (Gain(p, s)' + ChangeGain(a)') = Surplus
      BY <1>4, <1>7, <1>8, <1>9, <1>11, <1>12, <1>16, <2>3
    <2>5. Balanced(Gain(p, s) + ChangeGain(a))'
      BY <1>2, <1>13, <1>14, <2>4 DEF Balanced
    <2>6. s.all >= b.all
      BY <1>7, <1>8, <1>9, <1>19
    <2>7. Surplus' + inHand' + Gain(p, s)' >= Surplus
      BY <1>2, <1>4, <1>7, <1>9, <1>11, <1>12, <1>16, <2>6
    <2>8. Covered(Gain(p, s))'
      <3>1. inHand' \in Int /\ Gain(p, s)' \in Int
        BY <1>2, <1>4, <1>7, <1>9, <1>16
      <3> QED
        BY <1>11, <1>12, <1>13, <1>14, <2>7, <3>1 DEF Covered
    <2>9. PaymentChange(p, s, a)'
      BY <1>15, <2>1, <2>2, <2>5, <2>8 DEF PaymentChange
    <2> QED
      BY <1>5, <1>8, <1>10, <1>17, <1>18, <2>9 DEF IInv, ToDo
  <1>20. CASE /\ s.change = 0
              /\ todo' = <<SavePayment(p, s)>>
              /\ mixedUp' = (mixedUp \/ b.change # 0)
              /\ UNCHANGED change
    <2>1. ~mixedUp' => Surplus' + Gain(p, s)' = Surplus
      <3>1. ASSUME ~mixedUp' PROVE b.change = 0
        BY <1>20, <3>1
      <3>2. b.change = 0 => Gain(p, s)' = n
        BY <1>4, <1>7, <1>8, <1>9, <1>16, <1>20
      <3> QED
        BY <1>4, <1>11, <1>12, <3>1, <3>2
    <2>2. Balanced(Gain(p, s))'
      BY <1>2, <1>13, <1>14, <2>1 DEF Balanced
    <2>3. ChangeRests'
      BY <1>2, <1>11, <1>20 DEF ChangeRests, ChangeAmount
    <2>4. OnePayment(p, s)'
      BY <1>15, <1>20, <2>2, <2>3 DEF OnePayment
    <2> QED
      BY <1>5, <1>8, <1>10, <1>17, <1>18, <2>4 DEF IInv, ToDo
  <1> QED
    BY <1>3, <1>19, <1>20

LEMMA AmountDispensedStep ==
  ASSUME IInv, NEW g \in 1..MaxCash, AmountDispensed(g)
  PROVE  IInv'
  <1>1. Rest
    BY IdleRests DEF AmountDispensed
  <1>2. /\ giving' = 0 /\ out' = out + g
        /\ mixedUp' = (mixedUp \/ ChangeAmount < g)
        /\ UNCHANGED <<active, object, row, changeRow, closedRows, inHand,
                       session, accepting, offer, cash, gone, crashes>>
    BY DEF AmountDispensed
  <1>3. g \in Nat /\ g > 0
    BY BoundsAssumption
  <1>4. RowInv' /\ Saved' = Saved
    BY <1>2, RowsStay DEF IInv, RowInv
  <1>5. /\ Surplus \in Int /\ changeRow \in Nat /\ changeRow = ChangeAmount /\ cash \in Nat
        /\ Saved \in Nat /\ out \in Nat /\ gone \in Nat
    BY <1>1, NumberFacts DEF IInv, Rest, ChangeRests
  <1>6. Surplus' = Surplus + g /\ Surplus' \in Int
    BY <1>2, <1>3, <1>4, <1>5 DEF Surplus
  <1>7. ~mixedUp => Surplus >= 0 /\ (crashes = 0 => Surplus = 0)
    BY <1>1, <1>5 DEF Rest, Balanced
  <1>8. ~mixedUp' => ~mixedUp /\ ChangeAmount >= g
    <2>1. ~(ChangeAmount < g) => ChangeAmount >= g
      BY <1>3, <1>5
    <2> QED
      BY <1>2, <2>1
  <1>9. inHand' = 0
    BY <1>1, <1>2 DEF Rest
  <1>10. Covered(0)'
    BY <1>2, <1>3, <1>5, <1>6, <1>7, <1>8, <1>9 DEF Covered
  <1>11. CASE change = None
    <2>1. UNCHANGED <<change, todo>> /\ mixedUp'
      BY <1>2, <1>3, <1>11 DEF AmountDispensed, ChangeAmount
    <2>2. TypeOK'
      BY <1>2, <1>3, <1>5, <2>1 DEF IInv, TypeOK
    <2>3. Rest'
      BY <1>1, <1>2, <2>1 DEF Rest, PaymentRests, ChangeRests, ChangeAmount, Balanced
    <2> QED
      BY <1>4, <1>10, <2>2, <2>3 DEF IInv, ToDo
  <1>12. CASE change # None
    <2> DEFINE left == IF change >= g THEN change - g ELSE 0
    <2>1. change \in Nat /\ changeRow = change
      BY <1>5, <1>12 DEF IInv, TypeOK, ChangeAmount
    <2>2. left \in Nat
      BY <1>3, <2>1
    <2> PICK a \in Nat : a = left
      BY <2>2
    <2>3. change' = a /\ todo' = <<SaveChange(a)>>
      BY <1>12 DEF AmountDispensed
    <2>4. ~mixedUp' => ChangeGain(a)' = 0 - g
      BY <1>2, <1>3, <1>8, <1>12, <2>1 DEF ChangeGain, ChangeAmount
    <2>5. Balanced(ChangeGain(a))'
      BY <1>2, <1>3, <1>5, <1>6, <1>7, <1>8, <2>4 DEF Balanced
    <2>6. mixedUp' \in BOOLEAN
      BY <1>2 DEF IInv, TypeOK
    <2>7. TypeOK'
      BY <1>2, <1>3, <1>5, <2>3, <2>6 DEF IInv, TypeOK
    <2>8. OneChange(a)'
      BY <1>1, <1>2, <2>3, <2>5 DEF OneChange, Rest, PaymentRests, ChangeDue
    <2> QED
      BY <1>4, <1>10, <2>7, <2>8 DEF IInv, ToDo
  <1> QED
    BY <1>11, <1>12

LEMMA CrashStep ==
  ASSUME IInv, Crash
  PROVE  IInv'
  <1>1. /\ crashes' = crashes + 1
        /\ active' = None /\ object' = Empty /\ change' = None
        /\ closedRows' = closedRows + changeRow /\ changeRow' = 0
        /\ todo' = <<>> /\ inHand' = 0 /\ gone' = gone + inHand
        /\ session' = None /\ accepting' = FALSE /\ offer' = 0
        /\ giving' = 0
        /\ UNCHANGED <<row, cash, out, mixedUp>>
    BY DEF Crash
  <1>2. OnPayments' = OnPayments
    BY <1>1 DEF OnPayments, Amount
  <1>3. RowInv'
    BY <1>1, <1>2 DEF IInv, RowInv
  <1>4. /\ Money \in Nat /\ changeRow \in Nat /\ closedRows \in Nat /\ out \in Nat
        /\ gone \in Nat /\ cash \in Nat /\ inHand \in Nat /\ Surplus \in Int
    BY NumberFacts DEF IInv
  <1>5. Surplus' = Surplus + inHand
    BY <1>1, <1>2, <1>4 DEF Surplus, Saved, Money
  <1>6. Empty \in Sums
    BY DEF Empty, Sums
  <1>7. TypeOK'
    <2>1. {changeRow', closedRows', offer', giving', cash', out', inHand', gone', crashes'}
            \subseteq Nat
      BY <1>1, <1>4 DEF IInv, TypeOK
    <2>2. /\ \A q \in Payments : row[q] = None \/ row[q] \in Sums
          /\ mixedUp \in BOOLEAN
      BY DEF IInv, TypeOK
    <2> QED
      BY <1>1, <1>6, <2>1, <2>2 DEF TypeOK
  <1>8. crashes' # 0
    BY <1>1 DEF IInv, TypeOK
  <1>9. Covered(0)' /\ Balanced(0)'
    BY <1>1, <1>4, <1>5, <1>8 DEF IInv, Covered, Balanced
  <1>10. Rest'
    BY <1>1, <1>9 DEF Rest, PaymentRests, ChangeRests, ChangeAmount
  <1> QED
    BY <1>3, <1>7, <1>9, <1>10 DEF IInv, ToDo

-----------------------------------------------------------------------------
\* The saves.

LEMMA DoPayment ==
  ASSUME Step, NEW p, NEW s, Head(todo) = SavePayment(p, s)
  PROVE  row' = [row EXCEPT ![p] = s]
         /\ UNCHANGED <<changeRow, closedRows, session, accepting>>
  BY DEF Step, SavePayment

LEMMA DoChange ==
  ASSUME Step, NEW a, Head(todo) = SaveChange(a)
  PROVE  changeRow' = a /\ UNCHANGED <<row, closedRows, session, accepting>>
  BY DEF Step, SaveChange

LEMMA DoClose ==
  ASSUME Step, NEW a, Head(todo) = CloseChange(a)
  PROVE  /\ closedRows' = closedRows + a /\ changeRow' = 0
         /\ UNCHANGED <<row, session, accepting>>
  BY DEF Step, CloseChange

LEMMA DoEnable ==
  ASSUME Step, Head(todo) = EnableAcceptor
  PROVE  Enable /\ UNCHANGED <<row, changeRow, closedRows>>
  BY DEF Step, EnableAcceptor

LEMMA AtStep ==
  ASSUME IInv, Step
  PROVE  /\ todo' = Tail(todo) /\ inHand' = IF Len(todo) = 1 THEN 0 ELSE inHand
         /\ UNCHANGED <<active, object, change, offer, giving, ghostVars>>
         /\ Surplus \in Int /\ inHand \in Nat /\ inHand' \in Nat
         /\ \A p \in Payments, s \in Sums : Gain(p, s) \in Int
         /\ \A a \in Nat : ChangeGain(a) \in Int
  <1>1. Surplus \in Int /\ inHand \in Nat /\ changeRow \in Nat
        /\ \A p \in Payments : Amount(p) \in Nat
    BY NumberFacts DEF IInv
  <1> QED
    BY <1>1 DEF Step, Gain, ChangeGain, Sums

\* After the save of a payment.
LEMMA PaymentStep ==
  ASSUME IInv, Step, NEW p, NEW s, Head(todo) = SavePayment(p, s), PaymentDue(p, s)
  PROVE  /\ TypeOK' /\ RowInv' /\ PaymentRests'
         /\ Surplus' = Surplus + Gain(p, s)
         /\ UNCHANGED <<change, changeRow, mixedUp, crashes>>
         /\ Gain(p, s) \in Int /\ Surplus \in Int
  <1>1. /\ row' = [row EXCEPT ![p] = s]
        /\ UNCHANGED <<changeRow, closedRows, session, accepting>>
    BY DoPayment
  <1>2. /\ UNCHANGED <<active, object, change, offer, giving, ghostVars>>
        /\ inHand' \in Nat /\ Surplus \in Int
        /\ \A q \in Payments, t \in Sums : Gain(q, t) \in Int
    BY AtStep
  <1>3. /\ p \in Payments /\ s \in Sums /\ s.all <= Limit[p] /\ row[p] # None
        /\ active # None => object = IF active = p THEN s ELSE row[active]
    BY DEF PaymentDue
  <1>4. /\ RowInv' /\ Surplus' = Surplus + Gain(p, s)
        /\ row'[p] = s /\ s # None /\ \A q \in Payments \ {p} : row'[q] = row[q]
    BY <1>1, <1>2, <1>3, PaymentSaved DEF IInv, ghostVars
  <1>5. TypeOK'
    <2>1. \A q \in Payments : /\ row'[q] = None \/ row'[q] \in Sums
                              /\ row[q] # None => row'[q] # None
      BY <1>3, <1>4 DEF IInv, TypeOK
    <2> QED
      BY <1>1, <1>2, <2>1 DEF IInv, TypeOK, ghostVars
  <1>6. PaymentRests'
    <2>1. active \in Payments \union {None}
      BY DEF IInv, TypeOK
    <2> QED
      BY <1>2, <1>3, <1>4, <2>1 DEF PaymentRests
  <1> QED
    BY <1>1, <1>2, <1>3, <1>4, <1>5, <1>6 DEF ghostVars

\* After the save of the change payment.
LEMMA ChangeStep ==
  ASSUME IInv, Step, NEW a \in Nat,
         \/ Head(todo) = SaveChange(a) /\ change = a
         \/ Head(todo) = CloseChange(a) /\ change = None
  PROVE  /\ TypeOK' /\ RowInv' /\ ChangeRests'
         /\ Surplus' = Surplus + ChangeGain(a)
         /\ UNCHANGED <<active, object, row, mixedUp, crashes>>
         /\ ChangeGain(a) \in Int /\ Surplus \in Int
         /\ \A q \in Payments : Amount(q)' = Amount(q)
  <1>1. /\ UNCHANGED <<active, object, change, offer, giving, ghostVars>>
        /\ inHand' \in Nat /\ Surplus \in Int /\ ChangeGain(a) \in Int
    BY AtStep
  <1>2. changeRow \in Nat /\ closedRows \in Nat
    BY DEF IInv, TypeOK
  <1>3. CASE Head(todo) = SaveChange(a) /\ change = a
    <2>1. changeRow' = a /\ UNCHANGED <<row, closedRows, session, accepting>>
      BY <1>3, DoChange
    <2>2. RowInv' /\ Surplus' = Surplus + ChangeGain(a)
      BY <1>1, <2>1, ChangeSaved DEF IInv, ghostVars
    <2>3. TypeOK'
      BY <1>1, <2>1 DEF IInv, TypeOK, ghostVars
    <2>4. ChangeRests'
      BY <1>1, <1>3, <2>1, NoneAssumption DEF ChangeRests, ChangeAmount
    <2> QED
      BY <1>1, <2>1, <2>2, <2>3, <2>4 DEF ghostVars, Amount
  <1>4. CASE Head(todo) = CloseChange(a) /\ change = None
    <2>1. closedRows' = closedRows + a /\ changeRow' = 0
          /\ UNCHANGED <<row, session, accepting>>
      BY <1>4, DoClose
    <2>2. RowInv' /\ Surplus' = Surplus + ChangeGain(a)
      BY <1>1, <2>1, ChangeClosed DEF IInv, ghostVars
    <2>3. TypeOK'
      BY <1>1, <1>2, <2>1 DEF IInv, TypeOK, ghostVars
    <2>4. ChangeRests'
      BY <1>1, <1>4, <2>1 DEF ChangeRests, ChangeAmount
    <2> QED
      BY <1>1, <2>1, <2>2, <2>3, <2>4 DEF ghostVars, Amount
  <1> QED
    BY <1>3, <1>4

\* The last save: the books balance.
LEMMA LastSave ==
  ASSUME IInv, Step, Len(todo) = 1, NEW x \in Int, Balanced(x), Surplus' = Surplus + x
  PROVE  inHand' = 0 /\ Balanced(0)' /\ Covered(0)'
  <1>1. /\ inHand' = 0 /\ UNCHANGED ghostVars /\ Surplus \in Int
    BY AtStep
  <1> QED
    BY <1>1 DEF Balanced, Covered, ghostVars

\* A save with others behind it: the rest is still to come, and what is missing
\* is in hand.
LEMMA EarlySave ==
  ASSUME IInv, Step, Len(todo) # 1, NEW x \in Int, NEW y \in Int, Balanced(x + y),
         Covered(x), Surplus' = Surplus + x
  PROVE  Balanced(y)' /\ Covered(0)'
  <1>1. /\ inHand' = inHand /\ UNCHANGED ghostVars /\ Surplus \in Int /\ inHand \in Nat
    BY AtStep
  <1>2. Surplus' + y = Surplus + (x + y) /\ Surplus' + inHand' + 0 = Surplus + inHand + x
    BY <1>1
  <1> QED
    BY <1>1, <1>2 DEF Balanced, Covered, ghostVars

\* A payment is saved first, the change payment waits.
LEMMA PaymentFirst ==
  ASSUME IInv, Step, NEW p \in Payments, NEW s \in Sums, NEW a \in Nat,
         PaymentChange(p, s, a) \/ PaymentClose(p, s, a)
  PROVE  IInv'
  <1>1. /\ Head(todo) = SavePayment(p, s) /\ Len(todo) = 2 /\ PaymentDue(p, s)
        /\ Balanced(Gain(p, s) + ChangeGain(a)) /\ Covered(Gain(p, s))
    BY ListFacts DEF PaymentChange, PaymentClose
  <1>2. /\ TypeOK' /\ RowInv' /\ PaymentRests'
        /\ Surplus' = Surplus + Gain(p, s)
        /\ UNCHANGED <<change, changeRow, mixedUp, crashes>> /\ Gain(p, s) \in Int
    BY <1>1, PaymentStep
  <1> PICK y \in Int : y = ChangeGain(a)
    BY AtStep
  <1>3. Balanced(y)' /\ Covered(0)'
    BY <1>1, <1>2, EarlySave
  <1>4. ChangeGain(a)' = y
    BY <1>2 DEF ChangeGain
  <1>5. Balanced(ChangeGain(a))'
    BY <1>3, <1>4 DEF Balanced
  <1>6. CASE PaymentChange(p, s, a)
    <2>1. todo' = <<SaveChange(a)>>
      BY <1>6, AtStep, ListFacts DEF PaymentChange
    <2>2. OneChange(a)'
      BY <1>2, <1>5, <1>6, <2>1 DEF OneChange, PaymentChange, ChangeDue
    <2> QED
      BY <1>2, <1>3, <2>2 DEF IInv, ToDo
  <1>7. CASE PaymentClose(p, s, a)
    <2>1. todo' = <<CloseChange(a)>>
      BY <1>7, AtStep, ListFacts DEF PaymentClose
    <2>2. OneClose(a)'
      BY <1>2, <1>5, <1>7, <2>1 DEF OneClose, PaymentClose, CloseDue
    <2> QED
      BY <1>2, <1>3, <2>2 DEF IInv, ToDo
  <1> QED
    BY <1>6, <1>7

\* The change payment is saved first, a payment waits.
LEMMA ChangeFirst ==
  ASSUME IInv, Step, NEW p \in Payments, NEW s \in Sums, NEW a \in Nat,
         ChangePayment(a, p, s) \/ ChangePaymentEnable(a, p, s)
  PROVE  IInv'
  <1>1. /\ Head(todo) = SaveChange(a) /\ Len(todo) # 1 /\ change = a
        /\ PaymentDue(p, s)
        /\ Balanced(ChangeGain(a) + Gain(p, s)) /\ Covered(ChangeGain(a))
    <2>1. ChangeGain(a) \in Int /\ Gain(p, s) \in Int
      BY AtStep
    <2>2. ChangeGain(a) + Gain(p, s) = Gain(p, s) + ChangeGain(a)
      BY <2>1
    <2> QED
      BY <2>2, ListFacts DEF ChangePayment, ChangePaymentEnable, ChangeDue
  <1>2. /\ TypeOK' /\ RowInv' /\ ChangeRests'
        /\ Surplus' = Surplus + ChangeGain(a)
        /\ UNCHANGED <<active, object, row, mixedUp, crashes>> /\ ChangeGain(a) \in Int
        /\ \A q \in Payments : Amount(q)' = Amount(q)
    BY <1>1, ChangeStep
  <1> PICK y \in Int : y = Gain(p, s)
    BY AtStep
  <1>3. Balanced(y)' /\ Covered(0)'
    BY <1>1, <1>2, EarlySave
  <1>4. Gain(p, s)' = y
    BY <1>2 DEF Gain
  <1>5. Balanced(Gain(p, s))'
    BY <1>3, <1>4 DEF Balanced
  <1>6. PaymentDue(p, s)'
    BY <1>1, <1>2 DEF PaymentDue
  <1>7. CASE ChangePayment(a, p, s)
    <2>1. todo' = <<SavePayment(p, s)>>
      BY <1>7, AtStep, ListFacts DEF ChangePayment
    <2>2. OnePayment(p, s)'
      BY <1>2, <1>5, <1>6, <2>1 DEF OnePayment
    <2> QED
      BY <1>2, <1>3, <2>2 DEF IInv, ToDo
  <1>8. CASE ChangePaymentEnable(a, p, s)
    <2>1. todo' = <<SavePayment(p, s), EnableAcceptor>>
      BY <1>8, AtStep, ListFacts DEF ChangePaymentEnable
    <2>2. PaymentEnable(p, s)'
      BY <1>2, <1>5, <1>6, <1>8, <2>1 DEF PaymentEnable, ChangePaymentEnable
    <2> QED
      BY <1>2, <1>3, <2>2 DEF IInv, ToDo
  <1> QED
    BY <1>7, <1>8

\* The last save of a handler.
LEMMA OneLeft ==
  ASSUME IInv, Step, NEW a \in Nat, OneChange(a) \/ OneClose(a)
  PROVE  IInv'
  <1>1. /\ \/ Head(todo) = SaveChange(a) /\ change = a
           \/ Head(todo) = CloseChange(a) /\ change = None
        /\ Len(todo) = 1 /\ Tail(todo) = <<>> /\ PaymentRests /\ Balanced(ChangeGain(a))
    BY ListFacts DEF OneChange, OneClose, ChangeDue, CloseDue
  <1>2. /\ TypeOK' /\ RowInv' /\ ChangeRests'
        /\ Surplus' = Surplus + ChangeGain(a)
        /\ UNCHANGED <<active, object, row>> /\ ChangeGain(a) \in Int
    BY <1>1, ChangeStep
  <1>3. inHand' = 0 /\ Balanced(0)' /\ Covered(0)'
    BY <1>1, <1>2, LastSave
  <1>4. Rest'
    BY <1>1, <1>2, <1>3, AtStep DEF Rest, PaymentRests
  <1> QED
    BY <1>2, <1>3, <1>4 DEF IInv, ToDo

LEMMA PaymentLeft ==
  ASSUME IInv, Step, NEW p \in Payments, NEW s \in Sums, OnePayment(p, s)
  PROVE  IInv'
  <1>1. /\ Head(todo) = SavePayment(p, s) /\ PaymentDue(p, s) /\ ChangeRests
        /\ Len(todo) = 1 /\ Tail(todo) = <<>> /\ Balanced(Gain(p, s))
    BY ListFacts DEF OnePayment
  <1>2. /\ TypeOK' /\ RowInv' /\ PaymentRests'
        /\ Surplus' = Surplus + Gain(p, s)
        /\ UNCHANGED <<change, changeRow>> /\ Gain(p, s) \in Int
    BY <1>1, PaymentStep
  <1>3. inHand' = 0 /\ Balanced(0)' /\ Covered(0)'
    BY <1>1, <1>2, LastSave
  <1>4. Rest'
    BY <1>1, <1>2, <1>3, AtStep DEF Rest, ChangeRests, ChangeAmount
  <1> QED
    BY <1>2, <1>3, <1>4 DEF IInv, ToDo

\* The acceptor is enabled after the save of a payment.
LEMMA PaymentThenEnable ==
  ASSUME IInv, Step, NEW p \in Payments, NEW s \in Sums, PaymentEnable(p, s)
  PROVE  IInv'
  <1>1. /\ Head(todo) = SavePayment(p, s) /\ PaymentDue(p, s) /\ ChangeRests
        /\ todo' = <<EnableAcceptor>> /\ Balanced(Gain(p, s)) /\ active # None
    BY AtStep, ListFacts DEF PaymentEnable
  <1>2. /\ TypeOK' /\ RowInv' /\ PaymentRests'
        /\ Surplus' = Surplus + Gain(p, s) /\ Surplus \in Int
        /\ UNCHANGED <<change, changeRow, mixedUp, crashes>> /\ Gain(p, s) \in Int
    BY <1>1, PaymentStep
  <1>3. Balanced(0)' /\ Covered(0)'
    <2>1. inHand' \in Nat
      BY AtStep
    <2> QED
      BY <1>1, <1>2, <2>1 DEF Balanced, Covered
  <1>4. RestEnable'
    BY <1>1, <1>2, <1>3, AtStep DEF RestEnable, ChangeRests, ChangeAmount
  <1> QED
    BY <1>2, <1>3, <1>4 DEF IInv, ToDo

LEMMA EnableLast ==
  ASSUME IInv, Step, RestEnable
  PROVE  IInv'
  <1>1. /\ Head(todo) = EnableAcceptor /\ Len(todo) = 1 /\ Tail(todo) = <<>>
        /\ PaymentRests /\ ChangeRests /\ Balanced(0) /\ active # None
    BY ListFacts DEF RestEnable
  <1>2. Enable /\ UNCHANGED <<row, changeRow, closedRows>>
    BY <1>1, DoEnable
  <1>3. /\ UNCHANGED <<active, object, change, offer, giving, ghostVars>> /\ todo' = <<>>
        /\ Surplus \in Int /\ inHand' \in Nat
    BY <1>1, AtStep
  <1>4. /\ session' \in {session, active} /\ accepting' \in BOOLEAN
        /\ accepting' => session' # None
    BY <1>1, <1>2 DEF Enable, IInv, TypeOK, RowInv
  <1>5. RowInv' /\ Saved' = Saved
    BY <1>2, <1>4, RowsStay DEF IInv
  <1>6. Surplus' = Surplus + 0
    BY <1>3, <1>5 DEF Surplus, ghostVars
  <1>7. inHand' = 0 /\ Balanced(0)' /\ Covered(0)'
    BY <1>1, <1>6, LastSave
  <1>8. TypeOK'
    BY <1>1, <1>2, <1>3, <1>4 DEF IInv, TypeOK, ghostVars
  <1>9. Rest'
    BY <1>1, <1>2, <1>3, <1>7 DEF Rest, PaymentRests, ChangeRests, ChangeAmount
  <1> QED
    BY <1>5, <1>7, <1>8, <1>9 DEF IInv, ToDo

LEMMA SaveStep ==
  ASSUME IInv, Step
  PROVE  IInv'
  <1>1. ToDo /\ ~Rest
    BY DEF IInv, Step, Rest, Idle
  <1>2. CASE RestEnable
    BY <1>2, EnableLast
  <1>3. CASE \E a \in Nat : OneChange(a) \/ OneClose(a)
    BY <1>3, OneLeft
  <1>4. CASE \E p \in Payments, s \in Sums : OnePayment(p, s)
    BY <1>4, PaymentLeft
  <1>5. CASE \E p \in Payments, s \in Sums : PaymentEnable(p, s)
    BY <1>5, PaymentThenEnable
  <1>6. CASE \E p \in Payments, s \in Sums, a \in Nat :
               PaymentChange(p, s, a) \/ PaymentClose(p, s, a)
    BY <1>6, PaymentFirst
  <1>7. CASE \E p \in Payments, s \in Sums, a \in Nat :
               ChangePayment(a, p, s) \/ ChangePaymentEnable(a, p, s)
    BY <1>7, ChangeFirst
  <1> HIDE DEF IInv
  <1> QED
    BY <1>1, <1>2, <1>3, <1>4, <1>5, <1>6, <1>7 DEF ToDo

-----------------------------------------------------------------------------
\* The theorems.

LEMMA InitIInv == Init => IInv
  <1> SUFFICES ASSUME Init PROVE IInv
    OBVIOUS
  <1>1. Empty \in Sums
    BY DEF Empty, Sums
  <1>2. \A p \in Payments : row[p] = None
    BY DEF Init
  <1>3. OnPayments = {}
    BY <1>2 DEF OnPayments, Amount
  <1>4. IsFiniteSet(OnPayments) /\ Cardinality(OnPayments) = 0
    BY <1>3, FS_EmptySet
  <1>5. TypeOK
    <2>1. /\ {changeRow, closedRows, offer, giving, cash, out, inHand, gone, crashes} \subseteq Nat
          /\ active = None /\ session = None /\ change = None /\ object \in Sums
          /\ accepting \in BOOLEAN /\ mixedUp \in BOOLEAN
      <3>1. active = None /\ session = None /\ change = None /\ object \in Sums
        BY <1>1 DEF Init
      <3>2. /\ changeRow = 0 /\ closedRows = 0 /\ offer = 0 /\ giving = 0 /\ cash = 0
            /\ out = 0 /\ inHand = 0 /\ gone = 0 /\ crashes = 0
        BY DEF Init
      <3>3. {changeRow, closedRows, offer, giving, cash, out, inHand, gone, crashes} \subseteq Nat
        BY <3>2
      <3>4. accepting \in BOOLEAN /\ mixedUp \in BOOLEAN
        BY DEF Init
      <3> QED
        BY <3>1, <3>3, <3>4
    <2> QED
      BY <1>2, <2>1 DEF TypeOK
  <1>6. RowInv
    BY <1>2, <1>4 DEF Init, RowInv
  <1>7. Surplus = 0
    BY <1>4 DEF Init, Surplus, Saved
  <1>8. Rest /\ Covered(0)
    BY <1>7 DEF Init, Rest, PaymentRests, ChangeRests, ChangeAmount, Balanced, Covered
  <1> QED
    BY <1>5, <1>6, <1>8 DEF IInv, ToDo

LEMMA Stutter == IInv /\ UNCHANGED vars => IInv'
  <1> SUFFICES ASSUME IInv, UNCHANGED vars PROVE IInv'
    OBVIOUS
  <1>1. /\ UNCHANGED <<active, object, row, change, changeRow, closedRows, todo, inHand>>
        /\ UNCHANGED <<session, accepting, offer, giving, cash, out, gone, crashes, mixedUp>>
    BY DEF vars, moneyVars, deviceVars, ghostVars
  <1>2. OnPayments' = OnPayments /\ \A p \in Payments : Amount(p)' = Amount(p)
    BY <1>1 DEF OnPayments, Amount
  <1>3. Surplus' = Surplus /\ ChangeAmount' = ChangeAmount
    BY <1>1, <1>2 DEF Surplus, Saved, ChangeAmount
  <1>4. TypeOK' /\ RowInv' /\ Covered(0)'
    BY <1>1, <1>2, <1>3 DEF IInv, TypeOK, RowInv, Covered
  <1>5. \A p \in Payments, s \in Sums :
          Gain(p, s)' = Gain(p, s) /\ (PaymentDue(p, s)' <=> PaymentDue(p, s))
    BY <1>1, <1>2 DEF Gain, PaymentDue
  <1>6. \A a \in Nat : /\ ChangeGain(a)' = ChangeGain(a)
                       /\ ChangeDue(a)' <=> ChangeDue(a)
                       /\ CloseDue(a)' <=> CloseDue(a)
    BY <1>1 DEF ChangeGain, ChangeDue, CloseDue
  <1>7. (PaymentRests' <=> PaymentRests) /\ (ChangeRests' <=> ChangeRests)
    BY <1>1, <1>3 DEF PaymentRests, ChangeRests
  <1>8. CASE Rest \/ RestEnable
    BY <1>1, <1>3, <1>4, <1>7, <1>8 DEF IInv, ToDo, Rest, RestEnable, Balanced
  <1>9. CASE \E a \in Nat : OneChange(a) \/ OneClose(a)
    <2> PICK a \in Nat : OneChange(a) \/ OneClose(a)
      BY <1>9
    <2>1. OneChange(a)' \/ OneClose(a)'
      BY <1>1, <1>3, <1>6, <1>7 DEF OneChange, OneClose, Balanced
    <2> QED
      BY <1>4, <2>1 DEF IInv, ToDo
  <1>10. CASE \E p \in Payments, s \in Sums : OnePayment(p, s) \/ PaymentEnable(p, s)
    <2> PICK p \in Payments, s \in Sums : OnePayment(p, s) \/ PaymentEnable(p, s)
      BY <1>10
    <2>1. OnePayment(p, s)' \/ PaymentEnable(p, s)'
      BY <1>1, <1>3, <1>5, <1>7 DEF OnePayment, PaymentEnable, Balanced
    <2> QED
      BY <1>4, <2>1 DEF IInv, ToDo
  <1>11. CASE \E p \in Payments, s \in Sums, a \in Nat :
                \/ PaymentChange(p, s, a) \/ PaymentClose(p, s, a)
                \/ ChangePayment(a, p, s) \/ ChangePaymentEnable(a, p, s)
    <2> PICK p \in Payments, s \in Sums, a \in Nat :
               \/ PaymentChange(p, s, a) \/ PaymentClose(p, s, a)
               \/ ChangePayment(a, p, s) \/ ChangePaymentEnable(a, p, s)
      BY <1>11
    <2>1. \/ PaymentChange(p, s, a)' \/ PaymentClose(p, s, a)'
          \/ ChangePayment(a, p, s)' \/ ChangePaymentEnable(a, p, s)'
      BY <1>1, <1>3, <1>5, <1>6
         DEF PaymentChange, PaymentClose, ChangePayment, ChangePaymentEnable, Balanced, Covered
    <2> QED
      BY <1>4, <2>1 DEF IInv, ToDo
  <1> QED
    BY <1>8, <1>9, <1>10, <1>11 DEF IInv, ToDo

LEMMA NextIInv == IInv /\ [Next]_vars => IInv'
  <1> SUFFICES ASSUME IInv, [Next]_vars PROVE IInv'
    OBVIOUS
  <1>1. ASSUME NEW p \in Payments, CreatePayment(p) PROVE IInv'
    BY <1>1, CreatePaymentStep
  <1>2. CASE ChargeEnter
    BY <1>2, ChargeEnterStep
  <1>3. CASE MovePaymentToChange
    BY <1>3, MovePaymentToChangeStep
  <1>4. CASE ResetChange
    BY <1>4, ResetChangeStep
  <1>5. CASE DeactivatePayment
    BY <1>5, DeactivatePaymentStep
  <1>6. CASE OfferChange \/ Dispense \/ AcceptorsDisabled \/ NothingDispensed
    BY <1>6, QuietSteps
  <1>7. ASSUME NEW n \in Notes, NoteStacked(n) PROVE IInv'
    BY <1>7, NoteStackedStep
  <1>8. ASSUME NEW g \in 1..MaxCash, AmountDispensed(g) PROVE IInv'
    BY <1>8, AmountDispensedStep
  <1>9. CASE Step
    BY <1>9, SaveStep
  <1>10. CASE Crash
    BY <1>10, CrashStep
  <1>11. CASE UNCHANGED vars
    BY <1>11, Stutter
  <1> HIDE DEF IInv
  <1> QED
    BY <1>1, <1>2, <1>3, <1>4, <1>5, <1>6, <1>7, <1>8, <1>9, <1>10, <1>11 DEF Next

\* The books at every point of every handler: what the saves to come bring, and
\* what is missing until then.
THEOREM ChangeInvariance == Spec => []IInv
  BY InitIInv, NextIInv, PTL DEF Spec

\* The state has its type: no payment in memory is above its limit, and notes
\* are credited to a payment that has a row.
THEOREM ChangeTypeCorrect == Spec => []TypeOK
  <1>1. IInv => TypeOK
    BY DEF IInv
  <1> QED
    BY <1>1, ChangeInvariance, PTL

\* Only a crash loses what was in hand.
LEMMA OnlyCrashesLose == Spec => []GoneInv
  <1>1. Init => GoneInv
    BY DEF Init, GoneInv
  <1>2. IInv /\ GoneInv /\ [Next]_vars => GoneInv'
    <2> SUFFICES ASSUME IInv, GoneInv, [Next]_vars PROVE GoneInv'
      OBVIOUS
    <2>1. CASE Crash
      BY <2>1 DEF Crash, GoneInv, IInv, TypeOK
    <2>2. CASE ~Crash
      <3>1. UNCHANGED <<crashes, gone>>
        BY <2>2 DEF Next, CreatePayment, ChargeEnter, MovePaymentToChange, MovePayment,
                    ResetChange, DeactivatePayment, OfferChange, Dispense, NoteStacked,
                    AcceptorsDisabled, AmountDispensed, NothingDispensed, Step, ghostVars, vars
      <3> QED
        BY <3>1 DEF GoneInv
    <2> QED
      BY <2>1, <2>2
  <1> QED
    BY <1>1, <1>2, ChangeInvariance, PTL DEF Spec

\* Between two handlers every note is on exactly one row or was given out: the
\* handlers that move money between the payment and the change (moveChangeToPayment,
\* movePaymentToChange, onAmountUpdated, onAmountDispensed) neither lose nor
\* double any, whatever the limits and the notes.
THEOREM BookedOnceTheorem == Spec => []BookedOnce
  <1>1. IInv /\ GoneInv => BookedOnce
    <2> SUFFICES ASSUME IInv, GoneInv, Idle, crashes = 0, ~mixedUp PROVE cash = Saved + out
      BY DEF BookedOnce
    <2>1. Surplus = 0
      BY IdleRests, NumberFacts DEF Rest, Balanced, IInv
    <2>2. Surplus = Saved + out + gone - cash
      BY DEF Surplus
    <2>3. gone = 0
      BY DEF GoneInv
    <2>4. Saved \in Nat /\ out \in Nat /\ gone \in Nat /\ cash \in Nat
      BY NumberFacts DEF IInv
    <2> QED
      BY <2>1, <2>2, <2>3, <2>4
  <1> QED
    BY <1>1, ChangeInvariance, OnlyCrashesLose, PTL

\* No crash between two saves loses more than the handler moves: each pair of
\* saves is in the order that risks least.
THEOREM NothingLostTheorem == Spec => []NothingLost
  <1>1. IInv => NothingLost
    <2> SUFFICES ASSUME IInv, ~mixedUp PROVE cash <= Saved + out + inHand + gone
      BY DEF NothingLost, NotesAreBooked
    <2>1. Surplus + inHand >= 0
      BY NumberFacts DEF IInv, Covered
    <2>2. Surplus = Saved + out + gone - cash
      BY DEF Surplus
    <2>3. Saved \in Nat /\ out \in Nat /\ gone \in Nat /\ cash \in Nat /\ inHand \in Nat
      BY NumberFacts DEF IInv
    <2> QED
      BY <2>1, <2>2, <2>3
  <1> QED
    BY <1>1, ChangeInvariance, PTL
=============================================================================
