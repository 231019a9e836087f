------------------------- MODULE CashAcceptor_proofs -------------------------
(***************************************************************************)
(* Proofs about CashAcceptor, for any acceptors, payments, limits and notes. *)
(***************************************************************************)
EXTENDS CashAcceptor, FiniteSetTheorems, TLAPS

-----------------------------------------------------------------------------
\* The inductive invariant.

Events == [acc : Acceptors, kind : Kinds, note : Nat]

\* A bill acceptor that has reported itself off holds no note until the report
\* is handled, so nothing stacked follows the report.
QueueInv ==
  /\ events \in Seq(Events)
  /\ \A i \in DOMAIN events :
       events[i].acc \in Bills /\ events[i].kind = "disabled" => dev[events[i].acc].path = "empty"
  /\ \A i, j \in DOMAIN events :
       i < j /\ events[i].acc \in Bills /\ events[i].acc = events[j].acc
         /\ events[i].kind = "disabled" => events[j].kind # "stacked"

\* An acceptor of the session is subscribed to, and so is a bill acceptor that
\* has been told to stack.
DeviceInv ==
  /\ \A a \in Acceptors : dev[a].err => dev[a].path = "empty"
  /\ \A a \in Bills : dev[a].timers = 0 /\ (dev[a].path = "stacking" => dev[a].sub)
  /\ \A a \in session.valid : dev[a].sub

\* The session is that of the payment of the screen; disable() is never refused,
\* and the scenario leaves its disable state with no acceptor in the session.
SessionInv ==
  /\ ~refused
  /\ session.pay \in {0, pay}
  /\ ui # "away" => session.pay = pay
  /\ main.op \in {"enable", "subscribe"} => session.pay = pay /\ ui # "leave"
  /\ session.valid # {} => session.pay # 0
  /\ ui = "leave" => session.valid = {}

\* A bill that is still to be booked for the payment of the session comes from
\* an acceptor of the session; other bills belong to earlier payments.
OutInv ==
  /\ \A a \in Acceptors : orderedFor[a] <= session.pay
  /\ \A a \in Bills : Outstanding(a) =>
       orderedFor[a] # 0 /\ (orderedFor[a] = session.pay => a \in session.valid)

IInv == TypeOK /\ QueueInv /\ DeviceInv /\ SessionInv /\ OutInv /\ BillsAreHeard

-----------------------------------------------------------------------------
\* The drivers: what switching on and off leaves as it is.

\* d becomes e without a note coming in or being stacked, and off is reported
\* only with an empty path.
Follows(d, e) ==
  /\ e \in Devices
  /\ e.sub = d.sub /\ e.err = d.err
  /\ e.path = "stacking" => d.path = "stacking"
  /\ e.path # "empty" => d.path # "empty" /\ e.note = d.note
  /\ e.timers = d.timers \/ e.path = "empty"

\* e is d with other orders and parameters.
Same(d, e) ==
  /\ e \in Devices /\ e.sub = d.sub /\ e.err = d.err /\ e.path = d.path /\ e.note = d.note
  /\ e.timers = d.timers

LEMMA SameFacts ==
  ASSUME NEW d \in Devices
  PROVE  /\ Same(d, Unprocessed(d))
         /\ Same(d, [d EXCEPT !.wanted = TRUE]) /\ Same(d, [d EXCEPT !.wanted = FALSE])
         /\ Same(d, [d EXCEPT !.wanted = TRUE, !.power = "on", !.checkDisable = FALSE])
         /\ Same(d, [d EXCEPT !.wanted = FALSE, !.checkDisable = FALSE])
         /\ Same(d, [d EXCEPT !.enabling = TRUE]) /\ Same(d, [d EXCEPT !.disabling = TRUE])
         /\ Same(d, [d EXCEPT !.checkDisable = TRUE]) /\ Same(d, [d EXCEPT !.closing = TRUE])
         /\ Same(d, [d EXCEPT !.closing = FALSE])
  <1>1. Same(d, Unprocessed(d))
    BY DEF Same, Unprocessed, Devices
  <1>2. Same(d, [d EXCEPT !.wanted = TRUE]) /\ Same(d, [d EXCEPT !.wanted = FALSE])
    BY DEF Same, Devices
  <1>3. Same(d, [d EXCEPT !.wanted = TRUE, !.power = "on", !.checkDisable = FALSE])
    BY DEF Same, Devices
  <1>4. Same(d, [d EXCEPT !.wanted = FALSE, !.checkDisable = FALSE])
    BY DEF Same, Devices
  <1>5. Same(d, [d EXCEPT !.enabling = TRUE]) /\ Same(d, [d EXCEPT !.disabling = TRUE])
    BY DEF Same, Devices
  <1>6. Same(d, [d EXCEPT !.checkDisable = TRUE])
    BY DEF Same, Devices
  <1>7. Same(d, [d EXCEPT !.closing = TRUE]) /\ Same(d, [d EXCEPT !.closing = FALSE])
    BY DEF Same, Devices
  <1> QED
    BY <1>1, <1>2, <1>3, <1>4, <1>5, <1>6, <1>7

LEMMA SameFollows ==
  ASSUME NEW d, NEW e, NEW f, Same(d, e), Same(e, f)
  PROVE  Same(d, f) /\ Follows(d, f)
  BY DEF Same, Follows

LEMMA SwitchedOnFacts ==
  ASSUME NEW d \in Devices, NEW r \in SwitchedOn(d)
  PROVE  Follows(d, r.dev) /\ r.dev.timers = d.timers /\ r.ok \in BOOLEAN
  <1> DEFINE u == Unprocessed(d)
  <1>1. u \in Devices /\ Same(d, u)
    BY SameFacts DEF Same
  <1>2. CASE r = [dev |-> d, ok |-> FALSE]
    BY <1>2 DEF Same, Follows
  <1>3. ASSUME r # [dev |-> d, ok |-> FALSE]
        PROVE  Same(u, r.dev) /\ r.ok \in BOOLEAN
    <2>1. CASE IsEnabled(d)
      <3>1. r = [dev |-> [u EXCEPT !.wanted = TRUE], ok |-> TRUE]
        BY <1>3, <2>1 DEF SwitchedOn
      <3> QED
        BY <1>1, <3>1, SameFacts
    <2>2. CASE ~IsEnabled(d) /\ d.err
      <3>1. r = [dev |-> [u EXCEPT !.wanted = FALSE], ok |-> FALSE]
        BY <1>3, <2>2 DEF SwitchedOn
      <3> QED
        BY <1>1, <3>1, SameFacts
    <2>3. CASE ~IsEnabled(d) /\ ~d.err
      <3>1. \/ r = [dev |-> [u EXCEPT !.wanted = TRUE, !.power = "on", !.checkDisable = FALSE],
                    ok |-> TRUE]
            \/ r = [dev |-> [u EXCEPT !.enabling = TRUE], ok |-> FALSE]
        BY <1>3, <2>3 DEF SwitchedOn
      <3>2. /\ Same(u, [u EXCEPT !.wanted = TRUE, !.power = "on", !.checkDisable = FALSE])
            /\ Same(u, [u EXCEPT !.enabling = TRUE])
        BY <1>1, SameFacts
      <3> HIDE DEF u
      <3>3. CASE r = [dev |-> [u EXCEPT !.wanted = TRUE, !.power = "on", !.checkDisable = FALSE],
                      ok |-> TRUE]
        BY <3>2, <3>3
      <3>4. CASE r = [dev |-> [u EXCEPT !.enabling = TRUE], ok |-> FALSE]
        BY <3>2, <3>4
      <3> QED
        BY <3>1, <3>3, <3>4
    <2> QED
      BY <2>1, <2>2, <2>3
  <1> QED
    BY <1>1, <1>2, <1>3, SameFollows DEF Same

LEMMA ClosedFacts ==
  ASSUME NEW d \in Devices
  PROVE  Follows(d, Closed(d))
  <1>1. CASE d.path = "empty"
    <2>1. Closed(d) = [d EXCEPT !.power = "off", !.wanted = FALSE, !.disabling = FALSE,
                       !.checkDisable = FALSE, !.closing = FALSE, !.timers = d.timers + 1]
      BY <1>1 DEF Closed
    <2>2. d.timers + 1 \in Nat
      BY DEF Devices
    <2>3. Closed(d) \in Devices
      BY <2>1, <2>2 DEF Devices
    <2> QED
      BY <1>1, <2>1, <2>3 DEF Follows, Devices
  <1>2. CASE d.path # "empty"
    BY <1>2, SameFacts DEF Closed, Same, Follows
  <1> QED
    BY <1>1, <1>2

LEMMA AfterReturnFacts ==
  ASSUME NEW d \in Devices, NEW bill \in BOOLEAN, NEW e \in AfterReturn(d, bill)
  PROVE  Follows(d, e) /\ e.timers = d.timers
  <1>1. CASE ~(bill /\ d.path \in {"accepting", "escrow"})
    BY <1>1 DEF AfterReturn, Follows
  <1>2. CASE bill /\ d.path \in {"accepting", "escrow"}
    <2>1. e = [d EXCEPT !.path = "empty", !.note = 0] \/ e = [d EXCEPT !.path = "escrow"]
      BY <1>2 DEF AfterReturn
    <2>2. [d EXCEPT !.path = "empty", !.note = 0] \in Devices
      BY DEF Devices, Paths
    <2>3. [d EXCEPT !.path = "escrow"] \in Devices
      BY DEF Devices, Paths
    <2> QED
      BY <1>2, <2>1, <2>2, <2>3 DEF Follows, Devices
  <1> QED
    BY <1>1, <1>2

LEMMA SwitchedOffFacts ==
  ASSUME NEW d \in Devices, d.err => d.path = "empty",
         NEW bill \in BOOLEAN, NEW own \in BOOLEAN, NEW r \in SwitchedOff(d, bill, own)
  PROVE  /\ Follows(d, r.dev)
         /\ r.sent \in BOOLEAN
         /\ r.sent => r.dev.path = "empty" /\ r.dev.timers = d.timers
  <1>1. \A x \in Devices : Unprocessed(x) \in Devices /\ Same(x, Unprocessed(x))
    BY SameFacts DEF Same
  <1>2. CASE ~IsEnabled(d)
    <2>1. r = [dev |-> [Unprocessed(d) EXCEPT !.wanted = FALSE, !.checkDisable = FALSE],
               sent |-> TRUE]
      BY <1>2 DEF SwitchedOff
    <2>2. d.path = "empty"
      BY <1>2 DEF IsEnabled, Devices
    <2>3. Same(Unprocessed(d), r.dev)
      BY <1>1, <2>1, SameFacts
    <2>4. Same(d, r.dev) /\ Follows(d, r.dev)
      BY <1>1, <2>3, SameFollows
    <2> QED
      BY <2>1, <2>2, <2>4 DEF Same
  <1>3. CASE IsEnabled(d) /\ d.closing /\ ~d.checkDisable
    <2>1. r = [dev |-> [Unprocessed(d) EXCEPT !.disabling = TRUE], sent |-> FALSE]
      BY <1>3 DEF SwitchedOff
    <2>2. Same(Unprocessed(d), r.dev)
      BY <1>1, <2>1, SameFacts
    <2>3. Follows(d, r.dev)
      BY <1>1, <2>2, SameFollows
    <2> QED
      BY <2>1, <2>3
  <1>4. CASE IsEnabled(d) /\ ~(d.closing /\ ~d.checkDisable)
    <2>1. PICK e \in AfterReturn(d, bill) :
            r = [dev |-> LET s == [Unprocessed(e) EXCEPT !.disabling = TRUE] IN
                   IF ~CanDisable(e) /\ ~e.checkDisable
                   THEN [s EXCEPT !.checkDisable = TRUE]
                   ELSE IF own THEN Closed(s) ELSE [s EXCEPT !.closing = TRUE],
                 sent |-> FALSE]
      BY <1>4 DEF SwitchedOff
    <2> DEFINE s == [Unprocessed(e) EXCEPT !.disabling = TRUE]
    <2>2. Follows(d, e) /\ e.timers = d.timers /\ e \in Devices
      BY AfterReturnFacts DEF Follows
    <2>3. s \in Devices /\ Same(e, s)
      <3>1. Unprocessed(e) \in Devices /\ Same(e, Unprocessed(e))
        BY <1>1, <2>2
      <3>2. Same(Unprocessed(e), s)
        BY <3>1, SameFacts
      <3> QED
        BY <3>1, <3>2, SameFollows DEF Same
    <2> HIDE DEF s
    <2>4. \/ r.dev = [s EXCEPT !.checkDisable = TRUE]
          \/ r.dev = Closed(s)
          \/ r.dev = [s EXCEPT !.closing = TRUE]
      BY <2>1 DEF s
    <2>5. Follows(s, r.dev)
      <3>1. Same(s, [s EXCEPT !.checkDisable = TRUE]) /\ Same(s, [s EXCEPT !.closing = TRUE])
        BY <2>3, SameFacts
      <3>2. Follows(s, Closed(s))
        BY <2>3, ClosedFacts
      <3> QED
        BY <2>4, <3>1, <3>2 DEF Same, Follows
    <2>6. ~r.sent
      BY <2>1
    <2>7. r.sent \in BOOLEAN
      BY <2>1
    <2> QED
      BY <2>2, <2>3, <2>5, <2>6, <2>7 DEF Follows, Same
  <1> QED
    BY <1>2, <1>3, <1>4

-----------------------------------------------------------------------------
\* The queue.

\* t is s with nothing but e added.
Grown(s, t, e) ==
  /\ t \in Seq(Events) /\ Len(s) <= Len(t)
  /\ \A i \in 1..Len(s) : t[i] = s[i]
  /\ \A i \in 1..Len(t) : i > Len(s) => t[i] = e
  /\ Len(s) = Len(t) => s = t

LEMMA GrownFacts ==
  ASSUME NEW s \in Seq(Events), NEW e \in Events
  PROVE  /\ Grown(s, s, e) /\ Grown(s, Append(s, e), e)
         /\ \A x, y \in {<<>>, <<e>>} : Grown(s, s \o x \o y, e) /\ (s \o x \o y # s => x # <<>> \/ y # <<>>)
  <1>1. Grown(s, s, e) /\ Grown(s, Append(s, e), e)
    BY DEF Grown
  <1>2. ASSUME NEW x \in {<<>>, <<e>>}, NEW y \in {<<>>, <<e>>}
        PROVE  Grown(s, s \o x \o y, e) /\ (s \o x \o y # s => x # <<>> \/ y # <<>>)
    <2>1. CASE x = <<>> /\ y = <<>>
      BY <1>1, <2>1
    <2>2. CASE x = <<e>> /\ y = <<>>
      <3>1. s \o x \o y = Append(s, e)
        BY <2>2
      <3> QED
        BY <1>1, <2>2, <3>1
    <2>3. CASE x = <<>> /\ y = <<e>>
      <3>1. s \o x \o y = Append(s, e)
        BY <2>3
      <3> QED
        BY <1>1, <2>3, <3>1
    <2>4. CASE x = <<e>> /\ y = <<e>>
      <3>1. s \o x \o y = Append(Append(s, e), e)
        BY <2>4
      <3> QED
        BY <2>4, <3>1 DEF Grown
    <2> QED
      BY <2>1, <2>2, <2>3, <2>4
  <1> QED
    BY <1>1, <1>2

-----------------------------------------------------------------------------
\* A step of one device that adds no order to stack, and what it reports.

LEMMA DeviceStep ==
  ASSUME IInv, NEW a \in Acceptors, NEW d \in Devices, dev' = [dev EXCEPT ![a] = d],
         d.sub = dev[a].sub, d.err => d.path = "empty",
         a \in Bills => d.timers = 0 /\ (d.path = "stacking" => dev[a].path = "stacking"),
         NEW e \in Events, e.acc = a, Grown(events, events', e),
         events' # events /\ a \in Bills =>
           /\ e.kind = "disabled" => d.path = "empty"
           /\ e.kind = "stacked" => dev[a].path = "stacking",
         d.path # "empty" =>
           \/ dev[a].path # "empty"
           \/ events' = events /\ \A i \in DOMAIN events : events[i].acc # a,
         UNCHANGED <<session, orderedFor>>
  PROVE  dev' \in [Acceptors -> Devices] /\ QueueInv' /\ DeviceInv' /\ OutInv'
  <1> USE DEF IInv
  <1>1. dev \in [Acceptors -> Devices] /\ Bills \subseteq Acceptors /\ session.valid \subseteq Acceptors
    BY AcceptorsAssumption DEF TypeOK
  <1>2. dev' \in [Acceptors -> Devices] /\ dev'[a] = d
        /\ \A b \in Acceptors : b # a => dev'[b] = dev[b]
    BY <1>1
  <1>3. \A i \in DOMAIN events' :
          /\ i \in DOMAIN events => events'[i] = events[i]
          /\ i \notin DOMAIN events => events'[i] = e /\ events' # events
          /\ \A j \in DOMAIN events : i \notin DOMAIN events => j < i
    BY DEF QueueInv, Grown
  <1>4. QueueInv'
    <2>1. \A i \in DOMAIN events' : events'[i].acc \in Bills /\ events'[i].kind = "disabled"
            => dev'[events'[i].acc].path = "empty"
      BY <1>1, <1>2, <1>3 DEF QueueInv
    <2>2. ASSUME NEW i \in DOMAIN events', NEW j \in DOMAIN events', i < j,
                 events'[i].acc \in Bills, events'[i].acc = events'[j].acc,
                 events'[i].kind = "disabled", events'[j].kind = "stacked"
          PROVE  FALSE
      <3>1. CASE j \in DOMAIN events
        <4>1. i \in DOMAIN events
          BY <1>3, <2>2, <3>1 DEF QueueInv, Grown
        <4> QED
          BY <1>3, <2>2, <3>1, <4>1 DEF QueueInv
      <3>2. CASE j \notin DOMAIN events
        <4>1. events'[j] = e /\ events' # events
          BY <1>3, <3>2
        <4>2. a \in Bills /\ dev[a].path = "stacking" /\ events'[i].acc = a
          BY <2>2, <4>1
        <4>3. CASE i \in DOMAIN events
          BY <1>3, <2>2, <4>2, <4>3 DEF QueueInv
        <4>4. CASE i \notin DOMAIN events
          BY <1>3, <2>2, <4>1, <4>4
        <4> QED
          BY <4>3, <4>4
      <3> QED
        BY <3>1, <3>2
    <2>3. events' \in Seq(Events)
      BY DEF Grown
    <2> QED
      BY <2>1, <2>2, <2>3 DEF QueueInv
  <1>5. DeviceInv'
    BY <1>1, <1>2 DEF DeviceInv
  <1>6. \A b \in Bills : Outstanding(b)' => Outstanding(b)
    BY <1>1, <1>2, <1>3 DEF Outstanding
  <1>7. OutInv'
    BY <1>6 DEF OutInv
  <1> QED
    BY <1>2, <1>4, <1>5, <1>7

\* What Becomes() does is such a step.
LEMMA BecomesStep ==
  ASSUME IInv, NEW a \in Acceptors, NEW d, Follows(dev[a], d),
         NEW x \in {<<>>, <<Event(a, "disabled", 0)>>}, x # <<>> => d.path = "empty",
         Becomes(a, d, x), UNCHANGED <<session, orderedFor>>
  PROVE  dev' \in [Acceptors -> Devices] /\ QueueInv' /\ DeviceInv' /\ OutInv'
  <1> DEFINE now == a \in Bills /\ d.timers > 0
             n == IF now THEN [d EXCEPT !.timers = 0] ELSE d
             e == Event(a, "disabled", 0)
             y == IF now THEN <<e>> ELSE <<>>
  <1>1. dev \in [Acceptors -> Devices] /\ events \in Seq(Events) /\ dev[a] \in Devices
    BY DEF IInv, TypeOK, QueueInv
  <1>2. e \in Events /\ e.acc = a /\ e.kind = "disabled"
    BY DEF Events, Event, Kinds
  <1>3. dev' = [dev EXCEPT ![a] = n] /\ events' = events \o x \o y
    BY DEF Becomes
  <1>4. n \in Devices /\ n.sub = d.sub /\ n.err = d.err /\ n.path = d.path
        /\ (a \in Bills => n.timers = 0)
    BY DEF Follows, Devices
  <1>5. now => d.path = "empty"
    BY <1>1 DEF Follows, IInv, DeviceInv
  <1>6. Grown(events, events', e) /\ (events' # events => x # <<>> \/ y # <<>>)
    <2> HIDE DEF e
    <2>1. x \in {<<>>, <<e>>} /\ y \in {<<>>, <<e>>}
      BY DEF e
    <2> QED
      BY <1>1, <1>2, <1>3, <2>1, GrownFacts
  <1>7. events' # events => n.path = "empty"
    BY <1>4, <1>5, <1>6
  <1> HIDE DEF n, e, y, now
  <1>8. n.err => n.path = "empty"
    BY <1>1, <1>4 DEF Follows, IInv, DeviceInv
  <1>9. /\ n.path = "stacking" => dev[a].path = "stacking"
        /\ n.path # "empty" => dev[a].path # "empty"
        /\ n.sub = dev[a].sub
    BY <1>4 DEF Follows
  <1> QED
    BY <1>2, <1>3, <1>4, <1>6, <1>7, <1>8, <1>9, DeviceStep
-----------------------------------------------------------------------------
\* Calls of the manager.

Mains == [op : {"idle", "enable", "subscribe", "disable"}, todo : SUBSET Acceptors,
          cur : SUBSET Acceptors, failed : BOOLEAN]
Sessions == [pay : 0..NumPayments, max : Int, amount : Nat, valid : SUBSET Acceptors]
Bounds == [notes : 0..MaxNotes, visits : 0..MaxVisits, faults : 0..MaxFaults]

LEMMA EnableFacts ==
  ASSUME session \in Sessions, main \in Mains, NEW p \in 1..NumPayments, NEW max \in Int,
         Enable(p, max)
  PROVE  /\ session' \in Sessions /\ main' \in Mains /\ main'.op = "enable"
         /\ session'.pay = p
         /\ session'.valid = IF session.pay = p THEN session.valid ELSE {}
  <1>1. session' = SessionFor(session, p, max)
    BY DEF Enable
  <1>2. session' \in Sessions /\ session'.pay = p
        /\ session'.valid = IF session.pay = p THEN session.valid ELSE {}
    <2>1. CASE session.pay = p
      BY <1>1, <2>1 DEF SessionFor, Sessions
    <2>2. CASE session.pay # p
      <3>1. session' = [pay |-> p, max |-> max, amount |-> 0, valid |-> {}]
        BY <1>1, <2>2 DEF SessionFor, NoSession
      <3> QED
        BY <2>2, <3>1 DEF Sessions
    <2> QED
      BY <2>1, <2>2
  <1>3. \E T \in SUBSET Acceptors : main' = [main EXCEPT !.op = "enable", !.todo = T]
    BY DEF Enable
  <1> QED
    BY <1>2, <1>3 DEF Mains

LEMMA BeginDisableFacts ==
  ASSUME NEW s \in Sessions, NEW failed \in BOOLEAN, BeginDisable(s.pay, s, failed)
  PROVE  main' \in Mains /\ main'.op = "disable" /\ refused' = FALSE
  BY DEF BeginDisable, Sessions, Mains

LEMMA IdleFacts ==
  /\ Idle \in Mains /\ Idle.op = "idle"
  /\ [Idle EXCEPT !.op = "disable"] \in Mains /\ [Idle EXCEPT !.op = "disable"].op = "disable"
  BY DEF Idle, Mains

\* What TypeOK says, part by part.
LEMMA TypeFacts ==
  IInv => /\ dev \in [Acceptors -> Devices] /\ Bills \subseteq Acceptors
          /\ session \in Sessions /\ main \in Mains /\ bounds \in Bounds
          /\ pay \in 1..NumPayments /\ again \in BOOLEAN /\ refused \in BOOLEAN
          /\ ui \in {"away", "charge", "disable", "linger", "leave", "failed"}
          /\ booked \in [1..NumPayments -> Nat] /\ orderedFor \in [Acceptors -> 0..NumPayments]
          /\ lost \in Nat /\ unheard \subseteq Acceptors
  BY AcceptorsAssumption DEF IInv, TypeOK, Sessions, Mains, Bounds

LEMMA TypeParts ==
  ASSUME dev' \in [Acceptors -> Devices], QueueInv',
         session' \in Sessions, main' \in Mains, bounds' \in Bounds,
         pay' \in 1..NumPayments, again' \in BOOLEAN, refused' \in BOOLEAN,
         ui' \in {"away", "charge", "disable", "linger", "leave", "failed"},
         booked' \in [1..NumPayments -> Nat], orderedFor' \in [Acceptors -> 0..NumPayments],
         lost' \in Nat, unheard' \subseteq Acceptors
  PROVE  TypeOK'
  <1>1. \A i \in DOMAIN events' : events'[i] \in Events
    BY DEF QueueInv
  <1>2. \A i \in DOMAIN events' : events'[i] \in [acc : Acceptors, kind : Kinds, note : Nat]
    BY <1>1 DEF Events
  <1> QED
    BY <1>2 DEF TypeOK, Sessions, Mains, Bounds

\* A step of a device changes nothing else but the loop it is part of.
LEMMA DeviceOnly ==
  ASSUME IInv, dev' \in [Acceptors -> Devices], QueueInv', DeviceInv', OutInv',
         main' \in Mains, bounds' \in Bounds,
         main'.op \in {"enable", "subscribe"} => main.op \in {"enable", "subscribe"},
         unheard' \subseteq Acceptors, unheard' \intersect Bills = {},
         UNCHANGED <<session, uiVars, booked, orderedFor, lost, refused>>
  PROVE  IInv'
  <1>1. TypeOK'
    <2>1. /\ session' \in Sessions /\ pay' \in 1..NumPayments /\ again' \in BOOLEAN
          /\ refused' \in BOOLEAN
          /\ ui' \in {"away", "charge", "disable", "linger", "leave", "failed"}
          /\ booked' \in [1..NumPayments -> Nat] /\ orderedFor' \in [Acceptors -> 0..NumPayments]
          /\ lost' \in Nat
      BY TypeFacts DEF uiVars
    <2> QED
      BY <2>1, TypeParts
  <1>2. SessionInv'
    BY DEF IInv, SessionInv, uiVars
  <1> QED
    BY <1>1, <1>2 DEF IInv, BillsAreHeard

-----------------------------------------------------------------------------
\* The loops over the acceptors.

LEMMA EnableAcceptorStep == \A a \in Acceptors : IInv /\ EnableAcceptor(a) => IInv'
  <1> SUFFICES ASSUME NEW a \in Acceptors, IInv, EnableAcceptor(a) PROVE IInv'
    OBVIOUS
  <1>0. main \in Mains /\ bounds \in Bounds /\ main.op = "enable" /\ a \in main.todo
        /\ unheard \subseteq Acceptors /\ unheard \intersect Bills = {} /\ dev[a] \in Devices
    BY TypeFacts DEF EnableAcceptor, IInv, BillsAreHeard
  <1>1. CASE dev[a].err
    <2>1. main' = [main EXCEPT !.todo = @ \ {a}]
          /\ UNCHANGED <<dev, events, bounds, session, uiVars, booked, orderedFor, lost, unheard,
                         refused>>
      BY <1>1 DEF EnableAcceptor, devVars, moneyVars
    <2>2. main' \in Mains
      BY <1>0, <2>1 DEF Mains
    <2>3. dev' \in [Acceptors -> Devices]
      BY <2>1, TypeFacts
    <2>4. QueueInv' /\ DeviceInv' /\ OutInv'
      BY <2>1 DEF IInv, QueueInv, DeviceInv, OutInv, Outstanding
    <2> QED
      BY <1>0, <2>1, <2>2, <2>3, <2>4, DeviceOnly
  <1>2. CASE ~dev[a].err
    <2>1. PICK r \in SwitchedOn(dev[a]) :
            /\ r.ok \/ MayFail
            /\ Becomes(a, r.dev, <<>>)
            /\ main' = [main EXCEPT !.todo = @ \ {a},
                                    !.op = IF r.ok THEN "subscribe" ELSE "enable",
                                    !.cur = IF r.ok THEN {a} ELSE {}]
            /\ bounds' = [bounds EXCEPT !.faults = IF r.ok THEN @ ELSE @ + 1]
      BY <1>2 DEF EnableAcceptor
    <2>2. UNCHANGED <<session, uiVars, booked, orderedFor, lost, unheard, refused>>
      BY DEF EnableAcceptor, moneyVars
    <2>3. Follows(dev[a], r.dev) /\ r.ok \in BOOLEAN
      BY <1>0, SwitchedOnFacts
    <2>4. dev' \in [Acceptors -> Devices] /\ QueueInv' /\ DeviceInv' /\ OutInv'
      BY <2>1, <2>2, <2>3, BecomesStep
    <2>5. main' \in Mains
      BY <1>0, <2>1 DEF Mains
    <2>6. bounds' \in Bounds
      <3>1. CASE r.ok
        BY <1>0, <2>1, <3>1 DEF Bounds
      <3>2. CASE ~r.ok
        <4>1. bounds.faults + 1 \in 0..MaxFaults
          BY <1>0, <2>1, <3>2, BoundsAssumption DEF MayFail, Bounds
        <4> QED
          BY <1>0, <2>1, <3>2, <4>1 DEF Bounds
      <3> QED
        BY <3>1, <3>2
    <2> QED
      BY <1>0, <2>2, <2>4, <2>5, <2>6, DeviceOnly
  <1> QED
    BY <1>1, <1>2

LEMMA DisableAcceptorStep == \A a \in Acceptors : IInv /\ DisableAcceptor(a) => IInv'
  <1> SUFFICES ASSUME NEW a \in Acceptors, IInv, DisableAcceptor(a) PROVE IInv'
    OBVIOUS
  <1>0. main \in Mains /\ bounds \in Bounds /\ main.op = "disable" /\ a \in main.todo
        /\ unheard \subseteq Acceptors /\ unheard \intersect Bills = {} /\ dev[a] \in Devices
    BY TypeFacts DEF DisableAcceptor, IInv, BillsAreHeard
  <1>1. PICK r \in SwitchedOff(dev[a], a \in Bills, FALSE) :
          Becomes(a, r.dev, IF r.sent THEN <<Event(a, "disabled", 0)>> ELSE <<>>)
    BY DEF DisableAcceptor
  <1>2. UNCHANGED <<session, uiVars, booked, orderedFor, lost, unheard, refused, bounds>>
    BY DEF DisableAcceptor, moneyVars
  <1>3. Follows(dev[a], r.dev) /\ (r.sent => r.dev.path = "empty")
    <2>1. dev[a].err => dev[a].path = "empty"
      BY DEF IInv, DeviceInv
    <2>2. (a \in Bills) \in BOOLEAN /\ FALSE \in BOOLEAN
      OBVIOUS
    <2> QED
      BY <1>0, <1>1, <2>1, <2>2, SwitchedOffFacts
  <1>4. dev' \in [Acceptors -> Devices] /\ QueueInv' /\ DeviceInv' /\ OutInv'
    BY <1>1, <1>2, <1>3, BecomesStep
  <1>5. main' \in Mains /\ main'.op = "disable"
    BY <1>0 DEF DisableAcceptor, Mains
  <1> QED
    BY <1>0, <1>2, <1>4, <1>5, DeviceOnly

LEMMA SubscribeStep == IInv /\ SubscribeAcceptor => IInv'
  <1> SUFFICES ASSUME IInv, SubscribeAcceptor PROVE IInv'
    OBVIOUS
  <1>0. /\ dev \in [Acceptors -> Devices] /\ Bills \subseteq Acceptors
        /\ session \in Sessions /\ main \in Mains /\ main.op = "subscribe"
        /\ main.cur \subseteq Acceptors
    BY TypeFacts DEF SubscribeAcceptor, Mains
  <1>1. /\ UNCHANGED <<events, uiVars, booked, orderedFor, lost, unheard, refused, bounds>>
        /\ session' = [session EXCEPT !.valid = @ \union main.cur]
        /\ main' = [main EXCEPT !.op = "enable", !.cur = {}]
    BY DEF SubscribeAcceptor, moneyVars
  <1>2. session' \in Sessions /\ session'.pay = session.pay
        /\ session'.valid = session.valid \union main.cur
    BY <1>0, <1>1 DEF Sessions
  <1>3. main' \in Mains /\ main'.op = "enable"
    BY <1>0, <1>1 DEF Mains
  <1>4. dev' \in [Acceptors -> Devices]
        /\ \A a \in Acceptors : /\ dev'[a].path = dev[a].path /\ dev'[a].err = dev[a].err
                                /\ dev'[a].timers = dev[a].timers
                                /\ dev'[a].sub = (dev[a].sub \/ a \in main.cur)
    <2>1. \A a \in Acceptors : dev'[a] = [dev[a] EXCEPT !.sub = dev[a].sub \/ a \in main.cur]
      BY DEF SubscribeAcceptor
    <2>2. \A d \in Devices : \A b \in BOOLEAN :
            /\ [d EXCEPT !.sub = b] \in Devices /\ [d EXCEPT !.sub = b].path = d.path
            /\ [d EXCEPT !.sub = b].err = d.err /\ [d EXCEPT !.sub = b].timers = d.timers
            /\ [d EXCEPT !.sub = b].sub = b
      BY DEF Devices
    <2>3. \A a \in Acceptors : (dev[a].sub \/ a \in main.cur) \in BOOLEAN /\ dev[a] \in Devices
      BY <1>0 DEF Devices
    <2>4. dev' = [a \in Acceptors |-> [dev[a] EXCEPT !.sub = dev[a].sub \/ a \in main.cur]]
      BY DEF SubscribeAcceptor
    <2>5. dev' \in [Acceptors -> Devices]
      BY <2>2, <2>3, <2>4
    <2>6. ASSUME NEW a \in Acceptors
          PROVE  /\ dev'[a].path = dev[a].path /\ dev'[a].err = dev[a].err
                 /\ dev'[a].timers = dev[a].timers
                 /\ dev'[a].sub = (dev[a].sub \/ a \in main.cur)
      <3>1. PICK b \in BOOLEAN : b = (dev[a].sub \/ a \in main.cur)
        BY <2>3
      <3>2. dev'[a] = [dev[a] EXCEPT !.sub = b] /\ dev[a] \in Devices
        BY <2>1, <2>3, <3>1
      <3>3. dev'[a].sub = b
        BY <2>2, <3>2
      <3> QED
        BY <2>2, <3>1, <3>2, <3>3
    <2> QED
      BY <2>5, <2>6
  <1>5. TypeOK' /\ QueueInv'
    <2>1. QueueInv'
      BY <1>0, <1>1, <1>4 DEF IInv, QueueInv, Events
    <2> QED
      BY <1>1, <1>2, <1>3, <1>4, <2>1, TypeFacts, TypeParts DEF uiVars
  <1>6. DeviceInv'
    <2>1. \A a \in Acceptors : dev'[a].err => dev'[a].path = "empty"
      BY <1>4 DEF IInv, DeviceInv
    <2>2. \A a \in Bills : dev'[a].timers = 0 /\ (dev'[a].path = "stacking" => dev'[a].sub)
      BY <1>0, <1>4 DEF IInv, DeviceInv
    <2>3. \A a \in session.valid : a \in Acceptors /\ dev[a].sub
      BY <1>0 DEF IInv, DeviceInv, Sessions
    <2>4. \A a \in session'.valid : dev'[a].sub
      BY <1>0, <1>2, <1>4, <2>3
    <2> QED
      BY <2>1, <2>2, <2>4 DEF DeviceInv
  <1>7. SessionInv'
    BY <1>0, <1>1, <1>2, <1>3, TypeFacts DEF IInv, SessionInv, uiVars
  <1>8. OutInv'
    BY <1>0, <1>1, <1>2, <1>4 DEF IInv, OutInv, Outstanding
  <1> QED
    BY <1>1, <1>5, <1>6, <1>7, <1>8 DEF IInv, BillsAreHeard

LEMMA EnableReturnsStep == IInv /\ EnableReturns => IInv'
  <1> SUFFICES ASSUME IInv, EnableReturns PROVE IInv'
    OBVIOUS
  <1>1. /\ UNCHANGED <<dev, events, session, pay, again, booked, orderedFor, lost, unheard, refused,
                       bounds>>
        /\ main' = Idle /\ ui' \in {"failed", ui} /\ main.op = "enable"
    BY DEF EnableReturns, devVars, moneyVars, AfterCall
  <1>2. QueueInv' /\ DeviceInv' /\ OutInv'
    BY <1>1 DEF IInv, QueueInv, DeviceInv, OutInv, Outstanding
  <1>3. TypeOK'
    BY <1>1, <1>2, IdleFacts, TypeFacts, TypeParts
  <1>4. SessionInv'
    BY <1>1, IdleFacts DEF IInv, SessionInv
  <1> QED
    BY <1>1, <1>2, <1>3, <1>4 DEF IInv, BillsAreHeard

LEMMA DisableReturnsStep == IInv /\ DisableReturns => IInv'
  <1> SUFFICES ASSUME IInv, DisableReturns PROVE IInv'
    OBVIOUS
  <1>0. /\ UNCHANGED <<dev, events, pay, again, booked, orderedFor, lost, unheard, refused, bounds>>
        /\ main.op = "disable" /\ session \in Sessions /\ main \in Mains /\ pay \in 1..NumPayments
    BY TypeFacts DEF DisableReturns, devVars, moneyVars
  <1>1. CASE ui = "disable" /\ again /\ session.valid = {}
    <2>1. Enable(pay, 0) /\ ui' = "linger"
      BY <1>1 DEF DisableReturns, EmitDisabled
    <2>2. /\ session' \in Sessions /\ main' \in Mains /\ main'.op = "enable"
          /\ session'.pay = session.pay /\ session.pay = pay /\ session'.valid = {}
      BY <1>0, <1>1, <2>1, EnableFacts DEF IInv, SessionInv
    <2>3. QueueInv'
      BY <1>0 DEF IInv, QueueInv
    <2>4. DeviceInv' /\ OutInv'
      BY <1>0, <1>1, <2>2 DEF IInv, DeviceInv, OutInv, Outstanding
    <2>5. TypeOK'
      BY <1>0, <2>1, <2>2, <2>3, TypeFacts, TypeParts
    <2>6. SessionInv'
      BY <1>0, <2>1, <2>2 DEF IInv, SessionInv
    <2> QED
      BY <1>0, <2>3, <2>4, <2>5, <2>6 DEF IInv, BillsAreHeard
  <1>2. CASE ~(ui = "disable" /\ again /\ session.valid = {})
    <2>1. /\ main' = Idle /\ session' = session
          /\ ui' \in {ui, "failed", "leave"} /\ (ui' = "leave" /\ ui # "leave" =>
                                                   ui = "disable" /\ session.valid = {})
      BY <1>2 DEF DisableReturns, EmitDisabled, AfterCall, IInv, SessionInv
    <2>2. QueueInv' /\ DeviceInv' /\ OutInv'
      BY <1>0, <2>1 DEF IInv, QueueInv, DeviceInv, OutInv, Outstanding
    <2>3. TypeOK'
      BY <1>0, <2>1, <2>2, IdleFacts, TypeFacts, TypeParts
    <2>4. SessionInv'
      <3>1. main'.op \notin {"enable", "subscribe"} /\ (ui' # "away" => ui # "away")
        BY <1>0, <2>1, IdleFacts DEF DisableReturns, EmitDisabled, AfterCall
      <3> QED
        BY <1>0, <2>1, <3>1 DEF IInv, SessionInv
    <2> QED
      BY <1>0, <2>2, <2>3, <2>4 DEF IInv, BillsAreHeard
  <1> QED
    BY <1>1, <1>2

-----------------------------------------------------------------------------
\* The slots for the signals of the drivers. The first signal of the queue is
\* taken off, the rest moves up.

LEMMA TailFacts ==
  ASSUME QueueInv, events # <<>>, events' = Tail(events)
  PROVE  /\ Head(events) \in Events /\ events' \in Seq(Events)
         /\ \A i \in DOMAIN events' : i + 1 \in DOMAIN events /\ events'[i] = events[i + 1]
         /\ 1 \in DOMAIN events /\ Head(events) = events[1]
         /\ \A i \in DOMAIN events' : i + 1 > 1
  BY DEF QueueInv

\* The devices other than that of the signal stay; it gets no path but the one
\* to the stacker.
LEMMA HandledQueue ==
  ASSUME QueueInv, events # <<>>, events' = Tail(events),
         \A a \in Acceptors : dev'[a].path # "empty" => dev[a].path # "empty"
  PROVE  QueueInv'
  <1>1. /\ events' \in Seq(Events)
        /\ \A i \in DOMAIN events' : i + 1 \in DOMAIN events /\ events'[i] = events[i + 1]
                                     /\ events'[i] \in Events
    BY TailFacts
  <1>2. \A i \in DOMAIN events' : events'[i].acc \in Bills /\ events'[i].kind = "disabled" =>
          dev'[events'[i].acc].path = "empty"
    <2> SUFFICES ASSUME NEW i \in DOMAIN events', events'[i].acc \in Bills, events'[i].kind = "disabled"
                 PROVE  dev'[events'[i].acc].path = "empty"
      OBVIOUS
    <2>1. i + 1 \in DOMAIN events /\ events'[i] = events[i + 1] /\ events'[i].acc \in Acceptors
      BY <1>1 DEF Events
    <2>2. dev[events'[i].acc].path = "empty"
      BY <2>1 DEF QueueInv
    <2> QED
      BY <2>1, <2>2
  <1>3. \A i, j \in DOMAIN events' :
          i < j /\ events'[i].acc \in Bills /\ events'[i].acc = events'[j].acc
            /\ events'[i].kind = "disabled" => events'[j].kind # "stacked"
    <2> SUFFICES ASSUME NEW i \in DOMAIN events', NEW j \in DOMAIN events',
                        i < j, events'[i].acc \in Bills, events'[i].acc = events'[j].acc,
                        events'[i].kind = "disabled"
                 PROVE  events'[j].kind # "stacked"
      OBVIOUS
    <2>1. i + 1 < j + 1
      BY <1>1
    <2> QED
      BY <1>1, <2>1 DEF QueueInv
  <1> QED
    BY <1>1, <1>2, <1>3 DEF QueueInv

LEMMA OrderFacts ==
  ASSUME NEW d \in Devices
  PROVE  /\ Stacking(d) \in Devices /\ Rejecting(d) \in Devices
         /\ Stacking(d).sub = d.sub /\ Rejecting(d).sub = d.sub
         /\ Stacking(d).err = d.err /\ Rejecting(d).err = d.err
         /\ Stacking(d).timers = d.timers /\ Rejecting(d).timers = d.timers
         /\ Stacking(d).path \in {d.path, "stacking"} /\ Rejecting(d).path \in {d.path, "empty"}
         /\ Stacking(d).path # d.path => d.path = "escrow"
  <1>1. Stacking(d) \in {d, [d EXCEPT !.path = "stacking"]}
        /\ (Stacking(d) # d => d.path = "escrow")
    BY DEF Stacking
  <1>2. Rejecting(d) \in {d, [d EXCEPT !.path = "empty", !.note = 0]}
    BY DEF Rejecting
  <1>3. [d EXCEPT !.path = "stacking"] \in Devices
    BY DEF Devices, Paths
  <1>4. [d EXCEPT !.path = "empty", !.note = 0] \in Devices
    BY DEF Devices, Paths
  <1> QED
    BY <1>1, <1>2, <1>3, <1>4 DEF Devices

LEMMA OnEscrowStep ==
  ASSUME IInv, HandleEvent, OnEscrow(Head(events))
  PROVE  IInv'
  <1> DEFINE e == Head(events)
             a == e.acc
  <1>0. /\ dev \in [Acceptors -> Devices] /\ Bills \subseteq Acceptors
        /\ session \in Sessions /\ orderedFor \in [Acceptors -> 0..NumPayments]
        /\ events # <<>> /\ events' = Tail(events) /\ e \in Events /\ a \in Acceptors
    BY TypeFacts, TailFacts DEF HandleEvent, IInv, Events
  <1>1. /\ UNCHANGED <<session, main, ui, pay, again, booked, lost, refused, unheard, bounds>>
        /\ \E d \in {Stacking(dev[a]), Rejecting(dev[a])} :
             /\ dev' = [dev EXCEPT ![a] = d]
             /\ d.path = "stacking" /\ dev[a].path # "stacking" => a \in session.valid
        /\ orderedFor' = [orderedFor EXCEPT ![a] =
             IF dev[a].path = "escrow" /\ dev'[a].path = "stacking" THEN session.pay ELSE @]
    BY <1>0, OrderFacts DEF HandleEvent, OnEscrow, Accepts
  <1>2. PICK d \in {Stacking(dev[a]), Rejecting(dev[a])} :
          /\ dev' = [dev EXCEPT ![a] = d]
          /\ d.path = "stacking" /\ dev[a].path # "stacking" => a \in session.valid
    BY <1>1
  <1> HIDE DEF e, a
  <1>3. /\ d \in Devices /\ d.sub = dev[a].sub /\ d.err = dev[a].err /\ d.timers = dev[a].timers
        /\ d.path # "empty" => dev[a].path # "empty"
        /\ d.path = "stacking" /\ dev[a].path # "stacking" =>
             dev[a].path = "escrow" /\ a \in session.valid
    <2>1. dev[a] \in Devices
      BY <1>0
    <2> QED
      BY <1>2, <2>1, OrderFacts
  <1>4. dev' \in [Acceptors -> Devices] /\ dev'[a] = d
        /\ \A b \in Acceptors : b # a => dev'[b] = dev[b]
    BY <1>0, <1>2, <1>3
  <1>5. QueueInv'
    BY <1>0, <1>3, <1>4, HandledQueue DEF IInv
  <1>6. DeviceInv'
    BY <1>0, <1>1, <1>3, <1>4 DEF IInv, DeviceInv, Sessions
  <1>7. OutInv'
    <2>1. \A b \in Acceptors : orderedFor'[b] \in {orderedFor[b], session.pay}
          /\ (b # a \/ ~(dev[a].path = "escrow" /\ d.path = "stacking") =>
                orderedFor'[b] = orderedFor[b])
      BY <1>0, <1>1, <1>4
    <2>2. \A b \in Acceptors : orderedFor'[b] <= session'.pay
      BY <1>0, <1>1, <2>1 DEF IInv, OutInv, Sessions
    <2>3. ASSUME NEW b \in Bills, Outstanding(b)'
          PROVE  orderedFor'[b] # 0 /\ (orderedFor'[b] = session'.pay => b \in session'.valid)
      <3>1. Outstanding(b) \/ (b = a /\ d.path = "stacking" /\ a \in session.valid)
        BY <1>0, <1>3, <1>4, <2>3, TailFacts DEF Outstanding, IInv
      <3>2. session.valid # {} => session.pay # 0
        BY DEF IInv, SessionInv
      <3>3. CASE b = a /\ dev[a].path = "escrow" /\ d.path = "stacking"
        <4>1. orderedFor'[b] = session.pay /\ a \in session.valid
          BY <1>0, <1>1, <1>3, <1>4, <3>3
        <4> QED
          BY <1>1, <3>2, <3>3, <4>1
      <3>4. CASE ~(b = a /\ dev[a].path = "escrow" /\ d.path = "stacking")
        <4>1. orderedFor'[b] = orderedFor[b] /\ Outstanding(b)
          BY <1>0, <1>3, <2>1, <3>1, <3>4 DEF Outstanding
        <4> QED
          BY <1>1, <4>1 DEF IInv, OutInv
      <3> QED
        BY <3>3, <3>4
    <2> QED
      BY <2>2, <2>3 DEF OutInv
  <1>8. TypeOK'
    <2>1. orderedFor' \in [Acceptors -> 0..NumPayments]
      BY <1>0, <1>1 DEF Sessions
    <2> QED
      BY <1>1, <1>4, <1>5, <2>1, TypeFacts, TypeParts
  <1>9. SessionInv' /\ BillsAreHeard'
    BY <1>1 DEF IInv, SessionInv, BillsAreHeard
  <1> QED
    BY <1>5, <1>6, <1>7, <1>8, <1>9 DEF IInv

LEMMA OnStackedStep ==
  ASSUME IInv, HandleEvent, OnStacked(Head(events))
  PROVE  IInv'
  <1> DEFINE e == Head(events)
  <1>0. /\ dev \in [Acceptors -> Devices] /\ Bills \subseteq Acceptors
        /\ session \in Sessions /\ main \in Mains /\ main.op = "idle"
        /\ events # <<>> /\ events' = Tail(events) /\ e \in Events
        /\ booked \in [1..NumPayments -> Nat] /\ lost \in Nat /\ again \in BOOLEAN
    BY TypeFacts, TailFacts DEF HandleEvent, IInv
  <1>1. UNCHANGED <<dev, ui, pay, orderedFor, unheard, bounds>>
    BY DEF HandleEvent, OnStacked
  <1>2. /\ session' \in Sessions /\ session'.pay = session.pay /\ session'.valid = session.valid
        /\ main' \in Mains /\ main'.op \in {"idle", "disable"} /\ refused' = FALSE
        /\ booked' \in [1..NumPayments -> Nat] /\ lost' \in Nat /\ again' \in BOOLEAN
    <2>1. CASE e.acc \in session.valid
      <3> DEFINE s == [session EXCEPT !.amount = @ + e.note]
      <3>1. s \in Sessions /\ s.pay = session.pay /\ s.valid = session.valid
        <4>1. session.amount \in Nat /\ e.note \in Nat
          BY <1>0 DEF Sessions, Events
        <4>2. session.amount + e.note \in Nat
          BY <4>1
        <4> HIDE DEF e
        <4> QED
          BY <1>0, <4>2 DEF Sessions
      <3>2. /\ session' = s /\ lost' = lost
            /\ booked' = [booked EXCEPT ![s.pay] = @ + e.note]
            /\ again' = (again \/ ui \in {"charge", "disable", "linger"})
            /\ IF MaxAmountReached(s)
               THEN BeginDisable(s.pay, s, FALSE)
               ELSE UNCHANGED <<main, refused>>
        BY <2>1 DEF OnStacked
      <3>3. session.pay \in 1..NumPayments
        BY <1>0, <2>1 DEF IInv, SessionInv, Sessions
      <3>4. booked' \in [1..NumPayments -> Nat]
        BY <1>0, <3>1, <3>2, <3>3 DEF Events
      <3> HIDE DEF s
      <3>5. main' \in Mains /\ main'.op \in {"idle", "disable"} /\ refused' = FALSE
        <4>1. CASE MaxAmountReached(s)
          BY <3>1, <3>2, <4>1, BeginDisableFacts
        <4>2. CASE ~MaxAmountReached(s)
          BY <1>0, <3>2, <4>2, TypeFacts DEF IInv, SessionInv
        <4> QED
          BY <4>1, <4>2
      <3> QED
        BY <1>0, <3>1, <3>2, <3>4, <3>5
    <2>2. CASE e.acc \notin session.valid
      <3>1. lost' = lost + e.note /\ UNCHANGED <<session, main, again, booked, refused>>
        BY <2>2 DEF OnStacked
      <3> QED
        BY <1>0, <3>1, TypeFacts DEF IInv, SessionInv, Events
    <2> QED
      BY <2>1, <2>2
  <1>3. QueueInv'
    BY <1>0, <1>1, HandledQueue DEF IInv
  <1>4. DeviceInv'
    BY <1>1, <1>2 DEF IInv, DeviceInv
  <1>5. OutInv'
    <2>1. \A b \in Bills : Outstanding(b)' => Outstanding(b)
      BY <1>0, <1>1, TailFacts DEF Outstanding, IInv
    <2> QED
      BY <1>1, <1>2, <2>1 DEF IInv, OutInv
  <1>6. TypeOK'
    BY <1>1, <1>2, <1>3, TypeFacts, TypeParts
  <1>7. SessionInv' /\ BillsAreHeard'
    BY <1>1, <1>2 DEF IInv, SessionInv, BillsAreHeard
  <1> QED
    BY <1>3, <1>4, <1>5, <1>6, <1>7 DEF IInv

LEMMA OnDisabledStep ==
  ASSUME IInv, HandleEvent, OnDisabled(Head(events))
  PROVE  IInv'
  <1>0. /\ dev \in [Acceptors -> Devices] /\ Bills \subseteq Acceptors
        /\ session \in Sessions /\ main \in Mains /\ main.op = "idle"
        /\ events # <<>> /\ events' = Tail(events)
        /\ Head(events) \in Events /\ Head(events).kind = "disabled"
    BY TypeFacts, TailFacts DEF HandleEvent, IInv, OnDisabled
  <1> PICK a \in Acceptors : a = Head(events).acc
    BY <1>0 DEF Events
  <1>1. /\ UNCHANGED <<ui, pay, again, booked, orderedFor, lost, unheard, bounds>>
        /\ dev' = [dev EXCEPT ![a].sub = FALSE]
        /\ session' = [session EXCEPT !.valid = @ \ {a}]
        /\ main' \in {[Idle EXCEPT !.op = "disable"], main} /\ refused' = FALSE
    BY DEF HandleEvent, OnDisabled
  <1>2. session' \in Sessions /\ session'.pay = session.pay /\ session'.valid = session.valid \ {a}
    BY <1>0, <1>1 DEF Sessions
  <1>3. main' \in Mains /\ main'.op \in {"idle", "disable"}
    BY <1>0, <1>1, IdleFacts
  <1>4. /\ dev' \in [Acceptors -> Devices]
        /\ \A b \in Acceptors : dev'[b].path = dev[b].path /\ dev'[b].err = dev[b].err
                                /\ dev'[b].timers = dev[b].timers
        /\ \A b \in Acceptors : b # a => dev'[b] = dev[b]
    <2>1. dev[a] \in Devices /\ dev' = [dev EXCEPT ![a] = [dev[a] EXCEPT !.sub = FALSE]]
      BY <1>0, <1>1
    <2>2. [dev[a] EXCEPT !.sub = FALSE] \in Devices
      BY <2>1 DEF Devices
    <2> QED
      BY <1>0, <2>1, <2>2 DEF Devices
  <1>5. QueueInv'
    BY <1>0, <1>4, HandledQueue DEF IInv
  <1>6. a \in Bills => dev[a].path = "empty" /\ ~Outstanding(a)'
    <2> SUFFICES ASSUME a \in Bills PROVE dev[a].path = "empty" /\ ~Outstanding(a)'
      OBVIOUS
    <2>1. events[1].acc = a /\ events[1].kind = "disabled" /\ 1 \in DOMAIN events
      BY <1>0, TailFacts DEF IInv
    <2>2. dev[a].path = "empty"
      BY <2>1 DEF IInv, QueueInv
    <2>3. \A j \in DOMAIN events : 1 < j /\ events[j].acc = a => events[j].kind # "stacked"
      BY <2>1 DEF IInv, QueueInv
    <2>4. \A i \in DOMAIN events' : ~(events'[i].acc = a /\ events'[i].kind = "stacked")
      BY <1>0, <2>3, TailFacts DEF IInv
    <2> QED
      BY <1>0, <1>4, <2>2, <2>4 DEF Outstanding
  <1>7. DeviceInv'
    BY <1>0, <1>2, <1>4, <1>6 DEF IInv, DeviceInv, Sessions
  <1>8. OutInv'
    <2>1. \A b \in Bills : Outstanding(b)' => Outstanding(b) /\ b # a
      BY <1>0, <1>4, <1>6, TailFacts DEF Outstanding, IInv
    <2> QED
      BY <1>1, <1>2, <2>1 DEF IInv, OutInv
  <1>9. TypeOK'
    BY <1>1, <1>2, <1>3, <1>4, <1>5, TypeFacts, TypeParts
  <1>10. SessionInv' /\ BillsAreHeard'
    BY <1>1, <1>2, <1>3 DEF IInv, SessionInv, BillsAreHeard
  <1> QED
    BY <1>5, <1>7, <1>8, <1>9, <1>10 DEF IInv

LEMMA OnErrorStep ==
  ASSUME IInv, HandleEvent, OnError(Head(events))
  PROVE  IInv'
  <1>0. /\ session \in Sessions /\ main \in Mains /\ main.op = "idle"
        /\ events # <<>> /\ events' = Tail(events)
    BY TypeFacts DEF HandleEvent, IInv
  <1>1. UNCHANGED <<dev, session, ui, pay, again, booked, orderedFor, lost, unheard, bounds>>
    BY DEF HandleEvent, OnError
  <1>2. main' \in Mains /\ main'.op \in {"idle", "disable"} /\ refused' = FALSE
    <2>1. CASE session.pay # 0
      BY <1>0, <2>1, BeginDisableFacts DEF OnError
    <2>2. CASE session.pay = 0
      BY <1>0, <2>2, TypeFacts DEF OnError, IInv, SessionInv
    <2> QED
      BY <2>1, <2>2
  <1>3. QueueInv'
    BY <1>0, <1>1, HandledQueue DEF IInv
  <1>4. DeviceInv'
    BY <1>1 DEF IInv, DeviceInv
  <1>5. OutInv'
    <2>1. \A b \in Bills : Outstanding(b)' => Outstanding(b)
      BY <1>0, <1>1, TailFacts DEF Outstanding, IInv
    <2> QED
      BY <1>1, <2>1 DEF IInv, OutInv
  <1>6. TypeOK'
    BY <1>1, <1>2, <1>3, TypeFacts, TypeParts
  <1>7. SessionInv' /\ BillsAreHeard'
    BY <1>1, <1>2 DEF IInv, SessionInv, BillsAreHeard
  <1> QED
    BY <1>3, <1>4, <1>5, <1>6, <1>7 DEF IInv

LEMMA HandleEventStep == IInv /\ HandleEvent => IInv'
  BY OnEscrowStep, OnStackedStep, OnDisabledStep, OnErrorStep DEF HandleEvent

-----------------------------------------------------------------------------
\* The devices.

LEMMA RecogniseStep == \A a \in Acceptors : IInv /\ Recognise(a) => IInv'
  <1> SUFFICES ASSUME NEW a \in Acceptors, IInv, Recognise(a) PROVE IInv'
    OBVIOUS
  <1> DEFINE d == [dev[a] EXCEPT !.path = "escrow"]
             e == Event(a, "escrow", dev[a].note)
  <1>0. /\ dev[a] \in Devices /\ events \in Seq(Events) /\ dev[a].path = "accepting"
        /\ main \in Mains /\ bounds \in Bounds
        /\ unheard \subseteq Acceptors /\ unheard \intersect Bills = {}
    BY TypeFacts DEF Recognise, IInv, QueueInv, BillsAreHeard
  <1>1. /\ dev' = [dev EXCEPT ![a] = d] /\ events' \in {events, Append(events, e)}
        /\ UNCHANGED <<session, main, uiVars, booked, orderedFor, lost, unheard, refused, bounds>>
    BY DEF Recognise, moneyVars
  <1>2. d \in Devices /\ d.sub = dev[a].sub /\ d.err = dev[a].err /\ d.timers = dev[a].timers
        /\ d.path = "escrow"
    BY <1>0 DEF Devices, Paths
  <1>3. e \in Events /\ e.acc = a /\ e.kind = "escrow"
    BY <1>0 DEF Event, Events, Kinds, Devices
  <1> HIDE DEF d, e
  <1>4. Grown(events, events', e)
    BY <1>0, <1>1, <1>3, GrownFacts
  <1>5. (d.err => d.path = "empty") /\ (a \in Bills => d.timers = 0)
    BY <1>0, <1>2 DEF IInv, DeviceInv
  <1>6. dev' \in [Acceptors -> Devices] /\ QueueInv' /\ DeviceInv' /\ OutInv'
    BY <1>0, <1>1, <1>2, <1>3, <1>4, <1>5, DeviceStep
  <1> QED
    BY <1>0, <1>1, <1>6, DeviceOnly

LEMMA GiveBackStep == \A a \in Acceptors : IInv /\ GiveBack(a) => IInv'
  <1> SUFFICES ASSUME NEW a \in Acceptors, IInv, GiveBack(a) PROVE IInv'
    OBVIOUS
  <1> DEFINE d == [dev[a] EXCEPT !.path = "empty", !.note = 0]
             e == Event(a, "escrow", 0)
  <1>0. /\ dev[a] \in Devices /\ events \in Seq(Events) /\ main \in Mains /\ bounds \in Bounds
        /\ unheard \subseteq Acceptors /\ unheard \intersect Bills = {}
    BY TypeFacts DEF IInv, QueueInv, BillsAreHeard
  <1>1. /\ dev' = [dev EXCEPT ![a] = d] /\ events' = events
        /\ UNCHANGED <<session, main, uiVars, booked, orderedFor, lost, unheard, refused, bounds>>
    <2>1. dev' = [dev EXCEPT ![a].path = "empty", ![a].note = 0] /\ dev \in [Acceptors -> Devices]
      BY TypeFacts DEF GiveBack
    <2>2. dev' = [dev EXCEPT ![a] = d]
      BY <2>1
    <2> QED
      BY <2>2 DEF GiveBack, moneyVars
  <1>2. d \in Devices /\ d.sub = dev[a].sub /\ d.timers = dev[a].timers /\ d.path = "empty"
    BY <1>0 DEF Devices, Paths
  <1>3. e \in Events /\ e.acc = a
    BY DEF Event, Events, Kinds
  <1> HIDE DEF d, e
  <1>4. Grown(events, events', e)
    BY <1>0, <1>1, <1>3, GrownFacts
  <1>5. a \in Bills => d.timers = 0
    BY <1>2 DEF IInv, DeviceInv
  <1>6. dev' \in [Acceptors -> Devices] /\ QueueInv' /\ DeviceInv' /\ OutInv'
    BY <1>1, <1>2, <1>3, <1>4, <1>5, DeviceStep
  <1> QED
    BY <1>0, <1>1, <1>6, DeviceOnly

\* A bill that is stacked has a subscriber.
LEMMA StackedStep == \A a \in Acceptors : IInv /\ Stacked(a) => IInv'
  <1> SUFFICES ASSUME NEW a \in Acceptors, IInv, Stacked(a) PROVE IInv'
    OBVIOUS
  <1> DEFINE d == [dev[a] EXCEPT !.path = "empty", !.note = 0]
             e == Event(a, "stacked", dev[a].note)
  <1>0. /\ dev[a] \in Devices /\ events \in Seq(Events) /\ main \in Mains /\ bounds \in Bounds
        /\ unheard \subseteq Acceptors /\ unheard \intersect Bills = {}
        /\ dev[a].path = "stacking"
    BY TypeFacts DEF IInv, QueueInv, BillsAreHeard, Stacked
  <1>1. /\ dev' = [dev EXCEPT ![a] = d] /\ events' \in {events, Append(events, e)}
        /\ UNCHANGED <<session, main, uiVars, booked, orderedFor, lost, refused, bounds>>
    <2>1. dev' = [dev EXCEPT ![a].path = "empty", ![a].note = 0] /\ dev \in [Acceptors -> Devices]
      BY TypeFacts DEF Stacked
    <2>2. dev' = [dev EXCEPT ![a] = d]
      BY <2>1
    <2> QED
      BY <2>2 DEF Stacked
  <1>2. d \in Devices /\ d.sub = dev[a].sub /\ d.timers = dev[a].timers /\ d.path = "empty"
    BY <1>0 DEF Devices, Paths
  <1>3. e \in Events /\ e.acc = a /\ e.kind = "stacked"
    BY <1>0 DEF Event, Events, Kinds, Devices
  <1>4. unheard' \subseteq Acceptors /\ unheard' \intersect Bills = {}
    BY <1>0 DEF Stacked, IInv, DeviceInv
  <1> HIDE DEF d, e
  <1>5. Grown(events, events', e)
    BY <1>0, <1>1, <1>3, GrownFacts
  <1>6. a \in Bills => d.timers = 0
    BY <1>2 DEF IInv, DeviceInv
  <1>7. dev' \in [Acceptors -> Devices] /\ QueueInv' /\ DeviceInv' /\ OutInv'
    BY <1>0, <1>1, <1>2, <1>3, <1>5, <1>6, DeviceStep
  <1> QED
    BY <1>0, <1>1, <1>4, <1>7, DeviceOnly

LEMMA InsertStep == \A a \in Acceptors, n \in Notes : IInv /\ Insert(a, n) => IInv'
  <1> SUFFICES ASSUME NEW a \in Acceptors, NEW n \in Notes, IInv, Insert(a, n) PROVE IInv'
    OBVIOUS
  <1> DEFINE p == IF a \in Bills THEN "accepting" ELSE "stacking"
             d == [dev[a] EXCEPT !.note = n, !.path = p]
             e == Event(a, "escrow", 0)
  <1>0. /\ dev[a] \in Devices /\ events \in Seq(Events) /\ main \in Mains /\ bounds \in Bounds
        /\ unheard \subseteq Acceptors /\ unheard \intersect Bills = {}
        /\ ~dev[a].err /\ \A i \in DOMAIN events : events[i].acc # a
        /\ n \in Nat
    BY TypeFacts, NotesAssumption DEF IInv, QueueInv, BillsAreHeard, Insert
  <1>1. /\ dev' = [dev EXCEPT ![a] = d] /\ events' = events
        /\ UNCHANGED <<session, main, uiVars, booked, orderedFor, lost, unheard, refused>>
    <2>1. dev' = [dev EXCEPT ![a].note = n, ![a].path = p] /\ dev \in [Acceptors -> Devices]
      BY TypeFacts DEF Insert
    <2>2. dev' = [dev EXCEPT ![a] = d]
      BY <2>1
    <2> QED
      BY <2>2 DEF Insert, moneyVars
  <1>2. /\ d \in Devices /\ d.sub = dev[a].sub /\ d.timers = dev[a].timers /\ d.err = dev[a].err
        /\ a \in Bills => d.path # "stacking"
    <2>1. p \in Paths
      BY DEF Paths
    <2> QED
      BY <1>0, <2>1 DEF Devices
  <1>3. e \in Events /\ e.acc = a
    BY DEF Event, Events, Kinds
  <1>4. bounds' \in Bounds
    <2>1. bounds.notes + 1 \in 0..MaxNotes /\ bounds' = [bounds EXCEPT !.notes = @ + 1]
      BY <1>0, BoundsAssumption DEF Insert, Bounds
    <2> QED
      BY <1>0, <2>1 DEF Bounds
  <1> HIDE DEF d, e
  <1>5. Grown(events, events', e)
    BY <1>0, <1>1, <1>3, GrownFacts
  <1>6. a \in Bills => d.timers = 0
    BY <1>2 DEF IInv, DeviceInv
  <1>7. dev' \in [Acceptors -> Devices] /\ QueueInv' /\ DeviceInv' /\ OutInv'
    BY <1>0, <1>1, <1>2, <1>3, <1>5, <1>6, DeviceStep
  <1> QED
    BY <1>0, <1>1, <1>4, <1>7, DeviceOnly

LEMMA FailStep == \A a \in Acceptors : IInv /\ Fail(a) => IInv'
  <1> SUFFICES ASSUME NEW a \in Acceptors, IInv, Fail(a) PROVE IInv'
    OBVIOUS
  <1> DEFINE d == [dev[a] EXCEPT !.err = TRUE, !.power = "off", !.path = "empty", !.note = 0]
             e == Event(a, "error", 0)
  <1>0. /\ dev[a] \in Devices /\ events \in Seq(Events) /\ main \in Mains /\ bounds \in Bounds
        /\ unheard \subseteq Acceptors /\ unheard \intersect Bills = {}
    BY TypeFacts DEF IInv, QueueInv, BillsAreHeard
  <1>1. /\ dev' = [dev EXCEPT ![a] = d] /\ events' = Append(events, e)
        /\ UNCHANGED <<session, main, uiVars, booked, orderedFor, lost, unheard, refused>>
    <2>1. dev' = [dev EXCEPT ![a].err = TRUE, ![a].power = "off", ![a].path = "empty",
                             ![a].note = 0] /\ dev \in [Acceptors -> Devices]
      BY TypeFacts DEF Fail
    <2>2. dev' = [dev EXCEPT ![a] = d]
      BY <2>1
    <2> QED
      BY <2>2 DEF Fail, moneyVars
  <1>2. d \in Devices /\ d.sub = dev[a].sub /\ d.timers = dev[a].timers /\ d.path = "empty"
    BY <1>0 DEF Devices, Paths
  <1>3. e \in Events /\ e.acc = a /\ e.kind = "error"
    BY DEF Event, Events, Kinds
  <1>4. bounds' \in Bounds
    <2>1. bounds.faults + 1 \in 0..MaxFaults /\ bounds' = [bounds EXCEPT !.faults = @ + 1]
      BY <1>0, BoundsAssumption DEF Fail, MayFail, Bounds
    <2> QED
      BY <1>0, <2>1 DEF Bounds
  <1> HIDE DEF d, e
  <1>5. Grown(events, events', e)
    BY <1>0, <1>1, <1>3, GrownFacts
  <1>6. a \in Bills => d.timers = 0
    BY <1>2 DEF IInv, DeviceInv
  <1>7. dev' \in [Acceptors -> Devices] /\ QueueInv' /\ DeviceInv' /\ OutInv'
    BY <1>0, <1>1, <1>2, <1>3, <1>5, <1>6, DeviceStep
  <1> QED
    BY <1>0, <1>1, <1>4, <1>7, DeviceOnly

LEMMA RecoverStep == \A a \in Acceptors : IInv /\ Recover(a) => IInv'
  <1> SUFFICES ASSUME NEW a \in Acceptors, IInv, Recover(a) PROVE IInv'
    OBVIOUS
  <1> DEFINE d == [dev[a] EXCEPT !.err = FALSE]
             e == Event(a, "error", 0)
  <1>0. /\ dev[a] \in Devices /\ events \in Seq(Events) /\ main \in Mains /\ bounds \in Bounds
        /\ unheard \subseteq Acceptors /\ unheard \intersect Bills = {}
    BY TypeFacts DEF IInv, QueueInv, BillsAreHeard
  <1>1. /\ dev' = [dev EXCEPT ![a] = d] /\ events' = events
        /\ UNCHANGED <<session, main, uiVars, booked, orderedFor, lost, unheard, refused, bounds>>
    BY DEF Recover, moneyVars
  <1>2. d \in Devices /\ d.sub = dev[a].sub /\ d.timers = dev[a].timers /\ d.path = dev[a].path
        /\ ~d.err
    BY <1>0 DEF Devices
  <1>3. e \in Events /\ e.acc = a
    BY DEF Event, Events, Kinds
  <1> HIDE DEF d, e
  <1>4. Grown(events, events', e)
    BY <1>0, <1>1, <1>3, GrownFacts
  <1>5. a \in Bills => d.timers = 0
    BY <1>2 DEF IInv, DeviceInv
  <1>6. dev' \in [Acceptors -> Devices] /\ QueueInv' /\ DeviceInv' /\ OutInv'
    <2>1. (d.err => d.path = "empty") /\ (d.path = "stacking" => dev[a].path = "stacking")
          /\ (d.path # "empty" => dev[a].path # "empty") /\ events' = events
      BY <1>1, <1>2
    <2> QED
      BY <1>1, <1>2, <1>3, <1>4, <1>5, <2>1, DeviceStep
  <1> QED
    BY <1>0, <1>1, <1>6, DeviceOnly

LEMMA RunClosingStep == \A a \in Acceptors : IInv /\ RunClosing(a) => IInv'
  <1> SUFFICES ASSUME NEW a \in Acceptors, IInv, RunClosing(a) PROVE IInv'
    OBVIOUS
  <1>0. /\ dev[a] \in Devices /\ main \in Mains /\ bounds \in Bounds
        /\ unheard \subseteq Acceptors /\ unheard \intersect Bills = {}
    BY TypeFacts DEF IInv, BillsAreHeard
  <1>1. /\ Becomes(a, Closed(dev[a]), <<>>)
        /\ UNCHANGED <<session, main, uiVars, booked, orderedFor, lost, unheard, refused, bounds>>
    BY DEF RunClosing, moneyVars
  <1>2. Follows(dev[a], Closed(dev[a]))
    BY <1>0, ClosedFacts
  <1>3. dev' \in [Acceptors -> Devices] /\ QueueInv' /\ DeviceInv' /\ OutInv'
    BY <1>1, <1>2, BecomesStep
  <1> QED
    BY <1>0, <1>1, <1>3, DeviceOnly

LEMMA PollStep == \A a \in Acceptors : IInv /\ Poll(a) => IInv'
  <1> SUFFICES ASSUME NEW a \in Acceptors, IInv, Poll(a) PROVE IInv'
    OBVIOUS
  <1>0. /\ dev[a] \in Devices /\ main \in Mains /\ bounds \in Bounds
        /\ unheard \subseteq Acceptors /\ unheard \intersect Bills = {}
        /\ dev[a].err => dev[a].path = "empty"
    BY TypeFacts DEF IInv, BillsAreHeard, DeviceInv
  <1>1. UNCHANGED <<session, main, uiVars, booked, orderedFor, lost, unheard, refused, bounds>>
    BY DEF Poll, moneyVars
  <1>2. dev' \in [Acceptors -> Devices] /\ QueueInv' /\ DeviceInv' /\ OutInv'
    <2>1. CASE \E r \in SwitchedOff(dev[a], a \in Bills, TRUE) :
                 Becomes(a, r.dev, IF r.sent THEN <<Event(a, "disabled", 0)>> ELSE <<>>)
      <3>1. PICK r \in SwitchedOff(dev[a], a \in Bills, TRUE) :
              Becomes(a, r.dev, IF r.sent THEN <<Event(a, "disabled", 0)>> ELSE <<>>)
        BY <2>1
      <3>2. (a \in Bills) \in BOOLEAN /\ TRUE \in BOOLEAN
        OBVIOUS
      <3>3. Follows(dev[a], r.dev) /\ (r.sent => r.dev.path = "empty")
        BY <1>0, <3>1, <3>2, SwitchedOffFacts
      <3> QED
        BY <1>1, <3>1, <3>3, BecomesStep
    <2>2. CASE \E r \in SwitchedOn(dev[a]) : Becomes(a, r.dev, <<>>)
      <3>1. PICK r \in SwitchedOn(dev[a]) : Becomes(a, r.dev, <<>>)
        BY <2>2
      <3>2. Follows(dev[a], r.dev)
        BY <1>0, <3>1, SwitchedOnFacts
      <3> QED
        BY <1>1, <3>1, <3>2, BecomesStep
    <2> QED
      BY <2>1, <2>2 DEF Poll
  <1> QED
    BY <1>0, <1>1, <1>2, DeviceOnly

\* The timer of a bill acceptor has run out when it was started.
LEMMA SendDisabledStep == \A a \in Acceptors : IInv /\ SendDisabled(a) => IInv'
  <1> SUFFICES ASSUME NEW a \in Acceptors, IInv, SendDisabled(a) PROVE IInv'
    OBVIOUS
  <1> DEFINE d == [dev[a] EXCEPT !.timers = @ - 1]
             e == Event(a, "disabled", 0)
  <1>0. /\ dev[a] \in Devices /\ events \in Seq(Events) /\ main \in Mains /\ bounds \in Bounds
        /\ unheard \subseteq Acceptors /\ unheard \intersect Bills = {}
        /\ dev[a].timers > 0 /\ a \notin Bills
        /\ dev[a].err => dev[a].path = "empty"
    BY TypeFacts DEF IInv, QueueInv, BillsAreHeard, SendDisabled, DeviceInv
  <1>1. /\ dev' = [dev EXCEPT ![a] = d] /\ events' = Append(events, e)
        /\ UNCHANGED <<session, main, uiVars, booked, orderedFor, lost, unheard, refused, bounds>>
    BY DEF SendDisabled, moneyVars
  <1>2. d \in Devices /\ d.sub = dev[a].sub /\ d.err = dev[a].err /\ d.path = dev[a].path
    <2>1. dev[a].timers - 1 \in Nat
      BY <1>0 DEF Devices
    <2> QED
      BY <1>0, <2>1 DEF Devices
  <1>3. e \in Events /\ e.acc = a
    BY DEF Event, Events, Kinds
  <1> HIDE DEF d, e
  <1>4. Grown(events, events', e)
    BY <1>0, <1>1, <1>3, GrownFacts
  <1>5. dev' \in [Acceptors -> Devices] /\ QueueInv' /\ DeviceInv' /\ OutInv'
    <2>1. d.err => d.path = "empty"
      BY <1>0, <1>2
    <2>2. d.path # "empty" => dev[a].path # "empty"
      BY <1>2
    <2> QED
      BY <1>0, <1>1, <1>2, <1>3, <1>4, <2>1, <2>2, DeviceStep
  <1> QED
    BY <1>0, <1>1, <1>5, DeviceOnly

-----------------------------------------------------------------------------
\* The scenario.

LEMMA EnterChargeStep ==
  \A p \in {pay, pay + 1} \cap (1..NumPayments) : IInv /\ EnterCharge(p) => IInv'
  <1> SUFFICES ASSUME NEW p \in {pay, pay + 1} \cap (1..NumPayments), IInv, EnterCharge(p)
               PROVE  IInv'
    OBVIOUS
  <1>0. /\ session \in Sessions /\ main \in Mains /\ bounds \in Bounds
        /\ booked \in [1..NumPayments -> Nat] /\ pay \in 1..NumPayments
        /\ orderedFor \in [Acceptors -> 0..NumPayments] /\ p \in 1..NumPayments
        /\ Bills \subseteq Acceptors
    BY TypeFacts
  <1>1. /\ UNCHANGED <<dev, events, booked, orderedFor, lost, unheard, refused>>
        /\ Enable(p, Limit[p] - booked[p]) /\ ui = "away" /\ ui' = "charge"
        /\ pay' = p /\ again' = FALSE
    BY DEF EnterCharge, devVars, moneyVars
  <1>2. /\ session' \in Sessions /\ main' \in Mains /\ main'.op = "enable"
        /\ session'.pay = p
        /\ session'.valid = IF session.pay = p THEN session.valid ELSE {}
    <2>1. Limit[p] - booked[p] \in Int
      BY <1>0, LimitAssumption
    <2> QED
      BY <1>0, <1>1, <2>1, EnableFacts
  <1>3. bounds' \in Bounds
    <2>1. bounds.visits + 1 \in 0..MaxVisits /\ bounds' = [bounds EXCEPT !.visits = @ + 1]
      BY <1>0, BoundsAssumption DEF EnterCharge, Bounds
    <2> QED
      BY <1>0, <2>1 DEF Bounds
  <1>4. QueueInv'
    BY <1>1 DEF IInv, QueueInv
  <1>5. DeviceInv'
    BY <1>1, <1>2 DEF IInv, DeviceInv
  <1>6. SessionInv'
    BY <1>0, <1>1, <1>2 DEF IInv, SessionInv
  <1>7. OutInv'
    <2>1. \A a \in Acceptors : orderedFor[a] <= session.pay /\ orderedFor[a] \in Nat
      BY <1>0 DEF IInv, OutInv
    <2>2. session.pay = p \/ (session.pay < p /\ session.pay \in Nat)
      BY <1>0 DEF IInv, SessionInv
    <2>3. \A a \in Bills : Outstanding(a)' => Outstanding(a)
      BY <1>1 DEF Outstanding
    <2> QED
      BY <1>0, <1>1, <1>2, <2>1, <2>2, <2>3 DEF IInv, OutInv
  <1>8. TypeOK'
    BY <1>0, <1>1, <1>2, <1>3, <1>4, TypeFacts, TypeParts
  <1> QED
    BY <1>1, <1>4, <1>5, <1>6, <1>7, <1>8 DEF IInv, BillsAreHeard

\* Both call disable() for the payment of the session.
LEMMA LeaveOrForwardStep == IInv /\ (Leave \/ Forward) => IInv'
  <1> SUFFICES ASSUME IInv, Leave \/ Forward PROVE IInv'
    OBVIOUS
  <1>1. /\ UNCHANGED <<dev, events, session, pay, booked, orderedFor, lost, unheard, bounds>>
        /\ BeginDisable(pay, session, FALSE) /\ ui # "away"
        /\ ui' \in {"away", "disable"} /\ again' \in {again, FALSE}
    BY DEF Leave, Forward, devVars, moneyVars
  <1>2. main' \in Mains /\ main'.op = "disable" /\ refused' = FALSE
    <2>1. pay = session.pay /\ session \in Sessions
      BY <1>1, TypeFacts DEF IInv, SessionInv
    <2> QED
      BY <1>1, <2>1, BeginDisableFacts
  <1>3. QueueInv' /\ DeviceInv' /\ OutInv'
    BY <1>1 DEF IInv, QueueInv, DeviceInv, OutInv, Outstanding
  <1>4. SessionInv'
    BY <1>1, <1>2 DEF IInv, SessionInv
  <1>5. TypeOK'
    BY <1>1, <1>2, <1>3, TypeFacts, TypeParts
  <1> QED
    BY <1>1, <1>3, <1>4, <1>5 DEF IInv, BillsAreHeard

-----------------------------------------------------------------------------
\* The invariant.

LEMMA InitIInv == Init => IInv
  <1> SUFFICES ASSUME Init PROVE IInv
    OBVIOUS
  <1>0. Fresh \in Devices
    BY DEF Fresh, Devices, Paths
  <1>1. dev \in [Acceptors -> Devices] /\ \A a \in Acceptors : dev[a] = Fresh
    BY <1>0 DEF Init
  <1>2. session = [pay |-> 0, max |-> 0, amount |-> 0, valid |-> {}] /\ events = <<>>
    BY DEF Init, NoSession
  <1>3. QueueInv
    BY <1>2 DEF QueueInv
  <1>4. DeviceInv
    BY <1>1, <1>2, AcceptorsAssumption DEF DeviceInv, Fresh
  <1>5. SessionInv
    BY <1>2, IdleFacts DEF Init, SessionInv
  <1>6. OutInv
    BY <1>1, <1>2, AcceptorsAssumption DEF Init, OutInv, Outstanding, Fresh
  <1>7. TypeOK
    <2>1. session \in Sessions /\ main \in Mains
      BY <1>2, IdleFacts, BoundsAssumption DEF Init, Sessions
    <2>4. \A i \in DOMAIN events : events[i] \in [acc : Acceptors, kind : Kinds, note : Nat]
      BY <1>2
    <2>2. bounds \in Bounds
      <3>1. 0 \in 0..MaxNotes /\ 0 \in 0..MaxVisits /\ 0 \in 0..MaxFaults
        BY BoundsAssumption
      <3> QED
        BY <3>1 DEF Init, Bounds
    <2>3. pay \in 1..NumPayments /\ orderedFor \in [Acceptors -> 0..NumPayments]
          /\ booked \in [1..NumPayments -> Nat]
      BY BoundsAssumption DEF Init
    <2> QED
      BY <1>1, <2>1, <2>2, <2>3, <2>4 DEF Init, TypeOK, Sessions, Mains, Bounds, NoSession, Idle
  <1>8. BillsAreHeard
    BY DEF Init, BillsAreHeard
  <1> QED
    BY <1>3, <1>4, <1>5, <1>6, <1>7, <1>8 DEF IInv

LEMMA NextIInv == IInv /\ [Next]_vars => IInv'
  <1> SUFFICES ASSUME IInv, [Next]_vars PROVE IInv'
    OBVIOUS
  <1>1. CASE Manager
    BY <1>1, EnableAcceptorStep, DisableAcceptorStep, SubscribeStep, EnableReturnsStep,
       DisableReturnsStep, HandleEventStep DEF Manager
  <1>2. CASE Scenario
    BY <1>2, EnterChargeStep, LeaveOrForwardStep DEF Scenario
  <1>3. ASSUME NEW a \in Acceptors, Driver(a) PROVE IInv'
    BY <1>3, RecogniseStep, GiveBackStep, StackedStep, RunClosingStep, PollStep,
       SendDisabledStep DEF Driver
  <1>4. ASSUME NEW a \in Acceptors, Customer(a) PROVE IInv'
    BY <1>4, InsertStep, FailStep, RecoverStep DEF Customer
  <1>5. CASE UNCHANGED vars
    BY <1>5 DEF vars, devVars, uiVars, moneyVars, IInv, TypeOK, QueueInv, DeviceInv, SessionInv,
       OutInv, Outstanding, BillsAreHeard
  <1> QED
    BY <1>1, <1>2, <1>3, <1>4, <1>5 DEF Next

-----------------------------------------------------------------------------
\* The theorems.

\* The invariant that carries the others: what is queued, what the devices hold
\* and the session of the manager fit together, whatever the order in which the
\* drivers, the main thread and the customer take their steps.
THEOREM AcceptorInvariance == Spec => []IInv
  <1> QED
    BY InitIInv, NextIInv, PTL DEF Spec

\* Type correctness (CashAcceptorManager.cpp, PortCashAcceptor.cpp).
THEOREM AcceptorTypeCorrect == Spec => []TypeOK
  <1>1. IInv => TypeOK
    BY DEF IInv
  <1> QED
    BY <1>1, AcceptorInvariance, PTL

\* For any number of acceptors no bill is stacked while nobody listens, failed
\* switch-ons that a poll repeats included (enable, postPollingAction).
THEOREM BillsAreHeardTheorem == Spec => []BillsAreHeard
  <1>1. IInv => BillsAreHeard
    BY DEF IInv
  <1> QED
    BY <1>1, AcceptorInvariance, PTL

\* For any number of acceptors, payments and visits no bill is still to be booked
\* for a payment when its processing begins (disabled(), disableEnterHandler).
THEOREM BookedTheorem == Spec => []BookedBeforeProcessing
  <1>1. IInv => BookedBeforeProcessing
    <2> SUFFICES ASSUME IInv, ui = "leave", NEW a \in Bills, orderedFor[a] = pay
                 PROVE  ~Outstanding(a)
      BY DEF BookedBeforeProcessing
    <2>1. session.valid = {} /\ session.pay = pay
      BY DEF IInv, SessionInv
    <2> QED
      BY <2>1 DEF IInv, OutInv
  <1> QED
    BY <1>1, AcceptorInvariance, PTL
-----------------------------------------------------------------------------
(* The money. Every acceptor has one note at most that is stacked, or reported *)
(* as stacked, and not yet booked, so what is on its way is worth no more than  *)
(* a note for each of them.                                                    *)

\* n is the note of acceptor a that is not yet booked.
HasNote(a, n) ==
  \/ dev[a].path = "stacking" /\ dev[a].note = n
  \/ \E i \in DOMAIN events : events[i].acc = a /\ events[i].kind = "stacked" /\ events[i].note = n

\* The acceptors with such a note, and what a set of acceptors can have on its way.
Out == {a \in Acceptors : Outstanding(a)}
Worth(S) == Cardinality(S) * MaxNote

\* What is in a path and what is queued is a note that was put in; a path with a
\* note in it has nothing stacked behind it, and no acceptor two notes stacked.
NoteInv ==
  /\ \A a \in Acceptors : dev[a].path # "empty" =>
       /\ dev[a].note \in Notes
       /\ \A i \in DOMAIN events : events[i].acc = a => events[i].kind # "stacked"
  /\ \A i \in DOMAIN events : events[i].kind = "stacked" => events[i].note \in Notes
  /\ \A i \in DOMAIN events :
       events[i].kind = "escrow" /\ dev[events[i].acc].path # "empty" =>
         events[i].note = dev[events[i].acc].note
  /\ \A i, j \in DOMAIN events :
       events[i].kind = "stacked" /\ events[j].kind = "stacked" /\ events[i].acc = events[j].acc
         => i = j

\* The maximum of the session is what its payment was short of when it was
\* opened; the disable state goes back to the acceptors only with money taken in,
\* so it never opens a session without a maximum.
AmountInv ==
  /\ again => session.amount > 0
  /\ session.pay # 0 =>
       /\ session.max > 0
       /\ booked[session.pay] + session.max = Limit[session.pay] + session.amount
  /\ \A p \in 1..NumPayments : p > session.pay => booked[p] = 0

\* With all that is on its way the payment of the session keeps its limit.
RoomInv ==
  \A p \in 1..NumPayments :
    booked[p] + (IF p = session.pay THEN Worth(Out) ELSE 0) < Limit[p] + Worth(Acceptors)

\* With all that is on its way, and the note that was accepted last counted as it
\* is, the payment of the session keeps what it may be overpaid by.
Top(p) == IF Limit[p] < MaxNote THEN MaxNote ELSE Limit[p]
ChangeInv ==
  ChangeControl => \A p \in (1..NumPayments) \ Fixed :
    /\ booked[p] + MaxNote <= Top(p) + Worth(Acceptors)
    /\ p = session.pay =>
         \/ booked[p] + Worth(Out) + MaxNote <= Top(p) + Worth(Acceptors)
         \/ \E a \in Acceptors, n \in Notes :
              HasNote(a, n) /\ booked[p] + Worth(Out) + n <= Top(p) + Worth(Acceptors)

-----------------------------------------------------------------------------
\* What a set of acceptors can have on its way.

LEMMA MaxNoteFacts == MaxNote \in Notes /\ MaxNote \in Nat \ {0} /\ \A n \in Notes : n <= MaxNote
  BY NotesAssumption DEF MaxNote

LEMMA ProductFacts ==
  \A x, y, z \in Nat : x * z \in Nat /\ (x <= y => x * z <= y * z) /\ (x + 1) * z = x * z + z
  OBVIOUS

LEMMA CountFacts ==
  ASSUME NEW S \in SUBSET Acceptors, NEW T \in SUBSET Acceptors
  PROVE  /\ Cardinality(S) \in Nat
         /\ S \subseteq T => Cardinality(S) <= Cardinality(T)
         /\ \A a \in Acceptors : S \subseteq T \union {a} => Cardinality(S) <= Cardinality(T) + 1
         /\ \A a \in T : a \notin S /\ S \subseteq T => Cardinality(S) + 1 <= Cardinality(T)
  <1>1. IsFiniteSet(S) /\ IsFiniteSet(T) /\ Cardinality(S) \in Nat /\ Cardinality(T) \in Nat
    BY AcceptorsAssumption, FS_Subset, FS_CardinalityType
  <1>2. S \subseteq T => Cardinality(S) <= Cardinality(T)
    BY <1>1, FS_Subset
  <1>3. ASSUME NEW a \in Acceptors, S \subseteq T \union {a}
        PROVE  Cardinality(S) <= Cardinality(T) + 1
    <2>1. IsFiniteSet(T \union {a}) /\ Cardinality(T \union {a}) <= Cardinality(T) + 1
      <3>1. CASE a \in T
        <4>1. T \union {a} = T
          BY <3>1
        <4> QED
          BY <1>1, <4>1
      <3>2. CASE a \notin T
        <4>1. IsFiniteSet(T \union {a}) /\ Cardinality(T \union {a}) = Cardinality(T) + 1
          BY <1>1, <3>2, FS_AddElement
        <4> QED
          BY <1>1, <4>1
      <3> QED
        BY <3>1, <3>2
    <2>2. Cardinality(S) <= Cardinality(T \union {a})
      BY <1>3, <2>1, FS_Subset
    <2>3. Cardinality(T \union {a}) \in Nat
      BY <2>1, FS_CardinalityType
    <2> QED
      BY <1>1, <2>1, <2>2, <2>3
  <1>4. ASSUME NEW a \in T, a \notin S, S \subseteq T
        PROVE  Cardinality(S) + 1 <= Cardinality(T)
    <2>1. Cardinality(S \union {a}) = Cardinality(S) + 1
      BY <1>1, <1>4, FS_AddElement
    <2>2. Cardinality(S \union {a}) <= Cardinality(T)
      BY <1>1, <1>4, FS_Subset
    <2> QED
      BY <2>1, <2>2
  <1> QED
    BY <1>1, <1>2, <1>3, <1>4

LEMMA WorthFacts ==
  ASSUME NEW S \in SUBSET Acceptors, NEW T \in SUBSET Acceptors
  PROVE  /\ Worth(S) \in Nat
         /\ S \subseteq T => Worth(S) <= Worth(T)
         /\ \A a \in Acceptors : S \subseteq T \union {a} => Worth(S) <= Worth(T) + MaxNote
         /\ \A a \in T : a \notin S /\ S \subseteq T => Worth(S) + MaxNote <= Worth(T)
  <1> DEFINE s == Cardinality(S)
             t == Cardinality(T)
  <1>1. s \in Nat /\ t \in Nat /\ MaxNote \in Nat
    BY CountFacts, MaxNoteFacts
  <1>2. /\ S \subseteq T => s <= t
        /\ \A a \in Acceptors : S \subseteq T \union {a} => s <= t + 1
        /\ \A a \in T : a \notin S /\ S \subseteq T => s + 1 <= t
    BY CountFacts
  <1>3. Worth(S) = s * MaxNote /\ Worth(T) = t * MaxNote
    BY DEF Worth
  <1> HIDE DEF s, t
  <1>4. /\ s * MaxNote \in Nat /\ t * MaxNote \in Nat
        /\ s <= t => s * MaxNote <= t * MaxNote
    BY <1>1, ProductFacts
  <1>5. s + 1 <= t => s * MaxNote + MaxNote <= t * MaxNote
    <2>1. s + 1 \in Nat /\ (s + 1) * MaxNote = s * MaxNote + MaxNote
      BY <1>1, ProductFacts
    <2>2. s + 1 <= t => (s + 1) * MaxNote <= t * MaxNote
      BY <1>1, <2>1, ProductFacts
    <2> QED
      BY <2>1, <2>2
  <1>6. s <= t + 1 => s * MaxNote <= t * MaxNote + MaxNote
    <2>1. t + 1 \in Nat /\ (t + 1) * MaxNote = t * MaxNote + MaxNote
      BY <1>1, ProductFacts
    <2>2. s <= t + 1 => s * MaxNote <= (t + 1) * MaxNote
      BY <1>1, <2>1, ProductFacts
    <2> QED
      BY <2>1, <2>2
  <1> QED
    BY <1>2, <1>3, <1>4, <1>5, <1>6

\* A set with an acceptor in it can have a note on its way.
LEMMA SomethingOut ==
  ASSUME NEW S \in SUBSET Acceptors, NEW a \in S
  PROVE  MaxNote <= Worth(S)
  <1>1. Worth({}) \in Nat /\ Worth(S) \in Nat /\ Worth({}) + MaxNote <= Worth(S)
    BY WorthFacts
  <1> QED
    BY <1>1, MaxNoteFacts

\* A note of an acceptor counts it among those with something on its way.
LEMMA HasNoteCounts ==
  ASSUME NEW a \in Acceptors, NEW n, HasNote(a, n)
  PROVE  a \in Out
  BY DEF HasNote, Out, Outstanding

-----------------------------------------------------------------------------
\* The notes: a step of one device, and what becomes of the queue.

\* Nothing gets on its way, and what stays on its way stays the same note.
Kept ==
  \A b \in Acceptors : Outstanding(b)' =>
    Outstanding(b) /\ \A n \in Notes : HasNote(b, n) => HasNote(b, n)'

LEMMA NoteDevice ==
  ASSUME IInv, NoteInv, NEW a \in Acceptors, NEW d \in Devices, dev' = [dev EXCEPT ![a] = d],
         NEW e \in Events, e.acc = a, Grown(events, events', e),
         d.path # "empty" =>
           \/ dev[a].path # "empty" /\ d.note = dev[a].note
           \/ /\ dev[a].path = "empty" /\ d.note \in Notes
              /\ events' = events /\ \A i \in DOMAIN events : events[i].acc # a,
         events' # events /\ e.kind = "escrow" => e.note = d.note,
         events' # events /\ e.kind = "stacked" =>
           /\ dev[a].path = "stacking" /\ e.note = dev[a].note /\ d.path = "empty"
           /\ Len(events') <= Len(events) + 1
  PROVE  NoteInv' /\ ((d.path = "stacking" => dev[a].path = "stacking") => Kept)
  <1>1. /\ dev \in [Acceptors -> Devices] /\ events \in Seq(Events) /\ events' \in Seq(Events)
        /\ dev'[a] = d /\ \A b \in Acceptors : b # a => dev'[b] = dev[b]
    BY TypeFacts DEF IInv, QueueInv, Grown
  <1>2. \A i \in DOMAIN events' :
          /\ i \in DOMAIN events => events'[i] = events[i]
          /\ i \notin DOMAIN events => events'[i] = e /\ events' # events
    BY <1>1 DEF Grown
  <1>3. \A i \in DOMAIN events' : events'[i].acc \in Acceptors
    <2>1. \A i \in DOMAIN events' : events'[i] \in Events
      BY <1>1
    <2> QED
      BY <2>1 DEF Events
  <1>4. \A i, j \in DOMAIN events' :
          i \notin DOMAIN events /\ j \notin DOMAIN events /\ e.kind = "stacked" => i = j
    BY <1>1, <1>2
  <1>5. DOMAIN events \subseteq DOMAIN events'
    BY <1>1 DEF Grown
  <1>6. ASSUME NEW b \in Acceptors, dev'[b].path # "empty"
        PROVE  /\ dev'[b].note \in Notes
               /\ \A i \in DOMAIN events' : events'[i].acc = b => events'[i].kind # "stacked"
    <2>1. CASE b # a
      BY <1>1, <1>2, <1>6, <2>1 DEF NoteInv
    <2>2. CASE b = a
      BY <1>1, <1>2, <1>6, <2>2 DEF NoteInv
    <2> QED
      BY <2>1, <2>2
  <1>7. ASSUME NEW i \in DOMAIN events', events'[i].kind = "stacked"
        PROVE  events'[i].note \in Notes
    BY <1>1, <1>2, <1>7 DEF NoteInv
  <1>8. ASSUME NEW i \in DOMAIN events', events'[i].kind = "escrow",
               dev'[events'[i].acc].path # "empty"
        PROVE  events'[i].note = dev'[events'[i].acc].note
    <2>1. CASE i \notin DOMAIN events
      BY <1>1, <1>2, <1>8, <2>1
    <2>2. CASE i \in DOMAIN events /\ events[i].acc # a
      BY <1>1, <1>2, <1>3, <1>8, <2>2 DEF NoteInv
    <2>3. CASE i \in DOMAIN events /\ events[i].acc = a
      BY <1>1, <1>2, <1>8, <2>3 DEF NoteInv
    <2> QED
      BY <2>1, <2>2, <2>3
  <1>9. ASSUME NEW i \in DOMAIN events', NEW j \in DOMAIN events', events'[i].kind = "stacked",
               events'[j].kind = "stacked", events'[i].acc = events'[j].acc
        PROVE  i = j
    <2>1. CASE i \in DOMAIN events /\ j \in DOMAIN events
      BY <1>2, <1>9, <2>1 DEF NoteInv
    <2>2. CASE i \notin DOMAIN events /\ j \notin DOMAIN events
      BY <1>2, <1>4, <1>9, <2>2
    <2>3. ASSUME NEW k \in DOMAIN events, NEW l \in DOMAIN events', l \notin DOMAIN events,
                 events[k].kind = "stacked", events'[l].kind = "stacked",
                 events[k].acc = events'[l].acc
          PROVE  FALSE
      <3>1. events'[l] = e /\ events' # events
        BY <1>2, <2>3
      <3>2. events[k].acc = a /\ dev[a].path # "empty"
        BY <2>3, <3>1
      <3> QED
        BY <2>3, <3>2 DEF NoteInv
    <2> QED
      BY <1>2, <1>9, <2>1, <2>2, <2>3
  <1>10. NoteInv'
    BY <1>6, <1>7, <1>8, <1>9 DEF NoteInv
  <1>11. ASSUME d.path = "stacking" => dev[a].path = "stacking"
         PROVE  Kept
    <2> SUFFICES ASSUME NEW b \in Acceptors, Outstanding(b)'
                 PROVE  Outstanding(b) /\ \A n \in Notes : HasNote(b, n) => HasNote(b, n)'
      BY DEF Kept
    <2>1. Outstanding(b)
      <3>1. CASE dev'[b].path = "stacking"
        BY <1>1, <1>11, <3>1 DEF Outstanding
      <3>2. ASSUME NEW i \in DOMAIN events', events'[i].acc = b, events'[i].kind = "stacked"
            PROVE  Outstanding(b)
        <4>1. CASE i \in DOMAIN events
          BY <1>2, <3>2, <4>1 DEF Outstanding
        <4>2. CASE i \notin DOMAIN events
          BY <1>2, <3>2, <4>2 DEF Outstanding
        <4> QED
          BY <4>1, <4>2
      <3> QED
        BY <3>1, <3>2 DEF Outstanding
    <2>2. ASSUME NEW n \in Notes, HasNote(b, n)
          PROVE  HasNote(b, n)'
      <3>1. CASE \E i \in DOMAIN events :
                   events[i].acc = b /\ events[i].kind = "stacked" /\ events[i].note = n
        BY <1>2, <1>5, <3>1 DEF HasNote
      <3>2. CASE dev[b].path = "stacking" /\ dev[b].note = n /\ b # a
        BY <1>1, <3>2 DEF HasNote
      <3>3. CASE dev[b].path = "stacking" /\ dev[b].note = n /\ b = a
        <4>1. \A i \in DOMAIN events : events[i].acc = a => events[i].kind # "stacked"
          BY <3>3 DEF NoteInv
        <4>2. CASE d.path = "stacking"
          <5>1. d.note = n
            BY <1>11, <3>3, <4>2 DEF IInv, QueueInv
          <5> QED
            BY <1>1, <3>3, <4>2, <5>1 DEF HasNote
        <4>3. CASE d.path # "stacking"
          <5>1. PICK i \in DOMAIN events' : events'[i].acc = a /\ events'[i].kind = "stacked"
            BY <1>1, <3>3, <4>3 DEF Outstanding
          <5>2. events'[i] = e /\ events' # events
            BY <1>2, <4>1, <5>1
          <5> QED
            BY <3>3, <5>1, <5>2 DEF HasNote
        <4> QED
          BY <4>2, <4>3
      <3> QED
        BY <2>2, <3>1, <3>2, <3>3 DEF HasNote
    <2> QED
      BY <2>1, <2>2
  <1> QED
    BY <1>10, <1>11

LEMMA NoteBecomes ==
  ASSUME IInv, NoteInv, NEW a \in Acceptors, NEW d, Follows(dev[a], d),
         NEW x \in {<<>>, <<Event(a, "disabled", 0)>>}, Becomes(a, d, x)
  PROVE  NoteInv' /\ Kept
  <1> DEFINE now == a \in Bills /\ d.timers > 0
             n == IF now THEN [d EXCEPT !.timers = 0] ELSE d
             e == Event(a, "disabled", 0)
             y == IF now THEN <<e>> ELSE <<>>
  <1>1. dev[a] \in Devices /\ events \in Seq(Events)
    BY TypeFacts DEF IInv, QueueInv
  <1>2. e \in Events /\ e.acc = a /\ e.kind = "disabled"
    BY DEF Events, Event, Kinds
  <1>3. dev' = [dev EXCEPT ![a] = n] /\ events' = events \o x \o y
    BY DEF Becomes
  <1>4. n \in Devices /\ n.path = d.path /\ n.note = d.note
    BY DEF Follows, Devices
  <1>5. Grown(events, events', e)
    <2> HIDE DEF e
    <2>1. x \in {<<>>, <<e>>} /\ y \in {<<>>, <<e>>}
      BY DEF e
    <2> QED
      BY <1>1, <1>2, <1>3, <2>1, GrownFacts
  <1>6. /\ n.path # "empty" => dev[a].path # "empty" /\ n.note = dev[a].note
        /\ n.path = "stacking" => dev[a].path = "stacking"
    BY <1>4 DEF Follows
  <1> HIDE DEF n, e, y, now
  <1> QED
    BY <1>2, <1>3, <1>4, <1>5, <1>6, NoteDevice

\* The devices keep their notes, or lose what was not stacked; nothing is queued.
LEMMA NoteFrame ==
  ASSUME NoteInv, UNCHANGED events,
         \A a \in Acceptors : dev'[a].path = dev[a].path /\ dev'[a].note = dev[a].note,
         \A i \in DOMAIN events : events[i].acc \in Acceptors
  PROVE  NoteInv' /\ Kept
  <1>1. NoteInv'
    BY DEF NoteInv
  <1>2. Kept
    BY DEF Kept, Outstanding, HasNote
  <1> QED
    BY <1>1, <1>2

LEMMA QueuedAcceptors == IInv => \A i \in DOMAIN events : events[i] \in Events /\ events[i].acc \in Acceptors
  <1> SUFFICES ASSUME IInv, NEW i \in DOMAIN events
               PROVE  events[i] \in Events /\ events[i].acc \in Acceptors
    OBVIOUS
  <1>1. events[i] \in Events
    BY DEF IInv, QueueInv
  <1> QED
    BY <1>1 DEF Events

\* A signal is taken off the queue.
LEMMA NoteTail ==
  ASSUME IInv, NoteInv, events # <<>>, events' = Tail(events),
         \A b \in Acceptors : dev'[b].path # "empty" => dev[b].path # "empty" /\ dev'[b].note = dev[b].note
  PROVE  /\ NoteInv'
         /\ (\A b \in Acceptors : dev'[b].path = "stacking" <=> dev[b].path = "stacking") => Kept
  <1>1. /\ events' \in Seq(Events) /\ 1 \in DOMAIN events
        /\ \A i \in DOMAIN events' : i + 1 \in DOMAIN events /\ events'[i] = events[i + 1] /\ i \in Nat
        /\ \A i \in DOMAIN events : i # 1 => i - 1 \in DOMAIN events' /\ events'[i - 1] = events[i]
    BY DEF IInv, QueueInv
  <1>2. \A i \in DOMAIN events : events[i].acc \in Acceptors
    BY QueuedAcceptors
  <1>3. NoteInv'
    <2>1. ASSUME NEW b \in Acceptors, dev'[b].path # "empty"
          PROVE  /\ dev'[b].note \in Notes
                 /\ \A i \in DOMAIN events' : events'[i].acc = b => events'[i].kind # "stacked"
      BY <1>1, <2>1 DEF NoteInv
    <2>2. ASSUME NEW i \in DOMAIN events', events'[i].kind = "stacked"
          PROVE  events'[i].note \in Notes
      BY <1>1, <2>2 DEF NoteInv
    <2>3. ASSUME NEW i \in DOMAIN events', events'[i].kind = "escrow",
                 dev'[events'[i].acc].path # "empty"
          PROVE  events'[i].note = dev'[events'[i].acc].note
      BY <1>1, <1>2, <2>3 DEF NoteInv
    <2>4. ASSUME NEW i \in DOMAIN events', NEW j \in DOMAIN events', events'[i].kind = "stacked",
                 events'[j].kind = "stacked", events'[i].acc = events'[j].acc
          PROVE  i = j
      <3>1. i + 1 = j + 1
        BY <1>1, <2>4 DEF NoteInv
      <3> QED
        BY <1>1, <3>1
    <2> QED
      BY <2>1, <2>2, <2>3, <2>4 DEF NoteInv
  <1>4. ASSUME \A b \in Acceptors : dev'[b].path = "stacking" <=> dev[b].path = "stacking"
        PROVE  Kept
    <2> SUFFICES ASSUME NEW b \in Acceptors, Outstanding(b)'
                 PROVE  Outstanding(b) /\ \A n \in Notes : HasNote(b, n) => HasNote(b, n)'
      BY DEF Kept
    <2>1. Outstanding(b)
      BY <1>1, <1>4 DEF Outstanding
    <2>2. ASSUME NEW n \in Notes, HasNote(b, n)
          PROVE  HasNote(b, n)'
      <3>1. CASE dev[b].path = "stacking" /\ dev[b].note = n
        BY <1>4, <3>1 DEF HasNote
      <3>2. ASSUME NEW i \in DOMAIN events, events[i].acc = b, events[i].kind = "stacked",
                   events[i].note = n
            PROVE  HasNote(b, n)'
        <4>1. CASE i # 1
          <5> DEFINE j == i - 1
          <5>1. j \in DOMAIN events' /\ events'[j] = events[i]
            BY <1>1, <4>1
          <5> HIDE DEF j
          <5>2. events'[j].acc = b /\ events'[j].kind = "stacked" /\ events'[j].note = n
            BY <3>2, <5>1
          <5> QED
            BY <5>1, <5>2 DEF HasNote
        <4>2. CASE i = 1
          <5>1. dev'[b].path # "stacking"
            BY <1>4, <3>2 DEF NoteInv
          <5>2. PICK j \in DOMAIN events' : events'[j].acc = b /\ events'[j].kind = "stacked"
            BY <5>1 DEF Outstanding
          <5>3. j + 1 = 1
            BY <1>1, <3>2, <4>2, <5>2 DEF NoteInv
          <5> QED
            BY <1>1, <5>3
        <4> QED
          BY <4>1, <4>2
      <3> QED
        BY <2>2, <3>1, <3>2 DEF HasNote
    <2> QED
      BY <2>1, <2>2
  <1> QED
    BY <1>3, <1>4

\* The steps of the drivers, the loops of the manager and the scenario put nothing
\* on its way; a coin, which cannot be held, is the one exception.
LEMMA NoteLoops ==
  ASSUME IInv, NoteInv, NEW a \in Acceptors,
         EnableAcceptor(a) \/ DisableAcceptor(a) \/ RunClosing(a) \/ Poll(a)
  PROVE  NoteInv' /\ Kept
  <1>0. dev[a] \in Devices /\ (dev[a].err => dev[a].path = "empty")
        /\ (a \in Bills) \in BOOLEAN /\ TRUE \in BOOLEAN /\ FALSE \in BOOLEAN
    BY TypeFacts DEF IInv, DeviceInv
  <1>1. CASE UNCHANGED devVars
    BY <1>1, QueuedAcceptors, NoteFrame DEF devVars
  <1>2. ASSUME NEW r \in SwitchedOn(dev[a]), Becomes(a, r.dev, <<>>)
        PROVE  NoteInv' /\ Kept
    <2>1. Follows(dev[a], r.dev)
      BY <1>0, SwitchedOnFacts
    <2> QED
      BY <1>2, <2>1, NoteBecomes
  <1>3. ASSUME NEW own \in BOOLEAN, NEW r \in SwitchedOff(dev[a], a \in Bills, own),
               Becomes(a, r.dev, IF r.sent THEN <<Event(a, "disabled", 0)>> ELSE <<>>)
        PROVE  NoteInv' /\ Kept
    <2>1. Follows(dev[a], r.dev)
      BY <1>0, <1>3, SwitchedOffFacts
    <2> QED
      BY <1>3, <2>1, NoteBecomes
  <1>4. CASE EnableAcceptor(a)
    BY <1>1, <1>2, <1>4 DEF EnableAcceptor
  <1>5. CASE DisableAcceptor(a)
    BY <1>0, <1>3, <1>5 DEF DisableAcceptor
  <1>6. CASE RunClosing(a)
    BY <1>0, <1>6, ClosedFacts, NoteBecomes DEF RunClosing
  <1>7. CASE Poll(a)
    BY <1>0, <1>2, <1>3, <1>7 DEF Poll
  <1> QED
    BY <1>4, <1>5, <1>6, <1>7

LEMMA NoteRecognise ==
  ASSUME IInv, NoteInv, NEW a \in Acceptors, Recognise(a)
  PROVE  NoteInv' /\ Kept
  <1> DEFINE d == [dev[a] EXCEPT !.path = "escrow"]
             e == Event(a, "escrow", dev[a].note)
  <1>0. dev[a] \in Devices /\ events \in Seq(Events) /\ dev[a].path = "accepting"
    BY TypeFacts DEF Recognise, IInv, QueueInv
  <1>1. dev' = [dev EXCEPT ![a] = d] /\ events' \in {events, Append(events, e)}
    BY DEF Recognise
  <1>2. d \in Devices /\ d.path = "escrow" /\ d.note = dev[a].note
    BY <1>0 DEF Devices, Paths
  <1>3. e \in Events /\ e.acc = a /\ e.kind = "escrow" /\ e.note = dev[a].note
    BY <1>0 DEF Event, Events, Kinds, Devices
  <1> HIDE DEF d, e
  <1>4. Grown(events, events', e)
    BY <1>0, <1>1, <1>3, GrownFacts
  <1> QED
    BY <1>0, <1>1, <1>2, <1>3, <1>4, NoteDevice

LEMMA NoteStacked ==
  ASSUME IInv, NoteInv, NEW a \in Acceptors, Stacked(a)
  PROVE  NoteInv' /\ Kept
  <1> DEFINE d == [dev[a] EXCEPT !.path = "empty", !.note = 0]
             e == Event(a, "stacked", dev[a].note)
  <1>0. dev[a] \in Devices /\ events \in Seq(Events) /\ dev[a].path = "stacking"
    BY TypeFacts DEF Stacked, IInv, QueueInv
  <1>1. dev' = [dev EXCEPT ![a] = d] /\ events' \in {events, Append(events, e)}
    <2>1. dev' = [dev EXCEPT ![a].path = "empty", ![a].note = 0] /\ dev \in [Acceptors -> Devices]
      BY TypeFacts DEF Stacked
    <2>2. dev' = [dev EXCEPT ![a] = d]
      BY <2>1
    <2> QED
      BY <2>2 DEF Stacked
  <1>2. d \in Devices /\ d.path = "empty"
    BY <1>0 DEF Devices, Paths
  <1>3. e \in Events /\ e.acc = a /\ e.kind = "stacked" /\ e.note = dev[a].note
    BY <1>0 DEF Event, Events, Kinds, Devices
  <1> HIDE DEF d, e
  <1>4. Grown(events, events', e)
    BY <1>0, <1>1, <1>3, GrownFacts
  <1>5. Len(events') <= Len(events) + 1
    <2>1. Len(events) \in Nat /\ Len(Append(events, e)) = Len(events) + 1
      BY <1>0, <1>3
    <2> QED
      BY <1>1, <2>1
  <1> QED
    BY <1>0, <1>1, <1>2, <1>3, <1>4, <1>5, NoteDevice

LEMMA NoteInsert ==
  ASSUME IInv, NoteInv, NEW a \in Acceptors, NEW n \in Notes, Insert(a, n)
  PROVE  NoteInv' /\ (a \in Bills => Kept)
  <1> DEFINE p == IF a \in Bills THEN "accepting" ELSE "stacking"
             d == [dev[a] EXCEPT !.note = n, !.path = p]
             e == Event(a, "error", 0)
  <1>0. /\ dev[a] \in Devices /\ events \in Seq(Events) /\ dev[a].path = "empty" /\ n \in Nat
        /\ \A i \in DOMAIN events : events[i].acc # a
    BY TypeFacts, NotesAssumption DEF Insert, IInv, QueueInv
  <1>1. dev' = [dev EXCEPT ![a] = d] /\ events' = events
    <2>1. dev' = [dev EXCEPT ![a].note = n, ![a].path = p] /\ dev \in [Acceptors -> Devices]
      BY TypeFacts DEF Insert
    <2>2. dev' = [dev EXCEPT ![a] = d]
      BY <2>1
    <2> QED
      BY <2>2 DEF Insert
  <1>2. d \in Devices /\ d.note = n /\ (a \in Bills => d.path # "stacking")
    <2>1. p \in Paths
      BY DEF Paths
    <2> QED
      BY <1>0, <2>1 DEF Devices
  <1>3. e \in Events /\ e.acc = a
    BY DEF Event, Events, Kinds
  <1> HIDE DEF d, e
  <1>4. Grown(events, events', e)
    BY <1>0, <1>1, <1>3, GrownFacts
  <1> QED
    BY <1>0, <1>1, <1>2, <1>3, <1>4, NoteDevice

LEMMA NoteOthers ==
  ASSUME IInv, NoteInv, NEW a \in Acceptors,
         GiveBack(a) \/ Fail(a) \/ Recover(a) \/ SendDisabled(a)
  PROVE  NoteInv' /\ Kept
  <1>0. dev[a] \in Devices /\ dev \in [Acceptors -> Devices] /\ events \in Seq(Events)
    BY TypeFacts DEF IInv, QueueInv
  <1> DEFINE error == Event(a, "error", 0)
             off == Event(a, "disabled", 0)
  <1>1. ASSUME NEW d \in Devices, NEW e, e = error \/ e = off,
               dev' = [dev EXCEPT ![a] = d],
               events' = events \/ events' = Append(events, e),
               d.path = "empty" \/ (d.path = dev[a].path /\ d.note = dev[a].note)
        PROVE  NoteInv' /\ Kept
    <2>1. e \in Events /\ e.acc = a /\ e.kind \in {"error", "disabled"}
      BY <1>1 DEF Event, Events, Kinds
    <2> HIDE DEF error, off
    <2>2. Grown(events, events', e)
      BY <1>0, <1>1, <2>1, GrownFacts
    <2>3. e.kind # "escrow" /\ e.kind # "stacked"
      BY <2>1
    <2>4. /\ d.path # "empty" => dev[a].path # "empty" /\ d.note = dev[a].note
          /\ d.path = "stacking" => dev[a].path = "stacking"
      BY <1>1
    <2> QED
      BY <1>1, <2>1, <2>2, <2>3, <2>4, NoteDevice
  <1>2. CASE GiveBack(a)
    <2> DEFINE d == [dev[a] EXCEPT !.path = "empty", !.note = 0]
    <2>1. dev' = [dev EXCEPT ![a] = d] /\ events' = events
      BY <1>0, <1>2 DEF GiveBack
    <2>2. d \in Devices /\ d.path = "empty"
      BY <1>0 DEF Devices, Paths
    <2>3. events' = events \/ events' = Append(events, error)
      BY <2>1
    <2> HIDE DEF d, error, off
    <2> QED
      BY <1>1, <2>1, <2>2, <2>3
  <1>3. CASE Fail(a)
    <2> DEFINE d == [dev[a] EXCEPT !.err = TRUE, !.power = "off", !.path = "empty", !.note = 0]
    <2>1. dev' = [dev EXCEPT ![a] = d] /\ events' = Append(events, Event(a, "error", 0))
      BY <1>0, <1>3 DEF Fail
    <2>2. d \in Devices /\ d.path = "empty"
      BY <1>0 DEF Devices, Paths
    <2>3. events' = events \/ events' = Append(events, error)
      BY <2>1
    <2> HIDE DEF d, error, off
    <2> QED
      BY <1>1, <2>1, <2>2, <2>3
  <1>4. CASE Recover(a)
    <2> DEFINE d == [dev[a] EXCEPT !.err = FALSE]
    <2>1. dev' = [dev EXCEPT ![a] = d] /\ events' = events
      BY <1>0, <1>4 DEF Recover
    <2>2. d \in Devices /\ d.path = dev[a].path /\ d.note = dev[a].note
      BY <1>0 DEF Devices
    <2>3. events' = events \/ events' = Append(events, error)
      BY <2>1
    <2> HIDE DEF d, error, off
    <2> QED
      BY <1>1, <2>1, <2>2, <2>3
  <1>5. CASE SendDisabled(a)
    <2> DEFINE d == [dev[a] EXCEPT !.timers = @ - 1]
    <2>1. dev' = [dev EXCEPT ![a] = d] /\ events' = Append(events, Event(a, "disabled", 0))
      BY <1>0, <1>5 DEF SendDisabled
    <2>2. d \in Devices /\ d.path = dev[a].path /\ d.note = dev[a].note
      <3>1. dev[a].timers - 1 \in Nat
        BY <1>0, <1>5 DEF SendDisabled, Devices
      <3> QED
        BY <1>0, <3>1 DEF Devices
    <2>3. events' = events \/ events' = Append(events, off)
      BY <2>1
    <2> HIDE DEF d, error, off
    <2> QED
      BY <1>1, <2>1, <2>2, <2>3
  <1> QED
    BY <1>2, <1>3, <1>4, <1>5

LEMMA NoteSubscribe ==
  ASSUME IInv, NoteInv, SubscribeAcceptor
  PROVE  NoteInv' /\ Kept
  <1>1. dev \in [Acceptors -> Devices] /\ UNCHANGED events
    BY TypeFacts DEF SubscribeAcceptor
  <1>2. \A a \in Acceptors : dev'[a].path = dev[a].path /\ dev'[a].note = dev[a].note
    <2>1. \A a \in Acceptors : dev'[a] = [dev[a] EXCEPT !.sub = dev[a].sub \/ a \in main.cur]
      BY DEF SubscribeAcceptor
    <2>2. \A d \in Devices : \A b : [d EXCEPT !.sub = b].path = d.path /\ [d EXCEPT !.sub = b].note = d.note
      BY DEF Devices
    <2> SUFFICES ASSUME NEW a \in Acceptors
                 PROVE  dev'[a].path = dev[a].path /\ dev'[a].note = dev[a].note
      OBVIOUS
    <2>3. PICK b : b = (dev[a].sub \/ a \in main.cur)
      OBVIOUS
    <2>4. dev'[a] = [dev[a] EXCEPT !.sub = b] /\ dev[a] \in Devices
      BY <1>1, <2>1, <2>3
    <2> QED
      BY <2>2, <2>4
  <1> QED
    BY <1>1, <1>2, QueuedAcceptors, NoteFrame

\* The other signals of a driver than Escrow.
LEMMA NoteHandled ==
  ASSUME IInv, NoteInv, HandleEvent, ~OnEscrow(Head(events))
  PROVE  NoteInv' /\ Kept
  <1>0. dev \in [Acceptors -> Devices] /\ events # <<>> /\ events' = Tail(events)
    BY TypeFacts DEF HandleEvent
  <1> PICK a : a = Head(events).acc
    OBVIOUS
  <1>1. dev' = dev \/ dev' = [dev EXCEPT ![a].sub = FALSE]
    BY DEF HandleEvent, OnStacked, OnDisabled, OnError
  <1>2. \A b \in Acceptors : dev'[b].path = dev[b].path /\ dev'[b].note = dev[b].note
    <2>1. \A d \in Devices : [d EXCEPT !.sub = FALSE].path = d.path /\ [d EXCEPT !.sub = FALSE].note = d.note
      BY DEF Devices
    <2>2. \A b \in Acceptors : dev'[b] = dev[b] \/ dev'[b] = [dev[b] EXCEPT !.sub = FALSE]
      BY <1>0, <1>1
    <2> QED
      BY <1>0, <2>1, <2>2
  <1> QED
    BY <1>0, <1>2, NoteTail

\* onEscrow() sends a note to the stacker only when it accepts it, and an acceptor
\* with a note in escrow has nothing else on its way.
LEMMA NoteEscrow ==
  ASSUME IInv, NoteInv, HandleEvent, OnEscrow(Head(events)),
         NEW a, a = Head(events).acc, NEW n, n = Head(events).note
  PROVE  /\ NoteInv' /\ a \in Acceptors
         /\ \/ Kept
            \/ /\ Accepts(a, n) /\ n \in Notes
               /\ Out' \subseteq Out \union {a} /\ a \notin Out /\ HasNote(a, n)'
  <1>0. dev \in [Acceptors -> Devices] /\ events # <<>> /\ events' = Tail(events)
    BY TypeFacts DEF HandleEvent
  <1>1. 1 \in DOMAIN events /\ events[1] = Head(events) /\ a \in Acceptors /\ n = events[1].note
    BY <1>0, TailFacts, QueuedAcceptors DEF IInv
  <1>2. \A i \in DOMAIN events' : i + 1 \in DOMAIN events /\ events'[i] = events[i + 1]
    BY <1>0, TailFacts DEF IInv
  <1>3. dev[a] \in Devices
        /\ dev' = [dev EXCEPT ![a] = IF Accepts(a, n) THEN Stacking(dev[a]) ELSE Rejecting(dev[a])]
        /\ Head(events).kind = "escrow"
    BY <1>0, <1>1 DEF OnEscrow
  <1>4. /\ \A b \in Acceptors : b # a => dev'[b] = dev[b]
        /\ dev'[a] = IF Accepts(a, n) THEN Stacking(dev[a]) ELSE Rejecting(dev[a])
    BY <1>0, <1>1, <1>3
  <1>5. /\ dev'[a].path # "empty" => dev[a].path # "empty" /\ dev'[a].note = dev[a].note
        /\ dev[a].path = "stacking" => dev'[a].path = "stacking"
        /\ dev'[a].path = "stacking" /\ dev[a].path # "stacking" => Accepts(a, n) /\ dev[a].path = "escrow"
    <2>1. Stacking(dev[a]) = dev[a] \/ (dev[a].path = "escrow"
                                        /\ Stacking(dev[a]) = [dev[a] EXCEPT !.path = "stacking"])
      BY DEF Stacking
    <2>2. Rejecting(dev[a]) = dev[a] \/ (dev[a].path = "escrow"
                                         /\ Rejecting(dev[a]) = [dev[a] EXCEPT !.path = "empty", !.note = 0])
      BY DEF Rejecting
    <2>3. CASE dev'[a] = dev[a]
      BY <2>3
    <2>4. CASE Accepts(a, n) /\ dev[a].path = "escrow" /\ dev'[a] = [dev[a] EXCEPT !.path = "stacking"]
      <3>1. dev'[a].path = "stacking" /\ dev'[a].note = dev[a].note
        BY <1>3, <2>4 DEF Devices
      <3> QED
        BY <2>4, <3>1
    <2>5. CASE dev[a].path = "escrow" /\ dev'[a] = [dev[a] EXCEPT !.path = "empty", !.note = 0]
      <3>1. [dev[a] EXCEPT !.path = "empty", !.note = 0].path = "empty"
        BY <1>3 DEF Devices
      <3>2. dev'[a].path = "empty"
        BY <2>5, <3>1
      <3> QED
        BY <2>5, <3>2
    <2> QED
      BY <1>4, <2>1, <2>2, <2>3, <2>4, <2>5
  <1>6. \A b \in Acceptors : dev'[b].path # "empty" => dev[b].path # "empty" /\ dev'[b].note = dev[b].note
    BY <1>4, <1>5
  <1>7. NoteInv'
    BY <1>0, <1>6, NoteTail
  <1>8. CASE dev'[a].path = "stacking" /\ dev[a].path # "stacking"
    <2>1. Accepts(a, n) /\ dev[a].path = "escrow"
      BY <1>5, <1>8
    <2>2. n = dev[a].note /\ n \in Notes
      BY <1>1, <1>3, <2>1 DEF NoteInv
    <2>3. a \notin Out
      BY <1>1, <2>1 DEF Out, Outstanding, NoteInv
    <2>4. HasNote(a, n)'
      BY <1>5, <1>8, <2>2 DEF HasNote
    <2>5. \A b \in Acceptors : b # a /\ Outstanding(b)' => Outstanding(b)
      BY <1>2, <1>4 DEF Outstanding
    <2>6. Out' \subseteq Out \union {a}
      BY <2>5 DEF Out
    <2> QED
      BY <1>1, <1>7, <2>1, <2>2, <2>3, <2>4, <2>6
  <1>9. CASE ~(dev'[a].path = "stacking" /\ dev[a].path # "stacking")
    <2>1. \A b \in Acceptors : dev'[b].path = "stacking" <=> dev[b].path = "stacking"
      BY <1>4, <1>5, <1>9
    <2> QED
      BY <1>0, <1>1, <1>6, <1>7, <2>1, NoteTail
  <1> QED
    BY <1>8, <1>9

\* A note that is reported as stacked is the only one of its acceptor, and is no
\* more on its way when the report is handled.
LEMMA StackedHandled ==
  ASSUME IInv, NoteInv, HandleEvent, OnStacked(Head(events)),
         NEW a, a = Head(events).acc, NEW n, n = Head(events).note
  PROVE  /\ a \in Acceptors /\ n \in Notes /\ HasNote(a, n) /\ a \in Out /\ a \notin Out'
         /\ \A m : HasNote(a, m) => m = n
  <1>0. events # <<>> /\ events' = Tail(events) /\ UNCHANGED dev
    BY DEF HandleEvent, OnStacked
  <1>1. /\ 1 \in DOMAIN events /\ events[1].acc = a /\ events[1].note = n
        /\ events[1].kind = "stacked" /\ a \in Acceptors
    BY <1>0, TailFacts, QueuedAcceptors DEF IInv, OnStacked
  <1>2. \A i \in DOMAIN events' : i + 1 \in DOMAIN events /\ events'[i] = events[i + 1] /\ i + 1 # 1
    BY <1>0, TailFacts DEF IInv
  <1>3. dev[a].path = "empty"
    BY <1>1 DEF NoteInv
  <1>4. n \in Notes /\ HasNote(a, n)
    BY <1>1 DEF NoteInv, HasNote
  <1>5. \A i \in DOMAIN events : events[i].acc = a /\ events[i].kind = "stacked" => i = 1
    BY <1>1 DEF NoteInv
  <1>6. \A m : HasNote(a, m) => m = n
    BY <1>1, <1>3, <1>5 DEF HasNote
  <1>7. ~Outstanding(a)'
    BY <1>0, <1>2, <1>3, <1>5 DEF Outstanding
  <1> QED
    BY <1>1, <1>4, <1>6, <1>7, HasNoteCounts DEF Out

LEMMA NextNote == ASSUME IInv, NoteInv, [Next]_vars PROVE NoteInv'
  <1>1. CASE HandleEvent
    BY <1>1, NoteHandled, NoteEscrow
  <1>2. CASE UNCHANGED devVars
    BY <1>2, QueuedAcceptors, NoteFrame DEF devVars
  <1>3. CASE Scenario \/ EnableReturns \/ DisableReturns \/ UNCHANGED vars
    BY <1>2, <1>3 DEF Scenario, Leave, Forward, EnterCharge, EnableReturns, DisableReturns, vars
  <1>4. CASE SubscribeAcceptor
    BY <1>4, NoteSubscribe
  <1>5. ASSUME NEW a \in Acceptors, EnableAcceptor(a) \/ DisableAcceptor(a)
        PROVE  NoteInv'
    BY <1>5, NoteLoops
  <1>6. ASSUME NEW a \in Acceptors, Driver(a) \/ Customer(a)
        PROVE  NoteInv'
    BY <1>6, NoteLoops, NoteRecognise, NoteStacked, NoteInsert, NoteOthers DEF Driver, Customer
  <1> QED
    BY <1>1, <1>3, <1>4, <1>5, <1>6 DEF Next, Manager

-----------------------------------------------------------------------------
\* The amounts.

LEMMA AmountFrame ==
  ASSUME AmountInv, UNCHANGED booked, again' = again \/ again' = FALSE,
         session'.pay = session.pay, session'.max = session.max, session'.amount = session.amount
  PROVE  AmountInv'
  BY DEF AmountInv

LEMMA AmountEnter ==
  ASSUME IInv, AmountInv, NEW p \in {pay, pay + 1} \cap (1..NumPayments), EnterCharge(p)
  PROVE  AmountInv'
  <1>0. /\ session \in Sessions /\ booked \in [1..NumPayments -> Nat] /\ pay \in 1..NumPayments
        /\ session.pay \in {0, pay} /\ p \in 1..NumPayments /\ Limit[p] \in Nat
    BY TypeFacts, LimitAssumption DEF IInv, SessionInv
  <1>1. /\ UNCHANGED booked /\ again' = FALSE /\ booked[p] < Limit[p] /\ booked[p] \in Nat
        /\ session' = SessionFor(session, p, Limit[p] - booked[p])
    BY <1>0 DEF EnterCharge, Enable, moneyVars
  <1> DEFINE max == Limit[p] - booked[p]
  <1>2. max > 0 /\ max \in Int /\ booked[p] + max = Limit[p] + 0
    BY <1>0, <1>1
  <1> HIDE DEF max
  <1>3. CASE session.pay = p /\ session.amount = 0
    <2>1. session' = [session EXCEPT !.max = max]
      BY <1>1, <1>3 DEF SessionFor, max
    <2>2. session'.pay = p /\ session'.max = max /\ session'.amount = 0
      BY <1>0, <1>3, <2>1 DEF Sessions
    <2> QED
      BY <1>1, <1>2, <1>3, <2>2 DEF AmountInv
  <1>4. CASE session.pay = p /\ session.amount # 0
    <2>1. session' = session
      BY <1>1, <1>4 DEF SessionFor
    <2> QED
      BY <1>1, <2>1, AmountFrame
  <1>5. CASE session.pay # p
    <2>1. session' = [pay |-> p, max |-> max, amount |-> 0, valid |-> {}]
      BY <1>1, <1>5 DEF SessionFor, NoSession, max
    <2>2. session'.pay = p /\ session'.max = max /\ session'.amount = 0
      BY <2>1
    <2>3. \A q \in 1..NumPayments : q > p => q > session.pay
      BY <1>0
    <2> QED
      BY <1>1, <1>2, <2>2, <2>3 DEF AmountInv
  <1> QED
    BY <1>3, <1>4, <1>5

\* A note is booked for the payment of the session and added to it.
LEMMA BookedNote ==
  ASSUME IInv, HandleEvent, OnStacked(Head(events)), Head(events).acc \in session.valid,
         NEW n \in Nat, n = Head(events).note
  PROVE  /\ session.pay \in 1..NumPayments /\ booked' = [booked EXCEPT ![session.pay] = @ + n]
         /\ session' = [session EXCEPT !.amount = @ + n]
         /\ session'.pay = session.pay /\ session'.max = session.max
         /\ session'.amount = session.amount + n
  <1>0. session \in Sessions /\ session.amount + n \in Nat
    BY TypeFacts DEF Sessions
  <1>1. session' = [session EXCEPT !.amount = @ + n]
        /\ booked' = [booked EXCEPT ![[session EXCEPT !.amount = @ + n].pay] = @ + n]
    BY DEF OnStacked
  <1>2. /\ session'.pay = session.pay /\ session'.max = session.max
        /\ session'.amount = session.amount + n
    BY <1>0, <1>1 DEF Sessions
  <1>3. session.pay \in 1..NumPayments
    BY <1>0 DEF IInv, SessionInv, Sessions
  <1> QED
    BY <1>1, <1>2, <1>3

LEMMA AmountStacked ==
  ASSUME IInv, NoteInv, AmountInv, HandleEvent, OnStacked(Head(events))
  PROVE  AmountInv'
  <1> PICK a, n : a = Head(events).acc /\ n = Head(events).note
    OBVIOUS
  <1> DEFINE p == session.pay
  <1>1. n \in Notes /\ n \in Nat /\ n > 0
    <2>1. n \in Notes
      BY StackedHandled
    <2> QED
      BY <2>1, NotesAssumption
  <1>2. /\ session \in Sessions /\ booked \in [1..NumPayments -> Nat]
        /\ session.amount \in Nat /\ session.max \in Int /\ session.pay \in Nat
    BY TypeFacts DEF Sessions
  <1>3. CASE Head(events).acc \in session.valid
    <2>1. /\ p \in 1..NumPayments /\ booked' = [booked EXCEPT ![p] = @ + n]
          /\ session'.pay = p /\ session'.max = session.max
          /\ session'.amount = session.amount + n
      BY <1>1, <1>3, BookedNote
    <2>2. booked'[p] = booked[p] + n /\ \A q \in 1..NumPayments : q # p => booked'[q] = booked[q]
      BY <1>2, <2>1
    <2>3. Limit[p] \in Nat /\ booked[p] \in Nat
      BY <1>2, <2>1, LimitAssumption
    <2>4. session'.amount > 0
      BY <1>1, <1>2, <2>1
    <2>5. booked[p] + session.max = Limit[p] + session.amount /\ session.max > 0
      BY <2>1 DEF AmountInv
    <2>6. booked'[p] + session'.max = Limit[p] + session'.amount
      <3>2. booked[p] \in Int /\ session.max \in Int /\ Limit[p] \in Int /\ session.amount \in Int
        BY <1>2, <2>3
      <3>3. (booked[p] + n) + session.max = Limit[p] + (session.amount + n)
        BY <1>1, <2>5, <3>2
      <3> QED
        BY <2>1, <2>2, <3>3
    <2>7. \A q \in 1..NumPayments : q > p => booked'[q] = 0
      BY <1>2, <2>1, <2>2 DEF AmountInv
    <2> QED
      BY <2>1, <2>4, <2>5, <2>6, <2>7 DEF AmountInv
  <1>4. CASE Head(events).acc \notin session.valid
    BY <1>4, AmountFrame DEF OnStacked
  <1> QED
    BY <1>3, <1>4

\* The manager switches the acceptors on again in the disable state: there is an
\* amount, so the session stays as it is.
LEMMA AmountDisabled ==
  ASSUME IInv, AmountInv, DisableReturns
  PROVE  AmountInv' /\ session' = session
  <1>1. session' = session
    <2>1. CASE Enable(pay, 0) /\ ui = "disable" /\ again
      <3>1. session.pay = pay /\ session.amount # 0
        BY <2>1, TypeFacts DEF IInv, SessionInv, AmountInv, Sessions
      <3> QED
        BY <2>1, <3>1 DEF Enable, SessionFor
    <2> QED
      BY <2>1 DEF DisableReturns, EmitDisabled
  <1>2. UNCHANGED <<booked, again>>
    BY DEF DisableReturns, moneyVars
  <1> QED
    BY <1>1, <1>2, AmountFrame

LEMMA NextAmount == ASSUME IInv, NoteInv, AmountInv, [Next]_vars PROVE AmountInv'
  <1>0. session \in Sessions
    BY TypeFacts
  <1>1. CASE HandleEvent
    <2>1. CASE OnStacked(Head(events))
      BY <1>1, <2>1, AmountStacked
    <2>2. CASE OnDisabled(Head(events))
      <3>1. \E v : session' = [session EXCEPT !.valid = v]
        BY <2>2 DEF OnDisabled
      <3>2. /\ session'.pay = session.pay /\ session'.max = session.max
            /\ session'.amount = session.amount
        BY <1>0, <3>1 DEF Sessions
      <3> QED
        BY <2>2, <3>2, AmountFrame DEF OnDisabled
    <2>3. CASE OnEscrow(Head(events)) \/ OnError(Head(events))
      BY <2>3, AmountFrame DEF OnEscrow, OnError
    <2> QED
      BY <1>1, <2>1, <2>2, <2>3 DEF HandleEvent
  <1>2. CASE SubscribeAcceptor
    <2>1. \E v : session' = [session EXCEPT !.valid = v]
      BY <1>2 DEF SubscribeAcceptor
    <2>2. /\ session'.pay = session.pay /\ session'.max = session.max
          /\ session'.amount = session.amount
      BY <1>0, <2>1 DEF Sessions
    <2> QED
      BY <1>2, <2>2, AmountFrame DEF SubscribeAcceptor, uiVars, moneyVars
  <1>3. CASE DisableReturns
    BY <1>3, AmountDisabled
  <1>4. ASSUME NEW p \in {pay, pay + 1} \cap (1..NumPayments), EnterCharge(p)
        PROVE  AmountInv'
    BY <1>4, AmountEnter
  <1>5. CASE Leave \/ Forward \/ EnableReturns \/ UNCHANGED vars
    BY <1>5, AmountFrame DEF Leave, Forward, EnableReturns, vars, uiVars, moneyVars
  <1>6. ASSUME NEW a \in Acceptors, EnableAcceptor(a) \/ DisableAcceptor(a)
        PROVE  AmountInv'
    BY <1>6, AmountFrame DEF EnableAcceptor, DisableAcceptor, uiVars, moneyVars
  <1>7. ASSUME NEW a \in Acceptors, Driver(a)
        PROVE  AmountInv'
    BY <1>7, AmountFrame DEF Driver, Recognise, GiveBack, Stacked, RunClosing, Poll, SendDisabled,
       uiVars, moneyVars
  <1>8. ASSUME NEW a \in Acceptors, Customer(a)
        PROVE  AmountInv'
    BY <1>8, AmountFrame DEF Customer, Insert, Fail, Recover, uiVars, moneyVars
  <1> QED
    BY <1>1, <1>2, <1>3, <1>4, <1>5, <1>6, <1>7, <1>8 DEF Next, Manager, Scenario

-----------------------------------------------------------------------------
\* What a payment may come to. Only bill acceptors hold a note until it is accepted.

LEMMA MoneyTypes ==
  ASSUME IInv, NEW p \in 1..NumPayments
  PROVE  /\ booked[p] \in Nat /\ Limit[p] \in Nat /\ Limit[p] > 0
         /\ Top(p) \in Nat /\ Limit[p] <= Top(p) /\ MaxNote <= Top(p) /\ MaxNote \in Nat
         /\ Worth(Acceptors) \in Nat
  <1>1. booked[p] \in Nat /\ Limit[p] \in Nat /\ Limit[p] > 0
    BY TypeFacts, LimitAssumption
  <1>2. Worth(Acceptors) \in Nat
    BY WorthFacts
  <1> QED
    BY <1>1, <1>2, MaxNoteFacts DEF Top

LEMMA OutTypes ==
  /\ Out \in SUBSET Acceptors /\ Out' \in SUBSET Acceptors
  /\ Worth(Out) \in Nat /\ Worth(Out') \in Nat
  /\ Worth(Out) <= Worth(Acceptors) /\ Worth(Out') <= Worth(Acceptors)
  <1>1. Out \in SUBSET Acceptors /\ Out' \in SUBSET Acceptors /\ Acceptors \in SUBSET Acceptors
    BY DEF Out
  <1> QED
    BY <1>1, WorthFacts

\* A step that puts nothing on its way and books nothing.
LEMMA KeptMoney ==
  ASSUME IInv, NoteInv, RoomInv, ChangeInv, Kept, UNCHANGED booked, session'.pay = session.pay
  PROVE  RoomInv' /\ ChangeInv'
  <1>1. Out' \subseteq Out
    BY DEF Kept, Out
  <1>2. Worth(Out') <= Worth(Out) /\ Worth(Out) \in Nat /\ Worth(Out') \in Nat
    BY <1>1, OutTypes, WorthFacts
  <1>3. RoomInv'
    <2> SUFFICES ASSUME NEW p \in 1..NumPayments
                 PROVE  booked'[p] + (IF p = session'.pay THEN Worth(Out') ELSE 0)
                          < Limit[p] + Worth(Acceptors)
      BY DEF RoomInv, Worth
    <2>1. booked[p] + (IF p = session.pay THEN Worth(Out) ELSE 0) < Limit[p] + Worth(Acceptors)
      BY DEF RoomInv
    <2> QED
      BY <1>2, <2>1, MoneyTypes
  <1>4. ChangeInv'
    <2> SUFFICES ASSUME ChangeControl, NEW p \in (1..NumPayments) \ Fixed, p = session.pay
                 PROVE  \/ booked[p] + Worth(Out') + MaxNote <= Top(p) + Worth(Acceptors)
                        \/ \E a \in Acceptors, n \in Notes :
                             HasNote(a, n)' /\ booked[p] + Worth(Out') + n <= Top(p) + Worth(Acceptors)
      BY DEF ChangeInv, Worth, Top
    <2>0. booked[p] \in Nat /\ MaxNote \in Nat /\ Top(p) \in Nat /\ Worth(Acceptors) \in Nat
      BY MoneyTypes
    <2>1. CASE booked[p] + Worth(Out) + MaxNote <= Top(p) + Worth(Acceptors)
      BY <1>2, <2>0, <2>1
    <2>2. ASSUME NEW a \in Acceptors, NEW n \in Notes, HasNote(a, n),
                 booked[p] + Worth(Out) + n <= Top(p) + Worth(Acceptors)
          PROVE  \/ booked[p] + Worth(Out') + MaxNote <= Top(p) + Worth(Acceptors)
                 \/ HasNote(a, n)' /\ booked[p] + Worth(Out') + n <= Top(p) + Worth(Acceptors)
      <3>0. n \in Nat
        BY NotesAssumption
      <3>1. CASE a \in Out'
        <4>1. HasNote(a, n)'
          BY <2>2, <3>1 DEF Out, Kept
        <4> QED
          BY <1>2, <2>0, <2>2, <3>0, <4>1
      <3>2. CASE a \notin Out'
        <4>1. a \in Out
          BY <2>2, HasNoteCounts
        <4>2. Worth(Out') + MaxNote <= Worth(Out)
          BY <1>1, <3>2, <4>1, OutTypes, WorthFacts
        <4> QED
          BY <1>2, <2>0, <2>2, <3>0, <4>2
      <3> QED
        BY <3>1, <3>2
    <2> QED
      BY <2>1, <2>2 DEF ChangeInv
  <1> QED
    BY <1>3, <1>4

\* A note is booked: what was on its way is now in the database.
LEMMA BookedMoney ==
  ASSUME IInv, NoteInv, RoomInv, ChangeInv, HandleEvent, OnStacked(Head(events)),
         Head(events).acc \in session.valid
  PROVE  RoomInv' /\ ChangeInv'
  <1> PICK a, n : a = Head(events).acc /\ n = Head(events).note
    OBVIOUS
  <1>1. a \in Acceptors /\ n \in Notes /\ a \in Out /\ a \notin Out' /\ \A m : HasNote(a, m) => m = n
    BY StackedHandled
  <1>2. n \in Nat /\ n <= MaxNote /\ MaxNote \in Nat
    BY <1>1, MaxNoteFacts, NotesAssumption
  <1>3. Kept
    <2>1. ~OnEscrow(Head(events))
      BY DEF OnStacked, OnEscrow
    <2> QED
      BY <2>1, NoteHandled
  <1>4. Out' \subseteq Out
    BY <1>3 DEF Kept, Out
  <1>5. Worth(Out') + MaxNote <= Worth(Out) /\ Worth(Out) \in Nat /\ Worth(Out') \in Nat
    BY <1>1, <1>4, OutTypes, WorthFacts
  <1> DEFINE p == session.pay
  <1>6. p \in 1..NumPayments /\ booked' = [booked EXCEPT ![p] = @ + n] /\ session'.pay = p
    BY <1>2, BookedNote
  <1>7. booked'[p] = booked[p] + n /\ \A q \in 1..NumPayments : q # p => booked'[q] = booked[q]
    BY <1>6, TypeFacts
  <1>8. /\ booked[p] \in Nat /\ Limit[p] \in Nat /\ Top(p) \in Nat /\ Worth(Acceptors) \in Nat
    BY <1>6, MoneyTypes
  <1>9. RoomInv'
    <2> SUFFICES ASSUME NEW q \in 1..NumPayments
                 PROVE  booked'[q] + (IF q = session'.pay THEN Worth(Out') ELSE 0)
                          < Limit[q] + Worth(Acceptors)
      BY DEF RoomInv, Worth
    <2>1. CASE q # p
      BY <1>6, <1>7, <2>1 DEF RoomInv
    <2>2. CASE q = p
      <3>1. booked[p] + Worth(Out) < Limit[p] + Worth(Acceptors)
        BY <1>6 DEF RoomInv
      <3>2. booked[p] + n + Worth(Out') < Limit[p] + Worth(Acceptors)
        BY <1>2, <1>5, <1>8, <3>1
      <3> QED
        BY <1>6, <1>7, <2>2, <3>2
    <2> QED
      BY <2>1, <2>2
  <1>10. ChangeInv'
    <2> DEFINE All == Top(p) + Worth(Acceptors)
    <2> SUFFICES ASSUME ChangeControl, p \notin Fixed
                 PROVE  /\ booked'[p] + MaxNote <= All
                        /\ \/ booked'[p] + Worth(Out') + MaxNote <= All
                           \/ \E b \in Acceptors, m \in Notes :
                                HasNote(b, m)' /\ booked'[p] + Worth(Out') + m <= All
      BY <1>6, <1>7 DEF ChangeInv, Worth, Top
    <2>0. All \in Nat
      BY <1>8
    <2> HIDE DEF All
    <2>1. CASE booked[p] + Worth(Out) + MaxNote <= All
      BY <1>2, <1>5, <1>7, <1>8, <2>0, <2>1
    <2>2. ASSUME NEW b \in Acceptors, NEW m \in Notes, HasNote(b, m),
                 booked[p] + Worth(Out) + m <= All
          PROVE  /\ booked'[p] + MaxNote <= All
                 /\ \/ booked'[p] + Worth(Out') + MaxNote <= All
                    \/ HasNote(b, m)' /\ booked'[p] + Worth(Out') + m <= All
      <3>0. m \in Nat
        BY NotesAssumption
      <3>1. CASE b = a
        <4>1. m = n
          BY <1>1, <2>2, <3>1
        <4>2. booked'[p] + Worth(Out') + MaxNote <= All
          BY <1>2, <1>5, <1>7, <1>8, <2>0, <2>2, <4>1
        <4> QED
          BY <1>2, <1>5, <1>7, <1>8, <2>0, <4>2
      <3>2. CASE b \in Out'
        <4>1. HasNote(b, m)'
          BY <1>3, <2>2, <3>2 DEF Kept, Out
        <4>2. booked'[p] + Worth(Out') + m <= All
          BY <1>2, <1>5, <1>7, <1>8, <2>0, <2>2, <3>0
        <4>3. MaxNote <= Worth(Out')
          BY <3>2, OutTypes, SomethingOut
        <4> QED
          BY <1>2, <1>5, <1>7, <1>8, <2>0, <3>0, <4>1, <4>2, <4>3
      <3>3. CASE b # a /\ b \notin Out'
        <4>1. b \in Out /\ {a, b} \subseteq Out
          BY <1>1, <2>2, HasNoteCounts
        <4>2. Worth(Out') + MaxNote + MaxNote <= Worth(Out)
          <5>1. Out' \union {a} \in SUBSET Acceptors /\ b \notin Out' \union {a}
            BY <1>1, <3>3, OutTypes
          <5>2. Worth(Out') + MaxNote <= Worth(Out' \union {a})
            BY <1>1, <5>1, OutTypes, WorthFacts
          <5>3. Worth(Out' \union {a}) + MaxNote <= Worth(Out)
            BY <1>1, <1>4, <4>1, <5>1, OutTypes, WorthFacts
          <5>4. Worth(Out' \union {a}) \in Nat
            BY <5>1, WorthFacts
          <5> QED
            BY <1>2, <1>5, <5>2, <5>3, <5>4
        <4> QED
          BY <1>2, <1>5, <1>7, <1>8, <2>0, <2>2, <3>0, <4>2
      <3> QED
        BY <3>1, <3>2, <3>3
    <2>3. \/ booked[p] + Worth(Out) + MaxNote <= All
          \/ \E b \in Acceptors, m \in Notes : HasNote(b, m) /\ booked[p] + Worth(Out) + m <= All
      BY <1>6 DEF ChangeInv, All
    <2> QED
      BY <2>1, <2>2, <2>3
  <1> QED
    BY <1>9, <1>10

\* A note is accepted: the maximum of the session is not reached, so the payment is
\* below its limit; with the change control this note makes no change.
LEMMA AcceptMoney ==
  ASSUME IInv, NoteInv, AmountInv, RoomInv, ChangeInv, UNCHANGED <<session, booked>>,
         NEW a \in Acceptors, NEW n \in Notes, Accepts(a, n),
         Out' \subseteq Out \union {a}, a \notin Out, HasNote(a, n)'
  PROVE  RoomInv' /\ ChangeInv'
  <1> DEFINE p == session.pay
  <1>1. session \in Sessions /\ p \in 1..NumPayments
    BY TypeFacts DEF Accepts, IInv, SessionInv, Sessions
  <1>2. /\ booked[p] \in Nat /\ Limit[p] \in Nat /\ Top(p) \in Nat /\ Limit[p] <= Top(p)
        /\ Worth(Acceptors) \in Nat /\ MaxNote \in Nat
    BY <1>1, MoneyTypes
  <1>3. booked[p] < Limit[p]
    <2>1. session.max \in Int /\ session.amount \in Nat
      BY <1>1 DEF Sessions
    <2>2. session.max > 0 /\ booked[p] + session.max = Limit[p] + session.amount
      BY <1>1 DEF AmountInv
    <2>3. ~(session.amount >= session.max)
      BY <2>1, <2>2 DEF Accepts, MaxAmountReached
    <2> QED
      BY <1>2, <2>1, <2>2, <2>3
  <1>4. Worth(Out') <= Worth(Acceptors) /\ Worth(Out') \in Nat
    BY OutTypes
  <1>5. RoomInv'
    <2> SUFFICES ASSUME NEW q \in 1..NumPayments
                 PROVE  booked[q] + (IF q = p THEN Worth(Out') ELSE 0) < Limit[q] + Worth(Acceptors)
      BY DEF RoomInv, Worth
    <2>1. CASE q = p
      BY <1>2, <1>3, <1>4, <2>1
    <2>2. CASE q # p
      BY <2>2 DEF RoomInv
    <2> QED
      BY <2>1, <2>2
  <1>6. ChangeInv'
    <2> SUFFICES ASSUME ChangeControl, p \notin Fixed
                 PROVE  HasNote(a, n)' /\ booked[p] + Worth(Out') + n <= Top(p) + Worth(Acceptors)
      BY DEF ChangeInv, Worth, Top
    <2>1. n \in Nat
      BY NotesAssumption
    <2>2. booked[p] + n <= Limit[p]
      BY <1>2, <2>1 DEF Accepts, WouldOverflow
    <2> QED
      BY <1>2, <1>4, <2>1, <2>2
  <1> QED
    BY <1>5, <1>6

\* The session of another payment: nothing is booked for it yet.
LEMMA EnterMoney ==
  ASSUME IInv, NoteInv, AmountInv, RoomInv, ChangeInv,
         NEW p \in {pay, pay + 1} \cap (1..NumPayments), EnterCharge(p)
  PROVE  RoomInv' /\ ChangeInv'
  <1>1. UNCHANGED <<dev, events, booked>> /\ booked[p] < Limit[p]
    BY DEF EnterCharge, devVars, moneyVars
  <1>2. session \in Sessions /\ main \in Mains /\ booked \in [1..NumPayments -> Nat] /\ p \in 1..NumPayments
        /\ pay \in 1..NumPayments /\ Limit[p] - booked[p] \in Int
    <2>1. booked \in [1..NumPayments -> Nat] /\ p \in 1..NumPayments
      BY TypeFacts
    <2> QED
      BY <2>1, TypeFacts, LimitAssumption
  <1>3. session'.pay = p
    BY <1>2, EnableFacts DEF EnterCharge
  <1>4. Kept
    BY <1>1, QueuedAcceptors, NoteFrame
  <1>5. CASE session.pay = p
    BY <1>1, <1>3, <1>4, <1>5, KeptMoney
  <1>6. CASE session.pay # p
    <2>1. booked[p] = 0
      <3>1. p > session.pay
        BY <1>2, <1>6 DEF IInv, SessionInv
      <3> QED
        BY <1>2, <3>1 DEF AmountInv
    <2>2. Worth(Out') <= Worth(Acceptors) /\ Worth(Out') \in Nat
      BY OutTypes
    <2>3. RoomInv'
      <3> SUFFICES ASSUME NEW q \in 1..NumPayments
                   PROVE  booked[q] + (IF q = p THEN Worth(Out') ELSE 0) < Limit[q] + Worth(Acceptors)
        BY <1>1, <1>3 DEF RoomInv, Worth
      <3>1. booked[q] + (IF q = session.pay THEN Worth(Out) ELSE 0) < Limit[q] + Worth(Acceptors)
        BY DEF RoomInv
      <3>2. booked[q] < Limit[q] + Worth(Acceptors)
        BY <3>1, MoneyTypes, OutTypes
      <3>3. CASE q = p
        BY <2>1, <2>2, <3>3, MoneyTypes
      <3>4. CASE q # p
        BY <3>2, <3>4, MoneyTypes
      <3> QED
        BY <3>3, <3>4
    <2>4. ChangeInv'
      <3>1. booked[p] + Worth(Out') + MaxNote <= Top(p) + Worth(Acceptors)
        BY <1>2, <2>1, <2>2, MoneyTypes
      <3> QED
        BY <1>1, <1>3, <3>1 DEF ChangeInv, Worth, Top
    <2> QED
      BY <2>3, <2>4
  <1> QED
    BY <1>5, <1>6

LEMMA NextMoney ==
  ASSUME Bills = Acceptors, IInv, NoteInv, AmountInv, RoomInv, ChangeInv, [Next]_vars
  PROVE  RoomInv' /\ ChangeInv'
  <1>0. session \in Sessions
    BY TypeFacts
  <1>1. CASE HandleEvent
    <2>1. CASE OnEscrow(Head(events))
      <3> PICK a, n : a = Head(events).acc /\ n = Head(events).note
        OBVIOUS
      <3>1. UNCHANGED <<session, booked>>
        BY <2>1 DEF OnEscrow
      <3>2. \/ Kept
            \/ /\ a \in Acceptors /\ Accepts(a, n) /\ n \in Notes
               /\ Out' \subseteq Out \union {a} /\ a \notin Out /\ HasNote(a, n)'
        BY <1>1, <2>1, NoteEscrow
      <3> QED
        BY <3>1, <3>2, KeptMoney, AcceptMoney
    <2>2. CASE OnStacked(Head(events))
      <3>1. CASE Head(events).acc \in session.valid
        BY <1>1, <2>2, <3>1, BookedMoney
      <3>2. CASE Head(events).acc \notin session.valid
        <4>1. Kept
          BY <1>1, <2>2, NoteHandled DEF OnStacked, OnEscrow
        <4>2. UNCHANGED <<session, booked>>
          BY <2>2, <3>2 DEF OnStacked
        <4> QED
          BY <4>1, <4>2, KeptMoney
      <3> QED
        BY <3>1, <3>2
    <2>3. CASE OnDisabled(Head(events)) \/ OnError(Head(events))
      <3>1. Kept
        BY <1>1, <2>3, NoteHandled DEF OnDisabled, OnError, OnEscrow
      <3>2. UNCHANGED booked /\ (session' = session \/ \E v : session' = [session EXCEPT !.valid = v])
        BY <2>3 DEF OnDisabled, OnError
      <3>3. session'.pay = session.pay
        BY <1>0, <3>2 DEF Sessions
      <3> QED
        BY <3>1, <3>2, <3>3, KeptMoney
    <2> QED
      BY <1>1, <2>1, <2>2, <2>3 DEF HandleEvent
  <1>2. CASE SubscribeAcceptor
    <2>1. UNCHANGED booked /\ session'.pay = session.pay
      BY <1>0, <1>2 DEF SubscribeAcceptor, moneyVars, Sessions
    <2> QED
      BY <1>2, <2>1, NoteSubscribe, KeptMoney
  <1>3. ASSUME UNCHANGED <<devVars, booked>>, session' = session
        PROVE  RoomInv' /\ ChangeInv'
    <2>1. Kept
      BY <1>3, QueuedAcceptors, NoteFrame DEF devVars
    <2> QED
      BY <1>3, <2>1, KeptMoney
  <1>4. CASE DisableReturns
    BY <1>3, <1>4, AmountDisabled DEF DisableReturns, moneyVars
  <1>5. ASSUME NEW p \in {pay, pay + 1} \cap (1..NumPayments), EnterCharge(p)
        PROVE  RoomInv' /\ ChangeInv'
    BY <1>5, EnterMoney
  <1>6. CASE Leave \/ Forward \/ EnableReturns \/ UNCHANGED vars
    BY <1>3, <1>6 DEF Leave, Forward, EnableReturns, vars, moneyVars
  <1>7. ASSUME NEW a \in Acceptors, EnableAcceptor(a) \/ DisableAcceptor(a)
        PROVE  RoomInv' /\ ChangeInv'
    BY <1>7, NoteLoops, KeptMoney DEF EnableAcceptor, DisableAcceptor, moneyVars
  <1>8. ASSUME NEW a \in Acceptors, Driver(a)
        PROVE  RoomInv' /\ ChangeInv'
    <2>1. Kept
      BY <1>8, NoteLoops, NoteRecognise, NoteStacked, NoteOthers DEF Driver
    <2>2. UNCHANGED <<session, booked>>
      BY <1>8 DEF Driver, Recognise, GiveBack, Stacked, RunClosing, Poll, SendDisabled, moneyVars
    <2> QED
      BY <2>1, <2>2, KeptMoney
  <1>9. ASSUME NEW a \in Acceptors, Customer(a)
        PROVE  RoomInv' /\ ChangeInv'
    <2>1. Kept
      BY <1>9, NoteInsert, NoteOthers DEF Customer
    <2>2. UNCHANGED <<session, booked>>
      BY <1>9 DEF Customer, Insert, Fail, Recover, moneyVars
    <2> QED
      BY <2>1, <2>2, KeptMoney
  <1> QED
    BY <1>1, <1>2, <1>4, <1>5, <1>6, <1>7, <1>8, <1>9 DEF Next, Manager, Scenario

\* What holds of the money: the sums of the bills only where every acceptor is one
\* of bills, as a coin is in the box before it is compared with any limit.
MoneyInv == NoteInv /\ AmountInv /\ (Bills = Acceptors => RoomInv /\ ChangeInv)

LEMMA InitMoney == Init => MoneyInv
  <1> SUFFICES ASSUME Init PROVE MoneyInv
    OBVIOUS
  <1>0. IInv
    BY InitIInv
  <1>1. /\ events = <<>> /\ session.pay = 0 /\ again = FALSE
        /\ \A a \in Acceptors : dev[a].path = "empty"
        /\ \A p \in 1..NumPayments : booked[p] = 0
    BY DEF Init, NoSession, Fresh
  <1>2. NoteInv /\ AmountInv
    BY <1>1 DEF NoteInv, AmountInv
  <1>3. RoomInv
    BY <1>0, <1>1, MoneyTypes DEF RoomInv
  <1>4. ChangeInv
    BY <1>0, <1>1, MoneyTypes DEF ChangeInv
  <1> QED
    BY <1>2, <1>3, <1>4 DEF MoneyInv

\* The invariant of the money, with what each session, queue and path holds of it.
THEOREM MoneyInvariance == Spec => [](IInv /\ MoneyInv)
  <1>1. Init => IInv /\ MoneyInv
    BY InitIInv, InitMoney
  <1>2. IInv /\ MoneyInv /\ [Next]_vars => (IInv /\ MoneyInv)'
    BY NextIInv, NextNote, NextAmount, NextMoney DEF MoneyInv
  <1> QED
    BY <1>1, <1>2, PTL DEF Spec

\* With any number of bill acceptors each of them oversteps the limit of a payment
\* by less than one note (onEscrow, onStacked, enable).
THEOREM LimitTheorem == Spec => [](Bills = Acceptors => LimitKept)
  <1>1. IInv /\ MoneyInv => (Bills = Acceptors => LimitKept)
    <2> SUFFICES ASSUME IInv, MoneyInv, Bills = Acceptors, NEW p \in 1..NumPayments
                 PROVE  booked[p] < Limit[p] + Worth(Acceptors)
      BY DEF LimitKept, Worth
    <2>1. booked[p] + (IF p = session.pay THEN Worth(Out) ELSE 0) < Limit[p] + Worth(Acceptors)
      BY DEF MoneyInv, RoomInv
    <2> QED
      BY <2>1, MoneyTypes, OutTypes
  <1> QED
    BY <1>1, MoneyInvariance, PTL

\* With the change control a payment makes no more change than the notes that the
\* other bill acceptors hold can make (onEscrowChangeControl).
THEOREM ChangeTheorem == Spec => [](Bills = Acceptors /\ ChangeControl => NoChange)
  <1>1. IInv /\ MoneyInv => (Bills = Acceptors /\ ChangeControl => NoChange)
    <2> SUFFICES ASSUME IInv, MoneyInv, Bills = Acceptors, ChangeControl, NEW p \in (1..NumPayments) \ Fixed
                 PROVE  booked[p] <= Top(p) + (Cardinality(Acceptors) - 1) * MaxNote
      BY DEF NoChange, Top
    <2>1. booked[p] + MaxNote <= Top(p) + Worth(Acceptors)
      BY DEF MoneyInv, ChangeInv
    <2> DEFINE c == Cardinality(Acceptors)
    <2>2. c \in Nat /\ MaxNote \in Nat
      BY CountFacts, MaxNoteFacts
    <2>3. Worth(Acceptors) = c * MaxNote
      BY DEF Worth
    <2> HIDE DEF c
    <2>4. (c - 1) * MaxNote = c * MaxNote - MaxNote /\ c * MaxNote \in Nat
      BY <2>2
    <2>5. booked[p] \in Nat /\ Top(p) \in Nat
      BY MoneyTypes
    <2>6. booked[p] <= Top(p) + (c - 1) * MaxNote
      BY <2>1, <2>2, <2>3, <2>4, <2>5
    <2> QED
      BY <2>6 DEF c
  <1> QED
    BY <1>1, MoneyInvariance, PTL

=============================================================================
