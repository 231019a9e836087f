---------------------------- MODULE PaymentLedger ----------------------------
(***************************************************************************)
(* What the payment thread promises the customer and the dealer, without     *)
(* threads, requests or a database: a payment is charged at most once at a   *)
(* time, and it is reported as completed only after a charge was accepted,   *)
(* or after an answer of the gateway was misread as saying so.               *)
(***************************************************************************)
CONSTANTS Payments, Charges      \* Charges: the charges a payment may get

VARIABLES
  held,      \* held[p]: charges of p that the gateway holds money for
  granted,   \* granted[p]: charges of p the gateway has ever accepted
  report,    \* report[p]: what the terminal tells of p
  misread    \* misread[p]: charges of p that were taken for accepted unread

lvars == <<held, granted, report, misread>>

LInit ==
  /\ held = [p \in Payments |-> {}]
  /\ granted = [p \in Payments |-> {}]
  /\ report = [p \in Payments |-> "open"]
  /\ misread = [p \in Payments |-> {}]

\* The gateway accepts a charge, if the payment has none; the operator may
\* refuse it at once.
Charge(p, c) ==
  /\ held[p] = {}
  /\ c \notin granted[p]
  /\ granted' = [granted EXCEPT ![p] = @ \cup {c}]
  /\ \E h \in {{}, {c}} : held' = [held EXCEPT ![p] = h]
  /\ UNCHANGED <<report, misread>>

\* The operator refuses a charge that was accepted.
Release(p) ==
  /\ held[p] # {}
  /\ held' = [held EXCEPT ![p] = {}]
  /\ UNCHANGED <<granted, report, misread>>

\* The terminal records an outcome; "completed" needs a charge that was granted,
\* or one whose answer was misread.
Report(p, outcome) ==
  /\ outcome = "completed" => granted[p] \cup misread[p] # {}
  /\ report' = [report EXCEPT ![p] = outcome]
  /\ UNCHANGED <<held, granted, misread>>

\* The gateway's answer for charge c cannot be read, and is taken for "paid";
\* the terminal records it at once or later.
Misread(p, c) ==
  /\ misread' = [misread EXCEPT ![p] = @ \cup {c}]
  /\ \E r \in {report[p], "completed"} : report' = [report EXCEPT ![p] = r]
  /\ UNCHANGED <<held, granted>>

LNext ==
  \E p \in Payments :
    \/ \E c \in Charges : Charge(p, c) \/ Misread(p, c)
    \/ Release(p)
    \/ \E outcome \in {"open", "completed", "closed"} : Report(p, outcome)

LSpec == LInit /\ [][LNext]_lvars

=============================================================================
