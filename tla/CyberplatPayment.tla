-------------------------- MODULE CyberplatPayment --------------------------
(***************************************************************************)
(* The decisions of the Cyberplat payment object                            *)
(* (plugins/Payments/Cyberplat/src/Payment.cpp), as operators on a record:  *)
(* what a reply of the gateway does to the payment.  No state here; the     *)
(* modules that run the payment take their steps from these operators.      *)
(*                                                                          *)
(* A payment is a record [status, step, session, tries, error, due]:        *)
(*   session  0 is the empty string, n > 0 the n-th session number that     *)
(*            createPaymentSession() generated for this payment;            *)
(*   due      TRUE when NEXT_TRY_DATE is empty or past.                     *)
(*   error    SERVER_ERROR, the outcome of the last request;                *)
(* PRIORITY (Low) only orders reports and is left out.                      *)
(***************************************************************************)
EXTENDS Integers

CONSTANT TriesLimit        \* CPayment::TriesLimit, 25 in the code

ASSUME TriesLimitAssumption == TriesLimit \in Nat

-----------------------------------------------------------------------------

\* The statuses getPaymentQueue() selects and process() acts on.
Queued == {"Init", "ReadyForCheck", "ProcessError"}

Statuses == Queued \cup {"Completed", "BadPayment", "Deleted"}

Steps == {"Init", "Pay"}

\* SERVER_ERROR: "Critical" stands for the format, date and sum errors of
\* isCriticalError(), "Other" for every remaining code.
Errors == {"Ok", "NetworkError", "DatabaseError", "Critical", "OperatorNumberReject",
           "SessionAlreadyExist", "SessionNotExist", "Other"}

\* SERVER_RESULT: "Error3" stands for Error3..Error6, "Unknown" for a value
\* above StatusCheckOk, the end of EServerResult.
Results == {"Empty", "Ok", "Error1", "Error2", "Error3", "StatusCheckOk", "Unknown"}

IsCriticalError(e) == e \in {"Critical", "OperatorNumberReject"}

-----------------------------------------------------------------------------

\* Faulty variants of SetProcessError: the tries are counted down, or not at all.
SetProcessErrorCountsDown(o) ==
  [o EXCEPT !.due = FALSE, !.tries = @ - 1,
            !.status = IF o.tries > TriesLimit THEN "BadPayment" ELSE "ProcessError"]
SetProcessErrorWithoutCount(o) ==
  [o EXCEPT !.due = FALSE,
            !.status = IF o.tries > TriesLimit THEN "BadPayment" ELSE "ProcessError"]

\* Back off, and give the payment up once the limit is passed.  A transport
\* error does not count as a try, except that it is never left at zero.
SetProcessError(o) ==
  [o EXCEPT !.due    = FALSE,
            !.status = IF o.tries > TriesLimit THEN "BadPayment" ELSE "ProcessError",
            !.tries  = IF o.error # "NetworkError" THEN o.tries + 1
                       ELSE IF o.tries = 0 THEN 1 ELSE o.tries]

UpdateNumberOfTries(o) ==
  IF o.tries \in {1, 2} THEN [o EXCEPT !.due = FALSE]
                        ELSE [o EXCEPT !.status = "BadPayment"]

WithError(o, e) == [o EXCEPT !.error = e]

\* performTransaction() after check() failed with e.
CheckFailed(o, e) ==
  LET r == SetProcessError(WithError(o, e))
  IN  IF IsCriticalError(e)          THEN [r EXCEPT !.status = "BadPayment"]
      ELSE IF e = "OperatorNumberReject" THEN UpdateNumberOfTries(r)
      ELSE r

\* Faulty variant: any reply to PAY is taken for success.
AfterPayIgnoresError(o, e) ==
  IF e # "NetworkError" THEN [WithError(o, e) EXCEPT !.status = "Completed"]
                        ELSE SetProcessError(WithError(o, e))

\* performTransactionPay() after pay(), which is answered with e.
AfterPay(o, e) ==
  LET r == SetProcessError(WithError(o, e))
  IN  IF e = "Ok"                THEN [WithError(o, e) EXCEPT !.status = "Completed"]
      ELSE IF IsCriticalError(e) THEN [r EXCEPT !.status = "BadPayment"]
      ELSE r

\* performTransaction(): the session existed; is its STATUS taken for paid?
\* Any RESULT from Error3 upwards is, the ones outside EServerResult included.
AlreadyPaid(result, e) == e = "Ok" /\ result \in {"Error3", "StatusCheckOk", "Unknown"}

\* Faulty variants of NotPaid: every empty result, or RESULT 2 as well.
NotPaidOnEmpty(result, e) ==
  \/ result \in {"Empty", "Ok", "Error1"}
  \/ result = "StatusCheckOk" /\ e # "Ok"
NotPaidUpToError2(result, e) ==
  \/ result = "Empty" /\ e = "SessionNotExist"
  \/ result \in {"Ok", "Error1", "Error2"}
  \/ result = "StatusCheckOk" /\ e # "Ok"

\* process(), step Pay: how the reply to STATUS is read.
NotPaid(result, e) ==
  \/ result = "Empty" /\ e = "SessionNotExist"
  \/ result \in {"Ok", "Error1"}
  \/ result = "StatusCheckOk" /\ e # "Ok"

Paid(result, e) == result = "StatusCheckOk" /\ e = "Ok"

StillWaiting(result, e) ==
  \/ result = "Empty" /\ e # "SessionNotExist"
  \/ result \in {"Error2", "Error3"}

AfterStatus(o, result, e) ==
  LET r == WithError(o, e)
  IN  IF NotPaid(result, e)           THEN [r EXCEPT !.step = "Init"]
      ELSE IF Paid(result, e)         THEN [r EXCEPT !.status = "Completed"]
      ELSE IF StillWaiting(result, e) THEN SetProcessError(r)
      ELSE r

\* remove(), step Pay: may the payment be deleted after this reply?
Removable(result, e) ==
  \/ result \in {"Empty", "Ok", "Error1"}
  \/ result = "StatusCheckOk" /\ e # "Ok"

=============================================================================
