--------------------------- MODULE CyberplatServer ---------------------------
(***************************************************************************)
(* External: the Cyberplat gateway, as the client relies on it.  The gateway *)
(* keeps one state per session number:                                      *)
(*   none     never heard of            checked  CHECK accepted, no PAY yet *)
(*   waiting  PAY accepted, the operator has not answered                   *)
(*   done     paid                      failed   PAY accepted, then refused *)
(*   void     reported as "there was no payment", never to be paid          *)
(* A reply is a record: what the client reads and the session's new state.  *)
(* The contract the client needs is in StatusReplies: once STATUS has said  *)
(* that a checked session was not paid, the client starts over with a new   *)
(* session (ErrorCodes.h, Error1), so the old one must not be paid by a PAY *)
(* that was still on its way.                                               *)
(***************************************************************************)

SessionStates == {"none", "checked", "waiting", "done", "failed", "void"}

\* The gateway holds money, or will, for a session in one of these states.
Live == {"waiting", "done"}

\* The gateway accepted a PAY for a session in one of these states.
Accepted == {"waiting", "done", "failed"}

CheckReplies(state) ==
  IF state = "none"
  THEN {[error |-> "Ok", state |-> "checked"]} \cup
       {[error |-> e, state |-> "none"] : e \in {"Critical", "OperatorNumberReject", "Other"}}
  ELSE {[error |-> "SessionAlreadyExist", state |-> state]}

PayReplies(state) ==
  IF state = "checked"
  THEN {[error |-> "Ok", state |-> s] : s \in Live} \cup
       {[error |-> e, state |-> s] : e \in {"Critical", "Other"}, s \in {"checked", "failed"}}
  ELSE {[error |-> "Other", state |-> state]}

StatusReplies(state) ==
  CASE state = "none"    -> {[result |-> "Empty", error |-> "SessionNotExist", state |-> "none"]}
    [] state \in {"checked", "void"}
                         -> {[result |-> r, error |-> "Ok", state |-> "void"] : r \in {"Ok", "Error1"}}
    [] state = "waiting" -> {[result |-> r, error |-> "Ok", state |-> "waiting"] : r \in {"Error2", "Error3"}}
    [] state = "done"    -> {[result |-> "StatusCheckOk", error |-> "Ok", state |-> "done"]}
    [] state = "failed"  -> {[result |-> "StatusCheckOk", error |-> "Other", state |-> "failed"]}

\* Replies that say nothing of the session: a general error of the gateway,
\* which comes with an empty RESULT, and a RESULT the client does not know.
FaultyStatusReplies(state) ==
  {[result |-> "Empty", error |-> "Other", state |-> state],
   [result |-> "Unknown", error |-> "Ok", state |-> state]}

=============================================================================
