-------------------------- MODULE CashAcceptorDriver --------------------------
(***************************************************************************)
(* One cash acceptor as its driver sees it (PortCashAcceptor.cpp,            *)
(* CashAcceptorBase.cpp): switching the device on and off, the deferred      *)
(* switch-off while a note is handled, and the corrections made by a poll.   *)
(* A device is a record; every operator gives the records it may become, as  *)
(* the hardware may obey a command or not.                                   *)
(***************************************************************************)
EXTENDS Naturals

\* Where the note is: nowhere, being read, held, on its way to the stacker.
Paths == {"empty", "accepting", "escrow", "stacking"}

Devices == [
  power : {"on", "off"},      \* the hardware takes notes
  path : Paths,
  note : Nat,                 \* the nominal of the note in the path
  err : BOOLEAN,              \* the status collection holds an error
  sub : BOOLEAN,              \* the manager is subscribed to escrow and stacked
  wanted : BOOLEAN,           \* parameter Enabled
  enabling : BOOLEAN,         \* parameter ProcessEnabling
  disabling : BOOLEAN,        \* parameter ProcessDisabling
  closing : BOOLEAN,          \* processEnable(false) is queued, ~mPostPollingAction
  checkDisable : BOOLEAN,     \* mCheckDisable: a deferred switch-off is pending
  timers : Nat]               \* calls of onSendDisabled() waiting for their timer

Fresh == [power |-> "off", path |-> "empty", note |-> 0, err |-> FALSE,
          sub |-> FALSE, wanted |-> FALSE, enabling |-> FALSE,
          disabling |-> FALSE, closing |-> FALSE, checkDisable |-> FALSE,
          timers |-> 0]

\* isEnabled(): a note in the path counts as enabled, an error does not.
IsEnabled(d) == ~d.err /\ (d.power = "on" \/ d.path # "empty")

\* canDisable()
CanDisable(d) == d.path = "empty"

\* What setEnable() does before anything else.
Unprocessed(d) == [d EXCEPT !.enabling = FALSE, !.disabling = FALSE]

\* setEnable(true): the device and the answer. A device that is enabled already
\* stays as it is, with the switch-off that was ordered before; one that does
\* not obey in time answers false, with ProcessEnabling set. Without a connection
\* nothing is done at all.
SwitchedOn(d) ==
  {[dev |-> d, ok |-> FALSE]} \union
  IF IsEnabled(d)
  THEN {[dev |-> [Unprocessed(d) EXCEPT !.wanted = TRUE], ok |-> TRUE]}
  ELSE IF d.err
  THEN {[dev |-> [Unprocessed(d) EXCEPT !.wanted = FALSE], ok |-> FALSE]}
  ELSE {[dev |-> [Unprocessed(d) EXCEPT !.wanted = TRUE, !.power = "on",
                                        !.checkDisable = FALSE],
         ok |-> TRUE],
        [dev |-> [Unprocessed(d) EXCEPT !.enabling = TRUE], ok |-> FALSE]}

\* Mutant: the timer is stopped, not started.
ClosedCountsDown(d) == [d EXCEPT !.power = "off", !.closing = FALSE, !.timers = @ - 1]

\* Mutant: the switch-off is reported with a note in the path.
ClosedUnderNote(d) ==
  [d EXCEPT !.power = "off", !.wanted = FALSE, !.disabling = FALSE,
            !.checkDisable = FALSE, !.closing = FALSE, !.timers = @ + 1]

\* processEnable(false) in the thread of the device: the switch-off succeeds
\* unless a note is in the path, and is reported by a timer.
Closed(d) ==
  IF d.path = "empty"
  THEN [d EXCEPT !.power = "off", !.wanted = FALSE, !.disabling = FALSE,
                 !.checkDisable = FALSE, !.closing = FALSE, !.timers = @ + 1]
  ELSE [d EXCEPT !.closing = FALSE]

\* A bill that is read or held is returned, if the device obeys in time.
AfterReturn(d, bill) ==
  IF bill /\ d.path \in {"accepting", "escrow"}
  THEN {[d EXCEPT !.path = "empty", !.note = 0], [d EXCEPT !.path = "escrow"]}
  ELSE {d}

\* setEnable(false): the device, and whether Disabled is reported at once. The
\* switch-off waits for a note that cannot be returned; otherwise it is made
\* here, or queued for the thread of the device.
SwitchedOff(d, bill, ownThread) ==
  IF ~IsEnabled(d)
  THEN {[dev |-> [Unprocessed(d) EXCEPT !.wanted = FALSE, !.checkDisable = FALSE],
         sent |-> TRUE]}
  ELSE IF d.closing /\ ~d.checkDisable
  THEN {[dev |-> [Unprocessed(d) EXCEPT !.disabling = TRUE], sent |-> FALSE]}
  ELSE {[dev |-> LET r == [Unprocessed(e) EXCEPT !.disabling = TRUE] IN
                 IF ~CanDisable(e) /\ ~e.checkDisable
                 THEN [r EXCEPT !.checkDisable = TRUE]
                 ELSE IF ownThread THEN Closed(r) ELSE [r EXCEPT !.closing = TRUE],
         sent |-> FALSE] : e \in AfterReturn(d, bill)}

\* Mutant: the deferred switch-off is forgotten.
PollForgetsDeferred(d) == ~d.checkDisable /\ ~d.err /\ d.disabling /\ (d.wanted \/ IsEnabled(d))

\* postPollingAction() has a switch-off to do, or one to correct.
PollSwitchesOff(d) ==
  \/ d.checkDisable /\ CanDisable(d)
  \/ ~d.checkDisable /\ ~d.err /\ d.disabling /\ (d.wanted \/ IsEnabled(d))

\* postPollingAction() finds the device off that should be on.
PollSwitchesOn(d) ==
  /\ ~d.checkDisable /\ ~d.err /\ ~d.disabling
  /\ \/ d.wanted /\ ~IsEnabled(d)
     \/ (~d.wanted \/ ~IsEnabled(d)) /\ d.enabling

\* stack(): refused while a switch-off is pending, void without a held note.
Stacking(d) == IF d.path = "escrow" /\ ~d.checkDisable
               THEN [d EXCEPT !.path = "stacking"] ELSE d

\* reject()
Rejecting(d) == IF d.path = "escrow" THEN [d EXCEPT !.path = "empty", !.note = 0] ELSE d

=============================================================================
