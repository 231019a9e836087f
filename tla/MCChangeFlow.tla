----------------------------- MODULE MCChangeFlow -----------------------------
(* ChangeFlow with a payment that a note overfills and one that takes two. *)
EXTENDS ChangeFlow, TLC

CONSTANTS p1, p2

MCLimit == p1 :> 2 @@ p2 :> 3

\* The properties say nothing of what follows a mix-up.
NotMixedUp == ~mixedUp

=============================================================================
