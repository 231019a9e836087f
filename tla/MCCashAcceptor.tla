---------------------------- MODULE MCCashAcceptor ----------------------------
(* CashAcceptor with payments of up to 2 and 3. *)
EXTENDS CashAcceptor, TLC

CONSTANTS a1, a2

MCLimit == [p \in 1..NumPayments |-> p + 1]
BillSymmetry == Permutations({a1, a2})

=============================================================================
