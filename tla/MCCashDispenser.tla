--------------------------- MODULE MCCashDispenser ---------------------------
(* CashDispenser with a unit of twos and a unit of ones. *)
EXTENDS CashDispenser, TLC

CONSTANTS twos, ones

MCNominal == (twos :> 2) @@ (ones :> 1)
MCStock == (twos :> 2) @@ (ones :> 3)

=============================================================================
