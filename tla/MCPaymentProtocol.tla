-------------------------- MODULE MCPaymentProtocol --------------------------
(* PaymentProtocol on small instances. *)
EXTENDS PaymentProtocol, TLC

Symmetry == Permutations(Payments)

=============================================================================
