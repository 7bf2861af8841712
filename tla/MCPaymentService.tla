-------------------------- MODULE MCPaymentService --------------------------
(* The deposit service with model values for its notes.  Payments are alike, *)
(* and every property checked is an invariant.                               *)
EXTENDS PaymentService, TLC

PaymentSymmetry == Permutations(Payments)
=============================================================================
