------------------------------ MODULE MCPayouts -----------------------------
(* The payouts of the operator's service with model values for the notes.     *)
EXTENDS Payouts
=============================================================================
