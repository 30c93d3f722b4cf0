------------------------------ MODULE MCPayments ------------------------------
(* A finite instance of Payments for TLC.                                  *)
EXTENDS Payments, TLC

\* Callback handlers are interchangeable.
Symmetry == Permutations(Handlers)
=============================================================================
