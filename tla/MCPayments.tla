----------------------------- MODULE MCPayments -----------------------------
(* Small instances of Payments. *)
EXTENDS Payments, TLC

CONSTANTS o1, o2, c1, c2, h1, h2

=============================================================================
