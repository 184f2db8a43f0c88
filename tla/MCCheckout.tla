----------------------------- MODULE MCCheckout -----------------------------
(* A small instance of Checkout for TLC. *)
EXTENDS Checkout

CONSTANTS r1, r2, r3

=============================================================================
