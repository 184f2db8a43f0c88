--------------------------- MODULE MCWaitingRoom ---------------------------
(* Small instances of WaitingRoom. *)
EXTENDS WaitingRoom, TLC

CONSTANTS b1, b2, b3, w1, w2

=============================================================================
