------------------------------- MODULE MCGate -------------------------------
(* Small instances of Gate: three requests at one replica, one at another. *)
EXTENDS Gate, TLC

CONSTANTS r1, r2, r3, r4, p1, p2

MCHome == r1 :> p1 @@ r2 :> p1 @@ r3 :> p2

=============================================================================
