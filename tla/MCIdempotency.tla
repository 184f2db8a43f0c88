--------------------------- MODULE MCIdempotency ---------------------------
(* Small instances of Idempotency: duplicates of one tap. *)
EXTENDS Idempotency, TLC

CONSTANTS r1, r2, r3, r4, k1

\* Three taps with one key, and a request that carries none.
Taps == r1 :> k1 @@ r2 :> k1 @@ r3 :> k1 @@ r4 :> NoKey

\* The three taps alone.
ThreeTaps == r1 :> k1 @@ r2 :> k1 @@ r3 :> k1

=============================================================================
