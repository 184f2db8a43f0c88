-------------------------- MODULE MCAdmissionDoor --------------------------
(* Small instances of AdmissionDoor: requests that share one token. *)
EXTENDS AdmissionDoor, TLC

CONSTANTS r1, r2, r3, r4, k1, k2, t1, u1, u2

\* r1 and its client retry r2 share a key; r3 is somebody else who was given
\* the same token, r4 a buyer without one.
Keyed  == r1 :> k1 @@ r2 :> k1 @@ r3 :> NoKey @@ r4 :> k2
Shared == r1 :> t1 @@ r2 :> t1 @@ r3 :> t1 @@ r4 :> NoToken
Buyer  == r1 :> u1 @@ r2 :> u1 @@ r3 :> u2 @@ r4 :> u1

=============================================================================
