--------------------------- MODULE MCClaimWindow ---------------------------
(* Small instances of ClaimWindow. *)
EXTENDS ClaimWindow, TLC

CONSTANTS b1, b2, r1

\* A unit returned by a declined payment; Redis failing; a sale of two; a show
\* rate that moves; a reset of the control state under way.
MCSales == {[units |-> 1, declines |-> 1, failures |-> 0, phats |-> {100}, faults |-> {}],
            [units |-> 1, declines |-> 0, failures |-> 1, phats |-> {100}, faults |-> {"redis_down"}],
            [units |-> 2, declines |-> 0, failures |-> 0, phats |-> {100}, faults |-> {}],
            [units |-> 1, declines |-> 0, failures |-> 0, phats |-> {50, 100}, faults |-> {}],
            [units |-> 1, declines |-> 0, failures |-> 0, phats |-> {100}, faults |-> {"reset"}]}

=============================================================================
