----------------------------- MODULE WoundWait -----------------------------
(***************************************************************************)
(* Part B of app/demos/demo_6_deadlock.py: wound-wait between transactions *)
(* that take the same locks in different orders.  A transaction's number is *)
(* its timestamp: the smaller the older.                                   *)
(***************************************************************************)
EXTENDS Naturals, FiniteSets, Sequences

CONSTANTS Txns,     \* timestamps
          Wants     \* the resources of a transaction, in its order

ASSUME WoundWaitAssumption ==
    /\ Txns \subseteq Nat \ {0} /\ IsFiniteSet(Txns) /\ Txns # {}
    /\ \A t \in Txns : Wants[t] \in Seq(UNION {{Wants[u][i] : i \in 1..Len(Wants[u])} : u \in Txns})

Resources == UNION {{Wants[u][i] : i \in 1..Len(Wants[u])} : u \in Txns}
Nobody == 0

VARIABLES lockHolder,    \* WoundWaitLock._holder
          wounded,   \* wounded_flags
          locksGot,       \* how many of its resources a transaction has acquired
          txnState      \* where wound_wait_worker is

woundVars == <<lockHolder, wounded, locksGot, txnState>>

WoundTypeOK ==
    /\ lockHolder \in [Resources -> Txns \cup {Nobody}]
    /\ wounded \subseteq Txns
    /\ locksGot \in [Txns -> Nat] /\ \A t \in Txns : locksGot[t] <= Len(Wants[t])
    /\ txnState \in [Txns -> {"ready", "acquiring", "completed", "aborted", "gone"}]

WoundInit ==
    /\ lockHolder = [r \in Resources |-> Nobody]
    /\ wounded = {}
    /\ locksGot = [t \in Txns |-> 0]
    /\ txnState = [t \in Txns |-> "ready"]

Wanted(t) == Wants[t][locksGot[t] + 1]
Becomes(t, s) == txnState' = [txnState EXCEPT ![t] = s]

\* The wound is noticed between two acquisitions.
CheckWounded(t) ==
    /\ txnState[t] = "ready"
    /\ Becomes(t, IF locksGot[t] = Len(Wants[t]) THEN "completed"
                  ELSE IF t \in wounded THEN "aborted" ELSE "acquiring")
    /\ UNCHANGED <<lockHolder, wounded, locksGot>>

TakeLock(t) ==
    /\ lockHolder' = [lockHolder EXCEPT ![Wanted(t)] = t]
    /\ locksGot' = [locksGot EXCEPT ![t] = @ + 1]
    /\ Becomes(t, "ready")

AcquireFree(t) ==
    /\ txnState[t] = "acquiring" /\ lockHolder[Wanted(t)] = Nobody
    /\ TakeLock(t)
    /\ UNCHANGED wounded

OlderWaitsToo(t) == FALSE
Older(t) == t < lockHolder[Wanted(t)]

\* An older transaction takes the lock and leaves a flag for its holder.
AcquireByWounding(t) ==
    /\ txnState[t] = "acquiring" /\ lockHolder[Wanted(t)] # Nobody
    /\ Older(t)
    /\ wounded' = wounded \cup {lockHolder[Wanted(t)]}
    /\ TakeLock(t)

\* A younger one polls, and notices there that it has been wounded.
AbortWaiting(t) ==
    /\ txnState[t] = "acquiring" /\ lockHolder[Wanted(t)] # Nobody
    /\ ~Older(t)
    /\ t \in wounded
    /\ Becomes(t, "aborted")
    /\ UNCHANGED <<lockHolder, wounded, locksGot>>

\* release, of what has not been taken away in the meantime.
ReleaseAll(t) ==
    /\ txnState[t] \in {"completed", "aborted"}
    /\ lockHolder' = [r \in Resources |-> IF lockHolder[r] = t THEN Nobody ELSE lockHolder[r]]
    /\ Becomes(t, "gone")
    /\ UNCHANGED <<wounded, locksGot>>

WoundStep(t) ==
    \/ CheckWounded(t)
    \/ AcquireFree(t) \/ AcquireByWounding(t) \/ AbortWaiting(t)
    \/ ReleaseAll(t)

WoundNext == \E t \in Txns : WoundStep(t)

WoundSpec == WoundInit /\ [][WoundNext]_woundVars

-----------------------------------------------------------------------------
(* Properties *)

\* A lock is lost to an older transaction only: the oldest is never wounded, gets
\* whatever it wants and does not abort.
Oldest(t) == \A u \in Txns : t <= u
OldestCompletes ==
    \A t \in Txns : Oldest(t) =>
        /\ t \notin wounded /\ txnState[t] # "aborted"
        /\ txnState[t] = "completed" => locksGot[t] = Len(Wants[t])
                                         /\ \A i \in 1..Len(Wants[t]) : lockHolder[Wants[t][i]] = t

\* No transaction waits for ever, whatever the orders: there is no cycle, and
\* whoever is in the way goes.
TxnsEnd ==
    /\ (\E t \in Txns : locksGot[t] > 0) ~> (\A t \in Txns : txnState[t] = "gone")
    /\ []OldestCompletes

=============================================================================
