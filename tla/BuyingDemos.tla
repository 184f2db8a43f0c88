---------------------------- MODULE BuyingDemos ----------------------------
(***************************************************************************)
(* The races of app/demos: threads that buy the last units of one sale     *)
(* without a lock (demo_1), under FOR UPDATE (demo_2), against a version    *)
(* (demo_3), against a Redis counter (demo_4); demo_5 runs the same workers *)
(* one strategy after the other.  An arm is one such race.                 *)
(***************************************************************************)
EXTENDS Integers, FiniteSets

CONSTANTS Threads,
          DemoStock,   \* units on sale
          MaxRetries,  \* of an optimistic buyer
          Arms,        \* the races to run
          NoThread

\* A conflict means that somebody else has bought: more attempts than units.
ASSUME BuyingDemosAssumption ==
    /\ IsFiniteSet(Threads) /\ NoThread \notin Threads
    /\ DemoStock \in Nat /\ MaxRetries \in Nat /\ MaxRetries > DemoStock
    /\ Arms \subseteq [strategy : {"naive", "pessimistic", "optimistic", "redis"},
                       check : BOOLEAN,     \* is ck_inventory_no_oversell there
                       insertFails : BOOLEAN]

VARIABLES arm,
          reserved, version, counter,  \* the row and the Redis counter
          orders,                      \* buyers with an order
          rowLock,                     \* who holds the row
          at,                          \* where a buyer is
          seen,                        \* the row as a buyer has read it
          retries

buyingVars == <<arm, reserved, version, counter, orders, rowLock, at, seen, retries>>

Ended == {"confirmed", "rejected", "refused", "failed"}

BuyingTypeOK ==
    /\ arm \in Arms
    /\ reserved \in Nat /\ version \in Nat /\ counter \in Int
    /\ orders \subseteq Threads /\ rowLock \in Threads \cup {NoThread}
    /\ at \in [Threads -> {"start", "thinking", "bounce", "insert", "undo"} \cup Ended]
    /\ seen \in [Threads -> [reserved : Nat, version : Nat]]
    /\ retries \in [Threads -> 0..MaxRetries]

\* reset: the row, the orders and the counter start over.
BuyingInit ==
    /\ arm \in Arms
    /\ reserved = 0 /\ version = 0 /\ counter = DemoStock
    /\ orders = {} /\ rowLock = NoThread
    /\ at = [t \in Threads |-> "start"]
    /\ seen = [t \in Threads |-> [reserved |-> 0, version |-> 0]]
    /\ retries = [t \in Threads |-> 0]

Sells(t) == orders' = orders \cup {t}
GoesTo(t, s) == at' = [at EXCEPT ![t] = s]
ReadsRow(t) == seen' = [seen EXCEPT ![t] = [reserved |-> reserved, version |-> version]]
SawStock(t) == seen[t].reserved < DemoStock

\* naive_checkout: the sleep between the check and the act.
NaiveRead(t) ==
    /\ arm.strategy = "naive" /\ at[t] = "start"
    /\ ReadsRow(t)
    /\ GoesTo(t, "thinking")
    /\ UNCHANGED <<reserved, version, counter, orders, rowLock, retries>>

Permitted == arm.check => reserved + 1 <= DemoStock

NaiveWrite(t) ==
    /\ arm.strategy = "naive" /\ at[t] = "thinking"
    /\ \/ /\ SawStock(t) /\ Permitted
          /\ reserved' = reserved + 1
          /\ Sells(t)
          /\ GoesTo(t, "confirmed")
       \/ /\ SawStock(t) /\ ~Permitted
          /\ GoesTo(t, "refused")
          /\ UNCHANGED <<reserved, orders>>
       \/ /\ ~SawStock(t)
          /\ GoesTo(t, "rejected")
          /\ UNCHANGED <<reserved, orders>>
    /\ UNCHANGED <<version, counter, rowLock, seen, retries>>

\* pessimistic_checkout: the row stays locked from the check to the commit.
ForUpdate(t) ==
    /\ arm.strategy = "pessimistic" /\ at[t] = "start"
    /\ rowLock = NoThread
    /\ rowLock' = t
    /\ ReadsRow(t)
    /\ GoesTo(t, "thinking")
    /\ UNCHANGED <<reserved, version, counter, orders, retries>>

LockedWrite(t) ==
    /\ arm.strategy = "pessimistic" /\ at[t] = "thinking"
    /\ IF SawStock(t)
       THEN reserved' = reserved + 1 /\ Sells(t) /\ GoesTo(t, "confirmed")
       ELSE GoesTo(t, "rejected") /\ UNCHANGED <<reserved, orders>>
    /\ rowLock' = NoThread
    /\ UNCHANGED <<version, counter, seen, retries>>

\* optimistic_checkout
VersionedRead(t) ==
    /\ arm.strategy = "optimistic" /\ at[t] = "start"
    /\ ReadsRow(t)
    /\ GoesTo(t, "thinking")
    /\ UNCHANGED <<reserved, version, counter, orders, rowLock, retries>>

AnyVersion(t)  == TRUE
SameVersion(t) == version = seen[t].version

VersionedWrite(t) ==
    /\ arm.strategy = "optimistic" /\ at[t] = "thinking"
    /\ \/ /\ SawStock(t) /\ SameVersion(t)
          /\ reserved' = reserved + 1 /\ version' = version + 1
          /\ Sells(t)
          /\ GoesTo(t, "confirmed")
          /\ UNCHANGED retries
       \/ /\ SawStock(t) /\ ~SameVersion(t)
          /\ retries' = [retries EXCEPT ![t] = @ + 1]
          /\ GoesTo(t, IF retries[t] + 1 < MaxRetries THEN "start" ELSE "failed")
          /\ UNCHANGED <<reserved, version, orders>>
       \/ /\ ~SawStock(t)
          /\ GoesTo(t, "rejected")
          /\ UNCHANGED <<reserved, version, orders, retries>>
    /\ UNCHANGED <<counter, rowLock, seen>>

\* redis_checkout
Decrements(t) ==
    /\ arm.strategy = "redis" /\ at[t] = "start"
    /\ counter' = counter - 1
    /\ GoesTo(t, IF counter - 1 < 0 THEN "bounce" ELSE "insert")
    /\ UNCHANGED <<reserved, version, orders, rowLock, seen, retries>>

InsertsOrder(t) ==
    /\ arm.strategy = "redis" /\ at[t] = "insert"
    /\ \/ Sells(t) /\ GoesTo(t, "confirmed")
       \/ arm.insertFails /\ GoesTo(t, "undo") /\ UNCHANGED orders
    /\ UNCHANGED <<reserved, version, counter, rowLock, seen, retries>>

\* A sold-out buyer and a failed insert both give the unit back.
GivesBack(t) ==
    /\ at[t] \in {"bounce", "undo"}
    /\ counter' = counter + 1
    /\ GoesTo(t, IF at[t] = "bounce" THEN "rejected" ELSE "failed")
    /\ UNCHANGED <<reserved, version, orders, rowLock, seen, retries>>

BuyingStep(t) ==
    \/ NaiveRead(t) \/ NaiveWrite(t)
    \/ ForUpdate(t) \/ LockedWrite(t)
    \/ VersionedRead(t) \/ VersionedWrite(t)
    \/ Decrements(t) \/ InsertsOrder(t) \/ GivesBack(t)

\* The workers of a race start together and are all joined.
BuyingNext == (\E t \in Threads : BuyingStep(t)) /\ UNCHANGED arm

BuyingSpec == BuyingInit /\ [][BuyingNext]_buyingVars

-----------------------------------------------------------------------------
(* Properties *)

\* run_strategy's tally
Confirmed == Cardinality({t \in Threads : at[t] = "confirmed"})
AllJoined == \A t \in Threads : at[t] \in Ended

\* Every strategy but the naive one without the CHECK sells exactly what there
\* is: nobody oversells, no optimistic buyer runs out of retries, and a race
\* without failing inserts leaves no unit unsold that somebody still wanted.
\* The Redis counter ends where the orders say.
ArmsAreExact ==
    /\ arm.strategy # "naive" \/ arm.check => Cardinality(orders) <= DemoStock
    /\ AllJoined =>
          /\ arm.strategy = "redis" => counter = DemoStock - Cardinality(orders)
          /\ (arm.strategy # "naive" \/ arm.check) /\ ~arm.insertFails =>
                /\ Confirmed = IF Cardinality(Threads) < DemoStock
                               THEN Cardinality(Threads) ELSE DemoStock
                /\ Cardinality(orders) = Confirmed
          /\ arm.strategy \notin {"redis"} => \A t \in Threads : at[t] # "failed"

=============================================================================
