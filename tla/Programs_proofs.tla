--------------------------- MODULE Programs_proofs ---------------------------
(***************************************************************************)
(* Proofs about the modules that stand for themselves: timestamp ordering  *)
(* with Thomas's write rule, the races of the buying demonstrations, the   *)
(* sale window, the adaptive window, the show estimator, wound-wait and    *)
(* the deadlock detector, for any number of transactions, threads, buyers  *)
(* and units; then about all of them side by side.                         *)
(***************************************************************************)
EXTENDS MCPrograms, FiniteSetTheorems, TLAPS

-----------------------------------------------------------------------------
(* Timestamp ordering *)

\* While the script runs the row shows the write that W-TS names; every write
\* that was applied or skipped is at most as young, and everybody who has read is
\* at most as young as R-TS.
RowIsNewest ==
    /\ ~stopped => writer = writeTs
    /\ writer <= writeTs
    /\ \A u \in applied : u <= writer
    /\ \A u \in skipped : u < writeTs
    /\ \A t \in Ts : saw[t] # {} => t <= readTs

ToInv == ToTypeOK /\ RowIsNewest /\ ReadsFollowTimestamps

LEMMA TsNat == MaxTs \in Nat /\ \A t \in Ts : t \in 1..MaxTs /\ t \in Nat
BY TimestampOrderingAssumption DEF Ts

LEMMA ToInitInv == ToInit => ToInv
<1> SUFFICES ASSUME ToInit PROVE ToInv
  OBVIOUS
<1>1. ToTypeOK
  <2>1. stopped \in BOOLEAN
    BY Zenon DEF ToInit
  <2>2. saw \in [Ts -> SUBSET (0..MaxTs)]
    BY Zenon DEF ToInit
  <2>3. 0 \in 0..MaxTs
    BY TsNat
  <2> QED BY <2>1, <2>2, <2>3 DEF ToInit, ToTypeOK
<1>2. \A t \in Ts : saw[t] = {}
  BY DEF ToInit
<1>3. RowIsNewest
  BY <1>2 DEF ToInit, RowIsNewest
<1>4. ReadsFollowTimestamps
  BY <1>2 DEF ReadsFollowTimestamps
<1> QED BY <1>1, <1>3, <1>4 DEF ToInv

\* A read shows the youngest write there is, and nobody younger has written.
LEMMA ReadKeeps ==
    ASSUME ToInv, NEW t \in Ts, ToRead(t)
    PROVE  ToInv'
<1>1. readTs' \in 0..MaxTs /\ t <= readTs' /\ readTs <= readTs'
  BY TsNat DEF ToInv, ToTypeOK, ToRead, Later, Ts
<1>2. saw' \in [Ts -> SUBSET (0..MaxTs)]
  BY TsNat DEF ToInv, ToTypeOK, ToRead
<1>3. \A v \in Ts : saw'[v] = IF v = t THEN saw[t] \cup {writer} ELSE saw[v]
  BY DEF ToInv, ToTypeOK, ToRead
<1>4. writer = writeTs /\ writer <= t
  BY DEF ToInv, RowIsNewest, ToRead
<1>5. ToTypeOK'
  BY <1>1, <1>2 DEF ToInv, ToTypeOK, ToRead
<1>6. RowIsNewest'
  BY <1>1, <1>3, TsNat DEF ToInv, ToTypeOK, RowIsNewest, ToRead
<1>7. ReadsFollowTimestamps'
  <2> SUFFICES ASSUME NEW v \in Ts, NEW w \in saw'[v]
               PROVE  w <= v /\ \A u \in applied \cup skipped : u <= w \/ u >= v
    BY DEF ReadsFollowTimestamps, ToRead
  <2>1. CASE w \in saw[v]
    BY <2>1 DEF ToInv, ReadsFollowTimestamps
  <2>2. CASE w \notin saw[v]
    <3>1. v = t /\ w = writer
      BY <2>2, <1>3
    <3>2. \A u \in applied \cup skipped : u <= writer
      BY <1>4, TsNat DEF ToInv, ToTypeOK, RowIsNewest
    <3> QED BY <3>1, <3>2, <1>4
  <2> QED BY <2>1, <2>2
<1> QED BY <1>5, <1>6, <1>7 DEF ToInv

\* A write is at least as young as every reader, so no read has missed it.
LEMMA WriteKeeps ==
    ASSUME ToInv, NEW t \in Ts, ToWrite(t)
    PROVE  ToInv'
<1>0. /\ writeTs' = t /\ readTs <= t /\ writeTs <= t
      /\ UNCHANGED <<thomas, readTs, skipped, saw>>
      /\ \/ applied' = applied \cup {t} /\ writer' = t /\ stopped' = stopped
         \/ applied' = applied /\ writer' = writer /\ stopped' = TRUE
  BY TsNat DEF ToInv, ToTypeOK, ToWrite, NotReadLater
<1>1. ToTypeOK'
  <2>1. stopped' \in BOOLEAN
    BY <1>0, Zenon DEF ToInv, ToTypeOK
  <2>2. t \in 0..MaxTs
    BY TsNat
  <2>3. writeTs' \in 0..MaxTs /\ writer' \in 0..MaxTs /\ applied' \subseteq Ts
    BY <1>0, <2>2 DEF ToInv, ToTypeOK
  <2> QED BY <1>0, <2>1, <2>3 DEF ToInv, ToTypeOK
<1>2. RowIsNewest'
  BY <1>0, TsNat DEF ToInv, ToTypeOK, RowIsNewest, ToWrite
<1>3. ReadsFollowTimestamps'
  <2>0. saw' = saw /\ skipped' = skipped
    BY <1>0
  <2> SUFFICES ASSUME NEW v \in Ts, NEW w \in saw[v]
               PROVE  w <= v /\ \A u \in applied' \cup skipped : u <= w \/ u >= v
    BY <2>0 DEF ReadsFollowTimestamps
  <2> SUFFICES ASSUME NEW u \in applied' \cup skipped
               PROVE  w <= v /\ (u <= w \/ u >= v)
    BY DEF ToInv, ReadsFollowTimestamps
  <2>1. w <= v /\ v <= readTs
    BY DEF ToInv, RowIsNewest, ReadsFollowTimestamps
  <2>2. CASE u \in applied \cup skipped
    BY <2>2 DEF ToInv, ReadsFollowTimestamps
  <2>3. CASE u = t
    BY <2>1, <2>3, <1>0, TsNat DEF ToInv, ToTypeOK
  <2> QED BY <2>2, <2>3, <2>1, <1>0
<1> QED BY <1>1, <1>2, <1>3 DEF ToInv

LEMMA SkipKeeps ==
    ASSUME ToInv, NEW t \in Ts, ToSkip(t)
    PROVE  ToInv'
<1>1. ToTypeOK'
  BY DEF ToInv, ToTypeOK, ToSkip
<1>2. RowIsNewest'
  BY DEF ToInv, RowIsNewest, ToSkip
<1>3. ReadsFollowTimestamps'
  <2> SUFFICES ASSUME NEW v \in Ts, NEW w \in saw[v], NEW u \in applied \cup skipped'
               PROVE  w <= v /\ (u <= w \/ u >= v)
    BY DEF ReadsFollowTimestamps, ToSkip
  <2>1. w <= v /\ v <= readTs
    BY DEF ToInv, RowIsNewest, ReadsFollowTimestamps
  <2>2. CASE u \in applied \cup skipped
    BY <2>2 DEF ToInv, ReadsFollowTimestamps
  <2>3. CASE u = t
    BY <2>1, <2>3, TsNat DEF ToInv, ToTypeOK, ToSkip, NotReadLater
  <2> QED BY <2>1, <2>2, <2>3 DEF ToSkip
<1> QED BY <1>1, <1>2, <1>3 DEF ToInv

LEMMA ToStepKeeps == ToInv /\ [ToNext]_toVars => ToInv'
<1> SUFFICES ASSUME ToInv, [ToNext]_toVars PROVE ToInv'
  OBVIOUS
<1>1. CASE UNCHANGED toVars
  BY <1>1 DEF toVars, ToInv, ToTypeOK, RowIsNewest, ReadsFollowTimestamps
<1>2. CASE ToNext
  BY <1>2, ReadKeeps, WriteKeeps, SkipKeeps DEF ToNext
<1> QED BY <1>1, <1>2

\* Every read that to_read allows (app/demos/demo_9_timestamp_ordering.py) shows
\* the youngest write that is not younger than the reader, whatever arrives late.
THEOREM SerialInTimestampOrder == ToSpec => []ReadsFollowTimestamps
<1>1. ToInv => ReadsFollowTimestamps
  BY DEF ToInv
<1> QED BY ToInitInv, ToStepKeeps, <1>1, PTL DEF ToSpec

-----------------------------------------------------------------------------
(* The races of the buying demonstrations *)

\* An arm that keeps the stock: all but the naive one without the CHECK.
Keeping == arm.strategy # "naive" \/ arm.check

\* Buyers with a unit, and those who have decremented the Redis counter.
WithUnit    == {t \in Threads : at[t] \in {"confirmed", "insert", "undo"}}
Decremented == {t \in Threads : at[t] \in {"confirmed", "insert", "undo", "bounce"}}

SpotsOf(strategy) ==
    CASE strategy = "naive"       -> {"start", "thinking", "confirmed", "rejected", "refused"}
      [] strategy = "pessimistic" -> {"start", "thinking", "confirmed", "rejected"}
      [] strategy = "optimistic"  -> {"start", "thinking", "confirmed", "rejected"}
      [] strategy = "redis"       -> {"start", "bounce", "insert", "undo", "confirmed",
                                      "rejected", "failed"}

\* A buyer stays on the path of its strategy; an order is a confirmed buyer.
OnTheirPath ==
    /\ \A t \in Threads : at[t] \in SpotsOf(arm.strategy)
    /\ orders = {t \in Threads : at[t] = "confirmed"}
    /\ ~arm.insertFails => \A t \in Threads : at[t] \notin {"undo", "failed"}

\* The row counts the orders, and nobody has seen more of them than there are.
RowCounts ==
    arm.strategy # "redis" =>
        /\ reserved = Cardinality(orders)
        /\ \A t \in Threads : seen[t].reserved <= reserved

\* The one that thinks under the lock has seen the row as it is.
LockHolds ==
    arm.strategy = "pessimistic" =>
        \A t \in Threads : at[t] = "thinking" => rowLock = t /\ seen[t].reserved = reserved

\* The version counts the sales, and a buyer has been outrun at most that often.
VersionCounts ==
    arm.strategy = "optimistic" =>
        /\ version = reserved
        /\ \A t \in Threads :
              /\ seen[t].version = seen[t].reserved
              /\ at[t] = "start" => retries[t] <= version
              /\ at[t] = "thinking" => retries[t] <= seen[t].version

\* The Redis counter is the stock less the buyers that have not given back.
CounterCounts ==
    arm.strategy = "redis" => counter = DemoStock - Cardinality(Decremented)

\* No more units are taken than there are, and who is turned away without a
\* failing insert is turned away because all of them are taken.
TakenIsRight ==
    /\ Keeping => Cardinality(WithUnit) <= DemoStock
    /\ arm.strategy = "redis" /\ ~arm.insertFails =>
          \A t \in Threads : at[t] \in {"bounce", "rejected"} => Cardinality(WithUnit) >= DemoStock
    /\ arm.strategy # "redis" =>
          \A t \in Threads : at[t] \in {"rejected", "refused"} => Cardinality(WithUnit) >= DemoStock

BuyingInv ==
    /\ BuyingTypeOK
    /\ OnTheirPath
    /\ RowCounts
    /\ LockHolds
    /\ VersionCounts
    /\ CounterCounts
    /\ TakenIsRight

LEMMA ArmKinds ==
    ASSUME BuyingTypeOK
    PROVE  /\ arm.strategy \in {"naive", "pessimistic", "optimistic", "redis"}
           /\ arm.check \in BOOLEAN /\ arm.insertFails \in BOOLEAN
           /\ DemoStock \in Nat /\ MaxRetries \in Nat /\ DemoStock < MaxRetries
BY BuyingDemosAssumption DEF BuyingTypeOK

\* Buyers at some places are finitely many, and orders are some of the threads.
LEMMA BuyersFinite ==
    ASSUME NEW S \in SUBSET Threads
    PROVE  IsFiniteSet(S) /\ Cardinality(S) \in Nat
BY FS_Subset, FS_CardinalityType, BuyingDemosAssumption

\* Where everybody is after one buyer has moved.
LEMMA Moves ==
    ASSUME BuyingTypeOK, NEW t \in Threads,
           NEW s \in {"start", "thinking", "bounce", "insert", "undo"} \cup Ended,
           GoesTo(t, s)
    PROVE  /\ at' \in [Threads -> {"start", "thinking", "bounce", "insert", "undo"} \cup Ended]
           /\ \A u \in Threads : at'[u] = IF u = t THEN s ELSE at[u]
BY DEF BuyingTypeOK, GoesTo

\* How many buyers are at some places after one of them has moved.
LEMMA CountMoves ==
    ASSUME NEW C \in SUBSET Threads, NEW D \in SUBSET Threads, NEW t \in Threads,
           \A u \in Threads \ {t} : u \in C <=> u \in D
    PROVE  /\ t \in C /\ t \in D => D = C
           /\ t \notin C /\ t \notin D => D = C
           /\ t \notin C /\ t \in D => Cardinality(D) = Cardinality(C) + 1
           /\ t \in C /\ t \notin D => Cardinality(C) = Cardinality(D) + 1
<1>1. /\ (t \in C <=> t \in D) => D = C
      /\ t \notin C /\ t \in D => D = C \cup {t}
      /\ t \in C /\ t \notin D => C = D \cup {t}
  OBVIOUS
<1>2. ASSUME t \notin C PROVE Cardinality(C \cup {t}) = Cardinality(C) + 1
  BY <1>2, BuyersFinite, FS_AddElement
<1>3. ASSUME t \notin D PROVE Cardinality(D \cup {t}) = Cardinality(D) + 1
  BY <1>3, BuyersFinite, FS_AddElement
<1> QED BY <1>1, <1>2, <1>3

\* The two counts of the invariant, after one buyer has moved.
LEMMA UnitsMove ==
    ASSUME BuyingTypeOK, NEW t \in Threads,
           NEW s \in {"start", "thinking", "bounce", "insert", "undo"} \cup Ended,
           GoesTo(t, s)
    PROVE  /\ Cardinality(WithUnit) \in Nat /\ Cardinality(WithUnit') \in Nat
           /\ Cardinality(Decremented) \in Nat /\ Cardinality(Decremented') \in Nat
           /\ Cardinality(WithUnit) <= Cardinality(Decremented)
           /\ LET T == {"confirmed", "insert", "undo"}
                  D == {"confirmed", "insert", "undo", "bounce"}
              IN /\ (at[t] \in T <=> s \in T) => Cardinality(WithUnit') = Cardinality(WithUnit)
                 /\ at[t] \notin T /\ s \in T =>
                        Cardinality(WithUnit') = Cardinality(WithUnit) + 1
                 /\ (at[t] \in D <=> s \in D) =>
                        Cardinality(Decremented') = Cardinality(Decremented)
                 /\ at[t] \notin D /\ s \in D =>
                        Cardinality(Decremented') = Cardinality(Decremented) + 1
                 /\ at[t] \in D /\ s \notin D =>
                        Cardinality(Decremented) = Cardinality(Decremented') + 1
<1>1. \A u \in Threads : at'[u] = IF u = t THEN s ELSE at[u]
  BY Moves
<1>2. WithUnit \in SUBSET Threads /\ WithUnit' \in SUBSET Threads
      /\ Decremented \in SUBSET Threads /\ Decremented' \in SUBSET Threads
  BY DEF WithUnit, Decremented
<1>3. \A u \in Threads \ {t} : (u \in WithUnit <=> u \in WithUnit')
                               /\ (u \in Decremented <=> u \in Decremented')
  BY <1>1 DEF WithUnit, Decremented
<1>4. /\ t \in WithUnit <=> at[t] \in {"confirmed", "insert", "undo"}
      /\ t \in WithUnit' <=> s \in {"confirmed", "insert", "undo"}
      /\ t \in Decremented <=> at[t] \in {"confirmed", "insert", "undo", "bounce"}
      /\ t \in Decremented' <=> s \in {"confirmed", "insert", "undo", "bounce"}
  BY <1>1 DEF WithUnit, Decremented
<1>5. /\ t \in WithUnit /\ t \in WithUnit' => WithUnit' = WithUnit
      /\ t \notin WithUnit /\ t \notin WithUnit' => WithUnit' = WithUnit
      /\ t \notin WithUnit /\ t \in WithUnit' =>
             Cardinality(WithUnit') = Cardinality(WithUnit) + 1
  BY <1>2, <1>3, CountMoves
<1>6. /\ t \in Decremented /\ t \in Decremented' => Decremented' = Decremented
      /\ t \notin Decremented /\ t \notin Decremented' => Decremented' = Decremented
      /\ t \notin Decremented /\ t \in Decremented' =>
             Cardinality(Decremented') = Cardinality(Decremented) + 1
      /\ t \in Decremented /\ t \notin Decremented' =>
             Cardinality(Decremented) = Cardinality(Decremented') + 1
  BY <1>2, <1>3, CountMoves
<1>7. WithUnit \subseteq Decremented
  BY DEF WithUnit, Decremented
<1>8. Cardinality(WithUnit) <= Cardinality(Decremented)
  BY <1>2, <1>7, BuyersFinite, FS_Subset
<1>9. Cardinality(WithUnit) \in Nat /\ Cardinality(WithUnit') \in Nat
      /\ Cardinality(Decremented) \in Nat /\ Cardinality(Decremented') \in Nat
  BY <1>2, BuyersFinite
<1> HIDE DEF WithUnit, Decremented
<1> QED BY <1>4, <1>5, <1>6, <1>8, <1>9

\* Where the row counts, a unit that is taken is an order.
LEMMA UnitsAreOrders ==
    ASSUME BuyingTypeOK, OnTheirPath
    PROVE  arm.strategy # "redis" => WithUnit = orders
<1>1. ASSUME arm.strategy # "redis", NEW t \in Threads
      PROVE  at[t] \notin {"insert", "undo"}
  BY <1>1, ArmKinds DEF OnTheirPath, SpotsOf
<1> QED BY <1>1 DEF WithUnit, OnTheirPath

LEMMA InitBuyingInv == BuyingInit => BuyingInv
<1> SUFFICES ASSUME BuyingInit PROVE BuyingInv
  OBVIOUS
<1>1. BuyingTypeOK
  BY BuyingDemosAssumption DEF BuyingInit, BuyingTypeOK
<1>2. WithUnit = {} /\ Decremented = {} /\ orders = {}
  BY DEF BuyingInit, WithUnit, Decremented
<1>3. Cardinality({}) = 0
  BY FS_EmptySet
<1>4. OnTheirPath
  BY <1>1, ArmKinds DEF BuyingInit, OnTheirPath, SpotsOf
<1>5. RowCounts /\ LockHolds /\ VersionCounts
  BY <1>2, <1>3 DEF BuyingInit, RowCounts, LockHolds, VersionCounts
<1>6. CounterCounts /\ TakenIsRight
  BY <1>1, <1>2, <1>3, ArmKinds DEF BuyingInit, CounterCounts, TakenIsRight
<1> QED BY <1>1, <1>4, <1>5, <1>6 DEF BuyingInv

\* Whatever a buyer does, the orders stay the confirmed ones.
LEMMA PathsKept ==
    ASSUME BuyingTypeOK, OnTheirPath, UNCHANGED arm, NEW t \in Threads,
           NEW s \in SpotsOf(arm.strategy),
           s \in {"start", "thinking", "bounce", "insert", "undo"} \cup Ended,
           GoesTo(t, s),
           at[t] # "confirmed",
           orders' = IF s = "confirmed" THEN orders \cup {t} ELSE orders,
           ~arm.insertFails => s \notin {"undo", "failed"}
    PROVE  OnTheirPath'
<1>1. \A u \in Threads : at'[u] = IF u = t THEN s ELSE at[u]
  BY Moves
<1>2. orders' = {u \in Threads : at'[u] = "confirmed"}
  BY <1>1 DEF OnTheirPath
<1> QED BY <1>1, <1>2 DEF OnTheirPath

\* The part of the invariant that all strategies on the row share.
RowInv == BuyingTypeOK /\ OnTheirPath /\ RowCounts /\ CounterCounts /\ TakenIsRight

\* A buyer that reads the row moves nothing else.
LEMMA ReadsKeep ==
    ASSUME BuyingInv, NEW t \in Threads, arm.strategy # "redis", at[t] = "start",
           ReadsRow(t), GoesTo(t, "thinking"), rowLock' \in Threads \cup {NoThread},
           UNCHANGED <<arm, reserved, version, counter, orders, retries>>
    PROVE  /\ RowInv'
           /\ \A u \in Threads : at'[u] = IF u = t THEN "thinking" ELSE at[u]
           /\ \A u \in Threads : seen'[u] =
                 IF u = t THEN [reserved |-> reserved, version |-> version] ELSE seen[u]
<1>a. BuyingTypeOK /\ OnTheirPath
  BY DEF BuyingInv
<1>1. \A u \in Threads : at'[u] = IF u = t THEN "thinking" ELSE at[u]
  BY <1>a, Moves
<1>2. \A u \in Threads : seen'[u] =
          IF u = t THEN [reserved |-> reserved, version |-> version] ELSE seen[u]
  BY <1>a DEF BuyingTypeOK, ReadsRow
<1>3. BuyingTypeOK'
  <2>1. at' \in [Threads -> {"start", "thinking", "bounce", "insert", "undo"} \cup Ended]
    BY <1>a, Moves
  <2>2. seen' \in [Threads -> [reserved : Nat, version : Nat]]
    BY <1>a DEF BuyingTypeOK, ReadsRow
  <2> QED BY <1>a, <2>1, <2>2 DEF BuyingTypeOK
<1>4. OnTheirPath'
  BY <1>a, PathsKept, ArmKinds DEF SpotsOf
<1>5. RowCounts'
  BY <1>2 DEF BuyingInv, BuyingTypeOK, RowCounts
<1>6. Cardinality(WithUnit') = Cardinality(WithUnit)
  BY <1>a, UnitsMove
<1>7. TakenIsRight'
  BY <1>1, <1>6 DEF BuyingInv, TakenIsRight, Keeping
<1>8. CounterCounts'
  BY DEF CounterCounts
<1> QED BY <1>1, <1>2, <1>3, <1>4, <1>5, <1>7, <1>8 DEF RowInv

\* A sale of a unit that was there.
LEMMA SaleKeeps ==
    ASSUME BuyingInv, NEW t \in Threads, arm.strategy # "redis", at[t] = "thinking",
           Sells(t), GoesTo(t, "confirmed"), reserved' = reserved + 1,
           Keeping => reserved + 1 <= DemoStock,
           version' \in Nat, rowLock' \in Threads \cup {NoThread},
           UNCHANGED <<arm, counter, seen, retries>>
    PROVE  /\ RowInv'
           /\ \A u \in Threads : at'[u] = IF u = t THEN "confirmed" ELSE at[u]
<1>a. BuyingTypeOK /\ OnTheirPath /\ reserved = Cardinality(orders)
      /\ reserved \in Nat /\ DemoStock \in Nat
  BY ArmKinds DEF BuyingInv, RowCounts, BuyingTypeOK
<1>b. WithUnit = orders
  BY <1>a, UnitsAreOrders
<1>1. \A u \in Threads : at'[u] = IF u = t THEN "confirmed" ELSE at[u]
  BY <1>a, Moves DEF Ended
<1>2. at' \in [Threads -> {"start", "thinking", "bounce", "insert", "undo"} \cup Ended]
  BY <1>a, Moves DEF Ended
<1>3. BuyingTypeOK'
  BY <1>a, <1>2 DEF BuyingTypeOK, Sells
<1>4. OnTheirPath'
  BY <1>a, PathsKept, ArmKinds DEF SpotsOf, Ended, Sells
<1>5. WithUnit' = orders'
  <2>1. (BuyingTypeOK /\ OnTheirPath)' => (arm.strategy # "redis" => WithUnit = orders)'
    BY UnitsAreOrders, PTL
  <2> QED BY <1>3, <1>4, <2>1
<1>6. Cardinality(WithUnit') = Cardinality(WithUnit) + 1
  BY <1>a, UnitsMove DEF Ended
<1>7. RowCounts'
  BY <1>a, <1>b, <1>5, <1>6 DEF BuyingInv, RowCounts, BuyingTypeOK
<1>8. TakenIsRight'
  <2>1. Keeping' => Cardinality(WithUnit') <= DemoStock
    BY <1>a, <1>b, <1>6 DEF Keeping
  <2>2. ASSUME NEW u \in Threads, at'[u] \in {"rejected", "refused"}
        PROVE  Cardinality(WithUnit') >= DemoStock
    BY <1>a, <1>b, <1>1, <1>6, <2>2 DEF BuyingInv, TakenIsRight
  <2> QED BY <2>1, <2>2 DEF TakenIsRight
<1>9. CounterCounts'
  BY DEF CounterCounts
<1> QED BY <1>1, <1>3, <1>4, <1>7, <1>8, <1>9 DEF RowInv

\* A buyer is turned away when everything is sold.
LEMMA TurningAwayKeeps ==
    ASSUME BuyingInv, NEW t \in Threads, arm.strategy # "redis", at[t] = "thinking",
           NEW s \in {"refused", "rejected"}, s \in SpotsOf(arm.strategy), GoesTo(t, s),
           reserved >= DemoStock,
           rowLock' \in Threads \cup {NoThread},
           UNCHANGED <<arm, reserved, version, counter, orders, seen, retries>>
    PROVE  /\ RowInv'
           /\ \A u \in Threads : at'[u] = IF u = t THEN s ELSE at[u]
<1>a. BuyingTypeOK /\ OnTheirPath /\ reserved = Cardinality(orders)
  BY DEF BuyingInv, RowCounts
<1>b. WithUnit = orders
  BY <1>a, UnitsAreOrders
<1>1. \A u \in Threads : at'[u] = IF u = t THEN s ELSE at[u]
  BY <1>a, Moves DEF Ended
<1>2. at' \in [Threads -> {"start", "thinking", "bounce", "insert", "undo"} \cup Ended]
  BY <1>a, Moves DEF Ended
<1>3. BuyingTypeOK'
  BY <1>a, <1>2 DEF BuyingTypeOK
<1>4. OnTheirPath'
  BY <1>a, PathsKept DEF Ended
<1>5. Cardinality(WithUnit') = Cardinality(WithUnit)
  BY <1>a, UnitsMove DEF Ended
<1>6. RowCounts'
  BY DEF BuyingInv, RowCounts
<1>7. TakenIsRight'
  BY <1>a, <1>b, <1>5 DEF BuyingInv, TakenIsRight, Keeping
<1>8. CounterCounts'
  BY DEF CounterCounts
<1> QED BY <1>1, <1>3, <1>4, <1>6, <1>7, <1>8 DEF RowInv

-----------------------------------------------------------------------------
LEMMA NaiveReadKeeps ==
    ASSUME BuyingInv, NEW t \in Threads, NaiveRead(t), UNCHANGED arm
    PROVE  BuyingInv'
<1>1. RowInv'
  BY ReadsKeep DEF NaiveRead, BuyingInv, BuyingTypeOK
<1> QED BY <1>1 DEF BuyingInv, RowInv, LockHolds, VersionCounts, NaiveRead

LEMMA NaiveWriteKeeps ==
    ASSUME BuyingInv, NEW t \in Threads, NaiveWrite(t), UNCHANGED arm
    PROVE  BuyingInv'
<1>a. /\ arm.strategy = "naive" /\ at[t] = "thinking"
      /\ reserved \in Nat /\ seen[t].reserved \in Nat /\ DemoStock \in Nat
      /\ seen[t].reserved <= reserved
      /\ version' \in Nat /\ rowLock' \in Threads \cup {NoThread}
      /\ arm.check \in BOOLEAN
  BY ArmKinds DEF BuyingInv, BuyingTypeOK, NaiveWrite, RowCounts
<1>1. ASSUME SawStock(t), Permitted PROVE RowInv'
  BY <1>1, <1>a, SaleKeeps DEF NaiveWrite, Permitted, Keeping
<1>2. ASSUME SawStock(t), ~Permitted PROVE RowInv'
  <2>1. reserved >= DemoStock
    BY <1>2, <1>a DEF Permitted
  <2> QED BY <1>2, <1>a, <2>1, TurningAwayKeeps DEF NaiveWrite, SpotsOf
<1>3. ASSUME ~SawStock(t) PROVE RowInv'
  <2>1. reserved >= DemoStock
    BY <1>3, <1>a DEF SawStock
  <2> QED BY <1>3, <1>a, <2>1, TurningAwayKeeps DEF NaiveWrite, SpotsOf
<1> QED BY <1>1, <1>2, <1>3, <1>a DEF BuyingInv, RowInv, LockHolds, VersionCounts

LEMMA ForUpdateKeeps ==
    ASSUME BuyingInv, NEW t \in Threads, ForUpdate(t), UNCHANGED arm
    PROVE  BuyingInv'
<1>1. RowInv' /\ (\A u \in Threads : at'[u] = IF u = t THEN "thinking" ELSE at[u])
      /\ (\A u \in Threads : seen'[u] =
             IF u = t THEN [reserved |-> reserved, version |-> version] ELSE seen[u])
  BY ReadsKeep DEF ForUpdate
<1>2. ASSUME NEW u \in Threads, at[u] = "thinking" PROVE FALSE
  BY <1>2, BuyingDemosAssumption DEF BuyingInv, LockHolds, ForUpdate
<1>3. LockHolds'
  BY <1>1, <1>2 DEF ForUpdate, LockHolds
<1> QED BY <1>1, <1>3 DEF BuyingInv, RowInv, VersionCounts, ForUpdate

LEMMA LockedWriteKeeps ==
    ASSUME BuyingInv, NEW t \in Threads, LockedWrite(t), UNCHANGED arm
    PROVE  BuyingInv'
<1>a. /\ arm.strategy = "pessimistic" /\ at[t] = "thinking"
      /\ reserved \in Nat /\ DemoStock \in Nat /\ seen[t].reserved = reserved
      /\ rowLock = t /\ version' \in Nat /\ rowLock' \in Threads \cup {NoThread}
  BY ArmKinds DEF BuyingInv, BuyingTypeOK, LockedWrite, LockHolds
<1>1. ASSUME SawStock(t) PROVE RowInv' /\ at'[t] # "thinking"
                               /\ (\A u \in Threads \ {t} : at'[u] = at[u])
  BY <1>1, <1>a, SaleKeeps DEF LockedWrite, SawStock
<1>2. ASSUME ~SawStock(t) PROVE RowInv' /\ at'[t] # "thinking"
                                /\ (\A u \in Threads \ {t} : at'[u] = at[u])
  <2>1. reserved >= DemoStock
    BY <1>2, <1>a DEF SawStock
  <2> QED BY <1>2, <1>a, <2>1, TurningAwayKeeps DEF LockedWrite, SpotsOf
<1>3. LockHolds'
  BY <1>1, <1>2, <1>a DEF BuyingInv, LockHolds
<1> QED BY <1>1, <1>2, <1>3, <1>a DEF BuyingInv, RowInv, VersionCounts

LEMMA VersionedReadKeeps ==
    ASSUME BuyingInv, NEW t \in Threads, VersionedRead(t), UNCHANGED arm
    PROVE  BuyingInv'
<1>1. RowInv' /\ (\A u \in Threads : at'[u] = IF u = t THEN "thinking" ELSE at[u])
      /\ (\A u \in Threads : seen'[u] =
             IF u = t THEN [reserved |-> reserved, version |-> version] ELSE seen[u])
  BY ReadsKeep DEF VersionedRead, BuyingInv, BuyingTypeOK
<1>2. VersionCounts'
  BY <1>1 DEF BuyingInv, VersionCounts, VersionedRead
<1> QED BY <1>1, <1>2 DEF BuyingInv, RowInv, LockHolds, VersionedRead

LEMMA VersionedWriteKeeps ==
    ASSUME BuyingInv, NEW t \in Threads, VersionedWrite(t), UNCHANGED arm
    PROVE  BuyingInv'
<1>a. /\ arm.strategy = "optimistic" /\ at[t] = "thinking"
      /\ reserved \in Nat /\ version \in Nat /\ DemoStock \in Nat
      /\ MaxRetries \in Nat /\ DemoStock < MaxRetries
      /\ seen[t].reserved \in Nat /\ seen[t].version \in Nat /\ retries[t] \in Nat
      /\ version = reserved /\ seen[t].version = seen[t].reserved
      /\ seen[t].reserved <= reserved /\ retries[t] <= seen[t].version
      /\ rowLock' \in Threads \cup {NoThread}
      /\ UNCHANGED <<counter, rowLock, seen>>
  BY ArmKinds DEF BuyingInv, BuyingTypeOK, VersionedWrite, VersionCounts, RowCounts
<1>b. Keeping /\ BuyingTypeOK /\ OnTheirPath
  BY <1>a DEF BuyingInv, Keeping
<1>1. CASE SawStock(t) /\ SameVersion(t)
  <2>a. /\ Sells(t) /\ GoesTo(t, "confirmed") /\ reserved' = reserved + 1
        /\ version' = version + 1 /\ version' \in Nat /\ UNCHANGED retries
    BY <1>1, <1>a DEF VersionedWrite
  <2>b. reserved + 1 <= DemoStock
    <3>1. reserved < DemoStock
      BY <1>1, <1>a DEF SawStock, SameVersion
    <3> QED BY <1>a, <3>1
  <2>1. RowInv' /\ \A u \in Threads : at'[u] = IF u = t THEN "confirmed" ELSE at[u]
    BY <1>a, <2>a, <2>b, SaleKeeps
  <2>2. VersionCounts'
    <3>1. \A u \in Threads : retries[u] \in Nat
      BY ArmKinds DEF BuyingInv, BuyingTypeOK
    <3> QED BY <1>a, <2>a, <2>1, <3>1 DEF BuyingInv, VersionCounts
  <2> QED BY <1>a, <2>1, <2>2 DEF BuyingInv, RowInv, LockHolds
<1>2. CASE SawStock(t) /\ ~SameVersion(t)
  <2>1. retries[t] + 1 <= version
    BY <1>2, <1>a DEF SameVersion
  <2>2. reserved <= DemoStock
    BY <1>a, <1>b, UnitsAreOrders DEF BuyingInv, RowCounts, TakenIsRight
  <2>3. retries[t] + 1 < MaxRetries
    BY <1>a, <2>1, <2>2
  <2>a. /\ GoesTo(t, "start") /\ retries' = [retries EXCEPT ![t] = @ + 1]
        /\ UNCHANGED <<reserved, version, orders>>
    BY <1>2, <1>a, <2>3 DEF VersionedWrite, SawStock
  <2>4. /\ at' \in [Threads -> {"start", "thinking", "bounce", "insert", "undo"} \cup Ended]
        /\ \A u \in Threads : at'[u] = IF u = t THEN "start" ELSE at[u]
    BY <1>b, <2>a, Moves
  <2>5. retries' \in [Threads -> 0..MaxRetries]
    BY <1>b, <1>a, <2>a, <2>3 DEF BuyingTypeOK
  <2>6. BuyingTypeOK'
    BY <1>a, <1>b, <2>a, <2>4, <2>5 DEF BuyingTypeOK
  <2>7. OnTheirPath'
    BY <1>a, <1>b, <2>a, PathsKept DEF SpotsOf
  <2>8. Cardinality(WithUnit') = Cardinality(WithUnit)
    BY <1>a, <1>b, <2>a, UnitsMove
  <2>9. TakenIsRight'
    BY <1>a, <2>4, <2>8 DEF BuyingInv, TakenIsRight, Keeping
  <2>10. VersionCounts'
    <3>1. \A u \in Threads : retries'[u] = IF u = t THEN retries[t] + 1 ELSE retries[u]
      BY <1>b, <2>a DEF BuyingTypeOK
    <3> QED BY <1>a, <2>a, <2>1, <2>4, <3>1 DEF BuyingInv, VersionCounts
  <2>11. RowCounts'
    BY <1>a, <2>a DEF BuyingInv, RowCounts
  <2> QED BY <1>a, <2>6, <2>7, <2>9, <2>10, <2>11 DEF BuyingInv, LockHolds, CounterCounts
<1>3. CASE ~SawStock(t)
  <2>a. GoesTo(t, "rejected") /\ UNCHANGED <<reserved, version, orders, retries>>
    BY <1>3, <1>a DEF VersionedWrite
  <2>b. reserved >= DemoStock
    BY <1>3, <1>a DEF SawStock
  <2>1. RowInv' /\ \A u \in Threads : at'[u] = IF u = t THEN "rejected" ELSE at[u]
    BY <1>a, <2>a, <2>b, TurningAwayKeeps DEF SpotsOf
  <2>2. VersionCounts'
    BY <1>a, <2>a, <2>1 DEF BuyingInv, VersionCounts
  <2> QED BY <1>a, <2>1, <2>2 DEF BuyingInv, RowInv, LockHolds
<1> QED BY <1>1, <1>2, <1>3

\* Redis: the counter follows those who have decremented it.
LEMMA DecrementsKeeps ==
    ASSUME BuyingInv, NEW t \in Threads, Decrements(t), UNCHANGED arm
    PROVE  BuyingInv'
<1> DEFINE s == IF counter - 1 < 0 THEN "bounce" ELSE "insert"
<1>a. /\ BuyingTypeOK /\ OnTheirPath /\ Keeping
      /\ arm.strategy = "redis" /\ at[t] = "start"
      /\ GoesTo(t, s) /\ counter' = counter - 1 /\ counter \in Int /\ DemoStock \in Nat
      /\ counter = DemoStock - Cardinality(Decremented)
      /\ UNCHANGED <<reserved, version, orders, rowLock, seen, retries>>
  BY ArmKinds DEF BuyingInv, BuyingTypeOK, Keeping, Decrements, CounterCounts
<1>b. s \in {"bounce", "insert"} /\ (s = "insert" <=> counter >= 1)
  BY <1>a
<1> HIDE DEF s
<1>1. /\ at' \in [Threads -> {"start", "thinking", "bounce", "insert", "undo"} \cup Ended]
      /\ \A u \in Threads : at'[u] = IF u = t THEN s ELSE at[u]
  BY <1>a, <1>b, Moves
<1>2. BuyingTypeOK'
  BY <1>a, <1>1 DEF BuyingTypeOK
<1>3. OnTheirPath'
  BY <1>a, <1>b, PathsKept DEF SpotsOf
<1>4. /\ Cardinality(WithUnit) \in Nat /\ Cardinality(WithUnit') \in Nat
      /\ Cardinality(Decremented) \in Nat
      /\ Cardinality(WithUnit) <= Cardinality(Decremented)
      /\ Cardinality(Decremented') = Cardinality(Decremented) + 1
      /\ s = "insert" => Cardinality(WithUnit') = Cardinality(WithUnit) + 1
      /\ s = "bounce" => Cardinality(WithUnit') = Cardinality(WithUnit)
  BY <1>a, <1>b, UnitsMove
<1>5. CounterCounts'
  BY <1>a, <1>4 DEF CounterCounts
<1>6. Cardinality(WithUnit') <= DemoStock
  <2>1. Cardinality(WithUnit) <= DemoStock
    BY <1>a DEF BuyingInv, TakenIsRight
  <2>2. s = "insert" => Cardinality(Decremented) + 1 <= DemoStock
    BY <1>a, <1>b, <1>4
  <2> QED BY <1>a, <1>b, <1>4, <2>1, <2>2
<1>7. ASSUME ~arm.insertFails, NEW u \in Threads, at'[u] \in {"bounce", "rejected"}
      PROVE  Cardinality(WithUnit') >= DemoStock
  <2>1. CASE u # t \/ \E v \in Threads : at[v] = "bounce"
    BY <1>7, <1>a, <1>b, <1>1, <1>4, <2>1 DEF BuyingInv, TakenIsRight
  <2>2. CASE u = t /\ \A v \in Threads : at[v] # "bounce"
    <3>1. Decremented = WithUnit
      BY <2>2 DEF Decremented, WithUnit
    <3>2. s = "bounce"
      BY <1>7, <1>1, <1>b, <2>2
    <3> QED BY <1>a, <1>b, <1>4, <3>1, <3>2
  <2> QED BY <2>1, <2>2
<1>8. TakenIsRight'
  BY <1>a, <1>6, <1>7 DEF TakenIsRight, Keeping
<1> QED BY <1>a, <1>2, <1>3, <1>5, <1>8 DEF BuyingInv, RowCounts, LockHolds, VersionCounts

\* An order, or a failed insert, keeps the unit; the buyer gives it back later.
LEMMA InsertsOrderKeeps ==
    ASSUME BuyingInv, NEW t \in Threads, InsertsOrder(t), UNCHANGED arm
    PROVE  BuyingInv'
<1>1. PICK s \in {"confirmed", "undo"} :
          /\ GoesTo(t, s)
          /\ orders' = IF s = "confirmed" THEN orders \cup {t} ELSE orders
          /\ s = "undo" => arm.insertFails
  BY DEF InsertsOrder, Sells
<1>a. /\ BuyingTypeOK /\ OnTheirPath /\ arm.strategy = "redis" /\ at[t] = "insert"
      /\ UNCHANGED <<reserved, version, counter, rowLock, seen, retries>>
  BY DEF BuyingInv, InsertsOrder
<1>2. /\ at' \in [Threads -> {"start", "thinking", "bounce", "insert", "undo"} \cup Ended]
      /\ \A u \in Threads : at'[u] = IF u = t THEN s ELSE at[u]
  BY <1>a, <1>1, Moves DEF Ended
<1>3. BuyingTypeOK'
  BY <1>a, <1>1, <1>2 DEF BuyingTypeOK
<1>4. OnTheirPath'
  BY <1>a, <1>1, PathsKept DEF SpotsOf, Ended
<1>5. /\ Cardinality(WithUnit') = Cardinality(WithUnit)
      /\ Cardinality(Decremented') = Cardinality(Decremented)
  BY <1>a, <1>1, UnitsMove DEF Ended
<1>6. TakenIsRight' /\ CounterCounts'
  BY <1>a, <1>1, <1>2, <1>5 DEF BuyingInv, TakenIsRight, CounterCounts, Keeping
<1> QED BY <1>a, <1>3, <1>4, <1>6 DEF BuyingInv, RowCounts, LockHolds, VersionCounts

\* Giving back the unit of a failed insert frees it; a bounced buyer had none.
LEMMA GivesBackKeeps ==
    ASSUME BuyingInv, NEW t \in Threads, GivesBack(t), UNCHANGED arm
    PROVE  BuyingInv'
<1> DEFINE s == IF at[t] = "bounce" THEN "rejected" ELSE "failed"
<1>a. /\ BuyingTypeOK /\ OnTheirPath /\ at[t] \in {"bounce", "undo"}
      /\ GoesTo(t, s) /\ counter' = counter + 1 /\ counter \in Int
      /\ UNCHANGED <<reserved, version, orders, rowLock, seen, retries>>
  BY DEF BuyingInv, BuyingTypeOK, GivesBack
<1>b. /\ s \in {"rejected", "failed"} /\ (s = "rejected" <=> at[t] = "bounce")
  BY <1>a
<1> HIDE DEF s
<1>c. arm.strategy = "redis" /\ (s = "failed" => arm.insertFails) /\ Keeping
  BY <1>a, <1>b, ArmKinds DEF OnTheirPath, SpotsOf, Keeping
<1>1. /\ at' \in [Threads -> {"start", "thinking", "bounce", "insert", "undo"} \cup Ended]
      /\ \A u \in Threads : at'[u] = IF u = t THEN s ELSE at[u]
  BY <1>a, <1>b, Moves DEF Ended
<1>2. BuyingTypeOK'
  BY <1>a, <1>1 DEF BuyingTypeOK
<1>3. OnTheirPath'
  BY <1>a, <1>b, <1>c, PathsKept DEF SpotsOf, Ended
<1>4. /\ Cardinality(WithUnit) \in Nat /\ Cardinality(WithUnit') \in Nat
      /\ Cardinality(Decremented) \in Nat /\ Cardinality(Decremented') \in Nat
      /\ Cardinality(Decremented) = Cardinality(Decremented') + 1
  BY <1>a, <1>b, UnitsMove DEF Ended
<1>5. /\ s = "rejected" => Cardinality(WithUnit') = Cardinality(WithUnit)
      /\ Cardinality(WithUnit') <= Cardinality(WithUnit)
  <2>1. WithUnit' \subseteq WithUnit
    BY <1>1, <1>b DEF WithUnit
  <2>2. s = "rejected" => WithUnit' = WithUnit
    BY <1>1, <1>b DEF WithUnit
  <2>3. WithUnit \in SUBSET Threads
    BY DEF WithUnit
  <2> HIDE DEF WithUnit
  <2> QED BY <2>1, <2>2, <2>3, <1>4, BuyersFinite, FS_Subset
<1>6. CounterCounts'
  BY <1>a, <1>c, <1>4, ArmKinds DEF BuyingInv, CounterCounts
<1>7. Cardinality(WithUnit') <= DemoStock
  BY <1>c, <1>4, <1>5, ArmKinds DEF BuyingInv, TakenIsRight
<1>8. ASSUME ~arm.insertFails, NEW u \in Threads, at'[u] \in {"bounce", "rejected"}
      PROVE  Cardinality(WithUnit') >= DemoStock
  <2>1. s = "rejected" /\ at[t] = "bounce"
    BY <1>8, <1>c, <1>b
  <2>2. Cardinality(WithUnit) >= DemoStock
    BY <1>8, <1>c, <2>1 DEF BuyingInv, TakenIsRight
  <2> QED BY <1>5, <2>1, <2>2
<1>9. TakenIsRight'
  BY <1>c, <1>a, <1>7, <1>8 DEF TakenIsRight, Keeping
<1> QED BY <1>a, <1>c, <1>2, <1>3, <1>6, <1>9 DEF BuyingInv, RowCounts, LockHolds, VersionCounts

LEMMA NextBuyingInv == BuyingInv /\ [BuyingNext]_buyingVars => BuyingInv'
<1> SUFFICES ASSUME BuyingInv, [BuyingNext]_buyingVars PROVE BuyingInv'
  OBVIOUS
<1>1. ASSUME NEW t \in Threads, BuyingStep(t), UNCHANGED arm PROVE BuyingInv'
  BY <1>1, NaiveReadKeeps, NaiveWriteKeeps, ForUpdateKeeps, LockedWriteKeeps,
     VersionedReadKeeps, VersionedWriteKeeps, DecrementsKeeps, InsertsOrderKeeps,
     GivesBackKeeps DEF BuyingStep
<1>2. CASE UNCHANGED buyingVars
  BY <1>2 DEF buyingVars, BuyingInv, BuyingTypeOK, OnTheirPath, RowCounts, LockHolds,
              VersionCounts, CounterCounts, TakenIsRight, Keeping, WithUnit, Decremented
<1> QED BY <1>1, <1>2 DEF BuyingNext

\* What the invariant says once the workers are joined.
LEMMA ExactFromInv == BuyingInv => ArmsAreExact
<1> SUFFICES ASSUME BuyingInv PROVE ArmsAreExact
  OBVIOUS
<1>a. BuyingTypeOK /\ OnTheirPath /\ DemoStock \in Nat
      /\ orders = {t \in Threads : at[t] = "confirmed"}
  BY ArmKinds DEF BuyingInv, OnTheirPath
<1>b. /\ orders \in SUBSET Threads /\ WithUnit \in SUBSET Threads /\ orders \subseteq WithUnit
      /\ Cardinality(orders) \in Nat /\ Cardinality(WithUnit) \in Nat
      /\ Cardinality(Threads) \in Nat
  BY <1>a, BuyersFinite DEF WithUnit
<1>c. Cardinality(orders) <= Cardinality(WithUnit) /\ Cardinality(orders) <= Cardinality(Threads)
  BY <1>b, BuyersFinite, FS_Subset
<1>1. Keeping => Cardinality(orders) <= DemoStock
  BY <1>a, <1>b, <1>c DEF BuyingInv, TakenIsRight
<1>2. ASSUME AllJoined PROVE WithUnit = orders /\ Decremented = orders
  BY <1>2, <1>a DEF AllJoined, Ended, WithUnit, Decremented
<1>3. ASSUME AllJoined, arm.strategy = "redis" PROVE counter = DemoStock - Cardinality(orders)
  BY <1>3, <1>2 DEF BuyingInv, CounterCounts
<1>4. ASSUME AllJoined, Keeping, ~arm.insertFails
      PROVE  /\ Cardinality(orders) = IF Cardinality(Threads) < DemoStock
                                      THEN Cardinality(Threads) ELSE DemoStock
             /\ Confirmed = Cardinality(orders)
  <2>1. Confirmed = Cardinality(orders)
    BY <1>a DEF Confirmed
  <2>2. ASSUME NEW t \in Threads, at[t] # "confirmed"
        PROVE  Cardinality(orders) >= DemoStock
    <3>1. at[t] \in {"rejected", "refused"} /\ (arm.strategy = "redis" => at[t] = "rejected")
      BY <1>4, <1>a, <2>2, ArmKinds DEF AllJoined, Ended, OnTheirPath, SpotsOf
    <3> QED BY <1>2, <1>4, <3>1 DEF BuyingInv, TakenIsRight
  <2>3. (\A t \in Threads : at[t] = "confirmed") => orders = Threads
    BY <1>a
  <2> QED BY <1>1, <1>4, <1>a, <1>b, <1>c, <2>1, <2>2, <2>3
<1>5. ASSUME arm.strategy # "redis" PROVE \A t \in Threads : at[t] # "failed"
  BY <1>5, <1>a, ArmKinds DEF OnTheirPath, SpotsOf
<1> QED BY <1>1, <1>3, <1>4, <1>5 DEF ArmsAreExact, Keeping

\* Every strategy of the demonstrations but the naive one without the CHECK sells
\* exactly what there is, for any number of threads and units.
THEOREM EveryArmIsExact == BuyingSpec => []ArmsAreExact
<1>1. BuyingSpec => []BuyingInv
  BY InitBuyingInv, NextBuyingInv, PTL DEF BuyingSpec
<1> QED BY <1>1, ExactFromInv, PTL

\* The variables of the demonstrations keep their types.
THEOREM BuyingTypeCorrect == BuyingSpec => []BuyingTypeOK
<1>1. BuyingSpec => []BuyingInv
  BY InitBuyingInv, NextBuyingInv, PTL DEF BuyingSpec
<1>2. BuyingInv => BuyingTypeOK
  BY DEF BuyingInv
<1> QED BY <1>1, <1>2, PTL

-----------------------------------------------------------------------------
(* The sale window *)

\* The windows the sale has had at some time from n on, given its edits.
InForceSince(e, n) == {e[i].sale : i \in {j \in 1..Len(e) : j = Len(e) \/ e[j + 1].from >= n}}

\* A query is on its way no longer than QueryS, and has read rows of that time.
QueriesAreShort ==
    \A a \in Askers : query[a].step \in {"sent", "read"} =>
        /\ query[a].since <= clock /\ clock - query[a].since <= QueryS
        /\ query[a].step = "read" => query[a].rows \in InForceSince(edits, query[a].since)

\* What is in memory was in force when the query that brought it began.
MemoryWasInForce == windows \in InForceSince(edits, loadedAt - QueryS)

\* The thread sleeps no longer than a period, and began its last query no later
\* than a period after the windows were loaded.
ThreadKeepsPace ==
    ~lazy =>
        LET q == query[Refresher]
        IN /\ q.step \in {"sleep", "sent", "read"}
           /\ q.step = "sleep" => q.since <= loadedAt /\ clock - q.since <= RefreshS
           /\ q.step # "sleep" => q.since - loadedAt <= RefreshS

\* A checkout whose refresh is done answers with windows of this second.
RefreshIsFresh ==
    \A p \in WindowPosts : answer[p] = "asking" /\ query[p].step = "idle" => loadedAt = clock

WindowInv ==
    /\ WindowTypeOK
    /\ ~failed => /\ QueriesAreShort
                  /\ MemoryWasInForce
                  /\ ThreadKeepsPace
                  /\ RefreshIsFresh

LEMMA WindowNumbers ==
    /\ RefreshS \in Nat /\ QueryS \in Nat /\ EndOfTime \in Nat /\ MaxEdits \in Nat
    /\ Refresher \notin WindowPosts /\ Refresher \in Askers /\ WindowPosts \subseteq Askers
BY SaleWindowAssumption DEF Askers

Edit == [from : 0..EndOfTime, sale : Sales]
EditSeq == Seq(Edit)

LEMMA SeqIsFunction ==
    ASSUME NEW S, NEW e \in Seq(S)
    PROVE  e \in [1..Len(e) -> S] /\ Len(e) \in Nat
OBVIOUS

\* The longer one looks back, the more windows have been in force.
LEMMA LookingBack ==
    ASSUME NEW e \in EditSeq, NEW m \in Int, NEW n \in Int, m <= n
    PROVE  InForceSince(e, n) \subseteq InForceSince(e, m)
<1> SUFFICES ASSUME NEW i \in 1..Len(e), i = Len(e) \/ e[i + 1].from >= n
             PROVE  i = Len(e) \/ e[i + 1].from >= m
  BY DEF InForceSince
<1>1. CASE i # Len(e)
  <2>1. e \in [1..Len(e) -> Edit] /\ Len(e) \in Nat
    BY SeqIsFunction DEF EditSeq
  <2>2. i + 1 \in 1..Len(e)
    <3>1. Len(e) \in Nat
      BY <2>1
    <3> QED BY <1>1, <3>1
  <2>3. e[i + 1] \in Edit
    BY <2>1, <2>2
  <2>4. e[i + 1].from \in Int
    BY <2>3, WindowNumbers DEF Edit
  <2> QED BY <1>1, <2>4
<1> QED BY <1>1

\* What was in force at some time up to now is still seen to have been, whatever
\* is changed now; and what is in force now is so at every time that is asked for.
LEMMA EditsAreKept ==
    ASSUME NEW e \in EditSeq, Len(e) >= 1, NEW t \in Int, NEW s,
           NEW n \in Int, n <= t
    PROVE  InForceSince(e, n) \subseteq InForceSince(Append(e, [from |-> t, sale |-> s]), n)
<1> DEFINE f == Append(e, [from |-> t, sale |-> s])
<1>1. /\ Len(e) \in Nat /\ Len(f) = Len(e) + 1 /\ f[Len(e) + 1] = [from |-> t, sale |-> s]
      /\ \A j \in 1..Len(e) : f[j] = e[j]
  BY DEF EditSeq
<1> HIDE DEF f
<1>2. ASSUME NEW i \in 1..Len(e), i = Len(e) \/ e[i + 1].from >= n
      PROVE  i \in 1..Len(f) /\ f[i + 1].from >= n /\ f[i].sale = e[i].sale
  <2>1. CASE i = Len(e)
    BY <1>1, <2>1
  <2>2. CASE i # Len(e)
    <3>1. i + 1 \in 1..Len(e)
      BY <1>1, <2>2
    <3> QED BY <1>1, <1>2, <2>2, <3>1
  <2> QED BY <2>1, <2>2
<1>3. InForceSince(e, n) \subseteq InForceSince(f, n)
  BY <1>2 DEF InForceSince
<1> QED BY <1>3 DEF f

LEMMA NowInForce ==
    ASSUME NEW e \in EditSeq, Len(e) >= 1, NEW n
    PROVE  e[Len(e)].sale \in InForceSince(e, n)
<1>1. Len(e) \in 1..Len(e)
  BY DEF EditSeq
<1> QED BY <1>1 DEF InForceSince

\* Types of what the invariant compares.
LEMMA WindowTypes ==
    ASSUME WindowTypeOK
    PROVE  /\ clock \in Nat /\ loadedAt \in Int /\ loadedAt <= clock
           /\ edits \in EditSeq /\ Len(edits) >= 1 /\ Len(edits) \in Nat
           /\ SaleNow \in Sales
           /\ \A a \in Askers : /\ query[a].since \in 0..EndOfTime /\ query[a].since \in Nat
                                 /\ query[a].rows \in Sales \cup {NoWindow}
                                 /\ query[a].step \in {"idle", "sent", "read", "sleep"}
<1>0. edits \in EditSeq
  BY DEF WindowTypeOK, EditSeq, Edit
<1>1. edits \in [1..Len(edits) -> Edit] /\ Len(edits) \in Nat /\ Len(edits) >= 1
  BY <1>0, SeqIsFunction, WindowNumbers DEF WindowTypeOK, EditSeq
<1>2. SaleNow \in Sales
  BY <1>1 DEF SaleNow, Edit
<1>3. \A a \in Askers : query[a] \in [step : {"idle", "sent", "read", "sleep"},
                                     since : 0..EndOfTime, rows : Sales \cup {NoWindow}]
  BY DEF WindowTypeOK
<1> QED BY <1>0, <1>1, <1>2, <1>3, WindowNumbers DEF WindowTypeOK

\* What a query becomes when it begins or ends.
LEMMA QueryMoves ==
    ASSUME WindowTypeOK, NEW a \in Askers, NEW s \in {"idle", "sent", "read", "sleep"},
           query' = [query EXCEPT ![a] = [NoQuery EXCEPT !.step = s, !.since = clock]]
    PROVE  /\ query' \in [Askers -> [step : {"idle", "sent", "read", "sleep"},
                                     since : 0..EndOfTime, rows : Sales \cup {NoWindow}]]
           /\ query'[a].step = s /\ query'[a].since = clock
           /\ \A b \in Askers \ {a} : query'[b] = query[b]
<1> DEFINE Q == [step : {"idle", "sent", "read", "sleep"},
                 since : 0..EndOfTime, rows : Sales \cup {NoWindow}]
           q == [NoQuery EXCEPT !.step = s, !.since = clock]
<1>1. NoQuery \in Q
  BY WindowNumbers DEF NoQuery
<1>2. clock \in 0..EndOfTime
  BY DEF WindowTypeOK
<1>3. q \in Q /\ q.step = s /\ q.since = clock
  BY <1>1, <1>2
<1>4. query \in [Askers -> Q] /\ query' = [query EXCEPT ![a] = q]
  BY DEF WindowTypeOK
<1> HIDE DEF Q, q
<1>5. query' \in [Askers -> Q] /\ query'[a] = q /\ \A b \in Askers \ {a} : query'[b] = query[b]
  BY <1>3, <1>4
<1> QED BY <1>3, <1>5 DEF Q

LEMMA InitWindowInv == WindowInit => WindowInv
<1> SUFFICES ASSUME WindowInit PROVE WindowInv
  OBVIOUS
<1>1. PICK s \in Sales : edits = <<[from |-> 0, sale |-> s]>>
  BY DEF WindowInit
<1>2. edits \in EditSeq /\ Len(edits) = 1 /\ SaleNow = s
  BY <1>1, WindowNumbers DEF EditSeq, Edit, SaleNow
<1>3. \A a \in Askers : query[a] = IF a = Refresher /\ ~lazy
                                  THEN [step |-> "sleep", since |-> 0, rows |-> NoWindow]
                                  ELSE [step |-> "idle", since |-> 0, rows |-> NoWindow]
  BY DEF WindowInit, NoQuery
<1>4. query \in [Askers -> [step : {"idle", "sent", "read", "sleep"},
                           since : 0..EndOfTime, rows : Sales \cup {NoWindow}]]
  <2>1. DOMAIN query = Askers /\ query = [a \in Askers |-> query[a]]
    BY DEF WindowInit
  <2>2. \A a \in Askers : query[a] \in [step : {"idle", "sent", "read", "sleep"},
                                      since : 0..EndOfTime, rows : Sales \cup {NoWindow}]
    BY <1>3, WindowNumbers
  <2> QED BY <2>1, <2>2
<1>5. answer \in [WindowPosts -> {"none", "asking", "open", "not_started", "ended", "unknown"}]
      /\ \A p \in WindowPosts : answer[p] = "none"
  BY DEF WindowInit
<1>6. WindowTypeOK
  <2>1. windows \in Sales \cup {NoWindow}
    BY <1>2 DEF WindowInit
  <2>2. loadedAt \in Int /\ loadedAt <= 0
    BY WindowNumbers DEF WindowInit
  <2>3. lazy \in BOOLEAN /\ failed \in BOOLEAN
    BY Zenon DEF WindowInit
  <2> QED BY <1>2, <1>4, <1>5, <2>1, <2>2, <2>3, WindowNumbers DEF WindowInit, WindowTypeOK, EditSeq, Edit
<1>7. ASSUME ~failed PROVE QueriesAreShort /\ MemoryWasInForce /\ ThreadKeepsPace /\ RefreshIsFresh
  <2>1. windows = SaleNow /\ loadedAt = 0 /\ clock = 0
    BY <1>7 DEF WindowInit
  <2>2. MemoryWasInForce
    BY <1>2, <2>1, NowInForce DEF MemoryWasInForce, SaleNow
  <2>3. QueriesAreShort /\ RefreshIsFresh
    BY <1>3, <1>5 DEF QueriesAreShort, RefreshIsFresh
  <2>4. ThreadKeepsPace
    BY <1>3, <2>1, WindowNumbers DEF ThreadKeepsPace
  <2> QED BY <2>2, <2>3, <2>4
<1> QED BY <1>6, <1>7 DEF WindowInv

-----------------------------------------------------------------------------
LEMMA ReadRowsKeeps ==
    ASSUME WindowInv, NEW a \in Askers, ReadRows(a)
    PROVE  WindowInv'
<1> DEFINE Q == [step : {"idle", "sent", "read", "sleep"},
                 since : 0..EndOfTime, rows : Sales \cup {NoWindow}]
           q == [query[a] EXCEPT !.step = "read", !.rows = SaleNow]
<1>a. /\ query[a].step = "sent"
      /\ UNCHANGED <<lazy, clock, edits, windows, loadedAt, answer, failed>>
  BY DEF ReadRows
<1>b. WindowTypeOK
  BY DEF WindowInv
<1>c. query \in [Askers -> Q] /\ SaleNow \in Sales
  BY <1>b, WindowTypes DEF WindowTypeOK
<1>1. q \in Q /\ q.step = "read" /\ q.since = query[a].since /\ q.rows = SaleNow
  BY <1>c
<1>2. query' = [query EXCEPT ![a] = q]
  BY <1>c DEF ReadRows
<1> HIDE DEF Q, q
<1>3. query' \in [Askers -> Q] /\ \A b \in Askers : query'[b] = IF b = a THEN q ELSE query[b]
  BY <1>1, <1>2, <1>c
<1>4. WindowTypeOK'
  BY <1>a, <1>b, <1>3 DEF WindowTypeOK, Q
<1>5. ASSUME ~failed PROVE (QueriesAreShort /\ MemoryWasInForce /\ ThreadKeepsPace /\ RefreshIsFresh)'
  <2>1. SaleNow \in InForceSince(edits, query[a].since)
    BY <1>b, WindowTypes, NowInForce DEF SaleNow
  <2>2. QueriesAreShort'
    BY <1>1, <1>3, <1>5, <1>a, <2>1 DEF WindowInv, QueriesAreShort
  <2>3. MemoryWasInForce'
    BY <1>5, <1>a DEF WindowInv, MemoryWasInForce
  <2>4. ThreadKeepsPace'
    BY <1>1, <1>3, <1>5, <1>a, WindowNumbers DEF WindowInv, ThreadKeepsPace
  <2>5. RefreshIsFresh'
    BY <1>1, <1>3, <1>5, <1>a, WindowNumbers DEF WindowInv, RefreshIsFresh
  <2> QED BY <2>2, <2>3, <2>4, <2>5
<1> QED BY <1>a, <1>4, <1>5 DEF WindowInv

\* The windows that are installed were read by a query of the last QueryS seconds,
\* also when a slow one overwrites what a later one has brought.
LEMMA SetWindowsKeeps ==
    ASSUME WindowInv, NEW a \in Askers, SetWindows(a)
    PROVE  WindowInv'
<1> DEFINE s == AfterRefresh(a)
<1>a. /\ query[a].step = "read" /\ windows' = query[a].rows /\ loadedAt' = clock
      /\ query' = [query EXCEPT ![a] = [NoQuery EXCEPT !.step = s, !.since = clock]]
      /\ UNCHANGED <<lazy, clock, edits, answer, failed>>
  BY DEF SetWindows, EndsIn
<1>b. WindowTypeOK /\ s \in {"idle", "sleep"} /\ (a = Refresher => s = "sleep")
  BY DEF WindowInv, AfterRefresh
<1>c. /\ clock \in Nat /\ loadedAt \in Int /\ loadedAt <= clock /\ edits \in EditSeq
      /\ query[a].since \in Nat /\ query[a].rows \in Sales \cup {NoWindow}
  BY <1>b, WindowTypes
<1> HIDE DEF s
<1>1. /\ query' \in [Askers -> [step : {"idle", "sent", "read", "sleep"},
                                since : 0..EndOfTime, rows : Sales \cup {NoWindow}]]
      /\ query'[a].step = s /\ query'[a].since = clock
      /\ \A b \in Askers \ {a} : query'[b] = query[b]
  BY <1>a, <1>b, QueryMoves
<1>2. WindowTypeOK'
  <2>1. loadedAt' \in Int /\ loadedAt' <= clock'
    BY <1>a, <1>c
  <2> QED BY <1>a, <1>b, <1>c, <1>1, <2>1 DEF WindowTypeOK
<1>3. ASSUME ~failed PROVE (QueriesAreShort /\ MemoryWasInForce /\ ThreadKeepsPace /\ RefreshIsFresh)'
  <2>1. query[a].rows \in InForceSince(edits, query[a].since)
        /\ clock - QueryS <= query[a].since
    BY <1>3, <1>a, <1>c, WindowNumbers DEF WindowInv, QueriesAreShort
  <2>2. query[a].rows \in InForceSince(edits, clock - QueryS)
    BY <2>1, <1>c, WindowNumbers, LookingBack
  <2>3. MemoryWasInForce'
    BY <1>a, <2>2 DEF MemoryWasInForce
  <2>4. QueriesAreShort'
    BY <1>3, <1>a, <1>b, <1>1 DEF WindowInv, QueriesAreShort
  <2>5. ThreadKeepsPace'
    <3>1. CASE a = Refresher
      <4>1. clock - clock <= RefreshS
        BY <1>c, WindowNumbers
      <4> QED BY <1>a, <1>b, <1>c, <1>1, <3>1, <4>1 DEF ThreadKeepsPace
    <3>2. CASE a # Refresher
      <4> DEFINE r == query[Refresher]
      <4>1. query'[Refresher] = r /\ r.since \in Nat
        BY <1>1, <1>b, <3>2, WindowTypes, WindowNumbers
      <4>2. ~lazy => /\ r.step \in {"sleep", "sent", "read"}
                     /\ r.step = "sleep" => r.since <= loadedAt /\ clock - r.since <= RefreshS
                     /\ r.step # "sleep" => r.since - loadedAt <= RefreshS
        BY <1>3 DEF WindowInv, ThreadKeepsPace
      <4>3. \A l : l = r.since => (l <= loadedAt => l <= clock)
                               /\ (l - loadedAt <= RefreshS => l - clock <= RefreshS)
        BY <1>c, <4>1, WindowNumbers
      <4> HIDE DEF r
      <4> QED BY <1>a, <4>1, <4>2, <4>3 DEF ThreadKeepsPace
    <3> QED BY <3>1, <3>2
  <2>6. RefreshIsFresh'
    BY <1>a DEF RefreshIsFresh
  <2> QED BY <2>3, <2>4, <2>5, <2>6
<1> QED BY <1>a, <1>2, <1>3 DEF WindowInv

LEMMA RefreshFailsKeeps ==
    ASSUME WindowInv, NEW a \in Askers, RefreshFails(a)
    PROVE  WindowInv'
<1>1. WindowTypeOK /\ AfterRefresh(a) \in {"idle", "sleep"}
  BY DEF WindowInv, AfterRefresh
<1>2. query' \in [Askers -> [step : {"idle", "sent", "read", "sleep"},
                             since : 0..EndOfTime, rows : Sales \cup {NoWindow}]]
  BY <1>1, QueryMoves DEF RefreshFails, EndsIn
<1>3. failed' = TRUE
  BY DEF RefreshFails
<1> QED BY <1>1, <1>2, <1>3 DEF WindowInv, WindowTypeOK, RefreshFails

LEMMA WakeUpKeeps ==
    ASSUME WindowInv, WakeUp
    PROVE  WindowInv'
<1>a. /\ query[Refresher].step = "sleep"
      /\ query' = [query EXCEPT ![Refresher] = [NoQuery EXCEPT !.step = "sent", !.since = clock]]
      /\ UNCHANGED <<lazy, clock, edits, windows, loadedAt, answer, failed>>
  BY DEF WakeUp, BeginQuery
<1>b. WindowTypeOK /\ clock \in Nat /\ loadedAt \in Int /\ query[Refresher].since \in Nat
  BY WindowTypes, WindowNumbers DEF WindowInv
<1>1. /\ query' \in [Askers -> [step : {"idle", "sent", "read", "sleep"},
                                since : 0..EndOfTime, rows : Sales \cup {NoWindow}]]
      /\ query'[Refresher].step = "sent" /\ query'[Refresher].since = clock
      /\ \A b \in Askers \ {Refresher} : query'[b] = query[b]
  BY <1>a, <1>b, QueryMoves, WindowNumbers
<1>2. WindowTypeOK'
  BY <1>a, <1>b, <1>1 DEF WindowTypeOK
<1>3. ASSUME ~failed PROVE (QueriesAreShort /\ MemoryWasInForce /\ ThreadKeepsPace /\ RefreshIsFresh)'
  <2>1. QueriesAreShort'
    <3>1. clock <= clock /\ clock - clock <= QueryS
      BY <1>b, WindowNumbers
    <3> QED BY <1>3, <1>a, <1>1, <3>1 DEF WindowInv, QueriesAreShort
  <2>2. MemoryWasInForce'
    BY <1>3, <1>a DEF WindowInv, MemoryWasInForce
  <2>3. ThreadKeepsPace'
    <3>1. ~lazy => clock - loadedAt <= RefreshS
      BY <1>3, <1>a, <1>b, WindowNumbers DEF WindowInv, ThreadKeepsPace
    <3> QED BY <1>a, <1>1, <3>1 DEF ThreadKeepsPace
  <2>4. RefreshIsFresh'
    BY <1>3, <1>a, <1>1, WindowNumbers DEF WindowInv, RefreshIsFresh
  <2> QED BY <2>1, <2>2, <2>3, <2>4
<1> QED BY <1>a, <1>2, <1>3 DEF WindowInv

LEMMA AskFirstKeeps ==
    ASSUME WindowInv, NEW p \in WindowPosts, AskFirst(p)
    PROVE  WindowInv'
<1>a. /\ lazy /\ answer' = [answer EXCEPT ![p] = "asking"]
      /\ query' = [query EXCEPT ![p] = [NoQuery EXCEPT !.step = "sent", !.since = clock]]
      /\ UNCHANGED <<lazy, clock, edits, windows, loadedAt, failed>>
  BY DEF AskFirst, BeginQuery
<1>b. WindowTypeOK /\ clock \in Nat /\ p \in Askers
  BY WindowTypes, WindowNumbers DEF WindowInv
<1>1. /\ query' \in [Askers -> [step : {"idle", "sent", "read", "sleep"},
                                since : 0..EndOfTime, rows : Sales \cup {NoWindow}]]
      /\ query'[p].step = "sent" /\ query'[p].since = clock
      /\ \A b \in Askers \ {p} : query'[b] = query[b]
  BY <1>a, <1>b, QueryMoves
<1>2. /\ answer' \in [WindowPosts -> {"none", "asking", "open", "not_started", "ended", "unknown"}]
      /\ \A q \in WindowPosts \ {p} : answer'[q] = answer[q]
  BY <1>a, <1>b DEF WindowTypeOK
<1>3. WindowTypeOK'
  BY <1>a, <1>b, <1>1, <1>2 DEF WindowTypeOK
<1>4. ASSUME ~failed PROVE (QueriesAreShort /\ MemoryWasInForce /\ ThreadKeepsPace /\ RefreshIsFresh)'
  <2>1. QueriesAreShort'
    <3>1. clock <= clock /\ clock - clock <= QueryS
      BY <1>b, WindowNumbers
    <3> QED BY <1>4, <1>a, <1>1, <3>1 DEF WindowInv, QueriesAreShort
  <2>2. MemoryWasInForce'
    BY <1>4, <1>a DEF WindowInv, MemoryWasInForce
  <2>3. ThreadKeepsPace'
    BY <1>a DEF ThreadKeepsPace
  <2>4. RefreshIsFresh'
    BY <1>4, <1>a, <1>1, <1>2, WindowNumbers DEF WindowInv, RefreshIsFresh
  <2> QED BY <2>1, <2>2, <2>3, <2>4
<1> QED BY <1>a, <1>3, <1>4 DEF WindowInv

LEMMA AnswerPostKeeps ==
    ASSUME WindowInv, NEW p \in WindowPosts, AnswerPost(p)
    PROVE  WindowInv'
<1>a. /\ answer' = [answer EXCEPT ![p] = WindowState(windows)]
      /\ UNCHANGED <<lazy, clock, edits, windows, loadedAt, query, failed>>
  BY DEF AnswerPost
<1>b. WindowState(windows) \in {"open", "not_started", "ended", "unknown"}
  BY DEF WindowState
<1>1. /\ answer' \in [WindowPosts -> {"none", "asking", "open", "not_started", "ended", "unknown"}]
      /\ \A q \in WindowPosts : answer'[q] = IF q = p THEN WindowState(windows) ELSE answer[q]
  BY <1>a, <1>b DEF WindowInv, WindowTypeOK
<1>2. WindowTypeOK'
  BY <1>a, <1>1 DEF WindowInv, WindowTypeOK
<1>3. ASSUME ~failed PROVE RefreshIsFresh'
  BY <1>3, <1>a, <1>b, <1>1 DEF WindowInv, RefreshIsFresh
<1> QED BY <1>a, <1>2, <1>3 DEF WindowInv, QueriesAreShort, MemoryWasInForce, ThreadKeepsPace

LEMMA EditTimesKeeps ==
    ASSUME WindowInv, NEW s \in Sales, EditTimes(s)
    PROVE  WindowInv'
<1>a. /\ edits' = Append(edits, [from |-> clock, sale |-> s]) /\ Len(edits) <= MaxEdits
      /\ UNCHANGED <<lazy, clock, windows, loadedAt, query, answer, failed>>
  BY DEF EditTimes
<1>b. /\ WindowTypeOK /\ clock \in Nat /\ loadedAt \in Int /\ loadedAt <= clock
      /\ edits \in EditSeq /\ Len(edits) >= 1 /\ Len(edits) \in Nat
      /\ \A a \in Askers : query[a].since \in Nat
  BY WindowTypes DEF WindowInv
<1>1. edits' \in EditSeq /\ Len(edits') = Len(edits) + 1
  <2>1. [from |-> clock, sale |-> s] \in Edit
    BY <1>b DEF WindowTypeOK, Edit
  <2> QED BY <1>a, <1>b, <2>1 DEF EditSeq
<1>2. WindowTypeOK'
  <2>1. Len(edits') \in 1..(1 + MaxEdits)
    BY <1>1, <1>a, <1>b, WindowNumbers
  <2>2. edits' \in Seq([from : 0..EndOfTime, sale : Sales])
    BY <1>1 DEF EditSeq, Edit
  <2> QED BY <1>a, <1>b, <2>1, <2>2 DEF WindowTypeOK
<1>3. \A n \in Int : n <= clock => InForceSince(edits, n) \subseteq InForceSince(edits', n)
  BY <1>a, <1>b, EditsAreKept
<1>4. ASSUME ~failed PROVE (QueriesAreShort /\ MemoryWasInForce /\ ThreadKeepsPace /\ RefreshIsFresh)'
  <2>1. QueriesAreShort'
    BY <1>4, <1>a, <1>b, <1>3 DEF WindowInv, QueriesAreShort
  <2>2. loadedAt - QueryS \in Int /\ loadedAt - QueryS <= clock
    BY <1>b, WindowNumbers
  <2>3. MemoryWasInForce'
    BY <1>4, <1>a, <1>3, <2>2 DEF WindowInv, MemoryWasInForce
  <2>4. ThreadKeepsPace' /\ RefreshIsFresh'
    BY <1>4, <1>a DEF WindowInv, ThreadKeepsPace, RefreshIsFresh
  <2> QED BY <2>1, <2>3, <2>4
<1> QED BY <1>a, <1>2, <1>4 DEF WindowInv

LEMMA SecondPassesKeeps ==
    ASSUME WindowInv, SecondPasses
    PROVE  WindowInv'
<1>a. /\ clock < EndOfTime /\ NobodyLate /\ clock' = clock + 1
      /\ UNCHANGED <<lazy, edits, windows, loadedAt, query, answer, failed>>
  BY DEF SecondPasses
<1>b. /\ WindowTypeOK /\ clock \in Nat /\ loadedAt \in Int /\ loadedAt <= clock
      /\ \A a \in Askers : query[a].since \in Nat
  BY WindowTypes DEF WindowInv
<1>1. WindowTypeOK'
  <2>1. clock' \in 0..EndOfTime /\ loadedAt' \in Int /\ loadedAt' <= clock'
    BY <1>a, <1>b, WindowNumbers
  <2> QED BY <1>a, <1>b, <2>1 DEF WindowTypeOK
<1>2. ASSUME ~failed PROVE (QueriesAreShort /\ MemoryWasInForce /\ ThreadKeepsPace /\ RefreshIsFresh)'
  <2>1. QueriesAreShort'
    <3>1. \A l \in Nat : (l <= clock => l <= clock + 1)
                         /\ (clock - l < QueryS => (clock + 1) - l <= QueryS)
      BY <1>b, WindowNumbers
    <3> QED BY <1>2, <1>a, <1>b, <3>1 DEF WindowInv, QueriesAreShort, NobodyLate
  <2>2. MemoryWasInForce'
    BY <1>2, <1>a DEF WindowInv, MemoryWasInForce
  <2>3. ThreadKeepsPace'
    <3>1. \A l \in Nat : clock - l < RefreshS => (clock + 1) - l <= RefreshS
      BY <1>b, WindowNumbers
    <3> QED BY <1>2, <1>a, <1>b, <3>1, WindowNumbers DEF WindowInv, ThreadKeepsPace, NobodyLate
  <2>4. RefreshIsFresh'
    BY <1>a DEF RefreshIsFresh, NobodyLate
  <2> QED BY <2>1, <2>2, <2>3, <2>4
<1> QED BY <1>a, <1>1, <1>2 DEF WindowInv

LEMMA NextWindowInv == WindowInv /\ [WindowNext]_windowVars => WindowInv'
<1> SUFFICES ASSUME WindowInv, [WindowNext]_windowVars PROVE WindowInv'
  OBVIOUS
<1>1. CASE UNCHANGED windowVars
  BY <1>1 DEF windowVars, WindowInv, WindowTypeOK, QueriesAreShort, MemoryWasInForce,
              ThreadKeepsPace, RefreshIsFresh
<1> QED BY <1>1, ReadRowsKeeps, SetWindowsKeeps, RefreshFailsKeeps, WakeUpKeeps, AskFirstKeeps,
           AnswerPostKeeps, EditTimesKeeps, SecondPassesKeeps DEF WindowNext

\* An answer comes from memory that is at most a period and a query old, and held
\* windows that were at most one more query old when they were installed.
LEMMA StepAnswersRecently ==
    ASSUME WindowInv, [WindowNext]_windowVars, ~failed, NEW p \in WindowPosts,
           answer'[p] \notin {answer[p], "asking"}
    PROVE  \E w \in InForceWithin(RefreshS + 2 * QueryS) : answer'[p] = WindowState(w)
<1>a. /\ clock \in Nat /\ loadedAt \in Int /\ loadedAt <= clock /\ edits \in EditSeq
      /\ \A a \in Askers : query[a].since \in Nat
  BY WindowTypes DEF WindowInv
<1>b. answer \in [WindowPosts -> {"none", "asking", "open", "not_started", "ended", "unknown"}]
  BY DEF WindowInv, WindowTypeOK
<1>1. AnswerPost(p)
  <2>1. answer' # answer
    OBVIOUS
  <2>2. PICK q \in WindowPosts : AskFirst(q) \/ AnswerPost(q)
    BY <2>1 DEF WindowNext, windowVars, ReadRows, SetWindows, RefreshFails, WakeUp, EditTimes,
                SecondPasses
  <2>3. ~AskFirst(q)
    BY <1>b DEF AskFirst
  <2>4. q = p
    BY <2>2, <2>3, <1>b DEF AnswerPost
  <2> QED BY <2>2, <2>3, <2>4
<1>2. answer'[p] = WindowState(windows)
  BY <1>1, <1>b DEF AnswerPost
<1>3. clock - loadedAt <= RefreshS + QueryS
  <2>1. CASE lazy /\ answer[p] = "none"
    BY <1>1, <1>a, <2>1, WindowNumbers DEF AnswerPost, IsStale
  <2>2. CASE answer[p] = "asking"
    BY <1>1, <1>a, <2>2, WindowNumbers DEF AnswerPost, WindowInv, RefreshIsFresh
  <2>3. CASE ~lazy
    <3> DEFINE l == query[Refresher].since
    <3>1. l \in Nat
      BY <1>a, WindowNumbers
    <3>2. \/ l <= loadedAt /\ clock - l <= RefreshS
          \/ clock - l <= QueryS /\ l - loadedAt <= RefreshS
      BY <2>3, WindowNumbers DEF WindowInv, ThreadKeepsPace, QueriesAreShort
    <3> HIDE DEF l
    <3> QED BY <3>1, <3>2, <1>a, WindowNumbers
  <2> QED BY <1>1, <2>1, <2>2, <2>3 DEF AnswerPost
<1>4. windows \in InForceSince(edits, loadedAt - QueryS)
  BY DEF WindowInv, MemoryWasInForce
<1>5. /\ loadedAt - QueryS \in Int /\ clock - (RefreshS + 2 * QueryS) \in Int
      /\ clock - (RefreshS + 2 * QueryS) <= loadedAt - QueryS
  BY <1>3, <1>a, WindowNumbers
<1>6. windows \in InForceSince(edits, clock - (RefreshS + 2 * QueryS))
  BY <1>4, <1>5, <1>a, LookingBack
<1>7. windows \in InForceWithin(RefreshS + 2 * QueryS)
  BY <1>6 DEF InForceSince, InForceWithin
<1> QED BY <1>2, <1>7

\* The middleware of the sale window keeps its types in every behaviour.
THEOREM WindowTypeCorrect == WindowSpec => []WindowTypeOK
<1>1. WindowInv => WindowTypeOK
  BY DEF WindowInv
<1> QED BY <1>1, InitWindowInv, NextWindowInv, PTL DEF WindowSpec

\* As long as no refresh fails, no checkout is let in or refused by times that were
\* changed longer ago than a period and two queries, for any number of checkouts and
\* edits, any period and any bound on a query, with the thread and serverless.
THEOREM AnswersWithinPeriod == WindowSpec => AnswersAreRecent
<1>1. WindowInv /\ [WindowNext]_windowVars =>
         [~failed => \A p \in WindowPosts :
              answer'[p] \notin {answer[p], "asking"} =>
                  \E w \in InForceWithin(RefreshS + 2 * QueryS) :
                      answer'[p] = WindowState(w)]_windowVars
  BY StepAnswersRecently
<1> QED BY <1>1, InitWindowInv, NextWindowInv, PTL DEF WindowSpec, AnswersAreRecent

-----------------------------------------------------------------------------
(* The adaptive window *)

CwndRange == (MinCwnd * Scale)..(MaxCwnd * Scale)

LEMMA CwndBounds ==
    /\ Scale \in Nat \ {0} /\ MinCwnd * Scale \in Nat \ {0} /\ MaxCwnd * Scale \in Nat
    /\ InitCwnd * Scale \in CwndRange /\ MaxCwnd * Scale \in CwndRange
    /\ MinCwnd * Scale \in CwndRange
<1> USE AimdAssumption
<1>1. \A k, m \in Nat : k <= m => k * Scale <= m * Scale
  OBVIOUS
<1>2. \A k \in Nat \ {0} : k * Scale \in Nat \ {0}
  OBVIOUS
<1> QED BY <1>1, <1>2 DEF CwndRange

\* A quotient is the greatest number of times the divisor goes in.
LEMMA Quotient ==
    ASSUME NEW a \in Nat, NEW k \in Nat \ {0}
    PROVE  /\ a \div k \in Nat /\ k * (a \div k) <= a
           /\ \A b \in Nat : a <= k * b => a \div k <= b
<1>1. /\ a \div k \in Nat
      /\ k * (a \div k) <= a
  OBVIOUS
<1>2. ASSUME NEW b \in Nat, a <= k * b, a \div k > b PROVE FALSE
  <2> DEFINE q == a \div k
  <2>1. q \in Nat /\ k * q <= a /\ q >= b + 1
    BY <1>1, <1>2
  <2> HIDE DEF q
  <2>2. k * q >= k * (b + 1)
    BY <2>1
  <2>3. k * (b + 1) = k * b + k
    OBVIOUS
  <2> QED BY <1>2, <2>1, <2>2, <2>3
<1> QED BY <1>1, <1>2

\* What a database completes is well formed.
LEMMA CompletionsTyped ==
    ASSUME AimdTypeOK, NEW r \in Completions PROVE r \in Records
<1> USE AimdAssumption
<1>1. Slots(cwnd) \in Nat
  <2>1. cwnd \in Nat
    BY CwndBounds DEF AimdTypeOK, CwndRange
  <2> QED BY <2>1, Quotient, CwndBounds DEF Slots
<1>2. /\ world.rate \in Nat /\ world.knee \in Nat
      /\ world.kind \in {"any", "knee", "slows"}
  BY DEF AimdTypeOK
<1> DEFINE full == world.rate * world.knee
           open == world.rate * Slots(cwnd)
<1>3. full \in Nat /\ open \in Nat
  BY <1>1, <1>2
<1>4. ASSUME NEW f \in Nat, NEW s \in Nat, NEW l \in Nat PROVE Recorded(f, s, l) \in Records
  BY DEF Recorded, Records
<1>5. CASE world.kind = "any"
  <2>1. r \in Arbitrary
    BY <1>5 DEF Completions
  <2>2. MinSamples \in Nat
    OBVIOUS
  <2> QED BY <1>4, <2>1, <2>2 DEF Arbitrary, Silence
<1>6. CASE world.kind = "knee"
  <2>1. r = Recorded(open, 0, 0) \/ r = Recorded(0, full, 0)
    BY <1>6 DEF Completions, Knee
  <2> QED BY <1>3, <1>4, <2>1
<1>7. CASE world.kind = "slows"
  <2>1. r = Recorded(0, open, 0) \/ r = Recorded(open, 0, 0)
    BY <1>7 DEF Completions, Slows
  <2> QED BY <1>3, <1>4, <2>1
<1> QED BY <1>2, <1>5, <1>6, <1>7

LEMMA TogetherTyped ==
    ASSUME NEW a \in Records, NEW b \in Records
    PROVE  /\ Together(a, b) \in Records
           /\ KindsOf(Together(a, b)) = KindsOf(a) \cup KindsOf(b)
<1>1. /\ a.fast \in Nat /\ a.slow \in Nat /\ a.lost \in Nat
      /\ b.fast \in Nat /\ b.slow \in Nat /\ b.lost \in Nat
  BY DEF Records
<1>2. Together(a, b) \in Records
  BY <1>1 DEF Together, Recorded, Records
<1>3. \A k \in Kinds : Together(a, b)[k] = a[k] + b[k] /\ a[k] \in Nat /\ b[k] \in Nat
  BY <1>1 DEF Together, Recorded, Kinds
<1> QED BY <1>2, <1>3 DEF KindsOf

LEMMA SilenceTyped == Silence \in Records /\ KindsOf(Silence) = {}
<1>1. \A k \in Kinds : Silence[k] = 0
  BY DEF Silence, Recorded, Kinds
<1>2. Silence \in Records
  BY DEF Silence, Recorded, Records
<1> QED BY <1>1, <1>2 DEF KindsOf

Windows == [n : Nat, q : Latencies, lost : Nat, secs : {1, 2}]

\* What the leader may read, apart from what it means: some records, one of whose
\* kinds has the latency that is judged once there are enough of them.
ReadOf(w, r) ==
    /\ w \in Windows
    /\ Enough(w) => \E k \in KindsOf(r) \ {"lost"} : w.q = Ms(k)
    /\ w.lost > 0 => "lost" \in KindsOf(r)

LEMMA StatsAreOf ==
    ASSUME AimdTypeOK, NEW r \in Records, NEW k \in {1, 2} PROVE ReadOf(Stats(r, k), r)
<1>1. r.fast \in Nat /\ r.slow \in Nat /\ r.lost \in Nat /\ MinSamples \in Nat \ {0}
  BY AimdAssumption DEF Records
<1>2. world.fast \in Latencies /\ world.slow \in Latencies
  BY AimdAssumption DEF AimdTypeOK
<1>3. Stats(r, k) \in Windows
  BY <1>1, <1>2 DEF Stats, Quantile, Windows
<1>4. ASSUME Enough(Stats(r, k)) PROVE \E j \in KindsOf(r) \ {"lost"} : Stats(r, k).q = Ms(j)
  <2>1. r.fast + r.slow > 0
    BY <1>1, <1>4 DEF Enough, Stats
  <2>2. CASE 10 * r.fast >= 9 * (r.fast + r.slow)
    <3>1. r["fast"] > 0
      BY <1>1, <2>1, <2>2
    <3>2. Stats(r, k).q = Ms("fast")
      BY <2>2 DEF Stats, Quantile, Ms
    <3> QED BY <3>1, <3>2 DEF KindsOf, Kinds
  <2>3. CASE ~(10 * r.fast >= 9 * (r.fast + r.slow))
    <3>1. r["slow"] > 0
      BY <1>1, <2>3
    <3>2. Stats(r, k).q = Ms("slow")
      BY <2>3 DEF Stats, Quantile, Ms
    <3> QED BY <3>1, <3>2 DEF KindsOf, Kinds
  <2> QED BY <2>2, <2>3
<1>5. Stats(r, k).lost > 0 => "lost" \in KindsOf(r)
  BY DEF Stats, KindsOf, Kinds
<1> QED BY <1>3, <1>4, <1>5 DEF ReadOf

\* The seconds that began after the last decrease hold fresh checkouts only.
OnlyFresh ==
    /\ since # 0 => KindsOf(thisSecond) \subseteq fresh
    /\ since = 2 => KindsOf(lastSecond) \subseteq fresh

LEMMA WindowsRead ==
    ASSUME AimdTypeOK, OnlyFresh
    PROVE  \E r \in Records : ReadOf(ReadWindow, r) /\ KindsOf(r) \subseteq fresh
<1>1. thisSecond \in Records /\ lastSecond \in Records /\ since \in {0, 1, 2}
  BY DEF AimdTypeOK
<1>2. CASE since = 2
  <2>1. Together(lastSecond, thisSecond) \in Records
        /\ KindsOf(Together(lastSecond, thisSecond)) \subseteq fresh
    BY <1>1, <1>2, TogetherTyped DEF OnlyFresh
  <2>2. ReadWindow = Stats(Together(lastSecond, thisSecond), 2)
    BY <1>2 DEF ReadWindow, TwoSeconds
  <2> QED BY <2>1, <2>2, StatsAreOf
<1>3. CASE since = 1
  <2>1. ReadWindow = Stats(thisSecond, 1) /\ KindsOf(thisSecond) \subseteq fresh
    BY <1>3 DEF ReadWindow, OnlyFresh
  <2> QED BY <1>1, <2>1, StatsAreOf
<1>4. CASE since = 0
  <2>1. ReadWindow = Stats(Silence, 1)
    BY <1>4 DEF ReadWindow
  <2> QED BY <2>1, SilenceTyped, StatsAreOf
<1> QED BY <1>1, <1>2, <1>3, <1>4

\* Halving, doubling and adding leave the window between its bounds.
LEMMA WindowMovesInBounds ==
    ASSUME NEW c \in CwndRange
    PROVE  /\ Halved(c) \in CwndRange /\ Greater(MinCwnd * Scale, c) \in CwndRange
           /\ Lesser(2 * c, MaxCwnd * Scale) \in CwndRange
           /\ \A k \in Nat : Lesser(MaxCwnd * Scale, c + k) \in CwndRange
           /\ Greater(Scale, c \div 20) \in Nat
<1> DEFINE L == MinCwnd * Scale
           H == MaxCwnd * Scale
<1>1. L \in Nat /\ H \in Nat /\ L \in L..H /\ H \in L..H /\ c \in L..H /\ Scale \in Nat
  BY CwndBounds DEF CwndRange
<1> HIDE DEF L, H
<1>2. /\ Greater(L, c \div 2) \in L..H /\ Greater(L, c) \in L..H
      /\ Lesser(2 * c, H) \in L..H
      /\ \A k \in Nat : Lesser(H, c + k) \in L..H
      /\ Greater(Scale, c \div 20) \in Nat
  BY <1>1 DEF Greater, Lesser
<1> QED BY <1>2 DEF L, H, CwndRange, Halved

\* A proportional cut never raises the window.
LEMMA CutsLower ==
    ASSUME NEW c \in CwndRange, NEW d \in Nat, NEW goal \in Nat, d > goal
    PROVE  Greater(MinCwnd * Scale,
                   Greater((c * (10 * d - 4 * (d - goal))) \div (10 * d), c \div 2)) \in CwndRange
<1> DEFINE L == MinCwnd * Scale
           H == MaxCwnd * Scale
           k == 10 * d
           m == 10 * d - 4 * (d - goal)
<1>1. L \in Nat /\ H \in Nat /\ c \in L..H /\ c \in Nat /\ L <= H
  BY CwndBounds DEF CwndRange
<1>2. k \in Nat \ {0} /\ m \in Nat /\ m <= k
  OBVIOUS
<1> HIDE DEF L, H, k, m
<1>3. c * m \in Nat /\ c * m <= k * c
  BY <1>1, <1>2
<1>4. (c * m) \div k \in Nat /\ (c * m) \div k <= c
  BY <1>1, <1>2, <1>3, Quotient
<1> DEFINE cut == (c * m) \div k
<1>5. cut \in Nat /\ cut <= c
  BY <1>4
<1> HIDE DEF cut
<1>6. Greater(L, Greater(cut, c \div 2)) \in L..H
  BY <1>1, <1>5 DEF Greater
<1> QED BY <1>6 DEF L, H, k, m, cut, CwndRange

\* What leader_tick decides.
LawTypes ==
    /\ cwnd \in CwndRange /\ ssthresh \in CwndRange
    /\ phase \in {"slow_start", "avoid"}
    /\ baseline \in Latencies \cup {Unset}
    /\ prev \in Nat /\ plateau \in 0..PlateauRounds
    /\ signal \in {"init", "latency", "loss", "stall", "idle", "full_pipe",
                   "slow_start", "increase", "delay", "no_data"}
    /\ since \in 0..2 /\ fresh \subseteq Kinds

\* In slow start the plateau has not been reached.
AimdInv == AimdTypeOK /\ OnlyFresh /\ (phase = "slow_start" => plateau < PlateauRounds)

LEMMA BaselinesTyped ==
    ASSUME AimdTypeOK, NEW w \in Windows
    PROVE  BestEver(w) \in Latencies \cup {Unset} /\ Rebased(w) \in Latencies \cup {Unset}
  BY DEF AimdTypeOK, Windows, BestEver, Rebased

LEMMA DecreaseTyped ==
    ASSUME AimdTypeOK, NEW w \in Windows, NEW i, Decrease(w, i) PROVE LawTypes'
<1>1. cwnd \in CwndRange
  BY DEF AimdTypeOK, CwndRange
<1>2. Halved(cwnd) \in CwndRange /\ BestEver(w) \in Latencies \cup {Unset}
  BY <1>1, WindowMovesInBounds, BaselinesTyped
<1>3. signal' \in {"latency", "loss", "stall"}
  BY DEF Decrease
<1> QED BY <1>2, <1>3 DEF Decrease, LawTypes, AimdTypeOK

LEMMA ForgetAllTyped ==
    ASSUME AimdTypeOK, NEW w, NEW i, NEW d, ForgetAll(w, i, d) PROVE LawTypes'
<1>1. 0 \in 0..PlateauRounds /\ 0 \in Nat
  BY AimdAssumption
<1> QED BY <1>1, CwndBounds DEF ForgetAll, LawTypes, Unset

LEMMA SlowStartTyped ==
    ASSUME AimdInv, NEW w \in Windows, NEW i, NEW d, SlowStart(w, i, d)
    PROVE  LawTypes' /\ (phase' = "slow_start" => plateau' < PlateauRounds)
<1>1. cwnd \in CwndRange /\ ssthresh \in CwndRange
  BY DEF AimdInv, AimdTypeOK, CwndRange
<1>2. Rebased(w) \in Latencies \cup {Unset}
  BY BaselinesTyped DEF AimdInv
<1>3. Throughput(w) \in Nat
  BY DEF Throughput, Windows
<1>4. Flat(w) \in 0..PlateauRounds /\ PlateauRounds \in Nat
  <2>1. plateau \in Nat /\ plateau < PlateauRounds /\ PlateauRounds \in Nat
    BY AimdAssumption DEF SlowStart, AimdInv, AimdTypeOK
  <2> QED BY <2>1 DEF Flat
<1>5. ASSUME Flat(w) >= PlateauRounds
      PROVE  cwnd' \in CwndRange /\ ssthresh' \in CwndRange
             /\ phase' = "avoid" /\ signal' = "full_pipe"
  BY <1>1, <1>5, WindowMovesInBounds DEF SlowStart
<1>6. ASSUME ~(Flat(w) >= PlateauRounds)
      PROVE  cwnd' \in CwndRange /\ ssthresh' \in CwndRange
             /\ phase' \in {"slow_start", "avoid"} /\ signal' = "slow_start"
  <2>1. cwnd' \in CwndRange
    BY <1>1, <1>6, WindowMovesInBounds DEF SlowStart
  <2>2. phase' \in {phase, "avoid"} /\ signal' = "slow_start" /\ ssthresh' = ssthresh
    BY <1>6 DEF SlowStart
  <2> QED BY <1>1, <2>1, <2>2 DEF AimdInv, AimdTypeOK
<1>7. plateau' = Flat(w) /\ prev' = Throughput(w) /\ baseline' = Rebased(w)
  BY DEF SlowStart
<1>8. /\ cwnd' \in CwndRange /\ ssthresh' \in CwndRange
      /\ phase' \in {"slow_start", "avoid"} /\ signal' \in {"full_pipe", "slow_start"}
  BY <1>5, <1>6
<1>9. phase' = "slow_start" => plateau' < PlateauRounds
  BY <1>4, <1>5, <1>7
<1>10. baseline' \in Latencies \cup {Unset} /\ prev' \in Nat /\ plateau' \in 0..PlateauRounds
  BY <1>2, <1>3, <1>4, <1>7
<1>11. since' \in 0..2 /\ fresh' \subseteq Kinds
  BY DEF SlowStart, AimdInv, AimdTypeOK
<1> QED BY <1>7, <1>8, <1>9, <1>10, <1>11 DEF LawTypes

LEMMA IncreaseTyped ==
    ASSUME AimdTypeOK, NEW w \in Windows, NEW i, NEW d, Increase(w, i, d) PROVE LawTypes'
<1>1. cwnd \in CwndRange
  BY DEF AimdTypeOK, CwndRange
<1>2. cwnd' \in CwndRange /\ Rebased(w) \in Latencies \cup {Unset}
  BY <1>1, WindowMovesInBounds, BaselinesTyped DEF Increase
<1> QED BY <1>2 DEF Increase, LawTypes, AimdTypeOK, CwndRange

LEMMA BreakwaterTyped ==
    ASSUME AimdTypeOK, NEW w \in Windows, BreakwaterStep(w) PROVE LawTypes'
<1>1. cwnd \in CwndRange /\ Scale \in Nat
  BY CwndBounds DEF AimdTypeOK, CwndRange
<1>2. BestEver(w) \in Latencies \cup {Unset}
  BY BaselinesTyped
<1> DEFINE goal == Greater(TargetMin, 2 * BestEver(w))
<1>3. goal \in Nat /\ w.q \in Nat
  <2>1. Latencies \cup {Unset} \subseteq Nat /\ TargetMin \in Nat
    BY AimdAssumption DEF Unset
  <2>2. BestEver(w) \in Nat /\ w.q \in Nat
    BY <1>2, <2>1 DEF Windows
  <2> QED BY <2>1, <2>2 DEF Greater
<1>4. /\ signal' \in {"no_data", "increase", "delay"}
      /\ \/ cwnd' = cwnd
         \/ cwnd' = Lesser(MaxCwnd * Scale, cwnd + Scale)
         \/ /\ w.q > goal
            /\ cwnd' = Greater(MinCwnd * Scale,
                             Greater((cwnd * (10 * w.q - 4 * (w.q - goal))) \div (10 * w.q),
                                     cwnd \div 2))
  BY DEF BreakwaterStep
<1> HIDE DEF goal
<1>5. Lesser(MaxCwnd * Scale, cwnd + Scale) \in CwndRange
  BY <1>1, WindowMovesInBounds
<1>6. cwnd' \in CwndRange
  BY <1>1, <1>3, <1>4, <1>5, CutsLower
<1>7. baseline' = BestEver(w) /\ UNCHANGED <<ssthresh, phase, prev, plateau, since, fresh>>
  BY DEF BreakwaterStep
<1> QED BY <1>2, <1>4, <1>6, <1>7 DEF LawTypes, AimdTypeOK, CwndRange

\* The leader's step leaves the plateau below its limit and what is fresh right.
LEMMA LawKeeps ==
    ASSUME AimdInv, NEW w \in Windows, NEW i, NEW d,
           AimdStep(w, i, d) \/ BreakwaterStep(w), UNCHANGED <<thisSecond, lastSecond>>
    PROVE  LawTypes' /\ OnlyFresh' /\ (phase' = "slow_start" => plateau' < PlateauRounds)
<1>a. AimdTypeOK
  BY DEF AimdInv
<1>1. CASE Decrease(w, i)
  <2>1. phase' = "avoid" /\ since' = 0
    BY <1>1 DEF Decrease
  <2> QED BY <1>1, <1>a, <2>1, DecreaseTyped DEF OnlyFresh
<1>2. CASE ForgetAll(w, i, d)
  <2>1. plateau' < PlateauRounds /\ fresh' = Kinds
    BY <1>2, AimdAssumption DEF ForgetAll
  <2>2. KindsOf(thisSecond') \subseteq Kinds /\ KindsOf(lastSecond') \subseteq Kinds
    BY DEF KindsOf
  <2>3. OnlyFresh'
    BY <2>1, <2>2 DEF OnlyFresh, KindsOf
  <2> QED BY <1>2, <1>a, <2>1, <2>3, ForgetAllTyped
<1>3. CASE SlowStart(w, i, d)
  <2>1. UNCHANGED <<since, fresh>>
    BY <1>3 DEF SlowStart
  <2>2. OnlyFresh'
    BY <2>1 DEF AimdInv, OnlyFresh, KindsOf
  <2> QED BY <1>3, <2>2, SlowStartTyped
<1>4. CASE Increase(w, i, d) \/ BreakwaterStep(w)
  <2>1. UNCHANGED <<since, fresh, phase, plateau>>
    BY <1>4 DEF Increase, BreakwaterStep
  <2>2. OnlyFresh'
    BY <2>1 DEF AimdInv, OnlyFresh, KindsOf
  <2> QED BY <1>4, <1>a, <2>1, <2>2, IncreaseTyped, BreakwaterTyped DEF AimdInv
<1> QED BY <1>1, <1>2, <1>3, <1>4 DEF AimdStep

LEMMA LeaderStepKeeps == ASSUME AimdInv, LeaderStep PROVE AimdInv'
<1>a. AimdTypeOK /\ OnlyFresh
  BY DEF AimdInv
<1>1. PICK load \in Loads :
          AimdStep(ReadWindow, load[1], load[2]) \/ BreakwaterStep(ReadWindow)
  BY DEF LeaderStep
<1>2. ReadWindow \in Windows
  BY <1>a, WindowsRead DEF ReadOf
<1>3. /\ UNCHANGED <<world, part, thisSecond, lastSecond, slowed>>
      /\ enough' = Enough(ReadWindow) /\ age' = 0
  BY DEF LeaderStep, timeVars
<1>4. LawTypes' /\ OnlyFresh' /\ (phase' = "slow_start" => plateau' < PlateauRounds)
  BY <1>1, <1>2, <1>3, LawKeeps
<1>5. age' \in 0..(Parts + MaxLate) /\ enough' \in BOOLEAN
  BY <1>3, AimdAssumption DEF Enough
<1> QED BY <1>a, <1>3, <1>4, <1>5 DEF LawTypes, AimdInv, AimdTypeOK, CwndRange

LEMMA PartPassesKeeps == ASSUME AimdInv, PartPasses PROVE AimdInv'
<1>a. AimdTypeOK /\ OnlyFresh
  BY DEF AimdInv
<1>1. PICK r \in Completions :
          /\ fresh' = fresh \cup KindsOf(r)
          /\ IF part + 1 = Parts
             THEN /\ part' = 0 /\ thisSecond' = Silence
                  /\ lastSecond' = Together(thisSecond, r)
                  /\ since' = Lesser(2, since + 1)
             ELSE /\ part' = part + 1 /\ thisSecond' = Together(thisSecond, r)
                  /\ UNCHANGED <<lastSecond, since>>
  BY DEF PartPasses
<1>2. /\ age < Parts + MaxLate /\ age' = age + 1
      /\ slowed' \in {slowed, world.kind = "slows"}
      /\ UNCHANGED <<world, cwnd, ssthresh, phase, baseline, prev, plateau, signal, enough>>
  BY DEF PartPasses
<1>3. thisSecond \in Records /\ lastSecond \in Records /\ fresh \subseteq Kinds
      /\ since \in 0..2 /\ part \in 0..(Parts - 1) /\ Parts \in Nat \ {0}
  BY <1>a, AimdAssumption DEF AimdTypeOK
<1>4. r \in Records /\ KindsOf(r) \subseteq Kinds
  BY <1>a, CompletionsTyped DEF KindsOf
<1>5. /\ Together(thisSecond, r) \in Records
      /\ KindsOf(Together(thisSecond, r)) = KindsOf(thisSecond) \cup KindsOf(r)
  BY <1>3, <1>4, TogetherTyped
<1>6. fresh' \subseteq Kinds
  BY <1>1, <1>3, <1>4
<1>7. age' \in 0..(Parts + MaxLate) /\ slowed' \in BOOLEAN
  <2>1. age \in Nat /\ MaxLate \in Nat /\ slowed \in BOOLEAN /\ (world.kind = "slows") \in BOOLEAN
    BY <1>a, AimdAssumption DEF AimdTypeOK
  <2>2. age' \in 0..(Parts + MaxLate)
    BY <1>2, <1>3, <2>1
  <2> QED BY <1>2, <2>1, <2>2
<1>8. CASE part + 1 = Parts
  <2>1. /\ part' = 0 /\ thisSecond' = Silence /\ lastSecond' = Together(thisSecond, r)
        /\ since' = Lesser(2, since + 1)
    BY <1>1, <1>8
  <2>2. since' \in 0..2 /\ (since' = 2 => since # 0)
    BY <1>3, <2>1 DEF Lesser
  <2>3. KindsOf(thisSecond)' = {} /\ thisSecond' \in Records
    BY <2>1, SilenceTyped DEF KindsOf
  <2>4. KindsOf(lastSecond)' = KindsOf(thisSecond) \cup KindsOf(r)
    BY <1>5, <2>1 DEF KindsOf
  <2>5. OnlyFresh'
    BY <1>a, <1>1, <2>2, <2>3, <2>4 DEF OnlyFresh
  <2>6. part' \in 0..(Parts - 1) /\ lastSecond' \in Records
    BY <1>3, <1>5, <2>1
  <2> QED BY <1>a, <1>2, <1>6, <1>7, <2>2, <2>3, <2>5, <2>6 DEF AimdInv, AimdTypeOK
<1>9. CASE part + 1 # Parts
  <2>1. /\ part' = part + 1 /\ thisSecond' = Together(thisSecond, r)
        /\ UNCHANGED <<lastSecond, since>>
    BY <1>1, <1>9
  <2>2. KindsOf(thisSecond)' = KindsOf(thisSecond) \cup KindsOf(r)
    BY <1>5, <2>1 DEF KindsOf
  <2>3. KindsOf(lastSecond)' = KindsOf(lastSecond)
    BY <2>1 DEF KindsOf
  <2>4. OnlyFresh'
    BY <1>a, <1>1, <2>1, <2>2, <2>3 DEF OnlyFresh
  <2>5. part' \in 0..(Parts - 1) /\ thisSecond' \in Records
    BY <1>3, <1>5, <1>9, <2>1
  <2> QED BY <1>a, <1>2, <1>6, <1>7, <2>1, <2>4, <2>5 DEF AimdInv, AimdTypeOK
<1> QED BY <1>8, <1>9

LEMMA InitAimdInv == AimdInit => AimdInv
<1> SUFFICES ASSUME AimdInit PROVE AimdInv
  OBVIOUS
<1>1. 0 \in 0..PlateauRounds /\ 0 < PlateauRounds /\ 0 \in 0..(Parts - 1)
      /\ Parts \in 0..(Parts + MaxLate)
  BY AimdAssumption
<1>2. cwnd \in CwndRange /\ ssthresh \in CwndRange
  BY CwndBounds DEF AimdInit
<1>3. Silence \in Records /\ KindsOf(thisSecond) = {} /\ KindsOf(lastSecond) = {}
  BY SilenceTyped DEF AimdInit
<1>4. AimdTypeOK
  <2>1. /\ world \in Worlds /\ slowed = FALSE /\ enough = FALSE
        /\ prev = 0 /\ plateau = 0 /\ part = 0 /\ age = Parts /\ since = 2
        /\ fresh = Kinds
    BY DEF AimdInit
  <2>4. prev \in Nat /\ plateau \in 0..PlateauRounds /\ part \in 0..(Parts - 1)
    BY <1>1, <2>1
  <2>6. slowed \in BOOLEAN /\ enough \in BOOLEAN
    BY <2>1
  <2>7. since \in 0..2 /\ fresh \subseteq Kinds
    BY <2>1
  <2>5. age \in 0..(Parts + MaxLate)
    BY <1>1, <2>1
  <2>2. thisSecond \in Records /\ lastSecond \in Records
    BY <1>3 DEF AimdInit
  <2>3. /\ phase \in {"slow_start", "avoid"} /\ baseline \in Latencies \cup {Unset}
        /\ signal = "init"
    BY DEF AimdInit
  <2> QED BY <1>2, <2>1, <2>2, <2>3, <2>4, <2>5, <2>6, <2>7
         DEF AimdTypeOK, CwndRange
<1> QED BY <1>1, <1>3, <1>4 DEF AimdInit, AimdInv, OnlyFresh

LEMMA NextAimdInv == ASSUME AimdInv, [AimdNext]_aimdVars PROVE AimdInv'
<1>1. CASE UNCHANGED aimdVars
  BY <1>1 DEF AimdInv, AimdTypeOK, OnlyFresh, KindsOf, aimdVars, stateVars, timeVars
<1> QED BY <1>1, LeaderStepKeeps, PartPassesKeeps DEF AimdNext

\* The window stays between its bounds and the plateau counter below its limit
\* under both laws, for any bounds, parts of a slot, targets and databases.
THEOREM AimdTypeCorrect == AimdSpec => []AimdTypeOK
<1>1. AimdInv => AimdTypeOK
  BY DEF AimdInv
<1> QED BY <1>1, InitAimdInv, NextAimdInv, PTL DEF AimdSpec

\* A step that cuts the window for latency or for loss has judged records that hold
\* fresh checkouts only, and one of them is what it cuts for.
LEMMA CutsAreForFresh ==
    ASSUME AimdInv, AimdNext, age' = 0, world.law = "aimd"
    PROVE  /\ signal' = "latency" => \E k \in fresh \ {"lost"} : Ms(k) > Target(baseline')
           /\ signal' = "loss" => "lost" \in fresh
<1>1. LeaderStep
  <2>1. ~PartPasses
    <3>1. age + 1 # 0
      BY DEF AimdInv, AimdTypeOK
    <3> QED BY <3>1 DEF PartPasses
  <2> QED BY <2>1 DEF AimdNext
<1> DEFINE w == ReadWindow
<1>2. PICK load \in Loads : AimdStep(w, load[1], load[2])
  BY <1>1 DEF LeaderStep, BreakwaterStep
<1>3. PICK r \in Records : ReadOf(w, r) /\ KindsOf(r) \subseteq fresh
  BY WindowsRead DEF AimdInv
<1> HIDE DEF w
<1>4. ASSUME signal' \in {"latency", "loss"} PROVE Decrease(w, load[1])
  BY <1>2, <1>4 DEF AimdStep, ForgetAll, SlowStart, Increase
<1>5. ASSUME signal' = "latency"
      PROVE  \E k \in fresh \ {"lost"} : Ms(k) > Target(baseline')
  <2>1. OverTarget(w) /\ baseline' = BestEver(w)
    BY <1>4, <1>5 DEF Decrease
  <2>2. PICK k \in KindsOf(r) \ {"lost"} : w.q = Ms(k)
    BY <1>3, <2>1 DEF ReadOf, OverTarget
  <2> QED BY <1>3, <2>1, <2>2 DEF OverTarget
<1>6. ASSUME signal' = "loss" PROVE "lost" \in fresh
  <2>1. Lossy(w)
    BY <1>4, <1>6 DEF Decrease
  <2>2. w.lost > 0
    <3>1. w.n \in Nat /\ w.lost \in Nat
      BY <1>3 DEF ReadOf, Windows
    <3> QED BY <2>1, <3>1 DEF Lossy
  <2> QED BY <1>3, <2>2 DEF ReadOf
<1> QED BY <1>5, <1>6

\* No checkout costs two decreases, whatever the database does and wherever in their
\* seconds the leader's steps fall, for any bounds, targets, numbers of samples and
\* parts of a second.
THEOREM OneEventCostsOne == AimdSpec => OneEventOnePenalty
<1>1. AimdInv /\ [AimdNext]_aimdVars =>
          [age' = 0 /\ world.law = "aimd" =>
             /\ signal' = "latency" => \E k \in fresh \ {"lost"} : Ms(k) > Target(baseline')
             /\ signal' = "loss" => "lost" \in fresh]_aimdVars
  BY CutsAreForFresh
<1> QED BY <1>1, InitAimdInv, NextAimdInv, PTL DEF AimdSpec, OneEventOnePenalty

-----------------------------------------------------------------------------
(* The show estimator *)

LEMMA EstimatorTypeInit == EstimatorInit => EstimatorTypeOK
<1> SUFFICES ASSUME EstimatorInit PROVE EstimatorTypeOK
  OBVIOUS
<1>1. Granted = {} /\ Shown = {}
  BY DEF EstimatorInit, Granted, Shown
<1>2. startedAt \in [Granted -> 0..time] /\ showDelay \in [Shown -> 0..(TokenTtl - 1)]
  BY <1>1 DEF EstimatorInit
<1>3. time \in 0..LastSecond
  BY ShowEstimatorAssumption DEF EstimatorInit
<1> QED BY <1>1, <1>2, <1>3 DEF EstimatorInit, EstimatorTypeOK

\* Writing one entry adds it to the domain and leaves the others.
LEMMA PutEntry ==
    ASSUME NEW S, NEW V, NEW f \in [S -> V], NEW b, NEW v \in V
    PROVE  /\ DOMAIN Put(f, b, v) = S \cup {b}
           /\ Put(f, b, v) \in [S \cup {b} -> V]
BY DEF Put

LEMMA ClockStarts ==
    ASSUME EstimatorTypeOK, NEW b \in Guests, startedAt' = Put(startedAt, b, time),
           UNCHANGED <<time, showDelay, seed>>
    PROVE  /\ Granted' = Granted \cup {b}
           /\ startedAt' \in [Granted' -> 0..time']
<1>1. time \in 0..time
  BY ShowEstimatorAssumption DEF EstimatorTypeOK
<1>2. startedAt \in [Granted -> 0..time]
  BY DEF EstimatorTypeOK
<1>3. /\ DOMAIN Put(startedAt, b, time) = Granted \cup {b}
      /\ Put(startedAt, b, time) \in [Granted \cup {b} -> 0..time]
  BY <1>1, <1>2, PutEntry, Zenon
<1>4. Granted' = Granted \cup {b}
  BY <1>3 DEF Granted
<1> QED BY <1>3, <1>4

LEMMA EstimatorTypeStep ==
    ASSUME EstimatorTypeOK, [EstimatorNext]_showVars
    PROVE  EstimatorTypeOK'
<1>a. /\ time \in 0..LastSecond
      /\ Granted \subseteq Guests /\ startedAt \in [Granted -> 0..time]
      /\ toldOf \subseteq Granted
      /\ Shown \subseteq toldOf /\ showDelay \in [Shown -> 0..(TokenTtl - 1)]
      /\ seed \in Seeds
      /\ LastSecond \in Nat /\ TokenTtl \in Nat \ {0}
  BY ShowEstimatorAssumption DEF EstimatorTypeOK
<1>1. ASSUME NEW b \in Guests, GrantToken(b) PROVE EstimatorTypeOK'
  <2>1. Granted' = Granted \cup {b} /\ startedAt' \in [Granted' -> 0..time']
    BY <1>1, ClockStarts DEF GrantToken
  <2>2. Shown' = Shown
    BY <1>1 DEF GrantToken, Shown
  <2> QED BY <1>1, <1>a, <2>1, <2>2 DEF GrantToken, EstimatorTypeOK
<1>2. ASSUME NEW b \in Guests, NotifyBuyer(b) PROVE EstimatorTypeOK'
  <2>1. Granted' = Granted \cup {b} /\ startedAt' \in [Granted' -> 0..time']
    BY <1>2, ClockStarts DEF NotifyBuyer
  <2>2. Shown' = Shown
    BY <1>2 DEF NotifyBuyer, Shown
  <2>3. toldOf' = toldOf \cup {b} /\ UNCHANGED <<time, showDelay, seed>>
    BY <1>2 DEF NotifyBuyer
  <2> QED BY <1>a, <2>1, <2>2, <2>3 DEF EstimatorTypeOK
<1>3. ASSUME NEW b \in Guests, ShowUp(b) PROVE EstimatorTypeOK'
  <2>1. b \in toldOf /\ b \in Granted
    BY <1>3, <1>a DEF ShowUp
  <2>2. startedAt[b] \in 0..time
    BY <1>a, <2>1
  <2>3. time - startedAt[b] \in 0..(TokenTtl - 1)
    BY <1>3, <1>a, <2>2 DEF ShowUp
  <2>7. showDelay' = Put(showDelay, b, time - startedAt[b])
    BY <1>3 DEF ShowUp
  <2>8. /\ DOMAIN showDelay' = Shown \cup {b}
        /\ showDelay' \in [Shown \cup {b} -> 0..(TokenTtl - 1)]
    <3> DEFINE d == time - startedAt[b]
              delays == 0..(TokenTtl - 1)
    <3>1. d \in delays /\ showDelay \in [Shown -> delays] /\ showDelay' = Put(showDelay, b, d)
      BY <1>a, <2>3, <2>7
    <3> HIDE DEF d, delays
    <3>2. /\ DOMAIN Put(showDelay, b, d) = Shown \cup {b}
          /\ Put(showDelay, b, d) \in [Shown \cup {b} -> delays]
      BY <3>1, PutEntry, Zenon
    <3> QED BY <3>1, <3>2 DEF delays
  <2>4. /\ Shown' = Shown \cup {b}
        /\ showDelay' \in [Shown' -> 0..(TokenTtl - 1)]
    BY <2>8 DEF Shown
  <2>5. Granted' = Granted
    BY <1>3 DEF ShowUp, Granted
  <2>6. UNCHANGED <<time, startedAt, toldOf, seed>>
    BY <1>3 DEF ShowUp
  <2> QED BY <1>a, <2>1, <2>4, <2>5, <2>6 DEF EstimatorTypeOK
<1>4. ASSUME EstimatorTick PROVE EstimatorTypeOK'
  <2>1. /\ time' = time + 1 /\ time < LastSecond
        /\ UNCHANGED <<startedAt, toldOf, showDelay, seed>>
    BY <1>4 DEF EstimatorTick
  <2>2. Granted' = Granted /\ Shown' = Shown
    BY <2>1 DEF Granted, Shown
  <2>3. time' \in 0..LastSecond /\ 0..time \subseteq 0..time'
    BY <1>a, <2>1
  <2>4. startedAt' \in [Granted' -> 0..time']
    BY <1>a, <2>1, <2>2, <2>3
  <2> QED BY <1>a, <2>1, <2>2, <2>3, <2>4 DEF EstimatorTypeOK
<1>5. CASE UNCHANGED showVars
  <2>1. UNCHANGED <<time, startedAt, toldOf, showDelay, seed>>
    BY <1>5 DEF showVars
  <2>2. Granted' = Granted /\ Shown' = Shown
    BY <2>1 DEF Granted, Shown
  <2> QED BY <1>a, <2>1, <2>2 DEF EstimatorTypeOK
<1> QED BY <1>1, <1>2, <1>3, <1>4, <1>5 DEF EstimatorNext

\* The Redis hashes of the estimator stay well formed: only a buyer who has been
\* told has a show delay, and it is below the life of an admission.
THEOREM EstimatorTypeCorrect == EstimatorSpec => []EstimatorTypeOK
BY EstimatorTypeInit, EstimatorTypeStep, PTL DEF EstimatorSpec

\* The buyers, the sample and the pairs counted are finite.
LEMMA CountsAreNat ==
    ASSUME EstimatorTypeOK, NEW B \in SUBSET Granted
    PROVE  /\ IsFiniteSet(B) /\ Cardinality(B) \in Nat
           /\ IsFiniteSet(DOMAIN Sample(B)) /\ Cardinality(DOMAIN Sample(B)) \in Nat
           /\ Cardinality(Mature(B)) \in Nat
           /\ Cardinality(B \cap Shown) \in Nat
           /\ Due(B) \in Nat
<1>1. IsFiniteSet(Guests) /\ B \in SUBSET Guests
  BY ShowEstimatorAssumption DEF EstimatorTypeOK
<1>2. ASSUME NEW C \in SUBSET B PROVE IsFiniteSet(C) /\ Cardinality(C) \in Nat
  BY <1>1, FS_Subset, FS_CardinalityType
<1>3. Mature(B) \in SUBSET B /\ Young(B) \in SUBSET B /\ B \cap Shown \in SUBSET B
  BY DEF Mature, Young
<1>4. IsFiniteSet(DOMAIN Sample(B))
  <2>1. CASE Mature(B) \cap Shown # {}
    <3>1. DOMAIN Sample(B) = Mature(B) \cap Shown
      BY <2>1 DEF Sample
    <3> QED BY <3>1, <1>2, <1>3
  <2>2. CASE Mature(B) \cap Shown = {}
    <3>1. Sample(B) = seed.delays
      BY <2>2 DEF Sample
    <3>2. seed \in [num : Nat, den : Nat \ {0}, delays : Seq(Nat),
                        weighting : {"count", "posterior"}]
      BY ShowEstimatorAssumption DEF EstimatorTypeOK
    <3>3. seed.delays \in Seq(Nat)
      BY <3>2
    <3>4. Len(seed.delays) \in Nat /\ DOMAIN seed.delays = 1..Len(seed.delays)
      BY <3>3
    <3>5. IsFiniteSet(1..Len(seed.delays))
      BY <3>4, FS_Interval
    <3> QED BY <3>1, <3>4, <3>5
  <2> QED BY <2>1, <2>2
<1>5. Due(B) \in Nat
  <2> DEFINE pairs == {p \in Young(B) \X DOMAIN Sample(B) : Sample(B)[p[2]] <= Age(p[1])}
  <2>1. IsFiniteSet(Young(B) \X DOMAIN Sample(B))
    BY <1>2, <1>3, <1>4, FS_Product
  <2>2. pairs \in SUBSET (Young(B) \X DOMAIN Sample(B))
    OBVIOUS
  <2>3. Cardinality(pairs) \in Nat
    <3> HIDE DEF pairs
    <3> QED BY <2>1, <2>2, FS_Subset, FS_CardinalityType
  <2> QED BY <2>3 DEF Due
<1> QED BY <1>1, <1>2, <1>3, <1>4, <1>5, FS_CardinalityType

LEMMA SeedTyped ==
    ASSUME EstimatorTypeOK
    PROVE  /\ seed.num \in Nat /\ seed.den \in Nat \ {0} /\ seed.delays \in Seq(Nat)
           /\ PriorK \in Nat \ {0} /\ FloorPercent \in 1..100
           /\ TokenTtl \in Nat \ {0} /\ time \in Nat
<1>1. seed \in [num : Nat, den : Nat \ {0}, delays : Seq(Nat),
                        weighting : {"count", "posterior"}]
  BY ShowEstimatorAssumption DEF EstimatorTypeOK
<1>2. time \in Nat
  BY ShowEstimatorAssumption DEF EstimatorTypeOK
<1> QED BY <1>1, <1>2, ShowEstimatorAssumption

LEMMA SampleTyped ==
    ASSUME EstimatorTypeOK, NEW B \in SUBSET Granted, NEW m \in DOMAIN Sample(B)
    PROVE  Sample(B)[m] \in Nat
<1>1. CASE Mature(B) \cap Shown # {}
  <2>1. Sample(B) = [b \in Mature(B) \cap Shown |-> showDelay[b]]
    BY <1>1 DEF Sample
  <2>2. showDelay \in [Shown -> 0..(TokenTtl - 1)]
    BY DEF EstimatorTypeOK
  <2>3. m \in Shown /\ Sample(B)[m] = showDelay[m]
    BY <2>1
  <2>4. showDelay[m] \in 0..(TokenTtl - 1)
    BY <2>2, <2>3
  <2> QED BY <2>3, <2>4, SeedTyped
<1>2. CASE Mature(B) \cap Shown = {}
  <2>1. Sample(B) = seed.delays
    BY <1>2 DEF Sample
  <2> QED BY <2>1, SeedTyped
<1> QED BY <1>1, <1>2

LEMMA AgeTyped ==
    ASSUME EstimatorTypeOK, NEW b \in Granted
    PROVE  /\ startedAt[b] \in 0..time /\ time - startedAt[b] \in Nat
           /\ Age(b) \in Nat
<1>1. startedAt[b] \in 0..time
  BY DEF EstimatorTypeOK
<1>2. time - startedAt[b] \in Nat
  BY <1>1, SeedTyped
<1> QED BY <1>1, <1>2 DEF Age

\* A clamped rate is a fraction above 0 and at most 1.
LEMMA ClampTyped ==
    ASSUME FloorPercent \in 1..100, NEW p, p.num \in Nat, p.den \in Nat \ {0}
    PROVE  /\ Clamp(p).num \in Nat \ {0} /\ Clamp(p).den \in Nat \ {0}
           /\ Clamp(p).num <= Clamp(p).den
<1>1. CASE Below(p, Frac(FloorPercent, 100))
  BY <1>1 DEF Clamp, Frac
<1>2. CASE ~Below(p, Frac(FloorPercent, 100)) /\ AtLeast(p, One)
  BY <1>2 DEF Clamp, Frac, One
<1>3. CASE ~Below(p, Frac(FloorPercent, 100)) /\ ~AtLeast(p, One)
  <2>1. Clamp(p) = p
    BY <1>3 DEF Clamp
  <2>2. p.num * 100 >= FloorPercent * p.den
    BY <1>3 DEF Below, AtLeast, Frac
  <2>3. FloorPercent * p.den >= p.den
    BY FloorPercent \in Nat, FloorPercent >= 1
  <2>4. p.num # 0
    BY <2>2, <2>3
  <2>5. p.num < p.den
    BY <1>3 DEF AtLeast, Frac, One
  <2> QED BY <2>1, <2>4, <2>5
<1> QED BY <1>1, <1>2, <1>3

LEMMA ProductTyped ==
    /\ \A a, b \in Nat : a * b \in Nat /\ a + b \in Nat
    /\ \A a, b \in Nat \ {0} : a * b \in Nat \ {0}
OBVIOUS

\* The estimate is a fraction above 0 and at most 1, whatever it is made of.
LEMMA CensoredTyped ==
    ASSUME EstimatorTypeOK, NEW B \in SUBSET Granted
    PROVE  /\ Censored(B).num \in Nat \ {0} /\ Censored(B).den \in Nat \ {0}
           /\ Censored(B).num <= Censored(B).den
<1> DEFINE nd == Cardinality(DOMAIN Sample(B))
           shows == Cardinality(B \cap Shown)
           top == (seed.den * shows + PriorK * seed.num) * nd
           bottom == seed.den * ((Cardinality(Mature(B)) + PriorK) * nd + Due(B))
<1>a. /\ seed.num \in Nat /\ seed.den \in Nat \ {0}
      /\ PriorK \in Nat \ {0} /\ FloorPercent \in 1..100
  BY SeedTyped
<1>b. nd \in Nat /\ shows \in Nat /\ Cardinality(Mature(B)) \in Nat /\ Due(B) \in Nat
  BY CountsAreNat
<1>1. CASE nd = 0
  <2>1. Censored(B) = Clamp(Frac(seed.num, seed.den))
    BY <1>1 DEF Censored
  <2>2. Frac(seed.num, seed.den).num = seed.num /\ Frac(seed.num, seed.den).den = seed.den
    BY DEF Frac
  <2> QED BY <1>a, <2>1, <2>2, ClampTyped
<1>2. CASE nd # 0
  <2>1. Censored(B) = Clamp(Frac(top, bottom))
    BY <1>2 DEF Censored
  <2>2. Frac(top, bottom).num = top /\ Frac(top, bottom).den = bottom
    BY DEF Frac
  <2>3. top \in Nat
    <3> HIDE DEF nd, shows
    <3>1. seed.den * shows \in Nat /\ PriorK * seed.num \in Nat
      BY <1>a, <1>b, ProductTyped
    <3>2. seed.den * shows + PriorK * seed.num \in Nat
      BY <3>1, ProductTyped
    <3> QED BY <3>2, <1>b, ProductTyped
  <2>4. bottom \in Nat \ {0}
    <3> HIDE DEF nd, shows
    <3>1. Cardinality(Mature(B)) + PriorK \in Nat \ {0}
      BY <1>a, <1>b
    <3>2. (Cardinality(Mature(B)) + PriorK) * nd \in Nat \ {0}
      BY <3>1, <1>b, <1>2, ProductTyped
    <3>3. (Cardinality(Mature(B)) + PriorK) * nd + Due(B) \in Nat \ {0}
      BY <3>2, <1>b
    <3> QED BY <3>3, <1>a, ProductTyped
  <2> HIDE DEF top, bottom
  <2> QED BY <1>a, <2>1, <2>2, <2>3, <2>4, ClampTyped
<1> QED BY <1>1, <1>2

\* Who has been told, or whose admission is over.
HeardOf == {b \in Granted : b \in toldOf \/ time - startedAt[b] >= TokenTtl}

\* Leaving out those who have not been told leaves every count of the estimate: they
\* are young, they have not shown, and they are owed no show at age zero.
LEMMA UntoldLeaveTheCounts ==
    ASSUME EstimatorTypeOK, ~ColdCount,
           \A m \in DOMAIN Sample(Granted) : Sample(Granted)[m] > 0
    PROVE  Censored(HeardOf) = Censored(Granted)
<1>a. Shown \subseteq toldOf /\ toldOf \subseteq Granted /\ TokenTtl \in Nat \ {0}
  BY ShowEstimatorAssumption DEF EstimatorTypeOK
<1>b. HeardOf \in SUBSET Granted
  BY DEF HeardOf
<1>1. HeardOf \cap Shown = Granted \cap Shown
  BY <1>a DEF HeardOf
<1>2. ASSUME NEW b \in Granted \ HeardOf
      PROVE  Age(b) = 0 /\ ~(Age(b) >= TokenTtl)
  <2>1. b \notin toldOf /\ ~(time - startedAt[b] >= TokenTtl)
    BY <1>2 DEF HeardOf
  <2>2. time - startedAt[b] < TokenTtl
    BY <2>1, <1>a, AgeTyped
  <2> QED BY <2>1, <2>2, <1>a DEF Age
<1>3. Mature(HeardOf) = Mature(Granted)
  BY <1>2, <1>b DEF Mature
<1>4. Sample(HeardOf) = Sample(Granted)
  <2>1. Mature(HeardOf) \cap Shown = Mature(Granted) \cap Shown
    BY <1>3
  <2> QED BY <2>1 DEF Sample
<1>5. Due(HeardOf) = Due(Granted)
  <2> DEFINE g == Sample(Granted)
             late(B) == {p \in Young(B) \X DOMAIN g : g[p[2]] <= Age(p[1])}
  <2>1. Young(HeardOf) \subseteq Young(Granted)
    BY <1>3, <1>b DEF Young
  <2>2. ASSUME NEW p \in Young(Granted) \X DOMAIN g, g[p[2]] <= Age(p[1])
        PROVE  p[1] \in Young(HeardOf)
    <3>1. p[1] \in Granted /\ p[1] \notin Mature(Granted) /\ p[2] \in DOMAIN g
      BY DEF Young
    <3>2. g[p[2]] \in Nat /\ g[p[2]] > 0
      BY <3>1, SampleTyped
    <3>3. Age(p[1]) # 0
      BY <2>2, <3>2
    <3>4. p[1] \in HeardOf
      BY <3>1, <3>3, <1>2
    <3> QED BY <3>1, <3>4, <1>3 DEF Young
  <2>3. late(HeardOf) = late(Granted)
    <3> HIDE DEF g
    <3>1. late(HeardOf) \subseteq late(Granted)
      BY <2>1
    <3>2. ASSUME NEW p \in late(Granted) PROVE p \in late(HeardOf)
      <4>1. p \in Young(Granted) \X DOMAIN g /\ g[p[2]] <= Age(p[1])
        OBVIOUS
      <4>2. p[1] \in Young(HeardOf)
        BY <4>1, <2>2
      <4>3. p \in Young(HeardOf) \X DOMAIN g
        BY <4>1, <4>2
      <4> QED BY <4>1, <4>3
    <3> QED BY <3>1, <3>2
  <2>4. Due(HeardOf) = Cardinality(late(HeardOf)) /\ Due(Granted) = Cardinality(late(Granted))
    BY <1>4 DEF Due
  <2> QED BY <2>3, <2>4
<1> QED BY <1>1, <1>3, <1>4, <1>5, Zenon DEF Censored

LEMMA UntoldCountsForNothing ==
    ASSUME EstimatorTypeOK
    PROVE  UntoldCountForNothing
<1> SUFFICES ASSUME ~ColdCount, \A m \in DOMAIN Sample(Granted) : Sample(Granted)[m] > 0
             PROVE  SameFrac(Estimate, Censored(HeardOf))
  BY DEF UntoldCountForNothing, HeardOf
<1>1. Censored(HeardOf) = Estimate
  BY UntoldLeaveTheCounts DEF Estimate
<1>2. Estimate.num \in Nat /\ Estimate.den \in Nat
  BY CensoredTyped DEF Estimate
<1>3. Estimate.num * Estimate.den \in Nat
  BY <1>2
<1> QED BY <1>1, <1>3 DEF SameFrac, AtLeast

\* However many grants nobody has been told of yet, the estimate is the one of those
\* who have, in every arm but the cold count arm: for any number of buyers, any prior
\* and any life of an admission.
THEOREM SlowNoticeLeavesEstimate == EstimatorSpec => []UntoldCountForNothing
BY EstimatorTypeCorrect, UntoldCountsForNothing, PTL

-----------------------------------------------------------------------------
(* The weighted budget *)

LEMMA EstimateTyped ==
    ASSUME EstimatorTypeOK
    PROVE  /\ Estimate.num \in Nat \ {0} /\ Estimate.den \in Nat \ {0}
           /\ Estimate.num <= Estimate.den
BY CensoredTyped DEF Estimate

Fracs == [num : Nat, den : Nat \ {0}]

\* A posterior's denominator is positive: the estimate is at most 1, and part of the
\* sample is still to come.
LEMMA PosteriorTyped ==
    ASSUME NEW pn \in Nat \ {0}, NEW pd \in Nat \ {0}, pn <= pd,
           NEW c \in Nat, NEW nd \in Nat \ {0}, c < nd
    PROVE  pn * (nd - c) \in Nat /\ pd * nd - pn * c \in Nat \ {0}
<1>1. nd - c \in Nat
  OBVIOUS
<1>2. pn * (nd - c) \in Nat
  BY <1>1, ProductTyped
<1>3. pn * c <= pd * c
  OBVIOUS
<1>4. pd * c < pd * nd
  OBVIOUS
<1>5. pn * c \in Nat /\ pd * c \in Nat /\ pd * nd \in Nat
  BY ProductTyped
<1> QED BY <1>2, <1>3, <1>4, <1>5

LEMMA WeightTyped ==
    ASSUME EstimatorTypeOK, NEW b \in Granted
    PROVE  ClaimWeight(b, Estimate) \in Fracs
<1> DEFINE g == Sample(Granted)
           nd == Cardinality(DOMAIN g)
           c == Within(g, Age(b))
<1>1. nd \in Nat /\ IsFiniteSet(DOMAIN g)
  BY CountsAreNat
<1>2. c \in Nat /\ c <= nd
  <2> DEFINE D == DOMAIN g
             over == {m \in D : g[m] <= Age(b)}
  <2>1. over \in SUBSET D /\ IsFiniteSet(D)
    BY <1>1
  <2>2. Cardinality(over) \in Nat /\ Cardinality(over) <= Cardinality(D)
    <3> HIDE DEF over, D
    <3> QED BY <2>1, FS_Subset, FS_CardinalityType
  <2> QED BY <2>2 DEF Within
<1>3. CASE b \in Shown
  BY <1>3 DEF ClaimWeight, One, Frac, Fracs
<1>4. CASE b \notin Shown /\ nd = 0
  <2>1. ClaimWeight(b, Estimate) = Estimate
    BY <1>4 DEF ClaimWeight
  <2>2. \E n, d : Estimate = Frac(n, d)
    BY Zenon DEF Estimate, Censored, Clamp, One
  <2>3. Estimate = [num |-> Estimate.num, den |-> Estimate.den]
    BY <2>2 DEF Frac
  <2> QED BY <2>1, <2>3, EstimateTyped DEF Fracs
<1>5. CASE b \notin Shown /\ nd # 0
  <2>1. ClaimWeight(b, Estimate) = Posterior(Estimate, c, nd)
    BY <1>5 DEF ClaimWeight
  <2> HIDE DEF c, nd, g
  <2>2. CASE c = nd
    BY <2>1, <2>2 DEF Posterior, Frac, Fracs
  <2>3. CASE c # nd
    <3>1. /\ Estimate.num * (nd - c) \in Nat
          /\ Estimate.den * nd - Estimate.num * c \in Nat \ {0}
      <4>1. c < nd /\ nd \in Nat \ {0}
        BY <1>1, <1>2, <2>3, <1>5
      <4> QED BY <4>1, <1>2, EstimateTyped, PosteriorTyped
    <3>2. Posterior(Estimate, c, nd)
            = [num |-> Estimate.num * (nd - c), den |-> Estimate.den * nd - Estimate.num * c]
      BY <2>3 DEF Posterior, Frac
    <3> QED BY <2>1, <3>1, <3>2 DEF Fracs
  <2> QED BY <2>2, <2>3
<1> QED BY <1>3, <1>4, <1>5

\* What SumOver makes of T, given its sum over the others.
SumStep(f, T, p) ==
    IF T = {} THEN Frac(0, 1)
    ELSE LET b == CHOOSE b \in T : TRUE
             w == ClaimWeight(b, p)
             r == f[T \ {b}]
         IN  Frac(w.num * r.den + r.num * w.den, w.den * r.den)

SumTable(S, p) == CHOOSE f : f = [T \in SUBSET S |-> SumStep(f, T, p)]

LEMMA SumOverTable == \A S, p : SumOver(S, p) = SumTable(S, p)[S]
BY DEF SumOver, SumTable, SumStep

\* A set of sizes that is not empty has a smallest one.
LEMMA SmallestSize ==
    ASSUME NEW N, N \subseteq Nat, N # {}
    PROVE  \E n \in N : \A m \in N : n <= m
<1> DEFINE R == OpToRel(<, Nat)
<1>1. IsWellFoundedOn(R, Nat)
  BY NatLessThanWellFounded
<1>2. PICK n \in N : \A m \in N : ~(<<m, n>> \in R)
  <2> HIDE DEF R
  <2> QED BY <1>1, WFMin
<1>3. ASSUME NEW m \in N PROVE n <= m
  <2>1. ~(m < n)
    BY <1>2, <1>3 DEF OpToRel
  <2> QED BY <2>1
<1> QED BY <1>3

\* f is right for the subsets of S up to n elements.
SumsUpTo(f, S, p, n) ==
    \A T \in SUBSET S : Cardinality(T) <= n => f[T] = SumStep(f, T, p)

\* One size more: the table agrees with f on the smaller sets, which is all that
\* SumStep looks at.
LEMMA SumsGrow ==
    ASSUME NEW S, IsFiniteSet(S), NEW p, NEW n \in Nat, NEW f, SumsUpTo(f, S, p, n)
    PROVE  LET g == [T \in SUBSET S |-> IF Cardinality(T) <= n THEN f[T] ELSE SumStep(f, T, p)]
           IN  SumsUpTo(g, S, p, n + 1)
<1> DEFINE g == [T \in SUBSET S |-> IF Cardinality(T) <= n THEN f[T] ELSE SumStep(f, T, p)]
<1>1. ASSUME NEW T \in SUBSET S, Cardinality(T) <= n + 1
      PROVE  g[T] = SumStep(g, T, p)
  <2>1. IsFiniteSet(T) /\ Cardinality(T) \in Nat
    BY FS_Subset, FS_CardinalityType
  <2>2. g[T] = SumStep(f, T, p)
    BY DEF SumsUpTo
  <2>3. CASE T = {}
    BY <2>2, <2>3 DEF SumStep
  <2>4. CASE T # {}
    <3> DEFINE b == CHOOSE b \in T : TRUE
    <3>1. b \in T
      BY <2>4
    <3> HIDE DEF b
    <3>2. Cardinality(T \ {b}) = Cardinality(T) - 1
      BY <2>1, <3>1, FS_RemoveElement
    <3>3. Cardinality(T \ {b}) <= n
      BY <1>1, <2>1, <3>2
    <3>4. T \ {b} \in SUBSET S
      OBVIOUS
    <3>5. g[T \ {b}] = f[T \ {b}]
      BY <3>3, <3>4
    <3> HIDE DEF g
    <3> QED BY <2>2, <2>4, <3>5 DEF SumStep, b
  <2> QED BY <2>3, <2>4
<1> QED BY <1>1 DEF SumsUpTo

\* The recursion of SumOver has a solution: no size is the first without one.
LEMMA SumsExist ==
    ASSUME NEW S, IsFiniteSet(S), NEW p, NEW n \in Nat
    PROVE  \E f : SumsUpTo(f, S, p, n)
<1> DEFINE fails == {m \in Nat : ~ \E f : SumsUpTo(f, S, p, m)}
<1> SUFFICES ASSUME fails # {} PROVE FALSE
  OBVIOUS
<1>1. PICK m \in fails : \A k \in fails : m <= k
  <2> HIDE DEF fails
  <2>1. fails \subseteq Nat
    BY DEF fails
  <2> QED BY <2>1, SmallestSize
<1>2. m # 0
  <2> SUFFICES \E f : SumsUpTo(f, S, p, 0)
    OBVIOUS
  <2> DEFINE f == [T \in SUBSET S |-> Frac(0, 1)]
  <2>1. ASSUME NEW T \in SUBSET S, Cardinality(T) <= 0 PROVE f[T] = SumStep(f, T, p)
    <3>1. IsFiniteSet(T) /\ Cardinality(T) \in Nat
      BY FS_Subset, FS_CardinalityType
    <3>2. Cardinality(T) = 0
      BY <2>1, <3>1
    <3>3. T = {}
      BY <3>1, <3>2, FS_EmptySet
    <3> QED BY <3>3 DEF SumStep
  <2>2. SumsUpTo(f, S, p, 0)
    <3> HIDE DEF f
    <3> QED BY <2>1 DEF SumsUpTo
  <2> QED BY <2>2
<1>3. m - 1 \in Nat /\ ~(m <= m - 1) /\ (m - 1) + 1 = m
  BY <1>2
<1>4. m - 1 \notin fails
  <2> HIDE DEF fails
  <2> QED BY <1>1, <1>3
<1>5. PICK f : SumsUpTo(f, S, p, m - 1)
  BY <1>3, <1>4
<1>6. \E g : SumsUpTo(g, S, p, (m - 1) + 1)
  BY <1>3, <1>5, SumsGrow
<1> QED BY <1>1, <1>3, <1>6

LEMMA SumTableSolves ==
    ASSUME NEW S, IsFiniteSet(S), NEW p
    PROVE  SumTable(S, p) = [T \in SUBSET S |-> SumStep(SumTable(S, p), T, p)]
<1>1. Cardinality(S) \in Nat
  BY FS_CardinalityType
<1>2. PICK f : SumsUpTo(f, S, p, Cardinality(S))
  BY <1>1, SumsExist
<1> DEFINE g == [T \in SUBSET S |-> f[T]]
<1>3. ASSUME NEW T \in SUBSET S PROVE g[T] = SumStep(g, T, p)
  <2>1. Cardinality(T) <= Cardinality(S)
    BY FS_Subset
  <2>2. f[T] = SumStep(f, T, p)
    BY <1>2, <2>1 DEF SumsUpTo
  <2>3. CASE T = {}
    BY <2>2, <2>3 DEF SumStep
  <2>4. CASE T # {}
    <3> DEFINE b == CHOOSE b \in T : TRUE
    <3>1. T \ {b} \in SUBSET S
      OBVIOUS
    <3>2. g[T \ {b}] = f[T \ {b}] /\ g[T] = f[T]
      BY <3>1
    <3> HIDE DEF g
    <3> QED BY <2>2, <2>4, <3>2 DEF SumStep
  <2> QED BY <2>3, <2>4
<1>4. g = [T \in SUBSET S |-> SumStep(g, T, p)]
  <2>1. \A T \in SUBSET S : g[T] = SumStep(g, T, p)
    BY <1>3
  <2>2. g = [T \in SUBSET S |-> g[T]]
    OBVIOUS
  <2> HIDE DEF g
  <2> QED BY <2>1, <2>2
<1> HIDE DEF g
<1> QED BY <1>4 DEF SumTable

\* The sum of the weights of the unresolved is a fraction.
LEMMA SumTyped ==
    ASSUME EstimatorTypeOK
    PROVE  SumOver(Unresolved, Estimate) \in Fracs
<1> DEFINE S == Unresolved
           f == SumTable(S, Estimate)
           fails == {m \in Nat : \E T \in SUBSET S : Cardinality(T) = m /\ f[T] \notin Fracs}
<1>1. S \in SUBSET Granted /\ IsFiniteSet(S)
  <2>1. S \in SUBSET Granted
    BY DEF Unresolved
  <2> QED BY <2>1, CountsAreNat
<1>2. f = [T \in SUBSET S |-> SumStep(f, T, Estimate)]
  <2> HIDE DEF S
  <2> QED BY <1>1, SumTableSolves
<1>3. \A T \in SUBSET S : f[T] = SumStep(f, T, Estimate)
  <2> HIDE DEF f, S
  <2> QED BY <1>2
<1>4. fails = {}
  <2> SUFFICES ASSUME fails # {} PROVE FALSE
    OBVIOUS
  <2>1. PICK m \in fails : \A k \in fails : m <= k
    <3>1. fails \subseteq Nat
      OBVIOUS
    <3> HIDE DEF fails
    <3> QED BY <3>1, SmallestSize
  <2>2. PICK T \in SUBSET S : Cardinality(T) = m /\ f[T] \notin Fracs
    OBVIOUS
  <2> HIDE DEF f
  <2>3. T # {}
    <3> SUFFICES ASSUME T = {} PROVE FALSE
      OBVIOUS
    <3>1. f[T] = Frac(0, 1)
      BY <1>3 DEF SumStep
    <3> QED BY <2>2, <3>1 DEF Frac, Fracs
  <2> DEFINE b == CHOOSE b \in T : TRUE
             w == ClaimWeight(b, Estimate)
             r == f[T \ {b}]
  <2>4. b \in T /\ b \in Granted
    BY <2>3, <1>1
  <2>5. w \in Fracs
    <3> HIDE DEF b
    <3> QED BY <2>4, WeightTyped
  <2>6. r \in Fracs
    <3> HIDE DEF b, S
    <3>1. IsFiniteSet(T) /\ Cardinality(T) \in Nat
      BY <1>1, FS_Subset, FS_CardinalityType
    <3>2. Cardinality(T \ {b}) = Cardinality(T) - 1 /\ IsFiniteSet(T \ {b})
      BY <2>4, <3>1, FS_RemoveElement
    <3>3. Cardinality(T \ {b}) \in Nat
      BY <3>2, FS_CardinalityType
    <3>4. Cardinality(T \ {b}) \notin fails
      <4> HIDE DEF fails
      <4> QED BY <2>1, <2>2, <3>1, <3>2, <3>3
    <3>5. T \ {b} \in SUBSET S
      OBVIOUS
    <3> QED BY <3>3, <3>4, <3>5
  <2>7. f[T] = Frac(w.num * r.den + r.num * w.den, w.den * r.den)
    BY <1>3, <2>3 DEF SumStep
  <2> HIDE DEF w, r, b
  <2>8. /\ w.num \in Nat /\ w.den \in Nat \ {0} /\ r.num \in Nat /\ r.den \in Nat \ {0}
    BY <2>5, <2>6 DEF Fracs
  <2>9. /\ w.num * r.den \in Nat /\ r.num * w.den \in Nat
        /\ w.den * r.den \in Nat \ {0}
    BY <2>8, ProductTyped
  <2>10. w.num * r.den + r.num * w.den \in Nat
    BY <2>9, ProductTyped
  <2>11. f[T] \in Fracs
    BY <2>7, <2>9, <2>10 DEF Frac, Fracs
  <2> QED BY <2>2, <2>11
<1>5. Cardinality(S) \in Nat
  BY <1>1, FS_CardinalityType
<1>6. f[S] \in Fracs
  <2> HIDE DEF f, S
  <2>1. S \in SUBSET S
    OBVIOUS
  <2> QED BY <1>4, <1>5, <2>1
<1> QED BY <1>6, SumOverTable

\* The arithmetic of the budget: what ceil((a - s) / p) promises, in whole numbers.
LEMMA CeilingIsLargest ==
    ASSUME NEW X \in Nat \ {0}, NEW D \in Nat \ {0}
    PROVE  /\ CeilDiv(X, D) \in Nat \ {0}
           /\ (CeilDiv(X, D) - 1) * D < X
           /\ CeilDiv(X, D) * D >= X
<1> DEFINE n == (X + D - 1) \div D
<1>1. X + D - 1 \in Nat /\ D > 0 /\ X + D - 1 >= D
  OBVIOUS
<1>2. n \in Int /\ n * D <= X + D - 1 /\ X + D - 1 < (n + 1) * D
  <2>1. \A a \in Nat : a \div D \in Int /\ D * (a \div D) <= a /\ a < D * (a \div D) + D
    BY <1>1
  <2>2. n \in Int /\ D * n <= X + D - 1 /\ X + D - 1 < D * n + D
    BY <1>1, <2>1
  <2>3. (n + 1) * D = n * D + D /\ n * D = D * n /\ n * D \in Int
    BY <2>2
  <2> HIDE DEF n
  <2> QED BY <2>2, <2>3
<1> HIDE DEF n
<1>3. (n + 1) * D = n * D + D /\ (n - 1) * D = n * D - D /\ n * D \in Int
  BY <1>2
<1>4. n * D >= X /\ (n - 1) * D < X
  BY <1>2, <1>3
<1>5. n \in Nat \ {0}
  <2> SUFFICES ASSUME n <= 0 PROVE FALSE
    BY <1>2
  <2>1. n * D <= 0
    BY <1>2
  <2> QED BY <2>1, <1>3, <1>4
<1> QED BY <1>4, <1>5 DEF CeilDiv, n

\* n is what weighted_budget computes of the fractions' parts; and it is the largest
\* number that still fits.
IsBudget(n, free, sn, sd, pn, pd) ==
    n = IF free = 0 \/ sn >= free * sd THEN 0
        ELSE CeilDiv((free * sd - sn) * pd, sd * pn)

IsLargest(n, free, sn, sd, pn, pd) ==
    /\ n > 0 => sn * pd + (n - 1) * pn * sd < free * sd * pd
    /\ ~(sn * pd + ((n + 1) - 1) * pn * sd < free * sd * pd)

LEMMA BudgetArithmetic ==
    ASSUME NEW free \in Nat, NEW sn \in Nat, NEW sd \in Nat \ {0},
           NEW pn \in Nat \ {0}, NEW pd \in Nat \ {0}, NEW n,
           IsBudget(n, free, sn, sd, pn, pd)
    PROVE  IsLargest(n, free, sn, sd, pn, pd)
<1>a. n = IF free = 0 \/ sn >= free * sd THEN 0
          ELSE CeilDiv((free * sd - sn) * pd, sd * pn)
  BY DEF IsBudget
<1> SUFFICES /\ n > 0 => sn * pd + (n - 1) * pn * sd < free * sd * pd
             /\ ~(sn * pd + ((n + 1) - 1) * pn * sd < free * sd * pd)
  BY Zenon DEF IsLargest
<1>1. CASE free = 0 \/ sn >= free * sd
  <2>1. n = 0 /\ sn >= free * sd /\ free * sd \in Nat
    <3>1. free = 0 => free * sd = 0
      OBVIOUS
    <3> QED BY <1>1, <1>a, <3>1
  <2>2. sn * pd >= free * sd * pd
    <3> DEFINE fs == free * sd
    <3>1. fs \in Nat /\ sn >= fs
      BY <2>1
    <3> HIDE DEF fs
    <3>2. sn * pd >= fs * pd
      BY <3>1
    <3> QED BY <3>2 DEF fs
  <2>3. ((n + 1) - 1) * pn * sd = 0
    <3>1. (n + 1) - 1 = 0
      BY <2>1
    <3> QED BY <3>1
  <2>4. sn * pd \in Nat /\ free * sd * pd \in Nat
    BY <2>1
  <2> QED BY <2>1, <2>2, <2>3, <2>4
<1>2. CASE free # 0 /\ sn < free * sd
  <2> DEFINE Y == free * sd - sn
             X == Y * pd
             D == sd * pn
  <2>1. Y \in Nat \ {0}
    BY <1>2
  <2>2. X \in Nat \ {0} /\ D \in Nat \ {0}
    <3> HIDE DEF Y
    <3> QED BY <2>1, ProductTyped
  <2>3. n = CeilDiv(X, D)
    BY <1>2, <1>a
  <2>4. n \in Nat \ {0} /\ (n - 1) * D < X /\ n * D >= X
    <3> HIDE DEF X, D
    <3> QED BY <2>2, <2>3, CeilingIsLargest
  <2>5. X = free * sd * pd - sn * pd /\ free * sd * pd \in Nat /\ sn * pd \in Nat
    OBVIOUS
  <2>6. (n - 1) * pn * sd = (n - 1) * D /\ ((n + 1) - 1) * pn * sd = n * D
    BY <2>4
  <2>7. (n - 1) * D \in Int /\ n * D \in Int
    BY <2>2, <2>4
  <2> HIDE DEF X, D, Y
  <2> QED BY <2>4, <2>5, <2>6, <2>7
<1> QED BY <1>1, <1>2

LEMMA BudgetIsLargestThere ==
    ASSUME EstimatorTypeOK
    PROVE  BudgetIsLargest
<1> DEFINE s == SumOver(Unresolved, Estimate)
<1>1. s.num \in Nat /\ s.den \in Nat \ {0}
  BY SumTyped DEF Fracs
<1>2. /\ Estimate.num \in Nat \ {0} /\ Estimate.den \in Nat \ {0}
  BY EstimateTyped
<1>3. Frees \subseteq Nat
  BY DEF Frees
<1>4. ASSUME NEW free \in Frees
      PROVE  IsLargest(WeightedBudget(free, Estimate), free, s.num, s.den, Estimate.num, Estimate.den)
  <2> HIDE DEF s
  <2>1. IsBudget(WeightedBudget(free, Estimate), free, s.num, s.den, Estimate.num, Estimate.den)
    BY DEF WeightedBudget, IsBudget, s
  <2>2. free \in Nat
    BY <1>3
  <2> QED BY <1>1, <1>2, <2>1, <2>2, BudgetArithmetic, Zenon
<1> HIDE DEF s
<1> QED BY <1>4, Zenon DEF BudgetIsLargest, IsLargest, s

\* Admission stops neither a buyer early nor a buyer late, in every state of the
\* estimator and however many units are free.
THEOREM BudgetStopsInTime == EstimatorSpec => []BudgetIsLargest
BY EstimatorTypeCorrect, BudgetIsLargestThere, PTL

-----------------------------------------------------------------------------
(* Wound-wait *)

LEMMA WantsTyped ==
    ASSUME NEW t \in Txns
    PROVE  /\ Wants[t] \in Seq(Resources) /\ Len(Wants[t]) \in Nat
           /\ \A i \in 1..Len(Wants[t]) : Wants[t][i] \in Resources
<1>1. Wants[t] \in Seq(Resources)
  BY WoundWaitAssumption DEF Resources
<1> QED BY <1>1

\* The oldest keeps what it has taken, and is in the middle of its list until it
\* has everything.
WoundInv ==
    /\ WoundTypeOK
    /\ \A t \in Txns : txnState[t] = "acquiring" => locksGot[t] < Len(Wants[t])
    /\ \A t \in Txns : Oldest(t) =>
          /\ t \notin wounded /\ txnState[t] # "aborted"
          /\ txnState[t] = "completed" => locksGot[t] = Len(Wants[t])
          /\ txnState[t] # "gone" => \A i \in 1..locksGot[t] : lockHolder[Wants[t][i]] = t

LEMMA InitWoundInv == WoundInit => WoundInv
<1> SUFFICES ASSUME WoundInit PROVE WoundInv
  OBVIOUS
<1>1. \A t \in Txns : Len(Wants[t]) \in Nat
  BY WantsTyped
<1> QED BY <1>1 DEF WoundInit, WoundInv, WoundTypeOK

\* A lock is taken that was free or that somebody younger held.
LEMMA TakesKeep ==
    ASSUME WoundInv, NEW t \in Txns, txnState[t] = "acquiring", TakeLock(t),
           lockHolder[Wanted(t)] = Nobody \/ Older(t),
           wounded' \in {wounded, wounded \cup {lockHolder[Wanted(t)]}},
           lockHolder[Wanted(t)] = Nobody => wounded' = wounded
    PROVE  WoundInv'
<1> USE WoundWaitAssumption
<1>1. /\ WoundTypeOK /\ locksGot[t] \in Nat /\ locksGot[t] < Len(Wants[t])
      /\ Len(Wants[t]) \in Nat /\ \A u \in Txns : Len(Wants[u]) \in Nat
  BY WantsTyped DEF WoundInv, WoundTypeOK
<1> DEFINE r == Wanted(t)
<1>2. r \in Resources /\ r = Wants[t][locksGot[t] + 1]
  BY <1>1, WantsTyped DEF Wanted
<1>3. /\ lockHolder' = [lockHolder EXCEPT ![r] = t]
      /\ locksGot' = [locksGot EXCEPT ![t] = @ + 1]
      /\ txnState' = [txnState EXCEPT ![t] = "ready"]
  BY DEF TakeLock, Becomes
<1>4. /\ lockHolder[r] \in Txns \cup {Nobody}
      /\ lockHolder[r] = Nobody \/ t < lockHolder[r]
      /\ wounded' \in {wounded, wounded \cup {lockHolder[r]}}
      /\ lockHolder[r] = Nobody => wounded' = wounded
  BY <1>1, <1>2 DEF WoundTypeOK, Older
<1> HIDE DEF r
<1>5. WoundTypeOK'
  <2>1. wounded' \subseteq Txns
    BY <1>1, <1>4 DEF WoundTypeOK
  <2>2. lockHolder' \in [Resources -> Txns \cup {Nobody}]
    BY <1>1, <1>3 DEF WoundTypeOK
  <2>3. locksGot' \in [Txns -> Nat] /\ \A u \in Txns : locksGot'[u] <= Len(Wants[u])
    BY <1>1, <1>3 DEF WoundTypeOK
  <2> QED BY <1>1, <1>3, <2>1, <2>2, <2>3 DEF WoundTypeOK
<1>6. ASSUME NEW u \in Txns, txnState'[u] = "acquiring" PROVE locksGot'[u] < Len(Wants[u])
  BY <1>1, <1>3, <1>6 DEF WoundInv, WoundTypeOK
<1>7. ASSUME NEW u \in Txns, Oldest(u)
      PROVE  /\ u \notin wounded' /\ txnState'[u] # "aborted"
             /\ txnState'[u] = "completed" => locksGot'[u] = Len(Wants[u])
             /\ txnState'[u] # "gone" => \A i \in 1..locksGot'[u] : lockHolder'[Wants[u][i]] = u
  <2>0. u \notin wounded /\ txnState[u] # "aborted"
        /\ (txnState[u] = "completed" => locksGot[u] = Len(Wants[u]))
        /\ (txnState[u] # "gone" => \A i \in 1..locksGot[u] : lockHolder[Wants[u][i]] = u)
    BY <1>7 DEF WoundInv
  <2>1. lockHolder[r] # u
    BY <1>4, <1>7 DEF Oldest, Nobody
  <2>2. u \notin wounded' /\ txnState'[u] # "aborted"
    BY <1>1, <1>3, <1>4, <2>0, <2>1 DEF WoundTypeOK
  <2>3. txnState'[u] = "completed" => locksGot'[u] = Len(Wants[u])
    BY <1>1, <1>3, <2>0 DEF WoundTypeOK
  <2>4. ASSUME txnState'[u] # "gone", NEW i \in 1..locksGot'[u]
        PROVE  lockHolder'[Wants[u][i]] = u
    <3>1. CASE i \in 1..locksGot[u]
      <4>1. txnState[u] # "gone"
        BY <1>1, <1>3, <2>4 DEF WoundTypeOK
      <4>2. lockHolder[Wants[u][i]] = u /\ Wants[u][i] \in Resources
        BY <1>1, <2>0, <3>1, <4>1, WantsTyped DEF WoundTypeOK
      <4> QED BY <1>1, <1>3, <2>1, <4>2 DEF WoundTypeOK
    <3>2. CASE i \notin 1..locksGot[u]
      <4>1. u = t /\ i = locksGot[t] + 1
        BY <1>1, <1>3, <2>4, <3>2 DEF WoundTypeOK
      <4> QED BY <1>1, <1>2, <1>3, <4>1 DEF WoundTypeOK
    <3> QED BY <3>1, <3>2
  <2> QED BY <2>2, <2>3, <2>4
<1> QED BY <1>5, <1>6, <1>7 DEF WoundInv, Oldest

LEMMA NextWoundInv == ASSUME WoundInv, [WoundNext]_woundVars PROVE WoundInv'
<1>1. CASE UNCHANGED woundVars
  BY <1>1 DEF WoundInv, WoundTypeOK, Oldest, woundVars
<1>2. ASSUME NEW t \in Txns, CheckWounded(t) PROVE WoundInv'
  <2>1. Len(Wants[t]) \in Nat /\ locksGot[t] <= Len(Wants[t]) /\ locksGot[t] \in Nat
    BY WantsTyped DEF WoundInv, WoundTypeOK
  <2>2. \A u \in Txns : Oldest(u)' <=> Oldest(u)
    BY DEF Oldest
  <2>3. /\ txnState' = [txnState EXCEPT ![t] =
                           IF locksGot[t] = Len(Wants[t]) THEN "completed"
                           ELSE IF t \in wounded THEN "aborted" ELSE "acquiring"]
        /\ UNCHANGED <<lockHolder, wounded, locksGot>> /\ txnState[t] = "ready"
    BY <1>2 DEF CheckWounded, Becomes
  <2>4. WoundTypeOK'
    BY <2>3 DEF WoundInv, WoundTypeOK
  <2>5. \A u \in Txns : txnState'[u] = "acquiring" => locksGot'[u] < Len(Wants[u])
    BY <2>1, <2>3 DEF WoundInv, WoundTypeOK
  <2>6. ASSUME NEW u \in Txns, Oldest(u)
        PROVE  /\ u \notin wounded' /\ txnState'[u] # "aborted"
               /\ txnState'[u] = "completed" => locksGot'[u] = Len(Wants[u])
               /\ txnState'[u] # "gone" => \A i \in 1..locksGot'[u] : lockHolder'[Wants[u][i]] = u
    BY <2>3, <2>6 DEF WoundInv, WoundTypeOK
  <2> QED BY <2>2, <2>4, <2>5, <2>6 DEF WoundInv
<1>3. ASSUME NEW t \in Txns, AcquireFree(t) PROVE WoundInv'
  BY <1>3, TakesKeep DEF AcquireFree
<1>4. ASSUME NEW t \in Txns, AcquireByWounding(t) PROVE WoundInv'
  BY <1>4, TakesKeep DEF AcquireByWounding
<1>5. ASSUME NEW t \in Txns, AbortWaiting(t) PROVE WoundInv'
  <2>1. \A u \in Txns : Oldest(u)' <=> Oldest(u)
    BY DEF Oldest
  <2>2. t \in wounded /\ txnState' = [txnState EXCEPT ![t] = "aborted"]
        /\ UNCHANGED <<lockHolder, wounded, locksGot>>
    BY <1>5 DEF AbortWaiting, Becomes
  <2> QED BY <2>1, <2>2 DEF WoundInv, WoundTypeOK
<1>6. ASSUME NEW t \in Txns, ReleaseAll(t) PROVE WoundInv'
  <2>1. \A u \in Txns : Oldest(u)' <=> Oldest(u)
    BY DEF Oldest
  <2>2. /\ lockHolder' = [r \in Resources |-> IF lockHolder[r] = t THEN Nobody ELSE lockHolder[r]]
        /\ txnState' = [txnState EXCEPT ![t] = "gone"]
        /\ UNCHANGED <<wounded, locksGot>>
    BY <1>6 DEF ReleaseAll, Becomes
  <2>3. WoundTypeOK'
    BY <2>2 DEF WoundInv, WoundTypeOK
  <2>4. \A u \in Txns : txnState'[u] = "acquiring" => locksGot'[u] < Len(Wants[u])
    BY <2>2 DEF WoundInv, WoundTypeOK
  <2>5. ASSUME NEW u \in Txns, Oldest(u)
        PROVE  /\ u \notin wounded' /\ txnState'[u] # "aborted"
               /\ txnState'[u] = "completed" => locksGot'[u] = Len(Wants[u])
    BY <2>2, <2>5 DEF WoundInv, WoundTypeOK
  <2>6. ASSUME NEW u \in Txns, Oldest(u), txnState'[u] # "gone", NEW i \in 1..locksGot'[u]
        PROVE  lockHolder'[Wants[u][i]] = u
    <3>1. u # t /\ txnState[u] # "gone" /\ i \in 1..locksGot[u]
      BY <2>2, <2>6 DEF WoundInv, WoundTypeOK
    <3>2. lockHolder[Wants[u][i]] = u
      BY <2>6, <3>1 DEF WoundInv
    <3>3. Wants[u][i] \in Resources
      BY <3>1, WantsTyped DEF WoundInv, WoundTypeOK
    <3> QED BY <2>2, <3>1, <3>2, <3>3
  <2> QED BY <2>1, <2>3, <2>4, <2>5, <2>6 DEF WoundInv
<1> QED BY <1>1, <1>2, <1>3, <1>4, <1>5, <1>6 DEF WoundNext, WoundStep

\* The oldest transaction is never made to abort, and completes with all its locks
\* in hand, for any number of transactions and any order of their locks.
THEOREM OldestIsNeverWounded == WoundSpec => []OldestCompletes
<1>1. WoundInv => OldestCompletes
  BY DEF WoundInv, OldestCompletes
<1> QED BY <1>1, InitWoundInv, NextWoundInv, PTL DEF WoundSpec

-----------------------------------------------------------------------------
(* PostgreSQL's deadlock detector *)

\* The four kinds of transactions are different ones.
LEMMA LockTxnsDiffer ==
    /\ Txn1 # Txn2 /\ Txn1 # Admin /\ Txn2 # Admin
    /\ Txn1 \notin Checkouts /\ Txn2 \notin Checkouts /\ Admin \notin Checkouts
<1>1. IsFiniteSet(Checkouts) /\ Cardinality(Checkouts) \in Nat
      /\ Cardinality(LockTxns) = 3 + Cardinality(Checkouts)
  BY LockDemosAssumption, FS_CardinalityType
<1>2. ASSUME NEW a, NEW b, LockTxns \subseteq (Checkouts \cup {a}) \cup {b} PROVE FALSE
  <2>1. IsFiniteSet(Checkouts \cup {a}) /\ IsFiniteSet((Checkouts \cup {a}) \cup {b})
    BY <1>1, FS_AddElement
  <2>2. /\ Cardinality(Checkouts \cup {a}) \in Nat
        /\ Cardinality(Checkouts \cup {a}) <= Cardinality(Checkouts) + 1
    BY <1>1, <2>1, FS_AddElement, FS_CardinalityType
  <2>3. /\ Cardinality((Checkouts \cup {a}) \cup {b}) \in Nat
        /\ Cardinality((Checkouts \cup {a}) \cup {b}) <= Cardinality(Checkouts \cup {a}) + 1
    BY <2>1, <2>2, FS_AddElement, FS_CardinalityType
  <2>4. Cardinality(LockTxns) <= Cardinality((Checkouts \cup {a}) \cup {b})
    BY <1>2, <2>1, FS_Subset
  <2> QED BY <1>1, <2>2, <2>3, <2>4
<1>3. Txn1 \in Checkouts \cup {Txn2, Admin} => LockTxns \subseteq (Checkouts \cup {Txn2}) \cup {Admin}
  BY DEF LockTxns
<1>4. Txn2 \in Checkouts \cup {Admin} => LockTxns \subseteq (Checkouts \cup {Txn1}) \cup {Admin}
  BY DEF LockTxns
<1>5. Admin \in Checkouts => LockTxns \subseteq (Checkouts \cup {Txn1}) \cup {Txn2}
  BY DEF LockTxns
<1> QED BY <1>2, <1>3, <1>4, <1>5

\* Who waits has a script to go on with, waits once, and has not ended.
LockInv ==
    /\ scene \in {"deadlock", "pause"}
    /\ outcome \in [LockTxns -> {"running", "committed", "aborted"}]
    /\ waiting \in Seq(Takers)
    /\ \A i, j \in 1..Len(waiting) : waiting[i] = waiting[j] => i = j
    /\ done \in [LockTxns -> Nat]
    /\ \A i \in 1..Len(waiting) : /\ outcome[waiting[i]] = "running"
                                  /\ done[waiting[i]] < Len(Script(waiting[i]))
    /\ AtMostOneVictim

\* Out of the queue, which keeps its order.
LEMMA QueueCloses ==
    ASSUME LockInv, NEW t \in LockTxns, IsWaiting(t), StopsWaiting(t)
    PROVE  /\ waiting' \in Seq(Takers) /\ ~IsWaiting(t)'
           /\ \A i, j \in 1..Len(waiting') : waiting'[i] = waiting'[j] => i = j
           /\ \A i \in 1..Len(waiting') : \E j \in 1..Len(waiting) : waiting'[i] = waiting[j]
<1> DEFINE n == Len(waiting)
           p == Place(t)
<1>1. n \in Nat /\ waiting \in Seq(Takers) /\ \A i \in 1..n : waiting[i] \in Takers
  BY DEF LockInv
<1>2. p \in 1..n /\ waiting[p] = t
  BY DEF Place, IsWaiting
<1>3. waiting' = [i \in 1..(n - 1) |-> waiting[IF i < p THEN i ELSE i + 1]]
  BY DEF StopsWaiting
<1>4. \A i, j \in 1..n : waiting[i] = waiting[j] => i = j
  BY DEF LockInv
<1> HIDE DEF n, p
<1>5. n - 1 \in Nat
  BY <1>1, <1>2
<1>6. \A i \in 1..(n - 1) : /\ waiting'[i] = waiting[IF i < p THEN i ELSE i + 1]
                            /\ (IF i < p THEN i ELSE i + 1) \in 1..n
                            /\ (IF i < p THEN i ELSE i + 1) # p
  BY <1>1, <1>2, <1>3
<1>7. waiting' \in Seq(Takers) /\ Len(waiting') = n - 1
  BY <1>1, <1>3, <1>5, <1>6
<1>8. \A i \in 1..(n - 1) : waiting'[i] # t
  BY <1>2, <1>4, <1>6
<1>9. \A i, j \in 1..(n - 1) : waiting'[i] = waiting'[j] => i = j
  BY <1>2, <1>4, <1>5, <1>6
<1> QED BY <1>6, <1>7, <1>8, <1>9 DEF IsWaiting, n

\* Whoever is in a cycle waits in the first demonstration for the other one.
LEMMA CycleNeedsBoth ==
    ASSUME LockInv, NEW t \in LockTxns, InCycle(t), t \in {Txn1, Txn2}
    PROVE  IsWaiting(Txn1) /\ IsWaiting(Txn2)
<1>1. PICK S \in SUBSET {u \in Takers : IsWaiting(u)} :
          t \in S /\ \A u \in S : Blockers(u) \cap S # {}
  BY DEF InCycle
<1>2. t \in Takers /\ IsWaiting(t)
  BY <1>1
<1>3. scene = "deadlock"
  BY <1>2, LockTxnsDiffer DEF LockInv, Takers, Script
<1>4. Takers \subseteq {Txn1, Txn2}
  BY <1>3 DEF Takers, Script
<1>5. PICK u \in S : u \in Blockers(t)
  BY <1>1
<1>6. u # t /\ u \in Takers /\ IsWaiting(u)
  BY <1>1, <1>5 DEF Blockers
<1> QED BY <1>2, <1>4, <1>6

LEMMA NextLockInv == ASSUME LockInv, [LockNext]_lockVars PROVE LockInv'
<1>1. CASE UNCHANGED lockVars
  BY <1>1 DEF LockInv, lockVars, Takers, Script, AtMostOneVictim
<1>a. scene' = scene => /\ Takers' = Takers
                        /\ \A i \in 1..Len(waiting') : Script(waiting[i])' = Script(waiting'[i])
  BY DEF Takers, Script
<1>b. Takers \subseteq LockTxns
  BY DEF Takers
<1>c. /\ done \in [LockTxns -> Nat] /\ waiting \in Seq(Takers)
      /\ \A i \in 1..Len(waiting) : /\ waiting[i] \in LockTxns
                                    /\ outcome[waiting[i]] = "running"
                                    /\ done[waiting[i]] < Len(Script(waiting[i]))
  BY <1>b DEF LockInv
<1>2. ASSUME NEW t \in LockTxns, Ask(t) PROVE LockInv'
  <2>1. waiting' = Append(waiting, t) /\ UNCHANGED <<scene, outcome>> /\ outcome[t] = "running"
        /\ ~IsWaiting(t) /\ done[t] < Len(Script(t))
    BY <1>2 DEF Ask
  <2>2. t \in Takers
    <3>1. Script(t) = <<>> => Len(Script(t)) = 0
      OBVIOUS
    <3> QED BY <1>c, <2>1, <3>1 DEF Takers
  <2>3. UNCHANGED done
    BY <1>2 DEF Ask
  <2>4. /\ waiting' \in Seq(Takers) /\ Len(waiting') = Len(waiting) + 1
        /\ \A i \in 1..Len(waiting) : waiting'[i] = waiting[i]
        /\ waiting'[Len(waiting) + 1] = t
    BY <1>c, <2>1, <2>2
  <2>5. \A i, j \in 1..Len(waiting') : waiting'[i] = waiting'[j] => i = j
    <3>1. \A i \in 1..Len(waiting) : waiting[i] # t
      BY <2>1 DEF IsWaiting
    <3>2. \A i, j \in 1..Len(waiting) : waiting[i] = waiting[j] => i = j
      BY DEF LockInv
    <3> QED BY <1>c, <2>4, <3>1, <3>2
  <2>6. \A i \in 1..Len(waiting') : /\ outcome'[waiting'[i]] = "running"
                                    /\ done'[waiting'[i]] < Len(Script(waiting[i])')
    <3> SUFFICES ASSUME NEW i \in 1..Len(waiting')
                 PROVE  /\ outcome'[waiting'[i]] = "running"
                        /\ done'[waiting'[i]] < Len(Script(waiting[i])')
      OBVIOUS
    <3>2. i \in 1..Len(waiting) => waiting'[i] = waiting[i] /\ waiting[i] \in LockTxns
      BY <1>c, <2>4
    <3>3. i \notin 1..Len(waiting) => waiting'[i] = t
      BY <1>c, <2>4
    <3>4. Script(waiting[i])' = Script(waiting'[i])
      BY <1>a, <2>1
    <3> QED BY <1>c, <2>1, <2>3, <3>2, <3>3, <3>4
  <2> QED BY <1>a, <2>1, <2>3, <2>4, <2>5, <2>6 DEF LockInv, AtMostOneVictim
<1>d. ASSUME NEW t \in LockTxns, IsWaiting(t), StopsWaiting(t), UNCHANGED scene,
             \A u \in LockTxns \ {t} : done'[u] = done[u] /\ outcome'[u] = outcome[u]
      PROVE  /\ waiting' \in Seq(Takers')
             /\ \A i, j \in 1..Len(waiting') : waiting'[i] = waiting'[j] => i = j
             /\ \A i \in 1..Len(waiting') : /\ outcome'[waiting'[i]] = "running"
                                            /\ done'[waiting'[i]] < Len(Script(waiting[i])')
  <2> SUFFICES ASSUME NEW i \in 1..Len(waiting')
               PROVE  /\ outcome'[waiting'[i]] = "running"
                      /\ done'[waiting'[i]] < Len(Script(waiting[i])')
    BY <1>a, <1>d, QueueCloses
  <2>1. PICK j \in 1..Len(waiting) : waiting'[i] = waiting[j]
    BY <1>d, QueueCloses
  <2>2. waiting'[i] # t
    BY <1>d, QueueCloses DEF IsWaiting
  <2>3. Script(waiting[i])' = Script(waiting'[i])
    BY <1>a, <1>d
  <2> QED BY <1>c, <1>d, <2>1, <2>2, <2>3
<1>3. ASSUME NEW t \in LockTxns, GrantLock(t) PROVE LockInv'
  <2>1. /\ IsWaiting(t) /\ StopsWaiting(t) /\ UNCHANGED <<scene, outcome>>
        /\ done' = [done EXCEPT ![t] = @ + 1]
    BY <1>3 DEF GrantLock
  <2>2. done' \in [LockTxns -> Nat] /\ \A u \in LockTxns \ {t} : done'[u] = done[u]
    BY <1>c, <2>1
  <2> QED BY <1>d, <2>1, <2>2 DEF LockInv, AtMostOneVictim
<1>4. ASSUME NEW t \in LockTxns, Detect(t) PROVE LockInv'
  <2>1. IsWaiting(t)
    BY <1>4 DEF Detect, InCycle
  <2>2. StopsWaiting(t) /\ UNCHANGED <<scene, done>> /\ outcome' = [outcome EXCEPT ![t] = "aborted"]
    BY <1>4 DEF Detect
  <2>3. /\ outcome' \in [LockTxns -> {"running", "committed", "aborted"}]
        /\ \A u \in LockTxns \ {t} : outcome'[u] = outcome[u]
    BY <2>2 DEF LockInv
  <2>4. AtMostOneVictim'
    <3>1. CASE t \in {Txn1, Txn2}
      <4>1. IsWaiting(Txn1) /\ IsWaiting(Txn2)
        BY <1>4, <3>1, CycleNeedsBoth DEF Detect
      <4>2. outcome[Txn1] = "running" /\ outcome[Txn2] = "running"
        BY <4>1 DEF LockInv, IsWaiting
      <4>3. Txn1 \in LockTxns /\ Txn2 \in LockTxns /\ Txn1 # Txn2
        BY LockTxnsDiffer DEF LockTxns
      <4> QED BY <2>3, <3>1, <4>2, <4>3 DEF AtMostOneVictim
    <3>2. CASE t \notin {Txn1, Txn2}
      <4>1. Txn1 \in LockTxns /\ Txn2 \in LockTxns
        BY DEF LockTxns
      <4> QED BY <2>3, <3>2, <4>1 DEF AtMostOneVictim, LockInv
    <3> QED BY <3>1, <3>2
  <2> QED BY <1>d, <2>1, <2>2, <2>3, <2>4 DEF LockInv
<1>5. ASSUME NEW t \in LockTxns, Finish(t) PROVE LockInv'
  <2>1. /\ UNCHANGED <<scene, waiting, done>> /\ outcome' = [outcome EXCEPT ![t] = "committed"]
        /\ done[t] = Len(Script(t))
    BY <1>5 DEF Finish
  <2>2. /\ outcome' \in [LockTxns -> {"running", "committed", "aborted"}]
        /\ \A u \in LockTxns \ {t} : outcome'[u] = outcome[u]
        /\ outcome'[t] = "committed"
    BY <2>1 DEF LockInv
  <2>3. \A i \in 1..Len(waiting) : waiting[i] # t
    BY <1>c, <2>1
  <2>4. \A i \in 1..Len(waiting') : Script(waiting[i])' = Script(waiting'[i])
    BY <1>a, <2>1
  <2>5. \A i \in 1..Len(waiting') : /\ outcome'[waiting'[i]] = "running"
                                    /\ done'[waiting'[i]] < Len(Script(waiting[i])')
    BY <1>c, <2>1, <2>2, <2>3, <2>4
  <2>6. AtMostOneVictim'
    BY <2>2 DEF AtMostOneVictim, LockInv, LockTxns
  <2> QED BY <1>a, <2>1, <2>2, <2>5, <2>6 DEF LockInv
<1> QED BY <1>1, <1>2, <1>3, <1>4, <1>5 DEF LockNext, LockStep

\* Of two transactions that lock each other out the detector aborts one and never
\* both, whoever else has locks, for any number of checkouts.
THEOREM DeadlockCostsOne == LockSpec => []AtMostOneVictim
<1>1. LockInit => LockInv
  BY DEF LockInit, LockInv, AtMostOneVictim, LockTxns
<1>2. LockInv => AtMostOneVictim
  BY DEF LockInv
<1> QED BY <1>1, <1>2, NextLockInv, PTL DEF LockSpec

-----------------------------------------------------------------------------
(* The programs side by side *)

\* A behaviour of the seven programs is a behaviour of each of them, and what the
\* run checks on small instances, liveness apart, holds of all of them.
THEOREM ProgramsHold ==
    Spec => /\ [](ReadsFollowTimestamps /\ ArmsAreExact /\ UntoldCountForNothing /\ BudgetIsLargest)
            /\ [](OldestCompletes /\ AtMostOneVictim)
            /\ AnswersAreRecent /\ OneEventOnePenalty
<1> USE DEF allVars, Next, Aimd, Estimator, Buying, Wounding, Ordering, Locking, Windowing
<1>1. Init => AimdInit /\ EstimatorInit /\ BuyingInit /\ ToInit /\ WindowInit
                /\ WoundInit /\ LockInit
  BY DEF Init
<1>2. [Next]_allVars => [AimdNext]_aimdVars
  OBVIOUS
<1>3. [Next]_allVars => [EstimatorNext]_showVars
  OBVIOUS
<1>4. [Next]_allVars => [BuyingNext]_buyingVars
  OBVIOUS
<1>5. [Next]_allVars => [ToNext]_toVars
  OBVIOUS
<1>6. [Next]_allVars => [WindowNext]_windowVars
  OBVIOUS
<1>a. [Next]_allVars => [WoundNext]_woundVars
  OBVIOUS
<1>b. [Next]_allVars => [LockNext]_lockVars
  OBVIOUS
<1>7. Spec => Init /\ [][Next]_allVars
  BY PTL DEF Spec
<1>8. Spec => /\ AimdSpec /\ EstimatorSpec /\ BuyingSpec /\ ToSpec /\ WindowSpec
              /\ WoundSpec /\ LockSpec
  BY <1>1, <1>2, <1>3, <1>4, <1>5, <1>6, <1>a, <1>b, <1>7, PTL
     DEF AimdSpec, EstimatorSpec, BuyingSpec, ToSpec, WindowSpec, WoundSpec, LockSpec
<1> QED BY <1>8, SerialInTimestampOrder, EveryArmIsExact, SlowNoticeLeavesEstimate,
           BudgetStopsInTime, OldestIsNeverWounded, DeadlockCostsOne, AnswersWithinPeriod,
           OneEventCostsOne, PTL
=============================================================================
