------------------------------ MODULE Checkout ------------------------------
(***************************************************************************)
(* The three checkout handlers of app/main.py, run concurrently for one    *)
(* sale, together with the admin reset.  A step is one round trip to       *)
(* PostgreSQL or Redis: the points where the handlers interleave.          *)
(*                                                                         *)
(*   pessimistic   SELECT .. FOR UPDATE, UPDATE, INSERT, COMMIT            *)
(*   optimistic    SELECT, UPDATE .. WHERE version = :v, INSERT, COMMIT    *)
(*   redis         EXISTS, (SELECT, SET NX), DECR, INSERT, COMMIT          *)
(*                                                                         *)
(* PostgreSQL runs READ COMMITTED: readers see the committed row, writers  *)
(* queue for its row lock and re-evaluate their WHERE on the committed     *)
(* version.  Transactions that are not committed disappear on rollback or  *)
(* on a crash; commands already executed by Redis do not.                  *)
(***************************************************************************)
EXTENDS Integers, FiniteSets

CONSTANTS Requests,      \* checkout requests, each one POST /checkout/<strategy>
          Strategies,    \* strategies in use for the sale
          Stock,         \* inventory.total_stock as seeded
          UnknownUsers,  \* requests whose user_id is not in users (FK refuses)
          RestockLevels, \* ?stock= values an operator resets the sale to
          MaxResets,     \* bound on admin resets, and on Redis restarts
          Faults,        \* environment faults that may happen
          NoOne,         \* nobody holds the row lock
          Missing        \* the Redis key stock:{sale} does not exist

ASSUME ConstantsAssumption ==
    /\ IsFiniteSet(Requests)
    /\ Strategies \subseteq {"pessimistic", "optimistic", "redis"}
    /\ Stock \in Nat
    /\ UnknownUsers \subseteq Requests
    /\ RestockLevels \subseteq Nat
    /\ MaxResets \in Nat
    /\ NoOne \notin Requests
    /\ Missing \notin Int

VARIABLES row,        \* committed inventory row: total, reserved, version
          draft,      \* the row as the lock holder's transaction sees it
          lockedBy,   \* holder of the inventory row lock
          counter,    \* Redis stock:{sale}
          pc,         \* where each handler is
          strat,      \* the endpoint each request called
          seen,       \* the row a handler's plain SELECT returned
          sold,       \* requests with a durable order in the current round
          answer,     \* outcome reported to the client
          resetting,  \* stock a reset has committed to SQL but not yet to Redis
          resets,     \* admin resets so far
          restarts    \* and restarts of Redis

sqlVars   == <<row, draft, lockedBy>>
localVars == <<strat, seen>>
adminVars == <<resetting, resets, restarts>>
vars == <<row, draft, lockedBy, counter, pc, strat, seen, sold, answer,
          resetting, resets, restarts>>

SqlStrategies == {"pessimistic", "optimistic"}

InventoryRow == [total : Nat, reserved : Nat, version : Nat]

Answers == {"none", "confirmed", "sold_out", "conflict", "refused",
            "not_found", "error"}

Labels == {"idle", "lock", "decide", "select", "update", "insert", "abort",
           "exists", "seed", "setnx", "decr", "store", "undo", "compensate",
           "done", "crashed"}

TypeOK ==
    /\ row \in InventoryRow
    /\ draft \in InventoryRow
    /\ lockedBy \in Requests \cup {NoOne}
    /\ counter \in Int \cup {Missing}
    /\ pc \in [Requests -> Labels]
    /\ strat \in [Requests -> Strategies \cup {"none"}]
    /\ seen \in [Requests -> InventoryRow]
    /\ sold \subseteq Requests
    /\ answer \in [Requests -> Answers]
    /\ resetting \in Nat \cup {Missing}
    /\ {resets, restarts} \subseteq Nat

-----------------------------------------------------------------------------
(* Helpers *)

\* Before some definitions stands what a plausible bug would make of them.
WithoutConstraint(x)  == TRUE

\* total - reserved <= 0 is the sold-out test of all three handlers.
InStock(x) == x.total - x.reserved > 0

\* CHECK (reserved_stock <= total_stock), ck_inventory_no_oversell.
CheckHolds(x) == x.reserved <= x.total

\* UPDATE .. SET reserved_stock = reserved_stock + 1 leaves the version alone.
PessimisticImage(x) == [x EXCEPT !.reserved = @ + 1]
AbsoluteWrite(r)   == [seen[r] EXCEPT !.reserved = @ + 1, !.version = @ + 1]
OptimisticImage(r) == [total |-> row.total, reserved |-> row.reserved + 1,
                       version |-> row.version + 1]

IgnoresVersion(r) == TRUE
VersionMatches(r) == row.version = seen[r].version

\* Redis counts a missing key as zero.
Value(c) == IF c = Missing THEN 0 ELSE c

Goto(r, l)   == pc' = [pc EXCEPT ![r] = l]
Finish(r, a) == Goto(r, "done") /\ answer' = [answer EXCEPT ![r] = a]

LeaksLock(r) == UNCHANGED lockedBy
Unlock(r) == lockedBy' = IF lockedBy = r THEN NoOne ELSE lockedBy

Init ==
    /\ row = [total |-> Stock, reserved |-> 0, version |-> 0]
    /\ draft = row
    /\ lockedBy = NoOne
    /\ counter = Missing
    /\ pc = [r \in Requests |-> "idle"]
    /\ strat = [r \in Requests |-> "none"]
    /\ seen = [r \in Requests |-> row]
    /\ sold = {}
    /\ answer = [r \in Requests |-> "none"]
    /\ resetting = Missing
    /\ resets = 0 /\ restarts = 0

Entry(s) == CASE s = "pessimistic" -> "lock"
              [] s = "optimistic"  -> "select"
              [] s = "redis"       -> "exists"

Begin(r, s) ==
    /\ pc[r] = "idle"
    /\ strat' = [strat EXCEPT ![r] = s]
    /\ Goto(r, Entry(s))
    /\ UNCHANGED <<sqlVars, counter, seen, sold, answer, adminVars>>

-----------------------------------------------------------------------------
(* POST /checkout/pessimistic *)

\* SELECT .. FOR UPDATE waits for the row lock.
LockRow(r) ==
    /\ pc[r] = "lock"
    /\ lockedBy = NoOne
    /\ lockedBy' = r
    /\ draft' = row
    /\ Goto(r, "decide")
    /\ UNCHANGED <<row, counter, localVars, sold, answer, adminVars>>

\* Sold out: rollback, which frees the lock.
PessimisticSoldOut(r) ==
    /\ pc[r] = "decide"
    /\ ~InStock(draft)
    /\ Unlock(r)
    /\ Finish(r, "sold_out")
    /\ UNCHANGED <<row, draft, counter, localVars, sold, adminVars>>

\* UPDATE; a row the CHECK refuses raises IntegrityError with the lock held.
PessimisticUpdate(r) ==
    /\ pc[r] = "decide"
    /\ InStock(draft)
    /\ IF CheckHolds(PessimisticImage(draft))
       THEN draft' = PessimisticImage(draft) /\ Goto(r, "insert")
       ELSE UNCHANGED draft /\ Goto(r, "abort")
    /\ UNCHANGED <<row, lockedBy, counter, localVars, sold, answer, adminVars>>

(* POST /checkout/optimistic *)

OptimisticSelect(r) ==
    /\ pc[r] = "select"
    /\ seen' = [seen EXCEPT ![r] = row]
    /\ IF InStock(row)
       THEN Goto(r, "update") /\ UNCHANGED answer
       ELSE Finish(r, "sold_out")
    /\ UNCHANGED <<sqlVars, counter, strat, sold, adminVars>>

\* UPDATE .. WHERE version = :v touches no row: rollback, 409 "failed".  A row
\* whose committed version differs is skipped without waiting for its lock.
OptimisticConflict(r) ==
    /\ pc[r] = "update"
    /\ ~VersionMatches(r)
    /\ Finish(r, "conflict")
    /\ UNCHANGED <<sqlVars, counter, localVars, sold, adminVars>>

\* The version matches but the CHECK refuses: IntegrityError handler, 409.
OptimisticRefused(r) ==
    /\ pc[r] = "update"
    /\ lockedBy = NoOne
    /\ VersionMatches(r)
    /\ ~CheckHolds(OptimisticImage(r))
    /\ Finish(r, "refused")
    /\ UNCHANGED <<sqlVars, counter, localVars, sold, adminVars>>

OptimisticUpdate(r) ==
    /\ pc[r] = "update"
    /\ lockedBy = NoOne
    /\ VersionMatches(r)
    /\ CheckHolds(OptimisticImage(r))
    /\ lockedBy' = r
    /\ draft' = OptimisticImage(r)
    /\ Goto(r, "insert")
    /\ UNCHANGED <<row, counter, localVars, sold, answer, adminVars>>

(* The order row of both SQL strategies *)

\* INSERT INTO orders; COMMIT.
CommitOrder(r) ==
    /\ pc[r] = "insert"
    /\ r \notin UnknownUsers
    /\ row' = draft
    /\ sold' = sold \cup {r}
    /\ Unlock(r)
    /\ \/ Finish(r, "confirmed")
       \/ "commit_ack_lost" \in Faults /\ Finish(r, "error")
    /\ UNCHANGED <<draft, counter, localVars, adminVars>>

\* The INSERT violates a foreign key.  The exception leaves through finally,
\* which writes the behaviour log while the session still holds the lock.
InsertRefused(r) ==
    /\ pc[r] = "insert"
    /\ r \in UnknownUsers
    /\ Goto(r, "abort")
    /\ UNCHANGED <<sqlVars, counter, localVars, sold, answer, adminVars>>

\* get_db closes the session: rollback, and the exception handler answers.
CloseSession(r) ==
    /\ pc[r] = "abort"
    /\ Unlock(r)
    /\ Finish(r, IF r \in UnknownUsers THEN "not_found" ELSE "refused")
    /\ UNCHANGED <<row, draft, counter, localVars, sold, adminVars>>

\* PostgreSQL refuses the commit (connection lost before it): rolled back.
CommitRefused(r) ==
    /\ "commit_refused" \in Faults
    /\ pc[r] = "insert"
    /\ Unlock(r)
    /\ Finish(r, "error")
    /\ UNCHANGED <<row, draft, counter, localVars, sold, adminVars>>

-----------------------------------------------------------------------------
(* POST /checkout/redis *)

RedisExists(r) ==
    /\ pc[r] = "exists"
    /\ Goto(r, IF counter = Missing THEN "seed" ELSE "decr")
    /\ UNCHANGED <<sqlVars, counter, localVars, sold, answer, adminVars>>

RedisSeedRead(r) ==
    /\ pc[r] = "seed"
    /\ seen' = [seen EXCEPT ![r] = row]
    /\ Goto(r, "setnx")
    /\ UNCHANGED <<sqlVars, counter, strat, sold, answer, adminVars>>

SeedValue(x) == IF InStock(x) THEN x.total - x.reserved ELSE 0

SetNX(c, n)     == IF c = Missing THEN n ELSE c

RedisSeed(r) ==
    /\ pc[r] = "setnx"
    /\ counter' = SetNX(counter, SeedValue(seen[r]))
    /\ Goto(r, "decr")
    /\ UNCHANGED <<sqlVars, localVars, sold, answer, adminVars>>

RedisDecr(r) ==
    /\ pc[r] = "decr"
    /\ counter' = Value(counter) - 1
    /\ Goto(r, IF counter' < 0 THEN "undo" ELSE "store")
    /\ UNCHANGED <<sqlVars, localVars, sold, answer, adminVars>>

\* INCR gives back the decrement that found nothing.
RedisSoldOut(r) ==
    /\ pc[r] = "undo"
    /\ counter' = Value(counter) + 1
    /\ Finish(r, "sold_out")
    /\ UNCHANGED <<sqlVars, localVars, sold, adminVars>>

\* INSERT INTO orders; COMMIT.  If the commit is applied but its
\* acknowledgement is lost, the handler sees an exception all the same.
RedisStore(r) ==
    /\ pc[r] = "store"
    /\ r \notin UnknownUsers
    /\ sold' = sold \cup {r}
    /\ \/ Finish(r, "confirmed")
       \/ /\ "commit_ack_lost" \in Faults
          /\ Goto(r, "compensate")
          /\ UNCHANGED answer
    /\ UNCHANGED <<sqlVars, counter, localVars, adminVars>>

\* Any exception from INSERT or COMMIT: rollback, then compensate.
RedisStoreFails(r) ==
    /\ pc[r] = "store"
    /\ r \in UnknownUsers \/ "commit_refused" \in Faults
    /\ Goto(r, "compensate")
    /\ UNCHANGED <<sqlVars, counter, localVars, sold, answer, adminVars>>

CompensatesTwice(r) ==
    /\ pc[r] = "compensate"
    /\ counter' = Value(counter) + 2
    /\ Finish(r, "error")
    /\ UNCHANGED <<sqlVars, localVars, sold, adminVars>>

RedisCompensate(r) ==
    /\ pc[r] = "compensate"
    /\ counter' = Value(counter) + 1
    /\ Finish(r, "error")
    /\ UNCHANGED <<sqlVars, localVars, sold, adminVars>>

\* What the Redis command a handler is about to send does to the counter.
RedisEffect(r) ==
    CASE pc[r] = "setnx" -> SetNX(counter, SeedValue(seen[r]))
      [] pc[r] = "decr" -> Value(counter) - 1
      [] pc[r] \in {"undo", "compensate"} -> Value(counter) + 1
      [] OTHER -> counter

\* A Redis call raises, the command executed or not: HTTP 500, nothing is
\* compensated.
RedisDown(r) ==
    /\ "redis_down" \in Faults
    /\ pc[r] \in {"exists", "setnx", "decr", "undo", "compensate"}
    /\ counter' \in {counter, RedisEffect(r)}
    /\ Finish(r, "error")
    /\ UNCHANGED <<sqlVars, localVars, sold, adminVars>>

\* Redis loses its data (restart without persistence).
RedisRestart ==
    /\ "redis_restart" \in Faults
    /\ counter # Missing
    /\ restarts < MaxResets
    /\ counter' = Missing
    /\ restarts' = restarts + 1
    /\ UNCHANGED <<sqlVars, pc, localVars, sold, answer, resetting, resets>>

-----------------------------------------------------------------------------
(* Crashes and POST /admin/reset-sale *)

\* The API process dies: its open transaction is rolled back.
Crash(r) ==
    /\ "crash" \in Faults
    /\ pc[r] \notin {"idle", "done", "crashed"}
    /\ Unlock(r)
    /\ Goto(r, "crashed")
    /\ UNCHANGED <<row, draft, counter, localVars, sold, answer, adminVars>>

\* UPDATE inventory; COMMIT.  Past orders stay but no longer count.  Resets are
\* taken one at a time.
ResetSql(n) ==
    /\ resetting = Missing
    /\ resets < MaxResets
    /\ lockedBy = NoOne
    /\ row' = [total |-> n, reserved |-> 0, version |-> 0]
    /\ sold' = {}
    /\ resetting' = n
    /\ resets' = resets + 1
    /\ UNCHANGED <<draft, lockedBy, counter, pc, localVars, answer, restarts>>

\* SET stock:{sale}; a Redis failure is swallowed.
ResetRedis ==
    /\ resetting # Missing
    /\ \/ counter' = resetting
       \/ "redis_down" \in Faults /\ UNCHANGED counter
    /\ resetting' = Missing
    /\ UNCHANGED <<sqlVars, pc, localVars, sold, answer, resets, restarts>>

-----------------------------------------------------------------------------
SqlStep(r) ==
    \/ LockRow(r) \/ PessimisticSoldOut(r) \/ PessimisticUpdate(r)
    \/ OptimisticSelect(r) \/ OptimisticConflict(r)
    \/ OptimisticRefused(r) \/ OptimisticUpdate(r)
    \/ CommitOrder(r) \/ InsertRefused(r) \/ CloseSession(r)
    \/ CommitRefused(r)

RedisStep(r) ==
    \/ RedisExists(r) \/ RedisSeedRead(r) \/ RedisSeed(r) \/ RedisDecr(r)
    \/ RedisSoldOut(r) \/ RedisStore(r) \/ RedisStoreFails(r)
    \/ RedisCompensate(r) \/ RedisDown(r)

AllAnswered == \A r \in Requests : pc[r] \in {"done", "crashed"}

\* The sale is over: every request has ended and no reset is left to do.
SaleOver == AllAnswered /\ UNCHANGED vars

Next ==
    \/ \E r \in Requests :
          \/ \E s \in Strategies : Begin(r, s)
          \/ SqlStep(r)
          \/ RedisStep(r)
          \/ Crash(r)
    \/ \E n \in RestockLevels : ResetSql(n)
    \/ ResetRedis
    \/ RedisRestart
    \/ SaleOver

Spec == Init /\ [][Next]_vars

\* A started handler keeps running; nobody has to start one.
FairSpec == Spec /\ \A r \in Requests : WF_vars(SqlStep(r) \/ RedisStep(r))

-----------------------------------------------------------------------------
(* Properties *)

SqlSold   == {r \in sold : strat[r] \in SqlStrategies}
RedisSold == {r \in sold : strat[r] = "redis"}

\* The handler is between its UPDATE and the end of its transaction.
InTransaction(r) == pc[r] \in {"decide", "insert", "abort"}

\* The denormalised counter never drifts: inventory.reserved_stock is the
\* number of SQL orders of this round, through rollbacks, lost
\* acknowledgements, crashes, resets and any mix of the two SQL handlers.
SqlLedgerExact == row.reserved = Cardinality(SqlSold)

\* Whatever the other strategy does, the orders placed through the database
\* never exceed the stock the database row promises.
SqlNoOversell == Cardinality(SqlSold) <= row.total

\* Every buyer so far is an optimistic one, and the sale has not been reset.
OptimisticOnly == resets = 0 /\ \A r \in Requests : strat[r] \in {"none", "optimistic"}

\* Among optimistic buyers a version match means what the handler takes it to
\* mean: nobody changed the row between its SELECT and its UPDATE, whether the
\* UPDATE goes through or the CHECK refuses it (which, the row being the one with
\* stock left, it then has no reason to).  A pessimistic buyer, or a reset to
\* version 0, would break it.
OptimisticReadsFresh ==
    [][OptimisticOnly => \A r \in Requests :
          (pc[r] = "update" /\ (pc'[r] = "insert" \/ answer'[r] = "refused"))
             => seen[r] = row]_vars

\* Units the Redis handlers have taken and not yet sold or given back, and
\* decrements below zero that are still to be undone.
RedisHolding   == {r \in Requests : pc[r] \in {"store", "compensate"}}
RedisOverdrawn == {r \in Requests : pc[r] = "undo"}

\* Every buyer so far is a Redis one, Redis still has what it was told, the sale
\* has not been reset, and no commit lost its acknowledgement.
RedisOnly ==
    /\ resets = 0 /\ restarts = 0
    /\ \A r \in Requests : strat[r] \in {"none", "redis"}
    /\ \A r \in sold : answer[r] = "confirmed"

\* On a sale sold through Redis every unit is in exactly one place: on the
\* counter, in the hands of a handler, or in an order.  A handler that dies, or
\* cannot reach Redis to compensate, may lose units but never makes one, and
\* never more are sold or about to be than the sale has.
CounterCreatesNoUnit ==
    (RedisOnly /\ counter # Missing) =>
        /\ counter + Cardinality(RedisHolding \cup RedisSold)
                   + Cardinality(RedisOverdrawn) <= row.total
        /\ Cardinality(RedisHolding \cup RedisSold) <= row.total

\* A buyer whose request was accepted gets an answer: no handler waits for
\* ever on a row lock another one forgot.
EveryRequestAnswered ==
    \A r \in Requests : pc[r] # "idle" ~> pc[r] \in {"done", "crashed"}

\* The SQL handlers implement the ledger: a unit is held from the UPDATE to
\* the end of the transaction, and "sold out" is said only on an empty sale.
SqlHolding == {r \in Requests : pc[r] \in {"insert", "abort"}}
SqlAnswer == [r \in Requests |-> IF strat[r] = "redis" THEN "none" ELSE answer[r]]
SqlLedger == INSTANCE StockLedger WITH capacity <- row.total,
             held <- SqlHolding, sold <- SqlSold, answer <- SqlAnswer
SqlImplementsLedger == SqlLedger!Spec

=============================================================================
