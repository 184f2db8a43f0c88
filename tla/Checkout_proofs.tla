-------------------------- MODULE Checkout_proofs --------------------------
(***************************************************************************)
(* For every number of requests, stock, fault set and mix of strategies:   *)
(* inventory.reserved_stock is exactly the number of SQL orders of the     *)
(* round, the SQL orders never exceed the stock, and on their SQL side the *)
(* handlers implement the stock ledger.                                    *)
(***************************************************************************)
EXTENDS Checkout, FiniteSetTheorems, TLAPS

\* Only the lock holder is inside a writing transaction.
RowLocked == \A r \in Requests : InTransaction(r) => lockedBy = r

\* The lock holder's image is the committed row, plus its own unit once it
\* has executed the UPDATE.
DraftFollowsRow ==
    \A r \in Requests :
        /\ pc[r] = "decide" => draft = row
        /\ pc[r] = "insert" => /\ draft.total = row.total
                              /\ draft.reserved = row.reserved + 1
                              /\ CheckHolds(draft)

SqlLabels   == {"lock", "decide", "select", "update", "insert", "abort"}
RedisLabels == {"exists", "seed", "setnx", "decr", "store", "undo", "compensate"}

\* A handler only runs the code of the endpoint it was called through.
StrategyFollowsCode ==
    \A r \in Requests :
        /\ pc[r] \in SqlLabels   => strat[r] \in SqlStrategies
        /\ pc[r] \in RedisLabels => strat[r] = "redis"

\* A request that still can place its order has not placed it.
SoldIsOver == \A r \in sold : pc[r] \in {"compensate", "done", "crashed"}

LedgerInv ==
    /\ TypeOK
    /\ RowLocked
    /\ DraftFollowsRow
    /\ StrategyFollowsCode
    /\ SoldIsOver
    /\ SqlLedgerExact
    /\ CheckHolds(row)

-----------------------------------------------------------------------------
LEMMA InitTypeOK == Init => TypeOK
  BY ConstantsAssumption DEF Init, TypeOK, InventoryRow, Labels, Answers

LEMMA NextTypeOK == TypeOK /\ [Next]_vars => TypeOK'
  <1> SUFFICES ASSUME TypeOK, [Next]_vars PROVE TypeOK'
    OBVIOUS
  <1> USE ConstantsAssumption DEF TypeOK, InventoryRow, Labels, Answers, Goto,
          Finish, Unlock, sqlVars, localVars, adminVars
  <1>1. ASSUME NEW r \in Requests, NEW s \in Strategies, Begin(r, s)
        PROVE  TypeOK'
    BY <1>1 DEF Begin, Entry
  <1>2. ASSUME NEW r \in Requests, LockRow(r)
        PROVE  TypeOK'
    BY <1>2 DEF LockRow
  <1>3. ASSUME NEW r \in Requests, PessimisticSoldOut(r)
        PROVE  TypeOK'
    BY <1>3 DEF PessimisticSoldOut
  <1>4. ASSUME NEW r \in Requests, PessimisticUpdate(r)
        PROVE  TypeOK'
    BY <1>4 DEF PessimisticUpdate, PessimisticImage, CheckHolds
  <1>5. ASSUME NEW r \in Requests, OptimisticSelect(r)
        PROVE  TypeOK'
    BY <1>5 DEF OptimisticSelect
  <1>6. ASSUME NEW r \in Requests, OptimisticConflict(r)
        PROVE  TypeOK'
    BY <1>6 DEF OptimisticConflict
  <1>7. ASSUME NEW r \in Requests, OptimisticRefused(r)
        PROVE  TypeOK'
    BY <1>7 DEF OptimisticRefused
  <1>8. ASSUME NEW r \in Requests, OptimisticUpdate(r)
        PROVE  TypeOK'
    <2>1. OptimisticImage(r) \in InventoryRow
      BY DEF OptimisticImage
    <2> QED
      BY <1>8, <2>1 DEF OptimisticUpdate
  <1>9. ASSUME NEW r \in Requests, CommitOrder(r)
        PROVE  TypeOK'
    BY <1>9 DEF CommitOrder
  <1>10. ASSUME NEW r \in Requests, InsertRefused(r)
        PROVE  TypeOK'
    BY <1>10 DEF InsertRefused
  <1>11. ASSUME NEW r \in Requests, CloseSession(r)
        PROVE  TypeOK'
    BY <1>11 DEF CloseSession
  <1>12. ASSUME NEW r \in Requests, CommitRefused(r)
        PROVE  TypeOK'
    BY <1>12 DEF CommitRefused
  <1>13. ASSUME NEW r \in Requests, RedisExists(r)
        PROVE  TypeOK'
    BY <1>13 DEF RedisExists
  <1>14. ASSUME NEW r \in Requests, RedisSeedRead(r)
        PROVE  TypeOK'
    BY <1>14 DEF RedisSeedRead
  <1>15. ASSUME NEW r \in Requests, RedisSeed(r)
        PROVE  TypeOK'
    BY <1>15 DEF RedisSeed, SetNX, SeedValue, InStock
  <1>16. ASSUME NEW r \in Requests, RedisDecr(r)
        PROVE  TypeOK'
    BY <1>16 DEF RedisDecr, Value
  <1>17. ASSUME NEW r \in Requests, RedisSoldOut(r)
        PROVE  TypeOK'
    BY <1>17 DEF RedisSoldOut, Value
  <1>18. ASSUME NEW r \in Requests, RedisStore(r)
        PROVE  TypeOK'
    BY <1>18 DEF RedisStore
  <1>19. ASSUME NEW r \in Requests, RedisStoreFails(r)
        PROVE  TypeOK'
    BY <1>19 DEF RedisStoreFails
  <1>20. ASSUME NEW r \in Requests, RedisCompensate(r)
        PROVE  TypeOK'
    BY <1>20 DEF RedisCompensate, Value
  <1>21. ASSUME NEW r \in Requests, RedisDown(r)
        PROVE  TypeOK'
    <2>1. RedisEffect(r) \in Int \cup {Missing}
      BY DEF RedisEffect, SetNX, SeedValue, InStock, Value
    <2>2. counter' \in Int \cup {Missing}
      BY <1>21, <2>1 DEF RedisDown
    <2> QED
      BY <1>21, <2>2 DEF RedisDown
  <1>22. ASSUME NEW r \in Requests, Crash(r)
        PROVE  TypeOK'
    BY <1>22 DEF Crash
  <1>23. ASSUME NEW n \in RestockLevels, ResetSql(n)
        PROVE  TypeOK'
    BY <1>23 DEF ResetSql
  <1>24. CASE ResetRedis
    BY <1>24 DEF ResetRedis
  <1>25. CASE RedisRestart
    BY <1>25 DEF RedisRestart
  <1>26. CASE UNCHANGED vars
    BY <1>26 DEF vars
  <1> QED
    BY <1>1, <1>2, <1>3, <1>4, <1>5, <1>6, <1>7, <1>8, <1>9, <1>10, <1>11,
       <1>12, <1>13, <1>14, <1>15, <1>16, <1>17, <1>18, <1>19, <1>20, <1>21,
       <1>22, <1>23, <1>24, <1>25, <1>26
    DEF Next, SqlStep, RedisStep, SaleOver

\* Type correctness of the checkout module.
THEOREM TypeCorrect == Spec => []TypeOK
  BY InitTypeOK, NextTypeOK, PTL DEF Spec

-----------------------------------------------------------------------------
(* The ledger: reserved_stock counts the SQL orders *)

LEMMA InitLedgerInv == Init => LedgerInv
  <1> SUFFICES ASSUME Init PROVE LedgerInv
    OBVIOUS
  <1>1. TypeOK
    BY InitTypeOK
  <1>2. SqlSold = {} /\ Cardinality(SqlSold) = 0
    BY FS_EmptySet DEF Init, SqlSold
  <1>3. SqlLedgerExact /\ CheckHolds(row)
    BY <1>2, ConstantsAssumption DEF Init, SqlLedgerExact, CheckHolds
  <1> QED
    BY <1>1, <1>3 DEF Init, LedgerInv, RowLocked, InTransaction, DraftFollowsRow,
       StrategyFollowsCode, SqlLabels, RedisLabels, SoldIsOver

\* A step that leaves the row alone and adds no SQL order keeps the ledger.
LEMMA LedgerUntouched ==
  ASSUME LedgerInv, row' = row, SqlSold' = SqlSold
  PROVE  SqlLedgerExact' /\ CheckHolds(row)'
  BY DEF LedgerInv, SqlLedgerExact, CheckHolds

\* Starting a request renames no order: the request had not placed one.
LEMMA BeginKeepsSqlSold ==
  ASSUME LedgerInv, NEW r \in Requests, NEW s \in Strategies, Begin(r, s)
  PROVE  SqlSold' = SqlSold
  <1>1. r \notin sold
    BY DEF LedgerInv, SoldIsOver, Begin
  <1> QED
    BY <1>1 DEF LedgerInv, TypeOK, Begin, SqlSold

\* The commit adds one SQL order and one reserved unit.
LEMMA CommitKeepsLedger ==
  ASSUME LedgerInv, NEW r \in Requests, CommitOrder(r)
  PROVE  SqlLedgerExact' /\ CheckHolds(row)'
  <1>1. r \notin sold /\ strat[r] \in SqlStrategies /\ strat' = strat
    BY DEF LedgerInv, SoldIsOver, StrategyFollowsCode, SqlLabels, CommitOrder,
       localVars
  <1>2. SqlSold' = SqlSold \cup {r} /\ r \notin SqlSold
    BY <1>1 DEF CommitOrder, SqlSold
  <1>3. IsFiniteSet(SqlSold)
    BY FS_Subset, ConstantsAssumption DEF LedgerInv, TypeOK, SqlSold
  <1>4. Cardinality(SqlSold') = Cardinality(SqlSold) + 1
    BY <1>2, <1>3, FS_AddElement
  <1>5. row' = draft /\ draft.reserved = row.reserved + 1 /\ CheckHolds(draft)
    BY DEF LedgerInv, DraftFollowsRow, CommitOrder
  <1> QED
    BY <1>4, <1>5 DEF LedgerInv, SqlLedgerExact, CheckHolds

\* An order placed through Redis is not a SQL order.
LEMMA StoreKeepsSqlSold ==
  ASSUME LedgerInv, NEW r \in Requests, RedisStore(r)
  PROVE  SqlSold' = SqlSold
  <1>1. strat[r] = "redis" /\ strat' = strat /\ sold' = sold \cup {r}
    BY DEF LedgerInv, StrategyFollowsCode, RedisLabels, RedisStore, localVars
  <1> QED
    BY <1>1 DEF SqlSold, SqlStrategies

LEMMA NextLedgerInv == LedgerInv /\ [Next]_vars => LedgerInv'
  <1> SUFFICES ASSUME LedgerInv, [Next]_vars PROVE LedgerInv'
    OBVIOUS
  <1>0. TypeOK'
    BY NextTypeOK DEF LedgerInv
  <1> DEFINE Ledger == SqlLedgerExact /\ CheckHolds(row)
             Control == RowLocked /\ DraftFollowsRow /\ StrategyFollowsCode
                        /\ SoldIsOver
  <1> USE ConstantsAssumption DEF LedgerInv, TypeOK, InventoryRow, Goto, Finish,
          Unlock, sqlVars, localVars, adminVars, RowLocked, InTransaction,
          DraftFollowsRow, StrategyFollowsCode, SqlLabels, RedisLabels,
          SoldIsOver, Labels, Answers
  <1>1. ASSUME NEW r \in Requests, NEW s \in Strategies, Begin(r, s)
        PROVE  LedgerInv'
    <2>1. Control'
      BY <1>1 DEF Begin, Entry, SqlStrategies
    <2>2. Ledger'
      BY <1>1, BeginKeepsSqlSold, LedgerUntouched DEF Begin
    <2> QED
      BY <1>0, <2>1, <2>2
  <1>2. ASSUME NEW r \in Requests, LockRow(r)
        PROVE  LedgerInv'
    <2>1. Control'
      BY <1>2 DEF LockRow
    <2>2. Ledger'
      BY <1>2, LedgerUntouched DEF LockRow, SqlSold
    <2> QED
      BY <1>0, <2>1, <2>2
  <1>3. ASSUME NEW r \in Requests, PessimisticSoldOut(r)
        PROVE  LedgerInv'
    <2>1. Control'
      BY <1>3 DEF PessimisticSoldOut
    <2>2. Ledger'
      BY <1>3, LedgerUntouched DEF PessimisticSoldOut, SqlSold
    <2> QED
      BY <1>0, <2>1, <2>2
  <1>4. ASSUME NEW r \in Requests, PessimisticUpdate(r)
        PROVE  LedgerInv'
    <2>1. Control'
      BY <1>4 DEF PessimisticUpdate, PessimisticImage, CheckHolds
    <2>2. Ledger'
      BY <1>4, LedgerUntouched DEF PessimisticUpdate, SqlSold
    <2> QED
      BY <1>0, <2>1, <2>2
  <1>5. ASSUME NEW r \in Requests, OptimisticSelect(r)
        PROVE  LedgerInv'
    <2>1. Control'
      BY <1>5 DEF OptimisticSelect
    <2>2. Ledger'
      BY <1>5, LedgerUntouched DEF OptimisticSelect, SqlSold
    <2> QED
      BY <1>0, <2>1, <2>2
  <1>6. ASSUME NEW r \in Requests, OptimisticConflict(r)
        PROVE  LedgerInv'
    <2>1. Control'
      BY <1>6 DEF OptimisticConflict
    <2>2. Ledger'
      BY <1>6, LedgerUntouched DEF OptimisticConflict, SqlSold
    <2> QED
      BY <1>0, <2>1, <2>2
  <1>7. ASSUME NEW r \in Requests, OptimisticRefused(r)
        PROVE  LedgerInv'
    <2>1. Control'
      BY <1>7 DEF OptimisticRefused
    <2>2. Ledger'
      BY <1>7, LedgerUntouched DEF OptimisticRefused, SqlSold
    <2> QED
      BY <1>0, <2>1, <2>2
  <1>8. ASSUME NEW r \in Requests, OptimisticUpdate(r)
        PROVE  LedgerInv'
    <2>1. Control'
      BY <1>8 DEF OptimisticUpdate, OptimisticImage, CheckHolds
    <2>2. Ledger'
      BY <1>8, LedgerUntouched DEF OptimisticUpdate, SqlSold
    <2> QED
      BY <1>0, <2>1, <2>2
  <1>9. ASSUME NEW r \in Requests, CommitOrder(r)
        PROVE  LedgerInv'
    <2>1. Control'
      <3>1. RowLocked'
        BY <1>9 DEF CommitOrder
      <3>2. DraftFollowsRow'
        BY <1>9 DEF CommitOrder
      <3>3. StrategyFollowsCode' /\ SoldIsOver'
        BY <1>9 DEF CommitOrder
      <3> QED
        BY <3>1, <3>2, <3>3
    <2>2. Ledger'
      BY <1>9, CommitKeepsLedger
    <2> QED
      BY <1>0, <2>1, <2>2
  <1>10. ASSUME NEW r \in Requests, InsertRefused(r)
        PROVE  LedgerInv'
    <2>1. Control'
      BY <1>10 DEF InsertRefused
    <2>2. Ledger'
      BY <1>10, LedgerUntouched DEF InsertRefused, SqlSold
    <2> QED
      BY <1>0, <2>1, <2>2
  <1>11. ASSUME NEW r \in Requests, CloseSession(r)
        PROVE  LedgerInv'
    <2>1. Control'
      BY <1>11 DEF CloseSession
    <2>2. Ledger'
      BY <1>11, LedgerUntouched DEF CloseSession, SqlSold
    <2> QED
      BY <1>0, <2>1, <2>2
  <1>12. ASSUME NEW r \in Requests, CommitRefused(r)
        PROVE  LedgerInv'
    <2>1. Control'
      BY <1>12 DEF CommitRefused
    <2>2. Ledger'
      BY <1>12, LedgerUntouched DEF CommitRefused, SqlSold
    <2> QED
      BY <1>0, <2>1, <2>2
  <1>13. ASSUME NEW r \in Requests, RedisExists(r)
        PROVE  LedgerInv'
    <2>1. Control'
      BY <1>13 DEF RedisExists
    <2>2. Ledger'
      BY <1>13, LedgerUntouched DEF RedisExists, SqlSold
    <2> QED
      BY <1>0, <2>1, <2>2
  <1>14. ASSUME NEW r \in Requests, RedisSeedRead(r)
        PROVE  LedgerInv'
    <2>1. Control'
      BY <1>14 DEF RedisSeedRead
    <2>2. Ledger'
      BY <1>14, LedgerUntouched DEF RedisSeedRead, SqlSold
    <2> QED
      BY <1>0, <2>1, <2>2
  <1>15. ASSUME NEW r \in Requests, RedisSeed(r)
        PROVE  LedgerInv'
    <2>1. Control'
      BY <1>15 DEF RedisSeed
    <2>2. Ledger'
      BY <1>15, LedgerUntouched DEF RedisSeed, SqlSold
    <2> QED
      BY <1>0, <2>1, <2>2
  <1>16. ASSUME NEW r \in Requests, RedisDecr(r)
        PROVE  LedgerInv'
    <2>1. Control'
      BY <1>16 DEF RedisDecr
    <2>2. Ledger'
      BY <1>16, LedgerUntouched DEF RedisDecr, SqlSold
    <2> QED
      BY <1>0, <2>1, <2>2
  <1>17. ASSUME NEW r \in Requests, RedisSoldOut(r)
        PROVE  LedgerInv'
    <2>1. Control'
      BY <1>17 DEF RedisSoldOut
    <2>2. Ledger'
      BY <1>17, LedgerUntouched DEF RedisSoldOut, SqlSold
    <2> QED
      BY <1>0, <2>1, <2>2
  <1>18. ASSUME NEW r \in Requests, RedisStore(r)
        PROVE  LedgerInv'
    <2>1. Control'
      BY <1>18 DEF RedisStore
    <2>2. Ledger'
      BY <1>18, StoreKeepsSqlSold, LedgerUntouched DEF RedisStore
    <2> QED
      BY <1>0, <2>1, <2>2
  <1>19. ASSUME NEW r \in Requests, RedisStoreFails(r)
        PROVE  LedgerInv'
    <2>1. Control'
      BY <1>19 DEF RedisStoreFails
    <2>2. Ledger'
      BY <1>19, LedgerUntouched DEF RedisStoreFails, SqlSold
    <2> QED
      BY <1>0, <2>1, <2>2
  <1>20. ASSUME NEW r \in Requests, RedisCompensate(r)
        PROVE  LedgerInv'
    <2>1. Control'
      BY <1>20 DEF RedisCompensate
    <2>2. Ledger'
      BY <1>20, LedgerUntouched DEF RedisCompensate, SqlSold
    <2> QED
      BY <1>0, <2>1, <2>2
  <1>21. ASSUME NEW r \in Requests, RedisDown(r)
        PROVE  LedgerInv'
    <2>1. Control'
      BY <1>21 DEF RedisDown
    <2>2. Ledger'
      BY <1>21, LedgerUntouched DEF RedisDown, SqlSold
    <2> QED
      BY <1>0, <2>1, <2>2
  <1>22. ASSUME NEW r \in Requests, Crash(r)
        PROVE  LedgerInv'
    <2>1. Control'
      BY <1>22 DEF Crash
    <2>2. Ledger'
      BY <1>22, LedgerUntouched DEF Crash, SqlSold
    <2> QED
      BY <1>0, <2>1, <2>2
  <1>23. ASSUME NEW n \in RestockLevels, ResetSql(n)
        PROVE  LedgerInv'
    <2>1. Control'
      BY <1>23 DEF ResetSql
    <2>2. SqlSold' = {} /\ Cardinality(SqlSold') = 0
      BY <1>23, FS_EmptySet DEF ResetSql, SqlSold
    <2>3. Ledger'
      BY <1>23, <2>2 DEF ResetSql, SqlLedgerExact, CheckHolds
    <2> QED
      BY <1>0, <2>1, <2>3
  <1>24. CASE ResetRedis
    <2>1. Control'
      BY <1>24 DEF ResetRedis
    <2>2. Ledger'
      BY <1>24, LedgerUntouched DEF ResetRedis, SqlSold
    <2> QED
      BY <1>0, <2>1, <2>2
  <1>25. CASE RedisRestart
    <2>1. Control'
      BY <1>25 DEF RedisRestart
    <2>2. Ledger'
      BY <1>25, LedgerUntouched DEF RedisRestart, SqlSold
    <2> QED
      BY <1>0, <2>1, <2>2
  <1>26. CASE UNCHANGED vars
    <2>1. Control'
      BY <1>26 DEF vars
    <2>2. Ledger'
      BY <1>26, LedgerUntouched DEF vars, SqlSold
    <2> QED
      BY <1>0, <2>1, <2>2
  <1> QED
    BY <1>1, <1>2, <1>3, <1>4, <1>5, <1>6, <1>7, <1>8, <1>9, <1>10, <1>11,
       <1>12, <1>13, <1>14, <1>15, <1>16, <1>17, <1>18, <1>19, <1>20, <1>21,
       <1>22, <1>23, <1>24, <1>25, <1>26
    DEF Next, SqlStep, RedisStep, SaleOver

\* inventory.reserved_stock is the number of SQL orders of the round.
THEOREM SqlLedgerIsExact == Spec => []SqlLedgerExact
  <1>1. LedgerInv => SqlLedgerExact
    BY DEF LedgerInv
  <1> QED
    BY <1>1, InitLedgerInv, NextLedgerInv, PTL DEF Spec

\* The SQL handlers never sell more than the stock, whatever is mixed with
\* them and whatever fails.
THEOREM SqlNeverOversells == Spec => []SqlNoOversell
  <1>1. LedgerInv => SqlNoOversell
    BY DEF LedgerInv, SqlLedgerExact, CheckHolds, SqlNoOversell
  <1> QED
    BY <1>1, InitLedgerInv, NextLedgerInv, PTL DEF Spec

-----------------------------------------------------------------------------
(* The SQL handlers implement StockLedger *)

\* Only a handler that has returned has answered its buyer.
Unanswered == \A r \in Requests : pc[r] # "done" => answer[r] = "none"

AnswerInv == LedgerInv /\ Unanswered

LEMMA InitAnswerInv == Init => AnswerInv
  BY InitLedgerInv DEF AnswerInv, Init, Unanswered

LEMMA NextAnswerInv == AnswerInv /\ [Next]_vars => AnswerInv'
  <1> SUFFICES ASSUME AnswerInv, [Next]_vars PROVE AnswerInv'
    OBVIOUS
  <1>0. LedgerInv'
    BY NextLedgerInv DEF AnswerInv
  <1> USE DEF AnswerInv, LedgerInv, TypeOK, Unanswered, Goto,
          Finish, sqlVars, localVars, adminVars
  <1>1. ASSUME NEW r \in Requests, NEW s \in Strategies, Begin(r, s)
        PROVE  AnswerInv'
    BY <1>0, <1>1 DEF Begin
  <1>2. ASSUME NEW r \in Requests, LockRow(r)
        PROVE  AnswerInv'
    BY <1>0, <1>2 DEF LockRow
  <1>3. ASSUME NEW r \in Requests, PessimisticSoldOut(r)
        PROVE  AnswerInv'
    BY <1>0, <1>3 DEF PessimisticSoldOut
  <1>4. ASSUME NEW r \in Requests, PessimisticUpdate(r)
        PROVE  AnswerInv'
    BY <1>0, <1>4 DEF PessimisticUpdate
  <1>5. ASSUME NEW r \in Requests, OptimisticSelect(r)
        PROVE  AnswerInv'
    BY <1>0, <1>5 DEF OptimisticSelect
  <1>6. ASSUME NEW r \in Requests, OptimisticConflict(r)
        PROVE  AnswerInv'
    BY <1>0, <1>6 DEF OptimisticConflict
  <1>7. ASSUME NEW r \in Requests, OptimisticRefused(r)
        PROVE  AnswerInv'
    BY <1>0, <1>7 DEF OptimisticRefused
  <1>8. ASSUME NEW r \in Requests, OptimisticUpdate(r)
        PROVE  AnswerInv'
    BY <1>0, <1>8 DEF OptimisticUpdate
  <1>9. ASSUME NEW r \in Requests, CommitOrder(r)
        PROVE  AnswerInv'
    BY <1>0, <1>9 DEF CommitOrder
  <1>10. ASSUME NEW r \in Requests, InsertRefused(r)
        PROVE  AnswerInv'
    BY <1>0, <1>10 DEF InsertRefused
  <1>11. ASSUME NEW r \in Requests, CloseSession(r)
        PROVE  AnswerInv'
    BY <1>0, <1>11 DEF CloseSession
  <1>12. ASSUME NEW r \in Requests, CommitRefused(r)
        PROVE  AnswerInv'
    BY <1>0, <1>12 DEF CommitRefused
  <1>13. ASSUME NEW r \in Requests, RedisExists(r)
        PROVE  AnswerInv'
    BY <1>0, <1>13 DEF RedisExists
  <1>14. ASSUME NEW r \in Requests, RedisSeedRead(r)
        PROVE  AnswerInv'
    BY <1>0, <1>14 DEF RedisSeedRead
  <1>15. ASSUME NEW r \in Requests, RedisSeed(r)
        PROVE  AnswerInv'
    BY <1>0, <1>15 DEF RedisSeed
  <1>16. ASSUME NEW r \in Requests, RedisDecr(r)
        PROVE  AnswerInv'
    BY <1>0, <1>16 DEF RedisDecr
  <1>17. ASSUME NEW r \in Requests, RedisSoldOut(r)
        PROVE  AnswerInv'
    BY <1>0, <1>17 DEF RedisSoldOut
  <1>18. ASSUME NEW r \in Requests, RedisStore(r)
        PROVE  AnswerInv'
    BY <1>0, <1>18 DEF RedisStore
  <1>19. ASSUME NEW r \in Requests, RedisStoreFails(r)
        PROVE  AnswerInv'
    BY <1>0, <1>19 DEF RedisStoreFails
  <1>20. ASSUME NEW r \in Requests, RedisCompensate(r)
        PROVE  AnswerInv'
    BY <1>0, <1>20 DEF RedisCompensate
  <1>21. ASSUME NEW r \in Requests, RedisDown(r)
        PROVE  AnswerInv'
    BY <1>0, <1>21 DEF RedisDown
  <1>22. ASSUME NEW r \in Requests, Crash(r)
        PROVE  AnswerInv'
    BY <1>0, <1>22 DEF Crash
  <1>23. ASSUME NEW n \in RestockLevels, ResetSql(n)
        PROVE  AnswerInv'
    BY <1>0, <1>23 DEF ResetSql
  <1>24. CASE ResetRedis
    BY <1>0, <1>24 DEF ResetRedis
  <1>25. CASE RedisRestart
    BY <1>0, <1>25 DEF RedisRestart
  <1>26. CASE UNCHANGED vars
    BY <1>0, <1>26 DEF vars
  <1> QED
    BY <1>1, <1>2, <1>3, <1>4, <1>5, <1>6, <1>7, <1>8, <1>9, <1>10, <1>11,
       <1>12, <1>13, <1>14, <1>15, <1>16, <1>17, <1>18, <1>19, <1>20, <1>21,
       <1>22, <1>23, <1>24, <1>25, <1>26
    DEF Next, SqlStep, RedisStep, SaleOver

\* What a SQL handler tells its buyer is told in the ledger.
LEMMA SqlTells ==
  ASSUME TypeOK, NEW r \in Requests, strat[r] # "redis", strat' = strat,
         NEW a, answer' = [answer EXCEPT ![r] = a]
  PROVE  SqlAnswer[r] = answer[r] /\ SqlAnswer' = [SqlAnswer EXCEPT ![r] = a]
  BY DEF TypeOK, SqlAnswer

\* A step that tells SQL buyers nothing and sells them nothing.
LEMMA RedisTells ==
  ASSUME TypeOK, NEW r \in Requests, strat[r] = "redis", strat' = strat,
         \/ answer' = answer
         \/ \E a \in Answers : answer' = [answer EXCEPT ![r] = a]
  PROVE  SqlAnswer' = SqlAnswer
  BY DEF TypeOK, SqlAnswer

\* A free lock, or one whose holder has not updated yet, means no unit is held.
LEMMA NothingHeld ==
  ASSUME AnswerInv,
         \/ lockedBy = NoOne
         \/ \E r \in Requests : pc[r] = "decide"
  PROVE  SqlHolding = {}
  BY ConstantsAssumption DEF AnswerInv, LedgerInv, RowLocked, InTransaction, SqlHolding

\* The ledger's own copy of FiniteSets counts like the one used here.
LEMMA SameCardinality ==
  ASSUME NEW S
  PROVE  SqlLedger!Cardinality(S) = Cardinality(S)
  BY DEF SqlLedger!Cardinality, Cardinality, SqlLedger!IsFiniteSet, IsFiniteSet

LEMMA InitRefines == Init => SqlLedger!Init
  BY DEF Init, SqlLedger!Init, SqlHolding, SqlSold, SqlAnswer

LEMMA NextRefines ==
  ASSUME AnswerInv, [Next]_vars
  PROVE  [SqlLedger!Next]_(SqlLedger!ledgerVars)
  <1> USE DEF Goto, Finish, sqlVars, localVars, adminVars
  <1> DEFINE Still == row'.total = row.total /\ SqlHolding' = SqlHolding
                      /\ SqlSold' = SqlSold /\ SqlAnswer' = SqlAnswer
  <1>a. TypeOK /\ Unanswered
    BY DEF AnswerInv, LedgerInv
  <1>b. ASSUME Still PROVE [SqlLedger!Next]_(SqlLedger!ledgerVars)
    BY <1>b DEF SqlLedger!ledgerVars
  <1>c. ASSUME NEW r \in Requests, SqlLedger!Hold(r) \/ SqlLedger!Sell(r)
                                   \/ SqlLedger!GiveUp(r) \/ SqlLedger!Reject(r)
        PROVE  [SqlLedger!Next]_(SqlLedger!ledgerVars)
    BY <1>c DEF SqlLedger!Next
  <1>d. row.reserved = Cardinality(SqlSold) /\ IsFiniteSet(SqlSold)
    BY <1>a, FS_Subset, ConstantsAssumption
    DEF AnswerInv, LedgerInv, SqlLedgerExact, TypeOK, SqlSold
  <1>e. ASSUME NEW r \in Requests, pc[r] \in SqlLabels
        PROVE  strat[r] # "redis" /\ SqlAnswer[r] = "none" /\ r \notin SqlSold
    BY <1>e, <1>a DEF AnswerInv, LedgerInv, StrategyFollowsCode, SqlStrategies, SqlLabels,
       Unanswered, SqlAnswer, SoldIsOver, SqlSold
  <1>f. ASSUME NEW r \in Requests, pc[r] \in RedisLabels
        PROVE  strat[r] = "redis"
    BY <1>f DEF AnswerInv, LedgerInv, StrategyFollowsCode, RedisLabels
  <1>g. ASSUME sold' = sold, strat' = strat, answer' = answer
        PROVE  SqlSold' = SqlSold /\ SqlAnswer' = SqlAnswer
    BY <1>g DEF SqlSold, SqlAnswer
  <1>1. ASSUME NEW r \in Requests, NEW s \in Strategies, Begin(r, s)
        PROVE  [SqlLedger!Next]_(SqlLedger!ledgerVars)
    <2>1. Entry(s) \notin {"insert", "abort"}
      BY ConstantsAssumption DEF Entry
    <2>2. SqlSold' = SqlSold
      BY <1>1, BeginKeepsSqlSold DEF AnswerInv
    <2>3. SqlAnswer' = SqlAnswer
      BY <1>1, <1>a DEF Begin, SqlAnswer, TypeOK, Unanswered
    <2>4. SqlHolding' = SqlHolding
      BY <1>1, <2>1, <1>a DEF Begin, TypeOK, SqlHolding
    <2> QED
      BY <1>1, <2>2, <2>3, <2>4, <1>b DEF Begin
  <1>2. ASSUME NEW r \in Requests, LockRow(r)
        PROVE  [SqlLedger!Next]_(SqlLedger!ledgerVars)
    BY <1>2, <1>a, <1>b, <1>g DEF LockRow, TypeOK, SqlHolding
  <1>3. ASSUME NEW r \in Requests, PessimisticSoldOut(r)
        PROVE  [SqlLedger!Next]_(SqlLedger!ledgerVars)
    <2>0. strat[r] # "redis" /\ SqlAnswer[r] = "none"
      BY <1>3, <1>e DEF PessimisticSoldOut, SqlLabels
    <2>1. SqlHolding = {} /\ SqlHolding' = {}
      BY <1>3, <1>a, NothingHeld DEF PessimisticSoldOut, TypeOK, SqlHolding
    <2>2. row.total - row.reserved <= 0
      BY <1>3, <1>a DEF PessimisticSoldOut, InStock, AnswerInv, LedgerInv, DraftFollowsRow, TypeOK,
         InventoryRow
    <2>3. SqlHolding \cup SqlSold = SqlSold /\ SqlSold' = SqlSold
      BY <1>3, <2>1 DEF PessimisticSoldOut, SqlSold
    <2>4. SqlAnswer' = [SqlAnswer EXCEPT ![r] = "sold_out"]
      BY <1>3, <2>0, <1>a, SqlTells DEF PessimisticSoldOut
    <2>5. SqlLedger!Reject(r)
      BY <1>3, <1>d, <2>0, <2>1, <2>2, <2>3, <2>4, SameCardinality
      DEF PessimisticSoldOut, SqlLedger!Reject, SqlLedger!Left, SqlLedger!Tell
    <2> QED
      BY <2>5, <1>c
  <1>4. ASSUME NEW r \in Requests, PessimisticUpdate(r)
        PROVE  [SqlLedger!Next]_(SqlLedger!ledgerVars)
    <2>0. CheckHolds(PessimisticImage(draft))
      BY <1>4, <1>a DEF PessimisticUpdate, InStock, CheckHolds, PessimisticImage, TypeOK,
         InventoryRow
    <2>1. SqlHolding = {} /\ SqlHolding' = {r}
      BY <1>4, <2>0, <1>a, NothingHeld DEF PessimisticUpdate, TypeOK, SqlHolding
    <2>2. row.total - Cardinality(SqlSold) > 0
      BY <1>4, <2>0, <1>a, <1>d DEF PessimisticUpdate, PessimisticImage, CheckHolds, TypeOK,
         InventoryRow, AnswerInv, LedgerInv, DraftFollowsRow
    <2>3. SqlAnswer[r] = "none" /\ r \notin SqlSold /\ SqlHolding \cup SqlSold = SqlSold
      BY <1>4, <1>e, <2>1 DEF PessimisticUpdate, SqlLabels
    <2>4. SqlSold' = SqlSold /\ SqlAnswer' = SqlAnswer
      BY <1>4, <1>g DEF PessimisticUpdate
    <2>5. SqlLedger!Hold(r)
      BY <1>4, <2>1, <2>2, <2>3, <2>4, SameCardinality
      DEF PessimisticUpdate, SqlLedger!Hold, SqlLedger!Left
    <2> QED
      BY <2>5, <1>c
  <1>5. ASSUME NEW r \in Requests, OptimisticSelect(r)
        PROVE  [SqlLedger!Next]_(SqlLedger!ledgerVars)
    <2>1. CASE InStock(row)
      BY <1>5, <2>1, <1>a, <1>b, <1>g DEF OptimisticSelect, TypeOK, SqlHolding
    <2>2. CASE ~InStock(row)
      <3>0. strat[r] # "redis" /\ SqlAnswer[r] = "none"
        BY <1>5, <1>e DEF OptimisticSelect, SqlLabels
      <3>1. SqlHolding' = SqlHolding
        BY <1>5, <2>2, <1>a DEF OptimisticSelect, TypeOK, SqlHolding
      <3>2. row.total - row.reserved <= 0
        BY <2>2, <1>a DEF InStock, TypeOK, InventoryRow
      <3>3. IsFiniteSet(SqlHolding \cup SqlSold)
        BY <1>a, FS_Subset, ConstantsAssumption DEF TypeOK, SqlHolding, SqlSold
      <3>4. Cardinality(SqlSold) <= Cardinality(SqlHolding \cup SqlSold)
        BY <3>3, FS_Subset
      <3>5. Cardinality(SqlSold) \in Nat /\ Cardinality(SqlHolding \cup SqlSold) \in Nat
        BY <3>3, <1>d, FS_CardinalityType
      <3>6. row.total - Cardinality(SqlHolding \cup SqlSold) <= 0
        BY <3>2, <3>4, <3>5, <1>a, <1>d DEF TypeOK, InventoryRow
      <3>7. SqlSold' = SqlSold
        BY <1>5 DEF OptimisticSelect, SqlSold
      <3>8. SqlAnswer' = [SqlAnswer EXCEPT ![r] = "sold_out"]
        BY <1>5, <2>2, <3>0, <1>a, SqlTells DEF OptimisticSelect
      <3>9. SqlLedger!Reject(r)
        BY <1>5, <3>0, <3>1, <3>6, <3>7, <3>8, SameCardinality
        DEF OptimisticSelect, SqlLedger!Reject, SqlLedger!Left, SqlLedger!Tell
      <3> QED
        BY <3>9, <1>c
    <2> QED
      BY <2>1, <2>2
  <1>h. ASSUME NEW r \in Requests, NEW a \in SqlLedger!Inconclusive,
               pc[r] \in SqlLabels, row' = row, sold' = sold, strat' = strat,
               Finish(r, a)
        PROVE  [SqlLedger!Next]_(SqlLedger!ledgerVars)
    <2>1. SqlAnswer[r] = "none" /\ SqlAnswer' = [SqlAnswer EXCEPT ![r] = a]
      BY <1>h, <1>e, <1>a, SqlTells
    <2>2. SqlHolding' = SqlHolding \ {r} /\ SqlSold' = SqlSold
      BY <1>h, <1>a DEF TypeOK, SqlHolding, SqlSold
    <2>3. SqlLedger!GiveUp(r)
      BY <1>h, <2>1, <2>2 DEF SqlLedger!GiveUp, SqlLedger!Tell
    <2> QED
      BY <2>3, <1>c
  <1>6. ASSUME NEW r \in Requests, OptimisticConflict(r)
        PROVE  [SqlLedger!Next]_(SqlLedger!ledgerVars)
    BY <1>6, <1>h DEF OptimisticConflict, SqlLabels, SqlLedger!Inconclusive
  <1>7. ASSUME NEW r \in Requests, OptimisticRefused(r)
        PROVE  [SqlLedger!Next]_(SqlLedger!ledgerVars)
    BY <1>7, <1>h DEF OptimisticRefused, SqlLabels, SqlLedger!Inconclusive
  <1>8. ASSUME NEW r \in Requests, OptimisticUpdate(r)
        PROVE  [SqlLedger!Next]_(SqlLedger!ledgerVars)
    <2>1. SqlHolding = {} /\ SqlHolding' = {r}
      BY <1>8, <1>a, NothingHeld DEF OptimisticUpdate, TypeOK, SqlHolding
    <2>2. row.total - Cardinality(SqlSold) > 0
      BY <1>8, <1>a, <1>d DEF OptimisticUpdate, OptimisticImage, CheckHolds, TypeOK,
         InventoryRow
    <2>3. SqlAnswer[r] = "none" /\ r \notin SqlSold /\ SqlHolding \cup SqlSold = SqlSold
      BY <1>8, <1>e, <2>1 DEF OptimisticUpdate, SqlLabels
    <2>4. SqlSold' = SqlSold /\ SqlAnswer' = SqlAnswer
      BY <1>8, <1>g DEF OptimisticUpdate
    <2>5. SqlLedger!Hold(r)
      BY <1>8, <2>1, <2>2, <2>3, <2>4, SameCardinality
      DEF OptimisticUpdate, SqlLedger!Hold, SqlLedger!Left
    <2> QED
      BY <2>5, <1>c
  <1>9. ASSUME NEW r \in Requests, CommitOrder(r)
        PROVE  [SqlLedger!Next]_(SqlLedger!ledgerVars)
    <2>0. strat[r] # "redis"
      BY <1>9, <1>e DEF CommitOrder, SqlLabels
    <2>1. SqlHolding' = SqlHolding \ {r} /\ r \in SqlHolding
      BY <1>9, <1>a DEF CommitOrder, TypeOK, SqlHolding
    <2>2. row'.total = row.total
      BY <1>9, <1>a DEF CommitOrder, AnswerInv, LedgerInv, DraftFollowsRow
    <2>3. strat[r] \in SqlStrategies /\ SqlSold' = SqlSold \cup {r}
      BY <1>9 DEF CommitOrder, SqlSold, AnswerInv, LedgerInv, StrategyFollowsCode, SqlLabels
    <2>4. PICK a \in {"confirmed", "error"} : answer' = [answer EXCEPT ![r] = a]
      BY <1>9 DEF CommitOrder
    <2>5. SqlAnswer' = [SqlAnswer EXCEPT ![r] = a]
      BY <1>9, <2>0, <2>4, <1>a, SqlTells DEF CommitOrder
    <2>6. SqlLedger!Sell(r)
      BY <2>1, <2>2, <2>3, <2>5 DEF SqlLedger!Sell, SqlLedger!Tell
    <2> QED
      BY <2>6, <1>c
  <1>10. ASSUME NEW r \in Requests, InsertRefused(r)
        PROVE  [SqlLedger!Next]_(SqlLedger!ledgerVars)
    BY <1>10, <1>a, <1>b, <1>g DEF InsertRefused, TypeOK, SqlHolding
  <1>11. ASSUME NEW r \in Requests, CloseSession(r)
        PROVE  [SqlLedger!Next]_(SqlLedger!ledgerVars)
    BY <1>11, <1>h DEF CloseSession, SqlLabels, SqlLedger!Inconclusive
  <1>12. ASSUME NEW r \in Requests, CommitRefused(r)
        PROVE  [SqlLedger!Next]_(SqlLedger!ledgerVars)
    BY <1>12, <1>h DEF CommitRefused, SqlLabels, SqlLedger!Inconclusive
  <1>13. ASSUME NEW r \in Requests, RedisStep(r)
        PROVE  [SqlLedger!Next]_(SqlLedger!ledgerVars)
    <2>1. pc[r] \in RedisLabels
      BY <1>13 DEF RedisStep, RedisLabels, RedisExists, RedisSeedRead, RedisSeed, RedisDecr,
         RedisSoldOut, RedisStore, RedisStoreFails, RedisCompensate, RedisDown
    <2>2. strat[r] = "redis" /\ strat' = strat /\ row' = row
      BY <1>13, <2>1, <1>f DEF RedisStep, RedisLabels, RedisExists, RedisSeedRead, RedisSeed,
         RedisDecr, RedisSoldOut, RedisStore, RedisStoreFails, RedisCompensate, RedisDown
    <2>3. SqlSold' = SqlSold
      BY <1>13, <2>2, StoreKeepsSqlSold
      DEF RedisStep, RedisExists, RedisSeedRead, RedisSeed, RedisDecr, RedisSoldOut,
          RedisStoreFails, RedisCompensate, RedisDown, SqlSold, AnswerInv
    <2>4. \/ answer' = answer
          \/ \E a \in Answers : answer' = [answer EXCEPT ![r] = a]
      BY <1>13 DEF RedisStep, RedisExists, RedisSeedRead, RedisSeed, RedisDecr, RedisSoldOut,
         RedisStore, RedisStoreFails, RedisCompensate, RedisDown, Answers
    <2>5. SqlAnswer' = SqlAnswer
      BY <2>2, <2>4, <1>a, RedisTells
    <2>6. \E l \in {"seed", "setnx", "decr", "undo", "store", "compensate", "done"} :
             pc[r] \in RedisLabels /\ pc' = [pc EXCEPT ![r] = l]
      BY <1>13 DEF RedisStep, RedisLabels, RedisExists, RedisSeedRead, RedisSeed, RedisDecr,
         RedisSoldOut, RedisStore, RedisStoreFails, RedisCompensate, RedisDown
    <2>7. SqlHolding' = SqlHolding
      BY <2>6, <1>a DEF SqlHolding, TypeOK, RedisLabels
    <2> QED
      BY <2>2, <2>3, <2>5, <2>7, <1>b
  <1>14. ASSUME NEW r \in Requests, Crash(r)
        PROVE  [SqlLedger!Next]_(SqlLedger!ledgerVars)
    <2>1. SqlHolding' = SqlHolding \ {r} /\ SqlSold' = SqlSold /\ SqlAnswer' = SqlAnswer
      BY <1>14, <1>a, <1>g DEF Crash, TypeOK, SqlHolding
    <2>2. SqlAnswer[r] = "none" /\ SqlAnswer' = [SqlAnswer EXCEPT ![r] = "none"]
      BY <1>14, <2>1, <1>a DEF Crash, Unanswered, SqlAnswer
    <2>3. SqlLedger!GiveUp(r)
      BY <1>14, <2>1, <2>2 DEF Crash, SqlLedger!GiveUp, SqlLedger!Tell, SqlLedger!Inconclusive
    <2> QED
      BY <2>3, <1>c
  <1>15. ASSUME NEW n \in RestockLevels, ResetSql(n)
        PROVE  [SqlLedger!Next]_(SqlLedger!ledgerVars)
    <2>1. SqlHolding = {} /\ SqlHolding' = SqlHolding
      BY <1>15, NothingHeld DEF ResetSql, SqlHolding
    <2>2. SqlSold' = {} /\ SqlAnswer' = SqlAnswer
      BY <1>15 DEF ResetSql, SqlSold, SqlAnswer
    <2>3. SqlLedger!Restock(n)
      BY <1>15, <2>1, <2>2 DEF ResetSql, SqlLedger!Restock
    <2> QED
      BY <2>3 DEF SqlLedger!Next
  <1>16. CASE ResetRedis
    BY <1>16, <1>b, <1>g DEF ResetRedis, SqlHolding
  <1>17. CASE RedisRestart
    BY <1>17, <1>b, <1>g DEF RedisRestart, SqlHolding
  <1>18. CASE UNCHANGED vars
    BY <1>18, <1>b, <1>g DEF vars, SqlHolding
  <1> QED
    BY <1>1, <1>2, <1>3, <1>4, <1>5, <1>6, <1>7, <1>8, <1>9, <1>10, <1>11,
       <1>12, <1>13, <1>14, <1>15, <1>16, <1>17, <1>18
    DEF Next, SqlStep, SaleOver

\* Whatever is sold through Redis beside them, the SQL endpoints behave like
\* the ledger: units are held, sold or given back, and "sold out" is said only
\* when none is left.
THEOREM SqlRefinesLedger == Spec => SqlImplementsLedger
  <1>1. AnswerInv /\ [Next]_vars => [SqlLedger!Next]_(SqlLedger!ledgerVars)
    BY NextRefines
  <1> QED
    BY <1>1, InitAnswerInv, NextAnswerInv, InitRefines, PTL
    DEF Spec, SqlImplementsLedger, SqlLedger!Spec

-----------------------------------------------------------------------------
(* Sales through one strategy only *)

\* Which endpoint a request called is decided once, and a reset counts from its
\* first step.
ChoiceInv ==
    /\ AnswerInv
    /\ \A r \in Requests :
          /\ pc[r] = "idle" => strat[r] = "none"
          /\ pc[r] \in {"lock", "decide"} => strat[r] = "pessimistic"
    /\ resets = 0 => resetting = Missing

\* What an optimistic buyer has seen is older than the row, or is the row.
SeenInv ==
    OptimisticOnly =>
        \A r \in Requests :
            /\ pc[r] = "update" => seen[r].version <= row.version
            /\ pc[r] = "update" /\ VersionMatches(r) => seen[r] = row
            /\ pc[r] = "insert" => draft.version = row.version + 1

\* The units that left the counter, and are sold or may yet be.
RedisTaken == RedisHolding \cup RedisSold

\* The counter is seeded from a row that does not change any more, before anybody
\* takes a unit from it.
SeedInv ==
    RedisOnly =>
        /\ \A r \in Requests :
              /\ pc[r] = "setnx" => seen[r] = row
              /\ pc[r] \in {"decr", "store", "undo", "compensate"} => counter # Missing
        /\ sold # {} => counter # Missing

CounterInv == ChoiceInv /\ SeedInv /\ CounterCreatesNoUnit

LEMMA InitChoiceInv == Init => ChoiceInv
  BY InitAnswerInv DEF Init, ChoiceInv

LEMMA NextChoiceInv ==
  ASSUME ChoiceInv, [Next]_vars
  PROVE  ChoiceInv'
  <1> DEFINE Choice == /\ \A r \in Requests :
                             /\ pc[r] = "idle" => strat[r] = "none"
                             /\ pc[r] \in {"lock", "decide"} => strat[r] = "pessimistic"
                       /\ resets = 0 => resetting = Missing
  <1>0. AnswerInv'
    BY NextAnswerInv DEF ChoiceInv
  <1>a. Choice /\ pc \in [Requests -> Labels] /\ strat \in [Requests -> Strategies \cup {"none"}]
        /\ resets \in Nat
    BY DEF ChoiceInv, AnswerInv, LedgerInv, TypeOK
  <1> USE DEF Goto, Finish, localVars, adminVars
  <1>1. ASSUME NEW r \in Requests, NEW s \in Strategies, Begin(r, s) PROVE Choice'
    BY <1>a, <1>1, ConstantsAssumption DEF Begin, Entry
  <1>2. ASSUME NEW r \in Requests, LockRow(r) PROVE Choice'
    BY <1>a, <1>2 DEF LockRow
  <1>3. ASSUME NEW r \in Requests, PessimisticSoldOut(r) PROVE Choice'
    BY <1>a, <1>3 DEF PessimisticSoldOut
  <1>4. ASSUME NEW r \in Requests, PessimisticUpdate(r) PROVE Choice'
    BY <1>a, <1>4 DEF PessimisticUpdate
  <1>5. ASSUME NEW r \in Requests, OptimisticSelect(r) PROVE Choice'
    BY <1>a, <1>5 DEF OptimisticSelect
  <1>6. ASSUME NEW r \in Requests, OptimisticConflict(r) PROVE Choice'
    BY <1>a, <1>6 DEF OptimisticConflict
  <1>7. ASSUME NEW r \in Requests, OptimisticRefused(r) PROVE Choice'
    BY <1>a, <1>7 DEF OptimisticRefused
  <1>8. ASSUME NEW r \in Requests, OptimisticUpdate(r) PROVE Choice'
    BY <1>a, <1>8 DEF OptimisticUpdate
  <1>9. ASSUME NEW r \in Requests, CommitOrder(r) PROVE Choice'
    BY <1>a, <1>9 DEF CommitOrder
  <1>10. ASSUME NEW r \in Requests, InsertRefused(r) PROVE Choice'
    BY <1>a, <1>10 DEF InsertRefused
  <1>11. ASSUME NEW r \in Requests, CloseSession(r) PROVE Choice'
    BY <1>a, <1>11 DEF CloseSession
  <1>12. ASSUME NEW r \in Requests, CommitRefused(r) PROVE Choice'
    BY <1>a, <1>12 DEF CommitRefused
  <1>13. ASSUME NEW r \in Requests, RedisExists(r) PROVE Choice'
    BY <1>a, <1>13 DEF RedisExists
  <1>14. ASSUME NEW r \in Requests, RedisSeedRead(r) PROVE Choice'
    BY <1>a, <1>14 DEF RedisSeedRead
  <1>15. ASSUME NEW r \in Requests, RedisSeed(r) PROVE Choice'
    BY <1>a, <1>15 DEF RedisSeed
  <1>16. ASSUME NEW r \in Requests, RedisDecr(r) PROVE Choice'
    BY <1>a, <1>16 DEF RedisDecr
  <1>17. ASSUME NEW r \in Requests, RedisSoldOut(r) PROVE Choice'
    BY <1>a, <1>17 DEF RedisSoldOut
  <1>18. ASSUME NEW r \in Requests, RedisStore(r) PROVE Choice'
    BY <1>a, <1>18 DEF RedisStore
  <1>19. ASSUME NEW r \in Requests, RedisStoreFails(r) PROVE Choice'
    BY <1>a, <1>19 DEF RedisStoreFails
  <1>20. ASSUME NEW r \in Requests, RedisCompensate(r) PROVE Choice'
    BY <1>a, <1>20 DEF RedisCompensate
  <1>21. ASSUME NEW r \in Requests, RedisDown(r) PROVE Choice'
    BY <1>a, <1>21 DEF RedisDown
  <1>22. ASSUME NEW r \in Requests, Crash(r) PROVE Choice'
    BY <1>a, <1>22 DEF Crash
  <1>23. ASSUME NEW n \in RestockLevels, ResetSql(n) PROVE Choice'
    BY <1>a, <1>23 DEF ResetSql
  <1>24. ASSUME ResetRedis PROVE Choice'
    BY <1>a, <1>24 DEF ResetRedis
  <1>25. ASSUME RedisRestart PROVE Choice'
    BY <1>a, <1>25 DEF RedisRestart
  <1>26. ASSUME UNCHANGED vars PROVE Choice'
    BY <1>a, <1>26 DEF vars
  <1>z. Choice'
    BY <1>1, <1>2, <1>3, <1>4, <1>5, <1>6, <1>7, <1>8, <1>9, <1>10, <1>11,
       <1>12, <1>13, <1>14, <1>15, <1>16, <1>17, <1>18, <1>19, <1>20, <1>21,
       <1>22, <1>23, <1>24, <1>25, <1>26
       DEF Next, SqlStep, RedisStep, SaleOver
  <1> QED
    BY <1>0, <1>z DEF ChoiceInv

\* What has happened to a sale stays with it: resets, restarts, the endpoint of a
\* request, and until the next reset the orders and their answers.
LEMMA Lasting ==
  ASSUME ChoiceInv, [Next]_vars
  PROVE  /\ resets' >= resets /\ restarts' >= restarts
         /\ \A q \in Requests : strat[q] # "none" => strat'[q] = strat[q]
         /\ resets' = 0 => \A q \in sold : q \in sold'
         /\ resets' = 0 => \A q \in sold : answer'[q] = "confirmed" => answer[q] = "confirmed"
  <1> DEFINE Last == /\ resets' >= resets /\ restarts' >= restarts
                     /\ \A q \in Requests : strat[q] # "none" => strat'[q] = strat[q]
                     /\ resets' = 0 => \A q \in sold : q \in sold'
                     /\ resets' = 0 => \A q \in sold : answer'[q] = "confirmed" => answer[q] = "confirmed"
  <1>a. /\ pc \in [Requests -> Labels] /\ strat \in [Requests -> Strategies \cup {"none"}]
        /\ answer \in [Requests -> Answers] /\ sold \subseteq Requests
        /\ resets \in Nat /\ restarts \in Nat
        /\ \A q \in sold : pc[q] \in {"compensate", "done", "crashed"}
        /\ \A q \in Requests : pc[q] = "idle" => strat[q] = "none"
    BY DEF ChoiceInv, AnswerInv, LedgerInv, TypeOK, SoldIsOver
  <1> USE DEF Goto, Finish, localVars, adminVars
  <1>1. ASSUME NEW r \in Requests, NEW s \in Strategies, Begin(r, s) PROVE Last
    BY <1>a, <1>1 DEF Begin
  <1>2. ASSUME NEW r \in Requests, LockRow(r) PROVE Last
    BY <1>a, <1>2 DEF LockRow
  <1>3. ASSUME NEW r \in Requests, PessimisticSoldOut(r) PROVE Last
    BY <1>a, <1>3 DEF PessimisticSoldOut
  <1>4. ASSUME NEW r \in Requests, PessimisticUpdate(r) PROVE Last
    BY <1>a, <1>4 DEF PessimisticUpdate
  <1>5. ASSUME NEW r \in Requests, OptimisticSelect(r) PROVE Last
    BY <1>a, <1>5 DEF OptimisticSelect
  <1>6. ASSUME NEW r \in Requests, OptimisticConflict(r) PROVE Last
    BY <1>a, <1>6 DEF OptimisticConflict
  <1>7. ASSUME NEW r \in Requests, OptimisticRefused(r) PROVE Last
    BY <1>a, <1>7 DEF OptimisticRefused
  <1>8. ASSUME NEW r \in Requests, OptimisticUpdate(r) PROVE Last
    BY <1>a, <1>8 DEF OptimisticUpdate
  <1>9. ASSUME NEW r \in Requests, CommitOrder(r) PROVE Last
    BY <1>a, <1>9 DEF CommitOrder
  <1>10. ASSUME NEW r \in Requests, InsertRefused(r) PROVE Last
    BY <1>a, <1>10 DEF InsertRefused
  <1>11. ASSUME NEW r \in Requests, CloseSession(r) PROVE Last
    BY <1>a, <1>11 DEF CloseSession
  <1>12. ASSUME NEW r \in Requests, CommitRefused(r) PROVE Last
    BY <1>a, <1>12 DEF CommitRefused
  <1>13. ASSUME NEW r \in Requests, RedisExists(r) PROVE Last
    BY <1>a, <1>13 DEF RedisExists
  <1>14. ASSUME NEW r \in Requests, RedisSeedRead(r) PROVE Last
    BY <1>a, <1>14 DEF RedisSeedRead
  <1>15. ASSUME NEW r \in Requests, RedisSeed(r) PROVE Last
    BY <1>a, <1>15 DEF RedisSeed
  <1>16. ASSUME NEW r \in Requests, RedisDecr(r) PROVE Last
    BY <1>a, <1>16 DEF RedisDecr
  <1>17. ASSUME NEW r \in Requests, RedisSoldOut(r) PROVE Last
    BY <1>a, <1>17 DEF RedisSoldOut
  <1>18. ASSUME NEW r \in Requests, RedisStore(r) PROVE Last
    BY <1>a, <1>18 DEF RedisStore
  <1>19. ASSUME NEW r \in Requests, RedisStoreFails(r) PROVE Last
    BY <1>a, <1>19 DEF RedisStoreFails
  <1>20. ASSUME NEW r \in Requests, RedisCompensate(r) PROVE Last
    BY <1>a, <1>20 DEF RedisCompensate
  <1>21. ASSUME NEW r \in Requests, RedisDown(r) PROVE Last
    BY <1>a, <1>21 DEF RedisDown
  <1>22. ASSUME NEW r \in Requests, Crash(r) PROVE Last
    BY <1>a, <1>22 DEF Crash
  <1>23. ASSUME NEW n \in RestockLevels, ResetSql(n) PROVE Last
    BY <1>a, <1>23 DEF ResetSql
  <1>24. ASSUME ResetRedis PROVE Last
    BY <1>a, <1>24 DEF ResetRedis
  <1>25. ASSUME RedisRestart PROVE Last
    BY <1>a, <1>25 DEF RedisRestart
  <1>26. ASSUME UNCHANGED vars PROVE Last
    BY <1>a, <1>26 DEF vars
  <1> HIDE DEF Last
  <1>z. Last
    BY <1>1, <1>2, <1>3, <1>4, <1>5, <1>6, <1>7, <1>8, <1>9, <1>10, <1>11,
       <1>12, <1>13, <1>14, <1>15, <1>16, <1>17, <1>18, <1>19, <1>20, <1>21,
       <1>22, <1>23, <1>24, <1>25, <1>26
       DEF Next, SqlStep, RedisStep, SaleOver
  <1> QED
    BY <1>z DEF Last

-----------------------------------------------------------------------------
(* Optimistic buyers *)

LEMMA OptimisticOnlyBefore ==
  ASSUME ChoiceInv, [Next]_vars, OptimisticOnly'
  PROVE  OptimisticOnly
  <1>1. resets \in Nat
    BY DEF ChoiceInv, AnswerInv, LedgerInv, TypeOK
  <1> QED
    BY <1>1, Lasting DEF OptimisticOnly

LEMMA NextSeenInv ==
  ASSUME ChoiceInv, SeenInv, [Next]_vars
  PROVE  SeenInv'
  <1> DEFINE Seen(r) == /\ pc[r] = "update" => seen[r].version <= row.version
                        /\ pc[r] = "update" /\ VersionMatches(r) => seen[r] = row
                        /\ pc[r] = "insert" => draft.version = row.version + 1
             Fresh == \A q \in Requests : Seen(q)
  <1> SUFFICES ASSUME OptimisticOnly' PROVE Fresh'
    BY DEF SeenInv
  <1>a. /\ pc \in [Requests -> Labels] /\ seen \in [Requests -> InventoryRow]
        /\ row \in InventoryRow /\ draft \in InventoryRow
    BY DEF ChoiceInv, AnswerInv, LedgerInv, TypeOK
  <1>b. /\ \A q \in Requests : strat[q] # "redis" /\ strat[q] # "pessimistic"
        /\ Fresh
    BY OptimisticOnlyBefore DEF SeenInv, OptimisticOnly
  <1>c. \A q \in Requests : pc[q] \notin RedisLabels /\ pc[q] \notin {"lock", "decide"}
    BY <1>b DEF ChoiceInv, AnswerInv, LedgerInv, StrategyFollowsCode
  <1>d. \A q \in Requests : pc[q] = "insert" => lockedBy = q
    BY DEF ChoiceInv, AnswerInv, LedgerInv, RowLocked, InTransaction
  <1> USE DEF Goto, Finish, sqlVars, localVars, adminVars, VersionMatches
  <1>1. ASSUME NEW r \in Requests, NEW s \in Strategies, Begin(r, s) PROVE Fresh'
    BY <1>a, <1>b, <1>1, ConstantsAssumption DEF Begin, Entry
  <1>2. ASSUME NEW r \in Requests, LockRow(r) PROVE Fresh'
    BY <1>c, <1>2 DEF LockRow
  <1>3. ASSUME NEW r \in Requests, PessimisticSoldOut(r) PROVE Fresh'
    BY <1>c, <1>3 DEF PessimisticSoldOut
  <1>4. ASSUME NEW r \in Requests, PessimisticUpdate(r) PROVE Fresh'
    BY <1>c, <1>4 DEF PessimisticUpdate
  <1>5. ASSUME NEW r \in Requests, OptimisticSelect(r) PROVE Fresh'
    BY <1>a, <1>b, <1>5 DEF OptimisticSelect, InventoryRow
  <1>6. ASSUME NEW r \in Requests, OptimisticConflict(r) PROVE Fresh'
    BY <1>a, <1>b, <1>6 DEF OptimisticConflict
  <1>7. ASSUME NEW r \in Requests, OptimisticRefused(r) PROVE Fresh'
    BY <1>a, <1>b, <1>7 DEF OptimisticRefused
  <1>8. ASSUME NEW r \in Requests, OptimisticUpdate(r) PROVE Fresh'
    BY <1>a, <1>b, <1>d, <1>8, ConstantsAssumption DEF OptimisticUpdate, OptimisticImage
  <1>9. ASSUME NEW r \in Requests, CommitOrder(r) PROVE Fresh'
    <2>1. /\ row' = draft /\ draft.version = row.version + 1 /\ seen' = seen
          /\ \A q \in Requests : pc'[q] \in {"update", "insert"} => pc'[q] = pc[q] /\ q # r
      BY <1>a, <1>b, <1>9 DEF CommitOrder
    <2>2. \A q \in Requests : pc'[q] # "insert"
      BY <1>d, <1>9, <2>1 DEF CommitOrder
    <2>3. \A q \in Requests : pc'[q] = "update" => seen'[q].version < row'.version
      BY <1>a, <1>b, <2>1 DEF InventoryRow
    <2>4. \A q \in Requests : seen'[q].version \in Nat /\ row'.version \in Nat
      BY <1>a, <2>1 DEF InventoryRow
    <2> QED
      BY <2>2, <2>3, <2>4
  <1>10. ASSUME NEW r \in Requests, InsertRefused(r) PROVE Fresh'
    BY <1>a, <1>b, <1>10 DEF InsertRefused
  <1>11. ASSUME NEW r \in Requests, CloseSession(r) PROVE Fresh'
    BY <1>a, <1>b, <1>11 DEF CloseSession
  <1>12. ASSUME NEW r \in Requests, CommitRefused(r) PROVE Fresh'
    BY <1>a, <1>b, <1>12 DEF CommitRefused
  <1>13. ASSUME NEW r \in Requests, RedisExists(r) PROVE Fresh'
    BY <1>c, <1>13 DEF RedisExists, RedisLabels
  <1>14. ASSUME NEW r \in Requests, RedisSeedRead(r) PROVE Fresh'
    BY <1>c, <1>14 DEF RedisSeedRead, RedisLabels
  <1>15. ASSUME NEW r \in Requests, RedisSeed(r) PROVE Fresh'
    BY <1>c, <1>15 DEF RedisSeed, RedisLabels
  <1>16. ASSUME NEW r \in Requests, RedisDecr(r) PROVE Fresh'
    BY <1>c, <1>16 DEF RedisDecr, RedisLabels
  <1>17. ASSUME NEW r \in Requests, RedisSoldOut(r) PROVE Fresh'
    BY <1>c, <1>17 DEF RedisSoldOut, RedisLabels
  <1>18. ASSUME NEW r \in Requests, RedisStore(r) PROVE Fresh'
    BY <1>c, <1>18 DEF RedisStore, RedisLabels
  <1>19. ASSUME NEW r \in Requests, RedisStoreFails(r) PROVE Fresh'
    BY <1>c, <1>19 DEF RedisStoreFails, RedisLabels
  <1>20. ASSUME NEW r \in Requests, RedisCompensate(r) PROVE Fresh'
    BY <1>c, <1>20 DEF RedisCompensate, RedisLabels
  <1>21. ASSUME NEW r \in Requests, RedisDown(r) PROVE Fresh'
    BY <1>c, <1>21 DEF RedisDown, RedisLabels
  <1>22. ASSUME NEW r \in Requests, Crash(r) PROVE Fresh'
    BY <1>a, <1>b, <1>22 DEF Crash
  <1>23. ASSUME NEW n \in RestockLevels, ResetSql(n) PROVE Fresh'
    BY <1>23 DEF ResetSql, OptimisticOnly, ChoiceInv, AnswerInv, LedgerInv, TypeOK
  <1>24. ASSUME ResetRedis PROVE Fresh'
    BY <1>a, <1>b, <1>24 DEF ResetRedis
  <1>25. ASSUME RedisRestart PROVE Fresh'
    BY <1>a, <1>b, <1>25 DEF RedisRestart
  <1>26. ASSUME UNCHANGED vars PROVE Fresh'
    BY <1>a, <1>b, <1>26 DEF vars
  <1> QED
    BY <1>1, <1>2, <1>3, <1>4, <1>5, <1>6, <1>7, <1>8, <1>9, <1>10, <1>11,
       <1>12, <1>13, <1>14, <1>15, <1>16, <1>17, <1>18, <1>19, <1>20, <1>21,
       <1>22, <1>23, <1>24, <1>25, <1>26
       DEF Next, SqlStep, RedisStep, SaleOver

\* Among optimistic buyers a version match means what the handler takes it to mean:
\* whoever's UPDATE goes through, or is refused by the CHECK, acts on the row it read.
THEOREM OptimisticMatchIsFresh == Spec => OptimisticReadsFresh
  <1> DEFINE Step == OptimisticOnly => \A r \in Requests :
                        (pc[r] = "update" /\ (pc'[r] = "insert" \/ answer'[r] = "refused"))
                           => seen[r] = row
  <1>1. ASSUME ChoiceInv, SeenInv, [Next]_vars
        PROVE  [Step]_vars
    <2> SUFFICES ASSUME OptimisticOnly, NEW r \in Requests, pc[r] = "update",
                        pc'[r] = "insert" \/ answer'[r] = "refused"
                 PROVE  VersionMatches(r)
      BY <1>1 DEF SeenInv
    <2>1. /\ pc \in [Requests -> Labels] /\ answer[r] = "none"
          /\ answer \in [Requests -> Answers]
      BY <1>1 DEF ChoiceInv, AnswerInv, LedgerInv, TypeOK, Unanswered
    <2> DEFINE Goal == VersionMatches(r)
    <2> USE DEF Goto, Finish, sqlVars, localVars, adminVars
    <2>2. VersionMatches(r)
      <3>1. ASSUME NEW q \in Requests, NEW s \in Strategies, Begin(q, s) PROVE Goal
        BY <2>1, <3>1 DEF Begin
      <3>2. ASSUME NEW q \in Requests, LockRow(q) PROVE Goal
        BY <2>1, <3>2 DEF LockRow
      <3>3. ASSUME NEW q \in Requests, PessimisticSoldOut(q) PROVE Goal
        BY <2>1, <3>3 DEF PessimisticSoldOut
      <3>4. ASSUME NEW q \in Requests, PessimisticUpdate(q) PROVE Goal
        BY <2>1, <3>4 DEF PessimisticUpdate
      <3>5. ASSUME NEW q \in Requests, OptimisticSelect(q) PROVE Goal
        BY <2>1, <3>5 DEF OptimisticSelect
      <3>6. ASSUME NEW q \in Requests, OptimisticConflict(q) PROVE Goal
        BY <2>1, <3>6 DEF OptimisticConflict
      <3>7. ASSUME NEW q \in Requests, OptimisticRefused(q) PROVE Goal
        BY <2>1, <3>7 DEF OptimisticRefused
      <3>8. ASSUME NEW q \in Requests, OptimisticUpdate(q) PROVE Goal
        BY <2>1, <3>8 DEF OptimisticUpdate
      <3>9. ASSUME NEW q \in Requests, CommitOrder(q) PROVE Goal
        BY <2>1, <3>9 DEF CommitOrder
      <3>10. ASSUME NEW q \in Requests, InsertRefused(q) PROVE Goal
        BY <2>1, <3>10 DEF InsertRefused
      <3>11. ASSUME NEW q \in Requests, CloseSession(q) PROVE Goal
        BY <2>1, <3>11 DEF CloseSession
      <3>12. ASSUME NEW q \in Requests, CommitRefused(q) PROVE Goal
        BY <2>1, <3>12 DEF CommitRefused
      <3>13. ASSUME NEW q \in Requests, RedisExists(q) PROVE Goal
        BY <2>1, <3>13 DEF RedisExists
      <3>14. ASSUME NEW q \in Requests, RedisSeedRead(q) PROVE Goal
        BY <2>1, <3>14 DEF RedisSeedRead
      <3>15. ASSUME NEW q \in Requests, RedisSeed(q) PROVE Goal
        BY <2>1, <3>15 DEF RedisSeed
      <3>16. ASSUME NEW q \in Requests, RedisDecr(q) PROVE Goal
        BY <2>1, <3>16 DEF RedisDecr
      <3>17. ASSUME NEW q \in Requests, RedisSoldOut(q) PROVE Goal
        BY <2>1, <3>17 DEF RedisSoldOut
      <3>18. ASSUME NEW q \in Requests, RedisStore(q) PROVE Goal
        BY <2>1, <3>18 DEF RedisStore
      <3>19. ASSUME NEW q \in Requests, RedisStoreFails(q) PROVE Goal
        BY <2>1, <3>19 DEF RedisStoreFails
      <3>20. ASSUME NEW q \in Requests, RedisCompensate(q) PROVE Goal
        BY <2>1, <3>20 DEF RedisCompensate
      <3>21. ASSUME NEW q \in Requests, RedisDown(q) PROVE Goal
        BY <2>1, <3>21 DEF RedisDown
      <3>22. ASSUME NEW q \in Requests, Crash(q) PROVE Goal
        BY <2>1, <3>22 DEF Crash
      <3>23. ASSUME NEW n \in RestockLevels, ResetSql(n) PROVE Goal
        BY <2>1, <3>23 DEF ResetSql
      <3>24. ASSUME ResetRedis PROVE Goal
        BY <2>1, <3>24 DEF ResetRedis
      <3>25. ASSUME RedisRestart PROVE Goal
        BY <2>1, <3>25 DEF RedisRestart
      <3>26. ASSUME UNCHANGED vars PROVE Goal
        BY <2>1, <3>26 DEF vars
      <3> HIDE DEF Goal
      <3>z. Goal
        BY <1>1, <3>1, <3>2, <3>3, <3>4, <3>5, <3>6, <3>7, <3>8, <3>9, <3>10, <3>11,
           <3>12, <3>13, <3>14, <3>15, <3>16, <3>17, <3>18, <3>19, <3>20, <3>21,
           <3>22, <3>23, <3>24, <3>25, <3>26
           DEF Next, SqlStep, RedisStep, SaleOver
      <3> QED
        BY <3>z DEF Goal
    <2> QED
      BY <2>2
  <1>2. Init => ChoiceInv /\ SeenInv
    BY InitChoiceInv DEF Init, SeenInv
  <1>3. ChoiceInv /\ SeenInv /\ [Next]_vars => (ChoiceInv /\ SeenInv)'
    BY NextChoiceInv, NextSeenInv
  <1> QED
    BY <1>1, <1>2, <1>3, PTL DEF Spec, OptimisticReadsFresh

-----------------------------------------------------------------------------
(* Redis buyers *)

LEMMA RedisOnlyBefore ==
  ASSUME ChoiceInv, [Next]_vars, RedisOnly'
  PROVE  RedisOnly
  <1>1. resets \in Nat /\ restarts \in Nat /\ sold \subseteq Requests
    BY DEF ChoiceInv, AnswerInv, LedgerInv, TypeOK
  <1>2. resets = 0 /\ restarts = 0
    BY <1>1, Lasting DEF RedisOnly
  <1>3. \A r \in Requests : strat[r] \in {"none", "redis"}
    BY Lasting DEF RedisOnly
  <1>4. \A r \in sold : answer[r] = "confirmed"
    BY Lasting DEF RedisOnly
  <1> QED
    BY <1>2, <1>3, <1>4 DEF RedisOnly

\* A sale sold through Redis moves by the steps of the Redis handlers.
LEMMA RedisOnlySteps ==
  ASSUME ChoiceInv, [Next]_vars, RedisOnly'
  PROVE  \/ \E r \in Requests : \/ \E s \in Strategies : Begin(r, s)
                                \/ RedisStep(r) \/ Crash(r)
         \/ UNCHANGED vars
  <1>1. ASSUME NEW r \in Requests PROVE ~ SqlStep(r)
    <2>1. pc[r] \notin SqlLabels
      BY RedisOnlyBefore DEF RedisOnly, ChoiceInv, AnswerInv, LedgerInv, StrategyFollowsCode,
                             SqlStrategies
    <2> QED
      BY <2>1 DEF SqlLabels, SqlStep, LockRow, PessimisticSoldOut, PessimisticUpdate, OptimisticSelect,
                  OptimisticConflict, OptimisticRefused, OptimisticUpdate, CommitOrder,
                  InsertRefused, CloseSession, CommitRefused
  <1>2. ASSUME NEW n \in RestockLevels PROVE ~ ResetSql(n)
    BY RedisOnlyBefore DEF RedisOnly, ResetSql
  <1>3. ~ ResetRedis
    BY RedisOnlyBefore DEF RedisOnly, ChoiceInv, ResetRedis
  <1>4. ~ RedisRestart
    BY RedisOnlyBefore DEF RedisOnly, RedisRestart
  <1> QED
    BY <1>1, <1>2, <1>3, <1>4 DEF Next, SaleOver

\* The counter's value before and after the Redis commands.
LEMMA SeedFits ==
  ASSUME ChoiceInv
  PROVE  SeedValue(row) \in Nat /\ SeedValue(row) <= row.total
  BY DEF ChoiceInv, AnswerInv, LedgerInv, TypeOK, InventoryRow, SeedValue, InStock

LEMMA NextSeedInv ==
  ASSUME ChoiceInv, SeedInv, [Next]_vars
  PROVE  SeedInv'
  <1> DEFINE Seeded == /\ \A r \in Requests :
                             /\ pc[r] = "setnx" => seen[r] = row
                             /\ pc[r] \in {"decr", "store", "undo", "compensate"} => counter # Missing
                       /\ sold # {} => counter # Missing
  <1> SUFFICES ASSUME RedisOnly' PROVE Seeded'
    BY DEF SeedInv
  <1>a. /\ pc \in [Requests -> Labels] /\ seen \in [Requests -> InventoryRow]
        /\ row \in InventoryRow /\ counter \in Int \cup {Missing} /\ Missing \notin Int
        /\ Seeded
    BY RedisOnlyBefore, ConstantsAssumption DEF SeedInv, ChoiceInv, AnswerInv, LedgerInv, TypeOK
  <1>b. SeedValue(row) \in Int
    BY SeedFits
  <1> USE DEF Goto, Finish, sqlVars, localVars, adminVars, Value
  <1>1. ASSUME NEW r \in Requests, NEW s \in Strategies, Begin(r, s) PROVE Seeded'
    BY <1>a, <1>1, ConstantsAssumption DEF Begin, Entry
  <1>2. ASSUME NEW r \in Requests, RedisExists(r) PROVE Seeded'
    BY <1>a, <1>2 DEF RedisExists
  <1>3. ASSUME NEW r \in Requests, RedisSeedRead(r) PROVE Seeded'
    BY <1>a, <1>3 DEF RedisSeedRead
  <1>4. ASSUME NEW r \in Requests, RedisSeed(r) PROVE Seeded'
    BY <1>a, <1>b, <1>4 DEF RedisSeed, SetNX
  <1>5. ASSUME NEW r \in Requests, RedisDecr(r) PROVE Seeded'
    BY <1>a, <1>5 DEF RedisDecr
  <1>6. ASSUME NEW r \in Requests, RedisSoldOut(r) PROVE Seeded'
    BY <1>a, <1>6 DEF RedisSoldOut
  <1>7. ASSUME NEW r \in Requests, RedisStore(r) PROVE Seeded'
    BY <1>a, <1>7 DEF RedisStore
  <1>8. ASSUME NEW r \in Requests, RedisStoreFails(r) PROVE Seeded'
    BY <1>a, <1>8 DEF RedisStoreFails
  <1>9. ASSUME NEW r \in Requests, RedisCompensate(r) PROVE Seeded'
    BY <1>a, <1>9 DEF RedisCompensate
  <1>10. ASSUME NEW r \in Requests, RedisDown(r) PROVE Seeded'
    BY <1>a, <1>b, <1>10 DEF RedisDown, RedisEffect, SetNX
  <1>11. ASSUME NEW r \in Requests, Crash(r) PROVE Seeded'
    BY <1>a, <1>11 DEF Crash
  <1>12. ASSUME UNCHANGED vars PROVE Seeded'
    BY <1>a, <1>12 DEF vars
  <1> HIDE DEF Seeded
  <1>z. Seeded'
    BY RedisOnlySteps, <1>1, <1>2, <1>3, <1>4, <1>5, <1>6, <1>7, <1>8, <1>9, <1>10, <1>11, <1>12
       DEF RedisStep
  <1> QED
    BY <1>z DEF Seeded

LEMMA TakenFinite ==
  ASSUME ChoiceInv
  PROVE  /\ IsFiniteSet(RedisTaken) /\ Cardinality(RedisTaken) \in Nat
         /\ IsFiniteSet(RedisOverdrawn) /\ Cardinality(RedisOverdrawn) \in Nat
  <1>1. RedisTaken \subseteq Requests /\ RedisOverdrawn \subseteq Requests
    BY DEF ChoiceInv, AnswerInv, LedgerInv, TypeOK, RedisTaken, RedisHolding, RedisSold, RedisOverdrawn
  <1> QED
    BY <1>1, ConstantsAssumption, FS_Subset, FS_CardinalityType

\* A step that gives nothing back and takes nothing.
LEMMA BookShrinks ==
  ASSUME ChoiceInv, row' = row, counter \in Int, counter' \in Int, counter' <= counter,
         RedisTaken' \subseteq RedisTaken, RedisOverdrawn' \subseteq RedisOverdrawn,
         counter + Cardinality(RedisTaken) + Cardinality(RedisOverdrawn) <= row.total,
         Cardinality(RedisTaken) <= row.total
  PROVE  /\ counter' + Cardinality(RedisTaken') + Cardinality(RedisOverdrawn') <= row'.total
         /\ Cardinality(RedisTaken') <= row'.total
  <1>1. /\ Cardinality(RedisTaken') \in Nat /\ Cardinality(RedisTaken') <= Cardinality(RedisTaken)
        /\ Cardinality(RedisOverdrawn') \in Nat
        /\ Cardinality(RedisOverdrawn') <= Cardinality(RedisOverdrawn)
    BY TakenFinite, FS_Subset, FS_CardinalityType
  <1>2. row.total \in Nat
    BY DEF ChoiceInv, AnswerInv, LedgerInv, TypeOK, InventoryRow
  <1> QED
    BY <1>1, <1>2, TakenFinite

\* A step that gives one unit back to the counter, or loses it.
LEMMA BookReturns ==
  ASSUME ChoiceInv, NEW r, row' = row, counter \in Int, counter' \in Int, counter' <= counter + 1,
         \/ /\ r \in RedisTaken /\ RedisTaken' = RedisTaken \ {r}
            /\ RedisOverdrawn' = RedisOverdrawn
         \/ /\ r \in RedisOverdrawn /\ RedisOverdrawn' = RedisOverdrawn \ {r}
            /\ RedisTaken' = RedisTaken,
         counter + Cardinality(RedisTaken) + Cardinality(RedisOverdrawn) <= row.total,
         Cardinality(RedisTaken) <= row.total
  PROVE  /\ counter' + Cardinality(RedisTaken') + Cardinality(RedisOverdrawn') <= row'.total
         /\ Cardinality(RedisTaken') <= row'.total
  <1>1. row.total \in Nat
    BY DEF ChoiceInv, AnswerInv, LedgerInv, TypeOK, InventoryRow
  <1>2. CASE /\ r \in RedisTaken /\ RedisTaken' = RedisTaken \ {r}
             /\ RedisOverdrawn' = RedisOverdrawn
    <2>1. Cardinality(RedisTaken') = Cardinality(RedisTaken) - 1
      BY <1>2, TakenFinite, FS_RemoveElement
    <2>2. Cardinality(RedisOverdrawn') = Cardinality(RedisOverdrawn)
      BY <1>2
    <2> QED
      BY <1>1, <2>1, <2>2, TakenFinite
  <1>3. CASE /\ r \in RedisOverdrawn /\ RedisOverdrawn' = RedisOverdrawn \ {r}
             /\ RedisTaken' = RedisTaken
    <2>1. Cardinality(RedisOverdrawn') = Cardinality(RedisOverdrawn) - 1
      BY <1>3, TakenFinite, FS_RemoveElement
    <2>2. Cardinality(RedisTaken') = Cardinality(RedisTaken)
      BY <1>3
    <2> QED
      BY <1>1, <2>1, <2>2, TakenFinite
  <1> QED
    BY <1>2, <1>3

LEMMA NextCounterInv ==
  ASSUME CounterInv, [Next]_vars
  PROVE  CounterCreatesNoUnit'
  <1> DEFINE Book == /\ counter + Cardinality(RedisTaken) + Cardinality(RedisOverdrawn) <= row.total
                     /\ Cardinality(RedisTaken) <= row.total
             Goal == counter' # Missing => Book'
  <1> SUFFICES ASSUME RedisOnly' PROVE Goal
    BY DEF CounterCreatesNoUnit, RedisTaken
  <1>a. /\ pc \in [Requests -> Labels] /\ strat \in [Requests -> Strategies \cup {"none"}]
        /\ sold \subseteq Requests
        /\ answer \in [Requests -> Answers]
        /\ row \in InventoryRow /\ counter \in Int \cup {Missing} /\ Missing \notin Int
        /\ \A q \in sold : pc[q] \in {"compensate", "done", "crashed"}
    BY ConstantsAssumption DEF CounterInv, ChoiceInv, AnswerInv, LedgerInv, TypeOK, SoldIsOver
  <1>b. /\ ChoiceInv
        /\ counter # Missing => Book
        /\ \A q \in Requests : /\ pc[q] = "setnx" => seen[q] = row
                               /\ pc[q] \in {"decr", "store", "undo", "compensate"} => counter # Missing
        /\ sold # {} => counter # Missing
    BY RedisOnlyBefore DEF CounterInv, SeedInv, CounterCreatesNoUnit, RedisTaken
  <1>c. \A q \in Requests : pc[q] \in RedisLabels => strat[q] = "redis"
    BY DEF CounterInv, ChoiceInv, AnswerInv, LedgerInv, StrategyFollowsCode
  <1>d. ASSUME row' = row, counter' = counter, RedisTaken' \subseteq RedisTaken,
               RedisOverdrawn' \subseteq RedisOverdrawn
        PROVE  Goal
    BY <1>a, <1>b, <1>d, BookShrinks
  <1>e. ASSUME counter = Missing PROVE RedisTaken = {} /\ RedisOverdrawn = {}
    BY <1>b, <1>e DEF RedisTaken, RedisHolding, RedisSold, RedisOverdrawn
  <1>f. ASSUME NEW r \in Requests, pc[r] = "setnx", row' = row,
               counter' = SetNX(counter, SeedValue(row)),
               RedisTaken' = RedisTaken, RedisOverdrawn' = RedisOverdrawn
        PROVE  Goal
    <2>1. CASE counter # Missing
      BY <1>d, <1>f, <2>1 DEF SetNX
    <2>2. CASE counter = Missing
      <3>1. Cardinality(RedisTaken') = 0 /\ Cardinality(RedisOverdrawn') = 0
        BY <1>e, <1>f, <2>2, FS_EmptySet
      <3>2. counter' \in Nat /\ counter' <= row.total /\ row.total \in Nat
        BY <1>a, <1>b, <1>f, <2>2, SeedFits DEF SetNX, InventoryRow
      <3> QED
        BY <1>f, <3>1, <3>2
    <2> QED
      BY <2>1, <2>2
  <1> DEFINE Sets == /\ RedisTaken = {q \in Requests : pc[q] \in {"store", "compensate"}}
                                       \cup {q \in sold : strat[q] = "redis"}
                     /\ RedisOverdrawn = {q \in Requests : pc[q] = "undo"}
  <1>g. Sets /\ Sets'
    BY DEF RedisTaken, RedisHolding, RedisSold, RedisOverdrawn
  <1> USE DEF Goto, Finish, sqlVars, localVars, adminVars
  <1> HIDE DEF Goal
  <1>1. ASSUME NEW r \in Requests, NEW s \in Strategies, Begin(r, s) PROVE Goal
    <2>1. /\ r \notin sold /\ pc[r] = "idle" /\ strat' = [strat EXCEPT ![r] = s] /\ sold' = sold
          /\ pc' = [pc EXCEPT ![r] = Entry(s)] /\ row' = row /\ counter' = counter
      BY <1>a, <1>1 DEF Begin
    <2>2. Entry(s) \in {"lock", "select", "exists"}
      BY ConstantsAssumption DEF Entry
    <2>3. RedisTaken' = RedisTaken /\ RedisOverdrawn' = RedisOverdrawn
      BY <1>a, <1>g, <2>1, <2>2
    <2> QED
      BY <1>d, <2>1, <2>3
  <1>2. ASSUME NEW r \in Requests, RedisExists(r) PROVE Goal
    <2>1. row' = row /\ counter' = counter /\ RedisTaken' = RedisTaken /\ RedisOverdrawn' = RedisOverdrawn
      BY <1>a, <1>c, <1>g, <1>2 DEF RedisExists, RedisLabels
    <2> QED
      BY <1>d, <2>1
  <1>3. ASSUME NEW r \in Requests, RedisSeedRead(r) PROVE Goal
    <2>1. row' = row /\ counter' = counter /\ RedisTaken' = RedisTaken /\ RedisOverdrawn' = RedisOverdrawn
      BY <1>a, <1>c, <1>g, <1>3 DEF RedisSeedRead, RedisLabels
    <2> QED
      BY <1>d, <2>1
  <1>4. ASSUME NEW r \in Requests, RedisSeed(r) PROVE Goal
    <2>1. /\ pc[r] = "setnx" /\ row' = row /\ RedisTaken' = RedisTaken
          /\ RedisOverdrawn' = RedisOverdrawn
      BY <1>a, <1>g, <1>4 DEF RedisSeed
    <2>2. counter' = SetNX(counter, SeedValue(row))
      BY <1>b, <1>4 DEF RedisSeed
    <2> QED
      BY <1>f, <2>1, <2>2
  <1>5. ASSUME NEW r \in Requests, RedisDecr(r) PROVE Goal
    <2>0. /\ pc[r] = "decr" /\ counter \in Int /\ counter' = counter - 1 /\ r \notin sold /\ Book
          /\ row' = row /\ row.total \in Nat
      BY <1>a, <1>b, <1>5 DEF RedisDecr, Value, InventoryRow
    <2>1. r \notin RedisTaken /\ r \notin RedisOverdrawn
      BY <1>g, <2>0
    <2>2. CASE counter' < 0
      <3>1. RedisTaken' = RedisTaken /\ RedisOverdrawn' = RedisOverdrawn \cup {r}
        BY <1>a, <1>g, <1>5, <2>0, <2>2 DEF RedisDecr
      <3>2. Cardinality(RedisOverdrawn') = Cardinality(RedisOverdrawn) + 1
        BY <1>b, <2>1, <3>1, TakenFinite, FS_AddElement
      <3>3. Cardinality(RedisTaken') = Cardinality(RedisTaken)
        BY <3>1
      <3> QED
        BY <1>b, <2>0, <3>2, <3>3, TakenFinite DEF Goal
    <2>3. CASE ~ (counter' < 0)
      <3>1. RedisTaken' = RedisTaken \cup {r} /\ RedisOverdrawn' = RedisOverdrawn
        BY <1>a, <1>g, <1>5, <2>0, <2>3 DEF RedisDecr
      <3>2. Cardinality(RedisTaken') = Cardinality(RedisTaken) + 1
        BY <1>b, <2>1, <3>1, TakenFinite, FS_AddElement
      <3>3. Cardinality(RedisOverdrawn') = Cardinality(RedisOverdrawn)
        BY <3>1
      <3> QED
        BY <1>b, <2>0, <2>3, <3>2, <3>3, TakenFinite DEF Goal
    <2> QED
      BY <2>2, <2>3
  <1>6. ASSUME NEW r \in Requests, RedisSoldOut(r) PROVE Goal
    <2>1. /\ counter \in Int /\ counter' = counter + 1 /\ row' = row /\ Book
      BY <1>a, <1>b, <1>6 DEF RedisSoldOut, Value
    <2>2. /\ r \in RedisOverdrawn /\ RedisOverdrawn' = RedisOverdrawn \ {r}
          /\ RedisTaken' = RedisTaken
      BY <1>a, <1>g, <1>6 DEF RedisSoldOut
    <2> QED
      BY <1>b, <2>1, <2>2, BookReturns DEF Goal
  <1>7. ASSUME NEW r \in Requests, RedisStore(r) PROVE Goal
    <2>1. row' = row /\ counter' = counter /\ RedisTaken' = RedisTaken /\ RedisOverdrawn' = RedisOverdrawn
      BY <1>a, <1>c, <1>g, <1>7 DEF RedisStore, RedisLabels
    <2> QED
      BY <1>d, <2>1
  <1>8. ASSUME NEW r \in Requests, RedisStoreFails(r) PROVE Goal
    <2>1. row' = row /\ counter' = counter /\ RedisTaken' = RedisTaken /\ RedisOverdrawn' = RedisOverdrawn
      BY <1>a, <1>c, <1>g, <1>8 DEF RedisStoreFails, RedisLabels
    <2> QED
      BY <1>d, <2>1
  <1>9. ASSUME NEW r \in Requests, RedisCompensate(r) PROVE Goal
    <2>1. /\ counter \in Int /\ counter' = counter + 1 /\ row' = row /\ Book
      BY <1>a, <1>b, <1>9 DEF RedisCompensate, Value
    <2>2. r \notin sold
      BY <1>a, <1>9 DEF RedisCompensate, RedisOnly
    <2>3. /\ r \in RedisTaken /\ RedisTaken' = RedisTaken \ {r}
          /\ RedisOverdrawn' = RedisOverdrawn
      BY <1>a, <1>g, <1>9, <2>2 DEF RedisCompensate
    <2> QED
      BY <1>b, <2>1, <2>3, BookReturns DEF Goal
  <1>10. ASSUME NEW r \in Requests, RedisDown(r) PROVE Goal
    <2>0. /\ row' = row /\ sold' = sold /\ strat' = strat /\ r \notin sold
          /\ pc' = [pc EXCEPT ![r] = "done"]
          /\ pc[r] \in {"exists", "setnx", "decr", "undo", "compensate"}
          /\ counter' = counter \/ counter' = RedisEffect(r)
      BY <1>a, <1>10 DEF RedisDown, RedisOnly
    <2>1. /\ pc[r] # "compensate" => RedisTaken' = RedisTaken
          /\ pc[r] = "compensate" => r \in RedisTaken /\ RedisTaken' = RedisTaken \ {r}
          /\ pc[r] # "undo" => RedisOverdrawn' = RedisOverdrawn
          /\ pc[r] = "undo" => r \in RedisOverdrawn /\ RedisOverdrawn' = RedisOverdrawn \ {r}
      BY <1>a, <1>g, <2>0
    <2>2. CASE counter' = counter
      BY <1>d, <2>0, <2>1, <2>2
    <2>3. CASE counter' = RedisEffect(r) /\ pc[r] = "exists"
      BY <1>d, <2>0, <2>1, <2>3 DEF RedisEffect
    <2>4. CASE counter' = RedisEffect(r) /\ pc[r] = "setnx"
      BY <1>b, <1>f, <2>0, <2>1, <2>4 DEF RedisEffect
    <2>5. CASE counter' = RedisEffect(r) /\ pc[r] = "decr"
      <3>1. counter \in Int /\ counter' = counter - 1 /\ Book
        BY <1>a, <1>b, <2>5 DEF RedisEffect, Value
      <3> QED
        BY <1>b, <2>0, <2>1, <2>5, <3>1, BookShrinks DEF Goal
    <2>6. CASE counter' = RedisEffect(r) /\ pc[r] \in {"undo", "compensate"}
      <3>1. counter \in Int /\ counter' = counter + 1 /\ Book
        BY <1>a, <1>b, <2>6 DEF RedisEffect, Value
      <3> QED
        BY <1>b, <2>0, <2>1, <2>6, <3>1, BookReturns DEF Goal
    <2> QED
      BY <2>0, <2>2, <2>3, <2>4, <2>5, <2>6
  <1>11. ASSUME NEW r \in Requests, Crash(r) PROVE Goal
    <2>1. row' = row /\ counter' = counter /\ RedisTaken' \subseteq RedisTaken
          /\ RedisOverdrawn' \subseteq RedisOverdrawn
      BY <1>a, <1>g, <1>11 DEF Crash
    <2> QED
      BY <1>d, <2>1
  <1>12. ASSUME UNCHANGED vars PROVE Goal
    BY <1>d, <1>12 DEF vars, RedisTaken, RedisHolding, RedisSold, RedisOverdrawn
  <1> QED
    BY <1>b, RedisOnlySteps, <1>1, <1>2, <1>3, <1>4, <1>5, <1>6, <1>7, <1>8,
       <1>9, <1>10, <1>11, <1>12
       DEF RedisStep

\* On a sale sold through Redis every unit is on the counter, in the hands of one
\* handler or in one order, and never more are sold than the sale has, whatever
\* crashes and whichever Redis call or commit fails.
THEOREM RedisCreatesNoUnit == Spec => []CounterCreatesNoUnit
  <1>1. Init => CounterInv
    <2> SUFFICES ASSUME Init PROVE CounterInv
      OBVIOUS
    <2>1. SeedInv /\ CounterCreatesNoUnit
      BY DEF Init, SeedInv, CounterCreatesNoUnit
    <2> QED
      BY <2>1, InitChoiceInv DEF CounterInv
  <1>2. CounterInv /\ [Next]_vars => CounterInv'
    BY NextChoiceInv, NextSeedInv, NextCounterInv DEF CounterInv
  <1>3. CounterInv => CounterCreatesNoUnit
    BY DEF CounterInv
  <1> QED
    BY <1>1, <1>2, <1>3, PTL DEF Spec

=============================================================================
