----------------------------- MODULE Maintenance ------------------------------
(***************************************************************************)
(* The scripts an operator runs beside the live shop, on the same tables:   *)
(* scripts/seed.py, seed_storefront.py and seed_large.py, the bot-scoring   *)
(* pass and the recovery demonstration, among buyers who check out, pay and *)
(* are declined meanwhile.  A user, and a sale with its product and its     *)
(* inventory row, stand for all those that one script owns.                 *)
(***************************************************************************)
EXTENDS Integers, FiniteSets

CONSTANTS MaxOrders,    \* bound on orders, which are numbered
          SaleStock,    \* inventory.total_stock
          MinSessions,  \* min_sessions
          OldDbs,       \* what the scripts may find
          MaxRuns,      \* bound on runs of scripts
          MaxVisits     \* bound on what the buyers do

Scripts == {"seed", "storefront", "large", "scoring", "recovery"}

\* Old versions of seed.py have left a user and a sale with random ids.
Users == {"demo", "legacy", "bulk"}
SaleIds == {"canonical", "legacy", "shoes", "gadget"}
StorefrontSales == {"shoes", "gadget"}
Category(s) == IF s = "gadget" THEN "earbuds" ELSE "footwear"
NoOrder == 0

VARIABLES db,         \* the committed tables, and the number of orders so far
          stockKeys,  \* sales with a Redis counter
          script,     \* the script at work and where it is
          purged,     \* child rows its transaction has deleted
          scored,     \* the orders a scoring pass is about to flag, with its stage
          found,      \* reserved_stock as demo_7 first read it, as logged, as last read
          toLog,      \* attempts whose behaviour row is not written yet
          raced,      \* scripts during whose run somebody else has committed
          result,     \* how the last run of a script ended
          visits, scriptRuns

shopVars == <<toLog, visits>>
runVars == <<script, purged, found>>
maintVars == <<db, stockKeys, runVars, scored, shopVars, raced, result, scriptRuns>>

Idle == [name |-> "none", at |-> "idle"]
NotScoring == [at |-> "idle", rows |-> {}]
NoRows == [flags |-> {}, items |-> {}, payments |-> {}, logs |-> {}]

MaintInit ==
    /\ db \in OldDbs /\ stockKeys = {}
    /\ script = Idle /\ purged = NoRows /\ scored = NotScoring
    /\ found = [stock |-> 0, before |-> 0, final |-> 0]
    /\ toLog = {} /\ raced = {} /\ result = [s \in Scripts |-> "none"]
    /\ visits = 0 /\ scriptRuns = 0

-----------------------------------------------------------------------------
(* The schema *)

Ids(os) == {o.id : o \in os}

ForeignKeys(d) ==
    /\ \A o \in d.orders : o.user \in d.users /\ o.sale \in d.sales
    /\ d.items \cup d.flags \cup {p.order : p \in d.payments} \subseteq Ids(d.orders)
    /\ \A l \in d.logs : /\ l.user \in d.users /\ l.sale \in d.sales
                         /\ l.order \in Ids(d.orders) \cup {NoOrder}
    /\ d.audits \subseteq d.sales

\* The legacy users have the e-mail addresses of the demo users.
UniqueEmails(d) == ~({"demo", "legacy"} \subseteq d.users)

\* ck_inventory_reserved_nonneg and ck_inventory_no_oversell.
WithinStock(d) == \A s \in SaleIds : d.reserved[s] \in 0..SaleStock

Accepted(d) == ForeignKeys(d) /\ UniqueEmails(d) /\ WithinStock(d)

Statuses == {"confirmed", "flagged"}
\* orders.strategy, NULL in the rows of scripts and of older versions.
Strategies == {"sql", "redis", "null"}
OrderRows == [id : Nat \ {NoOrder}, user : Users, sale : SaleIds, status : Statuses,
              strategy : Strategies]
LogRows == [user : Users, sale : SaleIds, order : Nat]
Tables == [users : SUBSET Users, sales : SUBSET SaleIds, orders : SUBSET OrderRows,
           items : SUBSET Nat, flags : SUBSET Nat,
           payments : SUBSET [order : Nat, declined : BOOLEAN], logs : SUBSET LogRows,
           audits : SUBSET SaleIds, placed : Nat, reserved : [SaleIds -> Int]]

\* Orders are numbered as they are placed, and an attempt is logged with the
\* buyer and the sale of its order.
Numbered(d, ls) ==
    /\ \A o \in d.orders : o.id <= d.placed
    /\ \A l \in ls : /\ l.order <= d.placed
                     /\ \A o \in d.orders : l.order = o.id => l.user = o.user /\ l.sale = o.sale

ASSUME MaintenanceAssumption ==
    /\ {MaxOrders, SaleStock, MinSessions, MaxRuns, MaxVisits} \subseteq Nat
    /\ \A d \in OldDbs : d \in Tables /\ Accepted(d) /\ Numbered(d, d.logs)

Working == (IF script = Idle THEN {} ELSE {script.name})
           \cup (IF scored = NotScoring THEN {} ELSE {"scoring"})

\* Committing disturbs those at work.
CommitsAs(who, d) == db' = d /\ raced' = raced \cup (Working \ {who})

Ends(s, how) == script' = Idle /\ result' = [result EXCEPT ![s] = how]
GoesOn(s, next) == script' = [name |-> s, at |-> next] /\ UNCHANGED result
Starts(s, next) == script' = [name |-> s, at |-> next] /\ result' = [result EXCEPT ![s] = "none"]

\* A refused transaction is rolled back, and the script ends with its exception.
TransactionOf(s, d, after) ==
    IF Accepted(d) THEN CommitsAs(s, d) /\ after
                   ELSE UNCHANGED <<db, raced>> /\ Ends(s, "refused")

-----------------------------------------------------------------------------
(* The seed scripts *)

ByUsers(os, owners) == {o \in os : o.user \in owners}
OfSales(os, S) == {o \in os : o.sale \in S}

\* Sales of a product with the demo product's category and another id.
LegacySales(d) == {s \in d.sales : Category(s) = "footwear" /\ s # "canonical"}

Owners(s) == CASE s = "seed"  -> {"demo", "legacy"}
               [] s = "large" -> {"bulk"}
               [] OTHER       -> {}
DroppedSales(s, d) == CASE s = "seed"       -> LegacySales(d)
                        [] s = "storefront" -> StorefrontSales
                        [] OTHER            -> {}
DroppedUsers(s) == CASE s = "seed" -> {"legacy"} [] s = "large" -> {"bulk"} [] OTHER -> {}

PurgedOrders(s, d) == ByUsers(d.orders, Owners(s)) \cup OfSales(d.orders, DroppedSales(s, d))

PaymentsStay(s, d) == {}
PurgedPayments(s, d) == {p \in d.payments : p.order \in Ids(PurgedOrders(s, d))}
PurgedLogs(s, d) ==
    {l \in d.logs : l.user \in Owners(s) \/ l.sale \in DroppedSales(s, d)}

PurgesChildren(s) ==
    purged' = [flags    |-> db.flags \cap Ids(PurgedOrders(s, db)),
               items    |-> db.items \cap Ids(PurgedOrders(s, db)),
               payments |-> PurgedPayments(s, db),
               logs     |-> PurgedLogs(s, db)]

\* The parents follow: orders, stock_audit_log, inventory, sales, users.
WithoutParents(s, d) ==
    LET kept == [d EXCEPT !.flags = @ \ purged.flags, !.items = @ \ purged.items,
                          !.payments = @ \ purged.payments, !.logs = @ \ purged.logs]
    IN [kept EXCEPT !.orders = @ \ PurgedOrders(s, kept),
                    !.audits = @ \ DroppedSales(s, kept),
                    !.sales  = @ \ DroppedSales(s, kept),
                    !.users  = @ \ DroppedUsers(s)]

\* seed_large.py wants the canonical rows, seed.py creates them.
StartSeeding(s) ==
    /\ s \in {"seed", "storefront", "large"}
    /\ script = Idle /\ scriptRuns < MaxRuns
    /\ scriptRuns' = scriptRuns + 1
    /\ raced' = raced \ {s}
    /\ IF s = "large" /\ "canonical" \notin db.sales
       THEN Ends(s, "missing") /\ UNCHANGED purged
       ELSE Starts(s, "parents") /\ PurgesChildren(s)
    /\ UNCHANGED <<db, stockKeys, scored, found, shopVars>>

DropParents(s) ==
    /\ script = [name |-> s, at |-> "parents"]
    /\ TransactionOf(s, WithoutParents(s, db), GoesOn(s, "rows"))
    /\ purged' = NoRows
    /\ UNCHANGED <<stockKeys, scored, found, shopVars, scriptRuns>>

Upserted(s, d) ==
    CASE s = "seed" -> [d EXCEPT !.users = @ \cup {"demo"}, !.sales = @ \cup {"canonical"},
                                 !.reserved["canonical"] = 0]
      [] s = "storefront" -> [d EXCEPT !.sales = @ \cup StorefrontSales,
                                       !.reserved = [i \in SaleIds |-> IF i \in StorefrontSales
                                                                       THEN 0 ELSE @[i]]]

InsertRows(s) ==
    /\ s \in {"seed", "storefront"}
    /\ script = [name |-> s, at |-> "rows"]
    /\ TransactionOf(s, Upserted(s, db), GoesOn(s, "redis"))
    /\ UNCHANGED <<stockKeys, purged, scored, found, shopVars, scriptRuns>>

\* Best effort.
ClearStockKeys(s) ==
    /\ script = [name |-> s, at |-> "redis"]
    /\ stockKeys' \in {stockKeys, stockKeys \ (IF s = "seed" THEN {"canonical"} ELSE StorefrontSales)}
    /\ Ends(s, "done")
    /\ UNCHANGED <<db, purged, scored, found, shopVars, raced, scriptRuns>>

\* COPY users, orders, order_items and flagged_orders, in one transaction.
Copied(d, new, suspicious) ==
    [d EXCEPT !.users = @ \cup {"bulk"},
              !.placed = @ + Cardinality(new),
              !.orders = @ \cup {[id |-> i, user |-> "bulk", sale |-> "canonical",
                                  status |-> IF i \in suspicious THEN "flagged" ELSE "confirmed",
                                  strategy |-> "null"] : i \in new},
              !.items = @ \cup new,
              !.flags = @ \cup suspicious]
LoadBulk ==
    /\ script = [name |-> "large", at |-> "rows"]
    /\ \E n \in 0..(MaxOrders - db.placed) :
          LET new == (db.placed + 1)..(db.placed + n)
          IN \E suspicious \in SUBSET new :
             TransactionOf("large", Copied(db, new, suspicious), Ends("large", "done"))
    /\ UNCHANGED <<stockKeys, purged, scored, found, shopVars, scriptRuns>>

-----------------------------------------------------------------------------
(* score_sessions *)

Sessions(d) == {l \in d.logs : l.user \in d.users}

\* Which sessions stand out is the isolation forest's affair; only those with an
\* order can be flagged.
ReadSessions ==
    /\ scored = NotScoring /\ scriptRuns < MaxRuns
    /\ scriptRuns' = scriptRuns + 1
    /\ raced' = raced \ {"scoring"}
    /\ IF Cardinality(Sessions(db)) < MinSessions
       THEN result' = [result EXCEPT !["scoring"] = "declined"] /\ UNCHANGED scored
       ELSE /\ \E outliers \in SUBSET Sessions(db) :
                  scored' = [at |-> "write", rows |-> {l.order : l \in outliers} \ {NoOrder}]
            /\ result' = [result EXCEPT !["scoring"] = "none"]
    /\ UNCHANGED <<db, stockKeys, runVars, shopVars>>

Flagged(d, ids) ==
    [d EXCEPT !.flags = @ \cup ids,
              !.orders = {IF o.id \in ids THEN [o EXCEPT !.status = "flagged"] ELSE o : o \in @}]

WriteFlags ==
    /\ scored.at = "write" /\ scored.rows \cap purged.flags = {}
    /\ LET d == Flagged(db, scored.rows)
       IN IF Accepted(d)
          THEN CommitsAs("scoring", d) /\ result' = [result EXCEPT !["scoring"] = "done"]
          ELSE UNCHANGED <<db, raced>> /\ result' = [result EXCEPT !["scoring"] = "refused"]
    /\ scored' = NotScoring
    /\ UNCHANGED <<stockKeys, runVars, shopVars, scriptRuns>>

-----------------------------------------------------------------------------
(* demo_7_recovery: each commit of it is a step *)

Reserved(n) == [db EXCEPT !.reserved["canonical"] = n]
OnSale == db.reserved["canonical"]

RecoveryStep(here, next) ==
    /\ script = [name |-> "recovery", at |-> here]
    /\ IF next = "end" THEN Ends("recovery", "done") ELSE GoesOn("recovery", next)

StartRecovery ==
    /\ script = Idle /\ scriptRuns < MaxRuns
    /\ scriptRuns' = scriptRuns + 1
    /\ raced' = raced \ {"recovery"}
    /\ IF "canonical" \in db.sales
       THEN Starts("recovery", "lose") /\ found' = [found EXCEPT !.stock = OnSale]
       ELSE Ends("recovery", "missing") /\ UNCHANGED found
    /\ UNCHANGED <<db, stockKeys, purged, scored, shopVars>>

\* Part A: the unit lost, and put back.
LosesUnit ==
    /\ script = [name |-> "recovery", at |-> "lose"]
    /\ TransactionOf("recovery", Reserved(OnSale + 1), GoesOn("recovery", "restore"))
    /\ UNCHANGED <<stockKeys, purged, scored, found, shopVars, scriptRuns>>

RestoresUnit ==
    /\ script = [name |-> "recovery", at |-> "restore"]
    /\ TransactionOf("recovery", Reserved(OnSale - 1), GoesOn("recovery", "retry"))
    /\ UNCHANGED <<stockKeys, purged, scored, found, shopVars, scriptRuns>>

\* The same in a transaction that is rolled back; the CHECK is made all the same.
RollsBack ==
    /\ script = [name |-> "recovery", at |-> "retry"]
    /\ IF Accepted(Reserved(OnSale + 1)) THEN GoesOn("recovery", "log") ELSE Ends("recovery", "refused")
    /\ UNCHANGED <<db, raced, stockKeys, purged, scored, found, shopVars, scriptRuns>>

\* Part B: the log entry, the page written and rolled back, the undo.
WritesAhead ==
    /\ RecoveryStep("log", "write")
    /\ CommitsAs("recovery", [db EXCEPT !.audits = @ \cup {"canonical"}])
    /\ found' = [found EXCEPT !.before = OnSale]
    /\ UNCHANGED <<stockKeys, purged, scored, shopVars, scriptRuns>>

WritesPage ==
    /\ script = [name |-> "recovery", at |-> "write"]
    /\ IF Accepted(Reserved(found.before + 1)) THEN GoesOn("recovery", "undo") ELSE Ends("recovery", "refused")
    /\ UNCHANGED <<db, raced, stockKeys, purged, scored, found, shopVars, scriptRuns>>

Undone == found.before
Undoes ==
    /\ RecoveryStep("undo", "end")
    /\ CommitsAs("recovery", Reserved(Undone))
    /\ found' = [found EXCEPT !.final = Undone]
    /\ UNCHANGED <<stockKeys, purged, scored, shopVars, scriptRuns>>

-----------------------------------------------------------------------------
(* A script killed, or cut off from the database, between two of its commits: *)
(* what its open transaction did is undone, what it committed stays.         *)

Dies ==
    /\ script # Idle
    /\ Ends(script.name, "died")
    /\ purged' = NoRows
    /\ UNCHANGED <<db, stockKeys, scored, found, shopVars, raced, scriptRuns>>

ScoringDies ==
    /\ scored # NotScoring
    /\ scored' = NotScoring
    /\ result' = [result EXCEPT !["scoring"] = "died"]
    /\ UNCHANGED <<db, stockKeys, runVars, shopVars, raced, scriptRuns>>

-----------------------------------------------------------------------------
(* The buyers *)

Visit == visits < MaxVisits /\ visits' = visits + 1

\* One unit and one order; the Redis handler keeps the unit on its own counter.
Buys(u, s, viaRedis) ==
    /\ Visit
    /\ u \in db.users /\ s \in db.sales
    /\ db.placed < MaxOrders
    /\ viaRedis \/ db.reserved[s] < SaleStock
    /\ LET id == db.placed + 1
       IN /\ CommitsAs("buyer", [db EXCEPT !.placed = id,
                                           !.orders = @ \cup {[id |-> id, user |-> u, sale |-> s,
                                               status |-> "confirmed",
                                               strategy |-> IF viaRedis THEN "redis" ELSE "sql"]},
                                           !.reserved[s] = IF viaRedis THEN @ ELSE @ + 1])
          /\ toLog' = toLog \cup {[user |-> u, sale |-> s, order |-> id]}
    /\ stockKeys' = IF viaRedis THEN stockKeys \cup {s} ELSE stockKeys
    /\ UNCHANGED <<runVars, scored, result, scriptRuns>>

IsTurnedAway(u, s) ==
    /\ Visit
    /\ toLog' = toLog \cup {[user |-> u, sale |-> s, order |-> NoOrder]}
    /\ UNCHANGED <<db, stockKeys, runVars, scored, raced, result, scriptRuns>>

\* log_checkout_attempt, in a transaction of its own, which may fail.
LogsAttempt(l) ==
    /\ l \in toLog
    /\ toLog' = toLog \ {l}
    /\ LET d == [db EXCEPT !.logs = @ \cup {l}]
       IN IF Accepted(d) THEN CommitsAs("buyer", d) ELSE UNCHANGED <<db, raced>>
    /\ UNCHANGED <<stockKeys, runVars, scored, visits, result, scriptRuns>>

Pays(o) ==
    /\ Visit
    /\ o \in db.orders /\ o.status = "confirmed"
    /\ \A p \in db.payments : p.order # o.id
    /\ CommitsAs("buyer", [db EXCEPT !.payments = @ \cup {[order |-> o.id, declined |-> FALSE]}])
    /\ UNCHANGED <<stockKeys, runVars, scored, toLog, result, scriptRuns>>

\* The unit goes back where the order's strategy took it from, beside an audit row;
\* an order without a strategy holds none that is known.
Released(d, o) ==
    CASE o.strategy = "sql" /\ d.reserved[o.sale] > 0 ->
            [d EXCEPT !.reserved[o.sale] = @ - 1, !.audits = @ \cup {o.sale}]
      [] o.strategy = "redis" -> [d EXCEPT !.audits = @ \cup {o.sale}]
      [] OTHER -> d
IsDeclined(o) ==
    LET p == [order |-> o.id, declined |-> FALSE]
    IN /\ Visit
       /\ o \in db.orders /\ p \in db.payments \ purged.payments
       /\ CommitsAs("buyer",
             Released([db EXCEPT !.payments = (@ \ {p}) \cup {[p EXCEPT !.declined = TRUE]}], o))
       /\ stockKeys' = IF o.strategy = "redis" THEN stockKeys \cup {o.sale} ELSE stockKeys
       /\ UNCHANGED <<runVars, scored, toLog, result, scriptRuns>>

Shops ==
    \/ \E u \in Users, s \in SaleIds, viaRedis \in BOOLEAN : Buys(u, s, viaRedis)
    \/ \E u \in db.users, s \in db.sales : IsTurnedAway(u, s)
    \/ \E l \in toLog : LogsAttempt(l)
    \/ \E o \in db.orders : Pays(o) \/ IsDeclined(o)

Seeds == \E s \in Scripts : StartSeeding(s) \/ DropParents(s) \/ InsertRows(s) \/ ClearStockKeys(s)
Recovers ==
    \/ StartRecovery \/ LosesUnit \/ RestoresUnit \/ RollsBack
    \/ WritesAhead \/ WritesPage \/ Undoes

MaintNext ==
    Seeds \/ LoadBulk \/ ReadSessions \/ WriteFlags \/ Recovers \/ Dies \/ ScoringDies \/ Shops

-----------------------------------------------------------------------------
(* Properties *)

\* A script that nobody's commit has overlapped succeeds on whatever database it
\* finds, one that an earlier script died over included: it deletes every row that
\* hangs from one it deletes -- orders paid, declined, flagged or logged, on its
\* sales or by its users, left by older versions.  The recovery demonstration leaves
\* the stock as it found it; it alone may be refused, on a sale that it found full.
UndisturbedScriptsSucceed ==
    \A s \in Scripts \ raced :
       /\ result[s] = "refused" => s = "recovery" /\ found.stock = SaleStock
       /\ s = "recovery" /\ result[s] = "done" => found.final = found.stock

\* seed.py:13 and README.md: each script owns its slice of the data "and touches
\* nothing else": once the storefront is seeded, its sales stay.
StorefrontStays ==
    result["storefront"] = "done" /\ script.name # "storefront" => StorefrontSales \subseteq db.sales

=============================================================================
