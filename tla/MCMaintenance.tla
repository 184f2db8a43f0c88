--------------------------- MODULE MCMaintenance -----------------------------
(* A small database for TLC. *)
EXTENDS Maintenance

Order(i, u, s, how) == [id |-> i, user |-> u, sale |-> s, status |-> "confirmed", strategy |-> how]
LogOf(o) == [user |-> o.user, sale |-> o.sale, order |-> o.id]

EmptyDb == [users |-> {}, sales |-> {}, orders |-> {}, items |-> {}, flags |-> {},
            payments |-> {}, logs |-> {}, audits |-> {}, placed |-> 0,
            reserved |-> [s \in SaleIds |-> 0]]

\* One order by each kind of user, with every kind of row that hangs from one;
\* the storefront is seeded or not.
LivedIn(sale, sales) ==
    LET bought == {Order(1, "demo", "canonical", "sql"), Order(2, "bulk", sale, "null")}
    IN [EmptyDb EXCEPT !.users = {"demo", "bulk"}, !.sales = sales,
                     !.orders = bought, !.placed = 2, !.items = {2}, !.flags = {2},
                     !.payments = {[order |-> 2, declined |-> FALSE]},
                     !.logs = {LogOf(o) : o \in bought}, !.audits = sales \ {"shoes"},
                     !.reserved["canonical"] = 1]
OldDb ==
    LET o == Order(1, "legacy", "legacy", "null")
    IN [EmptyDb EXCEPT !.users = {"legacy"}, !.sales = {"legacy"}, !.orders = {o}, !.placed = 1,
                       !.payments = {[order |-> 1, declined |-> TRUE]}, !.logs = {LogOf(o)},
                       !.audits = {"legacy"}]

MCOldDbs == {EmptyDb, LivedIn("canonical", {"canonical"}),
             LivedIn("shoes", {"canonical", "shoes", "gadget"}), OldDb}

MaintSpec == MaintInit /\ [][MaintNext]_maintVars

=============================================================================
