---------------------------- MODULE StockLedger ----------------------------
(***************************************************************************)
(* What a checkout strategy promises, with no database, lock or counter    *)
(* in it: a sale has a capacity, a request may hold one unit while its     *)
(* order is being written, a unit becomes sold or is given back, and a     *)
(* buyer is told "sold out" only when no unit is left to take.             *)
(***************************************************************************)
EXTENDS Naturals, FiniteSets

CONSTANTS Requests,      \* checkout requests
          Stock,         \* units the sale starts with
          RestockLevels  \* stock values the operator may reset the sale to

VARIABLES capacity,  \* units on sale in the current round
          held,      \* requests holding a unit that is not yet an order
          sold,      \* requests whose order counts against the capacity
          answer     \* what each buyer has been told

ledgerVars == <<capacity, held, sold, answer>>

\* Answers that promise nothing about the stock.
Inconclusive == {"none", "conflict", "refused", "not_found", "error"}

Left == capacity - Cardinality(held \cup sold)

Tell(r, a) == answer' = [answer EXCEPT ![r] = a]

Init ==
    /\ capacity = Stock
    /\ held = {}
    /\ sold = {}
    /\ answer = [r \in Requests |-> "none"]

Hold(r) ==
    /\ answer[r] = "none"
    /\ r \notin held \cup sold
    /\ Left > 0
    /\ held' = held \cup {r}
    /\ UNCHANGED <<capacity, sold, answer>>

\* The order becomes durable; the buyer may learn it or get an error.
Sell(r) ==
    /\ r \in held
    /\ held' = held \ {r}
    /\ sold' = sold \cup {r}
    /\ \E a \in {"confirmed", "error"} : Tell(r, a)
    /\ UNCHANGED capacity

\* The request ends without an order; a unit it held is given back.
GiveUp(r) ==
    /\ answer[r] = "none"
    /\ held' = held \ {r}
    /\ \E a \in Inconclusive : Tell(r, a)
    /\ UNCHANGED <<capacity, sold>>

Reject(r) ==
    /\ answer[r] = "none"
    /\ Left <= 0
    /\ Tell(r, "sold_out")
    /\ UNCHANGED <<capacity, held, sold>>

\* Past orders stay, but stop counting against the stock.
Restock(n) ==
    /\ held = {}
    /\ capacity' = n
    /\ sold' = {}
    /\ UNCHANGED <<held, answer>>

Next ==
    \/ \E r \in Requests : Hold(r) \/ Sell(r) \/ GiveUp(r) \/ Reject(r)
    \/ \E n \in RestockLevels : Restock(n)

Spec == Init /\ [][Next]_ledgerVars

=============================================================================
