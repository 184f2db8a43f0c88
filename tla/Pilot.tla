-------------------------------- MODULE Pilot --------------------------------
(***************************************************************************)
(* research/pilot/fa_pilot.py: a herd of buyers for one hot inventory row,  *)
(* admitted by one of eight policies.  All tasks share one event loop, so a *)
(* step runs from one await to the next; only `inventory` and `orders` are  *)
(* in PostgreSQL.                                                          *)
(***************************************************************************)
EXTENDS Integers, FiniteSets

CONSTANTS Herd,        \* N: buyers are admitted as 1, 2, ..., Herd
          PilotStock,  \* S
          PoolSize,    \* a.pool
          Rate, Width, \* K of rate:K and W of win:W
          PilotTtl,    \* a.ttl, in clock ticks
          EndClock,    \* a.deadline
          MaxSeen,     \* bound on the versions a buyer reads
          Simulations  \* which of policy, cc and cl are run

ASSUME PilotAssumption ==
    /\ {Herd, PilotStock, PoolSize, Rate, Width, PilotTtl} \subseteq Nat \ {0}
    /\ EndClock \in Nat /\ MaxSeen \in Nat
    /\ Simulations \subseteq
         [policy : {"raw", "rate", "win", "aimd", "stock", "fa", "fa2", "fa+aimd"},
          cc : {"pessimistic", "optimistic"}, cl : BOOLEAN]

Herds == 1..Herd

VARIABLES sim,       \* the arguments of this run
          now, nxt, pending, holds, paid, releases, inVain, stopping, over,
          wnd, ss,            \* the controller's window and slow start
          limit, lss, inDb,    \* the limit on database checkouts, db_inflight
          shown,     \* when a buyer was admitted, and after how long it showed
          phat,      \* the cached estimate of the show rate, as a fraction
          act,       \* the await a buyer's task is at
          seenRow,   \* what an optimistic buyer's SELECT returned
          stockRow, herdLock, orderOf  \* inventory, its row lock, orders.status

countVars == <<nxt, pending, holds, paid, releases, inVain>>
controlVars == <<wnd, ss, limit, lss, phat>>
dbVars == <<stockRow, herdLock, orderOf>>
pilotVars == <<sim, now, countVars, controlVars, inDb, stopping, over, shown, act, seenRow, dbVars>>

Prob(n, d) == [num |-> n, den |-> d]
NotYet == [at |-> 0, delay |-> 0]

PilotInit ==
    /\ sim \in Simulations
    /\ now = 0 /\ nxt = 0 /\ pending = 0 /\ holds = 0 /\ paid = 0
    /\ releases = 0 /\ inVain = 0 /\ stopping = FALSE /\ over = FALSE
    /\ wnd = 2 /\ ss = TRUE /\ limit = 2 /\ lss = TRUE /\ inDb = 0
    /\ shown = [b \in Herds |-> NotYet] /\ phat = Prob(1, 1)
    /\ act = [b \in Herds |-> "queued"] /\ seenRow = [b \in Herds |-> 0]
    /\ stockRow = [reserved |-> 0, version |-> 0] /\ herdLock = 0
    /\ orderOf = [b \in Herds |-> "none"]

At(b, spot) == act' = [act EXCEPT ![b] = spot]

-----------------------------------------------------------------------------
(* The database *)

Connected == Cardinality({b \in Herds : act[b] \in {"locked", "read"}})
PilotSoldOut == stockRow.reserved >= PilotStock

\* BEGIN; SELECT .. FOR UPDATE.
PilotLock(b) ==
    /\ act[b] = "checkout" /\ sim.cc = "pessimistic"
    /\ Connected < PoolSize /\ herdLock = 0
    /\ IF PilotSoldOut THEN At(b, "refused") /\ UNCHANGED herdLock
                       ELSE At(b, "locked") /\ herdLock' = b
    /\ UNCHANGED <<stockRow, orderOf, seenRow>>

Reserves(b) ==
    /\ stockRow' = [reserved |-> stockRow.reserved + 1, version |-> stockRow.version + 1]
    /\ orderOf' = [orderOf EXCEPT ![b] = "held"]
    /\ At(b, "ordered")

PilotCommit(b) ==
    /\ act[b] = "locked"
    /\ Reserves(b) /\ herdLock' = 0
    /\ UNCHANGED seenRow

\* The loop stops, with no order, when the run is done.
PilotRead(b) ==
    /\ act[b] = "checkout" /\ sim.cc = "optimistic"
    /\ IF stopping THEN At(b, "refused") /\ UNCHANGED seenRow
       ELSE /\ Connected < PoolSize
            /\ IF PilotSoldOut THEN At(b, "refused") /\ UNCHANGED seenRow
               ELSE At(b, "read") /\ seenRow' = [seenRow EXCEPT ![b] = stockRow.version]
    /\ UNCHANGED dbVars

PilotUpdate(b) ==
    /\ act[b] = "read" /\ herdLock = 0
    /\ IF seenRow[b] = stockRow.version
       THEN Reserves(b)
       ELSE At(b, "checkout") /\ UNCHANGED <<stockRow, orderOf>>
    /\ UNCHANGED <<seenRow, herdLock>>

PilotCheckout(b) ==
    /\ stockRow.version < MaxSeen
    /\ PilotLock(b) \/ PilotCommit(b) \/ PilotRead(b) \/ PilotUpdate(b)
    /\ UNCHANGED <<sim, now, countVars, controlVars, inDb, stopping, over, shown>>

Settled == {"settledPaid", "settledFailed"}
Settle(b) ==
    /\ act[b] = "holding" /\ ~stopping
    /\ Connected < PoolSize
    /\ \/ /\ orderOf' = [orderOf EXCEPT ![b] = "paid"]
          /\ At(b, "settledPaid")
          /\ UNCHANGED stockRow
       \/ /\ herdLock = 0
          /\ stockRow' = [reserved |-> stockRow.reserved - 1, version |-> stockRow.version + 1]
          /\ orderOf' = [orderOf EXCEPT ![b] = "failed"]
          /\ At(b, "settledFailed")
    /\ UNCHANGED <<sim, now, countVars, controlVars, inDb, stopping, over, shown, seenRow, herdLock>>

-----------------------------------------------------------------------------
(* A buyer *)

NoShows(b) ==
    /\ act[b] = "away" /\ ~stopping
    /\ shown[b].delay = 0 /\ now - shown[b].at >= PilotTtl
    /\ pending' = pending - 1
    /\ At(b, "gone")
    /\ UNCHANGED <<sim, now, nxt, holds, paid, releases, inVain, controlVars, inDb, stopping,
                   over, shown, seenRow, dbVars>>

\* A buyer shows within its TTL, and waits for the limit on the database.
Shows(b) ==
    /\ act[b] = "away" /\ ~stopping
    /\ now > shown[b].at /\ now - shown[b].at < PilotTtl
    /\ shown' = [shown EXCEPT ![b].delay = now - shown[b].at]
    /\ At(b, "gate")
    /\ UNCHANGED <<sim, now, countVars, controlVars, inDb, stopping, over, seenRow, dbVars>>

PassesGate(b) ==
    /\ act[b] = "gate"
    /\ sim.cl => inDb < limit \/ stopping
    /\ inDb' = inDb + 1
    /\ At(b, "checkout")
    /\ UNCHANGED <<sim, now, countVars, controlVars, stopping, over, shown, seenRow, dbVars>>

\* From the release of the limit to the next await.
Answered(b) ==
    /\ act[b] \in {"ordered", "refused"}
    /\ inDb' = inDb - 1 /\ pending' = pending - 1
    /\ IF act[b] = "ordered"
       THEN holds' = holds + 1 /\ At(b, "holding") /\ UNCHANGED inVain
       ELSE inVain' = inVain + 1 /\ At(b, "gone") /\ UNCHANGED holds
    /\ UNCHANGED <<sim, now, nxt, paid, releases, controlVars, stopping, over, shown, seenRow, dbVars>>

Counted(b) ==
    /\ act[b] \in Settled
    /\ holds' = holds - 1
    /\ IF act[b] = "settledPaid" THEN paid' = paid + 1 /\ UNCHANGED releases
                                 ELSE releases' = releases + 1 /\ UNCHANGED paid
    /\ At(b, "gone")
    /\ UNCHANGED <<sim, now, nxt, pending, inVain, controlVars, inDb, stopping, over, shown,
                   seenRow, dbVars>>

PilotBuyer(b) == NoShows(b) \/ Shows(b) \/ PassesGate(b) \/ Answered(b) \/ Counted(b)

-----------------------------------------------------------------------------
(* The controller *)

FreeForgetsHolds == PilotStock - paid
Free == PilotStock - holds - paid

Admitted == 1..nxt
Matured == {b \in Admitted : now - shown[b].at >= PilotTtl}
Showed(S) == {b \in S : shown[b].delay > 0}

\* Those too young to tell count for the share of the mature shows that had
\* come by their age; two pseudo-observations stand at p = 1.
PHat ==
    LET young == Admitted \ Matured
        delays == Showed(Matured)
        n == Cardinality(delays)
        due == Cardinality({p \in young \X delays :
                               shown[p[2]].delay <= now - shown[p[1]].at})
        shows == (Cardinality(Showed(Admitted)) + 2) * n
        expect == (Cardinality(Matured) + 2) * n + due
    IN IF n = 0 \/ shows >= expect THEN Prob(1, 1)
       ELSE IF 10 * shows <= expect THEN Prob(1, 10)
       ELSE Prob(shows, expect)

CeilRatio(n, d) == (n + d - 1) \div d
MinOf(m, n) == IF m <= n THEN m ELSE n
MaxOf(m, n) == IF m >= n THEN m ELSE n

\* fa2 counts the held units it expects back, at the share of payments so far.
Expected == [num |-> Free * (paid + releases + 2) + holds * (releases + 1),
             den |-> paid + releases + 2]

AdmitTo(p) ==
    CASE sim.policy = "raw"     -> 0
      [] sim.policy = "rate"    -> pending + Rate
      [] sim.policy = "win"     -> Width
      [] sim.policy = "aimd"    -> wnd
      [] sim.policy = "stock"   -> Free
      [] sim.policy = "fa"      -> CeilRatio(Free * p.den, p.num)
      [] sim.policy = "fa2"     -> CeilRatio(Expected.num * p.den, Expected.den * p.num)
      [] sim.policy = "fa+aimd" -> MinOf(wnd, CeilRatio(Free * p.den, p.num))

\* admit(k): the next buyers' tasks start.
Admits(k) ==
    LET m == MinOf(k, Herd - nxt)
        new == (nxt + 1)..(nxt + m)
    IN /\ nxt' = nxt + m /\ pending' = pending + m
       /\ shown' = [b \in Herds |-> IF b \in new THEN [at |-> now, delay |-> 0] ELSE shown[b]]
       /\ act' = [b \in Herds |-> IF b \in new THEN "away" ELSE act[b]]

StartRaw ==
    /\ sim.policy = "raw" /\ nxt = 0
    /\ Admits(Herd)
    /\ UNCHANGED <<sim, now, holds, paid, releases, inVain, controlVars, inDb, stopping, over,
                   seenRow, dbVars>>

Finished ==
    now >= EndClock \/ paid = PilotStock \/ (nxt >= Herd /\ pending = 0 /\ holds = 0)

\* What the latencies and conflicts of the last second say.
Readings == {"few", "congested", "clear"}
NextWindow(reading) ==
    CASE reading = "congested" -> [w |-> MaxOf(1, wnd \div 2), s |-> FALSE]
      [] reading = "clear"     -> [w |-> MinOf(Herd, IF ss THEN wnd * 2 ELSE wnd + 1), s |-> ss]
      [] reading = "few"       -> [w |-> IF ss /\ pending >= wnd THEN MinOf(Herd, wnd * 2) ELSE wnd,
                                   s |-> ss]
NextLimit(reading) ==
    CASE reading = "congested" -> [w |-> MaxOf(1, limit \div 2), s |-> FALSE]
      [] reading = "clear"     -> [w |-> MinOf(PoolSize, IF lss THEN limit * 2 ELSE limit + 1), s |-> lss]
      [] reading = "few"       -> [w |-> limit, s |-> lss]

\* Both windows are looked at on a schedule of their own, on which one tick may fall.
Adjust ==
    /\ ~stopping /\ ~Finished
    /\ \/ /\ sim.policy \in {"aimd", "fa+aimd"}
          /\ \E v \in Readings : wnd' = NextWindow(v).w /\ ss' = NextWindow(v).s
          /\ UNCHANGED <<limit, lss>>
       \/ /\ sim.cl
          /\ \E v \in Readings : limit' = NextLimit(v).w /\ lss' = NextLimit(v).s
          /\ UNCHANGED <<wnd, ss>>
    /\ UNCHANGED <<sim, now, countVars, phat, inDb, stopping, over, shown, act, seenRow, dbVars>>

\* The estimate is kept for a tenth of a second.
Control ==
    /\ ~stopping
    /\ IF Finished
       THEN stopping' = TRUE /\ UNCHANGED <<nxt, pending, shown, act, phat>>
       ELSE /\ UNCHANGED stopping
            /\ phat' \in {phat, PHat}
            /\ LET k == AdmitTo(phat') IN Admits(IF k > pending THEN k - pending ELSE 0)
    /\ UNCHANGED <<sim, now, holds, paid, releases, inVain, wnd, ss, limit, lss, inDb,
                   over, seenRow, dbVars>>

\* A moment after the end every task is cancelled, and its transaction with it.
CancelAll ==
    /\ stopping /\ ~over
    /\ over' = TRUE
    /\ act' = [b \in Herds |-> IF act[b] \in {"queued", "gone"} THEN act[b] ELSE "cancelled"]
    /\ herdLock' = 0
    /\ UNCHANGED <<sim, now, countVars, controlVars, inDb, stopping, shown, seenRow, stockRow, orderOf>>

ClockTicks ==
    /\ now < EndClock
    /\ now' = now + 1
    /\ UNCHANGED <<sim, countVars, controlVars, inDb, stopping, over, shown, act, seenRow, dbVars>>

PilotNext ==
    \/ \E b \in Herds : PilotBuyer(b) \/ PilotCheckout(b) \/ Settle(b)
    \/ StartRaw \/ Adjust \/ Control \/ CancelAll \/ ClockTicks

PilotSpec == PilotInit /\ [][PilotNext]_pilotVars

-----------------------------------------------------------------------------
(* Properties *)

\* Admitting no more than the units that are neither held nor paid, counting the
\* buyers still on their way against them, admits nobody in vain: while the run
\* lasts no buyer of policy stock:1 finds the row sold out, although free units
\* are known only after the commits that take and return them.
NobodyAdmittedInVain == sim.policy = "stock" /\ ~stopping => inVain = 0

=============================================================================
