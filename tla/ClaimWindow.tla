---------------------------- MODULE ClaimWindow ----------------------------
(***************************************************************************)
(* app/claim_window.py with app/stock_view.py and the poll of app/queue.py *)
(* (CLAIM_WINDOW on, FA_SOLDOUT_NOTIFY on, count weighting): buyers are    *)
(* admitted only while the unresolved admissions are fewer than            *)
(* ceil(free / p_hat), where "free" is a mirror of the stock kept in Redis *)
(* by three writers.  A step is one round trip; a pipeline is one step.    *)
(* One worker leads: WaitingRoom has the lease, and the pop and the grant  *)
(* as two steps.                                                           *)
(***************************************************************************)
EXTENDS Integers, FiniteSets

CONSTANTS Buyers,      \* queue tokens; each gets at most one admission
          Sales,       \* [units, declines, failures, phats, faults]: the stock, how
                       \* many payments may be declined and how many ticks fail half-
                       \* way, the show rates the estimator may arrive at in percent,
                       \* what else may go wrong
          Replicas,    \* processes, each with its stock refresher thread
          Unread       \* fa:free does not exist

ASSUME ClaimWindowAssumption ==
    /\ IsFiniteSet(Buyers)
    /\ Sales \subseteq [units : Nat, declines : Nat, failures : Nat,
                       phats : SUBSET (10..100),      \* [FA_P_FLOOR, 1]
                       faults : SUBSET {"redis_down", "reset"}]
    /\ Unread \notin Int

VARIABLES queue,      \* members of queue:z:{sale}
          stage,      \* where each buyer is
          answered,   \* what polling has told a buyer
          alive,      \* admissions whose keys exist, until a checkout uses them up
          due,        \* admissions whose window has run out
          unresolved, \* fa:U:{sale}
          outcome,    \* the background task that reports a checkout's outcome
          sqlFree,    \* total_stock - reserved_stock
          mirror,     \* fa:free:{sale}
          refresh,    \* refreshers: the value one has read and not yet written
          soldout,    \* fa:soldout:{sale}
          stats,      \* fa:stats:{sale}
          leader,     \* the leader's tick
          history     \* what happened so far that the properties refer to

claimVars  == <<alive, due, unresolved>>
buyerVars  == <<queue, stage, answered>>
stockVars  == <<sqlFree, mirror, refresh>>
leaderVars == <<soldout, leader>>
vars == <<claimVars, buyerVars, outcome, stockVars, leaderVars, stats, history>>

\* Races that make the window too generous, and that make the mirror too low.
Races == {"generous", "low"}

TypeOK ==
    /\ queue \subseteq Buyers
    /\ stage \in [Buyers -> {"new", "queued", "granted", "notify", "told", "door",
                             "sold", "returned", "lost"}]
    /\ answered \in [Buyers -> {"waiting", "admitted", "sold_out", "gone"}]
    /\ alive \subseteq Buyers /\ due \subseteq Buyers /\ unresolved \subseteq Buyers
    /\ outcome \in [Buyers -> {"none", "resolve", "count", "zero"}]
    /\ sqlFree \in Nat
    /\ mirror \in Int \cup {Unread}
    /\ refresh \in [Replicas -> Nat \cup {Unread}]
    /\ soldout \in BOOLEAN
    /\ stats \in [{"admitted", "confirmed", "sold_out", "expired"} -> Nat]
    /\ leader \in [pc : {"idle", "expired", "read", "publish", "admit"}, expired : Nat,
                   counted : Nat, free : Nat \cup {Unread}, slots : Nat, window : Nat]
    /\ history \in [emptied : BOOLEAN, sale : Sales,
                    races : SUBSET Races, uncounted : SUBSET Buyers, missed : Nat,
                    failed : Nat, wiped : BOOLEAN]

NoStats == [s \in {"admitted", "confirmed", "sold_out", "expired"} |-> 0]
Resting == [pc |-> "idle", expired |-> 0, counted |-> 0, free |-> Unread, slots |-> 0,
            window |-> 0]

Init ==
    /\ queue = {}
    /\ stage = [b \in Buyers |-> "new"]
    /\ answered = [b \in Buyers |-> "waiting"]
    /\ alive = {} /\ due = {} /\ unresolved = {}
    /\ outcome = [b \in Buyers |-> "none"]
    /\ mirror = Unread
    /\ refresh = [r \in Replicas |-> Unread]
    /\ soldout = FALSE
    /\ stats = NoStats
    /\ leader = Resting
    /\ \E s \in Sales :
          /\ sqlFree = s.units
          /\ history = [emptied |-> s.units = 0, sale |-> s, races |-> {},
                        uncounted |-> {}, missed |-> 0, failed |-> 0, wiped |-> FALSE]

At(b, s)      == stage' = [stage EXCEPT ![b] = s]
Tell(b, a)    == answered' = [answered EXCEPT ![b] = a]
Report(b, o)  == outcome' = [outcome EXCEPT ![b] = o]
Raced(h, r, happened) == [h EXCEPT !.races = IF happened THEN @ \cup {r} ELSE @]

-----------------------------------------------------------------------------
(* The waiting room *)

Join(b) ==
    /\ stage[b] = "new"
    /\ queue' = queue \cup {b}
    /\ At(b, "queued")
    /\ UNCHANGED <<answered, claimVars, outcome, stockVars, leaderVars, stats,
                   history>>

\* A poll that finds the grant and sets the first-notification marker.
PollGrant(b) ==
    /\ stage[b] = "granted"
    /\ answered[b] = "waiting"
    /\ b \in alive
    /\ At(b, "notify")
    /\ UNCHANGED <<queue, answered, claimVars, outcome, stockVars, leaderVars,
                   stats, history>>

Renewed(b) == unresolved \cup {b}
\* ZADD XX: the entry is moved, never made.
Rescored(b) == unresolved

\* The pipeline that restarts the window: EXPIRE on the keys that still exist.
Notify(b) ==
    /\ stage[b] = "notify"
    /\ due' = due \ {b}
    /\ unresolved' = Rescored(b)
    /\ At(b, "told")
    /\ Tell(b, "admitted")
    /\ UNCHANGED <<queue, alive, outcome, stockVars, leaderVars, stats, history>>

\* Granted and expired before the first poll: "Unknown or expired".
PollGone(b) ==
    /\ stage[b] = "granted"
    /\ answered[b] = "waiting"
    /\ b \notin alive
    /\ Tell(b, "gone")
    /\ UNCHANGED <<queue, stage, claimVars, outcome, stockVars, leaderVars, stats,
                   history>>

\* The notice; the buyer keeps their place in the queue.
PollSoldOut(b) ==
    /\ stage[b] = "queued"
    /\ answered[b] = "waiting"
    /\ soldout
    /\ Tell(b, "sold_out")
    /\ UNCHANGED <<queue, stage, claimVars, outcome, stockVars, leaderVars, stats,
                   history>>

\* ADMISSION_TTL_S since the grant, or since the first notification.  The score
\* is taken from a clock read before the key is set, so the key goes later.
Lapse(b) ==
    /\ b \in (alive \cup unresolved) \ due
    /\ due' = due \cup {b}
    /\ UNCHANGED <<alive, unresolved, buyerVars, outcome, stockVars, leaderVars,
                   stats, history>>

KeyExpires(b) ==
    /\ b \in alive \cap due
    /\ alive' = alive \ {b}
    /\ UNCHANGED <<due, unresolved, buyerVars, outcome, stockVars, leaderVars,
                   stats, history>>

-----------------------------------------------------------------------------
(* The door and the handlers behind it *)

\* The claim is won: on_show.
Show(b) ==
    /\ stage[b] = "told"
    /\ b \in alive
    /\ At(b, "door")
    /\ UNCHANGED <<queue, answered, claimVars, outcome, stockVars, leaderVars,
                   stats, history>>

\* The handler commits the order; on_outcome starts the background task.
Confirm(b) ==
    /\ stage[b] = "door"
    /\ sqlFree > 0
    /\ sqlFree' = sqlFree - 1
    /\ At(b, "sold")
    /\ alive' = alive \ {b}
    /\ Report(b, "resolve")
    /\ history' = [history EXCEPT !.emptied = @ \/ sqlFree = 1]
    /\ UNCHANGED <<queue, answered, due, unresolved, mirror, refresh, leaderVars,
                   stats>>

SoldOut(b) ==
    /\ stage[b] = "door"
    /\ sqlFree = 0
    /\ At(b, "lost")
    /\ alive' = alive \ {b}
    /\ Report(b, "resolve")
    /\ UNCHANGED <<queue, answered, due, unresolved, stockVars, leaderVars, stats,
                   history>>

\* A version conflict or an error: the claim stays, the buyer may come again.
Pending(b) ==
    /\ stage[b] = "door"
    /\ At(b, "told")
    /\ UNCHANGED <<queue, answered, claimVars, outcome, stockVars, leaderVars,
                   stats, history>>

\* ZREM: only the request that removes the claim goes on to count it.
Resolve(b) ==
    /\ outcome[b] = "resolve"
    /\ unresolved' = unresolved \ {b}
    /\ due' = due \ {b}
    /\ Report(b, IF b \in unresolved THEN "count" ELSE "none")
    /\ history' = Raced(history, "generous",
                        b \notin unresolved /\ stage[b] = "sold")
    /\ UNCHANGED <<alive, buyerVars, stockVars, leaderVars, stats>>

\* DECR, which makes a missing key.
Taken(m) == (IF m = Unread THEN 0 ELSE m) - 1

\* One pipeline: HINCRBY, and for a sale DECR.
Count(b) ==
    /\ outcome[b] = "count"
    /\ IF stage[b] = "lost"
       THEN /\ stats' = [stats EXCEPT !.sold_out = @ + 1]
            /\ Report(b, "none")
            /\ UNCHANGED <<mirror, history>>
       ELSE /\ stats' = [stats EXCEPT !.confirmed = @ + 1]
            /\ mirror' = Taken(mirror)
            /\ Report(b, IF mirror' < 0 THEN "zero" ELSE "none")
            /\ history' = Raced(history, "low", mirror' < sqlFree)
    /\ UNCHANGED <<claimVars, buyerVars, sqlFree, refresh, leaderVars>>

\* The reply was below zero: a second round trip.
SetZero(b) ==
    /\ outcome[b] = "zero"
    /\ mirror' = 0
    /\ Report(b, "none")
    /\ history' = Raced(history, "low", sqlFree > 0)
    /\ UNCHANGED <<claimVars, buyerVars, sqlFree, refresh, leaderVars, stats>>

\* Redis does not answer: the exception is swallowed, the claim stays until it
\* expires, or is gone without being counted.
ReportFails(b) ==
    /\ "redis_down" \in history.sale.faults
    /\ outcome[b] # "none"
    /\ Report(b, "none")
    /\ history' = Raced([history EXCEPT !.uncounted =
                            IF outcome[b] = "count" THEN @ \cup {b} ELSE @],
                        "generous", stage[b] = "sold")
    /\ UNCHANGED <<claimVars, buyerVars, stockVars, leaderVars, stats>>

\* A payment is declined: its order gives the unit back.
Decline(b) ==
    /\ stage[b] = "sold"
    /\ Cardinality({a \in Buyers : stage[a] = "returned"}) < history.sale.declines
    /\ sqlFree' = sqlFree + 1
    /\ At(b, "returned")
    /\ UNCHANGED <<queue, answered, claimVars, outcome, mirror, refresh, leaderVars,
                   stats, history>>

-----------------------------------------------------------------------------
(* stock_view.refresh_once *)

RefreshRead(r) ==
    /\ refresh[r] = Unread
    /\ refresh' = [refresh EXCEPT ![r] = sqlFree]
    /\ UNCHANGED <<claimVars, buyerVars, outcome, sqlFree, mirror, leaderVars, stats,
                   history>>

OnlyOnce(free) == IF mirror = Unread THEN free ELSE mirror
\* compute_free, when there is no Redis counter.
Anchored(free) == free

RefreshSet(r) ==
    /\ refresh[r] # Unread
    /\ mirror' = Anchored(refresh[r])
    /\ refresh' = [refresh EXCEPT ![r] = Unread]
    /\ LET counted == Cardinality({b \in unresolved : stage[b] = "sold"}) IN
       history' = Raced(Raced(history, "generous", refresh[r] > sqlFree + counted),
                        "low", refresh[r] < sqlFree)
    /\ UNCHANGED <<claimVars, buyerVars, outcome, sqlFree, leaderVars, stats>>

-----------------------------------------------------------------------------
(* leader_tick, and the admit that follows it *)

\* window: ceil(free / p_hat); budget: what it leaves.
RoomyWindow(free, p) == (100 * free) \div p + 1
Window(free, p) == (100 * free + p - 1) \div p
Budget(w, n) == IF w > n THEN w - n ELSE 0
UnreadIsEmpty(free) == free = Unread \/ free = 0
IsSoldOut(free) == free # Unread /\ free = 0
Nobody  == {}
\* The claims a tick drops.
Overdue == unresolved \cap due

\* One transaction: the overdue claims are read and removed, the rest counted.
TickCount ==
    /\ leader.pc = "idle"
    /\ unresolved' = unresolved \ Overdue
    /\ leader' = [leader EXCEPT !.pc = IF Overdue = {} THEN "read" ELSE "expired",
                                !.expired = Cardinality(Overdue),
                                !.counted = Cardinality(unresolved')]
    /\ history' = Raced(history, "generous",
                        \E b \in Overdue : \/ b \in alive \/ outcome[b] = "resolve"
                                           \/ stage[b] \in {"notify", "door"})
    /\ UNCHANGED <<alive, due, buyerVars, outcome, stockVars, soldout, stats>>

\* The statistics of the removed claims, later: HMGET, which tells those that
\* showed from the others, here one sum, and then the HINCRBY pipeline.
TickExpire ==
    /\ leader.pc = "expired"
    /\ stats' = [stats EXCEPT !.expired = @ + leader.expired]
    /\ leader' = [leader EXCEPT !.pc = "read", !.expired = 0]
    /\ UNCHANGED <<claimVars, buyerVars, outcome, stockVars, soldout, history>>

\* read_free
TickRead ==
    /\ leader.pc = "read"
    /\ leader' = [leader EXCEPT !.pc = "publish",
                     !.free = IF mirror = Unread \/ mirror >= 0 THEN mirror ELSE 0]
    /\ history' = Raced(history, "generous",
                        \E b \in Buyers : outcome[b] = "count" /\ stage[b] = "sold")
    /\ UNCHANGED <<claimVars, buyerVars, outcome, stockVars, soldout, stats>>

\* The flag, and a window for the show rate of the moment.  Before the first
\* refresh: nobody.
TickPublish ==
    /\ leader.pc = "publish"
    /\ soldout' = IsSoldOut(leader.free)
    /\ \E p \in history.sale.phats :
           LET w == IF leader.free = Unread THEN 0 ELSE Window(leader.free, p)
               n == Budget(w, leader.counted)
           IN  leader' = IF n = 0 THEN Resting
                         ELSE [Resting EXCEPT !.pc = "admit", !.window = w, !.slots = n]
    /\ UNCHANGED <<claimVars, buyerVars, outcome, stockVars, stats, history>>

\* admit: ZPOPMIN and the grants, with track_grants in the same pipeline.
TickAdmit ==
    /\ leader.pc = "admit"
    /\ \E batch \in SUBSET queue :
        /\ Cardinality(batch) =
               IF Cardinality(queue) < leader.slots THEN Cardinality(queue) ELSE leader.slots
        /\ queue' = queue \ batch
        /\ alive' = alive \cup batch
        /\ unresolved' = unresolved \cup batch
        /\ stage' = [b \in Buyers |-> IF b \in batch THEN "granted" ELSE stage[b]]
        /\ stats' = [stats EXCEPT !.admitted = @ + Cardinality(batch)]
    /\ leader' = Resting
    /\ UNCHANGED <<due, answered, outcome, stockVars, soldout, history>>

\* Redis does not answer, which ends the tick, or the leader dies and another
\* starts over: nobody counts the claims this tick removed.
TickFails ==
    /\ leader.pc # "idle"
    /\ history.failed < history.sale.failures
    /\ leader' = Resting
    /\ history' = [history EXCEPT !.missed = @ + leader.expired, !.failed = @ + 1]
    /\ UNCHANGED <<claimVars, buyerVars, outcome, stockVars, soldout, stats>>

-----------------------------------------------------------------------------
(* POST /queue/control/reset *)

\* claim_window.reset deletes every fa:* key; the admissions live on.  The order
\* in which the scan meets the keys is left out.
Wipe ==
    /\ "reset" \in history.sale.faults
    /\ ~history.wiped
    /\ unresolved' = {}
    /\ mirror' = Unread
    /\ soldout' = FALSE
    /\ stats' = NoStats
    /\ history' = [history EXCEPT !.wiped = TRUE, !.races = @ \cup {"generous"}]
    /\ UNCHANGED <<alive, due, buyerVars, outcome, sqlFree, refresh, leader>>

-----------------------------------------------------------------------------
Poll(b)    == PollGrant(b) \/ Notify(b) \/ PollGone(b) \/ PollSoldOut(b)
Handle(b)  == Confirm(b) \/ SoldOut(b)
Outcome(b) == Resolve(b) \/ Count(b) \/ SetZero(b)
Refresh(r) == RefreshRead(r) \/ RefreshSet(r)
Tick       == TickCount \/ TickExpire \/ TickRead \/ TickPublish \/ TickAdmit

Next ==
    \/ \E b \in Buyers : \/ Join(b) \/ Poll(b) \/ Lapse(b) \/ KeyExpires(b)
                         \/ Show(b) \/ Handle(b) \/ Pending(b)
                         \/ Outcome(b) \/ ReportFails(b) \/ Decline(b)
    \/ \E r \in Replicas : Refresh(r)
    \/ Tick \/ TickFails
    \/ Wipe

Spec == Init /\ [][Next]_vars

\* Threads and tasks keep running, time passes, waiting clients poll; whether
\* and when a buyer joins, checks out or pays is theirs.
FairSpec ==
    /\ Spec
    /\ \A b \in Buyers : WF_vars(Poll(b)) /\ WF_vars(Lapse(b)) /\ WF_vars(KeyExpires(b))
    /\ \A b \in Buyers : WF_vars(Handle(b)) /\ WF_vars(Outcome(b))
    /\ \A r \in Replicas : WF_vars(Refresh(r))
    /\ WF_vars(Tick)

-----------------------------------------------------------------------------
(* Properties *)

\* The claim ledger balances: every admission is unresolved, or was counted
\* once as sold, sold out or expired, or its count is still on the way, in the
\* task of a checkout or in the leader's tick, or was lost with a Redis that did
\* not answer or a leader that died between removing claims and counting them.
\* A checkout that outlives its claim, a late notification and an expiry racing
\* an outcome make no difference; a reset starts the counters anew.
ClaimsConserved ==
    ~history.wiped =>
        stats.admitted = stats.confirmed + stats.sold_out + stats.expired
                             + Cardinality(unresolved) + Cardinality(history.uncounted)
                             + Cardinality({b \in Buyers : outcome[b] = "count"})
                             + leader.expired + history.missed

\* With a show rate of 1 a buyer is let in and then finds nothing to buy only
\* after one of the races between the claim set, the mirror and the database.
WasteNeedsARace ==
    history.sale.phats = {100} /\ "generous" \notin history.races =>
        \A b \in Buyers : stage[b] # "lost"

\* The sold-out notice is not invented: if nobody returned a unit and no
\* refresh crossed a sale on its way to the mirror, the sale really was empty.
NoticeIsTrue ==
    \A b \in Buyers : answered[b] = "sold_out" =>
        \/ history.emptied
        \/ \E a \in Buyers : stage[a] = "returned"
        \/ "low" \in history.races

\* Nobody waits for ever: a buyer in the queue is admitted or told it is over.
EveryoneHearsBack == \A b \in Buyers : stage[b] = "queued" ~> answered[b] # "waiting"

\* The mirror agrees with the database in the end: lost outcomes, double
\* deductions and returned units do not stay in it.
MirrorSettles == <>[](mirror = sqlFree)

=============================================================================
