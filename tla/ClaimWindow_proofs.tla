-------------------------- MODULE ClaimWindow_proofs --------------------------
(***************************************************************************)
(* For every number of buyers, units, declines, show rates and refreshers: *)
(* the claim ledger balances; with a show rate of 1 nobody is let in in    *)
(* vain unless one of the named races happened; and a sold-out notice has  *)
(* a reason.                                                               *)
(***************************************************************************)
EXTENDS ClaimWindow, FiniteSetTheorems, TLAPS

-----------------------------------------------------------------------------
(* The invariants *)

CheckedOut == {"sold", "returned", "lost"}

\* Whoever stands in the queue has no claim, only a buyer whose checkout has
\* ended has an outcome to report, once, and the leader holds expired claims
\* only between removing and counting them.
StagesFollowCode ==
    /\ \A b \in queue : stage[b] = "queued"
    /\ \A b \in unresolved : stage[b] \notin {"new", "queued"}
    /\ \A b \in Buyers : outcome[b] # "none" => stage[b] \in CheckedOut
    /\ \A b \in history.uncounted : outcome[b] = "none" /\ stage[b] \in CheckedOut
    /\ leader.pc # "expired" => leader.expired = 0

Counting == {b \in Buyers : outcome[b] = "count"}

LedgerInv == TypeOK /\ StagesFollowCode /\ ClaimsConserved

\* No race has made the window too generous, and everybody is expected to show.
Exact == history.sale.phats = {100} /\ "generous" \notin history.races

\* Buyers who were let in and may still find their way to the handler.
MayBuy == {b \in Buyers : \/ stage[b] = "door"
                          \/ stage[b] \in {"granted", "notify", "told"} /\ b \in alive}

\* Buyers whose order is committed: the claim is still there, or it is gone and
\* the mirror does not know yet.
BoughtClaimed == {b \in unresolved : stage[b] = "sold"}
BoughtUncounted == {b \in Buyers : outcome[b] = "count" /\ stage[b] = "sold"}

\* What is left once everybody who may buy has bought.
Spare == sqlFree - Cardinality(MayBuy)

\* Every buyer let in has a claim, and a sale whose claim is still there will
\* resolve it.
Covered ==
    /\ MayBuy \subseteq unresolved
    /\ \A b \in BoughtClaimed : outcome[b] = "resolve"
    /\ \A b \in Buyers : stage[b] # "lost"

\* There is a unit for every buyer let in; the mirror is ahead of the database by
\* the orders not yet deducted at most; and what the leader has read so far leaves
\* no more than is spare.
Enough ==
    /\ Spare >= 0
    /\ mirror # Unread =>
           mirror <= sqlFree + Cardinality(BoughtClaimed) + Cardinality(BoughtUncounted)
    /\ leader.pc \in {"expired", "read"} =>
           /\ Cardinality(unresolved) <= leader.counted
           /\ mirror # Unread =>
                  mirror - leader.counted <= Spare + Cardinality(BoughtUncounted)
    /\ leader.pc = "publish" /\ leader.free # Unread => leader.free - leader.counted <= Spare
    /\ leader.pc = "admit" => leader.slots <= Spare

WindowInv == Exact => Covered /\ Enough

\* The sale was never empty, no unit came back, and the mirror was never too low.
InStock ==
    /\ ~history.emptied
    /\ \A b \in Buyers : stage[b] # "returned"
    /\ "low" \notin history.races

NoticeInv ==
    InStock =>
        /\ sqlFree > 0
        /\ mirror # Unread => mirror >= sqlFree
        /\ leader.pc = "publish" /\ leader.free # Unread => leader.free > 0
        /\ ~soldout
        /\ \A b \in Buyers : answered[b] # "sold_out"

-----------------------------------------------------------------------------
(* Type correctness *)

HistoryType == [emptied : BOOLEAN, sale : Sales, races : SUBSET Races,
                uncounted : SUBSET Buyers, missed : Nat, failed : Nat, wiped : BOOLEAN]
LeaderType == [pc : {"idle", "expired", "read", "publish", "admit"}, expired : Nat,
               counted : Nat, free : Nat \cup {Unread}, slots : Nat, window : Nat]
StatsType == [{"admitted", "confirmed", "sold_out", "expired"} -> Nat]

\* A window is a number of buyers.
LEMMA WindowType ==
  ASSUME NEW p \in 10..100, NEW f \in Nat
  PROVE  Window(f, p) \in Nat
  BY DEF Window

LEMMA InitTypeOK == Init => TypeOK
  <1> SUFFICES ASSUME Init PROVE TypeOK
    OBVIOUS
  <1>1. stats \in StatsType
    BY DEF Init, NoStats, StatsType
  <1>2. leader \in LeaderType
    BY DEF Init, Resting, LeaderType
  <1>3. sqlFree \in Nat /\ history \in HistoryType
    <2>1. PICK s \in Sales : /\ sqlFree = s.units
                             /\ history = [emptied |-> s.units = 0, sale |-> s, races |-> {},
                                           uncounted |-> {}, missed |-> 0, failed |-> 0,
                                           wiped |-> FALSE]
      BY DEF Init
    <2>2. s.units \in Nat
      BY ClaimWindowAssumption
    <2> QED
      BY <2>1, <2>2 DEF HistoryType
  <1> QED
    BY <1>1, <1>2, <1>3 DEF Init, TypeOK, StatsType, LeaderType, HistoryType

LEMMA NextTypeOK ==
  ASSUME TypeOK, [Next]_vars
  PROVE  TypeOK'
  <1> DEFINE Types ==
        /\ queue \subseteq Buyers
        /\ stage \in [Buyers -> {"new", "queued", "granted", "notify", "told", "door",
                                 "sold", "returned", "lost"}]
        /\ answered \in [Buyers -> {"waiting", "admitted", "sold_out", "gone"}]
        /\ alive \subseteq Buyers /\ due \subseteq Buyers /\ unresolved \subseteq Buyers
        /\ outcome \in [Buyers -> {"none", "resolve", "count", "zero"}]
        /\ sqlFree \in Nat
        /\ mirror \in Int \cup {Unread}
        /\ refresh \in [Replicas -> Nat \cup {Unread}]
        /\ soldout \in BOOLEAN
        /\ stats \in StatsType /\ leader \in LeaderType /\ history \in HistoryType
  <1>a. Types
    BY DEF TypeOK, StatsType, LeaderType, HistoryType
  <1>b. ASSUME Types' PROVE TypeOK'
    BY <1>b DEF TypeOK, StatsType, LeaderType, HistoryType
  <1>c. IsFiniteSet(unresolved) /\ IsFiniteSet(queue)
    BY <1>a, ClaimWindowAssumption, FS_Subset
  <1>e. "low" \in Races /\ "generous" \in Races
    BY DEF Races
  <1> USE DEF At, Tell, Report, claimVars, buyerVars, stockVars, leaderVars
  <1>1. ASSUME NEW b \in Buyers, Join(b) PROVE Types'
    BY <1>a, <1>1 DEF Join
  <1>2. ASSUME NEW b \in Buyers, PollGrant(b) PROVE Types'
    BY <1>a, <1>2 DEF PollGrant
  <1>3. ASSUME NEW b \in Buyers, Notify(b) PROVE Types'
    BY <1>a, <1>3 DEF Notify, Rescored
  <1>4. ASSUME NEW b \in Buyers, PollGone(b) PROVE Types'
    BY <1>a, <1>4 DEF PollGone
  <1>5. ASSUME NEW b \in Buyers, PollSoldOut(b) PROVE Types'
    BY <1>a, <1>5 DEF PollSoldOut
  <1>6. ASSUME NEW b \in Buyers, Lapse(b) PROVE Types'
    BY <1>a, <1>6 DEF Lapse
  <1>7. ASSUME NEW b \in Buyers, KeyExpires(b) PROVE Types'
    BY <1>a, <1>7 DEF KeyExpires
  <1>8. ASSUME NEW b \in Buyers, Show(b) PROVE Types'
    BY <1>a, <1>8 DEF Show
  <1>9. ASSUME NEW b \in Buyers, Confirm(b) PROVE Types'
    <2>1. history' \in HistoryType
      BY <1>a, <1>9, Zenon DEF Confirm, HistoryType
    <2> QED
      BY <1>a, <1>9, <2>1 DEF Confirm
  <1>10. ASSUME NEW b \in Buyers, SoldOut(b) PROVE Types'
    BY <1>a, <1>10 DEF SoldOut
  <1>11. ASSUME NEW b \in Buyers, Pending(b) PROVE Types'
    BY <1>a, <1>11 DEF Pending
  <1>12. ASSUME NEW b \in Buyers, Resolve(b) PROVE Types'
    <2>1. history' \in HistoryType
      BY <1>a, <1>e, <1>12 DEF Resolve, Raced, HistoryType
    <2> QED
      BY <1>a, <1>12, <2>1 DEF Resolve
  <1>13. ASSUME NEW b \in Buyers, Count(b) PROVE Types'
    <2>1. history' \in HistoryType
      BY <1>a, <1>e, <1>13 DEF Count, Raced, HistoryType
    <2>2. stats' \in StatsType
      BY <1>a, <1>13 DEF Count, StatsType
    <2>3. mirror' \in Int \cup {Unread}
      BY <1>a, <1>13 DEF Count, Taken
    <2>4. outcome' \in [Buyers -> {"none", "resolve", "count", "zero"}]
      BY <1>a, <1>13 DEF Count
    <2> QED
      BY <1>a, <1>13, <2>1, <2>2, <2>3, <2>4 DEF Count
  <1>14. ASSUME NEW b \in Buyers, SetZero(b) PROVE Types'
    <2>1. history' \in HistoryType
      BY <1>a, <1>e, <1>14 DEF SetZero, Raced, HistoryType
    <2> QED
      BY <1>a, <1>14, <2>1 DEF SetZero
  <1>15. ASSUME NEW b \in Buyers, ReportFails(b) PROVE Types'
    <2> DEFINE h == [history EXCEPT !.uncounted = IF outcome[b] = "count" THEN @ \cup {b} ELSE @]
    <2>1. h \in HistoryType
      BY <1>a DEF HistoryType
    <2>2. history' = Raced(h, "generous", stage[b] = "sold")
      BY <1>15 DEF ReportFails
    <2>3. history' \in HistoryType
      <3> HIDE DEF h
      <3> QED
        BY <1>e, <2>1, <2>2 DEF Raced, HistoryType
    <2> QED
      BY <1>a, <1>15, <2>3 DEF ReportFails
  <1>16. ASSUME NEW b \in Buyers, Decline(b) PROVE Types'
    BY <1>a, <1>16 DEF Decline
  <1>17. ASSUME NEW r \in Replicas, RefreshRead(r) PROVE Types'
    BY <1>a, <1>17 DEF RefreshRead
  <1>18. ASSUME NEW r \in Replicas, RefreshSet(r) PROVE Types'
    <2> DEFINE counted == Cardinality({b \in unresolved : stage[b] = "sold"})
               h == Raced(history, "generous", refresh[r] > sqlFree + counted)
    <2>1. h \in HistoryType
      BY <1>a, <1>e DEF Raced, HistoryType
    <2>2. history' = Raced(h, "low", refresh[r] < sqlFree)
      BY <1>18 DEF RefreshSet
    <2>3. history' \in HistoryType
      <3> HIDE DEF h
      <3> QED
        BY <1>e, <2>1, <2>2 DEF Raced, HistoryType
    <2> QED
      BY <1>a, <1>18, <2>3 DEF RefreshSet, Anchored
  <1>19. ASSUME TickCount PROVE Types'
    <2>1. Overdue \subseteq unresolved
      BY DEF Overdue
    <2>2. unresolved' \subseteq Buyers /\ Cardinality(Overdue) \in Nat /\ Cardinality(unresolved') \in Nat
      <3>1. unresolved' = unresolved \ Overdue
        BY <1>19 DEF TickCount
      <3> QED
        BY <1>a, <1>c, <2>1, <3>1, FS_Subset, FS_CardinalityType
    <2>3. history' \in HistoryType
      BY <1>a, <1>e, <1>19 DEF Raced, HistoryType, TickCount
    <2>4. leader' \in LeaderType
      BY <1>a, <1>19, <2>2 DEF TickCount, LeaderType
    <2> QED
      BY <1>a, <1>19, <2>2, <2>3, <2>4 DEF TickCount
  <1>20. ASSUME TickRead PROVE Types'
    <2>1. history' \in HistoryType
      BY <1>a, <1>e, <1>20 DEF Raced, HistoryType, TickRead
    <2> DEFINE f == IF mirror = Unread \/ mirror >= 0 THEN mirror ELSE 0
    <2>3. f \in Nat \cup {Unread}
      BY <1>a
    <2>4. leader' = [leader EXCEPT !.pc = "publish", !.free = f]
      BY <1>20 DEF TickRead
    <2>2. leader' \in LeaderType
      <3> HIDE DEF f
      <3> QED
        BY <1>a, <2>3, <2>4 DEF LeaderType
    <2> QED
      BY <1>a, <1>20, <2>1, <2>2 DEF TickRead
  <1>21. ASSUME TickPublish PROVE Types'
    <2>1. leader' \in LeaderType
      <3>1. PICK p \in history.sale.phats :
               LET w == IF leader.free = Unread THEN 0 ELSE Window(leader.free, p)
                   n == Budget(w, leader.counted)
               IN  leader' = IF n = 0 THEN Resting
                             ELSE [Resting EXCEPT !.pc = "admit", !.window = w, !.slots = n]
        BY <1>21 DEF TickPublish
      <3> DEFINE w == IF leader.free = Unread THEN 0 ELSE Window(leader.free, p)
                 n == Budget(w, leader.counted)
      <3>2. p \in 10..100 /\ leader.free \in Nat \cup {Unread} /\ leader.counted \in Nat
        BY <1>a, ClaimWindowAssumption DEF HistoryType, LeaderType
      <3>3. w \in Nat
        BY <3>2, WindowType
      <3>4. n \in Nat
        <4> HIDE DEF w
        <4> QED
          BY <3>2, <3>3 DEF Budget
      <3>5. leader' = IF n = 0 THEN Resting
                      ELSE [Resting EXCEPT !.pc = "admit", !.window = w, !.slots = n]
        BY <3>1
      <3> HIDE DEF w, n
      <3> QED
        BY <3>3, <3>4, <3>5 DEF Resting, LeaderType
    <2> QED
      BY <1>a, <1>21, <2>1 DEF TickPublish, IsSoldOut
  <1>22. ASSUME TickAdmit PROVE Types'
    <2>1. PICK batch \in SUBSET queue :
             /\ queue' = queue \ batch
             /\ alive' = alive \cup batch
             /\ unresolved' = unresolved \cup batch
             /\ stage' = [b \in Buyers |-> IF b \in batch THEN "granted" ELSE stage[b]]
             /\ stats' = [stats EXCEPT !.admitted = @ + Cardinality(batch)]
      BY <1>22 DEF TickAdmit
    <2>2. Cardinality(batch) \in Nat
      BY <1>c, FS_Subset, FS_CardinalityType
    <2>3. stats' \in StatsType
      BY <1>a, <2>1, <2>2 DEF StatsType
    <2>4. leader' \in LeaderType
      BY <1>22 DEF TickAdmit, Resting, LeaderType
    <2> QED
      BY <1>a, <1>22, <2>1, <2>3, <2>4 DEF TickAdmit
  <1>23. ASSUME Wipe PROVE Types'
    <2>1. history' \in HistoryType
      BY <1>a, <1>e, <1>23 DEF Wipe, HistoryType
    <2>2. stats' \in StatsType
      BY <1>23 DEF Wipe, NoStats, StatsType
    <2> QED
      BY <1>a, <1>23, <2>1, <2>2 DEF Wipe
  <1>25. ASSUME TickExpire PROVE Types'
    <2>1. leader.expired \in Nat
      BY <1>a DEF LeaderType
    <2>2. stats' \in StatsType
      BY <1>a, <1>25, <2>1 DEF TickExpire, StatsType
    <2>3. leader' \in LeaderType
      BY <1>a, <1>25 DEF TickExpire, LeaderType
    <2> QED
      BY <1>a, <1>25, <2>2, <2>3 DEF TickExpire
  <1>26. ASSUME TickFails PROVE Types'
    <2>1. leader' \in LeaderType
      BY <1>26 DEF TickFails, Resting, LeaderType
    <2>2. history' \in HistoryType
      <3>1. leader.expired \in Nat
        BY <1>a DEF LeaderType
      <3>2. history.missed + leader.expired \in Nat /\ history.failed + 1 \in Nat
        BY <1>a, <3>1 DEF HistoryType
      <3>3. history' = [history EXCEPT !.missed = history.missed + leader.expired,
                                       !.failed = history.failed + 1]
        BY <1>26 DEF TickFails
      <3> DEFINE m == history.missed + leader.expired
                 f == history.failed + 1
      <3>4. history' = [history EXCEPT !.missed = m, !.failed = f]
        BY <3>3
      <3> HIDE DEF m, f
      <3> QED
        BY <1>a, <3>2, <3>4 DEF HistoryType, m, f
    <2> QED
      BY <1>a, <1>26, <2>1, <2>2 DEF TickFails
  <1>24. ASSUME UNCHANGED vars PROVE Types'
    BY <1>a, <1>24 DEF vars
  <1> HIDE DEF Types
  <1>z. Types'
    BY <1>1, <1>2, <1>3, <1>4, <1>5, <1>6, <1>7, <1>8, <1>9, <1>10, <1>11,
       <1>12, <1>13, <1>14, <1>15, <1>16, <1>17, <1>18, <1>19, <1>20, <1>21,
       <1>22, <1>23, <1>24, <1>25, <1>26
       DEF Next, Poll, Handle, Outcome, Refresh, Tick
  <1> QED
    BY <1>b, <1>z DEF Types

-----------------------------------------------------------------------------
(* The claim ledger *)

LEMMA NextStagesFollowCode ==
  ASSUME TypeOK, StagesFollowCode, [Next]_vars
  PROVE  StagesFollowCode'
  <1> DEFINE Stages == StagesFollowCode
  <1>a. /\ queue \subseteq Buyers /\ unresolved \subseteq Buyers
        /\ stage \in [Buyers -> {"new", "queued", "granted", "notify", "told", "door",
                                 "sold", "returned", "lost"}]
        /\ outcome \in [Buyers -> {"none", "resolve", "count", "zero"}]
        /\ history \in HistoryType /\ history.uncounted \subseteq Buyers
        /\ leader \in LeaderType
    BY DEF TypeOK, HistoryType, LeaderType
  <1>b. StagesFollowCode
    OBVIOUS
  <1> USE DEF At, Tell, Report, claimVars, buyerVars, stockVars, leaderVars, StagesFollowCode,
          CheckedOut
  <1>1. ASSUME NEW b \in Buyers, Join(b) PROVE Stages'
    BY <1>a, <1>b, <1>1 DEF Join
  <1>2. ASSUME NEW b \in Buyers, PollGrant(b) PROVE Stages'
    BY <1>a, <1>b, <1>2 DEF PollGrant
  <1>3. ASSUME NEW b \in Buyers, Notify(b) PROVE Stages'
    BY <1>a, <1>b, <1>3 DEF Notify, Rescored
  <1>4. ASSUME NEW b \in Buyers, PollGone(b) PROVE Stages'
    BY <1>a, <1>b, <1>4 DEF PollGone
  <1>5. ASSUME NEW b \in Buyers, PollSoldOut(b) PROVE Stages'
    BY <1>a, <1>b, <1>5 DEF PollSoldOut
  <1>6. ASSUME NEW b \in Buyers, Lapse(b) PROVE Stages'
    BY <1>a, <1>b, <1>6 DEF Lapse
  <1>7. ASSUME NEW b \in Buyers, KeyExpires(b) PROVE Stages'
    BY <1>a, <1>b, <1>7 DEF KeyExpires
  <1>8. ASSUME NEW b \in Buyers, Show(b) PROVE Stages'
    BY <1>a, <1>b, <1>8 DEF Show
  <1>9. ASSUME NEW b \in Buyers, Confirm(b) PROVE Stages'
    <2>1. history'.uncounted = history.uncounted
      BY <1>a, <1>9 DEF Confirm, Raced, HistoryType
    <2> QED
      BY <1>a, <1>b, <1>9, <2>1 DEF Confirm
  <1>10. ASSUME NEW b \in Buyers, SoldOut(b) PROVE Stages'
    BY <1>a, <1>b, <1>10 DEF SoldOut
  <1>11. ASSUME NEW b \in Buyers, Pending(b) PROVE Stages'
    BY <1>a, <1>b, <1>11 DEF Pending
  <1>12. ASSUME NEW b \in Buyers, Resolve(b) PROVE Stages'
    <2>1. history'.uncounted = history.uncounted
      BY <1>a, <1>12 DEF Resolve, Raced, HistoryType
    <2> QED
      BY <1>a, <1>b, <1>12, <2>1 DEF Resolve
  <1>13. ASSUME NEW b \in Buyers, Count(b) PROVE Stages'
    <2>1. history'.uncounted = history.uncounted
      BY <1>a, <1>13 DEF Count, Raced, HistoryType
    <2> QED
      BY <1>a, <1>b, <1>13, <2>1 DEF Count
  <1>14. ASSUME NEW b \in Buyers, SetZero(b) PROVE Stages'
    <2>1. history'.uncounted = history.uncounted
      BY <1>a, <1>14 DEF SetZero, Raced, HistoryType
    <2> QED
      BY <1>a, <1>b, <1>14, <2>1 DEF SetZero
  <1>15. ASSUME NEW b \in Buyers, ReportFails(b) PROVE Stages'
    <2>1. history'.uncounted = IF outcome[b] = "count" THEN history.uncounted \cup {b} ELSE history.uncounted
      BY <1>a, <1>15 DEF ReportFails, Raced, HistoryType
    <2> QED
      BY <1>a, <1>b, <1>15, <2>1 DEF ReportFails
  <1>16. ASSUME NEW b \in Buyers, Decline(b) PROVE Stages'
    BY <1>a, <1>b, <1>16 DEF Decline
  <1>17. ASSUME NEW r \in Replicas, RefreshRead(r) PROVE Stages'
    BY <1>a, <1>b, <1>17 DEF RefreshRead
  <1>18. ASSUME NEW r \in Replicas, RefreshSet(r) PROVE Stages'
    <2>1. history'.uncounted = history.uncounted
      BY <1>a, <1>18 DEF RefreshSet, Raced, HistoryType
    <2> QED
      BY <1>a, <1>b, <1>18, <2>1 DEF RefreshSet
  <1>19. ASSUME TickCount PROVE Stages'
    <2>1. history'.uncounted = history.uncounted
      BY <1>a, <1>19 DEF TickCount, Raced, HistoryType
    <2>2. leader'.pc # "expired" => leader'.expired = 0
      BY <1>a, <1>19, FS_EmptySet DEF TickCount, LeaderType
    <2> QED
      BY <1>a, <1>b, <1>19, <2>1, <2>2 DEF TickCount
  <1>20. ASSUME TickRead PROVE Stages'
    <2>1. history'.uncounted = history.uncounted
      BY <1>a, <1>20 DEF TickRead, Raced, HistoryType
    <2>2. leader'.expired = 0
      BY <1>a, <1>b, <1>20 DEF TickRead, LeaderType
    <2> QED
      BY <1>a, <1>b, <1>20, <2>1, <2>2 DEF TickRead
  <1>21. ASSUME TickPublish PROVE Stages'
    <2>1. leader'.expired = 0
      BY <1>21 DEF TickPublish, Resting
    <2> QED
      BY <1>a, <1>b, <1>21, <2>1 DEF TickPublish
  <1>22. ASSUME TickAdmit PROVE Stages'
    <2>1. leader'.expired = 0
      BY <1>22 DEF TickAdmit, Resting
    <2> QED
      BY <1>a, <1>b, <1>22, <2>1 DEF TickAdmit
  <1>23. ASSUME Wipe PROVE Stages'
    <2>1. history'.uncounted = history.uncounted
      BY <1>a, <1>23 DEF Wipe, Raced, HistoryType
    <2> QED
      BY <1>a, <1>b, <1>23, <2>1 DEF Wipe
  <1>25. ASSUME TickExpire PROVE Stages'
    <2>1. leader'.expired = 0
      BY <1>a, <1>25 DEF TickExpire, LeaderType
    <2> QED
      BY <1>a, <1>b, <1>25, <2>1 DEF TickExpire
  <1>26. ASSUME TickFails PROVE Stages'
    <2>1. history'.uncounted = history.uncounted /\ leader'.expired = 0
      BY <1>a, <1>26 DEF TickFails, Resting, HistoryType
    <2> QED
      BY <1>a, <1>b, <1>26, <2>1 DEF TickFails
  <1>24. ASSUME UNCHANGED vars PROVE Stages'
    BY <1>a, <1>b, <1>24 DEF vars
  <1> HIDE DEF Stages
  <1>z. Stages'
    BY <1>1, <1>2, <1>3, <1>4, <1>5, <1>6, <1>7, <1>8, <1>9, <1>10, <1>11,
       <1>12, <1>13, <1>14, <1>15, <1>16, <1>17, <1>18, <1>19, <1>20, <1>21,
       <1>22, <1>23, <1>24, <1>25, <1>26
       DEF Next, Poll, Handle, Outcome, Refresh, Tick
  <1> QED
    BY <1>z DEF Stages

LEMMA ClaimsFinite ==
  ASSUME TypeOK
  PROVE  /\ IsFiniteSet(unresolved) /\ Cardinality(unresolved) \in Nat
         /\ IsFiniteSet(history.uncounted) /\ Cardinality(history.uncounted) \in Nat
         /\ IsFiniteSet(Counting) /\ Cardinality(Counting) \in Nat
         /\ IsFiniteSet(queue)
  <1>1. /\ unresolved \subseteq Buyers /\ history.uncounted \subseteq Buyers /\ queue \subseteq Buyers
        /\ Counting \subseteq Buyers
    BY DEF TypeOK, Counting
  <1> QED
    BY <1>1, ClaimWindowAssumption, FS_Subset, FS_CardinalityType

\* The sum of two disjoint sets of claims.
LEMMA DisjointUnion ==
  ASSUME NEW S, NEW T, IsFiniteSet(S), IsFiniteSet(T), \A x \in S : x \notin T
  PROVE  /\ IsFiniteSet(S \cup T)
         /\ Cardinality(S \cup T) = Cardinality(S) + Cardinality(T)
  <1>1. S \cap T = {} /\ Cardinality(S \cap T) = 0
    BY FS_EmptySet
  <1>2. /\ IsFiniteSet(S \cup T)
        /\ Cardinality(S \cup T) = Cardinality(S) + Cardinality(T) - Cardinality(S \cap T)
    BY FS_Union
  <1> QED
    BY <1>1, <1>2, FS_CardinalityType

LEMMA NextClaimsConserved ==
  ASSUME LedgerInv, [Next]_vars
  PROVE  ClaimsConserved'
  <1> DEFINE Balance == stats.admitted = stats.confirmed + stats.sold_out + stats.expired
                                + Cardinality(unresolved) + Cardinality(history.uncounted)
                                + Cardinality(Counting) + leader.expired + history.missed
             Goal == history.wiped \/ Balance
  <1>a. /\ queue \subseteq Buyers /\ unresolved \subseteq Buyers
        /\ outcome \in [Buyers -> {"none", "resolve", "count", "zero"}]
        /\ history \in HistoryType /\ history.uncounted \subseteq Buyers
        /\ stats \in StatsType /\ leader \in LeaderType
    BY DEF LedgerInv, TypeOK, HistoryType, StatsType, LeaderType
  <1>b. /\ stats.admitted \in Nat /\ stats.confirmed \in Nat /\ stats.sold_out \in Nat
        /\ stats.expired \in Nat /\ leader.expired \in Nat /\ history.missed \in Nat
        /\ history.failed \in Nat
    BY <1>a DEF StatsType, LeaderType, HistoryType
  <1>c. Goal /\ StagesFollowCode
    BY DEF LedgerInv, ClaimsConserved, Counting
  <1>d. /\ IsFiniteSet(unresolved) /\ Cardinality(unresolved) \in Nat
        /\ IsFiniteSet(history.uncounted) /\ Cardinality(history.uncounted) \in Nat
        /\ IsFiniteSet(Counting) /\ Cardinality(Counting) \in Nat
        /\ IsFiniteSet(queue)
    BY ClaimsFinite DEF LedgerInv
  <1>e. ASSUME Goal' PROVE ClaimsConserved'
    BY <1>e DEF ClaimsConserved, Counting
  <1>f. ASSUME stats' = stats, unresolved' = unresolved, history'.uncounted = history.uncounted,
               Counting' = Counting, history'.wiped = history.wiped,
               history'.missed = history.missed, leader'.expired = leader.expired
        PROVE  Goal'
    BY <1>c, <1>f
  <1> HIDE DEF Goal
  <1> USE DEF At, Tell, Report, claimVars, buyerVars, stockVars, leaderVars
  <1>1. ASSUME NEW b \in Buyers, Join(b) PROVE Goal'
    <2>1. Counting' = Counting
      BY <1>a, <1>1 DEF Join, Counting
    <2> QED
      BY <1>f, <1>1, <2>1 DEF Join
  <1>2. ASSUME NEW b \in Buyers, PollGrant(b) PROVE Goal'
    <2>1. Counting' = Counting
      BY <1>a, <1>2 DEF PollGrant, Counting
    <2> QED
      BY <1>f, <1>2, <2>1 DEF PollGrant
  <1>3. ASSUME NEW b \in Buyers, Notify(b) PROVE Goal'
    <2>1. Counting' = Counting
      BY <1>a, <1>3 DEF Notify, Counting
    <2> QED
      BY <1>f, <1>3, <2>1 DEF Notify, Rescored
  <1>4. ASSUME NEW b \in Buyers, PollGone(b) PROVE Goal'
    <2>1. Counting' = Counting
      BY <1>a, <1>4 DEF PollGone, Counting
    <2> QED
      BY <1>f, <1>4, <2>1 DEF PollGone
  <1>5. ASSUME NEW b \in Buyers, PollSoldOut(b) PROVE Goal'
    <2>1. Counting' = Counting
      BY <1>a, <1>5 DEF PollSoldOut, Counting
    <2> QED
      BY <1>f, <1>5, <2>1 DEF PollSoldOut
  <1>6. ASSUME NEW b \in Buyers, Lapse(b) PROVE Goal'
    <2>1. Counting' = Counting
      BY <1>a, <1>6 DEF Lapse, Counting
    <2> QED
      BY <1>f, <1>6, <2>1 DEF Lapse
  <1>7. ASSUME NEW b \in Buyers, KeyExpires(b) PROVE Goal'
    <2>1. Counting' = Counting
      BY <1>a, <1>7 DEF KeyExpires, Counting
    <2> QED
      BY <1>f, <1>7, <2>1 DEF KeyExpires
  <1>8. ASSUME NEW b \in Buyers, Show(b) PROVE Goal'
    <2>1. Counting' = Counting
      BY <1>a, <1>8 DEF Show, Counting
    <2> QED
      BY <1>f, <1>8, <2>1 DEF Show
  <1>9. ASSUME NEW b \in Buyers, Confirm(b) PROVE Goal'
    <2>1. Counting' = Counting
      <3>1. stage[b] = "door" /\ outcome[b] = "none" /\ outcome' = [outcome EXCEPT ![b] = "resolve"]
        BY <1>a, <1>c, <1>9 DEF Confirm, StagesFollowCode, CheckedOut
      <3> QED
        BY <1>a, <3>1 DEF Counting
    <2>2. /\ history'.uncounted = history.uncounted /\ history'.missed = history.missed
          /\ history'.wiped = history.wiped
      BY <1>a, <1>9 DEF Confirm, HistoryType
    <2> QED
      BY <1>f, <1>9, <2>1, <2>2 DEF Confirm
  <1>10. ASSUME NEW b \in Buyers, SoldOut(b) PROVE Goal'
    <2>1. Counting' = Counting
      <3>1. stage[b] = "door" /\ outcome[b] = "none" /\ outcome' = [outcome EXCEPT ![b] = "resolve"]
        BY <1>a, <1>c, <1>10 DEF SoldOut, StagesFollowCode, CheckedOut
      <3> QED
        BY <1>a, <3>1 DEF Counting
    <2>2. /\ history'.uncounted = history.uncounted /\ history'.missed = history.missed
          /\ history'.wiped = history.wiped
      BY <1>a, <1>10 DEF SoldOut, HistoryType
    <2> QED
      BY <1>f, <1>10, <2>1, <2>2 DEF SoldOut
  <1>11. ASSUME NEW b \in Buyers, Pending(b) PROVE Goal'
    <2>1. Counting' = Counting
      BY <1>a, <1>11 DEF Pending, Counting
    <2> QED
      BY <1>f, <1>11, <2>1 DEF Pending
  <1>12. ASSUME NEW b \in Buyers, Resolve(b) PROVE Goal'
    <2>1. /\ history'.uncounted = history.uncounted /\ history'.missed = history.missed
          /\ history'.wiped = history.wiped
          /\ stats' = stats /\ unresolved' = unresolved \ {b} /\ leader' = leader
      BY <1>a, <1>12 DEF Resolve, Raced, HistoryType
    <2>2. CASE b \in unresolved
      <3>1. Counting' = Counting \cup {b} /\ b \notin Counting
        BY <1>a, <1>12, <2>2 DEF Resolve, Counting
      <3>2. /\ Cardinality(Counting') = Cardinality(Counting) + 1
            /\ Cardinality(unresolved') = Cardinality(unresolved) - 1
        BY <1>d, <2>1, <2>2, <3>1, FS_AddElement, FS_RemoveElement
      <3> QED
        BY <1>b, <1>c, <1>d, <2>1, <3>2 DEF Goal
    <2>3. CASE b \notin unresolved
      <3>1. Counting' = Counting /\ unresolved' = unresolved
        BY <1>a, <1>12, <2>1, <2>3 DEF Resolve, Counting
      <3> QED
        BY <1>f, <2>1, <3>1
    <2> QED
      BY <2>2, <2>3
  <1>13. ASSUME NEW b \in Buyers, Count(b) PROVE Goal'
    <2>1. /\ history'.uncounted = history.uncounted /\ history'.missed = history.missed
          /\ history'.wiped = history.wiped /\ unresolved' = unresolved /\ leader' = leader
      BY <1>a, <1>13 DEF Count, Raced, HistoryType
    <2>2. Counting' = Counting \ {b} /\ b \in Counting
      BY <1>a, <1>13 DEF Count, Counting
    <2>3. Cardinality(Counting') = Cardinality(Counting) - 1
      BY <1>d, <2>2, FS_RemoveElement
    <2>4. stats' = [stats EXCEPT !.sold_out = @ + 1] \/ stats' = [stats EXCEPT !.confirmed = @ + 1]
      BY <1>13 DEF Count
    <2>5. /\ stats'.admitted = stats.admitted /\ stats'.expired = stats.expired
          /\ stats'.confirmed + stats'.sold_out = stats.confirmed + stats.sold_out + 1
          /\ stats'.confirmed \in Nat /\ stats'.sold_out \in Nat
      BY <1>a, <1>b, <2>4 DEF StatsType
    <2> QED
      BY <1>b, <1>c, <1>d, <2>1, <2>3, <2>5 DEF Goal
  <1>14. ASSUME NEW b \in Buyers, SetZero(b) PROVE Goal'
    <2>1. Counting' = Counting
      BY <1>a, <1>14 DEF SetZero, Counting
    <2>2. /\ history'.uncounted = history.uncounted /\ history'.missed = history.missed
          /\ history'.wiped = history.wiped
      BY <1>a, <1>14 DEF SetZero, Raced, HistoryType
    <2> QED
      BY <1>f, <1>14, <2>1, <2>2 DEF SetZero
  <1>15. ASSUME NEW b \in Buyers, ReportFails(b) PROVE Goal'
    <2>1. /\ history'.uncounted = IF outcome[b] = "count" THEN history.uncounted \cup {b} ELSE history.uncounted
          /\ history'.wiped = history.wiped /\ history'.missed = history.missed /\ stats' = stats /\ unresolved' = unresolved /\ leader' = leader
      BY <1>a, <1>15 DEF ReportFails, Raced, HistoryType
    <2>2. CASE outcome[b] = "count"
      <3>1. /\ Counting' = Counting \ {b} /\ b \in Counting
            /\ history'.uncounted = history.uncounted \cup {b} /\ b \notin history.uncounted
        BY <1>a, <1>c, <1>15, <2>1, <2>2 DEF ReportFails, Counting, StagesFollowCode
      <3>2. /\ Cardinality(Counting') = Cardinality(Counting) - 1
            /\ Cardinality(history'.uncounted) = Cardinality(history.uncounted) + 1
        <4>1. Cardinality(Counting') = Cardinality(Counting) - 1
          BY <1>d, <3>1, FS_RemoveElement
        <4>2. Cardinality(history'.uncounted) = Cardinality(history.uncounted) + 1
          BY <1>d, <3>1, FS_AddElement
        <4> QED
          BY <4>1, <4>2
      <3>3. /\ stats' = stats /\ Cardinality(unresolved') = Cardinality(unresolved)
            /\ history'.wiped = history.wiped /\ history'.missed = history.missed /\ leader' = leader
        BY <2>1
      <3> QED
        BY <1>b, <1>c, <1>d, <3>2, <3>3 DEF Goal
    <2>3. CASE outcome[b] # "count"
      <3>1. Counting' = Counting
        BY <1>a, <1>15, <2>3 DEF ReportFails, Counting
      <3> QED
        BY <1>f, <2>1, <2>3, <3>1
    <2> QED
      BY <2>2, <2>3
  <1>16. ASSUME NEW b \in Buyers, Decline(b) PROVE Goal'
    <2>1. Counting' = Counting
      BY <1>a, <1>16 DEF Decline, Counting
    <2> QED
      BY <1>f, <1>16, <2>1 DEF Decline
  <1>17. ASSUME NEW r \in Replicas, RefreshRead(r) PROVE Goal'
    <2>1. Counting' = Counting
      BY <1>a, <1>17 DEF RefreshRead, Counting
    <2> QED
      BY <1>f, <1>17, <2>1 DEF RefreshRead
  <1>18. ASSUME NEW r \in Replicas, RefreshSet(r) PROVE Goal'
    <2>1. Counting' = Counting
      BY <1>a, <1>18 DEF RefreshSet, Counting
    <2>2. /\ history'.uncounted = history.uncounted /\ history'.missed = history.missed
          /\ history'.wiped = history.wiped
      BY <1>a, <1>18 DEF RefreshSet, Raced, HistoryType
    <2> QED
      BY <1>f, <1>18, <2>1, <2>2 DEF RefreshSet
  <1>19. ASSUME TickCount PROVE Goal'
    <2>1. /\ history'.uncounted = history.uncounted /\ history'.missed = history.missed
          /\ history'.wiped = history.wiped
          /\ unresolved' = unresolved \ Overdue /\ Counting' = Counting
      BY <1>a, <1>19 DEF TickCount, Raced, HistoryType, Counting
    <2>2. unresolved \cap Overdue = Overdue /\ Overdue \subseteq unresolved
      BY DEF Overdue
    <2>3. Cardinality(unresolved') = Cardinality(unresolved) - Cardinality(Overdue)
      <3>1. Cardinality(unresolved \ Overdue) = Cardinality(unresolved) - Cardinality(unresolved \cap Overdue)
        BY <1>d, FS_Difference
      <3> QED
        BY <2>1, <2>2, <3>1
    <2>4. Cardinality(Overdue) \in Nat
      BY <1>d, <2>2, FS_Subset, FS_CardinalityType
    <2>5. leader.expired = 0 /\ leader'.expired = Cardinality(Overdue) /\ stats' = stats
      BY <1>a, <1>c, <1>19 DEF TickCount, StagesFollowCode, LeaderType
    <2> QED
      BY <1>b, <1>c, <1>d, <2>1, <2>3, <2>4, <2>5 DEF Goal
  <1>20. ASSUME TickRead PROVE Goal'
    <2>1. Counting' = Counting
      BY <1>a, <1>20 DEF TickRead, Counting
    <2>2. /\ history'.uncounted = history.uncounted /\ history'.missed = history.missed
          /\ history'.wiped = history.wiped
      BY <1>a, <1>20 DEF TickRead, Raced, HistoryType
    <2>3. leader'.expired = leader.expired
      BY <1>a, <1>20 DEF TickRead, LeaderType
    <2> QED
      BY <1>f, <1>20, <2>1, <2>2, <2>3 DEF TickRead
  <1>21. ASSUME TickPublish PROVE Goal'
    <2>1. Counting' = Counting
      BY <1>a, <1>21 DEF TickPublish, Counting
    <2>2. leader'.expired = leader.expired
      BY <1>c, <1>21 DEF TickPublish, Resting, StagesFollowCode
    <2> QED
      BY <1>f, <1>21, <2>1, <2>2 DEF TickPublish
  <1>22. ASSUME TickAdmit PROVE Goal'
    <2>1. PICK batch \in SUBSET queue :
             /\ unresolved' = unresolved \cup batch
             /\ stats' = [stats EXCEPT !.admitted = @ + Cardinality(batch)]
      BY <1>22 DEF TickAdmit
    <2>2. \A b \in unresolved : b \notin batch
      BY <1>c DEF StagesFollowCode
    <2>3. Cardinality(unresolved') = Cardinality(unresolved) + Cardinality(batch)
      BY <1>d, <2>1, <2>2, FS_Subset, DisjointUnion
    <2>4. Cardinality(batch) \in Nat
      BY <1>d, FS_Subset, FS_CardinalityType
    <2>5. /\ stats'.admitted = stats.admitted + Cardinality(batch) /\ stats'.confirmed = stats.confirmed
          /\ stats'.sold_out = stats.sold_out /\ stats'.expired = stats.expired
      BY <1>a, <1>b, <2>1 DEF StatsType
    <2>6. history' = history /\ Counting' = Counting
      BY <1>22 DEF TickAdmit, Counting
    <2>7. leader'.expired = leader.expired
      BY <1>c, <1>22 DEF TickAdmit, Resting, StagesFollowCode
    <2> QED
      BY <1>b, <1>c, <1>d, <2>3, <2>4, <2>5, <2>6, <2>7 DEF Goal
  <1>23. ASSUME Wipe PROVE Goal'
    <2>1. history'.wiped
      BY <1>a, <1>23 DEF Wipe, HistoryType
    <2> QED
      BY <2>1 DEF Goal
  <1>25. ASSUME TickExpire PROVE Goal'
    <2>1. history' = history /\ unresolved' = unresolved /\ Counting' = Counting
      BY <1>25 DEF TickExpire, Counting
    <2>2. /\ stats'.admitted = stats.admitted /\ stats'.confirmed = stats.confirmed
          /\ stats'.sold_out = stats.sold_out /\ stats'.expired = stats.expired + leader.expired
          /\ leader'.expired = 0
      BY <1>a, <1>25 DEF TickExpire, StatsType, LeaderType
    <2> QED
      BY <1>b, <1>c, <1>d, <2>1, <2>2 DEF Goal
  <1>26. ASSUME TickFails PROVE Goal'
    <2>1. stats' = stats /\ unresolved' = unresolved /\ Counting' = Counting
      BY <1>26 DEF TickFails, Counting
    <2>2. /\ history'.uncounted = history.uncounted /\ history'.wiped = history.wiped
          /\ history'.missed = history.missed + leader.expired /\ leader'.expired = 0
      BY <1>a, <1>26 DEF TickFails, Resting, HistoryType
    <2> QED
      BY <1>b, <1>c, <1>d, <2>1, <2>2 DEF Goal
  <1>24. ASSUME UNCHANGED vars PROVE Goal'
    BY <1>f, <1>24 DEF vars, Counting
  <1>z. Goal'
    BY <1>1, <1>2, <1>3, <1>4, <1>5, <1>6, <1>7, <1>8, <1>9, <1>10, <1>11,
       <1>12, <1>13, <1>14, <1>15, <1>16, <1>17, <1>18, <1>19, <1>20, <1>21,
       <1>22, <1>23, <1>24, <1>25, <1>26
       DEF Next, Poll, Handle, Outcome, Refresh, Tick
  <1> QED
    BY <1>e, <1>z

LEMMA InitLedgerInv == Init => LedgerInv
  <1> SUFFICES ASSUME Init PROVE LedgerInv
    OBVIOUS
  <1>0. history.uncounted = {} /\ Counting = {} /\ unresolved = {} /\ queue = {}
    BY DEF Init, Counting
  <1>1. StagesFollowCode
    BY <1>0 DEF Init, StagesFollowCode, Resting
  <1>2. ClaimsConserved
    <2>1. history.missed = 0 /\ leader.expired = 0
      BY DEF Init, Resting
    <2>2. /\ stats.admitted = 0 /\ stats.confirmed = 0
          /\ stats.sold_out = 0 /\ stats.expired = 0
      BY DEF Init, NoStats
    <2>3. /\ Cardinality(unresolved) = 0 /\ Cardinality(history.uncounted) = 0
          /\ Cardinality({b \in Buyers : outcome[b] = "count"}) = 0
      BY <1>0, FS_EmptySet DEF Counting
    <2> QED
      BY <2>1, <2>2, <2>3 DEF ClaimsConserved
  <1> QED
    BY <1>1, <1>2, InitTypeOK DEF LedgerInv

LEMMA NextLedgerInv == LedgerInv /\ [Next]_vars => LedgerInv'
  BY NextTypeOK, NextStagesFollowCode, NextClaimsConserved DEF LedgerInv

\* The variables of the claim window keep their types.
THEOREM ClaimTypeCorrect == Spec => []TypeOK
  BY InitTypeOK, NextTypeOK, PTL DEF Spec

\* Every admission is unresolved, or counted once as sold, sold out or expired, or
\* its count is on the way, with a checkout's task or with the leader, or was
\* lost with a Redis that did not answer or a leader that died.
THEOREM LedgerBalances == Spec => []ClaimsConserved
  <1>1. LedgerInv => ClaimsConserved
    BY DEF LedgerInv
  <1> QED
    BY <1>1, InitLedgerInv, NextLedgerInv, PTL DEF Spec

-----------------------------------------------------------------------------
(* The sold-out notice *)

\* What has happened stays in the history, and a returned unit's buyer is done.
LEMMA Lasting ==
  ASSUME LedgerInv, [Next]_vars
  PROVE  /\ history'.sale = history.sale
         /\ history.emptied => history'.emptied
         /\ history.races \subseteq history'.races
         /\ \A q \in Buyers : stage[q] = "returned" => stage'[q] = "returned"
  <1> DEFINE Last == /\ history'.sale = history.sale
                     /\ history.emptied => history'.emptied
                     /\ history.races \subseteq history'.races
                     /\ \A q \in Buyers : stage[q] = "returned" => stage'[q] = "returned"
  <1>a. /\ stage \in [Buyers -> {"new", "queued", "granted", "notify", "told", "door",
                                 "sold", "returned", "lost"}]
        /\ history \in HistoryType /\ \A q \in queue : stage[q] = "queued"
    BY DEF LedgerInv, StagesFollowCode, TypeOK, HistoryType
  <1> USE DEF At, Tell, Report, claimVars, buyerVars, stockVars, leaderVars
  <1>1. ASSUME NEW b \in Buyers, Join(b) PROVE Last
    BY <1>a, <1>1 DEF Join
  <1>2. ASSUME NEW b \in Buyers, PollGrant(b) PROVE Last
    BY <1>a, <1>2 DEF PollGrant
  <1>3. ASSUME NEW b \in Buyers, Notify(b) PROVE Last
    BY <1>a, <1>3 DEF Notify
  <1>4. ASSUME NEW b \in Buyers, PollGone(b) PROVE Last
    BY <1>a, <1>4 DEF PollGone
  <1>5. ASSUME NEW b \in Buyers, PollSoldOut(b) PROVE Last
    BY <1>a, <1>5 DEF PollSoldOut
  <1>6. ASSUME NEW b \in Buyers, Lapse(b) PROVE Last
    BY <1>a, <1>6 DEF Lapse
  <1>7. ASSUME NEW b \in Buyers, KeyExpires(b) PROVE Last
    BY <1>a, <1>7 DEF KeyExpires
  <1>8. ASSUME NEW b \in Buyers, Show(b) PROVE Last
    BY <1>a, <1>8 DEF Show
  <1>9. ASSUME NEW b \in Buyers, Confirm(b) PROVE Last
    <2>1. /\ history'.sale = history.sale /\ history'.races = history.races
          /\ history.emptied => history'.emptied
      BY <1>a, <1>9, Zenon DEF Confirm, HistoryType
    <2> QED
      BY <1>a, <1>9, <2>1 DEF Confirm
  <1>10. ASSUME NEW b \in Buyers, SoldOut(b) PROVE Last
    BY <1>a, <1>10 DEF SoldOut
  <1>11. ASSUME NEW b \in Buyers, Pending(b) PROVE Last
    BY <1>a, <1>11 DEF Pending
  <1>12. ASSUME NEW b \in Buyers, Resolve(b) PROVE Last
    <2>1. /\ history'.sale = history.sale /\ history'.emptied = history.emptied
          /\ history.races \subseteq history'.races
      BY <1>a, <1>12 DEF Resolve, Raced, HistoryType
    <2> QED
      BY <1>a, <1>12, <2>1 DEF Resolve
  <1>13. ASSUME NEW b \in Buyers, Count(b) PROVE Last
    <2>1. /\ history'.sale = history.sale /\ history'.emptied = history.emptied
          /\ history.races \subseteq history'.races
      BY <1>a, <1>13 DEF Count, Raced, HistoryType
    <2> QED
      BY <1>a, <1>13, <2>1 DEF Count
  <1>14. ASSUME NEW b \in Buyers, SetZero(b) PROVE Last
    <2>1. /\ history'.sale = history.sale /\ history'.emptied = history.emptied
          /\ history.races \subseteq history'.races
      BY <1>a, <1>14 DEF SetZero, Raced, HistoryType
    <2> QED
      BY <1>a, <1>14, <2>1 DEF SetZero
  <1>15. ASSUME NEW b \in Buyers, ReportFails(b) PROVE Last
    <2>1. /\ history'.sale = history.sale /\ history'.emptied = history.emptied
          /\ history.races \subseteq history'.races
      BY <1>a, <1>15 DEF ReportFails, Raced, HistoryType
    <2> QED
      BY <1>a, <1>15, <2>1 DEF ReportFails
  <1>16. ASSUME NEW b \in Buyers, Decline(b) PROVE Last
    BY <1>a, <1>16 DEF Decline
  <1>17. ASSUME NEW r \in Replicas, RefreshRead(r) PROVE Last
    BY <1>a, <1>17 DEF RefreshRead
  <1>18. ASSUME NEW r \in Replicas, RefreshSet(r) PROVE Last
    <2>1. /\ history'.sale = history.sale /\ history'.emptied = history.emptied
          /\ history.races \subseteq history'.races
      BY <1>a, <1>18 DEF RefreshSet, Raced, HistoryType
    <2> QED
      BY <1>a, <1>18, <2>1 DEF RefreshSet
  <1>19. ASSUME TickCount PROVE Last
    <2>1. /\ history'.sale = history.sale /\ history'.emptied = history.emptied
          /\ history.races \subseteq history'.races
      BY <1>a, <1>19 DEF TickCount, Raced, HistoryType
    <2> QED
      BY <1>a, <1>19, <2>1 DEF TickCount
  <1>20. ASSUME TickRead PROVE Last
    <2>1. /\ history'.sale = history.sale /\ history'.emptied = history.emptied
          /\ history.races \subseteq history'.races
      BY <1>a, <1>20 DEF TickRead, Raced, HistoryType
    <2> QED
      BY <1>a, <1>20, <2>1 DEF TickRead
  <1>21. ASSUME TickPublish PROVE Last
    BY <1>a, <1>21 DEF TickPublish
  <1>22. ASSUME TickAdmit PROVE Last
    BY <1>a, <1>22 DEF TickAdmit
  <1>23. ASSUME Wipe PROVE Last
    <2>1. /\ history'.sale = history.sale /\ history'.emptied = history.emptied
          /\ history.races \subseteq history'.races
      BY <1>a, <1>23 DEF Wipe, Raced, HistoryType
    <2> QED
      BY <1>a, <1>23, <2>1 DEF Wipe
  <1>25. ASSUME TickExpire PROVE Last
    BY <1>a, <1>25 DEF TickExpire
  <1>26. ASSUME TickFails PROVE Last
    <2>1. /\ history'.sale = history.sale /\ history'.emptied = history.emptied
          /\ history'.races = history.races
      BY <1>a, <1>26 DEF TickFails, HistoryType
    <2> QED
      BY <1>a, <1>26, <2>1 DEF TickFails
  <1>24. ASSUME UNCHANGED vars PROVE Last
    BY <1>a, <1>24 DEF vars
  <1> HIDE DEF Last
  <1>z. Last
    BY <1>1, <1>2, <1>3, <1>4, <1>5, <1>6, <1>7, <1>8, <1>9, <1>10, <1>11,
       <1>12, <1>13, <1>14, <1>15, <1>16, <1>17, <1>18, <1>19, <1>20, <1>21,
       <1>22, <1>23, <1>24, <1>25, <1>26
       DEF Next, Poll, Handle, Outcome, Refresh, Tick
  <1> QED
    BY <1>z DEF Last

LEMMA NextNoticeInv ==
  ASSUME LedgerInv, NoticeInv, [Next]_vars
  PROVE  NoticeInv'
  <1> DEFINE Notice == /\ sqlFree > 0
                       /\ mirror # Unread => mirror >= sqlFree
                       /\ leader.pc = "publish" /\ leader.free # Unread => leader.free > 0
                       /\ ~soldout
                       /\ \A b \in Buyers : answered[b] # "sold_out"
  <1> SUFFICES ASSUME InStock' PROVE Notice'
    BY DEF NoticeInv
  <1>a. /\ sqlFree \in Nat /\ mirror \in Int \cup {Unread} /\ Unread \notin Int
        /\ stage \in [Buyers -> {"new", "queued", "granted", "notify", "told", "door",
                                 "sold", "returned", "lost"}]
        /\ answered \in [Buyers -> {"waiting", "admitted", "sold_out", "gone"}]
        /\ refresh \in [Replicas -> Nat \cup {Unread}]
        /\ leader \in LeaderType /\ history \in HistoryType
    BY ClaimWindowAssumption DEF LedgerInv, TypeOK, LeaderType, HistoryType
  <1>b. Notice
    BY Lasting DEF InStock, NoticeInv
  <1>c. ~history'.emptied /\ "low" \notin history'.races /\ \A b \in Buyers : stage'[b] # "returned"
    BY DEF InStock
  <1>d. ASSUME UNCHANGED <<sqlFree, mirror, leader, soldout, answered>> PROVE Notice'
    BY <1>b, <1>d
  <1> USE DEF At, Tell, Report, claimVars, buyerVars, stockVars, leaderVars
  <1>1. ASSUME NEW b \in Buyers, Join(b) PROVE Notice'
    BY <1>d, <1>1 DEF Join
  <1>2. ASSUME NEW b \in Buyers, PollGrant(b) PROVE Notice'
    BY <1>d, <1>2 DEF PollGrant
  <1>3. ASSUME NEW b \in Buyers, Notify(b) PROVE Notice'
    BY <1>a, <1>b, <1>3 DEF Notify
  <1>4. ASSUME NEW b \in Buyers, PollGone(b) PROVE Notice'
    BY <1>a, <1>b, <1>4 DEF PollGone
  <1>5. ASSUME NEW b \in Buyers, PollSoldOut(b) PROVE Notice'
    BY <1>a, <1>b, <1>5 DEF PollSoldOut
  <1>6. ASSUME NEW b \in Buyers, Lapse(b) PROVE Notice'
    BY <1>d, <1>6 DEF Lapse
  <1>7. ASSUME NEW b \in Buyers, KeyExpires(b) PROVE Notice'
    BY <1>d, <1>7 DEF KeyExpires
  <1>8. ASSUME NEW b \in Buyers, Show(b) PROVE Notice'
    BY <1>d, <1>8 DEF Show
  <1>9. ASSUME NEW b \in Buyers, Confirm(b) PROVE Notice'
    <2>1. history'.emptied = (history.emptied \/ sqlFree = 1)
      BY <1>a, <1>9, Zenon DEF Confirm, HistoryType
    <2>2. sqlFree # 1
      BY <1>c, <2>1
    <2> QED
      BY <1>a, <1>b, <1>9, <2>2 DEF Confirm
  <1>10. ASSUME NEW b \in Buyers, SoldOut(b) PROVE Notice'
    BY <1>d, <1>10 DEF SoldOut
  <1>11. ASSUME NEW b \in Buyers, Pending(b) PROVE Notice'
    BY <1>d, <1>11 DEF Pending
  <1>12. ASSUME NEW b \in Buyers, Resolve(b) PROVE Notice'
    BY <1>d, <1>12 DEF Resolve
  <1>13. ASSUME NEW b \in Buyers, Count(b) PROVE Notice'
    <2>1. CASE stage[b] = "lost"
      BY <1>d, <1>13, <2>1 DEF Count
    <2>2. CASE stage[b] # "lost"
      <3>1. /\ mirror' = Taken(mirror) /\ history' = Raced(history, "low", mirror' < sqlFree)
            /\ UNCHANGED <<sqlFree, leader, soldout, answered>>
        BY <1>13, <2>2 DEF Count
      <3>2. ~ (mirror' < sqlFree)
        BY <1>a, <1>c, <3>1 DEF Raced, HistoryType
      <3>3. mirror' \in Int
        BY <1>a, <3>1 DEF Taken
      <3> QED
        BY <1>a, <1>b, <3>1, <3>2, <3>3
    <2> QED
      BY <2>1, <2>2
  <1>14. ASSUME NEW b \in Buyers, SetZero(b) PROVE Notice'
    <2>1. history' = Raced(history, "low", sqlFree > 0)
      BY <1>14 DEF SetZero
    <2>2. "low" \in history'.races
      BY <1>a, <1>b, <2>1 DEF Raced, HistoryType
    <2> QED
      BY <1>c, <2>2
  <1>15. ASSUME NEW b \in Buyers, ReportFails(b) PROVE Notice'
    BY <1>d, <1>15 DEF ReportFails
  <1>16. ASSUME NEW b \in Buyers, Decline(b) PROVE Notice'
    <2>1. stage'[b] = "returned"
      BY <1>a, <1>16 DEF Decline
    <2> QED
      BY <1>c, <2>1
  <1>17. ASSUME NEW r \in Replicas, RefreshRead(r) PROVE Notice'
    BY <1>d, <1>17 DEF RefreshRead
  <1>18. ASSUME NEW r \in Replicas, RefreshSet(r) PROVE Notice'
    <2> DEFINE counted == Cardinality({b \in unresolved : stage[b] = "sold"})
               h == Raced(history, "generous", refresh[r] > sqlFree + counted)
    <2>1. history' = Raced(h, "low", refresh[r] < sqlFree)
      BY <1>18 DEF RefreshSet
    <2>2. h \in HistoryType
      BY <1>a DEF Raced, Races, HistoryType
    <2>3. ~ (refresh[r] < sqlFree)
      <3> HIDE DEF h
      <3> QED
        BY <1>c, <2>1, <2>2 DEF Raced, HistoryType
    <2>4. mirror' = refresh[r] /\ refresh[r] \in Nat
      BY <1>a, <1>18 DEF RefreshSet, Anchored
    <2>5. UNCHANGED <<sqlFree, leader, soldout, answered>>
      BY <1>18 DEF RefreshSet
    <2> QED
      BY <1>a, <1>b, <2>3, <2>4, <2>5
  <1>19. ASSUME TickCount PROVE Notice'
    <2>1. leader'.pc \in {"expired", "read"} /\ UNCHANGED <<sqlFree, mirror, soldout, answered>>
      BY <1>a, <1>19 DEF TickCount, LeaderType
    <2> QED
      BY <1>b, <2>1
  <1>20. ASSUME TickRead PROVE Notice'
    <2>1. /\ leader'.free = IF mirror = Unread \/ mirror >= 0 THEN mirror ELSE 0
          /\ UNCHANGED <<sqlFree, mirror, soldout, answered>>
      BY <1>a, <1>20 DEF TickRead, LeaderType
    <2> QED
      BY <1>a, <1>b, <2>1
  <1>21. ASSUME TickPublish PROVE Notice'
    <2>1. leader.pc = "publish" /\ soldout' = IsSoldOut(leader.free)
      BY <1>21 DEF TickPublish
    <2>2. ~ soldout'
      <3>1. leader.free # Unread => leader.free > 0
        BY <1>b, <2>1
      <3>2. leader.free # Unread => leader.free # 0
        BY <3>1
      <3>3. ~ IsSoldOut(leader.free)
        BY <3>2 DEF IsSoldOut
      <3> QED
        BY <2>1, <3>3, Zenon
    <2>3. leader'.pc # "publish" /\ UNCHANGED <<sqlFree, mirror, answered>>
      BY <1>21 DEF TickPublish, Resting
    <2> QED
      BY <1>b, <2>2, <2>3
  <1>22. ASSUME TickAdmit PROVE Notice'
    <2>1. leader'.pc # "publish" /\ UNCHANGED <<sqlFree, mirror, soldout, answered>>
      BY <1>22 DEF TickAdmit, Resting
    <2> QED
      BY <1>b, <2>1
  <1>23. ASSUME Wipe PROVE Notice'
    BY <1>a, <1>b, <1>23 DEF Wipe
  <1>25. ASSUME TickExpire PROVE Notice'
    <2>1. leader'.pc # "publish" /\ UNCHANGED <<sqlFree, mirror, soldout, answered>>
      BY <1>a, <1>25 DEF TickExpire, LeaderType
    <2> QED
      BY <1>b, <2>1
  <1>26. ASSUME TickFails PROVE Notice'
    <2>1. leader'.pc # "publish" /\ UNCHANGED <<sqlFree, mirror, soldout, answered>>
      BY <1>26 DEF TickFails, Resting
    <2> QED
      BY <1>b, <2>1
  <1>24. ASSUME UNCHANGED vars PROVE Notice'
    BY <1>d, <1>24 DEF vars
  <1> HIDE DEF Notice
  <1>z. Notice'
    BY <1>1, <1>2, <1>3, <1>4, <1>5, <1>6, <1>7, <1>8, <1>9, <1>10, <1>11,
       <1>12, <1>13, <1>14, <1>15, <1>16, <1>17, <1>18, <1>19, <1>20, <1>21,
       <1>22, <1>23, <1>24, <1>25, <1>26
       DEF Next, Poll, Handle, Outcome, Refresh, Tick
  <1> QED
    BY <1>z DEF Notice

\* A buyer is told "sold out" only if the sale was empty at some time, somebody
\* returned a unit, or a refresh crossed a sale on its way to the mirror.
THEOREM NoticeHasAReason == Spec => []NoticeIsTrue
  <1>1. Init => LedgerInv /\ NoticeInv
    <2> SUFFICES ASSUME Init PROVE LedgerInv /\ NoticeInv
      OBVIOUS
    <2>1. TypeOK /\ (~history.emptied => sqlFree # 0)
      <3>1. PICK s \in Sales : /\ sqlFree = s.units
                               /\ history = [emptied |-> s.units = 0, sale |-> s, races |-> {},
                                             uncounted |-> {}, missed |-> 0, failed |-> 0,
                                             wiped |-> FALSE]
        BY DEF Init
      <3>2. history.emptied = (s.units = 0)
        BY <3>1
      <3> QED
        BY <3>1, <3>2, InitTypeOK
    <2>2. NoticeInv
      BY <2>1 DEF Init, Resting, NoticeInv, InStock, TypeOK
    <2> QED
      BY <2>2, InitLedgerInv
  <1>2. LedgerInv /\ NoticeInv /\ [Next]_vars => (LedgerInv /\ NoticeInv)'
    BY NextLedgerInv, NextNoticeInv
  <1>3. LedgerInv /\ NoticeInv => NoticeIsTrue
    BY DEF NoticeInv, InStock, NoticeIsTrue
  <1> QED
    BY <1>1, <1>2, <1>3, PTL DEF Spec

-----------------------------------------------------------------------------
(* The window *)

\* Once a race has happened it stays; the sale keeps its show rates.
LEMMA ExactBefore ==
  ASSUME LedgerInv, [Next]_vars, Exact'
  PROVE  Exact
  BY Lasting DEF Exact

LEMMA NextCovered ==
  ASSUME LedgerInv, [Next]_vars, Exact', Covered, Spare >= 0
  PROVE  Covered'
  <1>a. /\ queue \subseteq Buyers /\ unresolved \subseteq Buyers /\ alive \subseteq Buyers
        /\ stage \in [Buyers -> {"new", "queued", "granted", "notify", "told", "door",
                                 "sold", "returned", "lost"}]
        /\ outcome \in [Buyers -> {"none", "resolve", "count", "zero"}]
        /\ history \in HistoryType
        /\ \A q \in queue : stage[q] = "queued"
        /\ \A q \in Buyers : outcome[q] # "none" => stage[q] \in {"sold", "returned", "lost"}
    BY DEF LedgerInv, TypeOK, StagesFollowCode, CheckedOut, HistoryType
  <1>b. /\ \A q \in Buyers : stage[q] = "door" => q \in unresolved
        /\ \A q \in alive : stage[q] \in {"granted", "notify", "told"} => q \in unresolved
        /\ \A q \in unresolved : stage[q] = "sold" => outcome[q] = "resolve"
        /\ \A q \in Buyers : stage[q] # "lost"
    BY <1>a DEF Covered, MayBuy, BoughtClaimed
  <1>c. "generous" \notin history'.races
    BY DEF Exact
  <1> DEFINE Goal ==
        /\ \A q \in Buyers : stage[q] = "door" => q \in unresolved
        /\ \A q \in alive : stage[q] \in {"granted", "notify", "told"} => q \in unresolved
        /\ \A q \in unresolved : stage[q] = "sold" => outcome[q] = "resolve"
        /\ \A q \in Buyers : stage[q] # "lost"
  <1>d. ASSUME Goal' PROVE Covered'
    BY <1>d DEF Covered, MayBuy, BoughtClaimed
  <1> USE DEF At, Tell, Report, claimVars, buyerVars, stockVars, leaderVars
  <1>1. ASSUME NEW b \in Buyers, Join(b) PROVE Goal'
    BY <1>a, <1>b, <1>1 DEF Join
  <1>2. ASSUME NEW b \in Buyers, PollGrant(b) PROVE Goal'
    BY <1>a, <1>b, <1>2 DEF PollGrant
  <1>3. ASSUME NEW b \in Buyers, Notify(b) PROVE Goal'
    BY <1>a, <1>b, <1>3 DEF Notify, Rescored
  <1>4. ASSUME NEW b \in Buyers, PollGone(b) PROVE Goal'
    BY <1>a, <1>b, <1>4 DEF PollGone
  <1>5. ASSUME NEW b \in Buyers, PollSoldOut(b) PROVE Goal'
    BY <1>a, <1>b, <1>5 DEF PollSoldOut
  <1>6. ASSUME NEW b \in Buyers, Lapse(b) PROVE Goal'
    BY <1>a, <1>b, <1>6 DEF Lapse
  <1>7. ASSUME NEW b \in Buyers, KeyExpires(b) PROVE Goal'
    BY <1>a, <1>b, <1>7 DEF KeyExpires
  <1>8. ASSUME NEW b \in Buyers, Show(b) PROVE Goal'
    BY <1>a, <1>b, <1>8 DEF Show
  <1>9. ASSUME NEW b \in Buyers, Confirm(b) PROVE Goal'
    BY <1>a, <1>b, <1>9 DEF Confirm
  <1>10. ASSUME NEW b \in Buyers, SoldOut(b) PROVE Goal'
    <2>1. MayBuy # {}
      BY <1>10 DEF SoldOut, MayBuy
    <2>2. IsFiniteSet(MayBuy)
      BY ClaimWindowAssumption, FS_Subset DEF MayBuy
    <2>3. Cardinality(MayBuy) \in Nat /\ Cardinality(MayBuy) # 0
      BY <2>1, <2>2, FS_CardinalityType, FS_EmptySet
    <2>4. sqlFree = 0
      BY <1>10 DEF SoldOut
    <2> QED
      BY <2>3, <2>4 DEF Spare
  <1>11. ASSUME NEW b \in Buyers, Pending(b) PROVE Goal'
    BY <1>a, <1>b, <1>11 DEF Pending
  <1>12. ASSUME NEW b \in Buyers, Resolve(b) PROVE Goal'
    <2>1. ~ (b \notin unresolved /\ stage[b] = "sold")
      BY <1>a, <1>c, <1>12 DEF Resolve, Raced, HistoryType
    <2> QED
      BY <1>a, <1>b, <1>12, <2>1 DEF Resolve
  <1>13. ASSUME NEW b \in Buyers, Count(b) PROVE Goal'
    BY <1>a, <1>b, <1>13 DEF Count
  <1>14. ASSUME NEW b \in Buyers, SetZero(b) PROVE Goal'
    BY <1>a, <1>b, <1>14 DEF SetZero
  <1>15. ASSUME NEW b \in Buyers, ReportFails(b) PROVE Goal'
    <2> DEFINE h == [history EXCEPT !.uncounted = IF outcome[b] = "count" THEN @ \cup {b} ELSE @]
    <2>1. history' = Raced(h, "generous", stage[b] = "sold")
      BY <1>15 DEF ReportFails
    <2>2. h.races = history.races /\ DOMAIN h = DOMAIN history
      BY <1>a DEF HistoryType
    <2>3. stage[b] # "sold"
      <3> HIDE DEF h
      <3> QED
        BY <1>a, <1>c, <2>1, <2>2 DEF Raced, HistoryType
    <2> QED
      BY <1>a, <1>b, <1>15, <2>3 DEF ReportFails
  <1>16. ASSUME NEW b \in Buyers, Decline(b) PROVE Goal'
    BY <1>a, <1>b, <1>16 DEF Decline
  <1>17. ASSUME NEW r \in Replicas, RefreshRead(r) PROVE Goal'
    BY <1>a, <1>b, <1>17 DEF RefreshRead
  <1>18. ASSUME NEW r \in Replicas, RefreshSet(r) PROVE Goal'
    BY <1>a, <1>b, <1>18 DEF RefreshSet
  <1>19. ASSUME TickCount PROVE Goal'
    <2>1. ~ \E b \in Overdue : \/ b \in alive \/ outcome[b] = "resolve"
                               \/ stage[b] \in {"notify", "door"}
      BY <1>a, <1>c, <1>19 DEF TickCount, Raced, HistoryType
    <2>2. /\ unresolved' = unresolved \ Overdue
          /\ UNCHANGED <<alive, stage, outcome>>
      BY <1>19 DEF TickCount
    <2> QED
      BY <1>b, <2>1, <2>2
  <1>20. ASSUME TickRead PROVE Goal'
    BY <1>a, <1>b, <1>20 DEF TickRead
  <1>21. ASSUME TickPublish PROVE Goal'
    BY <1>a, <1>b, <1>21 DEF TickPublish
  <1>22. ASSUME TickAdmit PROVE Goal'
    <2>1. PICK batch \in SUBSET queue :
             /\ alive' = alive \cup batch
             /\ unresolved' = unresolved \cup batch
             /\ stage' = [b \in Buyers |-> IF b \in batch THEN "granted" ELSE stage[b]]
      BY <1>22 DEF TickAdmit
    <2>2. outcome' = outcome
      BY <1>22 DEF TickAdmit
    <2> QED
      BY <1>a, <1>b, <2>1, <2>2
  <1>23. ASSUME Wipe PROVE Goal'
    <2>1. "generous" \in history'.races
      BY <1>a, <1>23 DEF Wipe, HistoryType
    <2> QED
      BY <1>c, <2>1
  <1>25. ASSUME TickExpire PROVE Goal'
    BY <1>a, <1>b, <1>25 DEF TickExpire
  <1>26. ASSUME TickFails PROVE Goal'
    BY <1>a, <1>b, <1>26 DEF TickFails
  <1>24. ASSUME UNCHANGED vars PROVE Goal'
    BY <1>a, <1>b, <1>24 DEF vars
  <1> HIDE DEF Goal
  <1>z. Goal'
    BY <1>1, <1>2, <1>3, <1>4, <1>5, <1>6, <1>7, <1>8, <1>9, <1>10, <1>11,
       <1>12, <1>13, <1>14, <1>15, <1>16, <1>17, <1>18, <1>19, <1>20, <1>21,
       <1>22, <1>23, <1>24, <1>25, <1>26
       DEF Next, Poll, Handle, Outcome, Refresh, Tick
  <1> QED
    BY <1>d, <1>z

\* With a show rate of 1 the window is the stock that was read.
LEMMA FullShowWindow ==
  ASSUME NEW f \in Nat
  PROVE  Window(f, 100) = f
  BY DEF Window

\* The fewer may buy, the more is spare.
LEMMA FewerMayBuy ==
  ASSUME NEW s \in Nat, NEW m \in Nat, NEW n \in Nat, n <= m
  PROVE  s - m <= s - n
  OBVIOUS

\* The buyers behind the window, counted: those who may buy and those whose
\* claimed sale is still there are different claims.
Counted ==
    /\ IsFiniteSet(MayBuy) /\ Cardinality(MayBuy) \in Nat
    /\ IsFiniteSet(BoughtClaimed) /\ Cardinality(BoughtClaimed) \in Nat
    /\ IsFiniteSet(BoughtUncounted) /\ Cardinality(BoughtUncounted) \in Nat
    /\ IsFiniteSet(unresolved) /\ Cardinality(unresolved) \in Nat
    /\ MayBuy \subseteq unresolved =>
           Cardinality(MayBuy) + Cardinality(BoughtClaimed) <= Cardinality(unresolved)

LEMMA WindowCounts == TypeOK => Counted
  <1> SUFFICES ASSUME TypeOK PROVE Counted
    OBVIOUS
  <1>1. /\ MayBuy \subseteq Buyers /\ BoughtClaimed \subseteq unresolved
        /\ BoughtUncounted \subseteq Buyers /\ unresolved \subseteq Buyers
    BY DEF MayBuy, BoughtClaimed, BoughtUncounted, TypeOK
  <1>2. /\ IsFiniteSet(MayBuy) /\ IsFiniteSet(BoughtUncounted) /\ IsFiniteSet(unresolved)
    BY <1>1, ClaimWindowAssumption, FS_Subset
  <1>3. IsFiniteSet(BoughtClaimed)
    BY <1>1, <1>2, FS_Subset
  <1>4. ASSUME MayBuy \subseteq unresolved
        PROVE  Cardinality(MayBuy) + Cardinality(BoughtClaimed) <= Cardinality(unresolved)
    <2>1. MayBuy \cap BoughtClaimed = {}
      BY DEF MayBuy, BoughtClaimed
    <2>2. Cardinality(MayBuy \cup BoughtClaimed) =
              Cardinality(MayBuy) + Cardinality(BoughtClaimed) - Cardinality({})
      BY <1>2, <1>3, <2>1, FS_Union
    <2>3. MayBuy \cup BoughtClaimed \subseteq unresolved
      BY <1>1, <1>4
    <2>4. Cardinality(MayBuy \cup BoughtClaimed) <= Cardinality(unresolved)
      BY <1>2, <2>3, FS_Subset
    <2> QED
      BY <1>2, <1>3, <2>2, <2>4, FS_EmptySet, FS_CardinalityType
  <1> QED
    BY <1>2, <1>3, <1>4, FS_CardinalityType DEF Counted

LEMMA WindowCountsAfter == TypeOK' => Counted'
  BY WindowCounts, PTL

LEMMA NextEnough ==
  ASSUME LedgerInv, [Next]_vars, Exact', Covered, Enough
  PROVE  Enough'
  <1>a. /\ queue \subseteq Buyers /\ unresolved \subseteq Buyers /\ alive \subseteq Buyers
        /\ stage \in [Buyers -> {"new", "queued", "granted", "notify", "told", "door",
                                 "sold", "returned", "lost"}]
        /\ outcome \in [Buyers -> {"none", "resolve", "count", "zero"}]
        /\ history \in HistoryType /\ leader \in LeaderType
        /\ refresh \in [Replicas -> Nat \cup {Unread}]
        /\ \A q \in queue : stage[q] = "queued"
        /\ \A q \in Buyers : outcome[q] # "none" => stage[q] \in {"sold", "returned", "lost"}
    BY DEF LedgerInv, TypeOK, StagesFollowCode, CheckedOut, HistoryType, LeaderType
  <1>b. /\ sqlFree \in Nat /\ mirror \in Int \cup {Unread} /\ Unread \notin Int
        /\ leader.counted \in Nat /\ leader.slots \in Nat /\ leader.free \in Nat \cup {Unread}
    BY <1>a, ClaimWindowAssumption DEF LedgerInv, TypeOK, LeaderType
  <1>c. "generous" \notin history'.races /\ history.sale.phats = {100}
    BY ExactBefore DEF Exact
  <1>d. Covered /\ Enough
    OBVIOUS
  <1> DEFINE may == Cardinality(MayBuy)
             claimed == Cardinality(BoughtClaimed)
             uncounted == Cardinality(BoughtUncounted)
             Goal == /\ sqlFree - may >= 0
                     /\ mirror # Unread => mirror <= sqlFree + claimed + uncounted
                     /\ leader.pc \in {"expired", "read"} =>
                            /\ Cardinality(unresolved) <= leader.counted
                            /\ mirror # Unread =>
                                   mirror - leader.counted <= sqlFree - may + uncounted
                     /\ leader.pc = "publish" /\ leader.free # Unread =>
                            leader.free - leader.counted <= sqlFree - may
                     /\ leader.pc = "admit" => leader.slots <= sqlFree - may
  <1> HIDE DEF may, claimed, uncounted
  <1>e. /\ IsFiniteSet(MayBuy) /\ may \in Nat
        /\ IsFiniteSet(BoughtClaimed) /\ claimed \in Nat
        /\ IsFiniteSet(BoughtUncounted) /\ uncounted \in Nat
        /\ IsFiniteSet(unresolved) /\ Cardinality(unresolved) \in Nat
        /\ may + claimed <= Cardinality(unresolved)
    BY WindowCounts DEF LedgerInv, Covered, Counted, may, claimed, uncounted
  <1>f. may' \in Nat /\ claimed' \in Nat /\ uncounted' \in Nat /\ Cardinality(unresolved') \in Nat
    <2>1. TypeOK'
      BY NextTypeOK DEF LedgerInv
    <2> QED
      BY <2>1, WindowCountsAfter DEF Counted, may, claimed, uncounted
  <1>g. Goal
    BY <1>d DEF Enough, Spare, may, claimed, uncounted
  <1>h. ASSUME Goal' PROVE Enough'
    BY <1>h DEF Enough, Spare, may, claimed, uncounted
  <1>n. /\ sqlFree \in Nat /\ may \in Nat /\ claimed \in Nat /\ uncounted \in Nat
        /\ may' \in Nat /\ claimed' \in Nat /\ uncounted' \in Nat
    BY <1>b, <1>e, <1>f
  <1>m. /\ mirror # Unread => mirror \in Int /\ mirror <= sqlFree + claimed + uncounted
        /\ leader.pc \in {"expired", "read"} /\ mirror # Unread =>
               mirror - leader.counted <= sqlFree - may + uncounted
    BY <1>b, <1>g
  \* Nobody new may buy, nothing is bought, and the mirror does not rise.
  <1>q. ASSUME MayBuy' \subseteq MayBuy, BoughtClaimed' = BoughtClaimed,
               BoughtUncounted' = BoughtUncounted, unresolved' \subseteq unresolved,
               UNCHANGED <<sqlFree, leader>>,
               \/ mirror' = mirror
               \/ mirror' \in Int /\ mirror' <= 0
               \/ mirror # Unread /\ mirror' \in Int /\ mirror' <= mirror
        PROVE  Goal'
    <2>1. may' <= may /\ Cardinality(unresolved') <= Cardinality(unresolved)
      BY <1>e, <1>q, FS_Subset DEF may
    <2>2. claimed' = claimed /\ uncounted' = uncounted
      BY <1>q DEF claimed, uncounted
    <2>3. sqlFree' = sqlFree /\ leader' = leader /\ mirror' \in Int \cup {Unread}
      BY <1>b, <1>q
    <2>4. mirror' # Unread => mirror' <= sqlFree + claimed + uncounted
      BY <1>b, <1>e, <1>g, <1>q
    <2>5. leader.pc \in {"expired", "read"} /\ mirror' # Unread =>
              mirror' - leader.counted <= sqlFree - may + uncounted
      BY <1>b, <1>e, <1>g, <1>q
    <2>6. /\ sqlFree - may <= sqlFree - may'
          /\ sqlFree - may \in Int /\ sqlFree - may' \in Int
      <3>1. sqlFree - may \in Int /\ sqlFree - may' \in Int
        BY <1>n
      <3>2. may' <= may
        BY <2>1
      <3>3. sqlFree - may <= sqlFree - may'
        BY <1>n, <3>2, FewerMayBuy
      <3> QED
        BY <3>1, <3>3
    <2>11. ASSUME NEW x \in Int, x <= sqlFree - may PROVE x <= sqlFree - may'
      BY <2>6, <2>11
    <2>7. leader.pc \in {"expired", "read"} =>
              /\ Cardinality(unresolved') <= leader.counted
              /\ mirror' # Unread => mirror' - leader.counted <= sqlFree - may' + uncounted
      BY <1>b, <1>e, <1>f, <1>g, <2>1, <2>3, <2>5, <2>6
    <2>8. leader.pc = "publish" /\ leader.free # Unread =>
              leader.free - leader.counted <= sqlFree - may'
      <3>1. leader.free # Unread => leader.free - leader.counted \in Int
        BY <1>b
      <3> QED
        BY <1>g, <2>11, <3>1
    <2>9. leader.pc = "admit" => leader.slots <= sqlFree - may'
      BY <1>b, <1>g, <2>11
    <2>10. sqlFree - may' >= 0
      <3>1. sqlFree - may >= 0
        BY <1>g
      <3> QED
        BY <2>6, <3>1
    <2> QED
      BY <2>2, <2>3, <2>4, <2>7, <2>8, <2>9, <2>10
  <1> USE DEF At, Tell, Report, claimVars, buyerVars, stockVars, leaderVars
  <1>1. ASSUME NEW b \in Buyers, Join(b) PROVE Goal'
    <2>1. MayBuy' \subseteq MayBuy
      BY <1>a, <1>1 DEF Join, MayBuy
    <2>2. BoughtClaimed' = BoughtClaimed /\ BoughtUncounted' = BoughtUncounted
      BY <1>a, <1>1 DEF Join, BoughtClaimed, BoughtUncounted
    <2> QED
      BY <1>q, <1>1, <2>1, <2>2 DEF Join
  <1>2. ASSUME NEW b \in Buyers, PollGrant(b) PROVE Goal'
    <2>1. MayBuy' \subseteq MayBuy
      BY <1>a, <1>2 DEF PollGrant, MayBuy
    <2>2. BoughtClaimed' = BoughtClaimed /\ BoughtUncounted' = BoughtUncounted
      BY <1>a, <1>2 DEF PollGrant, BoughtClaimed, BoughtUncounted
    <2> QED
      BY <1>q, <1>2, <2>1, <2>2 DEF PollGrant
  <1>3. ASSUME NEW b \in Buyers, Notify(b) PROVE Goal'
    <2>1. MayBuy' \subseteq MayBuy
      BY <1>a, <1>3 DEF Notify, Rescored, MayBuy
    <2>2. BoughtClaimed' = BoughtClaimed /\ BoughtUncounted' = BoughtUncounted
      BY <1>a, <1>3 DEF Notify, Rescored, BoughtClaimed, BoughtUncounted
    <2> QED
      BY <1>q, <1>3, <2>1, <2>2 DEF Notify, Rescored
  <1>4. ASSUME NEW b \in Buyers, PollGone(b) PROVE Goal'
    <2>1. MayBuy' \subseteq MayBuy
      BY <1>a, <1>4 DEF PollGone, MayBuy
    <2>2. BoughtClaimed' = BoughtClaimed /\ BoughtUncounted' = BoughtUncounted
      BY <1>a, <1>4 DEF PollGone, BoughtClaimed, BoughtUncounted
    <2> QED
      BY <1>q, <1>4, <2>1, <2>2 DEF PollGone
  <1>5. ASSUME NEW b \in Buyers, PollSoldOut(b) PROVE Goal'
    <2>1. MayBuy' \subseteq MayBuy
      BY <1>a, <1>5 DEF PollSoldOut, MayBuy
    <2>2. BoughtClaimed' = BoughtClaimed /\ BoughtUncounted' = BoughtUncounted
      BY <1>a, <1>5 DEF PollSoldOut, BoughtClaimed, BoughtUncounted
    <2> QED
      BY <1>q, <1>5, <2>1, <2>2 DEF PollSoldOut
  <1>6. ASSUME NEW b \in Buyers, Lapse(b) PROVE Goal'
    <2>1. MayBuy' \subseteq MayBuy
      BY <1>a, <1>6 DEF Lapse, MayBuy
    <2>2. BoughtClaimed' = BoughtClaimed /\ BoughtUncounted' = BoughtUncounted
      BY <1>a, <1>6 DEF Lapse, BoughtClaimed, BoughtUncounted
    <2> QED
      BY <1>q, <1>6, <2>1, <2>2 DEF Lapse
  <1>7. ASSUME NEW b \in Buyers, KeyExpires(b) PROVE Goal'
    <2>1. MayBuy' \subseteq MayBuy
      BY <1>a, <1>7 DEF KeyExpires, MayBuy
    <2>2. BoughtClaimed' = BoughtClaimed /\ BoughtUncounted' = BoughtUncounted
      BY <1>a, <1>7 DEF KeyExpires, BoughtClaimed, BoughtUncounted
    <2> QED
      BY <1>q, <1>7, <2>1, <2>2 DEF KeyExpires
  <1>8. ASSUME NEW b \in Buyers, Show(b) PROVE Goal'
    <2>1. MayBuy' \subseteq MayBuy
      BY <1>a, <1>8 DEF Show, MayBuy
    <2>2. BoughtClaimed' = BoughtClaimed /\ BoughtUncounted' = BoughtUncounted
      BY <1>a, <1>8 DEF Show, BoughtClaimed, BoughtUncounted
    <2> QED
      BY <1>q, <1>8, <2>1, <2>2 DEF Show
  <1>9. ASSUME NEW b \in Buyers, Confirm(b) PROVE Goal'
    <2>1. /\ MayBuy' = MayBuy \ {b} /\ b \in MayBuy
          /\ BoughtClaimed' = BoughtClaimed \cup {b} /\ b \notin BoughtClaimed
      <3>1. b \in MayBuy /\ b \in unresolved
        BY <1>d, <1>9 DEF Confirm, MayBuy, Covered
      <3>2. MayBuy' = MayBuy \ {b}
        BY <1>a, <1>9 DEF Confirm, MayBuy
      <3>3. BoughtClaimed' = BoughtClaimed \cup {b} /\ b \notin BoughtClaimed
        BY <1>a, <1>9, <3>1 DEF Confirm, BoughtClaimed
      <3> QED
        BY <3>1, <3>2, <3>3
    <2>2. BoughtUncounted' = BoughtUncounted
      BY <1>a, <1>9 DEF Confirm, BoughtUncounted
    <2>3. may' = may - 1
      BY <1>e, <2>1, FS_RemoveElement DEF may
    <2>4. claimed' = claimed + 1
      BY <1>e, <2>1, FS_AddElement DEF claimed
    <2>5. uncounted' = uncounted
      BY <2>2 DEF uncounted
    <2>6. sqlFree' = sqlFree - 1 /\ UNCHANGED <<mirror, leader, unresolved>>
      BY <1>9 DEF Confirm
    <2> QED
      BY <1>b, <1>e, <1>g, <2>3, <2>4, <2>5, <2>6
  <1>10. ASSUME NEW b \in Buyers, SoldOut(b) PROVE Goal'
    <2>1. b \in MayBuy /\ sqlFree = 0
      BY <1>10 DEF SoldOut, MayBuy
    <2>2. may # 0
      BY <1>e, <2>1, FS_EmptySet DEF may
    <2> QED
      BY <1>e, <1>g, <2>1, <2>2
  <1>11. ASSUME NEW b \in Buyers, Pending(b) PROVE Goal'
    <2>1. MayBuy' \subseteq MayBuy
      BY <1>a, <1>11 DEF Pending, MayBuy
    <2>2. BoughtClaimed' = BoughtClaimed /\ BoughtUncounted' = BoughtUncounted
      BY <1>a, <1>11 DEF Pending, BoughtClaimed, BoughtUncounted
    <2> QED
      BY <1>q, <1>11, <2>1, <2>2 DEF Pending
  <1>12. ASSUME NEW b \in Buyers, Resolve(b) PROVE Goal'
    <2>1. stage[b] = "sold" => b \in unresolved
      BY <1>a, <1>c, <1>12 DEF Resolve, Raced, HistoryType
    <2>2. MayBuy' = MayBuy /\ unresolved' \subseteq unresolved /\ UNCHANGED <<sqlFree, mirror, leader>>
      BY <1>a, <1>12 DEF Resolve, MayBuy
    <2>3. CASE stage[b] # "sold"
      <3>1. BoughtClaimed' = BoughtClaimed /\ BoughtUncounted' = BoughtUncounted
        BY <1>a, <1>12, <2>3 DEF Resolve, BoughtClaimed, BoughtUncounted
      <3> QED
        BY <1>q, <2>2, <3>1
    <2>4. CASE stage[b] = "sold"
      <3>1. BoughtClaimed' = BoughtClaimed \ {b} /\ b \in BoughtClaimed
        BY <1>a, <1>12, <2>1, <2>4 DEF Resolve, BoughtClaimed
      <3>2. BoughtUncounted' = BoughtUncounted \cup {b} /\ b \notin BoughtUncounted
        BY <1>a, <1>12, <2>1, <2>4 DEF Resolve, BoughtUncounted
      <3>3. claimed' = claimed - 1
        BY <1>e, <3>1, FS_RemoveElement DEF claimed
      <3>4. uncounted' = uncounted + 1
        BY <1>e, <3>2, FS_AddElement DEF uncounted
      <3>5. may' = may /\ Cardinality(unresolved') <= Cardinality(unresolved)
        BY <1>e, <2>2, FS_Subset DEF may
      <3> QED
        BY <1>b, <1>e, <1>f, <1>g, <2>2, <3>3, <3>4, <3>5
    <2> QED
      BY <2>3, <2>4
  <1>13. ASSUME NEW b \in Buyers, Count(b) PROVE Goal'
    <2>1. MayBuy' = MayBuy /\ UNCHANGED <<sqlFree, leader, unresolved, stage>>
      BY <1>13 DEF Count, MayBuy
    <2>2. mirror' = mirror \/ mirror' = Taken(mirror)
      BY <1>13 DEF Count
    <2>3. \/ mirror' = mirror
          \/ mirror' \in Int /\ mirror' <= 0
          \/ mirror # Unread /\ mirror' \in Int /\ mirror' <= mirror
      BY <1>b, <2>2 DEF Taken
    <2>4. BoughtClaimed' = BoughtClaimed
      <3>1. b \notin BoughtClaimed
        BY <1>d, <1>13 DEF Count, Covered
      <3> QED
        BY <1>a, <2>1 DEF BoughtClaimed
    <2>5. CASE stage[b] # "sold"
      <3>1. BoughtUncounted' = BoughtUncounted
        BY <1>a, <1>13, <2>5 DEF Count, BoughtUncounted
      <3> QED
        BY <1>q, <2>1, <2>3, <2>4, <3>1
    <2>6. CASE stage[b] = "sold"
      <3>1. mirror' = Taken(mirror) /\ outcome'[b] # "count"
        BY <1>a, <1>13, <2>6 DEF Count
      <3>2. BoughtUncounted' = BoughtUncounted \ {b} /\ b \in BoughtUncounted
        BY <1>a, <1>13, <2>6, <3>1 DEF Count, BoughtUncounted
      <3>3. uncounted' = uncounted - 1
        BY <1>e, <3>2, FS_RemoveElement DEF uncounted
      <3>4. may' = may /\ claimed' = claimed
        BY <2>1, <2>4 DEF may, claimed
      <3>5. mirror' = (IF mirror = Unread THEN 0 ELSE mirror) - 1
        BY <3>1 DEF Taken
      <3> QED
        BY <1>b, <1>e, <1>f, <1>g, <2>1, <3>3, <3>4, <3>5
    <2> QED
      BY <2>5, <2>6
  <1>14. ASSUME NEW b \in Buyers, SetZero(b) PROVE Goal'
    <2>1. MayBuy' \subseteq MayBuy
      BY <1>a, <1>14 DEF SetZero, MayBuy
    <2>2. BoughtClaimed' = BoughtClaimed /\ BoughtUncounted' = BoughtUncounted
      BY <1>a, <1>14 DEF SetZero, BoughtClaimed, BoughtUncounted
    <2> QED
      BY <1>q, <1>14, <2>1, <2>2 DEF SetZero
  <1>15. ASSUME NEW b \in Buyers, ReportFails(b) PROVE Goal'
    <2> DEFINE h == [history EXCEPT !.uncounted = IF outcome[b] = "count" THEN @ \cup {b} ELSE @]
    <2>1. history' = Raced(h, "generous", stage[b] = "sold")
      BY <1>15 DEF ReportFails
    <2>2. h.races = history.races /\ DOMAIN h = DOMAIN history
      BY <1>a DEF HistoryType
    <2>3. stage[b] # "sold"
      <3> HIDE DEF h
      <3> QED
        BY <1>a, <1>c, <2>1, <2>2 DEF Raced, HistoryType
    <2>4. MayBuy' = MayBuy
      BY <1>15 DEF ReportFails, MayBuy
    <2>5. BoughtClaimed' = BoughtClaimed /\ BoughtUncounted' = BoughtUncounted
      BY <1>a, <1>15, <2>3 DEF ReportFails, BoughtClaimed, BoughtUncounted
    <2> QED
      BY <1>q, <1>15, <2>4, <2>5 DEF ReportFails
  <1>16. ASSUME NEW b \in Buyers, Decline(b) PROVE Goal'
    <2>1. MayBuy' = MayBuy
      BY <1>a, <1>16 DEF Decline, MayBuy
    <2>2. BoughtClaimed' = BoughtClaimed \ {b}
      BY <1>a, <1>16 DEF Decline, BoughtClaimed
    <2>3. BoughtUncounted' = BoughtUncounted \ {b}
      BY <1>a, <1>16 DEF Decline, BoughtUncounted
    <2>4. ~ (b \in BoughtClaimed /\ b \in BoughtUncounted)
      BY <1>d DEF Covered, BoughtUncounted
    <2>5. claimed' = IF b \in BoughtClaimed THEN claimed - 1 ELSE claimed
      BY <1>e, <2>2, FS_RemoveElement DEF claimed
    <2>6. uncounted' = IF b \in BoughtUncounted THEN uncounted - 1 ELSE uncounted
      BY <1>e, <2>3, FS_RemoveElement DEF uncounted
    <2>7. \/ claimed' = claimed /\ uncounted' = uncounted
          \/ claimed' = claimed - 1 /\ uncounted' = uncounted
          \/ claimed' = claimed /\ uncounted' = uncounted - 1
      BY <2>4, <2>5, <2>6
    <2>8. may' = may
      BY <2>1 DEF may
    <2>9. sqlFree' = sqlFree + 1 /\ UNCHANGED <<mirror, leader, unresolved>>
      BY <1>16 DEF Decline
    <2>10. mirror # Unread => mirror <= sqlFree' + claimed' + uncounted'
      BY <1>m, <1>n, <2>7, <2>9
    <2>11. leader.pc \in {"expired", "read"} /\ mirror # Unread =>
               mirror - leader.counted <= sqlFree' - may' + uncounted'
      BY <1>b, <1>m, <1>n, <2>7, <2>8, <2>9
    <2>12. ASSUME NEW x \in Int, x <= sqlFree - may PROVE x <= sqlFree' - may'
      BY <1>n, <2>8, <2>9, <2>12
    <2>13. leader.free # Unread => leader.free - leader.counted \in Int
      BY <1>b
    <2>14. sqlFree' - may' >= 0
      BY <1>g, <1>n, <2>8, <2>9
    <2> QED
      BY <1>b, <1>g, <2>9, <2>10, <2>11, <2>12, <2>13, <2>14
  <1>17. ASSUME NEW r \in Replicas, RefreshRead(r) PROVE Goal'
    <2>1. MayBuy' \subseteq MayBuy
      BY <1>a, <1>17 DEF RefreshRead, MayBuy
    <2>2. BoughtClaimed' = BoughtClaimed /\ BoughtUncounted' = BoughtUncounted
      BY <1>a, <1>17 DEF RefreshRead, BoughtClaimed, BoughtUncounted
    <2> QED
      BY <1>q, <1>17, <2>1, <2>2 DEF RefreshRead
  <1>18. ASSUME NEW r \in Replicas, RefreshSet(r) PROVE Goal'
    <2> DEFINE h == Raced(history, "generous", refresh[r] > sqlFree + claimed)
    <2>1. history' = Raced(h, "low", refresh[r] < sqlFree)
      BY <1>18 DEF RefreshSet, claimed, BoughtClaimed
    <2>2. h \in HistoryType
      BY <1>a DEF Raced, Races, HistoryType
    <2>3. "generous" \notin h.races
      <3> HIDE DEF h
      <3> QED
        BY <1>c, <2>1, <2>2 DEF Raced, HistoryType
    <2>4. ~ (refresh[r] > sqlFree + claimed)
      BY <1>a, <2>3 DEF Raced, HistoryType
    <2>5. mirror' = refresh[r] /\ refresh[r] \in Nat
      BY <1>a, <1>18 DEF RefreshSet, Anchored
    <2>6. /\ UNCHANGED <<sqlFree, leader, unresolved>>
          /\ MayBuy' = MayBuy /\ BoughtClaimed' = BoughtClaimed
          /\ BoughtUncounted' = BoughtUncounted
      BY <1>18 DEF RefreshSet, MayBuy, BoughtClaimed, BoughtUncounted
    <2>7. may' = may /\ claimed' = claimed /\ uncounted' = uncounted
      BY <2>6 DEF may, claimed, uncounted
    <2>8. mirror' <= sqlFree + claimed /\ mirror' \in Int
      BY <1>b, <1>e, <2>4, <2>5
    <2> QED
      BY <1>b, <1>e, <1>g, <2>6, <2>7, <2>8
  <1>19. ASSUME TickCount PROVE Goal'
    <2>1. ~ \E b \in Overdue : \/ b \in alive \/ outcome[b] = "resolve"
                               \/ stage[b] \in {"notify", "door"}
      BY <1>a, <1>c, <1>19 DEF TickCount, Raced, HistoryType
    <2>2. /\ unresolved' = unresolved \ Overdue
          /\ UNCHANGED <<alive, stage, outcome, sqlFree, mirror>>
          /\ leader' = [leader EXCEPT !.pc = IF Overdue = {} THEN "read" ELSE "expired",
                                      !.expired = Cardinality(Overdue),
                                      !.counted = Cardinality(unresolved')]
      BY <1>19 DEF TickCount
    <2>3. MayBuy' = MayBuy /\ BoughtUncounted' = BoughtUncounted
      BY <2>2 DEF MayBuy, BoughtUncounted
    <2>4. BoughtClaimed' = BoughtClaimed
      BY <1>d, <2>1, <2>2 DEF Covered, BoughtClaimed
    <2>5. may' = may /\ claimed' = claimed /\ uncounted' = uncounted
      BY <2>3, <2>4 DEF may, claimed, uncounted
    <2>6. may' + claimed' <= Cardinality(unresolved')
      <3>1. TypeOK' /\ Covered'
        BY <1>d, <1>g, NextTypeOK, NextCovered DEF LedgerInv, Enough
      <3> QED
        BY <3>1, WindowCountsAfter DEF Counted, Covered, may, claimed
    <2>7. leader'.pc \in {"expired", "read"} /\ leader'.counted = Cardinality(unresolved')
      BY <1>a, <2>2 DEF LeaderType
    <2> QED
      BY <1>b, <1>e, <1>f, <1>g, <2>2, <2>5, <2>6, <2>7
  <1>20. ASSUME TickRead PROVE Goal'
    <2>1. ~ \E b \in Buyers : outcome[b] = "count" /\ stage[b] = "sold"
      BY <1>a, <1>c, <1>20 DEF TickRead, Raced, HistoryType
    <2>2. uncounted = 0
      BY <2>1, FS_EmptySet DEF uncounted, BoughtUncounted
    <2>3. /\ UNCHANGED <<alive, stage, outcome, sqlFree, mirror, unresolved>>
          /\ leader.pc = "read"
          /\ leader' = [leader EXCEPT !.pc = "publish",
                            !.free = IF mirror = Unread \/ mirror >= 0 THEN mirror ELSE 0]
      BY <1>20 DEF TickRead
    <2>4. may' = may /\ claimed' = claimed /\ uncounted' = uncounted
      BY <2>3 DEF may, claimed, uncounted, MayBuy, BoughtClaimed, BoughtUncounted
    <2>5. /\ leader'.pc = "publish" /\ leader'.counted = leader.counted
          /\ leader'.free = IF mirror = Unread \/ mirror >= 0 THEN mirror ELSE 0
      BY <1>a, <2>3 DEF LeaderType
    <2> QED
      BY <1>b, <1>e, <1>g, <2>2, <2>3, <2>4, <2>5
  <1>21. ASSUME TickPublish PROVE Goal'
    <2>1. PICK p \in history.sale.phats :
             LET w == IF leader.free = Unread THEN 0 ELSE Window(leader.free, p)
                 n == Budget(w, leader.counted)
             IN  leader' = IF n = 0 THEN Resting
                           ELSE [Resting EXCEPT !.pc = "admit", !.window = w, !.slots = n]
      BY <1>21 DEF TickPublish
    <2> DEFINE w == IF leader.free = Unread THEN 0 ELSE leader.free
               n == Budget(w, leader.counted)
    <2>2. leader' = IF n = 0 THEN Resting
                    ELSE [Resting EXCEPT !.pc = "admit", !.window = w, !.slots = n]
      <3>1. p = 100
        BY <1>c, <2>1
      <3>2. (IF leader.free = Unread THEN 0 ELSE Window(leader.free, p)) = w
        BY <1>b, <3>1, FullShowWindow
      <3> DEFINE w1 == IF leader.free = Unread THEN 0 ELSE Window(leader.free, p)
                 n1 == Budget(w1, leader.counted)
      <3>3. leader' = IF n1 = 0 THEN Resting
                      ELSE [Resting EXCEPT !.pc = "admit", !.window = w1, !.slots = n1]
        BY <2>1
      <3>4. w1 = w
        BY <3>2
      <3> HIDE DEF w, w1
      <3> QED
        BY <3>3, <3>4
    <2>3. /\ leader.pc = "publish"
          /\ UNCHANGED <<alive, stage, outcome, sqlFree, mirror, unresolved>>
      BY <1>21 DEF TickPublish
    <2>4. may' = may /\ claimed' = claimed /\ uncounted' = uncounted
      BY <2>3 DEF may, claimed, uncounted, MayBuy, BoughtClaimed, BoughtUncounted
    <2>5. n # 0 => n <= sqlFree - may
      BY <1>b, <1>e, <1>g, <2>3 DEF Budget
    <2>6. \/ leader'.pc = "idle"
          \/ n # 0 /\ leader'.pc = "admit" /\ leader'.slots = n
      <3> HIDE DEF w, n
      <3> QED
        BY <2>2 DEF Resting
    <2> HIDE DEF w, n
    <2> QED
      BY <1>b, <1>e, <1>g, <2>3, <2>4, <2>5, <2>6
  <1>22. ASSUME TickAdmit PROVE Goal'
    <2>1. PICK batch \in SUBSET queue :
             /\ Cardinality(batch) =
                    IF Cardinality(queue) < leader.slots THEN Cardinality(queue) ELSE leader.slots
             /\ alive' = alive \cup batch
             /\ unresolved' = unresolved \cup batch
             /\ stage' = [b \in Buyers |-> IF b \in batch THEN "granted" ELSE stage[b]]
      BY <1>22 DEF TickAdmit
    <2>2. /\ leader.pc = "admit" /\ leader'.pc = "idle"
          /\ UNCHANGED <<outcome, sqlFree, mirror>>
      BY <1>22 DEF TickAdmit, Resting
    <2>3. MayBuy' = MayBuy \cup batch /\ MayBuy \cap batch = {}
      BY <1>a, <2>1 DEF MayBuy
    <2>4. BoughtClaimed' = BoughtClaimed
      BY <1>a, <2>1 DEF BoughtClaimed
    <2>5. BoughtUncounted' = BoughtUncounted
      BY <1>a, <2>1, <2>2 DEF BoughtUncounted
    <2>6. IsFiniteSet(queue) /\ IsFiniteSet(batch)
      BY <1>a, ClaimWindowAssumption, FS_Subset
    <2>7. Cardinality(queue) \in Nat /\ Cardinality(batch) \in Nat
      BY <2>6, FS_CardinalityType
    <2>8. Cardinality(batch) <= leader.slots
      BY <1>b, <2>1, <2>7
    <2>9. may' = may + Cardinality(batch)
      <3>1. Cardinality(MayBuy \cup batch) = may + Cardinality(batch) - Cardinality({})
        BY <1>e, <2>3, <2>6, FS_Union DEF may
      <3> QED
        BY <1>e, <2>3, <2>7, <3>1, FS_EmptySet DEF may
    <2>10. claimed' = claimed /\ uncounted' = uncounted
      BY <2>4, <2>5 DEF claimed, uncounted
    <2> QED
      BY <1>b, <1>e, <1>g, <2>2, <2>7, <2>8, <2>9, <2>10
  <1>23. ASSUME Wipe PROVE Goal'
    <2>1. "generous" \in history'.races
      BY <1>a, <1>23 DEF Wipe, HistoryType
    <2> QED
      BY <1>c, <2>1
  <1>25. ASSUME TickExpire PROVE Goal'
    <2>1. /\ UNCHANGED <<alive, stage, outcome, sqlFree, mirror, unresolved>>
          /\ leader.pc = "expired"
          /\ leader' = [leader EXCEPT !.pc = "read", !.expired = 0]
      BY <1>25 DEF TickExpire
    <2>2. may' = may /\ claimed' = claimed /\ uncounted' = uncounted
      BY <2>1 DEF may, claimed, uncounted, MayBuy, BoughtClaimed, BoughtUncounted
    <2>3. leader'.pc = "read" /\ leader'.counted = leader.counted
      BY <1>a, <2>1 DEF LeaderType
    <2> QED
      BY <1>b, <1>e, <1>g, <2>1, <2>2, <2>3
  <1>26. ASSUME TickFails PROVE Goal'
    <2>1. /\ UNCHANGED <<alive, stage, outcome, sqlFree, mirror, unresolved>>
          /\ leader'.pc = "idle"
      BY <1>26 DEF TickFails, Resting
    <2>2. may' = may /\ claimed' = claimed /\ uncounted' = uncounted
      BY <2>1 DEF may, claimed, uncounted, MayBuy, BoughtClaimed, BoughtUncounted
    <2> QED
      BY <1>b, <1>e, <1>g, <2>1, <2>2
  <1>24. ASSUME UNCHANGED vars PROVE Goal'
    <2>1. MayBuy' \subseteq MayBuy
      BY <1>a, <1>24 DEF vars, MayBuy
    <2>2. BoughtClaimed' = BoughtClaimed /\ BoughtUncounted' = BoughtUncounted
      BY <1>a, <1>24 DEF vars, BoughtClaimed, BoughtUncounted
    <2> QED
      BY <1>q, <1>24, <2>1, <2>2 DEF vars
  <1> HIDE DEF Goal
  <1>z. Goal'
    BY <1>1, <1>2, <1>3, <1>4, <1>5, <1>6, <1>7, <1>8, <1>9, <1>10, <1>11,
       <1>12, <1>13, <1>14, <1>15, <1>16, <1>17, <1>18, <1>19, <1>20, <1>21,
       <1>22, <1>23, <1>24, <1>25, <1>26
       DEF Next, Poll, Handle, Outcome, Refresh, Tick
  <1> QED
    BY <1>h, <1>z

\* With a show rate of 1 a buyer is let in and finds nothing to buy only after a
\* race between the claims, the mirror and the database.
THEOREM WasteHasARace == Spec => []WasteNeedsARace
  <1>1. Init => LedgerInv /\ WindowInv
    <2> SUFFICES ASSUME Init PROVE WindowInv
      BY InitLedgerInv
    <2>1. /\ MayBuy = {} /\ BoughtClaimed = {} /\ BoughtUncounted = {}
          /\ \A b \in Buyers : stage[b] # "lost"
      BY DEF Init, MayBuy, BoughtClaimed, BoughtUncounted
    <2>2. Covered
      BY <2>1 DEF Covered
    <2>3. sqlFree \in Nat /\ mirror = Unread /\ leader.pc = "idle"
      BY InitTypeOK DEF Init, Resting, TypeOK
    <2>4. Enough
      BY <2>1, <2>3, FS_EmptySet DEF Enough, Spare
    <2> QED
      BY <2>2, <2>4 DEF WindowInv
  <1>2. LedgerInv /\ WindowInv /\ [Next]_vars => (LedgerInv /\ WindowInv)'
    <2>1. ASSUME LedgerInv, WindowInv, [Next]_vars, Exact' PROVE Covered' /\ Enough'
      <3>1. Covered /\ Enough
        BY <2>1, ExactBefore DEF WindowInv
      <3>2. Spare >= 0
        BY <3>1 DEF Enough
      <3> QED
        BY <2>1, <3>1, <3>2, NextCovered, NextEnough
    <2> QED
      BY <2>1, NextLedgerInv DEF WindowInv
  <1>3. LedgerInv /\ WindowInv => WasteNeedsARace
    BY DEF WindowInv, Covered, Exact, WasteNeedsARace
  <1> QED
    BY <1>1, <1>2, <1>3, PTL DEF Spec

=============================================================================
