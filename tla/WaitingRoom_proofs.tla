-------------------------- MODULE WaitingRoom_proofs --------------------------
(***************************************************************************)
(* For any number of buyers, replicas, batches and resets, with worker     *)
(* threads or serverless: one admitter at a time, in join order, and no     *)
(* admission that outlives a clean reset.                                  *)
(***************************************************************************)
EXTENDS WaitingRoom, FiniteSetTheorems, TLAPS

InTick(w) == wpc[w] \in {"pop", "grant"}

\* A worker in mid-tick holds the lease, unless it has outlived it.
LeaderHolds == \A w \in Workers : InTick(w) /\ w \notin history.overran => lease = w

Stamped == {b \in Buyers : jpc[b] # "new"}

\* Join times follow the order of the joins, and nobody leaves the queue, or comes
\* into it, ahead of somebody with an earlier place.
OrderInv ==
    /\ queue \subseteq Stamped
    /\ Held \cup history.granted \subseteq Stamped
    /\ \A b \in Stamped : score[b] <= Cardinality(Stamped)
    /\ \A b \in Buyers : ahead[b] \subseteq Joined
    /\ \A b \in Stamped : \A a \in ahead[b] : score[a] < score[b]
    /\ JoinOrderKept

\* Where the buyers a clean reset is about can still be.
VoidInv ==
    /\ history.void \subseteq Joined
    /\ Held \cap history.void = {}
    /\ rpc = "delete" => live \cap history.void \subseteq revoking
    /\ rpc # "delete" => (live \cup queue) \cap history.void = {}

-----------------------------------------------------------------------------
(* Types *)

LEMMA InHeld == \A b : b \in Held <=> \E w \in Workers : b \in hand[w]
BY DEF Held

LEMMA RoomInitType == Init => TypeOK
BY DEF Init, TypeOK, History

LEMMA RoomStepType == TypeOK /\ [Next]_vars => TypeOK'
<1> SUFFICES ASSUME TypeOK, [Next]_vars PROVE TypeOK'
  OBVIOUS
<1> USE DEF TypeOK, History, queueVars, grantVars, workerVars, resetVars, JoinGoto,
            WorkGoto, Tell, Frame
<1>1. ASSUME NEW b \in Buyers, Join(b) PROVE TypeOK'
  <2>1. CASE JoinStamp(b)
    <3>1. Cardinality({a \in Buyers : jpc[a] # "new"}) \in Nat
      BY FS_Subset, FS_CardinalityType, WaitingRoomAssumption
    <3>2. Joined \subseteq Buyers
      BY DEF Joined
    <3> QED BY <1>1, <2>1, <3>1, <3>2 DEF Join, JoinStamp
  <2>2. CASE JoinAdd(b)
    BY <1>1, <2>2 DEF Join, JoinAdd
  <2> QED BY <1>1, <2>1, <2>2 DEF Join
<1>2. ASSUME NEW b \in Buyers, Poll(b) PROVE TypeOK'
  BY <1>2 DEF Poll, PollAdmitted, PollWaiting, PollRanked, PollGone
<1>3. ASSUME NEW w \in Workers, Tick(w) PROVE TypeOK'
  <2>1. CASE TryLead(w)
    BY <1>3, <2>1 DEF Tick, TryLead
  <2>2. CASE Pop(w)
    <3>1. Front(queue) \subseteq Buyers
      BY DEF Front
    <3> QED BY <1>3, <2>2, <3>1 DEF Tick, Pop
  <2>3. CASE Grant(w)
    <3>1. hand[w] \subseteq Buyers /\ history.granted \cup hand[w] \subseteq Buyers
      OBVIOUS
    <3>2. history' \in History
      BY <2>3, <3>1 DEF Grant
    <3> QED BY <1>3, <2>3, <3>1, <3>2 DEF Tick, Grant
  <2>4. CASE GrantFails(w)
    BY <1>3, <2>4 DEF Tick, GrantFails
  <2> QED BY <1>3, <2>1, <2>2, <2>3, <2>4 DEF Tick
<1>4. ASSUME NEW w \in Workers, WorkerDies(w), Frame PROVE TypeOK'
  BY <1>4 DEF WorkerDies
<1>5. ASSUME Lapse PROVE TypeOK'
  BY <1>5 DEF Lapse, LeaseExpires
<1>6. ASSUME NEW b \in Buyers, GrantExpires(b), Frame PROVE TypeOK'
  BY <1>6 DEF GrantExpires
<1>7. ASSUME TrackingExpires, Frame PROVE TypeOK'
  BY <1>7 DEF TrackingExpires
<1>8. ASSUME Reset PROVE TypeOK'
  <2>1. Joined \subseteq Buyers
    BY DEF Joined
  <2>2. CASE ResetRead
    <3>1. history' \in History
      <4> DEFINE v == IF live \subseteq tracked /\ Held = {} THEN Joined ELSE {}
      <4>1. v \subseteq Buyers
        BY <2>1
      <4>2. history' = [history EXCEPT !.resets = @ + 1, !.void = v]
        BY <2>2 DEF ResetRead
      <4>3. history.resets + 1 \in Nat
        OBVIOUS
      <4> HIDE DEF v
      <4>4. history \in [granted : SUBSET Buyers, overran : SUBSET Workers,
                         void : SUBSET Buyers, resets : Nat]
        OBVIOUS
      <4> QED BY <4>1, <4>2, <4>3, <4>4
    <3> QED BY <1>8, <2>2, <3>1 DEF Reset, ResetRead
  <2>3. CASE ResetDelete
    BY <1>8, <2>3 DEF Reset, ResetDelete, Revoked
  <2>4. CASE ResetScan
    BY <1>8, <2>4 DEF Reset, ResetScan
  <2> QED BY <1>8, <2>2, <2>3, <2>4 DEF Reset
<1>9. CASE UNCHANGED vars
  BY <1>9 DEF vars
<1> QED BY <1>1, <1>2, <1>3, <1>4, <1>5, <1>6, <1>7, <1>8, <1>9 DEF Next

-----------------------------------------------------------------------------
(* One admitter *)

LEMMA LeaderStep == TypeOK /\ LeaderHolds /\ [Next]_vars => LeaderHolds'
<1> SUFFICES ASSUME TypeOK, LeaderHolds, [Next]_vars,
                    NEW v \in Workers, InTick(v)', v \notin history'.overran
             PROVE  lease' = v
  BY DEF LeaderHolds
<1> USE DEF TypeOK, History, InTick, queueVars, grantVars, workerVars, resetVars,
            JoinGoto, WorkGoto, Tell, Frame
<1>0. InTick(v) /\ v \notin history.overran => lease = v
  BY DEF LeaderHolds
<1>1. ASSUME NEW b \in Buyers, Join(b) PROVE lease' = v
  BY <1>0, <1>1 DEF Join, JoinStamp, JoinAdd
<1>2. ASSUME NEW b \in Buyers, Poll(b) PROVE lease' = v
  BY <1>0, <1>2 DEF Poll, PollAdmitted, PollWaiting, PollRanked, PollGone
<1>3. ASSUME NEW w \in Workers, Tick(w) PROVE lease' = v
  <2>1. CASE TryLead(w)
    BY <1>0, <2>1, WaitingRoomAssumption DEF TryLead, Leads
  <2>2. CASE Pop(w)
    BY <1>0, <2>2 DEF Pop
  <2>3. CASE Grant(w)
    BY <1>0, <2>3 DEF Grant
  <2>4. CASE GrantFails(w)
    BY <1>0, <2>4 DEF GrantFails
  <2> QED BY <1>3, <2>1, <2>2, <2>3, <2>4 DEF Tick
<1>4. ASSUME NEW w \in Workers, WorkerDies(w), Frame PROVE lease' = v
  BY <1>0, <1>4, WaitingRoomAssumption DEF WorkerDies
<1>5. ASSUME Lapse PROVE lease' = v
  BY <1>0, <1>5, WaitingRoomAssumption DEF Lapse, LeaseExpires
<1>6. ASSUME NEW b \in Buyers, GrantExpires(b), Frame PROVE lease' = v
  BY <1>0, <1>6 DEF GrantExpires
<1>7. ASSUME TrackingExpires, Frame PROVE lease' = v
  BY <1>0, <1>7 DEF TrackingExpires
<1>8. ASSUME Reset PROVE lease' = v
  BY <1>0, <1>8 DEF Reset, ResetRead, ResetDelete, ResetScan
<1>9. CASE UNCHANGED vars
  BY <1>0, <1>9 DEF vars
<1> QED BY <1>1, <1>2, <1>3, <1>4, <1>5, <1>6, <1>7, <1>8, <1>9 DEF Next

LEMMA LeaderIsAlone == TypeOK /\ LeaderHolds => OneAdmitter
<1> SUFFICES ASSUME TypeOK, LeaderHolds PROVE OneAdmitter
  OBVIOUS
<1> DEFINE A == {w \in Workers : wpc[w] \in {"pop", "grant"}} \ history.overran
<1>1. A \subseteq {lease}
  BY DEF LeaderHolds, InTick
<1>2. Cardinality(A) <= Cardinality({lease})
  BY <1>1, FS_Subset, FS_Singleton
<1> QED BY <1>2, FS_Singleton DEF OneAdmitter

\* One replica admits at a time, or one request (app/queue.py, _try_lead and
\* _maybe_tick), unless it has outlived its lease in mid-tick.
THEOREM OneAdmitterAtATime == Spec => []OneAdmitter
<1>1. Init => TypeOK /\ LeaderHolds
  BY RoomInitType DEF Init, LeaderHolds, InTick
<1>2. TypeOK /\ LeaderHolds /\ [Next]_vars => (TypeOK /\ LeaderHolds)'
  BY RoomStepType, LeaderStep
<1> QED BY <1>1, <1>2, LeaderIsAlone, PTL DEF Spec

\* The variables of the waiting room keep their types.
THEOREM RoomTypeCorrect == Spec => []TypeOK
  BY RoomInitType, RoomStepType, PTL DEF Spec

-----------------------------------------------------------------------------
(* Join order *)

\* ZPOPMIN takes nobody without everybody with an earlier join time.
LEMMA FrontIsFair ==
    ASSUME TypeOK, NEW a \in queue, NEW b \in Front(queue), score[a] < score[b]
    PROVE  a \in Front(queue)
<1> DEFINE Before(c) == {x \in queue : score[x] < score[c]}
<1>1. \A x \in queue : score[x] \in Nat
  BY DEF TypeOK
<1>2. b \in queue
  BY DEF Front
<1>3. Before(a) \subseteq Before(b)
  BY <1>1, <1>2
<1>4. IsFiniteSet(Before(b))
  BY FS_Subset, WaitingRoomAssumption DEF TypeOK
<1>5. /\ Cardinality(Before(a)) \in Nat /\ Cardinality(Before(b)) \in Nat
      /\ Cardinality(Before(a)) <= Cardinality(Before(b))
  BY <1>3, <1>4, FS_Subset, FS_CardinalityType
<1>6. Cardinality(Before(b)) < Batch
  BY DEF Front
<1>7. Cardinality(Before(a)) < Batch
  BY <1>5, <1>6, WaitingRoomAssumption
<1> QED BY <1>7 DEF Front

\* Steps that only move buyers from the queue to a worker and on to a grant, or
\* forget them.
LEMMA OrderSettled ==
    ASSUME OrderInv, Stamped' = Stamped, Joined' = Joined, score' = score, ahead' = ahead,
           NEW batch \in SUBSET queue, queue' \subseteq queue \ batch,
           Held' \cup history'.granted \subseteq Held \cup history.granted \cup batch,
           \A a \in queue', b \in batch : a \notin ahead[b]
    PROVE  OrderInv'
<1>1. JoinOrderKept'
  BY DEF OrderInv, JoinOrderKept
<1> QED BY <1>1 DEF OrderInv

LEMMA OrderUndisturbed ==
    ASSUME OrderInv, Stamped' = Stamped, Joined' = Joined, score' = score, ahead' = ahead,
           queue' \subseteq queue,
           Held' \cup history'.granted \subseteq Held \cup history.granted
    PROVE  OrderInv'
<1>1. {} \in SUBSET queue
  OBVIOUS
<1> QED BY <1>1, OrderSettled

LEMMA SameJoins == jpc' = jpc => Stamped' = Stamped /\ Joined' = Joined
BY DEF Stamped, Joined

LEMMA OrderStep == TypeOK /\ OrderInv /\ [Next]_vars => OrderInv'
<1> SUFFICES ASSUME TypeOK, OrderInv, [Next]_vars PROVE OrderInv'
  OBVIOUS
<1> USE DEF queueVars, grantVars, workerVars, resetVars, JoinGoto, WorkGoto, Tell, Frame
<1>0. ASSUME UNCHANGED <<queueVars, hand, jpc>>, history'.granted = history.granted
      PROVE  OrderInv'
  <2>1. Held' = Held
    BY <1>0 DEF Held
  <2> QED BY <1>0, <2>1, SameJoins, OrderUndisturbed
<1>1. ASSUME NEW b \in Buyers, JoinStamp(b) PROVE OrderInv'
  <2>1. /\ jpc[b] = "new" /\ queue' = queue /\ Held' = Held /\ history' = history
        /\ score' = [score EXCEPT ![b] = 1 + Cardinality(Stamped)]
        /\ ahead' = [ahead EXCEPT ![b] = Joined]
        /\ jpc' = [jpc EXCEPT ![b] = "stamped"]
    BY <1>1 DEF JoinStamp, Stamped, Held
  <2>2. Stamped' = Stamped \cup {b} /\ b \notin Stamped /\ Joined' = Joined
    BY <2>1 DEF Stamped, Joined, TypeOK
  <2>3. IsFiniteSet(Stamped) /\ Joined \subseteq Stamped
    BY FS_Subset, WaitingRoomAssumption DEF Stamped, Joined
  <2>4. Cardinality(Stamped) \in Nat /\ Cardinality(Stamped') = Cardinality(Stamped) + 1
    BY <2>2, <2>3, FS_AddElement, FS_CardinalityType
  <2>5. \A c \in Stamped' : score'[c] = IF c = b THEN 1 + Cardinality(Stamped) ELSE score[c]
    BY <2>1 DEF TypeOK, Stamped
  <2>6. \A c \in Buyers : ahead'[c] = IF c = b THEN Joined ELSE ahead[c]
    BY <2>1 DEF TypeOK
  <2>7. \A c \in Stamped' : score'[c] \in Nat /\ score'[c] <= Cardinality(Stamped')
    BY <2>2, <2>4, <2>5 DEF OrderInv, TypeOK, Stamped
  <2>8. \A c \in Stamped' : \A a \in ahead'[c] : score'[a] < score'[c]
    <3> SUFFICES ASSUME NEW c \in Stamped', NEW a \in ahead'[c]
                 PROVE  score'[a] < score'[c]
      OBVIOUS
    <3>1. c \in Buyers /\ a \in Joined /\ a \in Stamped /\ a # b
      BY <2>2, <2>3, <2>6 DEF OrderInv, Stamped
    <3>2. CASE c = b
      BY <3>1, <3>2, <2>2, <2>4, <2>5 DEF OrderInv, TypeOK, Stamped
    <3>3. CASE c # b
      BY <3>1, <3>3, <2>2, <2>5, <2>6 DEF OrderInv
    <3> QED BY <3>2, <3>3
  <2>9. \A c \in Held \cup history.granted : c \in Stamped /\ ahead'[c] = ahead[c]
    BY <2>2, <2>6 DEF OrderInv, Stamped
  <2>10. JoinOrderKept'
    BY <2>1, <2>9 DEF OrderInv, JoinOrderKept
  <2> QED BY <2>1, <2>2, <2>6, <2>7, <2>8, <2>10 DEF OrderInv
<1>2. ASSUME NEW b \in Buyers, JoinAdd(b) PROVE OrderInv'
  <2>1. /\ jpc[b] = "stamped" /\ queue' = queue \cup {b} /\ Held' = Held
        /\ history' = history /\ score' = score /\ ahead' = ahead
        /\ jpc' = [jpc EXCEPT ![b] = "joined"]
    BY <1>2 DEF JoinAdd, Held
  <2>2. Stamped' = Stamped /\ Joined' = Joined \cup {b} /\ b \notin Joined /\ b \in Stamped
    BY <2>1 DEF Stamped, Joined, TypeOK
  <2>3. \A c \in Held \cup history.granted : b \notin ahead[c]
    BY <2>2 DEF OrderInv, Stamped
  <2>4. JoinOrderKept'
    BY <2>1, <2>3 DEF OrderInv, JoinOrderKept
  <2> QED BY <2>1, <2>2, <2>4 DEF OrderInv
<1>3. ASSUME NEW b \in Buyers, Poll(b) PROVE OrderInv'
  <2>1. Stamped' = Stamped /\ Joined' = Joined
    BY <1>3 DEF Poll, PollAdmitted, PollWaiting, PollRanked, PollGone, Stamped, Joined, TypeOK
  <2>2. Held' = Held /\ history' = history /\ UNCHANGED queueVars
    BY <1>3 DEF Poll, PollAdmitted, PollWaiting, PollRanked, PollGone, Held
  <2> QED BY <2>1, <2>2, OrderUndisturbed
<1>4. ASSUME NEW w \in Workers, Pop(w) PROVE OrderInv'
  <2>1. queue' = queue \ Front(queue) /\ UNCHANGED <<score, ahead, jpc>>
    BY <1>4 DEF Pop
  <2>2. history'.granted = history.granted
    BY <1>4 DEF Pop, TypeOK, History
  <2>3. Held' \subseteq Held \cup Front(queue)
    <3>1. \A v \in Workers : hand'[v] = IF v = w THEN Front(queue) ELSE hand[v]
      BY <1>4 DEF Pop, TypeOK
    <3> QED BY <3>1 DEF Held
  <2>4. \A a \in queue', b \in Front(queue) : a \notin ahead[b]
    <3> SUFFICES ASSUME NEW a \in queue', NEW b \in Front(queue), a \in ahead[b]
                 PROVE  FALSE
      OBVIOUS
    <3>1. b \in queue /\ a \in queue /\ a \notin Front(queue)
      BY <2>1 DEF Front
    <3>2. score[a] < score[b]
      BY <3>1 DEF OrderInv
    <3> QED BY <3>1, <3>2, FrontIsFair
  <2>5. Front(queue) \subseteq queue
    BY DEF Front
  <2>6. Stamped' = Stamped /\ Joined' = Joined
    BY <2>1, SameJoins
  <2> QED BY <2>1, <2>2, <2>3, <2>4, <2>5, <2>6, OrderSettled
<1>5. ASSUME NEW w \in Workers, Grant(w) PROVE OrderInv'
  <2>1. \A v \in Workers : hand'[v] \subseteq hand[v]
    BY <1>5 DEF Grant, TypeOK
  <2>2. Held' \subseteq Held
    BY <2>1 DEF Held
  <2>3. history'.granted = history.granted \cup hand[w] /\ hand[w] \subseteq Held
    BY <1>5 DEF Grant, TypeOK, History, Held
  <2>4. UNCHANGED <<queue, score, ahead, jpc>>
    BY <1>5 DEF Grant
  <2> QED BY <2>2, <2>3, <2>4, SameJoins, OrderUndisturbed
<1>6. ASSUME NEW w \in Workers, GrantFails(w) \/ WorkerDies(w) PROVE OrderInv'
  <2>1. \A v \in Workers : hand'[v] \subseteq hand[v]
    BY <1>6 DEF GrantFails, WorkerDies, TypeOK
  <2>2. Held' \subseteq Held
    BY <2>1 DEF Held
  <2>3. history'.granted = history.granted
    BY <1>6 DEF GrantFails, WorkerDies, TypeOK, History
  <2>4. UNCHANGED <<queue, score, ahead, jpc>>
    BY <1>6 DEF GrantFails, WorkerDies
  <2> QED BY <2>2, <2>3, <2>4, SameJoins, OrderUndisturbed
<1>7. ASSUME ResetDelete PROVE OrderInv'
  <2>1. Held' = Held
    BY <1>7 DEF ResetDelete, Held
  <2>2. queue' = {} /\ UNCHANGED <<score, ahead, jpc, history>>
    BY <1>7 DEF ResetDelete
  <2> QED BY <2>1, <2>2, SameJoins, OrderUndisturbed
<1>8. ASSUME NEW w \in Workers, TryLead(w) PROVE OrderInv'
  BY <1>8, <1>0 DEF TryLead
<1>9. ASSUME Lapse PROVE OrderInv'
  BY <1>9, <1>0 DEF Lapse, LeaseExpires, TypeOK, History
<1>10. ASSUME NEW b \in Buyers, GrantExpires(b) PROVE OrderInv'
  BY <1>10, <1>0 DEF GrantExpires
<1>11. ASSUME TrackingExpires PROVE OrderInv'
  BY <1>11, <1>0 DEF TrackingExpires
<1>12. ASSUME ResetRead \/ ResetScan PROVE OrderInv'
  BY <1>12, <1>0 DEF ResetRead, ResetScan, TypeOK, History
<1>13. CASE UNCHANGED vars
  BY <1>13, <1>0 DEF vars
<1> QED BY <1>1, <1>2, <1>3, <1>4, <1>5, <1>6, <1>7, <1>8, <1>9, <1>10, <1>11, <1>12, <1>13
        DEF Next, Join, Tick, Reset

\* First come, first served, whatever the batch size (app/queue.py, join and admit).
THEOREM FirstComeFirstServed == Spec => []JoinOrderKept
<1>1. Init => TypeOK /\ OrderInv
  <2> SUFFICES ASSUME Init PROVE OrderInv
    BY RoomInitType
  <2>1. Stamped = {} /\ Held = {} /\ queue = {} /\ history.granted = {}
    BY DEF Init, Stamped, Held
  <2>2. \A b \in Buyers : ahead[b] = {}
    BY DEF Init
  <2> QED BY <2>1, <2>2 DEF OrderInv, JoinOrderKept
<1>2. TypeOK /\ OrderInv /\ [Next]_vars => (TypeOK /\ OrderInv)'
  BY RoomStepType, OrderStep
<1>3. OrderInv => JoinOrderKept
  BY DEF OrderInv
<1> QED BY <1>1, <1>2, <1>3, PTL DEF Spec

-----------------------------------------------------------------------------
(* Resets *)

LEMMA VoidStep == TypeOK /\ VoidInv /\ [Next]_vars => VoidInv'
<1> SUFFICES ASSUME TypeOK, VoidInv, [Next]_vars PROVE VoidInv'
  OBVIOUS
<1> USE DEF queueVars, grantVars, workerVars, resetVars, JoinGoto, WorkGoto, Tell, Frame
\* Steps that empty hands and admissions, and spare the reset.
<1>0. ASSUME Joined \subseteq Joined', \A w \in Workers : hand'[w] \subseteq hand[w],
             queue' \cap history.void \subseteq queue, live' \subseteq live,
             UNCHANGED resetVars, history'.void = history.void
      PROVE  VoidInv'
  <2>1. Held' \subseteq Held
    BY <1>0 DEF Held
  <2> QED BY <1>0, <2>1 DEF VoidInv
\* Or meet it: nothing is claimed any more.
<1>a. ASSUME history'.void = {} PROVE VoidInv'
  BY <1>a DEF VoidInv
<1>1. ASSUME NEW b \in Buyers, Join(b) PROVE VoidInv'
  <2>1. CASE JoinStamp(b)
    <3>1. Joined \subseteq Joined'
      BY <2>1 DEF JoinStamp, Joined, TypeOK
    <3> QED BY <2>1, <3>1, <1>0 DEF JoinStamp
  <2>2. CASE JoinAdd(b)
    <3>1. Joined \subseteq Joined' /\ b \notin Joined
      BY <2>2 DEF JoinAdd, Joined, TypeOK
    <3>2. b \notin history.void
      BY <3>1 DEF VoidInv
    <3> QED BY <2>2, <3>1, <3>2, <1>0 DEF JoinAdd
  <2> QED BY <1>1, <2>1, <2>2 DEF Join
<1>2. ASSUME NEW b \in Buyers, Poll(b) PROVE VoidInv'
  <2>1. Joined' = Joined
    BY <1>2 DEF Poll, PollAdmitted, PollWaiting, PollRanked, PollGone, Joined, TypeOK
  <2> QED BY <1>2, <2>1, <1>0 DEF Poll, PollAdmitted, PollWaiting, PollRanked, PollGone
<1>3. ASSUME NEW w \in Workers, Pop(w) PROVE VoidInv'
  <2>1. /\ queue' = queue \ Front(queue) /\ UNCHANGED <<live, jpc, resetVars>>
        /\ hand' = [hand EXCEPT ![w] = Front(queue)]
    BY <1>3 DEF Pop
  <2>2. \A v \in Workers : hand'[v] = IF v = w THEN Front(queue) ELSE hand[v]
    BY <2>1 DEF TypeOK
  <2>3. Front(queue) \subseteq queue
    BY DEF Front
  <2>4. Held' \subseteq Held \cup queue /\ Joined' = Joined
    BY <2>1, <2>2, <2>3 DEF Held, Joined
  <2>5. CASE rpc = "idle"
    <3>1. history'.void = history.void
      BY <1>3, <2>5 DEF Pop, TypeOK, History
    <3> QED BY <2>1, <2>4, <2>5, <3>1 DEF VoidInv
  <2>6. CASE queue = {}
    <3>1. history'.void = history.void
      BY <1>3, <2>6 DEF Pop, TypeOK, History
    <3> QED BY <2>1, <2>4, <2>6, <3>1 DEF VoidInv
  <2>7. CASE rpc # "idle" /\ queue # {}
    <3>1. history'.void = {}
      BY <1>3, <2>7 DEF Pop, TypeOK, History
    <3> QED BY <3>1, <1>a
  <2> QED BY <2>5, <2>6, <2>7
<1>4. ASSUME NEW w \in Workers, Grant(w) PROVE VoidInv'
  <2>1. CASE rpc = "idle"
    <3>1. history'.void = history.void
      BY <1>4, <2>1 DEF Grant, TypeOK, History
    <3>2. \A v \in Workers : hand'[v] \subseteq hand[v]
      BY <1>4 DEF Grant, TypeOK
    <3>3. Held' \subseteq Held /\ hand[w] \subseteq Held /\ Joined' = Joined
      BY <1>4, <3>2 DEF Held, Joined, Grant
    <3>4. live' = live \cup hand[w] /\ UNCHANGED <<queue, resetVars>>
      BY <1>4 DEF Grant
    <3> QED BY <2>1, <3>1, <3>3, <3>4 DEF VoidInv
  <2>2. CASE rpc # "idle"
    <3>1. history'.void = {}
      BY <1>4, <2>2 DEF Grant, TypeOK, History
    <3> QED BY <3>1, <1>a
  <2> QED BY <2>1, <2>2
<1>5. ASSUME NEW w \in Workers, GrantFails(w) \/ WorkerDies(w) PROVE VoidInv'
  <2>1. \A v \in Workers : hand'[v] \subseteq hand[v]
    BY <1>5 DEF GrantFails, WorkerDies, TypeOK
  <2>2. Joined' = Joined /\ history'.void = history.void
    BY <1>5 DEF GrantFails, WorkerDies, Joined, TypeOK, History
  <2> QED BY <1>5, <2>1, <2>2, <1>0 DEF GrantFails, WorkerDies
<1>6. ASSUME NEW w \in Workers, TryLead(w) PROVE VoidInv'
  BY <1>6, <1>0 DEF TryLead, Joined
<1>7. ASSUME Lapse PROVE VoidInv'
  <2>1. Joined' = Joined /\ history'.void = history.void
    BY <1>7 DEF Lapse, LeaseExpires, Joined, TypeOK, History
  <2> QED BY <1>7, <2>1, <1>0 DEF Lapse, LeaseExpires
<1>8. ASSUME NEW b \in Buyers, GrantExpires(b) PROVE VoidInv'
  BY <1>8, <1>0 DEF GrantExpires, Joined
<1>9. ASSUME TrackingExpires PROVE VoidInv'
  BY <1>9, <1>0 DEF TrackingExpires, Joined
<1>10. ASSUME ResetRead PROVE VoidInv'
  <2>1. /\ rpc' = "delete" /\ revoking' = tracked
        /\ UNCHANGED <<queueVars, grantVars, workerVars, jpc>>
    BY <1>10 DEF ResetRead
  <2>2. Joined' = Joined /\ Held' = Held
    BY <2>1 DEF Joined, Held
  <2>3. CASE live \subseteq tracked /\ Held = {}
    <3>1. history'.void = Joined
      BY <1>10, <2>3 DEF ResetRead, TypeOK, History
    <3> QED BY <2>1, <2>2, <2>3, <3>1 DEF VoidInv
  <2>4. CASE ~(live \subseteq tracked /\ Held = {})
    <3>1. history'.void = {}
      BY <1>10, <2>4 DEF ResetRead, TypeOK, History
    <3> QED BY <3>1, <1>a
  <2> QED BY <2>3, <2>4
<1>11. ASSUME ResetDelete PROVE VoidInv'
  <2>1. Joined' = Joined /\ Held' = Held
    BY <1>11 DEF ResetDelete, Joined, Held
  <2> QED BY <1>11, <2>1 DEF ResetDelete, Revoked, VoidInv
<1>12. ASSUME ResetScan PROVE VoidInv'
  <2>1. Joined' = Joined /\ Held' = Held
    BY <1>12 DEF ResetScan, Joined, Held
  <2> QED BY <1>12, <2>1 DEF ResetScan, VoidInv
<1>13. CASE UNCHANGED vars
  BY <1>13, <1>0 DEF vars, Joined
<1> QED BY <1>1, <1>2, <1>3, <1>4, <1>5, <1>6, <1>7, <1>8, <1>9, <1>10, <1>11, <1>12, <1>13
        DEF Next, Tick, Reset

\* A reset that finds every admission tracked and meets no batch leaves none of them
\* behind (app/queue.py, reset).
THEOREM ResetRevokes == Spec => []CleanResetRevokes
<1>1. Init => TypeOK /\ VoidInv
  BY RoomInitType DEF Init, VoidInv, Held, Joined
<1>2. TypeOK /\ VoidInv /\ [Next]_vars => (TypeOK /\ VoidInv)'
  BY RoomStepType, VoidStep
<1>3. VoidInv => CleanResetRevokes
  BY DEF VoidInv, CleanResetRevokes
<1> QED BY <1>1, <1>2, <1>3, PTL DEF Spec

=============================================================================
