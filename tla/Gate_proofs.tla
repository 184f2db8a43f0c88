----------------------------- MODULE Gate_proofs -----------------------------
(***************************************************************************)
(* For every number of requests, replicas and connections: as long as Redis *)
(* neither failed nor was reset, whoever takes a slot finds fewer checkouts *)
(* behind the gate than the limit says; and whatever happens, the counter   *)
(* never exceeds the checkouts behind the gate and the slots that leaked.   *)
(***************************************************************************)
EXTENDS Gate, FiniteSetTheorems, TLAPS

\* The types the slot counter depends on.
SlotTypeOK ==
    /\ inflight \in Int /\ limit \in Limits
    /\ pc \in [Requests -> Steps]
    /\ gated \in [Requests -> {"no", "slot", "open"}]
    /\ fault \in Faults /\ disturbed \in BOOLEAN
    /\ leaked \in Nat

BeforeGate == {"outside", "trying", "joining", "join_zero", "queued"}
InHandler  == {"connect", "work", "log", "logging", "release"}
AfterGate  == {"release_zero", "answered", "busy", "lost"}

\* A handler runs behind the gate, and nobody else is there for long.
GateFollowsCode ==
    \A r \in Requests :
        /\ pc[r] \in BeforeGate \cup AfterGate => gated[r] = "no"
        /\ pc[r] \in InHandler => gated[r] # "no"

SlotHolders == {r \in Requests : gated[r] = "slot"}

\* While Redis is undisturbed the counter is exact.
ExactUndisturbed ==
    ~disturbed =>
        /\ \A r \in Requests : gated[r] # "open" /\ pc[r] # "release_zero"
        /\ inflight = Cardinality(Behind) + leaked

\* It is never above what is held or has leaked; below zero only until the
\* request that took it there has sent its second command.
CounterBounds ==
    /\ inflight <= Cardinality(SlotHolders) + leaked
    /\ fault = "crash" => ~disturbed
    /\ fault # "redis_error" => inflight >= 0 \/ \E r \in Requests : pc[r] = "release_zero"

SlotInv == SlotTypeOK /\ GateFollowsCode /\ ExactUndisturbed /\ CounterBounds

-----------------------------------------------------------------------------
(* The steps, by what they do to the slots *)

Stays(r) == (pc'[r] = "release_zero") = (pc[r] = "release_zero")

\* Nobody passes the gate, in either direction.
Keeps ==
    /\ UNCHANGED <<inflight, gated, leaked, fault>>
    /\ disturbed' # disturbed => Fails
    /\ \A r \in Requests : Stays(r)

Takes(r) ==
    /\ gated[r] = "no" /\ SlotFree
    /\ inflight' = inflight + 1
    /\ gated' = [gated EXCEPT ![r] = "slot"]
    /\ UNCHANGED <<leaked, fault, disturbed>>
    /\ \A q \in Requests : Stays(q)

Opens(r) ==
    /\ gated[r] = "no" /\ Fails
    /\ gated' = [gated EXCEPT ![r] = "open"]
    /\ UNCHANGED <<inflight, leaked, fault>>
    /\ \A q \in Requests : Stays(q)

LEMMA TryEffect ==
  ASSUME NEW r \in Requests, gated[r] = "no", Try(r), UNCHANGED <<leaked, fault>>,
         \A q \in Requests : Stays(q)
  PROVE  Takes(r) \/ Opens(r)
  BY DEF Try, Takes, Opens, Works

LEMMA SlotSteps ==
  ASSUME SlotInv, [Next]_vars
  PROVE  \/ Keeps
         \/ \E r \in Requests : Takes(r) \/ Opens(r)
         \/ \E r \in Requests : Release(r) /\ UNCHANGED fault
         \/ \E r \in Requests : ReleaseZero(r) /\ UNCHANGED fault
         \/ SlotsExpire \/ Reset
         \/ \E p \in Replicas : Crash(p)
  <1> USE DEF SlotInv, SlotTypeOK, Goto, Works, redisVars, Stays
  <1>1. ASSUME NEW r \in Requests, Arrive(r), UNCHANGED fault PROVE Keeps
    BY <1>1 DEF Arrive, Keeps
  <1>2. ASSUME NEW r \in Requests, TryAtOnce(r), UNCHANGED fault
        PROVE  Keeps \/ Takes(r) \/ Opens(r)
    <2>1. gated[r] = "no" /\ pc[r] = "trying"
      BY <1>2 DEF TryAtOnce, GateFollowsCode, BeforeGate
    <2>2. CASE Try(r) /\ Goto(r, "connect")
      BY <1>2, <2>1, <2>2, TryEffect DEF TryAtOnce
    <2>3. CASE Goto(r, "joining") /\ UNCHANGED <<inflight, gated, disturbed>>
      BY <1>2, <2>1, <2>3 DEF TryAtOnce, Keeps
    <2> QED
      BY <1>2, <2>2, <2>3 DEF TryAtOnce
  <1>3. ASSUME NEW r \in Requests, Join(r), UNCHANGED fault PROVE Keeps
    BY <1>3 DEF Join, Bump, Keeps
  <1>4. ASSUME NEW r \in Requests, JoinZero(r), UNCHANGED fault PROVE Keeps
    BY <1>4 DEF JoinZero, Keeps
  <1>5. ASSUME NEW r \in Requests, PollSlot(r), UNCHANGED fault PROVE Takes(r) \/ Opens(r)
    <2>1. gated[r] = "no" /\ pc[r] = "queued"
      BY <1>5 DEF PollSlot, GateFollowsCode, BeforeGate
    <2> QED
      BY <1>5, <2>1, TryEffect DEF PollSlot
  <1>6. ASSUME NEW r \in Requests, GiveUp(r), UNCHANGED fault PROVE Keeps
    BY <1>6 DEF GiveUp, Keeps
  <1>7. ASSUME NEW r \in Requests, LeaveGate(r), UNCHANGED fault PROVE Keeps
    BY <1>7 DEF LeaveGate, Bump, Through, Keeps
  <1>8. ASSUME NEW r \in Requests, LeaveZero(r), UNCHANGED fault PROVE Keeps
    BY <1>8 DEF LeaveZero, Through, Keeps
  <1>9. ASSUME NEW r \in Requests, Connect(r), UNCHANGED fault PROVE Keeps
    BY <1>9 DEF Connect, Keeps
  <1>10. ASSUME NEW r \in Requests, ConnectTimeout(r), UNCHANGED fault PROVE Keeps
    BY <1>10 DEF ConnectTimeout, Keeps
  <1>11. ASSUME NEW r \in Requests, Work(r), UNCHANGED fault PROVE Keeps
    BY <1>11 DEF Work, Keeps
  <1>12. ASSUME NEW r \in Requests, Log(r), UNCHANGED fault PROVE Keeps
    BY <1>12 DEF Log, Keeps
  <1>13. ASSUME NEW r \in Requests, EndHandler(r), UNCHANGED fault PROVE Keeps
    BY <1>13 DEF EndHandler, Keeps
  <1>14. ASSUME Publish \/ UNCHANGED vars PROVE Keeps
    BY <1>14 DEF Publish, Keeps, vars
  <1> HIDE DEF SlotInv, SlotTypeOK, Goto, Works, redisVars, Stays
  <1> QED
    BY <1>1, <1>2, <1>3, <1>4, <1>5, <1>6, <1>7, <1>8, <1>9, <1>10, <1>11,
       <1>12, <1>13, <1>14
       DEF Next, Step, Quiet

-----------------------------------------------------------------------------
LEMMA InitSlotInv == Init => SlotInv
  <1> SUFFICES ASSUME Init PROVE SlotInv
    OBVIOUS
  <1>0. pc = [r \in Requests |-> "outside"] /\ gated = [r \in Requests |-> "no"]
    BY DEF Init
  <1>1. SlotTypeOK
    <2>1. pc \in [Requests -> Steps] /\ gated \in [Requests -> {"no", "slot", "open"}]
      BY <1>0 DEF Steps
    <2>2. inflight \in Int /\ leaked \in Nat /\ fault \in Faults
      BY DEF Init
    <2>3. disturbed \in BOOLEAN
      BY DEF Init
    <2>4. limit \in Limits
      BY GateAssumption DEF Init
    <2> QED
      BY <2>1, <2>2, <2>3, <2>4 DEF SlotTypeOK
  <1>4. GateFollowsCode
    BY <1>0 DEF GateFollowsCode, BeforeGate, InHandler, AfterGate
  <1>2. Behind = {} /\ SlotHolders = {}
    BY DEF Init, Behind, SlotHolders
  <1>3. ExactUndisturbed /\ CounterBounds
    BY <1>2, FS_EmptySet DEF Init, ExactUndisturbed, CounterBounds
  <1> QED
    BY <1>1, <1>3, <1>4 DEF SlotInv

LEMMA NextControl ==
  ASSUME SlotInv, [Next]_vars
  PROVE  /\ pc' \in [Requests -> Steps]
         /\ gated' \in [Requests -> {"no", "slot", "open"}]
         /\ limit' \in Limits /\ disturbed' \in BOOLEAN
         /\ GateFollowsCode'
  <1> DEFINE Control == /\ pc \in [Requests -> Steps]
                        /\ gated \in [Requests -> {"no", "slot", "open"}]
                        /\ limit \in Limits /\ disturbed \in BOOLEAN
                        /\ GateFollowsCode
  <1> USE GateAssumption DEF SlotInv, SlotTypeOK, GateFollowsCode, Steps, BeforeGate, InHandler,
          AfterGate, Goto, Works, Fails, redisVars
  <1>1. ASSUME NEW r \in Requests, Arrive(r) PROVE Control'
    BY <1>1 DEF Arrive
  <1>2. ASSUME NEW r \in Requests, TryAtOnce(r) PROVE Control'
    BY <1>2 DEF TryAtOnce, Try
  <1>3. ASSUME NEW r \in Requests, Join(r) PROVE Control'
    BY <1>3 DEF Join, Bump
  <1>4. ASSUME NEW r \in Requests, JoinZero(r) PROVE Control'
    BY <1>4 DEF JoinZero
  <1>5. ASSUME NEW r \in Requests, PollSlot(r) PROVE Control'
    BY <1>5 DEF PollSlot, Try
  <1>6. ASSUME NEW r \in Requests, GiveUp(r) PROVE Control'
    BY <1>6 DEF GiveUp
  <1>7. ASSUME NEW r \in Requests, LeaveGate(r) PROVE Control'
    BY <1>7 DEF LeaveGate, Bump, Through
  <1>8. ASSUME NEW r \in Requests, LeaveZero(r) PROVE Control'
    BY <1>8 DEF LeaveZero, Through
  <1>9. ASSUME NEW r \in Requests, Connect(r) PROVE Control'
    BY <1>9 DEF Connect
  <1>10. ASSUME NEW r \in Requests, ConnectTimeout(r) PROVE Control'
    BY <1>10 DEF ConnectTimeout
  <1>11. ASSUME NEW r \in Requests, Work(r) PROVE Control'
    BY <1>11 DEF Work
  <1>12. ASSUME NEW r \in Requests, Log(r) PROVE Control'
    BY <1>12 DEF Log
  <1>13. ASSUME NEW r \in Requests, EndHandler(r) PROVE Control'
    BY <1>13 DEF EndHandler
  <1>14. ASSUME NEW r \in Requests, Release(r) PROVE Control'
    BY <1>14 DEF Release, Forget
  <1>15. ASSUME NEW r \in Requests, ReleaseZero(r) PROVE Control'
    BY <1>15 DEF ReleaseZero
  <1>16. ASSUME Publish \/ SlotsExpire PROVE Control'
    BY <1>16 DEF Publish, SlotsExpire
  <1>17. ASSUME Reset PROVE Control'
    BY <1>17 DEF Reset
  <1>18. ASSUME NEW p \in Replicas, Crash(p) PROVE Control'
    BY <1>18 DEF Crash
  <1>19. ASSUME UNCHANGED vars PROVE Control'
    BY <1>19 DEF vars
  <1> QED
    BY <1>1, <1>2, <1>3, <1>4, <1>5, <1>6, <1>7, <1>8, <1>9, <1>10, <1>11,
       <1>12, <1>13, <1>14,
       <1>15, <1>16, <1>17, <1>18, <1>19 DEF Next, Step, Quiet

LEMMA SlotsFinite ==
  /\ IsFiniteSet(Behind) /\ Cardinality(Behind) \in Nat
  /\ IsFiniteSet(SlotHolders) /\ Cardinality(SlotHolders) \in Nat
  /\ Cardinality(SlotHolders) <= Cardinality(Behind)
  <1>1. Behind \subseteq Requests /\ SlotHolders \subseteq Behind
    BY DEF Behind, SlotHolders
  <1> QED
    BY <1>1, GateAssumption, FS_Subset, FS_CardinalityType

LEMMA NextSlotInv == SlotInv /\ [Next]_vars => SlotInv'
  <1> SUFFICES ASSUME SlotInv, [Next]_vars PROVE SlotInv'
    OBVIOUS
  <1> DEFINE Slots == /\ inflight \in Int /\ leaked \in Nat /\ fault \in Faults
                      /\ ExactUndisturbed /\ CounterBounds
  <1>0. /\ inflight \in Int /\ leaked \in Nat /\ fault \in Faults /\ disturbed \in BOOLEAN
        /\ gated \in [Requests -> {"no", "slot", "open"}] /\ pc \in [Requests -> Steps]
        /\ ExactUndisturbed /\ CounterBounds
    BY DEF SlotInv, SlotTypeOK
  <1>1. /\ IsFiniteSet(Behind) /\ Cardinality(Behind) \in Nat
        /\ IsFiniteSet(SlotHolders) /\ Cardinality(SlotHolders) \in Nat
    BY SlotsFinite
  <1>2. ASSUME Keeps PROVE Slots'
    <2>1. Behind' = Behind /\ SlotHolders' = SlotHolders
      BY <1>2 DEF Keeps, Behind, SlotHolders
    <2> QED
      BY <1>0, <1>2, <2>1 DEF Keeps, Stays, Fails, ExactUndisturbed, CounterBounds
  <1>3. ASSUME NEW r \in Requests, Takes(r) PROVE Slots'
    <2>1. /\ Behind' = Behind \cup {r} /\ SlotHolders' = SlotHolders \cup {r}
          /\ r \notin Behind /\ r \notin SlotHolders
      BY <1>0, <1>3 DEF Takes, Behind, SlotHolders
    <2>2. /\ Cardinality(Behind') = Cardinality(Behind) + 1
          /\ Cardinality(SlotHolders') = Cardinality(SlotHolders) + 1
      BY <1>1, <2>1, FS_AddElement
    <2>3. /\ inflight' = inflight + 1 /\ UNCHANGED <<leaked, fault, disturbed>>
          /\ \A q \in Requests : gated'[q] = "open" => gated[q] = "open"
          /\ \A q \in Requests : Stays(q)
      BY <1>0, <1>3 DEF Takes
    <2>4. ExactUndisturbed'
      BY <1>0, <1>1, <2>2, <2>3 DEF ExactUndisturbed, Stays
    <2>5. CounterBounds'
      BY <1>0, <1>1, <2>2, <2>3 DEF CounterBounds, Stays
    <2> QED
      BY <1>0, <2>3, <2>4, <2>5
  <1>4. ASSUME NEW r \in Requests, Opens(r) PROVE Slots'
    <2>1. SlotHolders' = SlotHolders
      BY <1>0, <1>4 DEF Opens, SlotHolders
    <2> QED
      BY <1>0, <1>4, <2>1 DEF Opens, Fails, Stays, ExactUndisturbed, CounterBounds
  <1>5. ASSUME NEW r \in Requests, Release(r), UNCHANGED fault PROVE Slots'
    <2>1. /\ pc[r] = "release" /\ gated[r] # "no"
          /\ gated' = [gated EXCEPT ![r] = "no"]
      BY <1>5 DEF Release, Forget, SlotInv, GateFollowsCode, InHandler
    <2>2. /\ Behind' = Behind \ {r} /\ r \in Behind
          /\ SlotHolders' = SlotHolders \ {r}
          /\ r \in SlotHolders <=> gated[r] = "slot"
      BY <1>0, <2>1 DEF Behind, SlotHolders
    <2>3. /\ Cardinality(Behind') = Cardinality(Behind) - 1
          /\ Cardinality(SlotHolders') = IF gated[r] = "slot" THEN Cardinality(SlotHolders) - 1
                                                              ELSE Cardinality(SlotHolders)
      BY <1>1, <2>2, FS_RemoveElement
    <2>4. Cardinality(Behind') \in Nat
      BY <1>1, <2>2, FS_RemoveElement, FS_CardinalityType
    <2>5. \A q \in Requests : gated'[q] = "open" => gated[q] = "open"
      BY <1>0, <2>1
    <2>6. CASE Decrement(r) /\ Goto(r, IF inflight' < 0 THEN "release_zero" ELSE "answered")
               /\ Works /\ UNCHANGED leaked
      <3>1. /\ inflight' = inflight - 1 /\ leaked' = leaked /\ disturbed' = disturbed
            /\ inflight' < 0 => pc'[r] = "release_zero"
            /\ inflight' >= 0 => \A q \in Requests : pc'[q] = "release_zero" => pc[q] = "release_zero"
        BY <1>0, <2>6 DEF Decrement, Goto, Works
      <3>2. ExactUndisturbed'
        <4>1. CASE disturbed
          BY <3>1, <4>1 DEF ExactUndisturbed
        <4>2. CASE ~ disturbed
          <5>1. inflight = Cardinality(Behind) + leaked
            BY <1>0, <4>2 DEF ExactUndisturbed
          <5>2. inflight' = Cardinality(Behind') + leaked' /\ inflight' >= 0
            BY <1>0, <1>1, <2>3, <2>4, <3>1, <5>1
          <5> QED
            BY <1>0, <2>5, <3>1, <4>2, <5>2 DEF ExactUndisturbed
        <4> QED
          BY <1>0, <4>1, <4>2
      <3>3. inflight' <= Cardinality(SlotHolders') + leaked'
        BY <1>0, <1>1, <2>3, <3>1 DEF CounterBounds
      <3>4. CounterBounds'
        BY <1>0, <1>5, <3>1, <3>3 DEF CounterBounds
      <3> QED
        BY <1>0, <1>5, <3>1, <3>2, <3>4
    <2>7. CASE Fails /\ Goto(r, "answered") /\ UNCHANGED inflight
               /\ leaked' = IF gated[r] = "slot" THEN leaked + 1 ELSE leaked
      <3>1. inflight' <= Cardinality(SlotHolders') + leaked' /\ leaked' \in Nat
        BY <1>0, <1>1, <2>3, <2>7 DEF CounterBounds
      <3> QED
        BY <1>0, <1>5, <2>7, <3>1 DEF Fails, ExactUndisturbed, CounterBounds
    <2> QED
      BY <1>5, <2>6, <2>7 DEF Release
  <1>6. ASSUME NEW r \in Requests, ReleaseZero(r), UNCHANGED fault PROVE Slots'
    <2>1. Behind' = Behind /\ SlotHolders' = SlotHolders /\ leaked' = leaked
      BY <1>6 DEF ReleaseZero, Behind, SlotHolders
    <2>2. disturbed /\ disturbed'
      BY <1>0, <1>6 DEF ReleaseZero, ExactUndisturbed, Works, Fails
    <2>3. inflight' = 0 \/ (inflight' = inflight /\ fault = "redis_error")
      BY <1>6 DEF ReleaseZero, Fails
    <2>4. CounterBounds'
      BY <1>0, <1>1, <1>6, <2>1, <2>2, <2>3 DEF CounterBounds
    <2> QED
      BY <1>0, <1>6, <2>1, <2>2, <2>3, <2>4 DEF ExactUndisturbed
  <1>7. ASSUME SlotsExpire PROVE Slots'
    <2>1. /\ Behind = {} /\ Behind' = {} /\ SlotHolders' = {}
          /\ inflight' = 0 /\ leaked' = 0 /\ UNCHANGED <<pc, gated, fault, disturbed>>
      BY <1>7 DEF SlotsExpire, Behind, SlotHolders
    <2> QED
      BY <1>0, <2>1, FS_EmptySet DEF ExactUndisturbed, CounterBounds
  <1>8. ASSUME Reset PROVE Slots'
    <2>1. Behind' = Behind /\ SlotHolders' = SlotHolders /\ disturbed' /\ fault' = fault
          /\ fault = "reset" /\ pc' = pc
      BY <1>8 DEF Reset, Behind, SlotHolders
    <2>2. (inflight' = 0 /\ leaked' = 0) \/ (inflight' = inflight /\ leaked' = leaked)
      BY <1>8 DEF Reset
    <2>3. CounterBounds'
      BY <1>0, <1>1, <2>1, <2>2 DEF CounterBounds
    <2> QED
      BY <1>0, <2>1, <2>2, <2>3 DEF ExactUndisturbed
  <1>9. ASSUME NEW p \in Replicas, Crash(p) PROVE Slots'
    <2> DEFINE Lost == {r \in Alive(p) : gated[r] = "slot"}
    <2>1. /\ fault = "crash" /\ UNCHANGED <<inflight, fault, disturbed>>
          /\ leaked' = leaked + Cardinality(Lost)
          /\ pc' = [r \in Requests |-> IF r \in Alive(p) THEN "lost" ELSE pc[r]]
          /\ gated' = [r \in Requests |-> IF r \in Alive(p) THEN "no" ELSE gated[r]]
      BY <1>9 DEF Crash, redisVars
    <2>2. Lost \subseteq SlotHolders /\ SlotHolders' = SlotHolders \ Lost
      BY <2>1 DEF SlotHolders, Alive
    <2>3. IsFiniteSet(Lost) /\ Cardinality(Lost) \in Nat
          /\ Cardinality(SlotHolders') = Cardinality(SlotHolders) - Cardinality(Lost)
      <3>1. SlotHolders \cap Lost = Lost
        BY <2>2
      <3> HIDE DEF Lost
      <3>2. IsFiniteSet(Lost) /\ Cardinality(Lost) \in Nat
        BY <1>1, <2>2, FS_Subset, FS_CardinalityType
      <3>3. Cardinality(SlotHolders \ Lost) = Cardinality(SlotHolders) - Cardinality(SlotHolders \cap Lost)
        BY <1>1, FS_Difference
      <3> QED
        BY <2>2, <3>1, <3>2, <3>3
    <2>4. ~ disturbed /\ \A r \in Requests : gated[r] # "open" /\ pc[r] # "release_zero"
      BY <1>0, <2>1 DEF ExactUndisturbed, CounterBounds
    <2>5. Behind = SlotHolders /\ Behind' = SlotHolders'
      BY <1>0, <2>1, <2>4 DEF Behind, SlotHolders
    <2>6. inflight = Cardinality(SlotHolders) + leaked
      BY <1>0, <2>4, <2>5 DEF ExactUndisturbed
    <2>7. \A r \in Requests : gated'[r] # "open" /\ pc'[r] # "release_zero"
      BY <2>1, <2>4
    <2>8. inflight' = Cardinality(SlotHolders') + leaked' /\ leaked' \in Nat /\ inflight' >= 0
      <3> HIDE DEF Lost
      <3> QED
        BY <1>0, <1>1, <2>1, <2>3, <2>6
    <2> QED
      BY <1>0, <2>1, <2>4, <2>5, <2>7, <2>8 DEF ExactUndisturbed, CounterBounds
  <1>10. Slots'
    BY <1>2, <1>3, <1>4, <1>5, <1>6, <1>7, <1>8, <1>9, SlotSteps
  <1> QED
    BY <1>10, NextControl DEF SlotInv, SlotTypeOK

\* Whoever takes a slot finds fewer checkouts behind the gate than the published
\* limit says, over all replicas and whatever has crashed, as long as Redis neither
\* failed nor was reset.
THEOREM LimitHolds == Spec => AdmitsWithinLimit
  <1>1. ASSUME SlotInv, [Next]_vars
        PROVE  [\A r \in Requests :
                   gated[r] = "no" /\ gated'[r] = "slot" /\ ~disturbed => Cardinality(Behind) < limit]_vars
    <2> SUFFICES ASSUME NEW r \in Requests, gated[r] = "no", gated'[r] = "slot", ~ disturbed
                 PROVE  Cardinality(Behind) < limit
      OBVIOUS
    <2>1. \E q \in Requests : Takes(q)
      BY <1>1, SlotSteps DEF Keeps, Opens, Release, Forget, ReleaseZero, SlotsExpire, Reset, Crash,
                             SlotInv, SlotTypeOK
    <2>2. inflight < limit
      BY <2>1 DEF Takes, SlotFree
    <2>3. inflight = Cardinality(Behind) + leaked /\ leaked \in Nat /\ limit \in Int
      BY <1>1, GateAssumption DEF SlotInv, SlotTypeOK, ExactUndisturbed
    <2> QED
      BY <2>2, <2>3, SlotsFinite
  <1> QED
    BY <1>1, InitSlotInv, NextSlotInv, PTL DEF Spec, AdmitsWithinLimit

\* The counter never exceeds the checkouts behind the gate and the leaked slots,
\* and unless Redis calls fail it is not below zero once the gate is empty.
THEOREM CounterNeverTooHigh == Spec => []CounterHeals
  <1>1. SlotInv => CounterHeals
    <2> SUFFICES ASSUME SlotInv PROVE CounterHeals
      OBVIOUS
    <2>1. inflight <= Cardinality(Behind) + leaked
      BY SlotsFinite DEF SlotInv, SlotTypeOK, CounterBounds
    <2> QED
      BY <2>1 DEF SlotInv, CounterBounds, CounterHeals
  <1> QED
    BY <1>1, InitSlotInv, NextSlotInv, PTL DEF Spec

=============================================================================
