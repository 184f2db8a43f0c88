------------------------ MODULE AdmissionDoor_proofs ------------------------
(***************************************************************************)
(* For every number of requests, tokens, buyers and keys, every choice of   *)
(* outcomes and faults.  The middleware (Idempotency): until something      *)
(* fails, or a request is told to try again, a key buys once.  The door in  *)
(* front of it: as long as nothing fails, one admission is one purchase by  *)
(* claim, and everybody behind the door on a token is the buyer the token   *)
(* is bound to.                                                             *)
(***************************************************************************)
EXTENDS AdmissionDoor, FiniteSetTheorems, TLAPS

-----------------------------------------------------------------------------
(* The middleware *)

KeyOrders(k) == {r \in orders : Key(r) = k}

KeyedLabels == {"lookup", "await", "reserve", "wait", "run", "ran", "raising"}

\* A request behind the key has one; while nothing has failed, a handler that
\* runs past the middleware was called without.
KeysKnown ==
    \A r \in Requests :
        /\ pc[r] \in KeyedLabels => Key(r) \in Keys
        /\ calm /\ pc[r] = "bare" => Key(r) = NoKey

\* Nothing is answered before the handler, or the middleware, has spoken.
AnswersFollowCode ==
    \A r \in Requests :
        /\ pc[r] \notin {"ran", "done", "crashed"} => response[r] = NoResponse
        /\ pc[r] = "ran" => response[r].status \in
               {"confirmed", "sold_out", "not_found", "conflict", "unavailable"}

\* A key without a marker has been used by nobody, and nobody waits on it.
Unused(k) ==
    /\ Executing(k) = {} /\ KeyOrders(k) = {}
    /\ \A r \in Requests : Key(r) = k => pc[r] # "wait"

\* A marker has one owner, and an order is the owner's, once its handler ran.
Owned(k) ==
    \E e \in Requests :
        /\ Executing(k) = {e}
        /\ KeyOrders(k) \subseteq {e}
        /\ pc[e] # "ran" => KeyOrders(k) = {}

\* A key with a result has no handler at work any more.
Settled(k) ==
    /\ Executing(k) = {}
    /\ \A r, q \in KeyOrders(k) : r = q

OneExecutor(k) ==
    /\ slot[k].state = "absent"      => Unused(k)
    /\ slot[k].state = "in_progress" => Owned(k)
    /\ slot[k].state = "result"      => Settled(k)

KeyInv ==
    /\ IdemTypeOK
    /\ KeysKnown
    /\ AnswersFollowCode
    /\ \A k \in Keys : Undisturbed(k) => OneExecutor(k)

-----------------------------------------------------------------------------
LEMMA InitIdemTypeOK == IdemInit => IdemTypeOK
  BY DEF IdemInit, IdemTypeOK, Slot, Absent, Response, NoResponse, SlotStates,
         Statuses, Labels

LEMMA Answers ==
  /\ NoResponse \in Response
  /\ \A s \in Statuses : Say(s) \in Response
  /\ \A s \in Statuses, r \in Requests : Outcome(r, s) \in Response
  /\ Absent \in Slot /\ InProgress \in Slot
  /\ \A a \in Response : Stored(a) \in Slot
  BY DEF NoResponse, Say, Outcome, Response, Statuses, Slot, SlotStates, Absent,
         InProgress, Stored

LEMMA NextIdemTypeOK ==
  ASSUME IdemTypeOK, KeysKnown, [IdemNext]_idemVars
  PROVE  IdemTypeOK'
  <1> USE IdempotencyAssumption, Answers DEF IdemTypeOK, Goto, Answer, Put, Mishap, Labels
  <1>0. {"raised", "in_flight", "unavailable"} \subseteq Statuses
        /\ Outcomes \subseteq Statuses
    BY DEF Statuses
  <1>1. ASSUME NEW r \in Requests, Arrive(r) PROVE IdemTypeOK'
    BY <1>1 DEF Arrive
  <1>2. ASSUME NEW r \in Requests, Lookup(r) PROVE IdemTypeOK'
    BY <1>2 DEF Lookup, Slot, KeysKnown, KeyedLabels
  <1>3. ASSUME NEW r \in Requests, Replay(r) PROVE IdemTypeOK'
    BY <1>3 DEF Replay, Slot, KeysKnown, KeyedLabels
  <1>4. ASSUME NEW r \in Requests, WinnerVanished(r) PROVE IdemTypeOK'
    BY <1>4 DEF WinnerVanished
  <1>5. ASSUME NEW r \in Requests, WaitTimeout(r) PROVE IdemTypeOK'
    BY <1>0, <1>5 DEF WaitTimeout
  <1>6. ASSUME NEW r \in Requests, Reserve(r) PROVE IdemTypeOK'
    BY <1>6 DEF Reserve
  <1>7. ASSUME NEW r \in Requests, HandlerRaises(r) PROVE IdemTypeOK'
    BY <1>0, <1>7 DEF HandlerRaises
  <1>8. ASSUME NEW r \in Requests, Unreserve(r) PROVE IdemTypeOK'
    BY <1>0, <1>8 DEF Unreserve
  <1>9. ASSUME NEW r \in Requests, Publish(r) PROVE IdemTypeOK'
    BY <1>9 DEF Publish
  <1>10. ASSUME NEW r \in Requests, FailOpen(r) PROVE IdemTypeOK'
    BY <1>10 DEF FailOpen
  <1>11. ASSUME NEW r \in Requests, PollFails(r) PROVE IdemTypeOK'
    BY <1>0, <1>11 DEF PollFails
  <1>12. ASSUME NEW r \in Requests, PublishLost(r) PROVE IdemTypeOK'
    BY <1>0, <1>12 DEF PublishLost
  <1>13. ASSUME NEW r \in Requests, NEW s \in Outcomes, Execute(r, s) PROVE IdemTypeOK'
    BY <1>0, <1>13 DEF Execute
  <1>14. ASSUME NEW r \in Requests, Crash(r) PROVE IdemTypeOK'
    BY <1>14 DEF Crash
  <1>15. ASSUME NEW k \in Keys, ReservationExpires(k) PROVE IdemTypeOK'
    BY <1>15 DEF ReservationExpires
  <1>16. CASE UNCHANGED idemVars
    BY <1>16 DEF idemVars
  <1> QED
    BY <1>1, <1>2, <1>3, <1>4, <1>5, <1>6, <1>7, <1>8, <1>9, <1>10, <1>11, <1>12,
       <1>13, <1>14, <1>15, <1>16 DEF IdemNext, Dispatch, Quiet

-----------------------------------------------------------------------------
(* The control of a request *)

LEMMA NextKeysKnown ==
  ASSUME IdemTypeOK, KeysKnown, [IdemNext]_idemVars
  PROVE  KeysKnown'
  <1> USE IdempotencyAssumption DEF IdemTypeOK, KeysKnown, KeyedLabels, Goto, Answer,
          Mishap, Key
  <1>1. ASSUME NEW r \in Requests, Arrive(r) PROVE KeysKnown'
    BY <1>1 DEF Arrive
  <1>2. ASSUME NEW r \in Requests, Lookup(r) PROVE KeysKnown'
    BY <1>2 DEF Lookup
  <1>3. ASSUME NEW r \in Requests, Replay(r) PROVE KeysKnown'
    BY <1>3 DEF Replay
  <1>4. ASSUME NEW r \in Requests, WinnerVanished(r) PROVE KeysKnown'
    BY <1>4 DEF WinnerVanished
  <1>5. ASSUME NEW r \in Requests, WaitTimeout(r) PROVE KeysKnown'
    BY <1>5 DEF WaitTimeout
  <1>6. ASSUME NEW r \in Requests, Reserve(r) PROVE KeysKnown'
    BY <1>6 DEF Reserve
  <1>7. ASSUME NEW r \in Requests, HandlerRaises(r) PROVE KeysKnown'
    BY <1>7 DEF HandlerRaises
  <1>8. ASSUME NEW r \in Requests, Unreserve(r) PROVE KeysKnown'
    BY <1>8 DEF Unreserve
  <1>9. ASSUME NEW r \in Requests, Publish(r) PROVE KeysKnown'
    BY <1>9 DEF Publish
  <1>10. ASSUME NEW r \in Requests, FailOpen(r) PROVE KeysKnown'
    BY <1>10 DEF FailOpen
  <1>11. ASSUME NEW r \in Requests, PollFails(r) PROVE KeysKnown'
    BY <1>11 DEF PollFails
  <1>12. ASSUME NEW r \in Requests, PublishLost(r) PROVE KeysKnown'
    BY <1>12 DEF PublishLost
  <1>13. ASSUME NEW r \in Requests, NEW s \in Outcomes, Execute(r, s) PROVE KeysKnown'
    BY <1>13 DEF Execute
  <1>14. ASSUME NEW r \in Requests, Crash(r) PROVE KeysKnown'
    BY <1>14 DEF Crash
  <1>15. ASSUME NEW q \in Keys, ReservationExpires(q) PROVE KeysKnown'
    BY <1>15 DEF ReservationExpires
  <1>16. CASE UNCHANGED idemVars
    BY <1>16 DEF idemVars
  <1> QED
    BY <1>1, <1>2, <1>3, <1>4, <1>5, <1>6, <1>7, <1>8, <1>9, <1>10, <1>11, <1>12,
       <1>13, <1>14, <1>15, <1>16 DEF IdemNext, Dispatch, Quiet

LEMMA NextAnswersFollowCode ==
  ASSUME IdemTypeOK, AnswersFollowCode, [IdemNext]_idemVars
  PROVE  AnswersFollowCode'
  <1> USE IdempotencyAssumption DEF IdemTypeOK, AnswersFollowCode, Goto, Answer
  <1>1. ASSUME NEW r \in Requests, Arrive(r) PROVE AnswersFollowCode'
    BY <1>1 DEF Arrive
  <1>2. ASSUME NEW r \in Requests, Lookup(r) PROVE AnswersFollowCode'
    BY <1>2 DEF Lookup
  <1>3. ASSUME NEW r \in Requests, Replay(r) PROVE AnswersFollowCode'
    BY <1>3 DEF Replay
  <1>4. ASSUME NEW r \in Requests, WinnerVanished(r) PROVE AnswersFollowCode'
    BY <1>4 DEF WinnerVanished
  <1>5. ASSUME NEW r \in Requests, WaitTimeout(r) PROVE AnswersFollowCode'
    BY <1>5 DEF WaitTimeout
  <1>6. ASSUME NEW r \in Requests, Reserve(r) PROVE AnswersFollowCode'
    BY <1>6 DEF Reserve
  <1>7. ASSUME NEW r \in Requests, HandlerRaises(r) PROVE AnswersFollowCode'
    BY <1>7 DEF HandlerRaises
  <1>8. ASSUME NEW r \in Requests, Unreserve(r) PROVE AnswersFollowCode'
    BY <1>8 DEF Unreserve
  <1>9. ASSUME NEW r \in Requests, Publish(r) PROVE AnswersFollowCode'
    BY <1>9 DEF Publish
  <1>10. ASSUME NEW r \in Requests, FailOpen(r) PROVE AnswersFollowCode'
    BY <1>10 DEF FailOpen
  <1>11. ASSUME NEW r \in Requests, PollFails(r) PROVE AnswersFollowCode'
    BY <1>11 DEF PollFails
  <1>12. ASSUME NEW r \in Requests, PublishLost(r) PROVE AnswersFollowCode'
    BY <1>12 DEF PublishLost
  <1>13. ASSUME NEW r \in Requests, NEW s \in Outcomes, Execute(r, s) PROVE AnswersFollowCode'
    BY <1>13 DEF Execute, Outcome
  <1>14. ASSUME NEW r \in Requests, Crash(r) PROVE AnswersFollowCode'
    BY <1>14 DEF Crash
  <1>15. ASSUME NEW q \in Keys, ReservationExpires(q) PROVE AnswersFollowCode'
    BY <1>15 DEF ReservationExpires
  <1>16. CASE UNCHANGED idemVars
    BY <1>16 DEF idemVars
  <1> QED
    BY <1>1, <1>2, <1>3, <1>4, <1>5, <1>6, <1>7, <1>8, <1>9, <1>10, <1>11, <1>12,
       <1>13, <1>14, <1>15, <1>16 DEF IdemNext, Dispatch, Quiet

\* Who was told to try again is told nothing else, and a fault is not undone.
LEMMA DisturbedStays ==
  ASSUME IdemTypeOK, AnswersFollowCode, [IdemNext]_idemVars, NEW k, Undisturbed(k)'
  PROVE  Undisturbed(k)
  <1> DEFINE Kept == /\ calm' => calm
                     /\ \A r \in Requests : response[r] # NoResponse => response'[r] = response[r]
  <1> USE DEF IdemTypeOK, AnswersFollowCode, Goto, Answer, Mishap, Kept
  <1>1. ASSUME NEW r \in Requests, Arrive(r) PROVE Kept
    BY <1>1 DEF Arrive
  <1>2. ASSUME NEW r \in Requests, Lookup(r) PROVE Kept
    BY <1>2 DEF Lookup
  <1>3. ASSUME NEW r \in Requests, Replay(r) PROVE Kept
    BY <1>3 DEF Replay
  <1>4. ASSUME NEW r \in Requests, WinnerVanished(r) PROVE Kept
    BY <1>4 DEF WinnerVanished
  <1>5. ASSUME NEW r \in Requests, WaitTimeout(r) PROVE Kept
    BY <1>5 DEF WaitTimeout
  <1>6. ASSUME NEW r \in Requests, Reserve(r) PROVE Kept
    BY <1>6 DEF Reserve
  <1>7. ASSUME NEW r \in Requests, HandlerRaises(r) PROVE Kept
    BY <1>7 DEF HandlerRaises
  <1>8. ASSUME NEW r \in Requests, Unreserve(r) PROVE Kept
    BY <1>8 DEF Unreserve
  <1>9. ASSUME NEW r \in Requests, Publish(r) PROVE Kept
    BY <1>9 DEF Publish
  <1>10. ASSUME NEW r \in Requests, FailOpen(r) PROVE Kept
    BY <1>10 DEF FailOpen
  <1>11. ASSUME NEW r \in Requests, PollFails(r) PROVE Kept
    BY <1>11 DEF PollFails
  <1>12. ASSUME NEW r \in Requests, PublishLost(r) PROVE Kept
    BY <1>12 DEF PublishLost
  <1>13. ASSUME NEW r \in Requests, NEW s \in Outcomes, Execute(r, s) PROVE Kept
    BY <1>13 DEF Execute
  <1>14. ASSUME NEW r \in Requests, Crash(r) PROVE Kept
    BY <1>14 DEF Crash
  <1>15. ASSUME NEW q \in Keys, ReservationExpires(q) PROVE Kept
    BY <1>15 DEF ReservationExpires
  <1>16. ASSUME UNCHANGED idemVars PROVE Kept
    BY <1>16 DEF idemVars
  <1>17. Kept
    BY <1>1, <1>2, <1>3, <1>4, <1>5, <1>6, <1>7, <1>8, <1>9, <1>10, <1>11, <1>12,
       <1>13, <1>14, <1>15, <1>16 DEF IdemNext, Dispatch, Quiet
  <1> QED
    BY <1>17 DEF Undisturbed, TryAgain, NoResponse, Key

-----------------------------------------------------------------------------
(* One executor *)

\* A key none of whose requests moves, and whose marker stays, is as it was.
LEMMA OtherKey ==
  ASSUME NEW k \in Keys, OneExecutor(k), slot'[k] = slot[k],
         \A r \in Requests : Key(r) = k => pc'[r] = pc[r],
         KeyOrders(k)' = KeyOrders(k)
  PROVE  OneExecutor(k)'
  <1>1. Executing(k)' = Executing(k)
    BY DEF Executing, Key
  <1>2. Unused(k) => Unused(k)'
    BY <1>1 DEF Unused, Key
  <1>3. Owned(k) => Owned(k)'
    BY <1>1 DEF Owned, KeyOrders, Key, Executing
  <1>4. Settled(k) => Settled(k)'
    BY <1>1 DEF Settled
  <1> QED
    BY <1>2, <1>3, <1>4 DEF OneExecutor

LEMMA NextOneExecutor ==
  ASSUME KeyInv, [IdemNext]_idemVars, NEW k \in Keys, Undisturbed(k)'
  PROVE  OneExecutor(k)'
  <1>0. Undisturbed(k) /\ OneExecutor(k)
    BY DisturbedStays DEF KeyInv
  <1> USE <1>0, IdempotencyAssumption DEF KeyInv, IdemTypeOK, Goto, Answer, Put, Mishap,
          OneExecutor, Unused, Owned, Settled, Executing, KeyOrders, Key,
          Absent, InProgress, Stored, KeysKnown, KeyedLabels
  <1>1. ASSUME NEW r \in Requests, Arrive(r) PROVE OneExecutor(k)'
    BY <1>1 DEF Arrive
  <1>2. ASSUME NEW r \in Requests, Lookup(r) PROVE OneExecutor(k)'
    BY <1>2 DEF Lookup
  <1>3. ASSUME NEW r \in Requests, Replay(r) PROVE OneExecutor(k)'
    BY <1>3 DEF Replay
  <1>4. ASSUME NEW r \in Requests, WinnerVanished(r) PROVE OneExecutor(k)'
    BY <1>4 DEF WinnerVanished
  <1>5. ASSUME NEW r \in Requests, WaitTimeout(r) PROVE OneExecutor(k)'
    BY <1>5 DEF WaitTimeout
  <1>6. ASSUME NEW r \in Requests, Reserve(r) PROVE OneExecutor(k)'
    BY <1>6 DEF Reserve
  <1>7. ASSUME NEW r \in Requests, HandlerRaises(r) PROVE OneExecutor(k)'
    BY <1>7 DEF HandlerRaises
  <1>8. ASSUME NEW r \in Requests, Unreserve(r) PROVE OneExecutor(k)'
    <2>1. Key(r) # k
      BY <1>8 DEF Unreserve, Undisturbed, TryAgain, Say
    <2> QED
      BY <1>8, <2>1 DEF Unreserve
  <1>9. ASSUME NEW r \in Requests, Publish(r) PROVE OneExecutor(k)'
    <2>1. CASE Key(r) = k
      <3>1. IsCacheable(response[r].status)
        BY <1>9, <2>1 DEF Publish, Undisturbed, TryAgain, IsCacheable, AnswersFollowCode
      <3>2. slot[k].state = "in_progress" => Executing(k)' = {}
        BY <1>9, <2>1 DEF Publish
      <3>3. slot'[k].state = "result"
        BY <1>9, <2>1, <3>1 DEF Publish
      <3>4. slot[k].state = "in_progress"
        BY <1>9, <2>1 DEF Publish, IdemTypeOK, Slot, SlotStates
      <3> QED
        BY <1>9, <2>1, <3>2, <3>3, <3>4 DEF Publish
    <2>2. CASE Key(r) # k
      BY <1>9, <2>2 DEF Publish
    <2> QED
      BY <2>1, <2>2
  <1>10. ASSUME NEW r \in Requests, FailOpen(r) PROVE OneExecutor(k)'
    BY <1>10 DEF FailOpen
  <1>11. ASSUME NEW r \in Requests, PollFails(r) PROVE OneExecutor(k)'
    BY <1>11 DEF PollFails
  <1>12. ASSUME NEW r \in Requests, PublishLost(r) PROVE OneExecutor(k)'
    BY <1>12 DEF PublishLost, Undisturbed
  <1>13. ASSUME NEW r \in Requests, NEW s \in Outcomes, Execute(r, s) PROVE OneExecutor(k)'
    <2>1. pc[r] \in {"run", "bare"} /\ slot' = slot
          /\ pc' = [pc EXCEPT ![r] = IF pc[r] = "run" THEN "ran" ELSE "done"]
          /\ orders' \subseteq orders \cup {r} /\ orders \subseteq orders'
      BY <1>13 DEF Execute
    <2>2. CASE Key(r) = k
      <3>1. pc[r] = "run"
        BY <2>1, <2>2 DEF Undisturbed
      <3>2. slot[k].state = "in_progress"
        BY <2>2, <3>1 DEF IdemTypeOK, Slot, SlotStates
      <3>3. Executing(k) = {r} /\ KeyOrders(k) = {}
        BY <2>2, <3>1, <3>2
      <3>4. Executing(k)' = {r} /\ KeyOrders(k)' \subseteq {r} /\ pc'[r] = "ran"
        BY <2>1, <2>2, <3>1, <3>3
      <3> QED
        BY <2>1, <3>2, <3>4
    <2>3. CASE Key(r) # k
      <3>1. KeyOrders(k)' = KeyOrders(k)
        BY <2>1, <2>3
      <3> QED
        BY <2>1, <2>3, <3>1, OtherKey
    <2> QED
      BY <2>2, <2>3
  <1>14. ASSUME NEW r \in Requests, Crash(r) PROVE OneExecutor(k)'
    BY <1>14 DEF Crash, Undisturbed
  <1>15. ASSUME NEW q \in Keys, ReservationExpires(q) PROVE OneExecutor(k)'
    BY <1>15 DEF ReservationExpires, Undisturbed
  <1>16. CASE UNCHANGED idemVars
    BY <1>16 DEF idemVars
  <1> QED
    BY <1>1, <1>2, <1>3, <1>4, <1>5, <1>6, <1>7, <1>8, <1>9, <1>10, <1>11, <1>12,
       <1>13, <1>14, <1>15, <1>16 DEF IdemNext, Dispatch, Quiet

LEMMA InitKeyInv == IdemInit => KeyInv
  BY InitIdemTypeOK DEF IdemInit, KeyInv, KeysKnown, KeyedLabels, AnswersFollowCode,
     OneExecutor, Unused, Executing, KeyOrders, Absent

LEMMA NextKeyInv == KeyInv /\ [IdemNext]_idemVars => KeyInv'
  BY NextIdemTypeOK, NextKeysKnown, NextAnswersFollowCode, NextOneExecutor DEF KeyInv

\* A set in which any two members agree has at most one.
LEMMA AtMostOne ==
  ASSUME NEW S, \A x, y \in S : x = y
  PROVE  Cardinality(S) <= 1
  <1>1. CASE S = {}
    BY <1>1, FS_EmptySet
  <1>2. ASSUME NEW x, S = {x}
        PROVE  Cardinality(S) <= 1
    <2>1. Cardinality({x}) = 1
      BY FS_Singleton
    <2> QED
      BY <1>2, <2>1
  <1>3. S = {} \/ \E x : S = {x}
    OBVIOUS
  <1> QED
    BY <1>1, <1>2, <1>3

\* The variables of the middleware keep their types.
THEOREM IdemTypeCorrect == IdemSpec => []IdemTypeOK
  <1>1. KeyInv => IdemTypeOK
    BY DEF KeyInv
  <1> QED
    BY <1>1, InitKeyInv, NextKeyInv, PTL DEF IdemSpec

\* However often a tap is repeated, and however its copies interleave, it buys
\* once -- until a fault, or until one of them is told to try again.
THEOREM OneTapOneOrder == IdemSpec => []OneOrderUndisturbed
  <1>1. KeyInv => OneOrderUndisturbed
    <2> SUFFICES ASSUME KeyInv, NEW k \in Keys, Undisturbed(k)
                 PROVE  Cardinality(KeyOrders(k)) <= 1
      BY DEF OneOrderUndisturbed, KeyOrders
    <2>1. \A r, q \in KeyOrders(k) : r = q
      BY DEF KeyInv, OneExecutor, Unused, Owned, Settled, IdemTypeOK, Slot, SlotStates
    <2> QED
      BY <2>1, AtMostOne
  <1> QED
    BY <1>1, InitKeyInv, NextKeyInv, PTL DEF IdemSpec

-----------------------------------------------------------------------------
(* The door *)

\* Requests that hold the claim of a token.
Holders(t) == {r \in claimed : Token(r) = t /\ door[r] = "inside"}

\* Nobody gets to the middleware, or to a claim, but through the door.
DoorFollowsCode ==
    \A r \in Requests :
        /\ door[r] \in {"outside", "claiming"} => pc[r] = "idle" /\ r \notin claimed
        /\ door[r] = "claiming" \/ r \in claimed => Token(r) \in Tokens
        /\ calm => pc[r] # "crashed"
        /\ calm /\ r \in orders => response[r].status = "confirmed"

\* The claim of a token has one holder, and whoever bought with it holds it
\* still or has spent it.
OneHolder(t) ==
    /\ \A r, q \in Holders(t) : r = q
    /\ Holders(t) # {} => state[t].inflight /\ ~state[t].spent
    /\ \A r \in OrdersOf(t) \cap claimed : r \in Holders(t) \/ state[t].spent
    /\ \A r, q \in OrdersOf(t) \cap claimed : r = q

\* A token in use is bound to a buyer, and only that one is behind the door.
Bound(t) ==
    /\ Taken(state[t]) => state[t].user # NoUser
    /\ \A r \in Behind(t) : state[t].user = UserOf[r]

DoorInv ==
    /\ DoorTypeOK
    /\ KeysKnown
    /\ AnswersFollowCode
    /\ DoorFollowsCode
    /\ calm => \A t \in Tokens : OneHolder(t) /\ Bound(t)

-----------------------------------------------------------------------------
(* The middleware behind the door *)

\* A step of the inner layer is a step of Idempotency.
LEMMA InnerIsIdem ==
  ASSUME NEW r \in Requests, Arrive(r) \/ Dispatch(r) \/ Crash(r)
  PROVE  [IdemNext]_idemVars
  BY DEF IdemNext

\* What it may do to the requests: it moves r alone, kills nobody, and an order
\* made while nothing fails is answered "confirmed".
InnerEffect(r) ==
    /\ \A q \in Requests \ {r} : pc'[q] = pc[q] /\ response'[q] = response[q]
    /\ orders \subseteq orders' /\ orders' \subseteq orders \cup {r}
    /\ calm' => calm
    /\ pc'[r] # "crashed" /\ pc'[r] # "idle"
    /\ r \in orders => response'[r] = response[r] \/ response[r] = NoResponse
    /\ calm' /\ r \in orders' \ orders => response'[r].status = "confirmed"

LEMMA InnerStep ==
  ASSUME IdemTypeOK, AnswersFollowCode, NEW r \in Requests, Arrive(r) \/ Dispatch(r)
  PROVE  InnerEffect(r)
  <1> USE IdempotencyAssumption DEF IdemTypeOK, InnerEffect, Goto, Answer, Mishap,
          AnswersFollowCode
  <1>1. CASE Arrive(r)
    BY <1>1 DEF Arrive
  <1>2. CASE Lookup(r)
    BY <1>2 DEF Lookup
  <1>3. CASE Replay(r)
    BY <1>3 DEF Replay
  <1>4. CASE WinnerVanished(r)
    BY <1>4 DEF WinnerVanished
  <1>5. CASE WaitTimeout(r)
    BY <1>5 DEF WaitTimeout
  <1>6. CASE Reserve(r)
    BY <1>6 DEF Reserve
  <1>7. CASE HandlerRaises(r)
    BY <1>7 DEF HandlerRaises
  <1>8. CASE Unreserve(r)
    BY <1>8 DEF Unreserve
  <1>9. CASE Publish(r)
    BY <1>9 DEF Publish
  <1>10. CASE FailOpen(r)
    BY <1>10 DEF FailOpen
  <1>11. CASE PollFails(r)
    BY <1>11 DEF PollFails
  <1>12. CASE PublishLost(r)
    BY <1>12 DEF PublishLost
  <1>13. ASSUME NEW s \in Outcomes, Execute(r, s) PROVE InnerEffect(r)
    BY <1>13 DEF Execute, Outcome
  <1> QED
    BY <1>1, <1>2, <1>3, <1>4, <1>5, <1>6, <1>7, <1>8, <1>9, <1>10, <1>11, <1>12,
       <1>13 DEF Dispatch

-----------------------------------------------------------------------------
(* Types and control *)

LEMMA ReleasedType ==
  ASSUME NEW s \in ClaimState, NEW b \in BOOLEAN
  PROVE  Released(s, b) \in ClaimState
  BY DEF Released, ClaimState

LEMMA ConfirmedSpends ==
  ASSUME NEW s \in ClaimState
  PROVE  Released(s, TRUE).spent
  <1>1. Released(s, TRUE) = [s EXCEPT !.inflight = FALSE, !.spent = TRUE]
    BY Zenon DEF Released
  <1> QED
    BY <1>1 DEF ClaimState

LEMMA NextDoorTypeOK ==
  ASSUME DoorInv, [Next]_vars
  PROVE  DoorTypeOK' /\ KeysKnown' /\ AnswersFollowCode'
  <1> DEFINE Goal == DoorTypeOK /\ KeysKnown /\ AnswersFollowCode
  <1> USE IdempotencyAssumption, DoorAssumption DEF DoorInv
  <1>0. {"refused", "unavailable"} \subseteq Statuses
    BY DEF Statuses
  <1>a. ASSUME NEW r \in Requests, NEW s \in {"refused", "unavailable"}, pc[r] = "idle",
               Turn(r, Say(s)), orders' = orders, slot' = slot, calm' \in BOOLEAN,
               calm' => calm, grant' \subseteq Tokens,
               state' \in [Tokens -> ClaimState], claimed' = claimed
        PROVE  Goal'
    <2>1. Say(s) \in Response
      BY <1>0, Answers
    <2> QED
      BY <1>a, <2>1 DEF Turn, Answer, Goto, DoorTypeOK, DoorLabels, IdemTypeOK, Labels,
         KeysKnown, KeyedLabels, AnswersFollowCode, Key
  <1>b. ASSUME [IdemNext]_idemVars, UNCHANGED doorVars
        PROVE  Goal'
    BY <1>b, NextIdemTypeOK, NextKeysKnown, NextAnswersFollowCode DEF DoorTypeOK, doorVars
  <1>c. ASSUME slot' = slot, pc' = pc, response' = response, orders' = orders,
               calm' \in BOOLEAN, calm' => calm, grant' \subseteq Tokens,
               state' \in [Tokens -> ClaimState], claimed' \subseteq Requests,
               door' \in [Requests -> DoorLabels]
        PROVE  Goal'
    BY <1>c DEF DoorTypeOK, IdemTypeOK, KeysKnown, AnswersFollowCode, Key
  <1>1. ASSUME NEW r \in Requests, Refuse(r) PROVE Goal'
    BY <1>1, <1>a DEF Refuse, DoorFollowsCode, DoorTypeOK, IdemTypeOK
  <1>2. ASSUME NEW r \in Requests, Validate(r) PROVE Goal'
    BY <1>2, <1>c DEF Validate, DoorTypeOK, IdemTypeOK, idemVars, DoorLabels
  <1>3. ASSUME NEW r \in Requests, DoorFailsOpen(r) PROVE Goal'
    BY <1>3, <1>c DEF DoorFailsOpen, Mishap, Enter, DoorTypeOK, DoorLabels
  <1>4. ASSUME NEW r \in Requests, ClaimOk(r) PROVE Goal'
    <2>1. state' \in [Tokens -> ClaimState]
      <3> DEFINE new == [state[Token(r)] EXCEPT !.user = UserOf[r], !.inflight = TRUE,
                                                !.idem = Key(r)]
      <3>1. Token(r) \in Tokens
        BY <1>4 DEF ClaimOk, DoorFollowsCode
      <3>2. Key(r) \in Keys \cup {NoKey} /\ UserOf[r] \in Users
        BY DEF Key
      <3>3. new \in ClaimState
        BY <3>1, <3>2 DEF DoorTypeOK, ClaimState
      <3> QED
        BY <1>4, <3>1, <3>3 DEF ClaimOk, DoorTypeOK
    <2> QED
      BY <1>4, <2>1, <1>c DEF ClaimOk, Enter, DoorTypeOK, IdemTypeOK, idemVars, DoorLabels
  <1>5. ASSUME NEW r \in Requests, ClaimReplay(r) PROVE Goal'
    BY <1>5, <1>c DEF ClaimReplay, Enter, DoorTypeOK, IdemTypeOK, idemVars, DoorLabels
  <1>6. ASSUME NEW r \in Requests, ClaimRefused(r) PROVE Goal'
    BY <1>6, <1>a DEF ClaimRefused, DoorFollowsCode, DoorTypeOK, IdemTypeOK
  <1>d. ASSUME NEW r \in Requests, NEW b \in BOOLEAN, ReleaseState(r, b)
        PROVE  state' \in [Tokens -> ClaimState] /\ calm' \in BOOLEAN /\ (calm' => calm)
    <2>1. CASE state' = [state EXCEPT ![Token(r)] = Released(@, b)] /\ r \in claimed
               /\ calm' = calm
      <3>1. Released(state[Token(r)], b) \in ClaimState
        BY <2>1, ReleasedType DEF DoorTypeOK, DoorFollowsCode
      <3> QED
        BY <2>1, <3>1 DEF DoorTypeOK, IdemTypeOK
    <2> QED
      BY <1>d, <2>1 DEF ReleaseState, Mishap, DoorTypeOK, IdemTypeOK
  <1>7. ASSUME NEW r \in Requests, LimiterRefuses(r) PROVE Goal'
    BY <1>7, <1>a, <1>d DEF LimiterRefuses, DoorTypeOK
  <1>8. ASSUME NEW r \in Requests, Inner(r) PROVE Goal'
    BY <1>8, <1>b, InnerIsIdem DEF Inner
  <1>9. ASSUME NEW r \in Requests, Leave(r) PROVE Goal'
    <2>1. (response[r].status = "confirmed") \in BOOLEAN
      OBVIOUS
    <2>2. state' \in [Tokens -> ClaimState] /\ calm' \in BOOLEAN /\ (calm' => calm)
      BY <1>9, <2>1, <1>d DEF Leave
    <2> QED
      BY <1>9, <2>2, <1>c DEF Leave, DoorTypeOK, DoorLabels
  <1>10. ASSUME NEW r \in Requests, DoorCrash(r) PROVE Goal'
    BY <1>10, <1>b, InnerIsIdem DEF DoorCrash
  <1>11. ASSUME NEW t \in Tokens, GrantExpires(t) PROVE Goal'
    BY <1>11, <1>c DEF GrantExpires, DoorTypeOK, IdemTypeOK, idemVars
  <1>12. ASSUME NEW t \in Tokens, StateExpires(t) PROVE Goal'
    BY <1>12, <1>c DEF StateExpires, NoState, ClaimState, DoorTypeOK, IdemTypeOK, idemVars
  <1>13. ASSUME NEW k \in Keys, KeyExpires(k) PROVE Goal'
    BY <1>13, <1>b DEF KeyExpires, IdemNext
  <1>14. CASE UNCHANGED vars
    BY <1>14, <1>b DEF vars
  <1> QED
    BY <1>1, <1>2, <1>3, <1>4, <1>5, <1>6, <1>7, <1>8, <1>9, <1>10, <1>11, <1>12,
       <1>13, <1>14 DEF Next, Pass, Over

LEMMA NextDoorFollowsCode ==
  ASSUME DoorInv, [Next]_vars
  PROVE  DoorFollowsCode'
  <1> USE IdempotencyAssumption, DoorAssumption DEF DoorInv, DoorFollowsCode, DoorTypeOK,
          IdemTypeOK, Turn, Answer, Goto, Enter, Mishap, idemVars, doorVars
  <1>0. \A r \in orders : response[r] # NoResponse \/ ~calm
    BY DEF NoResponse
  <1>1. ASSUME NEW r \in Requests, Refuse(r) PROVE DoorFollowsCode'
    BY <1>1, <1>0 DEF Refuse, AnswersFollowCode
  <1>2. ASSUME NEW r \in Requests, Validate(r) PROVE DoorFollowsCode'
    BY <1>2 DEF Validate
  <1>3. ASSUME NEW r \in Requests, DoorFailsOpen(r) PROVE DoorFollowsCode'
    BY <1>3 DEF DoorFailsOpen
  <1>4. ASSUME NEW r \in Requests, ClaimOk(r) PROVE DoorFollowsCode'
    BY <1>4 DEF ClaimOk
  <1>5. ASSUME NEW r \in Requests, ClaimReplay(r) PROVE DoorFollowsCode'
    BY <1>5 DEF ClaimReplay
  <1>6. ASSUME NEW r \in Requests, ClaimRefused(r) PROVE DoorFollowsCode'
    BY <1>6, <1>0 DEF ClaimRefused, AnswersFollowCode
  <1>7. ASSUME NEW r \in Requests, LimiterRefuses(r) PROVE DoorFollowsCode'
    BY <1>7, <1>0 DEF LimiterRefuses, ReleaseState, AnswersFollowCode
  <1>8. ASSUME NEW r \in Requests, Inner(r) PROVE DoorFollowsCode'
    <2>1. InnerEffect(r) /\ UNCHANGED doorVars /\ door[r] = "inside"
      BY <1>8, InnerStep DEF Inner
    <2> QED
      BY <2>1, <1>0 DEF InnerEffect
  <1>9. ASSUME NEW r \in Requests, Leave(r) PROVE DoorFollowsCode'
    BY <1>9 DEF Leave, ReleaseState
  <1>10. ASSUME NEW r \in Requests, DoorCrash(r) PROVE DoorFollowsCode'
    BY <1>10 DEF DoorCrash, Crash
  <1>11. ASSUME NEW t \in Tokens, GrantExpires(t) PROVE DoorFollowsCode'
    BY <1>11 DEF GrantExpires
  <1>12. ASSUME NEW t \in Tokens, StateExpires(t) PROVE DoorFollowsCode'
    BY <1>12 DEF StateExpires
  <1>13. ASSUME NEW k \in Keys, KeyExpires(k) PROVE DoorFollowsCode'
    BY <1>13 DEF KeyExpires, ReservationExpires
  <1>14. CASE UNCHANGED vars
    BY <1>14 DEF vars
  <1> QED
    BY <1>1, <1>2, <1>3, <1>4, <1>5, <1>6, <1>7, <1>8, <1>9, <1>10, <1>11, <1>12,
       <1>13, <1>14 DEF Next, Pass, Over

-----------------------------------------------------------------------------
(* The claim *)

\* Nothing that leaves the requests and the claim of a token alone disturbs it.
LEMMA ClaimUntouched ==
  ASSUME NEW t \in Tokens, OneHolder(t), state'[t] = state[t],
         Holders(t)' = Holders(t), (OrdersOf(t) \cap claimed)' = OrdersOf(t) \cap claimed
  PROVE  OneHolder(t)'
  BY DEF OneHolder

\* A fault is not undone.
LEMMA CalmBefore ==
  ASSUME DoorInv, [Next]_vars, calm'
  PROVE  calm
  <1>1. ASSUME NEW r \in Requests, Inner(r) PROVE calm
    BY <1>1, InnerStep DEF Inner, DoorInv, DoorTypeOK, InnerEffect
  <1> QED
    BY <1>1 DEF Next, Pass, Over, Refuse, Validate, DoorFailsOpen, ClaimOk, ClaimReplay,
       ClaimRefused, LimiterRefuses, ReleaseState, Leave, DoorCrash, Crash, GrantExpires,
       StateExpires, KeyExpires, ReservationExpires, Mishap, idemVars, vars

LEMMA NextOneHolder ==
  ASSUME DoorInv, [Next]_vars, calm, calm', NEW t \in Tokens
  PROVE  OneHolder(t)'
  <1>0. OneHolder(t) /\ Bound(t)
    BY DEF DoorInv
  <1> USE <1>0, IdempotencyAssumption, DoorAssumption DEF DoorInv, DoorFollowsCode,
          DoorTypeOK, IdemTypeOK, Turn, Answer, Goto, Enter, Mishap, idemVars, doorVars
  <1>a. ASSUME state' = state, claimed' = claimed, orders' = orders,
               \A q \in claimed : door'[q] = door[q]
        PROVE  OneHolder(t)'
    BY <1>a, ClaimUntouched DEF Holders, OrdersOf, Token
  <1>1. ASSUME NEW r \in Requests, Refuse(r) PROVE OneHolder(t)'
    BY <1>1, <1>a DEF Refuse
  <1>2. ASSUME NEW r \in Requests, Validate(r) PROVE OneHolder(t)'
    BY <1>2, <1>a DEF Validate
  <1>3. ASSUME NEW r \in Requests, DoorFailsOpen(r) PROVE OneHolder(t)'
    BY <1>3 DEF DoorFailsOpen
  <1>4. ASSUME NEW r \in Requests, ClaimOk(r) PROVE OneHolder(t)'
    <2>1. r \notin orders /\ r \notin claimed /\ orders' = orders
          /\ claimed' = claimed \cup {r}
          /\ \A q \in claimed : door'[q] = door[q]
      BY <1>4 DEF ClaimOk, AnswersFollowCode, NoResponse
    <2>2. CASE Token(r) = t
      <3>1. ~state[t].inflight /\ ~state[t].spent
        BY <1>4, <2>2 DEF ClaimOk, Taken
      <3>2. Holders(t) = {} /\ OrdersOf(t) \cap claimed = {}
        BY <3>1 DEF OneHolder
      <3>3. Holders(t)' \subseteq {r} /\ (OrdersOf(t) \cap claimed)' = {}
        BY <2>1, <3>2 DEF Holders, OrdersOf, Token
      <3>4. state'[t].inflight /\ ~state'[t].spent
        BY <1>4, <2>2, <3>1 DEF ClaimOk, ClaimState
      <3> QED
        BY <3>3, <3>4 DEF OneHolder
    <2>3. CASE Token(r) # t
      <3>1. Holders(t)' = Holders(t) /\ (OrdersOf(t) \cap claimed)' = OrdersOf(t) \cap claimed
        BY <2>1, <2>3 DEF Holders, OrdersOf, Token
      <3>2. state'[t] = state[t]
        BY <1>4, <2>3 DEF ClaimOk
      <3> QED
        BY <3>1, <3>2, ClaimUntouched
    <2> QED
      BY <2>2, <2>3
  <1>5. ASSUME NEW r \in Requests, ClaimReplay(r) PROVE OneHolder(t)'
    BY <1>5, <1>a DEF ClaimReplay
  <1>6. ASSUME NEW r \in Requests, ClaimRefused(r) PROVE OneHolder(t)'
    BY <1>6, <1>a DEF ClaimRefused
  \* Whoever leaves with the claim was its only holder, and spends it if they bought.
  <1>b. ASSUME NEW r \in Requests, NEW b \in BOOLEAN, door[r] = "inside", ReleaseState(r, b),
               door' = [door EXCEPT ![r] = "left"], orders' = orders, claimed' = claimed,
               r \in orders => b
        PROVE  OneHolder(t)'
    <2>1. (OrdersOf(t) \cap claimed)' = OrdersOf(t) \cap claimed
      BY <1>b DEF OrdersOf, Token
    <2>2. Holders(t)' = Holders(t) \ {r}
      BY <1>b DEF Holders, Token
    <2>3. CASE r \in claimed /\ Token(r) = t
      <3>1. r \in Holders(t)
        BY <1>b, <2>3 DEF Holders
      <3>2. Holders(t)' = {}
        BY <2>2, <3>1 DEF OneHolder
      <3>3. state' = [state EXCEPT ![t] = Released(@, b)]
        BY <1>b, <2>3 DEF ReleaseState
      <3>4. b => state'[t].spent
        <4> HAVE b
        <4>1. state'[t] = Released(state[t], b)
          BY <3>3
        <4>2. state'[t] = Released(state[t], TRUE)
          BY <4>1, b = TRUE, Zenon
        <4>3. Released(state[t], TRUE).spent
          BY ConfirmedSpends
        <4> QED
          BY <4>2, <4>3
      <3>5. \A q \in OrdersOf(t) \cap claimed : q = r
        BY <3>1 DEF OneHolder
      <3>6. \A q \in OrdersOf(t) \cap claimed : b
        BY <1>b, <3>5 DEF OrdersOf
      <3> QED
        BY <2>1, <3>2, <3>4, <3>6 DEF OneHolder
    <2>4. CASE ~(r \in claimed /\ Token(r) = t)
      <3>1. r \notin Holders(t) /\ state'[t] = state[t]
        BY <1>b, <2>4 DEF Holders, ReleaseState
      <3>2. Holders(t)' = Holders(t)
        BY <2>2, <3>1
      <3> QED
        BY <2>1, <3>1, <3>2, ClaimUntouched
    <2> QED
      BY <2>3, <2>4
  <1>7. ASSUME NEW r \in Requests, LimiterRefuses(r) PROVE OneHolder(t)'
    <2>1. r \notin orders
      BY <1>7 DEF LimiterRefuses, AnswersFollowCode, NoResponse
    <2> QED
      BY <1>7, <1>b, <2>1 DEF LimiterRefuses
  <1>8. ASSUME NEW r \in Requests, Inner(r) PROVE OneHolder(t)'
    <2>1. InnerEffect(r) /\ UNCHANGED doorVars /\ door[r] = "inside"
      BY <1>8, InnerStep DEF Inner
    <2>2. Holders(t)' = Holders(t) /\ state' = state
      BY <2>1 DEF Holders, Token
    <2>3. CASE r \in claimed /\ Token(r) = t
      <3>1. r \in Holders(t) /\ ~state[t].spent
        BY <2>1, <2>3 DEF Holders, OneHolder
      <3>2. \A q \in OrdersOf(t) \cap claimed : q = r
        BY <3>1 DEF OneHolder
      <3>3. \A q \in (OrdersOf(t) \cap claimed)' : q = r
        BY <2>1, <3>2 DEF InnerEffect, OrdersOf, Token
      <3> QED
        BY <2>2, <3>1, <3>3 DEF OneHolder
    <2>4. CASE ~(r \in claimed /\ Token(r) = t)
      <3>1. (OrdersOf(t) \cap claimed)' = OrdersOf(t) \cap claimed
        BY <2>1, <2>4 DEF InnerEffect, OrdersOf, Token
      <3> QED
        BY <2>2, <3>1, ClaimUntouched
    <2> QED
      BY <2>3, <2>4
  <1>9. ASSUME NEW r \in Requests, Leave(r) PROVE OneHolder(t)'
    <2>1. r \in orders => response[r].status = "confirmed"
      OBVIOUS
    <2>2. (response[r].status = "confirmed") \in BOOLEAN
      OBVIOUS
    <2> QED
      BY <1>9, <1>b, <2>1, <2>2 DEF Leave
  <1>10. ASSUME NEW r \in Requests, DoorCrash(r) PROVE OneHolder(t)'
    BY <1>10 DEF DoorCrash, Crash
  <1>11. ASSUME NEW u \in Tokens, GrantExpires(u) PROVE OneHolder(t)'
    BY <1>11, <1>a DEF GrantExpires
  <1>12. ASSUME NEW u \in Tokens, StateExpires(u) PROVE OneHolder(t)'
    <2>1. Holders(t)' = Holders(t) /\ (OrdersOf(t) \cap claimed)' = OrdersOf(t) \cap claimed
      BY <1>12 DEF StateExpires, Holders, OrdersOf, Token
    <2>2. CASE u = t
      <3>1. Holders(t) = {} /\ ~state[t].spent
        BY <1>12, <2>2 DEF StateExpires, Holders, Behind
      <3>2. OrdersOf(t) \cap claimed = {}
        BY <3>1 DEF OneHolder
      <3> QED
        BY <2>1, <3>1, <3>2 DEF OneHolder
    <2>3. CASE u # t
      BY <1>12, <2>1, <2>3, ClaimUntouched DEF StateExpires
    <2> QED
      BY <2>2, <2>3
  <1>13. ASSUME NEW k \in Keys, KeyExpires(k) PROVE OneHolder(t)'
    BY <1>13, <1>a DEF KeyExpires, ReservationExpires
  <1>14. CASE UNCHANGED vars
    BY <1>14, <1>a DEF vars
  <1> QED
    BY <1>1, <1>2, <1>3, <1>4, <1>5, <1>6, <1>7, <1>8, <1>9, <1>10, <1>11, <1>12,
       <1>13, <1>14 DEF Next, Pass, Over

-----------------------------------------------------------------------------
(* The buyer *)

\* A token whose binding stays, and behind which nobody new is found, stays bound.
LEMMA StaysBound ==
  ASSUME NEW t \in Tokens, Bound(t), state'[t] = state[t], Behind(t)' \subseteq Behind(t)
  PROVE  Bound(t)'
  BY DEF Bound

LEMMA NextBound ==
  ASSUME DoorInv, [Next]_vars, calm, calm', NEW t \in Tokens
  PROVE  Bound(t)'
  <1>0. Bound(t)
    BY DEF DoorInv
  <1> USE <1>0, IdempotencyAssumption, DoorAssumption DEF DoorInv, DoorFollowsCode,
          DoorTypeOK, IdemTypeOK, Turn, Answer, Goto, Enter, Mishap, idemVars, doorVars
  <1>a. ASSUME state' = state, Behind(t)' \subseteq Behind(t)
        PROVE  Bound(t)'
    BY <1>a, StaysBound
  <1>1. ASSUME NEW r \in Requests, Refuse(r) PROVE Bound(t)'
    BY <1>1, <1>a DEF Refuse, Behind, Token
  <1>2. ASSUME NEW r \in Requests, Validate(r) PROVE Bound(t)'
    BY <1>2, <1>a DEF Validate, Behind, Token
  <1>3. ASSUME NEW r \in Requests, DoorFailsOpen(r) PROVE Bound(t)'
    BY <1>3 DEF DoorFailsOpen
  <1>4. ASSUME NEW r \in Requests, ClaimOk(r) PROVE Bound(t)'
    <2>1. CASE Token(r) = t
      <3>1. state'[t].user = UserOf[r]
        BY <1>4, <2>1 DEF ClaimOk, ClaimState
      <3>2. Behind(t)' \subseteq Behind(t) \cup {r}
        BY <1>4 DEF ClaimOk, Behind, Token
      <3>3. \A q \in Behind(t) : UserOf[q] = UserOf[r]
        <4>1. state[t].user = NoUser \/ state[t].user = UserOf[r]
          BY <1>4, <2>1 DEF ClaimOk, OtherBuyer
        <4>2. \A q \in Behind(t) : state[t].user = UserOf[q] /\ UserOf[q] # NoUser
          BY DEF Bound, Behind
        <4> QED
          BY <4>1, <4>2
      <3>4. UserOf[r] # NoUser
        OBVIOUS
      <3> QED
        BY <3>1, <3>2, <3>3, <3>4 DEF Bound
    <2>2. CASE Token(r) # t
      <3>1. state'[t] = state[t] /\ Behind(t)' \subseteq Behind(t)
        BY <1>4, <2>2 DEF ClaimOk, Behind, Token
      <3> QED
        BY <3>1, StaysBound
    <2> QED
      BY <2>1, <2>2
  \* A replay is let in on a token that is in use, by its buyer.
  <1>5. ASSUME NEW r \in Requests, ClaimReplay(r) PROVE Bound(t)'
    <2>1. state' = state /\ Behind(t)' \subseteq Behind(t) \cup {r}
      BY <1>5 DEF ClaimReplay, Behind, Token
    <2>2. Token(r) = t => state[t].user = UserOf[r]
      BY <1>5 DEF ClaimReplay, Bound, OtherBuyer
    <2>3. Token(r) # t => Behind(t)' \subseteq Behind(t)
      BY <1>5 DEF ClaimReplay, Behind, Token
    <2> QED
      BY <2>1, <2>2, <2>3 DEF Bound
  <1>6. ASSUME NEW r \in Requests, ClaimRefused(r) PROVE Bound(t)'
    BY <1>6, <1>a DEF ClaimRefused, Behind, Token
  <1>b. ASSUME NEW r \in Requests, NEW b \in BOOLEAN, ReleaseState(r, b),
               Behind(t)' \subseteq Behind(t) \ {r}, r \in Behind(t) \/ r \notin claimed \/ Token(r) # t
        PROVE  Bound(t)'
    <2>1. CASE state' = [state EXCEPT ![t] = Released(@, b)] /\ Token(r) = t /\ r \in claimed
      <3>1. state'[t].user = state[t].user
        BY <2>1 DEF Released, ClaimState
      <3>2. state[t].user # NoUser
        BY <1>b, <2>1 DEF Bound, Behind
      <3> QED
        BY <1>b, <3>1, <3>2 DEF Bound
    <2>2. CASE state'[t] = state[t]
      BY <1>b, <2>2, StaysBound
    <2> QED
      BY <1>b, <2>1, <2>2 DEF ReleaseState
  <1>7. ASSUME NEW r \in Requests, LimiterRefuses(r) PROVE Bound(t)'
    <2>1. Behind(t)' \subseteq Behind(t) \ {r} /\ (r \in Behind(t) \/ Token(r) # t)
      BY <1>7 DEF LimiterRefuses, Behind, Token
    <2> QED
      BY <1>7, <1>b, <2>1 DEF LimiterRefuses
  <1>8. ASSUME NEW r \in Requests, Inner(r) PROVE Bound(t)'
    BY <1>8, <1>a DEF Inner, Behind, Token
  <1>9. ASSUME NEW r \in Requests, Leave(r) PROVE Bound(t)'
    <2>1. Behind(t)' \subseteq Behind(t) \ {r} /\ (r \in Behind(t) \/ Token(r) # t)
      BY <1>9 DEF Leave, Behind, Token
    <2>2. (response[r].status = "confirmed") \in BOOLEAN
      OBVIOUS
    <2> QED
      BY <1>9, <1>b, <2>1, <2>2 DEF Leave
  <1>10. ASSUME NEW r \in Requests, DoorCrash(r) PROVE Bound(t)'
    BY <1>10 DEF DoorCrash, Crash
  <1>11. ASSUME NEW u \in Tokens, GrantExpires(u) PROVE Bound(t)'
    BY <1>11, <1>a DEF GrantExpires, Behind, Token
  <1>12. ASSUME NEW u \in Tokens, StateExpires(u) PROVE Bound(t)'
    <2>1. Behind(t)' = Behind(t)
      BY <1>12 DEF StateExpires, Behind, Token
    <2>2. CASE u = t
      BY <1>12, <2>1, <2>2 DEF StateExpires, NoState, Bound, Taken
    <2>3. CASE u # t
      BY <1>12, <2>1, <2>3, StaysBound DEF StateExpires
    <2> QED
      BY <2>2, <2>3
  <1>13. ASSUME NEW k \in Keys, KeyExpires(k) PROVE Bound(t)'
    BY <1>13, <1>a DEF KeyExpires, ReservationExpires, Behind, Token
  <1>14. CASE UNCHANGED vars
    BY <1>14, <1>a DEF vars, Behind, Token
  <1> QED
    BY <1>1, <1>2, <1>3, <1>4, <1>5, <1>6, <1>7, <1>8, <1>9, <1>10, <1>11, <1>12,
       <1>13, <1>14 DEF Next, Pass, Over

-----------------------------------------------------------------------------
LEMMA InitDoorInv == Init => DoorInv
  <1> SUFFICES ASSUME Init PROVE DoorInv
    OBVIOUS
  <1>1. IdemTypeOK
    BY InitIdemTypeOK DEF Init
  <1>2. DoorTypeOK
    BY <1>1 DEF Init, DoorTypeOK, NoState, ClaimState, DoorLabels
  <1>3. ASSUME NEW t \in Tokens
        PROVE  OneHolder(t) /\ Bound(t)
    BY <1>3 DEF Init, IdemInit, OneHolder, Bound, Holders, OrdersOf, Behind, NoState, Taken
  <1> QED
    BY <1>2, <1>3 DEF Init, IdemInit, DoorInv, KeysKnown, KeyedLabels, AnswersFollowCode,
       DoorFollowsCode

LEMMA NextDoorInv == DoorInv /\ [Next]_vars => DoorInv'
  <1> SUFFICES ASSUME DoorInv, [Next]_vars PROVE DoorInv'
    OBVIOUS
  <1>1. ASSUME calm', NEW t \in Tokens PROVE OneHolder(t)' /\ Bound(t)'
    BY <1>1, NextOneHolder, NextBound, CalmBefore
  <1> QED
    BY <1>1, NextDoorTypeOK, NextDoorFollowsCode DEF DoorInv

\* The door's variables, and those of the layer behind it, keep their types.
THEOREM DoorTypeCorrect == Spec => []DoorTypeOK
  <1>1. DoorInv => DoorTypeOK
    BY DEF DoorInv
  <1> QED
    BY <1>1, InitDoorInv, NextDoorInv, PTL DEF Spec

\* Whatever the outcomes and the keys, the requests that claim one admission
\* place at most one order, until a fault.
THEOREM OneClaimOnePurchase == Spec => []OnePurchasePerClaim
  <1>1. DoorInv => OnePurchasePerClaim
    <2> SUFFICES ASSUME DoorInv, calm, NEW t \in Tokens
                 PROVE  Cardinality(OrdersOf(t) \cap claimed) <= 1
      BY DEF OnePurchasePerClaim
    <2>1. \A r, q \in OrdersOf(t) \cap claimed : r = q
      BY DEF DoorInv, OneHolder
    <2> QED
      BY <2>1, AtMostOne
  <1> QED
    BY <1>1, InitDoorInv, NextDoorInv, PTL DEF Spec

\* Everybody behind the door on a token, with its claim or as a replay, is the
\* buyer it is bound to, until a fault.
THEOREM OneTokenOneBuyer == Spec => []OneBuyerBehindDoor
  <1>1. DoorInv => OneBuyerBehindDoor
    BY DEF DoorInv, Bound, OneBuyerBehindDoor
  <1> QED
    BY <1>1, InitDoorInv, NextDoorInv, PTL DEF Spec

=============================================================================
