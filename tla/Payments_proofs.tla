-------------------------- MODULE Payments_proofs --------------------------
(***************************************************************************)
(* For every number of orders, calls, webhook handlers and attempts: no    *)
(* order is charged twice, and in a round without resets both counters are *)
(* short of exactly the orders that still hold their unit, unless two      *)
(* calls contend for an order.                                             *)
(***************************************************************************)
EXTENDS Payments, FiniteSetTheorems, WellFoundedInduction, TLAPS

\* A set in which any two members agree has at most one.
LEMMA AtMostOne ==
  ASSUME NEW S, \A x, y \in S : x = y
  PROVE  Cardinality(S) <= 1
  <1>1. CASE S = {}
    BY <1>1, FS_EmptySet
  <1>2. ASSUME NEW x, S = {x}
        PROVE  Cardinality(S) <= 1
    <2>1. Cardinality({x}) = 1
      BY FS_Singleton
    <2> QED
      BY <1>2, <2>1
  <1>3. S = {} \/ \E x : S = {x}
    OBVIOUS
  <1> QED
    BY <1>1, <1>2, <1>3

LEMMA LessLeft ==
  ASSUME NEW n \in Nat, NEW x \in Nat, NEW m \in Nat, n - m <= n - x
  PROVE  x <= m
  OBVIOUS

\* A non-empty set of numbers up to n has a greatest one.
LEMMA HasGreatest ==
  ASSUME NEW n \in Nat, NEW S, S \subseteq 1..n, S # {}
  PROVE  \E m \in S : \A x \in S : x <= m
  <1> DEFINE T == {n - x : x \in S}
             less == OpToRel(<, Nat)
  <1>0. \A x \in S : x \in Nat /\ x <= n /\ n - x \in Nat
    OBVIOUS
  <1>1. T \subseteq Nat /\ T # {}
    BY <1>0
  <1>2. IsWellFoundedOn(less, Nat)
    BY NatLessThanWellFounded
  <1>3. PICK t \in T : \A y \in T : ~ (<<y, t>> \in less)
    <2> HIDE DEF T, less
    <2> QED
      BY <1>1, <1>2, WFMin
  <1>4. \A y \in T : t <= y
    <2>1. ASSUME NEW y \in T, y < t
          PROVE  <<y, t>> \in less
      BY <1>1, <2>1 DEF OpToRel
    <2>2. \A y \in T : ~ (y < t)
      <3> HIDE DEF T, less
      <3> QED
        BY <1>3, <2>1
    <2>3. \A y \in T : y \in Nat /\ t \in Nat
      BY <1>1
    <2> HIDE DEF T
    <2> QED
      BY <2>2, <2>3
  <1>5. PICK m \in S : t = n - m
    OBVIOUS
  <1>6. ASSUME NEW x \in S PROVE x <= m
    <2>1. n - m <= n - x
      BY <1>4, <1>5
    <2> QED
      BY <1>0, <2>1, LessLeft
  <1> HIDE DEF T
  <1> QED
    BY <1>6

-----------------------------------------------------------------------------
(* The invariants *)

\* An attempt somebody has begun.
Used(e) == status[e] # "none" \/ intent[e] # "none" \/ \E c \in Calls : cev[c] = e

\* A call that talks to Stripe has chosen its attempt, and comes back with what
\* the attempt's key settled as.
CallsFollowCode ==
    \A c \in Calls :
        /\ cpc[c] = "idle" => cev[c] = NoEvent
        /\ cpc[c] \in {"charge", "upsert"} => cev[c] \in Events
        /\ cpc[c] = "upsert" => craw[c] = intent[cev[c]] /\ craw[c] \in RawStatuses

\* A webhook handler at work has an event.
HooksBusy == \A h \in Hooks : hpc[h] # "idle" => hev[h] \in Events

\* A row says "failed" only of a declined intent.
FailedIsDeclined ==
    \A e \in Events : status[e] = "failed" => intent[e] = "requires_payment_method"

\* Nobody begins an attempt before all earlier ones of the order were declined.
EarlierDeclined ==
    \A o \in Orders : \A a, b \in Attempts :
        Used(<<o, a>>) /\ b < a => intent[<<o, b>>] = "requires_payment_method"

ChargeInv ==
    TypeOK /\ CallsFollowCode /\ HooksBusy /\ FailedIsDeclined /\ EarlierDeclined

\* At most one call went to Stripe for the order.
Alone(o) == \A c, d \in Callers(o) : c = d

\* The handler has yet to give a unit back.
Releasing(h) == hpc[h] \in {"release", "apply"}

\* A row comes from a call that is over, for an order that was placed; in the
\* first round it still counts.
RowsFollowCalls ==
    /\ \A e \in Events : status[e] # "none" => \E c \in Calls : cev[c] = e /\ cpc[c] = "done"
    /\ \A c \in Calls : cev[c] # NoEvent => cev[c] \in Events /\ place[cev[c][1]] # "new"
    /\ resets = 0 => \A o \in Orders : place[o] # "past"

\* The event has a row, and the handler works on inventory only for an order that
\* took its unit from there.
HooksFollowCode ==
    \A h \in Hooks :
        /\ hpc[h] # "idle" => status[hev[h]] # "none"
        /\ hpc[h] = "apply" => TakesRow(strategy[HookOrder(h)])

\* The failure of an order that no two calls contend for is applied once: one
\* handler gives its unit back, and only if nobody has.
OneRelease(o) ==
    /\ \A h \in Hooks : Releasing(h) /\ HookOrder(h) = o =>
           status[hev[h]] = "failed" /\ released[o] = 0
    /\ \A h, g \in Hooks : Releasing(h) /\ Releasing(g) /\ HookOrder(h) = o /\ HookOrder(g) = o
           => h = g
    /\ released[o] > 0 => \E a \in Attempts : status[<<o, a>>] = "failed"

RowHolders     == {o \in Holding : TakesRow(strategy[o])}
CounterHolders == {o \in Holding : strategy[o] = "redis"}

Ledger ==
    resets = 0 /\ (\A o \in Orders : Alone(o)) =>
        /\ reserved = Cardinality(RowHolders)
        /\ counter = Cardinality(Orders) - Cardinality(CounterHolders)

StockInv ==
    /\ ChargeInv
    /\ RowsFollowCalls
    /\ HooksFollowCode
    /\ \A o \in Orders : Alone(o) => OneRelease(o)
    /\ Ledger

-----------------------------------------------------------------------------
(* Attempts *)

\* Latest is the greatest attempt of an order that has a row.
LEMMA LatestRow ==
  ASSUME NEW o \in Orders
  PROVE  \/ /\ Latest(o) = 0
            /\ \A a \in Attempts : status[<<o, a>>] = "none"
         \/ /\ Latest(o) \in Attempts
            /\ status[<<o, Latest(o)>>] # "none"
            /\ \A b \in Attempts : status[<<o, b>>] # "none" => b <= Latest(o)
  <1> DEFINE rows == {a \in Attempts : status[<<o, a>>] # "none"}
  <1>1. CASE rows = {}
    BY <1>1 DEF Latest
  <1>2. CASE rows # {}
    <2>1. \E m \in rows : \A b \in rows : b <= m
      BY <1>2, HasGreatest, PaymentsAssumption DEF Attempts
    <2>2. Latest(o) = CHOOSE a \in rows : \A b \in rows : b <= a
      BY <1>2 DEF Latest
    <2>3. Latest(o) \in rows /\ \A b \in rows : b <= Latest(o)
      <3> HIDE DEF rows
      <3> QED
        BY <2>1, <2>2
    <2> QED
      BY <2>3
  <1> QED
    BY <1>1, <1>2

-----------------------------------------------------------------------------
(* Type correctness *)

LEMMA InitTypeOK == Init => TypeOK
  BY FS_CardinalityType, PaymentsAssumption DEF Init, TypeOK, Statuses

LEMMA NextTypeOK ==
  ASSUME TypeOK, HooksBusy, [Next]_vars
  PROVE  TypeOK' /\ HooksBusy'
  <1> DEFINE Types == TypeOK /\ HooksBusy
  <1> USE PaymentsAssumption DEF TypeOK, HooksBusy, stockVars, callVars, hookVars, CallGoto, HookGoto,
          HookEnd, GivesBack, Stamp
  <1>1. ASSUME NEW o \in Orders, NEW s \in Strategies, Confirm(o, s) PROVE Types'
    BY <1>1 DEF Confirm
  <1>2. ASSUME Reset PROVE Types'
    BY <1>2, FS_CardinalityType DEF Reset
  <1>3. ASSUME NEW c \in Calls, NEW o \in Orders, CreateBegin(c, o) PROVE Types'
    BY <1>3 DEF CreateBegin, Events
  <1>4. ASSUME NEW c \in Calls, CreateCached(c) PROVE Types'
    BY <1>4 DEF CreateCached
  <1>5. ASSUME NEW c \in Calls, Charge(c) PROVE Types'
    <2>1. PICK s \in RawStatuses : /\ intent' = [intent EXCEPT ![cev[c]] = s]
                                   /\ craw' = [craw EXCEPT ![c] = s]
      BY <1>5 DEF Charge
    <2>2. s \in Statuses
      BY DEF Statuses
    <2>3. intent' \in [Events -> {"none"} \cup RawStatuses] /\ craw' \in [Calls -> Statuses]
      BY <2>1, <2>2
    <2> QED
      BY <1>5, <2>3 DEF Charge
  <1>6. ASSUME NEW c \in Calls, ChargeError(c) PROVE Types'
    BY <1>6 DEF ChargeError
  <1>7. ASSUME NEW c \in Calls, Upsert(c) PROVE Types'
    BY <1>7 DEF Upsert
  <1>8. ASSUME NEW c \in Calls, CallCrash(c) PROVE Types'
    BY <1>8 DEF CallCrash
  <1>9. ASSUME NEW h \in Hooks, NEW e \in Events, WebhookTooEarly(h, e) PROVE Types'
    BY <1>9 DEF WebhookTooEarly, vars
  <1>10. ASSUME NEW h \in Hooks, NEW e \in Events, WebhookRepeated(h, e) PROVE Types'
    BY <1>10 DEF WebhookRepeated
  <1>11. ASSUME NEW h \in Hooks, NEW e \in Events, WebhookApply(h, e) PROVE Types'
    BY <1>11 DEF WebhookApply, Settles, Statuses, RawStatuses
  <1>12. ASSUME NEW h \in Hooks, ReadReserved(h) PROVE Types'
    BY <1>12 DEF ReadReserved
  <1>13. ASSUME NEW h \in Hooks, ReleaseRow(h) PROVE Types'
    <2>1. hev[h] \in Events /\ HookOrder(h) \in Orders
      BY <1>13 DEF ReleaseRow, HookOrder, Events
    <2> QED
      BY <1>13, <2>1 DEF ReleaseRow
  <1>14. ASSUME NEW h \in Hooks, ReleaseRefused(h) PROVE Types'
    BY <1>14 DEF ReleaseRefused
  <1>15. ASSUME NEW h \in Hooks, ReleaseCounter(h) PROVE Types'
    <2>1. hev[h] \in Events /\ HookOrder(h) \in Orders
      BY <1>15 DEF ReleaseCounter, HookOrder, Events
    <2> QED
      BY <1>15, <2>1 DEF ReleaseCounter
  <1>16. ASSUME NEW h \in Hooks, ReleaseNothing(h) PROVE Types'
    BY <1>16 DEF ReleaseNothing
  <1>17. ASSUME NEW h \in Hooks, StampReleased(h) PROVE Types'
    <2>1. hev[h] \in Events /\ HookOrder(h) \in Orders
      BY <1>17 DEF StampReleased, HookOrder, Events
    <2> QED
      BY <1>17, <2>1 DEF StampReleased
  <1>18. ASSUME NEW h \in Hooks, HookCrash(h) PROVE Types'
    BY <1>18 DEF HookCrash
  <1>19. ASSUME UNCHANGED vars PROVE Types'
    BY <1>19 DEF vars
  <1> QED
    BY <1>1, <1>2, <1>3, <1>4, <1>5, <1>6, <1>7, <1>8, <1>9, <1>10, <1>11,
       <1>12, <1>13, <1>14, <1>15, <1>16, <1>17, <1>18, <1>19
       DEF Next, Create, Deliver, Release, Settled

-----------------------------------------------------------------------------
(* No order is charged twice *)

LEMMA NextCallsFollowCode ==
  ASSUME TypeOK, CallsFollowCode, [Next]_vars
  PROVE  CallsFollowCode'
  <1> USE PaymentsAssumption DEF TypeOK, CallsFollowCode, stockVars, callVars, hookVars,
          CallGoto, HookGoto, HookEnd, RawStatuses
  <1>1. ASSUME NEW o \in Orders, NEW s \in Strategies, Confirm(o, s) PROVE CallsFollowCode'
    BY <1>1 DEF Confirm
  <1>2. ASSUME Reset PROVE CallsFollowCode'
    BY <1>2 DEF Reset
  <1>3. ASSUME NEW c \in Calls, NEW o \in Orders, CreateBegin(c, o) PROVE CallsFollowCode'
    BY <1>3 DEF CreateBegin, Events
  <1>4. ASSUME NEW c \in Calls, CreateCached(c) PROVE CallsFollowCode'
    BY <1>4 DEF CreateCached
  <1>5. ASSUME NEW c \in Calls, Charge(c) PROVE CallsFollowCode'
    BY <1>5 DEF Charge
  <1>6. ASSUME NEW c \in Calls, ChargeError(c) PROVE CallsFollowCode'
    BY <1>6 DEF ChargeError
  <1>7. ASSUME NEW c \in Calls, Upsert(c) PROVE CallsFollowCode'
    BY <1>7 DEF Upsert
  <1>8. ASSUME NEW c \in Calls, CallCrash(c) PROVE CallsFollowCode'
    BY <1>8 DEF CallCrash
  <1>9. ASSUME NEW h \in Hooks, NEW e \in Events, WebhookTooEarly(h, e) PROVE CallsFollowCode'
    BY <1>9 DEF WebhookTooEarly, vars
  <1>10. ASSUME NEW h \in Hooks, NEW e \in Events, WebhookRepeated(h, e) PROVE CallsFollowCode'
    BY <1>10 DEF WebhookRepeated
  <1>11. ASSUME NEW h \in Hooks, NEW e \in Events, WebhookApply(h, e) PROVE CallsFollowCode'
    BY <1>11 DEF WebhookApply
  <1>12. ASSUME NEW h \in Hooks, ReadReserved(h) PROVE CallsFollowCode'
    BY <1>12 DEF ReadReserved
  <1>13. ASSUME NEW h \in Hooks, ReleaseRow(h) PROVE CallsFollowCode'
    BY <1>13 DEF ReleaseRow
  <1>14. ASSUME NEW h \in Hooks, ReleaseRefused(h) PROVE CallsFollowCode'
    BY <1>14 DEF ReleaseRefused
  <1>15. ASSUME NEW h \in Hooks, ReleaseCounter(h) PROVE CallsFollowCode'
    BY <1>15 DEF ReleaseCounter
  <1>16. ASSUME NEW h \in Hooks, ReleaseNothing(h) PROVE CallsFollowCode'
    BY <1>16 DEF ReleaseNothing
  <1>17. ASSUME NEW h \in Hooks, StampReleased(h) PROVE CallsFollowCode'
    BY <1>17 DEF StampReleased
  <1>18. ASSUME NEW h \in Hooks, HookCrash(h) PROVE CallsFollowCode'
    BY <1>18 DEF HookCrash
  <1>19. ASSUME UNCHANGED vars PROVE CallsFollowCode'
    BY <1>19 DEF vars
  <1> QED
    BY <1>1, <1>2, <1>3, <1>4, <1>5, <1>6, <1>7, <1>8, <1>9, <1>10, <1>11,
       <1>12, <1>13, <1>14, <1>15, <1>16, <1>17, <1>18, <1>19
       DEF Next, Create, Deliver, Release, Settled

\* Only Charge touches an intent, and it settles it for good.
LEMMA IntentSettles ==
  ASSUME TypeOK, CallsFollowCode, [Next]_vars, NEW e \in Events, intent[e] # "none"
  PROVE  intent'[e] = intent[e]
  <1> USE DEF TypeOK, CallsFollowCode, stockVars, callVars, hookVars
  <1>1. ASSUME NEW o \in Orders, NEW s \in Strategies, Confirm(o, s) PROVE intent'[e] = intent[e]
    BY <1>1 DEF Confirm
  <1>2. ASSUME Reset PROVE intent'[e] = intent[e]
    BY <1>2 DEF Reset
  <1>3. ASSUME NEW c \in Calls, NEW o \in Orders, CreateBegin(c, o) PROVE intent'[e] = intent[e]
    BY <1>3 DEF CreateBegin
  <1>4. ASSUME NEW c \in Calls, CreateCached(c) PROVE intent'[e] = intent[e]
    BY <1>4 DEF CreateCached
  <1>5. ASSUME NEW c \in Calls, Charge(c) PROVE intent'[e] = intent[e]
    BY <1>5 DEF Charge
  <1>6. ASSUME NEW c \in Calls, ChargeError(c) PROVE intent'[e] = intent[e]
    BY <1>6 DEF ChargeError
  <1>7. ASSUME NEW c \in Calls, Upsert(c) PROVE intent'[e] = intent[e]
    BY <1>7 DEF Upsert
  <1>8. ASSUME NEW c \in Calls, CallCrash(c) PROVE intent'[e] = intent[e]
    BY <1>8 DEF CallCrash
  <1>9. ASSUME NEW h \in Hooks, NEW f \in Events, WebhookTooEarly(h, f) PROVE intent'[e] = intent[e]
    BY <1>9 DEF WebhookTooEarly, vars
  <1>10. ASSUME NEW h \in Hooks, NEW f \in Events, WebhookRepeated(h, f) PROVE intent'[e] = intent[e]
    BY <1>10 DEF WebhookRepeated
  <1>11. ASSUME NEW h \in Hooks, NEW f \in Events, WebhookApply(h, f) PROVE intent'[e] = intent[e]
    BY <1>11 DEF WebhookApply
  <1>12. ASSUME NEW h \in Hooks, ReadReserved(h) PROVE intent'[e] = intent[e]
    BY <1>12 DEF ReadReserved
  <1>13. ASSUME NEW h \in Hooks, ReleaseRow(h) PROVE intent'[e] = intent[e]
    BY <1>13 DEF ReleaseRow
  <1>14. ASSUME NEW h \in Hooks, ReleaseRefused(h) PROVE intent'[e] = intent[e]
    BY <1>14 DEF ReleaseRefused
  <1>15. ASSUME NEW h \in Hooks, ReleaseCounter(h) PROVE intent'[e] = intent[e]
    BY <1>15 DEF ReleaseCounter
  <1>16. ASSUME NEW h \in Hooks, ReleaseNothing(h) PROVE intent'[e] = intent[e]
    BY <1>16 DEF ReleaseNothing
  <1>17. ASSUME NEW h \in Hooks, StampReleased(h) PROVE intent'[e] = intent[e]
    BY <1>17 DEF StampReleased
  <1>18. ASSUME NEW h \in Hooks, HookCrash(h) PROVE intent'[e] = intent[e]
    BY <1>18 DEF HookCrash
  <1>19. ASSUME UNCHANGED vars PROVE intent'[e] = intent[e]
    BY <1>19 DEF vars
  <1> QED
    BY <1>1, <1>2, <1>3, <1>4, <1>5, <1>6, <1>7, <1>8, <1>9, <1>10, <1>11,
       <1>12, <1>13, <1>14, <1>15, <1>16, <1>17, <1>18, <1>19
       DEF Next, Create, Deliver, Release, Settled

\* A row is marked "failed" by the event of a declined intent only.
LEMMA NextFailedIsDeclined ==
  ASSUME ChargeInv, [Next]_vars
  PROVE  FailedIsDeclined'
  <1> SUFFICES ASSUME NEW e \in Events, status'[e] = "failed"
               PROVE  intent'[e] = "requires_payment_method"
    BY DEF FailedIsDeclined
  <1> DEFINE Old == status[e] = "failed" \/ (intent[e] = "requires_payment_method")
  <1> USE DEF ChargeInv, TypeOK, stockVars, callVars, hookVars
  <1>1. ASSUME NEW o \in Orders, NEW s \in Strategies, Confirm(o, s) PROVE Old
    BY <1>1 DEF Confirm
  <1>2. ASSUME Reset PROVE Old
    BY <1>2 DEF Reset
  <1>3. ASSUME NEW c \in Calls, NEW o \in Orders, CreateBegin(c, o) PROVE Old
    BY <1>3 DEF CreateBegin
  <1>4. ASSUME NEW c \in Calls, CreateCached(c) PROVE Old
    BY <1>4 DEF CreateCached
  <1>5. ASSUME NEW c \in Calls, Charge(c) PROVE Old
    BY <1>5 DEF Charge
  <1>6. ASSUME NEW c \in Calls, ChargeError(c) PROVE Old
    BY <1>6 DEF ChargeError
  <1>7. ASSUME NEW c \in Calls, Upsert(c) PROVE Old
    BY <1>7 DEF Upsert, CallsFollowCode, RawStatuses
  <1>8. ASSUME NEW c \in Calls, CallCrash(c) PROVE Old
    BY <1>8 DEF CallCrash
  <1>9. ASSUME NEW h \in Hooks, NEW f \in Events, WebhookTooEarly(h, f) PROVE Old
    BY <1>9 DEF WebhookTooEarly, vars
  <1>10. ASSUME NEW h \in Hooks, NEW f \in Events, WebhookRepeated(h, f) PROVE Old
    BY <1>10 DEF WebhookRepeated
  <1>11. ASSUME NEW h \in Hooks, NEW f \in Events, WebhookApply(h, f) PROVE Old
    BY <1>11 DEF WebhookApply, Deliverable, Settles, RawStatuses
  <1>12. ASSUME NEW h \in Hooks, ReadReserved(h) PROVE Old
    BY <1>12 DEF ReadReserved
  <1>13. ASSUME NEW h \in Hooks, ReleaseRow(h) PROVE Old
    BY <1>13 DEF ReleaseRow
  <1>14. ASSUME NEW h \in Hooks, ReleaseRefused(h) PROVE Old
    BY <1>14 DEF ReleaseRefused
  <1>15. ASSUME NEW h \in Hooks, ReleaseCounter(h) PROVE Old
    BY <1>15 DEF ReleaseCounter
  <1>16. ASSUME NEW h \in Hooks, ReleaseNothing(h) PROVE Old
    BY <1>16 DEF ReleaseNothing
  <1>17. ASSUME NEW h \in Hooks, StampReleased(h) PROVE Old
    BY <1>17 DEF StampReleased
  <1>18. ASSUME NEW h \in Hooks, HookCrash(h) PROVE Old
    BY <1>18 DEF HookCrash
  <1>19. ASSUME UNCHANGED vars PROVE Old
    BY <1>19 DEF vars
  <1>20. Old
    BY <1>1, <1>2, <1>3, <1>4, <1>5, <1>6, <1>7, <1>8, <1>9, <1>10, <1>11,
       <1>12, <1>13, <1>14, <1>15, <1>16, <1>17, <1>18, <1>19
       DEF Next, Create, Deliver, Release, Settled
  <1>21. intent[e] = "requires_payment_method"
    BY <1>20 DEF FailedIsDeclined
  <1> QED
    BY <1>21, IntentSettles

\* An attempt is begun by CreateBegin, and by nothing else.
LEMMA UsedBefore ==
  ASSUME ChargeInv, [Next]_vars, NEW e \in Events, Used(e)',
         \A c \in Calls, o \in Orders : ~ CreateBegin(c, o)
  PROVE  Used(e)
  <1> USE DEF ChargeInv, TypeOK, Used, stockVars, callVars, hookVars, CallsFollowCode
  <1>1. ASSUME NEW o \in Orders, NEW s \in Strategies, Confirm(o, s) PROVE Used(e)
    BY <1>1 DEF Confirm
  <1>2. ASSUME Reset PROVE Used(e)
    BY <1>2 DEF Reset
  <1>3. ASSUME NEW c \in Calls, NEW o \in Orders, CreateBegin(c, o) PROVE Used(e)
    BY <1>3
  <1>4. ASSUME NEW c \in Calls, CreateCached(c) PROVE Used(e)
    BY <1>4 DEF CreateCached
  <1>5. ASSUME NEW c \in Calls, Charge(c) PROVE Used(e)
    BY <1>5 DEF Charge
  <1>6. ASSUME NEW c \in Calls, ChargeError(c) PROVE Used(e)
    BY <1>6 DEF ChargeError
  <1>7. ASSUME NEW c \in Calls, Upsert(c) PROVE Used(e)
    BY <1>7 DEF Upsert
  <1>8. ASSUME NEW c \in Calls, CallCrash(c) PROVE Used(e)
    BY <1>8 DEF CallCrash
  <1>9. ASSUME NEW h \in Hooks, NEW f \in Events, WebhookTooEarly(h, f) PROVE Used(e)
    BY <1>9 DEF WebhookTooEarly, vars
  <1>10. ASSUME NEW h \in Hooks, NEW f \in Events, WebhookRepeated(h, f) PROVE Used(e)
    BY <1>10 DEF WebhookRepeated
  <1>11. ASSUME NEW h \in Hooks, NEW f \in Events, WebhookApply(h, f) PROVE Used(e)
    BY <1>11 DEF WebhookApply
  <1>12. ASSUME NEW h \in Hooks, ReadReserved(h) PROVE Used(e)
    BY <1>12 DEF ReadReserved
  <1>13. ASSUME NEW h \in Hooks, ReleaseRow(h) PROVE Used(e)
    BY <1>13 DEF ReleaseRow
  <1>14. ASSUME NEW h \in Hooks, ReleaseRefused(h) PROVE Used(e)
    BY <1>14 DEF ReleaseRefused
  <1>15. ASSUME NEW h \in Hooks, ReleaseCounter(h) PROVE Used(e)
    BY <1>15 DEF ReleaseCounter
  <1>16. ASSUME NEW h \in Hooks, ReleaseNothing(h) PROVE Used(e)
    BY <1>16 DEF ReleaseNothing
  <1>17. ASSUME NEW h \in Hooks, StampReleased(h) PROVE Used(e)
    BY <1>17 DEF StampReleased
  <1>18. ASSUME NEW h \in Hooks, HookCrash(h) PROVE Used(e)
    BY <1>18 DEF HookCrash
  <1>19. ASSUME UNCHANGED vars PROVE Used(e)
    BY <1>19 DEF vars
  <1> QED
    BY <1>1, <1>2, <1>3, <1>4, <1>5, <1>6, <1>7, <1>8, <1>9, <1>10, <1>11,
       <1>12, <1>13, <1>14, <1>15, <1>16, <1>17, <1>18, <1>19
       DEF Next, Create, Deliver, Release, Settled

LEMMA NextEarlierDeclined ==
  ASSUME ChargeInv, [Next]_vars
  PROVE  EarlierDeclined'
  <1> SUFFICES ASSUME NEW o \in Orders, NEW a \in Attempts, NEW b \in Attempts,
                      Used(<<o, a>>)', b < a
               PROVE  intent'[<<o, b>>] = "requires_payment_method"
    BY DEF EarlierDeclined
  <1>1. <<o, a>> \in Events /\ <<o, b>> \in Events
    BY DEF Events
  <1>2. intent[<<o, b>>] = "requires_payment_method"
    <2>1. CASE Used(<<o, a>>)
      BY <2>1 DEF ChargeInv, EarlierDeclined
    <2>2. ASSUME NEW c \in Calls, NEW p \in Orders, CreateBegin(c, p), ~ Used(<<o, a>>)
          PROVE  intent[<<o, b>>] = "requires_payment_method"
      <3>1. status' = status /\ intent' = intent
            /\ cev' = [cev EXCEPT ![c] = <<p, NextAttempt(p)>>]
        BY <2>2 DEF CreateBegin
      <3>2. p = o /\ a = NextAttempt(o)
        BY <2>2, <3>1 DEF Used, ChargeInv, TypeOK
      <3>3. ~ (Latest(o) # 0 /\ status[<<o, Latest(o)>>] # "failed")
        <4> SUFFICES ASSUME Latest(o) # 0, status[<<o, Latest(o)>>] # "failed"
                     PROVE  FALSE
          OBVIOUS
        <4>1. a = Latest(o)
          BY <3>2 DEF NextAttempt
        <4> QED
          BY <2>2, <4>1, LatestRow DEF Used
      <3>4. CASE Latest(o) = 0
        BY <3>2, <3>4 DEF NextAttempt, Attempts
      <3>5. CASE Latest(o) # 0 /\ status[<<o, Latest(o)>>] = "failed"
        <4>1. a = Latest(o) + 1 /\ Latest(o) \in Attempts
          BY <3>2, <3>5, LatestRow DEF NextAttempt
        <4>2. <<o, Latest(o)>> \in Events /\ Used(<<o, Latest(o)>>)
          BY <3>5, <4>1 DEF Events, Used
        <4>3. CASE b = Latest(o)
          BY <3>5, <4>2, <4>3 DEF ChargeInv, FailedIsDeclined
        <4>4. CASE b < Latest(o)
          BY <4>1, <4>2, <4>4 DEF ChargeInv, EarlierDeclined
        <4>5. b = Latest(o) \/ b < Latest(o)
          BY <4>1 DEF Attempts
        <4> QED
          BY <4>3, <4>4, <4>5
      <3> QED
        BY <3>3, <3>4, <3>5
    <2> QED
      BY <1>1, <2>1, <2>2, UsedBefore
  <1> QED
    BY <1>1, <1>2, IntentSettles DEF ChargeInv

LEMMA InitChargeInv == Init => ChargeInv
  <1> SUFFICES ASSUME Init PROVE ChargeInv
    OBVIOUS
  <1>1. CallsFollowCode /\ HooksBusy
    BY DEF Init, CallsFollowCode, HooksBusy
  <1>2. FailedIsDeclined
    BY DEF Init, FailedIsDeclined
  <1>3. ASSUME NEW e \in Events PROVE ~ Used(e)
    BY NoEventAssumption DEF Init, Used
  <1>4. EarlierDeclined
    BY <1>3 DEF EarlierDeclined, Events
  <1> QED
    BY <1>1, <1>2, <1>4, InitTypeOK DEF ChargeInv

LEMMA NextChargeInv == ChargeInv /\ [Next]_vars => ChargeInv'
  BY NextTypeOK, NextCallsFollowCode, NextFailedIsDeclined, NextEarlierDeclined DEF ChargeInv

\* The variables of the payments module keep their types.
THEOREM PaymentsTypeCorrect == Spec => []TypeOK
  <1>1. ChargeInv => TypeOK
    BY DEF ChargeInv
  <1> QED
    BY <1>1, InitChargeInv, NextChargeInv, PTL DEF Spec

\* No order is charged twice, however many calls are made for it, wherever they
\* die, and however its events are delivered.
THEOREM ChargedOnce == Spec => []PaidOnce
  <1>1. ChargeInv => PaidOnce
    <2> SUFFICES ASSUME ChargeInv, NEW o \in Orders
                 PROVE  Cardinality({a \in Attempts : intent[<<o, a>>] = "succeeded"}) <= 1
      BY DEF PaidOnce
    <2> DEFINE paid == {a \in Attempts : intent[<<o, a>>] = "succeeded"}
    <2>1. ASSUME NEW a \in paid, NEW b \in paid, b < a
          PROVE  FALSE
      BY <2>1 DEF ChargeInv, EarlierDeclined, Used
    <2>2. \A a, b \in paid : a = b
      BY <2>1 DEF Attempts
    <2> QED
      BY <2>2, AtMostOne
  <1> QED
    BY <1>1, InitChargeInv, NextChargeInv, PTL DEF Spec

-----------------------------------------------------------------------------
(* The steps, by what they do to stock *)

\* Neither stock, rows, callers nor webhook handlers change.
Quiet ==
    /\ UNCHANGED <<status, stockVars, cev, hpc, hev, resets>>
    /\ \A c \in Calls : cpc[c] = "done" => cpc'[c] = "done"

\* A handler goes on or stops; it reaches "apply" only for a unit of inventory.
Moves(h) ==
    /\ UNCHANGED <<status, stockVars, cpc, cev, resets>>
    /\ hpc[h] # "idle"
    /\ \/ HookEnd(h)
       \/ HookGoto(h, "stamp", hev[h])
       \/ /\ hpc[h] = "release"
          /\ TakesRow(strategy[HookOrder(h)])
          /\ HookGoto(h, "apply", hev[h])

LEMMA TargetOf ==
  ASSUME NEW x
  PROVE  /\ Target(x) = "row" => TakesRow(x)
         /\ Target(x) = "counter" => x = "redis" /\ ~ TakesRow(x)
  BY DEF Target, TakesRow

LEMMA StockSteps ==
  ASSUME TypeOK, [Next]_vars
  PROVE  \/ Quiet
         \/ \E h \in Hooks : Moves(h)
         \/ \E o \in Orders, s \in Strategies : Confirm(o, s)
         \/ Reset
         \/ \E c \in Calls, o \in Orders : CreateBegin(c, o)
         \/ \E c \in Calls : Upsert(c)
         \/ \E h \in Hooks, e \in Events : WebhookApply(h, e)
         \/ \E h \in Hooks : ReleaseRow(h) \/ ReleaseCounter(h)
  <1> USE DEF TypeOK, stockVars, callVars, hookVars
  <1>1. ASSUME NEW c \in Calls, CreateCached(c) \/ ChargeError(c) \/ CallCrash(c)
        PROVE  Quiet
    BY <1>1 DEF CreateCached, ChargeError, CallCrash, Quiet, CallGoto
  <1>2. ASSUME NEW c \in Calls, Charge(c) PROVE Quiet
    BY <1>2 DEF Charge, Quiet, CallGoto
  <1>3. ASSUME NEW h \in Hooks, NEW e \in Events, WebhookTooEarly(h, e) \/ WebhookRepeated(h, e)
        PROVE  Quiet
    BY <1>3 DEF WebhookTooEarly, WebhookRepeated, Quiet, vars
  <1>4. ASSUME UNCHANGED vars PROVE Quiet
    BY <1>4 DEF vars, Quiet
  <1>5. ASSUME NEW h \in Hooks, ReadReserved(h) PROVE Moves(h)
    BY <1>5, TargetOf DEF ReadReserved, Moves
  <1>6. ASSUME NEW h \in Hooks, ReleaseRefused(h) \/ ReleaseNothing(h)
        PROVE  Moves(h)
    BY <1>6 DEF ReleaseRefused, ReleaseNothing, Moves
  <1>7. ASSUME NEW h \in Hooks, StampReleased(h) \/ HookCrash(h)
        PROVE  Moves(h)
    BY <1>7 DEF StampReleased, HookCrash, Moves
  <1> QED
    BY <1>1, <1>2, <1>3, <1>4, <1>5, <1>6, <1>7 DEF Next, Create, Deliver, Release, Settled

-----------------------------------------------------------------------------
(* Both counters *)

\* Whoever went to Stripe for an order stays among its callers.
LEMMA AloneBefore ==
  ASSUME ChargeInv, [Next]_vars, NEW o \in Orders, Alone(o)'
  PROVE  Alone(o)
  <1> USE DEF ChargeInv, TypeOK, CallsFollowCode, stockVars
  <1>1. \A c \in Calls : cev[c] # NoEvent => cev'[c] = cev[c]
    <2>1. CASE \E c \in Calls, p \in Orders : CreateBegin(c, p)
      BY <2>1 DEF CreateBegin
    <2>2. CASE cev' = cev
      BY <2>2
    <2>3. (\E c \in Calls, p \in Orders : CreateBegin(c, p)) \/ cev' = cev
      BY StockSteps DEF Quiet, Moves, Confirm, Reset, Upsert, WebhookApply, ReleaseRow,
                        ReleaseCounter, callVars
    <2> QED
      BY <2>1, <2>2, <2>3
  <1> QED
    BY <1>1 DEF Alone, Callers

LEMMA NextRowsFollowCalls ==
  ASSUME StockInv, [Next]_vars
  PROVE  RowsFollowCalls'
  <1> USE DEF StockInv, ChargeInv, TypeOK, RowsFollowCalls, CallsFollowCode, stockVars, callVars,
          hookVars, CallGoto
  <1>1. ASSUME Quiet PROVE RowsFollowCalls'
    BY <1>1 DEF Quiet
  <1>2. ASSUME NEW h \in Hooks, Moves(h) PROVE RowsFollowCalls'
    BY <1>2 DEF Moves
  <1>3. ASSUME NEW o \in Orders, NEW s \in Strategies, Confirm(o, s) PROVE RowsFollowCalls'
    BY <1>3 DEF Confirm, Events
  <1>4. ASSUME Reset PROVE RowsFollowCalls'
    BY <1>4 DEF Reset, Events
  <1>5. ASSUME NEW c \in Calls, NEW o \in Orders, CreateBegin(c, o) PROVE RowsFollowCalls'
    <2>1. /\ cev' = [cev EXCEPT ![c] = <<o, NextAttempt(o)>>]
          /\ cpc' = [cpc EXCEPT ![c] = "charge"]
          /\ cpc[c] = "idle" /\ cev[c] = NoEvent
          /\ place[o] # "new" /\ NextAttempt(o) \in Attempts
          /\ UNCHANGED <<status, place, resets>>
      BY <1>5 DEF CreateBegin
    <2>2. \A e \in Events : status[e] # "none" =>
              \E d \in Calls : cev'[d] = e /\ cpc'[d] = "done"
      BY <2>1
    <2>3. \A d \in Calls : cev'[d] # NoEvent =>
              cev'[d] \in Events /\ place[cev'[d][1]] # "new"
      BY <2>1 DEF Events
    <2> QED
      BY <2>1, <2>2, <2>3
  <1>6. ASSUME NEW c \in Calls, Upsert(c) PROVE RowsFollowCalls'
    BY <1>6 DEF Upsert
  <1>7. ASSUME NEW h \in Hooks, NEW e \in Events, WebhookApply(h, e) PROVE RowsFollowCalls'
    BY <1>7 DEF WebhookApply
  <1>8. ASSUME NEW h \in Hooks, ReleaseRow(h) \/ ReleaseCounter(h) PROVE RowsFollowCalls'
    BY <1>8 DEF ReleaseRow, ReleaseCounter
  <1> QED
    BY StockSteps, <1>1, <1>2, <1>3, <1>4, <1>5, <1>6, <1>7, <1>8

\* The order of a row was placed.
LEMMA RowPlaced ==
  ASSUME StockInv, NEW e \in Events, status[e] # "none"
  PROVE  e[1] \in Orders /\ place[e[1]] # "new"
  BY NoEventAssumption DEF StockInv, RowsFollowCalls, Events

LEMMA NextHooksFollowCode ==
  ASSUME StockInv, [Next]_vars
  PROVE  HooksFollowCode'
  <1> USE NoEventAssumption DEF StockInv, ChargeInv, TypeOK, HooksFollowCode, HooksBusy, HookOrder,
          stockVars, callVars, hookVars, HookGoto, HookEnd
  <1>1. ASSUME Quiet PROVE HooksFollowCode'
    BY <1>1 DEF Quiet
  <1>2. ASSUME NEW h \in Hooks, Moves(h) PROVE HooksFollowCode'
    BY <1>2 DEF Moves
  <1>3. ASSUME NEW o \in Orders, NEW s \in Strategies, Confirm(o, s) PROVE HooksFollowCode'
    <2>1. \A h \in Hooks : hpc[h] # "idle" => hev[h][1] \in Orders /\ hev[h][1] # o
      BY <1>3, RowPlaced DEF Confirm
    <2> QED
      BY <1>3, <2>1 DEF Confirm
  <1>4. ASSUME Reset PROVE HooksFollowCode'
    BY <1>4 DEF Reset
  <1>5. ASSUME NEW c \in Calls, NEW o \in Orders, CreateBegin(c, o) PROVE HooksFollowCode'
    BY <1>5 DEF CreateBegin
  <1>6. ASSUME NEW c \in Calls, Upsert(c) PROVE HooksFollowCode'
    BY <1>6 DEF Upsert, CallsFollowCode, RawStatuses
  <1>7. ASSUME NEW h \in Hooks, NEW e \in Events, WebhookApply(h, e) PROVE HooksFollowCode'
    BY <1>7 DEF WebhookApply, Settles
  <1>8. ASSUME NEW h \in Hooks, ReleaseRow(h) \/ ReleaseCounter(h) PROVE HooksFollowCode'
    BY <1>8 DEF ReleaseRow, ReleaseCounter
  <1> QED
    BY StockSteps, <1>1, <1>2, <1>3, <1>4, <1>5, <1>6, <1>7, <1>8

\* An order that no two calls contend for has one row at most, and none while
\* its call has not come back.
LEMMA OneRow ==
  ASSUME StockInv, NEW o \in Orders, Alone(o)
  PROVE  /\ \A e, f \in Events : e[1] = o /\ f[1] = o /\ status[e] # "none" /\ status[f] # "none"
               => e = f
         /\ \A c \in Callers(o) : cpc[c] # "done" =>
               \A e \in Events : e[1] = o => status[e] = "none"
  BY NoEventAssumption DEF StockInv, RowsFollowCalls, Alone, Callers

LEMMA NextOneRelease ==
  ASSUME StockInv, [Next]_vars, NEW o \in Orders, Alone(o)'
  PROVE  OneRelease(o)'
  <1> USE DEF StockInv, ChargeInv, TypeOK, stockVars, callVars, hookVars, HookGoto, HookEnd
  <1>0. Alone(o) /\ OneRelease(o)
    BY AloneBefore
  <1>1. ASSUME Quiet PROVE OneRelease(o)'
    BY <1>0, <1>1 DEF Quiet, OneRelease, Releasing, HookOrder
  <1>2. ASSUME NEW h \in Hooks, Moves(h) PROVE OneRelease(o)'
    <2>1. \A g \in Hooks : Releasing(g)' => Releasing(g) /\ hev'[g] = hev[g]
      BY <1>2 DEF Moves, Releasing
    <2>2. status' = status /\ released' = released
      BY <1>2 DEF Moves
    <2> QED
      BY <1>0, <2>1, <2>2 DEF OneRelease, HookOrder
  <1>3. ASSUME NEW p \in Orders, NEW s \in Strategies, Confirm(p, s) PROVE OneRelease(o)'
    BY <1>0, <1>3 DEF Confirm, OneRelease, Releasing, HookOrder
  <1>4. ASSUME Reset PROVE OneRelease(o)'
    BY <1>0, <1>4 DEF Reset, OneRelease, Releasing, HookOrder
  <1>5. ASSUME NEW c \in Calls, NEW p \in Orders, CreateBegin(c, p) PROVE OneRelease(o)'
    BY <1>0, <1>5 DEF CreateBegin, OneRelease, Releasing, HookOrder
  <1>6. ASSUME NEW c \in Calls, Upsert(c) PROVE OneRelease(o)'
    <2>0. /\ cpc[c] = "upsert" /\ cev[c] \in Events
          /\ status' = [status EXCEPT ![cev[c]] = craw[c]]
          /\ UNCHANGED <<hpc, hev, released>>
      BY <1>6 DEF Upsert, CallsFollowCode
    <2>1. CASE cev[c][1] # o
      <3>1. \A e \in Events : e[1] = o => status'[e] = status[e]
        BY <2>0, <2>1
      <3>2. \A a \in Attempts : <<o, a>> \in Events
        BY DEF Events
      <3>3. \A h \in Hooks : Releasing(h) => hev[h] \in Events
        BY DEF Releasing, HooksBusy
      <3> QED
        BY <1>0, <2>0, <3>1, <3>2, <3>3 DEF OneRelease, Releasing, HookOrder
    <2>2. CASE cev[c][1] = o
      <3>1. c \in Callers(o)
        BY <2>0, <2>2, NoEventAssumption DEF Callers
      <3>2. \A e \in Events : e[1] = o => status[e] = "none"
        BY <1>0, <2>0, <3>1, OneRow
      <3>3. \A h \in Hooks : ~ (Releasing(h) /\ HookOrder(h) = o)
        BY <3>2 DEF HooksFollowCode, HooksBusy, Releasing, HookOrder
      <3>4. ~ (released[o] > 0)
        BY <1>0, <3>2 DEF OneRelease, Events
      <3> QED
        BY <2>0, <3>3, <3>4 DEF OneRelease, Releasing, HookOrder
    <2> QED
      BY <2>1, <2>2
  <1>7. ASSUME NEW h \in Hooks, NEW e \in Events, WebhookApply(h, e) PROVE OneRelease(o)'
    <2>0. /\ hpc[h] = "idle" /\ intent[e] # "none" /\ status[e] # "none" /\ status[e] # Settles(e)
          /\ status' = [status EXCEPT ![e] = Settles(e)]
          /\ released' = released
      BY <1>7 DEF WebhookApply, Deliverable, Transitions
    <2>1. CASE Settles(e) # "failed"
      <3>1. status[e] # "failed" /\ UNCHANGED <<hpc, hev>>
        BY <1>7, <2>0, <2>1 DEF WebhookApply, Settles, FailedIsDeclined
      <3>2. \A f \in Events : status[f] = "failed" => status'[f] = "failed"
        BY <2>0, <3>1
      <3>3. \A g \in Hooks : Releasing(g) => hev[g] \in Events
        BY DEF Releasing, HooksBusy
      <3>4. \A a \in Attempts : <<o, a>> \in Events
        BY DEF Events
      <3> QED
        BY <1>0, <2>0, <3>1, <3>2, <3>3, <3>4 DEF OneRelease, Releasing, HookOrder
    <2>2. CASE Settles(e) = "failed"
      <3>1. hpc' = [hpc EXCEPT ![h] = "release"] /\ hev' = [hev EXCEPT ![h] = e]
        BY <1>7, <2>2 DEF WebhookApply
      <3>2. \A g \in Hooks \ {h} : hpc'[g] = hpc[g] /\ hev'[g] = hev[g]
        BY <3>1
      <3>3. hpc'[h] = "release" /\ hev'[h] = e
        BY <3>1
      <3>4. \A g \in Hooks : Releasing(g) => g # h /\ hev[g] \in Events
        BY <2>0 DEF Releasing, HooksBusy
      <3>5. CASE e[1] # o
        <4>1. \A f \in Events : f[1] = o => status'[f] = status[f]
          BY <2>0, <3>5
        <4>2. \A a \in Attempts : <<o, a>> \in Events
          BY DEF Events
        <4>3. \A g \in Hooks : Releasing(g)' /\ HookOrder(g)' = o =>
                  Releasing(g) /\ HookOrder(g) = o /\ hev'[g] = hev[g]
          BY <3>2, <3>3, <3>5 DEF Releasing, HookOrder
        <4> QED
          BY <1>0, <2>0, <3>4, <4>1, <4>2, <4>3 DEF OneRelease, HookOrder
      <3>6. CASE e[1] = o
        <4>1. \A f \in Events : f[1] = o => status[f] # "failed"
          BY <1>0, <2>0, <2>2, <3>6, OneRow
        <4>2. released[o] = 0
          <5>1. \A a \in Attempts : status[<<o, a>>] # "failed"
            BY <4>1 DEF Events
          <5>2. ~ (released[o] > 0) /\ released[o] \in Nat
            BY <1>0, <5>1 DEF OneRelease
          <5> QED
            BY <5>2
        <4>3. \A g \in Hooks : ~ (Releasing(g) /\ HookOrder(g) = o)
          BY <1>0, <3>4, <4>1 DEF OneRelease, HookOrder
        <4>4. \A g \in Hooks : Releasing(g)' /\ HookOrder(g)' = o => g = h
          BY <3>2, <4>3 DEF Releasing, HookOrder
        <4>5. status'[hev'[h]] = "failed"
          BY <2>0, <2>2, <3>3
        <4> QED
          BY <2>0, <4>2, <4>4, <4>5 DEF OneRelease
      <3> QED
        BY <3>5, <3>6
    <2> QED
      BY <2>1, <2>2
  <1>8. ASSUME NEW h \in Hooks, ReleaseRow(h) \/ ReleaseCounter(h) PROVE OneRelease(o)'
    <2>0. /\ Releasing(h) /\ hev[h] \in Events /\ HookOrder(h) \in Orders
          /\ status' = status
          /\ released' = [released EXCEPT ![HookOrder(h)] = @ + 1]
      BY <1>8 DEF ReleaseRow, ReleaseCounter, Releasing, HooksBusy, HookOrder, GivesBack, Events
    <2>1. \A g \in Hooks : Releasing(g)' => g # h /\ Releasing(g) /\ hev'[g] = hev[g]
      BY <1>8 DEF ReleaseRow, ReleaseCounter, Releasing
    <2>2. CASE HookOrder(h) # o
      <3>1. released'[o] = released[o]
        BY <2>0, <2>2
      <3> QED
        BY <1>0, <2>0, <2>1, <3>1 DEF OneRelease, HookOrder
    <2>3. CASE HookOrder(h) = o
      <3>1. \A g \in Hooks : ~ (Releasing(g)' /\ HookOrder(g)' = o)
        BY <1>0, <2>0, <2>1, <2>3 DEF OneRelease, HookOrder
      <3>2. status[hev[h]] = "failed"
        BY <1>0, <2>0, <2>3 DEF OneRelease
      <3>3. \E a \in Attempts : hev[h] = <<o, a>>
        BY <2>0, <2>3 DEF Events, HookOrder
      <3>4. \E a \in Attempts : status'[<<o, a>>] = "failed"
        BY <2>0, <3>2, <3>3
      <3> QED
        BY <3>1, <3>4 DEF OneRelease
    <2> QED
      BY <2>2, <2>3
  <1> QED
    BY StockSteps, <1>1, <1>2, <1>3, <1>4, <1>5, <1>6, <1>7, <1>8

LEMMA HoldersFinite ==
  /\ IsFiniteSet(RowHolders) /\ Cardinality(RowHolders) \in Nat
  /\ IsFiniteSet(CounterHolders) /\ Cardinality(CounterHolders) \in Nat
  <1>1. RowHolders \subseteq Orders /\ CounterHolders \subseteq Orders
    BY DEF RowHolders, CounterHolders, Holding
  <1> QED
    BY <1>1, PaymentsAssumption, FS_Subset, FS_CardinalityType

LEMMA NextLedger ==
  ASSUME StockInv, [Next]_vars
  PROVE  Ledger'
  <1> SUFFICES ASSUME resets' = 0, \A o \in Orders : Alone(o)'
               PROVE  /\ reserved' = Cardinality(RowHolders')
                      /\ counter' = Cardinality(Orders) - Cardinality(CounterHolders')
    BY DEF Ledger, Alone, Callers
  <1> DEFINE Goal == /\ reserved' = Cardinality(RowHolders')
                     /\ counter' = Cardinality(Orders) - Cardinality(CounterHolders')
  <1>1. resets = 0 /\ ~ Reset
    BY StockSteps DEF StockInv, ChargeInv, TypeOK, Quiet, Moves, Confirm, Reset, CreateBegin, Upsert,
                      WebhookApply, ReleaseRow, ReleaseCounter
  <1>2. \A o \in Orders : Alone(o) /\ OneRelease(o)
    BY AloneBefore DEF StockInv
  <1>3. /\ reserved = Cardinality(RowHolders)
        /\ counter = Cardinality(Orders) - Cardinality(CounterHolders)
    BY <1>1, <1>2 DEF StockInv, Ledger
  <1>4. /\ Cardinality(Orders) \in Nat
        /\ IsFiniteSet(RowHolders) /\ Cardinality(RowHolders) \in Nat
        /\ IsFiniteSet(CounterHolders) /\ Cardinality(CounterHolders) \in Nat
    BY HoldersFinite, PaymentsAssumption, FS_CardinalityType
  <1> USE DEF stockVars
  <1>5. ASSUME UNCHANGED stockVars PROVE Goal
    BY <1>3, <1>5 DEF RowHolders, CounterHolders, Holding
  <1>6. ASSUME NEW o \in Orders, NEW s \in Strategies, Confirm(o, s) PROVE Goal
    <2>1. place[o] = "new" /\ released[o] = 0
      <3>1. place[o] = "new"
        BY <1>6 DEF Confirm
      <3>2. \A a \in Attempts : status[<<o, a>>] = "none"
        <4>1. \A a \in Attempts : <<o, a>> \in Events
          BY DEF Events
        <4> QED
          BY <3>1, <4>1, RowPlaced
      <3>3. ~ (released[o] > 0)
        BY <1>2, <3>2 DEF OneRelease
      <3>4. released[o] \in Nat
        BY DEF StockInv, ChargeInv, TypeOK
      <3> QED
        BY <3>1, <3>3, <3>4
    <2>2. o \notin Holding /\ o \notin RowHolders /\ o \notin CounterHolders
      BY <2>1 DEF Holding, RowHolders, CounterHolders
    <2>3. /\ place'[o] = "counted" /\ strategy'[o] = s /\ released' = released
          /\ \A p \in Orders \ {o} : place'[p] = place[p] /\ strategy'[p] = strategy[p]
          /\ reserved' = IF TakesRow(s) THEN reserved + 1 ELSE reserved
          /\ counter' = IF s = "redis" THEN counter - 1 ELSE counter
      BY <1>6 DEF Confirm, StockInv, ChargeInv, TypeOK
    <2>4. /\ TakesRow(s) => RowHolders' = RowHolders \cup {o} /\ CounterHolders' = CounterHolders
          /\ s = "redis" => CounterHolders' = CounterHolders \cup {o} /\ RowHolders' = RowHolders
          /\ ~ TakesRow(s) /\ s # "redis" => CounterHolders' = CounterHolders /\ RowHolders' = RowHolders
      BY <2>1, <2>2, <2>3 DEF RowHolders, CounterHolders, Holding, TakesRow
    <2>5. /\ Cardinality(RowHolders \cup {o}) = Cardinality(RowHolders) + 1
          /\ Cardinality(CounterHolders \cup {o}) = Cardinality(CounterHolders) + 1
      BY <1>4, <2>2, FS_AddElement
    <2>6. CASE TakesRow(s)
      <3>1. s # "redis"
        BY <2>6 DEF TakesRow
      <3>2. reserved' = reserved + 1 /\ counter' = counter
        BY <2>3, <2>6, <3>1
      <3>3. /\ Cardinality(RowHolders') = Cardinality(RowHolders) + 1
            /\ Cardinality(CounterHolders') = Cardinality(CounterHolders)
        BY <2>4, <2>5, <2>6
      <3> QED
        BY <1>3, <1>4, <3>2, <3>3
    <2>7. CASE s = "redis"
      <3>1. ~ TakesRow(s)
        BY <2>7 DEF TakesRow
      <3>2. reserved' = reserved /\ counter' = counter - 1
        BY <2>3, <2>7, <3>1
      <3>3. /\ Cardinality(RowHolders') = Cardinality(RowHolders)
            /\ Cardinality(CounterHolders') = Cardinality(CounterHolders) + 1
        BY <2>4, <2>5, <2>7
      <3> QED
        BY <1>3, <1>4, <3>2, <3>3
    <2>8. CASE ~ TakesRow(s) /\ s # "redis"
      BY <1>3, <2>3, <2>4, <2>8
    <2> QED
      BY <2>6, <2>7, <2>8
  <1>7. ASSUME NEW h \in Hooks, ReleaseRow(h) \/ ReleaseCounter(h) PROVE Goal
    <2> DEFINE o == HookOrder(h)
    <2>1. Releasing(h) /\ hev[h] \in Events /\ o \in Orders
      BY <1>7 DEF ReleaseRow, ReleaseCounter, Releasing, StockInv, ChargeInv, HooksBusy, HookOrder,
                  Events
    <2>2. o \in Holding
      <3>1. status[hev[h]] = "failed" /\ released[o] = 0
        BY <1>2, <2>1 DEF OneRelease
      <3>2. place[o] # "new" /\ place[o] # "past"
        BY <1>1, <2>1, <3>1, RowPlaced DEF HookOrder, StockInv, RowsFollowCalls
      <3> QED
        BY <2>1, <3>1, <3>2 DEF Holding, StockInv, ChargeInv, TypeOK
    <2>3. /\ released'[o] > 0 /\ place' = place /\ strategy' = strategy
          /\ \A p \in Orders \ {o} : released'[p] = released[p]
      BY <1>7, <2>1 DEF ReleaseRow, ReleaseCounter, GivesBack, StockInv, ChargeInv, TypeOK
    <2>4. Holding' = Holding \ {o}
      BY <2>3 DEF Holding
    <2>5. RowHolders' = RowHolders \ {o} /\ CounterHolders' = CounterHolders \ {o}
      BY <2>3, <2>4 DEF RowHolders, CounterHolders
    <2>6. CASE ReleaseRow(h)
      <3>1. TakesRow(strategy[o]) /\ strategy[o] # "redis" /\ reserved' = reserved - 1 /\ counter' = counter
        BY <2>6 DEF ReleaseRow, StockInv, HooksFollowCode, TakesRow
      <3>2. o \in RowHolders /\ CounterHolders \ {o} = CounterHolders
        BY <2>2, <3>1 DEF RowHolders, CounterHolders
      <3>3. Cardinality(RowHolders \ {o}) = Cardinality(RowHolders) - 1
        BY <1>4, <3>2, FS_RemoveElement
      <3> QED
        BY <1>3, <1>4, <2>5, <3>1, <3>2, <3>3
    <2>7. CASE ReleaseCounter(h)
      <3>1. strategy[o] = "redis" /\ ~ TakesRow(strategy[o]) /\ counter' = counter + 1 /\ reserved' = reserved
        BY <2>7, TargetOf DEF ReleaseCounter
      <3>2. o \in CounterHolders /\ RowHolders \ {o} = RowHolders
        BY <2>2, <3>1 DEF RowHolders, CounterHolders
      <3>3. Cardinality(CounterHolders \ {o}) = Cardinality(CounterHolders) - 1
        BY <1>4, <3>2, FS_RemoveElement
      <3>4. /\ Cardinality(RowHolders') = Cardinality(RowHolders)
            /\ Cardinality(CounterHolders') = Cardinality(CounterHolders) - 1
        BY <2>5, <3>2, <3>3
      <3> QED
        BY <1>3, <1>4, <3>1, <3>4
    <2> QED
      BY <1>7, <2>6, <2>7
  <1>8. ASSUME Quiet \/ \E h \in Hooks : Moves(h) PROVE UNCHANGED stockVars
    BY <1>8 DEF Quiet, Moves
  <1>9. ASSUME \/ \E c \in Calls, o \in Orders : CreateBegin(c, o)
               \/ \E c \in Calls : Upsert(c)
               \/ \E h \in Hooks, e \in Events : WebhookApply(h, e)
        PROVE  UNCHANGED stockVars
    BY <1>9 DEF CreateBegin, Upsert, WebhookApply
  <1>10. TypeOK
    BY DEF StockInv, ChargeInv
  <1> HIDE DEF stockVars
  <1> QED
    BY <1>1, <1>5, <1>6, <1>7, <1>8, <1>9, <1>10, StockSteps

LEMMA InitStockInv == Init => StockInv
  <1> SUFFICES ASSUME Init PROVE StockInv
    OBVIOUS
  <1>1. RowsFollowCalls /\ HooksFollowCode
    BY DEF Init, RowsFollowCalls, HooksFollowCode
  <1>2. ASSUME NEW o \in Orders PROVE OneRelease(o)
    BY DEF Init, OneRelease, Releasing
  <1>3. RowHolders = {} /\ CounterHolders = {}
    BY DEF Init, RowHolders, CounterHolders, Holding
  <1>4. Ledger
    BY <1>3, FS_EmptySet, FS_CardinalityType, PaymentsAssumption DEF Init, Ledger
  <1> QED
    BY <1>1, <1>2, <1>4, InitChargeInv DEF StockInv

LEMMA NextStockInv == StockInv /\ [Next]_vars => StockInv'
  <1> SUFFICES ASSUME StockInv, [Next]_vars PROVE StockInv'
    OBVIOUS
  <1>1. ChargeInv'
    BY NextChargeInv DEF StockInv
  <1>2. ASSUME NEW o \in Orders, Alone(o)' PROVE OneRelease(o)'
    BY <1>2, NextOneRelease
  <1> QED
    BY <1>1, <1>2, NextRowsFollowCalls, NextHooksFollowCode, NextLedger DEF StockInv

\* In a round without resets, and as long as no two calls contend for an order,
\* the reserved stock and the counter are short of exactly the orders that took
\* their unit there and have not given it back: no decline is applied to the wrong
\* counter, lost or applied twice, whatever Stripe redelivers.
THEOREM CountersMatchOrders == Spec => []StockMatchesOrders
  <1>1. StockInv => StockMatchesOrders
    <2> SUFFICES ASSUME StockInv, resets = 0, \A o \in Orders : ~ Contested(o)
                 PROVE  /\ reserved = Cardinality(RowHolders)
                        /\ counter = Cardinality(Orders) - Cardinality(CounterHolders)
      BY DEF StockMatchesOrders, RowHolders, CounterHolders
    <2>1. ASSUME NEW o \in Orders PROVE Alone(o)
      <3>1. IsFiniteSet(Callers(o))
        BY PaymentsAssumption, FS_Subset DEF Callers
      <3>2. Cardinality(Callers(o)) \in Nat /\ Cardinality(Callers(o)) <= 1
        BY <3>1, FS_CardinalityType DEF Contested
      <3>3. ASSUME NEW c \in Callers(o), NEW d \in Callers(o), c # d
            PROVE  FALSE
        <4>1. Cardinality({c, d}) = 2
          <5>1. Cardinality({c}) = 1 /\ IsFiniteSet({c})
            BY FS_Singleton
          <5>2. Cardinality({c} \cup {d}) = Cardinality({c}) + 1
            BY <3>3, <5>1, FS_AddElement
          <5>3. {c} \cup {d} = {c, d}
            OBVIOUS
          <5> QED
            BY <5>1, <5>2, <5>3
        <4>2. Cardinality({c, d}) <= Cardinality(Callers(o))
          BY <3>1, FS_Subset
        <4> QED
          BY <3>2, <4>1, <4>2
      <3> QED
        BY <3>3 DEF Alone
    <2> QED
      BY <2>1 DEF StockInv, Ledger
  <1> QED
    BY <1>1, InitStockInv, NextStockInv, PTL DEF Spec

=============================================================================
