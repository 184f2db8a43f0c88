------------------------------ MODULE Payments ------------------------------
(***************************************************************************)
(* app/payments.py: POST /payment/create, POST /payment/webhook and the    *)
(* release of a declined order's unit.  Stripe is external: it runs one    *)
(* charge per idempotency key (order, attempt), replays its result to      *)
(* every later call with that key, and delivers the event of a settled     *)
(* intent at least once, at any time, in any order.                        *)
(*                                                                         *)
(* A step is one database commit, one Redis command or one Stripe call.    *)
(***************************************************************************)
EXTENDS Integers, FiniteSets

CONSTANTS Orders,      \* orders that checkout may confirm
          Strategies,  \* values of orders.strategy that occur
          Calls,       \* POST /payment/create requests
          Hooks,       \* concurrent executions of the webhook handler
          MaxAttempts, \* bound on payment attempts of one order
          MaxResets,   \* bound on POST /admin/reset-sale
          Faults,      \* environment faults that may happen
          NoEvent      \* a call or a webhook handler without an event

ASSUME PaymentsAssumption ==
    /\ IsFiniteSet(Orders) /\ IsFiniteSet(Calls)
    /\ Strategies \subseteq {"pessimistic", "optimistic", "redis", "null"}
    /\ MaxAttempts \in Nat \ {0}
    /\ MaxResets \in Nat

Attempts == 1..MaxAttempts
Events == Orders \X Attempts
RawStatuses == {"requires_payment_method", "succeeded"}
Statuses == {"none", "failed"} \cup RawStatuses

ASSUME NoEventAssumption == NoEvent \notin Events

VARIABLES status,   \* payments.status by order and attempt; "none": no row
          stamped,  \* payments.stock_released_at is set
          intent,   \* Stripe: the settled result of each idempotency key
          acked,    \* events Stripe has received a 2xx for
          reserved, \* inventory.reserved_stock
          counter,  \* Redis stock:{sale}
          place,    \* orders: not placed, counted in this round, or past
          strategy, \* orders.strategy, "null" until the order is placed
          released, \* how many units each order has given back
          cpc, cev, craw,    \* create calls: place, event, raw status
          hpc, hev,          \* webhook handlers: place, event
          calm,     \* no webhook handler has died so far
          resets    \* admin resets so far

stockVars == <<reserved, counter, place, strategy, released>>
callVars  == <<cpc, cev, craw>>
hookVars  == <<hpc, hev, calm>>
vars == <<status, stamped, intent, acked, stockVars, callVars, hookVars, resets>>

TypeOK ==
    /\ status \in [Events -> Statuses]
    /\ stamped \in [Events -> BOOLEAN]
    /\ intent \in [Events -> {"none"} \cup RawStatuses]
    /\ acked \subseteq Events
    /\ reserved \in Nat
    /\ counter \in Int
    /\ place \in [Orders -> {"new", "counted", "past"}]
    /\ strategy \in [Orders -> Strategies \cup {"null"}]
    /\ released \in [Orders -> Nat]
    /\ cpc \in [Calls -> {"idle", "charge", "upsert", "done", "crashed"}]
    /\ cev \in [Calls -> Events \cup {NoEvent}]
    /\ craw \in [Calls -> Statuses]
    /\ hpc \in [Hooks -> {"idle", "release", "apply", "stamp"}]
    /\ hev \in [Hooks -> Events \cup {NoEvent}]
    /\ calm \in BOOLEAN
    /\ resets \in Nat

TakesRow(s) == s \in {"pessimistic", "optimistic"}

GuessesTheRow(s) == IF s = "redis" THEN "counter" ELSE "row"

\* Where checkout took the unit from; an order without a strategy is left
\* for manual review.
Target(s) == CASE TakesRow(s) -> "row"
               [] s = "redis" -> "counter"
               [] OTHER -> "nobody"

Init ==
    /\ status = [e \in Events |-> "none"]
    /\ stamped = [e \in Events |-> FALSE]
    /\ intent = [e \in Events |-> "none"]
    /\ acked = {}
    /\ reserved = 0
    /\ counter = Cardinality(Orders)
    /\ place = [o \in Orders |-> "new"]
    /\ strategy = [o \in Orders |-> "null"]
    /\ released = [o \in Orders |-> 0]
    /\ cpc = [c \in Calls |-> "idle"]
    /\ cev = [c \in Calls |-> NoEvent]
    /\ craw = [c \in Calls |-> "none"]
    /\ hpc = [h \in Hooks |-> "idle"]
    /\ hev = [h \in Hooks |-> NoEvent]
    /\ calm = TRUE
    /\ resets = 0

\* Checkout confirms an order and takes its unit (module Checkout); an order
\* of before the strategy column is in neither count.
Confirm(o, s) ==
    /\ place[o] = "new"
    /\ place' = [place EXCEPT ![o] = "counted"]
    /\ strategy' = [strategy EXCEPT ![o] = s]
    /\ reserved' = IF TakesRow(s) THEN reserved + 1 ELSE reserved
    /\ counter' = IF s = "redis" THEN counter - 1 ELSE counter
    /\ UNCHANGED <<status, stamped, intent, acked, released, callVars, hookVars,
                   resets>>

\* POST /admin/reset-sale: the orders stay, their units no longer count.
Reset ==
    /\ resets < MaxResets
    /\ resets' = resets + 1
    /\ reserved' = 0
    /\ counter' = Cardinality(Orders)
    /\ place' = [o \in Orders |-> IF place[o] = "counted" THEN "past" ELSE place[o]]
    /\ UNCHANGED <<status, stamped, intent, acked, strategy, released, callVars,
                   hookVars>>

-----------------------------------------------------------------------------
(* POST /payment/create/{order} *)

CallGoto(c, l) == cpc' = [cpc EXCEPT ![c] = l]

\* Calls that went to Stripe for an order.
Callers(o) == {c \in Calls : cev[c] # NoEvent /\ cev[c][1] = o}

\* The latest row of an order, 0 when there is none.
Latest(o) == LET rows == {a \in Attempts : status[<<o, a>>] # "none"}
             IN  IF rows = {} THEN 0 ELSE CHOOSE a \in rows : \A b \in rows : b <= a

\* A key of its own for every call.
NewKeyPerCall(o) == 1 + Cardinality(Callers(o))

\* _next_attempt: a failed attempt is followed by a new one, anything else is
\* tried again under the same number.
NextAttempt(o) ==
    CASE Latest(o) = 0 -> 1
      [] Latest(o) # 0 /\ status[<<o, Latest(o)>>] = "failed" -> Latest(o) + 1
      [] OTHER -> Latest(o)

PaidAlready(o) == Latest(o) # 0 /\ status[<<o, Latest(o)>>] = "succeeded"

\* Served from the durable row, no Stripe call.
CreateCached(c) ==
    /\ cpc[c] = "idle"
    /\ \E o \in Orders : PaidAlready(o)
    /\ CallGoto(c, "done")
    /\ UNCHANGED <<status, stamped, intent, acked, stockVars, cev, craw, hookVars,
                   resets>>

\* The order is confirmed (nothing ever un-confirms it): choose the attempt.
CreateBegin(c, o) ==
    /\ cpc[c] = "idle"
    /\ place[o] # "new"
    /\ ~PaidAlready(o)
    /\ NextAttempt(o) \in Attempts
    /\ cev' = [cev EXCEPT ![c] = <<o, NextAttempt(o)>>]
    /\ CallGoto(c, "charge")
    /\ UNCHANGED <<status, stamped, intent, acked, stockVars, craw, hookVars, resets>>

\* PaymentIntent.create with the key (order, attempt): the first call settles
\* the intent, every other one is given the same result.
Charge(c) ==
    /\ cpc[c] = "charge"
    /\ \E s \in RawStatuses :
          /\ intent[cev[c]] \in {"none", s}
          /\ intent' = [intent EXCEPT ![cev[c]] = s]
          /\ craw' = [craw EXCEPT ![c] = s]
    /\ CallGoto(c, "upsert")
    /\ UNCHANGED <<status, stamped, acked, stockVars, cev, hookVars, resets>>

\* IdempotencyError on all eight tries, or another Stripe error: 502.
ChargeError(c) ==
    /\ "stripe_error" \in Faults
    /\ cpc[c] = "charge"
    /\ CallGoto(c, "done")
    /\ UNCHANGED <<status, stamped, intent, acked, stockVars, cev, craw, hookVars,
                   resets>>

\* INSERT .. ON CONFLICT (order_id, attempt) DO UPDATE; COMMIT.  The raw
\* status replaces whatever the row says; stock_released_at is left alone.
Upsert(c) ==
    /\ cpc[c] = "upsert"
    /\ status' = [status EXCEPT ![cev[c]] = craw[c]]
    /\ CallGoto(c, "done")
    /\ UNCHANGED <<stamped, intent, acked, stockVars, cev, craw, hookVars, resets>>

CallCrash(c) ==
    /\ "crash" \in Faults
    /\ cpc[c] \in {"charge", "upsert"}
    /\ CallGoto(c, "crashed")
    /\ UNCHANGED <<status, stamped, intent, acked, stockVars, cev, craw, hookVars,
                   resets>>

-----------------------------------------------------------------------------
(* POST /payment/webhook *)

\* The normalised status an event stands for.
Settles(e) == IF intent[e] = "succeeded" THEN "succeeded" ELSE "failed"

HookGoto(h, l, e) == hpc' = [hpc EXCEPT ![h] = l] /\ hev' = [hev EXCEPT ![h] = e]
HookEnd(h)        == HookGoto(h, "idle", NoEvent)

Deliverable(h, e) == hpc[h] = "idle" /\ intent[e] # "none"

AcksAnyway(h, e) ==
    /\ Deliverable(h, e)
    /\ status[e] = "none"
    /\ acked' = acked \cup {e}
    /\ UNCHANGED <<status, stamped, intent, stockVars, callVars, hookVars, resets>>

\* No row with this intent yet: 409, so that Stripe retries.
WebhookTooEarly(h, e) ==
    /\ Deliverable(h, e)
    /\ status[e] = "none"
    /\ UNCHANGED vars

ReappliesEvent(e) == TRUE
\* UPDATE payments SET status = :s WHERE .. AND status != :s RETURNING id
Transitions(e) == status[e] # Settles(e)

\* Already applied: 200, nothing else happens.
WebhookRepeated(h, e) ==
    /\ Deliverable(h, e)
    /\ status[e] # "none"
    /\ ~Transitions(e)
    /\ acked' = acked \cup {e}
    /\ UNCHANGED <<status, stamped, intent, stockVars, callVars, hookVars, resets>>

\* The transition is committed before any unit is released.
WebhookApply(h, e) ==
    /\ Deliverable(h, e)
    /\ status[e] # "none"
    /\ Transitions(e)
    /\ status' = [status EXCEPT ![e] = Settles(e)]
    /\ IF Settles(e) = "failed"
       THEN HookGoto(h, "release", e) /\ UNCHANGED acked
       ELSE UNCHANGED <<hpc, hev>> /\ acked' = acked \cup {e}
    /\ UNCHANGED <<stamped, intent, stockVars, callVars, calm, resets>>

HookOrder(h) == hev[h][1]
GivesBack(h) == released' = [released EXCEPT ![HookOrder(h)] = @ + 1]
Stamp(h)     == stamped' = [stamped EXCEPT ![hev[h]] = TRUE]

\* _release_reserved_unit, pessimistic or optimistic: SELECT without a lock.
ReadReserved(h) ==
    /\ hpc[h] = "release"
    /\ Target(strategy[HookOrder(h)]) = "row"
    /\ HookGoto(h, IF reserved <= 0 THEN "stamp" ELSE "apply", hev[h])
    /\ UNCHANGED <<status, stamped, intent, acked, stockVars, callVars, calm, resets>>

\* UPDATE .. reserved_stock - 1, audit row, stock_released_at; COMMIT.
ReleaseRow(h) ==
    /\ hpc[h] = "apply"
    /\ reserved > 0
    /\ reserved' = reserved - 1
    /\ GivesBack(h)
    /\ Stamp(h)
    /\ HookEnd(h)
    /\ acked' = acked \cup {hev[h]}
    /\ UNCHANGED <<status, intent, counter, place, strategy, callVars, calm, resets>>

\* CHECK (reserved_stock >= 0) refuses: HTTP 500, nothing is released.
ReleaseRefused(h) ==
    /\ hpc[h] = "apply"
    /\ reserved = 0
    /\ HookEnd(h)
    /\ UNCHANGED <<status, stamped, intent, acked, stockVars, callVars, calm, resets>>

\* INCR stock:{sale}; the audit row and the stamp are committed later.
ReleaseCounter(h) ==
    /\ hpc[h] = "release"
    /\ Target(strategy[HookOrder(h)]) = "counter"
    /\ counter' = counter + 1
    /\ GivesBack(h)
    /\ HookGoto(h, "stamp", hev[h])
    /\ UNCHANGED <<status, stamped, intent, acked, reserved, place, strategy, callVars, calm,
                   resets>>

\* Strategy NULL or unknown: nothing is guessed.
ReleaseNothing(h) ==
    /\ hpc[h] = "release"
    /\ Target(strategy[HookOrder(h)]) = "nobody"
    /\ HookGoto(h, "stamp", hev[h])
    /\ UNCHANGED <<status, stamped, intent, acked, stockVars, callVars, calm, resets>>

\* UPDATE payments SET stock_released_at; COMMIT, even if nothing was released.
StampReleased(h) ==
    /\ hpc[h] = "stamp"
    /\ Stamp(h)
    /\ HookEnd(h)
    /\ acked' = acked \cup {hev[h]}
    /\ UNCHANGED <<status, intent, stockVars, callVars, calm, resets>>

\* The process dies, or Redis is down for the INCR: Stripe sees no 2xx.
HookCrash(h) ==
    /\ "crash" \in Faults
    /\ hpc[h] # "idle"
    /\ HookEnd(h)
    /\ calm' = FALSE
    /\ UNCHANGED <<status, stamped, intent, acked, stockVars, callVars, resets>>

-----------------------------------------------------------------------------
Create(c) ==
    \/ CreateCached(c)
    \/ \E o \in Orders : CreateBegin(c, o)
    \/ Charge(c) \/ ChargeError(c) \/ Upsert(c)

Deliver(h, e) == WebhookTooEarly(h, e) \/ WebhookRepeated(h, e) \/ WebhookApply(h, e)

Release(h) ==
    \/ ReadReserved(h) \/ ReleaseRow(h) \/ ReleaseRefused(h)
    \/ ReleaseCounter(h) \/ ReleaseNothing(h) \/ StampReleased(h)

Settled == (\A c \in Calls : cpc[c] \in {"done", "crashed"}) /\ UNCHANGED vars

Next ==
    \/ \E o \in Orders, s \in Strategies : Confirm(o, s)
    \/ Reset
    \/ \E c \in Calls : Create(c) \/ CallCrash(c)
    \/ \E h \in Hooks : \/ \E e \in Events : Deliver(h, e)
                        \/ Release(h) \/ HookCrash(h)
    \/ Settled

Spec == Init /\ [][Next]_vars

\* Calls and handlers run to their end, and Stripe redelivers until a 2xx.
FairSpec ==
    /\ Spec
    /\ \A c \in Calls : WF_vars(cpc[c] # "idle" /\ Create(c))
    /\ \A h \in Hooks : WF_vars(Release(h))
    /\ \A e \in Events : SF_vars(e \notin acked /\ \E h \in Hooks : Deliver(h, e))

-----------------------------------------------------------------------------
(* Properties *)

\* More than one call went to Stripe for the order: a double click, or another
\* card after a decline.
Contested(o) == Cardinality(Callers(o)) > 1

\* An order held one unit, so it gives back at most one, however often its
\* failure is delivered and by however many handlers at once.
UnitReleasedOnce == \A o \in Orders : released[o] <= 1

Holding == {o \in Orders : place[o] = "counted" /\ released[o] = 0}

\* Each counter is short of exactly the orders that took their unit from it and
\* still hold it: no release goes to the wrong counter, is lost or is made
\* twice.  Within one round, and unless an order is contested.
StockMatchesOrders ==
    resets = 0 /\ (\A o \in Orders : ~Contested(o)) =>
        /\ reserved = Cardinality({o \in Holding : TakesRow(strategy[o])})
        /\ counter = Cardinality(Orders)
                     - Cardinality({o \in Holding : strategy[o] = "redis"})

\* No order is charged successfully twice: two calls either share the key of
\* one attempt or the earlier attempt was declined.
PaidOnce ==
    \A o \in Orders : Cardinality({a \in Attempts : intent[<<o, a>>] = "succeeded"}) <= 1

Declined(e) ==
    /\ intent[e] = "requires_payment_method"
    /\ status[e] # "none"
    /\ strategy[e[1]] # "null"

\* A declined order gives its unit back in the end, as long as no webhook
\* handler dies, the round is not reset and no order at all is contested: the
\* second release of a contested order takes another order's unit off
\* reserved_stock, and that order's own release then finds the row at zero.
UndisturbedDeclineReturns ==
    \A e \in Events :
        Declined(e) ~> \/ released[e[1]] > 0
                       \/ ~calm \/ resets > 0
                       \/ \E o \in Orders : Contested(o)

=============================================================================
