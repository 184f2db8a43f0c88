---------------------------- MODULE Idempotency ----------------------------
(***************************************************************************)
(* IdempotencyMiddleware of app/idempotency.py in front of a checkout      *)
(* handler.  Requests that carry the same Idempotency-Key share the Redis  *)
(* key idempotency:{key}; every Redis call is a step of its own, so that   *)
(* duplicates interleave as they do on the event loop.                     *)
(*                                                                         *)
(* The handler behind the middleware is one step that may place an order   *)
(* and yields one of Outcomes.  The 24 h life of a stored result is longer *)
(* than any behaviour considered here; the 60 s life of a reservation is   *)
(* not (ReservationExpires).                                               *)
(***************************************************************************)
EXTENDS Naturals, FiniteSets

CONSTANTS Requests,  \* POST /checkout/* requests
          Keys,      \* idempotency keys
          KeyOf,     \* the key each request carries, or NoKey
          NoKey,     \* the header is absent
          NoOrder,   \* order_id is null
          Outcomes,  \* what the handler may answer
          Faults     \* environment faults that may happen

Statuses == {"confirmed", "sold_out", "not_found", "conflict", "unavailable",
             "raised", "in_flight", "refused", "none"}

ASSUME IdempotencyAssumption ==
    /\ IsFiniteSet(Requests)
    /\ KeyOf \in [Requests -> Keys \cup {NoKey}]
    /\ NoKey \notin Keys
    /\ NoOrder \notin Requests
    /\ Outcomes \subseteq {"confirmed", "sold_out", "not_found", "conflict",
                           "unavailable", "raised"}

Response   == [status : Statuses, order : Requests \cup {NoOrder}]
NoResponse == [status |-> "none", order |-> NoOrder]

SlotStates == {"absent", "in_progress", "result"}
Slot == [state : SlotStates, response : Response]

Absent     == [state |-> "absent", response |-> NoResponse]
InProgress == [state |-> "in_progress", response |-> NoResponse]
Stored(a)  == [state |-> "result", response |-> a]

VARIABLES slot,      \* Redis idempotency:{key}
          pc,        \* where dispatch is for each request
          response,  \* what the handler, or the middleware, answered
          orders,    \* requests whose handler committed an order
          calm       \* no fault has happened so far

idemVars == <<slot, pc, response, orders, calm>>

Labels == {"idle", "lookup", "await", "reserve", "wait", "run", "bare", "ran",
           "raising", "done", "crashed"}

IdemTypeOK ==
    /\ slot \in [Keys -> Slot]
    /\ pc \in [Requests -> Labels]
    /\ response \in [Requests -> Response]
    /\ orders \subseteq Requests
    /\ calm \in BOOLEAN

Key(r) == KeyOf[r]

Goto(r, l) == pc' = [pc EXCEPT ![r] = l]
Answer(r, a) == Goto(r, "done") /\ response' = [response EXCEPT ![r] = a]
Say(s) == [status |-> s, order |-> NoOrder]
Put(k, v) == slot' = [slot EXCEPT ![k] = v]

\* 5xx, 408/425/429 and 409 "failed" are try-again outcomes.
IsCacheable(s) == s \in {"confirmed", "sold_out", "not_found"}

\* A fault of this kind strikes.
Mishap(f) == f \in Faults /\ calm' = FALSE

\* Requests between a reservation and its result.
Executing(k) == {r \in Requests : Key(r) = k /\ pc[r] \in {"run", "ran", "raising"}}

IdemInit ==
    /\ slot = [k \in Keys |-> Absent]
    /\ pc = [r \in Requests |-> "idle"]
    /\ response = [r \in Requests |-> NoResponse]
    /\ orders = {}
    /\ calm = TRUE

-----------------------------------------------------------------------------
(* dispatch *)

\* No Idempotency-Key header: the handler runs as if there were no middleware.
Arrive(r) ==
    /\ pc[r] = "idle"
    /\ Goto(r, IF Key(r) = NoKey THEN "bare" ELSE "lookup")
    /\ UNCHANGED <<slot, response, orders, calm>>

\* GET idempotency:{key}
Lookup(r) ==
    /\ pc[r] = "lookup"
    /\ \/ /\ slot[Key(r)].state = "absent"
          /\ Goto(r, "reserve") /\ UNCHANGED response
       \/ /\ slot[Key(r)].state = "in_progress"
          /\ Goto(r, "await") /\ UNCHANGED response
       \/ /\ slot[Key(r)].state = "result"
          /\ Answer(r, slot[Key(r)].response)
    /\ UNCHANGED <<slot, orders, calm>>

\* _await_winner sees a stored result: replay it.
Replay(r) ==
    /\ pc[r] \in {"await", "wait"}
    /\ slot[Key(r)].state = "result"
    /\ Answer(r, slot[Key(r)].response)
    /\ UNCHANGED <<slot, orders, calm>>

\* _await_winner finds the key gone.  Before the reservation that leads to a
\* SET NX; after a lost SET NX the request "falls through" and executes.
WinnerVanished(r) ==
    /\ pc[r] \in {"await", "wait"}
    /\ slot[Key(r)].state = "absent"
    /\ Goto(r, IF pc[r] = "await" THEN "reserve" ELSE "run")
    /\ UNCHANGED <<slot, response, orders, calm>>

\* WAIT_TIMEOUT_S passed: 409, "still in flight".  The winner is dead, or needs
\* more than 15 s.
WaitTimeout(r) ==
    /\ pc[r] \in {"await", "wait"}
    /\ slot[Key(r)].state = "in_progress"
    /\ \/ Executing(Key(r)) = {} /\ UNCHANGED calm
       \/ Mishap("slow_handler")
    /\ Answer(r, Say("in_flight"))
    /\ UNCHANGED <<slot, orders>>

GetThenSet(r) ==
    /\ pc[r] = "reserve"
    /\ Put(Key(r), InProgress)
    /\ Goto(r, "run")
    /\ UNCHANGED <<response, orders, calm>>

\* SET idempotency:{key} marker NX EX 60
Reserve(r) ==
    /\ pc[r] = "reserve"
    /\ \/ /\ slot[Key(r)].state = "absent"
          /\ Put(Key(r), InProgress)
          /\ Goto(r, "run")
       \/ /\ slot[Key(r)].state # "absent"
          /\ Goto(r, "wait")
          /\ UNCHANGED slot
    /\ UNCHANGED <<response, orders, calm>>

\* The order id of a request is the request: each handler run makes one order.
Outcome(r, s) == [status |-> s, order |-> IF s = "confirmed" THEN r ELSE NoOrder]

\* The handler.  A commit whose acknowledgement is lost leaves an order behind
\* an error.  A "bare" run answers the client directly.
Execute(r, s) ==
    /\ pc[r] \in {"run", "bare"}
    /\ s # "raised"
    /\ \/ /\ orders' = IF s = "confirmed" THEN orders \cup {r} ELSE orders
          /\ UNCHANGED calm
       \/ /\ Mishap("commit_ack_lost")
          /\ s = "unavailable"
          /\ orders' = orders \cup {r}
    /\ response' = [response EXCEPT ![r] = Outcome(r, s)]
    /\ Goto(r, IF pc[r] = "run" THEN "ran" ELSE "done")
    /\ UNCHANGED slot

HandlerRaises(r) ==
    /\ "raised" \in Outcomes
    /\ pc[r] \in {"run", "bare"}
    /\ IF pc[r] = "run"
       THEN Goto(r, "raising") /\ UNCHANGED response
       ELSE Answer(r, Say("raised"))
    /\ UNCHANGED <<slot, orders, calm>>

\* The except clause deletes the reservation, whoever owns it, and re-raises.
Unreserve(r) ==
    /\ pc[r] = "raising"
    /\ Put(Key(r), Absent)
    /\ Answer(r, Say("raised"))
    /\ UNCHANGED <<orders, calm>>

\* SET the result, or DELETE the key so that a retry runs.
Publish(r) ==
    /\ pc[r] = "ran"
    /\ Put(Key(r), IF IsCacheable(response[r].status)
                   THEN Stored(response[r]) ELSE Absent)
    /\ Goto(r, "done")
    /\ UNCHANGED <<response, orders, calm>>

-----------------------------------------------------------------------------
(* Faults *)

\* Redis unreachable on GET or SET NX: fail open, without the middleware.
FailOpen(r) ==
    /\ Mishap("redis_down")
    /\ pc[r] \in {"lookup", "reserve"}
    /\ Goto(r, "bare")
    /\ UNCHANGED <<slot, response, orders>>

\* A poll in _await_winner is not guarded: the error reaches the client.
PollFails(r) ==
    /\ Mishap("redis_down")
    /\ pc[r] \in {"await", "wait"}
    /\ Answer(r, Say("raised"))
    /\ UNCHANGED <<slot, orders>>

\* The final SET or DELETE fails and is swallowed: the marker stays.
PublishLost(r) ==
    /\ Mishap("redis_down")
    /\ pc[r] \in {"ran", "raising"}
    /\ IF pc[r] = "ran" THEN Goto(r, "done") /\ UNCHANGED response
                        ELSE Answer(r, Say("raised"))
    /\ UNCHANGED <<slot, orders>>

Crash(r) ==
    /\ Mishap("crash")
    /\ pc[r] \notin {"idle", "done", "crashed"}
    /\ Goto(r, "crashed")
    /\ UNCHANGED <<slot, response, orders>>

NeverExpires(k) == FALSE /\ UNCHANGED idemVars

\* RESERVATION_TTL_S: a marker nobody completes disappears.  A handler that
\* needs more than 60 s is the fault "slow_handler".
ReservationExpires(k) ==
    /\ slot[k].state = "in_progress"
    /\ \/ Executing(k) = {} /\ UNCHANGED calm
       \/ Mishap("slow_handler")
    /\ Put(k, Absent)
    /\ UNCHANGED <<pc, response, orders>>

-----------------------------------------------------------------------------
Dispatch(r) ==
    \/ Lookup(r) \/ Replay(r) \/ WinnerVanished(r) \/ WaitTimeout(r)
    \/ Reserve(r) \/ HandlerRaises(r) \/ Unreserve(r) \/ Publish(r)
    \/ FailOpen(r) \/ PollFails(r) \/ PublishLost(r)
    \/ \E s \in Outcomes : Execute(r, s)

AllDone == \A r \in Requests : pc[r] \in {"done", "crashed"}

Quiet == AllDone /\ UNCHANGED idemVars

IdemNext ==
    \/ \E r \in Requests : Arrive(r) \/ Dispatch(r) \/ Crash(r)
    \/ \E k \in Keys : ReservationExpires(k)
    \/ Quiet

IdemSpec == IdemInit /\ [][IdemNext]_idemVars

\* The event loop runs every task, and Redis expires what is due.
FairIdemSpec ==
    /\ IdemSpec
    /\ \A r \in Requests : WF_idemVars(Dispatch(r))
    /\ \A k \in Keys : WF_idemVars(ReservationExpires(k))

-----------------------------------------------------------------------------
(* Properties *)

TryAgain == {"conflict", "unavailable", "raised"}

\* Nothing has failed yet and no request of this key was told to try again.
Undisturbed(k) ==
    calm /\ \A r \in Requests : Key(r) = k => response[r].status \notin TryAgain

\* Exactly one retry gets through: a key buys once.
OneOrderPerKey ==
    \A k \in Keys : Cardinality({r \in orders : Key(r) = k}) <= 1

\* That holds until a fault or a try-again outcome frees the key for several
\* waiting requests at once.
OneOrderUndisturbed ==
    \A k \in Keys : Undisturbed(k) => Cardinality({r \in orders : Key(r) = k}) <= 1

\* A crashed or failed request never wedges its key.
KeyNeverWedged ==
    \A k \in Keys : slot[k].state = "in_progress" ~> slot[k].state # "in_progress"

=============================================================================
