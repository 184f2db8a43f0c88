-------------------------------- MODULE Gate --------------------------------
(***************************************************************************)
(* The way of an admitted checkout through a replica: the slot counter of  *)
(* app/db_limiter.py, shared by all replicas through Redis, then the       *)
(* connections of app/database.py, which each replica has of its own.      *)
(*                                                                         *)
(* A handler asks for one connection for the purchase and, in its finally, *)
(* for another one to log the attempt.  It has given the first one back by *)
(* then -- unless the purchase ended in an exception.                      *)
(***************************************************************************)
EXTENDS Integers, FiniteSets, Sequences, SequencesExt

CONSTANTS Requests, Replicas,
          Home,        \* the replica a request arrives at
          Pool,        \* connections of a replica
          Limits,      \* limits the leader publishes
          InitLimit,   \* the limit while none is published
          MaxResets,   \* bound on keys deleted by resets
          Faults       \* what may go wrong; one kind of it in a behaviour

ASSUME GateAssumption ==
    /\ IsFiniteSet(Requests)
    /\ Home \in [Requests -> Replicas]
    /\ Pool \in Nat \ {0}
    /\ Limits \subseteq Nat \ {0} /\ InitLimit \in Limits
    /\ MaxResets \in Nat
    /\ Faults \subseteq {"crash", "redis_error", "reset"} /\ Faults # {}

VARIABLES inflight, limit, waiting,  \* dblim:inflight, dblim:limit, dblim:waiting
          line,        \* the FIFO lock of each replica, its holder first
          pc,
          gated,       \* how a request got through: with a slot, or past a failing Redis
          conns,       \* connections a request holds
          fault,       \* the kind of fault of this behaviour
          resets, disturbed, \* keys deleted; whether Redis has failed or was reset
          leaked       \* slots whose owner will never give them back

vars == <<inflight, limit, waiting, line, pc, gated, conns, fault, resets, disturbed,
          leaked>>
redisVars == <<inflight, limit, waiting>>

Steps == {"outside", "trying", "joining", "join_zero", "queued", "leaving", "leave_zero",
          "connect", "work", "log", "logging", "release", "release_zero",
          "answered", "busy", "lost"}

TypeOK ==
    /\ inflight \in Int /\ limit \in Limits /\ waiting \in Int
    /\ line \in [Replicas -> Seq(Requests)]
    /\ pc \in [Requests -> Steps]
    /\ gated \in [Requests -> {"no", "slot", "open"}]
    /\ conns \in [Requests -> 0..2]
    /\ fault \in Faults
    /\ resets \in 0..MaxResets /\ disturbed \in BOOLEAN
    /\ leaked \in Nat

Init ==
    /\ inflight = 0 /\ limit = InitLimit /\ waiting = 0
    /\ line = [p \in Replicas |-> <<>>]
    /\ pc = [r \in Requests |-> "outside"]
    /\ gated = [r \in Requests |-> "no"]
    /\ conns = [r \in Requests |-> 0]
    /\ fault \in Faults
    /\ resets = 0 /\ disturbed = FALSE
    /\ leaked = 0

Goto(r, step) == pc' = [pc EXCEPT ![r] = step]
Fails == fault = "redis_error" /\ disturbed' = TRUE
Works == UNCHANGED disturbed

Behind == {r \in Requests : gated[r] # "no"}
Finished(r) == pc[r] \in {"answered", "busy", "lost"}

-----------------------------------------------------------------------------
(* acquire *)

OneTooMany == inflight <= limit
SlotFree   == inflight < limit

\* _ACQUIRE_LUA and _try: a slot if there is one; past the gate if Redis fails.
Try(r) ==
    \/ /\ SlotFree
       /\ inflight' = inflight + 1
       /\ gated' = [gated EXCEPT ![r] = "slot"]
       /\ Works
    \/ /\ Fails
       /\ gated' = [gated EXCEPT ![r] = "open"]
       /\ UNCHANGED inflight

Locked(p) == line[p] # <<>>

Arrive(r) ==
    /\ pc[r] = "outside"
    /\ Goto(r, IF Locked(Home[r]) THEN "joining" ELSE "trying")
    /\ UNCHANGED <<redisVars, line, gated, conns, resets, disturbed, leaked>>

TryAtOnce(r) ==
    /\ pc[r] = "trying"
    /\ \/ Try(r) /\ Goto(r, "connect")
       \/ /\ ~SlotFree
          /\ Goto(r, "joining")
          /\ UNCHANGED <<inflight, gated, disturbed>>
    /\ UNCHANGED <<limit, waiting, line, conns, resets, leaked>>

\* _bump_waiting: INCRBY, and a second command when that went below zero.
Bump(r, delta, step, zero) ==
    \/ /\ waiting' = waiting + delta
       /\ Goto(r, IF waiting + delta < 0 THEN zero ELSE step)
       /\ Works
    \/ /\ Fails
       /\ Goto(r, step)
       /\ UNCHANGED waiting

\* Then in line for the replica's lock.
StandInLine(r) == line' = [line EXCEPT ![Home[r]] = IF pc'[r] = "queued" THEN Append(@, r) ELSE @]

Join(r) ==
    /\ pc[r] = "joining"
    /\ Bump(r, 1, "queued", "join_zero")
    /\ StandInLine(r)
    /\ UNCHANGED <<inflight, limit, gated, conns, resets, leaked>>

JoinZero(r) ==
    /\ pc[r] = "join_zero"
    /\ waiting' \in {0, waiting}
    /\ IF waiting' = 0 THEN Works ELSE Fails
    /\ Goto(r, "queued")
    /\ StandInLine(r)
    /\ UNCHANGED <<inflight, limit, gated, conns, resets, leaked>>

LeaveLine(r) == line' = [line EXCEPT ![Home[r]] = SelectSeq(@, LAMBDA q : q # r)]

\* Whoever holds the lock polls; a poll without a slot changes nothing.
PollSlot(r) ==
    /\ pc[r] = "queued"
    /\ Head(line[Home[r]]) = r
    /\ Try(r)
    /\ LeaveLine(r)
    /\ Goto(r, "leaving")
    /\ UNCHANGED <<limit, waiting, conns, resets, leaked>>

\* DBLIM_MAX_WAIT_S, in line or at the front of it.
GiveUp(r) ==
    /\ pc[r] = "queued"
    /\ LeaveLine(r)
    /\ Goto(r, "leaving")
    /\ UNCHANGED <<redisVars, gated, conns, resets, disturbed, leaked>>

Through(r) == IF gated[r] = "no" THEN "busy" ELSE "connect"

LeaveGate(r) ==
    /\ pc[r] = "leaving"
    /\ Bump(r, -1, Through(r), "leave_zero")
    /\ UNCHANGED <<inflight, limit, line, gated, conns, resets, leaked>>

LeaveZero(r) ==
    /\ pc[r] = "leave_zero"
    /\ waiting' \in {0, waiting}
    /\ IF waiting' = 0 THEN Works ELSE Fails
    /\ Goto(r, Through(r))
    /\ UNCHANGED <<inflight, limit, line, gated, conns, resets, leaked>>

-----------------------------------------------------------------------------
(* The handler and its connections *)

InUse(p) == LET add(r, n) == n + conns[r] IN FoldSet(add, 0, {r \in Requests : Home[r] = p})
FreeConnection(r) == InUse(Home[r]) < Pool

Connect(r) ==
    /\ pc[r] = "connect"
    /\ FreeConnection(r)
    /\ conns' = [conns EXCEPT ![r] = 1]
    /\ Goto(r, "work")
    /\ UNCHANGED <<redisVars, line, gated, resets, disturbed, leaked>>

\* pool_timeout, raised in the handler: its finally still logs.
ConnectTimeout(r) ==
    /\ pc[r] = "connect"
    /\ ~FreeConnection(r)
    /\ Goto(r, "log")
    /\ UNCHANGED <<redisVars, line, gated, conns, resets, disturbed, leaked>>

\* Commit or rollback returns the connection; an order the database refuses is
\* an exception, and the session is only closed after the finally.
Work(r) ==
    /\ pc[r] = "work"
    /\ conns' \in {[conns EXCEPT ![r] = n] : n \in {0, 1}}
    /\ Goto(r, "log")
    /\ UNCHANGED <<redisVars, line, gated, resets, disturbed, leaked>>

\* log_checkout_attempt takes a session of its own.
Log(r) ==
    /\ pc[r] = "log"
    /\ FreeConnection(r)
    /\ conns' = [conns EXCEPT ![r] = @ + 1]
    /\ Goto(r, "logging")
    /\ UNCHANGED <<redisVars, line, gated, resets, disturbed, leaked>>

Patient(r) == FALSE
\* pool_timeout, swallowed; then get_db closes the session.
LogTimeout(r) == ~FreeConnection(r)

EndHandler(r) ==
    /\ \/ pc[r] = "logging"
       \/ pc[r] = "log" /\ LogTimeout(r)
    /\ conns' = [conns EXCEPT ![r] = 0]
    /\ Goto(r, "release")
    /\ UNCHANGED <<redisVars, line, gated, resets, disturbed, leaked>>

-----------------------------------------------------------------------------
(* release *)

Forget(r) == gated' = [gated EXCEPT ![r] = "no"]

KeepsSlot(r) == UNCHANGED inflight
\* DECR, whatever acquire had taken, and SET 0 when that went below zero.
Decrement(r) == inflight' = inflight - 1
Release(r) ==
    /\ pc[r] = "release"
    /\ Forget(r)
    /\ \/ /\ Decrement(r)
          /\ Goto(r, IF inflight' < 0 THEN "release_zero" ELSE "answered")
          /\ Works
          /\ UNCHANGED leaked
       \/ /\ Fails
          /\ Goto(r, "answered")
          /\ leaked' = IF gated[r] = "slot" THEN leaked + 1 ELSE leaked
          /\ UNCHANGED inflight
    /\ UNCHANGED <<limit, waiting, line, conns, resets>>

ReleaseZero(r) ==
    /\ pc[r] = "release_zero"
    /\ \/ inflight' = 0 /\ Works
       \/ UNCHANGED inflight /\ Fails
    /\ Goto(r, "answered")
    /\ UNCHANGED <<limit, waiting, line, gated, conns, resets, leaked>>

Step(r) ==
    /\ \/ Arrive(r) \/ TryAtOnce(r) \/ Join(r) \/ JoinZero(r)
       \/ PollSlot(r) \/ GiveUp(r) \/ LeaveGate(r) \/ LeaveZero(r)
       \/ Connect(r) \/ ConnectTimeout(r) \/ Work(r) \/ Log(r) \/ EndHandler(r)
       \/ Release(r) \/ ReleaseZero(r)
    /\ UNCHANGED fault

-----------------------------------------------------------------------------
(* What else happens *)

\* leader_tick
Publish ==
    /\ limit' \in Limits
    /\ UNCHANGED <<inflight, waiting, line, pc, gated, conns, fault, resets, disturbed, leaked>>

\* EXPIRE 300, set by the last request that got a slot: the handlers of those
\* that did are over by then.
SlotsExpire ==
    /\ inflight > 0
    /\ Behind = {}
    /\ inflight' = 0
    /\ leaked' = 0
    /\ UNCHANGED <<limit, waiting, line, pc, gated, conns, fault, resets, disturbed>>

\* reset deletes the keys one by one.
Reset ==
    /\ fault = "reset" /\ resets < MaxResets
    /\ \/ inflight' = 0 /\ leaked' = 0 /\ UNCHANGED <<limit, waiting>>
       \/ limit' = InitLimit /\ UNCHANGED <<inflight, waiting, leaked>>
       \/ waiting' = 0 /\ UNCHANGED <<inflight, limit, leaked>>
    /\ resets' = resets + 1
    /\ disturbed' = TRUE
    /\ UNCHANGED <<line, pc, gated, conns, fault>>

Alive(p) == {r \in Requests : Home[r] = p /\ pc[r] # "outside" /\ ~Finished(r)}

\* A replica dies with its requests, its lock and its connections.
Crash(p) ==
    /\ fault = "crash"
    /\ Alive(p) # {}
    /\ pc' = [r \in Requests |-> IF r \in Alive(p) THEN "lost" ELSE pc[r]]
    /\ gated' = [r \in Requests |-> IF r \in Alive(p) THEN "no" ELSE gated[r]]
    /\ conns' = [r \in Requests |-> IF r \in Alive(p) THEN 0 ELSE conns[r]]
    /\ line' = [line EXCEPT ![p] = <<>>]
    /\ leaked' = leaked + Cardinality({r \in Alive(p) : gated[r] = "slot"})
    /\ UNCHANGED <<redisVars, fault, resets, disturbed>>

Quiet == (\A r \in Requests : Finished(r)) /\ UNCHANGED vars

Next ==
    \/ \E r \in Requests : Step(r)
    \/ Publish \/ SlotsExpire \/ Reset
    \/ \E p \in Replicas : Crash(p)
    \/ Quiet

\* Requests are served, and a key that is no longer refreshed expires.
Fairness ==
    /\ \A r \in Requests : WF_vars(Step(r))
    /\ WF_vars(SlotsExpire)

Spec == Init /\ [][Next]_vars /\ Fairness

-----------------------------------------------------------------------------
(* Properties *)

\* Whoever takes a slot finds fewer checkouts behind the gate than the limit
\* says: over all replicas, whatever has crashed, as long as Redis neither
\* failed nor was reset.
AdmitsWithinLimit ==
    [][\A r \in Requests :
          gated[r] = "no" /\ gated'[r] = "slot" /\ ~disturbed => Cardinality(Behind) < limit]_vars

\* Requests let past a failing Redis give back slots they never took, and a
\* reset takes slots from under those who hold them: the counter may then be
\* too low, but never too high, and when the gate is empty it is right again.
CounterHeals ==
    /\ inflight <= Cardinality(Behind) + leaked
    /\ Behind = {} /\ (\A r \in Requests : pc[r] # "release_zero") /\ fault # "redis_error"
           => inflight >= 0

\* Every checkout is answered -- served, or told that the shop is busy --
\* even when all connections are held by handlers that wait for another one.
EveryCheckoutAnswered == \A r \in Requests : pc[r] # "outside" ~> Finished(r)

=============================================================================
