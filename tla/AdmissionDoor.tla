--------------------------- MODULE AdmissionDoor ---------------------------
(***************************************************************************)
(* AdmissionMiddleware of app/admission.py, with the idempotency layer it  *)
(* wraps and the handler behind that: the stack a POST /checkout/* passes. *)
(* The promise is in the module's own words: one admission, one buyer, one *)
(* purchase.                                                               *)
(***************************************************************************)
EXTENDS Idempotency

CONSTANTS Tokens,   \* admission tokens
          TokenOf,  \* the X-Admission-Token of each request, or NoToken
          NoToken,  \* the header is absent
          Users,    \* buyers
          UserOf,   \* the user_id of each request
          NoUser    \* a token nobody has used yet

ASSUME DoorAssumption ==
    /\ TokenOf \in [Requests -> Tokens \cup {NoToken}]
    /\ NoToken \notin Tokens
    /\ UserOf \in [Requests -> Users]
    /\ NoUser \notin Users

VARIABLES grant,    \* tokens with a live grant for the sale
          state,    \* Redis hash admission:state:{token}
          door,     \* where AdmissionMiddleware is for each request
          claimed   \* requests whose claim answered "ok"

doorVars == <<grant, state, door, claimed>>
vars == <<idemVars, doorVars>>

ClaimState == [user : Users \cup {NoUser}, idem : Keys \cup {NoKey},
               inflight : BOOLEAN, spent : BOOLEAN]

NoState == [user |-> NoUser, idem |-> NoKey, inflight |-> FALSE, spent |-> FALSE]

DoorLabels == {"outside", "claiming", "inside", "left"}

DoorTypeOK ==
    /\ IdemTypeOK
    /\ grant \subseteq Tokens
    /\ state \in [Tokens -> ClaimState]
    /\ door \in [Requests -> DoorLabels]
    /\ claimed \subseteq Requests

Token(r) == TokenOf[r]

Enter(r) == door' = [door EXCEPT ![r] = "inside"]
Turn(r, a) == Answer(r, a) /\ door' = [door EXCEPT ![r] = "left"]

Init ==
    /\ IdemInit
    /\ grant = Tokens
    /\ state = [t \in Tokens |-> NoState]
    /\ door = [r \in Requests |-> "outside"]
    /\ claimed = {}

-----------------------------------------------------------------------------
(* queue.validate: no token, or a token without a live grant, is a 403 *)

Refuse(r) ==
    /\ door[r] = "outside"
    /\ Token(r) \notin grant
    /\ Turn(r, Say("refused"))
    /\ UNCHANGED <<slot, orders, calm, grant, state, claimed>>

Validate(r) ==
    /\ door[r] = "outside"
    /\ Token(r) \in grant
    /\ door' = [door EXCEPT ![r] = "claiming"]
    /\ UNCHANGED <<idemVars, grant, state, claimed>>

\* Redis unreachable: the door fails open, without a claim.
DoorFailsOpen(r) ==
    /\ Mishap("redis_down")
    /\ \/ door[r] = "outside" /\ Token(r) # NoToken
       \/ door[r] = "claiming"
    /\ Enter(r)
    /\ UNCHANGED <<slot, pc, response, orders, grant, state, claimed>>

-----------------------------------------------------------------------------
(* _CLAIM_LUA, atomic *)

ForgetsBuyer(s, u) == FALSE
OtherBuyer(s, u) == s.user # NoUser /\ s.user # u

Taken(s) == s.spent \/ s.inflight

\* The same non-empty Idempotency-Key as the request that took the claim.
SameTap(s, k) == s.idem # NoKey /\ s.idem = k

ClaimOk(r) ==
    /\ door[r] = "claiming"
    /\ ~OtherBuyer(state[Token(r)], UserOf[r])
    /\ ~Taken(state[Token(r)])
    /\ state' = [state EXCEPT ![Token(r)] = [@ EXCEPT !.user = UserOf[r],
                                                       !.inflight = TRUE,
                                                       !.idem = Key(r)]]
    /\ claimed' = claimed \cup {r}
    /\ Enter(r)
    /\ UNCHANGED <<idemVars, grant>>

\* Let through, unclaimed, for the idempotency layer to answer.
ClaimReplay(r) ==
    /\ door[r] = "claiming"
    /\ ~OtherBuyer(state[Token(r)], UserOf[r])
    /\ Taken(state[Token(r)])
    /\ SameTap(state[Token(r)], Key(r))
    /\ Enter(r)
    /\ UNCHANGED <<idemVars, grant, state, claimed>>

\* other_buyer, spent or busy.
ClaimRefused(r) ==
    /\ door[r] = "claiming"
    /\ \/ OtherBuyer(state[Token(r)], UserOf[r])
       \/ Taken(state[Token(r)]) /\ ~SameTap(state[Token(r)], Key(r))
    /\ Turn(r, Say("refused"))
    /\ UNCHANGED <<slot, orders, calm, grant, state, claimed>>

-----------------------------------------------------------------------------
(* Inside, and out again *)

NeverSpends(s, confirmed) == [s EXCEPT !.inflight = FALSE]

\* release: a confirmed order spends the admission, anything else frees it.
Released(s, confirmed) ==
    [s EXCEPT !.inflight = FALSE, !.spent = @ \/ confirmed]

ReleaseState(r, confirmed) ==
    IF r \in claimed
    THEN \/ /\ state' = [state EXCEPT ![Token(r)] = Released(@, confirmed)]
            /\ UNCHANGED calm
         \/ Mishap("redis_down") /\ UNCHANGED state
    ELSE UNCHANGED <<state, calm>>

\* db_limiter.acquire gives up: 503, and the claim is released unspent.
LimiterRefuses(r) ==
    /\ "limiter_full" \in Faults
    /\ door[r] = "inside"
    /\ pc[r] = "idle"
    /\ ReleaseState(r, FALSE)
    /\ Turn(r, Say("unavailable"))
    /\ UNCHANGED <<slot, orders, grant, claimed>>

\* call_next: the idempotency layer and the handler.
Inner(r) ==
    /\ door[r] = "inside"
    /\ Arrive(r) \/ Dispatch(r)
    /\ UNCHANGED doorVars

\* The finally block sees the response and releases the claim.
Leave(r) ==
    /\ door[r] = "inside"
    /\ pc[r] = "done"
    /\ ReleaseState(r, response[r].status = "confirmed")
    /\ door' = [door EXCEPT ![r] = "left"]
    /\ UNCHANGED <<slot, pc, response, orders, grant, claimed>>

-----------------------------------------------------------------------------
(* Time and failure *)

\* ADMISSION_TTL_S without a poll.
GrantExpires(t) ==
    /\ t \in grant
    /\ grant' = grant \ {t}
    /\ UNCHANGED <<idemVars, state, door, claimed>>

\* Requests of an admission behind the door.
Behind(t) == {r \in Requests : Token(r) = t /\ door[r] = "inside" /\ pc[r] # "crashed"}

StateNeverExpires(t) == FALSE /\ UNCHANGED vars

\* STATE_TTL_S: longer than any checkout, so only an abandoned claim expires;
\* a spent admission is kept for a day.
StateExpires(t) ==
    /\ state[t].user # NoUser
    /\ ~state[t].spent
    /\ Behind(t) = {}
    /\ state' = [state EXCEPT ![t] = NoState]
    /\ UNCHANGED <<idemVars, grant, door, claimed>>

DoorCrash(r) == Crash(r) /\ UNCHANGED doorVars

KeyExpires(k) == ReservationExpires(k) /\ UNCHANGED doorVars

-----------------------------------------------------------------------------
Pass(r) ==
    \/ Refuse(r) \/ Validate(r) \/ DoorFailsOpen(r)
    \/ ClaimOk(r) \/ ClaimReplay(r) \/ ClaimRefused(r)
    \/ LimiterRefuses(r) \/ Inner(r) \/ Leave(r)

Over == (\A r \in Requests : door[r] = "left" \/ pc[r] = "crashed") /\ UNCHANGED vars

Next ==
    \/ \E r \in Requests : Pass(r) \/ DoorCrash(r)
    \/ \E t \in Tokens : GrantExpires(t) \/ StateExpires(t)
    \/ \E k \in Keys : KeyExpires(k)
    \/ Over

Spec == Init /\ [][Next]_vars

\* A request that came in is carried through; reservations and abandoned
\* claims expire.
FairSpec ==
    /\ Spec
    /\ \A r \in Requests : WF_vars(door[r] # "outside" /\ Pass(r))
    /\ \A k \in Keys : WF_vars(KeyExpires(k))
    /\ \A t \in Tokens : WF_vars(StateExpires(t))

-----------------------------------------------------------------------------
(* Properties *)

OrdersOf(t) == {r \in orders : Token(r) = t}

\* That holds for the requests that hold the claim, whatever the outcomes and
\* the keys, until a fault; the others are replays, and should not buy.
OnePurchasePerClaim ==
    calm => \A t \in Tokens : Cardinality(OrdersOf(t) \cap claimed) <= 1

\* One admission serves one buyer: whoever is behind the door on a token, with
\* the claim or as a replay, is the user the token is bound to.
OneBuyerBehindDoor ==
    calm => \A t \in Tokens : \A r \in Behind(t) : state[t].user = UserOf[r]

\* A failed attempt gives the claim back, and so, in the end, does a crash:
\* "busy" does not last.
ClaimReleased == \A t \in Tokens : state[t].inflight ~> ~state[t].inflight

=============================================================================
