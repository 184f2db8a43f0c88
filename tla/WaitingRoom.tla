---------------------------- MODULE WaitingRoom ----------------------------
(***************************************************************************)
(* app/queue.py: the waiting room of one sale.  Buyers join a Redis sorted *)
(* set and poll; the admission workers of several replicas, one of them    *)
(* holding a lease, pop batches off its front and grant them admissions.   *)
(* Serverless there are no worker threads: requests tick on their way.     *)
(* A step is one Redis round trip; a pipeline is one transaction.          *)
(***************************************************************************)
EXTENDS Naturals, FiniteSets

CONSTANTS Buyers,     \* POST /queue/join requests, each with its queue token
          Workers,    \* replicas, each with its admission worker, or requests that tick
          Batch,      \* ADMIT_BATCH
          MaxResets,  \* bound on POST /queue/reset
          Faults,     \* environment faults that may happen
          Nobody,     \* the lease is free
          Ghost       \* the lease of a replica that died

ASSUME WaitingRoomAssumption ==
    /\ IsFiniteSet(Buyers)
    /\ Batch \in Nat \ {0}
    /\ MaxResets \in Nat
    /\ {Nobody, Ghost} \cap Workers = {}
    /\ Nobody # Ghost

VARIABLES queue,    \* members of queue:z:{sale}
          score,    \* their join times
          ahead,    \* buyers who were in the queue before this join began
          grant,    \* queue tokens with a queue:granted:{sale}:{token}
          live,     \* queue tokens whose admission token is valid
          tracked,  \* queue tokens whose admission is in queue:tokens:{sale}
          lease,    \* queue:admission:leader, or queue:tick_lock:{sale}
          wpc, hand,   \* workers: place, buyers popped and not yet granted
          jpc,      \* where each join is, and then the poll
          told,     \* what a buyer has been told
          rpc, revoking, \* the reset: place, admissions it read
          serverless, \* IS_SERVERLESS
          history   \* what happened so far that the properties refer to

queueVars  == <<queue, score, ahead>>
grantVars  == <<grant, live, tracked>>
workerVars == <<lease, wpc, hand>>
resetVars  == <<rpc, revoking>>
vars == <<queueVars, grantVars, workerVars, jpc, told, resetVars, serverless, history>>

\* granted: buyers ever granted; overran: workers in mid-tick whose lease ran out;
\* void: buyers of before a reset that read every admission and met no batch on
\* the way.
History == [granted : SUBSET Buyers, overran : SUBSET Workers, void : SUBSET Buyers, resets : Nat]

TypeOK ==
    /\ queue \subseteq Buyers
    /\ score \in [Buyers -> Nat]
    /\ ahead \in [Buyers -> SUBSET Buyers]
    /\ grant \subseteq Buyers /\ live \subseteq Buyers /\ tracked \subseteq Buyers
    /\ lease \in Workers \cup {Nobody, Ghost}
    /\ wpc \in [Workers -> {"idle", "pop", "grant", "dead"}]
    /\ hand \in [Workers -> SUBSET Buyers]
    /\ jpc \in [Buyers -> {"new", "stamped", "joined", "rank"}]
    /\ told \in [Buyers -> {"waiting", "admitted", "gone"}]
    /\ rpc \in {"idle", "delete", "scan"}
    /\ revoking \subseteq Buyers
    /\ serverless \in BOOLEAN
    /\ history \in History

Init ==
    /\ queue = {}
    /\ score = [b \in Buyers |-> 0]
    /\ ahead = [b \in Buyers |-> {}]
    /\ grant = {} /\ live = {} /\ tracked = {}
    /\ lease = Nobody
    /\ wpc = [w \in Workers |-> "idle"]
    /\ hand = [w \in Workers |-> {}]
    /\ jpc = [b \in Buyers |-> "new"]
    /\ told = [b \in Buyers |-> "waiting"]
    /\ rpc = "idle"
    /\ revoking = {}
    /\ serverless \in BOOLEAN
    /\ history = [granted |-> {}, overran |-> {}, void |-> {}, resets |-> 0]

Joined == {b \in Buyers : jpc[b] \in {"joined", "rank"}}

Held   == UNION {hand[w] : w \in Workers}

JoinGoto(b, l)   == jpc' = [jpc EXCEPT ![b] = l]
Tell(b, a)       == told' = [told EXCEPT ![b] = a]
WorkGoto(w, l)   == wpc' = [wpc EXCEPT ![w] = l]

-----------------------------------------------------------------------------
(* POST /queue/join *)

\* now = time.time(): the clock has moved since every earlier reading.
JoinStamp(b) ==
    /\ jpc[b] = "new"
    /\ score' = [score EXCEPT ![b] = 1 + Cardinality({a \in Buyers : jpc[a] # "new"})]
    /\ ahead' = [ahead EXCEPT ![b] = Joined]
    /\ JoinGoto(b, "stamped")
    /\ UNCHANGED <<queue, grantVars, workerVars, told, resetVars, history>>

\* ZADD; the ZRANK after it only words the answer.
JoinAdd(b) ==
    /\ jpc[b] = "stamped"
    /\ queue' = queue \cup {b}
    /\ JoinGoto(b, "joined")
    /\ UNCHANGED <<score, ahead, grantVars, workerVars, told, resetVars,
                   history>>

-----------------------------------------------------------------------------
(* GET /queue/status *)

\* GET the grant; if there is one, renew it and the admission, and hand out the
\* admission.  Polling again only renews, which keeps GrantExpires away.
PollAdmitted(b) ==
    /\ jpc[b] = "joined"
    /\ told[b] = "waiting"
    /\ b \in grant
    /\ Tell(b, "admitted")
    /\ UNCHANGED <<queueVars, grantVars, workerVars, jpc, resetVars, history>>

\* No grant: the rank is asked for next.
PollWaiting(b) ==
    /\ jpc[b] = "joined"
    /\ told[b] = "waiting"
    /\ b \notin grant
    /\ JoinGoto(b, "rank")
    /\ UNCHANGED <<queueVars, grantVars, workerVars, told, resetVars, history>>

\* ZRANK finds the buyer: still waiting, and polling again.
PollRanked(b) ==
    /\ jpc[b] = "rank"
    /\ b \in queue
    /\ JoinGoto(b, "joined")
    /\ UNCHANGED <<queueVars, grantVars, workerVars, told, resetVars, history>>

\* It does not, as for everybody between a pop and its grant, or granted
\* since the GET: "Unknown or expired -- rejoin", and no more polls.
PollGone(b) ==
    /\ jpc[b] = "rank"
    /\ b \notin queue
    /\ Tell(b, "gone")
    /\ JoinGoto(b, "joined")
    /\ UNCHANGED <<queueVars, grantVars, workerVars, resetVars, history>>

-----------------------------------------------------------------------------
(* The admission worker *)

RenewsBlindly(w) == TRUE
\* The lease is free (SET NX) or still ours (the renewal script).  If it changes
\* hands between the two calls, the second one decides.  A tick lock is never
\* renewed.
Leads(w) == lease = Nobody \/ (~serverless /\ lease = w)

\* _try_lead, or _maybe_tick: the lease is taken, and the tick goes on.
TryLead(w) ==
    /\ wpc[w] = "idle"
    /\ Leads(w)
    /\ lease' = w
    /\ WorkGoto(w, "pop")
    /\ UNCHANGED <<queueVars, grantVars, hand, jpc, told, resetVars, history>>

NewestFirst(q) == {b \in q : Cardinality({a \in q : score[a] > score[b]}) < Batch}
\* The members ZPOPMIN takes: lowest join times first.
Front(q) == {b \in q : Cardinality({a \in q : score[a] < score[b]}) < Batch}

\* ZPOPMIN
Pop(w) ==
    /\ wpc[w] = "pop"
    /\ hand' = [hand EXCEPT ![w] = Front(queue)]
    /\ queue' = queue \ Front(queue)
    /\ WorkGoto(w, IF queue = {} THEN "idle" ELSE "grant")
    /\ history' = [history EXCEPT !.void = IF rpc = "idle" \/ queue = {} THEN @ ELSE {},
                                  !.overran = IF queue = {} THEN @ \ {w} ELSE @]
    /\ UNCHANGED <<score, ahead, grantVars, lease, jpc, told, resetVars>>

\* One transaction: admission keys, grant keys, the set of tokens.  admit and
\* admit_async are the same twice.
Grant(w) ==
    /\ wpc[w] = "grant"
    /\ grant' = grant \cup hand[w]
    /\ live' = live \cup hand[w]
    /\ tracked' = tracked \cup hand[w]
    /\ hand' = [hand EXCEPT ![w] = {}]
    /\ WorkGoto(w, "idle")
    /\ history' = [history EXCEPT !.granted = @ \cup hand[w],
                                  !.void = IF rpc = "idle" THEN @ ELSE {},
                                  !.overran = @ \ {w}]
    /\ UNCHANGED <<queueVars, lease, jpc, told, resetVars>>

\* The pipeline raises: the exception is swallowed, and so are the buyers.
GrantFails(w) ==
    /\ "redis_down" \in Faults
    /\ wpc[w] = "grant"
    /\ hand' = [hand EXCEPT ![w] = {}]
    /\ WorkGoto(w, "idle")
    /\ history' = [history EXCEPT !.overran = @ \ {w}]
    /\ UNCHANGED <<queueVars, grantVars, lease, jpc, told, resetVars>>

\* A replica dies, one of them survives.  Its worker id dies with it.
WorkerDies(w) ==
    /\ "crash" \in Faults
    /\ wpc[w] # "dead"
    /\ \E v \in Workers \ {w} : wpc[v] # "dead"
    /\ hand' = [hand EXCEPT ![w] = {}]
    /\ WorkGoto(w, "dead")
    /\ lease' = IF lease = w THEN Ghost ELSE lease
    /\ history' = [history EXCEPT !.overran = @ \ {w}]
    /\ UNCHANGED <<queueVars, grantVars, jpc, told, resetVars>>

NeverLapses == FALSE /\ UNCHANGED vars

\* The holder does not come back in time: it is dead, or late for its next
\* tick, or a tick takes longer than the lease, four intervals -- one, for a tick
\* lock.
LeaseExpires ==
    /\ lease # Nobody
    /\ \/ /\ lease = Ghost \/ (lease # Ghost /\ wpc[lease] = "idle")
          /\ UNCHANGED history
       \/ /\ "slow_tick" \in Faults
          /\ lease # Ghost
          /\ wpc[lease] \in {"pop", "grant"}
          /\ history' = [history EXCEPT !.overran = @ \cup {lease}]
    /\ lease' = Nobody
    /\ UNCHANGED <<queueVars, grantVars, wpc, hand, jpc, told, resetVars>>

-----------------------------------------------------------------------------
(* Expiry, and POST /queue/reset *)

\* ADMISSION_TTL_S without a poll; a client that has not been told yet polls
\* more often than that.
GrantExpires(b) ==
    /\ b \in grant \cup live
    /\ told[b] # "waiting"
    /\ grant' = grant \ {b}
    /\ live' = live \ {b}
    /\ UNCHANGED <<queueVars, tracked, workerVars, jpc, told, resetVars,
                   history>>

\* queue:tokens outlives the last batch by four TTLs, an admission that is
\* polled lives for ever.
TrackingExpires ==
    /\ tracked # {}
    /\ \A b \in live : told[b] = "admitted"
    /\ tracked' = {}
    /\ UNCHANGED <<queueVars, grant, live, workerVars, jpc, told, resetVars,
                   history>>

\* SMEMBERS queue:tokens
ResetRead ==
    /\ rpc = "idle"
    /\ history.resets < MaxResets
    /\ revoking' = tracked
    /\ rpc' = "delete"
    /\ history' = [history EXCEPT
                     !.resets = @ + 1,
                     !.void = IF live \subseteq tracked /\ Held = {} THEN Joined ELSE {}]
    /\ UNCHANGED <<queueVars, grantVars, workerVars, jpc, told>>

RevokesNothing(s) == {}
\* The admission keys to delete are those of the tokens that were read.
Revoked(s) == s

\* One transaction: those admissions, the set of tokens, the queue.
ResetDelete ==
    /\ rpc = "delete"
    /\ live' = live \ Revoked(revoking)
    /\ tracked' = {}
    /\ queue' = {}
    /\ rpc' = "scan"
    /\ UNCHANGED <<score, ahead, grant, workerVars, jpc, told, revoking, history>>

\* SCAN and DELETE of the grant keys.
ResetScan ==
    /\ rpc = "scan"
    /\ grant' = {}
    /\ rpc' = "idle"
    /\ revoking' = {}
    /\ UNCHANGED <<queueVars, live, tracked, workerVars, jpc, told, history>>

-----------------------------------------------------------------------------
Frame == UNCHANGED serverless

Join(b) == (JoinStamp(b) \/ JoinAdd(b)) /\ Frame
Poll(b) == (PollAdmitted(b) \/ PollWaiting(b) \/ PollRanked(b) \/ PollGone(b)) /\ Frame
Tick(w) == (TryLead(w) \/ Pop(w) \/ Grant(w) \/ GrantFails(w)) /\ Frame
Lapse   == LeaseExpires /\ Frame
Reset   == (ResetRead \/ ResetDelete \/ ResetScan) /\ Frame

Next ==
    \/ \E b \in Buyers : Join(b) \/ Poll(b) \/ (GrantExpires(b) /\ Frame)
    \/ \E w \in Workers : Tick(w) \/ (WorkerDies(w) /\ Frame)
    \/ Lapse
    \/ TrackingExpires /\ Frame
    \/ Reset

Spec == Init /\ [][Next]_vars

\* A buyer who joined keeps polling, the workers keep ticking -- serverless it is
\* the polls that tick -- and what is not renewed expires.
FairSpec ==
    /\ Spec
    /\ \A b \in Buyers : WF_vars(Poll(b))
    /\ \A w \in Workers : WF_vars(Tick(w))
    /\ WF_vars(Lapse)

-----------------------------------------------------------------------------
(* Properties *)

\* The lease keeps the fleet's admission rate at one worker's: two workers are
\* never in mid-tick together, unless one of them has outlived its lease.
OneAdmitter ==
    Cardinality({w \in Workers : wpc[w] \in {"pop", "grant"}} \ history.overran) <= 1

\* First come, first served: nobody is taken off the queue before a buyer
\* who had a place in it when their join began.
JoinOrderKept ==
    \A b \in Held \cup history.granted : ahead[b] \cap queue = {}

\* After a reset no admission of before it can still check out, if no batch
\* was being admitted while the reset ran and the set of tokens was complete.
CleanResetRevokes == rpc = "idle" => live \cap history.void = {}

\* A buyer who joins and polls does not wait for ever, although leaders die and
\* leases expire.
EveryJoinerAnswered == \A b \in Buyers : b \in Joined ~> told[b] # "waiting"

=============================================================================
