---------------------------- MODULE BuyerClients ----------------------------
(***************************************************************************)
(* The programs that buy from this server: the storefront's checkout()      *)
(* (frontend/src/api.js), the chaos harness (scripts/chaos_verification.py), *)
(* the k6 scripts and the two benchmarks.  All of them queue, poll, post and *)
(* put down an outcome; they differ in what they retry and what they hear.  *)
(* The server is reduced to its queue, its stock and its idempotency cache.  *)
(***************************************************************************)
EXTENDS Naturals, FiniteSets

CONSTANTS Customers,
          Units,     \* stock of the sale
          MaxPolls,  \* polls until a client's deadline or MAX_POLLS
          MaxTries   \* MAX_TRIES of the benchmarks

ASSUME BuyerClientsAssumption ==
    /\ IsFiniteSet(Customers)
    /\ Units \in Nat /\ MaxPolls \in Nat /\ MaxTries \in Nat \ {0}

-----------------------------------------------------------------------------
(* The clients *)

\* What sets them apart: queues (through the waiting room at all), key (sends an
\* Idempotency-Key), rejoins (queues again after a 403), hears (takes the
\* sold-out notice for an answer), heedsExpired, stopsOnError (of a poll),
\* noShows, retries (answers after which it posts again), plan (of the chaos)
\* and declines (gives units back).
PlainClient == [name |-> "k6", queues |-> TRUE, key |-> TRUE, prejoined |-> FALSE,
          rejoins |-> FALSE, hears |-> FALSE, heedsExpired |-> TRUE,
          stopsOnError |-> FALSE, noShows |-> FALSE, retries |-> {}, plan |-> "none",
          declines |-> FALSE]

Storefront == [PlainClient EXCEPT !.name = "storefront", !.rejoins = TRUE, !.stopsOnError = TRUE]
K6Script   == {[PlainClient EXCEPT !.queues = q] : q \in BOOLEAN}
K6FaScript == {[c EXCEPT !.name = "k6fa", !.hears = TRUE, !.noShows = c.queues] : c \in K6Script}
ChaosClient(q, k, p) ==
    [PlainClient EXCEPT !.name = "chaos", !.queues = q, !.key = k, !.plan = p]
ChaosHarness ==
    {ChaosClient(q, k, p) : q \in BOOLEAN, k \in BOOLEAN, p \in {"none", "abort", "duplicate"}}
AimdBenchmark ==
    [PlainClient EXCEPT !.name = "aimd", !.key = FALSE, !.prejoined = TRUE,
                  !.heedsExpired = FALSE, !.retries = {"conflict"}]
FaBenchmark ==
    [AimdBenchmark EXCEPT !.name = "fa", !.hears = TRUE, !.noShows = TRUE,
                          !.retries = {"conflict", "dropped"}, !.declines = TRUE]

AllClients == {Storefront, AimdBenchmark, FaBenchmark} \cup K6Script \cup K6FaScript \cup ChaosHarness

VARIABLES client,   \* the program of this behaviour
          place,    \* a customer's place in the waiting room
          left,     \* units the server still has
          made,   \* orders made, as the posts that made them
          cached,   \* the result stored under a customer's key
          notice,   \* fa:soldout
          stage,       \* where a customer is
          polls, rejoined,
          sent,     \* posts a sender has made
          inside,   \* posts the server has not answered
          reply,    \* the answer on its way to a sender
          written   \* what a sender has put down

serverVars == <<place, left, made, cached, notice>>
clientVars == <<client, serverVars, stage, polls, rejoined, sent, inside, reply, written>>

\* A duplicate is sent by a task of its own, with the same key and admission.
Senders == Customers \X {"original", "duplicate"}
Buyer(s) == s[1]
SenderUsed(s) == s[2] = "original" \/ client.plan = "duplicate"
MaxPosts == MaxTries + 2
PostsMade == Senders \X (1..MaxPosts)

NoAnswer == [status |-> "none", order |-> {}]
Answers == {"confirmed", "sold_out", "expired", "conflict", "dropped", "failed"}
CutOff == {"aborted", "error", "cancelled"}
Outcomes == Answers \cup CutOff \cup {"gave_up", "never_admitted", "told_sold_out",
                                   "noshow", "payment_failed"}

Reply(status, order) == [status |-> status, order |-> order]
Replies == [status : Answers \cup {"none"}, order : SUBSET PostsMade]

ClientTypeOK ==
    /\ client \in AllClients
    /\ place \in [Customers -> {"none", "queued", "granted", "lapsed", "gone"}]
    /\ left \in 0..Units /\ made \subseteq PostsMade /\ notice \in BOOLEAN
    /\ cached \in [Customers -> Replies]
    /\ stage \in [Customers -> {"start", "polling", "ready", "ended"}]
    /\ polls \in [Customers -> 0..MaxPolls] /\ rejoined \in [Customers -> BOOLEAN]
    /\ sent \in [Senders -> 0..MaxPosts] /\ inside \subseteq PostsMade
    /\ reply \in [Senders -> Replies]
    /\ written \in [Senders -> [status : Outcomes \cup {"none"}, order : SUBSET PostsMade]]

\* run_strategy and run_herd release all buyers at once; the benchmarks have
\* queued theirs before.
ClientInit ==
    /\ client \in AllClients
    /\ place = [b \in Customers |-> IF client.prejoined THEN "queued" ELSE "none"]
    /\ left = Units /\ made = {} /\ notice = FALSE
    /\ cached = [b \in Customers |-> NoAnswer]
    /\ stage = [b \in Customers |-> IF client.prejoined THEN "polling"
                                 ELSE IF client.queues THEN "start" ELSE "ready"]
    /\ polls = [b \in Customers |-> 0]
    /\ rejoined = [b \in Customers |-> FALSE]
    /\ sent = [s \in Senders |-> 0] /\ inside = {}
    /\ reply = [s \in Senders |-> NoAnswer]
    /\ written = [s \in Senders |-> NoAnswer]

-----------------------------------------------------------------------------
(* The server *)

Admit(b) == place[b] = "queued" /\ place' = [place EXCEPT ![b] = "granted"]
LapseAdmission(b) == place[b] = "granted" /\ place' = [place EXCEPT ![b] = "lapsed"]
LosePlace(b) == place[b] = "queued" /\ place' = [place EXCEPT ![b] = "gone"]

WaitingRoomStep(b) ==
    /\ client.queues
    /\ Admit(b) \/ LapseAdmission(b) \/ LosePlace(b)
    /\ UNCHANGED <<client, left, made, cached, notice, stage, polls, rejoined,
                   sent, inside, reply, written>>

\* Buyers of other programs.
OthersBuy ==
    /\ left > 0
    /\ left' = left - 1
    /\ UNCHANGED <<client, place, made, cached, notice, stage, polls, rejoined,
                   sent, inside, reply, written>>

RaiseNotice ==
    /\ client.queues /\ left = 0 /\ ~notice
    /\ notice' = TRUE
    /\ UNCHANGED <<client, place, left, made, cached, stage, polls, rejoined,
                   sent, inside, reply, written>>

OrdersOf(b) == {p \in made : Buyer(p[1]) = b}

\* What may be said to a post, with the order it makes or repeats: an admission
\* buys once, and a key is answered what it was answered before.
Verdicts(p) ==
    LET b == Buyer(p[1]) IN
    IF client.queues /\ place[b] # "granted" THEN {Reply("expired", {})}
    ELSE IF client.key /\ cached[b] # NoAnswer THEN {cached[b]}
    ELSE IF client.queues /\ OrdersOf(b) # {} THEN {Reply("failed", {})}
    ELSE {Reply(status, {}) : status \in {"conflict", "dropped", "failed"}}
         \cup {IF left > 0 THEN Reply("confirmed", {p}) ELSE Reply("sold_out", {})}

\* The post is handled, though the sender may be gone; only a sender that still
\* waits for it gets the answer.
Handle(p) ==
    /\ p \in inside
    /\ inside' = inside \ {p}
    /\ \E v \in Verdicts(p) :
          /\ made' = made \cup v.order
          /\ left' = left - Cardinality(v.order \ made)
          /\ cached' = IF client.key /\ v.status \in {"confirmed", "sold_out"}
                       THEN [cached EXCEPT ![Buyer(p[1])] = v] ELSE cached
          /\ reply' = IF p[2] = sent[p[1]] /\ written[p[1]] = NoAnswer
                      THEN [reply EXCEPT ![p[1]] = v] ELSE reply
    /\ UNCHANGED <<client, place, notice, stage, polls, rejoined, sent, written>>

-----------------------------------------------------------------------------
(* A customer in the waiting room *)

PutDown(s, status, order) ==
    written' = [written EXCEPT ![s] = [status |-> status, order |-> order]]
Original(b) == <<b, "original">>
EndsQueueing(b, status) ==
    /\ PutDown(Original(b), status, {})
    /\ stage' = [stage EXCEPT ![b] = "ended"]

PastDeadline(b) == polls[b] >= MaxPolls

\* joinQueue and its like, which a network error or another status ends.
Join(b) ==
    /\ stage[b] = "start"
    /\ \/ /\ place' = [place EXCEPT ![b] = "queued"]
          /\ stage' = [stage EXCEPT ![b] = "polling"]
          /\ UNCHANGED written
       \/ EndsQueueing(b, "never_admitted") /\ UNCHANGED place
    /\ UNCHANGED <<client, left, made, cached, notice, polls, rejoined, sent, inside, reply>>

\* One poll; without a deadline the count would not end.
Counts(b) == polls' = [polls EXCEPT ![b] = IF @ < MaxPolls THEN @ + 1 ELSE @]

Poll(b) ==
    /\ stage[b] = "polling" /\ ~PastDeadline(b)
    /\ Counts(b)
    /\ \/ /\ place[b] = "granted"
          /\ stage' = [stage EXCEPT ![b] = "ready"]
          /\ UNCHANGED written
       \/ /\ client.heedsExpired /\ place[b] \in {"gone", "lapsed"}
          /\ EndsQueueing(b, "never_admitted")
       \/ /\ client.hears /\ notice /\ place[b] = "queued"
          /\ EndsQueueing(b, "told_sold_out")
       \/ /\ \/ place[b] = "queued" /\ ~(client.hears /\ notice)
             \/ place[b] \in {"gone", "lapsed"} /\ ~client.heedsExpired
          /\ UNCHANGED <<stage, written>>
    /\ UNCHANGED <<client, serverVars, rejoined, sent, inside, reply>>

\* A poll without an answer ends the storefront's checkout(); the others go on.
PollFails(b) ==
    /\ stage[b] = "polling" /\ ~PastDeadline(b)
    /\ Counts(b)
    /\ IF client.stopsOnError THEN EndsQueueing(b, "never_admitted") ELSE UNCHANGED <<stage, written>>
    /\ UNCHANGED <<client, serverVars, rejoined, sent, inside, reply>>

GiveUp(b) ==
    /\ stage[b] = "polling" /\ PastDeadline(b)
    /\ EndsQueueing(b, "never_admitted")
    /\ UNCHANGED <<client, serverVars, polls, rejoined, sent, inside, reply>>

NoShow(b) ==
    /\ stage[b] = "ready" /\ client.noShows /\ sent[Original(b)] = 0
    /\ EndsQueueing(b, "noshow")
    /\ UNCHANGED <<client, serverVars, polls, rejoined, sent, inside, reply>>

-----------------------------------------------------------------------------
(* The checkout *)

Waits(s) == sent[s] > 0 /\ written[s] = NoAnswer /\ (<<s, sent[s]>> \in inside \/ reply[s] # NoAnswer)
Sends(s) ==
    /\ sent' = [sent EXCEPT ![s] = @ + 1]
    /\ inside' = inside \cup {<<s, sent[s] + 1>>}

PostCheckout(s) ==
    /\ SenderUsed(s) /\ stage[Buyer(s)] = "ready" /\ written[s] = NoAnswer /\ ~Waits(s)
    /\ sent[s] < MaxPosts
    /\ Sends(s)
    /\ UNCHANGED <<client, serverVars, stage, polls, rejoined, reply, written>>

\* A customer is done when all its senders are.
EndsWith(s, status, order) ==
    /\ PutDown(s, status, order)
    /\ stage' = IF \A t \in Senders : Buyer(t) = Buyer(s) /\ SenderUsed(t) /\ t # s
                   => written[t] # NoAnswer
             THEN [stage EXCEPT ![Buyer(s)] = "ended"] ELSE stage
    /\ reply' = [reply EXCEPT ![s] = NoAnswer]

PostsAgain(s) ==
    /\ sent[s] < MaxPosts
    /\ Sends(s)
    /\ UNCHANGED <<stage, reply, written>>
\* Nobody posts again what may have been handled.
AfterBreak(s) == EndsWith(s, "error", {}) /\ UNCHANGED <<sent, inside>>

\* one_purchase cuts the connection a few milliseconds after its first post.
Aborts(s) == client.plan = "abort" /\ sent[s] = 1

\* The connection breaks or times out; the server does not notice.
Breaks(s) ==
    /\ Waits(s) /\ ~Aborts(s)
    /\ AfterBreak(s)
    /\ UNCHANGED <<client, serverVars, polls, rejoined>>

Abort(s) ==
    /\ Waits(s) /\ Aborts(s)
    /\ EndsWith(s, "aborted", {})
    /\ UNCHANGED <<client, serverVars, polls, rejoined, sent, inside>>

\* The deadline of run_herd cancels the tasks that are left.
Cancel(s) ==
    /\ Waits(s) /\ client.name = "fa"
    /\ EndsWith(s, "cancelled", {})
    /\ UNCHANGED <<client, serverVars, polls, rejoined, sent, inside>>

\* It answered before the cut: the post is made once more.
PostTwice(s) ==
    /\ reply[s] # NoAnswer /\ written[s] = NoAnswer
    /\ Aborts(s)
    /\ reply' = [reply EXCEPT ![s] = NoAnswer]
    /\ Sends(s)
    /\ UNCHANGED <<client, serverVars, stage, polls, rejoined, written>>

Rejoins(s) ==
    /\ client.rejoins /\ ~rejoined[Buyer(s)] /\ ~PastDeadline(Buyer(s))
    /\ reply[s].status = "expired"

Rejoin(s) ==
    /\ written[s] = NoAnswer /\ Rejoins(s)
    /\ rejoined' = [rejoined EXCEPT ![Buyer(s)] = TRUE]
    /\ stage' = [stage EXCEPT ![Buyer(s)] = "start"]
    /\ reply' = [reply EXCEPT ![s] = NoAnswer]
    /\ UNCHANGED <<client, serverVars, polls, sent, inside, written>>

\* A version conflict or a dropped request: again, MAX_TRIES times in all.
Retry(s) ==
    /\ written[s] = NoAnswer /\ reply[s].status \in client.retries
    /\ IF sent[s] < MaxTries
       THEN reply' = [reply EXCEPT ![s] = NoAnswer] /\ UNCHANGED <<stage, written>>
       ELSE EndsWith(s, "gave_up", {})
    /\ UNCHANGED <<client, serverVars, polls, rejoined, sent, inside>>

Receive(s) ==
    /\ reply[s] # NoAnswer /\ written[s] = NoAnswer
    /\ ~Aborts(s) /\ ~Rejoins(s) /\ reply[s].status \notin client.retries
    /\ EndsWith(s, reply[s].status, reply[s].order)
    /\ UNCHANGED <<client, serverVars, polls, rejoined, sent, inside>>

\* A customer of the benchmark whose payment fails gives the unit back.
Decline(s) ==
    /\ client.declines /\ written[s].status = "confirmed"
    /\ PutDown(s, "payment_failed", written[s].order)
    /\ left' = left + 1
    /\ UNCHANGED <<client, place, made, cached, notice, stage, polls, rejoined,
                   sent, inside, reply>>

CustomerStep(b) == Join(b) \/ Poll(b) \/ PollFails(b) \/ GiveUp(b) \/ NoShow(b)
SenderStep(s) ==
    \/ PostCheckout(s) \/ Breaks(s) \/ Abort(s) \/ Cancel(s) \/ PostTwice(s)
    \/ Rejoin(s) \/ Retry(s) \/ Receive(s) \/ Decline(s)

ClientNext ==
    \/ \E b \in Customers : WaitingRoomStep(b) \/ CustomerStep(b)
    \/ OthersBuy \/ RaiseNotice
    \/ \E p \in inside : Handle(p)
    \/ \E s \in Senders : SenderStep(s)

ClientSpec == ClientInit /\ [][ClientNext]_clientVars

-----------------------------------------------------------------------------
(* Properties *)

OutcomesOf(b) == {written[s] : s \in {t \in Senders : Buyer(t) = b /\ SenderUsed(t)}}

\* A report counts the orders there are: the orders of a customer are the ones
\* its outcomes name, through retries, a second admission, replays and
\* duplicates -- unless one of its connections was cut, or it is one of those
\* that cut theirs.
ReportsMatchOrders ==
    client.plan # "abort" =>
        \A b \in Customers : stage[b] = "ended" =>
            \/ \E o \in OutcomesOf(b) : o.status \in CutOff
            \/ OrdersOf(b) = UNION {o.order : o \in OutcomesOf(b)}

=============================================================================
