---------------------------- MODULE PaymentVerify -----------------------------
(***************************************************************************)
(* scripts/payment_verify.py, scenario A: n simultaneous calls that create  *)
(* a payment for one order, judged from outside.  The service is the one    *)
(* under test: it may make a second intent, and its answers may carry any   *)
(* id; Stripe's search index, the other witness, runs behind.               *)
(***************************************************************************)
EXTENDS Integers, FiniteSets

CONSTANTS Calls,     \* the n simultaneous calls
          Looks,     \* polls of the queue, and searches, before giving up
          NoIntent

ASSUME PaymentVerifyAssumption ==
    /\ IsFiniteSet(Calls) /\ NoIntent \notin Calls
    /\ Looks \in Nat \ {0}

VARIABLES reuses,     \* whether the service keeps to one intent per attempt
          progress, looks,
          call,       \* where a call is, the intent made for it, the id its answer carries
          intents,    \* at Stripe, each named after the call that made it
          indexed,    \* those its search has seen
          foundBy,    \* what the last search returned
          verdict

verifyVars == <<reuses, progress, looks, call, intents, indexed, foundBy, verdict>>

VerifyInit ==
    /\ reuses \in BOOLEAN
    /\ progress = "sales" /\ looks = 0
    /\ call = [c \in Calls |-> [at |-> "waits", made |-> NoIntent, said |-> NoIntent]]
    /\ intents = {} /\ indexed = {} /\ foundBy = {}
    /\ verdict = "none"

Stops == progress' = "stopped" /\ UNCHANGED <<reuses, looks, call, intents, indexed, foundBy, verdict>>
MovesTo(s) ==
    /\ progress' = s /\ looks' = 0
    /\ UNCHANGED <<reuses, call, intents, indexed, foundBy, verdict>>

-----------------------------------------------------------------------------
(* A confirmed order, through the front door *)

\* No user or no sale; a reset and a join that raise.
JoinsQueue == progress = "sales" /\ (Stops \/ MovesTo("queued"))

PollsQueue ==
    /\ progress = "queued"
    /\ \/ MovesTo("admitted")
       \/ /\ looks < Looks
          /\ looks' = looks + 1
          /\ UNCHANGED <<reuses, progress, call, intents, indexed, foundBy, verdict>>
       \/ looks = Looks /\ Stops

ChecksOut == progress = "admitted" /\ (Stops \/ MovesTo("creating"))

-----------------------------------------------------------------------------
(* The calls *)

IntentOf(c) == IF reuses /\ intents # {} THEN CHOOSE i \in intents : TRUE ELSE c

\* The service makes an intent for the call, or refuses to.
MakesIntent(c, made) == /\ made \in {NoIntent, IntentOf(c)}
                        /\ intents' = intents \cup ({made} \ {NoIntent})

\* The id is whatever the body carries: of the intent made, of another one, of none.
CallAnswered(c) ==
    /\ progress = "creating" /\ call[c].at = "waits"
    /\ \E made \in {NoIntent, IntentOf(c)}, said \in Calls \cup {NoIntent} :
          /\ MakesIntent(c, made)
          /\ call' = [call EXCEPT ![c] = [at |-> "answered", made |-> made, said |-> said]]
    /\ UNCHANGED <<reuses, progress, looks, indexed, foundBy, verdict>>

\* A connection that breaks or times out tells nothing, and the service may be
\* at work on the call still.
BreaksOff(c) ==
    /\ progress = "creating" /\ call[c].at = "waits"
    /\ call' = [call EXCEPT ![c].at = "broken"]
    /\ UNCHANGED <<reuses, progress, looks, intents, indexed, foundBy, verdict>>
MadeLate(c) ==
    /\ call[c].at = "broken" /\ call[c].made = NoIntent
    /\ MakesIntent(c, IntentOf(c))
    /\ call' = [call EXCEPT ![c].made = IntentOf(c)]
    /\ UNCHANGED <<reuses, progress, looks, indexed, foundBy, verdict>>

-----------------------------------------------------------------------------
(* The verdict *)

AllBack == \A c \in Calls : call[c].at # "waits"

IdsSeen == {call[c].said : c \in Calls} \ {NoIntent}
PassedBySearch(hits) == Cardinality(hits) = 1
Passed(hits) == Cardinality(IdsSeen) <= 1 /\ Cardinality(hits) = 1

\* The search returns as soon as it finds something; one that fails counts as none.
SearchStripe ==
    /\ progress = "creating" /\ AllBack
    /\ looks < Looks
    /\ looks' = looks + 1
    /\ \E hits \in {indexed, {}} :
          /\ foundBy' = hits
          /\ IF hits = {} /\ looks' < Looks
             THEN UNCHANGED <<progress, verdict>>
             ELSE progress' = "stopped" /\ verdict' = IF Passed(hits) THEN "pass" ELSE "fail"
    /\ UNCHANGED <<reuses, call, intents, indexed>>

IndexAdvances ==
    /\ \E i \in intents \ indexed : indexed' = indexed \cup {i}
    /\ progress # "stopped"
    /\ UNCHANGED <<reuses, progress, looks, call, intents, foundBy, verdict>>

VerifyNext ==
    \/ JoinsQueue \/ PollsQueue \/ ChecksOut
    \/ \E c \in Calls : CallAnswered(c) \/ BreaksOff(c) \/ MadeLate(c)
    \/ SearchStripe \/ IndexAdvances

VerifySpec == VerifyInit /\ [][VerifyNext]_verifyVars

-----------------------------------------------------------------------------
(* Properties *)

Truthful == \A c \in Calls : call[c].at = "answered" /\ call[c].said = call[c].made
Honest == \A c \in Calls : call[c].said \in {NoIntent, call[c].made}

\* Neither witness alone lets a duplicate pass: PASS means exactly one intent at
\* Stripe if every call was answered with the id of the intent made for it,
\* however far the index is behind, and also if the index was up to date,
\* whatever the answers said; with both at fault it means nothing.  And FAIL is
\* not said of a service that keeps to one intent and misreports none, unless
\* the search came back empty to the end.
VerdictIsRight ==
    /\ verdict = "pass" /\ (Truthful \/ foundBy = intents) => Cardinality(intents) = 1
    /\ verdict = "fail" /\ reuses /\ Honest => foundBy = {}

=============================================================================
