----------------------------- MODULE MCPrograms -----------------------------
(***************************************************************************)
(* Small instances of the modules that stand for themselves: the two        *)
(* controllers' arithmetic, the sale window and the demonstrations.  A      *)
(* behaviour runs one of them and leaves the others at their start.         *)
(***************************************************************************)
EXTENDS Aimd, ShowEstimator, BuyingDemos, WoundWait, TimestampOrdering, LockDemos,
        SaleWindow, TLC

VARIABLE program

Programs == {"aimd", "estimator", "buying", "woundwait", "timestamps", "locks", "window"}

MCWorlds ==
    [law : {"aimd"}, kind : {"any"}, knee : {1}, rate : {1}, fast : {60}, slow : {400}]
    \cup [law : {"aimd", "breakwater"}, kind : {"knee"}, knee : {2, 3}, rate : {1, 2},
          fast : {60}, slow : {400, 900}]
    \cup [law : {"aimd"}, kind : {"slows"}, knee : {1}, rate : {1, 2},
          fast : {60}, slow : {400, 900}]

\* A cold start, and one warmed by an earlier sale, in either weighting.
MCSeeds == {[num |-> 1, den |-> 1, delays |-> <<>>, weighting |-> w] : w \in {"count", "posterior"}}
     \cup {[num |-> 1, den |-> 2, delays |-> <<1, 2>>, weighting |-> w] : w \in {"count", "posterior"}}

MCArms == [strategy : {"naive", "pessimistic", "optimistic", "redis"},
           check : BOOLEAN, insertFails : BOOLEAN]

MCWants == <<<<"inventory", "user", "order">>, <<"user", "order", "inventory">>,
             <<"order", "inventory", "user">>>>

Window(a, b) == [start |-> a, end |-> b]
MCSales == {Window(0, 20), Window(0, 3), Window(20, 40)}

AimdAtRest       == world = CHOOSE w \in Worlds : TRUE
BuyingAtRest     == arm = CHOOSE a \in Arms : TRUE
EstimatorAtRest  == seed = CHOOSE s \in Seeds : TRUE
TimestampsAtRest == ~thomas
LocksAtRest      == scene = "pause"
WindowAtRest     == ~lazy /\ ~failed /\ edits[1].sale = Window(0, 20)

Init ==
    /\ program \in Programs
    /\ AimdInit /\ (program = "aimd" \/ AimdAtRest)
    /\ EstimatorInit /\ (program = "estimator" \/ EstimatorAtRest)
    /\ BuyingInit /\ (program = "buying" \/ BuyingAtRest)
    /\ WoundInit
    /\ ToInit /\ (program = "timestamps" \/ TimestampsAtRest)
    /\ LockInit /\ (program = "locks" \/ LocksAtRest)
    /\ WindowInit /\ (program = "window" \/ WindowAtRest)

allVars == <<program, aimdVars, showVars, buyingVars, woundVars, toVars, lockVars, windowVars>>

Aimd ==
    /\ program = "aimd" /\ AimdNext
    /\ UNCHANGED <<program, showVars, buyingVars, woundVars, toVars, lockVars, windowVars>>
Estimator ==
    /\ program = "estimator" /\ EstimatorNext
    /\ UNCHANGED <<program, aimdVars, buyingVars, woundVars, toVars, lockVars, windowVars>>
Buying ==
    /\ program = "buying" /\ BuyingNext
    /\ UNCHANGED <<program, aimdVars, showVars, woundVars, toVars, lockVars, windowVars>>
Wounding ==
    /\ program = "woundwait" /\ WoundNext
    /\ UNCHANGED <<program, aimdVars, showVars, buyingVars, toVars, lockVars, windowVars>>
Ordering ==
    /\ program = "timestamps" /\ ToNext
    /\ UNCHANGED <<program, aimdVars, showVars, buyingVars, woundVars, lockVars, windowVars>>
Locking ==
    /\ program = "locks" /\ LockNext
    /\ UNCHANGED <<program, aimdVars, showVars, buyingVars, woundVars, toVars, windowVars>>
Windowing ==
    /\ program = "window" /\ WindowNext
    /\ UNCHANGED <<program, aimdVars, showVars, buyingVars, woundVars, toVars, lockVars>>

Next == Aimd \/ Estimator \/ Buying \/ Wounding \/ Ordering \/ Locking \/ Windowing

\* A controller ticks, a thread or a backend runs.
Fair == (world.kind # "any" /\ Aimd) \/ Wounding \/ Locking

Spec == Init /\ [][Next]_allVars /\ WF_allVars(Fair)

\* The demonstrations of deadlocks end: wounding and PostgreSQL's detector break
\* every cycle of waiting transactions, at the price of one of them.
EveryScriptEnds == TxnsEnd /\ LockScriptsEnd

=============================================================================
