--------------------------- MODULE ShowEstimator ---------------------------
(***************************************************************************)
(* app/show_estimator.py and the budgets app/claim_window.py makes of it:  *)
(* how many admitted buyers will still show up, estimated while a sale     *)
(* runs.  Time is counted in seconds; a rate is a fraction [num, den].     *)
(***************************************************************************)
EXTENDS Naturals, FiniteSets, Sequences

CONSTANTS Guests,
          TokenTtl,      \* life of an admission
          LastSecond,  \* bound on the clock
          PriorK,        \* pseudo-observations of the prior
          FloorPercent,    \* lowest rate, in percent
          Seeds            \* starts: the prior's rate num / den, the delays of an
                           \* earlier sale (<<>> for none) and how claims are weighed

ASSUME ShowEstimatorAssumption ==
    /\ IsFiniteSet(Guests)
    /\ TokenTtl \in Nat \ {0} /\ LastSecond \in Nat
    /\ PriorK \in Nat \ {0}
    /\ FloorPercent \in 1..100
    /\ Seeds \subseteq [num : Nat, den : Nat \ {0}, delays : Seq(Nat),
                       weighting : {"count", "posterior"}]
    /\ Seeds # {}

VARIABLES time,    \* the clock
          startedAt,  \* fa:t0, the clock start of those granted
          toldOf,   \* fa:nt, who has been notified
          showDelay,  \* fa:show, from the clock start to the first checkout
          seed        \* FA_PRIOR_P, FA_PRIOR_DELAYS and FA_WEIGHTING

showVars == <<time, startedAt, toldOf, showDelay, seed>>

Granted == DOMAIN startedAt
Shown   == DOMAIN showDelay

EstimatorTypeOK ==
    /\ time \in 0..LastSecond
    /\ Granted \subseteq Guests /\ startedAt \in [Granted -> 0..time]
    /\ toldOf \subseteq Granted
    /\ Shown \subseteq toldOf /\ showDelay \in [Shown -> 0..(TokenTtl - 1)]
    /\ seed \in Seeds

Put(f, b, v) == [a \in DOMAIN f \cup {b} |-> IF a = b THEN v ELSE f[a]]

EstimatorInit ==
    /\ time = 0
    /\ startedAt = [b \in {} |-> 0]
    /\ toldOf = {}
    /\ showDelay = [b \in {} |-> 0]
    /\ seed \in Seeds

\* track_grants
GrantToken(b) ==
    /\ b \notin Granted
    /\ startedAt' = Put(startedAt, b, time)
    /\ UNCHANGED <<time, toldOf, showDelay, seed>>

\* note_notified, at the first poll of a live grant: the clock starts again.
NotifyBuyer(b) ==
    /\ b \in Granted \ toldOf
    /\ time - startedAt[b] < TokenTtl
    /\ startedAt' = Put(startedAt, b, time)
    /\ toldOf' = toldOf \cup {b}
    /\ UNCHANGED <<time, showDelay, seed>>

\* on_show: HSETNX, the first checkout only.
ShowUp(b) ==
    /\ b \in toldOf \ Shown
    /\ time - startedAt[b] < TokenTtl
    /\ showDelay' = Put(showDelay, b, time - startedAt[b])
    /\ UNCHANGED <<time, startedAt, toldOf, seed>>

EstimatorTick ==
    /\ time < LastSecond
    /\ time' = time + 1
    /\ UNCHANGED <<startedAt, toldOf, showDelay, seed>>

EstimatorNext ==
    \/ \E b \in Guests : GrantToken(b) \/ NotifyBuyer(b) \/ ShowUp(b)
    \/ EstimatorTick

EstimatorSpec == EstimatorInit /\ [][EstimatorNext]_showVars

-----------------------------------------------------------------------------
(* Fractions *)

Frac(n, d)  == [num |-> n, den |-> d]
AtLeast(a, b) == a.num * b.den >= b.num * a.den
Below(a, b) == ~AtLeast(a, b)
SameFrac(a, b)  == AtLeast(a, b) /\ AtLeast(b, a)
One         == Frac(1, 1)
Clamp(p)    == IF Below(p, Frac(FloorPercent, 100)) THEN Frac(FloorPercent, 100)
               ELSE IF AtLeast(p, One) THEN One ELSE p
FloorDiv(n, d) == n \div d
CeilDiv(n, d) == (n + d - 1) \div d

-----------------------------------------------------------------------------
(* The estimates *)

\* cold_count, the arm of the default settings: no prior, every claim counts one.
ColdCount == seed.weighting = "count" /\ seed.num = seed.den /\ seed.delays = <<>>

AgeFromGrant(b) == time - startedAt[b]
\* untold_at_age_zero: whoever has not been told cannot have shown yet.  The cold
\* count arm keeps its pilot's inputs, an untold grant ages like any other.
Age(b) ==
    IF ~ColdCount /\ b \notin toldOf /\ time - startedAt[b] < TokenTtl
    THEN 0 ELSE time - startedAt[b]

Mature(B) == {b \in B : Age(b) >= TokenTtl}
Young(B)  == B \ Mature(B)

\* The sample of G: the delays of the mature buyers who showed, before there is
\* one the seed's.
Sample(B) ==
    LET came == Mature(B) \cap Shown
    IN  IF came # {} THEN [b \in came |-> showDelay[b]] ELSE seed.delays
\* cdf: how much of a sample is over at an age.
Within(g, age) == Cardinality({m \in DOMAIN g : g[m] <= age})
\* Pairs of a young buyer and a delay that is over at their age: the sum of
\* G(age), times the size of the sample.
Due(B) == LET g == Sample(B)
          IN  Cardinality({p \in Young(B) \X DOMAIN g : g[p[2]] <= Age(p[1])})

\* (shows + k prior) / (n_mature + sum of G(age) over the young + k); without a
\* G, the prior.
Censored(B) ==
    LET nd == Cardinality(DOMAIN Sample(B))
        shows == Cardinality(B \cap Shown)
    IN  IF nd = 0 THEN Clamp(Frac(seed.num, seed.den))
        ELSE Clamp(Frac((seed.den * shows + PriorK * seed.num) * nd,
                        seed.den * ((Cardinality(Mature(B)) + PriorK) * nd + Due(B))))

Estimate == Censored(Granted)

\* p (1 - g) / (1 - p g), g = G(age) = c / nd.
Posterior(p, c, nd) ==
    IF c = nd THEN Frac(0, 1)
    ELSE Frac(p.num * (nd - c), p.den * nd - p.num * c)

-----------------------------------------------------------------------------
(* The budgets *)

Unresolved == {b \in Granted : time - startedAt[b] < TokenTtl}

\* claim_weights: a buyer who is at the checkout counts 1, another by the chance
\* that they still come.
ClaimWeight(b, p) ==
    LET g  == Sample(Granted)
        nd == Cardinality(DOMAIN g)
    IN  IF b \in Shown THEN One
        ELSE IF nd = 0 THEN p ELSE Posterior(p, Within(g, Age(b)), nd)

\* A sum of fractions.
SumOver(S, p) ==
    LET add[T \in SUBSET S] ==
            IF T = {} THEN Frac(0, 1)
            ELSE LET b == CHOOSE b \in T : TRUE
                     w == ClaimWeight(b, p)
                     r == add[T \ {b}]
                 IN  Frac(w.num * r.den + r.num * w.den, w.den * r.den)
    IN  add[S]

\* weighted_budget, at a margin of 1: ceil((free - sum of the weights) / p).  Of
\* the arms that weigh claims by their age; the others' is in ClaimWindow.
WeightedBudget(free, p) ==
    LET s == SumOver(Unresolved, p) IN
    IF free = 0 \/ s.num >= free * s.den THEN 0
    ELSE CeilDiv((free * s.den - s.num) * p.den, s.den * p.num)

-----------------------------------------------------------------------------
(* Properties *)

Frees == 0..(Cardinality(Guests) + 1)

\* A slow notification path does not open the window: grants nobody has been
\* told of yet leave the estimate where it is, unless the sample holds the delay of
\* somebody who checked out in the very second they were told, and in every arm
\* but the cold count arm, where they do drag it down.
UntoldCountForNothing ==
    ~ColdCount /\ (\A m \in DOMAIN Sample(Granted) : Sample(Granted)[m] > 0) =>
        LET heard == {b \in Granted : b \in toldOf \/ time - startedAt[b] >= TokenTtl}
        IN  SameFrac(Estimate, Censored(heard))

\* The weighted budget is the largest n for which the shows still expected, of
\* the unresolved and of n - 1 new buyers, stay below the free units: admission
\* stops neither a buyer early nor a buyer late, whatever the rounding.
BudgetIsLargest ==
    seed.weighting = "posterior" => \A free \in Frees :
        LET s == SumOver(Unresolved, Estimate)
            n == WeightedBudget(free, Estimate)
            fits(k) == s.num * Estimate.den + (k - 1) * Estimate.num * s.den < free * s.den * Estimate.den
        IN  (n > 0 => fits(n)) /\ ~fits(n + 1)

=============================================================================
