-------------------------------- MODULE Aimd --------------------------------
(***************************************************************************)
(* The adaptive window of app/admission_control.py (step) and the two laws *)
(* app/db_limiter.py puts behind the same leader tick: step again, and the *)
(* Breakwater-style credits.  Checkouts are recorded by whole second, but  *)
(* the leader decides anywhere within one: a second is a number of parts,  *)
(* and what the leader reads of the second it is in is what that has so    *)
(* far.  The window is kept in parts of a slot and rounded down to one.    *)
(***************************************************************************)
EXTENDS Naturals, FiniteSets

CONSTANTS MinCwnd, MaxCwnd, InitCwnd,  \* bounds and start of the window
          Scale,          \* parts of a slot
          Latencies,      \* latencies a histogram bucket may stand for, in ms
          TargetMin, TargetMax, Tolerance,
          MinSamples,     \* completions below which latency is not judged
          StallMin,       \* in-flight checkouts that make a silence a stall
          PlateauRounds,  \* doublings without a gain before the pipe is full
          Parts,          \* parts of a second, the leader's ticks
          MaxLate,        \* bound on the ticks by which a step is late
          Worlds          \* databases the controller may be put in front of

ASSUME AimdAssumption ==
    /\ MinCwnd \in Nat \ {0} /\ MaxCwnd \in Nat /\ InitCwnd \in MinCwnd..MaxCwnd
    /\ Latencies \subseteq Nat \ {0}
    /\ TargetMin \in Nat /\ TargetMax \in Nat /\ TargetMin <= TargetMax
    /\ {Scale, Tolerance, MinSamples, StallMin, PlateauRounds, Parts} \subseteq Nat \ {0}
    /\ MaxLate \in Nat
    /\ Worlds \subseteq [law : {"aimd", "breakwater"}, kind : {"any", "knee", "slows"},
                         knee : 1..MaxCwnd, rate : Nat \ {0},
                         fast : Latencies, slow : Latencies]

VARIABLES world,     \* the database of this behaviour
          slowed,    \* kind "slows": the database has become slower for good
          cwnd, ssthresh, phase, baseline, prev, plateau, signal, \* State
          enough,    \* last_n, as far as step looks at it: MinSamples or more
          since,     \* last_decrease_ts: seconds begun since then, two at most
          part,      \* how much of the current second is over
          age,       \* last_step_ts: parts since then
          thisSecond, lastSecond, \* what is recorded in the current second, the one before
          fresh      \* what was recorded since the last decrease, all there is
                     \* before the first one

stateVars == <<cwnd, ssthresh, phase, baseline, prev, plateau, signal, enough, since>>
timeVars  == <<part, thisSecond, lastSecond, slowed>>
aimdVars  == <<world, stateVars, timeVars, age, fresh>>

Unset == 0     \* no baseline

\* Checkouts that ended quickly, slowly, and how many of them were lost.
Records == [fast : Nat, slow : Nat, lost : Nat]
Recorded(f, s, l) == [fast |-> f, slow |-> s, lost |-> l]
Silence == Recorded(0, 0, 0)
Kinds == {"fast", "slow", "lost"}

AimdTypeOK ==
    /\ world \in Worlds /\ slowed \in BOOLEAN
    /\ cwnd \in (MinCwnd * Scale)..(MaxCwnd * Scale)
    /\ ssthresh \in (MinCwnd * Scale)..(MaxCwnd * Scale)
    /\ phase \in {"slow_start", "avoid"}
    /\ baseline \in Latencies \cup {Unset}
    /\ prev \in Nat /\ plateau \in 0..PlateauRounds
    /\ signal \in {"init", "latency", "loss", "stall", "idle", "full_pipe",
                   "slow_start", "increase", "delay", "no_data"}
    /\ enough \in BOOLEAN
    /\ since \in 0..2
    /\ part \in 0..(Parts - 1)
    /\ age \in 0..(Parts + MaxLate)
    /\ thisSecond \in Records /\ lastSecond \in Records
    /\ fresh \subseteq Kinds

AimdInit ==
    /\ world \in Worlds
    /\ slowed = FALSE
    /\ cwnd = InitCwnd * Scale /\ ssthresh = MaxCwnd * Scale
    /\ phase = "slow_start" /\ baseline = Unset
    /\ prev = 0 /\ plateau = 0 /\ signal = "init"
    /\ enough = FALSE
    /\ since = 2
    /\ part = 0 /\ age = Parts
    /\ thisSecond = Silence /\ lastSecond = Silence
    /\ fresh = Kinds

Lesser(a, b)  == IF a < b THEN a ELSE b
Greater(a, b) == IF a > b THEN a ELSE b
Slots(c)      == c \div Scale

-----------------------------------------------------------------------------
(* What the leader reads *)

Together(a, b) == Recorded(a.fast + b.fast, a.slow + b.slow, a.lost + b.lost)

\* quantile_from_hist at 0.9: the bucket the ceil(0.9 n)-th completion is in.
Quantile(r) == IF 10 * r.fast >= 9 * (r.fast + r.slow) THEN world.fast ELSE world.slow

Stats(r, secs) == [n |-> r.fast + r.slow, q |-> Quantile(r), lost |-> r.lost, secs |-> secs]

TwoSeconds == Stats(Together(lastSecond, thisSecond), 2)
\* read_window: this second as far as it goes and the one before, each counted as
\* a whole one; of them only those that began after the last decrease.
ReadWindow ==
    CASE since = 2 -> TwoSeconds
      [] since = 1 -> Stats(thisSecond, 1)
      [] OTHER     -> Stats(Silence, 1)

Enough(w) == w.n >= MinSamples

\* Completions per second, doubled to stay whole.
Throughput(w) == (2 * w.n) \div w.secs

LatestOnly(w) == IF Enough(w) THEN w.q ELSE baseline
\* The best latency ever seen, this window's included.
BestEver(w) == IF Enough(w) /\ (baseline = Unset \/ w.q < baseline)
           THEN w.q ELSE baseline

\* target_ms
Target(b) == Lesser(TargetMax, Greater(TargetMin, Tolerance * b))

OverTarget(w) == Enough(w) /\ w.q > Target(BestEver(w))
AtFloor == cwnd <= MinCwnd * Scale

NeverStale(w) == FALSE
\* Slow although nothing runs: the baseline is of another database.
Stale(w) == OverTarget(w) /\ AtFloor

Lossy(w) == Enough(w) /\ ~OverTarget(w) /\ 10 * w.lost > 3 * w.n

Stalled(w, inflight) ==
    ~Enough(w) /\ inflight >= StallMin /\ inflight * Scale >= cwnd

Congested(w, inflight) ==
    \/ OverTarget(w) /\ ~AtFloor
    \/ Lossy(w)
    \/ Stalled(w, inflight)

NobodyHere(w, inflight, depth) == ~Enough(w) /\ ~Stalled(w, inflight) /\ depth = 0

-----------------------------------------------------------------------------
(* step *)

Halved(c) == Greater(MinCwnd * Scale, c \div 2)

Decrease(w, inflight) ==
    /\ Congested(w, inflight)
    /\ cwnd' = Halved(cwnd)
    /\ ssthresh' = Halved(cwnd)
    /\ phase' = "avoid"
    /\ baseline' = BestEver(w)
    /\ signal' = IF OverTarget(w) THEN "latency" ELSE IF Lossy(w) THEN "loss" ELSE "stall"
    /\ since' = 0
    /\ fresh' = {}
    /\ UNCHANGED <<prev, plateau>>

\* A fresh State: the next drop calibrates against its own database.
ForgetAll(w, inflight, depth) ==
    /\ NobodyHere(w, inflight, depth)
    /\ cwnd' = InitCwnd * Scale /\ ssthresh' = MaxCwnd * Scale
    /\ phase' = "slow_start" /\ baseline' = Unset
    /\ prev' = 0 /\ plateau' = 0
    /\ signal' = "idle"
    /\ since' = 2
    /\ fresh' = Kinds

Steady(w, inflight, depth) == ~Congested(w, inflight) /\ ~NobodyHere(w, inflight, depth)

Rebased(w) == IF Stale(w) THEN w.q ELSE BestEver(w)

\* A doubling that raised throughput by less than a quarter: "full pipe".
NoGain(w) == prev > 0 /\ 4 * Throughput(w) < 5 * prev
Flat(w)   == IF NoGain(w) THEN plateau + 1 ELSE 0

SlowStart(w, inflight, depth) ==
    /\ Steady(w, inflight, depth)
    /\ phase = "slow_start"
    /\ plateau' = Flat(w)
    /\ prev' = Throughput(w)
    /\ IF Flat(w) >= PlateauRounds
       THEN /\ cwnd' = Greater(MinCwnd * Scale, cwnd)
            /\ ssthresh' = cwnd /\ phase' = "avoid" /\ signal' = "full_pipe"
       ELSE /\ cwnd' = Lesser(2 * cwnd, MaxCwnd * Scale)
            /\ phase' = IF cwnd' >= ssthresh THEN "avoid" ELSE phase
            /\ signal' = "slow_start"
            /\ UNCHANGED ssthresh
    /\ baseline' = Rebased(w)
    /\ UNCHANGED <<since, fresh>>

\* At least one, or a twentieth.
Increase(w, inflight, depth) ==
    /\ Steady(w, inflight, depth)
    /\ phase = "avoid"
    /\ cwnd' = Lesser(MaxCwnd * Scale, cwnd + Greater(Scale, cwnd \div 20))
    /\ signal' = "increase"
    /\ baseline' = Rebased(w)
    /\ UNCHANGED <<ssthresh, phase, prev, plateau, since, fresh>>

AimdStep(w, inflight, depth) ==
    /\ world.law = "aimd"
    /\ \/ Decrease(w, inflight) \/ ForgetAll(w, inflight, depth)
       \/ SlowStart(w, inflight, depth) \/ Increase(w, inflight, depth)

\* breakwater_step: additive below the target, above it cut in proportion to the
\* overshoot, by at most a half.  It reads both seconds whatever it decided last.
BreakwaterStep(w) ==
    /\ world.law = "breakwater"
    /\ baseline' = BestEver(w)
    /\ LET d == w.q
           target == Greater(TargetMin, 2 * BestEver(w))
       IN  \/ /\ ~Enough(w)
              /\ signal' = "no_data"
              /\ UNCHANGED cwnd
           \/ /\ Enough(w) /\ d <= target
              /\ signal' = "increase"
              /\ cwnd' = Lesser(MaxCwnd * Scale, cwnd + Scale)
           \/ /\ Enough(w) /\ d > target
              /\ signal' = "delay"
              /\ cwnd' = Greater(MinCwnd * Scale,
                             Greater((cwnd * (10 * d - 4 * (d - target))) \div (10 * d),
                                     cwnd \div 2))
    /\ UNCHANGED <<ssthresh, phase, prev, plateau, since, fresh>>

-----------------------------------------------------------------------------
(* The databases *)

\* What a database completes in a part of a second.
Arbitrary == {Silence, Recorded(1, 0, 1), Recorded(0, MinSamples, 0)}

\* Up to the knee every slot completes quickly; past it, slowly and no more.
Knee == {IF Slots(cwnd) <= world.knee THEN Recorded(world.rate * Slots(cwnd), 0, 0)
                                      ELSE Recorded(0, world.rate * world.knee, 0)}

\* Everything completes; from some time on more slowly.
Slows == {IF slowed THEN Recorded(0, world.rate * Slots(cwnd), 0)
                    ELSE Recorded(world.rate * Slots(cwnd), 0, 0)}

Completions ==
    CASE world.kind = "any" -> Arbitrary [] world.kind = "knee" -> Knee
      [] world.kind = "slows" -> Slows

\* Checkouts in flight when the leader looks, and whether anybody waits.
Loads == IF world.kind = "any" THEN {0, MaxCwnd} \X {0, 1} ELSE {<<Slots(cwnd), 1>>}

KindsOf(r) == {k \in Kinds : r[k] > 0}

\* A part of a second passes; what ends in it is recorded.
PartPasses ==
    /\ age < Parts + MaxLate
    /\ \E r \in Completions :
           LET all == Together(thisSecond, r) IN
           /\ fresh' = fresh \cup KindsOf(r)
           /\ IF part + 1 = Parts
              THEN /\ part' = 0 /\ thisSecond' = Silence /\ lastSecond' = all
                   /\ since' = Lesser(2, since + 1)
              ELSE /\ part' = part + 1 /\ thisSecond' = all
                   /\ UNCHANGED <<lastSecond, since>>
    /\ age' = age + 1
    /\ slowed' \in {slowed, world.kind = "slows"}
    /\ UNCHANGED <<world, cwnd, ssthresh, phase, baseline, prev, plateau, signal, enough>>

\* leader_tick, a second or a little more after the last step.
LeaderStep ==
    /\ age >= Parts
    /\ \E load \in Loads, w \in {ReadWindow} :
          /\ AimdStep(w, load[1], load[2]) \/ BreakwaterStep(w)
          /\ enough' = Enough(w)
    /\ age' = 0
    /\ UNCHANGED <<world, timeVars>>

AimdNext == PartPasses \/ LeaderStep

AimdSpec == AimdInit /\ [][AimdNext]_aimdVars

-----------------------------------------------------------------------------
(* Properties *)

\* No checkout costs two decreases: the window is cut for latency or for loss only
\* if a checkout was too slow, or was lost, that had not ended when it was cut
\* last -- however the steps lie within the seconds they read.
Ms(k) == IF k = "slow" THEN world.slow ELSE world.fast
OneEventOnePenalty ==
    [][age' = 0 /\ world.law = "aimd" =>
          /\ signal' = "latency" => \E k \in fresh \ {"lost"} : Ms(k) > Target(baseline')
          /\ signal' = "loss" => "lost" \in fresh]_aimdVars

\* In front of a database with a knee the window ends up at the knee: it stays at
\* most one slot past it, and however far a read of too little takes it down, it
\* comes back.
SettlesAtTheKnee ==
    /\ <>[](world.kind = "knee" => Slots(cwnd) <= world.knee + 1)
    /\ []<>(world.kind = "knee" => Slots(cwnd) >= world.knee)

\* A database that became slower for good, but not slower than buyers notice, does
\* not hold the window down for ever: it opens all the way again, unless the leader
\* keeps reading too few checkouts to judge.  It may, when it decides so early in a
\* second that a second's share at the floor is not enough.
Heals == world.law = "aimd" /\ world.kind = "slows" /\ world.slow <= TargetMax
StaleBaselineHeals == []<>(Heals => cwnd = MaxCwnd * Scale \/ ~enough)

=============================================================================
