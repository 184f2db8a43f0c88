------------------------------ MODULE Forecast -------------------------------
(***************************************************************************)
(* The demand forecast (app/ml/demand_forecast.py): the rows it trains and  *)
(* tests on, and the cache the dashboard's sample is served from.  A price  *)
(* is the lines it is averaged over; the regressor, whose input the rows    *)
(* are, is left out.                                                       *)
(***************************************************************************)
EXTENDS Integers, FiniteSets
Sets == INSTANCE FiniteSetsExt

CONSTANTS Ledgers,    \* the sets of invoice lines considered
          TopN,       \* top_n_skus
          PrePeriod,  \* pre_period_days
          LongLag,    \* the 7 of lag7
          Rolls,      \* the windows of 7, 14 and 28 days
          Callers,    \* the warm-up thread and the requests of a process
          NoAsker

ASSUME ForecastAssumption ==
    /\ {TopN, PrePeriod, LongLag} \cup Rolls \subseteq Nat \ {0}
    /\ \A lines \in Ledgers :
          /\ lines \subseteq [sku : Nat, day : Nat, quantity : Int, cancelled : BOOLEAN,
                              customer : BOOLEAN]
          /\ IsFiniteSet(lines)
    /\ NoAsker \notin Callers

VARIABLES ledger,     \* the invoice lines
          serverless,
          forecast,   \* _dashboard_cache: nothing, or the rows a training used
          lockedBy,   \* holder of _dashboard_lock
          asker       \* where a caller of get_forecast_sample is

forecastVars == <<ledger, serverless, forecast, lockedBy, asker>>

-----------------------------------------------------------------------------
(* The daily panel *)

OfSku(lines, s) == {l \in lines : l.sku = s}
OnDay(lines, d) == {l \in lines : l.day = d}
UnitsIn(lines) == Sets!MapThenSumSet(LAMBDA l : l.quantity, lines)
SkusOf(lines) == {l.sku : l \in lines}

\* Of equals, nlargest takes the one that comes first.
TopSkus(lines) ==
    LET units == [s \in SkusOf(lines) |-> UnitsIn(OfSku(lines, s))]
        ahead(s) == {t \in SkusOf(lines) : units[t] > units[s] \/ (units[t] = units[s] /\ t < s)}
    IN {s \in SkusOf(lines) : Cardinality(ahead(s)) < TopN}

Cleaned(lines) ==
    LET sales == {l \in lines : ~l.cancelled /\ l.customer /\ l.quantity > 0}
        top == TopSkus(sales)
    IN {l \in sales : l.sku \in top}

\* A SKU's rows go from its first day to its last without a gap.
FirstDay(panel, s) == Sets!Min({l.day : l \in OfSku(panel, s)})
LastDay(panel, s) == Sets!Max({l.day : l \in OfSku(panel, s)})
PanelRows(panel) ==
    UNION {{[sku |-> s, day |-> d] : d \in FirstDay(panel, s)..LastDay(panel, s)} :
              s \in SkusOf(panel)}
DayUnits(panel, r) == UnitsIn(OnDay(OfSku(panel, r.sku), r.day))

\* The k-th smallest of a function's values, from 0.
Nth(f, k) ==
    CHOOSE v \in {f[x] : x \in DOMAIN f} :
        /\ Cardinality({x \in DOMAIN f : f[x] < v}) <= k
        /\ k < Cardinality({x \in DOMAIN f : f[x] <= v})

\* quantile(num / den), times den: between the values on either side of the place.
QuantileOf(f, num, den) ==
    LET rank == (Cardinality(DOMAIN f) - 1) * num
        low == Nth(f, rank \div den)
        high == IF rank % den = 0 THEN low ELSE Nth(f, rank \div den + 1)
    IN low * den + (high - low) * (rank % den)

\* base_price of a day without a sale is the one before it.
PricedOn(panel, r) ==
    LET days == {l.day : l \in {k \in OfSku(panel, r.sku) : k.day <= r.day}}
    IN OnDay(OfSku(panel, r.sku), Sets!Max(days))

\* How many of the quintiles of the SKUs' totals lie below this one's, plus one.
Popularity(panel, s) ==
    LET totals == [t \in SkusOf(panel) |-> UnitsIn(OfSku(panel, t))]
        edges == {QuantileOf(totals, i, 5) : i \in 1..4}
    IN 1 + Cardinality({e \in edges : e > QuantileOf(totals, 0, 5) /\ 5 * totals[s] > e})

-----------------------------------------------------------------------------
(* Features and target *)

Winsor == 1000
Cap(panel) == QuantileOf([r \in PanelRows(panel) |-> DayUnits(panel, r)], 995, Winsor)
Clipped(panel, cap, r) == Sets!Min({Winsor * DayUnits(panel, r), cap})

\* rolling(w, min_periods=1), as it comes and after shift(1).
Unshifted(r, w) == (r.day - w + 1)..r.day
Rolling(r, w) == (r.day - w)..(r.day - 1)
RolledDays(panel, r, w) == Rolling(r, w) \cap (FirstDay(panel, r.sku)..r.day)

OtherDay(r, d) == [r EXCEPT !.day = d]
RollSum(panel, cap, r, w) ==
    Sets!SumFunction([d \in RolledDays(panel, r, w) |-> Clipped(panel, cap, OtherDay(r, d))])
RollNonzero(panel, r, w) ==
    Cardinality({d \in RolledDays(panel, r, w) : DayUnits(panel, OtherDay(r, d)) > 0})

Mean(sum, days) == [sum |-> sum, of |-> Cardinality(days)]
LagFeatures(panel, cap, r) ==
    [pre   |-> RollSum(panel, cap, r, PrePeriod),
     lag1  |-> Clipped(panel, cap, OtherDay(r, r.day - 1)),
     lag7  |-> Clipped(panel, cap, OtherDay(r, r.day - LongLag)),
     roll  |-> [w \in Rolls |-> Mean(RollSum(panel, cap, r, w), RolledDays(panel, r, w))],
     sells |-> [w \in Rolls |-> Mean(RollNonzero(panel, r, w), RolledDays(panel, r, w))]]

\* discount_pct compares with the SKU's median price of all its lines.
OtherFeatures(panel, r) ==
    [base_price |-> PricedOn(panel, r), median_price |-> OfSku(panel, r.sku),
     popularity |-> Popularity(panel, r.sku)]

\* Rows with a lag7 and a next day.
DataRows(panel) ==
    {r \in PanelRows(panel) : /\ r.day - LongLag >= FirstDay(panel, r.sku)
                              /\ r.day + 1 <= LastDay(panel, r.sku)}
TargetDay(r) == r.day + 1

-----------------------------------------------------------------------------
(* Training *)

Nothing == [train |-> {}, test |-> {}]

TestShare == 5
Cut(rows) == QuantileOf([r \in rows |-> r.day], TestShare - 1, TestShare)

TrainRows(rows) == {r \in rows : TestShare * r.day <= Cut(rows) - TestShare}
TestRows(rows)  == {r \in rows : TestShare * r.day > Cut(rows)}

\* What the regressor is given, and the rows it is judged on.
Example(panel, cap, r) ==
    [row |-> r, lags |-> LagFeatures(panel, cap, r), others |-> OtherFeatures(panel, r),
     target |-> Clipped(panel, cap, OtherDay(r, TargetDay(r)))]
Examples(panel, rows) == {Example(panel, Cap(panel), r) : r \in rows}

Fit == LET panel == Cleaned(ledger)
           rows == DataRows(panel)
       IN IF rows = {} THEN Nothing
          ELSE [train |-> Examples(panel, TrainRows(rows)), test |-> Examples(panel, TestRows(rows))]

-----------------------------------------------------------------------------
(* The dashboard's sample *)

ForecastInit ==
    /\ ledger \in Ledgers /\ serverless \in BOOLEAN
    /\ forecast = Nothing /\ lockedBy = NoAsker
    /\ asker = [a \in Callers |-> "asks"]

Asker(a, next) == asker' = [asker EXCEPT ![a] = next]

StaticSample(a) ==
    /\ serverless /\ asker[a] = "asks"
    /\ Asker(a, "served")
    /\ UNCHANGED <<ledger, serverless, forecast, lockedBy>>

FindsCache(a) ==
    /\ ~serverless /\ asker[a] = "asks"
    /\ Asker(a, IF forecast = Nothing THEN "waits" ELSE "served")
    /\ UNCHANGED <<ledger, serverless, forecast, lockedBy>>

LockForecast(a) ==
    /\ asker[a] = "waits" /\ lockedBy = NoAsker
    /\ IF forecast = Nothing THEN lockedBy' = a /\ Asker(a, "trains")
                ELSE UNCHANGED lockedBy /\ Asker(a, "served")
    /\ UNCHANGED <<ledger, serverless, forecast>>

\* Training may raise, and the lock is let go; without test rows it does.
TrainForecast(a) ==
    /\ asker[a] = "trains"
    /\ lockedBy' = NoAsker
    /\ \/ /\ Fit.train # {} /\ Fit.test # {}
          /\ forecast' = Fit
          /\ Asker(a, "served")
       \/ UNCHANGED forecast /\ Asker(a, "failed")
    /\ UNCHANGED <<ledger, serverless>>

ForecastNext ==
    \E a \in Callers : StaticSample(a) \/ FindsCache(a) \/ LockForecast(a) \/ TrainForecast(a)

ForecastSpec == ForecastInit /\ [][ForecastNext]_forecastVars

-----------------------------------------------------------------------------
(* Properties *)

\* What a training looks at can be had before the day it is to foretell: the
\* lagged features of an example from the sales of earlier days alone (given the
\* cap and the SKUs chosen), the price from no later day, and no target trained
\* on lies in the test period -- through gaps, late starters, cancelled lines and
\* a cut that falls between two days.
TrainedOnThePast ==
    LET panel == Cleaned(ledger)
        upTo(d) == {l \in panel : l.day <= d}
    IN /\ \A e \in forecast.train \cup forecast.test :
             /\ e.lags = LagFeatures(upTo(e.row.day - 1), Cap(panel), e.row)
             /\ e.others.base_price = PricedOn(upTo(e.row.day), e.row)
       /\ \A e \in forecast.train, t \in forecast.test : TargetDay(e.row) < t.row.day

=============================================================================
