------------------------------ MODULE MCScripts ------------------------------
(***************************************************************************)
(* Small instances of the client programs, the research pilot, the          *)
(* forecast, the payment verifier, the operator's scripts and the start-up.   *)
(* A behaviour runs one of them and leaves the others at their start.       *)
(***************************************************************************)
EXTENDS BuyerClients, Pilot, Forecast, PaymentVerify, MCMaintenance, Migrations

VARIABLE program

Programs == {"clients", "pilot", "forecast", "verify", "maintenance", "migrations"}

MCSims ==
    [policy : {"stock"}, cc : {"optimistic", "pessimistic"}, cl : {FALSE}]
    \cup [policy : {"raw", "rate", "win", "aimd", "fa", "fa2", "fa+aimd"},
          cc : {"pessimistic"}, cl : {FALSE}]
    \cup [policy : {"rate"}, cc : {"optimistic"}, cl : {TRUE}]

\* Two SKUs that sell now and then, and lines that clean() drops or that are
\* of a third one.
Line(s, d, q) == [sku |-> s, day |-> d, quantity |-> q, cancelled |-> FALSE, customer |-> TRUE]
Lines(s, series) == {Line(s, d, series[d]) : d \in {e \in DOMAIN series : series[e] > 0}}
SeriesOf == {<<1,0,3,0,2,1>>, <<0,2,2,0,0,1>>, <<3,1,0,1,0,0>>, <<0,0,1,4,0,2>>}
Spoilt == {[Line(1, 7, 9) EXCEPT !.cancelled = TRUE], [Line(2, 1, 9) EXCEPT !.customer = FALSE],
           Line(2, 8, -5), Line(3, 2, 1)}
MCLedgers == {Lines(1, f) \cup Lines(2, g) \cup Spoilt : f \in SeriesOf, g \in SeriesOf}

\* Fresh, from before the migrations, from before some of them, and current.
MCDatabases == {{}, {"tables"}, {"tables", "column", "backstop"}, Schema}

ClientsAtRest  == client = Storefront
PilotAtRest    == sim = CHOOSE s \in Simulations : TRUE
ForecastAtRest == ~serverless /\ ledger = CHOOSE l \in Ledgers : TRUE
VerifyAtRest   == ~reuses
MaintAtRest    == db = EmptyDb
MigrateAtRest  == schema = Schema

Init ==
    /\ program \in Programs
    /\ ClientInit /\ (program = "clients" \/ ClientsAtRest)
    /\ PilotInit /\ (program = "pilot" \/ PilotAtRest)
    /\ ForecastInit /\ (program = "forecast" \/ ForecastAtRest)
    /\ VerifyInit /\ (program = "verify" \/ VerifyAtRest)
    /\ MaintInit /\ (program = "maintenance" \/ MaintAtRest)
    /\ MigrationsInit /\ (program = "migrations" \/ MigrateAtRest)

allVars == <<program, clientVars, pilotVars, forecastVars, verifyVars, maintVars, migrationVars>>

Shopping ==
    /\ program = "clients" /\ ClientNext
    /\ UNCHANGED <<program, pilotVars, forecastVars, verifyVars, maintVars, migrationVars>>
Piloting ==
    /\ program = "pilot" /\ PilotNext
    /\ UNCHANGED <<program, clientVars, forecastVars, verifyVars, maintVars, migrationVars>>
Forecasting ==
    /\ program = "forecast" /\ ForecastNext
    /\ UNCHANGED <<program, clientVars, pilotVars, verifyVars, maintVars, migrationVars>>
Verifying ==
    /\ program = "verify" /\ VerifyNext
    /\ UNCHANGED <<program, clientVars, pilotVars, forecastVars, maintVars, migrationVars>>
Maintaining ==
    /\ program = "maintenance" /\ MaintNext
    /\ UNCHANGED <<program, clientVars, pilotVars, forecastVars, verifyVars, migrationVars>>
Migrating ==
    /\ program = "migrations" /\ MigrationsNext
    /\ UNCHANGED <<program, clientVars, pilotVars, forecastVars, verifyVars, maintVars>>

Next == Shopping \/ Piloting \/ Forecasting \/ Verifying \/ Maintaining \/ Migrating

Spec == Init /\ [][Next]_allVars

\* What an operator starts by itself succeeds, a script (UndisturbedScriptsSucceed)
\* or a replica (StartsRepairSchema): only somebody else at work on the same rows
\* or the same schema makes it fail.
ScriptsAndStartsSucceed == UndisturbedScriptsSucceed /\ StartsRepairSchema

=============================================================================
