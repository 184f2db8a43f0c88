----------------------------- MODULE Migrations -----------------------------
(***************************************************************************)
(* Start-up of the API: create_all() and app/migrate.py, run by every       *)
(* replica of docker-compose.yml at once, beside the two demonstrations     *)
(* that take a piece of the schema out and put it back (demo_1 the CHECK    *)
(* against overselling, demo_8 two indexes).  One piece stands for each     *)
(* kind: the tables, the column, the constraints, the indexes.              *)
(***************************************************************************)
EXTENDS Naturals, Sequences

CONSTANTS Replicas,
          Databases,   \* the schemas a first start may find
          MaxStarts,   \* bound on starts
          MaxDemos     \* bound on runs of demonstrations

Schema == {"tables", "column", "hash", "backstop", "composite"}
\* sorted_tables: users, inventory, orders.
Plan == <<"hash", "backstop", "composite">>
Indexes == {"hash", "composite"}
Demos == {"oversell", "indexing"}

ASSUME MigrationsAssumption ==
    /\ Databases \subseteq SUBSET Schema
    /\ Replicas \cap Demos = {}
    /\ MaxStarts \in Nat /\ MaxDemos \in Nat

VARIABLES schema,      \* what is committed
          oversold,    \* inventory has a row the backstop forbids
          start,       \* per replica: where it is, the constraints it has read,
                       \* the step of Plan, and what its transaction has made
          outcome,     \* per replica: how its last start ended
          overlapped,  \* replicas during whose start somebody changed the schema
          demo,        \* what a demonstration has taken out
          lost,        \* what a killed demonstration has left out
          starts, demoRuns

demoVars == <<demo, lost, demoRuns>>
migrationVars == <<schema, oversold, start, outcome, overlapped, starts, demoVars>>

Down == [at |-> "down", seen |-> {}, step |-> 1, made |-> {}]
Starting == {r \in Replicas : start[r].at \notin {"down", "up"}}

MigrationsInit ==
    /\ schema \in Databases
    /\ oversold \in IF "backstop" \in schema \/ schema = {} THEN {FALSE} ELSE BOOLEAN
    /\ start = [r \in Replicas |-> Down] /\ outcome = [r \in Replicas |-> "none"]
    /\ overlapped = {} /\ starts = 0
    /\ demo = [d \in Demos |-> "none"] /\ lost = {} /\ demoRuns = 0

\* An uncommitted piece makes the others wait who would make or drop it too.
Unlocked(who, x) == \A r \in Replicas \ {who} : x \notin start[r].made

Commits(who, s) ==
    /\ schema' = s /\ lost' = lost \ s
    /\ overlapped' = overlapped \cup (IF s = schema THEN {} ELSE Starting \ {who})

Goes(r, at) == start' = [start EXCEPT ![r].at = at]
\* The exception leaves lifespan: the transaction is rolled back and the process
\* ends; docker-compose.yml does not start it again.
Refuses(r, why) ==
    /\ start' = [start EXCEPT ![r] = Down]
    /\ outcome' = [outcome EXCEPT ![r] = why]

-----------------------------------------------------------------------------
(* A start *)

\* create_all looks for the tables before it makes any.
Launch(r) ==
    /\ start[r].at = "down" /\ starts < MaxStarts
    /\ starts' = starts + 1
    /\ Goes(r, IF "tables" \in schema THEN "column" ELSE "tables")
    /\ outcome' = [outcome EXCEPT ![r] = "none"]
    /\ overlapped' = overlapped \ {r}
    /\ UNCHANGED <<schema, oversold, demoVars>>

CreateTables(r) ==
    /\ start[r].at = "tables" /\ Unlocked(r, "tables")
    /\ IF "tables" \in schema
       THEN Refuses(r, "exists")
       ELSE /\ start' = [start EXCEPT ![r].at = "created", ![r].made = Schema]
            /\ UNCHANGED outcome
    /\ UNCHANGED <<schema, oversold, overlapped, starts, demoVars>>

CommitTables(r) ==
    /\ start[r].at = "created"
    /\ Commits(r, schema \cup start[r].made)
    /\ start' = [start EXCEPT ![r].at = "column", ![r].made = {}]
    /\ UNCHANGED <<oversold, outcome, starts, demo, demoRuns>>

\* ADD COLUMN IF NOT EXISTS looks under the lock of the table, orders.
AddColumn(r) ==
    /\ start[r].at = "column" /\ Unlocked(r, "composite")
    /\ Commits(r, schema \cup {"column"})
    /\ Goes(r, "present")
    /\ UNCHANGED <<oversold, outcome, starts, demo, demoRuns>>

NothingPresent(r) ==
    /\ start[r].at = "present"
    /\ start' = [start EXCEPT ![r].at = "look", ![r].seen = {}]
    /\ UNCHANGED <<schema, oversold, outcome, overlapped, starts, demoVars>>

\* One SELECT from pg_constraint for all of them, without a lock.
ReadPresent(r) ==
    /\ start[r].at = "present"
    /\ start' = [start EXCEPT ![r].at = "look", ![r].seen = schema \ Indexes]
    /\ UNCHANGED <<schema, oversold, outcome, overlapped, starts, demoVars>>

After(s) == IF s.step = Len(Plan) THEN [s EXCEPT !.at = "commit"]
            ELSE [s EXCEPT !.at = "look", !.step = @ + 1]

\* c.name not in present, and checkfirst for an index.
Present(r, x) == x \in IF x \in Indexes THEN schema ELSE start[r].seen

LookFor(r) ==
    /\ start[r].at = "look"
    /\ IF Present(r, Plan[start[r].step])
       THEN start' = [start EXCEPT ![r] = After(@)]
       ELSE Goes(r, "make")
    /\ UNCHANGED <<schema, oversold, outcome, overlapped, starts, demoVars>>

\* ADD CONSTRAINT reads the rows there are.
Make(r) ==
    LET x == Plan[start[r].step] IN
    /\ start[r].at = "make" /\ Unlocked(r, x)
    /\ \/ x \in schema /\ Refuses(r, "exists")
       \/ x \notin schema /\ x = "backstop" /\ oversold /\ Refuses(r, "rows")
       \/ /\ x \notin schema /\ (x = "backstop" => ~oversold)
          /\ start' = [start EXCEPT ![r] = After([start[r] EXCEPT !.made = @ \cup {x}])]
          /\ UNCHANGED outcome
    /\ UNCHANGED <<schema, oversold, overlapped, starts, demoVars>>

CommitMigration(r) ==
    /\ start[r].at = "commit"
    /\ Commits(r, schema \cup start[r].made)
    /\ start' = [start EXCEPT ![r] = [Down EXCEPT !.at = "up"]]
    /\ outcome' = [outcome EXCEPT ![r] = IF schema' = Schema THEN "whole" ELSE "partial"]
    /\ UNCHANGED <<oversold, starts, demo, demoRuns>>

\* A replica is stopped or killed.
StopReplica(r) ==
    /\ start[r].at # "down"
    /\ start' = [start EXCEPT ![r] = Down]
    /\ UNCHANGED <<schema, oversold, outcome, overlapped, starts, demoVars>>

-----------------------------------------------------------------------------
(* The demonstrations *)

Takes(d, x) ==
    /\ demo[d] = "none" /\ demoRuns < MaxDemos /\ "tables" \in schema
    /\ Unlocked(d, x)
    /\ demo' = [demo EXCEPT ![d] = x] /\ demoRuns' = demoRuns + 1
    /\ Commits(d, schema \ {x})
    /\ UNCHANGED <<oversold, start, outcome, starts>>

\* demo_1, PART A: DROP CONSTRAINT, a reset row, and buyers that do not look.
DropBackstop == Takes("oversell", "backstop")
FireNaive ==
    /\ demo["oversell"] = "backstop" /\ Unlocked("oversell", "backstop")
    /\ oversold' \in (IF "backstop" \in schema THEN {FALSE} ELSE BOOLEAN)
    /\ UNCHANGED <<schema, start, outcome, overlapped, starts, demoVars>>

\* finally: the row and the constraint in one transaction, which fails when a
\* replica has put the constraint back meanwhile.
RestoreBackstop ==
    /\ demo["oversell"] = "backstop" /\ Unlocked("oversell", "backstop")
    /\ demo' = [demo EXCEPT !["oversell"] = "none"]
    /\ oversold' = FALSE
    /\ Commits("oversell", schema \cup {"backstop"})
    /\ UNCHANGED <<start, outcome, starts, demoRuns>>

\* demo_8: DROP INDEX, a query plan, CREATE INDEX.
DropIndex(x) == x \in Indexes /\ Takes("indexing", x)
RecreateIndex ==
    LET x == demo["indexing"] IN
    /\ x # "none" /\ Unlocked("indexing", x)
    /\ demo' = [demo EXCEPT !["indexing"] = "none"]
    /\ Commits("indexing", schema \cup {x})
    /\ UNCHANGED <<oversold, start, outcome, starts, demoRuns>>

KillDemo(d) ==
    /\ demo[d] # "none"
    /\ demo' = [demo EXCEPT ![d] = "none"]
    /\ lost' = lost \cup ({demo[d]} \ schema)
    /\ UNCHANGED <<schema, oversold, start, outcome, overlapped, starts, demoRuns>>

-----------------------------------------------------------------------------

MigrationsNext ==
    \/ \E r \in Replicas :
          \/ Launch(r) \/ CreateTables(r) \/ CommitTables(r) \/ AddColumn(r)
          \/ ReadPresent(r) \/ LookFor(r) \/ Make(r) \/ CommitMigration(r) \/ StopReplica(r)
    \/ DropBackstop \/ FireNaive \/ RestoreBackstop
    \/ \E x \in Indexes : DropIndex(x)
    \/ RecreateIndex
    \/ \E d \in Demos : KillDemo(d)

MigrationsSpec == MigrationsInit /\ [][MigrationsNext]_migrationVars

-----------------------------------------------------------------------------
(* Properties *)

Out == {demo[d] : d \in Demos} \ {"none"}

\* A start during which nobody else changes the schema comes up and leaves it
\* whole, whatever it found, unless oversold rows are in the way; and while a
\* replica serves, nothing is missing but what a demonstration has taken out.
StartsRepairSchema ==
    /\ \A r \in Replicas : r \in overlapped \/ outcome[r] \in {"none", "whole", "rows"}
    /\ (\E r \in Replicas : start[r].at = "up") => Schema \ schema \subseteq lost \cup Out

=============================================================================
