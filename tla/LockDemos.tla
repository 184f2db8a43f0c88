----------------------------- MODULE LockDemos -----------------------------
(***************************************************************************)
(* The demonstrations that lean on PostgreSQL's own locks: part A of        *)
(* app/demos/demo_6_deadlock.py, two transactions that take two rows in     *)
(* opposite orders, and app/demos/demo_10_multigranularity.py, an           *)
(* administrator who pauses a sale by locking its table under checkouts     *)
(* that take rows of it.                                                   *)
(***************************************************************************)
EXTENDS Naturals, Sequences, FiniteSets

CONSTANTS Txn1, Txn2,  \* of the deadlock
          Admin,       \* who pauses
          Checkouts    \* who buy meanwhile

LockTxns == {Txn1, Txn2, Admin} \cup Checkouts

ASSUME LockDemosAssumption ==
    /\ IsFiniteSet(Checkouts)
    /\ Cardinality(LockTxns) = 3 + Cardinality(Checkouts)

VARIABLES scene,    \* which demonstration runs
          granted,  \* requests a transaction has been granted
          done,     \* statements of its script that are over
          waiting,  \* the transactions that wait, in the order they came
          outcome   \* of a transaction

lockVars == <<scene, granted, done, waiting, outcome>>

-----------------------------------------------------------------------------
(* PostgreSQL's lock modes *)

Lock(on, mode) == [on |-> on, mode |-> mode]
PauseMode == "ACCESS EXCLUSIVE"

\* The conflicts of the modes the scripts use; FOR UPDATE is a lock of the row.
ConflictsWith ==
    [ m \in {"ROW SHARE", "SHARE ROW EXCLUSIVE", "ACCESS EXCLUSIVE", "FOR UPDATE"} |->
      CASE m = "ROW SHARE"           -> {"ACCESS EXCLUSIVE"}
        [] m = "SHARE ROW EXCLUSIVE" -> {"SHARE ROW EXCLUSIVE", "ACCESS EXCLUSIVE"}
        [] m = "ACCESS EXCLUSIVE"    -> {"ROW SHARE", "SHARE ROW EXCLUSIVE", "ACCESS EXCLUSIVE"}
        [] m = "FOR UPDATE"          -> {"FOR UPDATE"} ]

Conflict(a, b) == a.on = b.on /\ b.mode \in ConflictsWith[a.mode]

\* SELECT ... FOR UPDATE: the intention at the table, then the row.
SelectForUpdate(table, row) == <<Lock(table, "ROW SHARE"), Lock(row, "FOR UPDATE")>>
LockInventory == SelectForUpdate("inventory", "inventory row")
LockUser      == SelectForUpdate("users", "user row")

-----------------------------------------------------------------------------
(* The transactions *)

InventoryThenUser == LockInventory \o LockUser
UserThenInventory == LockUser \o LockInventory
PauseSale         == <<Lock("inventory", PauseMode)>>
CheckoutAttempt   == LockInventory

Script(t) ==
    CASE scene = "deadlock" /\ t = Txn1         -> InventoryThenUser
      [] scene = "deadlock" /\ t = Txn2         -> UserThenInventory
      [] scene = "pause" /\ t = Admin           -> PauseSale
      [] scene = "pause" /\ t \in Checkouts     -> CheckoutAttempt
      [] OTHER                                  -> <<>>

Takers == {t \in LockTxns : Script(t) # <<>>}

LockTypeOK ==
    /\ scene \in {"deadlock", "pause"}
    /\ done \in [LockTxns -> Nat] /\ \A t \in LockTxns : done[t] <= Len(Script(t))
    /\ \A t \in LockTxns : granted[t] \subseteq {Script(t)[i] : i \in 1..done[t]}
    /\ waiting \in Seq(Takers)
    /\ outcome \in [LockTxns -> {"running", "committed", "aborted"}]

LockInit ==
    /\ scene \in {"deadlock", "pause"}
    /\ granted = [t \in LockTxns |-> {}]
    /\ done = [t \in LockTxns |-> 0]
    /\ waiting = <<>>
    /\ outcome = [t \in LockTxns |-> "running"]

Request(t) == Script(t)[done[t] + 1]
Ahead(t) == {waiting[i] : i \in {j \in 1..Len(waiting) :
                                    \A k \in 1..j : waiting[k] # t}}

\* Who holds, or has asked before for, what t asks for now.
Blockers(t) ==
    {u \in Takers \ {t} :
        \/ \E l \in granted[u] : Conflict(Request(t), l)
        \/ u \in Ahead(t) /\ Conflict(Request(t), Request(u))}

IsWaiting(t) == \E i \in 1..Len(waiting) : waiting[i] = t
Place(t) == CHOOSE i \in 1..Len(waiting) : waiting[i] = t
StopsWaiting(t) ==
    waiting' = [i \in 1..(Len(waiting) - 1) |-> waiting[IF i < Place(t) THEN i ELSE i + 1]]

\* A statement is sent; what it needs first is asked for.
Ask(t) ==
    /\ outcome[t] = "running" /\ ~IsWaiting(t) /\ done[t] < Len(Script(t))
    /\ waiting' = Append(waiting, t)
    /\ UNCHANGED <<scene, granted, done, outcome>>

GrantLock(t) ==
    /\ IsWaiting(t) /\ Blockers(t) = {}
    /\ granted' = [granted EXCEPT ![t] = @ \cup {Request(t)}]
    /\ done' = [done EXCEPT ![t] = @ + 1]
    /\ StopsWaiting(t)
    /\ UNCHANGED <<scene, outcome>>

NoDetector(t) == FALSE
\* Somebody t waits for waits, through others, for t.
InCycle(t) ==
    LET waiters == {u \in Takers : IsWaiting(u)}
    IN  \E S \in SUBSET waiters :
            /\ t \in S
            /\ \A u \in S : Blockers(u) \cap S # {}
            /\ \A T \in SUBSET S : T # {} /\ T # S
                  => ~\A u \in T : Blockers(u) \cap T # {}

\* The detector runs in a backend that has waited for deadlock_timeout; its
\* OperationalError rolls the script back.
Detect(t) ==
    /\ InCycle(t)
    /\ outcome' = [outcome EXCEPT ![t] = "aborted"]
    /\ granted' = [granted EXCEPT ![t] = {}]
    /\ StopsWaiting(t)
    /\ UNCHANGED <<scene, done>>

\* commit, or the rollback at the end of a checkout of demo_10.
Finish(t) ==
    /\ outcome[t] = "running" /\ done[t] = Len(Script(t))
    /\ outcome' = [outcome EXCEPT ![t] = "committed"]
    /\ granted' = [granted EXCEPT ![t] = {}]
    /\ UNCHANGED <<scene, done, waiting>>

LockStep(t) == Ask(t) \/ GrantLock(t) \/ Detect(t) \/ Finish(t)

LockNext == \E t \in LockTxns : LockStep(t)

LockSpec == LockInit /\ [][LockNext]_lockVars

-----------------------------------------------------------------------------
(* Properties *)

\* A deadlock costs one of the two transactions, never both: the detector leaves
\* the other one with both its locks.
AtMostOneVictim == ~(outcome[Txn1] = "aborted" /\ outcome[Txn2] = "aborted")

\* Every script ends, and at most one of the two transactions pays for it.
LockScriptsEnd ==
    /\ (\E t \in Takers : done[t] > 0) ~> (\A t \in Takers : outcome[t] # "running")
    /\ []AtMostOneVictim

=============================================================================
