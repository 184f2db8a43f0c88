------------------------- MODULE TimestampOrdering -------------------------
(***************************************************************************)
(* app/demos/demo_9_timestamp_ordering.py: timestamp ordering with Thomas's *)
(* write rule, laid over one inventory row by a dictionary of read and     *)
(* write timestamps.  A transaction is its timestamp; its operations may   *)
(* arrive in any order and any number of times.                            *)
(***************************************************************************)
EXTENDS Naturals, FiniteSets

CONSTANTS MaxTs,    \* transactions started
          RowStock  \* total_stock of the row, 1 in the demo

ASSUME TimestampOrderingAssumption == MaxTs \in Nat \ {0} /\ RowStock \in Nat

VARIABLES thomas,   \* thomas_rule
          readTs,   \* R-TS of the row
          writeTs,  \* W-TS of the row
          writer,   \* whose write the row shows; 0: nobody's
          applied,  \* writes the row has taken
          skipped,  \* writes left out as obsolete
          saw,      \* whose write a transaction's reads have shown it
          stopped   \* the CHECK has refused a unit: the script ends there

toVars == <<thomas, readTs, writeTs, writer, applied, skipped, saw, stopped>>

Ts == 1..MaxTs

ToTypeOK ==
    /\ thomas \in BOOLEAN /\ stopped \in BOOLEAN
    /\ readTs \in 0..MaxTs /\ writeTs \in 0..MaxTs /\ writer \in 0..MaxTs
    /\ applied \subseteq Ts /\ skipped \subseteq Ts
    /\ saw \in [Ts -> SUBSET (0..MaxTs)]

\* reset_inventory; next_timestamp has handed out every timestamp.
ToInit ==
    /\ thomas \in BOOLEAN
    /\ readTs = 0 /\ writeTs = 0 /\ writer = 0
    /\ applied = {} /\ skipped = {}
    /\ saw = [t \in Ts |-> {}]
    /\ stopped = FALSE

LastReader(t) == t
Later(t) == IF t > readTs THEN t ELSE readTs

\* A read of a value that a later transaction has overwritten is rejected.
ToRead(t) ==
    /\ ~stopped
    /\ t >= writeTs
    /\ readTs' = Later(t)
    /\ saw' = [saw EXCEPT ![t] = @ \cup {writer}]
    /\ UNCHANGED <<thomas, writeTs, writer, applied, skipped, stopped>>

NotReadLater(t) == t >= readTs

\* W-TS is raised before the UPDATE, which the CHECK may refuse.
ToWrite(t) ==
    /\ ~stopped /\ t \notin applied
    /\ NotReadLater(t)
    /\ t >= writeTs
    /\ writeTs' = t
    /\ IF Cardinality(applied) < RowStock
       THEN applied' = applied \cup {t} /\ writer' = t /\ UNCHANGED stopped
       ELSE stopped' = TRUE /\ UNCHANGED <<applied, writer>>
    /\ UNCHANGED <<thomas, readTs, skipped, saw>>

ToSkip(t) ==
    /\ ~stopped
    /\ thomas
    /\ NotReadLater(t)
    /\ t < writeTs
    /\ skipped' = skipped \cup {t}
    /\ UNCHANGED <<thomas, readTs, writeTs, writer, applied, saw, stopped>>

ToNext == \E t \in Ts : ToRead(t) \/ ToWrite(t) \/ ToSkip(t)

ToSpec == ToInit /\ [][ToNext]_toVars

-----------------------------------------------------------------------------
(* Properties *)

\* Every read that was allowed has shown what a run one transaction after the
\* other, in timestamp order, would have shown: the youngest write that is not
\* younger than the reader.  That includes the writes that were skipped as
\* obsolete, and those that arrived after the read; only its own write may still
\* have been ahead of the reader.
ReadsFollowTimestamps ==
    \A t \in Ts : \A w \in saw[t] :
        /\ w <= t
        /\ \A u \in applied \cup skipped : u <= w \/ u >= t

=============================================================================
