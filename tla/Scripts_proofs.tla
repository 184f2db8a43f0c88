---------------------------- MODULE Scripts_proofs ----------------------------
(***************************************************************************)
(* Proofs about the programs around the service: the admission pilot, the  *)
(* payment verifier, the client programs, the start-ups that repair the    *)
(* schema, the scripts an operator runs beside the shop and the demand     *)
(* forecast, for any number of buyers, units, posts, calls, orders, starts *)
(* and sales; then about all of them side by side.                         *)
(***************************************************************************)
EXTENDS MCScripts, FiniteSetTheorems, WellFoundedInduction, TLAPS

\* One element changes sides: what becomes of the size of a finite set.
LEMMA CountMoves ==
    ASSUME NEW X, IsFiniteSet(X), NEW C \in SUBSET X, NEW D \in SUBSET X, NEW t \in X,
           \A u \in X \ {t} : u \in C <=> u \in D
    PROVE  /\ Cardinality(C) \in Nat /\ Cardinality(D) \in Nat
           /\ t \in C /\ t \in D => Cardinality(D) = Cardinality(C)
           /\ t \notin C /\ t \notin D => Cardinality(D) = Cardinality(C)
           /\ t \notin C /\ t \in D => Cardinality(D) = Cardinality(C) + 1
           /\ t \in C /\ t \notin D => Cardinality(C) = Cardinality(D) + 1
<1>1. /\ (t \in C <=> t \in D) => D = C
      /\ t \notin C /\ t \in D => D = C \cup {t}
      /\ t \in C /\ t \notin D => C = D \cup {t}
  OBVIOUS
<1>2. IsFiniteSet(C) /\ IsFiniteSet(D)
  BY FS_Subset
<1>3. ASSUME t \notin C PROVE Cardinality(C \cup {t}) = Cardinality(C) + 1
  BY <1>3, <1>2, FS_AddElement
<1>4. ASSUME t \notin D PROVE Cardinality(D \cup {t}) = Cardinality(D) + 1
  BY <1>4, <1>2, FS_AddElement
<1> QED BY <1>1, <1>2, <1>3, <1>4, FS_CardinalityType

-----------------------------------------------------------------------------
(* The admission pilot *)

PilotSpots == {"queued", "away", "gate", "checkout", "locked", "read", "ordered", "refused",
               "holding", "settledPaid", "settledFailed", "gone", "cancelled"}

\* Admitted and without an answer; with a unit held; with a unit in the row that
\* is not counted as paid yet.
WaySpots  == {"away", "gate", "checkout", "locked", "read", "ordered", "refused"}
HeldSpots == {"holding", "settledPaid", "settledFailed"}
RowSpots  == {"ordered", "holding", "settledPaid"}

AtSome(S) == {b \in Herds : act[b] \in S}

\* The counters count the buyers' tasks, the row counts the units, and those on
\* their way fit into what is neither held nor paid: the row is never found sold out.
PilotCounts ==
    /\ nxt \in 0..Herd /\ act \in [Herds -> PilotSpots]
    /\ \A b \in Herds : b > nxt => act[b] = "queued"
    /\ paid \in Nat
    /\ pending = Cardinality(AtSome(WaySpots))
    /\ holds = Cardinality(AtSome(HeldSpots))
    /\ stockRow.reserved = Cardinality(AtSome(RowSpots)) + paid
    /\ pending + holds + paid <= PilotStock
    /\ inVain = 0 /\ \A b \in Herds : act[b] # "refused"

PilotInv == sim.policy = "stock" /\ ~stopping => PilotCounts

LEMMA PilotNumbers ==
    Herd \in Nat /\ PilotStock \in Nat /\ IsFiniteSet(Herds) /\ \A b \in Herds : b \in Nat
BY PilotAssumption, FS_Interval DEF Herds

\* One buyer's task comes to its next await.
LEMMA PilotMoves ==
    ASSUME PilotCounts, NEW t \in Herds, NEW s \in PilotSpots, At(t, s),
           act[t] # "queued", UNCHANGED nxt
    PROVE  /\ act' \in [Herds -> PilotSpots]
           /\ \A b \in Herds : act'[b] = IF b = t THEN s ELSE act[b]
           /\ \A b \in Herds : b > nxt' => act'[b] = "queued"
           /\ \A S \in {WaySpots, HeldSpots, RowSpots} :
                 LET C == {b \in Herds : act[b] \in S}
                     D == {b \in Herds : act'[b] \in S}
                 IN /\ Cardinality(C) \in Nat /\ Cardinality(D) \in Nat
                    /\ (act[t] \in S <=> s \in S) => Cardinality(D) = Cardinality(C)
                    /\ act[t] \notin S /\ s \in S => Cardinality(D) = Cardinality(C) + 1
                    /\ act[t] \in S /\ s \notin S => Cardinality(C) = Cardinality(D) + 1
<1>1. act' \in [Herds -> PilotSpots] /\ \A b \in Herds : act'[b] = IF b = t THEN s ELSE act[b]
  BY DEF PilotCounts, At
<1>2. \A b \in Herds : b > nxt' => act'[b] = "queued"
  BY <1>1 DEF PilotCounts
<1>3. ASSUME NEW S
      PROVE  LET C == {b \in Herds : act[b] \in S}
                 D == {b \in Herds : act'[b] \in S}
             IN /\ Cardinality(C) \in Nat /\ Cardinality(D) \in Nat
                /\ (act[t] \in S <=> s \in S) => Cardinality(D) = Cardinality(C)
                /\ act[t] \notin S /\ s \in S => Cardinality(D) = Cardinality(C) + 1
                /\ act[t] \in S /\ s \notin S => Cardinality(C) = Cardinality(D) + 1
  <2> DEFINE C == {b \in Herds : act[b] \in S}
             D == {b \in Herds : act'[b] \in S}
  <2>1. C \in SUBSET Herds /\ D \in SUBSET Herds
        /\ (t \in C <=> act[t] \in S) /\ (t \in D <=> s \in S)
        /\ \A u \in Herds \ {t} : u \in C <=> u \in D
    BY <1>1
  <2> HIDE DEF C, D
  <2>2. /\ Cardinality(C) \in Nat /\ Cardinality(D) \in Nat
        /\ t \in C /\ t \in D => Cardinality(D) = Cardinality(C)
        /\ t \notin C /\ t \notin D => Cardinality(D) = Cardinality(C)
        /\ t \notin C /\ t \in D => Cardinality(D) = Cardinality(C) + 1
        /\ t \in C /\ t \notin D => Cardinality(C) = Cardinality(D) + 1
    BY <2>1, PilotNumbers, CountMoves
  <2>3. /\ Cardinality(C) \in Nat /\ Cardinality(D) \in Nat
        /\ (act[t] \in S <=> s \in S) => Cardinality(D) = Cardinality(C)
        /\ act[t] \notin S /\ s \in S => Cardinality(D) = Cardinality(C) + 1
        /\ act[t] \in S /\ s \notin S => Cardinality(C) = Cardinality(D) + 1
    BY <2>1, <2>2
  <2> QED BY <2>3 DEF C, D
<1> QED BY <1>1, <1>2, <1>3

\* The three counts, by name.
LEMMA PilotCountsMove ==
    ASSUME PilotCounts, NEW t \in Herds, NEW s \in PilotSpots, At(t, s),
           act[t] # "queued", UNCHANGED nxt,
           NEW S \in {WaySpots, HeldSpots, RowSpots}
    PROVE  /\ Cardinality(AtSome(S)) \in Nat /\ Cardinality(AtSome(S)') \in Nat
           /\ (act[t] \in S <=> s \in S) => Cardinality(AtSome(S)') = Cardinality(AtSome(S))
           /\ act[t] \notin S /\ s \in S =>
                  Cardinality(AtSome(S)') = Cardinality(AtSome(S)) + 1
           /\ act[t] \in S /\ s \notin S =>
                  Cardinality(AtSome(S)) = Cardinality(AtSome(S)') + 1
BY PilotMoves DEF AtSome, WaySpots, HeldSpots, RowSpots

LEMMA PilotKinds ==
    /\ WaySpots \in {WaySpots, HeldSpots, RowSpots} /\ HeldSpots \in {WaySpots, HeldSpots, RowSpots}
    /\ RowSpots \in {WaySpots, HeldSpots, RowSpots}
OBVIOUS

\* A step that leaves a buyer where it stands for the counters.
LEMMA MoveKeepsCounts ==
    ASSUME PilotCounts, NEW t \in Herds, NEW s \in PilotSpots, At(t, s),
           act[t] # "queued", s # "refused",
           \A S \in {WaySpots, HeldSpots, RowSpots} : act[t] \in S <=> s \in S,
           UNCHANGED <<nxt, pending, holds, paid, inVain>>,
           stockRow'.reserved = stockRow.reserved
    PROVE  PilotCounts'
<1>1. \A S \in {WaySpots, HeldSpots, RowSpots} :
          Cardinality(AtSome(S)') = Cardinality(AtSome(S))
  BY PilotCountsMove
<1>2. /\ Cardinality(AtSome(WaySpots)') = Cardinality(AtSome(WaySpots))
      /\ Cardinality(AtSome(HeldSpots)') = Cardinality(AtSome(HeldSpots))
      /\ Cardinality(AtSome(RowSpots)') = Cardinality(AtSome(RowSpots))
  BY <1>1, PilotKinds
<1>3. /\ act' \in [Herds -> PilotSpots]
      /\ \A b \in Herds : act'[b] = IF b = t THEN s ELSE act[b]
      /\ \A b \in Herds : b > nxt' => act'[b] = "queued"
  BY PilotMoves
<1> QED BY <1>2, <1>3 DEF PilotCounts, WaySpots, HeldSpots, RowSpots, AtSome

\* A buyer that is still on the way does not find the row sold out.
LEMMA UnitLeft ==
    ASSUME PilotCounts, NEW b \in Herds, act[b] \in WaySpots, act[b] # "ordered"
    PROVE  ~PilotSoldOut
<1> DEFINE way == AtSome(WaySpots)
           held == AtSome(HeldSpots)
           row == AtSome(RowSpots)
<1>1. way \in SUBSET Herds /\ held \in SUBSET Herds /\ row \in SUBSET Herds
      /\ row \subseteq (way \ {b}) \cup held /\ b \in way
  BY DEF AtSome, WaySpots, HeldSpots, RowSpots
<1>2. IsFiniteSet(way) /\ IsFiniteSet(held) /\ IsFiniteSet(row)
  BY <1>1, PilotNumbers, FS_Subset
<1> HIDE DEF way, held, row
<1>3. /\ IsFiniteSet(way \ {b}) /\ Cardinality(way \ {b}) = Cardinality(way) - 1
      /\ Cardinality(way) \in Nat /\ Cardinality(held) \in Nat /\ Cardinality(row) \in Nat
  BY <1>1, <1>2, FS_RemoveElement, FS_CardinalityType
<1>4. /\ IsFiniteSet((way \ {b}) \cup held)
      /\ Cardinality((way \ {b}) \cup held) =
             Cardinality(way \ {b}) + Cardinality(held) - Cardinality((way \ {b}) \cap held)
  BY <1>2, <1>3, FS_Union
<1>5. Cardinality((way \ {b}) \cap held) \in Nat
  BY <1>2, <1>3, FS_Intersection, FS_CardinalityType
<1>6. Cardinality(row) <= Cardinality((way \ {b}) \cup held)
  BY <1>1, <1>4, FS_Subset
<1>7. Cardinality(row) + 1 <= Cardinality(way) + Cardinality(held)
  BY <1>3, <1>4, <1>5, <1>6
<1>8. Cardinality(way) + Cardinality(held) + paid <= PilotStock /\ paid \in Nat
      /\ stockRow.reserved = Cardinality(row) + paid
  BY DEF PilotCounts, way, held, row
<1>9. stockRow.reserved < PilotStock
  BY <1>3, <1>7, <1>8, PilotNumbers
<1> QED BY <1>3, <1>8, <1>9, PilotNumbers DEF PilotSoldOut

-----------------------------------------------------------------------------
LEMMA PilotCheckoutKeeps ==
    ASSUME PilotCounts, ~stopping, NEW b \in Herds, PilotCheckout(b)
    PROVE  PilotCounts'
<1>a. UNCHANGED <<nxt, pending, holds, paid, inVain>>
  BY DEF PilotCheckout, countVars
<1>1. CASE PilotLock(b)
  <2>1. act[b] = "checkout" /\ UNCHANGED stockRow
    BY <1>1 DEF PilotLock
  <2>2. ~PilotSoldOut
    BY <2>1, UnitLeft DEF WaySpots
  <2>3. At(b, "locked")
    BY <1>1, <2>2 DEF PilotLock
  <2> QED BY <1>a, <2>1, <2>3, MoveKeepsCounts DEF PilotSpots, WaySpots, HeldSpots, RowSpots
<1>2. CASE PilotRead(b)
  <2>1. act[b] = "checkout" /\ UNCHANGED stockRow
    BY <1>2 DEF PilotRead, dbVars
  <2>2. ~PilotSoldOut
    BY <2>1, UnitLeft DEF WaySpots
  <2>3. At(b, "read")
    BY <1>2, <2>2 DEF PilotRead
  <2> QED BY <1>a, <2>1, <2>3, MoveKeepsCounts DEF PilotSpots, WaySpots, HeldSpots, RowSpots
<1>3. CASE act[b] = "read" /\ At(b, "checkout") /\ UNCHANGED stockRow
  BY <1>a, <1>3, MoveKeepsCounts DEF PilotSpots, WaySpots, HeldSpots, RowSpots
<1>4. CASE act[b] \in {"locked", "read"} /\ Reserves(b)
  <2>1. At(b, "ordered") /\ stockRow'.reserved = stockRow.reserved + 1
    BY <1>4 DEF Reserves
  <2>2. /\ act' \in [Herds -> PilotSpots]
        /\ \A u \in Herds : act'[u] = IF u = b THEN "ordered" ELSE act[u]
        /\ \A u \in Herds : u > nxt' => act'[u] = "queued"
    BY <1>a, <1>4, <2>1, PilotMoves DEF PilotSpots
  <2>3. /\ Cardinality(AtSome(WaySpots)') = Cardinality(AtSome(WaySpots))
        /\ Cardinality(AtSome(HeldSpots)') = Cardinality(AtSome(HeldSpots))
        /\ Cardinality(AtSome(RowSpots)') = Cardinality(AtSome(RowSpots)) + 1
        /\ Cardinality(AtSome(RowSpots)) \in Nat
    BY <1>a, <1>4, <2>1, PilotCountsMove DEF PilotSpots, WaySpots, HeldSpots, RowSpots
  <2>4. stockRow'.reserved = Cardinality(AtSome(RowSpots)') + paid'
    BY <1>a, <2>1, <2>3 DEF PilotCounts
  <2> QED BY <1>a, <2>2, <2>3, <2>4 DEF PilotCounts
<1> QED BY <1>1, <1>2, <1>3, <1>4 DEF PilotCheckout, PilotCommit, PilotUpdate

LEMMA SettleKeeps ==
    ASSUME PilotCounts, NEW b \in Herds, Settle(b)
    PROVE  PilotCounts'
<1>a. UNCHANGED <<nxt, pending, holds, paid, inVain>> /\ act[b] = "holding"
  BY DEF Settle, countVars
<1>1. CASE At(b, "settledPaid") /\ UNCHANGED stockRow
  BY <1>a, <1>1, MoveKeepsCounts DEF PilotSpots, WaySpots, HeldSpots, RowSpots
<1>2. CASE At(b, "settledFailed") /\ stockRow' = [reserved |-> stockRow.reserved - 1,
                                                  version |-> stockRow.version + 1]
  <2>2. /\ act' \in [Herds -> PilotSpots]
        /\ \A u \in Herds : act'[u] = IF u = b THEN "settledFailed" ELSE act[u]
        /\ \A u \in Herds : u > nxt' => act'[u] = "queued"
    BY <1>a, <1>2, PilotMoves DEF PilotSpots
  <2>3. /\ Cardinality(AtSome(WaySpots)') = Cardinality(AtSome(WaySpots))
        /\ Cardinality(AtSome(HeldSpots)') = Cardinality(AtSome(HeldSpots))
        /\ Cardinality(AtSome(RowSpots)) = Cardinality(AtSome(RowSpots)') + 1
        /\ Cardinality(AtSome(RowSpots)') \in Nat
    BY <1>a, <1>2, PilotCountsMove DEF PilotSpots, WaySpots, HeldSpots, RowSpots
  <2>4. stockRow'.reserved = Cardinality(AtSome(RowSpots)') + paid'
    BY <1>a, <1>2, <2>3 DEF PilotCounts
  <2> QED BY <1>a, <2>2, <2>3, <2>4 DEF PilotCounts
<1> QED BY <1>1, <1>2 DEF Settle

LEMMA NoShowsKeeps ==
    ASSUME PilotCounts, NEW b \in Herds, NoShows(b)
    PROVE  PilotCounts'
<1>a. /\ UNCHANGED <<nxt, holds, paid, inVain, stockRow>> /\ pending' = pending - 1
      /\ act[b] = "away" /\ At(b, "gone")
  BY DEF NoShows, dbVars
<1>2. /\ act' \in [Herds -> PilotSpots]
      /\ \A u \in Herds : act'[u] = IF u = b THEN "gone" ELSE act[u]
      /\ \A u \in Herds : u > nxt' => act'[u] = "queued"
  BY <1>a, PilotMoves DEF PilotSpots
<1>3. /\ Cardinality(AtSome(WaySpots)) = Cardinality(AtSome(WaySpots)') + 1
      /\ Cardinality(AtSome(HeldSpots)') = Cardinality(AtSome(HeldSpots))
      /\ Cardinality(AtSome(RowSpots)') = Cardinality(AtSome(RowSpots))
      /\ Cardinality(AtSome(WaySpots)') \in Nat /\ Cardinality(AtSome(HeldSpots)) \in Nat
  BY <1>a, PilotCountsMove DEF PilotSpots, WaySpots, HeldSpots, RowSpots
<1>4. pending' = Cardinality(AtSome(WaySpots)') /\ pending' + holds' + paid' <= PilotStock
  BY <1>a, <1>3, PilotNumbers DEF PilotCounts
<1> QED BY <1>a, <1>2, <1>3, <1>4 DEF PilotCounts

LEMMA AnsweredKeeps ==
    ASSUME PilotCounts, NEW b \in Herds, Answered(b)
    PROVE  PilotCounts'
<1>a. /\ UNCHANGED <<nxt, paid, inVain, stockRow>> /\ pending' = pending - 1
      /\ holds' = holds + 1 /\ act[b] = "ordered" /\ At(b, "holding")
  BY DEF Answered, dbVars, PilotCounts
<1>2. /\ act' \in [Herds -> PilotSpots]
      /\ \A u \in Herds : act'[u] = IF u = b THEN "holding" ELSE act[u]
      /\ \A u \in Herds : u > nxt' => act'[u] = "queued"
  BY <1>a, PilotMoves DEF PilotSpots
<1>3. /\ Cardinality(AtSome(WaySpots)) = Cardinality(AtSome(WaySpots)') + 1
      /\ Cardinality(AtSome(HeldSpots)') = Cardinality(AtSome(HeldSpots)) + 1
      /\ Cardinality(AtSome(RowSpots)') = Cardinality(AtSome(RowSpots))
      /\ Cardinality(AtSome(WaySpots)') \in Nat /\ Cardinality(AtSome(HeldSpots)) \in Nat
  BY <1>a, PilotCountsMove DEF PilotSpots, WaySpots, HeldSpots, RowSpots
<1>4. /\ pending' = Cardinality(AtSome(WaySpots)') /\ holds' = Cardinality(AtSome(HeldSpots)')
      /\ pending' + holds' + paid' <= PilotStock
  BY <1>a, <1>3, PilotNumbers DEF PilotCounts
<1> QED BY <1>a, <1>2, <1>3, <1>4 DEF PilotCounts

LEMMA CountedKeeps ==
    ASSUME PilotCounts, NEW b \in Herds, Counted(b)
    PROVE  PilotCounts'
<1>a. /\ UNCHANGED <<nxt, pending, inVain, stockRow>> /\ holds' = holds - 1
      /\ act[b] \in {"settledPaid", "settledFailed"} /\ At(b, "gone")
      /\ paid' = IF act[b] = "settledPaid" THEN paid + 1 ELSE paid
  BY DEF Counted, dbVars, Settled
<1>2. /\ act' \in [Herds -> PilotSpots]
      /\ \A u \in Herds : act'[u] = IF u = b THEN "gone" ELSE act[u]
      /\ \A u \in Herds : u > nxt' => act'[u] = "queued"
  BY <1>a, PilotMoves DEF PilotSpots
<1>3. /\ Cardinality(AtSome(WaySpots)') = Cardinality(AtSome(WaySpots))
      /\ Cardinality(AtSome(HeldSpots)) = Cardinality(AtSome(HeldSpots)') + 1
      /\ act[b] = "settledPaid" =>
             Cardinality(AtSome(RowSpots)) = Cardinality(AtSome(RowSpots)') + 1
      /\ act[b] # "settledPaid" =>
             Cardinality(AtSome(RowSpots)') = Cardinality(AtSome(RowSpots))
      /\ Cardinality(AtSome(WaySpots)') \in Nat /\ Cardinality(AtSome(HeldSpots)') \in Nat
      /\ Cardinality(AtSome(RowSpots)') \in Nat
  BY <1>a, PilotCountsMove DEF PilotSpots, WaySpots, HeldSpots, RowSpots
<1>4. /\ holds' = Cardinality(AtSome(HeldSpots)') /\ paid' \in Nat
      /\ pending' + holds' + paid' <= PilotStock
      /\ stockRow'.reserved = Cardinality(AtSome(RowSpots)') + paid'
  BY <1>a, <1>3, PilotNumbers DEF PilotCounts
<1> QED BY <1>a, <1>2, <1>3, <1>4 DEF PilotCounts

LEMMA PilotBuyerKeeps ==
    ASSUME PilotCounts, NEW b \in Herds, PilotBuyer(b)
    PROVE  PilotCounts'
<1>1. CASE Shows(b)
  BY <1>1, MoveKeepsCounts DEF Shows, countVars, dbVars, PilotSpots, WaySpots, HeldSpots, RowSpots
<1>2. CASE PassesGate(b)
  BY <1>2, MoveKeepsCounts DEF PassesGate, countVars, dbVars, PilotSpots, WaySpots, HeldSpots,
                               RowSpots
<1> QED BY <1>1, <1>2, NoShowsKeeps, AnsweredKeeps, CountedKeeps DEF PilotBuyer

\* The controller admits no more than what is free less those on their way.
LEMMA AdmitsKeeps ==
    ASSUME PilotCounts, NEW k \in Nat, Admits(k), pending + k + holds + paid <= PilotStock,
           UNCHANGED <<holds, paid, inVain, stockRow>>
    PROVE  PilotCounts'
<1> DEFINE m == MinOf(k, Herd - nxt)
           new == (nxt + 1)..(nxt + m)
<1>1. m \in Nat /\ m <= k /\ nxt + m <= Herd /\ nxt \in Nat
  BY PilotNumbers DEF PilotCounts, MinOf
<1>2. nxt' = nxt + m /\ pending' = pending + m
      /\ act' = [b \in Herds |-> IF b \in new THEN "away" ELSE act[b]]
  BY DEF Admits
<1> HIDE DEF m
<1>3. \A b \in new : b \in Herds /\ b > nxt /\ b <= nxt'
  BY <1>1, <1>2, PilotNumbers DEF Herds
<1>4. \A b \in new : act[b] = "queued"
  BY <1>3 DEF PilotCounts
<1>5. IsFiniteSet(new) /\ Cardinality(new) = m
  BY <1>1, FS_Interval
<1> HIDE DEF new
<1>6. \A b \in Herds : act'[b] = IF b \in new THEN "away" ELSE act[b]
  BY <1>2
<1>7. act' \in [Herds -> PilotSpots]
  BY <1>2 DEF PilotCounts, PilotSpots
<1>8. \A b \in Herds : b > nxt' => act'[b] = "queued"
  <2> SUFFICES ASSUME NEW b \in Herds, b > nxt' PROVE act'[b] = "queued"
    OBVIOUS
  <2>1. b \notin new /\ b > nxt
    BY <1>1, <1>2, <1>3, PilotNumbers
  <2> QED BY <2>1, <1>6 DEF PilotCounts
<1>9. /\ AtSome(WaySpots)' = AtSome(WaySpots) \cup new
      /\ AtSome(WaySpots) \cap new = {}
      /\ AtSome(HeldSpots)' = AtSome(HeldSpots) /\ AtSome(RowSpots)' = AtSome(RowSpots)
  BY <1>3, <1>4, <1>6 DEF AtSome, WaySpots, HeldSpots, RowSpots
<1>10. IsFiniteSet(AtSome(WaySpots)) /\ Cardinality(AtSome(WaySpots)) \in Nat
  BY PilotNumbers, FS_Subset, FS_CardinalityType DEF AtSome
<1>11. Cardinality(AtSome(WaySpots)') = Cardinality(AtSome(WaySpots)) + m
  <2> DEFINE way == AtSome(WaySpots)
  <2>1. IsFiniteSet(way) /\ Cardinality(way) \in Nat /\ way \cap new = {}
        /\ AtSome(WaySpots)' = way \cup new
    BY <1>9, <1>10
  <2> HIDE DEF way
  <2>2. Cardinality(way \cup new) =
            Cardinality(way) + Cardinality(new) - Cardinality(way \cap new)
    BY <2>1, <1>5, FS_Union
  <2>3. Cardinality(way \cap new) = 0
    BY <2>1, FS_EmptySet
  <2>4. Cardinality(way \cup new) = Cardinality(way) + m
    BY <2>1, <2>2, <2>3, <1>1, <1>5
  <2> QED BY <2>1, <2>4 DEF way
<1>12. Cardinality(AtSome(HeldSpots)) \in Nat
  BY PilotNumbers, FS_Subset, FS_CardinalityType DEF AtSome
<1>13. /\ pending' = Cardinality(AtSome(WaySpots)') /\ nxt' \in 0..Herd
       /\ pending' + holds' + paid' <= PilotStock
  BY <1>1, <1>2, <1>10, <1>11, <1>12, PilotNumbers DEF PilotCounts
<1>14. \A b \in Herds : act'[b] # "refused"
  BY <1>6 DEF PilotCounts
<1> QED BY <1>7, <1>8, <1>9, <1>13, <1>14 DEF PilotCounts

LEMMA ControlKeeps ==
    ASSUME PilotCounts, sim.policy = "stock", Control, ~stopping'
    PROVE  PilotCounts'
<1>a. ~Finished /\ UNCHANGED <<holds, paid, inVain, stockRow>>
  BY DEF Control, dbVars
<1>b. pending \in Nat /\ holds \in Nat /\ paid \in Nat /\ pending + holds + paid <= PilotStock
  BY PilotNumbers, FS_Subset, FS_CardinalityType DEF PilotCounts, AtSome
<1>1. \A p : AdmitTo(p) = PilotStock - holds - paid
  BY DEF AdmitTo, Free
<1>2. PICK k : k = (IF PilotStock - holds - paid > pending
                    THEN PilotStock - holds - paid - pending ELSE 0) /\ Admits(k)
  BY <1>a, <1>1 DEF Control
<1>3. k \in Nat /\ pending + k + holds + paid <= PilotStock
  BY <1>b, <1>2, PilotNumbers
<1> QED BY <1>a, <1>2, <1>3, AdmitsKeeps

LEMMA InitPilotInv == PilotInit => PilotInv
<1> SUFFICES ASSUME PilotInit PROVE PilotCounts
  BY DEF PilotInv
<1>1. AtSome(WaySpots) = {} /\ AtSome(HeldSpots) = {} /\ AtSome(RowSpots) = {}
  BY DEF PilotInit, AtSome, WaySpots, HeldSpots, RowSpots
<1>2. act \in [Herds -> PilotSpots] /\ \A b \in Herds : act[b] = "queued"
  BY DEF PilotInit, PilotSpots
<1>3. Cardinality({}) = 0
  BY FS_EmptySet
<1>4. nxt \in 0..Herd /\ pending + holds + paid <= PilotStock
  BY PilotNumbers DEF PilotInit
<1> QED BY <1>1, <1>2, <1>3, <1>4 DEF PilotInit, PilotCounts

LEMMA NextPilotInv == PilotInv /\ [PilotNext]_pilotVars => PilotInv'
<1> SUFFICES ASSUME PilotInv, [PilotNext]_pilotVars, (sim.policy = "stock" /\ ~stopping)'
             PROVE  PilotCounts'
  BY DEF PilotInv
<1>1. CASE UNCHANGED pilotVars
  BY <1>1 DEF pilotVars, countVars, dbVars, PilotInv, PilotCounts, AtSome
<1>2. CASE PilotNext
  <2>a. sim.policy = "stock" /\ ~stopping /\ PilotCounts
    BY <1>2 DEF PilotInv, PilotNext, PilotBuyer, NoShows, Shows, PassesGate, Answered, Counted,
                PilotCheckout, Settle, StartRaw, Adjust, Control, CancelAll, ClockTicks
  <2>1. ASSUME NEW b \in Herds, PilotBuyer(b) \/ PilotCheckout(b) \/ Settle(b)
        PROVE  PilotCounts'
    BY <2>1, <2>a, PilotBuyerKeeps, PilotCheckoutKeeps, SettleKeeps
  <2>2. CASE Adjust \/ ClockTicks
    BY <2>2, <2>a DEF Adjust, ClockTicks, countVars, dbVars, PilotCounts, AtSome
  <2>3. CASE Control
    BY <2>3, <2>a, ControlKeeps
  <2>4. ~StartRaw /\ ~CancelAll
    BY <2>a DEF StartRaw, CancelAll
  <2> QED BY <1>2, <2>1, <2>2, <2>3, <2>4 DEF PilotNext
<1> QED BY <1>1, <1>2

\* Policy stock:1 admits nobody in vain, for any herd, stock, pool and TTL and both
\* ways to check out: whoever is still on the way has a unit left in the row.
THEOREM StockPolicyAdmitsForUnits == PilotSpec => []NobodyAdmittedInVain
<1>1. PilotSpec => []PilotInv
  BY InitPilotInv, NextPilotInv, PTL DEF PilotSpec
<1>2. PilotInv => NobodyAdmittedInVain
  BY DEF PilotInv, PilotCounts, NobodyAdmittedInVain
<1> QED BY <1>1, <1>2, PTL

-----------------------------------------------------------------------------
(* The payment verifier *)

\* A verdict ends the run; every intent was made for some call; a call that still
\* waits has none, and what is not made is not known to Stripe; a service that
\* reuses has one; the verdict said what the answers and the last search said.
VerdictInv ==
    /\ progress \in {"sales", "queued", "admitted", "creating", "stopped"}
    /\ verdict \in {"none", "pass", "fail"} /\ (verdict # "none" => progress = "stopped")
    /\ call \in [Calls -> [at : {"waits", "answered", "broken"},
                           made : Calls \cup {NoIntent}, said : Calls \cup {NoIntent}]]
    /\ foundBy \subseteq indexed /\ indexed \subseteq intents /\ intents \subseteq Calls
    /\ \A c \in Calls : /\ call[c].made \in intents \cup {NoIntent}
                        /\ call[c].at = "waits" => call[c].made = NoIntent
                        /\ call[c].at # "answered" => call[c].said = NoIntent
    /\ \A i \in intents : \E c \in Calls : call[c].made = i
    /\ reuses => \A i, j \in intents : i = j
    /\ verdict = "pass" => Passed(foundBy)
    /\ verdict = "fail" => ~Passed(foundBy)

LEMMA InitVerdictInv == VerifyInit => VerdictInv
BY DEF VerifyInit, VerdictInv

LEMMA IntentOfIsNew ==
    ASSUME NEW c \in Calls, intents \subseteq Calls
    PROVE  /\ IntentOf(c) \in Calls
           /\ reuses /\ intents # {} => IntentOf(c) \in intents
BY DEF IntentOf

\* A call comes to its answer, or its intent is made late: no other call changes, and
\* what it said before it gets its answer is nothing.
LEMMA CallKeeps ==
    ASSUME VerdictInv, NEW c \in Calls, NEW its, MakesIntent(c, its),
           NEW how \in {"answered", "broken"}, NEW said \in Calls \cup {NoIntent},
           how = "answered" \/ said = NoIntent, call[c].made = NoIntent,
           call' = [call EXCEPT ![c] = [at |-> how, made |-> its, said |-> said]],
           how = "answered" => verdict = "none",
           UNCHANGED <<reuses, progress, indexed, foundBy, verdict>>,
           verdict = "none" \/ said = call[c].said
    PROVE  VerdictInv'
<1>b. intents \subseteq Calls
  BY DEF VerdictInv
<1>1. its \in Calls \cup {NoIntent} /\ intents' = intents \cup ({its} \ {NoIntent})
      /\ its \in {NoIntent, IntentOf(c)}
  BY <1>b, IntentOfIsNew DEF MakesIntent
<1>2. \A u \in Calls : call'[u] = IF u = c THEN [at |-> how, made |-> its, said |-> said]
                                           ELSE call[u]
  BY DEF VerdictInv
<1>3. call' \in [Calls -> [at : {"waits", "answered", "broken"},
                           made : Calls \cup {NoIntent}, said : Calls \cup {NoIntent}]]
  BY <1>1 DEF VerdictInv
<1>4. intents' \subseteq Calls /\ intents \subseteq intents' /\ indexed \subseteq intents'
  BY <1>1 DEF VerdictInv
<1>5. ASSUME NEW u \in Calls
      PROVE  /\ call'[u].made \in intents' \cup {NoIntent}
             /\ call'[u].at = "waits" => call'[u].made = NoIntent
             /\ call'[u].at # "answered" => call'[u].said = NoIntent
  BY <1>1, <1>2, <1>4 DEF VerdictInv
<1>6. ASSUME NEW j \in intents' PROVE \E u \in Calls : call'[u].made = j
  <2>1. CASE j = its
    BY <1>2, <2>1
  <2>2. CASE j \in intents
    <3>1. PICK u \in Calls : call[u].made = j
      BY <2>2 DEF VerdictInv
    <3>2. u # c
      BY <3>1, <2>2, <1>b, PaymentVerifyAssumption
    <3> QED BY <1>2, <3>1, <3>2
  <2> QED BY <1>1, <1>6, <2>1, <2>2
<1>7. reuses => \A j, k \in intents' : j = k
  BY <1>b, <1>1, IntentOfIsNew DEF VerdictInv
<1>8. verdict # "none" => IdsSeen' = IdsSeen
  <2> SUFFICES ASSUME verdict # "none" PROVE IdsSeen' = IdsSeen
    OBVIOUS
  <2>1. \A u \in Calls : call'[u].said = call[u].said
    BY <1>2
  <2> QED BY <2>1 DEF IdsSeen
<1>9. verdict # "none" => (Passed(foundBy)' <=> Passed(foundBy))
  BY <1>8 DEF Passed
<1> QED BY <1>3, <1>4, <1>5, <1>6, <1>7, <1>9 DEF VerdictInv

LEMMA AnsweredCallKeeps ==
    ASSUME VerdictInv, NEW c \in Calls, CallAnswered(c)
    PROVE  VerdictInv'
<1>1. PICK its \in {NoIntent, IntentOf(c)}, said \in Calls \cup {NoIntent} :
          /\ MakesIntent(c, its)
          /\ call' = [call EXCEPT ![c] = [at |-> "answered", made |-> its, said |-> said]]
  BY DEF CallAnswered
<1>2. /\ progress = "creating" /\ verdict = "none" /\ call[c].made = NoIntent
      /\ UNCHANGED <<reuses, progress, indexed, foundBy, verdict>>
  BY DEF CallAnswered, VerdictInv
<1> QED BY <1>1, <1>2, CallKeeps

LEMMA BreaksOffKeeps ==
    ASSUME VerdictInv, NEW c \in Calls, BreaksOff(c)
    PROVE  VerdictInv'
<1>1. /\ verdict = "none" /\ call[c].made = NoIntent /\ call[c].said = NoIntent
      /\ UNCHANGED <<reuses, progress, intents, indexed, foundBy, verdict>>
  BY DEF BreaksOff, VerdictInv
<1>2. \A u \in Calls : call'[u] = IF u = c THEN [call[c] EXCEPT !.at = "broken"] ELSE call[u]
  BY DEF BreaksOff, VerdictInv
<1>3. call[c] \in [at : {"waits", "answered", "broken"},
                   made : Calls \cup {NoIntent}, said : Calls \cup {NoIntent}]
  BY DEF VerdictInv
<1>4. call' \in [Calls -> [at : {"waits", "answered", "broken"},
                           made : Calls \cup {NoIntent}, said : Calls \cup {NoIntent}]]
  BY <1>3 DEF BreaksOff, VerdictInv
<1>5. \A u \in Calls : /\ call'[u].made = call[u].made /\ call'[u].said = call[u].said
                       /\ (call'[u].at = "waits" => call[u].at = "waits")
                       /\ (call'[u].at # "answered" => u = c \/ call[u].at # "answered")
  BY <1>2, <1>3
<1>6. ASSUME NEW u \in Calls
      PROVE  /\ call'[u].made \in intents' \cup {NoIntent}
             /\ call'[u].at = "waits" => call'[u].made = NoIntent
             /\ call'[u].at # "answered" => call'[u].said = NoIntent
  BY <1>1, <1>5 DEF VerdictInv
<1>7. \A i \in intents' : \E u \in Calls : call'[u].made = i
  BY <1>1, <1>5 DEF VerdictInv
<1> QED BY <1>1, <1>4, <1>6, <1>7 DEF VerdictInv

LEMMA MadeLateKeeps ==
    ASSUME VerdictInv, NEW c \in Calls, MadeLate(c)
    PROVE  VerdictInv'
<1>1. call[c] \in [at : {"waits", "answered", "broken"},
                   made : Calls \cup {NoIntent}, said : Calls \cup {NoIntent}]
      /\ call[c].at = "broken" /\ call[c].made = NoIntent /\ call[c].said = NoIntent
  BY DEF MadeLate, VerdictInv
<1>2. [call[c] EXCEPT !.made = IntentOf(c)]
         = [at |-> "broken", made |-> IntentOf(c), said |-> NoIntent]
  BY <1>1
<1>3. call' = [call EXCEPT ![c] = [at |-> "broken", made |-> IntentOf(c), said |-> NoIntent]]
  BY <1>2 DEF MadeLate
<1>4. MakesIntent(c, IntentOf(c)) /\ UNCHANGED <<reuses, progress, indexed, foundBy, verdict>>
  BY DEF MadeLate
<1> QED BY <1>1, <1>3, <1>4, CallKeeps

LEMMA SearchKeeps ==
    ASSUME VerdictInv, SearchStripe
    PROVE  VerdictInv'
<1>a. UNCHANGED <<call, reuses, intents, indexed>> /\ progress = "creating" /\ verdict = "none"
  BY DEF SearchStripe, VerdictInv
<1>1. foundBy' \subseteq indexed
  BY DEF SearchStripe
<1>2. CASE UNCHANGED <<progress, verdict>>
  BY <1>a, <1>1, <1>2 DEF VerdictInv
<1>3. CASE progress' = "stopped" /\ verdict' = IF Passed(foundBy') THEN "pass" ELSE "fail"
  <2>1. verdict' \in {"pass", "fail"} /\ (verdict' = "pass" <=> Passed(foundBy'))
    BY <1>3
  <2>2. Passed(foundBy') = Passed(foundBy)'
    BY <1>a DEF Passed, IdsSeen
  <2> QED BY <1>a, <1>1, <1>3, <2>1, <2>2 DEF VerdictInv
<1> QED BY <1>2, <1>3 DEF SearchStripe

LEMMA NextVerdictInv == VerdictInv /\ [VerifyNext]_verifyVars => VerdictInv'
<1> SUFFICES ASSUME VerdictInv, [VerifyNext]_verifyVars
             PROVE  VerdictInv'
  OBVIOUS
<1>1. CASE UNCHANGED verifyVars
  BY <1>1 DEF verifyVars, VerdictInv, Passed, IdsSeen
<1>2. CASE VerifyNext
  <2>1. CASE JoinsQueue \/ PollsQueue \/ ChecksOut
    <3>1. /\ progress' \in {"sales", "queued", "admitted", "creating", "stopped"}
          /\ UNCHANGED <<call, foundBy, reuses, intents, indexed, verdict>>
          /\ verdict = "none"
      BY <2>1 DEF VerdictInv, JoinsQueue, PollsQueue, ChecksOut, Stops, MovesTo
    <3> QED BY <3>1 DEF VerdictInv
  <2>2. ASSUME NEW c \in Calls, CallAnswered(c) \/ BreaksOff(c) \/ MadeLate(c) PROVE VerdictInv'
    BY <2>2, AnsweredCallKeeps, BreaksOffKeeps, MadeLateKeeps
  <2>3. CASE SearchStripe
    BY <2>3, SearchKeeps
  <2>4. CASE IndexAdvances
    <3>1. /\ foundBy \subseteq indexed' /\ indexed' \subseteq intents
          /\ UNCHANGED <<reuses, progress, call, intents, foundBy, verdict>>
      BY <2>4 DEF IndexAdvances, VerdictInv
    <3> QED BY <3>1 DEF VerdictInv, Passed, IdsSeen
  <2> QED BY <1>2, <2>1, <2>2, <2>3, <2>4 DEF VerifyNext
<1> QED BY <1>1, <1>2

\* What the verdict says of Stripe, from the answers and the last search.
LEMMA VerdictFromInv == VerdictInv => VerdictIsRight
<1> SUFFICES ASSUME VerdictInv
             PROVE  /\ verdict = "pass" /\ (Truthful \/ foundBy = intents)
                           => Cardinality(intents) = 1
                    /\ verdict = "fail" /\ reuses /\ Honest => foundBy = {}
  BY DEF VerdictIsRight
<1>a. /\ foundBy \subseteq intents /\ intents \subseteq Calls /\ IdsSeen \subseteq Calls
      /\ NoIntent \notin Calls /\ IsFiniteSet(Calls)
  <2>1. \A c \in Calls : call[c].said \in Calls \cup {NoIntent}
    BY DEF VerdictInv
  <2> QED BY <2>1, PaymentVerifyAssumption DEF VerdictInv, IdsSeen
<1>b. /\ IsFiniteSet(foundBy) /\ IsFiniteSet(intents) /\ IsFiniteSet(IdsSeen)
      /\ Cardinality(foundBy) \in Nat /\ Cardinality(intents) \in Nat
      /\ Cardinality(IdsSeen) \in Nat
  <2>1. IsFiniteSet(intents)
    BY <1>a, FS_Subset
  <2> QED BY <2>1, <1>a, FS_Subset, FS_CardinalityType
<1>1. ASSUME verdict = "pass", Truthful
      PROVE  Cardinality(intents) = 1
  <2>1. Cardinality(IdsSeen) <= 1 /\ Cardinality(foundBy) = 1
    BY <1>1 DEF VerdictInv, Passed
  <2>2. IdsSeen = {call[c].made : c \in Calls} \ {NoIntent}
    BY <1>1 DEF Truthful, IdsSeen
  <2>3. IdsSeen = intents
    <3>1. IdsSeen \subseteq intents
      BY <2>2 DEF VerdictInv
    <3>2. intents \subseteq IdsSeen
      BY <2>2, <1>a DEF VerdictInv
    <3> QED BY <3>1, <3>2
  <2>4. Cardinality(foundBy) <= Cardinality(intents)
    BY <1>a, <1>b, FS_Subset
  <2> QED BY <1>b, <2>1, <2>3, <2>4
<1>2. ASSUME verdict = "pass", foundBy = intents PROVE Cardinality(intents) = 1
  BY <1>2 DEF VerdictInv, Passed
<1>3. ASSUME verdict = "fail", reuses, Honest, foundBy # {} PROVE FALSE
  <2>1. PICK i \in foundBy : TRUE
    BY <1>3
  <2>2. foundBy = {i}
    BY <1>3, <1>a, <2>1 DEF VerdictInv
  <2>3. IdsSeen \subseteq intents
    BY <1>3 DEF Honest, IdsSeen, VerdictInv
  <2>4. IdsSeen \subseteq {i}
    BY <1>3, <1>a, <2>1, <2>3 DEF VerdictInv
  <2>5. IsFiniteSet({i}) /\ Cardinality({i}) = 1
    BY FS_Singleton
  <2>6. Cardinality(IdsSeen) <= 1
    BY <1>b, <2>4, <2>5, FS_Subset
  <2> QED BY <1>3, <2>2, <2>5, <2>6 DEF VerdictInv, Passed
<1> QED BY <1>1, <1>2, <1>3

\* Neither of the verifier's two witnesses alone lets a duplicate intent pass, and
\* only a search that found nothing condemns a sound service: for any number of
\* calls and looks, answers that say whatever they like, calls cut off whose intent
\* is made later, and an index that is behind by as much as it likes.
THEOREM VerdictHolds == VerifySpec => []VerdictIsRight
<1>1. VerifySpec => []VerdictInv
  BY InitVerdictInv, NextVerdictInv, PTL DEF VerifySpec
<1> QED BY <1>1, VerdictFromInv, PTL

-----------------------------------------------------------------------------
(* The client programs *)

NothingIn(s) == \A k \in 1..MaxPosts : <<s, k>> \notin inside
IsCut(s) == written[s].status \in CutOff
HasCut(b) == \E s \in Senders : Buyer(s) = b /\ IsCut(s)
Held(s) == reply[s].order \cup written[s].order

ReportTypes ==
    /\ client \in AllClients /\ client.plan # "abort"
    /\ stage \in [Customers -> {"start", "polling", "ready", "ended"}]
    /\ sent \in [Senders -> 0..MaxPosts] /\ inside \subseteq PostsMade /\ made \subseteq PostsMade
    /\ cached \in [Customers -> Replies] /\ reply \in [Senders -> Replies]
    /\ written \in [Senders -> [status : Outcomes \cup {"none"}, order : SUBSET PostsMade]]

\* A sender has one post out at most and waits for it, unless its connection was
\* cut; before its customer is admitted, and once the customer is done, nothing is
\* on its way.
SenderInStep(s) ==
    /\ written[s] # NoAnswer => reply[s] = NoAnswer
    /\ sent[s] = 0 => /\ reply[s] = NoAnswer
                      /\ stage[Buyer(s)] # "ended" => written[s] = NoAnswer
    /\ ~SenderUsed(s) => sent[s] = 0 /\ written[s] = NoAnswer
    /\ \A k \in 1..MaxPosts : <<s, k>> \in inside =>
          /\ k <= sent[s]
          /\ ~IsCut(s) => k = sent[s] /\ written[s] = NoAnswer /\ reply[s] = NoAnswer
    /\ stage[Buyer(s)] \in {"start", "polling"} =>
          written[s] = NoAnswer /\ reply[s] = NoAnswer /\ NothingIn(s)
    /\ stage[Buyer(s)] = "ended" =>
          reply[s] = NoAnswer /\ (written[s] = NoAnswer => NothingIn(s))

\* An answer with an order confirms it.
OnlyConfirmed(a) == a.status # "confirmed" => a.order = {}

\* What has been answered and put down is an order of the same customer; and an
\* order nobody holds is one of a customer whose connection was cut.
OrdersHeld ==
    /\ \A s \in Senders : OnlyConfirmed(reply[s])
    /\ \A b \in Customers : OnlyConfirmed(cached[b])
    /\ \A s \in Senders : \A p \in Held(s) \cup cached[Buyer(s)].order :
          p \in made /\ Buyer(p[1]) = Buyer(s)
    /\ \A p \in made : \/ HasCut(Buyer(p[1]))
                       \/ \E s \in Senders : Buyer(s) = Buyer(p[1]) /\ p \in Held(s)

ReportInv ==
    client.plan # "abort" =>
        ReportTypes /\ (\A s \in Senders : SenderInStep(s)) /\ OrdersHeld

\* Only the benchmarks post again, after a conflict or a dropped request; who rejoins,
\* stays away or has queued before follows no plan of the chaos.
LEMMA ClientTraits ==
    ASSUME NEW c \in AllClients
    PROVE  /\ c.retries \subseteq {"conflict", "dropped"}
           /\ c.rejoins \/ c.noShows => c.plan = "none"
           /\ c.queues \in BOOLEAN /\ c.key \in BOOLEAN
           /\ c.plan \in {"none", "abort", "duplicate"}
<1> DEFINE Good(d) == /\ d.retries \subseteq {"conflict", "dropped"}
                      /\ d.rejoins \/ d.noShows => d.plan = "none"
                      /\ d.queues \in BOOLEAN /\ d.key \in BOOLEAN
                      /\ d.plan \in {"none", "abort", "duplicate"}
<1>1. Good(Storefront)
  BY DEF Storefront, PlainClient
<1>2. \A d \in K6Script : Good(d)
  BY DEF K6Script, PlainClient
<1>3. \A d \in K6FaScript : Good(d)
  BY DEF K6FaScript, K6Script, PlainClient
<1>4. \A d \in ChaosHarness : Good(d)
  <2>1. ASSUME NEW q \in BOOLEAN, NEW k \in BOOLEAN, NEW p \in {"none", "abort", "duplicate"}
        PROVE  Good(ChaosClient(q, k, p))
    BY DEF ChaosClient, PlainClient
  <2> HIDE DEF Good
  <2> QED BY <2>1 DEF ChaosHarness
<1>5. Good(AimdBenchmark)
  BY DEF AimdBenchmark, PlainClient
<1>6. Good(FaBenchmark)
  BY DEF FaBenchmark, AimdBenchmark, PlainClient
<1> HIDE DEF Good
<1>7. Good(c)
  BY <1>1, <1>2, <1>3, <1>4, <1>5, <1>6 DEF AllClients
<1> QED BY <1>7 DEF Good

LEMMA NoAnswerSays == NoAnswer.status = "none" /\ NoAnswer.order = {}
BY DEF NoAnswer

LEMMA OriginalSends ==
    ASSUME NEW b \in Customers
    PROVE  /\ Original(b) \in Senders /\ Buyer(Original(b)) = b /\ SenderUsed(Original(b))
           /\ \A s \in Senders : /\ Buyer(s) \in Customers
                                 /\ Buyer(s) = b /\ s # Original(b) => s = <<b, "duplicate">>
BY DEF Original, Senders, Buyer, SenderUsed

LEMMA BuyerIs == \A s \in Senders : Buyer(s) \in Customers
BY DEF Senders, Buyer

\* A duplicate is only sent where the plan says so.
LEMMA OnlyOriginal ==
    ASSUME client.plan # "duplicate", NEW s \in Senders, SenderUsed(s)
    PROVE  s = Original(Buyer(s))
BY DEF Original, Senders, Buyer, SenderUsed

LEMMA PostIs ==
    ASSUME NEW p \in PostsMade
    PROVE  p[1] \in Senders /\ p[2] \in 1..MaxPosts /\ p = <<p[1], p[2]>>
BY DEF PostsMade

LEMMA MaxPostsNat == MaxPosts \in Nat /\ MaxPosts > 1
BY BuyerClientsAssumption DEF MaxPosts

LEMMA ReportInit == ClientInit => ReportInv
<1> SUFFICES ASSUME ClientInit, client.plan # "abort"
             PROVE  ReportTypes /\ (\A s \in Senders : SenderInStep(s)) /\ OrdersHeld
  BY DEF ReportInv
<1>a. /\ \A s \in Senders : reply[s] = NoAnswer /\ written[s] = NoAnswer /\ sent[s] = 0
      /\ \A b \in Customers : cached[b] = NoAnswer
      /\ inside = {} /\ made = {}
  BY DEF ClientInit
<1>1. NoAnswer \in Replies /\ NoAnswer \in [status : Outcomes \cup {"none"}, order : SUBSET PostsMade]
  BY DEF NoAnswer, Replies
<1>2. 0 \in 0..MaxPosts
  BY MaxPostsNat
<1>3. stage \in [Customers -> {"start", "polling", "ready", "ended"}]
  BY DEF ClientInit
<1>4. /\ sent \in [Senders -> 0..MaxPosts] /\ cached \in [Customers -> Replies]
      /\ reply \in [Senders -> Replies]
      /\ written \in [Senders -> [status : Outcomes \cup {"none"}, order : SUBSET PostsMade]]
  <2>1. /\ sent = [s \in Senders |-> 0] /\ cached = [b \in Customers |-> NoAnswer]
        /\ reply = [s \in Senders |-> NoAnswer] /\ written = [s \in Senders |-> NoAnswer]
    BY DEF ClientInit
  <2> HIDE DEF NoAnswer, Replies, Senders
  <2> QED BY <2>1, <1>1, <1>2
<1>5. ReportTypes
  BY <1>a, <1>3, <1>4 DEF ReportTypes, ClientInit
<1>6. ASSUME NEW s \in Senders PROVE SenderInStep(s)
  <2>1. Buyer(s) \in Customers
    BY DEF Senders, Buyer
  <2>2. stage[Buyer(s)] # "ended"
    BY <2>1 DEF ClientInit
  <2> QED BY <1>a, <2>2 DEF SenderInStep, NothingIn
<1>7. OrdersHeld
  <2>1. \A s \in Senders : OnlyConfirmed(reply[s])
    BY <1>a, NoAnswerSays DEF OnlyConfirmed
  <2>2. \A b \in Customers : OnlyConfirmed(cached[b])
    BY <1>a, NoAnswerSays DEF OnlyConfirmed
  <2>3. ASSUME NEW s \in Senders PROVE Held(s) \cup cached[Buyer(s)].order = {}
    <3>1. Buyer(s) \in Customers
      BY DEF Senders, Buyer
    <3> QED BY <3>1, <1>a, NoAnswerSays DEF Held
  <2> QED BY <1>a, <2>1, <2>2, <2>3 DEF OrdersHeld
<1> QED BY <1>5, <1>6, <1>7

\* What nobody reads of the clients' state may change.
LEMMA ReportKeeps ==
    ASSUME ReportInv,
           UNCHANGED <<client, made, cached, stage, sent, inside, reply, written>>
    PROVE  ReportInv'
<1>1. ReportTypes => ReportTypes'
  BY DEF ReportTypes
<1>2. ASSUME NEW s \in Senders, SenderInStep(s) PROVE SenderInStep(s)'
  BY <1>2 DEF SenderInStep, NothingIn, IsCut, SenderUsed
<1>3. OrdersHeld => OrdersHeld'
  BY DEF OrdersHeld, OnlyConfirmed, Held, HasCut, IsCut
<1> QED BY <1>1, <1>2, <1>3 DEF ReportInv

\* Orders move from an answer to what is put down, or are given up with a cut.
LEMMA HeldKeeps ==
    ASSUME OrdersHeld, UNCHANGED <<made, cached>>,
           \A t \in Senders : /\ OnlyConfirmed(reply'[t])
                              /\ Held(t)' \subseteq Held(t)
                              /\ IsCut(t) => IsCut(t)'
                              /\ IsCut(t)' \/ Held(t) \subseteq Held(t)'
    PROVE  OrdersHeld'
<1>1. \A b \in Customers : OnlyConfirmed(cached'[b])
  BY DEF OrdersHeld
<1>2. \A s \in Senders : \A p \in Held(s)' \cup cached'[Buyer(s)].order :
          p \in made' /\ Buyer(p[1]) = Buyer(s)
  BY DEF OrdersHeld
<1>3. ASSUME NEW p \in made'
      PROVE  \/ HasCut(Buyer(p[1]))'
             \/ \E s \in Senders : Buyer(s) = Buyer(p[1]) /\ p \in Held(s)'
  <2>1. CASE HasCut(Buyer(p[1]))
    <3>1. PICK s \in Senders : Buyer(s) = Buyer(p[1]) /\ IsCut(s)
      BY <2>1 DEF HasCut
    <3>2. IsCut(s)'
      BY <3>1
    <3> QED BY <3>1, <3>2 DEF HasCut
  <2>2. ASSUME NEW s \in Senders, Buyer(s) = Buyer(p[1]), p \in Held(s)
        PROVE  \/ HasCut(Buyer(p[1]))'
               \/ \E t \in Senders : Buyer(t) = Buyer(p[1]) /\ p \in Held(t)'
    BY <2>2 DEF HasCut
  <2>3. p \in made
    OBVIOUS
  <2> QED BY <2>1, <2>2, <2>3 DEF OrdersHeld
<1> QED BY <1>1, <1>2, <1>3 DEF OrdersHeld

LEMMA RecordTyped ==
    ASSUME NEW st \in Outcomes \cup {"none"}, NEW o \in SUBSET PostsMade
    PROVE  [status |-> st, order |-> o] \in [status : Outcomes \cup {"none"}, order : SUBSET PostsMade]
OBVIOUS

LEMMA PutDownWrites ==
    ASSUME ReportTypes, NEW s \in Senders, NEW st \in Outcomes, NEW o \in SUBSET PostsMade,
           PutDown(s, st, o)
    PROVE  /\ written' \in [Senders -> [status : Outcomes \cup {"none"}, order : SUBSET PostsMade]]
           /\ \A t \in Senders : written'[t] = IF t = s THEN [status |-> st, order |-> o] ELSE written[t]
           /\ written'[s] # NoAnswer
<1> DEFINE W == [status : Outcomes \cup {"none"}, order : SUBSET PostsMade]
           w == [status |-> st, order |-> o]
<1>1. w \in W
  OBVIOUS
<1>2. w # NoAnswer
  BY DEF NoAnswer, Outcomes, Answers, CutOff
<1>3. written \in [Senders -> W] /\ written' = [written EXCEPT ![s] = w]
  BY DEF ReportTypes, PutDown
<1> HIDE DEF W, w
<1>4. /\ written' \in [Senders -> W]
      /\ \A t \in Senders : written'[t] = IF t = s THEN w ELSE written[t]
  BY <1>1, <1>3
<1> QED BY <1>2, <1>4 DEF W, w

\* A customer gives up before any post is on its way.
LEMMA QueueingEndKeeps ==
    ASSUME ReportInv, client.plan # "abort", NEW b \in Customers,
           NEW st \in {"never_admitted", "told_sold_out", "noshow"},
           EndsQueueing(b, st), UNCHANGED <<client, made, cached, sent, inside, reply>>,
           \A t \in Senders : Buyer(t) = b =>
               written[t] = NoAnswer /\ reply[t] = NoAnswer /\ NothingIn(t)
    PROVE  ReportInv'
<1> DEFINE s == Original(b)
<1>a. ReportTypes /\ (\A t \in Senders : SenderInStep(t)) /\ OrdersHeld
  BY DEF ReportInv
<1>b. s \in Senders /\ Buyer(s) = b /\ SenderUsed(s)
  BY OriginalSends
<1> HIDE DEF s
<1>c. st \in Outcomes /\ st \notin CutOff /\ {} \in SUBSET PostsMade
  BY DEF Outcomes, CutOff
<1>1. PutDown(s, st, {}) /\ stage' = [stage EXCEPT ![b] = "ended"]
  BY DEF EndsQueueing, s
<1>2. /\ written' \in [Senders -> [status : Outcomes \cup {"none"}, order : SUBSET PostsMade]]
      /\ \A t \in Senders : written'[t] = IF t = s THEN [status |-> st, order |-> {}] ELSE written[t]
      /\ written'[s] # NoAnswer
  BY <1>a, <1>b, <1>c, <1>1, PutDownWrites
<1>3. /\ stage' \in [Customers -> {"start", "polling", "ready", "ended"}]
      /\ \A c \in Customers : stage'[c] = IF c = b THEN "ended" ELSE stage[c]
  BY <1>a, <1>1 DEF ReportTypes
<1>4. ReportTypes'
  BY <1>a, <1>2, <1>3 DEF ReportTypes
<1>5. ASSUME NEW t \in Senders PROVE SenderInStep(t)'
  <2>a. SenderInStep(t) /\ Buyer(t) \in Customers
    BY <1>a, OriginalSends
  <2>b. UNCHANGED <<client, sent, inside, reply>>
    OBVIOUS
  <2>1. CASE Buyer(t) = b /\ t = s
    <3>1. stage'[Buyer(t)] = "ended" /\ reply'[t] = NoAnswer /\ SenderUsed(t)' /\ NothingIn(t)'
      BY <1>3, <1>b, <2>1, <2>a, <2>b DEF SenderUsed, NothingIn
    <3> QED BY <3>1, <2>b DEF SenderInStep, NothingIn
  <2>2. CASE Buyer(t) = b /\ t # s
    <3>1. /\ stage'[Buyer(t)] = "ended" /\ reply'[t] = NoAnswer /\ written'[t] = NoAnswer
          /\ NothingIn(t)'
      BY <1>2, <1>3, <2>2, <2>b DEF NothingIn
    <3>2. ~SenderUsed(t)' => sent'[t] = 0
      BY <2>a, <2>b DEF SenderInStep, SenderUsed
    <3> QED BY <3>1, <3>2 DEF SenderInStep, NothingIn
  <2>3. CASE Buyer(t) # b
    <3>1. stage'[Buyer(t)] = stage[Buyer(t)] /\ written'[t] = written[t]
      BY <1>2, <1>3, <1>b, <2>a, <2>3
    <3> QED BY <3>1, <2>a, <2>b DEF SenderInStep, NothingIn, IsCut, SenderUsed
  <2> QED BY <2>1, <2>2, <2>3
<1>6. ASSUME NEW t \in Senders
      PROVE  /\ OnlyConfirmed(reply'[t])
             /\ Held(t)' = Held(t)
             /\ IsCut(t)' <=> IsCut(t)
  <2>1. CASE t = s
    <3>1. written[t] = NoAnswer /\ written'[t].order = {} /\ written'[t].status = st
      BY <1>2, <1>b, <2>1
    <3>2. "none" \notin CutOff
      BY DEF CutOff
    <3> QED BY <1>a, <1>c, <3>1, <3>2, NoAnswerSays DEF OrdersHeld, Held, IsCut
  <2>2. CASE t # s
    <3>1. written'[t] = written[t]
      BY <1>2, <2>2
    <3> QED BY <1>a, <3>1 DEF OrdersHeld, Held, IsCut
  <2> QED BY <2>1, <2>2
<1>7. OrdersHeld'
  BY <1>a, <1>6, HeldKeeps
<1> QED BY <1>4, <1>5, <1>7 DEF ReportInv

\* Before the checkout nothing of a customer is on its way.
LEMMA BeforeCheckout ==
    ASSUME ReportInv, client.plan # "abort", NEW b \in Customers,
           stage[b] \in {"start", "polling"} \/
               (stage[b] = "ready" /\ client.noShows /\ sent[Original(b)] = 0),
           NEW t \in Senders, Buyer(t) = b
    PROVE  written[t] = NoAnswer /\ reply[t] = NoAnswer /\ NothingIn(t)
<1>a. SenderInStep(t)
  BY DEF ReportInv
<1>1. CASE stage[b] \in {"start", "polling"}
  BY <1>a, <1>1 DEF SenderInStep
<1>2. CASE stage[b] = "ready" /\ client.noShows /\ sent[Original(b)] = 0
  <2>1. client.plan = "none"
    BY <1>2, ClientTraits DEF ReportInv, ReportTypes
  <2>2. sent[t] = 0
    <3>1. CASE SenderUsed(t)
      BY <1>2, <2>1, <3>1, OnlyOriginal
    <3>2. CASE ~SenderUsed(t)
      BY <1>a, <3>2 DEF SenderInStep
    <3> QED BY <3>1, <3>2
  <2>3. written[t] = NoAnswer /\ reply[t] = NoAnswer
    BY <1>a, <1>2, <2>2 DEF SenderInStep
  <2>4. NothingIn(t)
    BY <1>a, <2>2 DEF SenderInStep, NothingIn
  <2> QED BY <2>3, <2>4
<1> QED BY <1>1, <1>2

\* A customer moves on to polling, or to the checkout.
LEMMA StageKeeps ==
    ASSUME ReportInv, client.plan # "abort", NEW b \in Customers, NEW at \in {"polling", "ready"},
           stage[b] \in {"start", "polling"}, stage' = [stage EXCEPT ![b] = at],
           UNCHANGED <<client, made, cached, sent, inside, reply, written>>
    PROVE  ReportInv'
<1>a. ReportTypes /\ (\A t \in Senders : SenderInStep(t)) /\ OrdersHeld
  BY DEF ReportInv
<1>1. /\ stage' \in [Customers -> {"start", "polling", "ready", "ended"}]
      /\ \A c \in Customers : stage'[c] = IF c = b THEN at ELSE stage[c]
  BY <1>a DEF ReportTypes
<1>2. ReportTypes'
  BY <1>a, <1>1 DEF ReportTypes
<1>3. ASSUME NEW t \in Senders PROVE SenderInStep(t)'
  <2>a. SenderInStep(t) /\ Buyer(t) \in Customers
    BY <1>a, OriginalSends
  <2>1. CASE Buyer(t) = b
    <3>1. written[t] = NoAnswer /\ reply[t] = NoAnswer /\ NothingIn(t)
      BY <2>1, BeforeCheckout
    <3>2. stage'[Buyer(t)] # "ended"
      BY <1>1, <2>a, <2>1
    <3>3. ~SenderUsed(t)' => sent'[t] = 0
      BY <2>a DEF SenderInStep, SenderUsed
    <3>4. written'[t] = NoAnswer /\ reply'[t] = NoAnswer /\ NothingIn(t)'
      BY <3>1 DEF NothingIn
    <3> QED BY <3>2, <3>3, <3>4 DEF SenderInStep, NothingIn
  <2>2. CASE Buyer(t) # b
    <3>1. stage'[Buyer(t)] = stage[Buyer(t)]
      BY <1>1, <2>a, <2>2
    <3> QED BY <3>1, <2>a DEF SenderInStep, NothingIn, IsCut, SenderUsed
  <2> QED BY <2>1, <2>2
<1>4. OrdersHeld'
  BY <1>a DEF OrdersHeld, OnlyConfirmed, Held, HasCut, IsCut
<1> QED BY <1>2, <1>3, <1>4 DEF ReportInv

LEMMA CustomerKeeps ==
    ASSUME ReportInv, client.plan # "abort", NEW b \in Customers, CustomerStep(b)
    PROVE  ReportInv'
<1>a. stage[b] \in {"start", "polling"} \/
        (stage[b] = "ready" /\ client.noShows /\ sent[Original(b)] = 0)
  BY DEF CustomerStep, Join, Poll, PollFails, GiveUp, NoShow
<1>b. \A t \in Senders : Buyer(t) = b =>
          written[t] = NoAnswer /\ reply[t] = NoAnswer /\ NothingIn(t)
  BY <1>a, BeforeCheckout
<1>c. UNCHANGED <<client, made, cached, sent, inside, reply>>
  BY DEF CustomerStep, Join, Poll, PollFails, GiveUp, NoShow, serverVars
<1>1. \/ \E st \in {"never_admitted", "told_sold_out", "noshow"} : EndsQueueing(b, st)
      \/ /\ stage[b] \in {"start", "polling"} /\ UNCHANGED written
         /\ \/ \E at \in {"polling", "ready"} : stage' = [stage EXCEPT ![b] = at]
            \/ UNCHANGED stage
  BY DEF CustomerStep, Join, Poll, PollFails, GiveUp, NoShow
<1>2. CASE \E st \in {"never_admitted", "told_sold_out", "noshow"} : EndsQueueing(b, st)
  BY <1>2, <1>b, <1>c, QueueingEndKeeps
<1>3. CASE /\ stage[b] \in {"start", "polling"} /\ UNCHANGED written
           /\ \E at \in {"polling", "ready"} : stage' = [stage EXCEPT ![b] = at]
  BY <1>3, <1>c, StageKeeps
<1>4. CASE UNCHANGED written /\ UNCHANGED stage
  BY <1>4, <1>c, ReportKeeps
<1> QED BY <1>1, <1>2, <1>3, <1>4

LEMMA SendKeeps ==
    ASSUME ReportInv, client.plan # "abort", NEW s \in Senders, PostCheckout(s)
    PROVE  ReportInv'
<1>a. ReportTypes /\ (\A t \in Senders : SenderInStep(t)) /\ OrdersHeld
  BY DEF ReportInv
<1>b. /\ UNCHANGED <<client, made, cached, stage, reply, written>>
      /\ SenderUsed(s) /\ stage[Buyer(s)] = "ready" /\ written[s] = NoAnswer /\ ~Waits(s)
      /\ sent[s] < MaxPosts
      /\ sent' = [sent EXCEPT ![s] = @ + 1]
      /\ inside' = inside \cup {<<s, sent[s] + 1>>}
  BY DEF PostCheckout, Sends, serverVars
<1>c. sent[s] \in 0..MaxPosts /\ MaxPosts \in Nat
  BY <1>a, MaxPostsNat DEF ReportTypes
<1>1. sent[s] + 1 \in 1..MaxPosts /\ sent[s] + 1 \in 0..MaxPosts
  BY <1>b, <1>c
<1>2. /\ sent' \in [Senders -> 0..MaxPosts]
      /\ \A t \in Senders : sent'[t] = IF t = s THEN sent[s] + 1 ELSE sent[t]
  BY <1>a, <1>b, <1>1 DEF ReportTypes
<1>3. ReportTypes'
  <2>1. <<s, sent[s] + 1>> \in PostsMade
    BY <1>1 DEF PostsMade
  <2> QED BY <1>a, <1>b, <1>2, <2>1 DEF ReportTypes
<1>4. reply[s] = NoAnswer /\ NothingIn(s)
  <2>a. SenderInStep(s) /\ ~IsCut(s)
    BY <1>a, <1>b, NoAnswerSays DEF IsCut, CutOff
  <2>1. CASE sent[s] = 0
    <3>1. reply[s] = NoAnswer
      BY <2>a, <2>1 DEF SenderInStep
    <3>2. NothingIn(s)
      BY <2>a, <2>1 DEF SenderInStep, NothingIn
    <3> QED BY <3>1, <3>2
  <2>2. CASE sent[s] # 0
    <3>1. sent[s] > 0
      BY <1>c, <2>2
    <3>2. <<s, sent[s]>> \notin inside /\ reply[s] = NoAnswer
      BY <1>b, <3>1 DEF Waits
    <3>3. NothingIn(s)
      BY <2>a, <3>2 DEF SenderInStep, NothingIn
    <3> QED BY <3>2, <3>3
  <2> QED BY <2>1, <2>2
<1>5. ASSUME NEW t \in Senders PROVE SenderInStep(t)'
  <2>a. SenderInStep(t)
    BY <1>a
  <2>1. CASE t = s
    <3>1. \A k \in 1..MaxPosts : <<s, k>> \in inside' => k = sent'[s]
      BY <1>b, <1>2, <1>4 DEF NothingIn
    <3>2. /\ written'[t] = NoAnswer /\ reply'[t] = NoAnswer /\ SenderUsed(t)'
          /\ stage'[Buyer(t)] = "ready"
      BY <1>b, <1>4, <2>1 DEF SenderUsed
    <3> QED BY <2>1, <3>1, <3>2 DEF SenderInStep
  <2>2. CASE t # s
    <3>1. /\ sent'[t] = sent[t]
          /\ \A k \in 1..MaxPosts : <<t, k>> \in inside' <=> <<t, k>> \in inside
      BY <1>b, <1>2, <2>2
    <3> QED BY <1>b, <3>1, <2>a DEF SenderInStep, NothingIn, IsCut, SenderUsed
  <2> QED BY <2>1, <2>2
<1>6. OrdersHeld'
  BY <1>a, <1>b DEF OrdersHeld, OnlyConfirmed, Held, HasCut, IsCut
<1> QED BY <1>3, <1>5, <1>6 DEF ReportInv

\* A sender is done: with what it was told, or because its connection was cut.
LEMMA SenderEndKeeps ==
    ASSUME ReportInv, client.plan # "abort", NEW s \in Senders,
           NEW st \in Outcomes, NEW o \in SUBSET PostsMade,
           EndsWith(s, st, o), UNCHANGED <<client, made, cached, sent, inside>>,
           written[s] = NoAnswer, Waits(s) \/ reply[s] # NoAnswer,
           (st \in CutOff /\ o = {}) \/ (reply[s] # NoAnswer /\ o = reply[s].order)
    PROVE  ReportInv'
<1>a. ReportTypes /\ (\A t \in Senders : SenderInStep(t)) /\ OrdersHeld
  BY DEF ReportInv
<1>b. PutDown(s, st, o) /\ reply' = [reply EXCEPT ![s] = NoAnswer]
  BY DEF EndsWith
<1>c. Buyer(s) \in Customers
  BY BuyerIs
<1>1. /\ written' \in [Senders -> [status : Outcomes \cup {"none"}, order : SUBSET PostsMade]]
      /\ \A t \in Senders : written'[t] = IF t = s THEN [status |-> st, order |-> o] ELSE written[t]
      /\ written'[s] # NoAnswer
  BY <1>a, <1>b, PutDownWrites
<1>2. /\ reply' \in [Senders -> Replies]
      /\ \A t \in Senders : reply'[t] = IF t = s THEN NoAnswer ELSE reply[t]
  <2>1. NoAnswer \in Replies /\ reply \in [Senders -> Replies]
    BY <1>a DEF NoAnswer, Replies, ReportTypes
  <2> QED BY <1>b, <2>1
<1>3. /\ stage' \in [Customers -> {"start", "polling", "ready", "ended"}]
      /\ \A b \in Customers : b # Buyer(s) => stage'[b] = stage[b]
      /\ stage'[Buyer(s)] = stage[Buyer(s)] \/
            /\ stage'[Buyer(s)] = "ended"
            /\ \A t \in Senders : Buyer(t) = Buyer(s) /\ SenderUsed(t) /\ t # s
                  => written[t] # NoAnswer
  BY <1>a, <1>c DEF EndsWith, ReportTypes
<1>4. ReportTypes'
  BY <1>a, <1>1, <1>2, <1>3 DEF ReportTypes
<1>5. SenderUsed(s) /\ stage[Buyer(s)] = "ready" /\ sent[s] # 0
  <2>1. SenderInStep(s) /\ sent[s] \in 0..MaxPosts
    BY <1>a DEF ReportTypes
  <2>2. \/ reply[s] # NoAnswer
        \/ \E k \in 1..MaxPosts : <<s, k>> \in inside /\ k = sent[s]
    <3>1. CASE reply[s] = NoAnswer
      <4>1. sent[s] > 0 /\ <<s, sent[s]>> \in inside
        BY <3>1 DEF Waits
      <4>2. sent[s] \in 1..MaxPosts
        BY <2>1, <4>1, MaxPostsNat
      <4> QED BY <4>1, <4>2
    <3> QED BY <3>1
  <2>3. stage[Buyer(s)] \notin {"start", "polling", "ended"}
    BY <2>1, <2>2 DEF SenderInStep, NothingIn
  <2>4. stage[Buyer(s)] = "ready"
    BY <1>a, <1>c, <2>3 DEF ReportTypes
  <2>5. sent[s] # 0
    <3>1. CASE reply[s] # NoAnswer
      BY <2>1, <3>1 DEF SenderInStep
    <3>2. CASE \E k \in 1..MaxPosts : <<s, k>> \in inside /\ k = sent[s]
      BY <3>2
    <3> QED BY <2>2, <3>1, <3>2
  <2> QED BY <2>1, <2>4, <2>5 DEF SenderInStep
<1>6. ASSUME NEW t \in Senders PROVE SenderInStep(t)'
  <2>a. SenderInStep(t) /\ Buyer(t) \in Customers
    BY <1>a, BuyerIs
  <2>b. /\ sent'[t] = sent[t] /\ SenderUsed(t)' = SenderUsed(t)
        /\ NothingIn(t)' = NothingIn(t)
    BY DEF SenderUsed, NothingIn
  <2>1. CASE t = s
    <3>1. /\ written'[t] # NoAnswer /\ reply'[t] = NoAnswer /\ sent'[t] # 0 /\ SenderUsed(t)'
          /\ stage'[Buyer(t)] \in {"ready", "ended"}
      BY <1>1, <1>2, <1>3, <1>5, <2>1, <2>b
    <3>2. ASSUME NEW k \in 1..MaxPosts, <<s, k>> \in inside'
          PROVE  k <= sent'[s] /\ IsCut(s)'
      <4>1. k <= sent[s] /\ ~(~IsCut(s) /\ reply[s] # NoAnswer)
        BY <2>a, <2>1, <3>2 DEF SenderInStep
      <4>2. ~IsCut(s)
        BY NoAnswerSays DEF IsCut, CutOff
      <4>3. st \in CutOff
        BY <4>1, <4>2
      <4> QED BY <4>1, <4>3, <1>1 DEF IsCut
    <3> QED BY <2>1, <3>1, <3>2 DEF SenderInStep
  <2>2. CASE t # s
    <3>1. written'[t] = written[t] /\ reply'[t] = reply[t]
      BY <1>1, <1>2, <2>2
    <3>2. CASE stage'[Buyer(t)] = stage[Buyer(t)]
      BY <3>1, <3>2, <2>a, <2>b DEF SenderInStep, NothingIn, IsCut
    <3>3. CASE Buyer(t) = Buyer(s) /\ stage'[Buyer(t)] = "ended" /\ (SenderUsed(t) => written[t] # NoAnswer)
      <4>1. stage[Buyer(t)] = "ready"
        BY <3>3, <1>5
      <4>2. reply[t] = NoAnswer /\ (written[t] = NoAnswer => NothingIn(t))
        <5>1. CASE SenderUsed(t)
          BY <5>1, <3>3, <2>a DEF SenderInStep
        <5>2. CASE ~SenderUsed(t)
          <6>1. sent[t] = 0 /\ reply[t] = NoAnswer
            BY <5>2, <2>a DEF SenderInStep
          <6>2. NothingIn(t)
            BY <6>1, <2>a DEF SenderInStep, NothingIn
          <6> QED BY <6>1, <6>2
        <5> QED BY <5>1, <5>2
      <4>3. ~SenderUsed(t) => sent[t] = 0 /\ written[t] = NoAnswer
        BY <2>a DEF SenderInStep
      <4>4. \A k \in 1..MaxPosts : <<t, k>> \in inside =>
              k <= sent[t] /\ (~IsCut(t) => k = sent[t] /\ written[t] = NoAnswer /\ reply[t] = NoAnswer)
        BY <2>a DEF SenderInStep
      <4>5. IsCut(t)' = IsCut(t)
        BY <3>1 DEF IsCut
      <4> QED BY <3>1, <3>3, <4>2, <4>3, <4>4, <4>5, <2>b DEF SenderInStep, NothingIn
    <3> QED BY <1>3, <2>a, <2>2, <3>2, <3>3
  <2> QED BY <2>1, <2>2
<1>7. ASSUME NEW t \in Senders
      PROVE  /\ OnlyConfirmed(reply'[t])
             /\ Held(t)' \subseteq Held(t)
             /\ IsCut(t) => IsCut(t)'
             /\ IsCut(t)' \/ Held(t) \subseteq Held(t)'
  <2>1. CASE t = s
    <3>1. reply'[t] = NoAnswer /\ written'[t].order = o /\ written'[t].status = st
      BY <1>1, <1>2, <2>1
    <3>2. ~IsCut(t) /\ Held(t) = reply[t].order
      BY <2>1, NoAnswerSays DEF IsCut, CutOff, Held
    <3>3. Held(t)' = o
      BY <3>1, NoAnswerSays DEF Held
    <3> QED BY <2>1, <3>1, <3>2, <3>3, NoAnswerSays DEF OnlyConfirmed, IsCut
  <2>2. CASE t # s
    <3>1. written'[t] = written[t] /\ reply'[t] = reply[t]
      BY <1>1, <1>2, <2>2
    <3> QED BY <3>1, <1>a DEF OrdersHeld, Held, IsCut
  <2> QED BY <2>1, <2>2
<1>8. OrdersHeld'
  BY <1>a, <1>7, HeldKeeps
<1> QED BY <1>4, <1>6, <1>8 DEF ReportInv

\* An answer without an order is let go: to post again, or to queue again.
LEMMA LetGoKeeps ==
    ASSUME ReportInv, client.plan # "abort", NEW s \in Senders,
           written[s] = NoAnswer, reply[s] # NoAnswer, reply[s].order = {},
           reply' = [reply EXCEPT ![s] = NoAnswer],
           \/ UNCHANGED stage
           \/ client.plan = "none" /\ stage' = [stage EXCEPT ![Buyer(s)] = "start"],
           UNCHANGED <<client, made, cached, sent, inside, written>>
    PROVE  ReportInv'
<1>a. ReportTypes /\ (\A t \in Senders : SenderInStep(t)) /\ OrdersHeld
  BY DEF ReportInv
<1>b. SenderInStep(s) /\ Buyer(s) \in Customers
  BY <1>a, BuyerIs
<1>c. ~IsCut(s)
  BY NoAnswerSays DEF IsCut, CutOff
<1>1. /\ reply' \in [Senders -> Replies]
      /\ \A t \in Senders : reply'[t] = IF t = s THEN NoAnswer ELSE reply[t]
  <2>1. NoAnswer \in Replies /\ reply \in [Senders -> Replies]
    BY <1>a DEF NoAnswer, Replies, ReportTypes
  <2> QED BY <2>1
<1>2. /\ stage' \in [Customers -> {"start", "polling", "ready", "ended"}]
      /\ \A b \in Customers : b # Buyer(s) => stage'[b] = stage[b]
      /\ stage'[Buyer(s)] = stage[Buyer(s)] \/ (client.plan = "none" /\ stage'[Buyer(s)] = "start")
  BY <1>a, <1>b DEF ReportTypes
<1>3. ReportTypes'
  BY <1>a, <1>1, <1>2 DEF ReportTypes
<1>4. NothingIn(s) /\ sent[s] # 0 /\ SenderUsed(s)
  BY <1>b, <1>c DEF SenderInStep, NothingIn
<1>5. ASSUME NEW t \in Senders PROVE SenderInStep(t)'
  <2>a. SenderInStep(t) /\ Buyer(t) \in Customers
    BY <1>a, BuyerIs
  <2>b. /\ sent'[t] = sent[t] /\ written'[t] = written[t] /\ IsCut(t)' = IsCut(t)
        /\ SenderUsed(t)' = SenderUsed(t) /\ NothingIn(t)' = NothingIn(t)
    BY DEF SenderUsed, NothingIn, IsCut
  <2>1. CASE t = s
    <3>1. reply'[t] = NoAnswer /\ written'[t] = NoAnswer /\ NothingIn(t)' /\ SenderUsed(t)' /\ sent'[t] # 0
      BY <1>1, <1>4, <2>1, <2>b
    <3> QED BY <3>1 DEF SenderInStep, NothingIn
  <2>2. CASE t # s
    <3>1. reply'[t] = reply[t]
      BY <1>1, <2>2
    <3>2. CASE stage'[Buyer(t)] = stage[Buyer(t)]
      BY <3>1, <3>2, <2>a, <2>b DEF SenderInStep, NothingIn
    <3>3. CASE Buyer(t) = Buyer(s) /\ client.plan = "none" /\ stage'[Buyer(t)] = "start"
      <4>1. ~SenderUsed(t)
        BY <1>4, <2>2, <3>3, OnlyOriginal
      <4>2. sent[t] = 0 /\ written[t] = NoAnswer /\ reply[t] = NoAnswer
        BY <4>1, <2>a DEF SenderInStep
      <4>3. NothingIn(t)
        BY <4>2, <2>a DEF SenderInStep, NothingIn
      <4> QED BY <3>1, <3>3, <4>2, <4>3, <2>b DEF SenderInStep, NothingIn
    <3> QED BY <1>2, <2>a, <3>2, <3>3
  <2> QED BY <2>1, <2>2
<1>6. ASSUME NEW t \in Senders
      PROVE  /\ OnlyConfirmed(reply'[t])
             /\ Held(t)' = Held(t)
             /\ IsCut(t)' <=> IsCut(t)
  <2>1. CASE t = s
    BY <1>1, <2>1, NoAnswerSays DEF OnlyConfirmed, Held, IsCut
  <2>2. CASE t # s
    BY <1>1, <1>a, <2>2 DEF OrdersHeld, Held, IsCut
  <2> QED BY <2>1, <2>2
<1>7. OrdersHeld'
  BY <1>a, <1>6, HeldKeeps
<1> QED BY <1>3, <1>5, <1>7 DEF ReportInv

LEMMA RetryKeeps ==
    ASSUME ReportInv, client.plan # "abort", NEW s \in Senders, Rejoin(s) \/ Retry(s)
    PROVE  ReportInv'
<1>a. ReportTypes /\ OrdersHeld
  BY DEF ReportInv
<1>b. /\ client.retries \subseteq {"conflict", "dropped"}
      /\ client.rejoins => client.plan = "none"
  BY <1>a, ClientTraits DEF ReportTypes
<1>c. UNCHANGED <<client, made, cached, sent, inside>> /\ written[s] = NoAnswer
  BY DEF Rejoin, Retry, serverVars
<1>1. reply[s].status \in {"expired", "conflict", "dropped"}
  BY <1>b DEF Rejoin, Rejoins, Retry
<1>2. reply[s] # NoAnswer /\ reply[s].order = {}
  BY <1>a, <1>1, NoAnswerSays DEF OrdersHeld, OnlyConfirmed
<1>3. CASE Rejoin(s)
  <2>1. client.plan = "none"
    BY <1>3, <1>b DEF Rejoin, Rejoins
  <2>2. /\ stage' = [stage EXCEPT ![Buyer(s)] = "start"]
        /\ reply' = [reply EXCEPT ![s] = NoAnswer] /\ UNCHANGED written
    BY <1>3 DEF Rejoin
  <2> QED BY <1>c, <1>2, <2>1, <2>2, LetGoKeeps
<1>4. CASE Retry(s) /\ EndsWith(s, "gave_up", {})
  <2>1. "gave_up" \in Outcomes /\ {} \in SUBSET PostsMade
    BY DEF Outcomes
  <2> QED BY <1>c, <1>2, <1>4, <2>1, SenderEndKeeps
<1>5. CASE Retry(s) /\ reply' = [reply EXCEPT ![s] = NoAnswer] /\ UNCHANGED <<stage, written>>
  BY <1>c, <1>2, <1>5, LetGoKeeps
<1> QED BY <1>3, <1>4, <1>5 DEF Retry

LEMMA EndKeeps ==
    ASSUME ReportInv, client.plan # "abort", NEW s \in Senders,
           Breaks(s) \/ Cancel(s) \/ Receive(s)
    PROVE  ReportInv'
<1>a. ReportTypes
  BY DEF ReportInv
<1>b. UNCHANGED <<client, made, cached, sent, inside>> /\ written[s] = NoAnswer
  BY DEF Breaks, Cancel, Receive, AfterBreak, Waits, serverVars
<1>1. CASE Breaks(s)
  <2>1. EndsWith(s, "error", {}) /\ Waits(s)
    BY <1>1 DEF Breaks, AfterBreak
  <2>2. "error" \in Outcomes /\ "error" \in CutOff /\ {} \in SUBSET PostsMade
    BY DEF Outcomes, CutOff
  <2> QED BY <1>b, <2>1, <2>2, SenderEndKeeps
<1>2. CASE Cancel(s)
  <2>1. EndsWith(s, "cancelled", {}) /\ Waits(s)
    BY <1>2 DEF Cancel
  <2>2. "cancelled" \in Outcomes /\ "cancelled" \in CutOff /\ {} \in SUBSET PostsMade
    BY DEF Outcomes, CutOff
  <2> QED BY <1>b, <2>1, <2>2, SenderEndKeeps
<1>3. CASE Receive(s)
  <2>1. EndsWith(s, reply[s].status, reply[s].order) /\ reply[s] # NoAnswer
    BY <1>3 DEF Receive
  <2>2. reply[s] \in Replies
    BY <1>a DEF ReportTypes
  <2>3. reply[s].status # "none"
    <3>1. reply[s].status = "none" => reply[s].order = {}
      BY DEF ReportInv, OrdersHeld, OnlyConfirmed
    <3> QED BY <2>1, <2>2, <3>1 DEF Replies, NoAnswer
  <2>4. reply[s].status \in Outcomes /\ reply[s].order \in SUBSET PostsMade
    BY <2>2, <2>3 DEF Replies, Outcomes
  <2> QED BY <1>b, <2>1, <2>4, SenderEndKeeps
<1> QED BY <1>1, <1>2, <1>3

LEMMA DeclineKeeps ==
    ASSUME ReportInv, client.plan # "abort", NEW s \in Senders, Decline(s)
    PROVE  ReportInv'
<1>a. ReportTypes /\ (\A t \in Senders : SenderInStep(t)) /\ OrdersHeld
  BY DEF ReportInv
<1>b. /\ written[s].status = "confirmed" /\ PutDown(s, "payment_failed", written[s].order)
      /\ UNCHANGED <<client, made, cached, stage, sent, inside, reply>>
  BY DEF Decline
<1>c. /\ "payment_failed" \in Outcomes \ CutOff /\ written[s].order \in SUBSET PostsMade
      /\ written[s] # NoAnswer /\ ~IsCut(s)
  BY <1>a, <1>b, NoAnswerSays DEF Outcomes, CutOff, IsCut, ReportTypes
<1>1. /\ written' \in [Senders -> [status : Outcomes \cup {"none"}, order : SUBSET PostsMade]]
      /\ \A t \in Senders : written'[t] = IF t = s THEN [status |-> "payment_failed", order |-> written[s].order]
                                          ELSE written[t]
      /\ written'[s] # NoAnswer
  BY <1>a, <1>b, <1>c, PutDownWrites
<1>2. ReportTypes'
  BY <1>a, <1>b, <1>1 DEF ReportTypes
<1>3. ASSUME NEW t \in Senders
      PROVE  /\ written'[t] = NoAnswer <=> written[t] = NoAnswer
             /\ written'[t].order = written[t].order
             /\ IsCut(t)' <=> IsCut(t)
  <2>1. CASE t = s
    BY <1>1, <1>c, <2>1 DEF IsCut
  <2>2. CASE t # s
    BY <1>1, <2>2 DEF IsCut
  <2> QED BY <2>1, <2>2
<1>4. ASSUME NEW t \in Senders PROVE SenderInStep(t)'
  <2>1. SenderInStep(t)
    BY <1>a
  <2>2. /\ written'[t] = NoAnswer <=> written[t] = NoAnswer
        /\ IsCut(t)' <=> IsCut(t)
    BY <1>3
  <2>3. SenderUsed(t)' = SenderUsed(t) /\ NothingIn(t)' = NothingIn(t)
    BY <1>b DEF SenderUsed, NothingIn
  <2> QED BY <1>b, <2>1, <2>2, <2>3 DEF SenderInStep
<1>5. OrdersHeld'
  <2>1. \A t \in Senders : /\ OnlyConfirmed(reply'[t])
                           /\ Held(t)' \subseteq Held(t)
                           /\ IsCut(t) => IsCut(t)'
                           /\ IsCut(t)' \/ Held(t) \subseteq Held(t)'
    BY <1>a, <1>b, <1>3 DEF OrdersHeld, Held
  <2> QED BY <1>a, <1>b, <2>1, HeldKeeps
<1> QED BY <1>2, <1>4, <1>5 DEF ReportInv

\* What the server says to a post confirms the order it makes, repeats one of the
\* customer's, or names none.
LEMMA VerdictSays ==
    ASSUME ReportTypes, OrdersHeld, NEW p \in inside, NEW v \in Verdicts(p)
    PROVE  /\ v \in Replies /\ OnlyConfirmed(v)
           /\ \A q \in v.order : q = p \/ (q \in made /\ Buyer(q[1]) = Buyer(p[1]))
<1> DEFINE b == Buyer(p[1])
<1>a. p \in PostsMade /\ p[1] \in Senders /\ b \in Customers
  BY PostIs, BuyerIs DEF ReportTypes
<1>1. \A st \in Answers, o \in SUBSET {p} : Reply(st, o) \in Replies
  BY <1>a DEF Reply, Replies
<1>2. ASSUME v = cached[b]
      PROVE  /\ v \in Replies /\ OnlyConfirmed(v)
             /\ \A q \in v.order : q \in made /\ Buyer(q[1]) = b
  BY <1>2, <1>a DEF ReportTypes, OrdersHeld
<1>3. ASSUME NEW st \in {"conflict", "dropped", "failed", "expired", "sold_out"}, v = Reply(st, {})
      PROVE  v \in Replies /\ OnlyConfirmed(v) /\ v.order = {}
  BY <1>3, <1>1 DEF Answers, Reply, OnlyConfirmed
<1>4. ASSUME v = Reply("confirmed", {p})
      PROVE  v \in Replies /\ OnlyConfirmed(v) /\ v.order = {p}
  BY <1>4, <1>1 DEF Answers, Reply, OnlyConfirmed
<1>5. \/ v = cached[b]
      \/ \E st \in {"conflict", "dropped", "failed", "expired", "sold_out"} : v = Reply(st, {})
      \/ v = Reply("confirmed", {p})
  BY DEF Verdicts
<1> QED BY <1>2, <1>3, <1>4, <1>5

LEMMA HandleKeeps ==
    ASSUME ReportInv, client.plan # "abort", NEW p \in inside, Handle(p)
    PROVE  ReportInv'
<1> DEFINE s == p[1]
           b == Buyer(s)
<1>a. ReportTypes /\ (\A t \in Senders : SenderInStep(t)) /\ OrdersHeld
  BY DEF ReportInv
<1>b. p \in PostsMade /\ s \in Senders /\ p[2] \in 1..MaxPosts /\ p = <<s, p[2]>> /\ b \in Customers
  BY <1>a, PostIs, BuyerIs DEF ReportTypes
<1>c. PICK v \in Verdicts(p) :
          /\ made' = made \cup v.order
          /\ cached' = IF client.key /\ v.status \in {"confirmed", "sold_out"}
                       THEN [cached EXCEPT ![b] = v] ELSE cached
          /\ reply' = IF p[2] = sent[s] /\ written[s] = NoAnswer
                      THEN [reply EXCEPT ![s] = v] ELSE reply
  BY DEF Handle
<1>d. /\ inside' = inside \ {p}
      /\ UNCHANGED <<client, stage, sent, written>>
  BY DEF Handle
<1>e. /\ v \in Replies /\ OnlyConfirmed(v)
      /\ \A q \in v.order : q = p \/ (q \in made /\ Buyer(q[1]) = b)
  BY <1>a, VerdictSays
<1> HIDE DEF s, b
<1>1. /\ reply' \in [Senders -> Replies]
      /\ \A t \in Senders : t # s => reply'[t] = reply[t]
      /\ IF p[2] = sent[s] /\ written[s] = NoAnswer THEN reply'[s] = v ELSE reply'[s] = reply[s]
  BY <1>a, <1>b, <1>c, <1>e DEF ReportTypes
<1>2. /\ cached' \in [Customers -> Replies]
      /\ \A c \in Customers : cached'[c] = cached[c] \/ (c = b /\ cached'[c] = v)
  BY <1>a, <1>b, <1>c, <1>e DEF ReportTypes
<1>3. made' \subseteq PostsMade
  BY <1>a, <1>b, <1>c, <1>e DEF ReportTypes
<1>4. ReportTypes'
  BY <1>a, <1>d, <1>1, <1>2, <1>3 DEF ReportTypes
<1>5. /\ <<s, p[2]>> \in inside
      /\ ~IsCut(s) => p[2] = sent[s] /\ written[s] = NoAnswer /\ reply[s] = NoAnswer
  BY <1>a, <1>b DEF SenderInStep
<1>6. /\ sent[s] # 0 /\ SenderUsed(s)
      /\ stage[Buyer(s)] \notin {"start", "polling"}
      /\ stage[Buyer(s)] = "ended" => written[s] # NoAnswer
  <2>1. SenderInStep(s) /\ sent[s] \in 0..MaxPosts
    BY <1>a, <1>b DEF ReportTypes
  <2>2. p[2] <= sent[s] /\ p[2] >= 1
    BY <1>b, <1>5, <2>1 DEF SenderInStep
  <2>3. sent[s] # 0
    BY <1>b, <2>1, <2>2
  <2> QED BY <1>b, <1>5, <2>1, <2>3 DEF SenderInStep, NothingIn
<1>7. ASSUME NEW t \in Senders PROVE SenderInStep(t)'
  <2>a. SenderInStep(t)
    BY <1>a
  <2>b. /\ sent'[t] = sent[t] /\ written'[t] = written[t] /\ IsCut(t)' = IsCut(t)
        /\ SenderUsed(t)' = SenderUsed(t) /\ (NothingIn(t) => NothingIn(t)')
        /\ stage'[Buyer(t)] = stage[Buyer(t)]
    BY <1>d DEF SenderUsed, NothingIn, IsCut
  <2>1. CASE t = s
    <3>1. written'[t] # NoAnswer => reply'[t] = NoAnswer
      BY <1>1, <2>1, <2>a, <2>b DEF SenderInStep
    <3>2. \A k \in 1..MaxPosts : <<t, k>> \in inside' => k <= sent[t] /\ IsCut(t)
      <4> SUFFICES ASSUME NEW k \in 1..MaxPosts, <<t, k>> \in inside'
                   PROVE  k <= sent[t] /\ IsCut(t)
        OBVIOUS
      <4>1. <<t, k>> \in inside /\ k # p[2]
        BY <1>b, <1>d, <2>1
      <4>2. k <= sent[t] /\ (~IsCut(t) => k = sent[t])
        BY <4>1, <2>a DEF SenderInStep
      <4> QED BY <4>1, <4>2, <1>5, <2>1
    <3>3. stage[Buyer(t)] = "ended" => reply'[t] = NoAnswer /\ written[t] # NoAnswer
      BY <1>6, <2>1, <2>b, <3>1
    <3> QED BY <1>6, <2>1, <2>b, <3>1, <3>2, <3>3 DEF SenderInStep
  <2>2. CASE t # s
    <3>1. reply'[t] = reply[t]
      BY <1>1, <2>2
    <3>2. \A k \in 1..MaxPosts : <<t, k>> \in inside' => <<t, k>> \in inside
      BY <1>d
    <3> QED BY <3>1, <3>2, <2>a, <2>b DEF SenderInStep
  <2> QED BY <2>1, <2>2
<1>8. OrdersHeld'
  <2>1. \A t \in Senders : OnlyConfirmed(reply'[t])
    <3> SUFFICES ASSUME NEW t \in Senders PROVE OnlyConfirmed(reply'[t])
      OBVIOUS
    <3>1. reply'[t] = reply[t] \/ reply'[t] = v
      BY <1>1
    <3> QED BY <3>1, <1>a, <1>e DEF OrdersHeld
  <2>2. \A c \in Customers : OnlyConfirmed(cached'[c])
    <3> SUFFICES ASSUME NEW c \in Customers PROVE OnlyConfirmed(cached'[c])
      OBVIOUS
    <3>1. cached'[c] = cached[c] \/ cached'[c] = v
      BY <1>2
    <3> QED BY <3>1, <1>a, <1>e DEF OrdersHeld
  <2>3. ASSUME NEW q \in v.order PROVE q \in made' /\ Buyer(q[1]) = b
    <3>1. q = p \/ (q \in made /\ Buyer(q[1]) = b)
      BY <1>e
    <3> QED BY <3>1, <1>c DEF b, s
  <2>4. ASSUME NEW t \in Senders, NEW q \in Held(t)' \cup cached'[Buyer(t)].order
        PROVE  q \in made' /\ Buyer(q[1]) = Buyer(t)
    <3>1. Buyer(t) \in Customers
      BY BuyerIs
    <3>2. \/ q \in Held(t) \cup cached[Buyer(t)].order
          \/ t = s /\ q \in v.order
          \/ Buyer(t) = b /\ q \in v.order
      <4>1. q \in reply'[t].order \/ q \in written'[t].order \/ q \in cached'[Buyer(t)].order
        BY <2>4 DEF Held
      <4>2. CASE q \in reply'[t].order
        <5>1. reply'[t] = reply[t] \/ (t = s /\ reply'[t] = v)
          BY <1>1
        <5> QED BY <4>2, <5>1 DEF Held
      <4>3. CASE q \in written'[t].order
        BY <4>3, <1>d DEF Held
      <4>4. CASE q \in cached'[Buyer(t)].order
        BY <4>4, <1>2, <3>1
      <4> QED BY <4>1, <4>2, <4>3, <4>4
    <3>3. Buyer(s) = b
      BY DEF b
    <3> QED BY <3>2, <3>3, <2>3, <1>a, <1>c DEF OrdersHeld
  <2>5. ASSUME NEW t \in Senders, ~IsCut(t) PROVE Held(t) \subseteq Held(t)'
    <3>1. reply'[t] = reply[t] \/ (t = s /\ reply[t] = NoAnswer)
      BY <1>1, <1>5, <2>5
    <3> QED BY <3>1, <1>d, NoAnswerSays DEF Held
  <2>6. ASSUME NEW t \in Senders PROVE IsCut(t) <=> IsCut(t)'
    BY <1>d DEF IsCut
  <2>7. ASSUME NEW q \in made'
        PROVE  \/ HasCut(Buyer(q[1]))'
               \/ \E t \in Senders : Buyer(t) = Buyer(q[1]) /\ q \in Held(t)'
    <3>1. CASE HasCut(Buyer(q[1]))
      BY <3>1, <2>6 DEF HasCut
    <3>2. CASE ~HasCut(Buyer(q[1])) /\ q \in made
      <4>1. PICK t \in Senders : Buyer(t) = Buyer(q[1]) /\ q \in Held(t)
        BY <1>a, <3>2 DEF OrdersHeld
      <4>2. ~IsCut(t)
        BY <3>2, <4>1 DEF HasCut
      <4> QED BY <4>1, <4>2, <2>5
    <3>3. CASE ~HasCut(Buyer(q[1])) /\ q \in v.order
      <4>1. Buyer(q[1]) = b /\ b = Buyer(s)
        BY <3>3, <2>3 DEF b
      <4>2. ~IsCut(s)
        BY <3>3, <4>1, <1>b DEF HasCut
      <4>3. reply'[s] = v
        BY <4>2, <1>1, <1>5
      <4>4. q \in Held(s)'
        BY <3>3, <4>3 DEF Held
      <4> QED BY <4>1, <4>4, <1>b
    <3>4. q \in made \/ q \in v.order
      BY <1>c
    <3> QED BY <3>1, <3>2, <3>3, <3>4
  <2> QED BY <2>1, <2>2, <2>4, <2>7 DEF OrdersHeld
<1> QED BY <1>4, <1>7, <1>8 DEF ReportInv

LEMMA NextReportInv == ReportInv /\ [ClientNext]_clientVars => ReportInv'
<1> SUFFICES ASSUME ReportInv, [ClientNext]_clientVars, client'.plan # "abort"
             PROVE  ReportInv'
  BY DEF ReportInv
<1>1. CASE UNCHANGED clientVars
  BY <1>1, ReportKeeps DEF clientVars, serverVars
<1>2. CASE ClientNext
  <2>a. UNCHANGED client
    BY <1>2 DEF ClientNext, WaitingRoomStep, CustomerStep, Join, Poll, PollFails, GiveUp, NoShow,
                OthersBuy, RaiseNotice, Handle, SenderStep, PostCheckout, Breaks, Abort, Cancel,
                PostTwice, Rejoin, Retry, Receive, Decline
  <2>b. client.plan # "abort"
    BY <2>a
  <2>1. ASSUME NEW b \in Customers, WaitingRoomStep(b) PROVE ReportInv'
    BY <2>1, ReportKeeps DEF WaitingRoomStep
  <2>2. ASSUME NEW b \in Customers, CustomerStep(b) PROVE ReportInv'
    BY <2>2, <2>b, CustomerKeeps
  <2>3. CASE OthersBuy \/ RaiseNotice
    BY <2>3, ReportKeeps DEF OthersBuy, RaiseNotice
  <2>4. ASSUME NEW p \in inside, Handle(p) PROVE ReportInv'
    BY <2>4, <2>b, HandleKeeps
  <2>5. ASSUME NEW s \in Senders, SenderStep(s) PROVE ReportInv'
    <3>1. ~Abort(s) /\ ~PostTwice(s)
      BY <2>b DEF Abort, PostTwice, Aborts
    <3> QED BY <2>5, <2>b, <3>1, SendKeeps, EndKeeps, RetryKeeps, DeclineKeeps DEF SenderStep
  <2> QED BY <1>2, <2>1, <2>2, <2>3, <2>4, <2>5 DEF ClientNext
<1> QED BY <1>1, <1>2

LEMMA ReportFromInv == ReportInv => ReportsMatchOrders
<1> SUFFICES ASSUME ReportInv, client.plan # "abort", NEW b \in Customers, stage[b] = "ended",
                    \A o \in OutcomesOf(b) : o.status \notin CutOff
             PROVE  OrdersOf(b) = UNION {o.order : o \in OutcomesOf(b)}
  BY DEF ReportsMatchOrders
<1>a. (\A t \in Senders : SenderInStep(t)) /\ OrdersHeld
  BY DEF ReportInv
<1>1. ASSUME NEW s \in Senders, Buyer(s) = b
      PROVE  /\ Held(s) = written[s].order
             /\ SenderUsed(s) => written[s] \in OutcomesOf(b)
             /\ ~SenderUsed(s) => written[s] = NoAnswer
  <2>1. SenderInStep(s) /\ reply[s] = NoAnswer
    BY <1>1, <1>a DEF SenderInStep
  <2>2. Held(s) = written[s].order
    BY <2>1, NoAnswerSays DEF Held
  <2> QED BY <1>1, <2>1, <2>2 DEF SenderInStep, OutcomesOf
<1>2. ~HasCut(b)
  <2> SUFFICES ASSUME NEW s \in Senders, Buyer(s) = b, IsCut(s) PROVE FALSE
    BY DEF HasCut
  <2>1. SenderUsed(s)
    BY <1>1, NoAnswerSays DEF IsCut, CutOff
  <2> QED BY <1>1, <2>1 DEF IsCut
<1>3. ASSUME NEW p \in OrdersOf(b) PROVE p \in UNION {o.order : o \in OutcomesOf(b)}
  <2>1. p \in made /\ Buyer(p[1]) = b
    BY DEF OrdersOf
  <2>2. PICK s \in Senders : Buyer(s) = b /\ p \in Held(s)
    BY <1>2, <1>a, <2>1 DEF OrdersHeld
  <2>3. p \in written[s].order
    BY <1>1, <2>2
  <2>4. SenderUsed(s)
    BY <1>1, <2>2, <2>3, NoAnswerSays
  <2> QED BY <1>1, <2>2, <2>3, <2>4
<1>4. ASSUME NEW o \in OutcomesOf(b), NEW p \in o.order PROVE p \in OrdersOf(b)
  <2>1. PICK s \in Senders : Buyer(s) = b /\ o = written[s]
    BY <1>4 DEF OutcomesOf
  <2>2. p \in Held(s)
    BY <1>4, <2>1 DEF Held
  <2> QED BY <2>1, <2>2, <1>a DEF OrdersHeld, OrdersOf
<1> QED BY <1>3, <1>4

\* Every buying program's report names the orders there are, for any number of
\* customers, units, polls and tries, unless a connection of the customer was cut.
THEOREM ReportsAreTrue == ClientSpec => []ReportsMatchOrders
BY ReportInit, NextReportInv, ReportFromInv, PTL DEF ClientSpec

-----------------------------------------------------------------------------
(* The start-up and the demonstrations *)

\* What is in the schema, or has been taken out by a demonstration.
Accounted == schema \cup lost \cup Out
Places == {"down", "tables", "created", "column", "present", "look", "make", "commit", "up"}
StartRecord == [at : Places, seen : SUBSET Schema, step : 1..3, made : SUBSET Schema]

\* The pieces of Plan that a start has behind it.
Behind(s) ==
    IF s.at \in {"look", "make"} THEN {Plan[i] : i \in {j \in 1..3 : j < s.step}}
    ELSE IF s.at = "commit" THEN {Plan[i] : i \in 1..3} ELSE {}

\* A start has what it has passed, or knows who took it out; one that nobody has
\* disturbed has read the schema as it still is.
StartInStep(r) ==
    LET s == start[r] IN
    /\ s.at \in {"down", "tables", "created", "column", "present"} => s.step = 1
    /\ s.at = "column" => "tables" \in schema
    /\ s.at \in {"present", "look", "make", "commit"} => {"tables", "column"} \subseteq schema
    /\ s.at = "created" => s.made = Schema
    /\ s.at \in {"look", "make", "commit"} => s.seen \subseteq Accounted
    /\ Behind(s) \subseteq Accounted \cup s.made
    /\ s.at = "up" => Schema \subseteq Accounted
    /\ r \notin overlapped =>
          /\ outcome[r] \in {"none", "whole", "rows"}
          /\ s.at = "tables" => "tables" \notin schema
          /\ s.at \in {"look", "make", "commit"} => s.seen = schema \ Indexes
          /\ s.at = "make" => Plan[s.step] \notin schema
          /\ Behind(s) \subseteq schema \cup s.made

MigrationTypes ==
    /\ schema \subseteq Schema
    /\ start \in [Replicas -> StartRecord]
    /\ demo \in [Demos -> {"none", "backstop", "hash", "composite"}]
    /\ outcome = [r \in Replicas |-> outcome[r]]

MigrationsInv == MigrationTypes /\ \A r \in Replicas : StartInStep(r)

LEMMA PlanPieces ==
    /\ \A i \in 1..3 : Plan[i] \in Schema
    /\ {Plan[i] : i \in 1..3} = {"hash", "backstop", "composite"}
    /\ Len(Plan) = 3
<1>1. Plan[1] = "hash" /\ Plan[2] = "backstop" /\ Plan[3] = "composite" /\ Len(Plan) = 3
  BY DEF Plan
<1>2. 1..3 = {1, 2, 3}
  OBVIOUS
<1> HIDE DEF Plan
<1> QED BY <1>1, <1>2 DEF Schema

LEMMA DownTyped == Down \in StartRecord /\ Behind(Down) = {} /\ Down.at = "down" /\ Down.step = 1
BY DEF Down, StartRecord, Places, Behind

\* A replica keeps its place in step while others work, as long as what they take
\* out is accounted for.
LEMMA StartKeeps ==
    ASSUME NEW t \in Replicas, StartInStep(t),
           start'[t] = start[t], outcome'[t] = outcome[t],
           Accounted \subseteq Accounted', schema \cap {"tables", "column"} \subseteq schema',
           schema' = schema \/ t \in overlapped' \/ start[t].at \in {"down", "up"},
           t \in overlapped => t \in overlapped'
    PROVE  StartInStep(t)'
<1> DEFINE s == start[t]
<1>a. Behind(s)' = Behind(s) /\ s' = s
  BY DEF Behind
<1>1. /\ s.at \in {"down", "tables", "created", "column", "present"} => s.step = 1
      /\ s.at = "column" => "tables" \in schema'
      /\ s.at \in {"present", "look", "make", "commit"} => {"tables", "column"} \subseteq schema'
      /\ s.at = "created" => s.made = Schema
      /\ s.at \in {"look", "make", "commit"} => s.seen \subseteq Accounted'
      /\ Behind(s) \subseteq Accounted' \cup s.made
      /\ s.at = "up" => Schema \subseteq Accounted'
  BY DEF StartInStep
<1>2. ASSUME t \notin overlapped'
      PROVE  /\ outcome'[t] \in {"none", "whole", "rows"}
             /\ s.at = "tables" => "tables" \notin schema'
             /\ s.at \in {"look", "make", "commit"} => s.seen = schema' \ Indexes
             /\ s.at = "make" => Plan[s.step] \notin schema'
             /\ Behind(s) \subseteq schema' \cup s.made
  <2>1. t \notin overlapped
    BY <1>2
  <2>2. CASE schema' = schema
    BY <2>1, <2>2 DEF StartInStep
  <2>3. CASE s.at \in {"down", "up"}
    BY <2>1, <2>3 DEF StartInStep, Behind
  <2> QED BY <1>2, <2>2, <2>3
<1> HIDE DEF s
<1> QED BY <1>a, <1>1, <1>2 DEF StartInStep, s

\* A start that commits adds to the schema.
LEMMA CommitAdds ==
    ASSUME MigrationTypes, NEW who, NEW S, schema \subseteq S, S \subseteq Schema, Commits(who, S),
           UNCHANGED <<demo, demoRuns>>
    PROVE  /\ schema' = S /\ Accounted \subseteq Accounted' /\ S \subseteq Accounted'
           /\ \A t \in Replicas : t # who =>
                 schema' = schema \/ t \in overlapped' \/ start[t].at \in {"down", "up"}
           /\ overlapped \subseteq overlapped'
<1>1. schema' = S /\ lost' = lost \ S
      /\ overlapped' = overlapped \cup (IF S = schema THEN {} ELSE Starting \ {who})
  BY DEF Commits
<1>2. Out' = Out
  BY DEF Out
<1> QED BY <1>1, <1>2 DEF Accounted, Starting

\* The step of one replica, which leaves the demonstrations alone.
LEMMA OneStartMoves ==
    ASSUME MigrationsInv, NEW r \in Replicas,
           start' \in [Replicas -> StartRecord], \A t \in Replicas \ {r} : start'[t] = start[t],
           outcome' = [t \in Replicas |-> outcome'[t]],
           \A t \in Replicas \ {r} : outcome'[t] = outcome[t],
           schema \subseteq schema', schema' \subseteq Schema, Accounted \subseteq Accounted',
           \A t \in Replicas : t # r =>
               /\ schema' = schema \/ t \in overlapped' \/ start[t].at \in {"down", "up"}
               /\ t \in overlapped => t \in overlapped',
           UNCHANGED demo, StartInStep(r)'
    PROVE  MigrationsInv'
<1>1. MigrationTypes'
  BY DEF MigrationsInv, MigrationTypes
<1>2. ASSUME NEW t \in Replicas, t # r PROVE StartInStep(t)'
  <2>1. StartInStep(t) /\ start'[t] = start[t] /\ outcome'[t] = outcome[t]
    BY <1>2 DEF MigrationsInv
  <2>2. schema \cap {"tables", "column"} \subseteq schema'
    OBVIOUS
  <2> QED BY <1>2, <2>1, <2>2, StartKeeps
<1> QED BY <1>1, <1>2 DEF MigrationsInv

LEMMA AfterPiece ==
    ASSUME NEW s \in StartRecord, s.at \in {"look", "make"}
    PROVE  /\ After(s) \in StartRecord /\ After(s).at \in {"look", "commit"}
           /\ After(s).seen = s.seen /\ After(s).made = s.made
           /\ Behind(After(s)) = Behind(s) \cup {Plan[s.step]}
<1>a. s.step \in 1..3 /\ Behind(s) = {Plan[i] : i \in {j \in 1..3 : j < s.step}}
  BY DEF StartRecord, Behind
<1>1. CASE s.step = 3
  <2>1. After(s) = [s EXCEPT !.at = "commit"]
    BY <1>1, PlanPieces DEF After
  <2>2. /\ After(s) \in StartRecord /\ After(s).at = "commit"
        /\ After(s).seen = s.seen /\ After(s).made = s.made
    BY <2>1 DEF StartRecord, Places
  <2>3. Behind(After(s)) = {Plan[i] : i \in 1..3}
    BY <2>2 DEF Behind
  <2>4. {j \in 1..3 : j < s.step} \cup {s.step} = 1..3
    BY <1>1
  <2>5. Behind(After(s)) = Behind(s) \cup {Plan[s.step]}
    <3> HIDE DEF Plan
    <3> QED BY <1>a, <2>3, <2>4
  <2> QED BY <2>2, <2>5
<1>2. CASE s.step # 3
  <2>1. After(s) = [s EXCEPT !.at = "look", !.step = @ + 1]
    BY <1>2, PlanPieces DEF After
  <2>2. s.step + 1 \in 1..3
    BY <1>a, <1>2
  <2>3. /\ After(s) \in StartRecord /\ After(s).at = "look" /\ After(s).step = s.step + 1
        /\ After(s).seen = s.seen /\ After(s).made = s.made
    BY <2>1, <2>2 DEF StartRecord, Places
  <2>4. Behind(After(s)) = {Plan[i] : i \in {j \in 1..3 : j < s.step + 1}}
    BY <2>3 DEF Behind
  <2>5. {j \in 1..3 : j < s.step + 1} = {j \in 1..3 : j < s.step} \cup {s.step}
    BY <1>a
  <2>6. Behind(After(s)) = Behind(s) \cup {Plan[s.step]}
    BY <1>a, <2>4, <2>5
  <2> QED BY <2>3, <2>6
<1> QED BY <1>1, <1>2

\* What a replica at rest, or an exception of one that was disturbed, leaves.
LEMMA RestKeeps ==
    ASSUME MigrationsInv, NEW r \in Replicas, start' = [start EXCEPT ![r] = Down],
           outcome' = outcome \/ \E why : outcome' = [outcome EXCEPT ![r] = why],
           r \notin overlapped => outcome'[r] \in {"none", "whole", "rows"},
           UNCHANGED <<schema, overlapped, lost, demo>>
    PROVE  MigrationsInv'
<1>a. MigrationTypes /\ StartInStep(r)
  BY DEF MigrationsInv
<1>1. /\ start' \in [Replicas -> StartRecord] /\ start'[r] = Down
      /\ \A t \in Replicas \ {r} : start'[t] = start[t]
  BY <1>a, DownTyped DEF MigrationTypes
<1>2. outcome' = [t \in Replicas |-> outcome'[t]] /\ \A t \in Replicas \ {r} : outcome'[t] = outcome[t]
  BY <1>a DEF MigrationTypes
<1>3. Accounted' = Accounted
  BY DEF Accounted, Out
<1>4. StartInStep(r)'
  <2>1. start'[r] = Down /\ Behind(start[r])' = {}
    BY <1>1, DownTyped DEF Behind
  <2> QED BY <2>1, DownTyped DEF StartInStep
<1> QED BY <1>a, <1>1, <1>2, <1>3, <1>4, OneStartMoves DEF MigrationTypes

LEMMA LaunchKeeps ==
    ASSUME MigrationsInv, NEW r \in Replicas, Launch(r)
    PROVE  MigrationsInv'
<1>a. MigrationTypes /\ StartInStep(r)
  BY DEF MigrationsInv
<1>b. /\ start' = [start EXCEPT ![r].at = IF "tables" \in schema THEN "column" ELSE "tables"]
      /\ outcome' = [outcome EXCEPT ![r] = "none"] /\ overlapped' = overlapped \ {r}
      /\ UNCHANGED <<schema, demo, lost>>
  BY DEF Launch, Goes, demoVars
<1>1. start[r] \in StartRecord
  BY <1>a DEF MigrationTypes
<1>2. /\ start' \in [Replicas -> StartRecord]
      /\ start'[r].at = IF "tables" \in schema THEN "column" ELSE "tables"
      /\ start'[r].step = start[r].step /\ start[r].at = "down"
      /\ \A t \in Replicas \ {r} : start'[t] = start[t]
  BY <1>a, <1>b, <1>1 DEF MigrationTypes, StartRecord, Places, Launch
<1>3. /\ outcome' = [t \in Replicas |-> outcome'[t]] /\ outcome'[r] = "none"
      /\ \A t \in Replicas \ {r} : outcome'[t] = outcome[t]
  BY <1>a, <1>b DEF MigrationTypes
<1>4. Accounted' = Accounted
  BY <1>b DEF Accounted, Out
<1>5. StartInStep(r)'
  <2>1. Behind(start[r])' = {}
    BY <1>2 DEF Behind
  <2> QED BY <1>2, <1>3, <1>a, <1>b, <2>1 DEF StartInStep
<1> QED BY <1>a, <1>b, <1>2, <1>3, <1>4, <1>5, OneStartMoves DEF MigrationTypes

LEMMA CreateKeeps ==
    ASSUME MigrationsInv, NEW r \in Replicas, CreateTables(r)
    PROVE  MigrationsInv'
<1>a. MigrationTypes /\ StartInStep(r)
  BY DEF MigrationsInv
<1>b. start[r].at = "tables" /\ UNCHANGED <<schema, overlapped, demo, lost>>
  BY DEF CreateTables, demoVars
<1>1. CASE "tables" \in schema /\ Refuses(r, "exists")
  <2>1. r \in overlapped
    BY <1>a, <1>b, <1>1 DEF StartInStep
  <2> QED BY <1>b, <1>1, <2>1, RestKeeps DEF Refuses
<1>2. CASE start' = [start EXCEPT ![r].at = "created", ![r].made = Schema] /\ UNCHANGED outcome
  <2>1. start[r] \in StartRecord
    BY <1>a DEF MigrationTypes
  <2>2. /\ start' \in [Replicas -> StartRecord]
        /\ start'[r].at = "created" /\ start'[r].made = Schema
        /\ start'[r].step = start[r].step
        /\ \A t \in Replicas \ {r} : start'[t] = start[t]
    BY <1>a, <1>2, <2>1 DEF MigrationTypes, StartRecord, Places
  <2>3. Accounted' = Accounted
    BY <1>b DEF Accounted, Out
  <2>4. StartInStep(r)'
    <3>1. Behind(start[r])' = {}
      BY <2>2 DEF Behind
    <3> QED BY <1>a, <1>b, <1>2, <2>2, <3>1 DEF StartInStep
  <2> QED BY <1>a, <1>b, <1>2, <2>2, <2>3, <2>4, OneStartMoves DEF MigrationTypes
<1> QED BY <1>1, <1>2 DEF CreateTables

\* Committing the tables, or the column.
LEMMA GrowKeeps ==
    ASSUME MigrationsInv, NEW r \in Replicas, CommitTables(r) \/ AddColumn(r)
    PROVE  MigrationsInv'
<1>a. MigrationTypes /\ StartInStep(r) /\ start[r] \in StartRecord
  BY DEF MigrationsInv, MigrationTypes
<1>b. UNCHANGED <<outcome, demo, demoRuns>>
  BY DEF CommitTables, AddColumn
<1>1. CASE CommitTables(r)
  <2>1. /\ start[r].made = Schema /\ Commits(r, schema \cup start[r].made)
        /\ start' = [start EXCEPT ![r].at = "column", ![r].made = {}]
    BY <1>1, <1>a DEF CommitTables, StartInStep
  <2>2. schema \cup start[r].made = Schema
    BY <1>a, <2>1 DEF MigrationTypes
  <2>3. /\ schema' = Schema /\ Accounted \subseteq Accounted'
        /\ \A t \in Replicas : t # r =>
              schema' = schema \/ t \in overlapped' \/ start[t].at \in {"down", "up"}
        /\ overlapped \subseteq overlapped'
    BY <1>a, <1>b, <2>1, <2>2, CommitAdds DEF MigrationTypes
  <2>4. /\ start' \in [Replicas -> StartRecord] /\ start'[r].at = "column"
        /\ start'[r].step = start[r].step
        /\ \A t \in Replicas \ {r} : start'[t] = start[t]
    BY <1>a, <2>1 DEF MigrationTypes, StartRecord, Places
  <2>5. StartInStep(r)'
    <3>1. /\ Behind(start[r])' = {} /\ "tables" \in schema' /\ start[r].at = "created"
      BY <1>1, <2>3, <2>4 DEF Behind, Schema, CommitTables
    <3>2. start[r].step = 1 /\ (r \notin overlapped => outcome[r] \in {"none", "whole", "rows"})
      BY <1>a, <3>1 DEF StartInStep
    <3>3. start'[r].at = "column" /\ start'[r].step = 1 /\ outcome'[r] = outcome[r]
      BY <1>b, <2>4, <3>2
    <3> HIDE DEF Schema, Accounted, Behind
    <3> QED BY <2>3, <3>1, <3>2, <3>3 DEF StartInStep
  <2>6. schema \subseteq schema'
    BY <1>a, <2>3 DEF MigrationTypes
  <2> QED BY <1>a, <1>b, <2>3, <2>4, <2>5, <2>6, OneStartMoves DEF MigrationTypes
<1>2. CASE AddColumn(r)
  <2>1. /\ start[r].at = "column" /\ Commits(r, schema \cup {"column"})
        /\ start' = [start EXCEPT ![r].at = "present"]
    BY <1>2 DEF AddColumn, Goes
  <2>2. schema \cup {"column"} \subseteq Schema /\ schema \subseteq schema \cup {"column"}
    BY <1>a DEF MigrationTypes, Schema
  <2>3. /\ schema' = schema \cup {"column"} /\ Accounted \subseteq Accounted'
        /\ \A t \in Replicas : t # r =>
              schema' = schema \/ t \in overlapped' \/ start[t].at \in {"down", "up"}
        /\ overlapped \subseteq overlapped'
    BY <1>a, <1>b, <2>1, <2>2, CommitAdds
  <2>4. /\ start' \in [Replicas -> StartRecord] /\ start'[r].at = "present"
        /\ start'[r].step = start[r].step
        /\ \A t \in Replicas \ {r} : start'[t] = start[t]
    BY <1>a, <2>1 DEF MigrationTypes, StartRecord, Places
  <2>5. StartInStep(r)'
    <3>1. Behind(start[r])' = {} /\ {"tables", "column"} \subseteq schema'
      BY <1>a, <2>1, <2>3, <2>4 DEF Behind, StartInStep
    <3>2. start[r].step = 1 /\ (r \notin overlapped => outcome[r] \in {"none", "whole", "rows"})
      BY <1>a, <2>1 DEF StartInStep
    <3>3. start'[r].at = "present" /\ start'[r].step = 1 /\ outcome'[r] = outcome[r]
      BY <1>b, <2>4, <3>2
    <3> HIDE DEF Schema, Accounted, Behind
    <3> QED BY <2>3, <3>1, <3>2, <3>3 DEF StartInStep
  <2> QED BY <1>a, <1>b, <2>2, <2>3, <2>4, <2>5, OneStartMoves DEF MigrationTypes
<1> QED BY <1>1, <1>2

LEMMA ReadKeepsStart ==
    ASSUME MigrationsInv, NEW r \in Replicas, ReadPresent(r)
    PROVE  MigrationsInv'
<1>a. MigrationTypes /\ StartInStep(r) /\ start[r] \in StartRecord
  BY DEF MigrationsInv, MigrationTypes
<1>b. /\ start[r].at = "present" /\ UNCHANGED <<schema, outcome, overlapped, demo, lost>>
      /\ start' = [start EXCEPT ![r].at = "look", ![r].seen = schema \ Indexes]
  BY DEF ReadPresent, demoVars
<1>1. /\ start' \in [Replicas -> StartRecord] /\ start'[r].at = "look"
      /\ start'[r].seen = schema \ Indexes /\ start'[r].step = start[r].step
      /\ \A t \in Replicas \ {r} : start'[t] = start[t]
  BY <1>a, <1>b DEF MigrationTypes, StartRecord, Places
<1>2. Accounted' = Accounted
  BY <1>b DEF Accounted, Out
<1>3. Behind(start[r])' = {}
  <2>1. start'[r].step = 1
    BY <1>a, <1>b, <1>1 DEF StartInStep
  <2> QED BY <1>1, <2>1 DEF Behind
<1>4. StartInStep(r)'
  BY <1>a, <1>b, <1>1, <1>2, <1>3 DEF StartInStep, Accounted
<1> QED BY <1>a, <1>b, <1>1, <1>2, <1>4, OneStartMoves DEF MigrationTypes

LEMMA LookKeeps ==
    ASSUME MigrationsInv, NEW r \in Replicas, LookFor(r)
    PROVE  MigrationsInv'
<1> DEFINE s == start[r]
           x == Plan[s.step]
<1>a. MigrationTypes /\ StartInStep(r) /\ s \in StartRecord
  BY DEF MigrationsInv, MigrationTypes
<1>b. s.at = "look" /\ UNCHANGED <<schema, outcome, overlapped, demo, lost>>
  BY DEF LookFor, demoVars
<1>c. Accounted' = Accounted
  BY <1>b DEF Accounted, Out
<1>1. CASE Present(r, x) /\ start' = [start EXCEPT ![r] = After(@)]
  <2>1. /\ After(s) \in StartRecord /\ After(s).at \in {"look", "commit"}
        /\ After(s).seen = s.seen /\ After(s).made = s.made
        /\ Behind(After(s)) = Behind(s) \cup {x}
    <3> HIDE DEF s
    <3>1. s.at \in {"look", "make"}
      BY <1>b
    <3> QED BY <1>a, <3>1, AfterPiece
  <2>2. /\ start' \in [Replicas -> StartRecord] /\ start'[r] = After(s)
        /\ \A t \in Replicas \ {r} : start'[t] = start[t]
    <3> HIDE DEF After, StartRecord
    <3> QED BY <1>a, <1>1, <2>1 DEF MigrationTypes
  <2>3. x \in Accounted /\ (r \notin overlapped => x \in schema)
    BY <1>a, <1>b, <1>1 DEF Present, StartInStep, Accounted
  <2>4. Behind(start[r])' = Behind(s) \cup {x}
    BY <2>1, <2>2 DEF Behind
  <2> HIDE DEF x
  <2>5. StartInStep(r)'
    BY <1>a, <1>b, <1>c, <2>1, <2>2, <2>3, <2>4 DEF StartInStep
  <2> QED BY <1>a, <1>b, <1>c, <2>2, <2>5, OneStartMoves DEF MigrationTypes
<1>2. CASE ~Present(r, x) /\ start' = [start EXCEPT ![r].at = "make"]
  <2>1. /\ start' \in [Replicas -> StartRecord] /\ start'[r].at = "make"
        /\ start'[r].seen = s.seen /\ start'[r].made = s.made /\ start'[r].step = s.step
        /\ \A t \in Replicas \ {r} : start'[t] = start[t]
    BY <1>a, <1>2 DEF MigrationTypes, StartRecord, Places
  <2>2. Behind(start[r])' = Behind(s)
    BY <1>b, <2>1 DEF Behind
  <2>3. r \notin overlapped => x \notin schema
    BY <1>a, <1>b, <1>2 DEF Present, StartInStep
  <2>4. StartInStep(r)'
    BY <1>a, <1>b, <1>c, <2>1, <2>2, <2>3 DEF StartInStep
  <2> QED BY <1>a, <1>b, <1>c, <2>1, <2>4, OneStartMoves DEF MigrationTypes
<1> QED BY <1>1, <1>2 DEF LookFor, Goes

LEMMA MakeKeeps ==
    ASSUME MigrationsInv, NEW r \in Replicas, Make(r)
    PROVE  MigrationsInv'
<1> DEFINE s == start[r]
           x == Plan[s.step]
<1>a. MigrationTypes /\ StartInStep(r) /\ s \in StartRecord
  BY DEF MigrationsInv, MigrationTypes
<1>b. s.at = "make" /\ UNCHANGED <<schema, overlapped, demo, lost>>
  BY DEF Make, demoVars
<1>c. Accounted' = Accounted
  BY <1>b DEF Accounted, Out
<1>1. CASE x \in schema /\ Refuses(r, "exists")
  <2>1. r \in overlapped
    BY <1>a, <1>b, <1>1 DEF StartInStep
  <2> QED BY <1>b, <1>1, <2>1, RestKeeps DEF Refuses
<1>2. CASE Refuses(r, "rows")
  <2>1. /\ outcome' = [outcome EXCEPT ![r] = "rows"] /\ start' = [start EXCEPT ![r] = Down]
        /\ outcome'[r] = "rows"
    BY <1>2, <1>a DEF Refuses, MigrationTypes
  <2> QED BY <1>b, <2>1, RestKeeps
<1>3. CASE start' = [start EXCEPT ![r] = After([start[r] EXCEPT !.made = @ \cup {x}])] /\ UNCHANGED outcome
  <2> DEFINE m == [s EXCEPT !.made = s.made \cup {x}]
  <2>1. /\ m \in StartRecord /\ m.at = "make" /\ m.seen = s.seen /\ m.step = s.step
        /\ m.made = s.made \cup {x} /\ Behind(m) = Behind(s)
    <3>1. x \in Schema
      BY <1>a, PlanPieces DEF StartRecord
    <3> HIDE DEF x
    <3>2. /\ m \in StartRecord /\ m.at = "make" /\ m.seen = s.seen /\ m.step = s.step
          /\ m.made = s.made \cup {x}
      BY <1>a, <1>b, <3>1 DEF StartRecord
    <3> QED BY <1>b, <3>2 DEF Behind
  <2>2. start' = [start EXCEPT ![r] = After(m)]
    <3>1. After(m) = After([start[r] EXCEPT !.made = start[r].made \cup {x}])
      OBVIOUS
    <3> HIDE DEF After, x, m
    <3> QED BY <1>3, <3>1
  <2>3. x = Plan[m.step]
    BY <2>1
  <2> HIDE DEF m, s, x
  <2>4. /\ After(m) \in StartRecord /\ After(m).at \in {"look", "commit"}
        /\ After(m).seen = s.seen /\ After(m).made = s.made \cup {x}
        /\ Behind(After(m)) = Behind(s) \cup {x}
    <3>1. m.at \in {"look", "make"}
      BY <2>1
    <3> QED BY <2>1, <2>3, <3>1, AfterPiece
  <2>5. /\ start' \in [Replicas -> StartRecord] /\ start'[r] = After(m)
        /\ \A t \in Replicas \ {r} : start'[t] = start[t]
    <3> HIDE DEF After, StartRecord
    <3> QED BY <1>a, <2>2, <2>4 DEF MigrationTypes
  <2>6. Behind(start[r])' = Behind(s) \cup {x}
    BY <2>4, <2>5 DEF Behind
  <2>7. StartInStep(r)'
    BY <1>a, <1>b, <1>c, <1>3, <2>4, <2>5, <2>6 DEF StartInStep, s
  <2> QED BY <1>a, <1>b, <1>c, <1>3, <2>5, <2>7, OneStartMoves DEF MigrationTypes
<1> QED BY <1>1, <1>2, <1>3 DEF Make

LEMMA MigratedKeeps ==
    ASSUME MigrationsInv, NEW r \in Replicas, CommitMigration(r)
    PROVE  MigrationsInv'
<1>a. MigrationTypes /\ StartInStep(r) /\ start[r] \in StartRecord
  BY DEF MigrationsInv, MigrationTypes
<1>b. /\ start[r].at = "commit" /\ Commits(r, schema \cup start[r].made)
      /\ start' = [start EXCEPT ![r] = [Down EXCEPT !.at = "up"]]
      /\ outcome' = [outcome EXCEPT ![r] = IF schema' = Schema THEN "whole" ELSE "partial"]
      /\ UNCHANGED <<demo, demoRuns>>
  BY DEF CommitMigration
<1>1. /\ schema \subseteq schema \cup start[r].made
      /\ schema \cup start[r].made \subseteq Schema
  BY <1>a DEF MigrationTypes, StartRecord
<1>2. /\ schema' = schema \cup start[r].made /\ Accounted \subseteq Accounted'
      /\ schema' \subseteq Accounted'
      /\ \A t \in Replicas : t # r =>
            schema' = schema \/ t \in overlapped' \/ start[t].at \in {"down", "up"}
      /\ overlapped \subseteq overlapped'
  BY <1>a, <1>b, <1>1, CommitAdds
<1>3. /\ start' \in [Replicas -> StartRecord] /\ start'[r].at = "up" /\ start'[r].step = 1
      /\ \A t \in Replicas \ {r} : start'[t] = start[t]
  <2>1. [Down EXCEPT !.at = "up"] \in StartRecord /\ [Down EXCEPT !.at = "up"].at = "up"
        /\ [Down EXCEPT !.at = "up"].step = 1
    BY DEF Down, StartRecord, Places
  <2> HIDE DEF StartRecord
  <2> QED BY <1>a, <1>b, <2>1 DEF MigrationTypes
<1>4. /\ outcome' = [t \in Replicas |-> outcome'[t]]
      /\ outcome'[r] = IF schema' = Schema THEN "whole" ELSE "partial"
      /\ \A t \in Replicas \ {r} : outcome'[t] = outcome[t]
  BY <1>a, <1>b DEF MigrationTypes
<1>5. /\ Behind(start[r]) = {"hash", "backstop", "composite"} /\ {"tables", "column"} \subseteq schema
      /\ Schema = {"tables", "column"} \cup Behind(start[r])
  BY <1>a, <1>b, PlanPieces DEF StartInStep, Behind, Schema
<1>6. Schema \subseteq Accounted'
  <2>1. Behind(start[r]) \subseteq Accounted \cup start[r].made
    BY <1>a DEF StartInStep
  <2> QED BY <1>2, <1>5, <2>1 DEF Accounted
<1>7. r \notin overlapped' => outcome'[r] = "whole"
  <2> SUFFICES ASSUME r \notin overlapped PROVE schema' = Schema
    BY <1>2, <1>4
  <2>1. Behind(start[r]) \subseteq schema \cup start[r].made
    BY <1>a DEF StartInStep
  <2> QED BY <1>1, <1>2, <1>5, <2>1
<1>8. StartInStep(r)'
  <2>1. Behind(start[r])' = {}
    BY <1>3 DEF Behind
  <2> QED BY <1>3, <1>6, <1>7, <2>1 DEF StartInStep
<1> QED BY <1>1, <1>2, <1>3, <1>4, <1>8, <1>b, OneStartMoves

LEMMA StopKeeps ==
    ASSUME MigrationsInv, NEW r \in Replicas, StopReplica(r)
    PROVE  MigrationsInv'
<1>1. /\ start' = [start EXCEPT ![r] = Down] /\ outcome' = outcome
      /\ UNCHANGED <<schema, overlapped, lost, demo>>
  BY DEF StopReplica, demoVars
<1>2. r \notin overlapped => outcome'[r] \in {"none", "whole", "rows"}
  BY <1>1 DEF MigrationsInv, StartInStep
<1> QED BY <1>1, <1>2, RestKeeps

\* A demonstration or its restoration moves a piece, and disturbs who starts.
LEMMA DemoMoves ==
    ASSUME MigrationsInv, UNCHANGED <<start, outcome>>,
           demo' \in [Demos -> {"none", "backstop", "hash", "composite"}],
           schema' \subseteq Schema, schema \cap {"tables", "column"} \subseteq schema',
           Accounted \subseteq Accounted', overlapped \subseteq overlapped',
           \A t \in Replicas : schema' = schema \/ t \in overlapped' \/ start[t].at \in {"down", "up"}
    PROVE  MigrationsInv'
<1>1. MigrationTypes'
  BY DEF MigrationsInv, MigrationTypes
<1>2. ASSUME NEW t \in Replicas PROVE StartInStep(t)'
  <2>1. StartInStep(t)
    BY DEF MigrationsInv
  <2> QED BY <2>1, StartKeeps
<1> QED BY <1>1, <1>2 DEF MigrationsInv

\* Nobody who commits for a demonstration is a replica that starts.
LEMMA DemoCommits ==
    ASSUME NEW d, d \notin Replicas, NEW S, Commits(d, S)
    PROVE  /\ schema' = S /\ lost' = lost \ S /\ overlapped \subseteq overlapped'
           /\ \A t \in Replicas :
                 schema' = schema \/ t \in overlapped' \/ start[t].at \in {"down", "up"}
BY DEF Commits, Starting

LEMMA TakesKeeps ==
    ASSUME MigrationsInv, NEW d \in Demos, d \notin Replicas,
           NEW x \in {"backstop", "hash", "composite"}, Takes(d, x)
    PROVE  MigrationsInv'
<1>a. /\ demo[d] = "none" /\ demo' = [demo EXCEPT ![d] = x] /\ Commits(d, schema \ {x})
      /\ UNCHANGED <<start, outcome>>
  BY DEF Takes
<1>b. schema \subseteq Schema /\ demo \in [Demos -> {"none", "backstop", "hash", "composite"}]
  BY DEF MigrationsInv, MigrationTypes
<1>1. /\ schema' = schema \ {x} /\ lost' = lost \ (schema \ {x}) /\ overlapped \subseteq overlapped'
      /\ \A t \in Replicas :
            schema' = schema \/ t \in overlapped' \/ start[t].at \in {"down", "up"}
  BY <1>a, DemoCommits
<1>2. /\ demo' \in [Demos -> {"none", "backstop", "hash", "composite"}]
      /\ demo'[d] = x /\ \A e \in Demos \ {d} : demo'[e] = demo[e]
  BY <1>a, <1>b
<1>3. Out \cup {x} \subseteq Out'
  BY <1>a, <1>2 DEF Out
<1>4. Accounted \subseteq Accounted'
  BY <1>1, <1>3 DEF Accounted
<1>5. schema' \subseteq Schema /\ schema \cap {"tables", "column"} \subseteq schema'
  BY <1>1, <1>b
<1> QED BY <1>a, <1>1, <1>2, <1>4, <1>5, DemoMoves

LEMMA RestoreKeeps ==
    ASSUME MigrationsInv, NEW d \in Demos, d \notin Replicas,
           demo[d] # "none", demo' = [demo EXCEPT ![d] = "none"],
           Commits(d, schema \cup {demo[d]}), UNCHANGED <<start, outcome>>
    PROVE  MigrationsInv'
<1>b. schema \subseteq Schema /\ demo \in [Demos -> {"none", "backstop", "hash", "composite"}]
  BY DEF MigrationsInv, MigrationTypes
<1>1. /\ schema' = schema \cup {demo[d]} /\ lost' = lost \ (schema \cup {demo[d]})
      /\ overlapped \subseteq overlapped'
      /\ \A t \in Replicas :
            schema' = schema \/ t \in overlapped' \/ start[t].at \in {"down", "up"}
  BY DemoCommits
<1>2. /\ demo' \in [Demos -> {"none", "backstop", "hash", "composite"}]
      /\ \A e \in Demos \ {d} : demo'[e] = demo[e]
  BY <1>b
<1>3. Out \subseteq Out' \cup {demo[d]}
  BY <1>2 DEF Out
<1>4. Accounted \subseteq Accounted'
  BY <1>1, <1>3 DEF Accounted
<1>5. schema' \subseteq Schema /\ schema \cap {"tables", "column"} \subseteq schema'
  BY <1>1, <1>b DEF Schema
<1> QED BY <1>1, <1>2, <1>4, <1>5, DemoMoves

LEMMA FireKeeps ==
    ASSUME MigrationsInv, FireNaive
    PROVE  MigrationsInv'
<1>1. UNCHANGED <<schema, start, outcome, overlapped, demo, lost>>
  BY DEF FireNaive, demoVars
<1> QED BY <1>1 DEF MigrationsInv, MigrationTypes, StartInStep, Accounted, Out, Behind

LEMMA KillKeeps ==
    ASSUME MigrationsInv, NEW d \in Demos, KillDemo(d)
    PROVE  MigrationsInv'
<1>a. /\ demo' = [demo EXCEPT ![d] = "none"] /\ lost' = lost \cup ({demo[d]} \ schema)
      /\ UNCHANGED <<schema, start, outcome, overlapped>>
  BY DEF KillDemo
<1>b. schema \subseteq Schema /\ demo \in [Demos -> {"none", "backstop", "hash", "composite"}]
  BY DEF MigrationsInv, MigrationTypes
<1>1. /\ demo' \in [Demos -> {"none", "backstop", "hash", "composite"}]
      /\ \A e \in Demos \ {d} : demo'[e] = demo[e]
  BY <1>a, <1>b
<1>2. Out \subseteq Out' \cup {demo[d]}
  BY <1>1 DEF Out
<1>3. Accounted \subseteq Accounted'
  BY <1>a, <1>2 DEF Accounted
<1> QED BY <1>a, <1>b, <1>1, <1>3, DemoMoves

LEMMA MigrationsInvInit == MigrationsInit => MigrationsInv
<1> SUFFICES ASSUME MigrationsInit PROVE MigrationsInv
  OBVIOUS
<1>1. schema \subseteq Schema
  BY MigrationsAssumption DEF MigrationsInit
<1>2. /\ start \in [Replicas -> StartRecord] /\ \A r \in Replicas : start[r] = Down
      /\ outcome = [r \in Replicas |-> outcome[r]] /\ \A r \in Replicas : outcome[r] = "none"
      /\ demo \in [Demos -> {"none", "backstop", "hash", "composite"}]
  <2> HIDE DEF Down, StartRecord
  <2> QED BY DownTyped DEF MigrationsInit
<1>3. ASSUME NEW r \in Replicas PROVE StartInStep(r)
  <2>1. start[r] = Down /\ Behind(start[r]) = {} /\ outcome[r] = "none"
    BY <1>2, DownTyped
  <2> QED BY <2>1, DownTyped DEF StartInStep
<1> QED BY <1>1, <1>2, <1>3 DEF MigrationsInv, MigrationTypes

LEMMA MigrationsInvNext ==
    ASSUME MigrationsInv, [MigrationsNext]_migrationVars
    PROVE  MigrationsInv'
<1>a. /\ "oversell" \in Demos /\ "indexing" \in Demos
      /\ "oversell" \notin Replicas /\ "indexing" \notin Replicas
  BY MigrationsAssumption DEF Demos
<1>b. demo \in [Demos -> {"none", "backstop", "hash", "composite"}]
  BY DEF MigrationsInv, MigrationTypes
<1>1. CASE \E r \in Replicas :
              \/ Launch(r) \/ CreateTables(r) \/ CommitTables(r) \/ AddColumn(r)
              \/ ReadPresent(r) \/ LookFor(r) \/ Make(r) \/ CommitMigration(r) \/ StopReplica(r)
  BY <1>1, LaunchKeeps, CreateKeeps, GrowKeeps, ReadKeepsStart, LookKeeps, MakeKeeps,
     MigratedKeeps, StopKeeps
<1>2. CASE DropBackstop
  BY <1>2, <1>a, TakesKeeps DEF DropBackstop
<1>3. CASE FireNaive
  BY <1>3, FireKeeps
<1>4. CASE RestoreBackstop
  <2>1. /\ demo["oversell"] = "backstop" /\ demo' = [demo EXCEPT !["oversell"] = "none"]
        /\ Commits("oversell", schema \cup {"backstop"}) /\ UNCHANGED <<start, outcome>>
    BY <1>4 DEF RestoreBackstop
  <2> QED BY <1>a, <2>1, RestoreKeeps
<1>5. CASE \E x \in Indexes : DropIndex(x)
  <2> PICK x \in Indexes : DropIndex(x)
    BY <1>5
  <2>1. x \in {"backstop", "hash", "composite"} /\ Takes("indexing", x)
    BY DEF Indexes, DropIndex
  <2> QED BY <1>a, <2>1, TakesKeeps
<1>6. CASE RecreateIndex
  <2>1. /\ demo["indexing"] # "none" /\ demo' = [demo EXCEPT !["indexing"] = "none"]
        /\ Commits("indexing", schema \cup {demo["indexing"]}) /\ UNCHANGED <<start, outcome>>
    BY <1>6 DEF RecreateIndex
  <2> QED BY <1>a, <2>1, RestoreKeeps
<1>7. CASE \E d \in Demos : KillDemo(d)
  BY <1>7, KillKeeps
<1>8. CASE UNCHANGED migrationVars
  <2>1. UNCHANGED <<schema, start, outcome, overlapped, demo, lost>>
    BY <1>8 DEF migrationVars, demoVars
  <2> QED BY <2>1 DEF MigrationsInv, MigrationTypes, StartInStep, Accounted, Out, Behind
<1> QED BY <1>1, <1>2, <1>3, <1>4, <1>5, <1>6, <1>7, <1>8 DEF MigrationsNext

LEMMA MigrationsInvRepairs == MigrationsInv => StartsRepairSchema
<1> SUFFICES ASSUME MigrationsInv PROVE StartsRepairSchema
  OBVIOUS
<1>1. \A r \in Replicas : r \in overlapped \/ outcome[r] \in {"none", "whole", "rows"}
  BY DEF MigrationsInv, StartInStep
<1>2. (\E r \in Replicas : start[r].at = "up") => Schema \ schema \subseteq lost \cup Out
  BY DEF MigrationsInv, StartInStep, Accounted
<1> QED BY <1>1, <1>2 DEF StartsRepairSchema

\* However many replicas start at once, whatever schemas they find and however
\* often a demonstration runs or is killed between two statements of theirs, a
\* start that nobody disturbs leaves the schema whole unless oversold rows
\* forbid it, and while one serves only what a demonstration took is missing.
THEOREM StartsRepair == MigrationsSpec => []StartsRepairSchema
<1>1. MigrationsInit => MigrationsInv
  BY MigrationsInvInit
<1>2. MigrationsInv /\ [MigrationsNext]_migrationVars => MigrationsInv'
  BY MigrationsInvNext
<1>3. MigrationsInv => StartsRepairSchema
  BY MigrationsInvRepairs
<1> QED BY <1>1, <1>2, <1>3, PTL DEF MigrationsSpec

-----------------------------------------------------------------------------
(* The scripts of an operator beside the shop *)

Seeders == {"seed", "storefront", "large"}
ScriptRecords ==
    {Idle} \cup [name : Seeders, at : {"parents", "rows", "redis"}]
           \cup [name : {"recovery"}, at : {"lose", "restore", "retry", "log", "write", "undo"}]
FoundNumbers == [stock : 0..SaleStock, before : 0..SaleStock, final : 0..SaleStock]

\* The child rows of the orders that script s is going to delete.
ChildrenOf(s, d) ==
    [flags |-> d.flags \cap Ids(PurgedOrders(s, d)), items |-> d.items \cap Ids(PurgedOrders(s, d)),
     payments |-> PurgedPayments(s, d), logs |-> PurgedLogs(s, d)]

\* The tables hold rows of the shop, which obey their constraints, and so will
\* what is still to be logged.
TablesHold ==
    /\ db \in Tables /\ Accepted(db) /\ toLog \subseteq LogRows
    /\ Numbered(db, db.logs \cup toLog)

\* A seed script that nobody has disturbed has deleted exactly the children of the
\* orders it takes; the canonical sale stays, and the legacy user does not return.
SeedInStep ==
    /\ script.at = "parents" /\ script.name \notin raced => purged = ChildrenOf(script.name, db)
    /\ script = [name |-> "seed", at |-> "rows"] => "legacy" \notin db.users
    /\ script.name \in {"large", "recovery"} => "canonical" \in db.sales

\* The recovery knows the stock it found.
RecoveryInStep ==
    script.name = "recovery" /\ "recovery" \notin raced =>
        /\ script.at \in {"lose", "retry", "log"} => OnSale = found.stock
        /\ script.at = "restore" => OnSale = found.stock + 1
        /\ script.at \in {"write", "undo"} => found.before = found.stock

\* A scoring pass flags orders that are still there.
ScoringInStep ==
    scored # NotScoring /\ "scoring" \notin raced => scored.rows \subseteq Ids(db.orders)

RunTypes ==
    /\ script \in ScriptRecords
    /\ scored = NotScoring \/ (scored.at = "write" /\ scored.rows \subseteq Nat)
    /\ found \in FoundNumbers
    /\ result = [s \in Scripts |-> result[s]]

RunsInStep ==
    RunTypes /\ SeedInStep /\ RecoveryInStep /\ ScoringInStep /\ UndisturbedScriptsSucceed

MaintInv == TablesHold /\ RunsInStep

LEMMA TableTypes ==
    ASSUME NEW d \in Tables
    PROVE  /\ d.users \subseteq Users /\ d.sales \subseteq SaleIds /\ d.orders \subseteq OrderRows
           /\ d.items \subseteq Nat /\ d.flags \subseteq Nat
           /\ d.payments \subseteq [order : Nat, declined : BOOLEAN]
           /\ d.logs \subseteq LogRows /\ d.audits \subseteq SaleIds
           /\ d.placed \in Nat /\ d.reserved \in [SaleIds -> Int]
BY DEF Tables

\* A commit disturbs everybody at work but the one who commits.
LEMMA CommitDisturbs ==
    ASSUME NEW who, NEW d, CommitsAs(who, d)
    PROVE  /\ db' = d /\ raced \subseteq raced'
           /\ script = Idle \/ script.name = who \/ script.name \in raced'
           /\ scored = NotScoring \/ who = "scoring" \/ "scoring" \in raced'
BY DEF CommitsAs, Working

LEMMA SeedKeeps ==
    ASSUME RunTypes, SeedInStep, UNCHANGED <<script, purged>>,
           db' = db \/ script = Idle \/ script.name \in raced',
           script.name \in raced => script.name \in raced',
           "canonical" \in db.sales => "canonical" \in db'.sales,
           "legacy" \notin db.users => "legacy" \notin db'.users
    PROVE  SeedInStep'
<1>1. script = Idle => script.at # "parents"
  BY DEF Idle
<1>2. ASSUME script.at = "parents", script.name \notin raced'
      PROVE  purged' = ChildrenOf(script.name, db')
  <2>1. db' = db /\ script.name \notin raced
    BY <1>1, <1>2
  <2> QED BY <1>2, <2>1 DEF SeedInStep
<1>3. /\ script = [name |-> "seed", at |-> "rows"] => "legacy" \notin db'.users
      /\ script.name \in {"large", "recovery"} => "canonical" \in db'.sales
  BY DEF SeedInStep
<1>4. ChildrenOf(script.name, db') = ChildrenOf(script.name, db)'
  BY DEF ChildrenOf, PurgedOrders, PurgedPayments, PurgedLogs, Ids, ByUsers, OfSales,
     DroppedSales, LegacySales
<1> QED BY <1>2, <1>3, <1>4 DEF SeedInStep

LEMMA RecoveryKeeps ==
    ASSUME RecoveryInStep, UNCHANGED <<script, found>>,
           db' = db \/ script = Idle \/ script.name \in raced',
           script.name \in raced => script.name \in raced'
    PROVE  RecoveryInStep'
<1>1. script.name = "recovery" => script # Idle
  BY DEF Idle
<1>2. ASSUME script.name = "recovery", "recovery" \notin raced'
      PROVE  "recovery" \notin raced /\ db' = db
  BY <1>1, <1>2
<1> QED BY <1>2 DEF RecoveryInStep, OnSale

LEMMA ScoringKeeps ==
    ASSUME ScoringInStep, UNCHANGED scored,
           db' = db \/ scored = NotScoring \/ "scoring" \in raced',
           "scoring" \in raced => "scoring" \in raced'
    PROVE  ScoringInStep'
BY DEF ScoringInStep, Ids

LEMMA SuccessKeeps ==
    ASSUME UndisturbedScriptsSucceed, UNCHANGED <<result, found>>, raced \subseteq raced'
    PROVE  UndisturbedScriptsSucceed'
BY DEF UndisturbedScriptsSucceed

\* While a buyer or nobody commits, the scripts keep their places.
LEMMA OthersCommit ==
    ASSUME RunsInStep, UNCHANGED <<script, purged, scored, found, result>>,
           db' = db \/ script = Idle \/ script.name \in raced',
           db' = db \/ scored = NotScoring \/ "scoring" \in raced',
           raced \subseteq raced',
           "canonical" \in db.sales => "canonical" \in db'.sales,
           "legacy" \notin db.users => "legacy" \notin db'.users
    PROVE  RunsInStep'
<1>1. RunTypes'
  BY DEF RunsInStep, RunTypes
<1>2. SeedInStep'
  BY SeedKeeps DEF RunsInStep
<1>3. RecoveryInStep'
  BY RecoveryKeeps DEF RunsInStep
<1>4. ScoringInStep'
  BY ScoringKeeps DEF RunsInStep
<1>5. UndisturbedScriptsSucceed'
  BY SuccessKeeps DEF RunsInStep
<1> QED BY <1>1, <1>2, <1>3, <1>4, <1>5 DEF RunsInStep

\* A buyer commits a database with the same users and sales.
LEMMA BuyerCommits ==
    ASSUME RunsInStep, NEW d, d.users = db.users, d.sales = db.sales,
           CommitsAs("buyer", d), UNCHANGED <<script, purged, scored, found, result>>
    PROVE  RunsInStep'
<1>1. /\ db' = d /\ raced \subseteq raced'
      /\ script = Idle \/ script.name = "buyer" \/ script.name \in raced'
      /\ scored = NotScoring \/ "scoring" \in raced'
  BY CommitDisturbs
<1>2. script.name # "buyer"
  BY DEF RunsInStep, RunTypes, ScriptRecords, Idle, Seeders
<1> QED BY <1>1, <1>2, OthersCommit

\* Rows are renumbered by nobody.
LEMMA NumbersKeep ==
    ASSUME Numbered(db, db.logs \cup toLog), NEW d, NEW L, d.placed = db.placed,
           \A o \in d.orders : \E p \in db.orders : o.id = p.id /\ o.user = p.user /\ o.sale = p.sale,
           L \subseteq db.logs \cup toLog
    PROVE  Numbered(d, L)
<1>1. \A o \in d.orders : o.id <= d.placed
  BY DEF Numbered
<1>2. ASSUME NEW l \in L
      PROVE  /\ l.order <= d.placed
             /\ \A o \in d.orders : l.order = o.id => l.user = o.user /\ l.sale = o.sale
  BY DEF Numbered
<1> QED BY <1>1, <1>2 DEF Numbered

LEMMA BuysKeeps ==
    ASSUME MaintInv, NEW u \in Users, NEW s \in SaleIds, NEW viaRedis \in BOOLEAN, Buys(u, s, viaRedis)
    PROVE  MaintInv'
<1> DEFINE id == db.placed + 1
           o == [id |-> id, user |-> u, sale |-> s, status |-> "confirmed",
                  strategy |-> IF viaRedis THEN "redis" ELSE "sql"]
           l == [user |-> u, sale |-> s, order |-> id]
           d == [db EXCEPT !.placed = id, !.orders = @ \cup {o},
                           !.reserved[s] = IF viaRedis THEN @ ELSE @ + 1]
<1>a. /\ u \in db.users /\ s \in db.sales /\ CommitsAs("buyer", d) /\ toLog' = toLog \cup {l}
      /\ viaRedis \/ db.reserved[s] < SaleStock
      /\ UNCHANGED <<script, purged, scored, found, result>>
  BY DEF Buys, runVars
<1>b. db \in Tables /\ Accepted(db) /\ toLog \subseteq LogRows /\ Numbered(db, db.logs \cup toLog)
  BY DEF MaintInv, TablesHold
<1>c. db.placed \in Nat /\ db.orders \subseteq OrderRows /\ db.reserved \in [SaleIds -> Int]
  BY <1>b, TableTypes
<1>d. o \in OrderRows /\ l \in LogRows /\ id \in Nat /\ db.placed < id
      /\ o.id = id /\ o.user = u /\ o.sale = s /\ l.order = id /\ l.user = u /\ l.sale = s
  BY <1>c DEF OrderRows, LogRows, Statuses, Strategies, NoOrder
<1> HIDE DEF o, l, id
<1>1. /\ d \in Tables
      /\ d.users = db.users /\ d.sales = db.sales /\ d.items = db.items /\ d.flags = db.flags
      /\ d.payments = db.payments /\ d.logs = db.logs /\ d.audits = db.audits
      /\ d.orders = db.orders \cup {o} /\ d.placed = id /\ WithinStock(d)
  <2> DEFINE r == [db.reserved EXCEPT ![s] = IF viaRedis THEN @ ELSE @ + 1]
  <2>0. \A i \in SaleIds : db.reserved[i] \in 0..SaleStock
    BY <1>b DEF Accepted, WithinStock
  <2>1. r \in [SaleIds -> Int] /\ \A i \in SaleIds : r[i] \in 0..SaleStock
    BY <1>a, <1>c, <2>0, MaintenanceAssumption
  <2>2. d = [db EXCEPT !.placed = id, !.orders = @ \cup {o}, !.reserved = r]
    BY <1>b DEF Tables
  <2> HIDE DEF r, d
  <2>3. d.reserved = r
    BY <1>b, <2>2 DEF Tables
  <2> QED BY <1>b, <1>c, <1>d, <2>1, <2>2, <2>3 DEF Tables, WithinStock
<1> HIDE DEF d
<1>2. db' = d
  BY <1>a, CommitDisturbs
<1>3. Accepted(d)
  <2>1. Ids(db.orders) \subseteq Ids(d.orders)
    BY <1>1 DEF Ids
  <2>2. ForeignKeys(d)
    BY <1>a, <1>b, <1>d, <1>1, <2>1 DEF Accepted, ForeignKeys
  <2> QED BY <1>b, <1>1, <2>2 DEF Accepted, UniqueEmails, WithinStock
<1>4. Numbered(d, d.logs \cup toLog')
  <2>1. ASSUME NEW p \in d.orders PROVE p.id <= d.placed /\ p.id \in Nat
    BY <1>b, <1>c, <1>d, <1>1 DEF Numbered, OrderRows
  <2>2. \A k \in db.logs \cup toLog : k.order <= db.placed /\ k.order \in Nat
    BY <1>b, TableTypes DEF Numbered, LogRows
  <2>3. ASSUME NEW k \in d.logs \cup toLog'
        PROVE  k.order <= d.placed
    BY <1>a, <1>c, <1>d, <1>1, <2>2
  <2>4. ASSUME NEW k \in d.logs \cup toLog', NEW p \in d.orders, k.order = p.id
        PROVE  k.user = p.user /\ k.sale = p.sale
    <3>1. CASE k = l
      <4>1. p = o
        <5>1. \A q \in db.orders : q.id <= db.placed /\ q.id \in Nat
          BY <1>b, <1>c DEF Numbered, OrderRows
        <5> QED BY <1>c, <1>d, <1>1, <2>4, <3>1, <5>1
      <4> QED BY <1>d, <3>1, <4>1
    <3>2. CASE k \in db.logs \cup toLog
      <4>1. p \in db.orders
        BY <1>c, <1>d, <1>1, <2>2, <2>4, <3>2
      <4> QED BY <1>b, <2>4, <3>2, <4>1 DEF Numbered
    <3> QED BY <1>a, <1>1, <3>1, <3>2
  <2> QED BY <2>1, <2>3, <2>4 DEF Numbered
<1>5. TablesHold'
  <2>1. toLog' \subseteq LogRows
    BY <1>a, <1>b, <1>d
  <2>2. Accepted(db') /\ db' \in Tables /\ Numbered(db', db'.logs \cup toLog')
    BY <1>1, <1>2, <1>3, <1>4
  <2>3. Accepted(db)' /\ Numbered(db, db.logs \cup toLog)'
    BY <2>2 DEF Accepted, ForeignKeys, UniqueEmails, WithinStock, Ids, Numbered
  <2> QED BY <2>1, <2>2, <2>3 DEF TablesHold
<1> QED BY <1>a, <1>1, <1>5, BuyerCommits DEF MaintInv

\* The tables after a commit that is accepted.
LEMMA TablesAfter ==
    ASSUME NEW d, db' = d, d \in Tables, Accepted(d), toLog' \subseteq LogRows,
           Numbered(d, d.logs \cup toLog')
    PROVE  TablesHold'
<1>1. Accepted(db)'
  BY DEF Accepted, ForeignKeys, UniqueEmails, WithinStock, Ids
<1>2. Numbered(db, db.logs \cup toLog)'
  BY DEF Numbered
<1> QED BY <1>1, <1>2 DEF TablesHold

LEMMA TurnedAwayKeeps ==
    ASSUME MaintInv, NEW u \in db.users, NEW s \in db.sales, IsTurnedAway(u, s)
    PROVE  MaintInv'
<1> DEFINE l == [user |-> u, sale |-> s, order |-> NoOrder]
<1>a. toLog' = toLog \cup {l} /\ UNCHANGED <<db, script, purged, scored, found, result, raced>>
  BY DEF IsTurnedAway, runVars
<1>b. db \in Tables /\ Accepted(db) /\ toLog \subseteq LogRows /\ Numbered(db, db.logs \cup toLog)
  BY DEF MaintInv, TablesHold
<1>c. db.placed \in Nat /\ db.orders \subseteq OrderRows /\ u \in Users /\ s \in SaleIds
  BY <1>b, TableTypes
<1>1. l \in LogRows /\ l.order = 0
  BY <1>c DEF LogRows, NoOrder
<1> HIDE DEF l
<1>2. \A o \in db.orders : l.order # o.id
  BY <1>c, <1>1 DEF OrderRows, NoOrder
<1>3. Numbered(db, db.logs \cup toLog')
  BY <1>a, <1>b, <1>c, <1>1, <1>2 DEF Numbered
<1>4. TablesHold'
  BY <1>a, <1>b, <1>1, <1>3, TablesAfter
<1> QED BY <1>a, <1>4, OthersCommit DEF MaintInv

LEMMA LogsKeeps ==
    ASSUME MaintInv, NEW l \in toLog, LogsAttempt(l)
    PROVE  MaintInv'
<1> DEFINE d == [db EXCEPT !.logs = @ \cup {l}]
<1>a. toLog' = toLog \ {l} /\ UNCHANGED <<script, purged, scored, found, result>>
  BY DEF LogsAttempt, runVars
<1>b. db \in Tables /\ Accepted(db) /\ toLog \subseteq LogRows /\ Numbered(db, db.logs \cup toLog)
  BY DEF MaintInv, TablesHold
<1>1. /\ d \in Tables /\ d.users = db.users /\ d.sales = db.sales /\ d.orders = db.orders
      /\ d.placed = db.placed /\ d.logs = db.logs \cup {l}
  BY <1>b DEF Tables
<1>2. (Accepted(d) /\ CommitsAs("buyer", d)) \/ UNCHANGED <<db, raced>>
  BY DEF LogsAttempt
<1> HIDE DEF d
<1>3. Numbered(d, d.logs \cup toLog')
  BY <1>a, <1>b, <1>1, NumbersKeep
<1>4. CASE Accepted(d) /\ CommitsAs("buyer", d)
  <2>1. db' = d
    BY <1>4, CommitDisturbs
  <2>2. TablesHold'
    BY <1>a, <1>b, <1>1, <1>3, <1>4, <2>1, TablesAfter
  <2> QED BY <1>a, <1>1, <1>4, <2>2, BuyerCommits DEF MaintInv
<1>5. CASE UNCHANGED <<db, raced>>
  <2>1. Numbered(db, db.logs \cup toLog')
    BY <1>a, <1>b, NumbersKeep
  <2>2. TablesHold'
    BY <1>a, <1>b, <1>5, <2>1, TablesAfter
  <2> QED BY <1>a, <1>5, <2>2, OthersCommit DEF MaintInv
<1> QED BY <1>2, <1>4, <1>5

LEMMA PaysKeeps ==
    ASSUME MaintInv, NEW o \in db.orders, Pays(o)
    PROVE  MaintInv'
<1> DEFINE p == [order |-> o.id, declined |-> FALSE]
           d == [db EXCEPT !.payments = @ \cup {p}]
<1>a. CommitsAs("buyer", d) /\ UNCHANGED <<toLog, script, purged, scored, found, result>>
  BY DEF Pays, runVars
<1>b. db \in Tables /\ Accepted(db) /\ toLog \subseteq LogRows /\ Numbered(db, db.logs \cup toLog)
  BY DEF MaintInv, TablesHold
<1>c. o.id \in Nat /\ p \in [order : Nat, declined : BOOLEAN] /\ p.order = o.id
  BY <1>b, TableTypes DEF OrderRows
<1> HIDE DEF p
<1>1. /\ d \in Tables /\ d.users = db.users /\ d.sales = db.sales /\ d.orders = db.orders
      /\ d.items = db.items /\ d.flags = db.flags /\ d.audits = db.audits
      /\ d.placed = db.placed /\ d.logs = db.logs /\ d.payments = db.payments \cup {p}
      /\ d.reserved = db.reserved
  BY <1>b, <1>c DEF Tables
<1> HIDE DEF d
<1>2. Accepted(d)
  BY <1>b, <1>c, <1>1 DEF Accepted, ForeignKeys, UniqueEmails, WithinStock, Ids
<1>3. Numbered(d, d.logs \cup toLog')
  BY <1>a, <1>b, <1>1, NumbersKeep
<1>4. db' = d
  BY <1>a, CommitDisturbs
<1>5. TablesHold'
  BY <1>a, <1>b, <1>1, <1>2, <1>3, <1>4, TablesAfter
<1> QED BY <1>a, <1>1, <1>5, BuyerCommits DEF MaintInv

\* A unit goes back, or none: the stock stays within its bounds, and the audit row
\* is of the order's sale.
LEMMA ReleasedFields ==
    ASSUME NEW e \in Tables, NEW o \in OrderRows, WithinStock(e)
    PROVE  LET d == Released(e, o)
           IN /\ d \in Tables /\ WithinStock(d) /\ d.users = e.users /\ d.sales = e.sales
              /\ d.orders = e.orders /\ d.items = e.items /\ d.flags = e.flags
              /\ d.audits \subseteq e.audits \cup {o.sale} /\ d.placed = e.placed
              /\ d.logs = e.logs /\ d.payments = e.payments
<1>a. /\ o.sale \in SaleIds /\ e.reserved \in [SaleIds -> Int] /\ SaleStock \in Nat
      /\ \A i \in SaleIds : e.reserved[i] \in 0..SaleStock
      /\ e.audits \cup {o.sale} \subseteq SaleIds
  BY TableTypes, MaintenanceAssumption DEF OrderRows, WithinStock
<1>1. CASE o.strategy = "sql" /\ e.reserved[o.sale] > 0
  <2> DEFINE r == [e.reserved EXCEPT ![o.sale] = @ - 1]
             a == e.audits \cup {o.sale}
  <2>1. r \in [SaleIds -> Int] /\ \A i \in SaleIds : r[i] \in 0..SaleStock
    BY <1>a, <1>1
  <2>2. Released(e, o) = [e EXCEPT !.reserved = r, !.audits = a]
    BY <1>1 DEF Released, Tables
  <2> HIDE DEF r
  <2> QED BY <1>a, <2>1, <2>2 DEF Tables, WithinStock
<1>2. CASE o.strategy = "redis"
  <2>1. Released(e, o) = [e EXCEPT !.audits = e.audits \cup {o.sale}]
    BY <1>2 DEF Released, Tables
  <2> QED BY <1>a, <2>1 DEF Tables, WithinStock
<1>3. CASE ~(o.strategy = "sql" /\ e.reserved[o.sale] > 0) /\ o.strategy # "redis"
  <2>1. Released(e, o) = e
    BY <1>3 DEF Released
  <2> QED BY <2>1
<1> QED BY <1>1, <1>2, <1>3

LEMMA DeclinedKeeps ==
    ASSUME MaintInv, NEW o \in db.orders, IsDeclined(o)
    PROVE  MaintInv'
<1> DEFINE p == [order |-> o.id, declined |-> FALSE]
           q == [p EXCEPT !.declined = TRUE]
           e == [db EXCEPT !.payments = (@ \ {p}) \cup {q}]
           d == Released(e, o)
<1>a. CommitsAs("buyer", d) /\ UNCHANGED <<toLog, script, purged, scored, found, result>>
  BY DEF IsDeclined, runVars
<1>b. db \in Tables /\ Accepted(db) /\ toLog \subseteq LogRows /\ Numbered(db, db.logs \cup toLog)
  BY DEF MaintInv, TablesHold
<1>c. /\ o \in OrderRows /\ o.id \in Nat
      /\ q \in [order : Nat, declined : BOOLEAN] /\ q.order = o.id
  BY <1>b, TableTypes DEF OrderRows
<1>d. o.sale \in db.sales
  BY <1>b DEF Accepted, ForeignKeys
<1> HIDE DEF q, p
<1>1. /\ e \in Tables /\ e.users = db.users /\ e.sales = db.sales /\ e.orders = db.orders
      /\ e.items = db.items /\ e.flags = db.flags /\ e.audits = db.audits
      /\ e.placed = db.placed /\ e.logs = db.logs /\ e.payments \subseteq db.payments \cup {q}
      /\ e.reserved = db.reserved
  BY <1>b, <1>c DEF Tables
<1> HIDE DEF e
<1>2. WithinStock(e)
  BY <1>b, <1>1 DEF Accepted, WithinStock
<1>3. /\ d \in Tables /\ WithinStock(d) /\ d.users = db.users /\ d.sales = db.sales
      /\ d.orders = db.orders /\ d.items = db.items /\ d.flags = db.flags
      /\ d.audits \subseteq db.audits \cup {o.sale} /\ d.placed = db.placed
      /\ d.logs = db.logs /\ d.payments \subseteq db.payments \cup {q}
  BY <1>1, <1>2, <1>c, ReleasedFields
<1> HIDE DEF d
<1>4. Accepted(d)
  BY <1>b, <1>c, <1>d, <1>3 DEF Accepted, ForeignKeys, UniqueEmails, Ids
<1>5. Numbered(d, d.logs \cup toLog')
  BY <1>a, <1>b, <1>3, NumbersKeep
<1>6. db' = d
  BY <1>a, CommitDisturbs
<1>7. TablesHold'
  BY <1>a, <1>b, <1>3, <1>4, <1>5, <1>6, TablesAfter
<1> QED BY <1>a, <1>3, <1>7, BuyerCommits DEF MaintInv

LEMMA ScriptNames ==
    ASSUME RunTypes
    PROVE  /\ script \in ScriptRecords
           /\ \A s, at : script = [name |-> s, at |-> at] /\ at \in {"parents", "rows", "redis"}
                            => s \in Seeders
           /\ \A s, at : at \in {"parents", "rows", "redis"} /\ s \in Seeders
                            => [name |-> s, at |-> at] \in ScriptRecords
           /\ Idle \in ScriptRecords /\ Idle.name = "none" /\ Idle.at = "idle"
           /\ \A t \in ScriptRecords : t.name \in Seeders \cup {"none", "recovery"}
<1>1. Idle \in ScriptRecords /\ Idle.name = "none" /\ Idle.at = "idle"
  BY DEF Idle, ScriptRecords
<1>2. ASSUME NEW s, NEW at, script = [name |-> s, at |-> at], at \in {"parents", "rows", "redis"}
      PROVE  s \in Seeders
  <2>1. script.at = at /\ script.name = s
    BY <1>2
  <2>2. script \in ScriptRecords
    BY DEF RunTypes
  <2> QED BY <1>2, <2>1, <2>2 DEF ScriptRecords, Idle
<1>3. \A s, at : at \in {"parents", "rows", "redis"} /\ s \in Seeders
                            => [name |-> s, at |-> at] \in ScriptRecords
  BY DEF ScriptRecords
<1>4. \A t \in ScriptRecords : t.name \in Seeders \cup {"none", "recovery"}
  BY DEF ScriptRecords, Idle
<1> QED BY <1>1, <1>2, <1>3, <1>4 DEF RunTypes

\* One script moves; it does not end refused unless somebody disturbed it or it is a
\* recovery on a full sale, and a recovery that is done has restored the stock.
LEMMA SuccessOf ==
    ASSUME UndisturbedScriptsSucceed, NEW s \in Scripts,
           \A t \in Scripts \ {s} : result'[t] = result[t] /\ (t \in raced => t \in raced'),
           s # "recovery" => found' = found,
           s \notin raced' =>
              /\ result'[s] = "refused" => s = "recovery" /\ found'.stock = SaleStock
              /\ s = "recovery" /\ result'[s] = "done" => found'.final = found'.stock
    PROVE  UndisturbedScriptsSucceed'
<1> SUFFICES ASSUME NEW t \in Scripts, t \notin raced'
             PROVE  /\ result'[t] = "refused" => t = "recovery" /\ found'.stock = SaleStock
                    /\ t = "recovery" /\ result'[t] = "done" => found'.final = found'.stock
  BY DEF UndisturbedScriptsSucceed
<1>1. CASE t = s
  BY <1>1
<1>2. CASE t # s
  <2>1. t \notin raced /\ result'[t] = result[t]
    BY <1>2
  <2>2. t = "recovery" => s # "recovery"
    BY <1>2
  <2> QED BY <2>1, <2>2 DEF UndisturbedScriptsSucceed
<1> QED BY <1>1, <1>2

\* A seed script moves; it has the canonical sale and the users it needs.
LEMMA SeederMoves ==
    ASSUME RunsInStep, NEW s \in Seeders, script.name \in {s, "none"},
           script' \in ScriptRecords, script'.name \in {s, "none"}, UNCHANGED <<found, scored>>,
           result' = result \/ \E how : result' = [result EXCEPT ![s] = how],
           result'[s] = "refused" => s \in raced',
           \A t \in Scripts \ {s} : t \in raced => t \in raced',
           db' = db \/ scored = NotScoring \/ "scoring" \in raced',
           SeedInStep'
    PROVE  RunsInStep'
<1>a. s \in Scripts /\ s # "recovery" /\ s # "scoring" /\ "scoring" \in Scripts
  BY DEF Seeders, Scripts
<1>b. RunTypes /\ RecoveryInStep /\ ScoringInStep /\ UndisturbedScriptsSucceed
  BY DEF RunsInStep
<1>1. /\ result' = [t \in Scripts |-> result'[t]]
      /\ \A t \in Scripts \ {s} : result'[t] = result[t]
  BY <1>b DEF RunTypes
<1>2. RunTypes'
  BY <1>b, <1>1 DEF RunTypes
<1>3. RecoveryInStep'
  BY <1>a DEF RecoveryInStep
<1>4. ScoringInStep'
  BY <1>a, <1>b, ScoringKeeps
<1>5. UndisturbedScriptsSucceed'
  BY <1>a, <1>b, <1>1, SuccessOf
<1> QED BY <1>2, <1>3, <1>4, <1>5 DEF RunsInStep

LEMMA StartSeedingKeeps ==
    ASSUME MaintInv, NEW s \in Scripts, StartSeeding(s)
    PROVE  MaintInv'
<1>a. /\ s \in Seeders /\ script = Idle /\ raced' = raced \ {s}
      /\ UNCHANGED <<db, scored, found, toLog>>
  BY DEF StartSeeding, Seeders, shopVars
<1>b. RunsInStep /\ RunTypes /\ TablesHold /\ SeedInStep
  BY DEF MaintInv, RunsInStep
<1>1. TablesHold'
  BY <1>a, <1>b DEF TablesHold, Accepted, ForeignKeys, UniqueEmails, WithinStock, Ids, Numbered
<1>2. CASE Ends(s, "missing")
  <2>1. script' = Idle /\ result' = [result EXCEPT ![s] = "missing"]
    BY <1>2 DEF Ends
  <2>2. result'[s] = "missing" /\ script.name = "none" /\ Idle \in ScriptRecords
        /\ Idle.name = "none" /\ Idle.at = "idle"
    BY <1>a, <1>b, <2>1, ScriptNames DEF RunTypes
  <2>3. SeedInStep'
    BY <2>1, <2>2 DEF SeedInStep, Idle
  <2>4. RunsInStep'
    BY <1>a, <1>b, <2>1, <2>2, <2>3, SeederMoves
  <2> QED BY <1>1, <2>4 DEF MaintInv
<1>3. CASE /\ ~(s = "large" /\ "canonical" \notin db.sales)
           /\ Starts(s, "parents") /\ PurgesChildren(s)
  <2>1. script' = [name |-> s, at |-> "parents"] /\ result' = [result EXCEPT ![s] = "none"]
        /\ purged' = ChildrenOf(s, db)
    BY <1>3 DEF Starts, PurgesChildren, ChildrenOf
  <2>2. result'[s] = "none" /\ script' \in ScriptRecords /\ script'.name = s /\ script.name = "none"
        /\ script'.at = "parents"
    BY <1>a, <1>b, <2>1, ScriptNames DEF RunTypes
  <2>3. ChildrenOf(script.name, db)' = ChildrenOf(s, db)
    BY <1>a, <2>2 DEF ChildrenOf, PurgedOrders, PurgedPayments, PurgedLogs, Ids, ByUsers, OfSales,
       DroppedSales, LegacySales
  <2>4. SeedInStep'
    <3>1. script'.name \in {"large", "recovery"} => "canonical" \in db'.sales
      BY <1>a, <1>3, <2>2 DEF Seeders
    <3> QED BY <2>1, <2>2, <2>3, <3>1 DEF SeedInStep
  <2>5. RunsInStep'
    BY <1>a, <1>b, <2>1, <2>2, <2>4, SeederMoves
  <2> QED BY <1>1, <2>5 DEF MaintInv
<1> QED BY <1>2, <1>3 DEF StartSeeding

\* The database without the parents, whatever has become of their children.
LEMMA ParentsFields ==
    ASSUME db \in Tables, NEW s, NEW d, d = WithoutParents(s, db)
    PROVE  /\ d \in Tables /\ d.placed = db.placed
           /\ d.users = db.users \ DroppedUsers(s) /\ d.sales = db.sales \ DroppedSales(s, db)
           /\ d.audits = db.audits \ DroppedSales(s, db)
           /\ d.orders = db.orders \ PurgedOrders(s, db)
           /\ d.flags = db.flags \ purged.flags /\ d.items = db.items \ purged.items
           /\ d.payments = db.payments \ purged.payments /\ d.logs = db.logs \ purged.logs
           /\ d.reserved = db.reserved
<1> DEFINE kept == [db EXCEPT !.flags = @ \ purged.flags, !.items = @ \ purged.items,
                              !.payments = @ \ purged.payments, !.logs = @ \ purged.logs]
<1>1. /\ kept \in Tables /\ kept.placed = db.placed /\ kept.users = db.users
      /\ kept.sales = db.sales /\ kept.audits = db.audits /\ kept.orders = db.orders
      /\ kept.flags = db.flags \ purged.flags /\ kept.items = db.items \ purged.items
      /\ kept.payments = db.payments \ purged.payments /\ kept.logs = db.logs \ purged.logs
      /\ kept.reserved = db.reserved
  BY DEF Tables
<1>2. d = [kept EXCEPT !.orders = @ \ PurgedOrders(s, kept), !.audits = @ \ DroppedSales(s, kept),
                       !.sales = @ \ DroppedSales(s, kept), !.users = @ \ DroppedUsers(s)]
  BY DEF WithoutParents
<1> HIDE DEF kept
<1>3. PurgedOrders(s, kept) = PurgedOrders(s, db) /\ DroppedSales(s, kept) = DroppedSales(s, db)
  BY <1>1 DEF PurgedOrders, DroppedSales, LegacySales, ByUsers, OfSales
<1> DEFINE P == PurgedOrders(s, db)
           S == DroppedSales(s, db)
           U == DroppedUsers(s)
<1>4. d = [kept EXCEPT !.orders = @ \ P, !.audits = @ \ S, !.sales = @ \ S, !.users = @ \ U]
  BY <1>2, <1>3
<1> HIDE DEF P, S, U
<1>5. /\ d \in Tables /\ d.placed = kept.placed /\ d.users = kept.users \ U
      /\ d.sales = kept.sales \ S /\ d.audits = kept.audits \ S /\ d.orders = kept.orders \ P
      /\ d.flags = kept.flags /\ d.items = kept.items /\ d.payments = kept.payments
      /\ d.logs = kept.logs /\ d.reserved = kept.reserved
  <2>1. /\ d.placed = kept.placed /\ d.users = kept.users \ U
        /\ d.sales = kept.sales \ S /\ d.audits = kept.audits \ S /\ d.orders = kept.orders \ P
        /\ d.flags = kept.flags /\ d.items = kept.items /\ d.payments = kept.payments
        /\ d.logs = kept.logs /\ d.reserved = kept.reserved
    BY <1>1, <1>4 DEF Tables
  <2>2. d = [users |-> d.users, sales |-> d.sales, orders |-> d.orders, items |-> d.items,
             flags |-> d.flags, payments |-> d.payments, logs |-> d.logs, audits |-> d.audits,
             placed |-> d.placed, reserved |-> d.reserved]
    BY <1>1, <1>4 DEF Tables
  <2>3. /\ kept.users \subseteq Users /\ kept.sales \subseteq SaleIds /\ kept.orders \subseteq OrderRows
        /\ kept.items \subseteq Nat /\ kept.flags \subseteq Nat
        /\ kept.payments \subseteq [order : Nat, declined : BOOLEAN]
        /\ kept.logs \subseteq LogRows /\ kept.audits \subseteq SaleIds
        /\ kept.placed \in Nat /\ kept.reserved \in [SaleIds -> Int]
    BY <1>1, TableTypes
  <2>4. /\ d.users \in SUBSET Users /\ d.sales \in SUBSET SaleIds /\ d.orders \in SUBSET OrderRows
        /\ d.items \in SUBSET Nat /\ d.flags \in SUBSET Nat
        /\ d.payments \in SUBSET [order : Nat, declined : BOOLEAN]
        /\ d.logs \in SUBSET LogRows /\ d.audits \in SUBSET SaleIds
        /\ d.placed \in Nat /\ d.reserved \in [SaleIds -> Int]
    BY <2>1, <2>3
  <2>5. d \in Tables
    BY <2>2, <2>4 DEF Tables
  <2> QED BY <2>1, <2>5
<1> QED BY <1>1, <1>5 DEF P, S, U

\* When the children deleted are those of the parents, no foreign key refuses.
LEMMA ParentsGo ==
    ASSUME db \in Tables, Accepted(db), Numbered(db, db.logs \cup toLog), NEW s \in Seeders,
           purged = ChildrenOf(s, db)
    PROVE  Accepted(WithoutParents(s, db))
<1> DEFINE d == WithoutParents(s, db)
           P == PurgedOrders(s, db)
           S == DroppedSales(s, db)
<1>a. /\ d.users = db.users \ DroppedUsers(s) /\ d.sales = db.sales \ S
      /\ d.audits = db.audits \ S /\ d.orders = db.orders \ P
      /\ d.flags = db.flags \ purged.flags /\ d.items = db.items \ purged.items
      /\ d.payments = db.payments \ purged.payments /\ d.logs = db.logs \ purged.logs
      /\ d.reserved = db.reserved
  BY ParentsFields
<1>b. /\ purged.flags = db.flags \cap Ids(P) /\ purged.items = db.items \cap Ids(P)
      /\ purged.payments = {p \in db.payments : p.order \in Ids(P)}
      /\ purged.logs = {l \in db.logs : l.user \in Owners(s) \/ l.sale \in S}
  BY DEF ChildrenOf, PurgedPayments, PurgedLogs
<1>c. P = {o \in db.orders : o.user \in Owners(s) \/ o.sale \in S}
  BY DEF PurgedOrders, ByUsers, OfSales
<1>d. DroppedUsers(s) \subseteq Owners(s)
  BY DEF DroppedUsers, Owners, Seeders
<1> HIDE DEF d, P, S
<1>1. ASSUME NEW i \in Ids(db.orders), i \notin Ids(P) PROVE i \in Ids(d.orders)
  BY <1>1, <1>a DEF Ids
<1>2. \A o \in d.orders : o.user \in d.users /\ o.sale \in d.sales
  BY <1>a, <1>c, <1>d DEF Accepted, ForeignKeys
<1>3. d.items \cup d.flags \cup {p.order : p \in d.payments} \subseteq Ids(d.orders)
  <2>1. \A i \in d.items \cup d.flags : i \in Ids(db.orders) /\ i \notin Ids(P)
    BY <1>a, <1>b DEF Accepted, ForeignKeys
  <2>2. \A p \in d.payments : p.order \in Ids(db.orders) /\ p.order \notin Ids(P)
    BY <1>a, <1>b DEF Accepted, ForeignKeys
  <2> QED BY <1>1, <2>1, <2>2
<1>4. ASSUME NEW l \in d.logs
      PROVE  /\ l.user \in d.users /\ l.sale \in d.sales
             /\ l.order \in Ids(d.orders) \cup {NoOrder}
  <2>1. l \in db.logs /\ l.user \notin Owners(s) /\ l.sale \notin S
    BY <1>a, <1>b
  <2>2. l.user \in d.users /\ l.sale \in d.sales
    BY <1>a, <1>d, <2>1 DEF Accepted, ForeignKeys
  <2>3. ASSUME l.order # NoOrder PROVE l.order \in Ids(d.orders)
    <3>1. PICK o \in db.orders : l.order = o.id
      BY <2>1, <2>3 DEF Accepted, ForeignKeys, Ids
    <3>2. o.user = l.user /\ o.sale = l.sale
      BY <2>1, <3>1 DEF Numbered
    <3>3. o \in d.orders
      BY <1>a, <1>c, <2>1, <3>2
    <3> QED BY <3>1, <3>3 DEF Ids
  <2> QED BY <2>2, <2>3
<1>5. d.audits \subseteq d.sales
  BY <1>a DEF Accepted, ForeignKeys
<1>6. UniqueEmails(d)
  BY <1>a DEF Accepted, UniqueEmails
<1>7. Accepted(d)
  BY <1>a, <1>2, <1>3, <1>4, <1>5, <1>6 DEF Accepted, ForeignKeys, WithinStock
<1> QED BY <1>7 DEF d

\* A seed script commits d, or is refused it because somebody disturbed it.
LEMMA SeederCommits ==
    ASSUME MaintInv, NEW s \in Seeders, script.name = s, NEW d, NEW next,
           next = Idle \/ (next \in ScriptRecords /\ next.name = s),
           d \in Tables, Numbered(d, d.logs \cup toLog), s \notin raced => Accepted(d),
           "canonical" \in db.sales => "canonical" \in d.sales,
           \/ /\ Accepted(d) /\ CommitsAs(s, d) /\ script' = next
              /\ result' = result \/ \E how : how # "refused" /\ result' = [result EXCEPT ![s] = how]
           \/ ~Accepted(d) /\ UNCHANGED <<db, raced>> /\ Ends(s, "refused"),
           UNCHANGED <<scored, found, toLog>>,
           next.at # "parents", next = [name |-> "seed", at |-> "rows"] => "legacy" \notin d.users,
           s = "large" => "canonical" \in db.sales
    PROVE  MaintInv'
<1>b. RunsInStep /\ RunTypes /\ TablesHold /\ toLog \subseteq LogRows
  BY DEF MaintInv, RunsInStep, TablesHold
<1>c. s # "recovery" /\ s \in Scripts /\ s # "scoring"
  BY DEF Seeders, Scripts
<1>d. /\ Idle \in ScriptRecords /\ Idle.name = "none" /\ Idle.at = "idle"
      /\ Idle # [name |-> "seed", at |-> "rows"]
  BY <1>b, ScriptNames DEF Idle
<1>1. CASE Accepted(d) /\ CommitsAs(s, d) /\ script' = next
           /\ (result' = result \/ \E how : how # "refused" /\ result' = [result EXCEPT ![s] = how])
  <2>1. db' = d /\ raced \subseteq raced' /\ (scored = NotScoring \/ "scoring" \in raced')
    BY <1>1, <1>c, CommitDisturbs
  <2>2. TablesHold'
    BY <1>1, <1>b, <2>1, TablesAfter
  <2>3. next.name \in {s, "none"} /\ script' \in ScriptRecords /\ script'.name \in {s, "none"}
    BY <1>1, <1>d
  <2>4. SeedInStep'
    <3>1. script'.at # "parents"
      BY <1>1
    <3>2. script' = [name |-> "seed", at |-> "rows"] => "legacy" \notin db'.users
      BY <1>1, <2>1
    <3>3. script'.name \in {"large", "recovery"} => "canonical" \in db'.sales
      BY <1>c, <2>1, <2>3
    <3> QED BY <3>1, <3>2, <3>3 DEF SeedInStep
  <2>5. result'[s] = "refused" => result[s] = "refused"
    BY <1>1, <1>b, <1>c DEF RunTypes
  <2>6. result'[s] = "refused" => s \in raced'
    BY <1>b, <1>c, <2>1, <2>5 DEF RunsInStep, UndisturbedScriptsSucceed
  <2>7. result' = result \/ \E how : result' = [result EXCEPT ![s] = how]
    BY <1>1
  <2>8. RunsInStep'
    BY <1>b, <2>1, <2>3, <2>4, <2>6, <2>7, SeederMoves
  <2> QED BY <2>2, <2>8 DEF MaintInv
<1>2. CASE ~Accepted(d) /\ UNCHANGED <<db, raced>> /\ Ends(s, "refused")
  <2>1. script' = Idle /\ result' = [result EXCEPT ![s] = "refused"] /\ s \in raced
    BY <1>2 DEF Ends
  <2>2. TablesHold'
    BY <1>2, <1>b DEF TablesHold, Accepted, ForeignKeys, UniqueEmails, WithinStock, Ids, Numbered
  <2>3. SeedInStep'
    BY <1>d, <2>1 DEF SeedInStep
  <2>4. RunsInStep'
    BY <1>2, <1>b, <1>d, <2>1, <2>3, SeederMoves
  <2> QED BY <2>2, <2>4 DEF MaintInv
<1> QED BY <1>1, <1>2

LEMMA DropParentsKeeps ==
    ASSUME MaintInv, NEW s \in Scripts, DropParents(s)
    PROVE  MaintInv'
<1> DEFINE d == WithoutParents(s, db)
           next == [name |-> s, at |-> "rows"]
<1>a. /\ script = [name |-> s, at |-> "parents"] /\ TransactionOf(s, d, GoesOn(s, "rows"))
      /\ UNCHANGED <<scored, found, toLog>>
  BY DEF DropParents, shopVars
<1>b. /\ RunTypes /\ SeedInStep /\ db \in Tables /\ Accepted(db)
      /\ Numbered(db, db.logs \cup toLog)
  BY DEF MaintInv, RunsInStep, TablesHold
<1>c. s \in Seeders /\ script.name = s /\ script.at = "parents"
  BY <1>a, <1>b, ScriptNames
<1>d. /\ d \in Tables /\ d.placed = db.placed /\ d.users = db.users \ DroppedUsers(s)
      /\ d.sales = db.sales \ DroppedSales(s, db) /\ d.orders \subseteq db.orders
      /\ d.logs \subseteq db.logs
  BY <1>b, ParentsFields
<1>1. s \notin raced => Accepted(d)
  BY <1>b, <1>c, ParentsGo DEF SeedInStep
<1>2. /\ next \in ScriptRecords /\ next.name = s /\ next.at = "rows"
  BY <1>b, <1>c, ScriptNames
<1>3. "canonical" \notin DroppedSales(s, db)
  BY DEF DroppedSales, LegacySales, StorefrontSales
<1>4. next = [name |-> "seed", at |-> "rows"] => "legacy" \notin d.users
  BY <1>2, <1>d DEF DroppedUsers
<1>5. s = "large" => "canonical" \in db.sales
  BY <1>b, <1>c DEF SeedInStep
<1>6. \/ Accepted(d) /\ CommitsAs(s, d) /\ script' = next /\ result' = result
      \/ ~Accepted(d) /\ UNCHANGED <<db, raced>> /\ Ends(s, "refused")
  BY <1>a DEF TransactionOf, GoesOn
<1> HIDE DEF d, next
<1>7. Numbered(d, d.logs \cup toLog)
  BY <1>b, <1>d, NumbersKeep
<1> QED BY <1>a, <1>c, <1>d, <1>1, <1>2, <1>3, <1>4, <1>5, <1>6, <1>7, SeederCommits

LEMMA UpsertedFields ==
    ASSUME db \in Tables, NEW s \in {"seed", "storefront"}
    PROVE  /\ Upserted(s, db) \in Tables /\ Upserted(s, db).placed = db.placed
           /\ Upserted(s, db).users = db.users \cup (IF s = "seed" THEN {"demo"} ELSE {})
           /\ db.sales \subseteq Upserted(s, db).sales
           /\ Upserted(s, db).audits = db.audits /\ Upserted(s, db).orders = db.orders
           /\ Upserted(s, db).flags = db.flags /\ Upserted(s, db).items = db.items
           /\ Upserted(s, db).payments = db.payments /\ Upserted(s, db).logs = db.logs
           /\ WithinStock(db) => WithinStock(Upserted(s, db))
<1>0. SaleStock \in Nat
  BY MaintenanceAssumption
<1>1. CASE s = "seed"
  <2> DEFINE r == [db.reserved EXCEPT !["canonical"] = 0]
             S == db.sales \cup {"canonical"}
             U == db.users \cup {"demo"}
             d == [db EXCEPT !.users = U, !.sales = S, !.reserved = r]
  <2>1. /\ r \in [SaleIds -> Int] /\ S \subseteq SaleIds /\ U \subseteq Users
        /\ \A i \in SaleIds : r[i] = 0 \/ r[i] = db.reserved[i]
    BY TableTypes DEF SaleIds, Users
  <2>2. Upserted(s, db) = d
    BY <1>1 DEF Upserted, Tables
  <2> HIDE DEF r, S, U
  <2>3. /\ d \in Tables /\ d.placed = db.placed /\ d.users = U /\ d.sales = S
        /\ d.audits = db.audits /\ d.orders = db.orders /\ d.flags = db.flags
        /\ d.items = db.items /\ d.payments = db.payments /\ d.logs = db.logs
        /\ d.reserved = r
    BY <2>1 DEF Tables
  <2>4. WithinStock(db) => WithinStock(d)
    BY <1>0, <2>1, <2>3 DEF WithinStock
  <2> QED BY <1>1, <2>2, <2>3, <2>4 DEF S, U
<1>2. CASE s = "storefront"
  <2> DEFINE r == [i \in SaleIds |-> IF i \in StorefrontSales THEN 0 ELSE db.reserved[i]]
             S == db.sales \cup StorefrontSales
             d == [db EXCEPT !.sales = S, !.reserved = r]
  <2>1. /\ r \in [SaleIds -> Int] /\ S \subseteq SaleIds
        /\ \A i \in SaleIds : r[i] = 0 \/ r[i] = db.reserved[i]
    BY TableTypes DEF SaleIds, StorefrontSales
  <2>2. Upserted(s, db) = d
    BY <1>2 DEF Upserted, Tables
  <2> HIDE DEF r, S
  <2>3. /\ d \in Tables /\ d.placed = db.placed /\ d.users = db.users /\ d.sales = S
        /\ d.audits = db.audits /\ d.orders = db.orders /\ d.flags = db.flags
        /\ d.items = db.items /\ d.payments = db.payments /\ d.logs = db.logs
        /\ d.reserved = r
    BY <2>1 DEF Tables
  <2>4. WithinStock(db) => WithinStock(d)
    BY <1>0, <2>1, <2>3 DEF WithinStock
  <2> QED BY <1>2, <2>2, <2>3, <2>4 DEF S
<1> QED BY <1>1, <1>2

LEMMA InsertRowsKeeps ==
    ASSUME MaintInv, NEW s \in Scripts, InsertRows(s)
    PROVE  MaintInv'
<1> DEFINE d == Upserted(s, db)
           next == [name |-> s, at |-> "redis"]
<1>a. /\ s \in {"seed", "storefront"} /\ script = [name |-> s, at |-> "rows"]
      /\ TransactionOf(s, d, GoesOn(s, "redis")) /\ UNCHANGED <<scored, found, toLog>>
  BY DEF InsertRows, shopVars
<1>b. /\ RunTypes /\ SeedInStep /\ db \in Tables /\ Accepted(db)
      /\ Numbered(db, db.logs \cup toLog)
  BY DEF MaintInv, RunsInStep, TablesHold
<1>c. s \in Seeders /\ script.name = s
  BY <1>a, <1>b, ScriptNames
<1>d. /\ d \in Tables /\ d.placed = db.placed
      /\ d.users = db.users \cup (IF s = "seed" THEN {"demo"} ELSE {})
      /\ db.sales \subseteq d.sales /\ d.audits = db.audits /\ d.orders = db.orders
      /\ d.flags = db.flags /\ d.items = db.items /\ d.payments = db.payments /\ d.logs = db.logs
      /\ WithinStock(db) => WithinStock(d)
  BY <1>a, <1>b, UpsertedFields
<1>1. /\ next \in ScriptRecords /\ next.name = s /\ next.at = "redis"
      /\ next # [name |-> "seed", at |-> "rows"]
  BY <1>b, <1>c, ScriptNames
<1>2. s = "seed" => "legacy" \notin db.users
  BY <1>a, <1>b DEF SeedInStep
<1>3. \/ Accepted(d) /\ CommitsAs(s, d) /\ script' = next /\ result' = result
      \/ ~Accepted(d) /\ UNCHANGED <<db, raced>> /\ Ends(s, "refused")
  BY <1>a DEF TransactionOf, GoesOn
<1> HIDE DEF d, next
<1>4. Accepted(d)
  BY <1>b, <1>d, <1>2 DEF Accepted, ForeignKeys, UniqueEmails
<1>5. Numbered(d, d.logs \cup toLog)
  BY <1>b, <1>d, NumbersKeep
<1>6. s # "large"
  BY <1>a
<1>7. "canonical" \in db.sales => "canonical" \in d.sales
  BY <1>d
<1> QED BY <1>a, <1>c, <1>d, <1>1, <1>3, <1>4, <1>5, <1>6, <1>7, SeederCommits

LEMMA ClearKeysKeeps ==
    ASSUME MaintInv, NEW s \in Scripts, ClearStockKeys(s)
    PROVE  MaintInv'
<1>a. /\ script = [name |-> s, at |-> "redis"] /\ Ends(s, "done")
      /\ UNCHANGED <<db, scored, found, raced, toLog>>
  BY DEF ClearStockKeys, shopVars
<1>b. RunsInStep /\ RunTypes /\ TablesHold
  BY DEF MaintInv, RunsInStep
<1>c. s \in Seeders /\ script.name = s
  BY <1>a, <1>b, ScriptNames
<1>1. /\ script' = Idle /\ result' = [result EXCEPT ![s] = "done"] /\ result'[s] = "done"
  BY <1>a, <1>b DEF Ends, RunTypes
<1>2. Idle \in ScriptRecords /\ Idle.name = "none" /\ Idle.at = "idle"
      /\ Idle # [name |-> "seed", at |-> "rows"]
  BY <1>b, ScriptNames DEF Idle
<1>3. SeedInStep'
  BY <1>1, <1>2 DEF SeedInStep
<1>4. RunsInStep'
  BY <1>a, <1>b, <1>c, <1>1, <1>2, <1>3, SeederMoves
<1>5. TablesHold'
  BY <1>a, <1>b DEF TablesHold, Accepted, ForeignKeys, UniqueEmails, WithinStock, Ids, Numbered
<1> QED BY <1>4, <1>5 DEF MaintInv

LEMMA LoadBulkKeeps ==
    ASSUME MaintInv, LoadBulk
    PROVE  MaintInv'
<1>a. script = [name |-> "large", at |-> "rows"] /\ UNCHANGED <<scored, found, toLog>>
  BY DEF LoadBulk, shopVars
<1>b. /\ RunTypes /\ SeedInStep /\ db \in Tables /\ Accepted(db) /\ toLog \subseteq LogRows
      /\ Numbered(db, db.logs \cup toLog)
  BY DEF MaintInv, RunsInStep, TablesHold
<1>c. db.placed \in Nat /\ "canonical" \in db.sales /\ script.name = "large" /\ "large" \in Seeders
  BY <1>a, <1>b, TableTypes DEF SeedInStep, Seeders
<1>p. PICK n \in 0..(MaxOrders - db.placed) :
         \E suspicious \in SUBSET ((db.placed + 1)..(db.placed + n)) :
            TransactionOf("large", Copied(db, (db.placed + 1)..(db.placed + n), suspicious),
                          Ends("large", "done"))
  BY DEF LoadBulk
<1> DEFINE new == (db.placed + 1)..(db.placed + n)
<1>q. PICK suspicious \in SUBSET new :
         TransactionOf("large", Copied(db, new, suspicious), Ends("large", "done"))
  BY <1>p
<1> DEFINE Row(i) == [id |-> i, user |-> "bulk", sale |-> "canonical",
                      status |-> IF i \in suspicious THEN "flagged" ELSE "confirmed",
                      strategy |-> "null"]
           rows == {Row(i) : i \in new}
           d == Copied(db, new, suspicious)
<1>0. MaxOrders \in Nat
  BY MaintenanceAssumption
<1>1. /\ \A i \in new : i \in Nat /\ i > db.placed /\ i <= db.placed + n
      /\ db.placed + n \in Nat /\ n \in Nat
  BY <1>0, <1>c
<1>2. Cardinality(new) = n
  <2>1. db.placed + n >= db.placed + 1 \/ n = 0
    BY <1>1, <1>c
  <2>2. CASE n = 0
    <3>1. new = {}
      BY <1>c, <2>2
    <3> QED BY <2>2, <3>1, FS_EmptySet
  <2>3. CASE n # 0
    <3>1. (db.placed + n) - (db.placed + 1) + 1 = n
      BY <1>c, <1>1
    <3> QED BY <1>c, <1>1, <2>1, <2>3, <3>1, FS_Interval
  <2> QED BY <2>2, <2>3
<1>3. /\ \A o \in rows : /\ o \in OrderRows /\ o.id \in new /\ o.user = "bulk"
                         /\ o.sale = "canonical"
      /\ new = {o.id : o \in rows}
  <2>1. \A i \in new : Row(i) \in OrderRows /\ Row(i).id = i /\ Row(i).user = "bulk"
                       /\ Row(i).sale = "canonical"
    BY <1>1, <1>c DEF OrderRows, Users, SaleIds, Statuses, Strategies, NoOrder
  <2> HIDE DEF Row, new
  <2> QED BY <2>1
<1>4. d = [db EXCEPT !.users = @ \cup {"bulk"}, !.placed = @ + n, !.orders = @ \cup rows,
                     !.items = @ \cup new, !.flags = @ \cup suspicious]
  <2> HIDE DEF new
  <2> QED BY <1>2 DEF Copied
<1> HIDE DEF rows, Row
<1>5. \/ Accepted(d) /\ CommitsAs("large", d) /\ Ends("large", "done")
      \/ ~Accepted(d) /\ UNCHANGED <<db, raced>> /\ Ends("large", "refused")
  BY <1>q DEF TransactionOf
<1>6. /\ d \in Tables /\ d.users = db.users \cup {"bulk"} /\ d.sales = db.sales
      /\ d.placed = db.placed + n /\ d.orders = db.orders \cup rows
      /\ d.items = db.items \cup new /\ d.flags = db.flags \cup suspicious
      /\ d.payments = db.payments /\ d.logs = db.logs /\ d.audits = db.audits
      /\ d.reserved = db.reserved
  <2>1. rows \subseteq OrderRows /\ new \subseteq Nat /\ suspicious \subseteq Nat
    BY <1>1, <1>3
  <2>2. db.users \cup {"bulk"} \subseteq Users
    BY <1>b, TableTypes DEF Users
  <2> HIDE DEF d, new
  <2> QED BY <1>b, <1>1, <1>4, <2>1, <2>2 DEF Tables
<1> HIDE DEF d, new
<1>7. Accepted(d)
  <2>1. Ids(d.orders) = Ids(db.orders) \cup new
    BY <1>3, <1>6 DEF Ids
  <2>2. ForeignKeys(d)
    BY <1>b, <1>c, <1>3, <1>6, <2>1 DEF Accepted, ForeignKeys
  <2> QED BY <1>b, <1>6, <2>2 DEF Accepted, UniqueEmails, WithinStock
<1>8. Numbered(d, d.logs \cup toLog)
  <2>1. ASSUME NEW o \in d.orders PROVE o.id <= d.placed
    <3>1. CASE o \in db.orders
      <4>1. o.id <= db.placed /\ o.id \in Nat
        BY <1>b, <3>1, TableTypes DEF Numbered, OrderRows
      <4> QED BY <1>c, <1>1, <1>6, <4>1
    <3>2. CASE o \in rows
      BY <1>1, <1>3, <1>6, <3>2
    <3> QED BY <1>6, <3>1, <3>2
  <2>2. ASSUME NEW l \in d.logs \cup toLog
        PROVE  /\ l.order <= d.placed
               /\ \A o \in d.orders : l.order = o.id => l.user = o.user /\ l.sale = o.sale
    <3>1. l.order \in Nat /\ l.order <= db.placed
      BY <1>b, <1>6, TableTypes DEF Numbered, LogRows
    <3>2. l.order <= d.placed
      BY <1>c, <1>1, <1>6, <3>1
    <3>3. ASSUME NEW o \in rows PROVE l.order # o.id
      BY <1>c, <1>1, <1>3, <3>1
    <3>4. \A o \in db.orders : l.order = o.id => l.user = o.user /\ l.sale = o.sale
      BY <1>b, <1>6 DEF Numbered
    <3> QED BY <1>6, <3>2, <3>3, <3>4
  <2> QED BY <2>1, <2>2 DEF Numbered
<1>9. \/ /\ Accepted(d) /\ CommitsAs("large", d) /\ script' = Idle
         /\ \E how : how # "refused" /\ result' = [result EXCEPT !["large"] = how]
      \/ ~Accepted(d) /\ UNCHANGED <<db, raced>> /\ Ends("large", "refused")
  <2>1. "done" # "refused"
    OBVIOUS
  <2> QED BY <1>5, <2>1 DEF Ends
<1>10. Idle.at # "parents" /\ Idle # [name |-> "seed", at |-> "rows"]
  BY DEF Idle
<1> QED BY <1>a, <1>c, <1>6, <1>7, <1>8, <1>9, <1>10, SeederCommits

\* What does not touch the tables.
LEMMA TablesSame ==
    ASSUME TablesHold, UNCHANGED <<db, toLog>>
    PROVE  TablesHold'
BY DEF TablesHold, Accepted, ForeignKeys, UniqueEmails, WithinStock, Ids, Numbered

LEMMA ReadSessionsKeeps ==
    ASSUME MaintInv, ReadSessions
    PROVE  MaintInv'
<1>a. /\ scored = NotScoring /\ raced' = raced \ {"scoring"}
      /\ UNCHANGED <<db, script, purged, found, toLog>>
  BY DEF ReadSessions, runVars, shopVars
<1>b. /\ TablesHold /\ RunTypes /\ SeedInStep /\ RecoveryInStep /\ UndisturbedScriptsSucceed
      /\ Accepted(db)
  BY DEF MaintInv, RunsInStep, TablesHold
<1>c. script.name # "scoring" /\ "scoring" \in Scripts
  BY <1>b, ScriptNames DEF Seeders, Scripts
<1>1. /\ \E how \in {"declined", "none"} : result' = [result EXCEPT !["scoring"] = how]
      /\ \/ scored' = scored
         \/ \E outliers \in SUBSET Sessions(db) :
               scored' = [at |-> "write", rows |-> {l.order : l \in outliers} \ {NoOrder}]
  BY DEF ReadSessions
<1>2. scored' = NotScoring \/ (scored'.at = "write" /\ scored'.rows \subseteq Ids(db.orders))
  <2>1. ASSUME NEW outliers \in SUBSET Sessions(db),
               scored' = [at |-> "write", rows |-> {l.order : l \in outliers} \ {NoOrder}]
        PROVE  scored'.at = "write" /\ scored'.rows \subseteq Ids(db.orders)
    BY <1>b, <2>1 DEF Sessions, Accepted, ForeignKeys
  <2>2. CASE scored' = scored
    BY <1>a, <2>2
  <2>3. CASE \E outliers \in SUBSET Sessions(db) :
               scored' = [at |-> "write", rows |-> {l.order : l \in outliers} \ {NoOrder}]
    <3> PICK outliers \in SUBSET Sessions(db) :
               scored' = [at |-> "write", rows |-> {l.order : l \in outliers} \ {NoOrder}]
      BY <2>3
    <3> QED BY <2>1
  <2> QED BY <1>1, <2>2, <2>3
<1>3. ScoringInStep'
  BY <1>a, <1>2 DEF ScoringInStep, Ids
<1>4. /\ result' = [t \in Scripts |-> result'[t]] /\ result'["scoring"] # "refused"
      /\ \A t \in Scripts \ {"scoring"} : result'[t] = result[t]
  BY <1>b, <1>c, <1>1 DEF RunTypes
<1>5. RunTypes'
  <2>1. Ids(db.orders) \subseteq Nat
    BY <1>b, TableTypes DEF TablesHold, Ids, OrderRows
  <2> QED BY <1>a, <1>b, <1>2, <1>4, <2>1 DEF RunTypes
<1>6. SeedInStep' /\ RecoveryInStep'
  BY <1>a, <1>b, <1>c, SeedKeeps, RecoveryKeeps
<1>7. UndisturbedScriptsSucceed'
  BY <1>a, <1>b, <1>c, <1>4, SuccessOf
<1>8. TablesHold'
  BY <1>a, <1>b, TablesSame
<1> QED BY <1>3, <1>5, <1>6, <1>7, <1>8 DEF MaintInv, RunsInStep

LEMMA FlaggedFields ==
    ASSUME db \in Tables, NEW ids, ids \subseteq Nat
    PROVE  /\ Flagged(db, ids) \in Tables /\ Flagged(db, ids).placed = db.placed
           /\ Flagged(db, ids).users = db.users /\ Flagged(db, ids).sales = db.sales
           /\ Flagged(db, ids).audits = db.audits /\ Flagged(db, ids).flags = db.flags \cup ids
           /\ Flagged(db, ids).items = db.items /\ Flagged(db, ids).payments = db.payments
           /\ Flagged(db, ids).logs = db.logs /\ Flagged(db, ids).reserved = db.reserved
           /\ \A o \in Flagged(db, ids).orders : \E p \in db.orders :
                 o.id = p.id /\ o.user = p.user /\ o.sale = p.sale
           /\ Ids(Flagged(db, ids).orders) = Ids(db.orders)
<1> DEFINE Mark(o) == IF o.id \in ids THEN [o EXCEPT !.status = "flagged"] ELSE o
           rows == {Mark(o) : o \in db.orders}
<1>1. \A o \in db.orders : /\ Mark(o) \in OrderRows /\ Mark(o).id = o.id
                           /\ Mark(o).user = o.user /\ Mark(o).sale = o.sale
  <2> SUFFICES ASSUME NEW o \in OrderRows
               PROVE  /\ Mark(o) \in OrderRows /\ Mark(o).id = o.id
                      /\ Mark(o).user = o.user /\ Mark(o).sale = o.sale
    BY TableTypes
  <2> QED BY DEF OrderRows, Statuses
<1>2. Flagged(db, ids) = [db EXCEPT !.flags = @ \cup ids, !.orders = rows]
  BY DEF Flagged
<1> HIDE DEF Mark
<1>3. rows \subseteq OrderRows /\ Ids(rows) = Ids(db.orders)
      /\ \A o \in rows : \E p \in db.orders : o.id = p.id /\ o.user = p.user /\ o.sale = p.sale
  BY <1>1 DEF Ids
<1> HIDE DEF rows
<1>4. /\ Flagged(db, ids) \in Tables /\ Flagged(db, ids).placed = db.placed
      /\ Flagged(db, ids).users = db.users /\ Flagged(db, ids).sales = db.sales
      /\ Flagged(db, ids).audits = db.audits /\ Flagged(db, ids).flags = db.flags \cup ids
      /\ Flagged(db, ids).items = db.items /\ Flagged(db, ids).payments = db.payments
      /\ Flagged(db, ids).logs = db.logs /\ Flagged(db, ids).orders = rows
      /\ Flagged(db, ids).reserved = db.reserved
  BY <1>2, <1>3 DEF Tables
<1> QED BY <1>3, <1>4

LEMMA WriteFlagsKeeps ==
    ASSUME MaintInv, WriteFlags
    PROVE  MaintInv'
<1> DEFINE d == Flagged(db, scored.rows)
<1>a. /\ scored.at = "write" /\ scored' = NotScoring
      /\ UNCHANGED <<script, purged, found, toLog>>
  BY DEF WriteFlags, runVars, shopVars
<1>b. /\ TablesHold /\ RunTypes /\ SeedInStep /\ RecoveryInStep /\ ScoringInStep
      /\ UndisturbedScriptsSucceed /\ db \in Tables /\ Accepted(db) /\ toLog \subseteq LogRows
      /\ Numbered(db, db.logs \cup toLog) /\ scored.rows \subseteq Nat
  BY DEF MaintInv, RunsInStep, TablesHold, RunTypes, NotScoring, WriteFlags
<1>c. script.name # "scoring" /\ "scoring" \in Scripts /\ scored # NotScoring
  BY <1>a, <1>b, ScriptNames DEF Seeders, Scripts, NotScoring
<1>1. /\ d \in Tables /\ d.placed = db.placed /\ d.users = db.users /\ d.sales = db.sales
      /\ d.audits = db.audits /\ d.flags = db.flags \cup scored.rows /\ d.items = db.items
      /\ d.payments = db.payments /\ d.logs = db.logs /\ d.reserved = db.reserved
      /\ \A o \in d.orders : \E p \in db.orders : o.id = p.id /\ o.user = p.user /\ o.sale = p.sale
      /\ Ids(d.orders) = Ids(db.orders)
  BY <1>b, FlaggedFields
<1>2. \/ /\ Accepted(d) /\ CommitsAs("scoring", d)
         /\ result' = [result EXCEPT !["scoring"] = "done"]
      \/ /\ ~Accepted(d) /\ UNCHANGED <<db, raced>>
         /\ result' = [result EXCEPT !["scoring"] = "refused"]
  BY DEF WriteFlags
<1> HIDE DEF d
<1>3. "scoring" \notin raced => Accepted(d)
  BY <1>b, <1>c, <1>1 DEF ScoringInStep, Accepted, ForeignKeys, UniqueEmails, WithinStock
<1>4. Numbered(d, d.logs \cup toLog)
  BY <1>b, <1>1, NumbersKeep
<1>5. /\ raced \subseteq raced' /\ (db' = d \/ db' = db)
      /\ db' = db \/ script = Idle \/ script.name \in raced'
      /\ result'["scoring"] = "refused" => "scoring" \in raced'
      /\ \A t \in Scripts \ {"scoring"} : result'[t] = result[t]
      /\ result' = [t \in Scripts |-> result'[t]]
  <2>1. CASE Accepted(d) /\ CommitsAs("scoring", d) /\ result' = [result EXCEPT !["scoring"] = "done"]
    BY <1>b, <1>c, <2>1, CommitDisturbs DEF RunTypes
  <2>2. CASE ~Accepted(d) /\ UNCHANGED <<db, raced>> /\ result' = [result EXCEPT !["scoring"] = "refused"]
    BY <1>b, <1>c, <1>3, <2>2 DEF RunTypes
  <2> QED BY <1>2, <2>1, <2>2
<1>6. SeedInStep' /\ RecoveryInStep'
  <2>1. db'.sales = db.sales /\ db'.users = db.users
    BY <1>1, <1>5
  <2> QED BY <1>a, <1>b, <1>5, <2>1, SeedKeeps, RecoveryKeeps
<1>7. ScoringInStep' /\ RunTypes'
  BY <1>a, <1>b, <1>5 DEF ScoringInStep, RunTypes
<1>8. UndisturbedScriptsSucceed'
  BY <1>a, <1>b, <1>c, <1>5, SuccessOf
<1>9. TablesHold'
  <2>1. CASE Accepted(d) /\ CommitsAs("scoring", d)
    <3>1. db' = d
      BY <2>1, CommitDisturbs
    <3> QED BY <1>a, <1>b, <1>1, <1>4, <2>1, <3>1, TablesAfter
  <2>2. CASE db' = db
    BY <1>a, <1>b, <2>2, TablesSame
  <2> QED BY <1>2, <2>1, <2>2
<1> QED BY <1>6, <1>7, <1>8, <1>9 DEF MaintInv, RunsInStep

LEMMA ReservedFields ==
    ASSUME db \in Tables, NEW n \in Int
    PROVE  /\ Reserved(n) \in Tables /\ Reserved(n).placed = db.placed
           /\ Reserved(n).users = db.users /\ Reserved(n).sales = db.sales
           /\ Reserved(n).audits = db.audits /\ Reserved(n).orders = db.orders
           /\ Reserved(n).flags = db.flags /\ Reserved(n).items = db.items
           /\ Reserved(n).payments = db.payments /\ Reserved(n).logs = db.logs
           /\ Reserved(n).reserved["canonical"] = n
           /\ Accepted(db) => (Accepted(Reserved(n)) <=> n \in 0..SaleStock)
<1> DEFINE r == [db.reserved EXCEPT !["canonical"] = n]
           d == Reserved(n)
<1>1. /\ r \in [SaleIds -> Int] /\ r["canonical"] = n
      /\ \A i \in SaleIds \ {"canonical"} : r[i] = db.reserved[i]
      /\ "canonical" \in SaleIds
  BY TableTypes DEF SaleIds
<1>2. d = [db EXCEPT !.reserved = r]
  BY DEF Reserved, Tables
<1> HIDE DEF r, d
<1>3. /\ d \in Tables /\ d.placed = db.placed /\ d.users = db.users /\ d.sales = db.sales
      /\ d.audits = db.audits /\ d.orders = db.orders /\ d.flags = db.flags
      /\ d.items = db.items /\ d.payments = db.payments /\ d.logs = db.logs /\ d.reserved = r
  BY <1>1, <1>2 DEF Tables
<1>4. Accepted(db) => (WithinStock(d) <=> n \in 0..SaleStock)
  BY <1>1, <1>3 DEF Accepted, WithinStock
<1>5. Accepted(db) => ForeignKeys(d) /\ UniqueEmails(d)
  BY <1>3 DEF Accepted, ForeignKeys, UniqueEmails
<1>6. Accepted(db) => (Accepted(d) <=> n \in 0..SaleStock)
  BY <1>4, <1>5 DEF Accepted
<1> QED BY <1>1, <1>3, <1>6 DEF d

\* What a recovery at work may rely on.
LEMMA RecoveryStands ==
    ASSUME MaintInv, script.name = "recovery"
    PROVE  /\ TablesHold /\ RunsInStep /\ RunTypes /\ RecoveryInStep /\ db \in Tables /\ Accepted(db)
           /\ "canonical" \in db.sales /\ "recovery" \in Scripts /\ "recovery" # "scoring"
           /\ found \in FoundNumbers /\ found.stock \in 0..SaleStock /\ found.before \in 0..SaleStock
           /\ result = [t \in Scripts |-> result[t]]
           /\ OnSale \in 0..SaleStock /\ SaleStock \in Nat
<1>1. TablesHold /\ RunsInStep /\ RunTypes /\ SeedInStep /\ RecoveryInStep /\ db \in Tables /\ Accepted(db)
  BY DEF MaintInv, RunsInStep, TablesHold
<1>2. OnSale \in 0..SaleStock
  BY <1>1 DEF OnSale, Accepted, WithinStock, SaleIds
<1>3. found \in FoundNumbers
  BY <1>1 DEF RunTypes
<1> QED BY <1>1, <1>2, <1>3, MaintenanceAssumption DEF SeedInStep, Scripts, FoundNumbers, RunTypes

\* The recovery commits a database with other stock or one more audit row.
LEMMA RecoveryTables ==
    ASSUME TablesHold, NEW d, db' = d, d \in Tables, d.placed = db.placed, Accepted(d),
           d.orders = db.orders, d.logs = db.logs, UNCHANGED toLog
    PROVE  TablesHold'
<1>a. /\ Accepted(db) /\ toLog \subseteq LogRows /\ Numbered(db, db.logs \cup toLog)
  BY DEF TablesHold
<1>1. Numbered(d, d.logs \cup toLog')
  BY <1>a, NumbersKeep
<1> QED BY <1>a, <1>1, TablesAfter

\* What a recovery that ended undisturbed may say.
RecoveryEnded ==
    /\ result["recovery"] = "refused" => found.stock = SaleStock
    /\ result["recovery"] = "done" => found.final = found.stock

LEMMA RecoveryMoves ==
    ASSUME RunsInStep, script.name \in {"recovery", "none"},
           script' = Idle \/ (script' \in ScriptRecords /\ script'.name = "recovery"),
           "canonical" \in db'.sales \/ script' = Idle,
           UNCHANGED scored, found' \in FoundNumbers,
           result' = result \/ \E how : result' = [result EXCEPT !["recovery"] = how],
           "recovery" \notin raced' => RecoveryEnded',
           \A t \in Scripts \ {"recovery"} : t \in raced => t \in raced',
           db' = db \/ scored = NotScoring \/ "scoring" \in raced',
           RecoveryInStep'
    PROVE  RunsInStep'
<1>a. "recovery" \in Scripts /\ "scoring" \in Scripts \ {"recovery"}
  BY DEF Scripts
<1>b. /\ RunTypes /\ ScoringInStep /\ UndisturbedScriptsSucceed
      /\ \A t \in ScriptRecords : t.name = "recovery" => t.at # "parents"
      /\ Idle \in ScriptRecords /\ Idle.name = "none" /\ Idle.at = "idle"
  BY DEF RunsInStep, ScriptRecords, Idle, Seeders
<1>1. /\ result' = [t \in Scripts |-> result'[t]]
      /\ \A t \in Scripts \ {"recovery"} : result'[t] = result[t]
  BY <1>a, <1>b DEF RunTypes
<1>2. RunTypes'
  BY <1>b, <1>1 DEF RunTypes
<1>3. SeedInStep'
  <2>1. script'.at # "parents" /\ script' # [name |-> "seed", at |-> "rows"]
        /\ script'.name \in {"none", "recovery"}
    BY <1>b
  <2> QED BY <1>b, <2>1 DEF SeedInStep
<1>4. ScoringInStep'
  BY <1>a, <1>b, ScoringKeeps
<1>5. UndisturbedScriptsSucceed'
  BY <1>a, <1>b, <1>1, SuccessOf DEF RecoveryEnded
<1> QED BY <1>2, <1>3, <1>4, <1>5 DEF RunsInStep

\* The recovery goes on to its next place and commits d, or nothing.
LEMMA RecoveryGoesOn ==
    ASSUME MaintInv, script.name = "recovery", NEW next,
           next \in {"lose", "restore", "retry", "log", "write", "undo"},
           GoesOn("recovery", next), UNCHANGED <<scored, toLog>>,
           found' \in FoundNumbers, found'.stock = found.stock, found'.final = found.final,
           NEW d, d \in Tables, Accepted(d), d.placed = db.placed, d.sales = db.sales,
           d.orders = db.orders, d.logs = db.logs,
           CommitsAs("recovery", d) \/ (UNCHANGED <<db, raced>> /\ d = db),
           "recovery" \notin raced =>
              /\ next \in {"lose", "retry", "log"} => d.reserved["canonical"] = found.stock
              /\ next = "restore" => d.reserved["canonical"] = found.stock + 1
              /\ next \in {"write", "undo"} => found'.before = found.stock
    PROVE  MaintInv'
<1>a. /\ TablesHold /\ RunsInStep /\ RunTypes /\ "canonical" \in db.sales
      /\ "recovery" \in Scripts /\ "recovery" # "scoring"
  BY RecoveryStands
<1>1. /\ script' = [name |-> "recovery", at |-> next] /\ result' = result
      /\ script' \in ScriptRecords /\ script'.name = "recovery" /\ script'.at = next
  BY DEF GoesOn, ScriptRecords
<1>2. /\ db' = d /\ raced \subseteq raced'
      /\ db' = db \/ scored = NotScoring \/ "scoring" \in raced'
  BY <1>a, CommitDisturbs
<1>3. TablesHold'
  BY <1>a, <1>2, RecoveryTables
<1>4. RecoveryInStep'
  BY <1>1, <1>2 DEF RecoveryInStep, OnSale
<1>5. "recovery" \notin raced' => RecoveryEnded'
  BY <1>a, <1>1, <1>2 DEF RunsInStep, UndisturbedScriptsSucceed, RecoveryEnded
<1>6. RunsInStep'
  BY <1>a, <1>1, <1>2, <1>4, <1>5, RecoveryMoves
<1> QED BY <1>3, <1>6 DEF MaintInv

\* The recovery ends with its exception.
LEMMA RecoveryRefused ==
    ASSUME MaintInv, script.name = "recovery", Ends("recovery", "refused"),
           UNCHANGED <<db, raced, scored, found, toLog>>,
           "recovery" \notin raced => found.stock = SaleStock
    PROVE  MaintInv'
<1>a. /\ TablesHold /\ RunsInStep /\ RunTypes /\ "recovery" \in Scripts
      /\ result = [t \in Scripts |-> result[t]] /\ found \in FoundNumbers
  BY RecoveryStands
<1>1. /\ script' = Idle /\ result' = [result EXCEPT !["recovery"] = "refused"]
      /\ result'["recovery"] = "refused" /\ script'.name = "none"
  BY <1>a DEF Ends, Idle
<1>2. RecoveryInStep'
  BY <1>1 DEF RecoveryInStep
<1>3. "recovery" \notin raced' => RecoveryEnded'
  BY <1>1 DEF RecoveryEnded
<1>4. RunsInStep'
  BY <1>a, <1>1, <1>2, <1>3, RecoveryMoves
<1> QED BY <1>a, <1>4, TablesSame DEF MaintInv

LEMMA StartRecoveryKeeps ==
    ASSUME MaintInv, StartRecovery
    PROVE  MaintInv'
<1>a. script = Idle /\ raced' = raced \ {"recovery"} /\ UNCHANGED <<db, scored, toLog>>
  BY DEF StartRecovery, shopVars
<1>b. TablesHold /\ RunsInStep /\ RunTypes /\ Accepted(db)
  BY DEF MaintInv, RunsInStep, TablesHold
<1>c. /\ Idle \in ScriptRecords /\ Idle.name = "none" /\ "recovery" \in Scripts
      /\ OnSale \in 0..SaleStock
  BY <1>b, ScriptNames DEF Scripts, OnSale, SaleIds, Accepted, WithinStock
<1>d. found \in FoundNumbers /\ result = [t \in Scripts |-> result[t]]
  BY <1>b DEF RunTypes
<1>e. TablesHold' /\ \A t \in Scripts \ {"recovery"} : t \in raced => t \in raced'
  BY <1>a, <1>b, TablesSame
<1>1. CASE "canonical" \in db.sales /\ Starts("recovery", "lose") /\ found' = [found EXCEPT !.stock = OnSale]
  <2>1. /\ script' = [name |-> "recovery", at |-> "lose"]
        /\ result' = [result EXCEPT !["recovery"] = "none"] /\ result'["recovery"] = "none"
    BY <1>1, <1>c, <1>d DEF Starts
  <2>2. script' \in ScriptRecords /\ script'.name = "recovery" /\ script'.at = "lose"
    BY <2>1 DEF ScriptRecords
  <2>3. found' \in FoundNumbers /\ found'.stock = OnSale
    BY <1>1, <1>c, <1>d DEF FoundNumbers
  <2>4. RecoveryInStep'
    BY <1>a, <2>2, <2>3 DEF RecoveryInStep, OnSale
  <2>5. RecoveryEnded'
    BY <2>1 DEF RecoveryEnded
  <2>6. RunsInStep'
    BY <1>1, <1>a, <1>b, <1>c, <1>e, <2>1, <2>2, <2>3, <2>4, <2>5, RecoveryMoves
  <2> QED BY <1>e, <2>6 DEF MaintInv
<1>2. CASE Ends("recovery", "missing") /\ UNCHANGED found
  <2>1. /\ script' = Idle /\ result' = [result EXCEPT !["recovery"] = "missing"]
        /\ result'["recovery"] = "missing"
    BY <1>2, <1>c, <1>d DEF Ends
  <2>2. RecoveryInStep' /\ RecoveryEnded'
    BY <1>c, <2>1 DEF RecoveryInStep, RecoveryEnded
  <2>3. RunsInStep'
    BY <1>2, <1>a, <1>b, <1>c, <1>d, <1>e, <2>1, <2>2, RecoveryMoves
  <2> QED BY <1>e, <2>3 DEF MaintInv
<1> QED BY <1>1, <1>2 DEF StartRecovery

LEMMA LosesKeeps ==
    ASSUME MaintInv, LosesUnit
    PROVE  MaintInv'
<1> DEFINE d == Reserved(OnSale + 1)
<1>a. /\ script = [name |-> "recovery", at |-> "lose"]
      /\ TransactionOf("recovery", d, GoesOn("recovery", "restore"))
      /\ UNCHANGED <<scored, found, toLog>>
  BY DEF LosesUnit, shopVars
<1>b. script.name = "recovery" /\ script.at = "lose"
  BY <1>a
<1>c. /\ db \in Tables /\ Accepted(db) /\ found \in FoundNumbers /\ OnSale \in 0..SaleStock
      /\ SaleStock \in Nat /\ RecoveryInStep
  BY <1>b, RecoveryStands
<1>1. /\ d \in Tables /\ d.placed = db.placed /\ d.sales = db.sales /\ d.orders = db.orders
      /\ d.logs = db.logs /\ d.reserved["canonical"] = OnSale + 1
      /\ Accepted(d) <=> OnSale + 1 \in 0..SaleStock
  BY <1>c, ReservedFields
<1>2. \/ Accepted(d) /\ CommitsAs("recovery", d) /\ GoesOn("recovery", "restore")
      \/ ~Accepted(d) /\ UNCHANGED <<db, raced>> /\ Ends("recovery", "refused")
  BY <1>a DEF TransactionOf
<1> HIDE DEF d
<1>3. "recovery" \notin raced => OnSale = found.stock
  BY <1>b, <1>c DEF RecoveryInStep
<1>4. CASE Accepted(d) /\ CommitsAs("recovery", d) /\ GoesOn("recovery", "restore")
  BY <1>4, <1>a, <1>b, <1>c, <1>1, <1>3, RecoveryGoesOn
<1>5. CASE ~Accepted(d) /\ UNCHANGED <<db, raced>> /\ Ends("recovery", "refused")
  <2>1. OnSale = SaleStock
    BY <1>5, <1>c, <1>1
  <2> QED BY <1>5, <1>a, <1>b, <1>3, <2>1, RecoveryRefused
<1> QED BY <1>2, <1>4, <1>5

LEMMA RestoresKeeps ==
    ASSUME MaintInv, RestoresUnit
    PROVE  MaintInv'
<1> DEFINE d == Reserved(OnSale - 1)
<1>a. /\ script = [name |-> "recovery", at |-> "restore"]
      /\ TransactionOf("recovery", d, GoesOn("recovery", "retry"))
      /\ UNCHANGED <<scored, found, toLog>>
  BY DEF RestoresUnit, shopVars
<1>b. script.name = "recovery" /\ script.at = "restore"
  BY <1>a
<1>c. /\ db \in Tables /\ Accepted(db) /\ found \in FoundNumbers /\ OnSale \in 0..SaleStock
      /\ SaleStock \in Nat /\ found.stock \in 0..SaleStock /\ RecoveryInStep
  BY <1>b, RecoveryStands
<1>1. /\ d \in Tables /\ d.placed = db.placed /\ d.sales = db.sales /\ d.orders = db.orders
      /\ d.logs = db.logs /\ d.reserved["canonical"] = OnSale - 1
      /\ Accepted(d) <=> OnSale - 1 \in 0..SaleStock
  BY <1>c, ReservedFields
<1>2. \/ Accepted(d) /\ CommitsAs("recovery", d) /\ GoesOn("recovery", "retry")
      \/ ~Accepted(d) /\ UNCHANGED <<db, raced>> /\ Ends("recovery", "refused")
  BY <1>a DEF TransactionOf
<1> HIDE DEF d
<1>3. "recovery" \notin raced => OnSale = found.stock + 1
  BY <1>b, <1>c DEF RecoveryInStep
<1>4. CASE Accepted(d) /\ CommitsAs("recovery", d) /\ GoesOn("recovery", "retry")
  <2>1. "recovery" \notin raced => d.reserved["canonical"] = found.stock
    BY <1>c, <1>1, <1>3
  <2> QED BY <1>4, <1>a, <1>b, <1>c, <1>1, <2>1, RecoveryGoesOn
<1>5. CASE ~Accepted(d) /\ UNCHANGED <<db, raced>> /\ Ends("recovery", "refused")
  <2>1. "recovery" \in raced
    BY <1>5, <1>c, <1>1, <1>3
  <2> QED BY <1>5, <1>a, <1>b, <2>1, RecoveryRefused
<1> QED BY <1>2, <1>4, <1>5

LEMMA RollsBackKeeps ==
    ASSUME MaintInv, RollsBack
    PROVE  MaintInv'
<1>a. /\ script = [name |-> "recovery", at |-> "retry"]
      /\ UNCHANGED <<db, raced, scored, found, toLog>>
  BY DEF RollsBack, shopVars
<1>b. script.name = "recovery" /\ script.at = "retry"
  BY <1>a
<1>c. /\ db \in Tables /\ Accepted(db) /\ found \in FoundNumbers /\ OnSale \in 0..SaleStock
      /\ SaleStock \in Nat /\ RecoveryInStep
  BY <1>b, RecoveryStands
<1>1. Accepted(Reserved(OnSale + 1)) <=> OnSale + 1 \in 0..SaleStock
  BY <1>c, ReservedFields
<1>2. "recovery" \notin raced => db.reserved["canonical"] = found.stock /\ OnSale = found.stock
  BY <1>b, <1>c DEF RecoveryInStep, OnSale
<1>3. CASE GoesOn("recovery", "log")
  BY <1>3, <1>a, <1>b, <1>c, <1>2, RecoveryGoesOn
<1>4. CASE ~Accepted(Reserved(OnSale + 1)) /\ Ends("recovery", "refused")
  <2>1. OnSale = SaleStock
    BY <1>4, <1>c, <1>1
  <2> QED BY <1>4, <1>a, <1>b, <1>2, <2>1, RecoveryRefused
<1> QED BY <1>3, <1>4 DEF RollsBack

LEMMA WritesAheadKeeps ==
    ASSUME MaintInv, WritesAhead
    PROVE  MaintInv'
<1> DEFINE d == [db EXCEPT !.audits = @ \cup {"canonical"}]
<1>a. /\ script = [name |-> "recovery", at |-> "log"] /\ CommitsAs("recovery", d)
      /\ found' = [found EXCEPT !.before = OnSale] /\ UNCHANGED <<scored, toLog>>
      /\ GoesOn("recovery", "write")
  BY DEF WritesAhead, RecoveryStep, shopVars
<1>b. script.name = "recovery" /\ script.at = "log"
  BY <1>a
<1>c. /\ db \in Tables /\ Accepted(db) /\ found \in FoundNumbers /\ OnSale \in 0..SaleStock
      /\ "canonical" \in db.sales /\ RecoveryInStep
  BY <1>b, RecoveryStands
<1>1. /\ d \in Tables /\ d.placed = db.placed /\ d.users = db.users /\ d.sales = db.sales
      /\ d.audits = db.audits \cup {"canonical"} /\ d.orders = db.orders /\ d.flags = db.flags
      /\ d.items = db.items /\ d.payments = db.payments /\ d.logs = db.logs
      /\ d.reserved = db.reserved
  BY <1>c, "canonical" \in SaleIds DEF Tables, SaleIds
<1> HIDE DEF d
<1>2. Accepted(d)
  BY <1>c, <1>1 DEF Accepted, ForeignKeys, UniqueEmails, WithinStock
<1>3. /\ found' \in FoundNumbers /\ found'.before = OnSale
      /\ found'.stock = found.stock /\ found'.final = found.final
  BY <1>a, <1>c DEF FoundNumbers
<1>4. "recovery" \notin raced => OnSale = found.stock
  BY <1>b, <1>c DEF RecoveryInStep
<1> QED BY <1>a, <1>b, <1>1, <1>2, <1>3, <1>4, RecoveryGoesOn

LEMMA WritesPageKeeps ==
    ASSUME MaintInv, WritesPage
    PROVE  MaintInv'
<1>a. /\ script = [name |-> "recovery", at |-> "write"]
      /\ UNCHANGED <<db, raced, scored, found, toLog>>
  BY DEF WritesPage, shopVars
<1>b. script.name = "recovery" /\ script.at = "write"
  BY <1>a
<1>c. /\ db \in Tables /\ Accepted(db) /\ found \in FoundNumbers /\ found.before \in 0..SaleStock
      /\ SaleStock \in Nat /\ RecoveryInStep
  BY <1>b, RecoveryStands
<1>1. Accepted(Reserved(found.before + 1)) <=> found.before + 1 \in 0..SaleStock
  BY <1>c, ReservedFields
<1>2. "recovery" \notin raced => found.before = found.stock
  BY <1>b, <1>c DEF RecoveryInStep
<1>3. CASE GoesOn("recovery", "undo")
  BY <1>3, <1>a, <1>b, <1>c, <1>2, RecoveryGoesOn
<1>4. CASE ~Accepted(Reserved(found.before + 1)) /\ Ends("recovery", "refused")
  <2>1. found.before = SaleStock
    BY <1>4, <1>c, <1>1
  <2> QED BY <1>4, <1>a, <1>b, <1>2, <2>1, RecoveryRefused
<1> QED BY <1>3, <1>4 DEF WritesPage

LEMMA UndoesKeeps ==
    ASSUME MaintInv, Undoes
    PROVE  MaintInv'
<1> DEFINE d == Reserved(found.before)
<1>a. /\ script = [name |-> "recovery", at |-> "undo"] /\ script' = Idle
      /\ result' = [result EXCEPT !["recovery"] = "done"]
      /\ CommitsAs("recovery", d) /\ UNCHANGED <<scored, toLog>>
      /\ found' = [found EXCEPT !.final = found.before]
  BY DEF Undoes, RecoveryStep, Ends, Undone, shopVars
<1>b. script.name = "recovery" /\ script.at = "undo" /\ Idle.name = "none"
  BY <1>a DEF Idle
<1>c. /\ TablesHold /\ RunsInStep /\ RunTypes /\ RecoveryInStep /\ db \in Tables /\ Accepted(db)
      /\ "canonical" \in db.sales /\ "recovery" \in Scripts /\ "recovery" # "scoring"
      /\ found \in FoundNumbers /\ found.before \in 0..SaleStock
      /\ result = [t \in Scripts |-> result[t]]
  BY <1>b, RecoveryStands
<1>1. /\ d \in Tables /\ d.placed = db.placed /\ d.sales = db.sales /\ d.orders = db.orders
      /\ d.logs = db.logs /\ Accepted(d)
  BY <1>c, ReservedFields
<1> HIDE DEF d
<1>2. /\ db' = d /\ raced \subseteq raced'
      /\ scored = NotScoring \/ "scoring" \in raced'
  BY <1>a, <1>c, CommitDisturbs
<1>3. TablesHold'
  BY <1>a, <1>c, <1>1, <1>2, RecoveryTables
<1>4. /\ found' \in FoundNumbers /\ found'.final = found.before
      /\ found'.stock = found.stock
  BY <1>a, <1>c DEF FoundNumbers
<1>5. RecoveryInStep' /\ result'["recovery"] = "done"
  BY <1>a, <1>b, <1>c DEF RecoveryInStep
<1>6. "recovery" \notin raced' => RecoveryEnded'
  BY <1>b, <1>c, <1>2, <1>4, <1>5 DEF RecoveryInStep, RecoveryEnded
<1>7. RunsInStep'
  BY <1>a, <1>b, <1>c, <1>1, <1>2, <1>4, <1>5, <1>6, RecoveryMoves
<1> QED BY <1>3, <1>7 DEF MaintInv

\* A script that dies leaves what it has committed, which obeys the constraints.
LEMMA DiesKeeps ==
    ASSUME MaintInv, Dies
    PROVE  MaintInv'
<1> DEFINE s == script.name
<1>a. /\ script # Idle /\ script' = Idle /\ result' = [result EXCEPT ![s] = "died"]
      /\ UNCHANGED <<db, scored, found, raced, toLog>>
  BY DEF Dies, Ends, shopVars
<1>b. TablesHold /\ RunTypes /\ ScoringInStep /\ UndisturbedScriptsSucceed
  BY DEF MaintInv, RunsInStep
<1>c. /\ s \in Scripts /\ Idle.name = "none" /\ Idle.at = "idle"
      /\ Idle # [name |-> "seed", at |-> "rows"]
  BY <1>a, <1>b DEF RunTypes, ScriptRecords, Seeders, Scripts, Idle
<1> HIDE DEF s
<1>1. /\ result' = [t \in Scripts |-> result'[t]] /\ result'[s] = "died"
      /\ \A t \in Scripts \ {s} : result'[t] = result[t]
  BY <1>a, <1>b, <1>c DEF RunTypes
<1>2. RunTypes'
  BY <1>a, <1>b, <1>1, ScriptNames DEF RunTypes
<1>3. SeedInStep' /\ RecoveryInStep'
  BY <1>a, <1>c DEF SeedInStep, RecoveryInStep
<1>4. ScoringInStep'
  BY <1>a, <1>b, ScoringKeeps
<1>5. UndisturbedScriptsSucceed'
  BY <1>a, <1>b, <1>c, <1>1, SuccessOf
<1>6. TablesHold'
  BY <1>a, <1>b, TablesSame
<1> QED BY <1>2, <1>3, <1>4, <1>5, <1>6 DEF MaintInv, RunsInStep

LEMMA ScoringDiesKeeps ==
    ASSUME MaintInv, ScoringDies
    PROVE  MaintInv'
<1>a. /\ scored' = NotScoring /\ result' = [result EXCEPT !["scoring"] = "died"]
      /\ UNCHANGED <<db, script, purged, found, raced, toLog>>
  BY DEF ScoringDies, runVars, shopVars
<1>b. TablesHold /\ RunTypes /\ SeedInStep /\ RecoveryInStep /\ UndisturbedScriptsSucceed
  BY DEF MaintInv, RunsInStep
<1>c. "scoring" \in Scripts
  BY DEF Scripts
<1>1. /\ result' = [t \in Scripts |-> result'[t]] /\ result'["scoring"] = "died"
      /\ \A t \in Scripts \ {"scoring"} : result'[t] = result[t]
  BY <1>a, <1>b, <1>c DEF RunTypes
<1>2. RunTypes' /\ ScoringInStep'
  BY <1>a, <1>b, <1>1 DEF RunTypes, ScoringInStep
<1>3. SeedInStep' /\ RecoveryInStep'
  BY <1>a, <1>b, SeedKeeps, RecoveryKeeps
<1>4. UndisturbedScriptsSucceed'
  BY <1>a, <1>b, <1>c, <1>1, SuccessOf
<1>5. TablesHold'
  BY <1>a, <1>b, TablesSame
<1> QED BY <1>2, <1>3, <1>4, <1>5 DEF MaintInv, RunsInStep

LEMMA MaintInvInit == MaintInit => MaintInv
<1> SUFFICES ASSUME MaintInit PROVE MaintInv
  OBVIOUS
<1>1. db \in Tables /\ Accepted(db) /\ Numbered(db, db.logs) /\ toLog = {}
  BY MaintenanceAssumption DEF MaintInit
<1>2. TablesHold
  <2>1. db.logs \cup toLog = db.logs
    BY <1>1
  <2> QED BY <1>1, <2>1 DEF TablesHold
<1>3. /\ script = Idle /\ scored = NotScoring /\ result = [s \in Scripts |-> "none"]
      /\ found \in FoundNumbers
  BY MaintenanceAssumption DEF MaintInit, FoundNumbers
<1>4. RunTypes
  BY <1>3 DEF RunTypes, ScriptRecords
<1>5. SeedInStep /\ RecoveryInStep /\ ScoringInStep
  BY <1>3 DEF SeedInStep, RecoveryInStep, ScoringInStep, Idle
<1>6. UndisturbedScriptsSucceed
  BY <1>3 DEF UndisturbedScriptsSucceed
<1> QED BY <1>2, <1>4, <1>5, <1>6 DEF MaintInv, RunsInStep

LEMMA MaintInvNext ==
    ASSUME MaintInv, [MaintNext]_maintVars
    PROVE  MaintInv'
<1>1. CASE Seeds
  BY <1>1, StartSeedingKeeps, DropParentsKeeps, InsertRowsKeeps, ClearKeysKeeps DEF Seeds
<1>2. CASE LoadBulk \/ ReadSessions \/ WriteFlags
  BY <1>2, LoadBulkKeeps, ReadSessionsKeeps, WriteFlagsKeeps
<1>3. CASE Recovers
  BY <1>3, StartRecoveryKeeps, LosesKeeps, RestoresKeeps, RollsBackKeeps, WritesAheadKeeps,
     WritesPageKeeps, UndoesKeeps DEF Recovers
<1>4. CASE Dies \/ ScoringDies
  BY <1>4, DiesKeeps, ScoringDiesKeeps
<1>5. CASE Shops
  BY <1>5, BuysKeeps, TurnedAwayKeeps, LogsKeeps, PaysKeeps, DeclinedKeeps DEF Shops
<1>6. CASE UNCHANGED maintVars
  <2>1. UNCHANGED <<db, script, purged, found, scored, toLog, raced, result>>
    BY <1>6 DEF maintVars, runVars, shopVars
  <2>2. TablesHold' /\ RunsInStep'
    BY <2>1, TablesSame, OthersCommit DEF MaintInv
  <2> QED BY <2>2 DEF MaintInv
<1> QED BY <1>1, <1>2, <1>3, <1>4, <1>5, <1>6 DEF MaintNext

\* On whatever database of the shop's rows they find, with any number of orders,
\* payments and logs, and wherever scripts have died before, a script that nobody's
\* commit has overlapped is refused nothing, unless it is the recovery on a sale
\* that it found full; and the recovery puts back the stock it found.
THEOREM ScriptsSucceed == MaintSpec => []UndisturbedScriptsSucceed
<1>1. MaintInv => UndisturbedScriptsSucceed
  BY DEF MaintInv, RunsInStep
<1> QED BY <1>1, MaintInvInit, MaintInvNext, PTL DEF MaintSpec

\* Whatever an operator starts by itself, a script or a replica, succeeds.
THEOREM ScriptsAndStarts == MaintSpec /\ MigrationsSpec => []ScriptsAndStartsSucceed
<1>1. UndisturbedScriptsSucceed /\ StartsRepairSchema => ScriptsAndStartsSucceed
  BY DEF ScriptsAndStartsSucceed
<1> QED BY <1>1, ScriptsSucceed, StartsRepair, PTL

-----------------------------------------------------------------------------
(* The demand forecast *)

LineRecords == [sku : Nat, day : Nat, quantity : Int, cancelled : BOOLEAN, customer : BOOLEAN]
RowRecords == [sku : Nat, day : Nat]

\* A set of numbers that is not empty has a smallest one.
LEMMA LeastNumber ==
    ASSUME NEW N, N \subseteq Nat, N # {}
    PROVE  \E n \in N : \A m \in N : n <= m
<1> DEFINE R == OpToRel(<, Nat)
<1>1. IsWellFoundedOn(R, Nat)
  BY NatLessThanWellFounded
<1>2. PICK n \in N : \A m \in N : ~(<<m, n>> \in R)
  <2> HIDE DEF R
  <2> QED BY <1>1, WFMin
<1>3. ASSUME NEW m \in N PROVE n <= m
  <2>1. ~(m < n)
    BY <1>2, <1>3 DEF OpToRel
  <2> QED BY <2>1
<1> QED BY <1>3

\* And a largest one, when it is finite: a set without one that has the fewest
\* elements would leave one behind when it loses an element.
LEMMA GreatestNumber ==
    ASSUME NEW N, N \subseteq Nat, N # {}, IsFiniteSet(N)
    PROVE  \E n \in N : \A m \in N : m <= n
<1> SUFFICES ASSUME ~ \E n \in N : \A m \in N : m <= n
             PROVE  FALSE
  OBVIOUS
<1> DEFINE Endless(T) == T # {} /\ ~ \E n \in T : \A m \in T : m <= n
           sizes == {k \in Nat : \E T \in SUBSET N : Cardinality(T) = k /\ Endless(T)}
<1>1. \A T \in SUBSET N : IsFiniteSet(T) /\ Cardinality(T) \in Nat
  BY FS_Subset, FS_CardinalityType
<1>2. Cardinality(N) \in sizes
  BY <1>1
<1>3. PICK k \in sizes : \A j \in sizes : k <= j
  <2>1. sizes \subseteq Nat
    OBVIOUS
  <2> HIDE DEF sizes
  <2> QED BY <1>2, <2>1, LeastNumber
<1>4. PICK T \in SUBSET N : Cardinality(T) = k /\ Endless(T)
  OBVIOUS
<1>5. PICK t \in T : TRUE
  BY <1>4
<1> DEFINE U == T \ {t}
<1>6. IsFiniteSet(U) /\ Cardinality(U) = k - 1 /\ k \in Nat /\ Cardinality(U) \in Nat
  BY <1>1, <1>4, <1>5, FS_RemoveElement, FS_CardinalityType
<1>7. ~Endless(U)
  <2>1. SUFFICES ASSUME Endless(U) PROVE FALSE
    OBVIOUS
  <2>2. Cardinality(U) \in sizes
    BY <1>6, <2>1
  <2> HIDE DEF sizes, U, Endless
  <2> QED BY <1>3, <1>6, <2>2
<1>8. CASE U = {}
  <2>1. T = {t} /\ t \in Nat
    BY <1>5, <1>8
  <2> QED BY <1>4, <2>1
<1>9. CASE U # {}
  <2>1. PICK m \in U : \A j \in U : j <= m
    BY <1>7, <1>9
  <2>2. m \in Nat /\ t \in Nat /\ \A j \in U : j \in Nat
    BY <1>5, <2>1
  <2>3. CASE t <= m
    <3>1. \A j \in T : j <= m
      BY <2>1, <2>3
    <3> QED BY <1>4, <2>1, <3>1
  <2>4. CASE m < t
    <3>1. \A j \in T : j <= t
      BY <2>1, <2>2, <2>4
    <3> QED BY <1>4, <1>5, <3>1
  <2> QED BY <2>2, <2>3, <2>4
<1> QED BY <1>8, <1>9

LEMMA MinIsLeast ==
    ASSUME NEW N, N \subseteq Nat, N # {}
    PROVE  Sets!Min(N) \in N /\ \A m \in N : Sets!Min(N) <= m
<1>1. PICK n \in N : \A m \in N : n <= m
  BY LeastNumber
<1> QED BY <1>1 DEF Sets!Min

LEMMA MaxIsGreatest ==
    ASSUME NEW N, N \subseteq Nat, N # {}, IsFiniteSet(N)
    PROVE  Sets!Max(N) \in N /\ \A m \in N : m <= Sets!Max(N)
<1>1. PICK n \in N : \A m \in N : m <= n
  BY GreatestNumber
<1>2. \A m \in N : n >= m
  BY <1>1
<1>3. /\ (CHOOSE x \in N : \A y \in N : x >= y) \in N
      /\ \A m \in N : (CHOOSE x \in N : \A y \in N : x >= y) >= m
  BY <1>2
<1> QED BY <1>3 DEF Sets!Max

\* The panel of a ledger is finite, and so are the days of each of its SKUs.
LEMMA PanelTyped ==
    ASSUME NEW lines \in Ledgers
    PROVE  Cleaned(lines) \subseteq LineRecords /\ IsFiniteSet(Cleaned(lines))
<1>1. Cleaned(lines) \subseteq lines
  BY DEF Cleaned
<1>2. lines \subseteq LineRecords /\ IsFiniteSet(lines)
  BY ForecastAssumption DEF LineRecords
<1> QED BY <1>1, <1>2, FS_Subset

LEMMA DaysTyped ==
    ASSUME NEW L, L \subseteq LineRecords, IsFiniteSet(L)
    PROVE  {l.day : l \in L} \subseteq Nat /\ IsFiniteSet({l.day : l \in L})
<1>1. {l.day : l \in L} \subseteq Nat
  BY DEF LineRecords
<1> DEFINE f == [l \in L |-> l.day]
<1>2. f \in Surjection(L, {l.day : l \in L})
  BY DEF Surjection
<1>3. IsFiniteSet({l.day : l \in L})
  <2> HIDE DEF f
  <2> QED BY <1>2, FS_Surjection
<1> QED BY <1>1, <1>3

UpTo(panel, d) == {l \in panel : l.day <= d}

\* The lines of a SKU on a day are there as soon as that day is.
LEMMA DaySeen ==
    ASSUME NEW panel, panel \subseteq LineRecords, NEW d \in Int, NEW c \in Int, c <= d, NEW s
    PROVE  OnDay(OfSku(UpTo(panel, d), s), c) = OnDay(OfSku(panel, s), c)
BY DEF OnDay, OfSku, UpTo, LineRecords

\* A row with a lag7 lies after the first day of its SKU, which earlier days know.
LEMMA RowStarts ==
    ASSUME NEW panel, panel \subseteq LineRecords, IsFiniteSet(panel), NEW r \in DataRows(panel)
    PROVE  /\ r \in RowRecords /\ r.day \in Nat
           /\ r.day - LongLag \in Int /\ r.day - LongLag <= r.day - 1
           /\ FirstDay(UpTo(panel, r.day - 1), r.sku) = FirstDay(panel, r.sku)
           /\ \E l \in OfSku(panel, r.sku) : l.day <= r.day - 1
<1>a. LongLag \in Nat /\ LongLag >= 1
  BY ForecastAssumption
<1>0. PICK s \in SkusOf(panel) :
         r \in {[sku |-> s, day |-> d] : d \in FirstDay(panel, s)..LastDay(panel, s)}
  BY DEF DataRows, PanelRows
<1>1. PICK d \in FirstDay(panel, s)..LastDay(panel, s) : r = [sku |-> s, day |-> d]
  BY <1>0
<1>2. r.sku = s /\ r.day = d /\ r.day - LongLag >= FirstDay(panel, s)
  BY <1>1 DEF DataRows
<1> DEFINE days == {l.day : l \in OfSku(panel, s)}
           seen == {l.day : l \in OfSku(UpTo(panel, r.day - 1), s)}
<1>3. OfSku(panel, s) \subseteq LineRecords /\ IsFiniteSet(OfSku(panel, s)) /\ days # {}
  BY FS_Subset DEF OfSku, SkusOf
<1>4. days \subseteq Nat
  BY <1>3, DaysTyped
<1>5. FirstDay(panel, s) \in days /\ \A m \in days : FirstDay(panel, s) <= m
  <2> HIDE DEF days
  <2>1. Sets!Min(days) \in days /\ \A m \in days : Sets!Min(days) <= m
    BY <1>3, <1>4, MinIsLeast
  <2> QED BY <2>1 DEF FirstDay, days
<1>6. s \in Nat /\ d \in Nat
  <2>1. s \in Nat
    BY DEF SkusOf, LineRecords
  <2>2. FirstDay(panel, s) \in Nat
    BY <1>4, <1>5
  <2> QED BY <2>1, <2>2
<1>7. r \in RowRecords /\ r.day \in Nat
  BY <1>1, <1>2, <1>6 DEF RowRecords
<1>8. FirstDay(panel, s) <= r.day - 1 /\ FirstDay(panel, s) \in Nat
  BY <1>2, <1>4, <1>5, <1>6, <1>a
<1>9. PICK l \in OfSku(panel, s) : l.day = FirstDay(panel, s)
  BY <1>5
<1>10. seen \subseteq days /\ FirstDay(panel, s) \in seen
  BY <1>8, <1>9 DEF OfSku, UpTo
<1>11. FirstDay(UpTo(panel, r.day - 1), s) = FirstDay(panel, s)
  <2> HIDE DEF days, seen
  <2>1. seen \subseteq Nat /\ seen # {}
    BY <1>4, <1>10
  <2>2. Sets!Min(seen) \in seen /\ \A m \in seen : Sets!Min(seen) <= m
    BY <2>1, MinIsLeast
  <2>3. Sets!Min(seen) = FirstDay(panel, s)
    <3>1. FirstDay(panel, s) <= Sets!Min(seen)
      BY <1>5, <1>10, <2>2
    <3>2. Sets!Min(seen) <= FirstDay(panel, s)
      BY <1>10, <2>2
    <3>3. Sets!Min(seen) \in Nat /\ FirstDay(panel, s) \in Nat
      BY <1>4, <1>5, <2>1, <2>2
    <3> QED BY <3>1, <3>2, <3>3
  <2> QED BY <2>3 DEF FirstDay, seen
<1> QED BY <1>2, <1>6, <1>7, <1>8, <1>9, <1>11, <1>a

\* What happened on a day does not depend on what came after.
LEMMA UnitsSeen ==
    ASSUME NEW panel, panel \subseteq LineRecords, NEW r \in RowRecords, NEW d \in Int,
           d <= r.day - 1, NEW cap
    PROVE  /\ DayUnits(UpTo(panel, r.day - 1), OtherDay(r, d)) = DayUnits(panel, OtherDay(r, d))
           /\ Clipped(UpTo(panel, r.day - 1), cap, OtherDay(r, d)) = Clipped(panel, cap, OtherDay(r, d))
<1>1. OtherDay(r, d).sku = r.sku /\ OtherDay(r, d).day = d
  BY DEF OtherDay, RowRecords
<1>2. r.day - 1 \in Int
  BY DEF RowRecords
<1>3. OnDay(OfSku(UpTo(panel, r.day - 1), r.sku), d) = OnDay(OfSku(panel, r.sku), d)
  BY <1>2, DaySeen
<1>4. DayUnits(UpTo(panel, r.day - 1), OtherDay(r, d)) = DayUnits(panel, OtherDay(r, d))
  BY <1>1, <1>3 DEF DayUnits
<1> QED BY <1>4 DEF Clipped

LEMMA RollsSeen ==
    ASSUME NEW panel, panel \subseteq LineRecords, IsFiniteSet(panel), NEW r \in DataRows(panel),
           NEW cap, NEW w \in Nat
    PROVE  /\ RolledDays(UpTo(panel, r.day - 1), r, w) = RolledDays(panel, r, w)
           /\ RollSum(UpTo(panel, r.day - 1), cap, r, w) = RollSum(panel, cap, r, w)
           /\ RollNonzero(UpTo(panel, r.day - 1), r, w) = RollNonzero(panel, r, w)
<1> DEFINE past == UpTo(panel, r.day - 1)
           days == RolledDays(panel, r, w)
<1>a. r \in RowRecords /\ r.day \in Nat /\ FirstDay(past, r.sku) = FirstDay(panel, r.sku)
  BY RowStarts
<1>1. RolledDays(past, r, w) = days
  BY <1>a DEF RolledDays
<1>2. \A d \in days : d \in Int /\ d <= r.day - 1
  BY <1>a DEF RolledDays, Rolling
<1>3. \A d \in days : /\ DayUnits(past, OtherDay(r, d)) = DayUnits(panel, OtherDay(r, d))
                      /\ Clipped(past, cap, OtherDay(r, d)) = Clipped(panel, cap, OtherDay(r, d))
  BY <1>a, <1>2, UnitsSeen
<1> HIDE DEF past, days
<1>4. [d \in days |-> Clipped(past, cap, OtherDay(r, d))]
         = [d \in days |-> Clipped(panel, cap, OtherDay(r, d))]
  BY <1>3
<1>5. {d \in days : DayUnits(past, OtherDay(r, d)) > 0}
         = {d \in days : DayUnits(panel, OtherDay(r, d)) > 0}
  BY <1>3
<1>6. RollSum(past, cap, r, w) = RollSum(panel, cap, r, w)
  <2>1. RollSum(past, cap, r, w) = Sets!SumFunction([d \in days |-> Clipped(past, cap, OtherDay(r, d))])
    BY <1>1 DEF RollSum
  <2>2. RollSum(panel, cap, r, w) = Sets!SumFunction([d \in days |-> Clipped(panel, cap, OtherDay(r, d))])
    BY DEF RollSum, days
  <2> QED BY <1>4, <2>1, <2>2
<1>7. RollNonzero(past, r, w) = RollNonzero(panel, r, w)
  BY <1>1, <1>5 DEF RollNonzero, days
<1> QED BY <1>1, <1>6, <1>7 DEF past, days

\* The lagged features of a row can be had from the days before it.
LEMMA LagsFromThePast ==
    ASSUME NEW panel, panel \subseteq LineRecords, IsFiniteSet(panel), NEW r \in DataRows(panel),
           NEW cap
    PROVE  LagFeatures(panel, cap, r) = LagFeatures(UpTo(panel, r.day - 1), cap, r)
<1> DEFINE past == UpTo(panel, r.day - 1)
<1>a. /\ r \in RowRecords /\ r.day \in Nat /\ r.day - 1 \in Int /\ r.day - LongLag \in Int
      /\ r.day - LongLag <= r.day - 1
  BY RowStarts
<1>b. PrePeriod \in Nat /\ \A w \in Rolls : w \in Nat
  BY ForecastAssumption
<1>1. /\ RollSum(past, cap, r, PrePeriod) = RollSum(panel, cap, r, PrePeriod)
      /\ \A w \in Rolls : /\ RolledDays(past, r, w) = RolledDays(panel, r, w)
                          /\ RollSum(past, cap, r, w) = RollSum(panel, cap, r, w)
                          /\ RollNonzero(past, r, w) = RollNonzero(panel, r, w)
  BY <1>b, RollsSeen
<1>2. /\ Clipped(past, cap, OtherDay(r, r.day - 1)) = Clipped(panel, cap, OtherDay(r, r.day - 1))
      /\ Clipped(past, cap, OtherDay(r, r.day - LongLag))
            = Clipped(panel, cap, OtherDay(r, r.day - LongLag))
  BY <1>a, UnitsSeen
<1> HIDE DEF past
<1>3. /\ [w \in Rolls |-> Mean(RollSum(past, cap, r, w), RolledDays(past, r, w))]
            = [w \in Rolls |-> Mean(RollSum(panel, cap, r, w), RolledDays(panel, r, w))]
      /\ [w \in Rolls |-> Mean(RollNonzero(past, r, w), RolledDays(past, r, w))]
            = [w \in Rolls |-> Mean(RollNonzero(panel, r, w), RolledDays(panel, r, w))]
  BY <1>1
<1>4. LagFeatures(panel, cap, r) = LagFeatures(past, cap, r)
  BY <1>1, <1>2, <1>3 DEF LagFeatures
<1> QED BY <1>4 DEF past

\* The price of a row is that of its day or of one before.
LEMMA PriceFromThePast ==
    ASSUME NEW panel, panel \subseteq LineRecords, IsFiniteSet(panel), NEW r \in DataRows(panel)
    PROVE  PricedOn(panel, r) = PricedOn(UpTo(panel, r.day), r)
<1> DEFINE lines == {k \in OfSku(panel, r.sku) : k.day <= r.day}
           days == {l.day : l \in lines}
<1>1. r.day \in Nat /\ \E l \in OfSku(panel, r.sku) : l.day <= r.day - 1
  BY RowStarts
<1>2. lines \subseteq LineRecords /\ IsFiniteSet(lines)
  BY FS_Subset DEF OfSku
<1>3. days \subseteq Nat /\ IsFiniteSet(days)
  BY <1>2, DaysTyped
<1>4. days # {} /\ \A d \in days : d <= r.day
  BY <1>1, <1>2 DEF OfSku, LineRecords
<1>5. lines = {k \in OfSku(UpTo(panel, r.day), r.sku) : k.day <= r.day}
  BY DEF OfSku, UpTo
<1>6. /\ PricedOn(panel, r) = OnDay(OfSku(panel, r.sku), Sets!Max(days))
      /\ PricedOn(UpTo(panel, r.day), r) = OnDay(OfSku(UpTo(panel, r.day), r.sku), Sets!Max(days))
  BY <1>5 DEF PricedOn
<1>d. \A d \in days : d \in Int /\ d <= r.day
  BY <1>3, <1>4
<1> HIDE DEF days
<1>7. Sets!Max(days) \in Int /\ Sets!Max(days) <= r.day
  <2>1. Sets!Max(days) \in days
    BY <1>3, <1>4, MaxIsGreatest
  <2> QED BY <1>d, <2>1
<1>8. OnDay(OfSku(UpTo(panel, r.day), r.sku), Sets!Max(days)) = OnDay(OfSku(panel, r.sku), Sets!Max(days))
  BY <1>1, <1>7, DaySeen
<1> QED BY <1>6, <1>8

\* The values of a function on a finite set.
LEMMA ValuesFinite ==
    ASSUME NEW X, IsFiniteSet(X), NEW f, DOMAIN f = X, NEW Y, Y \subseteq X
    PROVE  IsFiniteSet({f[x] : x \in Y})
<1>1. IsFiniteSet(Y)
  BY FS_Subset
<1> DEFINE g == [x \in Y |-> f[x]]
<1>2. g \in Surjection(Y, {f[x] : x \in Y})
  BY DEF Surjection
<1> HIDE DEF g
<1> QED BY <1>1, <1>2, FS_Surjection

\* There is a k-th smallest value: the least one that more than k values do not exceed.
LEMMA NthIsValue ==
    ASSUME NEW X, IsFiniteSet(X), X # {}, NEW f \in [X -> Nat], NEW k \in Nat, k < Cardinality(X)
    PROVE  Nth(f, k) \in Nat
<1> DEFINE V == {f[x] : x \in X}
           Below(v) == {x \in X : f[x] < v}
           AtMost(v) == {x \in X : f[x] <= v}
           S == {v \in V : k < Cardinality(AtMost(v))}
<1>1. V \subseteq Nat /\ V # {} /\ IsFiniteSet(V) /\ DOMAIN f = X
  <2>1. DOMAIN f = X /\ V \subseteq Nat /\ V # {}
    OBVIOUS
  <2> QED BY <2>1, ValuesFinite
<1>2. \A v : IsFiniteSet(Below(v)) /\ IsFiniteSet(AtMost(v))
             /\ Cardinality(Below(v)) \in Nat /\ Cardinality(AtMost(v)) \in Nat
  BY FS_Subset, FS_CardinalityType
<1>3. S # {}
  <2>1. PICK m \in V : \A v \in V : v <= m
    <3> HIDE DEF V
    <3> QED BY <1>1, GreatestNumber
  <2>2. AtMost(m) = X
    BY <2>1
  <2> HIDE DEF AtMost, V
  <2> QED BY <2>1, <2>2
<1>4. PICK v \in S : \A u \in S : v <= u
  <2>1. S \subseteq Nat
    BY <1>1
  <2> HIDE DEF S
  <2> QED BY <1>3, <2>1, LeastNumber
<1>5. v \in V /\ v \in Nat /\ k < Cardinality(AtMost(v))
  BY <1>1, <1>4
<1>6. Cardinality(Below(v)) <= k
  <2>1. CASE Below(v) = {}
    <3>1. Cardinality(Below(v)) = 0
      BY <2>1, FS_EmptySet
    <3> QED BY <3>1
  <2>2. CASE Below(v) # {}
    <3> DEFINE W == {f[x] : x \in Below(v)}
    <3>1. W \subseteq V /\ W # {} /\ \A w \in W : w < v
      BY <2>2
    <3>2. IsFiniteSet(W)
      <4>1. Below(v) \subseteq X
        OBVIOUS
      <4> HIDE DEF Below
      <4> QED BY <1>1, <4>1, ValuesFinite
    <3>3. PICK w \in W : \A u \in W : u <= w
      <4>1. W \subseteq Nat
        BY <1>1, <3>1
      <4> HIDE DEF W
      <4> QED BY <3>1, <3>2, <4>1, GreatestNumber
    <3>4. w \in V /\ w \in Nat /\ w < v
      BY <1>1, <3>1, <3>3
    <3>5. AtMost(w) = Below(v)
      <4>1. ASSUME NEW x \in X, f[x] <= w PROVE f[x] < v
        <5>1. f[x] \in Nat
          OBVIOUS
        <5> HIDE DEF W, V
        <5> QED BY <1>5, <3>4, <4>1, <5>1
      <4>2. ASSUME NEW x \in X, f[x] < v PROVE f[x] <= w
        <5>1. f[x] \in W
          BY <4>2
        <5> HIDE DEF W
        <5> QED BY <3>3, <5>1
      <4> QED BY <4>1, <4>2
    <3>6. ~(k < Cardinality(AtMost(w)))
      <4>1. w \notin S
        <5> HIDE DEF S
        <5> QED BY <1>4, <1>5, <3>4
      <4> HIDE DEF AtMost
      <4> QED BY <3>4, <4>1
    <3> HIDE DEF AtMost, Below
    <3> QED BY <1>2, <3>5, <3>6
  <2> QED BY <2>1, <2>2
<1>7. \E u \in {f[x] : x \in DOMAIN f} :
         /\ Cardinality({x \in DOMAIN f : f[x] < u}) <= k
         /\ k < Cardinality({x \in DOMAIN f : f[x] <= u})
  BY <1>1, <1>5, <1>6
<1>8. Nth(f, k) \in {f[x] : x \in DOMAIN f}
  BY <1>7 DEF Nth
<1> QED BY <1>1, <1>8

LEMMA RowsFinite ==
    ASSUME NEW panel, panel \subseteq LineRecords, IsFiniteSet(panel)
    PROVE  IsFiniteSet(DataRows(panel))
<1>1. CASE panel = {}
  <2>1. DataRows(panel) = {}
    BY <1>1 DEF DataRows, PanelRows, SkusOf
  <2> QED BY <2>1, FS_EmptySet
<1>2. CASE panel # {}
  <2> DEFINE days == {l.day : l \in panel}
             skus == SkusOf(panel)
  <2>1. days \subseteq Nat /\ IsFiniteSet(days)
    BY DaysTyped
  <2>2. PICK last \in days : \A d \in days : d <= last
    <3>1. days # {}
      BY <1>2
    <3> HIDE DEF days
    <3> QED BY <2>1, <3>1, GreatestNumber
  <2>3. IsFiniteSet(skus)
    <3> DEFINE g == [l \in panel |-> l.sku]
    <3>1. g \in Surjection(panel, skus)
      BY DEF Surjection, SkusOf
    <3> HIDE DEF g, skus
    <3> QED BY <3>1, FS_Surjection
  <2>4. last \in Nat /\ IsFiniteSet(0..last)
    <3>1. last \in Nat
      BY <2>1
    <3> QED BY <3>1, FS_Interval
  <2> DEFINE pairs == skus \X (0..last)
             g == [p \in pairs |-> [sku |-> p[1], day |-> p[2]]]
             rows == {g[p] : p \in pairs}
  <2>5. IsFiniteSet(rows)
    <3>1. IsFiniteSet(pairs)
      <4> HIDE DEF skus
      <4> QED BY <2>3, <2>4, FS_Product
    <3>2. g \in Surjection(pairs, rows)
      BY DEF Surjection
    <3> HIDE DEF g, pairs, rows
    <3> QED BY <3>1, <3>2, FS_Surjection
  <2>6. ASSUME NEW r \in DataRows(panel) PROVE r \in rows
    <3>0. PICK s \in SkusOf(panel) :
             r \in {[sku |-> s, day |-> d] : d \in FirstDay(panel, s)..LastDay(panel, s)}
      BY DEF DataRows, PanelRows
    <3>1. PICK d \in FirstDay(panel, s)..LastDay(panel, s) : r = [sku |-> s, day |-> d]
      BY <3>0
    <3> DEFINE own == {l.day : l \in OfSku(panel, s)}
    <3>2. OfSku(panel, s) \subseteq LineRecords /\ IsFiniteSet(OfSku(panel, s)) /\ own # {}
      BY FS_Subset DEF OfSku, SkusOf
    <3>3. own \subseteq Nat /\ IsFiniteSet(own) /\ own \subseteq days
      BY <3>2, DaysTyped DEF OfSku
    <3>4. LastDay(panel, s) \in own
      <4> HIDE DEF own
      <4>1. Sets!Max(own) \in own
        BY <3>2, <3>3, MaxIsGreatest
      <4> QED BY <4>1 DEF LastDay, own
    <3>5. LastDay(panel, s) \in Nat /\ LastDay(panel, s) <= last
      <4> HIDE DEF own, days
      <4> QED BY <2>2, <3>3, <3>4
    <3>6. r.day \in Nat /\ r.day = d
      BY <3>1, RowStarts
    <3>7. d <= LastDay(panel, s)
      BY <3>1
    <3>8. d \in 0..last
      <4> HIDE DEF days
      <4> QED BY <2>4, <3>5, <3>6, <3>7
    <3>9. <<s, d>> \in pairs
      BY <3>8
    <3>10. g[<<s, d>>] = r
      BY <3>1, <3>9
    <3> HIDE DEF pairs, g
    <3> QED BY <3>9, <3>10
  <2> HIDE DEF rows
  <2>7. DataRows(panel) \subseteq rows
    BY <2>6
  <2> QED BY <2>5, <2>7, FS_Subset
<1> QED BY <1>1, <1>2

\* The cut between training and test days is a number.
LEMMA CutIsNumber ==
    ASSUME NEW rows, IsFiniteSet(rows), rows # {}, \A r \in rows : r.day \in Nat
    PROVE  Cut(rows) \in Int
<1> DEFINE f == [r \in rows |-> r.day]
           n == Cardinality(rows)
           rank == (n - 1) * 4
           k == rank \div 5
<1>1. f \in [rows -> Nat] /\ DOMAIN f = rows
  OBVIOUS
<1>2. n \in Nat /\ n >= 1
  <2>1. n \in Nat /\ n # 0
    BY FS_CardinalityType, FS_EmptySet
  <2> QED BY <2>1
<1> HIDE DEF f, n
<1>3. rank \in Nat /\ rank % 5 \in Int /\ k \in Int /\ rank = 5 * k + (rank % 5)
      /\ 0 <= rank % 5 /\ rank % 5 <= 4
  <2>1. rank \in Nat
    BY <1>2
  <2> HIDE DEF rank
  <2> QED BY <2>1
<1>4. k \in Nat /\ k < n /\ (rank % 5 # 0 => k + 1 < n)
  <2> HIDE DEF k
  <2>1. rank = 4 * n - 4
    BY <1>2
  <2> HIDE DEF rank
  <2> DEFINE m == rank % 5
  <2>2. m \in Int /\ 0 <= m /\ m <= 4 /\ 4 * n - 4 = 5 * k + m /\ k \in Int /\ n \in Nat /\ n >= 1
    BY <1>2, <1>3, <2>1
  <2> HIDE DEF m
  <2>3. k \in Nat /\ k < n /\ (m # 0 => k + 1 < n)
    BY <2>2
  <2> QED BY <2>3 DEF m
<1>5. Nth(f, k) \in Nat
  <2> HIDE DEF k
  <2> QED BY <1>1, <1>4, NthIsValue DEF n
<1>6. rank % 5 # 0 => Nth(f, k + 1) \in Nat
  <2> HIDE DEF k, rank
  <2>1. k + 1 \in Nat
    BY <1>4
  <2> QED BY <1>1, <1>4, <2>1, NthIsValue DEF n
<1>7. Cut(rows) = LET low == Nth(f, k)
                      high == IF rank % 5 = 0 THEN low ELSE Nth(f, k + 1)
                  IN low * 5 + (high - low) * (rank % 5)
  <2>1. TestShare = 5 /\ TestShare - 1 = 4
    BY DEF TestShare
  <2>2. Cut(rows) = QuantileOf(f, 4, 5)
    BY <2>1 DEF Cut, f
  <2> QED BY <1>1, <2>2 DEF QuantileOf, n
<1> DEFINE low == Nth(f, k)
           high == IF rank % 5 = 0 THEN low ELSE Nth(f, k + 1)
           m == rank % 5
<1>8. low \in Int /\ high \in Int /\ m \in Int
  BY <1>3, <1>5, <1>6
<1>9. Cut(rows) = low * 5 + (high - low) * m
  BY <1>7
<1> HIDE DEF low, high, m
<1> QED BY <1>8, <1>9

LEMMA FitFromThePast ==
    ASSUME ledger \in Ledgers, forecast = Fit
    PROVE  TrainedOnThePast
<1> DEFINE panel == Cleaned(ledger)
           rows == DataRows(panel)
           cap == Cap(panel)
<1>1. panel \subseteq LineRecords /\ IsFiniteSet(panel)
  BY PanelTyped
<1>2. IsFiniteSet(rows) /\ \A r \in rows : r.day \in Nat
  <2> HIDE DEF panel
  <2> QED BY <1>1, RowsFinite, RowStarts
<1>3. \/ forecast.train = {} /\ forecast.test = {}
      \/ /\ rows # {}
         /\ forecast.train = Examples(panel, TrainRows(rows))
         /\ forecast.test = Examples(panel, TestRows(rows))
  BY DEF Fit, Nothing
<1>4. \A e \in forecast.train \cup forecast.test : \E r \in rows : e = Example(panel, cap, r)
  BY <1>3 DEF Examples, TrainRows, TestRows
<1> HIDE DEF panel
<1>5. ASSUME NEW e \in forecast.train \cup forecast.test
      PROVE  /\ e.lags = LagFeatures(UpTo(panel, e.row.day - 1), cap, e.row)
             /\ e.others.base_price = PricedOn(UpTo(panel, e.row.day), e.row)
  <2>1. PICK r \in rows : e = Example(panel, cap, r)
    BY <1>4
  <2>2. /\ e.row = r /\ e.lags = LagFeatures(panel, cap, r)
        /\ e.others.base_price = PricedOn(panel, r)
    BY <2>1 DEF Example, OtherFeatures
  <2> HIDE DEF cap
  <2>3. LagFeatures(panel, cap, r) = LagFeatures(UpTo(panel, r.day - 1), cap, r)
    BY <1>1, LagsFromThePast
  <2>4. PricedOn(panel, r) = PricedOn(UpTo(panel, r.day), r)
    BY <1>1, PriceFromThePast
  <2> QED BY <2>2, <2>3, <2>4
<1>6. ASSUME NEW e \in forecast.train, NEW t \in forecast.test
      PROVE  TargetDay(e.row) < t.row.day
  <2>1. PICK r \in TrainRows(rows) : e = Example(panel, cap, r)
    BY <1>3, <1>6 DEF Examples
  <2>2. PICK q \in TestRows(rows) : t = Example(panel, cap, q)
    BY <1>3, <1>6 DEF Examples
  <2>3. e.row = r /\ t.row = q
    BY <2>1, <2>2 DEF Example
  <2>4. r \in rows /\ q \in rows
    BY <2>1, <2>2 DEF TrainRows, TestRows
  <2> HIDE DEF rows
  <2>5. r.day \in Nat /\ q.day \in Nat /\ Cut(rows) \in Int
    BY <1>2, <2>4, CutIsNumber
  <2>6. 5 * r.day <= Cut(rows) - 5 /\ 5 * q.day > Cut(rows)
    BY <2>1, <2>2 DEF TrainRows, TestRows, TestShare
  <2>7. r.day + 1 < q.day
    BY <2>5, <2>6
  <2> QED BY <2>3, <2>7 DEF TargetDay
<1>7. \A d : {l \in panel : l.day <= d} = UpTo(panel, d)
  BY DEF UpTo
<1> QED BY <1>5, <1>6, <1>7 DEF TrainedOnThePast, panel, UpTo

\* A sample that is served was trained on the ledger that is there, or is the
\* empty one.
ForecastInv == ledger \in Ledgers /\ (forecast = Nothing \/ forecast = Fit)

LEMMA ForecastInvNext ==
    ASSUME ForecastInv, [ForecastNext]_forecastVars
    PROVE  ForecastInv'
<1>1. ledger' = ledger /\ (forecast' = forecast \/ forecast' = Fit)
  BY DEF ForecastNext, StaticSample, FindsCache, LockForecast, TrainForecast, forecastVars
<1>2. Fit' = Fit
  BY <1>1 DEF Fit
<1> QED BY <1>1, <1>2 DEF ForecastInv

\* For every finite ledger, every number of callers and all window lengths, no row a
\* model is trained or judged on shows it anything of the days it is to foretell.
THEOREM TrainsOnThePast == ForecastSpec => []TrainedOnThePast
<1>1. ForecastInit => ForecastInv
  BY DEF ForecastInit, ForecastInv
<1>2. ForecastInv /\ [ForecastNext]_forecastVars => ForecastInv'
  BY ForecastInvNext
<1>3. ForecastInv => TrainedOnThePast
  <2>1. ASSUME forecast = Nothing PROVE TrainedOnThePast
    <3>1. forecast.train = {} /\ forecast.test = {}
      BY <2>1 DEF Nothing
    <3> QED BY <3>1 DEF TrainedOnThePast
  <2> QED BY <2>1, FitFromThePast DEF ForecastInv
<1> QED BY <1>1, <1>2, <1>3, PTL DEF ForecastSpec

-----------------------------------------------------------------------------
(* The programs side by side *)

\* A behaviour of the six programs is a behaviour of each of them.
THEOREM EachRunsAlone ==
    Spec => ClientSpec /\ PilotSpec /\ ForecastSpec /\ VerifySpec /\ MaintSpec /\ MigrationsSpec
<1>1. Init => ClientInit /\ PilotInit /\ ForecastInit /\ VerifyInit /\ MaintInit /\ MigrationsInit
  BY DEF Init
<1> USE DEF allVars, Next, Shopping, Piloting, Forecasting, Verifying, Maintaining, Migrating
<1>2. [Next]_allVars => [ClientNext]_clientVars
  OBVIOUS
<1>3. [Next]_allVars => [PilotNext]_pilotVars
  OBVIOUS
<1>4. [Next]_allVars => [ForecastNext]_forecastVars
  OBVIOUS
<1>5. [Next]_allVars => [VerifyNext]_verifyVars
  OBVIOUS
<1>6. [Next]_allVars => [MaintNext]_maintVars
  OBVIOUS
<1>7. [Next]_allVars => [MigrationsNext]_migrationVars
  OBVIOUS
<1> QED BY <1>1, <1>2, <1>3, <1>4, <1>5, <1>6, <1>7, PTL
        DEF Spec, ClientSpec, PilotSpec, ForecastSpec, VerifySpec, MaintSpec, MigrationsSpec

\* What the run checks on small instances holds of all of them.
THEOREM ScriptsHold ==
    Spec => [](/\ ReportsMatchOrders /\ NobodyAdmittedInVain /\ TrainedOnThePast
               /\ VerdictIsRight /\ ScriptsAndStartsSucceed)
BY EachRunsAlone, ReportsAreTrue, StockPolicyAdmitsForUnits, TrainsOnThePast, VerdictHolds,
   ScriptsAndStarts, PTL
=============================================================================
