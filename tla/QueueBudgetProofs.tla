-------------------------- MODULE QueueBudgetProofs --------------------------
(***************************************************************************)
(* The counters of the request-unit budget agree with the reservations and *)
(* stay below the cap, for any work keys, cap and units (QueueBudget).     *)
(***************************************************************************)
EXTENDS QueueBudget, FiniteSetTheorems, TLAPS

\* The records are typed, each is charged for no more than it reserved, and
\* none reserves more than the cap, so that every unit is counted.
IInv ==
    /\ records \in [Works -> QueueReservation]
    /\ receipts \subseteq Works \X Units
    /\ \A w \in Works : /\ records[w].consumed <= records[w].total
                        /\ records[w].total <= requestCap
    /\ CountersMatchRecords
    /\ CapHolds

\* The units of a work key from the one after a up to b.
Slab(w, a, b) == {w} \X (a + 1..b)

\* It has b - a of them.
LEMMA SlabSize ==
    ASSUME NEW w, NEW a \in Nat, NEW b \in Nat, a <= b
    PROVE  IsFiniteSet(Slab(w, a, b)) /\ Cardinality(Slab(w, a, b)) = b - a
  <1>1. IsFiniteSet({w}) /\ Cardinality({w}) = 1
    BY FS_Singleton
  <1>2. PICK T : T = a + 1..b
    OBVIOUS
  <1>3. IsFiniteSet(T) /\ Cardinality(T) = b - a
    <2>1. PICK low \in Int : low = a + 1
      OBVIOUS
    <2>2. IsFiniteSet(low..b) /\ Cardinality(low..b) = IF low > b THEN 0 ELSE b - low + 1
      BY FS_Interval
    <2>3. T = low..b
      BY <1>2, <2>1
    <2> QED BY <2>1, <2>2, <2>3
  <1>4. IsFiniteSet({w} \X T) /\ Cardinality({w} \X T) = Cardinality({w}) * Cardinality(T)
    BY <1>1, <1>3, FS_Product
  <1>5. Slab(w, a, b) = {w} \X T
    BY <1>2 DEF Slab
  <1> QED BY <1>1, <1>3, <1>4, <1>5

\* Adding units that are not there adds their number, taking units that are there
\* away subtracts it.
LEMMA AddSlab ==
    ASSUME NEW S, IsFiniteSet(S), NEW w, NEW a \in Nat, NEW b \in Nat, a <= b,
           S \cap Slab(w, a, b) = {}
    PROVE  Cardinality(S \cup Slab(w, a, b)) = Cardinality(S) + (b - a)
  <1>1. Cardinality({}) = 0 /\ Cardinality(S) \in Nat
    BY FS_EmptySet, FS_CardinalityType
  <1>2. IsFiniteSet(Slab(w, a, b)) /\ Cardinality(Slab(w, a, b)) = b - a
    BY SlabSize
  <1>3. Cardinality(S \cup Slab(w, a, b))
          = Cardinality(S) + Cardinality(Slab(w, a, b)) - Cardinality(S \cap Slab(w, a, b))
    BY <1>2, FS_Union
  <1>4. Cardinality(S \cap Slab(w, a, b)) = 0
    BY <1>1
  <1> QED BY <1>1, <1>2, <1>3, <1>4

LEMMA RemoveSlab ==
    ASSUME NEW S, IsFiniteSet(S), NEW w, NEW a \in Nat, NEW b \in Nat, a <= b,
           Slab(w, a, b) \subseteq S
    PROVE  Cardinality(S \ Slab(w, a, b)) = Cardinality(S) - (b - a)
  <1>1. Cardinality(Slab(w, a, b)) = b - a
    BY SlabSize
  <1>2. Cardinality(S \ Slab(w, a, b)) = Cardinality(S) - Cardinality(S \cap Slab(w, a, b))
    BY FS_Difference
  <1>3. S \cap Slab(w, a, b) = Slab(w, a, b)
    OBVIOUS
  <1> QED BY <1>1, <1>2, <1>3

\* Units are counted in finite sets.
LEMMA UnitsFinite ==
    ASSUME ConstantsTyped
    PROVE  /\ IsFiniteSet(ChargedUnits)
           /\ IsFiniteSet(OpenUnits)
           /\ Cardinality(ChargedUnits) \in Nat
           /\ Cardinality(OpenUnits) \in Nat
  <1>1. IsFiniteSet(1..requestCap)
    BY FS_Interval DEF ConstantsTyped
  <1>2. IsFiniteSet(Works \X (1..requestCap))
    BY <1>1, FS_Product DEF ConstantsTyped
  <1>3. /\ ChargedUnits \in SUBSET (Works \X (1..requestCap))
        /\ OpenUnits \in SUBSET (Works \X (1..requestCap))
    BY DEF ChargedUnits, OpenUnits
  <1>4. IsFiniteSet(ChargedUnits) /\ IsFiniteSet(OpenUnits)
    BY <1>2, <1>3, FS_Subset
  <1> QED BY <1>4, FS_CardinalityType

\* Reserving opens units of a work key that had none.
LEMMA ReserveStep ==
    ASSUME ConstantsTyped, IInv, NEW w \in Works, NEW u \in Units, Reserve(w, u)
    PROVE  IInv'
  <1> DEFINE r == [total |-> u, consumed |-> 0, state |-> "open"]
             Taken == {v \in Works : Exists(v)}
  <1>1. u \in Nat \ {0} /\ requestCap \in Nat /\ maximumWork \in Nat
    BY DEF ConstantsTyped
  <1>2. /\ used \in Nat /\ reserved \in Nat
        /\ used = Cardinality(ChargedUnits) /\ reserved = Cardinality(OpenUnits)
    BY UnitsFinite DEF IInv, CountersMatchRecords
  <1>3. /\ records' = [records EXCEPT ![w] = r]
        /\ reserved' = reserved + u /\ used' = used
        /\ receipts' = receipts \cup {<<w, u>>}
        /\ u <= requestCap - used - reserved
        /\ records[w] = noReservation
        /\ Cardinality(Taken) < maximumWork
    BY DEF Reserve, HasUnits, HasRoom, Len, Exists
  <1>4. /\ records \in [Works -> QueueReservation]
        /\ records[w].consumed = 0 /\ records[w].state = "none"
    BY <1>3 DEF IInv, noReservation
  <1>5. r \in QueueReservation /\ r.consumed = 0 /\ r.total = u /\ r.state = "open"
        /\ r # noReservation
    BY <1>1 DEF QueueReservation, noReservation
  <1> HIDE DEF r
  <1>6. ChargedUnits' = ChargedUnits
    BY <1>3, <1>4, <1>5 DEF ChargedUnits
  <1>7. /\ OpenUnits' = OpenUnits \cup Slab(w, 0, u)
        /\ OpenUnits \cap Slab(w, 0, u) = {}
    BY <1>1, <1>2, <1>3, <1>4, <1>5 DEF OpenUnits, Slab
  <1>8. Cardinality(OpenUnits') = reserved + u
    BY <1>1, <1>2, <1>7, UnitsFinite, AddSlab
  <1>9. Cardinality(Taken') <= maximumWork
    <2>1. Taken' = Taken \cup {w}
      BY <1>3, <1>4, <1>5 DEF Exists
    <2>2. IsFiniteSet(Taken)
      <3>1. Taken \in SUBSET Works
        OBVIOUS
      <3> QED BY <3>1, FS_Subset DEF ConstantsTyped
    <2>3. Cardinality(Taken) \in Nat
      BY <2>2, FS_CardinalityType
    <2>4. Cardinality(Taken \cup {w}) \in {Cardinality(Taken), Cardinality(Taken) + 1}
      BY <2>2, FS_AddElement
    <2> HIDE DEF Taken
    <2> QED BY <1>1, <1>3, <2>1, <2>3, <2>4
  <1>10. CapHolds'
    BY <1>1, <1>2, <1>3, <1>9 DEF CapHolds, Len
  <1>11. CountersMatchRecords'
    BY <1>2, <1>3, <1>6, <1>8 DEF CountersMatchRecords
  <1>12. \A v \in Works : /\ records'[v].consumed <= records'[v].total
                          /\ records'[v].total <= requestCap
    BY <1>1, <1>2, <1>3, <1>4, <1>5 DEF IInv
  <1> QED BY <1>3, <1>5, <1>10, <1>11, <1>12 DEF IInv

\* A receipt names a work key, and what its reservation holds is bounded.
LEMMA OpenReservation ==
    ASSUME ConstantsTyped, IInv, NEW w \in Works
    PROVE  /\ records[w] \in QueueReservation
           /\ records[w].total \in Nat /\ records[w].consumed \in Nat
           /\ records[w].consumed <= records[w].total /\ records[w].total <= requestCap
           /\ requestCap \in Nat
           /\ used \in Nat /\ reserved \in Nat
           /\ used = Cardinality(ChargedUnits) /\ reserved = Cardinality(OpenUnits)
  <1>1. records[w] \in QueueReservation
    BY DEF IInv
  <1>2. records[w].total \in Nat /\ records[w].consumed \in Nat
    BY <1>1 DEF QueueReservation
  <1> QED BY <1>1, <1>2, UnitsFinite DEF IInv, CountersMatchRecords, ConstantsTyped

\* A step that changes one existing reservation takes no more room.
LEMMA SameRoom ==
    ASSUME IInv, NEW w \in Works, records[w] # noReservation,
           NEW r, r # noReservation, records' = [records EXCEPT ![w] = r]
    PROVE  Len' = Len
  <1>1. {v \in Works : Exists(v)}' = {v \in Works : Exists(v)}
    BY DEF IInv, Exists
  <1> QED BY <1>1 DEF Len

\* Consuming turns open units into charged ones.
LEMMA ConsumeStep ==
    ASSUME ConstantsTyped, IInv, NEW w \in Works, NEW total, NEW u \in Units,
           Consume(w, total, u)
    PROVE  IInv'
  <1>1. PICK m : m = records[w]
    OBVIOUS
  <1>2. PICK r : r = [m EXCEPT !.consumed = @ + u]
    OBVIOUS
  <1>3. /\ m \in QueueReservation /\ m.total \in Nat /\ m.consumed \in Nat
        /\ m.total <= requestCap /\ requestCap \in Nat
        /\ used \in Nat /\ reserved \in Nat
        /\ used = Cardinality(ChargedUnits) /\ reserved = Cardinality(OpenUnits)
    BY <1>1, OpenReservation
  <1>4. /\ m.state = "open" /\ u <= m.total - m.consumed /\ u \in Nat \ {0}
        /\ records' = [records EXCEPT ![w] = r]
        /\ reserved' = reserved - u /\ used' = used + u /\ receipts' = receipts
    BY <1>1, <1>2 DEF Consume, CanConsume, ConstantsTyped
  <1>5. /\ r \in QueueReservation /\ r.consumed = m.consumed + u
        /\ r.total = m.total /\ r.state = "open"
    BY <1>2, <1>3, <1>4 DEF QueueReservation
  <1>6. m # noReservation /\ r # noReservation
    BY <1>4, <1>5 DEF noReservation
  <1> DEFINE a == m.consumed
             b == m.consumed + u
  <1>7. a \in Nat /\ b \in Nat /\ a <= b /\ b - a = u /\ b <= requestCap
    BY <1>3, <1>4
  <1>8. /\ ChargedUnits' = ChargedUnits \cup Slab(w, a, b)
        /\ ChargedUnits \cap Slab(w, a, b) = {}
    BY <1>1, <1>3, <1>4, <1>5, <1>7 DEF ChargedUnits, Slab, IInv, QueueReservation
  <1>9. /\ OpenUnits' = OpenUnits \ Slab(w, a, b)
        /\ Slab(w, a, b) \subseteq OpenUnits
    BY <1>1, <1>3, <1>4, <1>5, <1>7 DEF OpenUnits, Slab, IInv, QueueReservation
  <1> HIDE DEF a, b
  <1>10. CountersMatchRecords'
    <2>1. Cardinality(ChargedUnits') = used + u
      <3>1. Cardinality(ChargedUnits \cup Slab(w, a, b)) = Cardinality(ChargedUnits) + (b - a)
        BY <1>7, <1>8, UnitsFinite, AddSlab
      <3> QED BY <1>3, <1>7, <1>8, <3>1
    <2>2. Cardinality(OpenUnits') = reserved - u
      <3>1. Cardinality(OpenUnits \ Slab(w, a, b)) = Cardinality(OpenUnits) - (b - a)
        BY <1>7, <1>9, UnitsFinite, RemoveSlab
      <3> QED BY <1>3, <1>7, <1>9, <3>1
    <2> QED BY <1>4, <2>1, <2>2 DEF CountersMatchRecords
  <1>11. CapHolds'
    <2>1. used' + reserved' = used + reserved
      BY <1>3, <1>4
    <2>2. Len' = Len
      BY <1>1, <1>4, <1>6, SameRoom
    <2> QED BY <2>1, <2>2 DEF IInv, CapHolds
  <1>12. \A v \in Works : /\ records'[v].consumed <= records'[v].total
                          /\ records'[v].total <= requestCap
    BY <1>3, <1>4, <1>5 DEF IInv
  <1> QED BY <1>4, <1>5, <1>10, <1>11, <1>12 DEF IInv

\* Completing gives back the open units, and a heartbeat that comes after it finds
\* the reservation closed.
LEMMA CompleteStep ==
    ASSUME ConstantsTyped, IInv, NEW w \in Works, NEW total, Complete(w, total)
    PROVE  IInv'
  <1>1. PICK m : m = records[w]
    OBVIOUS
  <1>2. PICK r : r = [m EXCEPT !.state = "completed"]
    OBVIOUS
  <1>3. /\ m \in QueueReservation /\ m.total \in Nat /\ m.consumed \in Nat
        /\ m.consumed <= m.total /\ m.total <= requestCap /\ requestCap \in Nat
        /\ used \in Nat /\ reserved \in Nat
        /\ used = Cardinality(ChargedUnits) /\ reserved = Cardinality(OpenUnits)
    BY <1>1, OpenReservation
  <1>4. /\ m.state = "open"
        /\ records' = [records EXCEPT ![w] = r]
        /\ reserved' = reserved - (m.total - m.consumed)
        /\ used' = used /\ receipts' = receipts
    BY <1>1, <1>2 DEF Complete, Unconsumed
  <1>5. /\ r \in QueueReservation /\ r.consumed = m.consumed
        /\ r.total = m.total /\ r.state = "completed"
    BY <1>2, <1>3 DEF QueueReservation
  <1>6. m # noReservation /\ r # noReservation
    BY <1>4, <1>5 DEF noReservation
  <1>7. ChargedUnits' = ChargedUnits
    BY <1>1, <1>4, <1>5 DEF ChargedUnits, IInv
  <1>8. /\ OpenUnits' = OpenUnits \ Slab(w, m.consumed, m.total)
        /\ Slab(w, m.consumed, m.total) \subseteq OpenUnits
    BY <1>1, <1>3, <1>4, <1>5 DEF OpenUnits, Slab, IInv, QueueReservation
  <1>9. CountersMatchRecords'
    <2>1. Cardinality(OpenUnits') = reserved - (m.total - m.consumed)
      <3>1. PICK a \in Nat, b \in Nat : a = m.consumed /\ b = m.total
        BY <1>3
      <3>2. Cardinality(OpenUnits \ Slab(w, a, b)) = Cardinality(OpenUnits) - (b - a)
        BY <1>3, <1>8, <3>1, UnitsFinite, RemoveSlab
      <3> QED BY <1>3, <1>8, <3>1, <3>2
    <2> QED BY <1>3, <1>4, <1>7, <2>1 DEF CountersMatchRecords
  <1>10. CapHolds'
    <2>1. used' + reserved' <= used + reserved
      BY <1>3, <1>4
    <2>2. Len' = Len
      BY <1>1, <1>4, <1>6, SameRoom
    <2>3. used' + reserved' <= requestCap
      BY <1>3, <1>4, <2>1 DEF IInv, CapHolds
    <2> QED BY <2>2, <2>3 DEF IInv, CapHolds
  <1>11. \A v \in Works : /\ records'[v].consumed <= records'[v].total
                          /\ records'[v].total <= requestCap
    BY <1>3, <1>4, <1>5 DEF IInv
  <1> QED BY <1>4, <1>5, <1>9, <1>10, <1>11 DEF IInv

LEMMA InvInit == ConstantsTyped /\ Init => IInv
  <1> SUFFICES ASSUME ConstantsTyped, Init PROVE IInv
    OBVIOUS
  <1>1. records \in [Works -> QueueReservation] /\ \A w \in Works : records[w] = noReservation
    BY DEF Init, QueueReservation, noReservation
  <1>2. ChargedUnits = {} /\ OpenUnits = {} /\ {w \in Works : Exists(w)} = {}
    BY <1>1 DEF ChargedUnits, OpenUnits, Exists, noReservation
  <1>3. Cardinality({}) = 0
    BY FS_EmptySet
  <1> QED BY <1>1, <1>2, <1>3
          DEF Init, IInv, CountersMatchRecords, CapHolds, Len, noReservation, ConstantsTyped

\* The unit counters agree with the reservations whichever of a late heartbeat and
\* a completion comes first, and never pass the cap (Reserve, Consume, Complete).
THEOREM UnitsAccounted ==
    ConstantsTyped => (Spec => [](CountersMatchRecords /\ CapHolds))
  <1> SUFFICES ASSUME ConstantsTyped PROVE Spec => [](CountersMatchRecords /\ CapHolds)
    OBVIOUS
  <1>1. Init => IInv
    BY InvInit
  <1>2. ASSUME IInv, [Next]_vars PROVE IInv'
    <2>1. CASE UNCHANGED vars
      BY <1>2, <2>1 DEF vars, IInv, CountersMatchRecords, CapHolds, ChargedUnits,
                        OpenUnits, Len, Exists
    <2>2. ASSUME NEW w \in Works, NEW u \in Units, Reserve(w, u) PROVE IInv'
      BY <1>2, <2>2, ReserveStep
    <2>3. ASSUME NEW c \in receipts,
                 (\E u \in Units : Consume(c[1], c[2], u)) \/ Complete(c[1], c[2])
          PROVE  IInv'
      <3>1. c[1] \in Works
        BY <1>2, <2>3 DEF IInv
      <3> QED BY <1>2, <2>3, <3>1, ConsumeStep, CompleteStep
    <2> QED BY <1>2, <2>1, <2>2, <2>3 DEF Next
  <1>3. IInv => CountersMatchRecords /\ CapHolds
    BY DEF IInv
  <1> QED BY <1>1, <1>2, <1>3, PTL DEF Spec
=============================================================================
