----------------------- MODULE IdempotencyLedgerProofs -----------------------
(***************************************************************************)
(* Safety of the idempotency ledger for every set of keys, requests and    *)
(* callers, every capacity, window and clock.  What the ledger retains is  *)
(* bounded whatever its callers do.  That windows never overlap, and that  *)
(* completions reach their own grant, is proved for callers that register  *)
(* in the order of their samples: it does not hold for others.             *)
(***************************************************************************)
EXTENDS IdempotencyLedger, FiniteSetTheorems, TLAPS

-----------------------------------------------------------------------------
(* The inductive invariant *)

Live(c) == pc[c] # "idle"

\* A call in progress has its arguments, sampled in the past.
CallInv ==
    \A c \in Callers : Live(c) =>
        /\ call[c] \in idempotencyCall
        /\ call[c].observedAt <= clock
        /\ call[c].sequence <= nextCall

\* One caller at a time holds mu across its walk.  Meanwhile its key has no
\* record, and the keys it has yet to visit have theirs.
WalkInv ==
    /\ \A c, d \in Callers : pc[c] = "reclaiming" /\ pc[d] = "reclaiming" => c = d
    /\ \A c \in Callers : pc[c] = "reclaiming" => ~Exists(call[c].key)
    /\ \A k \in walk : Exists(k)

\* A retained record is the reservation granted last for its key.
RecordInv ==
    /\ \A k \in Keys : \A i \in DOMAIN granted[k] :
          granted[k][i].expiresAt = granted[k][i].committedAt + HTTPIdempotencyWindow
    /\ \A k \in Keys : Exists(k) =>
          /\ Len(granted[k]) > 0
          /\ SameReservation(granted[k][Len(granted[k])], records[k])

\* The sample taken last is the newest.  When a key's record is gone, no call
\* that may still reserve the key has a sample inside the window of any
\* reservation the key has had, and no later call can have one.
SampleInv ==
    /\ \A c, d \in Callers :
          pc[c] = "sampled" /\ Live(d) => call[d].observedAt <= call[c].observedAt
    /\ \A k \in Keys : \A i \in DOMAIN granted[k] : ~Exists(k) =>
          /\ granted[k][i].expiresAt <= clock
          /\ \A c \in Callers : Live(c) /\ call[c].key = k =>
                granted[k][i].expiresAt <= call[c].observedAt

\* Bindings are to grants there have been, and the reservation that awaits its
\* result has none.
BindingInv ==
    /\ \A b \in bindings : b.grant \in DOMAIN granted[b.key]
    /\ \A k \in Keys : Exists(k) /\ ~completed(records[k]) =>
          \A b \in bindings : b.key = k => b.grant # Len(granted[k])

-----------------------------------------------------------------------------
(* What a call that holds the ledger's mutex can do *)

\* The call returns what is there, or an error.
Passes(c) ==
    /\ pc[c] \in {"registered", "reclaiming"}
    /\ pc' = [pc EXCEPT ![c] = "finishing"]
    /\ UNCHANGED <<clock, call, walk, nextCall, epochs, records, granted, bindings>>

\* The call is handed a reservation: its key has a completed record that has
\* expired, or has none and there is room.
Grants(c) ==
    /\ pc[c] \in {"registered", "reclaiming"}
    /\ pc' = [pc EXCEPT ![c] = "finishing"]
    /\ Replaces(c) \/ (~Exists(call[c].key) /\ LedgerLen < maximum)
    /\ pc[c] = "registered" => muFree
    /\ Grant(c, epochs[call[c].key] + 1)
    /\ UNCHANGED <<clock, call, walk, nextCall, bindings>>

\* The ledger is full: the call begins to walk its records.
StartsWalk(c) ==
    /\ pc[c] = "registered"
    /\ muFree
    /\ ~Exists(call[c].key)
    /\ walk' = {k \in Keys : Exists(k)}
    /\ pc' = [pc EXCEPT ![c] = "reclaiming"]
    /\ UNCHANGED <<clock, call, nextCall, epochs, records, granted, bindings>>

\* Nothing else happens in reserveRegistered, before or after a walk.
LEMMA ReserveCases ==
    ASSUME NEW c \in Callers, reserveRegistered(c) \/ reserveAfterReclaim(c),
           WalkInv
    PROVE  Passes(c) \/ Grants(c) \/ StartsWalk(c)
  <1>1. CASE reserveRegistered(c)
    BY <1>1 DEF reserveRegistered, Passes, Grants, StartsWalk
  <1>2. CASE reserveAfterReclaim(c)
    <2>1. ~Exists(call[c].key)
      BY <1>2 DEF reserveAfterReclaim, WalkInv
    <2> QED BY <1>2, <2>1 DEF reserveAfterReclaim, RoomAfterWalk, Passes, Grants
  <1> QED BY <1>1, <1>2

\* The time high-water and the newest call seen stay in range.
LEMMA ObservedRange ==
    ASSUME TypeOK, CallInv, NEW c \in Callers,
           reserveRegistered(c) \/ reserveAfterReclaim(c)
    PROVE  lastCall' \in 0..nextCall /\ highWater' \in 0..clock
  BY DEF TypeOK, CallInv, Live, idempotencyCall, reserveRegistered,
         reserveAfterReclaim, ObserveTime, maxOf

\* A reservation is a record the ledger can tell from none, and has the fields
\* it was made with.
LEMMA NewReservation ==
    ASSUME NEW fp \in Fingerprints, NEW e \in Nat \ {0}, NEW t \in Nat
    PROVE  /\ newReservation(fp, e, t) \in Reservation
           /\ newReservation(fp, e, t) # noRecord
           /\ ~completed(newReservation(fp, e, t))
           /\ newReservation(fp, e, t).committedAt = t
           /\ newReservation(fp, e, t).expiresAt = t + HTTPIdempotencyWindow
  BY ConstantsAssumption DEF newReservation, Reservation, noRecord, completed

\* Registration gives a call its sequence and leaves its arguments alone.
LEMMA Resequenced ==
    ASSUME NEW r \in idempotencyCall, NEW n \in Nat
    PROVE  /\ [r EXCEPT !.sequence = n] \in idempotencyCall
           /\ [r EXCEPT !.sequence = n].key = r.key
           /\ [r EXCEPT !.sequence = n].observedAt = r.observedAt
           /\ [r EXCEPT !.sequence = n].sequence = n
  BY DEF idempotencyCall

\* A record there is is a reservation.
LEMMA ExistingRecord ==
    ASSUME TypeOK, NEW k \in Keys, Exists(k)
    PROVE  records[k] \in Reservation
  BY DEF TypeOK, Exists

\* What a grant writes.
LEMMA GrantWrites ==
    ASSUME TypeOK, CallInv, NEW c \in Callers, Live(c),
           Grant(c, epochs[call[c].key] + 1)
    PROVE  \E r \in Reservation :
              /\ call[c].key \in Keys
              /\ r # noRecord
              /\ ~completed(r)
              /\ r.committedAt = call[c].observedAt
              /\ r.expiresAt = call[c].observedAt + HTTPIdempotencyWindow
              /\ records' = [records EXCEPT ![call[c].key] = r]
              /\ epochs' \in [Keys -> Nat]
              /\ granted' = [granted EXCEPT ![call[c].key] = Append(@, r)]
  <1> DEFINE r == newReservation(call[c].fingerprint, epochs[call[c].key] + 1,
                                 call[c].observedAt)
  <1>1. call[c].key \in Keys /\ call[c].fingerprint \in Fingerprints
          /\ call[c].observedAt \in Nat
    BY DEF CallInv, idempotencyCall
  <1>2. epochs[call[c].key] + 1 \in Nat \ {0}
    BY <1>1 DEF TypeOK
  <1>3. records' = [records EXCEPT ![call[c].key] = r]
          /\ epochs' = [epochs EXCEPT ![call[c].key] = epochs[call[c].key] + 1]
          /\ granted' = [granted EXCEPT ![call[c].key] = Append(@, r)]
    BY DEF Grant
  <1>4. epochs' \in [Keys -> Nat]
    BY <1>1, <1>2, <1>3 DEF TypeOK
  <1> HIDE DEF r
  <1>5. /\ r \in Reservation
        /\ r # noRecord
        /\ ~completed(r)
        /\ r.committedAt = call[c].observedAt
        /\ r.expiresAt = call[c].observedAt + HTTPIdempotencyWindow
    BY <1>1, <1>2, NewReservation DEF r
  <1> QED BY <1>1, <1>3, <1>4, <1>5

\* The steps of the ledger, as every proof below takes them.
LEMMA StepCases ==
    ASSUME WalkInv, [Next]_vars
    PROVE  \/ UNCHANGED vars
           \/ Tick
           \/ \E c \in Callers :
                 \/ \E k \in Keys, fp \in Fingerprints : Sample(c, k, fp)
                 \/ beginIdempotencyCall(c)
                 \/ Passes(c) \/ Grants(c) \/ StartsWalk(c)
                 \/ \E k \in Keys : reclaimExpiredCompleted(c, k)
                 \/ finishIdempotencyCall(c)
           \/ \E k \in Keys, result \in Results :
                 \E i \in DOMAIN granted[k] : Complete(k, i, result)
  BY ReserveCases DEF Next

-----------------------------------------------------------------------------
(* Calls, walks and capacity, whatever the callers do *)

\* Calls in progress keep their arguments.
LEMMA CallStep == TypeOK /\ CallInv /\ WalkInv /\ [Next]_vars => CallInv'
  <1> SUFFICES ASSUME TypeOK, CallInv, WalkInv, [Next]_vars PROVE CallInv'
    OBVIOUS
  <1> USE DEF CallInv, Live
  <1>1. CASE UNCHANGED vars
    BY <1>1 DEF vars
  <1>2. CASE Tick
    BY <1>2 DEF Tick, TypeOK, idempotencyCall
  <1>3. ASSUME NEW c \in Callers, NEW k \in Keys, NEW fp \in Fingerprints, Sample(c, k, fp)
        PROVE CallInv'
    BY <1>3 DEF Sample, TypeOK, idempotencyCall
  <1>4. ASSUME NEW c \in Callers, beginIdempotencyCall(c) PROVE CallInv'
    <2> DEFINE r == call[c]
               s == [r EXCEPT !.sequence = nextCall + 1]
    <2>1. r \in idempotencyCall /\ r.observedAt <= clock
      BY <1>4 DEF beginIdempotencyCall
    <2> HIDE DEF r
    <2>2. s \in idempotencyCall /\ s.observedAt = r.observedAt /\ s.sequence = nextCall + 1
      <3>1. nextCall + 1 \in Nat
        BY DEF TypeOK
      <3> QED BY <2>1, <3>1, Resequenced
    <2>3. CASE RegistryFull
      BY <1>4, <2>3 DEF beginIdempotencyCall, TypeOK
    <2>4. CASE ~RegistryFull
      <3>1. /\ nextCall' = nextCall + 1 /\ clock' = clock
            /\ call' = [call EXCEPT ![c] = s]
            /\ pc' = [pc EXCEPT ![c] = "registered"]
        BY <1>4, <2>4 DEF beginIdempotencyCall, r
      <3> HIDE DEF s
      <3> QED BY <3>1, <2>1, <2>2 DEF TypeOK, idempotencyCall
    <2> QED BY <2>3, <2>4
  <1>5. ASSUME NEW c \in Callers, Passes(c) \/ Grants(c) \/ StartsWalk(c) PROVE CallInv'
    BY <1>5 DEF Passes, Grants, StartsWalk, TypeOK
  <1>6. ASSUME NEW c \in Callers, NEW k \in Keys, reclaimExpiredCompleted(c, k)
        PROVE CallInv'
    BY <1>6 DEF reclaimExpiredCompleted
  <1>7. ASSUME NEW c \in Callers, finishIdempotencyCall(c) PROVE CallInv'
    BY <1>7 DEF finishIdempotencyCall, TypeOK
  <1>8. ASSUME NEW k \in Keys, NEW result \in Results, NEW i \in DOMAIN granted[k],
               Complete(k, i, result)
        PROVE CallInv'
    BY <1>8 DEF Complete
  <1> QED BY <1>1, <1>2, <1>3, <1>4, <1>5, <1>6, <1>7, <1>8, StepCases

\* A walk excludes other changes of the ledger.
LEMMA WalkStep == TypeOK /\ CallInv /\ WalkInv /\ [Next]_vars => WalkInv'
  <1> SUFFICES ASSUME TypeOK, CallInv, WalkInv, [Next]_vars PROVE WalkInv'
    OBVIOUS
  <1> USE DEF WalkInv, Exists
  <1>1. CASE UNCHANGED vars
    BY <1>1 DEF vars
  <1>2. CASE Tick
    BY <1>2 DEF Tick
  <1>3. ASSUME NEW c \in Callers, NEW k \in Keys, NEW fp \in Fingerprints, Sample(c, k, fp)
        PROVE WalkInv'
    BY <1>3 DEF Sample, TypeOK
  <1>4. ASSUME NEW c \in Callers, beginIdempotencyCall(c) PROVE WalkInv'
    <2>1. \A d \in Callers : pc'[d] = "reclaiming" =>
            d # c /\ pc[d] = "reclaiming" /\ call'[d] = call[d]
      BY <1>4 DEF beginIdempotencyCall, TypeOK
    <2> QED BY <1>4, <2>1 DEF beginIdempotencyCall
  <1>5. ASSUME NEW c \in Callers, Passes(c) PROVE WalkInv'
    BY <1>5 DEF Passes, TypeOK
  <1>6. ASSUME NEW c \in Callers, Grants(c) PROVE WalkInv'
    <2>1. PICK r \in Reservation : records' = [records EXCEPT ![call[c].key] = r]
                                    /\ r # noRecord /\ call[c].key \in Keys
      BY <1>6, GrantWrites DEF Grants, Live
    <2>2. \A d \in Callers : pc'[d] # "reclaiming"
      BY <1>6 DEF Grants, TypeOK, muFree
    <2>3. \A k \in walk' : records'[k] # noRecord
      BY <1>6, <2>1 DEF Grants, TypeOK
    <2> QED BY <2>2, <2>3
  <1>7. ASSUME NEW c \in Callers, StartsWalk(c) PROVE WalkInv'
    BY <1>7 DEF StartsWalk, TypeOK, muFree
  <1>8. ASSUME NEW c \in Callers, NEW k \in Keys, reclaimExpiredCompleted(c, k)
        PROVE WalkInv'
    <2>1. \A d \in Callers : pc[d] = "reclaiming" => d = c /\ call[d].key # k
      BY <1>8 DEF reclaimExpiredCompleted
    <2>2. \A l \in Keys : l # k => records'[l] = records[l]
      BY <1>8 DEF reclaimExpiredCompleted, TypeOK
    <2>3. call[c].key \in Keys
      BY <1>8 DEF reclaimExpiredCompleted, CallInv, Live, idempotencyCall
    <2> QED BY <1>8, <2>1, <2>2, <2>3 DEF reclaimExpiredCompleted, TypeOK
  <1>9. ASSUME NEW c \in Callers, finishIdempotencyCall(c) PROVE WalkInv'
    BY <1>9 DEF finishIdempotencyCall, TypeOK
  <1>10. ASSUME NEW k \in Keys, NEW result \in Results, NEW i \in DOMAIN granted[k],
                Complete(k, i, result)
         PROVE WalkInv'
    <2>1. /\ \A d \in Callers : pc'[d] # "reclaiming"
          /\ records' = [records EXCEPT ![k].result = result]
          /\ walk' = walk
      BY <1>10 DEF Complete, muFree
    <2>2. records'[k] # noRecord
      BY <1>10, <2>1, ExistingRecord DEF Complete, TypeOK, Reservation, noRecord
    <2> QED BY <2>1, <2>2 DEF TypeOK
  <1> QED BY <1>1, <1>2, <1>3, <1>4, <1>5, <1>6, <1>7, <1>8, <1>9, <1>10, StepCases

\* Retained keys are finitely many, and there are no more of them when they are
\* among the ones before.
LEMMA FewerRecords ==
    ASSUME TypeOK, {k \in Keys : Exists(k)}' \subseteq {k \in Keys : Exists(k)}
    PROVE  LedgerLen' <= maximum
  <1> DEFINE S == {k \in Keys : Exists(k)}
             T == {k \in Keys : Exists(k)}'
  <1>1. IsFiniteSet(S)
    BY ConstantsAssumption, FS_Subset
  <1>2. Cardinality(T) <= Cardinality(S) /\ IsFiniteSet(T)
    BY <1>1, FS_Subset
  <1>3. Cardinality(T) \in Nat /\ Cardinality(S) \in Nat /\ Cardinality(S) <= maximum
    BY <1>1, <1>2, FS_CardinalityType DEF TypeOK, LedgerLen
  <1>4. LedgerLen' = Cardinality(T)
    BY DEF LedgerLen
  <1> QED BY <1>2, <1>3, <1>4, ConstantsAssumption

\* A grant keeps the ledger within its capacity.
LEMMA GrantCapacity ==
    ASSUME TypeOK, CallInv, NEW c \in Callers, Grants(c)
    PROVE  LedgerLen' <= maximum
  <1> DEFINE S == {k \in Keys : Exists(k)}
             T == {k \in Keys : Exists(k)}'
  <1>1. PICK r \in Reservation : /\ call[c].key \in Keys
                                 /\ r # noRecord
                                 /\ records' = [records EXCEPT ![call[c].key] = r]
    BY GrantWrites DEF Grants, Live
  <1>2. CASE Exists(call[c].key)
    <2>1. T \subseteq S
      BY <1>1, <1>2 DEF Exists, TypeOK
    <2> QED BY <2>1, FewerRecords
  <1>3. CASE ~Exists(call[c].key)
    <2>1. LedgerLen < maximum
      BY <1>3 DEF Grants, Replaces
    <2>2. T = S \cup {call[c].key}
      BY <1>1 DEF Exists, TypeOK
    <2>3. IsFiniteSet(S)
      BY ConstantsAssumption, FS_Subset
    <2>4. Cardinality(T) = Cardinality(S) + 1
      BY <1>3, <2>2, <2>3, FS_AddElement
    <2>5. Cardinality(S) \in Nat /\ Cardinality(S) < maximum
      BY <2>1, <2>3, FS_CardinalityType DEF LedgerLen
    <2>6. LedgerLen' = Cardinality(T)
      BY DEF LedgerLen
    <2> QED BY <2>4, <2>5, <2>6, ConstantsAssumption
  <1> QED BY <1>2, <1>3

\* Registration keeps the registry within its limit.
LEMMA RegistryCapacity ==
    ASSUME TypeOK, NEW c \in Callers, beginIdempotencyCall(c)
    PROVE  Cardinality(Active)' <= activeLimit
  <1>1. IsFiniteSet(Active)
    BY ConstantsAssumption, FS_Subset DEF Active
  <1>2. Cardinality(Active) \in Nat /\ activeLimit \in Nat
    BY <1>1, FS_CardinalityType, ConstantsAssumption DEF activeLimit
  <1>3. CASE RegistryFull
    <2>1. Active' = Active
      BY <1>3 DEF beginIdempotencyCall, Active, TypeOK
    <2> QED BY <2>1 DEF TypeOK
  <1>4. CASE ~RegistryFull
    <2>1. Active' = Active \cup {c} /\ c \notin Active
      BY <1>4 DEF beginIdempotencyCall, Active, TypeOK
    <2>2. Cardinality(Active') = Cardinality(Active) + 1
      BY <1>1, <2>1, FS_AddElement
    <2> QED BY <1>2, <1>4, <2>2 DEF RegistryFull
  <1> QED BY <1>3, <1>4

\* Other steps register nobody.
LEMMA RegistryShrinks ==
    ASSUME TypeOK, Active' \subseteq Active
    PROVE  Cardinality(Active)' <= activeLimit
  <1>1. IsFiniteSet(Active)
    BY ConstantsAssumption, FS_Subset DEF Active
  <1>2. Cardinality(Active') <= Cardinality(Active) /\ IsFiniteSet(Active')
    BY <1>1, FS_Subset
  <1>3. Cardinality(Active') \in Nat /\ Cardinality(Active) \in Nat /\ activeLimit \in Nat
    BY <1>1, <1>2, FS_CardinalityType, ConstantsAssumption DEF activeLimit
  <1> QED BY <1>2, <1>3 DEF TypeOK

\* Every step keeps the state well typed and the ledger within its bounds.
LEMMA TypeStep == TypeOK /\ CallInv /\ WalkInv /\ [Next]_vars => TypeOK'
  <1> SUFFICES ASSUME TypeOK, CallInv, WalkInv, [Next]_vars PROVE TypeOK'
    OBVIOUS
  <1> DEFINE recorded == {k \in Keys : Exists(k)}
  <1>0. lastCall' \in 0..nextCall' /\ highWater' \in 0..clock'
    <2>1. CASE \E c \in Callers : reserveRegistered(c) \/ reserveAfterReclaim(c)
      BY <2>1, ObservedRange DEF reserveRegistered, reserveAfterReclaim
    <2>2. CASE UNCHANGED vars
      BY <2>2 DEF vars, TypeOK
    <2>3. CASE Tick
      BY <2>3 DEF Tick, TypeOK
    <2>4. ASSUME NEW c \in Callers, beginIdempotencyCall(c)
          PROVE lastCall' \in 0..nextCall' /\ highWater' \in 0..clock'
      BY <2>4 DEF beginIdempotencyCall, TypeOK
    <2> QED BY <2>1, <2>2, <2>3, <2>4
            DEF Next, Sample, finishIdempotencyCall, reclaimExpiredCompleted, Complete, TypeOK
  <1>1. CASE UNCHANGED vars
    <2>1. LedgerLen' = LedgerLen /\ Cardinality(Active)' = Cardinality(Active)
      BY <1>1 DEF vars, LedgerLen, Active, Exists
    <2> QED BY <1>1, <2>1 DEF vars, TypeOK
  <1>2. CASE Tick
    <2>1. LedgerLen' = LedgerLen /\ Cardinality(Active)' = Cardinality(Active)
      BY <1>2 DEF Tick, LedgerLen, Active, Exists
    <2> QED BY <1>0, <1>2, <2>1, ConstantsAssumption DEF Tick, TypeOK
  <1>3. ASSUME NEW c \in Callers, NEW k \in Keys, NEW fp \in Fingerprints, Sample(c, k, fp)
        PROVE TypeOK'
    <2>1. LedgerLen' <= maximum
      BY <1>3, FewerRecords DEF Sample, Exists
    <2>2. Cardinality(Active)' <= activeLimit
      BY <1>3, RegistryShrinks DEF Sample, Active, TypeOK
    <2> QED BY <1>0, <1>3, <2>1, <2>2 DEF Sample, TypeOK, idempotencyCall
  <1>4. ASSUME NEW c \in Callers, beginIdempotencyCall(c) PROVE TypeOK'
    <2>1. LedgerLen' <= maximum
      BY <1>4, FewerRecords DEF beginIdempotencyCall, Exists
    <2>2. Cardinality(Active)' <= activeLimit
      BY <1>4, RegistryCapacity
    <2>3. \A d \in Callers : pc'[d] = "idle" => call'[d] = call[d] \/ call'[d] = noCall
      BY <1>4 DEF beginIdempotencyCall, TypeOK
    <2>4. call' \in [Callers -> idempotencyCall \cup {noCall}]
      <3>1. \A d \in Callers : pc'[d] # "idle" => call'[d] \in idempotencyCall
        BY CallStep DEF CallInv, Live
      <3>2. DOMAIN call' = Callers /\ call' = [d \in Callers |-> call'[d]]
        BY <1>4 DEF beginIdempotencyCall, TypeOK
      <3> QED BY <2>3, <3>1, <3>2 DEF TypeOK
    <2>5. /\ pc' \in [Callers -> {"idle", "sampled", "registered", "reclaiming", "finishing"}]
          /\ nextCall' \in Nat
      <3>1. /\ pc' = [pc EXCEPT ![c] = "registered"] \/ pc' = [pc EXCEPT ![c] = "idle"]
            /\ nextCall' = nextCall + 1 \/ nextCall' = nextCall
        BY <1>4 DEF beginIdempotencyCall
      <3>2. nextCall \in Nat
              /\ pc \in [Callers -> {"idle", "sampled", "registered", "reclaiming", "finishing"}]
        BY DEF TypeOK
      <3> QED BY <3>1, <3>2
    <2>6. UNCHANGED <<clock, walk, epochs, records, granted, bindings>>
      BY <1>4 DEF beginIdempotencyCall
    <2> QED BY <1>0, <2>1, <2>2, <2>4, <2>5, <2>6 DEF TypeOK, activeLimit
  <1>5. ASSUME NEW c \in Callers, Passes(c) PROVE TypeOK'
    <2>1. LedgerLen' <= maximum
      BY <1>5, FewerRecords DEF Passes, Exists
    <2>2. Cardinality(Active)' <= activeLimit
      BY <1>5, RegistryShrinks DEF Passes, Active, TypeOK
    <2> QED BY <1>0, <1>5, <2>1, <2>2 DEF Passes, TypeOK
  <1>6. ASSUME NEW c \in Callers, Grants(c) PROVE TypeOK'
    <2>1. LedgerLen' <= maximum
      BY <1>6, GrantCapacity
    <2>2. Cardinality(Active)' <= activeLimit
      BY <1>6, RegistryShrinks DEF Grants, Active, TypeOK
    <2>3. PICK r \in Reservation :
             /\ call[c].key \in Keys
             /\ records' = [records EXCEPT ![call[c].key] = r]
             /\ epochs' \in [Keys -> Nat]
             /\ granted' = [granted EXCEPT ![call[c].key] = Append(@, r)]
      BY <1>6, GrantWrites DEF Grants, Live
    <2>4. granted' \in [Keys -> Seq(Reservation)]
      BY <2>3 DEF TypeOK
    <2>5. records' \in [Keys -> Reservation \cup {noRecord}]
      BY <2>3 DEF TypeOK
    <2>6. pc' \in [Callers -> {"idle", "sampled", "registered", "reclaiming", "finishing"}]
      BY <1>6 DEF Grants, TypeOK
    <2>7. UNCHANGED <<clock, call, walk, nextCall, bindings>>
      BY <1>6 DEF Grants
    <2> QED BY <1>0, <2>1, <2>2, <2>3, <2>4, <2>5, <2>6, <2>7 DEF TypeOK, activeLimit
  <1>7. ASSUME NEW c \in Callers, StartsWalk(c) PROVE TypeOK'
    <2>1. LedgerLen' <= maximum
      BY <1>7, FewerRecords DEF StartsWalk, Exists
    <2>2. Cardinality(Active)' <= activeLimit
      BY <1>7, RegistryShrinks DEF StartsWalk, Active, TypeOK
    <2> QED BY <1>0, <1>7, <2>1, <2>2 DEF StartsWalk, TypeOK
  <1>8. ASSUME NEW c \in Callers, NEW k \in Keys, reclaimExpiredCompleted(c, k)
        PROVE TypeOK'
    <2>1. LedgerLen' <= maximum
      BY <1>8, FewerRecords DEF reclaimExpiredCompleted, Exists, TypeOK
    <2>2. Cardinality(Active)' <= activeLimit
      BY <1>8, RegistryShrinks DEF reclaimExpiredCompleted, Active
    <2>3. /\ records' \in [Keys -> Reservation \cup {noRecord}]
          /\ epochs' \in [Keys -> Nat]
      <3>1. \/ records' = [records EXCEPT ![k] = noRecord] /\ epochs' = [epochs EXCEPT ![k] = 0]
            \/ UNCHANGED <<records, epochs>>
        BY <1>8 DEF reclaimExpiredCompleted
      <3>2. /\ records \in [Keys -> Reservation \cup {noRecord}]
            /\ epochs \in [Keys -> Nat]
        BY DEF TypeOK
      <3> QED BY <3>1, <3>2
    <2>4. /\ walk' \subseteq walk
          /\ UNCHANGED <<clock, pc, call, nextCall, granted, bindings>>
      BY <1>8 DEF reclaimExpiredCompleted
    <2> QED BY <1>0, <2>1, <2>2, <2>3, <2>4 DEF TypeOK, activeLimit
  <1>9. ASSUME NEW c \in Callers, finishIdempotencyCall(c) PROVE TypeOK'
    <2>1. LedgerLen' <= maximum
      BY <1>9, FewerRecords DEF finishIdempotencyCall, Exists
    <2>2. Cardinality(Active)' <= activeLimit
      BY <1>9, RegistryShrinks DEF finishIdempotencyCall, Active, TypeOK
    <2> QED BY <1>0, <1>9, <2>1, <2>2 DEF finishIdempotencyCall, TypeOK
  <1>10. ASSUME NEW k \in Keys, NEW result \in Results, NEW i \in DOMAIN granted[k],
                Complete(k, i, result)
         PROVE TypeOK'
    <2> DEFINE r == records[k]
               s == [r EXCEPT !.result = result]
    <2>1. r \in Reservation
      BY <1>10, ExistingRecord DEF Complete
    <2>2. records' = [records EXCEPT ![k] = s]
      BY <1>10 DEF Complete
    <2> HIDE DEF r
    <2>3. s \in Reservation
      BY <2>1 DEF Reservation
    <2> HIDE DEF s
    <2>4. LedgerLen' <= maximum
      BY <1>10, <2>2, FewerRecords DEF Complete, Exists, TypeOK
    <2>5. Cardinality(Active)' <= activeLimit
      BY <1>10, RegistryShrinks DEF Complete, Active
    <2>6. Len(granted[k]) \in Nat /\ i \in Nat
      BY DEF TypeOK
    <2>7. bindings' \subseteq [key : Keys, holder : Nat, grant : Nat, result : Results]
      BY <1>10, <2>6 DEF Complete, TypeOK
    <2>8. records' \in [Keys -> Reservation \cup {noRecord}]
      BY <2>2, <2>3 DEF TypeOK
    <2>9. UNCHANGED <<clock, pc, call, walk, nextCall, epochs, granted>>
      BY <1>10 DEF Complete
    <2> QED BY <1>0, <2>4, <2>5, <2>7, <2>8, <2>9 DEF TypeOK, activeLimit
  <1> QED BY <1>1, <1>2, <1>3, <1>4, <1>5, <1>6, <1>7, <1>8, <1>9, <1>10, StepCases

\* A new ledger is well typed and empty.
LEMMA TypeInit == Init => TypeOK /\ CallInv /\ WalkInv
  <1> SUFFICES ASSUME Init PROVE TypeOK /\ CallInv /\ WalkInv
    OBVIOUS
  <1>1. {k \in Keys : Exists(k)} = {} /\ Active = {}
    BY DEF Init, Exists, Active
  <1>2. LedgerLen = 0 /\ Cardinality(Active) = 0
    BY <1>1, FS_EmptySet DEF LedgerLen
  <1> QED BY <1>2, ConstantsAssumption
          DEF Init, TypeOK, CallInv, WalkInv, Live, activeLimit

\* The ledger retains at most maximum records and registers at most one call more,
\* whatever its callers do while one of them walks the records, and the state
\* keeps its types (reserveRegistered, reclaimExpiredCompleted,
\* beginIdempotencyCall).
THEOREM LedgerBounded == Spec => [](TypeOK /\ CallInv /\ WalkInv)
  BY TypeInit, TypeStep, CallStep, WalkStep, PTL DEF Spec

-----------------------------------------------------------------------------
(* Windows and completions, for callers that register in sample order *)

\* What a grant adds to the history of its key.
LEMMA GrantedAfter ==
    ASSUME TypeOK, NEW k \in Keys, NEW r \in Reservation,
           granted' = [granted EXCEPT ![k] = Append(@, r)]
    PROVE  /\ \A l \in Keys : l # k => granted'[l] = granted[l]
           /\ Len(granted[k]) \in Nat
           /\ DOMAIN granted[k] = 1..Len(granted[k])
           /\ Len(granted'[k]) = Len(granted[k]) + 1
           /\ DOMAIN granted'[k] = 1..(Len(granted[k]) + 1)
           /\ granted'[k][Len(granted[k]) + 1] = r
           /\ \A i \in DOMAIN granted[k] : granted'[k][i] = granted[k][i]
  <1> DEFINE s == granted[k]
  <1>1. s \in Seq(Reservation) /\ granted'[k] = Append(s, r)
    BY DEF TypeOK
  <1>2. \A l \in Keys : l # k => granted'[l] = granted[l]
    BY DEF TypeOK
  <1> HIDE DEF s
  <1>3. /\ Len(s) \in Nat
        /\ DOMAIN s = 1..Len(s)
        /\ Len(Append(s, r)) = Len(s) + 1
        /\ DOMAIN Append(s, r) = 1..(Len(s) + 1)
        /\ Append(s, r)[Len(s) + 1] = r
        /\ \A i \in DOMAIN s : Append(s, r)[i] = s[i]
    BY <1>1
  <1> QED BY <1>1, <1>2, <1>3 DEF s

\* Reservations in a key's history are bounded by times.
LEMMA GrantedTimes ==
    ASSUME TypeOK, NEW k \in Keys, NEW i \in DOMAIN granted[k]
    PROVE  granted[k][i].expiresAt \in Nat /\ granted[k][i].committedAt \in Nat
  <1>1. granted[k] \in Seq(Reservation)
    BY DEF TypeOK
  <1>2. granted[k][i] \in Reservation
    BY <1>1
  <1> QED BY <1>2 DEF Reservation

\* The history of a key with a record ends with the reservation of that record.
LEMMA LastGrant ==
    ASSUME TypeOK, RecordInv, NEW k \in Keys, Exists(k)
    PROVE  /\ Len(granted[k]) \in Nat /\ Len(granted[k]) > 0
           /\ DOMAIN granted[k] = 1..Len(granted[k])
           /\ Len(granted[k]) \in DOMAIN granted[k]
           /\ granted[k][Len(granted[k])].committedAt = records[k].committedAt
           /\ granted[k][Len(granted[k])].expiresAt = records[k].expiresAt
  <1>1. PICK h \in Seq(Reservation) : h = granted[k]
    BY DEF TypeOK
  <1>2. Len(h) > 0 /\ SameReservation(h[Len(h)], records[k])
    BY <1>1, Zenon DEF RecordInv
  <1>3. Len(h) \in Nat /\ DOMAIN h = 1..Len(h)
    OBVIOUS
  <1>4. Len(h) \in DOMAIN h
    BY <1>2, <1>3
  <1>5. h[Len(h)].committedAt = records[k].committedAt
          /\ h[Len(h)].expiresAt = records[k].expiresAt
    BY <1>2, Zenon DEF SameReservation
  <1> QED BY <1>1, <1>2, <1>3, <1>4, <1>5

\* A completion leaves the identity of the record alone.
LEMMA Completed ==
    ASSUME TypeOK, NEW k \in Keys, NEW i \in DOMAIN granted[k], NEW result \in Results,
           Complete(k, i, result)
    PROVE  /\ Exists(k) /\ Exists(k)'
           /\ ~completed(records[k]) /\ completed(records[k])'
           /\ records'[k].epoch = records[k].epoch
           /\ records'[k].fingerprint = records[k].fingerprint
           /\ records'[k].committedAt = records[k].committedAt
           /\ records'[k].expiresAt = records[k].expiresAt
           /\ \A l \in Keys : l # k => records'[l] = records[l]
  <1> DEFINE r == records[k]
             s == [r EXCEPT !.result = result]
  <1>1. r \in Reservation
    BY ExistingRecord DEF Complete
  <1>2. records'[k] = s /\ \A l \in Keys : l # k => records'[l] = records[l]
    BY DEF Complete, TypeOK
  <1>3. Exists(k) /\ ~completed(r)
    BY DEF Complete
  <1> HIDE DEF r
  <1>4. /\ s.epoch = r.epoch /\ s.fingerprint = r.fingerprint
        /\ s.committedAt = r.committedAt /\ s.expiresAt = r.expiresAt
        /\ s.result = result /\ s # noRecord
    BY <1>1 DEF Reservation, noRecord
  <1> HIDE DEF s
  <1> QED BY <1>2, <1>3, <1>4, ConstantsAssumption DEF Exists, completed, r

\* Records stay those granted last.
LEMMA RecordStep ==
    TypeOK /\ CallInv /\ WalkInv /\ RecordInv /\ [Next]_vars => RecordInv'
  <1> SUFFICES ASSUME TypeOK, CallInv, WalkInv, RecordInv, [Next]_vars PROVE RecordInv'
    OBVIOUS
  <1>1. ASSUME UNCHANGED <<records, granted>> PROVE RecordInv'
    BY <1>1 DEF RecordInv, Exists
  <1>2. ASSUME NEW c \in Callers, Grants(c) PROVE RecordInv'
    <2>1. PICK r \in Reservation :
             /\ call[c].key \in Keys
             /\ r.committedAt = call[c].observedAt
             /\ r.expiresAt = call[c].observedAt + HTTPIdempotencyWindow
             /\ records' = [records EXCEPT ![call[c].key] = r]
             /\ granted' = [granted EXCEPT ![call[c].key] = Append(@, r)]
      BY <1>2, GrantWrites DEF Grants, Live
    <2> DEFINE key == call[c].key
               n == Len(granted[key])
    <2>2. /\ \A l \in Keys : l # key => granted'[l] = granted[l]
          /\ n \in Nat
          /\ DOMAIN granted[key] = 1..n
          /\ Len(granted'[key]) = n + 1
          /\ DOMAIN granted'[key] = 1..(n + 1)
          /\ granted'[key][n + 1] = r
          /\ \A i \in DOMAIN granted[key] : granted'[key][i] = granted[key][i]
      BY <2>1, GrantedAfter
    <2>3. \A l \in Keys : records'[l] = IF l = key THEN r ELSE records[l]
      BY <2>1 DEF TypeOK
    <2>4. ASSUME NEW l \in Keys, NEW i \in DOMAIN granted'[l]
          PROVE granted'[l][i].expiresAt = granted'[l][i].committedAt + HTTPIdempotencyWindow
      <3>1. CASE l # key
        BY <2>2, <2>4, <3>1 DEF RecordInv
      <3>2. CASE l = key /\ i \in DOMAIN granted[key]
        <4>1. granted'[key][i] = granted[key][i]
          BY <2>2, <3>2
        <4>2. granted[key][i].expiresAt = granted[key][i].committedAt + HTTPIdempotencyWindow
          BY <2>1, <3>2 DEF RecordInv
        <4> QED BY <3>2, <4>1, <4>2
      <3>3. CASE l = key /\ i = n + 1
        BY <2>1, <2>2, <3>3
      <3> QED BY <2>2, <2>4, <3>1, <3>2, <3>3
    <2>5. ASSUME NEW l \in Keys, Exists(l)'
          PROVE  Len(granted'[l]) > 0 /\ SameReservation(granted'[l][Len(granted'[l])], records'[l])
      <3>1. CASE l # key
        BY <2>2, <2>3, <2>5, <3>1 DEF RecordInv, Exists
      <3>2. CASE l = key
        <4>1. granted'[key][Len(granted'[key])] = r /\ records'[key] = r
          BY <2>1, <2>2, <2>3
        <4>2. Len(granted'[key]) > 0
          BY <2>2
        <4>3. SameReservation(r, r)
          BY DEF SameReservation
        <4> QED BY <3>2, <4>1, <4>2, <4>3
      <3> QED BY <3>1, <3>2
    <2> QED BY <2>4, <2>5 DEF RecordInv
  <1>3. ASSUME NEW c \in Callers, NEW k \in Keys, reclaimExpiredCompleted(c, k)
        PROVE RecordInv'
    <2>1. \A l \in Keys : Exists(l)' => records'[l] = records[l]
      BY <1>3 DEF reclaimExpiredCompleted, Exists, TypeOK
    <2> QED BY <1>3, <2>1 DEF reclaimExpiredCompleted, RecordInv, Exists
  <1>4. ASSUME NEW k \in Keys, NEW result \in Results, NEW i \in DOMAIN granted[k],
               Complete(k, i, result)
        PROVE RecordInv'
    <2>1. granted' = granted
      BY <1>4 DEF Complete
    <2>2. ASSUME NEW l \in Keys, NEW h, SameReservation(h, records[l])
          PROVE  SameReservation(h, records'[l])
      <3>1. CASE l = k
        BY <1>4, <2>2, <3>1, Completed DEF SameReservation
      <3>2. CASE l # k
        BY <1>4, <2>2, <3>2, Completed
      <3> QED BY <3>1, <3>2
    <2>3. \A l \in Keys : Exists(l)' => Exists(l)
      BY <1>4, Completed DEF Exists
    <2>4. ASSUME NEW l \in Keys, Exists(l)'
          PROVE  /\ Len(granted'[l]) > 0
                 /\ SameReservation(granted'[l][Len(granted'[l])], records'[l])
      BY <2>1, <2>2, <2>3, <2>4 DEF RecordInv
    <2> QED BY <2>1, <2>4 DEF RecordInv
  <1> QED BY <1>1, <1>2, <1>3, <1>4, StepCases
          DEF vars, Tick, Sample, beginIdempotencyCall, Passes, StartsWalk, finishIdempotencyCall

\* Registration leaves the arguments of every call alone.
LEMMA Registered ==
    ASSUME TypeOK, CallInv, NEW c \in Callers, beginIdempotencyCall(c),
           NEW d \in Callers, Live(d)'
    PROVE  /\ Live(d)
           /\ call'[d].key = call[d].key
           /\ call'[d].observedAt = call[d].observedAt
           /\ pc'[d] = "sampled" => pc[d] = "sampled"
  <1>1. CASE d # c
    BY <1>1 DEF beginIdempotencyCall, TypeOK, Live
  <1>2. CASE d = c
    <2> DEFINE r == call[c]
               s == [r EXCEPT !.sequence = nextCall + 1]
    <2>1. r \in idempotencyCall
      BY DEF beginIdempotencyCall, CallInv, Live
    <2>2. ~RegistryFull /\ pc[c] = "sampled" /\ pc' = [pc EXCEPT ![c] = "registered"]
      BY <1>2 DEF beginIdempotencyCall, Live, TypeOK
    <2>3. call'[c] = s
      BY <2>2 DEF beginIdempotencyCall, TypeOK
    <2> HIDE DEF r
    <2>4. s.key = r.key /\ s.observedAt = r.observedAt
      <3>1. nextCall + 1 \in Nat
        BY DEF TypeOK
      <3> QED BY <2>1, <3>1, Resequenced
    <2> HIDE DEF s
    <2> QED BY <1>2, <2>2, <2>3, <2>4 DEF Live, TypeOK, r
  <1> QED BY <1>1, <1>2

\* Nothing a call does for one key brings the window of another key's lost record
\* back into reach.
LEMMA SampleStep ==
    SamplesInOrder /\ TypeOK /\ CallInv /\ WalkInv /\ RecordInv /\ SampleInv /\ WindowsDisjoint
        /\ [Next]_vars => SampleInv'
  <1> SUFFICES ASSUME SamplesInOrder, TypeOK, CallInv, WalkInv, RecordInv, SampleInv,
                      WindowsDisjoint, [Next]_vars
               PROVE  SampleInv'
    OBVIOUS
  <1>k. \A l \in Keys : \A j \in DOMAIN granted[l] :
            granted[l][j].expiresAt \in Nat /\ granted[l][j].committedAt \in Nat
    BY GrantedTimes
  <1>c. \A d \in Callers : Live(d) =>
            call[d].key \in Keys /\ call[d].observedAt \in Nat /\ call[d].observedAt <= clock
    BY DEF CallInv, idempotencyCall
  <1>t. clock \in Nat
    BY DEF TypeOK
  <1>1. CASE UNCHANGED vars
    BY <1>1 DEF vars, SampleInv, Live, Exists
  <1>2. CASE Tick
    <2>1. UNCHANGED <<pc, call, records, granted>> /\ clock' = clock + 1
      BY <1>2 DEF Tick
    <2>2. \A l \in Keys : \A j \in DOMAIN granted[l] :
             granted[l][j].expiresAt <= clock => granted[l][j].expiresAt <= clock + 1
      BY <1>k, <1>t
    <2> QED BY <2>1, <2>2 DEF SampleInv, Live, Exists
  <1>3. ASSUME NEW c \in Callers, NEW k \in Keys, NEW fp \in Fingerprints, Sample(c, k, fp)
        PROVE SampleInv'
    <2>1. /\ \A d \in Callers : pc[d] # "sampled"
          /\ UNCHANGED <<clock, records, granted>>
          /\ \A d \in Callers : d # c => pc'[d] = pc[d] /\ call'[d] = call[d]
          /\ pc'[c] = "sampled" /\ call'[c].observedAt = clock /\ call'[c].key = k
      BY <1>3 DEF Sample, TypeOK
    <2>2. ASSUME NEW d \in Callers, NEW e \in Callers, pc'[d] = "sampled", Live(e)'
          PROVE  call'[e].observedAt <= call'[d].observedAt
      <3>1. d = c
        BY <2>1, <2>2
      <3>2. CASE e = c
        BY <1>t, <2>1, <3>1, <3>2
      <3>3. CASE e # c
        BY <1>c, <2>1, <2>2, <3>1, <3>3 DEF Live
      <3> QED BY <3>2, <3>3
    <2>3. ASSUME NEW l \in Keys, NEW i \in DOMAIN granted[l], ~Exists(l)
          PROVE  /\ granted[l][i].expiresAt <= clock
                 /\ \A d \in Callers : Live(d)' /\ call'[d].key = l =>
                       granted[l][i].expiresAt <= call'[d].observedAt
      <3>1. granted[l][i].expiresAt <= clock
        BY <2>3 DEF SampleInv
      <3>2. ASSUME NEW d \in Callers, Live(d)', call'[d].key = l
            PROVE  granted[l][i].expiresAt <= call'[d].observedAt
        <4>1. CASE d = c
          BY <2>1, <3>1, <4>1
        <4>2. CASE d # c
          BY <2>1, <2>3, <3>2, <4>2 DEF SampleInv, Live
        <4> QED BY <4>1, <4>2
      <3> QED BY <3>1, <3>2
    <2> QED BY <2>1, <2>2, <2>3 DEF SampleInv, Exists
  <1>4. ASSUME NEW c \in Callers, beginIdempotencyCall(c) PROVE SampleInv'
    <2>1. UNCHANGED <<clock, records, granted>>
      BY <1>4 DEF beginIdempotencyCall
    <2>2. \A d \in Callers : Live(d)' =>
             /\ Live(d)
             /\ call'[d].key = call[d].key
             /\ call'[d].observedAt = call[d].observedAt
             /\ pc'[d] = "sampled" => pc[d] = "sampled"
      BY <1>4, Registered
    <2>3. \A d \in Callers : pc'[d] = "sampled" => Live(d)'
      BY DEF Live
    <2> QED BY <2>1, <2>2, <2>3 DEF SampleInv, Exists
  <1>5. ASSUME NEW c \in Callers, Passes(c) \/ StartsWalk(c) PROVE SampleInv'
    <2>1. UNCHANGED <<clock, call, records, granted>>
      BY <1>5 DEF Passes, StartsWalk
    <2>2. \A d \in Callers : /\ Live(d)' => Live(d)
                             /\ pc'[d] = "sampled" => pc[d] = "sampled"
      BY <1>5 DEF Passes, StartsWalk, Live, TypeOK
    <2> QED BY <2>1, <2>2 DEF SampleInv, Exists
  <1>6. ASSUME NEW c \in Callers, Grants(c) PROVE SampleInv'
    <2>1. PICK r \in Reservation :
             /\ call[c].key \in Keys
             /\ r # noRecord
             /\ records' = [records EXCEPT ![call[c].key] = r]
             /\ granted' = [granted EXCEPT ![call[c].key] = Append(@, r)]
      BY <1>6, GrantWrites DEF Grants, Live
    <2>2. UNCHANGED <<clock, call>>
      BY <1>6 DEF Grants
    <2>3. \A d \in Callers : /\ Live(d)' => Live(d)
                             /\ pc'[d] = "sampled" => pc[d] = "sampled"
      BY <1>6 DEF Grants, Live, TypeOK
    <2>4. \A l \in Keys : ~Exists(l)' => ~Exists(l) /\ granted'[l] = granted[l]
      BY <2>1 DEF Exists, TypeOK
    <2> QED BY <2>2, <2>3, <2>4 DEF SampleInv
  <1>7. ASSUME NEW c \in Callers, NEW k \in Keys, reclaimExpiredCompleted(c, k)
        PROVE SampleInv'
    <2>1. UNCHANGED <<clock, pc, call, granted>> /\ pc[c] = "reclaiming" /\ k \in walk
      BY <1>7 DEF reclaimExpiredCompleted
    <2>2. Exists(k) /\ call[c].key # k
      BY <2>1 DEF WalkInv
    <2>3. ASSUME NEW l \in Keys, NEW i \in DOMAIN granted[l], ~Exists(l)'
          PROVE  /\ granted[l][i].expiresAt <= clock
                 /\ \A d \in Callers : Live(d) /\ call[d].key = l =>
                       granted[l][i].expiresAt <= call[d].observedAt
      <3>1. CASE ~Exists(l)
        BY <3>1 DEF SampleInv
      <3>2. CASE Exists(l)
        <4> DEFINE n == Len(granted[k])
        <4>1. l = k /\ Reclaimable(c, k)
          BY <1>7, <2>3, <3>2 DEF reclaimExpiredCompleted, Exists, TypeOK
        <4>2. /\ n \in Nat /\ n > 0 /\ DOMAIN granted[k] = 1..n
              /\ granted[k][n].expiresAt = records[k].expiresAt
          BY <2>2, LastGrant
        <4>3. granted[k][i].expiresAt <= granted[k][n].expiresAt
          <5>1. CASE i = n
            BY <1>k, <4>1, <5>1
          <5>2. CASE i # n
            <6>1. i \in 1..(n - 1) /\ n \in DOMAIN granted[k]
              BY <2>3, <4>1, <4>2, <5>2
            <6>2. granted[k][i].expiresAt <= granted[k][n].committedAt
              BY <6>1 DEF WindowsDisjoint
            <6>3. granted[k][n].expiresAt = granted[k][n].committedAt + HTTPIdempotencyWindow
              BY <6>1 DEF RecordInv
            <6> QED BY <1>k, <4>1, <6>1, <6>2, <6>3, ConstantsAssumption
          <5> QED BY <5>1, <5>2
        <4>4. granted[k][n].expiresAt <= call[c].observedAt
          BY <4>1, <4>2 DEF Reclaimable, Expired
        <4>5. Live(c) /\ \A d \in Callers : pc[d] = "sampled" =>
                 call[c].observedAt <= call[d].observedAt
          BY <2>1 DEF SampleInv, Live
        <4>6. ASSUME NEW d \in Callers, Live(d), call[d].key = k
              PROVE  granted[k][n].expiresAt <= call[d].observedAt
          <5>1. CASE pc[d] = "sampled"
            BY <1>c, <1>k, <4>2, <4>4, <4>5, <4>6, <5>1
          <5>2. CASE pc[d] # "sampled"
            <6>1. d \in Active \ {c}
              BY <2>2, <4>6, <5>2 DEF Active, Live, TypeOK
            <6>2. ~(call[d].observedAt < records[k].expiresAt)
              BY <4>1, <4>6, <6>1 DEF Reclaimable, hasEarlierLiveCall
            <6> QED BY <1>c, <1>k, <4>2, <4>6, <6>2
          <5> QED BY <5>1, <5>2
        <4> QED BY <1>c, <1>k, <1>t, <2>3, <4>1, <4>2, <4>3, <4>4, <4>5, <4>6
      <3> QED BY <3>1, <3>2
    <2> QED BY <2>1, <2>3 DEF SampleInv, Live
  <1>8. ASSUME NEW c \in Callers, finishIdempotencyCall(c) PROVE SampleInv'
    <2>1. UNCHANGED <<clock, records, granted>>
      BY <1>8 DEF finishIdempotencyCall
    <2>2. \A d \in Callers : Live(d)' => Live(d) /\ call'[d] = call[d] /\ pc'[d] = pc[d]
      BY <1>8 DEF finishIdempotencyCall, Live, TypeOK
    <2>3. \A d \in Callers : pc'[d] = "sampled" => Live(d)'
      BY DEF Live
    <2>4. ASSUME NEW d \in Callers, NEW e \in Callers, pc'[d] = "sampled", Live(e)'
          PROVE  call'[e].observedAt <= call'[d].observedAt
      BY <2>2, <2>3, <2>4 DEF SampleInv
    <2>5. \A l \in Keys : Exists(l)' <=> Exists(l)
      BY <2>1 DEF Exists
    <2>6. ASSUME NEW l \in Keys, NEW i \in DOMAIN granted[l], ~Exists(l)
          PROVE  /\ granted[l][i].expiresAt <= clock
                 /\ \A d \in Callers : Live(d)' /\ call'[d].key = l =>
                       granted[l][i].expiresAt <= call'[d].observedAt
      BY <2>2, <2>6 DEF SampleInv
    <2> QED BY <2>1, <2>3, <2>4, <2>5, <2>6 DEF SampleInv
  <1>9. ASSUME NEW k \in Keys, NEW result \in Results, NEW i \in DOMAIN granted[k],
               Complete(k, i, result)
        PROVE SampleInv'
    <2>1. UNCHANGED <<clock, pc, call, granted>>
      BY <1>9 DEF Complete
    <2>2. \A l \in Keys : ~Exists(l)' => ~Exists(l)
      BY <1>9, Completed DEF Exists
    <2> QED BY <2>1, <2>2 DEF SampleInv, Live
  <1> QED BY <1>1, <1>2, <1>3, <1>4, <1>5, <1>6, <1>7, <1>8, <1>9, StepCases

\* A grant starts when every earlier window of its key is over.
LEMMA WindowStep ==
    TypeOK /\ CallInv /\ WalkInv /\ RecordInv /\ SampleInv /\ WindowsDisjoint /\ [Next]_vars
        => WindowsDisjoint'
  <1> SUFFICES ASSUME TypeOK, CallInv, WalkInv, RecordInv, SampleInv, WindowsDisjoint,
                      [Next]_vars
               PROVE  WindowsDisjoint'
    OBVIOUS
  <1>1. ASSUME UNCHANGED granted PROVE WindowsDisjoint'
    BY <1>1 DEF WindowsDisjoint
  <1>2. ASSUME NEW c \in Callers, Grants(c) PROVE WindowsDisjoint'
    <2> DEFINE key == call[c].key
               n == Len(granted[key])
    <2>1. PICK r \in Reservation :
             /\ key \in Keys
             /\ r.committedAt = call[c].observedAt
             /\ granted' = [granted EXCEPT ![key] = Append(@, r)]
      BY <1>2, GrantWrites DEF Grants, Live
    <2>2. /\ \A l \in Keys : l # key => granted'[l] = granted[l]
          /\ n \in Nat
          /\ DOMAIN granted[key] = 1..n
          /\ DOMAIN granted'[key] = 1..(n + 1)
          /\ granted'[key][n + 1] = r
          /\ \A i \in DOMAIN granted[key] : granted'[key][i] = granted[key][i]
      BY <2>1, GrantedAfter
    <2>k. \A l \in Keys : \A j \in DOMAIN granted[l] :
              granted[l][j].expiresAt \in Nat /\ granted[l][j].committedAt \in Nat
      BY GrantedTimes
    <2>c. call[c].observedAt \in Nat
      BY <1>2 DEF Grants, CallInv, Live, idempotencyCall
    <2>3. ASSUME NEW i \in DOMAIN granted[key]
          PROVE  granted[key][i].expiresAt <= call[c].observedAt
      <3>1. CASE ~Exists(key)
        BY <1>2, <2>1, <3>1 DEF SampleInv, Grants, Live
      <3>2. CASE Exists(key)
        <4>1. /\ n \in DOMAIN granted[key]
              /\ granted[key][n].expiresAt = records[key].expiresAt
              /\ granted[key][n].expiresAt =
                    granted[key][n].committedAt + HTTPIdempotencyWindow
          <5>1. n \in DOMAIN granted[key] /\ granted[key][n].expiresAt = records[key].expiresAt
            BY <2>1, <3>2, LastGrant
          <5> QED BY <2>1, <5>1 DEF RecordInv
        <4>2. records[key].expiresAt <= call[c].observedAt
          BY <1>2, <3>2 DEF Grants, Replaces, ReturnsCurrent, Expired
        <4>3. CASE i = n
          BY <4>1, <4>2, <4>3
        <4>4. CASE i # n
          <5>1. i \in 1..(n - 1)
            BY <2>2, <2>3, <4>4
          <5>2. granted[key][i].expiresAt <= granted[key][n].committedAt
            BY <2>1, <4>1, <5>1 DEF WindowsDisjoint
          <5>3. PICK a \in Nat, b \in Nat : /\ a = granted[key][i].expiresAt
                                            /\ b = granted[key][n].committedAt
            BY <2>1, <2>3, <2>k, <4>1, Zenon
          <5>4. a <= b /\ b + HTTPIdempotencyWindow <= call[c].observedAt
            BY <4>1, <4>2, <5>2, <5>3
          <5>5. a <= call[c].observedAt
            BY <2>c, <5>4, ConstantsAssumption
          <5> QED BY <5>3, <5>5
        <4> QED BY <4>3, <4>4
      <3> QED BY <3>1, <3>2
    <2>4. ASSUME NEW l \in Keys, NEW j \in DOMAIN granted'[l], NEW i \in 1..(j - 1)
          PROVE  granted'[l][i].expiresAt <= granted'[l][j].committedAt
      <3>1. CASE l # key
        BY <2>2, <2>4, <3>1 DEF WindowsDisjoint
      <3>2. CASE l = key /\ j = n + 1
        <4>1. i \in DOMAIN granted[key]
          BY <2>2, <2>4, <3>2
        <4> QED BY <2>1, <2>2, <2>3, <3>2, <4>1
      <3>3. CASE l = key /\ j # n + 1
        <4>1. i \in DOMAIN granted[key] /\ j \in DOMAIN granted[key]
          BY <2>2, <2>4, <3>3
        <4>2. granted[key][i].expiresAt <= granted[key][j].committedAt
          BY <2>1, <2>4, <4>1 DEF WindowsDisjoint
        <4> QED BY <2>2, <3>3, <4>1, <4>2
      <3> QED BY <3>1, <3>2, <3>3
    <2> QED BY <2>4 DEF WindowsDisjoint
  <1> QED BY <1>1, <1>2, StepCases
          DEF vars, Tick, Sample, beginIdempotencyCall, Passes, StartsWalk,
              reclaimExpiredCompleted, finishIdempotencyCall, Complete

\* Only the last grant of a key can be completed: the others started earlier.
LEMMA HolderIsLast ==
    ASSUME TypeOK, RecordInv, WindowsDisjoint, NEW k \in Keys, NEW i \in DOMAIN granted[k],
           Exists(k), SameReservation(granted[k][i], records[k])
    PROVE  i = Len(granted[k])
  <1> DEFINE n == Len(granted[k])
  <1>1. /\ n \in DOMAIN granted[k] /\ DOMAIN granted[k] = 1..n /\ n \in Nat
        /\ granted[k][n].committedAt = records[k].committedAt
    BY LastGrant
  <1>2. granted[k][i].committedAt = records[k].committedAt
    BY DEF SameReservation
  <1>3. /\ granted[k][i].committedAt \in Nat
        /\ granted[k][i].expiresAt = granted[k][i].committedAt + HTTPIdempotencyWindow
    BY GrantedTimes DEF RecordInv
  <1>4. i \in 1..(n - 1) => granted[k][i].expiresAt <= granted[k][n].committedAt
    BY <1>1 DEF WindowsDisjoint
  <1> QED BY <1>1, <1>2, <1>3, <1>4, ConstantsAssumption

\* The reservation a grant replaces has its result, so every earlier one has.
LEMMA AllBound ==
    ASSUME CompletionsReachTheirGrant, NEW c \in Callers, Grants(c), call[c].key \in Keys,
           NEW i \in DOMAIN granted[call[c].key]
    PROVE  \E b \in bindings : b.key = call[c].key /\ b.grant = i
  <1>1. Exists(call[c].key) => completed(records[call[c].key])
    BY DEF Grants, Replaces, ReturnsCurrent
  <1> QED BY <1>1 DEF CompletionsReachTheirGrant

\* What Complete binds was awaited, and by that holder.
LEMMA BindingStep ==
    TypeOK /\ CallInv /\ WalkInv /\ RecordInv /\ WindowsDisjoint /\ BindingInv
        /\ CompletionsReachTheirGrant /\ [Next]_vars
        => BindingInv' /\ CompletionsReachTheirGrant'
  <1> SUFFICES ASSUME TypeOK, CallInv, WalkInv, RecordInv, WindowsDisjoint, BindingInv,
                      CompletionsReachTheirGrant, [Next]_vars
               PROVE  BindingInv' /\ CompletionsReachTheirGrant'
    OBVIOUS
  <1>b. \A b \in bindings : b.key \in Keys
    BY DEF TypeOK
  <1>1. ASSUME UNCHANGED <<records, granted, bindings>>
        PROVE  BindingInv' /\ CompletionsReachTheirGrant'
    BY <1>1 DEF BindingInv, CompletionsReachTheirGrant, Exists
  <1>2. ASSUME NEW c \in Callers, Grants(c)
        PROVE  BindingInv' /\ CompletionsReachTheirGrant'
    <2> DEFINE key == call[c].key
               n == Len(granted[key])
    <2>1. PICK r \in Reservation :
             /\ key \in Keys
             /\ r # noRecord
             /\ ~completed(r)
             /\ records' = [records EXCEPT ![key] = r]
             /\ granted' = [granted EXCEPT ![key] = Append(@, r)]
      BY <1>2, GrantWrites DEF Grants, Live
    <2>2. /\ \A l \in Keys : l # key => granted'[l] = granted[l]
          /\ n \in Nat
          /\ DOMAIN granted[key] = 1..n
          /\ Len(granted'[key]) = n + 1
          /\ DOMAIN granted'[key] = 1..(n + 1)
      BY <2>1, GrantedAfter
    <2>3. \A l \in Keys : records'[l] = IF l = key THEN r ELSE records[l]
      BY <2>1 DEF TypeOK
    <2>4. bindings' = bindings
      BY <1>2 DEF Grants
    <2>5. ASSUME NEW b \in bindings
          PROVE  b.grant \in DOMAIN granted'[b.key] /\ (b.key = key => b.grant # n + 1)
      <3>1. b.grant \in DOMAIN granted[b.key]
        BY DEF BindingInv
      <3>2. CASE b.key = key
        BY <2>2, <3>1, <3>2
      <3>3. CASE b.key # key
        BY <1>b, <2>2, <3>1, <3>3
      <3> QED BY <3>2, <3>3
    <2>6. ASSUME NEW l \in Keys, Exists(l)', ~completed(records'[l]),
                 NEW b \in bindings, b.key = l
          PROVE  b.grant # Len(granted'[l])
      <3>1. CASE l = key
        BY <2>2, <2>5, <2>6, <3>1
      <3>2. CASE l # key
        BY <2>2, <2>3, <2>6, <3>2 DEF BindingInv, Exists
      <3> QED BY <3>1, <3>2
    <2>7. ASSUME NEW l \in Keys, NEW i \in DOMAIN granted'[l]
          PROVE  \/ \E b \in bindings : b.key = l /\ b.grant = i
                 \/ Exists(l)' /\ ~completed(records'[l]) /\ i = Len(granted'[l])
      <3>1. CASE l # key
        BY <2>2, <2>3, <2>7, <3>1 DEF CompletionsReachTheirGrant, Exists
      <3>2. CASE l = key /\ i = n + 1
        BY <2>1, <2>2, <2>3, <3>2 DEF Exists
      <3>3. CASE l = key /\ i # n + 1
        <4>1. i \in DOMAIN granted[key]
          BY <2>2, <2>7, <3>3
        <4> QED BY <1>2, <2>1, <3>3, <4>1, AllBound
      <3> QED BY <3>1, <3>2, <3>3
    <2>8. BindingInv'
      BY <2>4, <2>5, <2>6 DEF BindingInv
    <2>9. CompletionsReachTheirGrant'
      BY <2>4, <2>7 DEF CompletionsReachTheirGrant
    <2> QED BY <2>8, <2>9
  <1>3. ASSUME NEW c \in Callers, NEW k \in Keys, reclaimExpiredCompleted(c, k)
        PROVE  BindingInv' /\ CompletionsReachTheirGrant'
    <2>1. UNCHANGED <<granted, bindings>> /\ k \in walk
      BY <1>3 DEF reclaimExpiredCompleted
    <2>2. \A l \in Keys : /\ Exists(l)' => Exists(l) /\ records'[l] = records[l]
                          /\ ~Exists(l)' => ~Exists(l) \/ completed(records[l])
      BY <1>3 DEF reclaimExpiredCompleted, Reclaimable, Exists, TypeOK
    <2>3. BindingInv'
      BY <2>1, <2>2 DEF BindingInv
    <2>4. CompletionsReachTheirGrant'
      BY <2>1, <2>2 DEF CompletionsReachTheirGrant
    <2> QED BY <2>3, <2>4
  <1>4. ASSUME NEW k \in Keys, NEW result \in Results, NEW i \in DOMAIN granted[k],
               Complete(k, i, result)
        PROVE  BindingInv' /\ CompletionsReachTheirGrant'
    <2> DEFINE n == Len(granted[k])
               new == [key |-> k, holder |-> i, grant |-> n, result |-> result]
    <2>1. granted' = granted /\ bindings' = bindings \cup {new}
      BY <1>4 DEF Complete
    <2>2. i = n
      BY <1>4, HolderIsLast DEF Complete
    <2>3. \A b \in bindings : b.key = k => b.grant # n
      BY <1>4 DEF Complete, BindingInv
    <2>4. new.key = k /\ new.holder = i /\ new.grant = n
      OBVIOUS
    <2> HIDE DEF new
    <2>5. \A l \in Keys : /\ Exists(l)' <=> Exists(l)
                          /\ l # k => records'[l] = records[l]
      BY <1>4, Completed DEF Exists
    <2>6. completed(records'[k])
      BY <1>4, Completed
    <2>7. BindingInv'
      BY <2>1, <2>2, <2>3, <2>4, <2>5, <2>6 DEF BindingInv
    <2>8. \A b \in bindings' :
             /\ b.holder = b.grant
             /\ \A d \in bindings' : d.key = b.key /\ d.grant = b.grant => d = b
      BY <2>1, <2>2, <2>3, <2>4 DEF CompletionsReachTheirGrant
    <2>9. ASSUME NEW l \in Keys, NEW j \in DOMAIN granted[l]
          PROVE  \/ \E b \in bindings' : b.key = l /\ b.grant = j
                 \/ Exists(l)' /\ ~completed(records'[l]) /\ j = Len(granted[l])
      <3>1. CASE l = k /\ j = n
        BY <2>1, <2>4, <3>1
      <3>2. CASE l # k \/ j # n
        BY <2>1, <2>5, <3>2 DEF CompletionsReachTheirGrant
      <3> QED BY <3>1, <3>2
    <2> QED BY <2>1, <2>7, <2>8, <2>9 DEF CompletionsReachTheirGrant
  <1> QED BY <1>1, <1>2, <1>3, <1>4, StepCases
          DEF vars, Tick, Sample, beginIdempotencyCall, Passes, StartsWalk, finishIdempotencyCall

IInv ==
    /\ TypeOK /\ CallInv /\ WalkInv
    /\ RecordInv
    /\ SampleInv
    /\ WindowsDisjoint
    /\ BindingInv
    /\ CompletionsReachTheirGrant

\* The invariant holds of a new ledger and is kept by every step.
LEMMA InvariantInductive ==
    /\ Init => IInv
    /\ SamplesInOrder /\ IInv /\ [Next]_vars => IInv'
  <1>1. Init => IInv
    <2> SUFFICES ASSUME Init PROVE IInv
      OBVIOUS
    <2>1. \A k \in Keys : granted[k] = <<>> /\ ~Exists(k)
      BY DEF Init, Exists
    <2>2. \A k \in Keys : DOMAIN granted[k] = {}
      <3>1. DOMAIN <<>> = {}
        OBVIOUS
      <3> QED BY <2>1, <3>1, Zenon
    <2> QED BY <2>1, <2>2, TypeInit
            DEF Init, IInv, RecordInv, SampleInv, WindowsDisjoint, BindingInv,
                CompletionsReachTheirGrant, Live
  <1>2. SamplesInOrder /\ IInv /\ [Next]_vars => IInv'
    BY TypeStep, CallStep, WalkStep, RecordStep, SampleStep, WindowStep, BindingStep DEF IInv
  <1> QED BY <1>1, <1>2

\* Callers that register in sample order never see two reservations of a key live
\* at the same database time (reserveRegistered, hasEarlierLiveCall,
\* reclaimExpiredCompleted).
THEOREM ReservationWindowsDisjoint == SamplesInOrder => (Spec => []WindowsDisjoint)
  <1> SUFFICES ASSUME SamplesInOrder PROVE Spec => []WindowsDisjoint
    OBVIOUS
  <1>1. Init => IInv
    BY InvariantInductive
  <1>2. IInv /\ [Next]_vars => IInv'
    BY InvariantInductive
  <1>3. IInv => WindowsDisjoint
    BY DEF IInv
  <1> QED BY <1>1, <1>2, <1>3, PTL DEF Spec

\* For the same callers, a completion binds its result to the reservation its
\* holder was given and to no other, once, and no unresolved reservation is
\* recycled (Complete, reclaimExpiredCompleted).
THEOREM CompletionsBindTheirGrant == SamplesInOrder => (Spec => []CompletionsReachTheirGrant)
  <1> SUFFICES ASSUME SamplesInOrder PROVE Spec => []CompletionsReachTheirGrant
    OBVIOUS
  <1>1. Init => IInv
    BY InvariantInductive
  <1>2. IInv /\ [Next]_vars => IInv'
    BY InvariantInductive
  <1>3. IInv => CompletionsReachTheirGrant
    BY DEF IInv
  <1> QED BY <1>1, <1>2, <1>3, PTL DEF Spec
=============================================================================
