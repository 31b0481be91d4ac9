-------------------------- MODULE IdempotencyLedger --------------------------
(***************************************************************************)
(* The HTTP idempotency ledger of package reconciliation (idempotency.go): *)
(* concurrent Reserve calls that register their database-time sample in    *)
(* the active registry (activityMu), then compete for the ledger           *)
(* transition (mu), then leave the registry; and Complete calls.           *)
(*                                                                         *)
(* A call samples a database clock that never goes back and registers      *)
(* later.  SamplesInOrder says whether the callers see to it that calls    *)
(* register in the order of their samples, which the ledger does not.      *)
(* A Reserve that reaches the capacity walks the records under mu, looking *)
(* into the registry once per record: registrations interleave with it.    *)
(***************************************************************************)
EXTENDS Integers, FiniteSets, Sequences

CONSTANTS
    Keys,          \* scoped idempotency keys (mapKey)
    Fingerprints,  \* request fingerprints
    Results,       \* semantic result digests
    Callers,       \* goroutines that call Reserve, any number of times each
    maximum,       \* NewIdempotencyLedger(maximum)
    HTTPIdempotencyWindow,
    SamplesInOrder, \* callers register in the order of their samples
    MaxTime,       \* bound on the database clock
    MaxCalls       \* bound on the registered calls of a run

NoResult == "no result"
NoKey == "no key"

ASSUME ConstantsAssumption ==
    /\ maximum \in Nat \ {0}
    /\ HTTPIdempotencyWindow \in Nat \ {0}
    /\ SamplesInOrder \in BOOLEAN
    /\ MaxTime \in Nat \ {0}
    /\ MaxCalls \in Nat
    /\ NoResult \notin Results
    /\ NoKey \notin Keys
    /\ IsFiniteSet(Keys) /\ IsFiniteSet(Callers)

VARIABLES
    clock,      \* database time
    pc,         \* where each caller's Reserve stands
    call,       \* key, fingerprint, sample and sequence of each caller's call
    walk,       \* records the reclamation of the caller that holds mu has left
    nextCall, lastCall, highWater,
    epochs,     \* keyState; 0 when the key has none
    records,    \* retained reservations; epoch 0 when the key has none
    granted,    \* history: the reservations each key's callers were given
    bindings    \* history: the results bound, by which holder, to which grant

vars == <<clock, pc, call, walk, nextCall, lastCall, highWater, epochs, records,
          granted, bindings>>

-----------------------------------------------------------------------------
Reservation ==
    [fingerprint : Fingerprints, epoch : Nat \ {0}, committedAt : Nat,
     expiresAt : Nat, result : Results \cup {NoResult}]

\* result is NoResult exactly when the reservation is not completed.
completed(r) == r.result # NoResult

noRecord == [epoch |-> 0]

Exists(k) == records[k] # noRecord

LedgerLen == Cardinality({k \in Keys : Exists(k)})

activeLimit == maximum + 1

\* A call is in the active registry from its registration to its finish.
Active == {c \in Callers : pc[c] \in {"registered", "reclaiming", "finishing"}}

muFree == \A c \in Callers : pc[c] # "reclaiming"

newReservation(fp, epoch, now) ==
    [fingerprint |-> fp, epoch |-> epoch, committedAt |-> now,
     expiresAt |-> now + HTTPIdempotencyWindow, result |-> NoResult]

Expired(r, now) == now >= r.expiresAt

\* Mutated: only the caller's own sample counts.
hasEarlierLiveCall_never(k, c, expiresAt) == FALSE
\* Another registered call of the key has a sample inside the window.
hasEarlierLiveCall(k, c, expiresAt) ==
    \E d \in Active \ {c} : call[d].key = k /\ call[d].observedAt < expiresAt

noCall == [key |-> NoKey]

idempotencyCall ==
    [key : Keys, fingerprint : Fingerprints, observedAt : Nat, sequence : Nat]

Init ==
    /\ clock = 1
    /\ pc = [c \in Callers |-> "idle"]
    /\ call = [c \in Callers |-> noCall]
    /\ walk = {}
    /\ nextCall = 0
    /\ lastCall = 0
    /\ highWater = 0
    /\ epochs = [k \in Keys |-> 0]
    /\ records = [k \in Keys |-> noRecord]
    /\ granted = [k \in Keys |-> <<>>]
    /\ bindings = {}

Tick ==
    /\ clock < MaxTime
    /\ clock' = clock + 1
    /\ UNCHANGED <<pc, call, walk, nextCall, lastCall, highWater, epochs, records,
                   granted, bindings>>

\* The caller samples the database time for the request it is about to reserve.
Sample(c, k, fp) ==
    /\ pc[c] = "idle"
    /\ nextCall < MaxCalls
    /\ SamplesInOrder => \A d \in Callers : pc[d] # "sampled"
    /\ pc' = [pc EXCEPT ![c] = "sampled"]
    /\ call' = [call EXCEPT ![c] =
          [key |-> k, fingerprint |-> fp, observedAt |-> clock, sequence |-> 0]]
    /\ UNCHANGED <<clock, walk, nextCall, lastCall, highWater, epochs, records, granted,
                   bindings>>

RegistryFull == Cardinality(Active) >= activeLimit

beginIdempotencyCall(c) ==
    /\ pc[c] = "sampled"
    /\ \/ /\ ~RegistryFull
          /\ nextCall' = nextCall + 1
          /\ call' = [call EXCEPT ![c].sequence = nextCall + 1]
          /\ pc' = [pc EXCEPT ![c] = "registered"]
       \/ /\ RegistryFull
          /\ pc' = [pc EXCEPT ![c] = "idle"]
          /\ call' = [call EXCEPT ![c] = noCall]
          /\ UNCHANGED nextCall
    /\ UNCHANGED <<clock, walk, lastCall, highWater, epochs, records, granted,
                   bindings>>

finishIdempotencyCall(c) ==
    /\ pc[c] = "finishing"
    /\ pc' = [pc EXCEPT ![c] = "idle"]
    /\ call' = [call EXCEPT ![c] = noCall]
    /\ UNCHANGED <<clock, walk, nextCall, lastCall, highWater, epochs, records,
                   granted, bindings>>

-----------------------------------------------------------------------------
(* The ledger transition of a registered call, under mu *)

maxOf(a, b) == IF a >= b THEN a ELSE b

\* A call newer than every call seen so far must not have a sample below the
\* high-water; an older one keeps its own sample.
ClockRegressed(c) == call[c].sequence > lastCall /\ call[c].observedAt < highWater

\* observeIdempotencyTimeLocked; the high-water is left alone on a regression.
ObserveTime(c) ==
    /\ lastCall' = maxOf(lastCall, call[c].sequence)
    /\ highWater' = maxOf(highWater, call[c].observedAt)

\* Hand the key's next epoch to the caller.
Grant(c, epoch) ==
    LET r == newReservation(call[c].fingerprint, epoch, call[c].observedAt)
    IN  /\ records' = [records EXCEPT ![call[c].key] = r]
        /\ epochs' = [epochs EXCEPT ![call[c].key] = epoch]
        /\ granted' = [granted EXCEPT ![call[c].key] = Append(@, r)]

\* The record of the call's key is replayed, conflicts or is outstanding: the
\* call returns without changing the ledger.
ReturnsCurrent(c) ==
    LET r == records[call[c].key]
    IN  /\ Exists(call[c].key)
        /\ \/ ~completed(r)
           \/ ~Expired(r, call[c].observedAt)
           \/ hasEarlierLiveCall(call[c].key, c, r.expiresAt)

\* The completed record has expired at the call's own sample: next epoch.
Replaces(c) ==
    /\ Exists(call[c].key)
    /\ ~ReturnsCurrent(c)

reserveRegistered(c) ==
    /\ pc[c] = "registered"
    /\ muFree
    /\ ObserveTime(c)
    /\ \/ /\ ClockRegressed(c) \/ ReturnsCurrent(c)
          /\ pc' = [pc EXCEPT ![c] = "finishing"]
          /\ UNCHANGED <<walk, epochs, records, granted,
                   bindings>>
       \/ /\ ~ClockRegressed(c)
          /\ Replaces(c)
          /\ Grant(c, epochs[call[c].key] + 1)
          /\ pc' = [pc EXCEPT ![c] = "finishing"]
          /\ UNCHANGED walk
       \/ /\ ~ClockRegressed(c)
          /\ ~Exists(call[c].key)
          /\ LedgerLen < maximum
          /\ Grant(c, epochs[call[c].key] + 1)
          /\ pc' = [pc EXCEPT ![c] = "finishing"]
          /\ UNCHANGED walk
       \/ /\ ~ClockRegressed(c)
          /\ ~Exists(call[c].key)
          /\ LedgerLen >= maximum
          /\ walk' = {k \in Keys : Exists(k)}
          /\ pc' = [pc EXCEPT ![c] = "reclaiming"]
          /\ UNCHANGED <<epochs, records, granted,
                   bindings>>
    /\ UNCHANGED <<clock, call, nextCall, bindings>>

Reclaimable(c, k) ==
    /\ completed(records[k])
    /\ Expired(records[k], call[c].observedAt)
    /\ ~hasEarlierLiveCall(k, c, records[k].expiresAt)

\* One iteration of the reclamation walk, in map order: any order.
reclaimExpiredCompleted(c, k) ==
    /\ pc[c] = "reclaiming"
    /\ k \in walk
    /\ walk' = walk \ {k}
    /\ \/ /\ Reclaimable(c, k)
          /\ records' = [records EXCEPT ![k] = noRecord]
          /\ epochs' = [epochs EXCEPT ![k] = 0]
       \/ /\ ~Reclaimable(c, k)
          /\ UNCHANGED <<records, epochs>>
    /\ UNCHANGED <<clock, pc, call, nextCall, lastCall, highWater, granted, bindings>>

RoomAfterWalk == LedgerLen < maximum

\* The walk is over: there is room for the call's record now, or none.
reserveAfterReclaim(c) ==
    /\ pc[c] = "reclaiming"
    /\ walk = {}
    /\ pc' = [pc EXCEPT ![c] = "finishing"]
    /\ IF RoomAfterWalk THEN Grant(c, epochs[call[c].key] + 1)
                        ELSE UNCHANGED <<records, epochs, granted>>
    /\ UNCHANGED <<clock, call, walk, nextCall, lastCall, highWater, bindings>>

\* Mutated: only the key and epoch of the reservation are compared.
SameReservation_epochOnly(r, current) == r.epoch = current.epoch
\* The retained record is the reservation the holder was given.
SameReservation(r, current) ==
    /\ r.epoch = current.epoch
    /\ r.fingerprint = current.fingerprint
    /\ r.committedAt = current.committedAt
    /\ r.expiresAt = current.expiresAt

\* The holder of the i-th reservation ever granted for the key delivers its
\* result.  A result delivered again, or to a reservation that is gone, changes
\* nothing.
Complete(k, i, result) ==
    /\ muFree
    /\ Exists(k)
    /\ SameReservation(granted[k][i], records[k])
    /\ ~completed(records[k])
    /\ records' = [records EXCEPT ![k].result = result]
    /\ bindings' = bindings \cup
          {[key |-> k, holder |-> i, grant |-> Len(granted[k]), result |-> result]}
    /\ UNCHANGED <<clock, pc, call, walk, nextCall, lastCall, highWater, epochs, granted>>

Next ==
    \/ Tick
    \/ \E c \in Callers :
          \/ \E k \in Keys, fp \in Fingerprints : Sample(c, k, fp)
          \/ beginIdempotencyCall(c)
          \/ reserveRegistered(c)
          \/ \E k \in Keys : reclaimExpiredCompleted(c, k)
          \/ reserveAfterReclaim(c)
          \/ finishIdempotencyCall(c)
    \/ \E k \in Keys, result \in Results : \E i \in DOMAIN granted[k] : Complete(k, i, result)

Spec == Init /\ [][Next]_vars

-----------------------------------------------------------------------------
\* The state has the types of the Go declarations; the ledger retains at most
\* maximum records and its registry one call more, whatever the calls do while
\* one of them walks the records (RoomAfterWalk is tested again after the walk).
TypeOK ==
    /\ clock \in 1..MaxTime
    /\ pc \in [Callers -> {"idle", "sampled", "registered", "reclaiming", "finishing"}]
    /\ call \in [Callers -> idempotencyCall \cup {noCall}]
    /\ walk \subseteq Keys
    /\ nextCall \in Nat
    /\ lastCall \in 0..nextCall
    /\ highWater \in 0..clock
    /\ epochs \in [Keys -> Nat]
    /\ records \in [Keys -> Reservation \cup {noRecord}]
    /\ granted \in [Keys -> Seq(Reservation)]
    /\ bindings \subseteq [key : Keys, holder : Nat, grant : Nat, result : Results]
    /\ LedgerLen <= maximum
    /\ Cardinality(Active) <= activeLimit

\* Two reservations of a key are never live at the same database time: a
\* request whose own sample lies in the 24 hour window of a reservation is
\* replayed or refused, and is never handed a fresh one.  Replacement,
\* reclamation by a call for another key, and calls that overtake each other
\* all have to respect the window (reserveRegistered, hasEarlierLiveCall).
WindowsDisjoint ==
    \A k \in Keys : \A j \in DOMAIN granted[k] : \A i \in 1..(j - 1) :
        granted[k][i].expiresAt <= granted[k][j].committedAt

\* A delayed completion never lands in another reservation, although reclamation
\* lets a key's epochs start at one again: what Complete binds was reserved by
\* the very holder that delivers it, and each reservation is bound once.  And no
\* unresolved reservation is recycled, however much time passes: each is still in
\* the ledger until its holder has bound a result to it (Reclaimable, Complete).
CompletionsReachTheirGrant ==
    /\ \A b \in bindings :
          /\ b.holder = b.grant
          /\ \A d \in bindings : d.key = b.key /\ d.grant = b.grant => d = b
    /\ \A k \in Keys : \A i \in DOMAIN granted[k] :
          \/ \E b \in bindings : b.key = k /\ b.grant = i
          \/ Exists(k) /\ ~completed(records[k]) /\ i = Len(granted[k])
=============================================================================
