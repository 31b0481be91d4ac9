-------------------------- MODULE CredentialBroker --------------------------
(***************************************************************************)
(* The session half of the process-local credential broker                 *)
(* (internal/core/service/credentialbroker): connection lineages and       *)
(* operation tombstones, the single-flight issue and refresh of provider   *)
(* sessions, rotation cutover, caller-owned leases, local invalidation     *)
(* followed by upstream revocation, and the expiry evidence that lets a    *)
(* later lifecycle call report honestly on a session it no longer holds.   *)
(*                                                                         *)
(* Every critical section of broker.mu is one action.  What the code does  *)
(* between two sections (destroying material, publishing cancellations,    *)
(* waiting on a channel, calling a provider) separates two actions.        *)
(*                                                                         *)
(* The source cache (source.go) is abstracted to the outcome of            *)
(* acquireSource or resolveOwned.  A flight starts at most one session, so *)
(* one identifier names the flight, the session it issues and the cell     *)
(* that holds that session.  A request is [conn, op, gen, source]: its     *)
(* binding digest is the record itself.  Time is the broker's lastNow;     *)
(* eviction may take any eligible cell where the code takes the least      *)
(* recently used one.                                                      *)
(***************************************************************************)
EXTENDS Integers, FiniteSets, FiniteSetsExt

CONSTANTS
    Requests,                 \* requests the callers can seal
    Callers,                  \* callers of the lifecycle operations
    MaxFlights,               \* bound: flights a behaviour may start
    MaxWaiters,               \* bound: callers waiting on one flight
    MaxTime,                  \* bound: observed clock
    TTLs,                     \* lifetimes a provider may grant, in ticks
    MinIssuedSessionTTL,      \* shortest lifetime the broker publishes
    RefreshAhead,             \* refresh is due this long before expiry
    UseMargin,                \* MinNewUseLifetime plus SessionExpirySkew
    MaxSessionEntries,
    MaxActiveLeases,
    MaxTrackedOperations,
    MaxTrackedConnections,
    MaxConcurrentRevocations

Ids == 1..MaxFlights
Conns == {r.conn : r \in Requests}
Ops == {r.op : r \in Requests}

VARIABLES
    closed,                   \* broker.closed
    now,                      \* broker.lastNow
    nextEpoch,                \* broker.nextEpoch
    lineages,                 \* broker.lineages, generation 0 when untracked
    operations,               \* broker.operations, state "absent" when untracked
    sessions,                 \* broker.sessions: binding -> cell, 0 when missing
    cells,                    \* broker.cells
    invalid, draining,        \* cells with that flag
    attempt,                  \* progress of each cell's revocationAttempt
    result,                   \* result of each revocationAttempt
    refs,                     \* sessionCell.refs, the open leases of a cell
    epochs,                   \* connEpoch and opEpoch of each cell
    expires,                  \* IssuedSession.expiresAt, 0 before issue
    using,                    \* cells with an admitted Use callback
    destroyed,                \* sessions whose material was destroyed
    revoked,                  \* sessions the provider no longer honours
    disposal,                 \* outstanding destructions of each session
    flight,                   \* session and rotation flights
    started,                  \* flights started so far
    activeLeases, leaseReservations, sessionReservations,
    operationReservations,
    gate,                     \* holder of invalidationGate, 0 when free
    cleanup                   \* lifecycle calls and committed rotations

lockVars == <<lineages, operations, sessions, cells, invalid, draining, attempt>>
vars == <<closed, now, nextEpoch, lineages, operations, sessions, cells, invalid,
          draining, attempt, result, refs, epochs, expires, using, destroyed,
          revoked, disposal, flight, started, activeLeases, leaseReservations,
          sessionReservations, operationReservations, gate, cleanup>>

noRequest == [conn |-> "none", op |-> "none", gen |-> 0, source |-> "none"]
noLineage == [generation |-> 0, source |-> "none", epoch |-> 0,
              revokedThrough |-> 0, until |-> 0]
noOperation == [state |-> "absent", binding |-> noRequest, epoch |-> 0, until |-> 0]
noFlight == [kind |-> "none", phase |-> "none", req |-> noRequest,
             connEpoch |-> 0, opEpoch |-> 0, fromGen |-> 0, flags |-> {},
             fallback |-> 0, pinned |-> 0, waiters |-> 0, leaseReserved |-> 0,
             batch |-> {}, err |-> "none"]
noCleanup == [phase |-> "idle", kind |-> "none", req |-> noRequest, batch |-> {},
              cancels |-> {}, attempts |-> {}, flights |-> {},
              base |-> "NotRequired", outcome |-> "none"]

Results == {"NotRequired", "ProviderConfirmed", "ExpiryBound", "Pending"}

(* mergeRevocation over a whole set: the strongest remaining authority.    *)
mergeRevocation(S) ==
    IF "Pending" \in S THEN "Pending"
    ELSE IF "ExpiryBound" \in S THEN "ExpiryBound"
    ELSE IF "ProviderConfirmed" \in S THEN "ProviderConfirmed"
    ELSE "NotRequired"

Request(c) == flight[c].req
Has(c, flag) == flag \in flight[c].flags
Valid(c) == expires[c] > 0 /\ c \notin destroyed
CanStartUse(c) == Valid(c) /\ now + UseMargin <= expires[c]
RefreshDueAt(c) == now + RefreshAhead >= expires[c]
LiveUpstream(c) == expires[c] > now /\ c \notin revoked
Running(c) == attempt[c] \in {"created", "started", "calling"}

(* Flights still in broker.sessionFlights and broker.rotations.            *)
Unsettled == {"starting", "issuing", "returned", "cleanup"}
sessionFlights == {f \in Ids : flight[f].kind = "session" /\ flight[f].phase \in Unsettled}
rotations ==
    {f \in Ids : /\ flight[f].kind = "rotation"
                 /\ flight[f].phase \in Unsettled \cup {"committed"}}
sessionFlightFor(r) == {f \in sessionFlights : Request(f) = r}
rotationFor(k) == {f \in rotations : Request(f).conn = k}
Finished(f) ==
    \/ flight[f].phase \in {"failed", "finished"}
    \/ flight[f].phase = "installed" /\ flight[f].batch \subseteq destroyed

-----------------------------------------------------------------------------
(* The state an operation edits while it holds broker.mu, and the batch of *)
(* sessions it will destroy after releasing it.                            *)
Locked == [lineages |-> lineages, operations |-> operations,
           sessions |-> sessions, cells |-> cells, invalid |-> invalid,
           draining |-> draining, attempt |-> attempt, batch |-> {}]

(* addSessionLocked: a session queued for destruction keeps one slot.      *)
sessionSlots(v) == Cardinality(v.batch)

(* Releasing the lock: every session of the batch keeps one slot charged   *)
(* until destroy, and `reserved` further slots go to flights.              *)
Unlock(v, reserved) ==
    /\ lineages' = v.lineages
    /\ operations' = v.operations
    /\ sessions' = v.sessions
    /\ cells' = v.cells
    /\ invalid' = v.invalid
    /\ draining' = v.draining
    /\ attempt' = v.attempt
    /\ disposal' = [c \in Ids |-> IF c \in v.batch THEN disposal[c] + 1 ELSE disposal[c]]
    /\ sessionReservations' = sessionReservations + sessionSlots(v) + reserved

(* The lineage and the operation of each session, where they are tracked,  *)
(* keep the latest expiry.                                                 *)
recordExpiryUntilLocked(v, S) ==
    [v EXCEPT
        !.lineages = [k \in Conns |->
            IF @[k].generation = 0 THEN @[k]
            ELSE [@[k] EXCEPT !.until =
                    Max({@} \cup {expires[c] : c \in {s \in S : Request(s).conn = k}})]],
        !.operations = [o \in Ops |->
            IF @[o].state = "absent" THEN @[o]
            ELSE [@[o] EXCEPT !.until =
                    Max({@} \cup {expires[c] : c \in {s \in S : Request(s).op = o}})]]]

\* Mutated: a dropped session leaves no evidence.
recordExpiryEvidenceLocked_none(v, S) == v

recordExpiryEvidenceLocked(v, S) ==
    recordExpiryUntilLocked(v, {c \in S : /\ Valid(c)
                                          /\ v.attempt[c] = "none"
                                          /\ now < expires[c]})

sweepExpiryEvidenceLocked(v) ==
    [v EXCEPT
        !.lineages = [k \in Conns |->
            IF now >= @[k].until THEN [@[k] EXCEPT !.until = 0] ELSE @[k]],
        !.operations = [o \in Ops |->
            IF now >= @[o].until THEN [@[o] EXCEPT !.until = 0] ELSE @[o]]]

(* A session too old for a new use leaves the cache; it is destroyed now   *)
(* when no lease holds it.                                                 *)
sweepLocked(v) ==
    LET stale == {v.sessions[r] : r \in {b \in Requests :
                      v.sessions[b] # 0 /\ ~CanStartUse(v.sessions[b])}}
        idle == {c \in stale : refs[c] = 0}
    IN  [recordExpiryEvidenceLocked(sweepExpiryEvidenceLocked(v), idle) EXCEPT
            !.sessions = [r \in Requests |-> IF @[r] \in stale THEN 0 ELSE @[r]],
            !.draining = @ \cup stale,
            !.cells = @ \ idle,
            !.batch = @ \cup idle]

(* drainCellLocked: a replaced cell leaves the cache without being revoked.*)
drainCellLocked(v, c) ==
    LET idle == {d \in {c} : refs[d] = 0}
    IN  [recordExpiryEvidenceLocked(v, idle) EXCEPT
            !.sessions = [r \in Requests |-> IF @[r] = c THEN 0 ELSE @[r]],
            !.draining = @ \cup {c},
            !.cells = @ \ idle,
            !.batch = @ \cup idle]

\* Mutated: only the published sessions are counted.
sessionRoom_published(v) == Cardinality(v.cells) < MaxSessionEntries

sessionRoom(v) ==
    Cardinality(v.cells) + sessionReservations + sessionSlots(v) < MaxSessionEntries

(* makeSessionRoomExceptLocked: the views with one free slot, none when    *)
(* every cell is protected.                                                *)
makeSessionRoomExceptLocked(v, pinned, protected) ==
    IF sessionRoom(v)
    THEN {v}
    ELSE {[recordExpiryEvidenceLocked(v, {c}) EXCEPT
              !.sessions = [r \in Requests |-> IF @[r] = c THEN 0 ELSE @[r]],
              !.invalid = @ \cup {c},
              !.draining = @ \cup {c},
              !.cells = @ \ {c},
              !.batch = @ \cup {c}] :
          c \in {d \in v.cells : /\ refs[d] = 0
                                 /\ d \notin pinned
                                 /\ ~Running(d)
                                 /\ Request(d).conn # protected}}

Pinned == {flight[f].pinned : f \in sessionFlights}

-----------------------------------------------------------------------------
Init ==
    /\ closed = FALSE
    /\ now = 0
    /\ nextEpoch = 0
    /\ lineages = [k \in Conns |-> noLineage]
    /\ operations = [o \in Ops |-> noOperation]
    /\ sessions = [r \in Requests |-> 0]
    /\ cells = {} /\ invalid = {} /\ draining = {}
    /\ attempt = [c \in Ids |-> "none"]
    /\ result = [c \in Ids |-> "NotRequired"]
    /\ refs = [c \in Ids |-> 0]
    /\ epochs = [c \in Ids |-> [conn |-> 0, op |-> 0]]
    /\ expires = [c \in Ids |-> 0]
    /\ destroyed = {} /\ revoked = {} /\ using = {}
    /\ disposal = [c \in Ids |-> 0]
    /\ flight = [f \in Ids |-> noFlight]
    /\ started = 0
    /\ activeLeases = 0 /\ leaseReservations = 0
    /\ sessionReservations = 0 /\ operationReservations = 0
    /\ gate = 0
    /\ cleanup = [o \in Callers \cup Ids |-> noCleanup]

(* observeNowLocked accepts a later sample.                                *)
observeNowLocked ==
    /\ now < MaxTime
    /\ now' = now + 1
    /\ UNCHANGED <<closed, using, nextEpoch, lockVars, result, refs, epochs, expires,
                   destroyed, revoked, disposal, flight, started, activeLeases,
                   leaseReservations, sessionReservations, operationReservations,
                   gate, cleanup>>

(* disposals.destroy, one session at a time: the slot is given back only   *)
(* when the material is gone.                                              *)
destroy(c) ==
    /\ disposal[c] > 0
    /\ destroyed' = destroyed \cup {c}
    /\ disposal' = [disposal EXCEPT ![c] = @ - 1]
    /\ sessionReservations' = sessionReservations - 1
    /\ UNCHANGED <<closed, now, using, nextEpoch, lockVars, result, refs, epochs, expires,
                   revoked, flight, started, activeLeases, leaseReservations,
                   operationReservations, gate, cleanup>>

(* SweepExpired, and every Acquire, Rotate or lifecycle call that observes *)
(* the clock, sweeps and is then refused.                                  *)
SweepExpired ==
    /\ ~closed
    /\ Unlock(sweepLocked(Locked), 0)
    /\ UNCHANGED <<closed, now, using, nextEpoch, result, refs, epochs, expires, destroyed,
                   revoked, flight, started, activeLeases, leaseReservations,
                   operationReservations, gate, cleanup>>

-----------------------------------------------------------------------------
(* session.go: Acquire and Refresh.                                        *)

Tracked(v) == {k \in Conns : v.lineages[k].generation > 0}
TrackedOperations(v) == {o \in Ops : v.operations[o].state # "absent"}

newLineageState(r, epoch) ==
    [noLineage EXCEPT !.generation = r.gen, !.source = r.source, !.epoch = epoch]

sameLineageRequest(l, r) == l.generation = r.gen /\ l.source = r.source

(* The checks of prepareRequestLocked, without its epoch allocation.       *)
Admissible(v, r) ==
    LET l == v.lineages[r.conn]
        o == v.operations[r.op]
    IN  /\ l.generation = 0 => Cardinality(Tracked(v)) < MaxTrackedConnections
        /\ o.state = "absent" =>
             Cardinality(TrackedOperations(v)) + operationReservations < MaxTrackedOperations
        /\ l.generation > 0 => sameLineageRequest(l, r) /\ l.revokedThrough < r.gen
        /\ o.state # "absent" => o.state = "open" /\ o.binding = r

(* An untracked connection and an untracked operation each take an epoch.  *)
newEpochs(v, r) ==
    (IF v.lineages[r.conn].generation = 0 THEN 1 ELSE 0)
    + (IF v.operations[r.op].state = "absent" THEN 1 ELSE 0)

prepareRequestLocked(v, r) ==
    [v EXCEPT
        !.lineages[r.conn] =
            IF @.generation = 0 THEN newLineageState(r, nextEpoch + 1) ELSE @,
        !.operations[r.op] =
            IF @.state = "absent"
            THEN [noOperation EXCEPT !.state = "open", !.binding = r,
                                     !.epoch = nextEpoch + newEpochs(v, r)]
            ELSE @]

cellCurrentLocked(v, c) ==
    LET l == v.lineages[Request(c).conn]
        o == v.operations[Request(c).op]
    IN  /\ c \notin v.invalid
        /\ Valid(c)
        /\ l.generation > 0 /\ l.epoch = epochs[c].conn
        /\ o.state = "open" /\ o.epoch = epochs[c].op
        /\ l.revokedThrough < l.generation
        /\ o.binding = Request(c)

LeaseRoom == activeLeases + leaseReservations < MaxActiveLeases

(* newLeaseLocked: who may take a lease on c now.                          *)
Leasable(v, c) == LeaseRoom /\ cellCurrentLocked(v, c) /\ CanStartUse(c)

allocateLeaseLocked(c, n) ==
    /\ refs' = [refs EXCEPT ![c] = @ + n]
    /\ activeLeases' = activeLeases + n

(* acquire serves the cached session.                                      *)
acquireHit(r) ==
    LET w == sweepLocked(Locked)
        v == prepareRequestLocked(w, r)
        c == v.sessions[r]
    IN  /\ ~closed /\ LeaseRoom /\ Admissible(w, r)
        /\ c # 0 /\ Leasable(v, c) /\ ~RefreshDueAt(c)
        /\ Unlock(v, 0)
        /\ nextEpoch' = nextEpoch + newEpochs(w, r)
        /\ allocateLeaseLocked(c, 1)
        /\ UNCHANGED <<closed, now, using, result, epochs, expires, destroyed, revoked, flight,
                       started, leaseReservations, operationReservations, gate, cleanup>>

(* acquire joins or starts the flight of its binding; a cell that is still *)
(* usable is pinned as the fallback of a refresh.                          *)
acquireFlight(r, forceRefresh) ==
    LET w == sweepLocked(Locked)
        p == prepareRequestLocked(w, r)
        c == p.sessions[r]
        usable == c # 0 /\ cellCurrentLocked(p, c) /\ CanStartUse(c)
        v == IF c # 0 /\ ~usable THEN drainCellLocked(p, c) ELSE p
        fallback == IF usable THEN c ELSE 0
        l == v.lineages[r.conn]
        o == v.operations[r.op]
        joined == sessionFlightFor(r)
        room == makeSessionRoomExceptLocked(v, Pinned \cup {fallback}, "none")
        f == started + 1
    IN  /\ ~closed /\ LeaseRoom /\ Admissible(w, r)
        /\ usable => forceRefresh \/ RefreshDueAt(c)
        /\ nextEpoch' = nextEpoch + newEpochs(w, r)
        /\ \/ \E j \in joined :                        \* join it
                /\ ~Has(j, "abandoned")
                /\ flight[j].connEpoch = l.epoch /\ flight[j].opEpoch = o.epoch
                /\ flight[j].waiters < MaxWaiters
                /\ flight' = [flight EXCEPT ![j].waiters = @ + 1]
                /\ Unlock(v, 0) /\ UNCHANGED started
           \/ /\ \/ joined = {} /\ room = {}           \* ErrCapacity
                 \/ \E j \in joined :                  \* ErrUnavailable
                       \/ Has(j, "abandoned")
                       \/ flight[j].connEpoch # l.epoch
                       \/ flight[j].opEpoch # o.epoch
              /\ Unlock(v, 0) /\ UNCHANGED <<flight, started>>
           \/ /\ joined = {} /\ started < MaxFlights   \* start one
              /\ \E e \in room :
                   /\ Unlock(e, 1)
                   /\ flight' = [flight EXCEPT ![f] =
                        [noFlight EXCEPT
                            !.kind = "session", !.phase = "starting", !.req = r,
                            !.connEpoch = l.epoch, !.opEpoch = o.epoch,
                            !.flags = IF forceRefresh \/ usable THEN {"refresh"} ELSE {},
                            !.fallback = fallback, !.pinned = fallback,
                            !.waiters = 1, !.batch = e.batch]]
              /\ started' = f
        /\ UNCHANGED <<closed, now, using, result, refs, epochs, expires, destroyed, revoked,
                       activeLeases, leaseReservations, operationReservations, gate,
                       cleanup>>

(* waitSessionFlight after done: a lease on the new cell, or on the        *)
(* fallback when only the refresh was unavailable, or an error.            *)
waitSessionFlight(f) ==
    LET fb == flight[f].fallback
        fallbackCurrentLocked ==
            /\ fb # 0 /\ sessions[Request(f)] = fb
            /\ epochs[fb].conn = flight[f].connEpoch
            /\ epochs[fb].op = flight[f].opEpoch
        granted == IF flight[f].err = "none" THEN {f}
                   ELSE {x \in {fb} : /\ flight[f].err = "Unavailable"
                                      /\ Has(f, "refresh")
                                      /\ fallbackCurrentLocked}
    IN  /\ flight[f].kind = "session" /\ Finished(f) /\ flight[f].waiters > 0
        /\ flight' = [flight EXCEPT ![f].waiters = @ - 1]
        /\ \/ \E c \in granted : Leasable(Locked, c) /\ allocateLeaseLocked(c, 1)
           \/ UNCHANGED <<refs, activeLeases>>
        /\ UNCHANGED <<closed, now, using, nextEpoch, lockVars, result, epochs, expires,
                       destroyed, revoked, disposal, started, leaseReservations,
                       sessionReservations, operationReservations, gate, cleanup>>

(* A canceled waiter leaves; the last one abandons the flight.             *)
leaveSessionFlight(f) ==
    /\ flight[f].kind = "session" /\ ~Finished(f) /\ flight[f].waiters > 0
    /\ flight' = [flight EXCEPT
          ![f].waiters = @ - 1,
          ![f].flags = @ \cup (IF flight[f].waiters = 1
                               THEN {"abandoned", "canceled"} ELSE {})]
    /\ UNCHANGED <<closed, now, using, nextEpoch, lockVars, result, refs, epochs, expires,
                   destroyed, revoked, disposal, started, activeLeases,
                   leaseReservations, sessionReservations, operationReservations,
                   gate, cleanup>>

-----------------------------------------------------------------------------
(* The worker of a session flight or of a rotation.                        *)

(* acquireSource or resolveOwned returns, once the start's own batch has   *)
(* been destroyed: the source is usable and the flight not yet canceled,   *)
(* or the flight fails.                                                    *)
resolveSource(f) ==
    /\ flight[f].phase = "starting" /\ flight[f].batch \subseteq destroyed
    /\ \/ /\ ~Has(f, "canceled")
          /\ flight' = [flight EXCEPT ![f].phase = "issuing"]
       \/ \E e \in {"Unavailable", "Revoked"} :
            flight' = [flight EXCEPT ![f].phase = "returned", ![f].err = e]
    /\ UNCHANGED <<closed, now, using, nextEpoch, lockVars, result, refs, epochs, expires,
                   destroyed, revoked, disposal, started, activeLeases,
                   leaseReservations, sessionReservations, operationReservations,
                   gate, cleanup>>

(* SessionIssuer.Issue returns; a session may come with an error.          *)
Issue(f) ==
    /\ flight[f].phase = "issuing"
    /\ \E e \in {"none", "Unavailable"}, t \in {0} \cup {now + ttl : ttl \in TTLs} :
         /\ expires' = [expires EXCEPT ![f] = t]
         /\ flight' = [flight EXCEPT ![f].phase = "returned", ![f].err = e]
    /\ UNCHANGED <<closed, now, using, nextEpoch, lockVars, result, refs, epochs, destroyed,
                   revoked, disposal, started, activeLeases, leaseReservations,
                   sessionReservations, operationReservations, gate, cleanup>>

validIssuedSession(f) ==
    Valid(f) /\ expires[f] - now >= MinIssuedSessionTTL /\ CanStartUse(f)

(* What invalidates the result of a flight that is still issuing.          *)
brokerClosed == closed

connectionMoved(f) ==
    LET l == lineages[Request(f).conn]
    IN  l.epoch # flight[f].connEpoch \/ l.revokedThrough >= l.generation

operationMoved(f) ==
    LET o == operations[Request(f).op]
    IN  o.state # "open" \/ o.epoch # flight[f].opEpoch \/ o.binding # Request(f)

(* Why the session of a finishing flight must not be published.            *)
sessionFlightError(f, clockOk) ==
    IF brokerClosed THEN "Closed"
    ELSE IF connectionMoved(f) THEN "Revoked"
    ELSE IF operationMoved(f) THEN "Terminated"
    ELSE IF flight[f].waiters = 0 \/ Has(f, "canceled") THEN "Unavailable"
    ELSE IF flight[f].err # "none" THEN flight[f].err
    ELSE IF clockOk /\ validIssuedSession(f) THEN "none"
    ELSE "Unavailable"

(* finishSessionFlight publishes the cell and drains the one it replaces.  *)
installSession(f) ==
    LET r == Request(f)
        v == IF sessions[r] = 0 THEN Locked ELSE drainCellLocked(Locked, sessions[r])
    IN  /\ flight[f].kind = "session" /\ flight[f].phase = "returned"
        /\ sessionFlightError(f, TRUE) = "none"
        /\ Unlock([v EXCEPT !.sessions[r] = f, !.cells = @ \cup {f}], -1)
        /\ epochs' = [epochs EXCEPT ![f] =
                        [conn |-> flight[f].connEpoch, op |-> flight[f].opEpoch]]
        /\ flight' = [flight EXCEPT ![f].phase = "installed", ![f].pinned = 0,
                        ![f].batch = v.batch, ![f].flags = @ \cup {"canceled"}]
        /\ UNCHANGED <<closed, now, using, nextEpoch, result, refs, expires, destroyed, revoked,
                       started, activeLeases, leaseReservations, operationReservations,
                       gate, cleanup>>

(* cleanupUnpublished: a valid session gets a private, already invalid     *)
(* cell and one upstream revocation; anything else is just destroyed.      *)
cleanupUnpublished(f) ==
    IF Valid(f)
    THEN /\ invalid' = invalid \cup {f}
         /\ draining' = draining \cup {f}
         /\ attempt' = [attempt EXCEPT ![f] = "started"]
    ELSE UNCHANGED <<invalid, draining, attempt>>

rejectSession(f) ==
    /\ flight[f].kind = "session" /\ flight[f].phase = "returned"
    /\ \E clockOk \in BOOLEAN :
         LET e == sessionFlightError(f, clockOk)
         IN  /\ e # "none"
             /\ flight' = [flight EXCEPT ![f].phase = "cleanup", ![f].err = e,
                             ![f].flags = @ \cup {"canceled"}]
    /\ cleanupUnpublished(f)
    /\ UNCHANGED <<closed, now, using, nextEpoch, lineages, operations, sessions, cells, result,
                   refs, epochs, expires, destroyed, revoked, disposal, started,
                   activeLeases, leaseReservations, sessionReservations,
                   operationReservations, gate, cleanup>>

(* The failed flight gives its slot back and finishes only after its       *)
(* unpublished session has been revoked and destroyed.                     *)
releaseSessionFlight(f) ==
    /\ flight[f].kind = "session" /\ flight[f].phase = "cleanup" /\ ~Running(f)
    /\ flight' = [flight EXCEPT ![f].phase = "failed", ![f].pinned = 0]
    /\ sessionReservations' = sessionReservations - 1
    /\ UNCHANGED <<closed, now, using, nextEpoch, lockVars, result, refs, epochs, expires,
                   destroyed, revoked, disposal, started, activeLeases,
                   leaseReservations, operationReservations, gate, cleanup>>

(* runRevocation takes one of the broker-wide slots ...                    *)
beginRevocation(c) ==
    /\ attempt[c] = "started"
    /\ Cardinality({d \in Ids : attempt[d] = "calling"}) < MaxConcurrentRevocations
    /\ attempt' = [attempt EXCEPT ![c] = "calling"]
    /\ UNCHANGED <<closed, now, using, nextEpoch, lineages, operations, sessions, cells, invalid,
                   draining, result, refs, epochs, expires, destroyed, revoked, disposal,
                   flight, started, activeLeases, leaseReservations,
                   sessionReservations, operationReservations, gate, cleanup>>

(* ... and the provider answers.  An error may hide a revocation that took *)
(* effect.  An unconfirmed session leaves its expiry as evidence.          *)
finishRevocation(c) ==
    /\ attempt[c] = "calling"
    /\ \E res \in Results \ {"NotRequired"}, gone \in BOOLEAN :
         LET late == {d \in {c} : res # "ProviderConfirmed" /\ now < expires[d]}
             v == recordExpiryUntilLocked(Locked, late)
         IN  /\ res = "ProviderConfirmed" => gone
             /\ res = "ExpiryBound" => ~gone
             /\ result' = [result EXCEPT ![c] = res]
             /\ revoked' = IF gone THEN revoked \cup {c} ELSE revoked
             /\ Unlock([v EXCEPT !.attempt[c] = "finished",
                                 !.cells = @ \ {d \in {c} : refs[d] = 0}], 0)
    /\ destroyed' = destroyed \cup {c}
    /\ UNCHANGED <<closed, now, using, nextEpoch, refs, epochs, expires, flight, started,
                   activeLeases, leaseReservations, operationReservations, gate,
                   cleanup>>

-----------------------------------------------------------------------------
(* broker.go: the two operations of a lease that change broker state.      *)

(* Close releases one handle; the last handle of a cell that is no longer  *)
(* cached destroys it, unless a running revocation still borrows it.       *)
LeaseClose(c) ==
    LET last == {d \in {c} : refs[d] = 1 /\ ~Running(d) /\ d \in invalid \cup draining}
        v == recordExpiryEvidenceLocked(Locked, last)
    IN  /\ refs[c] > 0
        /\ refs' = [refs EXCEPT ![c] = @ - 1]
        /\ activeLeases' = activeLeases - 1
        /\ Unlock([v EXCEPT !.cells = @ \ last, !.batch = last], 0)
        /\ UNCHANGED <<closed, now, using, nextEpoch, result, epochs, expires, destroyed,
                       revoked, flight, started, leaseReservations,
                       operationReservations, gate, cleanup>>

(* Use admits one callback on the cell of an open lease; a session that is *)
(* too old is refused and its cell marked.                                 *)
Use(c) ==
    /\ ~closed /\ refs[c] > 0 /\ c \notin invalid
    /\ IF CanStartUse(c)
       THEN /\ cellCurrentLocked(Locked, c)
            /\ using' = using \cup {c}
            /\ UNCHANGED draining
       ELSE draining' = draining \cup {c} /\ UNCHANGED using
    /\ UNCHANGED <<closed, now, nextEpoch, lineages, operations, sessions, cells, invalid,
                   attempt, result, refs, epochs, expires, destroyed, revoked, disposal,
                   flight, started, activeLeases, leaseReservations,
                   sessionReservations, operationReservations, gate, cleanup>>

(* The callback returns.                                                   *)
finishUse(c) ==
    /\ c \in using
    /\ using' = using \ {c}
    /\ UNCHANGED <<closed, now, nextEpoch, lockVars, result, refs, epochs, expires,
                   destroyed, revoked, disposal, flight, started, activeLeases,
                   leaseReservations, sessionReservations, operationReservations,
                   gate, cleanup>>

-----------------------------------------------------------------------------
(* lifecycle.go: local invalidation.                                       *)

(* invalidateMatchingCellsLocked: a session that still lives upstream is   *)
(* held for its revocation, an expired one is destroyed.                   *)
invalidateMatchingCellsLocked(v, S) ==
    LET fresh == {c \in v.cells \cap S : v.attempt[c] = "none"}
        live == {c \in fresh : now < expires[c]}
        idle == {c \in fresh \ live : refs[c] = 0}
    IN  [v EXCEPT
            !.sessions = [r \in Requests |-> IF @[r] \in fresh THEN 0 ELSE @[r]],
            !.invalid = @ \cup fresh,
            !.draining = @ \cup fresh,
            !.attempt = [c \in Ids |-> IF c \in live THEN "created" ELSE @[c]],
            !.cells = @ \ idle,
            !.batch = @ \cup (fresh \ live)]

unfinishedRevocations(v, S) ==
    {c \in v.cells \cap S : v.attempt[c] \in {"created", "started", "calling"}}

OfConnection(k) == {c \in Ids : Request(c).conn = k}
OfOperation(o) == {c \in Ids : Request(c).op = o}

expiryEvidence(until) == IF now < until THEN "ExpiryBound" ELSE "NotRequired"

(* A lifecycle call or a committed rotation that has invalidated the cells *)
(* of v and will destroy, publish, revoke and wait.                        *)
Invalidating(kind, r, v, S, cancels, base) ==
    [phase |-> "destroying", kind |-> kind, req |-> r, batch |-> v.batch,
     cancels |-> cancels, attempts |-> unfinishedRevocations(v, S),
     flights |-> sessionFlights \cap S, base |-> base, outcome |-> "none"]

(* A repeated call only joins what is still running.                       *)
Joining(kind, r, v, S, base) ==
    [Invalidating(kind, r, v, S, {}, base) EXCEPT !.phase = "joining"]

\* Mutated: the attempts are waited for, never started.
startAttempts_never(x) == attempt

releaseInvalidationGate(x) == IF x.phase = "destroying" THEN 0 ELSE gate

startAttempts(x) ==
    [c \in Ids |-> IF c \in x.attempts /\ attempt[c] = "created" THEN "started" ELSE attempt[c]]

(* The gate is released once the batch is destroyed and the cancellations  *)
(* are published; waitLifecycleCleanup then starts the new attempts.       *)
publishCancellations(o) ==
    LET x == cleanup[o]
    IN  /\ x.phase \in {"destroying", "joining"} /\ x.batch \subseteq destroyed
        /\ gate' = releaseInvalidationGate(x)
        /\ flight' = [f \in Ids |-> IF f \in x.cancels
                                    THEN [flight[f] EXCEPT !.flags = @ \cup {"canceled"}]
                                    ELSE flight[f]]
        /\ attempt' = startAttempts(x)
        /\ cleanup' = [cleanup EXCEPT ![o].phase = "waiting"]
        /\ UNCHANGED <<closed, now, using, nextEpoch, lineages, operations, sessions, cells,
                       invalid, draining, result, refs, epochs, expires, destroyed,
                       revoked, disposal, started, activeLeases, leaseReservations,
                       sessionReservations, operationReservations>>

(* The end of waitLifecycleCleanup: everything joined has finished, or the *)
(* bounded wait or the caller gave up, which reports Pending.              *)
cleanupResult(o) ==
    LET x == cleanup[o]
        done == /\ \A c \in x.attempts : attempt[c] = "finished"
                /\ \A f \in x.flights : Finished(f)
        seen == {result[c] : c \in x.attempts \cup {f \in x.flights : flight[f].phase = "failed"}}
    IN  {"Pending"} \cup (IF done THEN {mergeRevocation(seen \cup {x.base})} ELSE {})

Returned(x, res) ==
    [noCleanup EXCEPT !.phase = "returned", !.kind = x.kind, !.req = x.req, !.outcome = res]

returnCleanup(o) ==
    /\ o \in Callers /\ cleanup[o].phase = "waiting"
    /\ \E res \in cleanupResult(o) :
         cleanup' = [cleanup EXCEPT ![o] = Returned(@, res)]
    /\ UNCHANGED <<closed, now, using, nextEpoch, lockVars, result, refs, epochs, expires,
                   destroyed, revoked, disposal, flight, started, activeLeases,
                   leaseReservations, sessionReservations, operationReservations, gate>>

-----------------------------------------------------------------------------
(* rotation.go.                                                            *)

validateRotationTarget(l, r) ==
    /\ l.generation > 0 /\ l.revokedThrough < r.gen
    /\ r.gen > l.generation /\ r.source # l.source

OperationAllows(o, r) == o.state = "absent" \/ (o.state = "open" /\ o.binding = r)

(* Rotate joins the rotation of its connection or starts one; every waiter *)
(* reserves its lease before it waits.                                     *)
Rotate(r) ==
    LET v == sweepLocked(Locked)
        l == v.lineages[r.conn]
        o == v.operations[r.op]
        missing == o.state = "absent"
        f == started + 1
    IN  /\ ~closed /\ LeaseRoom
        /\ validateRotationTarget(l, r) /\ OperationAllows(o, r)
        /\ leaseReservations' = leaseReservations + 1
        /\ \/ \E j \in rotationFor(r.conn) :
                /\ ~Has(j, "abandoned") /\ flight[j].phase # "committed"
                /\ Request(j) = r /\ flight[j].connEpoch = l.epoch
                /\ flight[j].waiters < MaxWaiters
                /\ flight' = [flight EXCEPT ![j].waiters = @ + 1, ![j].leaseReserved = @ + 1]
                /\ Unlock(v, 0)
                /\ UNCHANGED <<started, operationReservations>>
           \/ /\ rotationFor(r.conn) = {} /\ started < MaxFlights
              /\ missing => Cardinality(TrackedOperations(v)) + operationReservations
                              < MaxTrackedOperations
              /\ \E e \in makeSessionRoomExceptLocked(v, Pinned, r.conn) :
                   /\ Unlock(e, 1)
                   /\ flight' = [flight EXCEPT ![f] =
                        [noFlight EXCEPT
                            !.kind = "rotation", !.phase = "starting", !.req = r,
                            !.connEpoch = l.epoch, !.fromGen = l.generation,
                            !.flags = IF missing THEN {"opReserved"} ELSE {},
                            !.waiters = 1, !.leaseReserved = 1, !.batch = e.batch]]
              /\ operationReservations' = operationReservations + (IF missing THEN 1 ELSE 0)
              /\ started' = f
        /\ UNCHANGED <<closed, now, using, nextEpoch, result, refs, epochs, expires, destroyed,
                       revoked, activeLeases, gate, cleanup>>

(* A waiter canceled before the commit gives up its reserved lease.        *)
cancelRotationWaiter(f) ==
    /\ flight[f].kind = "rotation" /\ flight[f].phase \in Unsettled
    /\ flight[f].waiters > 0
    /\ flight' = [flight EXCEPT
          ![f].waiters = @ - 1, ![f].leaseReserved = @ - 1,
          ![f].flags = @ \cup (IF flight[f].waiters = 1
                               THEN {"abandoned", "canceled"} ELSE {})]
    /\ leaseReservations' = leaseReservations - 1
    /\ UNCHANGED <<closed, now, using, nextEpoch, lockVars, result, refs, epochs, expires,
                   destroyed, revoked, disposal, started, activeLeases,
                   sessionReservations, operationReservations, gate, cleanup>>

\* Mutated: what was checked when the rotation started still holds.
CanCommit_unchecked(f) ==
    /\ flight[f].waiters > 0 /\ flight[f].err = "none" /\ validIssuedSession(f)

CanCommit(f) ==
    LET l == lineages[Request(f).conn]
    IN  /\ ~closed /\ flight[f].waiters > 0 /\ ~Has(f, "canceled")
        /\ l.epoch = flight[f].connEpoch /\ l.generation = flight[f].fromGen
        /\ validateRotationTarget(l, Request(f))
        /\ OperationAllows(operations[Request(f).op], Request(f))
        /\ flight[f].leaseReserved = flight[f].waiters
        /\ flight[f].err = "none" /\ validIssuedSession(f)

(* The atomic cutover: prior cells are invalidated, the lineage and the    *)
(* operation get new epochs, and every waiting caller gets its lease.      *)
commitRotation(f) ==
    LET r == Request(f)
        prior == OfConnection(r.conn)
        v == invalidateMatchingCellsLocked(Locked, prior)
        evidence == expiryEvidence(lineages[r.conn].until)
        n == flight[f].leaseReserved
    IN  /\ flight[f].kind = "rotation" /\ flight[f].phase = "returned"
        /\ gate = 0 /\ CanCommit(f)
        /\ gate' = f
        /\ cleanup' = [cleanup EXCEPT ![f] =
             Invalidating("rotate", r, v, prior, sessionFlights \cap prior, evidence)]
        /\ Unlock([v EXCEPT
             !.lineages[r.conn] = [@ EXCEPT !.generation = r.gen, !.source = r.source,
                                            !.epoch = nextEpoch + 1],
             !.operations[r.op] = [@ EXCEPT !.state = "open", !.binding = r,
                                            !.epoch = nextEpoch + 2],
             !.sessions[r] = f,
             !.cells = @ \cup {f}], -1)
        /\ nextEpoch' = nextEpoch + 2
        /\ epochs' = [epochs EXCEPT ![f] = [conn |-> nextEpoch + 1, op |-> nextEpoch + 2]]
        /\ allocateLeaseLocked(f, n)
        /\ leaseReservations' = leaseReservations - n
        /\ operationReservations' =
             operationReservations - (IF Has(f, "opReserved") THEN 1 ELSE 0)
        /\ flight' = [flight EXCEPT ![f].phase = "committed", ![f].leaseReserved = 0,
                                    ![f].waiters = 0, ![f].flags = @ \ {"opReserved"}]
        /\ UNCHANGED <<closed, now, using, result, expires, destroyed, revoked, started>>

(* The committed rotation has joined the prior sessions' cleanup.          *)
finishRotation(f) ==
    /\ flight[f].phase = "committed" /\ cleanup[f].phase = "waiting"
    /\ \E res \in cleanupResult(f) :
         cleanup' = [cleanup EXCEPT ![f] = Returned(@, res)]
    /\ flight' = [flight EXCEPT ![f].phase = "finished", ![f].flags = @ \cup {"canceled"}]
    /\ UNCHANGED <<closed, now, using, nextEpoch, lockVars, result, refs, epochs, expires,
                   destroyed, revoked, disposal, started, activeLeases,
                   leaseReservations, sessionReservations, operationReservations, gate>>

(* finishRotationFailure: the clock, the source or the issuer failed, or a *)
(* check of the commit did.                                                *)
failRotation(f) ==
    /\ flight[f].kind = "rotation" /\ flight[f].phase = "returned"
    /\ flight' = [flight EXCEPT ![f].phase = "cleanup", ![f].flags = @ \cup {"canceled"}]
    /\ cleanupUnpublished(f)
    /\ UNCHANGED <<closed, now, using, nextEpoch, lineages, operations, sessions, cells, result,
                   refs, epochs, expires, destroyed, revoked, disposal, started,
                   activeLeases, leaseReservations, sessionReservations,
                   operationReservations, gate, cleanup>>

releaseRotation(f) ==
    /\ flight[f].kind = "rotation" /\ flight[f].phase = "cleanup" /\ ~Running(f)
    /\ sessionReservations' = sessionReservations - 1
    /\ operationReservations' =
         operationReservations - (IF Has(f, "opReserved") THEN 1 ELSE 0)
    /\ leaseReservations' = leaseReservations - flight[f].leaseReserved
    /\ flight' = [flight EXCEPT ![f].phase = "failed", ![f].leaseReserved = 0,
                                ![f].waiters = 0, ![f].flags = @ \ {"opReserved"}]
    /\ UNCHANGED <<closed, now, using, nextEpoch, lockVars, result, refs, epochs, expires,
                   destroyed, revoked, disposal, started, activeLeases, gate, cleanup>>

-----------------------------------------------------------------------------
(* lifecycle.go: RevokeConnection, terminateOperation and Close.           *)

Idle(p) == cleanup[p].phase \in {"idle", "returned"}

PendingIf(b) == IF b THEN {"Pending"} ELSE {}

connectionEvidence(v, k) == expiryEvidence(v.lineages[k].until)

(* The uncommitted rotation whose target a revocation names.               *)
pendingRotationForConnection(r) ==
    {f \in rotationFor(r.conn) : /\ flight[f].phase # "committed"
                                 /\ Request(f).gen = r.gen
                                 /\ Request(f).source = r.source}

(* A repeated revocation joins what still runs.                            *)
rejoinRevocation(p, r) ==
    LET v == sweepLocked(Locked)
        l == v.lineages[r.conn]
        pending == pendingRotationForConnection(r)
        base == mergeRevocation({connectionEvidence(v, r.conn)}
                                \cup PendingIf(rotationFor(r.conn) # {}))
    IN  /\ ~closed /\ gate = 0 /\ Idle(p)
        /\ l.generation > 0 /\ l.revokedThrough >= r.gen
        /\ \/ \E f \in pending : flight[f].connEpoch # l.epoch
           \/ /\ pending = {} /\ r.gen >= l.generation
              /\ r.gen = l.generation => sameLineageRequest(l, r)
        /\ cleanup' = [cleanup EXCEPT ![p] =
             Joining("revoke", r, v, OfConnection(r.conn), base)]
        /\ Unlock(v, 0)
        /\ UNCHANGED <<closed, now, using, nextEpoch, result, refs, epochs, expires, destroyed,
                       revoked, flight, started, activeLeases, leaseReservations,
                       operationReservations, gate>>

(* RevokeConnection: the tombstone and the new epoch come first; it also   *)
(* covers the target of an uncommitted rotation.                           *)
RevokeConnection(p, r) ==
    LET w == sweepLocked(Locked)
        l == w.lineages[r.conn]
        pending == pendingRotationForConnection(r)
        through == Max({r.gen, l.revokedThrough}
                       \cup {Request(f).gen : f \in {g \in rotationFor(r.conn) :
                                                       flight[g].phase # "committed"}})
        tombstone == IF l.generation = 0 THEN newLineageState(r, 0) ELSE l
        v == invalidateMatchingCellsLocked(
               [w EXCEPT !.lineages[r.conn] =
                  [tombstone EXCEPT !.epoch = nextEpoch + 1, !.revokedThrough = through]],
               OfConnection(r.conn))
        base == mergeRevocation({connectionEvidence(v, r.conn)}
                                \cup PendingIf(rotationFor(r.conn) # {}))
    IN  /\ ~closed /\ gate = 0 /\ Idle(p)
        /\ \/ \E f \in pending : l.epoch = flight[f].connEpoch
           \/ /\ pending = {} /\ l.revokedThrough < r.gen
              /\ IF l.generation = 0
                 THEN Cardinality(Tracked(w)) < MaxTrackedConnections
                 ELSE sameLineageRequest(l, r)
        /\ gate' = p
        /\ nextEpoch' = nextEpoch + 1
        /\ cleanup' = [cleanup EXCEPT ![p] =
             Invalidating("revoke", r, v, OfConnection(r.conn),
                          (sessionFlights \cap OfConnection(r.conn)) \cup rotationFor(r.conn),
                          base)]
        /\ Unlock(v, 0)
        /\ UNCHANGED <<closed, now, using, result, refs, epochs, expires, destroyed, revoked,
                       flight, started, activeLeases, leaseReservations,
                       operationReservations>>

operationEvidence(v, o) == expiryEvidence(v.operations[o].until)

consumeReservation(x) == [x EXCEPT !.flags = @ \ {"opReserved"}]

(* CancelOperation and CloseOperation: a permanent tombstone.              *)
terminateOperation(p, r) ==
    LET w == sweepLocked(Locked)
        l == w.lineages[r.conn]
        o == w.operations[r.op]
        uncommitted == {f \in rotationFor(r.conn) : flight[f].phase # "committed"}
        pending == {f \in uncommitted : Request(f) = r}
        first == IF l.generation = 0 THEN 2 ELSE 1
        v == invalidateMatchingCellsLocked(
               [w EXCEPT
                  !.lineages[r.conn] = IF l.generation = 0
                                       THEN newLineageState(r, nextEpoch + 1) ELSE l,
                  !.operations[r.op] = [@ EXCEPT !.state = "terminal", !.binding = r,
                                                 !.epoch = nextEpoch + first]],
               OfOperation(r.op))
        consumed == {f \in pending : o.state = "absent" /\ Has(f, "opReserved")}
        base(x) == mergeRevocation({operationEvidence(x, r.op)} \cup PendingIf(pending # {}))
    IN  /\ ~closed /\ gate = 0 /\ Idle(p)
        /\ \A f \in uncommitted : Request(f).op = r.op => Request(f) = r
        /\ o.state # "absent" => o.binding = r
        /\ \/ /\ o.state = "terminal"
              /\ cleanup' = [cleanup EXCEPT ![p] =
                   Joining("terminate", r, w, OfOperation(r.op), base(w))]
              /\ Unlock(w, 0)
              /\ UNCHANGED <<gate, nextEpoch, operationReservations, flight>>
           \/ /\ o.state # "terminal"
              /\ IF pending = {}
                 THEN /\ l.generation = 0 => Cardinality(Tracked(w)) < MaxTrackedConnections
                      /\ o.state = "absent" =>
                           Cardinality(TrackedOperations(w)) + operationReservations
                             < MaxTrackedOperations
                      /\ l.generation > 0 => sameLineageRequest(l, r)
                 ELSE \A f \in pending : l.epoch = flight[f].connEpoch
              /\ gate' = p
              /\ nextEpoch' = nextEpoch + first
              /\ operationReservations' = operationReservations - Cardinality(consumed)
              /\ flight' = [f \in Ids |-> IF f \in consumed
                              THEN consumeReservation(flight[f])
                              ELSE flight[f]]
              /\ cleanup' = [cleanup EXCEPT ![p] =
                   Invalidating("terminate", r, v, OfOperation(r.op),
                                (sessionFlights \cup rotations) \cap OfOperation(r.op),
                                base(v))]
              /\ Unlock(v, 0)
        /\ UNCHANGED <<closed, now, using, result, refs, epochs, expires, destroyed, revoked,
                       started, activeLeases, leaseReservations>>

(* Close invalidates everything, even when its clock sample is rejected; a *)
(* repeated Close joins.                                                   *)
BrokerClose(p) ==
    \E clockOk \in BOOLEAN :
    LET w == IF closed /\ clockOk THEN sweepExpiryEvidenceLocked(Locked) ELSE Locked
        v == IF closed THEN w ELSE invalidateMatchingCellsLocked(w, Ids)
        base == mergeRevocation({connectionEvidence(v, k) : k \in Conns}
                                \cup PendingIf(~clockOk \/ rotations # {}))
    IN  /\ gate = 0 /\ Idle(p)
        /\ closed' = TRUE
        /\ gate' = IF closed THEN 0 ELSE p
        /\ cleanup' = [cleanup EXCEPT ![p] =
             IF closed THEN Joining("close", noRequest, v, Ids, base)
             ELSE Invalidating("close", noRequest, v, Ids, sessionFlights \cup rotations, base)]
        /\ Unlock(v, 0)
        /\ UNCHANGED <<now, using, nextEpoch, result, refs, epochs, expires, destroyed, revoked,
                       flight, started, activeLeases, leaseReservations,
                       operationReservations>>

-----------------------------------------------------------------------------
FlightStep(f) ==
    \/ resolveSource(f) \/ Issue(f)
    \/ installSession(f) \/ rejectSession(f) \/ releaseSessionFlight(f)
    \/ commitRotation(f) \/ failRotation(f) \/ releaseRotation(f)
    \/ finishRotation(f)

RevocationStep(c) == beginRevocation(c) \/ finishRevocation(c)

Next ==
    \/ observeNowLocked
    \/ SweepExpired
    \/ \E r \in Requests :
         \/ acquireHit(r) \/ acquireFlight(r, FALSE)
         \/ acquireFlight(r, TRUE)
         \/ Rotate(r)
         \/ \E p \in Callers :
              \/ RevokeConnection(p, r) \/ rejoinRevocation(p, r)
              \/ terminateOperation(p, r)
    \/ \E p \in Callers : BrokerClose(p) \/ returnCleanup(p)
    \/ \E o \in Callers \cup Ids : publishCancellations(o)
    \/ \E c \in Ids :
         \/ destroy(c) \/ LeaseClose(c)
         \/ Use(c) \/ finishUse(c)
         \/ waitSessionFlight(c) \/ leaveSessionFlight(c) \/ cancelRotationWaiter(c)
         \/ FlightStep(c) \/ RevocationStep(c)

Spec == Init /\ [][Next]_vars

(* Goroutines that are ready run, Destroy returns, and every backend call  *)
(* returns: each runs under a deadline of BackendTimeout.                  *)
Fairness ==
    /\ \A c \in Ids : /\ WF_vars(destroy(c))
                      /\ WF_vars(FlightStep(c))
                      /\ WF_vars(RevocationStep(c))
    /\ \A o \in Callers \cup Ids : WF_vars(publishCancellations(o))
    /\ \A p \in Callers : WF_vars(returnCleanup(p))

LiveSpec == Spec /\ Fairness

-----------------------------------------------------------------------------
FlightType ==
    [kind : {"none", "session", "rotation"},
     phase : {"none", "installed", "committed", "failed", "finished"} \cup Unsettled,
     req : Requests \cup {noRequest},
     connEpoch : Nat, opEpoch : Nat, fromGen : Nat,
     flags : SUBSET {"refresh", "opReserved", "abandoned", "canceled"},
     fallback : {0} \cup Ids, pinned : {0} \cup Ids,
     waiters : Nat, leaseReserved : Nat, batch : SUBSET Ids,
     err : {"none", "Unavailable", "Revoked", "Terminated", "Closed"}]

CleanupType ==
    [phase : {"idle", "destroying", "joining", "waiting", "returned"},
     kind : {"none", "rotate", "revoke", "terminate", "close"},
     req : Requests \cup {noRequest},
     batch : SUBSET Ids, cancels : SUBSET Ids, attempts : SUBSET Ids,
     flights : SUBSET Ids, base : Results, outcome : Results \cup {"none"}]

(* Every variable has its type: no counter the code decrements under an    *)
(* "if > 0" guard ever needs that guard, and the provider sessions whose   *)
(* material the broker holds, published or not, queued for destruction or  *)
(* not, never exceed MaxSessionEntries (makeSessionRoomLocked).            *)
TypeOK ==
    /\ closed \in BOOLEAN /\ now \in 0..MaxTime /\ nextEpoch \in Nat
    /\ lineages \in [Conns -> [generation : Nat,
                               source : {"none"} \cup {r.source : r \in Requests},
                               epoch : Nat, revokedThrough : Nat, until : Nat]]
    /\ operations \in [Ops -> [state : {"absent", "open", "terminal"},
                               binding : Requests \cup {noRequest},
                               epoch : Nat, until : Nat]]
    /\ sessions \in [Requests -> {0} \cup Ids]
    /\ cells \subseteq Ids /\ invalid \subseteq Ids /\ draining \subseteq Ids
    /\ attempt \in [Ids -> {"none", "created", "started", "calling", "finished"}]
    /\ result \in [Ids -> Results] /\ refs \in [Ids -> Nat]
    /\ epochs \in [Ids -> [conn : Nat, op : Nat]] /\ expires \in [Ids -> Nat]
    /\ destroyed \subseteq Ids /\ revoked \subseteq Ids /\ using \subseteq Ids
    /\ disposal \in [Ids -> Nat]
    /\ flight \in [Ids -> FlightType] /\ started \in 0..MaxFlights
    /\ activeLeases \in Nat /\ leaseReservations \in Nat
    /\ sessionReservations \in Nat /\ operationReservations \in Nat
    /\ gate \in {0} \cup Callers \cup Ids
    /\ cleanup \in [Callers \cup Ids -> CleanupType]
    /\ Cardinality({c \in Ids : expires[c] > 0 /\ c \notin destroyed}) <= MaxSessionEntries

(* A cell the broker still tracks and has not invalidated belongs to the   *)
(* present epoch of its connection and of its operation, neither of them   *)
(* revoked or terminated, of an open broker.  An issue that outlived a     *)
(* revocation, a termination, a rotation or Close is never published.      *)
TrackedCellsCurrent ==
    \A c \in cells \ invalid :
        LET l == lineages[flight[c].req.conn]
            o == operations[flight[c].req.op]
        IN  /\ ~closed
            /\ l.epoch = epochs[c].conn /\ l.generation = flight[c].req.gen
            /\ l.revokedThrough < l.generation
            /\ o.state = "open" /\ o.epoch = epochs[c].op /\ o.binding = flight[c].req

(* The sessions a finished lifecycle call answers for.  A termination      *)
(* answers for the operation's tracked sessions, not for those of its      *)
(* failed rotations, which leave no evidence for an untracked operation.   *)
AnswersFor(o, c) ==
    LET x == cleanup[o]
        r == flight[c].req
    IN  \/ x.kind = "close"
        \/ x.kind = "revoke" /\ r.conn = x.req.conn /\ r.gen <= x.req.gen
        \/ x.kind = "rotate" /\ r.conn = x.req.conn /\ r.gen < x.req.gen
        \/ /\ x.kind = "terminate" /\ r.op = x.req.op
           /\ flight[c].kind = "session" \/ flight[c].phase \in {"committed", "finished"}

(* A lifecycle call, or a rotation's PriorRevocation, that reports neither *)
(* Pending nor ExpiryBound leaves no session of its scope that a provider  *)
(* still honours, whoever held it and however it was dropped.              *)
ResultsHonest ==
    \A o \in DOMAIN cleanup :
        cleanup[o].outcome \in {"NotRequired", "ProviderConfirmed"} =>
            \A c \in Ids : AnswersFor(o, c) => ~LiveUpstream(c)

(* The lease counters agree with the handles and entitlements they count,  *)
(* every waiter of an uncommitted rotation holds one entitlement, and the  *)
(* total stays within MaxActiveLeases.  The provider sessions whose        *)
(* material the broker holds, published or not, queued for destruction or  *)
(* not, never exceed MaxSessionEntries, whichever evictions race the       *)
(* issues (makeSessionRoomLocked).                                         *)
LimitsHold ==
    /\ activeLeases = MapThenSumSet(LAMBDA c : refs[c], Ids)
    /\ leaseReservations = MapThenSumSet(LAMBDA f : flight[f].leaseReserved, Ids)
    /\ \A f \in Ids : flight[f].kind = "rotation" /\ flight[f].phase \in Unsettled =>
          flight[f].leaseReserved = flight[f].waiters
    /\ activeLeases + leaseReservations <= MaxActiveLeases
    /\ Cardinality({c \in Ids : expires[c] > 0 /\ c \notin destroyed}) <= MaxSessionEntries

(* Every upstream revocation that was created is started and finishes, a   *)
(* lifecycle call returns, the invalidation gate is released, and every    *)
(* flight settles (installed, committed or failed) and answers its waiters,*)
(* even when the caller that prepared a revocation has given up.           *)
CallsReturn ==
    /\ \A c \in Ids : (attempt[c] = "created") ~> (attempt[c] = "finished")
    /\ \A p \in Callers : (cleanup[p].phase = "destroying") ~> (cleanup[p].phase = "returned")
    /\ (gate # 0) ~> (gate = 0)
    /\ \A f \in Ids : (flight[f].phase = "starting") ~> Finished(f)
=============================================================================
