----------------------------- MODULE SourceCache -----------------------------
(***************************************************************************)
(* The source half of the credential broker (credentialbroker/source.go    *)
(* and the source parts of state.go, rotation.go and lifecycle.go): secret *)
(* material is read once per lookup by a flight that every caller joins,   *)
(* is cached for a bounded time, is lent to callers, and is destroyed      *)
(* outside the broker's lock when it expires, is evicted, is revoked or    *)
(* loses to a rotation.                                                    *)
(*                                                                         *)
(* A lookup is a connection and its generation.  A flight reads at most    *)
(* one material, so the flight, the material and the cache entry made of   *)
(* it share one identity.  A call refused before it changes anything but   *)
(* the expired entries is SweepExpired.                                    *)
(***************************************************************************)
EXTENDS Integers, FiniteSets, Sequences, SequencesExt

CONSTANTS
    Conns, Generations,
    Callers,
    MaxFlights,               \* bound: flights a behaviour may start
    MaxTime,                  \* bound: observed clock
    MaxSourceCacheTTL,
    MaxSourceEntries,
    MaxConcurrentResolves

Ids == 1..MaxFlights
Lookups == [conn : Conns, gen : Generations]

VARIABLES
    closed, now,
    lineage,        \* generation, epoch and revokedThrough of each connection
    sources,        \* broker.sources: lookup -> entry, 0 when missing
    recent,         \* the entries by lastUsed, oldest first
    retired,        \* broker.retiredSources
    invalid,        \* entries with that flag
    expires,        \* sourceExpiresAt of each flight
    material,       \* where the material of each flight is
    flight,         \* source and rotation flights
    started,        \* flights started so far
    activeResolves, sourceReservations,
    batches,        \* disposals and cancellations left to run outside the lock
    caller          \* what each caller waits for or has borrowed

lockVars == <<sources, recent, retired, invalid>>
vars == <<closed, now, lineage, sources, recent, retired, invalid, expires, material,
          flight, started, activeResolves, sourceReservations, batches, caller>>

noFlight == [kind |-> "none", phase |-> "none", lookup |-> [conn |-> "none", gen |-> 0],
             epoch |-> 0, abandoned |-> FALSE, canceled |-> FALSE, sourceInvalid |-> FALSE,
             publishable |-> FALSE, returned |-> FALSE, settlements |-> <<>>]
idle == [phase |-> "idle", id |-> 0]

Settled == {"installed", "refused"}
(* A flight that has ended is told from others by its lookup and epoch only. *)
Ended(f, phase) ==
    [noFlight EXCEPT !.kind = flight[f].kind, !.phase = phase,
                     !.lookup = flight[f].lookup, !.epoch = flight[f].epoch]
flights(kind) == {f \in Ids : flight[f].kind = kind /\ flight[f].phase \notin Settled}
waiters(f) == {c \in Callers : caller[c] = [phase |-> "waiting", id |-> f]}
borrows(e) == {c \in Callers : caller[c] = [phase |-> "borrowing", id |-> e]}
Valid(e) == material[e] \in {"held", "cached"}

(* The lookup is the one the connection currently uses (sameLineageRequest, *)
(* revokedThrough < generation).                                            *)
current(l) == lineage[l.conn].generation = l.gen /\ lineage[l.conn].revokedThrough < l.gen
epoch(l) == lineage[l.conn].epoch

-----------------------------------------------------------------------------
(* A critical section computes the next value b of the cache and what it   *)
(* leaves to run after the unlock, and ends with Unlock(b).                *)
Locked == [sources |-> sources, recent |-> recent, retired |-> retired, invalid |-> invalid,
           doomed |-> {}, cancels |-> {}]

Cached(b) == {b.sources[l] : l \in Lookups} \ {0}

(* Entries leave broker.sources and are marked invalid.                    *)
Drop(b, S) ==
    [b EXCEPT !.sources = [l \in Lookups |-> IF @[l] \in S THEN 0 ELSE @[l]],
              !.recent = SelectSeq(@, LAMBDA e : e \notin S),
              !.invalid = @ \cup S]

(* Expired entries are destroyed, or retired while they are borrowed.      *)
sweepLocked(b, t) ==
    LET expired == {e \in Cached(b) : t >= expires[e] \/ ~Valid(e)}
        lent == {e \in expired : borrows(e) # {}}
        d == Drop(b, expired)
    IN  [d EXCEPT !.doomed = @ \cup (expired \ lent), !.retired = @ \cup lent]

hasRoom(b) ==
    Cardinality(Cached(b)) + Cardinality(b.retired) + Cardinality(flights("source"))
        + sourceReservations + Cardinality(b.doomed) < MaxSourceEntries

evictable(b, protected) ==
    SelectSeq(b.recent, LAMBDA e : borrows(e) = {} /\ flight[e].lookup.conn \notin protected)

CanMakeRoom(b, protected) == hasRoom(b) \/ evictable(b, protected) # <<>>

(* makeSourceRoomExceptLocked: the least recently used entry nobody has    *)
(* borrowed makes room.                                                    *)
makeSourceRoom(b, protected) ==
    IF hasRoom(b) THEN b
    ELSE LET oldest == Head(evictable(b, protected))
             d == Drop(b, {oldest})
         IN  [d EXCEPT !.doomed = @ \cup {oldest}]

(* The flights whose private material or context a lifecycle call ends.    *)
invalidateConnectionLocked(b, k, except) ==
    LET mine == {e \in Cached(b) \cup b.retired : flight[e].lookup.conn = k}
        d == Drop(b, mine \cap Cached(b))
    IN  [d EXCEPT !.doomed = @ \cup mine, !.retired = @ \ mine,
                  !.cancels = @ \cup {f \in flights("source") \cup flights("rotation") :
                                          flight[f].lookup.conn = k /\ f # except}]

(* touchLocked.                                                            *)
touch(b, e) == [b EXCEPT !.recent = Append(SelectSeq(@, LAMBDA x : x # e), e)]

(* addSourceLocked charges a slot for each material that is to be destroyed. *)
UnlockAndStart(b, slots, f) ==
    /\ sources' = b.sources /\ recent' = b.recent
    /\ retired' = b.retired /\ invalid' = b.invalid
    /\ sourceReservations' = sourceReservations + Cardinality(b.doomed) + slots
    /\ batches' = IF b.doomed = {} /\ b.cancels = {} THEN batches
                  ELSE batches \cup {[sources |-> b.doomed, flights |-> b.cancels,
                                      starts |-> f, phase |-> "destroy"]}
Unlock(b, slots) == UnlockAndStart(b, slots, 0)

-----------------------------------------------------------------------------
Init ==
    /\ closed = FALSE /\ now = 0
    /\ lineage = [k \in Conns |-> [generation |-> 1, epoch |-> 1, revokedThrough |-> 0]]
    /\ sources = [l \in Lookups |-> 0] /\ recent = <<>>
    /\ retired = {} /\ invalid = {}
    /\ expires = [f \in Ids |-> 0] /\ material = [f \in Ids |-> "none"]
    /\ flight = [f \in Ids |-> noFlight] /\ started = 0
    /\ activeResolves = 0 /\ sourceReservations = 0
    /\ batches = {}
    /\ caller = [c \in Callers |-> idle]

observeNowLocked ==
    /\ now < MaxTime /\ now' = now + 1
    /\ UNCHANGED <<closed, lineage, lockVars, expires, material, flight, started,
                   activeResolves, sourceReservations, batches, caller>>

SweepExpired ==
    /\ ~closed /\ sweepLocked(Locked, now) # Locked
    /\ Unlock(sweepLocked(Locked, now), 0)
    /\ UNCHANGED <<closed, now, lineage, expires, material, flight, started,
                   activeResolves, caller>>

-----------------------------------------------------------------------------
(* acquireSource, by a caller that read the connection's present epoch     *)
hit(b, l) ==
    /\ b.sources[l] # 0 /\ b.sources[l] \notin b.invalid
    /\ flight[b.sources[l]].epoch = epoch(l) /\ now < expires[b.sources[l]]

acquireHit(c, l) ==
    LET b == sweepLocked(Locked, now)
    IN  /\ ~closed /\ caller[c] = idle /\ current(l) /\ hit(b, l)
        /\ caller' = [caller EXCEPT ![c] = [phase |-> "borrowing", id |-> b.sources[l]]]
        /\ Unlock(touch(b, b.sources[l]), 0)
        /\ UNCHANGED <<closed, now, lineage, expires, material, flight, started,
                       activeResolves>>

(* Join the flight of the lookup.                                          *)
acquireJoin(c, l) ==
    LET b == sweepLocked(Locked, now)
    IN  /\ ~closed /\ caller[c] = idle /\ current(l) /\ ~hit(b, l)
        /\ \E f \in flights("source") :
             /\ flight[f].lookup = l /\ ~flight[f].abandoned /\ flight[f].epoch = epoch(l)
             /\ caller' = [caller EXCEPT ![c] = [phase |-> "waiting", id |-> f]]
        /\ Unlock(b, 0)
        /\ UNCHANGED <<closed, now, lineage, expires, material, flight, started,
                       activeResolves>>

\* Mutated: the flight runs while its caller still destroys what it evicted.
newFlight_atOnce(kind, l, b) ==
    [noFlight EXCEPT !.kind = kind, !.phase = "claim", !.lookup = l, !.epoch = epoch(l)]
(* The goroutine of a new flight starts after its caller has destroyed the *)
(* materials its critical section left to destroy.                         *)
newFlight(kind, l, b) ==
    [noFlight EXCEPT !.kind = kind, !.lookup = l, !.epoch = epoch(l),
                     !.phase = IF b.doomed = {} THEN "claim" ELSE "disposing"]

(* Start one.                                                              *)
acquireStart(c, l) ==
    LET b == sweepLocked(Locked, now)
        room == makeSourceRoom(b, {})
    IN  /\ ~closed /\ caller[c] = idle /\ current(l) /\ ~hit(b, l)
        /\ \A f \in flights("source") : flight[f].lookup # l
        /\ activeResolves < MaxConcurrentResolves /\ CanMakeRoom(b, {})
        /\ started < MaxFlights /\ started' = started + 1
        /\ flight' = [flight EXCEPT ![started'] = newFlight("source", l, room)]
        /\ caller' = [caller EXCEPT ![c] = [phase |-> "waiting", id |-> started']]
        /\ activeResolves' = activeResolves + 1
        /\ UnlockAndStart(room, 0, started')
        /\ UNCHANGED <<closed, now, lineage, expires, material>>

(* Rotate starts a flight that reads the next generation's material while  *)
(* the present one stays in use.                                           *)
Rotate(c, l) ==
    LET b == sweepLocked(Locked, now)
        room == makeSourceRoom(b, {l.conn})
    IN  /\ ~closed /\ caller[c] = idle
        /\ lineage[l.conn].generation < l.gen /\ lineage[l.conn].revokedThrough < l.gen
        /\ \A f \in flights("rotation") : flight[f].lookup.conn # l.conn
        /\ activeResolves < MaxConcurrentResolves /\ CanMakeRoom(b, {l.conn})
        /\ started < MaxFlights /\ started' = started + 1
        /\ flight' = [flight EXCEPT ![started'] = newFlight("rotation", l, room)]
        /\ caller' = [caller EXCEPT ![c] = [phase |-> "waiting", id |-> started']]
        /\ activeResolves' = activeResolves + 1
        /\ UnlockAndStart(room, 1, started')
        /\ UNCHANGED <<closed, now, lineage, expires, material>>

(* A rotation refused for want of a session slot has already evicted.      *)
refuseRotation(l) ==
    LET b == sweepLocked(Locked, now)
    IN  /\ ~closed /\ lineage[l.conn].generation < l.gen
        /\ activeResolves < MaxConcurrentResolves
        /\ ~hasRoom(b) /\ CanMakeRoom(b, {l.conn})
        /\ Unlock(makeSourceRoom(b, {l.conn}), 0)
        /\ UNCHANGED <<closed, now, lineage, expires, material, flight, started,
                       activeResolves, caller>>

(* waitSourceFlight: the flight is done; a source is borrowed only if the  *)
(* entry has survived until the lock is taken again.                       *)
waitSourceFlight(c) ==
    LET f == caller[c].id
    IN  /\ caller[c].phase = "waiting" /\ flight[f].phase \in Settled
        /\ caller' = [caller EXCEPT ![c] =
             IF /\ flight[f].kind = "source" /\ flight[f].phase = "installed"
                /\ ~closed /\ epoch(flight[f].lookup) = flight[f].epoch
                /\ f \notin invalid /\ now < expires[f] /\ Valid(f)
             THEN [phase |-> "borrowing", id |-> f] ELSE idle]
        /\ recent' = IF caller'[c].phase = "borrowing"
                     THEN touch(Locked, f).recent ELSE recent
        /\ UNCHANGED <<closed, now, lineage, sources, retired, invalid, expires, material,
                       flight, started, activeResolves, sourceReservations, batches>>

(* The caller's context ends: the last one to leave an unfinished flight   *)
(* abandons it, and then destroys its material and cancels it.             *)
leaveSourceFlight(c) ==
    LET f == caller[c].id
        last == waiters(f) = {c} /\ flight[f].phase \notin Settled
    IN  /\ caller[c].phase = "waiting" /\ flight[f].phase # "committed"
        /\ caller' = [caller EXCEPT ![c] = idle]
        /\ flight' = [flight EXCEPT ![f].abandoned = @ \/ last]
        /\ batches' = IF last THEN batches \cup {[sources |-> {}, flights |-> {f},
                                                  starts |-> 0, phase |-> "destroy"]}
                      ELSE batches
        /\ UNCHANGED <<closed, now, lineage, lockVars, expires, material, started,
                       activeResolves, sourceReservations>>

(* sourceBorrow.release: the last borrower of a retired entry destroys it. *)
release(c) ==
    LET e == caller[c].id
        gone == IF borrows(e) = {c} THEN retired \cap {e} ELSE {}
    IN  /\ caller[c].phase = "borrowing"
        /\ caller' = [caller EXCEPT ![c] = idle]
        /\ Unlock([Locked EXCEPT !.retired = @ \ gone, !.doomed = gone], 0)
        /\ UNCHANGED <<closed, now, lineage, expires, material, flight, started,
                       activeResolves>>

-----------------------------------------------------------------------------
(* resolveOwned                                                            *)

(* flightSource.invalidate, up to the destruction of what it held.         *)
Invalidated(S) == [f \in Ids |-> IF f \in S /\ flight[f].phase \notin Settled
                                  THEN [flight[f] EXCEPT !.sourceInvalid = TRUE]
                                  ELSE flight[f]]
Dying(S) == [f \in Ids |-> IF f \in S /\ material[f] = "held" THEN "dying" ELSE material[f]]

(* A flight that fails, having settled its claim as in s, drops its        *)
(* private material.                                                       *)
Fails(f, s) ==
    /\ flight' = [Invalidated({f}) EXCEPT ![f].phase = "failed", ![f].settlements = @ \o s]
    /\ material' = Dying({f})

(* budget.Claim: granted, refused, or refused with a claim to settle.      *)
Claim(f) ==
    /\ flight[f].phase = "claim" /\ ~flight[f].canceled
    /\ flight' = [flight EXCEPT ![f].phase = "claimed"]
    /\ UNCHANGED <<closed, now, lineage, lockVars, expires, material, started, activeResolves,
                   sourceReservations, batches, caller>>

refuseClaim(f) ==
    /\ flight[f].phase = "claim" /\ ~flight[f].canceled
    /\ Fails(f, <<>>) \/ Fails(f, <<"Retained">>)
    /\ UNCHANGED <<closed, now, lineage, lockVars, expires, started, activeResolves,
                   sourceReservations, batches, caller>>

\* Mutated: the provider's word is taken for what the claim has cost.
settlement_trusting(hasMaterial, outcome, err) == outcome
settlement(hasMaterial, outcome, err) ==
    IF \/ outcome = "invalid"
       \/ hasMaterial /\ outcome = "Released"
       \/ ~err /\ ~(hasMaterial /\ outcome = "Consumed")
    THEN "Retained" ELSE outcome

Outcomes == {"Consumed", "Released", "Retained", "invalid"}

(* Canceled before the claim, nothing is read or settled.                  *)
skipClaim(f) ==
    /\ flight[f].phase = "claim" /\ flight[f].canceled
    /\ flight' = [flight EXCEPT ![f].phase = "failed"]
    /\ UNCHANGED <<closed, now, lineage, lockVars, expires, material, started, activeResolves,
                   sourceReservations, batches, caller>>

(* Canceled before the read, the claim is released.                        *)
skipResolve(f) ==
    /\ flight[f].phase = "claimed" /\ flight[f].canceled
    /\ flight' = [flight EXCEPT ![f].phase = "settling-Released"]
    /\ UNCHANGED <<closed, now, lineage, lockVars, expires, material, started, activeResolves,
                   sourceReservations, batches, caller>>

(* resolver.Resolve returns, with or without material, a budget outcome    *)
(* and an error (a late answer is one).  The material is published into    *)
(* the flight at once, or destroyed if the flight was invalidated.  Its    *)
(* retention starts at the raw sample, which may be behind broker time.    *)
Resolve(f, has, err, outcome) ==
    /\ flight[f].phase = "claimed" /\ ~flight[f].canceled
    /\ \E sample \in {now - 1, now} \cap Nat :
         LET published == has /\ ~flight[f].sourceInvalid
             good == has /\ ~err /\ outcome = "Consumed"
         IN  /\ material' = [material EXCEPT ![f] = IF ~has THEN @ ELSE
                                                    IF published THEN "held" ELSE "destroyed"]
             /\ flight' = [flight EXCEPT ![f].publishable = good /\ published,
                                         ![f].returned = has,
                                         ![f].phase = "settling-" \o settlement(has, outcome, err)]
             /\ expires' = [expires EXCEPT ![f] = sample + MaxSourceCacheTTL]
    /\ UNCHANGED <<closed, now, lineage, lockVars, started, activeResolves,
                   sourceReservations, batches, caller>>

(* settleClaim, and what resolveOwned returns.                             *)
settleClaim(f, failed) ==
    \E s \in {"Consumed", "Released", "Retained"} :
       /\ flight[f].phase = "settling-" \o s
       /\ IF failed \/ ~flight[f].publishable \/ flight[f].sourceInvalid
          THEN Fails(f, <<IF failed THEN "Retained" ELSE s>>)
          ELSE /\ flight' = [flight EXCEPT ![f].phase = "resolved", ![f].settlements = Append(@, s)]
               /\ UNCHANGED material
       /\ UNCHANGED <<closed, now, lineage, lockVars, expires, started, activeResolves,
                      sourceReservations, batches, caller>>

-----------------------------------------------------------------------------
(* The flight may publish: nothing has ended it since it started.          *)
live(f) ==
    /\ ~closed /\ ~flight[f].abandoned /\ waiters(f) # {} /\ ~flight[f].canceled
    /\ epoch(flight[f].lookup) = flight[f].epoch
    /\ now < expires[f] /\ Valid(f) /\ ~flight[f].sourceInvalid

\* Mutated: the lineage is not checked again before the entry is installed.
publishes_staleEpoch(f) ==
    /\ ~closed /\ ~flight[f].abandoned /\ waiters(f) # {} /\ ~flight[f].canceled
    /\ now < expires[f] /\ material[f] = "held"
publishes(f) == live(f) /\ current(flight[f].lookup)

Install(b, f) == touch([b EXCEPT !.sources[flight[f].lookup] = f], f)

(* finishSourceFlight: the material moves into the cache ...               *)
finishSourceFlight(f) ==
    /\ flight[f].kind = "source" /\ flight[f].phase = "resolved" /\ publishes(f)
    /\ material' = [material EXCEPT ![f] = "cached"]
    /\ flight' = [flight EXCEPT ![f] = Ended(f, "installed")]
    /\ activeResolves' = activeResolves - 1
    /\ Unlock(Install(Locked, f), 0)
    /\ UNCHANGED <<closed, now, lineage, expires, started, caller>>

(* ... or the flight keeps its slot until the material is destroyed.       *)
rejectFlight(f) ==
    /\ \/ flight[f].phase = "failed" /\ flight[f].kind = "source"
       \/ flight[f].phase = "resolved" /\ flight[f].kind = "source" /\ ~publishes(f)
       \/ flight[f].phase \in {"unissued", "issuing"}
    /\ flight' = [Invalidated({f}) EXCEPT ![f].phase = "rejecting", ![f].canceled = TRUE]
    /\ material' = Dying({f})
    /\ UNCHANGED <<closed, now, lineage, lockVars, expires, started, activeResolves,
                   sourceReservations, batches, caller>>

(* A rotation has returned its resolve slot already, and holds a source    *)
(* reservation in place of an entry in sourceFlights.                      *)
releaseFlight(f) ==
    LET rotation == IF flight[f].kind = "rotation" THEN 1 ELSE 0
    IN  /\ flight[f].phase = "rejecting" /\ material[f] # "dying"
        /\ flight' = [flight EXCEPT ![f] = Ended(f, "refused")]
        /\ activeResolves' = activeResolves - (1 - rotation)
        /\ sourceReservations' = sourceReservations - rotation
        /\ UNCHANGED <<closed, now, lineage, lockVars, expires, material, started, batches,
                       caller>>

-----------------------------------------------------------------------------
(* runRotation after the read: the session is issued from the private      *)
(* material, or the rotation fails.                                        *)
runRotation(f) ==
    /\ flight[f].kind = "rotation" /\ flight[f].phase \in {"resolved", "failed"}
    /\ flight' = [flight EXCEPT ![f].phase =
         IF @ = "resolved" /\ now < expires[f] /\ ~flight[f].canceled
         THEN "issuing" ELSE "unissued"]
    /\ activeResolves' = activeResolves - 1
    /\ UNCHANGED <<closed, now, lineage, lockVars, expires, material, started,
                   sourceReservations, batches, caller>>

(* The lineage moves to the next generation: what the previous one left in *)
(* the cache and in flight goes, and the rotation's material is installed. *)
commitRotation(f) ==
    LET l == flight[f].lookup
    IN  /\ flight[f].phase = "issuing" /\ live(f)
        /\ lineage[l.conn].generation < l.gen /\ lineage[l.conn].revokedThrough < l.gen
        /\ material' = [material EXCEPT ![f] = "cached"]
        /\ lineage' = [lineage EXCEPT ![l.conn] = [@ EXCEPT !.generation = l.gen, !.epoch = @ + 1]]
        /\ flight' = [flight EXCEPT ![f].phase = "committed", ![f].epoch = @ + 1]
        /\ Unlock(Install(invalidateConnectionLocked(Locked, l.conn, f), f), -1)
        /\ UNCHANGED <<closed, now, expires, started, activeResolves, caller>>

(* The cleanup of the previous generation has ended or timed out.          *)
finishRotation(f) ==
    /\ flight[f].phase = "committed"
    /\ flight' = [flight EXCEPT ![f] = Ended(f, "installed")]
    /\ UNCHANGED <<closed, now, lineage, lockVars, expires, material, started,
                   activeResolves, sourceReservations, batches, caller>>

-----------------------------------------------------------------------------
(* Lifecycle calls, as far as they concern sources.  A revocation reaches  *)
(* the generation of a rotation under way.                                 *)
RevokeConnection(k) ==
    LET b == sweepLocked(Locked, now)
        pending == {flight[f].lookup.gen : f \in {r \in flights("rotation") :
                       flight[r].lookup.conn = k /\ flight[r].phase # "committed"}}
    IN  /\ ~closed /\ lineage[k].revokedThrough < lineage[k].generation
        /\ lineage' = [lineage EXCEPT ![k] = [@ EXCEPT !.epoch = @ + 1,
                         !.revokedThrough = Max(pending \cup {lineage[k].generation})]]
        /\ Unlock(invalidateConnectionLocked(b, k, 0), 0)
        /\ UNCHANGED <<closed, now, expires, material, flight, started, activeResolves,
                       caller>>

BrokerClose ==
    /\ ~closed /\ closed' = TRUE
    /\ Unlock([Drop(Locked, Cached(Locked)) EXCEPT
                 !.doomed = Cached(Locked) \cup retired, !.retired = {},
                 !.cancels = flights("source") \cup flights("rotation")], 0)
    /\ UNCHANGED <<now, lineage, expires, material, flight, started, activeResolves,
                   caller>>

-----------------------------------------------------------------------------
(* disposals.destroy: private materials of flights, then cached ones, then *)
(* the slots are returned.                                                 *)
destroy(b) ==
    /\ b.phase = "destroy"
    /\ flight' = [f \in Ids |-> IF f = b.starts /\ flight[f].phase = "disposing"
                                THEN [flight[f] EXCEPT !.phase = "claim"]
                                ELSE Invalidated(b.flights)[f]]
    /\ material' = [f \in Ids |-> IF f \in b.sources THEN "destroyed" ELSE Dying(b.flights)[f]]
    /\ sourceReservations' = sourceReservations - Cardinality(b.sources)
    /\ batches' = (batches \ {b}) \cup
           (IF b.flights = {} THEN {} ELSE {[b EXCEPT !.sources = {}, !.phase = "cancel"]})
    /\ UNCHANGED <<closed, now, lineage, lockVars, expires, started, activeResolves,
                   caller>>

(* The private material a flight lost is gone.                             *)
destroyed(f) ==
    /\ material[f] = "dying"
    /\ material' = [material EXCEPT ![f] = "destroyed"]
    /\ UNCHANGED <<closed, now, lineage, lockVars, expires, flight, started,
                   activeResolves, sourceReservations, batches, caller>>

(* cancellationBatch.publish, after every destruction of the batch.        *)
publish(b) ==
    /\ b.phase = "cancel" /\ \A f \in b.flights : material[f] # "dying"
    /\ flight' = [f \in Ids |-> IF f \in b.flights /\ flight[f].phase \notin Settled
                                THEN [flight[f] EXCEPT !.canceled = TRUE] ELSE flight[f]]
    /\ batches' = batches \ {b}
    /\ UNCHANGED <<closed, now, lineage, lockVars, expires, material, started,
                   activeResolves, sourceReservations, caller>>

Next ==
    \/ observeNowLocked \/ SweepExpired \/ BrokerClose
    \/ \E k \in Conns : RevokeConnection(k)
    \/ \E l \in Lookups : refuseRotation(l)
    \/ \E c \in Callers, l \in Lookups :
         acquireHit(c, l) \/ acquireJoin(c, l) \/ acquireStart(c, l) \/ Rotate(c, l)
    \/ \E c \in Callers : waitSourceFlight(c) \/ leaveSourceFlight(c) \/ release(c)
    \/ \E f \in Ids :
         \/ skipClaim(f) \/ Claim(f) \/ refuseClaim(f) \/ skipResolve(f)
         \/ \E has, err \in BOOLEAN, o \in Outcomes : Resolve(f, has, err, o)
         \/ \E failed \in BOOLEAN : settleClaim(f, failed)
         \/ finishSourceFlight(f) \/ rejectFlight(f) \/ releaseFlight(f)
         \/ runRotation(f) \/ commitRotation(f) \/ finishRotation(f) \/ destroyed(f)
    \/ \E b \in batches : destroy(b) \/ publish(b)

Spec == Init /\ [][Next]_vars

-----------------------------------------------------------------------------
(* Every material the broker has read and not destroyed is charged: it is  *)
(* in the cache, retired, private to an unfinished flight or queued for    *)
(* destruction, in exactly one of these places, and there are never more   *)
(* than MaxSourceEntries of them; the slots and resolves counted are those *)
(* in use, although each is returned outside the lock that charged it      *)
(* (makeSourceRoomLocked, addSourceLocked, finishSourceFlight).            *)
MaterialsCharged ==
    LET queued(e) == {b \in batches : e \in b.sources}
        places(e) == Cardinality(queued(e)) + (IF e \in retired THEN 1 ELSE 0)
                     + (IF e \in Cached(Locked) THEN 1 ELSE 0)
    IN  /\ Cardinality({e \in Ids : material[e] \in {"held", "cached", "dying"}}) <= MaxSourceEntries
        /\ \A e \in Ids :
             /\ material[e] = "cached" <=> places(e) = 1
             /\ material[e] # "cached" => places(e) = 0
             /\ material[e] \in {"held", "dying"} => flight[e].phase \notin Settled
        /\ Cardinality(flights("source")) <= activeResolves
        /\ activeResolves <= MaxConcurrentResolves

(* Materials live as long as their authority, no less and no more.  A      *)
(* borrowed material stays usable until its owner releases it, unless the  *)
(* connection was revoked or rotated or the broker closed: neither expiry  *)
(* nor eviction of its entry destroys it (sweepLocked,                     *)
(* makeSourceRoomExceptLocked, sourceBorrow.release).  After a revocation, *)
(* rotation or Close no material of the old epoch is cached, and each that *)
(* is left, even one a provider returns later, is already in the hands of  *)
(* a cleanup that destroys it (invalidateConnectionLocked,                 *)
(* flightSource.publish).                                                  *)
MaterialsFollowAuthority ==
    \A e \in Ids :
        LET over == closed \/ epoch(flight[e].lookup) # flight[e].epoch
        IN  /\ borrows(e) # {} /\ ~Valid(e) => over
            /\ Valid(e) /\ over =>
                  /\ e \notin Cached(Locked) \cup retired
                  /\ \/ \E b \in batches : b.phase = "destroy" /\ e \in b.sources \cup b.flights
                     \/ flight[e].phase \in {"resolved", "issuing"}

(* A budget claim is settled at most once, before its flight ends, and is  *)
(* never given back when the provider returned material (resolveOwned,     *)
(* settleClaim).                                                           *)
ClaimsSettledHonestly ==
    \A f \in Ids :
        /\ Len(flight[f].settlements) <= 1
        /\ /\ flight[f].returned
           /\ flight[f].phase \in {"resolved", "failed", "issuing", "unissued", "rejecting", "committed"}
           => /\ Len(flight[f].settlements) = 1
              /\ flight[f].settlements # <<"Released">>
=============================================================================
