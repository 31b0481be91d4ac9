---------------------------- MODULE MCSourceCache ----------------------------
(* The source cache in two situations: callers of two connections compete  *)
(* for two slots and every read succeeds, so that entries expire, are      *)
(* evicted and are retired while borrowed; and a connection is rotated,    *)
(* revoked or closed under reads that fail in every way.                   *)
EXTENDS SourceCache, TLC

CONSTANTS p, q
VARIABLE mode       \* "cache" or "lifecycle", fixed by Init

In(m) == mode = m /\ UNCHANGED mode
Either == UNCHANGED mode
MCSymmetry == Permutations({p, q})

MaxLifecycleFlights == 2

Tick == In("cache") /\ observeNowLocked
Sweep == In("cache") /\ SweepExpired
Hit == \E c \in Callers, l \in Lookups :
           In("cache") /\ acquireHit(c, l)
Join == \E c \in Callers, l \in Lookups :
           Either /\ acquireJoin(c, l)
Start == \E c \in Callers, l \in Lookups :
           /\ Either
           /\ mode = "lifecycle" => started < MaxLifecycleFlights /\ l.conn = "k"
           /\ acquireStart(c, l)
Refuse == \E l \in Lookups : In("cache") /\ l.conn = "k" /\ refuseRotation(l)
Turn == \E c \in Callers, l \in Lookups :
           /\ In("lifecycle") /\ started < MaxLifecycleFlights /\ l.conn = "k" /\ Rotate(c, l)
Waited == \E c \in Callers : Either /\ waitSourceFlight(c)
Leave == \E c \in Callers : In("lifecycle") /\ leaveSourceFlight(c)
Release == \E c \in Callers : Either /\ release(c)
Claimed == \E f \in Ids : Either /\ Claim(f)
Unclaimed == \E f \in Ids : In("lifecycle") /\ (skipClaim(f) \/ refuseClaim(f) \/ skipResolve(f))
Read == \E f \in Ids : Either /\ Resolve(f, TRUE, FALSE, "Consumed")
ReadBadly == \E f \in Ids, has, err \in BOOLEAN, o \in Outcomes :
                 In("lifecycle") /\ Resolve(f, has, err, o)
Settle == \E f \in Ids : Either /\ settleClaim(f, FALSE)
SettleFails == \E f \in Ids : In("lifecycle") /\ settleClaim(f, TRUE)
Finish == \E f \in Ids : Either /\ finishSourceFlight(f)
Reject == \E f \in Ids : Either /\ (rejectFlight(f) \/ releaseFlight(f) \/ destroyed(f))
Turned == \E f \in Ids :
              In("lifecycle") /\ (runRotation(f) \/ commitRotation(f) \/ finishRotation(f))
Revoke == In("lifecycle") /\ RevokeConnection("k")
Close == In("lifecycle") /\ BrokerClose
Destroy == \E b \in batches : Either /\ destroy(b)
Publish == \E b \in batches : In("lifecycle") /\ publish(b)

MCInit == Init /\ mode \in {"cache", "lifecycle"}

MCNext ==
    \/ Tick \/ Sweep \/ Hit \/ Join \/ Start \/ Refuse \/ Turn \/ Waited \/ Leave \/ Release
    \/ Claimed \/ Unclaimed \/ Read \/ ReadBadly \/ Settle \/ SettleFails \/ Finish \/ Reject
    \/ Turned \/ Revoke \/ Close \/ Destroy \/ Publish

MCSpec == MCInit /\ [][MCNext]_<<vars, mode>>
=============================================================================
