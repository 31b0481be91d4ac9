------------------------------- MODULE KeyCache -------------------------------
(***************************************************************************)
(* The verification-key cache of one OIDC trust anchor (oidc/cache.go) as  *)
(* Verifier.Authenticate uses it (oidc/verifier.go): concurrent calls      *)
(* resolve a key, join or start one refresh, verify the signature, and     *)
(* after a failed signature may refresh once more.                         *)
(*                                                                         *)
(* Every critical section of cache.mu is one action, and so is each step   *)
(* outside it that reads the clock.  A token is a key reference and the    *)
(* version of the key that signed it; the key source serves a version of   *)
(* each reference and may rotate it.  A version 0 is no key.               *)
(***************************************************************************)
EXTENDS Integers, FiniteSets, FiniteSetsExt

CONSTANTS
    Callers,                                \* goroutines that authenticate
    Tokens,                                 \* [ref, version] of their tokens
    KeySets,                                \* key sets the source can serve
    Freshness, RefreshAhead, RefreshCooldown,
    MaxTime, MaxCalls                       \* bounds of a run

References == UNION {DOMAIN s : s \in KeySets}

ASSUME ConstantsAssumption ==
    /\ KeySets \subseteq [References -> Nat]
    /\ MaxTime \in Nat \ {0}
    /\ {Freshness, RefreshAhead, RefreshCooldown} \subseteq Nat

reasons == {"required", "proactive", "reactive"}

VARIABLES
    clock,          \* starts at 1: 0 is the zero time
    served,         \* the key set the source serves
    keys,           \* cache.keys
    generation, freshUntil,
    nextAllowed,    \* nextRequired-, nextProactive-, nextReactiveRefreshAllowed
    attempt, lastAttemptAt, lastAttemptError,
    flight,         \* the reasons of the flight; {} when there is none
    pc, local,      \* each call's position and variables
    outcome,        \* each caller's last answer
    calls,          \* calls begun
    reactiveAt,     \* history: when the last reactive flight ended
    failedAt        \* history: when the last failed ordinary flight of the set ended

cacheVars == <<keys, generation, freshUntil, nextAllowed, attempt, lastAttemptAt,
               lastAttemptError, flight>>
history == <<reactiveAt, failedAt>>
vars == <<clock, served, cacheVars, pc, local, outcome, calls, history>>

noKeys == [r \in References |-> 0]
noToken == [ref |-> "none", version |-> 0]
idle == [token |-> noToken, now |-> 0, reason |-> "none", observedAttempt |-> 0,
         second |-> "no", err |-> "none", fetched |-> noKeys, generation |-> 0,
         key |-> 0, attempted |-> "no", attemptedAt |-> 0, freshBefore |-> "no",
         fetches |-> 0, sawFlight |-> "no", startedAt |-> 0]

Init ==
    /\ clock = 1
    /\ served \in KeySets
    /\ keys = noKeys
    /\ generation = 0 /\ freshUntil = 0
    /\ nextAllowed = [r \in reasons |-> 0]
    /\ attempt = 0 /\ lastAttemptAt = 0 /\ lastAttemptError = "none"
    /\ flight = {}
    /\ pc = [c \in Callers |-> "idle"]
    /\ local = [c \in Callers |-> idle]
    /\ outcome = [c \in Callers |-> "none"]
    /\ calls = 0
    /\ reactiveAt = 0 /\ failedAt = 0

-----------------------------------------------------------------------------
(* The environment.                                                        *)
Tick ==
    /\ clock < MaxTime
    /\ clock' = clock + 1
    /\ UNCHANGED <<served, cacheVars, pc, local, outcome, calls, history>>

Rotate ==
    /\ served' \in KeySets
    /\ UNCHANGED <<clock, cacheVars, pc, local, outcome, calls, history>>

-----------------------------------------------------------------------------
(* Steps of a call.                                                        *)
yes(condition) == IF condition THEN "yes" ELSE "no"

Goto(c, label, changes) ==
    /\ pc' = [pc EXCEPT ![c] = label]
    /\ local' = [local EXCEPT ![c] = changes]

Return(c, result) ==
    /\ Goto(c, "idle", idle)
    /\ outcome' = [outcome EXCEPT ![c] = result]

cachedKey(c) == IF local[c].token.ref \in References THEN keys[local[c].token.ref] ELSE 0

found(c) == cachedKey(c) # 0

\* Mutated: the end of the window still counts.
freshAt_inclusive(now) == keys # noKeys /\ now <= freshUntil

(* Both from the caller's own reading of the clock.                        *)
freshAt(now) == keys # noKeys /\ now < freshUntil

due(now) == freshAt(now) /\ now >= freshUntil - RefreshAhead

(* recordCooldown; a gate only moves forward.                              *)
recordCooldown(gates, reason, attemptedAt) ==
    IF attemptedAt = 0 THEN gates
    ELSE [gates EXCEPT ![reason] = Max({@, attemptedAt + RefreshCooldown})]

(* The key and the state it was read from.                                 *)
withKey(c, attempted) ==
    [local[c] EXCEPT !.key = cachedKey(c), !.generation = generation,
                     !.attempted = attempted,
                     !.attemptedAt = IF attempted = "yes" THEN lastAttemptAt ELSE 0]

Authenticate(c, token) ==
    /\ pc[c] = "idle" /\ calls < MaxCalls
    /\ calls' = calls + 1
    /\ Goto(c, "resolve", [idle EXCEPT !.token = token, !.now = clock])
    /\ outcome' = [outcome EXCEPT ![c] = "none"]
    /\ UNCHANGED <<clock, served, cacheVars, history>>

(* The first critical section of resolve.                                  *)
resolveReason(c) ==
    LET now == local[c].now
    IN  IF freshAt(now) /\ found(c) THEN "proactive"
        ELSE IF freshAt(now) THEN "reactive"
        ELSE "required"

refreshAllowed(reason, now) == now >= nextAllowed[reason]

resolve(c) ==
    LET now == local[c].now
        reason == resolveReason(c)
        allowed == refreshAllowed(reason, now)
    IN  /\ pc[c] = "resolve"
        /\ \/ /\ freshAt(now) /\ found(c) /\ (~due(now) \/ ~allowed)
              /\ Goto(c, "verify", withKey(c, "no"))
              /\ UNCHANGED outcome
           \/ /\ freshAt(now) /\ ~found(c) /\ ~allowed
              /\ Return(c, "invalid")
           \/ /\ ~freshAt(now) /\ ~allowed /\ attempt > 0
              /\ Return(c, "unavailable")
           \/ /\ IF freshAt(now) THEN allowed /\ (found(c) => due(now))
                 ELSE allowed \/ attempt = 0
              /\ Goto(c, "refresh", [local[c] EXCEPT !.reason = reason,
                                                     !.observedAttempt = attempt,
                                                     !.sawFlight = yes(flight # {})])
              /\ UNCHANGED outcome
        /\ UNCHANGED <<clock, served, cacheVars, calls, history>>

(* resolve after its refresh, at a new reading of the clock.               *)
resolved(c) ==
    LET now == local[c].now
        failed == local[c].err # "none"
    IN  /\ pc[c] = "resolved"
        /\ \/ /\ freshAt(now) /\ found(c)
              /\ Goto(c, "verify", withKey(c, "yes"))
              /\ UNCHANGED outcome
           \/ /\ freshAt(now) /\ ~found(c) /\ failed
              /\ Return(c, "invalid")
           \/ /\ freshAt(now) /\ ~found(c) /\ ~failed
              /\ Goto(c, "miss", local[c])
              /\ UNCHANGED outcome
           \/ /\ ~freshAt(now)
              /\ Return(c, "unavailable")
        /\ UNCHANGED <<clock, served, cacheVars, calls, history>>

(* The extra critical section of a successful refresh without the key.     *)
miss(c) ==
    /\ pc[c] = "miss"
    /\ nextAllowed' = recordCooldown(nextAllowed, "reactive", lastAttemptAt)
    /\ Return(c, "invalid")
    /\ UNCHANGED <<clock, served, keys, generation, freshUntil, attempt, lastAttemptAt,
                   lastAttemptError, flight, calls, history>>

(* verifySignedPayload; a failed signature reads the clock again.          *)
verify(c) ==
    /\ pc[c] = "verify"
    /\ IF local[c].key = local[c].token.version
       THEN Return(c, "accepted")
       ELSE /\ Goto(c, "mismatch", [local[c] EXCEPT !.now = clock])
            /\ UNCHANGED outcome
    /\ UNCHANGED <<clock, served, cacheVars, calls, history>>

(* The answer to the second verification, with the key of this section.    *)
secondAnswer(c) ==
    IF ~freshAt(local[c].now) THEN "unavailable"
    ELSE IF found(c) /\ cachedKey(c) = local[c].token.version THEN "accepted"
    ELSE "invalid"

(* The first critical section of resolveAfterSignatureFailure.             *)
resolveAfterSignatureFailure(c) ==
    LET now == local[c].now
        moved == generation # local[c].generation
        throttled == now < nextAllowed["proactive"]
        attempted == local[c].attempted = "yes"
    IN  /\ pc[c] = "mismatch"
        /\ \/ /\ moved
              /\ Return(c, secondAnswer(c))
              /\ UNCHANGED nextAllowed
           \/ /\ ~moved /\ throttled
              /\ nextAllowed' = recordCooldown(nextAllowed, "reactive",
                                    nextAllowed["proactive"] - RefreshCooldown)
              /\ Return(c, "invalid")
           \/ /\ ~moved /\ ~throttled /\ attempted
              /\ nextAllowed' = recordCooldown(nextAllowed, "reactive",
                                               local[c].attemptedAt)
              /\ Return(c, "invalid")
           \/ /\ ~moved /\ ~throttled /\ ~attempted
              /\ IF ~refreshAllowed("reactive", now)
                 THEN Return(c, "invalid")
                 ELSE /\ Goto(c, "refresh",
                              [local[c] EXCEPT !.reason = "reactive", !.second = "yes",
                                               !.observedAttempt = attempt,
                                               !.sawFlight = yes(flight # {}),
                                               !.freshBefore = yes(freshAt(now))])
                      /\ UNCHANGED outcome
              /\ UNCHANGED nextAllowed
        /\ UNCHANGED <<clock, served, keys, generation, freshUntil, attempt,
                       lastAttemptAt, lastAttemptError, flight, calls, history>>

(* ... and the one after its refresh.                                      *)
resolvedAgain(c) ==
    /\ pc[c] = "resolvedAgain"
    /\ IF local[c].err = "none" THEN Return(c, secondAnswer(c))
       ELSE IF freshAt(local[c].now) /\ local[c].freshBefore = "yes" THEN Return(c, "invalid")
       ELSE Return(c, "unavailable")
    /\ UNCHANGED <<clock, served, cacheVars, calls, history>>

-----------------------------------------------------------------------------
(* refresh.                                                                *)
\* Mutated: a caller that finds no flight starts one, whatever it observed.
newAttempt_any(c) == TRUE

newAttempt(c) == attempt = local[c].observedAttempt

(* A context error of another call's fetch is not this call's.             *)
relayed(err) == IF err = "canceled" THEN "failed" ELSE err

free(c) == flight = {}

(* The flight gains a reason, and the caller waits for it.                 *)
join(c) ==
    /\ ~free(c)
    /\ flight' = flight \cup {local[c].reason}
    /\ Goto(c, "waiting", local[c])
    /\ UNCHANGED <<keys, generation, freshUntil, nextAllowed, attempt, lastAttemptAt,
                   lastAttemptError>>

(* The gates an attempt closes for a caller that was too late to join it.  *)
missedGates(reason, failed) ==
    (IF failed \/ reason = "reactive" THEN {reason} ELSE {})
        \cup (IF failed /\ reason = "proactive" THEN {"required"} ELSE {})

closeGates(gates, closed, at) ==
    [r \in reasons |-> IF r \in closed THEN recordCooldown(gates, r, at)[r] ELSE gates[r]]

(* An attempt has ended since the caller looked: its result is taken over. *)
missed(c) ==
    /\ free(c) /\ ~newAttempt(c)
    /\ nextAllowed' = closeGates(nextAllowed,
                          missedGates(local[c].reason, lastAttemptError # "none"),
                          lastAttemptAt)
    /\ Goto(c, "refreshed", [local[c] EXCEPT !.err = relayed(lastAttemptError)])
    /\ UNCHANGED <<keys, generation, freshUntil, attempt, lastAttemptAt, lastAttemptError,
                   flight>>

start(c) ==
    /\ free(c) /\ newAttempt(c)
    /\ flight' = {local[c].reason}
    /\ attempt' = attempt + 1
    /\ Goto(c, "fetching", [local[c] EXCEPT !.fetches = @ + 1, !.startedAt = clock])
    /\ UNCHANGED <<keys, generation, freshUntil, nextAllowed, lastAttemptAt,
                   lastAttemptError>>

refresh(c) ==
    /\ pc[c] = "refresh"
    /\ join(c) \/ missed(c) \/ start(c)
    /\ UNCHANGED <<clock, served, outcome, calls, history>>

(* The source answers, or fails, or the owner's context ends.              *)
fetch(c) ==
    /\ pc[c] = "fetching"
    /\ \E err \in {"none", "failed", "canceled"} :
          Goto(c, "fetched", [local[c] EXCEPT !.err = err, !.now = clock,
                                 !.fetched = IF err = "none" THEN served ELSE noKeys])
    /\ UNCHANGED <<clock, served, cacheVars, outcome, calls, history>>

(* The gates a flight closes when it ends.                                 *)
flightGates(failed) ==
    (flight \cap {"reactive"})
        \cup (IF failed THEN flight \cap {"proactive"} ELSE {})
        \cup (IF failed /\ flight \cap {"required", "proactive"} # {}
              THEN {"required"} ELSE {})

(* A new set opens the gates that failures of the old one closed.          *)
opened(failed) ==
    IF failed THEN nextAllowed
    ELSE [nextAllowed EXCEPT !["required"] = 0, !["proactive"] = 0]

woken == {w \in Callers : pc[w] = "waiting"}

install(c) ==
    LET now == local[c].now
        err == local[c].err
        failed == err # "none"
    IN  /\ pc[c] = "fetched"
        /\ IF failed THEN UNCHANGED <<keys, generation, freshUntil>>
           ELSE /\ keys' = local[c].fetched
                /\ generation' = generation + 1
                /\ freshUntil' = now + Freshness
        /\ lastAttemptAt' = now
        /\ nextAllowed' = closeGates(opened(failed), flightGates(failed), now)
        /\ lastAttemptError' = err
        /\ flight' = {}
        /\ pc' = [w \in Callers |-> IF w = c \/ w \in woken THEN "refreshed" ELSE pc[w]]
        /\ local' = [w \in Callers |->
              IF w = c THEN [local[w] EXCEPT !.fetched = noKeys]
              ELSE IF w \in woken THEN [local[w] EXCEPT !.err = relayed(err)]
              ELSE local[w]]
        /\ reactiveAt' = IF "reactive" \in flight THEN now ELSE reactiveAt
        /\ failedAt' = IF ~failed THEN 0
                       ELSE IF flight \cap {"required", "proactive"} # {} THEN now
                       ELSE failedAt
        /\ UNCHANGED <<clock, served, attempt, outcome, calls>>

(* After refresh: the owner of a cancelled context leaves, and so may any  *)
(* caller whose refresh failed; the others read the clock.                 *)
afterRefresh(c) ==
    /\ pc[c] = "refreshed"
    /\ \/ /\ local[c].err # "none"
          /\ Return(c, "canceled")
       \/ /\ local[c].err # "canceled"
          /\ Goto(c, IF local[c].second = "yes" THEN "resolvedAgain" ELSE "resolved",
                  [local[c] EXCEPT !.now = clock])
          /\ UNCHANGED outcome
    /\ UNCHANGED <<clock, served, cacheVars, calls, history>>

(* A follower's context ends while it waits.                               *)
leave(c) ==
    /\ pc[c] = "waiting"
    /\ Return(c, "canceled")
    /\ UNCHANGED <<clock, served, cacheVars, calls, history>>

-----------------------------------------------------------------------------
Step(c) ==
    \/ resolve(c)
    \/ resolved(c)
    \/ miss(c)
    \/ verify(c)
    \/ resolveAfterSignatureFailure(c)
    \/ resolvedAgain(c)
    \/ refresh(c)
    \/ fetch(c)
    \/ install(c)
    \/ afterRefresh(c)

Next ==
    \/ Tick
    \/ Rotate
    \/ \E c \in Callers :
          Step(c) \/ leave(c) \/ \E token \in Tokens : Authenticate(c, token)

Spec == Init /\ [][Next]_vars

-----------------------------------------------------------------------------
Local ==
    [token : Tokens \cup {noToken}, now : 0..MaxTime, reason : reasons \cup {"none"},
     observedAttempt : 0..attempt, second : {"yes", "no"},
     err : {"none", "failed", "canceled"}, fetched : KeySets \cup {noKeys},
     generation : 0..generation, key : Nat, attempted : {"yes", "no"},
     attemptedAt : 0..MaxTime, freshBefore : {"yes", "no"}, fetches : 0..1,
     sawFlight : {"yes", "no"}, startedAt : 0..MaxTime]

(* Every variable has its type; a call of Authenticate starts at most one  *)
(* fetch, whatever its token names and whatever happens between its two    *)
(* resolutions (resolve, resolveAfterSignatureFailure).                    *)
TypeOK ==
    /\ clock \in 1..MaxTime
    /\ served \in KeySets
    /\ keys \in KeySets \cup {noKeys}
    /\ generation \in 0..attempt /\ attempt \in 0..calls
    /\ freshUntil \in 0..(MaxTime + Freshness)
    /\ nextAllowed \in [reasons -> 0..(MaxTime + RefreshCooldown)]
    /\ lastAttemptAt \in 0..MaxTime
    /\ lastAttemptError \in {"none", "failed", "canceled"}
    /\ flight \subseteq reasons
    /\ pc \in [Callers -> {"idle", "resolve", "resolved", "miss", "verify", "mismatch",
                           "resolvedAgain", "refresh", "waiting", "fetching", "fetched",
                           "refreshed"}]
    /\ local \in [Callers -> Local]
    /\ outcome \in [Callers -> {"none", "accepted", "invalid", "unavailable", "canceled"}]
    /\ calls \in 0..MaxCalls

Fetching(c) == pc[c] \in {"fetching", "fetched"}

(* What the cooldown promises of the fetch c has started: when it serves   *)
(* an unknown key or a failed signature, the last flight that served one   *)
(* is a cooldown ago; when it serves a missing set, so is the last failed  *)
(* ordinary flight, unless a new set has come since.                       *)
Throttled(c) ==
    /\ local[c].reason = "reactive" /\ reactiveAt # 0 =>
          local[c].startedAt >= reactiveAt + RefreshCooldown
    /\ local[c].reason = "required" /\ failedAt # 0 =>
          local[c].startedAt >= failedAt + RefreshCooldown

(* One call at a time talks to the source, those who wait have its flight  *)
(* to wait for, and a call that looked at the cache while no flight was    *)
(* running fetches only outside the cooldown, whoever finishes a flight    *)
(* between its look and its fetch (resolve, resolveAfterSignatureFailure,  *)
(* refresh; "Concurrent refreshes are coalesced", ADR 0008).               *)
FetchesThrottled ==
    LET owners == {c \in Callers : Fetching(c)}
    IN  /\ Cardinality(owners) <= 1
        /\ flight = {} <=> owners = {}
        /\ \A c \in Callers : pc[c] = "waiting" => local[c].reason \in flight
        /\ \A c \in owners : local[c].sawFlight = "no" => Throttled(c)

(* The step accepts the token of caller c.                                 *)
Accepts(c) == outcome[c] # "accepted" /\ outcome'[c] = "accepted"

(* A key is used, or decides a token, only inside the freshness window of  *)
(* its set, at the caller's last reading of the clock ("Stale keys are     *)
(* never accepted", ADR 0008).                                             *)
StaleKeysNeverUsed ==
    [][\A c \in Callers :
          pc[c] # "verify" /\ (pc'[c] = "verify" \/ Accepts(c)) =>
              keys # noKeys /\ local[c].now < freshUntil]_vars
=============================================================================
