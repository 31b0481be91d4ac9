---------------------------- MODULE KeyCacheProofs ----------------------------
(***************************************************************************)
(* The verification-key cache (KeyCache) for any number of callers, tokens *)
(* and key sets, and any freshness and cooldown.                           *)
(***************************************************************************)
EXTENDS KeyCache, FiniteSetTheorems, TLAPS

-----------------------------------------------------------------------------
(* The inductive invariant *)

Labels == {"idle", "resolve", "resolved", "miss", "verify", "mismatch", "resolvedAgain",
           "refresh", "waiting", "fetching", "fetched", "refreshed"}

Locals ==
    [token : Tokens \cup {noToken}, now : Nat, reason : reasons \cup {"none"},
     observedAttempt : Nat, second : {"yes", "no"},
     err : {"none", "failed", "canceled"}, fetched : KeySets \cup {noKeys},
     generation : Nat, key : Nat, attempted : {"yes", "no"},
     attemptedAt : Nat, freshBefore : {"yes", "no"}, fetches : Nat,
     sawFlight : {"yes", "no"}, startedAt : Nat]

\* A fetch for the reason of call r at time t is outside the cooldown.
ThrottledAt(r, t) ==
    /\ r.reason = "reactive" /\ reactiveAt # 0 => t >= reactiveAt + RefreshCooldown
    /\ r.reason = "required" /\ failedAt # 0 => t >= failedAt + RefreshCooldown

\* A call that starts a flight no other has started or finished since it looked was
\* outside the cooldown when it looked.
CallInv(label, r) ==
    /\ label \in Labels /\ r \in Locals
    /\ r.now <= clock /\ r.observedAttempt <= attempt
    /\ label = "fetched" => r.now >= 1
    /\ label \in {"refresh", "waiting", "fetching", "fetched"} => r.reason \in reasons
    /\ label = "waiting" => r.reason \in flight
    /\ label = "refresh" /\ r.sawFlight = "no" /\ r.observedAttempt = attempt =>
          flight = {} /\ ThrottledAt(r, r.now)
    /\ label \in {"fetching", "fetched"} /\ r.sawFlight = "no" => ThrottledAt(r, r.startedAt)

\* A call that has fetched never reaches a refresh again.
FetchInv(label, r) ==
    /\ r.fetches <= 1
    /\ label \in {"resolve", "refresh", "waiting"} => r.fetches = 0
    /\ label \in {"verify", "mismatch"} /\ r.attempted = "no" => r.fetches = 0

\* The cache, and what its gates remember of the flights that ended.
GateInv ==
    /\ clock \in Nat \ {0} /\ attempt \in Nat /\ generation \in Nat
    /\ reactiveAt \in Nat /\ failedAt \in Nat /\ freshUntil \in Nat /\ lastAttemptAt \in Nat
    /\ lastAttemptError \in {"none", "failed", "canceled"}
    /\ served \in KeySets /\ keys \in KeySets \cup {noKeys}
    /\ nextAllowed \in [reasons -> Int]
    /\ reactiveAt # 0 => nextAllowed["reactive"] >= reactiveAt + RefreshCooldown
    /\ failedAt # 0 => nextAllowed["required"] >= failedAt + RefreshCooldown
    /\ attempt = 0 => reactiveAt = 0 /\ failedAt = 0 /\ flight = {}

\* The flight has one owner.
FlightInv ==
    /\ flight \subseteq reasons
    /\ \A c, d \in Callers : Fetching(c) /\ Fetching(d) => c = d
    /\ flight # {} <=> \E c \in Callers : Fetching(c)

IInv ==
    /\ pc \in [Callers -> Labels] /\ local \in [Callers -> Locals]
    /\ \A c \in Callers : CallInv(pc[c], local[c]) /\ FetchInv(pc[c], local[c])
    /\ GateInv
    /\ FlightInv

-----------------------------------------------------------------------------
(* Lemmas on the operators *)

LEMMA MaxOfTwo ==
    ASSUME NEW x \in Int, NEW y \in Int
    PROVE  Max({x, y}) \in Int /\ Max({x, y}) >= x /\ Max({x, y}) >= y
  <1>1. \E m \in {x, y} : \A z \in {x, y} : m >= z
    OBVIOUS
  <1>2. Max({x, y}) \in {x, y} /\ \A z \in {x, y} : Max({x, y}) >= z
    BY <1>1, Zenon DEF Max
  <1> QED BY <1>2

\* recordCooldown only moves gates forward.
LEMMA CooldownGrows ==
    ASSUME NEW gates \in [reasons -> Int], NEW q \in reasons, NEW at \in Int
    PROVE  /\ recordCooldown(gates, q, at) \in [reasons -> Int]
           /\ \A s \in reasons : recordCooldown(gates, q, at)[s] >= gates[s]
           /\ at # 0 => recordCooldown(gates, q, at)[q] >= at + RefreshCooldown
  <1>1. RefreshCooldown \in Nat
    BY ConstantsAssumption
  <1>2. CASE at = 0
    BY <1>2 DEF recordCooldown
  <1>3. CASE at # 0
    <2> DEFINE m == Max({gates[q], at + RefreshCooldown})
    <2>1. m \in Int /\ m >= gates[q] /\ m >= at + RefreshCooldown
      <3>1. gates[q] \in Int /\ at + RefreshCooldown \in Int
        BY <1>1
      <3> QED BY <3>1, MaxOfTwo, Zenon
    <2>2. recordCooldown(gates, q, at) = [gates EXCEPT ![q] = m]
      BY <1>3 DEF recordCooldown
    <2> HIDE DEF m
    <2> QED BY <2>1, <2>2
  <1> QED BY <1>2, <1>3

LEMMA CloseGrows ==
    ASSUME NEW gates \in [reasons -> Int], NEW closed, NEW at \in Int
    PROVE  /\ closeGates(gates, closed, at) \in [reasons -> Int]
           /\ \A s \in reasons :
                 /\ closeGates(gates, closed, at)[s] >= gates[s]
                 /\ s \in closed /\ at # 0 =>
                       closeGates(gates, closed, at)[s] >= at + RefreshCooldown
  <1>1. \A s \in reasons : closeGates(gates, closed, at)[s] =
            IF s \in closed THEN recordCooldown(gates, s, at)[s] ELSE gates[s]
    BY DEF closeGates
  <1>2. \A s \in reasons :
           /\ recordCooldown(gates, s, at)[s] \in Int
           /\ recordCooldown(gates, s, at)[s] >= gates[s]
           /\ at # 0 => recordCooldown(gates, s, at)[s] >= at + RefreshCooldown
    BY CooldownGrows
  <1>3. \A s \in reasons : closeGates(gates, closed, at)[s] \in Int
    BY <1>1, <1>2
  <1>4. closeGates(gates, closed, at) \in [reasons -> Int]
    BY <1>3 DEF closeGates
  <1>5. \A s \in reasons : closeGates(gates, closed, at)[s] >= gates[s]
    BY <1>1, <1>2
  <1> QED BY <1>1, <1>2, <1>4, <1>5

\* The key a call reads is a version.
LEMMA KeyTyped ==
    ASSUME GateInv, NEW c \in Callers
    PROVE  cachedKey(c) \in Nat
  <1>1. keys \in [References -> Nat]
    BY ConstantsAssumption DEF GateInv, noKeys
  <1> QED BY <1>1 DEF cachedKey

LEMMA IdleTyped == idle \in Locals /\ idle.now = 0 /\ idle.observedAttempt = 0
                     /\ idle.fetches = 0 /\ idle.sawFlight = "no" /\ idle.reason = "none"
  BY DEF idle, Locals, noToken

\* What the updates of a call's variables change.
Same(r, m) ==
    /\ r.reason = m.reason /\ r.observedAttempt = m.observedAttempt
    /\ r.sawFlight = m.sawFlight /\ r.startedAt = m.startedAt /\ r.fetches = m.fetches
    /\ r.attempted = m.attempted

LEMMA NowUpdate ==
    ASSUME NEW m \in Locals, NEW t \in Nat
    PROVE  LET r == [m EXCEPT !.now = t]
           IN  r \in Locals /\ Same(r, m) /\ r.now = t
  BY DEF Locals, Same

LEMMA ErrUpdate ==
    ASSUME NEW m \in Locals, NEW e \in {"none", "failed", "canceled"}
    PROVE  LET r == [m EXCEPT !.err = e]
           IN  r \in Locals /\ Same(r, m) /\ r.now = m.now
  BY DEF Locals, Same

LEMMA FetchedUpdate ==
    ASSUME NEW m \in Locals
    PROVE  LET r == [m EXCEPT !.fetched = noKeys]
           IN  r \in Locals /\ Same(r, m) /\ r.now = m.now
  BY DEF Locals, Same

LEMMA TokenUpdate ==
    ASSUME NEW u \in Tokens, NEW t \in Nat
    PROVE  LET r == [idle EXCEPT !.token = u, !.now = t]
           IN  r \in Locals /\ Same(r, idle) /\ r.now = t
  BY DEF idle, Locals, Same, noToken

-----------------------------------------------------------------------------
(* Steps of one call *)

\* One call moves, the others stay where they are.
LEMMA Moved ==
    ASSUME IInv, NEW c \in Callers, NEW label \in Labels, NEW r \in Locals,
           Goto(c, label, r)
    PROVE  /\ pc' \in [Callers -> Labels] /\ local' \in [Callers -> Locals]
           /\ pc'[c] = label /\ local'[c] = r
           /\ \A w \in Callers \ {c} : pc'[w] = pc[w] /\ local'[w] = local[w]
  BY DEF Goto, IInv

\* No flight begins or ends.
Calm ==
    /\ GateInv' /\ clock <= clock'
    /\ UNCHANGED <<attempt, flight, reactiveAt, failedAt>>

LEMMA CalmKeeps ==
    ASSUME GateInv, Calm, NEW l, NEW r, CallInv(l, r)
    PROVE  CallInv(l, r)'
  <1>1. r.now <= clock'
    BY DEF GateInv, Calm, CallInv, Locals
  <1> QED BY <1>1 DEF Calm, CallInv, ThrottledAt

\* Calls that do not move keep their invariant; so does the one that moves, and it
\* neither becomes nor ceases to be the owner of the flight.
LEMMA CalmMove ==
    ASSUME IInv, Calm, NEW c \in Callers, NEW label \in Labels, NEW r \in Locals,
           Goto(c, label, r), CallInv(label, r), FetchInv(label, r),
           label \in {"fetching", "fetched"} <=> Fetching(c)
    PROVE  IInv'
  <1>1. /\ pc' \in [Callers -> Labels] /\ local' \in [Callers -> Locals]
        /\ pc'[c] = label /\ local'[c] = r
        /\ \A w \in Callers \ {c} : pc'[w] = pc[w] /\ local'[w] = local[w]
    BY Moved
  <1>2. GateInv /\ FlightInv
    BY DEF IInv
  <1>3. ASSUME NEW w \in Callers
        PROVE  CallInv(pc[w], local[w])' /\ FetchInv(pc[w], local[w])'
    <2>1. PICK l, m : l = pc'[w] /\ m = local'[w]
      OBVIOUS
    <2>2. CallInv(l, m) /\ FetchInv(l, m)
      BY <1>1, <2>1 DEF IInv
    <2>3. CallInv(l, m)'
      BY <1>2, <2>2, CalmKeeps
    <2> QED BY <2>1, <2>2, <2>3 DEF CallInv, FetchInv, ThrottledAt
  <1>4. \A w \in Callers : Fetching(w)' <=> Fetching(w)
    BY <1>1 DEF Fetching
  <1>5. flight' = flight /\ GateInv'
    BY DEF Calm
  <1>6. FlightInv'
    BY <1>2, <1>4, <1>5 DEF FlightInv
  <1> QED BY <1>1, <1>3, <1>5, <1>6 DEF IInv

\* A call that returns.
LEMMA ReturnStep ==
    ASSUME IInv, Calm, NEW c \in Callers, Goto(c, "idle", idle), ~Fetching(c)
    PROVE  IInv'
  <1>1. "idle" \in Labels /\ idle \in Locals
    BY IdleTyped DEF Labels
  <1>2. clock \in Nat /\ attempt \in Nat
    BY DEF IInv, GateInv
  <1>3. CallInv("idle", idle) /\ FetchInv("idle", idle)
    BY <1>1, <1>2, IdleTyped DEF CallInv, FetchInv
  <1> QED BY <1>1, <1>3, CalmMove

\* A call that leaves the cache as it is.
LEMMA Untouched ==
    ASSUME IInv, UNCHANGED <<clock, served, cacheVars, history>>
    PROVE  Calm
  <1>1. /\ clock' = clock /\ served' = served /\ keys' = keys /\ generation' = generation
        /\ freshUntil' = freshUntil /\ nextAllowed' = nextAllowed /\ attempt' = attempt
        /\ lastAttemptAt' = lastAttemptAt /\ lastAttemptError' = lastAttemptError
        /\ flight' = flight /\ reactiveAt' = reactiveAt /\ failedAt' = failedAt
    BY DEF cacheVars, history
  <1> QED BY <1>1 DEF IInv, GateInv, Calm

\* A call that only moves a gate forward.
LEMMA GateStep ==
    ASSUME IInv, NEW q \in reasons, NEW at \in Int,
           nextAllowed' = recordCooldown(nextAllowed, q, at),
           UNCHANGED <<clock, served, keys, generation, freshUntil, attempt, lastAttemptAt,
                       lastAttemptError, flight, history>>
    PROVE  Calm
  <1>1. nextAllowed \in [reasons -> Int]
    BY DEF IInv, GateInv
  <1>2. /\ nextAllowed' \in [reasons -> Int]
        /\ \A s \in reasons : nextAllowed'[s] >= nextAllowed[s]
    BY <1>1, CooldownGrows
  <1>3. RefreshCooldown \in Nat /\ "reactive" \in reasons /\ "required" \in reasons
    BY ConstantsAssumption DEF reasons
  <1>4. /\ nextAllowed'["reactive"] >= nextAllowed["reactive"]
        /\ nextAllowed'["required"] >= nextAllowed["required"]
        /\ nextAllowed'["reactive"] \in Int /\ nextAllowed'["required"] \in Int
        /\ nextAllowed["reactive"] \in Int /\ nextAllowed["required"] \in Int
    BY <1>1, <1>2, <1>3
  <1>5. /\ clock' = clock /\ served' = served /\ keys' = keys /\ generation' = generation
        /\ freshUntil' = freshUntil /\ attempt' = attempt
        /\ lastAttemptAt' = lastAttemptAt /\ lastAttemptError' = lastAttemptError
        /\ flight' = flight /\ reactiveAt' = reactiveAt /\ failedAt' = failedAt
    BY DEF history
  <1> QED BY <1>2, <1>3, <1>4, <1>5 DEF IInv, GateInv, Calm

\* The variables of a call.
LEMMA LocalTyped ==
    ASSUME IInv, NEW c \in Callers
    PROVE  /\ local[c] \in Locals /\ local[c].now \in Nat /\ local[c].now <= clock
           /\ CallInv(pc[c], local[c]) /\ FetchInv(pc[c], local[c])
           /\ clock \in Nat \ {0} /\ attempt \in Nat
           /\ local[c].attemptedAt \in Nat /\ lastAttemptAt \in Nat
           /\ local[c].err \in {"none", "failed", "canceled"}
           /\ RefreshCooldown \in Nat /\ nextAllowed["proactive"] \in Int
           /\ \A q \in reasons : nextAllowed[q] \in Int
  BY ConstantsAssumption DEF IInv, GateInv, CallInv, Locals, reasons

\* A call that looked at the cache and goes on to refresh.
LEMMA LookStep ==
    ASSUME IInv, Calm, NEW c \in Callers, ~Fetching(c), NEW r \in Locals,
           NEW q \in reasons, Goto(c, "refresh", r),
           r.now = local[c].now, r.reason = q, r.observedAttempt = attempt,
           r.sawFlight = yes(flight # {}), r.fetches = 0,
           refreshAllowed(q, local[c].now) \/ attempt = 0
    PROVE  IInv'
  <1>1. /\ local[c].now \in Nat /\ local[c].now <= clock /\ attempt \in Nat
        /\ RefreshCooldown \in Nat /\ \A s \in reasons : nextAllowed[s] \in Int
    BY LocalTyped
  <1>2. r.sawFlight = "no" => flight = {}
    BY DEF yes
  <1>3. ThrottledAt(r, r.now)
    BY <1>1 DEF ThrottledAt, refreshAllowed, IInv, GateInv, reasons
  <1>4. CallInv("refresh", r) /\ FetchInv("refresh", r)
    BY <1>1, <1>2, <1>3 DEF CallInv, FetchInv, Labels
  <1>5. "refresh" \in Labels
    BY DEF Labels
  <1> QED BY <1>4, <1>5, CalmMove

\* A call that goes on with the key it read.
LEMMA KeyStep ==
    ASSUME IInv, Calm, NEW c \in Callers, ~Fetching(c), NEW a \in {"yes", "no"},
           Goto(c, "verify", withKey(c, a)), a = "no" => local[c].fetches = 0
    PROVE  IInv'
  <1>1. local[c] \in Locals /\ generation \in Nat /\ lastAttemptAt \in Nat
          /\ cachedKey(c) \in Nat
    BY LocalTyped, KeyTyped DEF IInv, GateInv
  <1> DEFINE n == local[c]
             k == cachedKey(c)
             t == IF a = "yes" THEN lastAttemptAt ELSE 0
             new == [n EXCEPT !.key = k, !.generation = generation, !.attempted = a,
                              !.attemptedAt = t]
  <1>2. PICK m, r : m = n /\ r = new
    OBVIOUS
  <1>6. "verify" \in Labels /\ Goto(c, "verify", r) /\ m = local[c]
    BY <1>2, Zenon DEF Labels, withKey
  <1>t. t \in Nat
    BY <1>1
  <1> HIDE DEF n, k, t
  <1>3. /\ r \in Locals /\ r.now = m.now /\ r.observedAttempt = m.observedAttempt
        /\ r.fetches = m.fetches /\ r.attempted = a
    BY <1>1, <1>2, <1>t DEF Locals, n, k
  <1>4. CallInv(pc[c], m) /\ FetchInv(pc[c], m)
    BY <1>6, LocalTyped
  <1>5. CallInv("verify", r) /\ FetchInv("verify", r)
    BY <1>3, <1>4, <1>6 DEF CallInv, FetchInv, Labels
  <1> QED BY <1>3, <1>5, <1>6, CalmMove

LEMMA ResolveStep ==
    ASSUME IInv, NEW c \in Callers, resolve(c)
    PROVE  IInv'
  <1>1. Calm
    BY Untouched DEF resolve
  <1>2. pc[c] = "resolve" /\ ~Fetching(c)
    BY DEF resolve, Fetching
  <1>3. local[c].fetches = 0
    BY <1>2, LocalTyped DEF FetchInv
  <1>4. CASE Goto(c, "verify", withKey(c, "no"))
    BY <1>1, <1>2, <1>3, <1>4, KeyStep
  <1>5. CASE \E result : Return(c, result)
    BY <1>1, <1>2, <1>5, ReturnStep DEF Return
  <1>6. CASE /\ IF freshAt(local[c].now)
                THEN refreshAllowed(resolveReason(c), local[c].now)
                ELSE refreshAllowed(resolveReason(c), local[c].now) \/ attempt = 0
             /\ Goto(c, "refresh", [local[c] EXCEPT !.reason = resolveReason(c),
                                                    !.observedAttempt = attempt,
                                                    !.sawFlight = yes(flight # {})])
    <2> DEFINE m == local[c]
               q == resolveReason(c)
               s == yes(flight # {})
               new == [m EXCEPT !.reason = q, !.observedAttempt = attempt, !.sawFlight = s]
    <2>1. m \in Locals /\ q \in reasons /\ attempt \in Nat /\ s \in {"yes", "no"}
      BY LocalTyped DEF resolveReason, reasons, yes
    <2>2. Goto(c, "refresh", new) /\ (refreshAllowed(q, m.now) \/ attempt = 0)
      BY <1>6, Zenon
    <2>3. m = local[c] /\ s = yes(flight # {})
      OBVIOUS
    <2> HIDE DEF m, q, s
    <2>4. /\ new \in Locals /\ new.now = m.now /\ new.observedAttempt = attempt
          /\ new.reason = q /\ new.sawFlight = s /\ new.fetches = m.fetches
      BY <2>1 DEF Locals
    <2> HIDE DEF new
    <2> QED BY <1>1, <1>2, <1>3, <2>1, <2>2, <2>3, <2>4, LookStep
  <1> QED BY <1>4, <1>5, <1>6, Zenon DEF resolve

LEMMA ResolvedStep ==
    ASSUME IInv, NEW c \in Callers, resolved(c)
    PROVE  IInv'
  <1>1. Calm
    BY Untouched DEF resolved
  <1>2. pc[c] = "resolved" /\ ~Fetching(c)
    BY DEF resolved, Fetching
  <1>3. CASE Goto(c, "verify", withKey(c, "yes"))
    BY <1>1, <1>2, <1>3, KeyStep
  <1>4. CASE \E result : Return(c, result)
    BY <1>1, <1>2, <1>4, ReturnStep DEF Return
  <1>5. CASE Goto(c, "miss", local[c])
    <2>1. PICK m : m = local[c]
      OBVIOUS
    <2>2. m \in Locals /\ CallInv("resolved", m) /\ FetchInv("resolved", m)
      BY <1>2, <2>1, LocalTyped
    <2>3. CallInv("miss", m) /\ FetchInv("miss", m) /\ "miss" \in Labels
      BY <2>2 DEF CallInv, FetchInv, Labels
    <2>4. Goto(c, "miss", m)
      BY <1>5, <2>1
    <2> QED BY <1>1, <1>2, <2>2, <2>3, <2>4, CalmMove
  <1> QED BY <1>3, <1>4, <1>5, Zenon DEF resolved

LEMMA MissStep ==
    ASSUME IInv, NEW c \in Callers, miss(c)
    PROVE  IInv'
  <1>1. Calm
    BY LocalTyped, GateStep DEF miss, reasons
  <1> QED BY <1>1, ReturnStep DEF miss, Return, Fetching

\* A call that reads the clock and goes on.
LEMMA ClockStep ==
    ASSUME IInv, Calm, NEW c \in Callers, ~Fetching(c),
           NEW label \in {"mismatch", "resolvedAgain", "resolved"},
           Goto(c, label, [local[c] EXCEPT !.now = clock]),
           label = "mismatch" => pc[c] = "verify"
    PROVE  IInv'
  <1>1. PICK m, r : m = local[c] /\ r = [local[c] EXCEPT !.now = clock]
    OBVIOUS
  <1>2. m \in Locals /\ clock \in Nat /\ CallInv(pc[c], m) /\ FetchInv(pc[c], m)
    BY <1>1, LocalTyped
  <1>3. r \in Locals /\ Same(r, m) /\ r.now = clock
    BY <1>1, <1>2, NowUpdate, Zenon
  <1>4. CallInv(label, r) /\ FetchInv(label, r) /\ label \in Labels
    BY <1>2, <1>3 DEF CallInv, FetchInv, Labels, Same
  <1>5. Goto(c, label, r) /\ (label \in {"fetching", "fetched"} <=> Fetching(c))
    BY <1>1
  <1> QED BY <1>3, <1>4, <1>5, CalmMove

LEMMA VerifyStep ==
    ASSUME IInv, NEW c \in Callers, verify(c)
    PROVE  IInv'
  <1>1. Calm /\ pc[c] = "verify" /\ ~Fetching(c)
    BY Untouched DEF verify, Fetching
  <1>2. CASE Return(c, "accepted")
    BY <1>1, <1>2, ReturnStep DEF Return
  <1>3. CASE Goto(c, "mismatch", [local[c] EXCEPT !.now = clock])
    BY <1>1, <1>3, ClockStep
  <1> QED BY <1>2, <1>3 DEF verify

LEMMA MismatchStep ==
    ASSUME IInv, NEW c \in Callers, resolveAfterSignatureFailure(c)
    PROVE  IInv'
  <1>1. pc[c] = "mismatch" /\ ~Fetching(c)
    BY DEF resolveAfterSignatureFailure, Fetching
  <1>2. UNCHANGED <<clock, served, keys, generation, freshUntil, attempt, lastAttemptAt,
                    lastAttemptError, flight, history>>
    BY DEF resolveAfterSignatureFailure
  <1>3. /\ local[c].attemptedAt \in Int /\ nextAllowed["proactive"] - RefreshCooldown \in Int
        /\ "reactive" \in reasons
    BY LocalTyped DEF reasons
  <1>4. ASSUME NEW at \in Int, nextAllowed' = recordCooldown(nextAllowed, "reactive", at)
        PROVE  Calm
    BY <1>2, <1>3, <1>4, GateStep
  <1>5. Calm
    <2>1. CASE UNCHANGED nextAllowed
      BY <1>2, <2>1, Untouched DEF cacheVars
    <2> QED BY <1>3, <1>4, <2>1 DEF resolveAfterSignatureFailure
  <1>6. CASE \E result : Return(c, result)
    BY <1>1, <1>5, <1>6, ReturnStep DEF Return
  <1>7. CASE /\ local[c].attempted # "yes" /\ refreshAllowed("reactive", local[c].now)
             /\ Goto(c, "refresh",
                     [local[c] EXCEPT !.reason = "reactive", !.second = "yes",
                                      !.observedAttempt = attempt,
                                      !.sawFlight = yes(flight # {}),
                                      !.freshBefore = yes(freshAt(local[c].now))])
    <2> DEFINE m == local[c]
               f == yes(freshAt(local[c].now))
               s == yes(flight # {})
               new == [m EXCEPT !.reason = "reactive", !.second = "yes",
                                !.observedAttempt = attempt, !.sawFlight = s,
                                !.freshBefore = f]
    <2>1. m \in Locals /\ attempt \in Nat /\ s \in {"yes", "no"} /\ f \in {"yes", "no"}
      BY LocalTyped DEF yes
    <2>2. Goto(c, "refresh", new) /\ refreshAllowed("reactive", m.now)
      BY <1>7, Zenon
    <2>3. m = local[c] /\ s = yes(flight # {})
      OBVIOUS
    <2> HIDE DEF m, f, s
    <2>4. /\ new \in Locals /\ new.now = m.now /\ new.observedAttempt = attempt
          /\ new.reason = "reactive" /\ new.sawFlight = s /\ new.fetches = m.fetches
      BY <1>3, <2>1 DEF Locals
    <2> HIDE DEF new
    <2>5. m.fetches = 0
      <3>1. m.attempted = "no" /\ FetchInv("mismatch", m)
        BY <1>1, <1>7, <2>1, <2>3, LocalTyped DEF Locals
      <3> QED BY <3>1 DEF FetchInv
    <2> QED BY <1>1, <1>3, <1>5, <2>1, <2>2, <2>3, <2>4, <2>5, LookStep
  <1> QED BY <1>6, <1>7, Zenon DEF resolveAfterSignatureFailure

LEMMA ResolvedAgainStep ==
    ASSUME IInv, NEW c \in Callers, resolvedAgain(c)
    PROVE  IInv'
  <1>1. Calm /\ ~Fetching(c)
    BY Untouched DEF resolvedAgain, Fetching
  <1>2. \E result : Return(c, result)
    BY Zenon DEF resolvedAgain
  <1> QED BY <1>1, <1>2, ReturnStep DEF Return

LEMMA AfterRefreshStep ==
    ASSUME IInv, NEW c \in Callers, afterRefresh(c)
    PROVE  IInv'
  <1>1. Calm /\ ~Fetching(c)
    BY Untouched DEF afterRefresh, Fetching
  <1>2. CASE Return(c, "canceled")
    BY <1>1, <1>2, ReturnStep DEF Return
  <1>3. CASE Goto(c, IF local[c].second = "yes" THEN "resolvedAgain" ELSE "resolved",
                  [local[c] EXCEPT !.now = clock])
    BY <1>1, <1>3, ClockStep, Zenon
  <1> QED BY <1>2, <1>3, Zenon DEF afterRefresh

LEMMA LeaveStep ==
    ASSUME IInv, NEW c \in Callers, leave(c)
    PROVE  IInv'
  <1>1. Calm /\ ~Fetching(c)
    BY Untouched DEF leave, Fetching
  <1> QED BY <1>1, ReturnStep DEF leave, Return

LEMMA AuthenticateStep ==
    ASSUME IInv, NEW c \in Callers, NEW token \in Tokens, Authenticate(c, token)
    PROVE  IInv'
  <1>1. Calm /\ ~Fetching(c)
    BY Untouched DEF Authenticate, Fetching
  <1>2. PICK r : r = [idle EXCEPT !.token = token, !.now = clock]
    OBVIOUS
  <1>3. clock \in Nat /\ attempt \in Nat
    BY LocalTyped
  <1>4. r \in Locals /\ Same(r, idle) /\ r.now = clock
    BY <1>2, <1>3, TokenUpdate, Zenon
  <1>5. CallInv("resolve", r) /\ FetchInv("resolve", r) /\ "resolve" \in Labels
    BY <1>3, <1>4, IdleTyped DEF CallInv, FetchInv, Labels, Same
  <1>6. Goto(c, "resolve", r)
    BY <1>2, Zenon DEF Authenticate
  <1> QED BY <1>1, <1>4, <1>5, <1>6, CalmMove

\* The owner of the flight hears from the source.
LEMMA FetchStep ==
    ASSUME IInv, NEW c \in Callers, fetch(c)
    PROVE  IInv'
  <1>1. Calm /\ pc[c] = "fetching" /\ Fetching(c)
    BY Untouched DEF fetch, Fetching
  <1>2. PICK err \in {"none", "failed", "canceled"} :
           Goto(c, "fetched", [local[c] EXCEPT !.err = err, !.now = clock,
                                  !.fetched = IF err = "none" THEN served ELSE noKeys])
    BY DEF fetch
  <1> DEFINE s == IF err = "none" THEN served ELSE noKeys
  <1>3. PICK m : m = local[c]
    OBVIOUS
  <1>r. PICK r : r = [m EXCEPT !.err = err, !.now = clock, !.fetched = s]
    OBVIOUS
  <1>4. Goto(c, "fetched", r)
    BY <1>2, <1>3, <1>r, Zenon
  <1>5. /\ m \in Locals /\ clock \in Nat /\ s \in KeySets \cup {noKeys} /\ clock # 0
        /\ CallInv("fetching", m) /\ FetchInv("fetching", m)
    BY <1>1, <1>3, LocalTyped DEF IInv, GateInv
  <1> HIDE DEF s
  <1>6. r \in Locals /\ Same(r, m) /\ r.now = clock
    BY <1>5, <1>r DEF Locals, Same
  <1>7. CallInv("fetched", r) /\ FetchInv("fetched", r) /\ "fetched" \in Labels
    BY <1>5, <1>6 DEF CallInv, FetchInv, Labels, Same, ThrottledAt
  <1> QED BY <1>1, <1>4, <1>6, <1>7, CalmMove

-----------------------------------------------------------------------------
(* Flights *)

\* A call joins the flight: nobody who waits for a free cache is affected.
LEMMA JoinStep ==
    ASSUME IInv, NEW c \in Callers, pc[c] = "refresh", join(c),
           UNCHANGED <<clock, served, history>>
    PROVE  IInv'
  <1>1. PICK m : m = local[c]
    OBVIOUS
  <1>2. m \in Locals /\ CallInv("refresh", m) /\ FetchInv("refresh", m)
    BY <1>1, LocalTyped
  <1>3. Goto(c, "waiting", m) /\ "waiting" \in Labels
    BY <1>1 DEF join, Labels
  <1>4. /\ pc' \in [Callers -> Labels] /\ local' \in [Callers -> Locals]
        /\ pc'[c] = "waiting" /\ local'[c] = m
        /\ \A w \in Callers \ {c} : pc'[w] = pc[w] /\ local'[w] = local[w]
    BY <1>2, <1>3, Moved
  <1>5. /\ flight # {} /\ flight' = flight \cup {m.reason} /\ m.reason \in reasons
        /\ clock' = clock /\ attempt' = attempt /\ reactiveAt' = reactiveAt
        /\ failedAt' = failedAt
    BY <1>1, <1>2 DEF join, free, CallInv, history
  <1>6. ASSUME NEW w \in Callers
        PROVE  CallInv(pc[w], local[w])' /\ FetchInv(pc[w], local[w])'
    <2>1. PICK l, r : l = pc'[w] /\ r = local'[w]
      OBVIOUS
    <2>2. CASE w = c
      BY <1>2, <1>4, <1>5, <2>1, <2>2 DEF CallInv, FetchInv, Labels
    <2>3. CASE w # c
      <3>1. CallInv(l, r) /\ FetchInv(l, r)
        BY <1>4, <2>1, <2>3, LocalTyped
      <3>2. CallInv(l, r)'
        BY <1>5, <3>1 DEF CallInv, ThrottledAt
      <3> QED BY <2>1, <3>1, <3>2 DEF CallInv, FetchInv, ThrottledAt
    <2> QED BY <2>2, <2>3
  <1>7. GateInv'
    <2>1. UNCHANGED <<served, keys, generation, freshUntil, nextAllowed, lastAttemptAt,
                      lastAttemptError>>
      BY DEF join
    <2>2. attempt # 0
      BY <1>5 DEF IInv, GateInv
    <2> QED BY <1>5, <2>1, <2>2 DEF IInv, GateInv
  <1>8. FlightInv'
    <2>1. \A w \in Callers : Fetching(w)' <=> Fetching(w)
      BY <1>4 DEF Fetching
    <2> QED BY <1>5, <2>1 DEF IInv, FlightInv
  <1> QED BY <1>4, <1>6, <1>7, <1>8 DEF IInv

\* A call takes over the result of a flight it was too late to join.
LEMMA MissedStep ==
    ASSUME IInv, NEW c \in Callers, pc[c] = "refresh", missed(c),
           UNCHANGED <<clock, served, history>>
    PROVE  IInv'
  <1> DEFINE closed == missedGates(local[c].reason, lastAttemptError # "none")
  <1>1. /\ nextAllowed' = closeGates(nextAllowed, closed, lastAttemptAt)
        /\ UNCHANGED <<keys, generation, freshUntil, attempt, lastAttemptAt,
                       lastAttemptError, flight>>
    BY DEF missed
  <1> HIDE DEF closed
  <1>2. Calm
    <2>1. nextAllowed \in [reasons -> Int] /\ lastAttemptAt \in Int
      BY DEF IInv, GateInv
    <2>2. /\ nextAllowed' \in [reasons -> Int]
          /\ \A s \in reasons : nextAllowed'[s] >= nextAllowed[s]
      BY <1>1, <2>1, CloseGrows
    <2>3. RefreshCooldown \in Nat /\ "reactive" \in reasons /\ "required" \in reasons
      BY ConstantsAssumption DEF reasons
    <2>4. /\ nextAllowed'["reactive"] >= nextAllowed["reactive"]
          /\ nextAllowed'["required"] >= nextAllowed["required"]
          /\ nextAllowed'["reactive"] \in Int /\ nextAllowed'["required"] \in Int
          /\ nextAllowed["reactive"] \in Int /\ nextAllowed["required"] \in Int
      BY <2>1, <2>2, <2>3
    <2>5. /\ clock' = clock /\ served' = served /\ keys' = keys /\ generation' = generation
          /\ freshUntil' = freshUntil /\ attempt' = attempt
          /\ lastAttemptAt' = lastAttemptAt /\ lastAttemptError' = lastAttemptError
          /\ flight' = flight /\ reactiveAt' = reactiveAt /\ failedAt' = failedAt
      BY <1>1 DEF history
    <2> QED BY <2>2, <2>3, <2>4, <2>5 DEF IInv, GateInv, Calm
  <1>3. PICK m, e : m = local[c] /\ e = relayed(lastAttemptError)
    OBVIOUS
  <1>4. /\ m \in Locals /\ e \in {"none", "failed", "canceled"}
        /\ CallInv("refresh", m) /\ FetchInv("refresh", m)
    BY <1>3, LocalTyped DEF relayed, IInv, GateInv
  <1>5. PICK r : r = [m EXCEPT !.err = e]
    OBVIOUS
  <1>6. r \in Locals /\ Same(r, m) /\ r.now = m.now
    BY <1>4, <1>5, ErrUpdate, Zenon
  <1>7. CallInv("refreshed", r) /\ FetchInv("refreshed", r) /\ "refreshed" \in Labels
    BY <1>4, <1>6 DEF CallInv, FetchInv, Labels, Same
  <1>8. Goto(c, "refreshed", r)
    BY <1>3, <1>5, Zenon DEF missed
  <1> QED BY <1>2, <1>6, <1>7, <1>8, CalmMove DEF Fetching

\* A flight starts only when there is none, and only by a call that saw the last one.
LEMMA StartStep ==
    ASSUME IInv, NEW c \in Callers, pc[c] = "refresh", start(c),
           UNCHANGED <<clock, served, history>>
    PROVE  IInv'
  <1>1. PICK m, n : m = local[c] /\ n = local[c].fetches + 1
    OBVIOUS
  <1>2. /\ m \in Locals /\ CallInv("refresh", m) /\ FetchInv("refresh", m)
        /\ clock \in Nat /\ attempt \in Nat
    BY <1>1, LocalTyped
  <1>r. PICK r : r = [m EXCEPT !.fetches = n, !.startedAt = clock]
    OBVIOUS
  <1>3. n = 1
    BY <1>1, <1>2 DEF FetchInv
  <1>4. /\ r \in Locals /\ r.now = m.now /\ r.observedAttempt = m.observedAttempt
        /\ r.reason = m.reason /\ r.sawFlight = m.sawFlight /\ r.fetches = 1
        /\ r.startedAt = clock
    BY <1>2, <1>3, <1>r DEF Locals
  <1>5. Goto(c, "fetching", r)
    BY <1>1, <1>r, Zenon DEF start
  <1>6. /\ pc' \in [Callers -> Labels] /\ local' \in [Callers -> Locals]
        /\ pc'[c] = "fetching" /\ local'[c] = r
        /\ \A w \in Callers \ {c} : pc'[w] = pc[w] /\ local'[w] = local[w]
    <2>1. "fetching" \in Labels
      BY DEF Labels
    <2> QED BY <1>4, <1>5, <2>1, Moved
  <1>7. /\ flight = {} /\ flight' = {m.reason} /\ m.reason \in reasons
        /\ m.observedAttempt = attempt
        /\ clock' = clock /\ attempt' = attempt + 1 /\ reactiveAt' = reactiveAt
        /\ failedAt' = failedAt
    BY <1>1, <1>2 DEF start, free, newAttempt, CallInv, history
  <1>8. ASSUME NEW w \in Callers
        PROVE  CallInv(pc[w], local[w])' /\ FetchInv(pc[w], local[w])'
    <2>1. PICK l, k : l = pc'[w] /\ k = local'[w]
      OBVIOUS
    <2>2. CASE w = c
      <3>1. r.sawFlight = "no" => ThrottledAt(r, clock)
        <4>1. SUFFICES ASSUME r.sawFlight = "no" PROVE ThrottledAt(r, clock)
          OBVIOUS
        <4>2. ThrottledAt(m, m.now) /\ m.now <= clock
          BY <1>2, <1>4, <1>7, <4>1 DEF CallInv
        <4>3. m.now \in Nat /\ reactiveAt \in Nat /\ failedAt \in Nat
          BY <1>2 DEF Locals, IInv, GateInv
        <4> QED BY <1>2, <1>4, <4>2, <4>3, ConstantsAssumption DEF ThrottledAt
      <3>2. l = "fetching" /\ k = r
        BY <1>6, <2>1, <2>2
      <3>3. ThrottledAt(r, clock)' <=> ThrottledAt(r, clock)
        BY <1>7 DEF ThrottledAt
      <3>4. r.now <= clock' /\ r.observedAttempt <= attempt' /\ r.reason \in reasons
        BY <1>2, <1>4, <1>7 DEF CallInv
      <3>5. CallInv(l, k)'
        BY <1>4, <1>7, <3>1, <3>2, <3>3, <3>4 DEF CallInv, Labels
      <3>6. FetchInv(l, k)'
        BY <1>4, <3>2 DEF FetchInv
      <3> QED BY <2>1, <3>5, <3>6 DEF CallInv, FetchInv, ThrottledAt
    <2>3. CASE w # c
      <3>1. CallInv(l, k) /\ FetchInv(l, k) /\ k.observedAttempt \in Nat
        <4>1. l = pc[w] /\ k = local[w]
          BY <1>6, <2>1, <2>3
        <4>2. CallInv(l, k) /\ FetchInv(l, k) /\ k \in Locals
          BY <4>1, LocalTyped
        <4> QED BY <4>2 DEF Locals
      <3>2. l \notin {"waiting", "fetching", "fetched"}
        BY <1>6, <1>7, <2>1, <2>3, <3>1 DEF CallInv, IInv, FlightInv, Fetching
      <3>3. CallInv(l, k)'
        BY <1>2, <1>7, <3>1, <3>2 DEF CallInv, ThrottledAt
      <3> QED BY <2>1, <3>1, <3>3 DEF CallInv, FetchInv, ThrottledAt
    <2> QED BY <2>2, <2>3
  <1>9. GateInv'
    <2>1. UNCHANGED <<served, keys, generation, freshUntil, nextAllowed, lastAttemptAt,
                      lastAttemptError>>
      BY DEF start
    <2> QED BY <1>2, <1>7, <2>1 DEF IInv, GateInv
  <1>10. FlightInv'
    <2>1. \A w \in Callers : Fetching(w)' <=> w = c
      BY <1>6, <1>7 DEF Fetching, IInv, FlightInv
    <2> QED BY <1>7, <2>1 DEF FlightInv
  <1> QED BY <1>6, <1>8, <1>9, <1>10 DEF IInv

LEMMA RefreshStep ==
    ASSUME IInv, NEW c \in Callers, refresh(c)
    PROVE  IInv'
  BY JoinStep, MissedStep, StartStep DEF refresh

\* The gates after a flight: what it served, and what failed, is a cooldown away.
LEMMA InstallGates ==
    ASSUME IInv, NEW c \in Callers, install(c)
    PROVE  GateInv' /\ flight # {}
  <1>1. PICK t, err, failed : /\ t = local[c].now /\ err = local[c].err
                              /\ failed = (err # "none") /\ failed \in BOOLEAN
    OBVIOUS
  <1>2. /\ pc[c] = "fetched" /\ Fetching(c) /\ t \in Nat \ {0} /\ t <= clock
        /\ err \in {"none", "failed", "canceled"} /\ local[c].fetched \in KeySets \cup {noKeys}
    BY <1>1, LocalTyped DEF install, Fetching, CallInv, Locals
  <1>3. flight # {} /\ attempt # 0
    BY <1>2 DEF IInv, FlightInv, GateInv
  <1>4. /\ clock' = clock /\ served' = served /\ attempt' = attempt /\ flight' = {}
        /\ lastAttemptAt' = t /\ lastAttemptError' = err
        /\ nextAllowed' = closeGates(opened(failed), flightGates(failed), t)
        /\ reactiveAt' = IF "reactive" \in flight THEN t ELSE reactiveAt
        /\ failedAt' = IF ~failed THEN 0
                       ELSE IF flight \cap {"required", "proactive"} # {} THEN t
                       ELSE failedAt
    BY <1>1, Zenon DEF install
  <1>5. /\ keys' \in KeySets \cup {noKeys} /\ generation' \in Nat /\ freshUntil' \in Nat
    <2>1. CASE err # "none"
      BY <1>1, <2>1 DEF install, IInv, GateInv
    <2>2. CASE err = "none"
      <3>1. /\ keys' = local[c].fetched /\ generation' = generation + 1
            /\ freshUntil' = t + Freshness
        BY <1>1, <2>2 DEF install
      <3> QED BY <1>2, <3>1, ConstantsAssumption DEF IInv, GateInv
    <2> QED BY <2>1, <2>2
  <1>6. /\ nextAllowed \in [reasons -> Int] /\ RefreshCooldown \in Nat
        /\ "reactive" \in reasons /\ "required" \in reasons
    BY ConstantsAssumption DEF IInv, GateInv, reasons
  <1>7. PICK gates : gates = opened(failed)
    OBVIOUS
  <1>8. /\ gates \in [reasons -> Int] /\ gates["reactive"] = nextAllowed["reactive"]
        /\ failed => gates = nextAllowed
    BY <1>6, <1>7 DEF opened, reasons
  <1>9. PICK closed : closed = flightGates(failed)
    OBVIOUS
  <1>10. /\ "reactive" \in flight => "reactive" \in closed
         /\ failed /\ flight \cap {"required", "proactive"} # {} => "required" \in closed
    BY <1>1, <1>9 DEF flightGates
  <1>11. /\ nextAllowed' \in [reasons -> Int]
         /\ \A s \in reasons :
               /\ nextAllowed'[s] >= gates[s]
               /\ s \in closed => nextAllowed'[s] >= t + RefreshCooldown
    BY <1>2, <1>4, <1>7, <1>8, <1>9, CloseGrows
  <1>12. /\ reactiveAt' # 0 => nextAllowed'["reactive"] >= reactiveAt' + RefreshCooldown
         /\ reactiveAt' \in Nat
    BY <1>2, <1>4, <1>6, <1>8, <1>10, <1>11 DEF IInv, GateInv
  <1>13. /\ failedAt' # 0 => nextAllowed'["required"] >= failedAt' + RefreshCooldown
         /\ failedAt' \in Nat
    BY <1>1, <1>2, <1>4, <1>6, <1>8, <1>10, <1>11 DEF IInv, GateInv
  <1> QED BY <1>2, <1>3, <1>4, <1>5, <1>11, <1>12, <1>13 DEF IInv, GateInv

\* A flight that ends wakes everyone who waits for it, and no call that looked before
\* it started still counts on a free cache.
LEMMA InstallStep ==
    ASSUME IInv, NEW c \in Callers, install(c)
    PROVE  IInv'
  <1>1. GateInv' /\ flight # {}
    BY InstallGates
  <1>2. /\ flight' = {} /\ clock' = clock /\ attempt' = attempt
        /\ pc' = [w \in Callers |-> IF w = c \/ w \in woken THEN "refreshed" ELSE pc[w]]
        /\ local' = [w \in Callers |->
              IF w = c THEN [local[w] EXCEPT !.fetched = noKeys]
              ELSE IF w \in woken THEN [local[w] EXCEPT !.err = relayed(local[c].err)]
              ELSE local[w]]
        /\ Fetching(c)
    BY Zenon DEF install, Fetching
  <1>3. relayed(local[c].err) \in {"none", "failed", "canceled"}
    BY LocalTyped DEF relayed
  <1>4. ASSUME NEW w \in Callers
        PROVE  /\ pc'[w] \in Labels /\ local'[w] \in Locals /\ ~Fetching(w)'
               /\ CallInv(pc[w], local[w])' /\ FetchInv(pc[w], local[w])'
    <2>1. PICK l, r, m : l = pc'[w] /\ r = local'[w] /\ m = local[w]
      OBVIOUS
    <2>2. m \in Locals /\ CallInv(pc[w], m) /\ FetchInv(pc[w], m)
      BY <2>1, LocalTyped
    <2>3. CASE w = c \/ w \in woken
      <3>1. l = "refreshed"
        BY <1>2, <2>1, <2>3, Zenon
      <3>4. r \in Locals /\ Same(r, m) /\ r.now = m.now
        <4>1. CASE w = c
          <5>1. r = [m EXCEPT !.fetched = noKeys]
            BY <1>2, <2>1, <4>1, Zenon
          <5> QED BY <2>2, <5>1, FetchedUpdate, Zenon
        <4>2. CASE w # c
          <5>1. r = [m EXCEPT !.err = relayed(local[c].err)]
            BY <1>2, <2>1, <2>3, <4>2, Zenon
          <5> QED BY <1>3, <2>2, <5>1, ErrUpdate, Zenon
        <4> QED BY <4>1, <4>2
      <3>5. CallInv(l, r)' /\ FetchInv(l, r)
        BY <1>2, <2>2, <3>1, <3>4 DEF CallInv, FetchInv, Labels, Same
      <3> QED BY <2>1, <3>1, <3>4, <3>5 DEF CallInv, FetchInv, ThrottledAt, Fetching, Labels
    <2>4. CASE w # c /\ w \notin woken
      <3>1. l = pc[w] /\ r = m
        BY <1>2, <2>1, <2>4, Zenon
      <3>2. l \notin {"waiting", "fetching", "fetched"}
        BY <1>2, <2>4, <3>1 DEF woken, Fetching, IInv, FlightInv
      <3>3. CallInv(l, r)' /\ FetchInv(l, r)
        BY <1>1, <1>2, <2>2, <3>1, <3>2 DEF CallInv
      <3> QED BY <2>1, <2>2, <3>1, <3>2, <3>3 DEF CallInv, FetchInv, ThrottledAt, Fetching
    <2> QED BY <2>3, <2>4
  <1>5. pc' \in [Callers -> Labels]
    BY <1>2, <1>4
  <1>6. local' \in [Callers -> Locals]
    <2>1. DOMAIN local' = Callers /\ local' = [w \in Callers |-> local'[w]]
      BY <1>2, Zenon
    <2> QED BY <1>4, <2>1, Zenon
  <1>7. FlightInv'
    BY <1>2, <1>4 DEF FlightInv
  <1> QED BY <1>1, <1>4, <1>5, <1>6, <1>7 DEF IInv

\* The environment: time passes, keys are rotated.
LEMMA EnvironmentStep ==
    ASSUME IInv, Tick \/ Rotate
    PROVE  IInv'
  <1>1. /\ pc' = pc /\ local' = local /\ flight' = flight /\ attempt' = attempt
        /\ UNCHANGED <<keys, generation, freshUntil, nextAllowed, lastAttemptAt,
                       lastAttemptError, reactiveAt, failedAt>>
        /\ clock' \in {clock, clock + 1} /\ (served' = served \/ served' \in KeySets)
    BY DEF Tick, Rotate, cacheVars, history
  <1>2. Calm
    BY <1>1 DEF IInv, GateInv, Calm
  <1>3. ASSUME NEW w \in Callers
        PROVE  CallInv(pc[w], local[w])' /\ FetchInv(pc[w], local[w])'
    <2>1. PICK l, r : l = pc[w] /\ r = local[w]
      OBVIOUS
    <2>2. CallInv(l, r) /\ FetchInv(l, r) /\ GateInv
      BY <2>1 DEF IInv
    <2>3. CallInv(l, r)'
      BY <1>2, <2>2, CalmKeeps
    <2> QED BY <1>1, <2>1, <2>2, <2>3 DEF CallInv, FetchInv, ThrottledAt
  <1>4. FlightInv'
    BY <1>1 DEF IInv, FlightInv, Fetching
  <1> QED BY <1>1, <1>2, <1>3, <1>4 DEF IInv, Calm

-----------------------------------------------------------------------------
(* The theorems *)

LEMMA InvInit == Init => IInv
  <1> SUFFICES ASSUME Init PROVE IInv
    OBVIOUS
  <1>1. pc = [c \in Callers |-> "idle"] /\ local = [c \in Callers |-> idle]
    BY DEF Init
  <1>2. idle \in Locals /\ "idle" \in Labels
    BY IdleTyped DEF Labels
  <1>3. CallInv("idle", idle) /\ FetchInv("idle", idle)
    BY <1>2, IdleTyped DEF Init, CallInv, FetchInv
  <1>4. pc \in [Callers -> Labels] /\ local \in [Callers -> Locals]
    BY <1>1, <1>2
  <1>5. \A c \in Callers : pc[c] = "idle" /\ local[c] = idle
    BY <1>1
  <1>6. nextAllowed \in [reasons -> Int] /\ nextAllowed["reactive"] = 0
    BY DEF Init, reasons
  <1>7. GateInv
    BY <1>6 DEF Init, GateInv
  <1>8. FlightInv
    BY <1>5 DEF Init, FlightInv, Fetching
  <1> QED BY <1>3, <1>4, <1>5, <1>7, <1>8 DEF IInv

LEMMA InvStep == IInv /\ [Next]_vars => IInv'
  <1> SUFFICES ASSUME IInv, [Next]_vars PROVE IInv'
    OBVIOUS
  <1>1. CASE UNCHANGED vars
    <2>1. UNCHANGED <<clock, served, cacheVars, pc, local, history>>
      BY <1>1 DEF vars
    <2>2. UNCHANGED <<keys, generation, freshUntil, nextAllowed, attempt, lastAttemptAt,
                      lastAttemptError, flight, reactiveAt, failedAt>>
      BY <2>1 DEF cacheVars, history
    <2> QED BY <2>1, <2>2 DEF IInv, CallInv, FetchInv, ThrottledAt, GateInv, FlightInv, Fetching
  <1>2. CASE Next
    BY <1>2, EnvironmentStep, ResolveStep, ResolvedStep, MissStep, VerifyStep, MismatchStep,
       ResolvedAgainStep, RefreshStep, FetchStep, InstallStep, AfterRefreshStep, LeaveStep,
       AuthenticateStep DEF Next, Step
  <1> QED BY <1>1, <1>2

\* The inductive invariant holds: the flight has one owner, and the gates remember the
\* flights that ended (every critical section of cache.mu).
THEOREM Invariance == Spec => []IInv
  BY InvInit, InvStep, PTL DEF Spec

\* One call at a time fetches, waiting calls have a flight to wait for, and a call that
\* looked while no flight was running fetches only outside the cooldown (resolve,
\* resolveAfterSignatureFailure, refresh).
THEOREM FetchesAreThrottled == Spec => []FetchesThrottled
  <1>1. IInv => FetchesThrottled
    <2> SUFFICES ASSUME IInv PROVE FetchesThrottled
      OBVIOUS
    <2> DEFINE owners == {c \in Callers : Fetching(c)}
    <2>1. \A c, d \in owners : c = d
      BY DEF IInv, FlightInv
    <2>2. Cardinality(owners) <= 1
      <3>1. CASE owners = {}
        <4>1. Cardinality(owners) = 0
          BY <3>1, FS_EmptySet, Zenon
        <4> QED BY <4>1
      <3>2. CASE owners # {}
        <4>1. PICK c \in owners : owners = {c}
          BY <2>1, <3>2
        <4>2. Cardinality(owners) = 1
          BY <4>1, FS_Singleton, Zenon
        <4> QED BY <4>2
      <3> QED BY <3>1, <3>2
    <2>3. flight = {} <=> owners = {}
      BY DEF IInv, FlightInv
    <2>4. \A c \in Callers : pc[c] = "waiting" => local[c].reason \in flight
      BY DEF IInv, CallInv
    <2>5. \A c \in owners : local[c].sawFlight = "no" => Throttled(c)
      BY DEF IInv, CallInv, Fetching, Throttled, ThrottledAt
    <2> QED BY <2>2, <2>3, <2>4, <2>5 DEF FetchesThrottled
  <1> QED BY <1>1, Invariance, PTL

\* A call of Authenticate starts at most one fetch, whatever happens between its two
\* resolutions (resolve, resolveAfterSignatureFailure).
THEOREM OneFetchPerCall == Spec => [](\A c \in Callers : local[c].fetches \in 0..1)
  <1>1. IInv => \A c \in Callers : local[c].fetches \in 0..1
    BY DEF IInv, FetchInv, CallInv, Locals
  <1> QED BY <1>1, Invariance, PTL

-----------------------------------------------------------------------------
(* Keys are used inside their freshness window *)

Answers == {"none", "accepted", "invalid", "unavailable", "canceled"}

\* The step takes a key for call w, or accepts its token, only if the set is fresh.
UsesFresh(w) ==
    pc[w] # "verify" /\ (pc'[w] = "verify" \/ Accepts(w)) =>
        keys # noKeys /\ local[w].now < freshUntil

Honest == outcome' \in [Callers -> Answers] /\ \A w \in Callers : UsesFresh(w)

LEMMA MoveHonest ==
    ASSUME IInv, outcome \in [Callers -> Answers], NEW c \in Callers, NEW l, NEW x,
           Goto(c, l, x), l = "verify" => freshAt(local[c].now),
           NEW a \in Answers, outcome' = [outcome EXCEPT ![c] = a],
           a = "accepted" => \/ pc[c] = "verify"
                             \/ outcome[c] = "accepted"
                             \/ freshAt(local[c].now)
    PROVE  Honest
  <1>1. pc' = [pc EXCEPT ![c] = l] /\ pc \in [Callers -> Labels]
    BY DEF Goto, IInv
  <1>2. outcome' \in [Callers -> Answers]
    OBVIOUS
  <1>3. ASSUME NEW w \in Callers PROVE UsesFresh(w)
    <2>1. CASE w = c
      BY <1>1, <2>1 DEF UsesFresh, Accepts, freshAt
    <2>2. CASE w # c
      BY <1>1, <2>2 DEF UsesFresh, Accepts
    <2> QED BY <2>1, <2>2
  <1> QED BY <1>2, <1>3 DEF Honest

LEMMA QuietHonest ==
    ASSUME IInv, outcome \in [Callers -> Answers], NEW c \in Callers, NEW l, NEW x,
           Goto(c, l, x), l = "verify" => freshAt(local[c].now), UNCHANGED outcome
    PROVE  Honest
  <1>1. outcome[c] \in Answers /\ outcome' = [outcome EXCEPT ![c] = outcome[c]]
    OBVIOUS
  <1> QED BY <1>1, MoveHonest

LEMMA ReturnHonest ==
    ASSUME IInv, outcome \in [Callers -> Answers], NEW c \in Callers, NEW a \in Answers,
           Return(c, a), a = "accepted" => pc[c] = "verify" \/ freshAt(local[c].now)
    PROVE  Honest
  BY MoveHonest DEF Return

\* The second verification accepts only under a fresh set.
LEMMA SecondHonest ==
    ASSUME NEW c \in Callers
    PROVE  secondAnswer(c) \in Answers
             /\ (secondAnswer(c) = "accepted" => freshAt(local[c].now))
  BY DEF secondAnswer, Answers

LEMMA StepHonest ==
    ASSUME IInv, outcome \in [Callers -> Answers], NEW c \in Callers, Step(c)
    PROVE  Honest
  <1>a. {"invalid", "unavailable", "canceled", "accepted", "none"} \subseteq Answers
    BY DEF Answers
  <1>1. CASE resolve(c)
    <2>1. \/ \E x : Goto(c, "verify", x) /\ freshAt(local[c].now) /\ UNCHANGED outcome
          \/ \E x : Goto(c, "refresh", x) /\ UNCHANGED outcome
          \/ Return(c, "invalid") \/ Return(c, "unavailable")
      BY <1>1, Zenon DEF resolve
    <2> QED BY <1>a, <2>1, QuietHonest, ReturnHonest
  <1>2. CASE resolved(c)
    <2>1. \/ \E x : Goto(c, "verify", x) /\ freshAt(local[c].now) /\ UNCHANGED outcome
          \/ \E x : Goto(c, "miss", x) /\ UNCHANGED outcome
          \/ Return(c, "invalid") \/ Return(c, "unavailable")
      BY <1>2, Zenon DEF resolved
    <2> QED BY <1>a, <2>1, QuietHonest, ReturnHonest
  <1>3. CASE miss(c)
    BY <1>3, <1>a, ReturnHonest DEF miss
  <1>4. CASE verify(c)
    <2>1. \/ Return(c, "accepted") /\ pc[c] = "verify"
          \/ \E x : Goto(c, "mismatch", x) /\ UNCHANGED outcome
      BY <1>4, Zenon DEF verify
    <2> QED BY <1>a, <2>1, QuietHonest, ReturnHonest
  <1>5. CASE resolveAfterSignatureFailure(c)
    <2>1. \/ Return(c, secondAnswer(c)) \/ Return(c, "invalid")
          \/ \E x : Goto(c, "refresh", x) /\ UNCHANGED outcome
      BY <1>5, Zenon DEF resolveAfterSignatureFailure
    <2> QED BY <1>a, <2>1, QuietHonest, ReturnHonest, SecondHonest
  <1>6. CASE resolvedAgain(c)
    <2>1. Return(c, secondAnswer(c)) \/ Return(c, "invalid") \/ Return(c, "unavailable")
      BY <1>6, Zenon DEF resolvedAgain
    <2> QED BY <1>a, <2>1, ReturnHonest, SecondHonest
  <1>7. CASE refresh(c)
    <2>1. \E l \in {"waiting", "refreshed", "fetching"} :
             \E x : Goto(c, l, x) /\ UNCHANGED outcome
      BY <1>7, Zenon DEF refresh, join, missed, start
    <2> QED BY <2>1, QuietHonest
  <1>8. CASE fetch(c)
    <2>1. \E x : Goto(c, "fetched", x) /\ UNCHANGED outcome
      BY <1>8, Zenon DEF fetch
    <2> QED BY <2>1, QuietHonest
  <1>9. CASE install(c)
    <2>1. /\ UNCHANGED outcome
          /\ pc' = [w \in Callers |-> IF w = c \/ w \in woken THEN "refreshed" ELSE pc[w]]
      BY <1>9 DEF install
    <2>2. \A w \in Callers : pc'[w] = "refreshed" \/ pc'[w] = pc[w]
      BY <2>1
    <2> QED BY <2>1, <2>2 DEF Honest, UsesFresh, Accepts
  <1>10. CASE afterRefresh(c)
    <2>1. \/ Return(c, "canceled")
          \/ \E l \in {"resolvedAgain", "resolved"} :
                \E x : Goto(c, l, x) /\ UNCHANGED outcome
      BY <1>10, Zenon DEF afterRefresh
    <2> QED BY <1>a, <2>1, QuietHonest, ReturnHonest
  <1> QED BY <1>1, <1>2, <1>3, <1>4, <1>5, <1>6, <1>7, <1>8, <1>9, <1>10 DEF Step

\* A key is used, or decides a token, only inside the freshness window of its set, at
\* the caller's last reading of the clock (resolve, resolveAfterSignatureFailure).
THEOREM KeysAreFresh == Spec => StaleKeysNeverUsed
  <1>1. Init => outcome \in [Callers -> Answers]
    BY DEF Init, Answers
  <1>2. ASSUME IInv, outcome \in [Callers -> Answers], [Next]_vars
        PROVE  Honest
    <2>1. CASE UNCHANGED vars \/ Tick \/ Rotate
      <3>1. UNCHANGED <<pc, outcome>>
        BY <2>1 DEF vars, Tick, Rotate
      <3> QED BY <1>2, <3>1 DEF Honest, UsesFresh, Accepts
    <2>2. ASSUME NEW c \in Callers, leave(c) PROVE Honest
      <3>1. Return(c, "canceled") /\ "canceled" \in Answers
        BY <2>2 DEF leave, Answers
      <3> QED BY <1>2, <3>1, ReturnHonest
    <2>3. ASSUME NEW c \in Callers, NEW token \in Tokens, Authenticate(c, token) PROVE Honest
      <3>1. /\ \E x : Goto(c, "resolve", x)
            /\ outcome' = [outcome EXCEPT ![c] = "none"] /\ "none" \in Answers
        BY <2>3, Zenon DEF Authenticate, Answers
      <3> QED BY <1>2, <3>1, MoveHonest
    <2> QED BY <1>2, <2>1, <2>2, <2>3, StepHonest DEF Next
  <1>3. IInv /\ outcome \in [Callers -> Answers] /\ [Next]_vars
          => (outcome \in [Callers -> Answers])'
    BY <1>2 DEF Honest
  <1>4. IInv /\ outcome \in [Callers -> Answers] /\ [Next]_vars
          => [\A c \in Callers :
                pc[c] # "verify" /\ (pc'[c] = "verify" \/ Accepts(c)) => keys # noKeys /\ local[c].now < freshUntil]_vars
    BY <1>2 DEF Honest, UsesFresh
  <1> QED BY <1>1, <1>3, <1>4, Invariance, PTL DEF Spec, StaleKeysNeverUsed

=============================================================================
