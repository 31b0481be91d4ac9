------------------------ MODULE EffectObservationProofs ------------------------
(***************************************************************************)
(* The observation of one effect (EffectObservation), for any number of    *)
(* observations, retries and plans, and whatever copies of budgets,        *)
(* permits and attempts are presented again.                               *)
(***************************************************************************)
EXTENDS EffectObservation, FiniteSetTheorems, TLAPS

-----------------------------------------------------------------------------
(* The inductive invariant *)

\* The snapshots form one line: each was made by leaving the one before it.
IsHead(b) == b.cell = Cardinality(budgets)

LineInv ==
    /\ IsFiniteSet(budgets)
    /\ \A b \in budgets : b.cell \in 1..Cardinality(budgets) /\ b.version = b.cell
    /\ \E b \in budgets : IsHead(b)
    /\ spentCells = 1..(Cardinality(budgets) - 1)
    /\ \/ decisions = {}
       \/ Cardinality(decisions) = 1 /\ \A b \in budgets : IsHead(b) => done(b)

\* Every reservation is counted, and a permit that may still be used or released
\* is the one the current snapshot waits for.
PermitInv ==
    /\ IsFiniteSet(permits)
    /\ \A p \in permits : p.version \in 1..Cardinality(budgets) /\ p.reservedAt <= now
    /\ \A p, q \in permits : p.version = q.version => p = q
    /\ \A b \in budgets : IsHead(b) =>
          /\ b.used = Cardinality(permits) /\ b.used <= maximum
          /\ \A p \in permits : Releasable(p) => b.stage = "inFlight" /\ b.version = p.version
          /\ b.stage = "inFlight" =>
                \E p \in permits : p.version = b.version /\ p.reservedAt = b.lastAt

\* A permit that was released or prepared has its release under way or its attempt,
\* until the snapshot that waits for it is left.
SlotInv ==
    /\ \A r \in releasing :
          /\ r.budget.stage = "inFlight" /\ r.releasedAt \in Nat
          /\ \E p \in permits : p.version = r.budget.version
                                /\ permitState[p.version] = "released"
    /\ \A b \in budgets : IsHead(b) /\ b.stage = "inFlight" =>
          /\ permitState[b.version] = "released" => \E r \in releasing : r.budget = b
          /\ permitState[b.version] = "prepared" =>
                \E a \in attempts : a.permit.version = b.version

\* The projection m captured under permit p was in doubt, and older than both the
\* reservation and the current one.
Captured(m, p) ==
    /\ p \in permits
    /\ m.state = "Indeterminate"
    /\ m.updatedAt <= p.reservedAt
    /\ m.updatedAt <= effect.updatedAt
    /\ m.planDigest <= effect.planDigest

AttemptInv ==
    /\ \A m \in admissions : Captured(m.target, m.permit)
    /\ \A a \in attempts :
          /\ Captured(a.target, a.permit)
          /\ permitState[a.permit.version] = "prepared"
          /\ a.resolvedAt <= now
          /\ Resolved(a.state) => a.resolvedAt >= a.permit.reservedAt
          /\ ~Resolved(a.state) =>
                \A b \in budgets : IsHead(b) => b.stage = "inFlight" /\ b.version = a.permit.version
    /\ \A a, c \in attempts : a.permit = c.permit => a = c

\* The projection in doubt is that of the last mutation attempt.
EffectInv ==
    /\ effect.planDigest <= plan
    /\ effect.updatedAt <= now
    /\ \/ effect.sourceAttemptID = <<"mutation", mutations>>
       \/ effect.sourceAttemptID[1] = "observation" /\ Definitive(effect.state)

IInv ==
    /\ TypeOK
    /\ LineInv
    /\ PermitInv
    /\ SlotInv
    /\ AttemptInv
    /\ EffectInv
    /\ ObservedTruthIsCurrent

-----------------------------------------------------------------------------
(* What a step does to the projection *)

\* The projection only moves forward.
Forward ==
    /\ now' \in 1..MaxTime /\ now <= now'
    /\ plan' \in 1..MaxPlans
    /\ mutations' \in 1..MaxAttempts
    /\ effect' \in EffectProjection
    /\ effect.planDigest <= effect'.planDigest
    /\ effect.updatedAt <= effect'.updatedAt
    /\ EffectInv'

LEMMA StateTyped ==
    ASSUME ConstantsTyped, TypeOK
    PROVE  /\ MaxTime \in Nat /\ MaxPlans \in Nat /\ MaxAttempts \in Nat /\ maximum \in Nat
           /\ now \in 1..MaxTime /\ plan \in 1..MaxPlans /\ mutations \in 1..MaxAttempts
           /\ effect \in EffectProjection
           /\ effect.planDigest \in 1..MaxPlans /\ effect.updatedAt \in Nat
           /\ effect.state \in AttemptState /\ effect.sourceAttemptID \in AttemptIDs
  BY DEF ConstantsTyped, TypeOK, EffectProjection

LEMMA Updated ==
    ASSUME NEW e \in EffectProjection, NEW s \in AttemptState, NEW t \in Nat
    PROVE  /\ [e EXCEPT !.state = s, !.updatedAt = t] \in EffectProjection
           /\ [e EXCEPT !.state = s, !.updatedAt = t].planDigest = e.planDigest
           /\ [e EXCEPT !.state = s, !.updatedAt = t].updatedAt = t
           /\ [e EXCEPT !.state = s, !.updatedAt = t].sourceAttemptID = e.sourceAttemptID
  BY DEF EffectProjection

LEMMA Stays ==
    ASSUME ConstantsTyped, TypeOK, EffectInv, UNCHANGED <<now, effect, plan, mutations>>
    PROVE  Forward
  BY StateTyped DEF Forward, EffectInv

\* Time, retries, the progress of a mutation attempt, and plans.
LEMMA OutsideStep ==
    ASSUME ConstantsTyped, TypeOK, EffectInv, ObservedTruthIsCurrent,
           Tick \/ Retry \/ (\E s \in AttemptState : AdvanceMutation(s)) \/ SelectPlan
    PROVE  Forward /\ UNCHANGED observationVars /\ ObservedTruthIsCurrent'
  <1>0. /\ MaxTime \in Nat /\ MaxPlans \in Nat /\ MaxAttempts \in Nat
        /\ now \in 1..MaxTime /\ plan \in 1..MaxPlans /\ mutations \in 1..MaxAttempts
        /\ effect \in EffectProjection
        /\ effect.planDigest \in 1..MaxPlans /\ effect.updatedAt \in Nat
        /\ effect.state \in AttemptState /\ effect.sourceAttemptID \in AttemptIDs
    BY StateTyped
  <1> DEFINE Goal == Forward /\ UNCHANGED observationVars /\ ObservedTruthIsCurrent'
  <1>1. CASE Tick
    <2>1. now' = now + 1 /\ now' \in 1..MaxTime /\ UNCHANGED <<effect, plan, mutations>>
            /\ UNCHANGED observationVars
      BY <1>0, <1>1 DEF Tick
    <2>2. Forward
      BY <1>0, <2>1 DEF Forward, EffectInv
    <2>3. ObservedTruthIsCurrent'
      BY <2>1 DEF ObservedTruthIsCurrent, observationVars
    <2> QED BY <2>1, <2>2, <2>3
  <1>2. CASE Retry
    <2>1. /\ mutations' = mutations + 1
          /\ effect' = [planDigest |-> plan, sourceAttemptID |-> <<"mutation", mutations + 1>>,
                        state |-> "Prepared", updatedAt |-> now]
          /\ UNCHANGED <<now, plan>> /\ UNCHANGED observationVars
          /\ mutations < MaxAttempts
      BY <1>2 DEF Retry
    <2>2. mutations' \in 1..MaxAttempts
      BY <1>0, <2>1
    <2>3. <<"mutation", mutations + 1>> \in AttemptIDs
      BY <1>0 DEF AttemptIDs
    <2>4. effect' \in EffectProjection
      BY <1>0, <2>1, <2>3 DEF EffectProjection, AttemptState
    <2>5. /\ effect'.planDigest = plan /\ effect'.updatedAt = now
          /\ effect'.sourceAttemptID = <<"mutation", mutations'>>
      BY <2>1
    <2>6. Forward
      BY <1>0, <2>1, <2>2, <2>4, <2>5 DEF Forward, EffectInv
    <2>7. ObservedTruthIsCurrent'
      BY <2>5 DEF ObservedTruthIsCurrent
    <2> QED BY <2>1, <2>6, <2>7
  <1>3. ASSUME NEW s \in AttemptState, AdvanceMutation(s) PROVE Goal
    <2>1. /\ effect.state \in {"Prepared", "Dispatched"}
          /\ effect' = [effect EXCEPT !.state = s, !.updatedAt = now]
          /\ UNCHANGED <<now, plan, mutations>> /\ UNCHANGED observationVars
      BY <1>3 DEF AdvanceMutation
    <2>2. /\ effect' \in EffectProjection
          /\ effect'.planDigest = effect.planDigest /\ effect'.updatedAt = now
          /\ effect'.sourceAttemptID = effect.sourceAttemptID
      <3>1. now \in Nat
        BY <1>0
      <3>2. effect \in EffectProjection
        BY <1>0
      <3> QED BY <2>1, <3>1, <3>2, Updated, ZenonT(30)
    <2>3. effect.sourceAttemptID = <<"mutation", mutations>>
      BY <2>1 DEF EffectInv, Definitive
    <2>4. Forward
      BY <1>0, <2>1, <2>2, <2>3 DEF Forward, EffectInv
    <2>5. ObservedTruthIsCurrent'
      BY <2>2, <2>3 DEF ObservedTruthIsCurrent
    <2> QED BY <2>1, <2>4, <2>5
  <1>4. CASE SelectPlan
    <2>1. plan' = plan + 1 /\ plan < MaxPlans /\ UNCHANGED <<now, effect, mutations>>
            /\ UNCHANGED observationVars
      BY <1>4 DEF SelectPlan
    <2>2. Forward
      BY <1>0, <2>1 DEF Forward, EffectInv
    <2>3. ObservedTruthIsCurrent'
      BY <2>1 DEF ObservedTruthIsCurrent, observationVars
    <2> QED BY <2>1, <2>2, <2>3
  <1> QED BY <1>1, <1>2, <1>3, <1>4

-----------------------------------------------------------------------------
(* The line of snapshots *)

\* The head b is left for c.
Grows(b, c) ==
    /\ b \in budgets /\ IsHead(b)
    /\ c \in ObservationBudget
    /\ c.cell = Cardinality(budgets) + 1 /\ c.version = c.cell
    /\ budgets' = budgets \cup {c}
    /\ IsFiniteSet(budgets') /\ Cardinality(budgets') = Cardinality(budgets) + 1
    /\ spentCells' = 1..Cardinality(budgets)

LEMMA LineTyped ==
    ASSUME TypeOK, LineInv
    PROVE  /\ Cardinality(budgets) \in Nat \ {0}
           /\ budgets \subseteq ObservationBudget
           /\ \A b, c \in budgets : b.cell = c.cell => b = c
           /\ \A b \in budgets : SwapCell(b) => IsHead(b)
  <1>1. Cardinality(budgets) \in Nat
    BY FS_CardinalityType DEF LineInv
  <1>2. \E b \in budgets : b.cell \in 1..Cardinality(budgets)
    BY DEF LineInv
  <1>3. \A b \in budgets : SwapCell(b) => IsHead(b)
    BY <1>1 DEF SwapCell, LineInv, IsHead
  <1> QED BY <1>1, <1>2, <1>3 DEF TypeOK

\* Only the head can be left, and the new snapshot is the head.
LEMMA AdvanceGrows ==
    ASSUME TypeOK, LineInv, NEW b \in budgets, SwapCell(b), NEW used \in Nat, NEW lastAt \in Nat,
           NEW stage \in {"idle", "inFlight", "resolved", "quarantined"},
           Advance(b, used, lastAt, stage)
    PROVE  \E c \in ObservationBudget :
               Grows(b, c) /\ c.used = used /\ c.lastAt = lastAt /\ c.stage = stage
  <1> DEFINE n == Cardinality(budgets)
             c == [used |-> used, lastAt |-> lastAt, version |-> b.version + 1,
                   cell |-> n + 1, stage |-> stage]
  <1>1. n \in Nat \ {0} /\ IsHead(b) /\ IsFiniteSet(budgets)
    BY LineTyped DEF LineInv
  <1>2. b.version = n /\ b.cell = n
    BY <1>1 DEF LineInv, IsHead
  <1>3. c \in ObservationBudget /\ c.cell = n + 1 /\ c.version = c.cell
          /\ c.used = used /\ c.lastAt = lastAt /\ c.stage = stage
    BY <1>1, <1>2 DEF ObservationBudget
  <1>4. budgets' = budgets \cup {c} /\ spentCells' = spentCells \cup {b.cell}
    BY DEF Advance, FreshCell
  <1>5. spentCells' = 1..n
    <2>1. spentCells = 1..(n - 1)
      BY DEF LineInv
    <2>2. 1..n = 1..(n - 1) \cup {n}
      BY <1>1
    <2> QED BY <1>2, <1>4, <2>1, <2>2
  <1>6. c \notin budgets
    BY <1>1, <1>3 DEF LineInv
  <1> HIDE DEF c
  <1>7. IsFiniteSet(budgets') /\ Cardinality(budgets') = n + 1
    BY <1>1, <1>4, <1>6, FS_AddElement
  <1> QED BY <1>1, <1>3, <1>4, <1>5, <1>7 DEF Grows

LEMMA HeadAfter ==
    ASSUME TypeOK, LineInv, NEW b, NEW c, Grows(b, c), NEW x \in budgets', x.cell = Cardinality(budgets')
    PROVE  x = c
  BY LineTyped DEF Grows, LineInv

LEMMA LineStep ==
    ASSUME TypeOK, LineInv, NEW b, NEW c, Grows(b, c), ~done(b),
           decisions' = decisions \/ (done(c) /\ \E d : decisions' = decisions \cup {d})
    PROVE  LineInv' /\ (\A x, y \in budgets' : x.cell = y.cell => x = y)
             /\ spentCells' \subseteq {x.cell : x \in budgets'}
             /\ budgets' \subseteq ObservationBudget
  <1> DEFINE n == Cardinality(budgets)
  <1>1. /\ n \in Nat \ {0} /\ budgets \subseteq ObservationBudget
        /\ \A x \in budgets : x.cell \in 1..n /\ x.version = x.cell
        /\ \A x, y \in budgets : x.cell = y.cell => x = y
    BY LineTyped DEF LineInv
  <1>2. /\ b \in budgets /\ b.cell = n
        /\ c \in ObservationBudget
        /\ c.cell = n + 1 /\ c.version = c.cell
        /\ budgets' = budgets \cup {c}
        /\ IsFiniteSet(budgets') /\ Cardinality(budgets') = n + 1
        /\ spentCells' = 1..n
    BY DEF Grows, IsHead
  <1>3. \A x \in budgets' : x.cell \in 1..(n + 1) /\ x.version = x.cell
    BY <1>1, <1>2
  <1>4. \A x, y \in budgets' : x.cell = y.cell => x = y
    BY <1>1, <1>2
  <1>5. decisions = {}
    BY <1>2 DEF LineInv, IsHead
  <1>6. \/ decisions' = {}
        \/ Cardinality(decisions') = 1 /\ done(c)
    <2>1. CASE decisions' = decisions
      BY <1>5, <2>1
    <2>2. ASSUME done(c), NEW d, decisions' = decisions \cup {d}
          PROVE  Cardinality(decisions') = 1
      <3>1. decisions' = {d}
        BY <1>5, <2>2
      <3> QED BY <3>1, FS_Singleton
    <2> QED BY <2>1, <2>2
  <1>7. \A x \in budgets' : IsHead(x)' => x = c
    BY HeadAfter DEF IsHead
  <1>8. LineInv'
    <2>1. c \in budgets' /\ IsHead(c)' /\ spentCells' = 1..(Cardinality(budgets') - 1)
      BY <1>1, <1>2 DEF IsHead
    <2>2. \A x \in budgets' : x.cell \in 1..Cardinality(budgets') /\ x.version = x.cell
      BY <1>2, <1>3
    <2>3. \/ decisions' = {}
          \/ Cardinality(decisions') = 1 /\ \A x \in budgets' : IsHead(x)' => done(x)
      BY <1>6, <1>7
    <2> QED BY <1>2, <2>1, <2>2, <2>3 DEF LineInv
  <1>9. spentCells' \subseteq {x.cell : x \in budgets'}
    <2>1. spentCells \subseteq {x.cell : x \in budgets} /\ spentCells = 1..(n - 1)
      BY DEF TypeOK, LineInv
    <2>2. 1..n = 1..(n - 1) \cup {n}
      BY <1>1
    <2> QED BY <1>2, <2>1, <2>2
  <1> QED BY <1>1, <1>2, <1>4, <1>8, <1>9

-----------------------------------------------------------------------------
(* What a step does to budgets, permits and attempts *)

\* The head moves on and holds no slot; nothing waited for one.
Closes(b, c) ==
    /\ Grows(b, c) /\ ~done(b)
    /\ c.stage # "inFlight" /\ c.used = b.used
    /\ decisions' = decisions \/ (done(c) /\ \E d : decisions' = decisions \cup {d})
    /\ \A p \in permits : ~Releasable(p)
    /\ \A a \in attempts : Resolved(a.state)
    /\ releasing' \subseteq releasing
    /\ UNCHANGED <<permits, permitState, admissions, attempts>>

\* The head takes a slot for a new permit.
Reserves(b, c, p) ==
    /\ Grows(b, c) /\ b.stage = "idle" /\ b.used < maximum
    /\ c.stage = "inFlight" /\ c.used = b.used + 1 /\ c.lastAt = now
    /\ p = [version |-> Cardinality(budgets) + 1, reservedAt |-> now]
    /\ permits' = permits \cup {p}
    /\ permitState' = [v \in DOMAIN permitState \cup {p.version} |->
                          IF v = p.version THEN "reserved" ELSE permitState[v]]
    /\ UNCHANGED <<releasing, admissions, attempts, decisions>>

\* A release finds that its budget has moved on.
Drops(r) ==
    /\ ~IsHead(r.budget)
    /\ releasing' = releasing \ {r}
    /\ UNCHANGED <<budgets, spentCells, permits, permitState, admissions, attempts, decisions>>

\* An attempt goes on.
Replaces(a, c) ==
    /\ ~Resolved(a.state)
    /\ c \in ObservationAttempt
    /\ c.permit = a.permit /\ c.target = a.target
    /\ c.resolvedAt <= now
    /\ Resolved(c.state) => c.resolvedAt = now
    /\ attempts' = (attempts \ {a}) \cup {c}
    /\ UNCHANGED <<budgets, spentCells, permits, permitState, releasing, admissions, decisions>>

StepKind ==
    \/ UNCHANGED observationVars
    \/ \E b, c \in ObservationBudget : Closes(b, c)
    \/ \E b, c \in ObservationBudget : \E p \in ObservationPermit : Reserves(b, c, p)
    \/ \E b \in budgets : \E p \in permits : ReleasePermit(b, p)
    \/ \E r \in releasing : Drops(r)
    \/ \E p \in permits : NewAttemptAdmission(p)
    \/ \E m \in admissions : NewPreparedAttempt(m)
    \/ \E a, c \in ObservationAttempt : a \in attempts /\ Replaces(a, c)

LEMMA ReserveCase ==
    ASSUME ConstantsTyped, IInv, NEW b \in budgets, ReserveObservation(b)
    PROVE  StepKind
  <1>1. now \in Nat /\ b \in ObservationBudget /\ b.used \in Nat /\ b.version \in Nat
    BY StateTyped, LineTyped DEF IInv, ObservationBudget
  <1>2. SwapCell(b) /\ Advance(b, b.used + 1, now, "inFlight") /\ b.used + 1 \in Nat
    BY <1>1 DEF ReserveObservation
  <1>3. PICK c \in ObservationBudget :
            Grows(b, c) /\ c.used = b.used + 1 /\ c.lastAt = now /\ c.stage = "inFlight"
    BY <1>1, <1>2, AdvanceGrows DEF IInv
  <1> DEFINE p == [version |-> Cardinality(budgets) + 1, reservedAt |-> now]
  <1>4. b.version = Cardinality(budgets)
    BY <1>3 DEF Grows, IsHead, IInv, LineInv
  <1>5. p \in ObservationPermit /\ p.version = b.version + 1
    BY <1>1, <1>4 DEF ObservationPermit
  <1>6. Reserves(b, c, p)
    <2>1. permits' = permits \cup {p}
      BY <1>4 DEF ReserveObservation
    <2>2. permitState' = [v \in DOMAIN permitState \cup {p.version} |->
                             IF v = p.version THEN "reserved" ELSE permitState[v]]
      BY <1>5 DEF ReserveObservation
    <2>3. b.stage = "idle" /\ b.used < maximum
            /\ UNCHANGED <<releasing, admissions, attempts, decisions>>
      BY DEF ReserveObservation
    <2> QED BY <1>3, <2>1, <2>2, <2>3 DEF Reserves
  <1> QED BY <1>1, <1>3, <1>5, <1>6 DEF StepKind

\* While its permit is spent or there is none, the head's slot is nobody's.
LEMMA Unclaimed ==
    ASSUME ConstantsTyped, IInv, NEW b \in budgets, IsHead(b),
           \/ b.stage # "inFlight"
           \/ \E r \in releasing : r.budget = b
           \/ \E a \in attempts : a.permit.version = b.version /\ Resolved(a.state)
    PROVE  /\ \A p \in permits : ~Releasable(p)
           /\ \A a \in attempts : Resolved(a.state)
  <1>1. CASE b.stage # "inFlight"
    BY <1>1 DEF IInv, PermitInv, AttemptInv
  <1>2. ASSUME NEW r \in releasing, r.budget = b
        PROVE  /\ \A p \in permits : ~Releasable(p)
               /\ \A a \in attempts : Resolved(a.state)
    <2>1. permitState[b.version] = "released"
      BY <1>2 DEF IInv, SlotInv
    <2>2. \A p \in permits : ~Releasable(p)
      BY <2>1 DEF IInv, PermitInv, Releasable
    <2>3. \A a \in attempts : Resolved(a.state)
      BY <2>1 DEF IInv, AttemptInv
    <2> QED BY <2>2, <2>3
  <1>3. ASSUME NEW a \in attempts, a.permit.version = b.version, Resolved(a.state)
        PROVE  /\ \A p \in permits : ~Releasable(p)
               /\ \A c \in attempts : Resolved(c.state)
    <2>1. permitState[b.version] = "prepared" /\ a.permit \in permits
      BY <1>3 DEF IInv, AttemptInv, Captured
    <2>2. \A p \in permits : ~Releasable(p)
      BY <2>1 DEF IInv, PermitInv, Releasable
    <2>3. ASSUME NEW c \in attempts, ~Resolved(c.state) PROVE FALSE
      <3>1. c.permit.version = b.version /\ c.permit \in permits
        BY <2>3 DEF IInv, AttemptInv, Captured
      <3>2. c.permit = a.permit
        BY <1>3, <2>1, <3>1 DEF IInv, PermitInv
      <3>3. c = a
        BY <3>2 DEF IInv, AttemptInv
      <3> QED BY <1>3, <2>3, <3>3
    <2> QED BY <2>2, <2>3
  <1> QED BY <1>1, <1>2, <1>3

LEMMA ReleaseCase ==
    ASSUME ConstantsTyped, IInv, NEW r \in releasing, ReleaseBudget(r)
    PROVE  StepKind
  <1>1. r.budget \in budgets /\ r.budget.stage = "inFlight" /\ r.releasedAt \in Nat
          /\ budgets \subseteq ObservationBudget
    BY LineTyped DEF IInv, TypeOK, SlotInv
  <1>2. releasing' = releasing \ {r}
          /\ UNCHANGED <<permits, permitState, admissions, attempts, decisions>>
    BY DEF ReleaseBudget
  <1>3. CASE SwapCell(r.budget)
    <2>1. IsHead(r.budget) /\ r.budget.used \in Nat
      BY <1>1, <1>3, LineTyped DEF IInv, ObservationBudget
    <2>2. Advance(r.budget, r.budget.used, r.releasedAt, "idle")
      BY <1>3 DEF ReleaseBudget
    <2>3. PICK c \in ObservationBudget :
              Grows(r.budget, c) /\ c.used = r.budget.used /\ c.stage = "idle"
      BY <1>1, <1>3, <2>1, <2>2, AdvanceGrows DEF IInv
    <2>4. /\ \A p \in permits : ~Releasable(p)
          /\ \A a \in attempts : Resolved(a.state)
      BY <1>1, <2>1, Unclaimed
    <2>5. Closes(r.budget, c)
      BY <1>1, <1>2, <2>3, <2>4 DEF Closes, done
    <2> QED BY <1>1, <2>5 DEF StepKind
  <1>4. CASE ~SwapCell(r.budget)
    <2>1. UNCHANGED <<budgets, spentCells>>
      BY <1>4 DEF ReleaseBudget
    <2>2. r.budget.cell \in 1..(Cardinality(budgets) - 1) /\ Cardinality(budgets) \in Nat
      BY <1>4, LineTyped DEF IInv, LineInv, SwapCell
    <2>3. ~IsHead(r.budget)
      BY <2>2 DEF IsHead
    <2>4. Drops(r)
      BY <1>2, <2>1, <2>3 DEF Drops
    <2> QED BY <2>4 DEF StepKind
  <1> QED BY <1>3, <1>4

LEMMA ExpireCase ==
    ASSUME ConstantsTyped, IInv, NEW b \in budgets, ExpireObservationBudget(b)
    PROVE  StepKind
  <1>1. now \in Nat /\ b \in ObservationBudget /\ b.used \in Nat
    BY StateTyped, LineTyped DEF IInv, ObservationBudget
  <1>2. /\ b.stage = "idle" /\ SwapCell(b)
        /\ Advance(b, b.used, now, "quarantined")
        /\ decisions' = decisions \cup {<<b.cell, "quarantine">>}
        /\ UNCHANGED <<permits, permitState, releasing, admissions, attempts>>
    BY DEF ExpireObservationBudget
  <1>3. IsHead(b)
    BY <1>2, LineTyped DEF IInv
  <1>4. PICK c \in ObservationBudget : Grows(b, c) /\ c.used = b.used /\ c.stage = "quarantined"
    BY <1>1, <1>2, AdvanceGrows DEF IInv
  <1>5. /\ \A p \in permits : ~Releasable(p)
        /\ \A a \in attempts : Resolved(a.state)
    BY <1>2, <1>3, Unclaimed
  <1>6. Closes(b, c)
    BY <1>2, <1>4, <1>5 DEF Closes, done
  <1> QED BY <1>1, <1>6 DEF StepKind

LEMMA CompleteCase ==
    ASSUME ConstantsTyped, IInv, NEW b \in budgets, NEW a \in attempts, CompleteObservation(b, a)
    PROVE  StepKind
  <1> DEFINE at == maxOf(a.resolvedAt, effect.updatedAt)
  <1>1. b \in ObservationBudget /\ b.used \in Nat /\ effect.updatedAt \in Nat
          /\ a.resolvedAt \in Nat
    BY StateTyped, LineTyped DEF IInv, ObservationBudget, TypeOK, ObservationAttempt
  <1>2. at \in Nat
    BY <1>1 DEF maxOf
  <1>3. /\ b.stage = "inFlight" /\ SwapCell(b)
        /\ a.permit.version = b.version /\ Resolved(a.state)
        /\ UNCHANGED <<permits, permitState, releasing, admissions, attempts>>
    BY DEF CompleteObservation, Completable
  <1>4. IsHead(b)
    BY <1>3, LineTyped DEF IInv
  <1>5. \E stage \in {"idle", "resolved", "quarantined"} :
            /\ Advance(b, b.used, at, stage)
            /\ \/ decisions' = decisions
               \/ stage # "idle" /\ \E d : decisions' = decisions \cup {d}
    BY DEF CompleteObservation
  <1> HIDE DEF at
  <1>6. PICK stage \in {"idle", "resolved", "quarantined"} :
            /\ Advance(b, b.used, at, stage)
            /\ \/ decisions' = decisions
               \/ stage # "idle" /\ \E d : decisions' = decisions \cup {d}
    BY <1>5
  <1>7. PICK c \in ObservationBudget : Grows(b, c) /\ c.used = b.used /\ c.stage = stage
    BY <1>1, <1>2, <1>3, <1>6, AdvanceGrows DEF IInv
  <1>8. /\ \A p \in permits : ~Releasable(p)
        /\ \A x \in attempts : Resolved(x.state)
    BY <1>3, <1>4, Unclaimed
  <1>9. Closes(b, c)
    BY <1>3, <1>6, <1>7, <1>8 DEF Closes, done
  <1> QED BY <1>1, <1>9 DEF StepKind

LEMMA ReplaceCase ==
    ASSUME ConstantsTyped, IInv, NEW a \in attempts,
           \/ MarkAttemptDispatched(a)
           \/ \E s \in AttemptState : ResolveAttempt(a, s) \/ RecoverAttempt(a, s)
    PROVE  /\ \E c \in ObservationAttempt : Replaces(a, c)
           /\ UNCHANGED <<now, effect, plan, mutations>>
  <1>1. now \in Nat /\ a \in ObservationAttempt
    BY StateTyped DEF IInv, TypeOK
  <1>2. CASE MarkAttemptDispatched(a)
    <2> DEFINE c == [a EXCEPT !.state = "Dispatched", !.dispatchedAt = now]
    <2>1. a.state = "Prepared" /\ ReplaceAttempt(a, c)
      BY <1>2 DEF MarkAttemptDispatched
    <2>2. /\ c \in ObservationAttempt /\ c.permit = a.permit /\ c.target = a.target
          /\ c.state = "Dispatched" /\ c.resolvedAt = a.resolvedAt
      BY <1>1 DEF ObservationAttempt, AttemptState
    <2>3. a.resolvedAt <= now
      BY DEF IInv, AttemptInv
    <2> HIDE DEF c
    <2>4. Replaces(a, c)
      BY <2>1, <2>2, <2>3 DEF Replaces, ReplaceAttempt, Resolved
    <2> QED BY <2>1, <2>2, <2>4 DEF ReplaceAttempt
  <1>3. ASSUME NEW s \in AttemptState, ResolveAttempt(a, s) \/ RecoverAttempt(a, s)
        PROVE  /\ \E c \in ObservationAttempt : Replaces(a, c)
               /\ UNCHANGED <<now, effect, plan, mutations>>
    <2> DEFINE c == [a EXCEPT !.state = s, !.resolvedAt = now]
    <2>1. a.state \in {"Prepared", "Dispatched"} /\ ReplaceAttempt(a, c)
      BY <1>3 DEF ResolveAttempt, RecoverAttempt
    <2>2. /\ c \in ObservationAttempt /\ c.permit = a.permit /\ c.target = a.target
          /\ c.resolvedAt = now
      BY <1>1 DEF ObservationAttempt
    <2> HIDE DEF c
    <2>4. Replaces(a, c)
      BY <1>1, <2>1, <2>2 DEF Replaces, ReplaceAttempt, Resolved
    <2> QED BY <2>1, <2>2, <2>4 DEF ReplaceAttempt
  <1> QED BY <1>2, <1>3

\* The truth an observation found was about the last mutation attempt.
LEMMA TruthStays ==
    ASSUME ObservedTruthIsCurrent, UNCHANGED <<effect, mutations>>,
           \A a \in attempts : \E c \in attempts' : c.permit = a.permit /\ c.target = a.target
    PROVE  ObservedTruthIsCurrent'
  BY DEF ObservedTruthIsCurrent

LEMMA DecideForward ==
    ASSUME ConstantsTyped, IInv, NEW b \in budgets, NEW a \in attempts, CompleteObservation(b, a)
    PROVE  Forward /\ ObservedTruthIsCurrent'
  <1>0. /\ now \in 1..MaxTime /\ plan \in 1..MaxPlans /\ mutations \in 1..MaxAttempts
        /\ MaxTime \in Nat /\ MaxPlans \in Nat /\ MaxAttempts \in Nat
        /\ effect \in EffectProjection
        /\ effect.planDigest \in 1..MaxPlans /\ effect.updatedAt \in Nat
    BY StateTyped DEF IInv
  <1>1. UNCHANGED <<now, plan, mutations, attempts>>
    BY DEF CompleteObservation
  <1>2. CASE effect' = effect
    <2>1. Forward
      BY <1>1, <1>2, Stays DEF IInv
    <2>2. ObservedTruthIsCurrent'
      BY <1>1, <1>2, TruthStays DEF IInv
    <2> QED BY <2>1, <2>2
  <1>3. ASSUME Decides(a),
               effect' = [effect EXCEPT !.state = a.state, !.updatedAt = a.resolvedAt,
                              !.sourceAttemptID = <<"observation", a.permit.version>>]
        PROVE  Forward /\ ObservedTruthIsCurrent'
    <2>1. a \in ObservationAttempt /\ a.permit \in ObservationPermit
            /\ a.permit.version \in Nat /\ a.resolvedAt \in Nat /\ a.state \in AttemptState
            /\ a.permit.reservedAt \in Nat
      BY DEF IInv, TypeOK, ObservationAttempt, ObservationPermit
    <2>2. <<"observation", a.permit.version>> \in AttemptIDs
      BY <2>1 DEF AttemptIDs
    <2>3. /\ effect' \in EffectProjection
          /\ effect'.planDigest = effect.planDigest
          /\ effect'.updatedAt = a.resolvedAt
          /\ effect'.state = a.state
          /\ effect'.sourceAttemptID = <<"observation", a.permit.version>>
      <3> DEFINE i == <<"observation", a.permit.version>>
      <3>1. i \in AttemptIDs
        BY <2>2
      <3>2. effect' = [effect EXCEPT !.state = a.state, !.updatedAt = a.resolvedAt,
                           !.sourceAttemptID = i]
        BY <1>3
      <3> HIDE DEF i
      <3> DEFINE s == a.state
                 t == a.resolvedAt
      <3>3. s \in AttemptState /\ t \in Nat
        BY <2>1
      <3>4. effect' = [effect EXCEPT !.state = s, !.updatedAt = t, !.sourceAttemptID = i]
        BY <3>2
      <3> HIDE DEF s, t
      <3>5. /\ effect' \in EffectProjection
            /\ effect'.planDigest = effect.planDigest
            /\ effect'.updatedAt = t
            /\ effect'.state = s
            /\ effect'.sourceAttemptID = i
        BY <1>0, <3>1, <3>3, <3>4 DEF EffectProjection
      <3> QED BY <3>5 DEF i, s, t
    <2>4. /\ effect.updatedAt = a.target.updatedAt
          /\ effect.state = a.target.state
          /\ effect.sourceAttemptID = a.target.sourceAttemptID
          /\ Definitive(a.state)
      BY <1>3 DEF Decides, effectProjectionsEqual
    <2>5. a.target.updatedAt <= a.permit.reservedAt /\ a.target.state = "Indeterminate"
      BY DEF IInv, AttemptInv, Captured
    <2>6. a.resolvedAt >= a.permit.reservedAt /\ a.resolvedAt <= now
      BY <2>4 DEF IInv, AttemptInv, Resolved, Definitive
    <2>7. effect.updatedAt <= effect'.updatedAt /\ effect'.updatedAt <= now
      BY <1>0, <2>1, <2>3, <2>4, <2>5, <2>6
    <2>8. a.target.sourceAttemptID = <<"mutation", mutations>>
      BY <2>4, <2>5 DEF IInv, EffectInv, Definitive
    <2>9. EffectInv'
      BY <1>1, <2>3, <2>4, <2>7 DEF IInv, EffectInv, Definitive
    <2>10. Forward
      BY <1>0, <1>1, <2>3, <2>7, <2>9 DEF Forward
    <2>11. ObservedTruthIsCurrent'
      BY <1>1, <2>3, <2>8 DEF ObservedTruthIsCurrent
    <2> QED BY <2>10, <2>11
  <1> QED BY <1>2, <1>3 DEF CompleteObservation

LEMMA StepCases ==
    ASSUME ConstantsTyped, IInv, [Next]_vars
    PROVE  StepKind /\ Forward /\ ObservedTruthIsCurrent'
  <1> DEFINE Goal == StepKind /\ Forward /\ ObservedTruthIsCurrent'
  <1>1. CASE UNCHANGED vars
    <2>1. UNCHANGED <<now, effect, plan, mutations, attempts>> /\ UNCHANGED observationVars
      BY <1>1 DEF vars, observationVars
    <2> QED BY <2>1, Stays, TruthStays DEF StepKind, IInv
  <1>2. ASSUME Tick \/ Retry \/ (\E s \in AttemptState : AdvanceMutation(s)) \/ SelectPlan
        PROVE  Goal
    BY <1>2, OutsideStep DEF StepKind, IInv
  <1>3. ASSUME UNCHANGED <<now, effect, plan, mutations>>, attempts \subseteq attempts'
        PROVE  Forward /\ ObservedTruthIsCurrent'
    BY <1>3, Stays, TruthStays DEF IInv
  <1>4. ASSUME NEW b \in budgets, ReserveObservation(b) PROVE Goal
    <2>1. UNCHANGED <<now, effect, plan, mutations, attempts>>
      BY <1>4 DEF ReserveObservation
    <2> QED BY <1>3, <1>4, <2>1, ReserveCase
  <1>5. ASSUME NEW b \in budgets, NEW p \in permits, ReleasePermit(b, p) PROVE Goal
    <2>1. UNCHANGED <<now, effect, plan, mutations, attempts>>
      BY <1>5 DEF ReleasePermit
    <2> QED BY <1>3, <1>5, <2>1 DEF StepKind
  <1>6. ASSUME NEW b \in budgets, NEW a \in attempts, CompleteObservation(b, a) PROVE Goal
    BY <1>6, CompleteCase, DecideForward
  <1>7. ASSUME NEW b \in budgets, ExpireObservationBudget(b) PROVE Goal
    <2>1. UNCHANGED <<now, effect, plan, mutations, attempts>>
      BY <1>7 DEF ExpireObservationBudget
    <2> QED BY <1>3, <1>7, <2>1, ExpireCase
  <1>8. ASSUME NEW r \in releasing, ReleaseBudget(r) PROVE Goal
    <2>1. UNCHANGED <<now, effect, plan, mutations, attempts>>
      BY <1>8 DEF ReleaseBudget
    <2> QED BY <1>3, <1>8, <2>1, ReleaseCase
  <1>9. ASSUME NEW p \in permits, NewAttemptAdmission(p) PROVE Goal
    <2>1. UNCHANGED <<now, effect, plan, mutations, attempts>>
      BY <1>9 DEF NewAttemptAdmission
    <2> QED BY <1>3, <1>9, <2>1 DEF StepKind
  <1>10. ASSUME NEW m \in admissions, NewPreparedAttempt(m) PROVE Goal
    <2>1. UNCHANGED <<now, effect, plan, mutations>> /\ attempts \subseteq attempts'
      BY <1>10 DEF NewPreparedAttempt
    <2> QED BY <1>3, <1>10, <2>1 DEF StepKind
  <1>11. ASSUME NEW a \in attempts,
                \/ MarkAttemptDispatched(a)
                \/ \E s \in AttemptState : ResolveAttempt(a, s) \/ RecoverAttempt(a, s)
         PROVE  Goal
    <2>1. PICK c \in ObservationAttempt : Replaces(a, c)
      BY <1>11, ReplaceCase
    <2>2. UNCHANGED <<now, effect, plan, mutations>> /\ a \in ObservationAttempt
      BY <1>11, ReplaceCase DEF IInv, TypeOK
    <2>3. \A x \in attempts : \E y \in attempts' : y.permit = x.permit /\ y.target = x.target
      BY <2>1 DEF Replaces
    <2> QED BY <2>1, <2>2, <2>3, Stays, TruthStays DEF StepKind, IInv
  <1> QED BY <1>1, <1>2, <1>4, <1>5, <1>6, <1>7, <1>8, <1>9, <1>10, <1>11 DEF Next

-----------------------------------------------------------------------------
(* The steps keep the invariant *)

ObservationTypes ==
    /\ budgets \subseteq ObservationBudget
    /\ spentCells \subseteq {b.cell : b \in budgets}
    /\ \A b, c \in budgets : b.cell = c.cell => b = c
    /\ permits \subseteq ObservationPermit
    /\ permitState \in [{p.version : p \in permits} ->
                           {"reserved", "admitted", "prepared", "released"}]
    /\ \A r \in releasing : r.budget \in budgets
    /\ admissions \subseteq Admission
    /\ attempts \subseteq ObservationAttempt

Observations == ObservationTypes /\ LineInv /\ PermitInv /\ SlotInv /\ AttemptInv

LEMMA Typed ==
    ASSUME ConstantsTyped, IInv
    PROVE  /\ ObservationTypes
           /\ now \in Nat
           /\ \A p \in permits : p.version \in Nat /\ p.reservedAt \in Nat
                                 /\ p.version \in DOMAIN permitState
           /\ \A a \in attempts : a.resolvedAt \in Nat /\ a.target \in EffectProjection
                                  /\ a.permit \in permits
           /\ \A m \in admissions : m.target \in EffectProjection /\ m.permit \in permits
  <1>1. ObservationTypes
    BY DEF IInv, TypeOK, ObservationTypes
  <1>2. now \in Nat
    BY StateTyped DEF IInv
  <1>3. \A p \in permits : p.version \in Nat /\ p.reservedAt \in Nat
    BY <1>1 DEF ObservationTypes, ObservationPermit
  <1>4. \A a \in attempts : a.resolvedAt \in Nat /\ a.target \in EffectProjection
                            /\ a.permit \in permits
    BY <1>1 DEF ObservationTypes, ObservationAttempt, IInv, AttemptInv, Captured
  <1>5. \A m \in admissions : m.target \in EffectProjection /\ m.permit \in permits
    BY <1>1 DEF ObservationTypes, Admission, IInv, AttemptInv, Captured
  <1>6. \A p \in permits : p.version \in DOMAIN permitState
    BY <1>1 DEF ObservationTypes
  <1> QED BY <1>1, <1>2, <1>3, <1>4, <1>5, <1>6

\* What was captured stays older than the projection.
LEMMA CapturedStays ==
    ASSUME ConstantsTyped, IInv, Forward, permits \subseteq permits',
           NEW m \in EffectProjection, NEW p \in permits, Captured(m, p)
    PROVE  Captured(m, p)'
  <1>1. /\ m.updatedAt \in Nat /\ m.planDigest \in 1..MaxPlans
        /\ effect.updatedAt \in Nat /\ effect.planDigest \in 1..MaxPlans
        /\ effect'.updatedAt \in Nat /\ effect'.planDigest \in 1..MaxPlans
        /\ MaxPlans \in Nat
    BY StateTyped DEF EffectProjection, Forward, IInv
  <1> QED BY <1>1 DEF Captured, Forward

\* What the admissions and attempts captured stays captured.
LEMMA AllCapturedStay ==
    ASSUME ConstantsTyped, IInv, Forward, permits \subseteq permits'
    PROVE  /\ \A m \in admissions : Captured(m.target, m.permit)'
           /\ \A a \in attempts : Captured(a.target, a.permit)' /\ a.resolvedAt <= now'
  <1>1. /\ \A a \in attempts : /\ a.resolvedAt \in Nat /\ a.target \in EffectProjection
                               /\ a.permit \in permits
        /\ \A m \in admissions : m.target \in EffectProjection /\ m.permit \in permits
        /\ now \in Nat /\ now' \in Nat /\ now <= now'
    BY Typed DEF Forward
  <1>2. /\ \A m \in admissions : Captured(m.target, m.permit)
        /\ \A a \in attempts : Captured(a.target, a.permit) /\ a.resolvedAt <= now
    BY DEF IInv, AttemptInv
  <1>3. ASSUME NEW m \in admissions PROVE Captured(m.target, m.permit)'
    BY <1>1, <1>2, CapturedStays
  <1>4. ASSUME NEW a \in attempts PROVE Captured(a.target, a.permit)'
    BY <1>1, <1>2, CapturedStays
  <1>5. ASSUME NEW a \in attempts PROVE a.resolvedAt <= now'
    BY <1>1, <1>2
  <1> QED BY <1>3, <1>4, <1>5

\* A step that reserves nothing, and makes no permit releasable, leaves the permits
\* accounted for.
LEMMA PermitsStay ==
    ASSUME ConstantsTyped, IInv, Forward, UNCHANGED <<budgets, permits>>,
           \A q \in permits : Releasable(q)' => Releasable(q)
    PROVE  PermitInv'
  <1>1. ASSUME NEW q \in permits
        PROVE  q.version \in 1..Cardinality(budgets) /\ q.reservedAt <= now'
    <2>1. q.reservedAt \in Nat /\ now \in Nat /\ now' \in Nat /\ now <= now'
      BY Typed DEF Forward
    <2>2. q.version \in 1..Cardinality(budgets) /\ q.reservedAt <= now
      BY DEF IInv, PermitInv
    <2> QED BY <2>1, <2>2
  <1>2. \A b \in budgets : IsHead(b)' <=> IsHead(b)
    BY DEF IsHead
  <1>3. /\ IsFiniteSet(permits)
        /\ \A p, q \in permits : p.version = q.version => p = q
        /\ \A b \in budgets : IsHead(b) =>
              /\ b.used = Cardinality(permits) /\ b.used <= maximum
              /\ \A q \in permits : Releasable(q) => b.stage = "inFlight" /\ b.version = q.version
              /\ b.stage = "inFlight" =>
                    \E q \in permits : q.version = b.version /\ q.reservedAt = b.lastAt
    BY DEF IInv, PermitInv
  <1>4. ASSUME NEW b \in budgets, IsHead(b)', NEW q \in permits, Releasable(q)'
        PROVE  b.stage = "inFlight" /\ b.version = q.version
    BY <1>2, <1>3, <1>4, Zenon
  <1>5. \A b \in budgets : IsHead(b)' =>
              /\ b.used = Cardinality(permits) /\ b.used <= maximum
              /\ b.stage = "inFlight" =>
                    \E q \in permits : q.version = b.version /\ q.reservedAt = b.lastAt
    BY <1>2, <1>3, Zenon
  <1> QED BY <1>1, <1>3, <1>4, <1>5 DEF PermitInv

\* Nothing of the observations changes.
LEMMA IdleStep ==
    ASSUME ConstantsTyped, IInv, Forward, UNCHANGED observationVars
    PROVE  Observations'
  <1>0. UNCHANGED <<budgets, spentCells, permits, permitState, releasing, admissions, attempts,
                    decisions>>
    BY DEF observationVars
  <1>a. /\ ObservationTypes
        /\ now \in Nat /\ now' \in Nat /\ now <= now'
        /\ \A p \in permits : p.reservedAt \in Nat
        /\ \A a \in attempts : a.resolvedAt \in Nat /\ a.target \in EffectProjection
                               /\ a.permit \in permits
        /\ \A m \in admissions : m.target \in EffectProjection /\ m.permit \in permits
    BY Typed DEF Forward
  <1>1. ObservationTypes'
    BY <1>0, <1>a DEF ObservationTypes
  <1>2. LineInv' /\ SlotInv'
    BY <1>0 DEF IInv, LineInv, SlotInv, IsHead, done
  <1>3. PermitInv'
    BY <1>0, PermitsStay DEF Releasable
  <1>4. /\ \A m \in admissions : Captured(m.target, m.permit)'
        /\ \A a \in attempts : Captured(a.target, a.permit)' /\ a.resolvedAt <= now'
    BY <1>0, AllCapturedStay
  <1>5. AttemptInv'
    BY <1>0, <1>4 DEF IInv, AttemptInv, IsHead, Resolved
  <1> QED BY <1>1, <1>2, <1>3, <1>5 DEF Observations

\* The head moves on without a slot.
LEMMA CloseStep ==
    ASSUME ConstantsTyped, IInv, Forward, NEW b, NEW c, Closes(b, c)
    PROVE  Observations'
  <1>0. /\ Grows(b, c) /\ ~done(b) /\ c.stage # "inFlight" /\ c.used = b.used
        /\ decisions' = decisions \/ (done(c) /\ \E d : decisions' = decisions \cup {d})
        /\ \A p \in permits : ~Releasable(p)
        /\ \A a \in attempts : Resolved(a.state)
        /\ releasing' \subseteq releasing
        /\ UNCHANGED <<permits, permitState, admissions, attempts>>
    BY DEF Closes
  <1>a. /\ ObservationTypes
        /\ now \in Nat /\ now' \in Nat /\ now <= now'
        /\ \A p \in permits : p.reservedAt \in Nat
        /\ \A a \in attempts : a.resolvedAt \in Nat /\ a.target \in EffectProjection
                               /\ a.permit \in permits
        /\ \A m \in admissions : m.target \in EffectProjection /\ m.permit \in permits
    BY Typed DEF Forward
  <1>b. LineInv' /\ (\A x, y \in budgets' : x.cell = y.cell => x = y)
          /\ spentCells' \subseteq {x.cell : x \in budgets'}
          /\ budgets' \subseteq ObservationBudget
    BY <1>0, LineStep DEF IInv
  <1>c. \A x \in budgets' : IsHead(x)' => x = c
    BY <1>0, HeadAfter DEF IInv, IsHead
  <1>d. Cardinality(budgets) \in Nat /\ Cardinality(budgets') = Cardinality(budgets) + 1
          /\ b \in budgets /\ IsHead(b) /\ budgets \subseteq budgets'
    BY <1>0, LineTyped DEF Grows, IInv
  <1>1. ObservationTypes'
    BY <1>0, <1>a, <1>b, <1>d DEF ObservationTypes
  <1>2. PermitInv'
    <2>1. \A p \in permits : p.version \in 1..Cardinality(budgets') /\ p.reservedAt <= now'
      BY <1>a, <1>d DEF IInv, PermitInv
    <2>2. c.used = Cardinality(permits) /\ c.used <= maximum
      BY <1>0, <1>d DEF IInv, PermitInv
    <2>3. \A p \in permits' : ~Releasable(p)'
      BY <1>0 DEF Releasable
    <2>4. IsFiniteSet(permits) /\ \A p, q \in permits : p.version = q.version => p = q
      BY DEF IInv, PermitInv
    <2> QED BY <1>0, <1>c, <2>1, <2>2, <2>3, <2>4 DEF PermitInv
  <1>3. SlotInv'
    BY <1>0, <1>c DEF IInv, SlotInv
  <1>4. /\ \A m \in admissions : Captured(m.target, m.permit)'
        /\ \A a \in attempts : Captured(a.target, a.permit)' /\ a.resolvedAt <= now'
    BY <1>0, AllCapturedStay
  <1>5. AttemptInv'
    BY <1>0, <1>4 DEF IInv, AttemptInv, Resolved
  <1> QED BY <1>1, <1>b, <1>2, <1>3, <1>5 DEF Observations

\* A new permit takes the slot.
LEMMA ReserveStep ==
    ASSUME ConstantsTyped, IInv, Forward, NEW b, NEW c, NEW p \in ObservationPermit,
           Reserves(b, c, p)
    PROVE  Observations'
  <1> DEFINE n == Cardinality(budgets)
  <1>0. /\ Grows(b, c) /\ b.stage = "idle" /\ b.used < maximum
        /\ c.stage = "inFlight" /\ c.used = b.used + 1 /\ c.lastAt = now
        /\ p.version = n + 1 /\ p.reservedAt = now
        /\ permits' = permits \cup {p}
        /\ permitState' = [v \in DOMAIN permitState \cup {p.version} |->
                              IF v = p.version THEN "reserved" ELSE permitState[v]]
        /\ UNCHANGED <<releasing, admissions, attempts, decisions>>
    BY DEF Reserves
  <1>a. /\ ObservationTypes
        /\ now \in Nat /\ now' \in Nat /\ now <= now'
        /\ \A q \in permits : q.reservedAt \in Nat /\ q.version \in DOMAIN permitState
        /\ \A a \in attempts : a.resolvedAt \in Nat /\ a.target \in EffectProjection
                               /\ a.permit \in permits
        /\ \A m \in admissions : m.target \in EffectProjection /\ m.permit \in permits
    BY Typed DEF Forward
  <1>b. LineInv' /\ (\A x, y \in budgets' : x.cell = y.cell => x = y)
          /\ spentCells' \subseteq {x.cell : x \in budgets'}
          /\ budgets' \subseteq ObservationBudget
    BY <1>0, LineStep DEF IInv, done
  <1>c. \A x \in budgets' : IsHead(x)' => x = c
    BY <1>0, HeadAfter DEF IInv, IsHead
  <1>d. n \in Nat /\ Cardinality(budgets') = n + 1 /\ c.version = n + 1
          /\ b \in budgets /\ IsHead(b) /\ budgets \subseteq budgets'
    BY <1>0, LineTyped DEF Grows, IInv
  <1>e. \A q \in permits : q.version \in 1..n /\ q.version # p.version
                           /\ permitState'[q.version] = permitState[q.version]
    <2>1. ASSUME NEW q \in permits PROVE q.version \in 1..n /\ q.version # p.version
      <3>1. q.version \in 1..n
        BY DEF IInv, PermitInv
      <3> QED BY <1>0, <1>d, <3>1
    <2> QED BY <1>0, <1>a, <2>1
  <1>f. permitState'[p.version] = "reserved"
    BY <1>0
  <1>1. ObservationTypes'
    <2>1. DOMAIN permitState = {q.version : q \in permits}
            /\ \A v \in DOMAIN permitState :
                  permitState[v] \in {"reserved", "admitted", "prepared", "released"}
      BY <1>a DEF ObservationTypes
    <2>2. {q.version : q \in permits'} = DOMAIN permitState \cup {p.version}
      BY <1>0, <2>1
    <2>3. permitState' \in [{q.version : q \in permits'} ->
                               {"reserved", "admitted", "prepared", "released"}]
      BY <1>0, <2>1, <2>2
    <2> QED BY <1>0, <1>a, <1>b, <1>d, <2>3 DEF ObservationTypes
  <1>2. PermitInv'
    <2>1. \A q \in permits' : q.version \in 1..Cardinality(budgets') /\ q.reservedAt <= now'
      <3>1. ASSUME NEW q \in permits PROVE q.version \in 1..(n + 1) /\ q.reservedAt <= now'
        <4>1. q.reservedAt <= now
          BY DEF IInv, PermitInv
        <4> QED BY <1>a, <1>d, <1>e, <4>1
      <3>2. p.version \in 1..(n + 1) /\ p.reservedAt <= now'
        <4>1. p.version = n + 1 /\ p.reservedAt = now
          BY <1>0
        <4>2. n \in Nat /\ now <= now'
          BY <1>a, <1>d
        <4> QED BY <4>1, <4>2
      <3> QED BY <1>0, <1>d, <3>1, <3>2
    <2>2. IsFiniteSet(permits) /\ p \notin permits
      BY <1>e DEF IInv, PermitInv
    <2>3. IsFiniteSet(permits') /\ Cardinality(permits') = Cardinality(permits) + 1
      BY <1>0, <2>2, FS_AddElement
    <2>4. b.used = Cardinality(permits) /\ Cardinality(permits) \in Nat /\ maximum \in Nat
      BY <1>d, <2>2, FS_CardinalityType DEF IInv, PermitInv, ConstantsTyped
    <2>5. c.used = Cardinality(permits') /\ c.used <= maximum
      <3>1. c.used = b.used + 1 /\ b.used < maximum
        BY <1>0
      <3> QED BY <2>3, <2>4, <3>1
    <2>6. \A q \in permits : ~Releasable(q)
      BY <1>0, <1>d DEF IInv, PermitInv
    <2>7. \A q \in permits' : Releasable(q)' => c.stage = "inFlight" /\ c.version = q.version
      BY <1>0, <1>d, <1>e, <2>6 DEF Releasable
    <2>8. \A q, s \in permits' : q.version = s.version => q = s
      BY <1>0, <1>e DEF IInv, PermitInv
    <2>9. p \in permits' /\ p.version = c.version /\ p.reservedAt = c.lastAt
      BY <1>0, <1>d
    <2> QED BY <1>c, <2>1, <2>3, <2>5, <2>7, <2>8, <2>9 DEF PermitInv
  <1>3. SlotInv'
    <2>1. ASSUME NEW r \in releasing'
          PROVE  /\ r.budget.stage = "inFlight" /\ r.releasedAt \in Nat
                 /\ \E q \in permits' : q.version = r.budget.version
                                        /\ permitState'[q.version] = "released"
      <3>1. r \in releasing /\ permits \subseteq permits'
        BY <1>0, <2>1
      <3>2. r.budget.stage = "inFlight" /\ r.releasedAt \in Nat
        BY <3>1 DEF IInv, SlotInv
      <3>3. PICK q \in permits : q.version = r.budget.version /\ permitState[q.version] = "released"
        BY <3>1 DEF IInv, SlotInv
      <3>4. permitState'[q.version] = "released"
        BY <1>e, <3>3
      <3> QED BY <3>1, <3>2, <3>3, <3>4
    <2>2. permitState'[c.version] = "reserved"
      BY <1>0, <1>d, <1>f
    <2> QED BY <1>c, <2>1, <2>2 DEF SlotInv
  <1>4. /\ \A m \in admissions : Captured(m.target, m.permit)'
        /\ \A a \in attempts : Captured(a.target, a.permit)' /\ a.resolvedAt <= now'
    BY <1>0, AllCapturedStay
  <1>5. \A a \in attempts : Resolved(a.state) /\ permitState'[a.permit.version] = "prepared"
    BY <1>0, <1>a, <1>d, <1>e DEF IInv, AttemptInv
  <1>6. AttemptInv'
    BY <1>0, <1>4, <1>5 DEF IInv, AttemptInv, Resolved
  <1> QED BY <1>1, <1>b, <1>2, <1>3, <1>6 DEF Observations

\* The state of one permit changes.
LEMMA PermitSet ==
    ASSUME ConstantsTyped, IInv, NEW p \in permits,
           NEW s \in {"reserved", "admitted", "prepared", "released"},
           permitState' = [permitState EXCEPT ![p.version] = s]
    PROVE  /\ permitState'[p.version] = s
           /\ \A q \in permits : q.version # p.version =>
                 permitState'[q.version] = permitState[q.version]
           /\ permitState' \in [{q.version : q \in permits} ->
                                   {"reserved", "admitted", "prepared", "released"}]
  <1>1. permitState \in [{q.version : q \in permits} ->
                            {"reserved", "admitted", "prepared", "released"}]
    BY DEF IInv, TypeOK
  <1>2. \A q \in permits : q.version \in DOMAIN permitState
    BY Typed
  <1> QED BY <1>1, <1>2

LEMMA ReleasePermitStep ==
    ASSUME ConstantsTyped, IInv, Forward, NEW b \in budgets, NEW p \in permits, ReleasePermit(b, p)
    PROVE  Observations'
  <1> DEFINE new == [budget |-> b, releasedAt |-> now]
  <1>0. /\ b.stage = "inFlight" /\ p.version = b.version
        /\ permitState[p.version] \in {"reserved", "admitted"}
        /\ permitState' = [permitState EXCEPT ![p.version] = "released"]
        /\ releasing' = releasing \cup {new}
        /\ UNCHANGED <<now, effect, plan, mutations, budgets, spentCells, permits, admissions,
                       attempts, decisions>>
    BY DEF ReleasePermit, Releasable
  <1>a. /\ ObservationTypes
        /\ now \in Nat
        /\ \A a \in attempts : a.target \in EffectProjection /\ a.permit \in permits
        /\ \A m \in admissions : m.target \in EffectProjection /\ m.permit \in permits
    BY Typed
  <1>b. /\ permitState'[p.version] = "released"
        /\ \A q \in permits : q.version # p.version =>
              permitState'[q.version] = permitState[q.version]
        /\ permitState' \in [{q.version : q \in permits} ->
                                {"reserved", "admitted", "prepared", "released"}]
    BY <1>0, PermitSet
  <1>c. new.budget = b /\ new.releasedAt = now
    OBVIOUS
  <1> HIDE DEF new
  <1>1. ObservationTypes'
    BY <1>0, <1>a, <1>b, <1>c DEF ObservationTypes
  <1>2. LineInv'
    BY <1>0 DEF IInv, LineInv, IsHead, done
  <1>3. PermitInv'
    <2>1. \A q \in permits : Releasable(q)' => Releasable(q)
      BY <1>0, <1>b DEF Releasable
    <2> QED BY <1>0, <2>1, PermitsStay
  <1>4. SlotInv'
    <2>1. ASSUME NEW r \in releasing'
          PROVE  /\ r.budget.stage = "inFlight" /\ r.releasedAt \in Nat
                 /\ \E q \in permits' : q.version = r.budget.version
                                        /\ permitState'[q.version] = "released"
      <3>1. CASE r = new
        BY <3>1, <1>0, <1>a, <1>b, <1>c
      <3>2. CASE r \in releasing
        BY <3>2, <1>0, <1>b, SMTT(30) DEF IInv, SlotInv
      <3> QED BY <3>1, <3>2, <1>0
    <2>2. ASSUME NEW x \in budgets, IsHead(x), x.stage = "inFlight"
          PROVE  /\ permitState'[x.version] = "released" => \E r \in releasing' : r.budget = x
                 /\ permitState'[x.version] = "prepared" =>
                       \E a \in attempts : a.permit.version = x.version
      <3>1. x.version = p.version
        BY <1>0, <2>2 DEF IInv, PermitInv, Releasable
      <3>2. x = b
        BY <1>0, <1>a, <3>1 DEF IInv, LineInv, ObservationTypes
      <3> QED BY <1>0, <1>b, <1>c, <3>1, <3>2
    <2> QED BY <1>0, <2>1, <2>2 DEF SlotInv, IsHead
  <1>5. \A a \in attempts : permitState'[a.permit.version] = "prepared"
    BY <1>0, <1>a, <1>b DEF IInv, AttemptInv
  <1>6. AttemptInv'
    BY <1>0, <1>5 DEF IInv, AttemptInv, Captured, IsHead, Resolved
  <1> QED BY <1>1, <1>2, <1>3, <1>4, <1>6 DEF Observations

LEMMA DropStep ==
    ASSUME ConstantsTyped, IInv, Forward, NEW r \in releasing, Drops(r)
    PROVE  Observations'
  <1>0. /\ ~IsHead(r.budget) /\ releasing' = releasing \ {r}
        /\ UNCHANGED <<budgets, spentCells, permits, permitState, admissions, attempts, decisions>>
    BY DEF Drops
  <1>a. /\ ObservationTypes
        /\ now \in Nat /\ now' \in Nat /\ now <= now'
        /\ \A p \in permits : p.reservedAt \in Nat
        /\ \A a \in attempts : a.resolvedAt \in Nat /\ a.target \in EffectProjection
                               /\ a.permit \in permits
        /\ \A m \in admissions : m.target \in EffectProjection /\ m.permit \in permits
    BY Typed DEF Forward
  <1>1. ObservationTypes'
    BY <1>0, <1>a DEF ObservationTypes
  <1>2. LineInv'
    BY <1>0 DEF IInv, LineInv, IsHead, done
  <1>3. PermitInv'
    BY <1>0, PermitsStay DEF Releasable
  <1>4. SlotInv'
    <2>1. ASSUME NEW b \in budgets, IsHead(b), b.stage = "inFlight",
                 permitState[b.version] = "released"
          PROVE  \E s \in releasing' : s.budget = b
      <3>1. PICK s \in releasing : s.budget = b
        BY <2>1 DEF IInv, SlotInv
      <3>2. s # r
        BY <1>0, <2>1, <3>1
      <3> QED BY <1>0, <3>1, <3>2
    <2>2. \A b \in budgets : IsHead(b)' <=> IsHead(b)
      BY <1>0 DEF IsHead
    <2>3. \A b \in budgets : IsHead(b) /\ b.stage = "inFlight"
                              /\ permitState[b.version] = "prepared" =>
              \E a \in attempts : a.permit.version = b.version
      BY DEF IInv, SlotInv
    <2>4. \A s \in releasing : /\ s.budget.stage = "inFlight" /\ s.releasedAt \in Nat
                               /\ \E p \in permits : p.version = s.budget.version
                                                     /\ permitState[p.version] = "released"
      BY DEF IInv, SlotInv
    <2> QED BY <1>0, <2>1, <2>2, <2>3, <2>4 DEF SlotInv
  <1>5. /\ \A m \in admissions : Captured(m.target, m.permit)'
        /\ \A a \in attempts : Captured(a.target, a.permit)' /\ a.resolvedAt <= now'
    BY <1>0, AllCapturedStay
  <1>6. AttemptInv'
    BY <1>0, <1>5 DEF IInv, AttemptInv, IsHead, Resolved
  <1> QED BY <1>1, <1>2, <1>3, <1>4, <1>6 DEF Observations

LEMMA AdmissionStep ==
    ASSUME ConstantsTyped, IInv, Forward, NEW p \in permits, NewAttemptAdmission(p)
    PROVE  Observations'
  <1> DEFINE new == [permit |-> p, target |-> effect]
  <1>0. /\ p.reservedAt = now /\ effect.state = "Indeterminate"
        /\ permitState[p.version] = "reserved"
        /\ permitState' = [permitState EXCEPT ![p.version] = "admitted"]
        /\ admissions' = admissions \cup {new}
        /\ UNCHANGED <<now, effect, plan, mutations, budgets, spentCells, permits, releasing,
                       attempts, decisions>>
    BY DEF NewAttemptAdmission
  <1>a. /\ ObservationTypes
        /\ now \in Nat /\ effect \in EffectProjection /\ effect.updatedAt \in Nat
        /\ effect.planDigest \in 1..MaxPlans /\ MaxPlans \in Nat
        /\ \A a \in attempts : a.permit \in permits
    BY Typed, StateTyped DEF IInv
  <1>b. /\ permitState'[p.version] = "admitted"
        /\ \A q \in permits : q.version # p.version =>
              permitState'[q.version] = permitState[q.version]
        /\ permitState' \in [{q.version : q \in permits} ->
                                {"reserved", "admitted", "prepared", "released"}]
    BY <1>0, PermitSet
  <1>c. new \in Admission /\ new.permit = p /\ new.target = effect
    BY <1>a DEF Admission, ObservationTypes
  <1> HIDE DEF new
  <1>1. ObservationTypes'
    BY <1>0, <1>a, <1>b, <1>c DEF ObservationTypes
  <1>2. LineInv'
    BY <1>0 DEF IInv, LineInv, IsHead, done
  <1>3. PermitInv'
    <2>1. \A q \in permits : Releasable(q)' => Releasable(q)
      BY <1>0, <1>b DEF Releasable
    <2> QED BY <1>0, <2>1 DEF IInv, PermitInv, IsHead
  <1>4. SlotInv'
    <2>1. \A q \in permits : /\ permitState'[q.version] = "released" <=>
                                  permitState[q.version] = "released"
                             /\ permitState'[q.version] = "prepared" <=>
                                  permitState[q.version] = "prepared"
      BY <1>0, <1>b
    <2>2. \A b \in budgets : IsHead(b) /\ b.stage = "inFlight" =>
              \E q \in permits : q.version = b.version
      BY DEF IInv, PermitInv
    <2>3. ASSUME NEW r \in releasing
          PROVE  /\ r.budget.stage = "inFlight" /\ r.releasedAt \in Nat
                 /\ \E q \in permits : /\ q.version = r.budget.version
                                       /\ permitState'[q.version] = "released"
      BY <2>1 DEF IInv, SlotInv
    <2>4. ASSUME NEW b \in budgets, IsHead(b), b.stage = "inFlight"
          PROVE  /\ permitState'[b.version] = "released" => \E r \in releasing : r.budget = b
                 /\ permitState'[b.version] = "prepared" =>
                       \E a \in attempts : a.permit.version = b.version
      BY <2>1, <2>2, <2>4 DEF IInv, SlotInv
    <2>5. \A b \in budgets : IsHead(b)' <=> IsHead(b)
      BY <1>0 DEF IsHead
    <2> QED BY <1>0, <2>3, <2>4, <2>5 DEF SlotInv
  <1>5. \A a \in attempts : permitState'[a.permit.version] = "prepared"
    BY <1>0, <1>a, <1>b DEF IInv, AttemptInv
  <1>6. Captured(new.target, new.permit)
    <2>1. effect.updatedAt <= now
      BY DEF IInv, EffectInv
    <2> QED BY <1>0, <1>a, <1>c, <2>1 DEF Captured
  <1>7. AttemptInv'
    <2>1. \A x \in admissions' : Captured(x.target, x.permit)'
      BY <1>0, <1>6 DEF IInv, AttemptInv, Captured
    <2> QED BY <1>0, <1>5, <2>1 DEF IInv, AttemptInv, Captured, IsHead, Resolved
  <1> QED BY <1>1, <1>2, <1>3, <1>4, <1>7 DEF Observations

LEMMA PrepareStep ==
    ASSUME ConstantsTyped, IInv, Forward, NEW m \in admissions, NewPreparedAttempt(m)
    PROVE  Observations'
  <1> DEFINE p == m.permit
             new == [permit |-> m.permit, target |-> m.target, state |-> "Prepared",
                     dispatchedAt |-> 0, resolvedAt |-> 0]
  <1>0. /\ permitState[p.version] = "admitted"
        /\ permitState' = [permitState EXCEPT ![p.version] = "prepared"]
        /\ attempts' = attempts \cup {new}
        /\ UNCHANGED <<now, effect, plan, mutations, budgets, spentCells, permits, releasing,
                       admissions, decisions>>
    BY DEF NewPreparedAttempt, CanPrepare
  <1>a. /\ ObservationTypes
        /\ now \in Nat
        /\ m.permit \in permits /\ m \in Admission
        /\ \A a \in attempts : a.permit \in permits
    BY Typed DEF ObservationTypes
  <1>b. /\ permitState'[p.version] = "prepared"
        /\ \A q \in permits : q.version # p.version =>
              permitState'[q.version] = permitState[q.version]
        /\ permitState' \in [{q.version : q \in permits} ->
                                {"reserved", "admitted", "prepared", "released"}]
    BY <1>0, <1>a, PermitSet
  <1>c. /\ new \in ObservationAttempt /\ new.permit = p /\ new.target = m.target
        /\ new.state = "Prepared" /\ new.resolvedAt = 0
    BY <1>a DEF Admission, ObservationAttempt, AttemptState
  <1>d. \A b \in budgets : IsHead(b) => b.stage = "inFlight" /\ b.version = p.version
    BY <1>0, <1>a DEF IInv, PermitInv, Releasable
  <1> HIDE DEF new, p
  <1>1. ObservationTypes'
    BY <1>0, <1>a, <1>b, <1>c DEF ObservationTypes
  <1>2. LineInv'
    BY <1>0 DEF IInv, LineInv, IsHead, done
  <1>3. PermitInv'
    <2>1. \A q \in permits : Releasable(q)' => Releasable(q)
      BY <1>0, <1>b DEF Releasable
    <2> QED BY <1>0, <2>1 DEF IInv, PermitInv, IsHead
  <1>4. SlotInv'
    <2>1. \A q \in permits : permitState[q.version] = "released" =>
              permitState'[q.version] = "released"
      BY <1>0, <1>b
    <2>2. ASSUME NEW b \in budgets, IsHead(b)
          PROVE  permitState'[b.version] = "prepared"
                   /\ \E a \in attempts' : a.permit.version = b.version
      BY <1>0, <1>b, <1>c, <1>d, <2>2
    <2> QED BY <1>0, <2>1, <2>2 DEF IInv, SlotInv, IsHead
  <1>5. \A a \in attempts' : permitState'[a.permit.version] = "prepared"
    BY <1>0, <1>a, <1>b, <1>c DEF IInv, AttemptInv
  <1>6. \A a \in attempts : a.permit # p
    BY <1>0 DEF IInv, AttemptInv
  <1>7. Captured(new.target, new.permit)
    BY <1>c DEF IInv, AttemptInv, p
  <1>8. AttemptInv'
    <2>1. \A x \in admissions' : Captured(x.target, x.permit)'
      BY <1>0 DEF IInv, AttemptInv, Captured
    <2>2. \A x \in attempts' : Captured(x.target, x.permit)'
      BY <1>0, <1>7 DEF IInv, AttemptInv, Captured
    <2>3. \A x \in attempts' : /\ x.resolvedAt <= now'
                               /\ Resolved(x.state) => x.resolvedAt >= x.permit.reservedAt
                               /\ ~Resolved(x.state) =>
                                     \A b \in budgets' : IsHead(b)' =>
                                         b.stage = "inFlight" /\ b.version = x.permit.version
      <3>1. \A x \in attempts : /\ x.resolvedAt <= now
                                /\ Resolved(x.state) => x.resolvedAt >= x.permit.reservedAt
                                /\ ~Resolved(x.state) =>
                                      \A b \in budgets : IsHead(b) =>
                                          b.stage = "inFlight" /\ b.version = x.permit.version
        BY DEF IInv, AttemptInv
      <3>2. now' = now /\ budgets' = budgets /\ \A b \in budgets : IsHead(b)' <=> IsHead(b)
        BY <1>0 DEF IsHead
      <3>3. /\ new.resolvedAt <= now /\ ~Resolved(new.state)
            /\ \A b \in budgets : IsHead(b) => b.stage = "inFlight" /\ b.version = new.permit.version
        BY <1>a, <1>c, <1>d DEF Resolved
      <3>4. attempts' = attempts \cup {new}
        BY <1>0
      <3>5. ASSUME NEW x \in attempts'
            PROVE  /\ x.resolvedAt <= now'
                   /\ Resolved(x.state) => x.resolvedAt >= x.permit.reservedAt
                   /\ ~Resolved(x.state) =>
                         \A b \in budgets' : IsHead(b)' =>
                             b.stage = "inFlight" /\ b.version = x.permit.version
        <4>1. CASE x = new
          BY <3>2, <3>3, <4>1, Zenon
        <4>2. CASE x \in attempts
          BY <3>1, <3>2, <4>2, Zenon
        <4> QED BY <3>4, <4>1, <4>2
      <3> QED BY <3>5
    <2>4. \A x, y \in attempts' : x.permit = y.permit => x = y
      BY <1>0, <1>c, <1>6 DEF IInv, AttemptInv
    <2> QED BY <1>5, <2>1, <2>2, <2>3, <2>4 DEF AttemptInv
  <1> QED BY <1>1, <1>2, <1>3, <1>4, <1>8 DEF Observations

LEMMA ReplaceStep ==
    ASSUME ConstantsTyped, IInv, Forward, NEW a \in attempts, NEW c, Replaces(a, c)
    PROVE  Observations'
  <1>0. /\ ~Resolved(a.state) /\ c \in ObservationAttempt
        /\ c.permit = a.permit /\ c.target = a.target
        /\ c.resolvedAt <= now
        /\ Resolved(c.state) => c.resolvedAt = now
        /\ attempts' = (attempts \ {a}) \cup {c}
        /\ UNCHANGED <<budgets, spentCells, permits, permitState, releasing, admissions, decisions>>
    BY DEF Replaces
  <1>a. /\ ObservationTypes
        /\ now \in Nat /\ now' \in Nat /\ now <= now'
        /\ \A p \in permits : p.reservedAt \in Nat
        /\ \A x \in attempts : x.resolvedAt \in Nat /\ x.target \in EffectProjection
                               /\ x.permit \in permits
        /\ \A m \in admissions : m.target \in EffectProjection /\ m.permit \in permits
        /\ c.resolvedAt \in Nat
    BY <1>0, Typed DEF Forward, ObservationAttempt
  <1>1. ObservationTypes'
    BY <1>0, <1>a DEF ObservationTypes
  <1>2. LineInv'
    BY <1>0 DEF IInv, LineInv, IsHead, done
  <1>3. PermitInv'
    BY <1>0, PermitsStay DEF Releasable
  <1>4. SlotInv'
    <2>1. ASSUME NEW x \in attempts PROVE \E y \in attempts' : y.permit = x.permit
      <3>1. CASE x = a
        BY <1>0, <3>1
      <3>2. CASE x # a
        BY <1>0, <3>2
      <3> QED BY <3>1, <3>2
    <2>2. ASSUME NEW b \in budgets, IsHead(b), b.stage = "inFlight"
          PROVE  /\ permitState[b.version] = "released" => \E r \in releasing : r.budget = b
                 /\ permitState[b.version] = "prepared" =>
                       \E x \in attempts' : x.permit.version = b.version
      <3>1. /\ permitState[b.version] = "released" => \E r \in releasing : r.budget = b
            /\ permitState[b.version] = "prepared" =>
                  \E x \in attempts : x.permit.version = b.version
        BY <2>2 DEF IInv, SlotInv
      <3> QED BY <2>1, <3>1
    <2>3. \A b \in budgets : IsHead(b)' <=> IsHead(b)
      BY <1>0 DEF IsHead
    <2> QED BY <1>0, <2>2, <2>3 DEF IInv, SlotInv
  <1>5. /\ \A m \in admissions : Captured(m.target, m.permit)'
        /\ \A x \in attempts : Captured(x.target, x.permit)' /\ x.resolvedAt <= now'
    BY <1>0, AllCapturedStay
  <1>6. AttemptInv'
    <2>1. a.permit.reservedAt <= now
      BY <1>a DEF IInv, PermitInv
    <2>2. \A x \in attempts' : /\ Captured(x.target, x.permit)' /\ x.resolvedAt <= now'
                               /\ permitState'[x.permit.version] = "prepared"
      <3>1. \A x \in attempts : permitState[x.permit.version] = "prepared"
        BY DEF IInv, AttemptInv
      <3>2. c.resolvedAt <= now'
        BY <1>0, <1>a
      <3>3. Captured(c.target, c.permit)'
        BY <1>0, <1>5
      <3> QED BY <1>0, <1>5, <3>1, <3>2, <3>3
    <2>3. \A x \in attempts' : /\ Resolved(x.state) => x.resolvedAt >= x.permit.reservedAt
                               /\ ~Resolved(x.state) =>
                                     \A b \in budgets' : IsHead(b)' =>
                                         b.stage = "inFlight" /\ b.version = x.permit.version
      <3>1. \A x \in attempts : /\ Resolved(x.state) => x.resolvedAt >= x.permit.reservedAt
                                /\ ~Resolved(x.state) =>
                                      \A b \in budgets : IsHead(b) =>
                                          b.stage = "inFlight" /\ b.version = x.permit.version
        BY DEF IInv, AttemptInv
      <3>2. \A b \in budgets : IsHead(b)' <=> IsHead(b)
        BY <1>0 DEF IsHead
      <3>3. Resolved(c.state) => c.resolvedAt >= c.permit.reservedAt
        BY <1>0, <1>a, <2>1
      <3>4. /\ attempts' = (attempts \ {a}) \cup {c} /\ budgets' = budgets
            /\ c.permit = a.permit /\ ~Resolved(a.state)
        BY <1>0
      <3>5. \A b \in budgets : IsHead(b) => b.stage = "inFlight" /\ b.version = c.permit.version
        BY <3>1, <3>4, Zenon
      <3>6. ASSUME NEW x \in attempts'
            PROVE  /\ Resolved(x.state) => x.resolvedAt >= x.permit.reservedAt
                   /\ ~Resolved(x.state) =>
                         \A b \in budgets' : IsHead(b)' =>
                             b.stage = "inFlight" /\ b.version = x.permit.version
        <4>1. CASE x = c
          BY <3>2, <3>3, <3>4, <3>5, <4>1, Zenon
        <4>2. CASE x \in attempts
          BY <3>1, <3>2, <3>4, <4>2, Zenon
        <4> QED BY <3>4, <4>1, <4>2
      <3> QED BY <3>6
    <2>4. \A x, y \in attempts' : x.permit = y.permit => x = y
      BY <1>0 DEF IInv, AttemptInv
    <2> QED BY <1>0, <1>5, <2>2, <2>3, <2>4 DEF AttemptInv
  <1> QED BY <1>1, <1>2, <1>3, <1>4, <1>6 DEF Observations

-----------------------------------------------------------------------------
(* The theorems *)

LEMMA InvInit ==
    ASSUME ConstantsTyped, Init
    PROVE  IInv
  <1> DEFINE b == [used |-> 0, lastAt |-> 0, version |-> 1, cell |-> 1, stage |-> "idle"]
  <1>1. b \in ObservationBudget /\ b.cell = 1 /\ b.version = 1 /\ b.used = 0 /\ b.stage = "idle"
    BY DEF ObservationBudget
  <1>2. /\ budgets = {b} /\ spentCells = {} /\ permits = {} /\ releasing = {}
        /\ admissions = {} /\ attempts = {} /\ decisions = {} /\ now = 1 /\ plan = 1
        /\ mutations = 1 /\ DOMAIN permitState = {} /\ permitState = [v \in {} |-> "reserved"]
    BY DEF Init
  <1>3. /\ <<"mutation", 1>> \in AttemptIDs /\ MaxTime \in Nat \ {0} /\ MaxPlans \in Nat \ {0}
        /\ MaxAttempts \in Nat \ {0} /\ maximum \in Nat
    BY DEF AttemptIDs, ConstantsTyped
  <1>4. /\ effect \in EffectProjection /\ effect.planDigest = 1 /\ effect.updatedAt = 1
        /\ effect.sourceAttemptID = <<"mutation", 1>>
    BY <1>3 DEF Init, EffectProjection, AttemptState
  <1> HIDE DEF b
  <1>5. IsFiniteSet(budgets) /\ Cardinality(budgets) = 1 /\ IsFiniteSet(permits)
          /\ Cardinality(permits) = 0
    BY <1>2, FS_Singleton, FS_EmptySet
  <1>6. TypeOK
    <2>1. {p.version : p \in permits} = {}
      BY <1>2
    <2>2. permitState \in [{p.version : p \in permits} ->
                              {"reserved", "admitted", "prepared", "released"}]
      BY <1>2, <2>1
    <2> QED BY <1>1, <1>2, <1>3, <1>4, <2>2 DEF TypeOK
  <1>7. LineInv
    <2>1. spentCells = 1..(Cardinality(budgets) - 1)
      BY <1>2, <1>5
    <2>2. \A c \in budgets : c = b
      BY <1>2
    <2>3. b \in budgets /\ IsHead(b)
      BY <1>1, <1>2, <1>5 DEF IsHead
    <2>4. \A c \in budgets : c.cell \in 1..Cardinality(budgets) /\ c.version = c.cell
      BY <1>1, <1>5, <2>2
    <2> QED BY <1>2, <1>5, <2>1, <2>3, <2>4 DEF LineInv
  <1>8. PermitInv /\ SlotInv /\ AttemptInv
    <2>1. PermitInv
      BY <1>1, <1>2, <1>3, <1>5 DEF PermitInv
    <2>2. SlotInv
      BY <1>1, <1>2 DEF SlotInv
    <2>3. AttemptInv
      BY <1>2 DEF AttemptInv
    <2> QED BY <2>1, <2>2, <2>3
  <1>9. EffectInv /\ ObservedTruthIsCurrent
    BY <1>2, <1>4 DEF EffectInv, ObservedTruthIsCurrent
  <1> QED BY <1>6, <1>7, <1>8, <1>9 DEF IInv

LEMMA InvStep ==
    ASSUME ConstantsTyped, IInv, [Next]_vars
    PROVE  IInv'
  <1>1. StepKind /\ Forward /\ ObservedTruthIsCurrent'
    BY StepCases
  <1>2. Observations'
    BY <1>1, IdleStep, CloseStep, ReserveStep, ReleasePermitStep, DropStep, AdmissionStep,
       PrepareStep, ReplaceStep DEF StepKind
  <1>3. TypeOK'
    BY <1>1, <1>2 DEF Observations, ObservationTypes, TypeOK, Forward
  <1> QED BY <1>1, <1>2, <1>3 DEF IInv, Observations, Forward

\* The inductive invariant holds: the snapshots form one line whose end waits for
\* the permit last reserved, and what an attempt is about is older than the
\* projection (all of Next).
THEOREM Invariant == ConstantsTyped => (Spec => []IInv)
  <1> SUFFICES ASSUME ConstantsTyped PROVE Spec => []IInv
    OBVIOUS
  <1>1. Init => IInv
    BY InvInit
  <1>2. IInv /\ [Next]_vars => IInv'
    BY InvStep
  <1> QED BY <1>1, <1>2, PTL DEF Spec

\* Whatever stale copies are presented, the budget has one current snapshot, allows
\* no more permits than observations, is settled at most once, and an observation
\* that is prepared or dispatched holds its slot (ReserveObservation,
\* ReleaseObservation, NewPreparedAttempt, CompleteObservation).
THEOREM BudgetNeverForks == ConstantsTyped => (Spec => []ObservationsSerialized)
  <1> SUFFICES ASSUME ConstantsTyped PROVE Spec => []ObservationsSerialized
    OBVIOUS
  <1>1. IInv => ObservationsSerialized
    <2> SUFFICES ASSUME IInv PROVE ObservationsSerialized
      OBVIOUS
    <2>1. PICK h \in budgets : IsHead(h)
      BY DEF IInv, LineInv
    <2>2. Cardinality(budgets) \in Nat \ {0}
            /\ \A b, c \in budgets : b.cell = c.cell => b = c
      BY LineTyped DEF IInv
    <2>3. Heads = {h}
      BY <2>1, <2>2 DEF Heads, IInv, LineInv, IsHead
    <2>4. Cardinality(Heads) = 1
      BY <2>3, FS_Singleton
    <2>5. Cardinality(permits) <= maximum
      BY <2>1 DEF IInv, PermitInv
    <2>6. Cardinality(decisions) <= 1
      <3>1. Cardinality({}) = 0
        BY FS_EmptySet
      <3>2. decisions = {} \/ Cardinality(decisions) = 1
        BY DEF IInv, LineInv
      <3>3. Cardinality(decisions) \in {0, 1}
        BY <3>1, <3>2, Zenon
      <3> QED BY <3>3
    <2>7. \A a \in attempts : ~Resolved(a.state) =>
              \E b \in Heads : b.stage = "inFlight" /\ b.version = a.permit.version
      BY <2>1, <2>3 DEF IInv, AttemptInv
    <2> QED BY <2>4, <2>5, <2>6, <2>7 DEF ObservationsSerialized
  <1> QED BY <1>1, Invariant, PTL

\* A late observation never overwrites the outcome of a newer retry
\* (CompleteObservation).
THEOREM ObservationsAreCurrent == ConstantsTyped => (Spec => []ObservedTruthIsCurrent)
  <1> SUFFICES ASSUME ConstantsTyped PROVE Spec => []ObservedTruthIsCurrent
    OBVIOUS
  <1>1. IInv => ObservedTruthIsCurrent
    BY DEF IInv
  <1> QED BY <1>1, Invariant, PTL

\* A taken slot can always be freed, except when the effect was retried under a
\* later plan meanwhile (ReleaseObservation, CompleteObservation).
THEOREM SlotsCanBeFreed == ConstantsTyped => (Spec => []StrandedOnlyByReplan)
  <1> SUFFICES ASSUME ConstantsTyped PROVE Spec => []StrandedOnlyByReplan
    OBVIOUS
  <1>1. IInv => StrandedOnlyByReplan
    <2> SUFFICES ASSUME IInv, NEW b \in Heads, b.stage = "inFlight"
                 PROVE  \/ \E p \in permits : p.version = b.version /\ Releasable(p)
                        \/ \E r \in releasing : r.budget = b
                        \/ \E a \in attempts :
                              /\ a.permit.version = b.version
                              /\ \/ Resolved(a.state) => Completable(b, a)
                                 \/ effect.planDigest > a.target.planDigest
      BY DEF StrandedOnlyByReplan
    <2>1. b \in budgets /\ IsHead(b)
      BY LineTyped DEF Heads, SwapCell, IInv
    <2>2. PICK p \in permits : p.version = b.version /\ p.reservedAt = b.lastAt
      BY <2>1 DEF IInv, PermitInv
    <2>3. permitState[b.version] \in {"reserved", "admitted", "prepared", "released"}
      BY <2>2, Typed DEF ObservationTypes
    <2>4. CASE permitState[b.version] \in {"reserved", "admitted"}
      BY <2>2, <2>4 DEF Releasable
    <2>5. CASE permitState[b.version] = "released"
      BY <2>1, <2>5 DEF IInv, SlotInv
    <2>6. CASE permitState[b.version] = "prepared"
      <3>1. PICK a \in attempts : a.permit.version = b.version
        BY <2>1, <2>6 DEF IInv, SlotInv
      <3>2. /\ a.permit \in permits /\ a.target.updatedAt <= effect.updatedAt
            /\ a.target.planDigest <= effect.planDigest
            /\ Resolved(a.state) => a.resolvedAt >= a.permit.reservedAt
        BY DEF IInv, AttemptInv, Captured
      <3>3. a.permit = p
        <4>1. \A q, t \in permits : q.version = t.version => q = t
          BY DEF IInv, PermitInv
        <4> QED BY <2>2, <3>1, <3>2, <4>1, Zenon
      <3>4. a.target.planDigest \in Nat /\ effect.planDigest \in Nat
              /\ a.target.updatedAt \in Nat /\ effect.updatedAt \in Nat
        <4>1. a.target \in EffectProjection /\ effect \in EffectProjection
          BY Typed, StateTyped DEF IInv
        <4>2. MaxPlans \in Nat
          BY DEF ConstantsTyped
        <4> QED BY <4>1, <4>2 DEF EffectProjection
      <3>5. CASE a.target.planDigest = effect.planDigest
        BY <2>2, <3>1, <3>2, <3>3, <3>4, <3>5 DEF Completable, effectProjectionIdentityEqual
      <3>6. CASE effect.planDigest > a.target.planDigest
        BY <3>1, <3>6
      <3>7. a.target.planDigest = effect.planDigest \/ effect.planDigest > a.target.planDigest
        BY <3>2, <3>4
      <3> QED BY <3>5, <3>6, <3>7
    <2> QED BY <2>3, <2>4, <2>5, <2>6
  <1> QED BY <1>1, Invariant, PTL

=============================================================================
