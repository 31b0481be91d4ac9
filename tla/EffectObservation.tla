-------------------------- MODULE EffectObservation --------------------------
(***************************************************************************)
(* One provider effect whose outcome may be unknown: its current           *)
(* projection, the mutation attempts that retry it, the finite budget of   *)
(* observations that may resolve it, and the observation attempts          *)
(* (attempt.go, admission.go and model.go of package reconciliation).      *)
(*                                                                         *)
(* Budgets, permits and attempts are values: every snapshot a transition   *)
(* returned can be presented again later, by anyone.  What orders the      *)
(* copies are atomic cells they share, named here by numbers: a budget     *)
(* snapshot's cell is spent by the one transition that leaves it, and a    *)
(* permit's cell holds its state.  The projection is the durable one: each *)
(* step that changes it is committed against its current value, as the     *)
(* contract asks of the store.                                             *)
(***************************************************************************)
EXTENDS Integers, FiniteSets

CONSTANTS
    MaxPlans,     \* revisions of the operation's plan; a plan is its revision
    maximum,      \* observations the budget allows
    deadline,
    MaxTime,      \* bound on the database clock
    MaxAttempts   \* bound on the mutation attempts of the effect

VARIABLES
    now,         \* database time
    effect,      \* the current EffectProjection
    plan,        \* the current plan of the operation
    mutations,   \* mutation attempts prepared so far
    budgets,     \* every ObservationBudget snapshot ever returned
    spentCells,  \* budget cells whose transition has been taken
    permits,     \* every ObservationPermit ever returned
    permitState, \* the shared cell of each permit, by its version
    releasing,   \* ReleaseObservation calls between their two atomic steps
    admissions,  \* observation admissions
    attempts,    \* observation attempts
    decisions    \* history: ObservationResolved and ObservationQuarantine results

vars == <<now, effect, plan, mutations, budgets, spentCells, permits, permitState,
          releasing, admissions, attempts, decisions>>

observationVars == <<budgets, spentCells, permits, permitState, releasing, admissions,
                     attempts, decisions>>

\* What the bounds are; MCReconciliation assumes it.
ConstantsTyped ==
    /\ {MaxPlans, MaxTime, MaxAttempts} \subseteq Nat \ {0}
    /\ maximum \in Nat

-----------------------------------------------------------------------------
AttemptState == {"Prepared", "Dispatched", "Applied", "NoEffect", "Indeterminate"}

Resolved(state) == state \in {"Applied", "NoEffect", "Indeterminate"}

Definitive(state) == state \in {"Applied", "NoEffect"}

\* An attempt is named by its purpose and a number of its own.
AttemptIDs == {"mutation", "observation"} \X Nat

EffectProjection ==
    [planDigest : 1..MaxPlans, sourceAttemptID : AttemptIDs, state : AttemptState,
     updatedAt : Nat]

ObservationBudget ==
    [used : Nat, lastAt : Nat, version : Nat, cell : Nat,
     stage : {"idle", "inFlight", "resolved", "quarantined"}]

ObservationPermit == [version : Nat, reservedAt : Nat]

\* target: the projection captured at admission.
Admission == [permit : ObservationPermit, target : EffectProjection]

ObservationAttempt ==
    [permit : ObservationPermit, target : EffectProjection, state : AttemptState,
     dispatchedAt : Nat, resolvedAt : Nat]

done(b) == b.stage \in {"resolved", "quarantined"}

Init ==
    /\ now = 1
    /\ plan = 1
    /\ mutations = 1
    /\ effect = [planDigest |-> 1, sourceAttemptID |-> <<"mutation", 1>>,
                 state |-> "Indeterminate", updatedAt |-> 1]
    /\ budgets = {[used |-> 0, lastAt |-> 0, version |-> 1, cell |-> 1, stage |-> "idle"]}
    /\ spentCells = {}
    /\ permits = {}
    /\ permitState = [v \in {} |-> "reserved"]
    /\ releasing = {}
    /\ admissions = {}
    /\ attempts = {}
    /\ decisions = {}

Tick ==
    /\ now < MaxTime
    /\ now' = now + 1
    /\ UNCHANGED <<effect, plan, mutations>>
    /\ UNCHANGED observationVars

-----------------------------------------------------------------------------
(* Mutation attempts: admission and preparation in one transaction of the     *)
(* store, then dispatch and resolution, each reduced to the projection.       *)

\* NoEffect, or Indeterminate with evidence of durable idempotency.
CheckRetry == effect.state \in {"NoEffect", "Indeterminate"}

Retry ==
    /\ mutations < MaxAttempts
    /\ CheckRetry
    /\ mutations' = mutations + 1
    /\ effect' = [planDigest |-> plan, sourceAttemptID |-> <<"mutation", mutations + 1>>,
                  state |-> "Prepared", updatedAt |-> now]
    /\ UNCHANGED <<now, plan>>
    /\ UNCHANGED observationVars

\* MarkAttemptDispatched, ResolveAttempt, RecoverAttempt and
\* ApplyMaintenanceOutcome on the attempt the projection comes from.
AdvanceMutation(state) ==
    /\ \/ effect.state = "Prepared" /\ state \in {"Dispatched", "NoEffect", "Indeterminate"}
       \/ effect.state = "Dispatched" /\ Resolved(state)
    /\ effect' = [effect EXCEPT !.state = state, !.updatedAt = now]
    /\ UNCHANGED <<now, plan, mutations>>
    /\ UNCHANGED observationVars

\* SelectPlan: every physical attempt under the current plan is resolved, and
\* the effect, if the plan has touched it, is definitive.
SelectPlan ==
    /\ plan < MaxPlans
    /\ effect.planDigest = plan => Definitive(effect.state)
    /\ \A a \in attempts : a.target.planDigest = plan => Resolved(a.state)
    /\ plan' = plan + 1
    /\ UNCHANGED <<now, effect, mutations>>
    /\ UNCHANGED observationVars

-----------------------------------------------------------------------------
(* The observation budget and its permits *)

\* transition.CompareAndSwap(false, true) on the snapshot's cell.
SwapCell(b) == b.cell \notin spentCells

FreshCell == Cardinality(budgets) + 1

\* The transition leaves b for the snapshot that differs in the given fields.
Advance(b, used, lastAt, stage) ==
    /\ spentCells' = spentCells \cup {b.cell}
    /\ budgets' = budgets \cup
          {[used |-> used, lastAt |-> lastAt, version |-> b.version + 1,
            cell |-> FreshCell, stage |-> stage]}

ReserveObservation(b) ==
    /\ b.lastAt <= now
    /\ b.stage = "idle"
    /\ b.used < maximum
    /\ now < deadline
    /\ SwapCell(b)
    /\ Advance(b, b.used + 1, now, "inFlight")
    /\ permits' = permits \cup {[version |-> b.version + 1, reservedAt |-> now]}
    /\ permitState' = [v \in DOMAIN permitState \cup {b.version + 1} |->
                          IF v = b.version + 1 THEN "reserved" ELSE permitState[v]]
    /\ UNCHANGED <<now, effect, plan, mutations, releasing, admissions, attempts, decisions>>

\* Mutated: a permit that has been admitted cannot be released.
Releasable_reservedOnly(p) == permitState[p.version] = "reserved"
Releasable(p) == permitState[p.version] \in {"reserved", "admitted"}

\* First step of ReleaseObservation: retire the permit.
ReleasePermit(b, p) ==
    /\ b.stage = "inFlight"
    /\ p.version = b.version
    /\ p.reservedAt = b.lastAt
    /\ b.lastAt <= now
    /\ Releasable(p)
    /\ permitState' = [permitState EXCEPT ![p.version] = "released"]
    /\ releasing' = releasing \cup {[budget |-> b, releasedAt |-> now]}
    /\ UNCHANGED <<now, effect, plan, mutations, budgets, spentCells, permits, admissions,
                   attempts, decisions>>

\* Second step: move the budget on, unless another transition did.
ReleaseBudget(r) ==
    /\ releasing' = releasing \ {r}
    /\ IF SwapCell(r.budget)
         THEN Advance(r.budget, r.budget.used, r.releasedAt, "idle")
         ELSE UNCHANGED <<budgets, spentCells>>
    /\ UNCHANGED <<now, effect, plan, mutations, permits, permitState, admissions, attempts,
                   decisions>>

\* NewAttemptAdmission for an observation, at the instant of the reservation.
NewAttemptAdmission(p) ==
    /\ p.reservedAt = now
    /\ effect.state = "Indeterminate"
    /\ effect.planDigest = plan
    /\ permitState[p.version] = "reserved"
    /\ permitState' = [permitState EXCEPT ![p.version] = "admitted"]
    /\ admissions' = admissions \cup {[permit |-> p, target |-> effect]}
    /\ UNCHANGED <<now, effect, plan, mutations, budgets, spentCells, permits, releasing,
                   attempts, decisions>>

\* Mutated: preparation does not notice that the permit was released.
CanPrepare_released(p) == permitState[p.version] \in {"admitted", "released"}
CanPrepare(p) == permitState[p.version] = "admitted"

NewPreparedAttempt(m) ==
    /\ CanPrepare(m.permit)
    /\ permitState' = [permitState EXCEPT ![m.permit.version] = "prepared"]
    /\ attempts' = attempts \cup
          {[permit |-> m.permit, target |-> m.target, state |-> "Prepared",
            dispatchedAt |-> 0, resolvedAt |-> 0]}
    /\ UNCHANGED <<now, effect, plan, mutations, budgets, spentCells, permits, releasing,
                   admissions, decisions>>

ReplaceAttempt(a, b) ==
    /\ attempts' = (attempts \ {a}) \cup {b}
    /\ UNCHANGED <<now, effect, plan, mutations, budgets, spentCells, permits, permitState,
                   releasing, admissions, decisions>>

MarkAttemptDispatched(a) ==
    /\ a.state = "Prepared"
    /\ now < deadline
    /\ ReplaceAttempt(a, [a EXCEPT !.state = "Dispatched", !.dispatchedAt = now])

ResolveAttempt(a, outcome) ==
    /\ a.state = "Dispatched"
    /\ Resolved(outcome)
    /\ ReplaceAttempt(a, [a EXCEPT !.state = outcome, !.resolvedAt = now])

\* Owner loss, or a lease or visibility failure: only proof that dispatch never
\* began turns a prepared attempt into NoEffect.
RecoverAttempt(a, outcome) ==
    /\ \/ a.state = "Prepared" /\ outcome \in {"NoEffect", "Indeterminate"}
       \/ a.state = "Dispatched" /\ outcome = "Indeterminate"
    /\ ReplaceAttempt(a, [a EXCEPT !.state = outcome, !.resolvedAt = now])

maxOf(a, b) == IF a >= b THEN a ELSE b

effectProjectionIdentityEqual(left, right) == left.planDigest = right.planDigest

\* Mutated: a retry that ended in the same state is taken for the target.
effectProjectionsEqual_anySource(left, right) ==
    /\ effectProjectionIdentityEqual(left, right)
    /\ left.state = right.state
effectProjectionsEqual(left, right) ==
    /\ effectProjectionIdentityEqual(left, right)
    /\ left.state = right.state
    /\ left.sourceAttemptID = right.sourceAttemptID
    /\ left.updatedAt = right.updatedAt

\* The attempt closes the slot that budget b holds for it.
Completable(b, a) ==
    /\ b.stage = "inFlight"
    /\ a.permit.version = b.version
    /\ Resolved(a.state)
    /\ a.resolvedAt >= b.lastAt
    /\ effectProjectionIdentityEqual(effect, a.target)
    /\ effect.updatedAt >= a.target.updatedAt

\* The physical observation decides the current effect.
Decides(a) ==
    /\ effectProjectionsEqual(effect, a.target)
    /\ Definitive(a.state)
    /\ a.dispatchedAt # 0

Exhausted(b, at) == b.used >= maximum \/ at >= deadline

CompleteObservation(b, a) ==
    LET at == maxOf(a.resolvedAt, effect.updatedAt)
    IN  /\ Completable(b, a)
        /\ SwapCell(b)
        /\ \/ /\ Decides(a)
              /\ effect' = [effect EXCEPT !.state = a.state, !.updatedAt = a.resolvedAt,
                                !.sourceAttemptID = <<"observation", a.permit.version>>]
              /\ Advance(b, b.used, at, "resolved")
              /\ decisions' = decisions \cup {<<b.cell, "resolved">>}
           \/ /\ ~Decides(a)
              /\ Definitive(effect.state)
              /\ Advance(b, b.used, at, "resolved")
              /\ decisions' = decisions \cup {<<b.cell, "resolved">>}
              /\ UNCHANGED effect
           \/ /\ ~Decides(a)
              /\ ~Definitive(effect.state)
              /\ Exhausted(b, at)
              /\ Advance(b, b.used, at, "quarantined")
              /\ decisions' = decisions \cup {<<b.cell, "quarantine">>}
              /\ UNCHANGED effect
           \/ /\ ~Decides(a)
              /\ ~Definitive(effect.state)
              /\ ~Exhausted(b, at)
              /\ Advance(b, b.used, at, "idle")
              /\ UNCHANGED <<effect, decisions>>
        /\ UNCHANGED <<now, plan, mutations, permits, permitState, releasing, admissions,
                       attempts>>

ExpireObservationBudget(b) ==
    /\ b.stage = "idle"
    /\ b.lastAt <= now
    /\ now >= deadline
    /\ SwapCell(b)
    /\ Advance(b, b.used, now, "quarantined")
    /\ decisions' = decisions \cup {<<b.cell, "quarantine">>}
    /\ UNCHANGED <<now, effect, plan, mutations, permits, permitState, releasing, admissions,
                   attempts>>

Next ==
    \/ Tick
    \/ Retry
    \/ \E s \in AttemptState : AdvanceMutation(s)
    \/ SelectPlan
    \/ \E b \in budgets :
          \/ ReserveObservation(b)
          \/ \E p \in permits : ReleasePermit(b, p)
          \/ \E a \in attempts : CompleteObservation(b, a)
          \/ ExpireObservationBudget(b)
    \/ \E r \in releasing : ReleaseBudget(r)
    \/ \E p \in permits : NewAttemptAdmission(p)
    \/ \E m \in admissions : NewPreparedAttempt(m)
    \/ \E a \in attempts :
          \/ MarkAttemptDispatched(a)
          \/ \E s \in AttemptState : ResolveAttempt(a, s) \/ RecoverAttempt(a, s)

Spec == Init /\ [][Next]_vars
-----------------------------------------------------------------------------
TypeOK ==
    /\ now \in 1..MaxTime
    /\ effect \in EffectProjection
    /\ plan \in 1..MaxPlans
    /\ mutations \in 1..MaxAttempts
    /\ budgets \subseteq ObservationBudget
    /\ spentCells \subseteq {b.cell : b \in budgets}
    /\ \A b, c \in budgets : b.cell = c.cell => b = c
    /\ permits \subseteq ObservationPermit
    /\ permitState \in [{p.version : p \in permits} ->
                           {"reserved", "admitted", "prepared", "released"}]
    /\ \A r \in releasing : r.budget \in budgets
    /\ admissions \subseteq Admission
    /\ attempts \subseteq ObservationAttempt

\* The snapshots no transition has left.
Heads == {b \in budgets : b.cell \notin spentCells}

\* Stale copies of a budget never fork it: whatever snapshots callers present,
\* there is one current snapshot, no more permits than observations allowed, the
\* budget is settled (resolved or quarantined) at most once, and an observation
\* that is prepared or dispatched holds the slot, so release and preparation of
\* a permit have one winner and there is never a second physical observation
\* (ReserveObservation, ReleaseObservation, NewPreparedAttempt,
\* CompleteObservation, ExpireObservationBudget).
ObservationsSerialized ==
    /\ Cardinality(Heads) = 1
    /\ Cardinality(permits) <= maximum
    /\ Cardinality(decisions) <= 1
    /\ \A a \in attempts : ~Resolved(a.state) =>
          \E b \in Heads : b.stage = "inFlight" /\ b.version = a.permit.version

\* A late observation never overwrites the outcome of a newer retry: when the
\* projection comes from an observation, that observation was about the last
\* mutation attempt there has been, even if a retry ended in the same state in
\* the same millisecond (CompleteObservation).
ObservedTruthIsCurrent ==
    effect.sourceAttemptID[1] = "observation" =>
        \E a \in attempts :
            /\ a.permit.version = effect.sourceAttemptID[2]
            /\ a.target.sourceAttemptID = <<"mutation", mutations>>

\* A budget with an observation in flight can be moved on: the permit can be
\* released, a release is under way, the attempt is not resolved yet, or its
\* result can be completed.  The one exception is an effect that was retried
\* under a later plan meanwhile: CompleteObservation refuses its other digest,
\* the permit is spent, and the slot stays taken.
StrandedOnlyByReplan ==
    \A b \in Heads : b.stage = "inFlight" =>
        \/ \E p \in permits : p.version = b.version /\ Releasable(p)
        \/ \E r \in releasing : r.budget = b
        \/ \E a \in attempts :
              /\ a.permit.version = b.version
              /\ \/ Resolved(a.state) => Completable(b, a)
                 \/ effect.planDigest > a.target.planDigest
=============================================================================
