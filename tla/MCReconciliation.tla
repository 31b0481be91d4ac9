-------------------------- MODULE MCReconciliation --------------------------
(***************************************************************************)
(* Instance for TLC of the parts of package reconciliation that keep a     *)
(* resource's work and effects: the work ledgers, the observation of one   *)
(* effect, the effects of a lineage across plans, and the cancellation of  *)
(* an Operation.  Each behaviour exercises one of them.                    *)
(***************************************************************************)
EXTENDS WorkLedgers, TLC

CONSTANTS w1, w2, w3, b1, b2, p1, p2, o1, o2, x, y, ux, uy, z

CONSTANTS MaxPlans, maximumObservations, deadline, MaxTime, MaxMutations,
          Effects, Generation, Inverse, DependencyOrder, Idempotent, SafelySuperseded,
          MaxRevision, MaxAttempts, MaxUpdates, MaxCalls

VARIABLES
    part,   \* the part this behaviour exercises
    now, effect, effectPlan, mutations, budgets, spentCells, permits, permitState,
    releasing, admissions, observations, decisions,
    plan, authority, steps, effects, worker, orphans, executed, attempts, late,
    operation, updates, requested, disposed, state, caller, running, doubtful, calls, ended

Observation == INSTANCE EffectObservationProofs
    WITH maximum <- maximumObservations, MaxAttempts <- MaxMutations,
         plan <- effectPlan, attempts <- observations

Plans == INSTANCE EffectPlansProofs

Lifecycle == INSTANCE OperationLifecycle
    WITH MaxAttempts <- MaxCalls, worker <- caller, orphans <- running, attempts <- calls

ASSUME PlanConstantsAssumption == Plans!ConstantsTyped

ASSUME ObservationConstantsAssumption == Observation!ConstantsTyped

observationVars == <<now, effect, effectPlan, mutations, budgets, spentCells, permits,
                     permitState, releasing, admissions, observations, decisions>>
planVars == <<plan, authority, steps, effects, worker, orphans, executed, attempts, late>>
operationVars == <<operation, updates, requested, disposed, state, caller, running,
                   doubtful, calls, ended>>

MCInit ==
    /\ part \in {"work", "observation", "plans", "operation"}
    /\ Init
    /\ Observation!Init
    /\ Plans!Init
    /\ Lifecycle!Init

MCNext ==
    \/ part = "work" /\ Next /\ UNCHANGED <<part, observationVars, planVars, operationVars>>
    \/ part = "observation" /\ Observation!Next
          /\ UNCHANGED <<part, vars, planVars, operationVars>>
    \/ part = "plans" /\ Plans!Next
          /\ UNCHANGED <<part, vars, observationVars, operationVars>>
    \/ part = "operation" /\ Lifecycle!Next
          /\ UNCHANGED <<part, vars, observationVars, planVars>>

MCSpec == MCInit /\ [][MCNext]_<<part, vars, observationVars, planVars, operationVars>>

\* Two plans of one lineage, with three work items.
MCPlanDigest == w1 :> p1 @@ w2 :> p1 @@ w3 :> p2 @@ b1 :> p1 @@ b2 :> p2

\* x, then y, which depends on it; their inverses; and z of the next generation.
MCGeneration == x :> 1 @@ y :> 1 @@ ux :> 1 @@ uy :> 1 @@ z :> 2
MCInverse == x :> ux @@ y :> uy
MCDependencyOrder == x :> 1 @@ y :> 2
MCSafelySuperseded == {<<y, z>>}

OwnersSymmetry == Permutations({o1, o2})
-----------------------------------------------------------------------------
\* Stale copies of an observation budget never fork it, and one observation of an
\* effect is out at a time (ReserveObservation and the calls that follow it).
ObservationsSerialized == Observation!ObservationsSerialized

\* A late observation never overwrites the outcome of a newer retry
\* (CompleteObservation).
ObservedTruthIsCurrent == Observation!ObservedTruthIsCurrent

\* Only a retry under a later plan can leave the observation slot taken for good
\* (ReleaseObservation, CompleteObservation).
StrandedOnlyByReplan == Observation!StrandedOnlyByReplan

\* An effect that cannot be repeated safely is carried out at most once, whatever
\* crashes, recoveries, retries and plans there are (CheckRetry, RecoverAttempt).
EffectsHappenOnce == Plans!EffectsHappenOnce

\* Compensation undoes confirmed effects in reverse dependency order
\* (ValidateCompensationPlan, NextCompensationStep).
InversesInOrder == Plans!InversesInOrder

\* Effects of a newer generation start when the older ones are settled or
\* superseded (CheckGenerationDispatch, AuthorizeGenerationReplacement).
GenerationsSerialized == Plans!GenerationsSerialized

\* A canceled Operation is at rest: nobody calls the provider for it or holds the
\* means to, and what still runs is quarantined (CancellationPublicState,
\* NewDispatchAuthority, CheckTransition).
CanceledIsAtRest == Lifecycle!CanceledIsAtRest
=============================================================================
