-------------------------- MODULE EffectPlansProofs --------------------------
(***************************************************************************)
(* The effects of a lineage across crashes, retries, plans, compensation   *)
(* and generations (EffectPlans), for every set of effects, dependency     *)
(* order and table of inverses, and any number of attempts and plans.      *)
(***************************************************************************)
EXTENDS EffectPlans, WellFoundedInduction, TLAPS

-----------------------------------------------------------------------------
(* The inductive invariant *)

States == {"none", "Prepared", "Dispatched", "Applied", "NoEffect", "Indeterminate"}
Digests == Nat \X Nat
StepValues == [planDigest : Digests, position : Nat, schedule : Seq(Originals)]
Projections == [state : States, planDigest : Digests, step : StepValues]
Plans == [generation : Nat, revision : Nat, kind : {"Forward", "Compensation"},
          completed : SUBSET Effects, schedule : Seq(Originals)]

TypeInv ==
    /\ plan \in Plans
    /\ authority.kind \in {"none", "revision", "generation", "admitted"}
    /\ authority.kind \in {"revision", "generation"} =>
          authority.plan \in Plans /\ authority.expected = digest(plan)
    /\ authority.kind \in {"generation", "admitted"} =>
          authority.effect \in Effects /\ authority.current \in Projections
    /\ steps \subseteq StepValues
    /\ effects \in [Effects -> Projections]
    /\ worker \in [Effects -> {"none", "prepared", "calling", "executed", "failed", "lost"}]
    /\ orphans \in [Effects -> Nat]
    /\ executed \in [Effects -> Nat]

\* An effect that has no result yet belongs to a worker, present or lost, and the
\* admission an authority carries was for an effect that may be tried.
WorkerInv ==
    /\ \A k \in Effects :
          /\ worker[k] = "prepared" => effects[k].state = "Prepared"
          /\ worker[k] # "none" <=> effects[k].state \in {"Prepared", "Dispatched"}
    /\ authority.kind \in {"generation", "admitted"} =>
          \/ authority.current.state \in {"none", "NoEffect"}
          \/ authority.current.state = "Indeterminate" /\ authority.effect \in Idempotent

\* The calls the provider may carry out, or has, of an effect that must not be
\* repeated: one at most, and none unless it is prepared, in doubt or applied.
OnceInv ==
    \A k \in Effects \ Idempotent :
        /\ executed[k] + orphans[k] <= 1
        /\ effects[k].state \in {"none", "NoEffect"} => executed[k] = 0 /\ orphans[k] = 0
        /\ worker[k] \in {"prepared", "calling", "failed"} => executed[k] = 0 /\ orphans[k] = 0
        /\ worker[k] = "executed" => executed[k] = 1
        /\ effects[k].state = "Applied" => executed[k] = 1

\* The effects attempted belong to the generation of the plan or an older one, and
\* the next generation has been authorized against the effects there were then.
GenerationInv ==
    /\ \A k \in Effects : Attempted(k) => Generation[k] <= plan.generation
    /\ authority.kind = "revision" => authority.plan.generation = plan.generation
    /\ authority.kind = "generation" =>
          /\ authority.plan = FirstPlan(plan.generation + 1)
          /\ Generation[authority.effect] = plan.generation + 1
    /\ authority.kind = "admitted" => Generation[authority.effect] = plan.generation
    /\ authority.kind \in {"generation", "admitted"} =>
          \A old \in Effects :
              Attempted(old) /\ Generation[old] < Generation[authority.effect] =>
                  \/ Definitive(effects[old].state)
                  \/ <<old, authority.effect>> \in SafelySuperseded
                  \/ <<old, authority.effect>> \in late

\* By the projections p, a schedule of confirmed effects in strictly reverse
\* dependency order.
Undoes(p, schedule) ==
    /\ \A i \in DOMAIN schedule : p[schedule[i]].state = "Applied"
    /\ \A i, j \in DOMAIN schedule :
          i < j => DependencyOrder[schedule[j]] < DependencyOrder[schedule[i]]

\* A step whose predecessors have been undone.
StepReady(p, s) ==
    /\ Undoes(p, s.schedule)
    /\ s.position \in DOMAIN s.schedule
    /\ \A i \in 1..(s.position - 1) : p[Inverse[s.schedule[i]]].state = "Applied"

CompensationInv ==
    /\ \A k \in plan.completed : effects[k].state = "Applied"
    /\ Undoes(effects, plan.schedule)
    /\ authority.kind = "revision" =>
          /\ \A k \in authority.plan.completed : effects[k].state = "Applied"
          /\ Undoes(effects, authority.plan.schedule)
    /\ \A s \in steps : StepReady(effects, s)
    /\ \A k \in Effects : effects[k].step.position > 0 =>
          StepReady(effects, effects[k].step)

IInv ==
    /\ TypeInv
    /\ WorkerInv
    /\ OnceInv
    /\ GenerationInv
    /\ GenerationsSerialized
    /\ CompensationInv

-----------------------------------------------------------------------------
(* What a step does to the effects *)

\* The projection of k moves to another state.
Moves(k, state) == effects' = [effects EXCEPT ![k].state = state]

LEMMA Moved ==
    ASSUME TypeInv, NEW k \in Effects, NEW state \in States, Moves(k, state)
    PROVE  /\ effects' \in [Effects -> Projections]
           /\ \A j \in Effects : j # k => effects'[j] = effects[j]
           /\ effects'[k].state = state
           /\ effects'[k].planDigest = effects[k].planDigest
           /\ effects'[k].step = effects[k].step
  <1> DEFINE r == effects[k]
             s == [r EXCEPT !.state = state]
  <1>1. r \in Projections /\ effects \in [Effects -> Projections]
    BY DEF TypeInv
  <1>2. effects' = [effects EXCEPT ![k] = s]
    BY DEF Moves
  <1> HIDE DEF r
  <1>3. /\ s \in Projections
        /\ s.state = state
        /\ s.planDigest = r.planDigest
        /\ s.step = r.step
    BY <1>1 DEF Projections
  <1> HIDE DEF s
  <1>4. effects'[k] = s /\ effects' \in [Effects -> Projections]
    BY <1>1, <1>2, <1>3
  <1>5. \A j \in Effects : j # k => effects'[j] = effects[j]
    BY <1>1, <1>2
  <1> QED BY <1>3, <1>4, <1>5 DEF r

LEMMA Prepared ==
    ASSUME TypeInv, NEW k \in Effects, NEW s \in StepValues, NewPreparedAttempt(k, s)
    PROVE  /\ effects' \in [Effects -> Projections]
           /\ \A j \in Effects : j # k => effects'[j] = effects[j]
           /\ effects'[k].state = "Prepared"
           /\ effects'[k].planDigest = digest(plan)
           /\ effects'[k].step = s
           /\ worker' = [worker EXCEPT ![k] = "prepared"]
           /\ orphans' = orphans
           /\ executed' = executed
  <1> DEFINE q == [state |-> "Prepared", planDigest |-> digest(plan), step |-> s]
  <1>1. digest(plan) \in Digests
    BY DEF TypeInv, Plans, digest, Digests
  <1>2. q \in Projections /\ q.state = "Prepared" /\ q.planDigest = digest(plan) /\ q.step = s
    BY <1>1 DEF Projections, States
  <1>3. effects' = [effects EXCEPT ![k] = q] /\ effects \in [Effects -> Projections]
    BY DEF NewPreparedAttempt, TypeInv
  <1>4. worker' = [worker EXCEPT ![k] = "prepared"] /\ orphans' = orphans /\ executed' = executed
    BY DEF NewPreparedAttempt, providerVars
  <1> HIDE DEF q
  <1> QED BY <1>2, <1>3, <1>4

LEMMA NoStepTyped == NoStep \in StepValues
  <1>1. <<>> \in Seq(Originals) /\ <<0, 0>> \in Digests
    BY DEF Digests
  <1> QED BY <1>1 DEF NoStep, StepValues

\* An effect may be tried under the plan.
MayPrepare(k) ==
    /\ \/ effects[k].state \in {"none", "NoEffect"}
       \/ effects[k].state = "Indeterminate" /\ k \in Idempotent
    /\ Generation[k] = plan.generation
    /\ \A old \in Effects : Attempted(old) /\ Generation[old] < Generation[k] =>
          \/ Definitive(effects[old].state)
          \/ <<old, k>> \in SafelySuperseded
          \/ <<old, k>> \in late

Ready(k, s) == MayPrepare(k) /\ (s = NoStep \/ s \in steps) /\ NewPreparedAttempt(k, s)

\* However a mutation attempt comes to be prepared, its effect may be tried.
LEMMA PrepareCases ==
    ASSUME IInv,
           \/ \E k \in Effects : PrepareForward(k) \/ \E s \in steps : PrepareCompensation(k, s)
           \/ PrepareReplacementAttempt
    PROVE  /\ \E k \in Effects : \E s \in StepValues : Ready(k, s)
           /\ plan' = plan /\ steps' = steps
           /\ authority' = authority \/ authority' = NoAuthority
  <1>0. ASSUME NEW k \in Effects, Admissible(k, plan)
        PROVE  MayPrepare(k)
    BY <1>0 DEF Admissible, CheckRetry, CheckGenerationDispatch, MayPrepare, Attempted, Definitive
  <1>1. ASSUME NEW k \in Effects, PrepareForward(k)
        PROVE  Ready(k, NoStep) /\ UNCHANGED planVars
    BY <1>0, <1>1 DEF PrepareForward, Ready
  <1>2. ASSUME NEW k \in Effects, NEW s \in steps, PrepareCompensation(k, s)
        PROVE  Ready(k, s) /\ UNCHANGED planVars
    BY <1>0, <1>2 DEF PrepareCompensation, Ready
  <1>3. ASSUME PrepareReplacementAttempt
        PROVE  authority.effect \in Effects /\ Ready(authority.effect, NoStep)
    <2>1. authority.kind = "admitted" /\ effects[authority.effect] = authority.current
            /\ NewPreparedAttempt(authority.effect, NoStep)
      BY <1>3 DEF PrepareReplacementAttempt
    <2>2. authority.effect \in Effects
      BY <2>1 DEF IInv, TypeInv
    <2>3. MayPrepare(authority.effect)
      <3>1. \/ authority.current.state \in {"none", "NoEffect"}
            \/ authority.current.state = "Indeterminate" /\ authority.effect \in Idempotent
        BY <2>1 DEF IInv, WorkerInv
      <3> QED BY <3>1, <2>1, <2>2 DEF IInv, GenerationInv, MayPrepare
    <2> QED BY <2>1, <2>2, <2>3 DEF Ready
  <1>4. steps \subseteq StepValues
    BY DEF IInv, TypeInv
  <1> QED BY <1>1, <1>2, <1>3, <1>4, NoStepTyped DEF planVars, PrepareReplacementAttempt

\* A recovery records doubt, for an attempt without result is all it meets.
LEMMA RecoverMoves ==
    ASSUME IInv, NEW k \in Effects, Recover(k)
    PROVE  Moves(k, "Indeterminate")
  <1>1. worker[k] = "lost" /\ effects[k].state \in {"Prepared", "Dispatched"}
    BY DEF Recover, IInv, WorkerInv
  <1>2. RecoveryForCrash(effects[k].state) = "RecordIndeterminate"
    BY <1>1 DEF RecoveryForCrash
  <1> QED BY <1>2 DEF Recover, Moves

\* An effect that has been attempted and is not applied moves on, or is recorded.
Settles(k) ==
    \E state \in {"Dispatched", "Applied", "NoEffect", "Indeterminate"} :
        /\ Moves(k, state)
        /\ effects[k].state \in {"Prepared", "Dispatched", "Indeterminate"}

LEMMA SettleCases ==
    ASSUME IInv, NEW k \in Effects,
           \/ CommitDispatched(k)
           \/ \E outcome \in {"Applied", "NoEffect", "Indeterminate"} : ResolveAttempt(k, outcome)
           \/ RecoverUndispatched(k)
           \/ Recover(k)
           \/ Observe(k)
    PROVE  Settles(k) /\ UNCHANGED <<planVars, late>>
  <1>1. CASE CommitDispatched(k)
    BY <1>1 DEF CommitDispatched, Settles, Moves
  <1>2. ASSUME NEW outcome \in {"Applied", "NoEffect", "Indeterminate"},
               ResolveAttempt(k, outcome)
        PROVE  Settles(k) /\ UNCHANGED <<planVars, late>>
    BY <1>2 DEF ResolveAttempt, Settles, Moves
  <1>3. CASE RecoverUndispatched(k)
    BY <1>3 DEF RecoverUndispatched, Settles, Moves, IInv, WorkerInv
  <1>4. CASE Recover(k)
    <2>1. Moves(k, "Indeterminate")
      BY <1>4, RecoverMoves
    <2>2. effects[k].state \in {"Prepared", "Dispatched"} /\ UNCHANGED <<planVars, late>>
      BY <1>4 DEF Recover, IInv, WorkerInv
    <2> QED BY <2>1, <2>2 DEF Settles
  <1>5. CASE Observe(k)
    BY <1>5 DEF Observe, Settles, Moves
  <1> QED BY <1>1, <1>2, <1>3, <1>4, <1>5

PrepareStep(k, s) ==
    /\ Ready(k, s)
    /\ UNCHANGED <<plan, steps>>
    /\ authority' = authority \/ authority' = NoAuthority

\* What a step does to effects and plans.
StepKind ==
    \/ UNCHANGED <<plan, authority, steps, effects, late>>
    \/ \E k \in Effects : \E s \in StepValues : PrepareStep(k, s)
    \/ \E k \in Effects : Settles(k) /\ UNCHANGED <<plan, authority, steps, late>>
    \/ \E k \in Effects : AuthorizeGenerationReplacement(k)
    \/ SelectPlan("Forward", <<>>)
    \/ \E s \in Schedules : SelectPlan("Compensation", s)
    \/ AcquireReplacement
    \/ \E n \in DOMAIN plan.schedule : NextCompensationStep(n)

LEMMA StepCases ==
    ASSUME IInv, [Next]_vars
    PROVE  StepKind
  <1>1. CASE UNCHANGED vars
    BY <1>1 DEF vars, planVars, StepKind
  <1>2. CASE Next
    <2>1. ASSUME \/ \E k \in Effects : PrepareForward(k)
                                        \/ \E s \in steps : PrepareCompensation(k, s)
                 \/ PrepareReplacementAttempt
          PROVE  StepKind
      BY <2>1, PrepareCases DEF StepKind, PrepareStep
    <2>2. ASSUME NEW k \in Effects,
                 \/ MarkAttemptDispatched(k)
                 \/ ProviderAnswers(k)
                 \/ OrphanEnds(k)
                 \/ Crash(k)
          PROVE  StepKind
      BY <2>2 DEF MarkAttemptDispatched, ProviderAnswers, OrphanEnds, Crash, planVars, StepKind
    <2>3. ASSUME NEW k \in Effects,
                 \/ CommitDispatched(k)
                 \/ \E outcome \in {"Applied", "NoEffect", "Indeterminate"} :
                       ResolveAttempt(k, outcome)
                 \/ RecoverUndispatched(k)
                 \/ Recover(k)
                 \/ Observe(k)
          PROVE  StepKind
      BY <2>3, SettleCases DEF planVars, StepKind
    <2>4. ASSUME \/ \E k \in Effects : AuthorizeGenerationReplacement(k)
                 \/ SelectPlan("Forward", <<>>)
                 \/ \E s \in Schedules : SelectPlan("Compensation", s)
                 \/ AcquireReplacement
                 \/ \E n \in DOMAIN plan.schedule : NextCompensationStep(n)
          PROVE  StepKind
      BY <2>4 DEF StepKind
    <2> QED BY <1>2, <2>1, <2>2, <2>3, <2>4 DEF Next
  <1> QED BY <1>1, <1>2

\* An effect once applied stays applied, one attempted stays attempted, and the
\* step of an attempt changes with a new attempt only.
EffectsKept ==
    /\ effects' \in [Effects -> Projections]
    /\ \A k \in Effects :
          /\ effects[k].state = "Applied" => effects'[k].state = "Applied"
          /\ effects'[k].state = "none" => effects[k].state = "none"
          /\ \/ effects'[k].step = effects[k].step
             \/ effects'[k].step = NoStep
             \/ effects'[k].step \in steps

LEMMA EffectsStep ==
    ASSUME IInv, StepKind
    PROVE  EffectsKept
  <1>1. CASE effects' = effects
    <2>1. effects \in [Effects -> Projections]
      BY DEF IInv, TypeInv
    <2> QED BY <1>1, <2>1 DEF EffectsKept
  <1>2. ASSUME NEW k \in Effects, NEW s \in StepValues, PrepareStep(k, s)
        PROVE  EffectsKept
    <2>1. NewPreparedAttempt(k, s) /\ effects[k].state # "Applied" /\ (s = NoStep \/ s \in steps)
      BY <1>2 DEF PrepareStep, Ready, MayPrepare
    <2> QED BY <2>1, Prepared DEF EffectsKept, IInv
  <1>3. ASSUME NEW k \in Effects, Settles(k)
        PROVE  EffectsKept
    <2>1. PICK state \in {"Dispatched", "Applied", "NoEffect", "Indeterminate"} :
              Moves(k, state) /\ effects[k].state \in {"Prepared", "Dispatched", "Indeterminate"}
      BY <1>3 DEF Settles
    <2>2. state \in States
      BY DEF States
    <2> QED BY <2>1, <2>2, Moved DEF EffectsKept, IInv
  <1> QED
    BY <1>1, <1>2, <1>3 DEF StepKind, AuthorizeGenerationReplacement, SelectPlan, AcquireReplacement,
           NextCompensationStep

-----------------------------------------------------------------------------
(* Types of plans, authorities and steps *)

PlanTypes ==
    /\ plan \in Plans
    /\ authority.kind \in {"none", "revision", "generation", "admitted"}
    /\ authority.kind \in {"revision", "generation"} =>
          authority.plan \in Plans /\ authority.expected = digest(plan)
    /\ authority.kind \in {"generation", "admitted"} =>
          authority.effect \in Effects /\ authority.current \in Projections
    /\ steps \subseteq StepValues

LEMMA SchedulesTyped == Schedules \subseteq Seq(Originals)
  <1> SUFFICES ASSUME NEW s \in Schedules PROVE s \in Seq(Originals)
    OBVIOUS
  <1>1. PICK n \in 1..Cardinality(Originals) : s \in [1..n -> Originals]
    BY DEF Schedules
  <1>2. n \in Nat
    OBVIOUS
  <1> QED BY <1>1, <1>2

LEMMA FirstPlanTyped ==
    ASSUME NEW generation \in Nat
    PROVE  FirstPlan(generation) \in Plans
  <1>1. <<>> \in Seq(Originals)
    OBVIOUS
  <1> QED BY <1>1 DEF FirstPlan, Plans

LEMMA SelectPlanTypes ==
    ASSUME IInv, NEW kind \in {"Forward", "Compensation"}, NEW schedule \in Seq(Originals),
           SelectPlan(kind, schedule)
    PROVE  /\ authority'.kind = "revision"
           /\ authority'.expected = digest(plan)
           /\ authority'.plan \in Plans
           /\ authority'.plan.generation = plan.generation
           /\ authority'.plan.completed =
                 plan.completed \cup {k \in Touched : effects[k].state = "Applied"}
           /\ authority'.plan.schedule = schedule
           /\ UNCHANGED <<plan, steps, effects, late>>
  <1> DEFINE completed == plan.completed \cup {k \in Touched : effects[k].state = "Applied"}
             q == [generation |-> plan.generation, revision |-> plan.revision + 1,
                   kind |-> kind, completed |-> completed, schedule |-> schedule]
  <1>1. plan.generation \in Nat /\ plan.revision + 1 \in Nat /\ plan.completed \subseteq Effects
    BY DEF IInv, TypeInv, Plans
  <1>2. completed \in SUBSET Effects
    BY <1>1 DEF Touched
  <1>3. authority' = [kind |-> "revision", expected |-> digest(plan), plan |-> q]
          /\ UNCHANGED <<plan, steps, effects, late>>
    BY DEF SelectPlan
  <1> HIDE DEF completed
  <1>4. q \in Plans /\ q.generation = plan.generation /\ q.completed = completed
          /\ q.schedule = schedule
    BY <1>1, <1>2 DEF Plans
  <1> HIDE DEF q
  <1> QED BY <1>3, <1>4 DEF completed

LEMMA PlanTypesStep ==
    ASSUME IInv, StepKind
    PROVE  PlanTypes'
  <1> USE DEF IInv, TypeInv
  <1>1. CASE UNCHANGED <<plan, authority, steps>>
    BY <1>1 DEF PlanTypes, digest
  <1>2. ASSUME NEW k \in Effects, NEW s \in StepValues, PrepareStep(k, s)
        PROVE  PlanTypes'
    BY <1>2 DEF PlanTypes, PrepareStep, NoAuthority, digest
  <1>3. ASSUME NEW k \in Effects, AuthorizeGenerationReplacement(k)
        PROVE  PlanTypes'
    <2>1. plan.generation + 1 \in Nat
      BY DEF Plans
    <2>2. FirstPlan(plan.generation + 1) \in Plans /\ effects[k] \in Projections
      BY <2>1, FirstPlanTyped
    <2>3. /\ authority' = [kind |-> "generation", expected |-> digest(plan),
                           plan |-> FirstPlan(plan.generation + 1), effect |-> k,
                           current |-> effects[k]]
          /\ plan' = plan /\ steps' = steps
      BY <1>3 DEF AuthorizeGenerationReplacement
    <2> QED BY <2>2, <2>3 DEF PlanTypes, digest
  <1>4. ASSUME NEW kind \in {"Forward", "Compensation"}, NEW s \in Seq(Originals),
               SelectPlan(kind, s)
        PROVE  PlanTypes'
    BY <1>4, SelectPlanTypes DEF PlanTypes, digest
  <1>5. CASE AcquireReplacement
    <2>1. authority.kind \in {"revision", "generation"} /\ plan' = authority.plan /\ steps' = steps
      BY <1>5 DEF AcquireReplacement
    <2>2. \/ authority' = NoAuthority
          \/ /\ authority.kind = "generation"
             /\ authority' = [kind |-> "admitted", effect |-> authority.effect,
                              current |-> authority.current]
      BY <1>5 DEF AcquireReplacement
    <2> QED BY <2>1, <2>2 DEF PlanTypes, NoAuthority
  <1>6. ASSUME NEW n \in DOMAIN plan.schedule, NextCompensationStep(n)
        PROVE  PlanTypes'
    <2>1. plan.schedule \in Seq(Originals)
      BY DEF Plans
    <2>2. n \in Nat
      BY <2>1
    <2>3. digest(plan) \in Digests
      BY DEF Plans, digest, Digests
    <2>4. [planDigest |-> digest(plan), position |-> n, schedule |-> plan.schedule] \in StepValues
      BY <2>1, <2>2, <2>3 DEF StepValues
    <2> QED BY <1>6, <2>4 DEF NextCompensationStep, PlanTypes, digest
  <1>7. <<>> \in Seq(Originals) /\ Schedules \subseteq Seq(Originals)
    BY SchedulesTyped
  <1> QED BY <1>1, <1>2, <1>3, <1>4, <1>5, <1>6, <1>7 DEF StepKind

-----------------------------------------------------------------------------
(* Generations *)

LEMMA GenerationStep ==
    ASSUME ConstantsTyped, IInv, StepKind
    PROVE  GenerationInv' /\ GenerationsSerialized'
  <1> DEFINE Goal == GenerationInv' /\ GenerationsSerialized'
  <1>0. /\ \A k \in Effects : Generation[k] \in Nat
        /\ plan.generation \in Nat
    BY DEF ConstantsTyped, IInv, TypeInv, Plans
  <1>1. CASE UNCHANGED <<plan, authority, effects, late>>
    BY <1>1 DEF IInv, GenerationInv, GenerationsSerialized, Attempted, Definitive
  <1>2. ASSUME NEW k \in Effects, NEW s \in StepValues, PrepareStep(k, s)
        PROVE  Goal
    <2>1. /\ effects' \in [Effects -> Projections]
          /\ \A j \in Effects : j # k => effects'[j] = effects[j]
      BY <1>2, Prepared DEF PrepareStep, Ready, IInv
    <2>2. MayPrepare(k) /\ plan' = plan /\ (authority' = authority \/ authority' = NoAuthority)
      BY <1>2 DEF PrepareStep, Ready
    <2>3. late \subseteq late' /\ (authority.kind = "generation" => <<k, authority.effect>> \in late')
      BY <1>2 DEF PrepareStep, Ready, NewPreparedAttempt
    <2>4. \A j \in Effects : Attempted(j)' => Generation[j] <= plan.generation
      BY <2>1, <2>2, <1>0 DEF IInv, GenerationInv, Attempted, MayPrepare
    <2>5. ASSUME authority.kind \in {"generation", "admitted"}, NEW old \in Effects,
                 Attempted(old)', Generation[old] < Generation[authority.effect]
          PROVE  \/ Definitive(effects'[old].state)
                 \/ <<old, authority.effect>> \in SafelySuperseded
                 \/ <<old, authority.effect>> \in late'
      <3>1. CASE old = k
        <4>1. Generation[authority.effect] # plan.generation
          BY <3>1, <2>2, <2>5, <1>0 DEF MayPrepare
        <4>2. authority.kind = "generation"
          BY <4>1, <2>5 DEF IInv, GenerationInv
        <4> QED BY <4>2, <3>1, <2>3
      <3>2. CASE old # k
        BY <3>2, <2>1, <2>3, <2>5 DEF IInv, GenerationInv, Attempted
      <3> QED BY <3>1, <3>2
    <2>6. GenerationInv'
      BY <2>2, <2>4, <2>5 DEF IInv, GenerationInv, NoAuthority, FirstPlan
    <2>7. ASSUME NEW old \in Effects, NEW new \in Effects, Generation[old] < Generation[new],
                 Attempted(old)', Attempted(new)'
          PROVE  \/ Definitive(effects'[old].state)
                 \/ <<old, new>> \in SafelySuperseded
                 \/ <<old, new>> \in late'
      <3>1. CASE new = k
        <4>1. old # k /\ effects'[old] = effects[old]
          BY <3>1, <2>1, <2>7, <1>0
        <4> QED BY <4>1, <3>1, <2>2, <2>3, <2>7 DEF MayPrepare, Attempted
      <3>2. CASE old = k
        <4>1. Generation[new] <= plan.generation /\ Generation[old] = plan.generation
          BY <3>2, <2>2, <2>4, <2>7 DEF MayPrepare
        <4> QED BY <4>1, <2>7, <1>0
      <3>3. CASE old # k /\ new # k
        BY <3>3, <2>1, <2>3, <2>7 DEF IInv, GenerationsSerialized, Attempted
      <3> QED BY <3>1, <3>2, <3>3
    <2>8. GenerationsSerialized'
      BY <2>7 DEF GenerationsSerialized
    <2> QED BY <2>6, <2>8
  <1>3. ASSUME NEW k \in Effects, Settles(k), UNCHANGED <<plan, authority, late>>
        PROVE  Goal
    <2>1. PICK state \in {"Dispatched", "Applied", "NoEffect", "Indeterminate"} :
              Moves(k, state) /\ effects[k].state \in {"Prepared", "Dispatched", "Indeterminate"}
      BY <1>3 DEF Settles
    <2>2. state \in States
      BY DEF States
    <2>3. /\ \A j \in Effects : j # k => effects'[j] = effects[j]
          /\ effects'[k].state = state
      BY <2>1, <2>2, Moved DEF IInv
    <2>4. \A j \in Effects : /\ Attempted(j)' <=> Attempted(j)
                             /\ Definitive(effects[j].state) => Definitive(effects'[j].state)
      BY <2>1, <2>3 DEF Attempted, Definitive
    <2>5. GenerationInv'
      BY <1>3, <2>4 DEF IInv, GenerationInv, FirstPlan
    <2>6. GenerationsSerialized'
      BY <1>3, <2>4 DEF IInv, GenerationsSerialized
    <2> QED BY <2>5, <2>6
  <1>4. ASSUME NEW k \in Effects, AuthorizeGenerationReplacement(k)
        PROVE  Goal
    <2>1. /\ authority' = [kind |-> "generation", expected |-> digest(plan),
                           plan |-> FirstPlan(plan.generation + 1), effect |-> k,
                           current |-> effects[k]]
          /\ late' = {pair \in late : Attempted(pair[2])}
          /\ plan' = plan /\ effects' = effects
      BY <1>4 DEF AuthorizeGenerationReplacement
    <2>2. Generation[k] = plan.generation + 1 /\ CheckGenerationDispatch(k)
      BY <1>4 DEF AuthorizeGenerationReplacement, Admissible, FirstPlan
    <2>3. /\ authority'.kind = "generation"
          /\ authority'.plan = FirstPlan(plan.generation + 1)
          /\ authority'.effect = k
      BY <2>1
    <2>4. \A old \in Effects : Attempted(old)' /\ Generation[old] < Generation[k] =>
              Definitive(effects'[old].state) \/ <<old, k>> \in SafelySuperseded
      BY <2>1, <2>2 DEF CheckGenerationDispatch, Attempted
    <2>5. \A j \in Effects : Attempted(j)' => Generation[j] <= plan'.generation
      BY <2>1 DEF IInv, GenerationInv, Attempted
    <2>6. GenerationInv'
      BY <2>1, <2>2, <2>3, <2>4, <2>5 DEF GenerationInv, FirstPlan
    <2>7. \A old, new \in Effects : Attempted(new) /\ <<old, new>> \in late => <<old, new>> \in late'
      BY <2>1
    <2>8. GenerationsSerialized'
      BY <2>1, <2>7 DEF IInv, GenerationsSerialized, Attempted, Definitive
    <2> QED BY <2>6, <2>8
  <1>5. ASSUME NEW kind \in {"Forward", "Compensation"}, NEW s \in Seq(Originals),
               SelectPlan(kind, s)
        PROVE  Goal
    <2>1. authority'.kind = "revision" /\ authority'.plan.generation = plan.generation
            /\ UNCHANGED <<plan, effects, late>>
      BY <1>5, SelectPlanTypes
    <2> QED BY <2>1 DEF IInv, GenerationInv, GenerationsSerialized, Attempted, Definitive
  <1>6. CASE AcquireReplacement
    <2>1. authority.kind \in {"revision", "generation"} /\ plan' = authority.plan
            /\ UNCHANGED <<effects, late>>
      BY <1>6 DEF AcquireReplacement
    <2>2. \/ authority' = NoAuthority
          \/ /\ authority.kind = "generation"
             /\ authority' = [kind |-> "admitted", effect |-> authority.effect,
                              current |-> authority.current]
      BY <1>6 DEF AcquireReplacement
    <2>3. /\ authority.kind = "revision" => plan'.generation = plan.generation
          /\ authority.kind = "generation" => /\ plan'.generation = plan.generation + 1
                                              /\ Generation[authority.effect] = plan'.generation
      BY <2>1 DEF IInv, GenerationInv, FirstPlan
    <2>4. \A j \in Effects : Attempted(j)' => Generation[j] <= plan'.generation
      BY <2>1, <2>3, <1>0 DEF IInv, GenerationInv, Attempted
    <2>5. GenerationInv'
      BY <2>1, <2>2, <2>3, <2>4 DEF IInv, GenerationInv, NoAuthority, Attempted, Definitive
    <2>6. GenerationsSerialized'
      BY <2>1 DEF IInv, GenerationsSerialized, Attempted, Definitive
    <2> QED BY <2>5, <2>6
  <1>7. <<>> \in Seq(Originals) /\ Schedules \subseteq Seq(Originals)
    BY SchedulesTyped
  <1>8. ASSUME NEW n \in DOMAIN plan.schedule, NextCompensationStep(n)
        PROVE  UNCHANGED <<plan, authority, effects, late>>
    BY <1>8 DEF NextCompensationStep
  <1> QED BY <1>1, <1>2, <1>3, <1>4, <1>5, <1>6, <1>7, <1>8 DEF StepKind

-----------------------------------------------------------------------------
(* Compensation *)

\* The least-number principle.
LEMMA Least ==
    ASSUME NEW T, T \subseteq Nat, T # {}
    PROVE  \E m \in T : \A n \in T : m <= n
  <1> DEFINE R == OpToRel(<, Nat)
  <1>1. IsWellFoundedOn(R, Nat)
    BY NatLessThanWellFounded
  <1>2. R = {ss \in Nat \X Nat : ss[1] < ss[2]}
    BY DEF OpToRel
  <1> HIDE DEF R
  <1>3. PICK m \in T : \A n \in T : ~(<<n, m>> \in R)
    BY <1>1, WFMin
  <1>4. ASSUME NEW n \in T PROVE m <= n
    <2>1. <<n, m>> \in Nat \X Nat
      OBVIOUS
    <2>2. <<n, m>> \notin R
      BY <1>3
    <2>3. ~(n < m)
      BY <2>1, <2>2, <1>2
    <2> QED BY <2>3
  <1> QED BY <1>4

\* ValidateCompensationPlan compares neighbours: that orders the whole schedule.
LEMMA Descending ==
    ASSUME ConstantsTyped, NEW s \in Seq(Originals),
           \A i \in 2..Len(s) : DependencyOrder[s[i]] < DependencyOrder[s[i - 1]]
    PROVE  \A i, j \in DOMAIN s : i < j => DependencyOrder[s[j]] < DependencyOrder[s[i]]
  <1> SUFFICES ASSUME NEW i \in DOMAIN s, NEW k \in DOMAIN s, i < k,
                      ~(DependencyOrder[s[k]] < DependencyOrder[s[i]])
               PROVE  FALSE
    OBVIOUS
  <1> DEFINE D == [n \in 1..Len(s) |-> DependencyOrder[s[n]]]
             T == {j \in 1..Len(s) : i < j /\ ~(D[j] < D[i])}
  <1>1. Len(s) \in Nat /\ DOMAIN s = 1..Len(s)
    OBVIOUS
  <1>2. \A n \in 1..Len(s) : D[n] \in Nat
    <2> SUFFICES ASSUME NEW n \in 1..Len(s) PROVE DependencyOrder[s[n]] \in Nat
      OBVIOUS
    <2>1. s[n] \in Originals
      BY <1>1
    <2> QED BY <2>1 DEF ConstantsTyped
  <1>3. \A n \in 2..Len(s) : D[n] < D[n - 1]
    BY <1>1
  <1>4. k \in T /\ i \in 1..Len(s)
    BY <1>1
  <1> HIDE DEF D
  <1>5. PICK m \in T : \A n \in T : m <= n
    <2>1. T \subseteq Nat /\ T # {}
      BY <1>4, <1>1
    <2> HIDE DEF T
    <2> QED BY <2>1, Least
  <1>6. m \in 2..Len(s) /\ m - 1 \in 1..Len(s) /\ i <= m - 1
    BY <1>1, <1>4, <1>5
  <1>7. m - 1 \notin T
    BY <1>5, <1>6
  <1>8. CASE i = m - 1
    BY <1>8, <1>3, <1>5, <1>6
  <1>9. CASE i < m - 1
    <2>1. D[m - 1] < D[i]
      BY <1>6, <1>7, <1>9
    <2>2. D[m] < D[m - 1] /\ ~(D[m] < D[i])
      BY <1>3, <1>5, <1>6
    <2> QED BY <2>1, <2>2, <1>2, <1>4, <1>6, SMTT(30)
  <1> QED BY <1>4, <1>6, <1>8, <1>9

\* What is applied stays so, and with it schedules and steps.
LEMMA UndoesKept ==
    ASSUME ConstantsTyped, EffectsKept, NEW schedule \in Seq(Originals),
           Undoes(effects, schedule)
    PROVE  Undoes(effects', schedule)
  <1>1. \A i \in DOMAIN schedule : schedule[i] \in Effects
    BY DEF ConstantsTyped
  <1> QED BY <1>1 DEF Undoes, EffectsKept

LEMMA StepReadyKept ==
    ASSUME ConstantsTyped, EffectsKept, NEW s \in StepValues, StepReady(effects, s)
    PROVE  StepReady(effects', s)
  <1>1. s.schedule \in Seq(Originals) /\ s.position \in DOMAIN s.schedule
    BY DEF StepValues, StepReady
  <1>2. Undoes(effects', s.schedule)
    BY <1>1, UndoesKept DEF StepReady
  <1>3. ASSUME NEW i \in 1..(s.position - 1)
        PROVE  effects'[Inverse[s.schedule[i]]].state = "Applied"
    <2>1. i \in DOMAIN s.schedule
      BY <1>1
    <2>2. s.schedule[i] \in Originals
      BY <1>1, <2>1
    <2>3. Inverse[s.schedule[i]] \in Effects
      BY <2>2 DEF ConstantsTyped, Inverses
    <2> QED BY <2>3 DEF StepReady, EffectsKept
  <1> QED BY <1>1, <1>2, <1>3 DEF StepReady

\* A plan and the steps there are stay justified.
LEMMA CompensationKept ==
    ASSUME ConstantsTyped, IInv, EffectsKept
    PROVE  /\ \A k \in plan.completed : effects'[k].state = "Applied"
           /\ Undoes(effects', plan.schedule)
           /\ authority.kind = "revision" =>
                 /\ \A k \in authority.plan.completed : effects'[k].state = "Applied"
                 /\ Undoes(effects', authority.plan.schedule)
           /\ \A s \in steps : StepReady(effects', s)
           /\ \A k \in Effects : effects'[k].step.position > 0 =>
                 StepReady(effects', effects'[k].step)
  <1>1. plan.schedule \in Seq(Originals) /\ plan.completed \subseteq Effects
    BY DEF IInv, TypeInv, Plans
  <1>2. authority.kind = "revision" =>
            authority.plan.schedule \in Seq(Originals) /\ authority.plan.completed \subseteq Effects
    BY DEF IInv, TypeInv, Plans
  <1>3. steps \subseteq StepValues /\ effects \in [Effects -> Projections]
    BY DEF IInv, TypeInv
  <1>4. \A k \in plan.completed : effects'[k].state = "Applied"
    BY <1>1 DEF IInv, CompensationInv, EffectsKept
  <1>5. Undoes(effects', plan.schedule)
    BY <1>1, UndoesKept DEF IInv, CompensationInv
  <1>6. ASSUME authority.kind = "revision"
        PROVE  /\ \A k \in authority.plan.completed : effects'[k].state = "Applied"
               /\ Undoes(effects', authority.plan.schedule)
    <2>1. \A k \in authority.plan.completed : effects'[k].state = "Applied"
      BY <1>2, <1>6 DEF IInv, CompensationInv, EffectsKept
    <2>2. Undoes(effects', authority.plan.schedule)
      BY <1>2, <1>6, UndoesKept DEF IInv, CompensationInv
    <2> QED BY <2>1, <2>2
  <1>7. \A s \in steps : StepReady(effects', s)
    BY <1>3, StepReadyKept DEF IInv, CompensationInv
  <1>8. ASSUME NEW k \in Effects, effects'[k].step.position > 0
        PROVE  StepReady(effects', effects'[k].step)
    <2>1. CASE effects'[k].step = effects[k].step
      <3>1. effects[k].step \in StepValues /\ effects[k].step.position > 0
        BY <1>3, <1>8, <2>1 DEF Projections
      <3> QED BY <2>1, <3>1, StepReadyKept DEF IInv, CompensationInv
    <2>2. effects'[k].step # NoStep
      BY <1>8 DEF NoStep
    <2>3. CASE effects'[k].step \in steps
      BY <2>3, <1>7
    <2> QED BY <2>1, <2>2, <2>3 DEF EffectsKept
  <1> QED BY <1>4, <1>5, <1>6, <1>7, <1>8

LEMMA CompensationStep ==
    ASSUME ConstantsTyped, IInv, StepKind
    PROVE  CompensationInv'
  <1>0. EffectsKept
    BY EffectsStep
  <1> DEFINE Kept == CompensationInv'
  <1>1. ASSUME UNCHANGED <<plan, authority, steps>> PROVE Kept
    BY <1>0, <1>1, CompensationKept DEF CompensationInv
  <1>2. ASSUME NEW k \in Effects, NEW s \in StepValues, PrepareStep(k, s) PROVE Kept
    <2>1. UNCHANGED <<plan, steps>> /\ (authority' = authority \/ authority' = NoAuthority)
      BY <1>2 DEF PrepareStep
    <2> QED BY <1>0, <2>1, CompensationKept DEF CompensationInv, NoAuthority
  <1>3. ASSUME NEW k \in Effects, AuthorizeGenerationReplacement(k) PROVE Kept
    <2>1. UNCHANGED <<plan, steps>> /\ authority'.kind = "generation"
      BY <1>3 DEF AuthorizeGenerationReplacement
    <2> QED BY <1>0, <2>1, CompensationKept DEF CompensationInv
  <1>4. ASSUME NEW kind \in {"Forward", "Compensation"}, NEW s \in Seq(Originals),
               SelectPlan(kind, s), kind = "Forward" => s = <<>>
        PROVE  Kept
    <2> DEFINE completed == plan.completed \cup {k \in Touched : effects[k].state = "Applied"}
    <2>1. /\ authority'.plan.completed = completed
          /\ authority'.plan.schedule = s
          /\ UNCHANGED <<plan, steps, effects>>
      BY <1>4, SelectPlanTypes
    <2>2. \A k \in completed : effects[k].state = "Applied"
      BY DEF IInv, CompensationInv
    <2>3. kind = "Compensation" => ValidateCompensationPlan(completed, s)
      BY <1>4 DEF SelectPlan
    <2> HIDE DEF completed
    <2>4. Undoes(effects, s)
      <3>1. CASE kind = "Forward"
        <4>1. DOMAIN s = {}
          BY <3>1, <1>4
        <4> QED BY <4>1 DEF Undoes
      <3>2. CASE kind = "Compensation"
        <4>1. \A i \in DOMAIN s : s[i] \in completed
          BY <3>2, <2>3 DEF ValidateCompensationPlan
        <4>2. \A i \in 2..Len(s) : DependencyOrder[s[i]] < DependencyOrder[s[i - 1]]
          BY <3>2, <2>3 DEF ValidateCompensationPlan
        <4> QED BY <4>1, <4>2, <2>2, Descending DEF Undoes
      <3> QED BY <3>1, <3>2
    <2> QED BY <1>0, <2>1, <2>2, <2>4, CompensationKept DEF CompensationInv
  <1>5. ASSUME AcquireReplacement PROVE Kept
    <2>1. authority.kind \in {"revision", "generation"} /\ plan' = authority.plan
            /\ UNCHANGED <<steps, effects>>
      BY <1>5 DEF AcquireReplacement
    <2>2. authority'.kind \in {"none", "admitted"}
      BY <1>5 DEF AcquireReplacement, NoAuthority
    <2>3. CASE authority.kind = "revision"
      BY <1>0, <2>1, <2>2, <2>3, CompensationKept DEF CompensationInv
    <2>4. CASE authority.kind = "generation"
      <3>1. plan'.completed = {} /\ plan'.schedule = <<>>
        BY <2>1, <2>4 DEF IInv, GenerationInv, FirstPlan
      <3>2. Undoes(effects', plan'.schedule)
        BY <3>1 DEF Undoes
      <3> QED BY <1>0, <2>1, <2>2, <3>1, <3>2, CompensationKept DEF CompensationInv
    <2> QED BY <2>1, <2>3, <2>4
  <1>6. ASSUME NEW n \in DOMAIN plan.schedule, NextCompensationStep(n) PROVE Kept
    <2> DEFINE s == [planDigest |-> digest(plan), position |-> n, schedule |-> plan.schedule]
    <2>1. steps' = steps \cup {s} /\ UNCHANGED <<plan, authority, effects>>
      BY <1>6 DEF NextCompensationStep
    <2>2. s.position = n /\ s.schedule = plan.schedule
      OBVIOUS
    <2>3. \A i \in 1..(n - 1) : effects[Inverse[plan.schedule[i]]].state = "Applied"
      BY <1>6 DEF NextCompensationStep, StepDone
    <2> HIDE DEF s
    <2>4. StepReady(effects, s)
      BY <2>2, <2>3 DEF IInv, CompensationInv, StepReady
    <2> QED BY <1>0, <2>1, <2>4, CompensationKept DEF CompensationInv
  <1>7. <<>> \in Seq(Originals) /\ Schedules \subseteq Seq(Originals)
    BY SchedulesTyped
  <1> QED BY <1>1, <1>2, <1>3, <1>4, <1>5, <1>6, <1>7 DEF StepKind

-----------------------------------------------------------------------------
(* Workers and the calls they leave behind *)

WorkTypes ==
    /\ worker \in [Effects -> {"none", "prepared", "calling", "executed", "failed", "lost"}]
    /\ orphans \in [Effects -> Nat]
    /\ executed \in [Effects -> Nat]

\* The admission of a generation's first mutation is for an effect that may be tried.
AdmissionInv ==
    authority.kind \in {"generation", "admitted"} =>
        \/ authority.current.state \in {"none", "NoEffect"}
        \/ authority.current.state = "Indeterminate" /\ authority.effect \in Idempotent

\* WorkerInv and OnceInv of one effect, with its state, worker, running calls and
\* executions.
Sound(k, state, w, running, done) ==
    /\ w = "prepared" => state = "Prepared"
    /\ w # "none" <=> state \in {"Prepared", "Dispatched"}
    /\ k \notin Idempotent =>
          /\ done + running <= 1
          /\ state \in {"none", "NoEffect"} => done = 0 /\ running = 0
          /\ w \in {"prepared", "calling", "failed"} => done = 0 /\ running = 0
          /\ w = "executed" => done = 1
          /\ state = "Applied" => done = 1

LEMMA AllSound ==
    /\ WorkerInv /\ OnceInv <=>
          /\ AdmissionInv
          /\ \A k \in Effects : Sound(k, effects[k].state, worker[k], orphans[k], executed[k])
    /\ (WorkerInv /\ OnceInv)' <=>
          /\ AdmissionInv'
          /\ \A k \in Effects : Sound(k, effects'[k].state, worker'[k], orphans'[k], executed'[k])
  BY DEF WorkerInv, OnceInv, AdmissionInv, Sound

\* A call that is carried out counts once.
LEMMA SoundExecuted ==
    ASSUME NEW k, NEW state, NEW o \in Nat, NEW x \in Nat, Sound(k, state, "calling", o, x)
    PROVE  Sound(k, state, "executed", o, x + 1)
  BY DEF Sound

\* A worker that leaves its call running behind a resolved attempt.
LEMMA SoundResolved ==
    ASSUME NEW k, NEW state, NEW w \in {"calling", "executed", "failed"},
           NEW o \in Nat, NEW x \in Nat, Sound(k, state, w, o, x),
           NEW outcome \in {"Applied", "NoEffect", "Indeterminate"},
           outcome = "Applied" => w = "executed",
           outcome = "NoEffect" => w = "failed",
           NEW p, p = IF w = "calling" THEN o + 1 ELSE o
    PROVE  Sound(k, outcome, "none", p, x)
  <1>1. CASE w = "calling"
    BY <1>1 DEF Sound
  <1>2. CASE w = "executed"
    BY <1>2 DEF Sound
  <1>3. CASE w = "failed"
    BY <1>3 DEF Sound
  <1> QED BY <1>1, <1>2, <1>3

\* A worker that dies leaves its call running.
LEMMA SoundLost ==
    ASSUME NEW k, NEW state, NEW w \in {"prepared", "calling", "executed", "failed"},
           NEW o \in Nat, NEW x \in Nat, Sound(k, state, w, o, x),
           NEW p, p = IF w = "calling" THEN o + 1 ELSE o
    PROVE  Sound(k, state, "lost", p, x)
  <1>1. CASE w = "calling"
    BY <1>1 DEF Sound
  <1>2. CASE w # "calling"
    BY <1>2 DEF Sound
  <1> QED BY <1>1, <1>2

\* An observation says what the provider has done.
LEMMA SoundObserved ==
    ASSUME NEW k, NEW w, NEW o \in Nat, NEW x \in Nat, Sound(k, "Indeterminate", w, o, x),
           NEW state \in {"Applied", "NoEffect"},
           state = "Applied" => x > 0,
           state = "NoEffect" => x = 0 /\ o = 0
    PROVE  Sound(k, state, w, o, x)
  <1>1. w = "none"
    BY DEF Sound
  <1> QED BY <1>1 DEF Sound

Attempts == WorkTypes /\ WorkerInv /\ OnceInv

\* A step that concerns one effect is judged there.
LEMMA Locally ==
    ASSUME IInv, NEW k \in Effects, WorkTypes', AdmissionInv',
           \A j \in Effects : j # k =>
               /\ effects'[j].state = effects[j].state
               /\ worker'[j] = worker[j]
               /\ orphans'[j] = orphans[j]
               /\ executed'[j] = executed[j],
           Sound(k, effects'[k].state, worker'[k], orphans'[k], executed'[k])
    PROVE  Attempts'
  <1>1. \A j \in Effects : Sound(j, effects[j].state, worker[j], orphans[j], executed[j])
    BY AllSound DEF IInv
  <1>2. ASSUME NEW j \in Effects
        PROVE  Sound(j, effects'[j].state, worker'[j], orphans'[j], executed'[j])
    <2>1. CASE j = k
      BY <2>1
    <2>2. CASE j # k
      BY <2>2, <1>1
    <2> QED BY <2>1, <2>2
  <1> QED BY <1>2, AllSound DEF Attempts

\* An effect, as the invariant has it.
LEMMA SoundBefore ==
    ASSUME IInv, NEW k \in Effects
    PROVE  /\ Sound(k, effects[k].state, worker[k], orphans[k], executed[k])
           /\ worker[k] \in {"none", "prepared", "calling", "executed", "failed", "lost"}
           /\ effects[k].state \in States
           /\ orphans[k] \in Nat
           /\ executed[k] \in Nat
  <1>1. Sound(k, effects[k].state, worker[k], orphans[k], executed[k])
    BY AllSound DEF IInv
  <1>2. effects[k] \in Projections
    BY DEF IInv, TypeInv
  <1> QED BY <1>1, <1>2 DEF IInv, TypeInv, Projections

\* Counts of one effect.
LEMMA Counted ==
    ASSUME NEW f \in [Effects -> Nat], NEW k \in Effects
    PROVE  /\ [f EXCEPT ![k] = @ + 1] \in [Effects -> Nat]
           /\ [f EXCEPT ![k] = @ + 1][k] = f[k] + 1
           /\ f[k] > 0 => /\ [f EXCEPT ![k] = @ - 1] \in [Effects -> Nat]
                          /\ [f EXCEPT ![k] = @ - 1][k] = f[k] - 1
           /\ \A j \in Effects : j # k => /\ [f EXCEPT ![k] = @ + 1][j] = f[j]
                                          /\ [f EXCEPT ![k] = @ - 1][j] = f[j]
  OBVIOUS

LEMMA Left ==
    ASSUME IInv, NEW k \in Effects, NEW next \in {"none", "lost"}, Leave(k, next)
    PROVE  /\ worker' \in [Effects -> {"none", "prepared", "calling", "executed", "failed", "lost"}]
           /\ orphans' \in [Effects -> Nat]
           /\ worker'[k] = next
           /\ orphans'[k] = IF worker[k] = "calling" THEN orphans[k] + 1 ELSE orphans[k]
           /\ \A j \in Effects : j # k => worker'[j] = worker[j] /\ orphans'[j] = orphans[j]
  <1>1. /\ worker \in [Effects -> {"none", "prepared", "calling", "executed", "failed", "lost"}]
        /\ orphans \in [Effects -> Nat]
    BY DEF IInv, TypeInv
  <1>2. worker' = [worker EXCEPT ![k] = next]
    BY DEF Leave
  <1>3. \/ worker[k] = "calling" /\ orphans' = [orphans EXCEPT ![k] = @ + 1]
        \/ worker[k] # "calling" /\ orphans' = orphans
    BY DEF Leave
  <1>4. /\ worker' \in [Effects -> {"none", "prepared", "calling", "executed", "failed", "lost"}]
        /\ worker'[k] = next
        /\ \A j \in Effects : j # k => worker'[j] = worker[j]
    BY <1>1, <1>2
  <1>5. /\ orphans' \in [Effects -> Nat]
        /\ orphans'[k] = IF worker[k] = "calling" THEN orphans[k] + 1 ELSE orphans[k]
        /\ \A j \in Effects : j # k => orphans'[j] = orphans[j]
    BY <1>1, <1>3, Counted
  <1> QED BY <1>4, <1>5

\* The attempt of one effect, from preparation to recovery and observation.
LEMMA AttemptStep ==
    ASSUME IInv, NEW k \in Effects,
           \/ MarkAttemptDispatched(k)
           \/ CommitDispatched(k)
           \/ ProviderAnswers(k)
           \/ OrphanEnds(k)
           \/ \E outcome \in {"Applied", "NoEffect", "Indeterminate"} : ResolveAttempt(k, outcome)
           \/ RecoverUndispatched(k)
           \/ Crash(k)
           \/ Recover(k)
           \/ Observe(k)
    PROVE  Attempts'
  <1>0. /\ Sound(k, effects[k].state, worker[k], orphans[k], executed[k])
        /\ worker[k] \in {"none", "prepared", "calling", "executed", "failed", "lost"}
        /\ effects[k].state \in States
        /\ orphans[k] \in Nat
        /\ executed[k] \in Nat
    BY SoundBefore
  <1>a. /\ worker \in [Effects -> {"none", "prepared", "calling", "executed", "failed", "lost"}]
        /\ orphans \in [Effects -> Nat]
        /\ executed \in [Effects -> Nat]
    BY DEF IInv, TypeInv
  <1>b. AdmissionInv
    BY AllSound DEF IInv
  <1>1. CASE MarkAttemptDispatched(k)
    <2>1. worker[k] = "prepared" /\ worker' = [worker EXCEPT ![k] = "calling"]
            /\ UNCHANGED <<authority, effects, orphans, executed>>
      BY <1>1 DEF MarkAttemptDispatched, planVars, providerVars
    <2>2. AdmissionInv' /\ WorkTypes'
      BY <1>a, <1>b, <2>1 DEF AdmissionInv, WorkTypes
    <2>3. worker'[k] = "calling" /\ \A j \in Effects : j # k => worker'[j] = worker[j]
      BY <1>a, <2>1
    <2>4. Sound(k, effects'[k].state, worker'[k], orphans'[k], executed'[k])
      BY <1>0, <2>1, <2>3 DEF Sound
    <2> QED BY <2>1, <2>2, <2>3, <2>4, Locally
  <1>2. CASE CommitDispatched(k)
    <2>1. worker[k] \in {"calling", "executed", "failed"} /\ Moves(k, "Dispatched")
            /\ UNCHANGED <<authority, worker, orphans, executed>>
      BY <1>2 DEF CommitDispatched, Moves, planVars, providerVars
    <2>2. AdmissionInv' /\ WorkTypes'
      BY <1>a, <1>b, <2>1 DEF AdmissionInv, WorkTypes
    <2>3. effects'[k].state = "Dispatched" /\ \A j \in Effects : j # k => effects'[j] = effects[j]
      BY <2>1, Moved DEF States, IInv
    <2>4. Sound(k, effects'[k].state, worker'[k], orphans'[k], executed'[k])
      BY <1>0, <2>1, <2>3 DEF Sound
    <2> QED BY <2>1, <2>2, <2>3, <2>4, Locally
  <1>3. CASE ProviderAnswers(k)
    <2>1. worker[k] = "calling" /\ UNCHANGED <<authority, effects, orphans>>
      BY <1>3 DEF ProviderAnswers, planVars
    <2>2. CASE worker' = [worker EXCEPT ![k] = "executed"]
                 /\ executed' = [executed EXCEPT ![k] = @ + 1]
      <3>1. /\ worker'[k] = "executed"
            /\ worker' \in [Effects -> {"none", "prepared", "calling", "executed", "failed", "lost"}]
            /\ \A j \in Effects : j # k => worker'[j] = worker[j]
        BY <1>a, <2>2
      <3>2. /\ executed'[k] = executed[k] + 1
            /\ executed' \in [Effects -> Nat]
            /\ \A j \in Effects : j # k => executed'[j] = executed[j]
        BY <1>a, <2>2, Counted
      <3>3. AdmissionInv' /\ WorkTypes'
        BY <1>a, <1>b, <2>1, <3>1, <3>2 DEF AdmissionInv, WorkTypes
      <3>4. Sound(k, effects'[k].state, worker'[k], orphans'[k], executed'[k])
        BY <1>0, <2>1, <3>1, <3>2, SoundExecuted
      <3> QED BY <2>1, <3>1, <3>2, <3>3, <3>4, Locally
    <2>3. CASE worker' = [worker EXCEPT ![k] = "failed"] /\ executed' = executed
      <3>1. /\ worker'[k] = "failed"
            /\ worker' \in [Effects -> {"none", "prepared", "calling", "executed", "failed", "lost"}]
            /\ \A j \in Effects : j # k => worker'[j] = worker[j]
        BY <1>a, <2>3
      <3>3. AdmissionInv' /\ WorkTypes'
        BY <1>a, <1>b, <2>1, <2>3, <3>1 DEF AdmissionInv, WorkTypes
      <3>4. Sound(k, effects'[k].state, worker'[k], orphans'[k], executed'[k])
        BY <1>0, <2>1, <2>3, <3>1 DEF Sound
      <3> QED BY <2>1, <2>3, <3>1, <3>3, <3>4, Locally
    <2> QED BY <1>3, <2>2, <2>3 DEF ProviderAnswers
  <1>4. CASE OrphanEnds(k)
    <2>1. orphans[k] > 0 /\ orphans' = [orphans EXCEPT ![k] = @ - 1]
            /\ UNCHANGED <<authority, effects, worker>>
      BY <1>4 DEF OrphanEnds, planVars
    <2>2. /\ orphans'[k] = orphans[k] - 1
          /\ orphans' \in [Effects -> Nat]
          /\ \A j \in Effects : j # k => orphans'[j] = orphans[j]
      BY <1>a, <2>1, Counted
    <2>3. /\ executed'[k] \in {executed[k], executed[k] + 1}
          /\ executed' \in [Effects -> Nat]
          /\ \A j \in Effects : j # k => executed'[j] = executed[j]
      <3>1. executed' = executed \/ executed' = [executed EXCEPT ![k] = @ + 1]
        BY <1>4 DEF OrphanEnds
      <3> QED BY <1>a, <3>1, Counted
    <2>4. AdmissionInv' /\ WorkTypes'
      BY <1>a, <1>b, <2>1, <2>2, <2>3 DEF AdmissionInv, WorkTypes
    <2>5. Sound(k, effects'[k].state, worker'[k], orphans'[k], executed'[k])
      BY <1>0, <2>1, <2>2, <2>3 DEF Sound
    <2> QED BY <2>1, <2>2, <2>3, <2>4, <2>5, Locally
  <1>5. ASSUME NEW outcome \in {"Applied", "NoEffect", "Indeterminate"}, ResolveAttempt(k, outcome)
        PROVE  Attempts'
    <2>1. /\ worker[k] \in {"calling", "executed", "failed"}
          /\ outcome = "Applied" => worker[k] = "executed"
          /\ outcome = "NoEffect" => worker[k] = "failed"
          /\ Moves(k, outcome)
          /\ Leave(k, "none")
          /\ UNCHANGED <<authority, executed>>
      BY <1>5 DEF ResolveAttempt, Outcomes, Moves, planVars
    <2>2. effects'[k].state = outcome /\ \A j \in Effects : j # k => effects'[j] = effects[j]
      BY <2>1, Moved DEF States, IInv
    <2>3. /\ worker' \in [Effects -> {"none", "prepared", "calling", "executed", "failed", "lost"}]
          /\ orphans' \in [Effects -> Nat]
          /\ worker'[k] = "none"
          /\ orphans'[k] = IF worker[k] = "calling" THEN orphans[k] + 1 ELSE orphans[k]
          /\ \A j \in Effects : j # k => worker'[j] = worker[j] /\ orphans'[j] = orphans[j]
      BY <2>1, Left
    <2>4. AdmissionInv' /\ WorkTypes'
      BY <1>a, <1>b, <2>1, <2>3 DEF AdmissionInv, WorkTypes
    <2>5. Sound(k, effects'[k].state, worker'[k], orphans'[k], executed'[k])
      <3>1. PICK w, o, x, p : /\ w = worker[k] /\ o = orphans[k] /\ x = executed[k]
                              /\ p = orphans'[k]
        OBVIOUS
      <3>2. /\ w \in {"calling", "executed", "failed"} /\ o \in Nat /\ x \in Nat
            /\ Sound(k, effects[k].state, w, o, x)
            /\ outcome = "Applied" => w = "executed"
            /\ outcome = "NoEffect" => w = "failed"
            /\ p = IF w = "calling" THEN o + 1 ELSE o
        BY <1>0, <2>1, <2>3, <3>1, Zenon
      <3>3. Sound(k, outcome, "none", p, x)
        BY <3>2, SoundResolved
      <3>4. executed' = executed
        BY <2>1
      <3> QED BY <2>2, <2>3, <3>1, <3>3, <3>4
    <2> QED BY <2>1, <2>2, <2>3, <2>4, <2>5, Locally
  <1>6. CASE RecoverUndispatched(k)
    <2>1. worker[k] = "prepared" /\ Moves(k, "NoEffect") /\ worker' = [worker EXCEPT ![k] = "none"]
            /\ UNCHANGED <<authority, orphans, executed>>
      BY <1>6 DEF RecoverUndispatched, Moves, planVars, providerVars
    <2>2. effects'[k].state = "NoEffect" /\ \A j \in Effects : j # k => effects'[j] = effects[j]
      BY <2>1, Moved DEF States, IInv
    <2>3. worker'[k] = "none" /\ \A j \in Effects : j # k => worker'[j] = worker[j]
      BY <1>a, <2>1
    <2>4. AdmissionInv' /\ WorkTypes'
      BY <1>a, <1>b, <2>1 DEF AdmissionInv, WorkTypes
    <2>5. Sound(k, effects'[k].state, worker'[k], orphans'[k], executed'[k])
      BY <1>0, <2>1, <2>2, <2>3 DEF Sound
    <2> QED BY <2>1, <2>2, <2>3, <2>4, <2>5, Locally
  <1>7. CASE Crash(k)
    <2>1. worker[k] \in {"prepared", "calling", "executed", "failed"} /\ Leave(k, "lost")
            /\ UNCHANGED <<authority, effects, executed>>
      BY <1>7 DEF Crash, planVars
    <2>3. /\ worker' \in [Effects -> {"none", "prepared", "calling", "executed", "failed", "lost"}]
          /\ orphans' \in [Effects -> Nat]
          /\ worker'[k] = "lost"
          /\ orphans'[k] = IF worker[k] = "calling" THEN orphans[k] + 1 ELSE orphans[k]
          /\ \A j \in Effects : j # k => worker'[j] = worker[j] /\ orphans'[j] = orphans[j]
      BY <2>1, Left
    <2>4. AdmissionInv' /\ WorkTypes'
      BY <1>a, <1>b, <2>1, <2>3 DEF AdmissionInv, WorkTypes
    <2>5. Sound(k, effects'[k].state, worker'[k], orphans'[k], executed'[k])
      BY <1>0, <2>1, <2>3, SoundLost
    <2> QED BY <2>1, <2>3, <2>4, <2>5, Locally
  <1>8. CASE Recover(k)
    <2>1. worker[k] = "lost" /\ Moves(k, "Indeterminate") /\ worker' = [worker EXCEPT ![k] = "none"]
            /\ UNCHANGED <<authority, orphans, executed>>
      BY <1>8, RecoverMoves DEF Recover, planVars, providerVars
    <2>2. effects'[k].state = "Indeterminate" /\ \A j \in Effects : j # k => effects'[j] = effects[j]
      BY <2>1, Moved DEF States, IInv
    <2>3. worker'[k] = "none" /\ \A j \in Effects : j # k => worker'[j] = worker[j]
      BY <1>a, <2>1
    <2>4. AdmissionInv' /\ WorkTypes'
      BY <1>a, <1>b, <2>1 DEF AdmissionInv, WorkTypes
    <2>5. Sound(k, effects'[k].state, worker'[k], orphans'[k], executed'[k])
      BY <1>0, <2>1, <2>2, <2>3 DEF Sound
    <2> QED BY <2>1, <2>2, <2>3, <2>4, <2>5, Locally
  <1>9. CASE Observe(k)
    <2>1. effects[k].state = "Indeterminate" /\ UNCHANGED <<authority, worker, orphans, executed>>
      BY <1>9 DEF Observe, planVars, providerVars
    <2>2. PICK state \in {"Applied", "NoEffect"} :
              /\ Moves(k, state)
              /\ state = "Applied" => executed[k] > 0
              /\ state = "NoEffect" => executed[k] = 0 /\ orphans[k] = 0
      BY <1>9 DEF Observe, Moves
    <2>3. effects'[k].state = state /\ \A j \in Effects : j # k => effects'[j] = effects[j]
      BY <2>2, Moved DEF States, IInv
    <2>4. AdmissionInv' /\ WorkTypes'
      BY <1>a, <1>b, <2>1 DEF AdmissionInv, WorkTypes
    <2>5. Sound(k, effects'[k].state, worker'[k], orphans'[k], executed'[k])
      <3>1. PICK w, o, x : w = worker[k] /\ o = orphans[k] /\ x = executed[k]
        OBVIOUS
      <3>2. /\ o \in Nat /\ x \in Nat /\ Sound(k, "Indeterminate", w, o, x)
            /\ state = "Applied" => x > 0
            /\ state = "NoEffect" => x = 0 /\ o = 0
        BY <1>0, <2>1, <2>2, <3>1, Zenon
      <3>3. Sound(k, state, w, o, x)
        BY <3>2, SoundObserved
      <3> QED BY <2>1, <2>3, <3>1, <3>3
    <2> QED BY <2>1, <2>3, <2>4, <2>5, Locally
  <1> QED BY <1>1, <1>2, <1>3, <1>4, <1>5, <1>6, <1>7, <1>8, <1>9

LEMMA AttemptsStep ==
    ASSUME IInv, [Next]_vars
    PROVE  Attempts'
  <1>a. WorkTypes /\ AdmissionInv
          /\ \A k \in Effects : Sound(k, effects[k].state, worker[k], orphans[k], executed[k])
    BY AllSound DEF IInv, TypeInv, WorkTypes
  <1>1. ASSUME UNCHANGED <<effects, worker, orphans, executed>>, AdmissionInv' PROVE Attempts'
    <2>1. \A k \in Effects : Sound(k, effects'[k].state, worker'[k], orphans'[k], executed'[k])
      BY <1>a, <1>1
    <2>2. WorkTypes'
      BY <1>a, <1>1 DEF WorkTypes
    <2> QED BY <1>1, <2>1, <2>2, AllSound DEF Attempts
  <1>2. ASSUME NEW k \in Effects, NEW s \in StepValues, Ready(k, s),
               authority' = authority \/ authority' = NoAuthority
        PROVE  Attempts'
    <2>1. /\ effects' \in [Effects -> Projections]
          /\ \A j \in Effects : j # k => effects'[j] = effects[j]
          /\ effects'[k].state = "Prepared"
          /\ worker' = [worker EXCEPT ![k] = "prepared"]
          /\ orphans' = orphans
          /\ executed' = executed
      BY <1>2, Prepared DEF Ready, IInv
    <2>2. worker'[k] = "prepared" /\ \A j \in Effects : j # k => worker'[j] = worker[j]
      BY <1>a, <2>1 DEF WorkTypes
    <2>3. WorkTypes' /\ AdmissionInv'
      BY <1>a, <1>2, <2>1 DEF WorkTypes, AdmissionInv, NoAuthority
    <2>4. Sound(k, effects[k].state, worker[k], orphans[k], executed[k])
            /\ orphans[k] \in Nat /\ executed[k] \in Nat
      BY SoundBefore
    <2>5. Sound(k, effects'[k].state, worker'[k], orphans'[k], executed'[k])
      BY <1>2, <2>1, <2>2, <2>4 DEF Sound, Ready, MayPrepare
    <2> QED BY <2>1, <2>2, <2>3, <2>5, Locally
  <1>3. ASSUME NEW k \in Effects, AuthorizeGenerationReplacement(k) PROVE Attempts'
    <2>1. /\ authority' = [kind |-> "generation", expected |-> digest(plan),
                           plan |-> FirstPlan(plan.generation + 1), effect |-> k,
                           current |-> effects[k]]
          /\ UNCHANGED <<effects, worker, orphans, executed>>
          /\ CheckRetry(k)
      BY <1>3 DEF AuthorizeGenerationReplacement, providerVars, Admissible
    <2>2. authority'.effect = k /\ authority'.current = effects[k]
      BY <2>1
    <2>3. AdmissionInv'
      BY <2>1, <2>2 DEF AdmissionInv, CheckRetry
    <2> QED BY <1>1, <2>1, <2>3
  <1>4. ASSUME NEW kind, NEW s, SelectPlan(kind, s) PROVE Attempts'
    <2>1. authority'.kind = "revision" /\ UNCHANGED <<effects, worker, orphans, executed>>
      BY <1>4 DEF SelectPlan, providerVars
    <2> QED BY <1>1, <2>1 DEF AdmissionInv
  <1>5. CASE AcquireReplacement
    <2>1. /\ worker' = [k \in Effects |-> IF worker[k] = "none" THEN "none" ELSE "lost"]
          /\ UNCHANGED <<effects, orphans, executed>>
      BY <1>5 DEF AcquireReplacement, providerVars
    <2>2. AdmissionInv'
      BY <1>5, <1>a DEF AcquireReplacement, AdmissionInv, NoAuthority
    <2>3. WorkTypes'
      BY <2>1, <1>a DEF WorkTypes
    <2>4. ASSUME NEW k \in Effects
          PROVE  Sound(k, effects'[k].state, worker'[k], orphans'[k], executed'[k])
      <3>1. worker'[k] = IF worker[k] = "none" THEN "none" ELSE "lost"
        BY <2>1
      <3> QED BY <1>a, <2>1, <3>1 DEF Sound
    <2> QED BY <2>2, <2>3, <2>4, AllSound DEF Attempts
  <1>6. ASSUME NEW n \in DOMAIN plan.schedule, NextCompensationStep(n) PROVE Attempts'
    <2>1. UNCHANGED <<authority, effects, worker, orphans, executed>>
      BY <1>6 DEF NextCompensationStep, providerVars
    <2> QED BY <1>1, <1>a, <2>1 DEF AdmissionInv
  <1>7. CASE UNCHANGED vars
    <2>1. UNCHANGED <<authority, effects, worker, orphans, executed>>
      BY <1>7 DEF vars, planVars, providerVars
    <2> QED BY <1>1, <1>a, <2>1 DEF AdmissionInv
  <1>8. CASE Next
    <2>1. ASSUME \/ \E k \in Effects : PrepareForward(k)
                                        \/ \E s \in steps : PrepareCompensation(k, s)
                 \/ PrepareReplacementAttempt
          PROVE  Attempts'
      BY <1>2, <2>1, PrepareCases
    <2> QED BY <1>3, <1>4, <1>5, <1>6, <1>8, <2>1, AttemptStep DEF Next
  <1> QED BY <1>7, <1>8

-----------------------------------------------------------------------------
(* The theorems *)

LEMMA InvInit ==
    ASSUME ConstantsTyped, Init
    PROVE  IInv
  <1> DEFINE r == [state |-> "none", planDigest |-> <<0, 0>>, step |-> NoStep]
  <1>1. /\ r \in Projections
        /\ r.state = "none"
        /\ r.step.position = 0
    BY NoStepTyped DEF Projections, States, Digests, NoStep
  <1>2. effects = [k \in Effects |-> r] /\ authority.kind = "none" /\ plan = FirstPlan(1)
          /\ steps = {}
    BY DEF Init, NoAuthority
  <1>3. worker = [k \in Effects |-> "none"] /\ orphans = [k \in Effects |-> 0]
          /\ executed = [k \in Effects |-> 0]
    BY DEF Init
  <1> HIDE DEF r
  <1>4. FirstPlan(1) \in Plans
    BY FirstPlanTyped
  <1>5. TypeInv
    BY <1>1, <1>2, <1>3, <1>4 DEF TypeInv
  <1>6. WorkerInv /\ OnceInv
    BY <1>1, <1>2, <1>3 DEF WorkerInv, OnceInv
  <1>7. GenerationInv /\ GenerationsSerialized
    BY <1>1, <1>2 DEF GenerationInv, GenerationsSerialized, Attempted
  <1>8. plan.completed = {} /\ plan.schedule = <<>>
    BY <1>2 DEF FirstPlan
  <1>9. CompensationInv
    BY <1>1, <1>2, <1>8 DEF CompensationInv, Undoes
  <1> QED BY <1>5, <1>6, <1>7, <1>9 DEF IInv

LEMMA InvStep ==
    ASSUME ConstantsTyped, IInv, [Next]_vars
    PROVE  IInv'
  <1>1. StepKind
    BY StepCases
  <1>2. TypeInv'
    BY <1>1, PlanTypesStep, EffectsStep, AttemptsStep DEF TypeInv, PlanTypes, EffectsKept, Attempts,
       WorkTypes
  <1>3. (WorkerInv /\ OnceInv)'
    BY AttemptsStep DEF Attempts
  <1>4. (GenerationInv /\ GenerationsSerialized /\ CompensationInv)'
    BY <1>1, GenerationStep, CompensationStep
  <1> QED BY <1>2, <1>3, <1>4 DEF IInv

\* The inductive invariant holds: an attempt without result belongs to a worker,
\* nothing else is running of what must not be repeated, the generations and the
\* compensation schedules are in order (all of Next).
THEOREM Invariant == ConstantsTyped => (Spec => []IInv)
  <1> SUFFICES ASSUME ConstantsTyped PROVE Spec => []IInv
    OBVIOUS
  <1>1. Init => IInv
    BY InvInit
  <1>2. IInv /\ [Next]_vars => IInv'
    BY InvStep
  <1> QED BY <1>1, <1>2, PTL DEF Spec

\* An effect the adapter cannot repeat safely is carried out at most once, over any
\* number of crashes, recoveries, retries, plans and generations, and a definitive
\* projection tells the truth (CheckRetry, RecoverAttempt, RecoveryForCrash).
THEOREM EffectsCarriedOutOnce == ConstantsTyped => (Spec => []EffectsHappenOnce)
  <1> SUFFICES ASSUME ConstantsTyped PROVE Spec => []EffectsHappenOnce
    OBVIOUS
  <1>1. IInv => EffectsHappenOnce
    <2> SUFFICES ASSUME IInv, NEW k \in Effects \ Idempotent
                 PROVE  /\ executed[k] <= 1
                        /\ effects[k].state = "Applied" => executed[k] = 1
                        /\ effects[k].state = "NoEffect" => executed[k] = 0 /\ orphans[k] = 0
      BY DEF EffectsHappenOnce
    <2>1. /\ Sound(k, effects[k].state, worker[k], orphans[k], executed[k])
          /\ orphans[k] \in Nat
          /\ executed[k] \in Nat
      BY SoundBefore
    <2> QED BY <2>1 DEF Sound
  <1> QED BY <1>1, Invariant, PTL

\* When an effect of a newer generation has been attempted, every older one is
\* settled, superseded by proof, or was prepared between the authorization of the
\* replacement and the replacement (CheckGenerationDispatch,
\* AuthorizeGenerationReplacement).
THEOREM GenerationsInOrder == ConstantsTyped => (Spec => []GenerationsSerialized)
  <1> SUFFICES ASSUME ConstantsTyped PROVE Spec => []GenerationsSerialized
    OBVIOUS
  <1>1. IInv => GenerationsSerialized
    BY DEF IInv
  <1> QED BY <1>1, Invariant, PTL

\* Compensation undoes applied effects only, and each after everything in its
\* schedule that depends on it, also when steps of an earlier plan are presented
\* (ValidateCompensationPlan, NextCompensationStep).
THEOREM CompensationInOrder == ConstantsTyped => (Spec => []InversesInOrder)
  <1> SUFFICES ASSUME ConstantsTyped PROVE Spec => []InversesInOrder
    OBVIOUS
  <1>1. IInv => InversesInOrder
    <2> SUFFICES ASSUME IInv, NEW k \in Effects, effects[k].step.position > 0
                 PROVE  LET s == effects[k].step
                            original == s.schedule[s.position]
                        IN  /\ effects[original].state = "Applied"
                            /\ \A i \in DOMAIN s.schedule :
                                  DependencyOrder[s.schedule[i]] > DependencyOrder[original] =>
                                      effects[Inverse[s.schedule[i]]].state = "Applied"
      BY DEF InversesInOrder
    <2> DEFINE s == effects[k].step
               original == s.schedule[s.position]
    <2>1. StepReady(effects, s) /\ s \in StepValues
      BY DEF IInv, CompensationInv, TypeInv, Projections
    <2> HIDE DEF s
    <2>2. s.schedule \in Seq(Originals) /\ s.position \in DOMAIN s.schedule
      BY <2>1 DEF StepValues, StepReady
    <2>3. effects[original].state = "Applied"
      BY <2>1, <2>2 DEF StepReady, Undoes
    <2>4. \A i \in DOMAIN s.schedule : DependencyOrder[s.schedule[i]] \in Nat
      BY <2>2 DEF ConstantsTyped
    <2>5. ASSUME NEW i \in DOMAIN s.schedule,
                 DependencyOrder[s.schedule[i]] > DependencyOrder[original]
          PROVE  effects[Inverse[s.schedule[i]]].state = "Applied"
      <3>1. s.position < i => DependencyOrder[s.schedule[i]] < DependencyOrder[original]
        BY <2>1, <2>2 DEF StepReady, Undoes
      <3>2. i \in 1..(s.position - 1)
        BY <3>1, <2>2, <2>4, <2>5
      <3> QED BY <3>2, <2>1 DEF StepReady
    <2> QED BY <2>3, <2>5 DEF s
  <1> QED BY <1>1, Invariant, PTL

\* What is recorded as applied stays so: no retry, recovery, replacement or late
\* result takes it back, and no effect becomes unattempted again (CheckRetry,
\* CommitAttempt, PrepareReplacementAttempt).
THEOREM AppliedForGood ==
    ConstantsTyped =>
        (Spec => [][\A k \in Effects :
                       /\ effects[k].state = "Applied" => effects'[k].state = "Applied"
                       /\ Attempted(k) => Attempted(k)']_vars)
  <1> SUFFICES ASSUME ConstantsTyped
               PROVE  Spec => [][\A k \in Effects :
                                    /\ effects[k].state = "Applied" => effects'[k].state = "Applied"
                                    /\ Attempted(k) => Attempted(k)']_vars
    OBVIOUS
  <1>1. IInv /\ [Next]_vars =>
            [\A k \in Effects : /\ effects[k].state = "Applied" => effects'[k].state = "Applied"
                                /\ Attempted(k) => Attempted(k)']_vars
    BY StepCases, EffectsStep DEF EffectsKept, Attempted
  <1> QED BY <1>1, Invariant, PTL DEF Spec

=============================================================================
