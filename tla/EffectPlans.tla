----------------------------- MODULE EffectPlans -----------------------------
(***************************************************************************)
(* The provider effects of one resource lineage across crashes, retries,   *)
(* plan revisions, compensation and a new desired generation (attempt.go,  *)
(* admission.go, planning.go and model.go of package reconciliation).      *)
(*                                                                         *)
(* effects holds the durable projections; an attempt lives in the memory   *)
(* of its worker from preparation to the commit of its result, and the     *)
(* provider may still carry out a call whose worker is gone.  A plan is    *)
(* replaced in two calls, one that mints the authority and one that moves  *)
(* the lease, and work under the old plan goes on between them.  The       *)
(* operation is not cancelled; how an observation comes to its answer is   *)
(* module EffectObservation, and who holds the lease is LeaseTable.        *)
(***************************************************************************)
EXTENDS Integers, Sequences, FiniteSets

CONSTANTS
    Effects,           \* effect keys
    Generation,        \* the generation (and operation) of each key
    Inverse,           \* the qualified inverse of each effect that has one
    DependencyOrder,   \* of each effect that has an inverse
    Idempotent,        \* keys the adapter can prove safe to retry
    SafelySuperseded,  \* <<prior, candidate>> pairs the adapter qualifies
    MaxRevision,       \* bound on plan revisions
    MaxAttempts        \* bound on the attempts of all effects

VARIABLES
    plan,       \* the plan the lease is bound to
    authority,  \* the LeaseReplacementAuthority last minted
    steps,      \* every CompensationStep ever returned
    effects,    \* the durable projection of each effect
    worker,     \* what the owner of the effect's last attempt is doing
    orphans,    \* calls still running whose owner is gone
    executed,   \* how often the provider carried out each effect
    attempts,   \* attempts so far
    late        \* history: <<old, new>>, old prepared since new's generation was authorized

providerVars == <<orphans, executed>>
planVars == <<plan, authority, steps>>
vars == <<planVars, effects, worker, providerVars, attempts, late>>

Originals == DOMAIN Inverse
Inverses == {Inverse[k] : k \in Originals}

\* The constants name effects of the lineage; MCReconciliation assumes it.
ConstantsTyped ==
    /\ Generation \in [Effects -> Nat]
    /\ Originals \cup Inverses \subseteq Effects
    /\ DependencyOrder \in [Originals -> Nat]

NoStep == [planDigest |-> <<0, 0>>, position |-> 0, schedule |-> <<>>]
NoAuthority == [kind |-> "none"]

digest(p) == <<p.generation, p.revision>>

Attempted(k) == effects[k].state # "none"
Resolved(state) == state \in {"Applied", "NoEffect", "Indeterminate"}
Definitive(state) == state \in {"Applied", "NoEffect"}

FirstPlan(generation) ==
    [generation |-> generation, revision |-> 1, kind |-> "Forward", completed |-> {},
     schedule |-> <<>>]

Init ==
    /\ plan = FirstPlan(1)
    /\ authority = NoAuthority
    /\ steps = {}
    /\ effects = [k \in Effects |-> [state |-> "none", planDigest |-> <<0, 0>>, step |-> NoStep]]
    /\ worker = [k \in Effects |-> "none"]
    /\ orphans = [k \in Effects |-> 0]
    /\ executed = [k \in Effects |-> 0]
    /\ attempts = 0
    /\ late = {}
-----------------------------------------------------------------------------
(* Admission and preparation *)

\* NoEffect, or Indeterminate with the adapter's proof of durable idempotency.
CheckRetry(k) ==
    \/ effects[k].state \in {"none", "NoEffect"}
    \/ effects[k].state = "Indeterminate" /\ k \in Idempotent

\* Mutated: an older effect whose attempt ended in doubt counts as settled.
CheckGenerationDispatch_resolved(k) ==
    \A old \in Effects : Attempted(old) /\ Generation[old] < Generation[k] =>
        Resolved(effects[old].state) \/ <<old, k>> \in SafelySuperseded
\* Every older effect is settled, or comes with exact proof of supersession.
CheckGenerationDispatch(k) ==
    \A old \in Effects : Attempted(old) /\ Generation[old] < Generation[k] =>
        Definitive(effects[old].state) \/ <<old, k>> \in SafelySuperseded

compensationStepMatchesPlan(s, k) ==
    /\ plan.kind = "Compensation"
    /\ s.planDigest = digest(plan)
    /\ Inverse[s.schedule[s.position]] = k

\* NewAttemptAdmission for a mutation under plan p, with the projections current.
Admissible(k, p) ==
    /\ Generation[k] = p.generation
    /\ k \notin p.completed
    /\ CheckRetry(k)
    /\ CheckGenerationDispatch(k)

NewPreparedAttempt(k, s) ==
    /\ attempts < MaxAttempts
    /\ attempts' = attempts + 1
    /\ effects' = [effects EXCEPT ![k] =
                      [state |-> "Prepared", planDigest |-> digest(plan), step |-> s]]
    /\ worker' = [worker EXCEPT ![k] = "prepared"]
    /\ late' = IF authority.kind = "generation" THEN late \cup {<<k, authority.effect>>}
                ELSE late
    /\ UNCHANGED providerVars

PrepareForward(k) ==
    /\ plan.kind = "Forward"
    /\ k \notin Inverses
    /\ Admissible(k, plan)
    /\ NewPreparedAttempt(k, NoStep)
    /\ UNCHANGED planVars

PrepareCompensation(k, s) ==
    /\ compensationStepMatchesPlan(s, k)
    /\ Admissible(k, plan)
    /\ NewPreparedAttempt(k, s)
    /\ UNCHANGED planVars

\* The first mutation of a generation uses the admission its lease replacement
\* was paired with, once, and is not admitted again; the store commits it
\* against the projection it was admitted with.
PrepareReplacementAttempt ==
    /\ authority.kind = "admitted"
    /\ effects[authority.effect] = authority.current
    /\ authority' = NoAuthority
    /\ NewPreparedAttempt(authority.effect, NoStep)
    /\ UNCHANGED <<plan, steps>>
-----------------------------------------------------------------------------
(* Dispatch, outcome and recovery of one attempt *)

\* The lease is bound to the plan of the attempt; the durable record follows.
MarkAttemptDispatched(k) ==
    /\ worker[k] = "prepared"
    /\ effects[k].planDigest = digest(plan)
    /\ worker' = [worker EXCEPT ![k] = "calling"]
    /\ UNCHANGED <<planVars, effects, providerVars, attempts, late>>

CommitDispatched(k) ==
    /\ worker[k] \in {"calling", "executed", "failed"}
    /\ effects[k].state = "Prepared"
    /\ effects[k].planDigest = digest(plan)
    /\ effects' = [effects EXCEPT ![k].state = "Dispatched"]
    /\ UNCHANGED <<planVars, worker, providerVars, attempts, late>>

\* The provider answers the call, having carried it out or not.
ProviderAnswers(k) ==
    /\ worker[k] = "calling"
    /\ \/ /\ worker' = [worker EXCEPT ![k] = "executed"]
          /\ executed' = [executed EXCEPT ![k] = @ + 1]
       \/ /\ worker' = [worker EXCEPT ![k] = "failed"]
          /\ UNCHANGED executed
    /\ UNCHANGED <<planVars, effects, orphans, attempts, late>>

\* The provider finishes a call nobody waits for.
OrphanEnds(k) ==
    /\ orphans[k] > 0
    /\ orphans' = [orphans EXCEPT ![k] = @ - 1]
    /\ executed' \in {executed, [executed EXCEPT ![k] = @ + 1]}
    /\ UNCHANGED <<planVars, effects, worker, attempts, late>>

\* The worker leaves its attempt; its call, if any, goes on without it.
Leave(k, next) ==
    /\ worker' = [worker EXCEPT ![k] = next]
    /\ orphans' = IF worker[k] = "calling" THEN [orphans EXCEPT ![k] = @ + 1] ELSE orphans

\* What the worker may conclude from its call; only an answer is definitive.
Outcomes(k) ==
    {"Indeterminate"} \cup (CASE worker[k] = "executed" -> {"Applied"}
                              [] worker[k] = "failed" -> {"NoEffect"}
                              [] OTHER -> {})

ResolveAttempt(k, outcome) ==
    /\ worker[k] \in {"calling", "executed", "failed"}
    /\ effects[k].state = "Dispatched"
    /\ effects[k].planDigest = digest(plan)
    /\ outcome \in Outcomes(k)
    /\ effects' = [effects EXCEPT ![k].state = outcome]
    /\ Leave(k, "none")
    /\ UNCHANGED <<planVars, executed, attempts, late>>

\* RecoverAttempt by the live owner, who knows that dispatch never began.
RecoverUndispatched(k) ==
    /\ worker[k] = "prepared"
    /\ effects[k].planDigest = digest(plan)
    /\ effects' = [effects EXCEPT ![k].state = "NoEffect"]
    /\ worker' = [worker EXCEPT ![k] = "none"]
    /\ UNCHANGED <<planVars, providerVars, attempts, late>>

Crash(k) ==
    /\ worker[k] \in {"prepared", "calling", "executed", "failed"}
    /\ Leave(k, "lost")
    /\ UNCHANGED <<planVars, effects, executed, attempts, late>>

\* Mutated: an attempt recorded as prepared only is taken not to have begun.
RecoveryForCrash_trusting(state) ==
    CASE state \in {"none", "Prepared"} -> "NoProviderEffect"
      [] state = "Dispatched" -> "RecordIndeterminate"
      [] OTHER -> "DurableNoOp"
\* By what is durable: no attempt yet, an attempt without result, a result.
RecoveryForCrash(state) ==
    CASE state = "none" -> "NoProviderEffect"
      [] state \in {"Prepared", "Dispatched"} -> "RecordIndeterminate"
      [] OTHER -> "DurableNoOp"

\* RecoverAttempt by a later owner of the lineage, or ApplyMaintenanceOutcome.
Recover(k) ==
    /\ worker[k] = "lost"
    /\ worker' = [worker EXCEPT ![k] = "none"]
    /\ effects' = [effects EXCEPT ![k].state =
                      CASE RecoveryForCrash(@) = "NoProviderEffect" -> "NoEffect"
                        [] RecoveryForCrash(@) = "RecordIndeterminate" -> "Indeterminate"
                        [] OTHER -> @]
    /\ UNCHANGED <<planVars, providerVars, attempts, late>>

\* An observation under the effect's own plan finds out the truth, which the
\* provider knows once no call for the effect is running.
Observe(k) ==
    /\ effects[k].state = "Indeterminate"
    /\ effects[k].planDigest = digest(plan)
    /\ \/ executed[k] > 0 /\ effects' = [effects EXCEPT ![k].state = "Applied"]
       \/ /\ executed[k] = 0 /\ orphans[k] = 0
          /\ effects' = [effects EXCEPT ![k].state = "NoEffect"]
    /\ UNCHANGED <<planVars, worker, providerVars, attempts, late>>
-----------------------------------------------------------------------------
(* Plans *)

\* Mutated: the order of the inverses is not checked.
ValidateCompensationPlan_unordered(completed, schedule) ==
    \A i \in DOMAIN schedule :
        /\ schedule[i] \in completed
        /\ \A j \in DOMAIN schedule : Inverse[schedule[i]] # schedule[j]
\* Confirmed effects of the plan, each with its inverse, in strictly reverse
\* dependency order.
ValidateCompensationPlan(completed, schedule) ==
    /\ \A i \in DOMAIN schedule :
          /\ schedule[i] \in completed
          /\ \A j \in DOMAIN schedule : Inverse[schedule[i]] # schedule[j]
    /\ \A i \in 2..Len(schedule) :
          DependencyOrder[schedule[i]] < DependencyOrder[schedule[i - 1]]

Schedules == UNION {[1..n -> Originals] : n \in 1..Cardinality(Originals)}

\* Effects whose projection the current plan wrote.
Touched == {k \in Effects : effects[k].planDigest = digest(plan)}

SelectPlan(kind, schedule) ==
    LET completed == plan.completed \cup {k \in Touched : effects[k].state = "Applied"}
    IN  /\ plan.revision < MaxRevision
        /\ plan.kind = "Compensation" => kind = "Compensation"
        /\ \A k \in Touched : Definitive(effects[k].state)
        /\ IF kind = "Forward" THEN schedule = <<>>
                               ELSE ValidateCompensationPlan(completed, schedule)
        /\ authority' = [kind |-> "revision", expected |-> digest(plan),
                         plan |-> [generation |-> plan.generation,
                                   revision |-> plan.revision + 1, kind |-> kind,
                                   completed |-> completed, schedule |-> schedule]]
        /\ UNCHANGED <<plan, steps, effects, worker, providerVars, attempts, late>>

\* Paired with the admission of the new generation's first mutation.
AuthorizeGenerationReplacement(k) ==
    /\ k \notin Inverses
    /\ Admissible(k, FirstPlan(plan.generation + 1))
    /\ authority' = [kind |-> "generation", expected |-> digest(plan),
                     plan |-> FirstPlan(plan.generation + 1), effect |-> k,
                     current |-> effects[k]]
    /\ late' = {pair \in late : Attempted(pair[2])}
    /\ UNCHANGED <<plan, steps, effects, worker, providerVars, attempts>>

\* The lease is surrendered or expired, so no call of its owner is in its window.
AcquireReplacement ==
    /\ authority.kind \in {"revision", "generation"}
    /\ authority.expected = digest(plan)
    /\ \A k \in Effects : worker[k] # "calling"
    /\ plan' = authority.plan
    /\ authority' = IF authority.kind = "revision" THEN NoAuthority
                    ELSE [kind |-> "admitted", effect |-> authority.effect,
                          current |-> authority.current]
    /\ worker' = [k \in Effects |-> IF worker[k] = "none" THEN "none" ELSE "lost"]
    /\ UNCHANGED <<steps, effects, providerVars, attempts, late>>

\* The exact Applied projection of position n of the current schedule.
StepDone(k, n) ==
    effects[k].step.position = n /\ effects[k].planDigest = digest(plan)
        /\ effects[k].state = "Applied"

NextCompensationStep(n) ==
    /\ plan.kind = "Compensation"
    /\ \A i \in 1..(n - 1) : StepDone(Inverse[plan.schedule[i]], i)
    /\ steps' = steps \cup {[planDigest |-> digest(plan), position |-> n,
                             schedule |-> plan.schedule]}
    /\ UNCHANGED <<plan, authority, effects, worker, providerVars, attempts, late>>

Next ==
    \/ \E k \in Effects :
          \/ PrepareForward(k)
          \/ \E s \in steps : PrepareCompensation(k, s)
          \/ MarkAttemptDispatched(k)
          \/ CommitDispatched(k)
          \/ ProviderAnswers(k)
          \/ OrphanEnds(k)
          \/ \E outcome \in {"Applied", "NoEffect", "Indeterminate"} : ResolveAttempt(k, outcome)
          \/ RecoverUndispatched(k)
          \/ Crash(k)
          \/ Recover(k)
          \/ Observe(k)
          \/ AuthorizeGenerationReplacement(k)
    \/ PrepareReplacementAttempt
    \/ SelectPlan("Forward", <<>>)
    \/ \E s \in Schedules : SelectPlan("Compensation", s)
    \/ AcquireReplacement
    \/ \E n \in DOMAIN plan.schedule : NextCompensationStep(n)

Spec == Init /\ [][Next]_vars
-----------------------------------------------------------------------------
\* An effect the adapter cannot repeat safely is carried out at most once, over
\* any sequence of crashes, recoveries, retries and plans, also when the plan was
\* replaced by one selected before the effect was attempted; and a definitive
\* projection tells the truth for good: NoEffect means that no call can still
\* carry it out (CheckRetry, RecoverAttempt, RecoveryForCrash, SelectPlan).
EffectsHappenOnce ==
    \A k \in Effects \ Idempotent :
        /\ executed[k] <= 1
        /\ effects[k].state = "Applied" => executed[k] = 1
        /\ effects[k].state = "NoEffect" => executed[k] = 0 /\ orphans[k] = 0

\* Compensation undoes confirmed effects in reverse order: when an inverse has
\* been attempted, its original is applied, and so is the inverse of every
\* effect of the same schedule that depends on it, also when steps of an earlier
\* plan are presented (ValidateCompensationPlan, NextCompensationStep).
InversesInOrder ==
    \A k \in Effects : effects[k].step.position > 0 =>
        LET s == effects[k].step
            original == s.schedule[s.position]
        IN  /\ effects[original].state = "Applied"
            /\ \A i \in DOMAIN s.schedule :
                  DependencyOrder[s.schedule[i]] > DependencyOrder[original] =>
                      effects[Inverse[s.schedule[i]]].state = "Applied"

\* Generations do not overlap: when an effect of a newer generation has been
\* attempted, every older effect is settled or superseded by proof.  The one
\* exception is an older effect prepared between the authorization of the
\* replacement and the replacement, which nothing looks at again
\* (CheckGenerationDispatch, AuthorizeGenerationReplacement).
GenerationsSerialized ==
    \A old, new \in Effects :
        Generation[old] < Generation[new] /\ Attempted(old) /\ Attempted(new) =>
            \/ Definitive(effects[old].state)
            \/ <<old, new>> \in SafelySuperseded
            \/ <<old, new>> \in late
=============================================================================
