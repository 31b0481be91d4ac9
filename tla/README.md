# Veer: a verification project in TLA+

Veer is a control plane that drives provider APIs from declared resources. This
directory holds TLA+ models of the parts of it whose correctness depends on the
order of events: workers that own work under a lease, provider effects whose
outcome stays unknown, retries that race an expiry, caches with one fetch in
flight, a credential broker that issues, rotates, revokes and destroys secrets
while callers use them, and the reference server from its HTTP handler to its
store. The models are checked with TLC on small instances. Those of the
reconciliation contract (leases, idempotency, work, effects, plans and cancellation),
of administrative elevations and of the key cache are also proved with TLAPS for every
value of their constants.

`PROJECT.json` is the index: components, runs, mutants, the map from each
definition to the lines it models, findings, hazards and theorems. Source paths
below are relative to `src/internal/`.

## The system and its parts

| part | source | state it keeps | modelled by |
|---|---|---|---|
| fenced leases and dispatch | `core/domain/reconciliation/lease.go`, `attempt.go`, `planning.go` | one row per lineage; tokens, authorities and permits with one-use cells | `LeaseTable`, `FencedOwnership`, `LeaseTableProofs` |
| HTTP idempotency | `.../reconciliation/idempotency.go` | reservation per key, registry of running calls, clock high-water | `IdempotencyLedger`, `IdempotencyLedgerProofs` |
| redelivered work, request units | `.../reconciliation/model.go`, `queue.go` | a record per work key in each of two ledgers | `DeliveryLedger`, `QueueBudget`, `WorkLedgers`, `QueueBudgetProofs`, `ReconciliationProofs` |
| effects of unknown outcome | `.../reconciliation/attempt.go`, `admission.go`, `model.go` | effect projection, observation budget, permits and attempts | `EffectObservation`, `EffectObservationProofs` |
| effects across crashes and plans | `.../reconciliation/attempt.go`, `admission.go`, `planning.go`, `model.go` | the projections of a lineage, its plan, compensation steps | `EffectPlans`, `EffectPlansProofs` |
| Operations and their cancellation | `core/domain/operation`, `.../reconciliation/model.go`, `lease.go` | phase of the Operation, attempts, permits in memory | `OperationLifecycle`, `ReconciliationProofs` |
| credential broker, sessions | `core/service/credentialbroker/{broker,session,rotation,lifecycle,state}.go` | lineages, operations, cells, leases, flights, rotations, revocations | `CredentialBroker` |
| credential broker, sources | `core/service/credentialbroker/source.go` | source cells, flights, borrows, read claims | `SourceCache` |
| elevation ledger | `core/domain/administration/ledger.go` | grants with one use, proofs, clock high-water | `GrantLedger`, `GrantLedgerProofs` |
| OIDC key cache | `adapters/identity/oidc/cache.go`, `verifier.go` | key set, flight, three cooldowns | `KeyCache`, `KeyCacheProofs` |
| audit | `core/domain/audit` | none of its own: chain, exports and retention decisions of a stored stream | `AuditEvent`, `AuditTimeline` |
| authorization policy | `core/domain/authorization` | none: immutable directories and policy sets | `Authorization` |
| resources and hierarchy | `core/domain/resource`, `core/domain/hierarchy` | none: rules of a write and of the tree | `Resource`, `Hierarchy` |
| admission of bodies | `core/domain/{admission,condition,control,model}` | none: stages that check and convert a body | `Admission` |
| reference service and store | `core/service/reference`, `adapters/store/memory` | resources, Operations, replay records, page tokens | `ReferenceService` |
| reference authorization | `core/service/referenceauthorization` | members, admissions, requests | `ReferenceAuthorization` |
| HTTP transport | `transport/http` | the guarded body of a request | `ReferenceHTTP` |
| identity, isolation and authentication values, ports, server process, contract generation, tooling | `core/domain/{identity,isolation,authentication}`, `core/ports`, `cmd`, `api`, `hack` | none | not modelled |

How the parts interact. A request enters through the transport, which takes its
credential out and verifies the token with keys of the key cache. The authorizing
service evaluates the stored Policies; the body is admitted; the reference service
makes the mutation idempotent, writes the resource and accepts an Operation. A
worker takes the Operation's lineage in the lease table and gets a token with a
fence; the delivery ledger and the request budget record the work under that token;
an attempt is prepared, authorized against the lease and the Operation, and
dispatched to the provider with credentials leased from the broker. When the outcome
stays unknown, observations are spent from a budget until the effect is known or
quarantined; a plan is revised, compensated or superseded by the next generation
only over settled effects. Administrators act only under grants of the elevation
ledger. What happened is chained into an audit stream.

## Modules and the code

One action stands for one critical section, that is for everything the code does
between taking and releasing a mutex, or for one compare-and-swap. What a
process read before the section and uses in it is kept in a variable of that
process. A refused call is an action when it changes something (a clock
high-water, a swept cell) and is left out when it changes nothing.

- `LeaseTable`. `rows` is the map of `leaseRow`s under `LeaseTable.mu`. `tokens`,
  `replacements`, `attempts`, `authorities` and `permits` hold every value ever handed
  out: a caller can present a copy of any of them at any later time. A sample of
  database time is an input of each call, so samples may arrive in any order.
- `FencedOwnership` is what the table promises: a fence that only grows, one
  holder per fence, and acts (provider calls and authoritative writes) only by the
  holder of the current fence. `LeaseTable` refines it.
- `IdempotencyLedger`. A call samples the clock, registers, reserves (walking the
  records for reclamation under the mutex) and finishes. `granted` keeps the
  history of reservations per key, `bindings` which holder bound which result to
  which grant. `SamplesInOrder` restricts the calls to register in the order of their
  samples.
- `DeliveryLedger`, `QueueBudget` and `WorkLedgers`: the two ledgers keyed by
  work, and their composition. They share keys but no lock.
- `EffectObservation`. One effect, its retries, plan revisions, and the
  copy-and-swap observation budget with its permits. Budget snapshots are values:
  every snapshot ever returned stays presentable.
- `EffectPlans`. The durable projections (`effects`) of several effects of a lineage,
  what the worker of each one's last attempt is doing, and what the provider did
  (`orphans`, `executed`). Workers crash at every point; a later owner recovers from
  the durable state alone (`RecoveryForCrash`). Plans change in two calls, as in the
  code: `SelectPlan` or `AuthorizeGenerationReplacement` mints the authority,
  `AcquireReplacement` spends it.
- `OperationLifecycle`. The phase graph of `operation.go`, the public state of a
  cancellation, and attempts whose authority is checked against the Operation when it
  is minted and used without a second look.
- `CredentialBroker`. Every section under `broker.mu` that touches sessions,
  leases, flights, rotations or lifecycle calls. `Locked` names the state a
  section starts from, `Unlock` what it leaves; the helpers ending in `Locked`
  keep the names of the code. Upstream revocations go through `attempt`
  (created, started, calling, finished).
- `SourceCache`. The source half of the same broker: `flight`, the cached and retired
  entries, borrows, claims of the read budget and `batches` of material to be destroyed
  outside the lock.
- `GrantLedger`. `Issue` is four steps: verify, take the sequence number, read the
  clock, and decide under the lock, with five outcomes. `StateAt`, `Consume` and
  `Revoke` are one each.
- `KeyCache`. `resolve`, `refresh`, `fetch` and `resolveAfterSignatureFailure`,
  cut at their locks; the source may rotate its keys at any time.
- `AuditEvent` says which references an event of each kind carries and which agree;
  `AuditTimeline` adds producers that race, crash and leave records behind, a store
  that takes a record only when it continues its head, exports, and retention.
- `Hierarchy`, `Resource` and `Authorization` are operators: the checks before a tree
  changes, the version and generation rules of a write, and the evaluator.
- `ReferenceService` makes each call one action, since `service.mu` serialises them:
  keyed mutations with replay records and the ledger of keys, and page walks.
  `ReferenceAuthorization` wraps it: admissions, plans, effects on current authority.
- `ReferenceHTTP`. One request through `ExtractBearer` and the handler, while other
  holders of the request read and close its body.
- `Admission`. Every stage as an operator of its own, so that stages that repeat a
  requirement can be compared, over retained state that grows by accepted writes.

## Runs

Every property has a mutant: a plausible bug in one definition that the property
catches on the same instance (operators named `<definition>_<change>`, defined
just before the definition they change). Parts that share no state are checked in
one run, each behaviour exercising one of them (`part`, `mode`, `scenario`).

| run | states | what it shows |
|---|---|---|
| `lease` | 890 k | refinement of `FencedOwnership` (`FencedOwnershipSpec`); provider calls of successive owners do not overlap (`DispatchWindowsDisjoint`); authorities, permits and paired admissions are spent once and in order (`CapabilitiesUsedOnce`) |
| `idempotency_reclaim` | 1.0 M | when calls register in the order of their samples: one live reservation per key (`WindowsDisjoint`), and completions reach their own grant (`CompletionsReachTheirGrant`) |
| `idempotency_late_registration` | violation | the same windows overlap when a call registers late |
| `reconciliation` | 2.2 M | work is completed by its newest grant and units balance (`WorkAccounted`); observations do not fork or overwrite newer truth and only a replan strands them (`ObservationsSerialized`, `ObservedTruthIsCurrent`, `StrandedOnlyByReplan`); through crashes, retries and plans an unrepeatable effect happens once (`EffectsHappenOnce`), inverses and generations keep their order (`InversesInOrder`, `GenerationsSerialized`); a canceled Operation is at rest (`CanceledIsAtRest`) |
| `broker_safety` | 1.7 M | nothing stale is published (`TrackedCellsCurrent`), no answer hides a live session (`ResultsHonest`), leases and session material stay in their limits (`LimitsHold`) |
| `broker_progress` | 54 k | a rotation racing a termination: revocations finish, calls return, the gate is released (`CallsReturn`) |
| `source_cache` | 1.3 M | material is charged in one place until destroyed (`MaterialsCharged`), stays usable while borrowed and does not survive its revocation (`MaterialsFollowAuthority`), read claims are settled once and truthfully (`ClaimsSettledHonestly`) |
| `grant_races` | 1.6 M | grants are spent once (`OneReceiptPerGrant`); no call reopens one or moves time back (`AuthorityOnlyShrinks`) |
| `key_cache` | 3.3 M | one fetch at a time, nobody waits for a flight that is gone, cooldown (`FetchesThrottled`); freshness (`StaleKeysNeverUsed`) |
| `audit_timeline` | 16 k | only the stored history verifies (`VerifiedIsHistory`), nothing is deleted early (`DeletionsDue`), every lifecycle step can be recorded (`LifecyclesRecorded`) |
| `reference` | 330 k | service: `RetriesSafe`, `HierarchyIntact`, `WalksComplete`; wrapper: `EffectsUseCurrentAuthority`, `AdmissionsTrackRequests`, `EvaluatorMatchesBindings`; transport: `CredentialsConfined`, `ResponsesDeclared`, `ClosesReturn`; admission: `StagesAgree`, `RetainedStateValid`, `ObservationsExact`, `RepetitionsChangeNothing` |
| `reference_policy_references` | violation | a Policy can be left bound to a deleted Environment |

### Bounds, and why they are enough

- Leases: two workers, one lineage, times 1, 2 and 4 against a duration of 3 and a
  margin of 1. Time 2 lets a renewal extend the lease, time 4 lets it expire exactly,
  the fence maximum is met. One instance has two generations (of the same plan
  digest, so that the digest alone cannot tell them apart) and three fences, the other
  gives up the second generation and one fence for two attempts, two authorities and
  two permits. The theorems cover all other values.
- Idempotency: three keys for two records, so that a key can be reclaimed for
  another and granted again; two fingerprints and two results; two callers and
  four calls (five in the violation). A window of one instant makes the cutoff
  meet every sample.
- Work: three keys of two plans, two records, three fences; units of 1 and 2
  against a cap of 3. Observation: two plans, two observations, four mutation
  attempts, deadline at the last of three instants.
- Plans: two dependent effects with their inverses and one effect of the next
  generation, one effect that may be repeated and one that may be superseded; three
  revisions and four attempts, which allow a failure and a retry around a
  compensation, or an attempt of each generation with a crash in between.
- Cancellation: a forward effect and the effect that cancels it, three attempts, five
  changes of the Operation, so that it can wait, run, be cancelled and be refused.
- Broker sessions: one connection, two operations, three flights for two session
  entries and one lease, one lifecycle caller who may call again. Each scenario lets
  the calls of one concern overlap: refresh and eviction; revocation, Close and expiry;
  rotation and revocation; rotation and termination (under fairness, time standing
  still). A session lives two instants, is refreshed one before its end and must be
  usable one before it.
- Broker sources: two connections and three flights for two slots where entries
  expire and are evicted; one connection and two flights where reads fail in every way
  and the connection is rotated, revoked or closed.
- Grants: two concurrent calls, two identifiers, two proofs, three times (the last
  is the end of the contract range), three clock samples (the counter's limit is
  met).
- Keys: two concurrent calls of three, two tokens (a replaced key, a missing key),
  two key sets, freshness and cooldown of 2 in four instants.
- Audit: four drafts, which allow two producers to race for two places of a stream,
  and two exports; retention of one and two instants in three; a grant of one instant.
- Reference service: a seeded Workspace with a Policy, Environments, an Application
  and a Component; two principals and two keys; two or three mutations after the
  seeding, pages of two rows, a window of one instant in three. An admission limit of
  two is met.
- HTTP: every combination of credential carriers, of announced, declared and sent
  trailers with each framing, of routes, methods, headers and sizes; the handler and
  two other holders of the body with two calls each and one Read by the handler.
- Admission: a few bodies of every kind, each edit of them at one place, and each
  spelling of a generation around a maximum of 27 that has two digits as the int64
  maximum has nineteen; two accepted changes.

Deadlock is checked where every caller can always call again. Instances whose calls
are bounded by a counter come to a stop and say `CHECK_DEADLOCK FALSE`; that no
caller is left waiting in them is what `FetchesThrottled`, `CallsReturn` and
`ClosesReturn` are about.

### Fairness

`broker_progress` assumes weak fairness of every step of a started flight, rotation,
destruction and upstream revocation, and of the two last steps of a lifecycle call
(publishing the cancellations, returning). Each is a goroutine that can run once it
is enabled, holds no lock while it waits except the invalidation gate, and calls a
provider under a context with a timeout, so the call ends. Nothing obliges a caller
to call, to cancel or to let time pass.

`reference` assumes weak fairness of the steps a Read or Close takes inside the
guarded body (`guardStep`): the mutex is held for bounded sections, and closing a
request body unblocks its Reads and returns, which is what `net/http` promises.
Nothing obliges the peer to send, so a Read may block for ever on its own; that a
Close then still returns is what `ClosesReturn` shows.

## Proofs

Eight modules hold theorems, about 6600 obligations together:

| module | obligations | properties of runs it proves |
|---|---|---|
| `LeaseTableProofs` | 1340 | `DispatchWindowsDisjoint`, `CapabilitiesUsedOnce`, `FencedOwnershipSpec` |
| `IdempotencyLedgerProofs` | 970 | `WindowsDisjoint`, `CompletionsReachTheirGrant` |
| `EffectPlansProofs` | 1060 | the three below about plans, on `EffectPlans` alone |
| `EffectObservationProofs` | 1170 | the three below about observations, on `EffectObservation` alone |
| `QueueBudgetProofs` | 320 | the half of `WorkAccounted` about units |
| `ReconciliationProofs` | 380 | all eight of `reconciliation`: `WorkAccounted`, `ObservationsSerialized`, `ObservedTruthIsCurrent`, `StrandedOnlyByReplan`, `EffectsHappenOnce`, `InversesInOrder`, `GenerationsSerialized`, `CanceledIsAtRest` |
| `GrantLedgerProofs` | 430 | `OneReceiptPerGrant`, `AuthorityOnlyShrinks` |
| `KeyCacheProofs` | 980 | `FetchesThrottled`, `StaleKeysNeverUsed` |

The assumptions are about constants only, and TLC evaluates each on a run:
`ConstantsAssumption` of `LeaseTable`, `GrantLedger`, `IdempotencyLedger`, `KeyCache`
and `WorkLedgers`; and `ConstantsTyped` of `QueueBudget`, `EffectPlans` and
`EffectObservation`, a hypothesis of their theorems that `WorkLedgers` and
`MCReconciliation` assume for their instances. They say that requests, bindings and
key sets are well formed, limits and durations are numbers, a lease lasts longer than
zero, no worker is the absent owner, inverses are effects, and the sets of which
records are counted are finite. Where a model bounds a counter (attempts, times,
plans, fences), the theorem holds for every value of the bound.

**Lease table.** `FenceIdentifiesGrant` and `DispatchWindowsDisjoint` are not
inductive: a takeover is safe only because every token ever granted has a fence at
most the row's, and a dispatch only because the permit it spends lies inside the
lease of its own grant. The inductive invariant is

    IInv == TypeOK /\ RowsOK /\ TokensOK /\ ReplacementsOK /\ PermitsOK
            /\ DispatchesOK /\ FenceIdentifiesGrant /\ BindingsMoveForward
            /\ DispatchWindowsDisjoint

`RowsOK`: the times of a row are ordered and an owned row lasts a full duration.
`TokensOK`: a token's fence is at most its row's, its binding precedes or is the
row's, and a token with the row's fence names the row's owner unless it was
surrendered.
`ReplacementsOK`: the bindings of an authority move forward.
`PermitsOK` and `DispatchesOK`: a call window ends, margin included, before the
expiry of its grant while that grant holds the row, and before the row was acquired
again once a later grant has it, unless the grant was surrendered. From `IInv` follow
`TypeCorrect`, `FencesIdentifyGrants`, `GrantsMoveForward`, `WindowsDisjoint`,
`LiveGrantsValid`, and for steps `FencesAdvance`, `NewestGrantActs` and
`Refinement` (initial states map to initial states, each step to a step or a
stutter of `FencedOwnership`). `OneUse` has an invariant of its own: values with the
same cell are the same value, a permit exists only for a spent authority and a
dispatch only for a spent permit (`CellsOK`), and an admission is usable only after
its replacement was spent and the row won (`AdmissionsOK`).

**Idempotency ledger.** `LedgerBounded` holds for all callers. The two properties of
the run are proved under `SamplesInOrder`, as the run checks them; without it they
fail (see Findings). Beside the shape of calls and walks, the invariant says that a
retained record is the reservation its key was granted last (`RecordInv`) and, which
is the heart of it, that when a key's record is gone no call that may still reserve
the key has a sample inside any window the key has had (`SampleInv`). Reclamation
keeps that because it looks at every registered call first; registration keeps it
because a new sample is the newest.

**Effects across plans.** `OnceInv` counts what the provider has carried out together
with what it may still carry out: one at most for an effect that must not be repeated,
none while the projection says that nothing happened. `GenerationInv` keeps what the
replacement of a generation was authorized against, with the pairs in `late` for what
was prepared afterwards. `CompensationInv` says that the schedule of every plan and
step, including those an authority still carries, lists applied effects in strictly
reverse dependency order, and that the inverses before a step's position are applied.
All of it rests on `AppliedForGood`, an action property: no step takes back that an
effect was applied. `ValidateCompensationPlan` compares neighbours in a schedule; that
this orders the whole schedule (`Descending`) is an induction over positions, made by
taking the least counterexample (`Least`).

**Observation of an effect.** The snapshots of a budget form one line (`LineInv`): the
cells left are exactly those before the current one, so a stale copy can leave no
cell a second time. `PermitInv` and `SlotInv` tie each permit to the snapshot that
waits for it, `AttemptInv` each attempt to a projection that was in doubt before its
permit was reserved. `SlotsCanBeFreed` follows by cases on the permit's shared cell.

**Work ledgers.** A delivery's record carries the fence accepted last, the fences before
it are smaller, and only a completed record has completions (`DeliveryOK`). For the
request budget the counters are sizes of sets of single units: charging moves a slab of
units from the open to the charged ones, completing removes one (`AddSlab`,
`RemoveSlab`).

**Cancellation.** `AttemptsOwned`: whoever holds an attempt holds one without a durable
result, and a call running on its own has left a doubt. So an Operation whose
cancellation is not pending has no attempt in anyone's hands (`NotPending`), and a
permit minted before is one that keeps it pending.

**Composition.** `MCReconciliation` runs the parts side by side. `ReconciliationProofs`
shows that each of its behaviours is a behaviour of every part, and carries the theorems
about the parts over to exactly the properties TLC checks.

**Elevation ledger.** `IInv` adds to the properties that a call past `idle` holds a
well-formed challenge (`CallsOK`) and that a tracked identifier has a well-formed
grant (`GrantsOK`). A lemma first reduces the actions to four kinds of effect
on the records (`StepKind`: quiet, recorded, expires, finishes); each conjunct is
then preserved by each kind. `CapacityHolds` and the action properties
`AuthorityShrinks` and `ReadingsFenced` follow.

**Key cache.** A call decides to fetch at one lock and starts the flight at the next.
The invariant therefore carries the decision: a call on its way to `refresh` that saw
no flight, and since whose look no flight has started, was outside the cooldown when
it looked (`CallInv`); the gates are at least the last fetch plus the cooldown
(`GateInv`); a flight has exactly one owner (`FlightInv`). `KeysAreFresh` is an action
property, from what each step does to labels and outcomes.

What the proofs establish beyond the properties of the runs (types, fences, bindings,
proofs, receipts, capacity, clock readings, one fetch per call) is left to them.

Only model-checked:

- The broker (`TrackedCellsCurrent`, `ResultsHonest`, `LimitsHold`,
  `MaterialsCharged`, `MaterialsFollowAuthority`, `ClaimsSettledHonestly`): its sections
  touch many records at once and no inductive invariant of `CredentialBroker` or
  `SourceCache` is written yet. Two sums in `LimitsHold` are folds, and what a fold
  computes for every input is beyond the prover.
- `ReferenceService`, `ReferenceAuthorization`, `ReferenceHTTP` and `AuditTimeline`: no
  inductive invariant is written. Page sizes and chained digests are folds.
- `Admission`: recursive operators over documents, and folds over digits. What a
  recursive definition computes for every input is beyond the prover.
- `WindowsDisjoint` and `CompletionsReachTheirGrant` without `SamplesInOrder`: the first
  is false there.
- Liveness (`CallsReturn`, `ClosesReturn`), which the prover does not support.

## Findings

- `idempotency_late_registration` (`idempotency.go:308`). The regression check is
  skipped for a call whose sequence is not above `lastCall`. A call that sampled
  inside a window, registers after a call for another key has reclaimed the record,
  and runs after a still later call, is granted a second reservation inside the
  first one's window. ADR 0012 says that a sample below the high-water fails closed
  "even when it addresses another key".
- `reference_policy_references` (`reference/service.go:376`). An Environment can be
  deleted while a Policy binds a role to it; ADR 0009 says that every referenced
  Environment must exist in the Policy's Workspace. From then on the Policies of the
  Workspace do not load and every mediated call in it is answered as unavailable.

Met while modelling, kept in mind by the models but not the subject of a run:

- `planning.go:187`: the older effects are checked when the replacement of a
  generation is authorized. The old lease still works until `AcquireReplacement`, so
  an older effect can be prepared in between, and nothing looks at it again.
  `GenerationsSerialized` excepts such effects (`late`); ADR 0012 wants an unresolved
  predecessor to keep its lease for observation.
- `admission.go`, `attempt.go`: an admission is a value. Two admissions of one effect can be
  minted from one projection; that only one attempt is prepared is left to the
  store's compare-and-swap on the projection, which `EffectPlans` assumes.
- `lease.go:323`: the Operation is looked at when authority is minted, and not when
  the attempt is marked dispatched. `CanceledIsAtRest` holds because a prepared attempt keeps
  the Operation from being canceled, given that the public state and the Operation
  are committed together.
- `cache.go:340`: a call that looks at the key cache during a flight observes the
  attempt number of that flight; if the flight fails before the call reaches
  `refresh`, it fetches again inside the cooldown. `FetchesThrottled` therefore
  speaks of calls that saw no flight.
- `state.go:312`: draining a replaced cell removes it from `broker.cells` without
  invalidating it. A waiter of its first flight can still lease it and start a use
  before the destruction, and a later revocation does not cancel that use; the
  final result of the use is right.
- `state.go:419`: a rotation that fails for an operation not tracked yet leaves its
  expiry evidence with the connection only, so a later termination of the operation
  reports nothing outstanding. `ResultsHonest` therefore asks a termination only
  about tracked sessions.
- `model.go:436`: an effect retried under the next plan while an observation of the
  previous one is out can neither be completed nor released.
  `StrandedOnlyByReplan` shows that nothing else strands the budget.
- `referenceauthorization/service.go:521`: a call cancelled between the commit and the
  load of its Operation leaves an Operation without an admission.
  `AdmissionsTrackRequests` shows that nothing else does, apart from the reuse of a
  key after its window.
- `audit/event.go:544`: an elevation recorded with the target of an Operation bound to no
  Environment is refused when the target names one, although an Operation event with
  the same target is accepted. `LifecyclesRecorded` excepts it.
- `administration/ledger.go:382`: the sequence number is taken before the clock is
  read, so of two overlapping calls the newer can be told that the clock went back
  although it did not.

## What the models leave out

- Data: digests are the values they are computed from, model values or small numbers;
  strings, sizes and formats that validators check are classes (`Admission`,
  `ReferenceHTTP`) or assumed valid, since an invalid value is refused without effect.
- `LeaseTable`: the contents of plans and attempts beyond digest, owner, fence and
  deadline. With one lineage per run the refusal of a full table is not exercised.
- `EffectObservation`: the attempts and the effect are the durable current values;
  that the store serialises them is the contract's own assumption.
- `EffectPlans`: an observation tells the truth once no call is running, an
  adapter's proofs of idempotency and supersession are right, and the digest of a plan
  is its generation and revision. The Operation is not cancelled here.
- `OperationLifecycle`: an observation is one step; compensation is admitted like a
  forward effect and left out; cleanup and quarantine stay in force once durable.
- `CredentialBroker`: the source cache is its outcome (`Revoked` stands for every
  error but `Unavailable`); the issuer is registered; eviction picks any eligible
  cell where the code picks the least recently used; statistics are left out;
  releasing the slot, destroying and finishing a revocation are one step.
- `KeyCache`: a fetch and the clock reading after it are one step; the context
  checks after a token was accepted are left out; the clock does not go back.
- `GrantLedger`: verification of the proof is external and may answer anything.
- `AuditTimeline`: hashes do not collide and signatures are not forged.
- `ReferenceService`: identifiers and versions spent on failed calls leave no gaps.
- `Admission`: the paths of failures and which of several failures is reported, the
  size limit of the canonical form, and the comparison with a generated schema; stale
  versions are `ReferenceService`'s.
- `ReferenceHTTP`: the encoding of bodies and the wording of problems.

## Not modelled

- Canonical encodings, digests and their decoders (`plan.go`, `digest.go`, the
  `MarshalCanonical` and wire functions of every domain package), redaction and
  formatting: pure functions of one value with no order of events. Their one property
  is injectivity, which the models assume when they compare values for digests.
- `EvaluateEffectRetention` (`reconciliation/model.go:508`): a pure decision about
  compaction that nothing in the repository acts on.
- Parsing and claim validation of tokens (`adapters/identity/oidc`): single checks over
  a third-party library. Provider binding, identity, isolation and authentication
  values: validated once and immutable.
- `RegisterIssuer` and the statistics of the broker: set up before use, and read only.
- `adapters/referenceaccess`, `core/ports`, `cmd`: delegation, interfaces, wiring.
- `api/openapi` and `hack`: generators and checks of the repository, not part of the
  running system.
