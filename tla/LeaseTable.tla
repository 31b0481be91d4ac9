------------------------------ MODULE LeaseTable ------------------------------
(***************************************************************************)
(* The fenced lease table of package reconciliation (lease.go), with the   *)
(* dispatch pipeline that runs under it: an attempt is prepared, its       *)
(* execution-time checks yield a one-use authority, the table exchanges    *)
(* the authority for a one-use permit, and the permit lets one physical    *)
(* provider call be marked dispatched (attempt.go).                        *)
(*                                                                         *)
(* The table is passive and every method holds its mutex, so a step is one *)
(* call.  Callers are unconstrained: any caller may present any value the  *)
(* package ever handed out (an old token, a copy of a permit), and the     *)
(* PostgreSQL time is an argument of each call, so it may also go back.    *)
(* A call that is refused without changing any state is a stuttering step  *)
(* and has no disjunct; a call refused after it observed the clock has one.*)
(***************************************************************************)
EXTENDS Integers, FiniteSets

CONSTANTS
    RowKeys,       \* Workspace/resource lineages (leaseRowKey)
    Bindings,      \* the lease bindings that valid plans project to
    Owners,        \* worker identities
    maximum,       \* NewLeaseTable(maximum)
    MaxFence,      \* vocabulary.go MaxFence (2^63 - 1 in the code)
    StoreLeaseDuration, DispatchSafetyMargin,
    Times,         \* PostgreSQL time samples (normalized milliseconds)
    RpcTimeouts,   \* rpcTimeout arguments
    Deadlines,     \* retryValidUntil or observationDeadline; 0 is the zero time
    AttemptIDs,    \* attempts a run may prepare
    ReplacementCells, UseCells
                   \* one-use cells (the *atomic.Bool pointers) a run may allocate

NoOwner == "no owner"
\* The zero LeaseBinding, which no plan projects to.
NoBinding == [row |-> "no row", generation |-> 0, operationID |-> 0,
              planRevision |-> 0, planDigest |-> 0]

LeaseBinding == [row : RowKeys, generation : Nat \ {0}, operationID : Nat,
                 planRevision : Nat \ {0}, planDigest : Nat]

ASSUME ConstantsAssumption ==
    /\ Bindings \subseteq LeaseBinding
    /\ NoOwner \notin Owners
    /\ maximum \in Nat \ {0}
    /\ MaxFence \in Nat \ {0}
    /\ StoreLeaseDuration \in Nat \ {0}
    /\ DispatchSafetyMargin \in Nat
    /\ Times \subseteq Nat \ {0}
    /\ RpcTimeouts \subseteq Nat \ {0}
    /\ Deadlines \subseteq Nat
    /\ IsFiniteSet(RowKeys)

VARIABLES
    rows,          \* stable lineage row of each key; fence 0: not in the map
    tokens,        \* every LeaseToken ever returned
    replacements,  \* every LeaseReplacementAuthority with its shared cells
    attempts,      \* every prepared Attempt snapshot
    authorities,   \* every DispatchAuthority with its use cell
    permits,       \* every DispatchPermit with its use cell
    dispatches,    \* history: every call marked dispatched
    surrendered,   \* history: tokens given up before their expiry
    commits        \* history: tokens that passed an authoritative write

vars == <<rows, tokens, replacements, attempts, authorities, permits,
          dispatches, surrendered, commits>>

-----------------------------------------------------------------------------
(* Values *)

leaseRow == [binding : Bindings \cup {NoBinding}, ownerID : Owners \cup {NoOwner},
             fence : 0 .. MaxFence, acquiredAt : Nat, expiresAt : Nat,
             observedAt : Nat]

LeaseToken == [binding : Bindings, ownerID : Owners, fence : 1 .. MaxFence]

Use == {"unused", "spent"}    \* a shared atomic.Bool cell

NoTransition == 3    \* LeaseReplacementAuthority.transition == nil

LeaseReplacementAuthority ==
    [cell : ReplacementCells, expected : Bindings, replacement : Bindings,
     use : Use, transition : 0 .. NoTransition]

\* validUntil is retryValidUntil or observationDeadline, of which an attempt has
\* at most one.
Attempt == [id : AttemptIDs, planDigest : Nat, ownerID : Owners,
            fence : 1 .. MaxFence, preparedAt : Nat, validUntil : Nat]

DispatchAuthority ==
    [cell : UseCells, attempt : Attempt, observedAt : Nat, use : Use]

\* authority is a history field: the cell of the authority it was exchanged for.
DispatchPermit ==
    [cell : UseCells, authority : UseCells, token : LeaseToken,
     attempt : Attempt, authorizedAt : Nat, deadline : Nat, use : Use]

Dispatch == [permit : UseCells, token : LeaseToken, at : Nat, deadline : Nat]

\* A use cell no value of the set holds yet.
FreshCells(set) == UseCells \ {v.cell : v \in set}

InTime(attempt, t) == attempt.validUntil = 0 \/ t < attempt.validUntil

\* The zero leaseRow that a lookup of an absent key returns.
zeroRow == [binding |-> NoBinding, ownerID |-> NoOwner, fence |-> 0,
            acquiredAt |-> 0, expiresAt |-> 0, observedAt |-> 0]

Exists(k) == rows[k].fence # 0

\* Number of retained rows.
Len == Cardinality({k \in RowKeys : Exists(k)})

HasRoom == Len < maximum

FenceLeft(previous) == previous < MaxFence

NextFence(previous) == previous + 1

\* Exact next revision of the same Operation, or a later generation of a new
\* Operation at revision one.
leaseBindingMovesForward(current, candidate) ==
    \/ /\ candidate.generation = current.generation
       /\ candidate.operationID = current.operationID
       /\ candidate.planRevision = current.planRevision + 1
    \/ /\ candidate.generation > current.generation
       /\ candidate.operationID # current.operationID
       /\ candidate.planRevision = 1

tokenFromRow(row) ==
    [binding |-> row.binding, ownerID |-> row.ownerID, fence |-> row.fence]

\* The row of key k may be observed at time t (observeNowLocked's guard).
CanObserve(k, t) == Exists(k) /\ t >= rows[k].observedAt

\* observeNowLocked's effect: the clock high-water of the row.
Observed(k, t) == [rows EXCEPT ![k].observedAt = t]

\* The row is owned and its lease has not expired at t.  Equality with the
\* expiry loses.
Held(k, t) == rows[k].ownerID # NoOwner /\ t < rows[k].expiresAt

\* Mutated: the fence is not compared.
currentRow_anyFence(t, token) ==
    /\ Held(token.binding.row, t)
    /\ rows[token.binding.row].ownerID = token.ownerID
currentRow(t, token) ==
    /\ Held(token.binding.row, t)
    /\ tokenFromRow(rows[token.binding.row]) = token

ownedRow(binding, owner, fence, t) ==
    [binding |-> binding, ownerID |-> owner, fence |-> fence,
     acquiredAt |-> t, expiresAt |-> t + StoreLeaseDuration, observedAt |-> t]

-----------------------------------------------------------------------------
Init ==
    /\ rows = [k \in RowKeys |-> zeroRow]
    /\ tokens = {}
    /\ replacements = {}
    /\ attempts = {}
    /\ authorities = {}
    /\ permits = {}
    /\ dispatches = {}
    /\ surrendered = {}
    /\ commits = {}

pipeline == <<attempts, authorities, permits, dispatches>>

\* Install a freshly owned row and return its token.
Grant(row) ==
    /\ rows' = [rows EXCEPT ![row.binding.row] = row]
    /\ tokens' = tokens \cup {tokenFromRow(row)}

\* First acquisition of a lineage: takes a slot of the bounded table.
AcquireNew(t, b, owner) ==
    /\ ~Exists(b.row)
    /\ HasRoom
    /\ Grant(ownedRow(b, owner, NextFence(0), t))
    /\ UNCHANGED <<replacements, surrendered, commits, pipeline>>

\* Takeover of an expired or surrendered row under its exact binding.
AcquireTakeover(t, b, owner) ==
    /\ CanObserve(b.row, t)
    /\ rows[b.row].binding = b
    /\ ~Held(b.row, t)
    /\ FenceLeft(rows[b.row].fence)
    /\ Grant(ownedRow(b, owner, NextFence(rows[b.row].fence), t))
    /\ UNCHANGED <<replacements, surrendered, commits, pipeline>>

\* Refused after the clock was observed: the binding moved on, the lease is
\* held, or the fence is exhausted.
AcquireRefused(t, b) ==
    /\ CanObserve(b.row, t)
    /\ \/ rows[b.row].binding # b
       \/ Held(b.row, t)
       \/ ~FenceLeft(rows[b.row].fence)
    /\ rows' = Observed(b.row, t)
    /\ UNCHANGED <<tokens, replacements, surrendered, commits, pipeline>>

Acquire(t, b, owner) ==
    \/ AcquireNew(t, b, owner)
    \/ AcquireTakeover(t, b, owner)
    \/ AcquireRefused(t, b)

\* SelectPlan mints a same-generation authority, AuthorizeGenerationReplacement
\* one for exactly the next generation together with its paired admission.
\* The planning checks themselves only decide whether the call is made.
NewReplacement(expected, candidate) ==
    /\ expected.row = candidate.row
    /\ leaseBindingMovesForward(expected, candidate)
    /\ candidate.generation <= expected.generation + 1
    /\ \E c \in ReplacementCells \ {a.cell : a \in replacements} :
         replacements' = replacements \cup
           {[cell |-> c, expected |-> expected, replacement |-> candidate,
             use |-> "unused",
             transition |-> IF candidate.generation = expected.generation
                            THEN NoTransition ELSE 0]}
    /\ UNCHANGED <<rows, tokens, surrendered, commits, pipeline>>

ReplacementAdmissible(t, a) ==
    /\ rows[a.expected.row].binding = a.expected
    /\ ~Held(a.expected.row, t)
    /\ FenceLeft(rows[a.expected.row].fence)
    /\ a.use = "unused"

\* Compare-and-swap from the expected to the replacement binding.  The paired
\* admission becomes usable only once the replacement row is live.
AcquireReplacement(t, a, owner) ==
    /\ CanObserve(a.expected.row, t)
    /\ \/ /\ ReplacementAdmissible(t, a)
          /\ Grant(ownedRow(a.replacement, owner, NextFence(rows[a.expected.row].fence), t))
          /\ replacements' = (replacements \ {a}) \cup
               {[a EXCEPT !.use = "spent",
                          !.transition = IF @ = NoTransition THEN @ ELSE 1]}
       \/ /\ ~ReplacementAdmissible(t, a)
          /\ rows' = Observed(a.expected.row, t)
          /\ UNCHANGED <<tokens, replacements>>
    /\ UNCHANGED <<surrendered, commits, pipeline>>

Renew(t, token) ==
    LET k == token.binding.row IN
    /\ CanObserve(k, t)
    /\ rows' = IF currentRow(t, token)
               THEN [rows EXCEPT ![k] = [@ EXCEPT !.expiresAt = t + StoreLeaseDuration,
                                             !.observedAt = t]]
               ELSE Observed(k, t)
    /\ UNCHANGED <<tokens, replacements, surrendered, commits, pipeline>>

\* Ownership is dropped; the row and its fence stay.
Surrender(t, token) ==
    LET k == token.binding.row IN
    /\ CanObserve(k, t)
    /\ \/ /\ currentRow(t, token)
          /\ rows' = [rows EXCEPT ![k] = [@ EXCEPT !.ownerID = NoOwner,
                                                  !.expiresAt = t,
                                                  !.observedAt = t]]
          /\ surrendered' = surrendered \cup {token}
       \/ /\ ~currentRow(t, token)
          /\ rows' = Observed(k, t)
          /\ UNCHANGED surrendered
    /\ UNCHANGED <<tokens, replacements, commits, pipeline>>

\* Exact owner and fence predicate of an authoritative write.
AuthorizeCommit(t, token) ==
    LET k == token.binding.row IN
    /\ CanObserve(k, t)
    /\ rows' = Observed(k, t)
    /\ commits' = IF currentRow(t, token) THEN commits \cup {token} ELSE commits
    /\ UNCHANGED <<tokens, replacements, surrendered, pipeline>>

-----------------------------------------------------------------------------
(* The dispatch pipeline *)

\* An attempt is prepared for the plan, owner and fence of a token its caller
\* holds, live or not: preparation does not consult the table.
Prepare(t, token, until) ==
    /\ until = 0 \/ t < until
    /\ \E id \in AttemptIDs \ {a.id : a \in attempts} :
         attempts' = attempts \cup
           {[id |-> id, planDigest |-> token.binding.planDigest,
             ownerID |-> token.ownerID, fence |-> token.fence,
             preparedAt |-> t, validUntil |-> until]}
    /\ UNCHANGED <<rows, tokens, authorities, permits, dispatches, surrendered,
                   commits>>

NewPreparedAttempt(t, token, until) ==
    /\ Prepare(t, token, until)
    /\ UNCHANGED replacements

AdmissionUsable(a) == a.transition = 1

\* The admission paired with a generation replacement is spent by one attempt,
\* and only once the replacement row went live.
PrepareReplacementAttempt(t, a, token) ==
    /\ AdmissionUsable(a)
    /\ token.binding.planDigest = a.replacement.planDigest
    /\ Prepare(t, token, 0)
    /\ replacements' = (replacements \ {a}) \cup {[a EXCEPT !.transition = 2]}

\* All execution-time facts were found current at time t.
NewDispatchAuthority(t, attempt) ==
    /\ t >= attempt.preparedAt
    /\ InTime(attempt, t)
    /\ \E c \in FreshCells(authorities) :
         authorities' = authorities \cup
           {[cell |-> c, attempt |-> attempt, observedAt |-> t, use |-> "unused"]}
    /\ UNCHANGED <<rows, tokens, replacements, attempts, permits, dispatches,
                   surrendered, commits>>

\* Mutated: the deadline may touch the margin.
DispatchWindowOpen_touching(t, timeout, token) ==
    t + timeout <= rows[token.binding.row].expiresAt - DispatchSafetyMargin
DispatchWindowOpen(t, timeout, token) ==
    t + timeout < rows[token.binding.row].expiresAt - DispatchSafetyMargin

\* Mutated: the use cell is not tested.
DispatchAuthorized_reusable(t, token, timeout, authority) ==
    /\ authority.observedAt = t
    /\ currentRow(t, token)
    /\ DispatchWindowOpen(t, timeout, token)
DispatchAuthorized(t, token, timeout, authority) ==
    /\ authority.observedAt = t
    /\ currentRow(t, token)
    /\ DispatchWindowOpen(t, timeout, token)
    /\ authority.use = "unused"

\* Exchange an unused authority for a permit, at the very sample the authority
\* was checked at and only if the call must end a margin before the expiry.
AuthorizeDispatch(t, token, timeout, authority) ==
    LET k == token.binding.row IN
    /\ authority.attempt.planDigest = token.binding.planDigest
    /\ CanObserve(k, t)
    /\ rows' = Observed(k, t)
    /\ \/ /\ DispatchAuthorized(t, token, timeout, authority)
          /\ authorities' = (authorities \ {authority}) \cup
                              {[authority EXCEPT !.use = "spent"]}
          /\ \E c \in FreshCells(permits) :
               permits' = permits \cup
                 {[cell |-> c, authority |-> authority.cell, token |-> token,
                   attempt |-> authority.attempt, authorizedAt |-> t,
                   deadline |-> t + timeout, use |-> "unused"]}
       \/ /\ ~DispatchAuthorized(t, token, timeout, authority)
          /\ UNCHANGED <<authorities, permits>>
    /\ UNCHANGED <<tokens, replacements, attempts, dispatches, surrendered, commits>>

\* The physical-call boundary: the exact row must still be live under the lock.
MarkAttemptDispatched(t, permit) ==
    LET k == permit.token.binding.row IN
    /\ permit.token.ownerID = permit.attempt.ownerID
    /\ permit.token.fence = permit.attempt.fence
    /\ permit.token.binding.planDigest = permit.attempt.planDigest
    /\ permit.authorizedAt <= t /\ t < permit.deadline
    /\ InTime(permit.attempt, t)
    /\ CanObserve(k, t)
    /\ rows' = Observed(k, t)
    /\ \/ /\ currentRow(t, permit.token)
          /\ permit.use = "unused"
          /\ permits' = (permits \ {permit}) \cup {[permit EXCEPT !.use = "spent"]}
          /\ dispatches' = dispatches \cup
               {[permit |-> permit.cell, token |-> permit.token, at |-> t,
                 deadline |-> permit.deadline]}
       \/ /\ permit.use = "spent" \/ ~currentRow(t, permit.token)
          /\ UNCHANGED <<permits, dispatches>>
    /\ UNCHANGED <<tokens, replacements, attempts, authorities, surrendered, commits>>

-----------------------------------------------------------------------------
Next ==
    \E t \in Times :
        \/ \E b \in Bindings, o \in Owners : Acquire(t, b, o)
        \/ \E a \in replacements, o \in Owners : AcquireReplacement(t, a, o)
        \/ \E k \in tokens : Renew(t, k) \/ Surrender(t, k) \/ AuthorizeCommit(t, k)
        \/ \E k \in tokens, u \in Deadlines : NewPreparedAttempt(t, k, u)
        \/ \E k \in tokens, a \in replacements : PrepareReplacementAttempt(t, a, k)
        \/ \E a \in attempts : NewDispatchAuthority(t, a)
        \/ \E k \in tokens, d \in RpcTimeouts, a \in authorities :
               AuthorizeDispatch(t, k, d, a)
        \/ \E p \in permits : MarkAttemptDispatched(t, p)
        \/ \E b, c \in Bindings : NewReplacement(b, c)

Spec == Init /\ [][Next]_vars
-----------------------------------------------------------------------------
(* Properties *)

\* Every value has the shape the package's validators accept.
TypeOK ==
    /\ rows \in [RowKeys -> leaseRow]
    /\ tokens \subseteq LeaseToken
    /\ replacements \subseteq LeaseReplacementAuthority
    /\ attempts \subseteq Attempt
    /\ authorities \subseteq DispatchAuthority
    /\ permits \subseteq DispatchPermit
    /\ dispatches \subseteq Dispatch
    /\ surrendered \subseteq tokens
    /\ commits \subseteq tokens

SameRow(s, u) == s.binding.row = u.binding.row

\* A fence of a lineage names one grant: two tokens of a lineage with the same
\* fence have the same owner and binding, through takeovers, surrenders and
\* binding replacements (Acquire and AcquireReplacement use NextFence, Renew
\* keeps the fence).
FenceIdentifiesGrant ==
    \A s, u \in tokens : SameRow(s, u) /\ s.fence = u.fence => s = u

\* c is of a later generation than b, or of a later revision of the same one.
Precedes(b, c) ==
    \/ b.generation < c.generation
    \/ b.generation = c.generation /\ b.planRevision < c.planRevision

\* The history of grants of a lineage only moves forward: a later fence never
\* brings back an older generation or plan revision (AcquireReplacement accepts
\* only an authority for the exact current binding).
BindingsMoveForward ==
    \A s, u \in tokens :
        SameRow(s, u) /\ s.fence < u.fence =>
            s.binding = u.binding \/ Precedes(s.binding, u.binding)

\* The provider calls of two grants of a lineage do not overlap unless the first
\* owner gave its lease up: the first call must have ended more than the safety
\* margin before the later owner's call began (the margin rule of
\* AuthorizeDispatch and the expiry rule of Acquire, across renewals).
DispatchWindowsDisjoint ==
    \A d, e \in dispatches :
        SameRow(d.token, e.token) /\ d.token.fence < e.token.fence =>
            /\ d.at <= e.at
            /\ \/ d.token \in surrendered
               \/ d.deadline + DispatchSafetyMargin < e.at

\* Capabilities are one-use whoever copies them: an authority yields at most one
\* permit and a permit at most one dispatch; and the admission paired with a
\* generation replacement is usable, or used, only once some caller has won the
\* replacement row (AuthorizeDispatch, MarkAttemptDispatched, AcquireReplacement
\* and NewPreparedAttempt on their shared cells).
CapabilitiesUsedOnce ==
    /\ \A p, q \in permits : p.authority = q.authority => p = q
    /\ \A d, e \in dispatches : d.permit = e.permit => d = e
    /\ \A a \in replacements :
          a.transition \in {1, 2} =>
              a.use = "spent" /\ \E u \in tokens : u.binding = a.replacement

\* An owner's own token never becomes invalid while its row is live: a renewal
\* never shortens the lease below the duration validateLeaseToken demands, and a
\* permit's window stays inside the lease (validateDispatchPermit).
LiveGrantsStayValid ==
    /\ \A k \in RowKeys :
          rows[k].ownerID # NoOwner =>
              /\ rows[k].acquiredAt + StoreLeaseDuration <= rows[k].expiresAt
              /\ rows[k].expiresAt <= rows[k].observedAt + StoreLeaseDuration
    /\ \A p \in permits :
          tokenFromRow(rows[p.token.binding.row]) = p.token =>
              p.deadline + DispatchSafetyMargin < rows[p.token.binding.row].expiresAt

\* A call never deletes a row, moves its clock back, or lowers its fence; and it
\* changes the owner to another worker, or the binding, only with a fence one
\* higher.
RowStep(k) ==
    /\ rows'[k].fence \in {rows[k].fence, rows[k].fence + 1}
    /\ rows'[k].observedAt >= rows[k].observedAt
    /\ rows'[k].fence = rows[k].fence =>
          /\ rows'[k].binding = rows[k].binding
          /\ rows'[k].ownerID \in {rows[k].ownerID, NoOwner}

FencesOnlyAdvance == [][\A k \in RowKeys : RowStep(k)]_vars

\* No grant of the lineage is newer than fence f.
Newest(k, f) == \A u \in tokens : u.binding.row = k => u.fence <= f

\* Once a later owner has a token, no earlier token can start a provider call or
\* pass an authoritative write, whatever permit it still holds
\* (MarkAttemptDispatched and AuthorizeCommit re-check the row under the lock).
OnlyNewestGrantActs ==
    [][/\ \A d \in dispatches' \ dispatches :
             Newest(d.token.binding.row, d.token.fence)
       /\ \A u \in commits' \ commits : Newest(u.binding.row, u.fence)]_vars

\* What the table promises its callers, as a specification of its own.
acted == {<<u.binding.row, u.fence>> : u \in commits \cup {d.token : d \in dispatches}}

Fenced == INSTANCE FencedOwnership
            WITH Lineages <- RowKeys, Workers <- Owners, Nobody <- NoOwner,
                 fence <- [k \in RowKeys |-> rows[k].fence],
                 holder <- [k \in RowKeys |-> rows[k].ownerID],
                 acted <- acted

\* The lease table, with its clock, expiry, bindings and capabilities, implements
\* fenced ownership: every call is a grant under the next fence, a release, an
\* action of the current holder, or invisible.
FencedOwnershipSpec == Fenced!Spec
=============================================================================
