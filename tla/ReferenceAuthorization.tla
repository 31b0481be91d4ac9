----------------------- MODULE ReferenceAuthorization -----------------------
(* The authorizing wrapper around the reference service                      *)
(* (internal/core/service/referenceauthorization): every call resolves its   *)
(* target in the stored hierarchy and evaluates the stored Policies; an      *)
(* accepted mutation leaves an admission (who, under which decision) from    *)
(* which a Plan is bound, and an effect runs only while that decision would  *)
(* be made again.  service.mu makes each call one action.                    *)
EXTENDS ReferenceService

CONSTANTS
    Directories,    \* the member directories an operator may install
    MaxAdmissions,
    MaxPlans        \* bound of the model

VARIABLES
    directory,      \* the directory of the Workspace
    admissions,     \* operation -> [principal, action, decision, targets]
    requests,       \* request key -> [operation, resource]
    plans,          \* the Plans built so far
    cancelled,      \* history: operations whose call was cancelled after the commit
    effects         \* history: the effects that ran

authVars == <<directory, admissions, requests, plans, cancelled, effects>>

--------------------------------------------------------------------------
(* Decisions on the current store. *)

authorizationState(w) == authorizationStateFor(w, directory)

evaluateOn(p, action, id) ==
    LET w == resources[id].workspace IN
    Evaluate(authorizationState(w), p, action, ResolveResourceTarget(Records(w), id, w))

\* The resource exists, its Workspace's Policies load, and they allow it.
authorizeResource(p, action, id) ==
    /\ id \in DOMAIN resources
    /\ authorizationState(resources[id].workspace).ok
    /\ evaluateOn(p, action, id).effect = "Allow"

\* The rows of a Workspace the principal may list, each evaluated on its own.
Visible(p, w) ==
    LET set == authorizationState(w)
        records == Records(w)
    IN  {id \in DOMAIN records :
           Evaluate(set, p, "resource.list", ResolveResourceTarget(records, id, w)).effect
             = "Allow"}

--------------------------------------------------------------------------
(* Admissions. *)

Admit_keepOld(rk, op, record, replay) ==
    [o \in DOMAIN admissions \cup {op} |-> IF o = op THEN record ELSE admissions[o]]

\* A key whose retained receipt expired gets a new operation: the admission of
\* the old one is dropped.
Admit(rk, op, record, replay) ==
    [o \in (DOMAIN admissions \ (IF replay THEN {requests[rk].operation} ELSE {})) \cup {op} |->
        IF o = op THEN record ELSE admissions[o]]

\* The part of mutate around the mutation itself, which answers with op.  The
\* mutation commits whatever happens to the caller's context; a context that
\* ends before GetOperation reads the operation back leaves it unadmitted.
mutate(rk, op, p, action, id, cancel) ==
    LET replay == rk \in DOMAIN requests
        w == resources[id].workspace
        record == [principal |-> p, action |-> action,
                   decision |-> evaluateOn(p, action, id),
                   resourceTarget |-> ResolveResourceTarget(Records(w), id, w),
                   operationTarget |-> ResolveOperationTarget(Records(w), op, id, w),
                   after |-> Len(commits')]
    IN  /\ IF replay THEN /\ requests[rk].resource = id
                          /\ requests[rk].operation \in DOMAIN admissions
                     ELSE Cardinality(DOMAIN admissions) < MaxAdmissions
        /\ IF replay /\ requests[rk].operation = op
           THEN ~cancel /\ UNCHANGED <<admissions, requests, cancelled>>
           ELSE IF cancel
           THEN cancelled' = cancelled \cup {op} /\ UNCHANGED <<admissions, requests>>
           ELSE /\ admissions' = Admit(rk, op, record, replay)
                /\ requests' = [k \in DOMAIN requests \cup {rk} |->
                      IF k = rk THEN [operation |-> op, resource |-> id] ELSE requests[k]]
                /\ UNCHANGED cancelled

\* A keyed retry within the window is authorized again and answered from the
\* retained receipt; it repairs an admission lost to a cancelled call.
AuthorizedReplace(p, id, k, labels) ==
    /\ authorizeResource(p, "resource.replace", id)
    /\ \E spec \in Specs[resources[id].kind], cancel \in BOOLEAN :
       LET rk == Key(p, "replace", <<"Resource", id>>, k)
           version == resources[id].version
       IN
       \/ /\ Replace(p, id, k, version, labels, spec, directory)
          /\ mutate(rk, NextOperation, p, "resource.replace", id, cancel)
       \/ /\ liveReplay(rk, [labels |-> labels, spec |-> spec], "mutation") = "Replay"
          /\ UNCHANGED refVars
          /\ mutate(rk, replays[rk].receipt.operation, p, "resource.replace", id, cancel)
    /\ UNCHANGED <<directory, plans, effects>>

\* replayDelete answers a key it knows from the retained receipt (nothing
\* changes: the resource is gone); any other key is authorized and admitted.
AuthorizedDelete(p, id, k) ==
    /\ authorizeResource(p, "resource.delete", id)
    /\ \E cancel \in BOOLEAN :
       LET rk == Key(p, "delete", <<"Resource", id>>, k) IN
       /\ rk \notin DOMAIN requests
       /\ Delete(p, id, k, resources[id].version)
       /\ mutate(rk, NextOperation, p, "resource.delete", id, cancel)
    /\ UNCHANGED <<directory, plans, effects>>

ReplaceMembers(d) ==
    /\ d # directory
    /\ NewMemberDirectory(d)
    /\ directory' = d
    /\ UNCHANGED refVars
    /\ UNCHANGED <<admissions, requests, plans, cancelled, effects>>

\* A page of the rows the caller may list; none when the Policies do not load.
AuthorizedList(p, q) ==
    /\ authorizationState(q.workspace).ok
    /\ LET visible == Visible(p, q.workspace) IN
       \/ FirstPage([q EXCEPT !.principal = p], visible, visible)
       \/ walk.query.principal = p /\ NextPage(visible)
    /\ UNCHANGED authVars

--------------------------------------------------------------------------
(* Plans and effects. *)

\* The caller's Operation, Actor and Authorization are replaced by the
\* retained operation and its admission.
NewPlan(op) ==
    LET record == admissions[op]
        plan == [operation |-> op, resource |-> operations[op].resource,
                 workspace |-> operations[op].workspace,
                 generation |-> operations[op].generation,
                 principal |-> record.principal,
                 policyVersion |-> record.decision.policyVersion,
                 inputDigest |-> record.decision.inputDigest]
    IN  /\ op \in DOMAIN admissions
        /\ Cardinality(plans \cup {plan}) <= MaxPlans
        /\ plan \notin plans
        /\ plans' = plans \cup {plan}
        /\ UNCHANGED refVars
        /\ UNCHANGED <<directory, admissions, requests, cancelled, effects>>

\* The admitted decision, made now: on the resource's current place in the
\* hierarchy, or for a deleted resource on the target sealed at admission.
CurrentDecision(record, plan) ==
    LET w == plan.workspace IN
    Evaluate(authorizationState(w), record.principal, record.action,
             IF record.action = "resource.delete" THEN record.resourceTarget
             ELSE ResolveResourceTarget(Records(w), plan.resource, w))

\* Unless it is gone on purpose, the resource still has the Plan's generation.
CurrentGeneration(record, plan) ==
    record.action # "resource.delete" =>
        /\ plan.resource \in DOMAIN resources
        /\ resources[plan.resource].generation = plan.generation

SameDecision_allowed(decision, plan) == decision.effect = "Allow"

SameDecision(decision, plan) ==
    /\ decision.effect = "Allow"
    /\ decision.policyVersion = plan.policyVersion
    /\ decision.inputDigest = plan.inputDigest

\* What a decision should depend on, said without compiled bindings or
\* resolved scopes: some retained Policy binds the principal, at the Workspace
\* or at an Environment on the way from the resource up to it, to a role that
\* grants the action; a member may always read their own membership.  holder
\* is the resource, or the parent of one that is to be created.
Granted(p, action, target, holder) ==
    LET up(id) == IF id \in DOMAIN resources THEN resources[id].parent ELSE NoID
        path == {target.resourceID, holder, up(holder), up(up(holder)), NoID}
    IN  \E m \in DOMAIN directory :
        /\ directory[m] = p
        /\ \/ action = "membership.get" /\ target.objectKind = "Membership" /\ target.objectID = m
           \/ \E policy \in DOMAIN resources :
                /\ resources[policy].kind = "Policy"
                /\ resources[policy].workspace = target.workspace
                /\ \E b \in resources[policy].spec.bindings :
                     /\ b.member = m
                     /\ b.env \in path
                     /\ roleAllows(b.role, action, target)

WithExecutionAuthorization(plan) ==
    LET op == plan.operation
        record == admissions[op]
    IN  /\ plan \in plans
        /\ op \in DOMAIN admissions
        /\ record.principal = plan.principal
        /\ record.decision.policyVersion = plan.policyVersion
        /\ record.decision.inputDigest = plan.inputDigest
        /\ operations[op].resource = plan.resource
        /\ operations[op].generation = plan.generation
        /\ authorizationState(plan.workspace).ok
        /\ CurrentGeneration(record, plan)
        /\ SameDecision(CurrentDecision(record, plan), plan)
        /\ effects' = effects \cup
             {[operation |-> op, resource |-> plan.resource, admitted |-> record.after,
               ran |-> Len(commits),
               granted |-> Granted(plan.principal, record.action, record.resourceTarget, plan.resource)]}
        /\ UNCHANGED refVars
        /\ UNCHANGED <<directory, admissions, requests, plans, cancelled>>

--------------------------------------------------------------------------
(* Properties. *)

\* An effect runs only on current authority (WithExecutionAuthorization): its
\* principal is granted the action at that moment, no Policy has changed since
\* the admission, not even to something else and back, and the resource's
\* desired state is still the one the operation was accepted for.
EffectsUseCurrentAuthority ==
    \A e \in effects :
        /\ e.granted
        /\ \A i \in e.admitted + 1 .. e.ran :
             commits[i].changed =>
                /\ commits[i].kind # "Policy"
                /\ commits[i].receipt.resource # e.resource

\* Admissions and requests (mutate): each request names one retained admission
\* and each admission one request, there are at most MaxAdmissions, and an
\* operation accepted for a mediated caller lacks an admission only when its call was cancelled
\* after the commit or its key was used for a newer operation.
AdmissionsTrackRequests ==
    /\ Cardinality(DOMAIN admissions) <= MaxAdmissions
    /\ Cardinality(DOMAIN admissions) = Cardinality(DOMAIN requests)
    /\ DOMAIN admissions = {requests[k].operation : k \in DOMAIN requests}
    /\ \A i \in 1 .. Len(commits) :
         LET c == commits[i]
             op == c.receipt.operation
         IN  \/ c.key.principal \notin Principals
             \/ op \in DOMAIN admissions
             \/ op \in cancelled
             \/ \E j \in i + 1 .. Len(commits) : commits[j].key = c.key

\* The evaluator (Evaluate over compiled bindings and resolved targets) allows
\* exactly what the retained Policies grant, whenever they load: on every
\* resource, on every resource that could be created, and on memberships.
EvaluatorMatchesBindings ==
    \A w \in {resources[id].workspace : id \in DOMAIN resources} :
        LET set == authorizationState(w)
            records == Records(w)
            Agrees(p, action, target, holder) ==
                (Evaluate(set, p, action, target).effect = "Allow")
                    <=> Granted(p, action, target, holder)
        IN  set.ok =>
            \A p \in Principals :
                /\ \A id \in DOMAIN records, action \in {"resource.list", "resource.delete"} :
                     Agrees(p, action, ResolveResourceTarget(records, id, w), id)
                /\ \A id \in DOMAIN records, kind \in Kinds :
                     expectedParentKind(kind) = records[id].kind =>
                     Agrees(p, "resource.create",
                            ResolveCreateTarget(records, nextID, kind, id, w), id)
                /\ \A m \in DOMAIN directory, action \in {"membership.get", "membership.delete"} :
                     Agrees(p, action,
                            ResolveWorkspaceObjectTarget("Membership", m, records, w), w)

\* docs/architecture/0009: "Every referenced member and Environment must exist
\* in the Policy's Workspace."
PolicyReferencesExist ==
    \A policy \in DOMAIN resources :
        resources[policy].kind = "Policy" =>
        \A b \in resources[policy].spec.bindings : b.env # NoID => b.env \in DOMAIN resources

=============================================================================
