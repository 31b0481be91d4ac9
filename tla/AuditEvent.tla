----------------------------- MODULE AuditEvent -----------------------------
(* One audit event (internal/core/domain/audit: event, references and the    *)
(* projection of administration): which references an event of each kind     *)
(* carries and which of them must agree.  Absent identifiers are NoID, an    *)
(* absent reference is NoRef; instants are whole milliseconds.  Texts,       *)
(* digests and encoded sizes are left out: they are checked one by one and   *)
(* relate to nothing else.                                                   *)
EXTENDS Authorization

CONSTANT MaxElevationDuration

NoRef == [absent |-> TRUE]

Present(reference) == reference # NoRef

PlatformStream == [kind |-> "Platform", workspace |-> NoID]

WorkspaceStream(w) == [kind |-> "Workspace", workspace |-> w]

ValidateStream(stream) ==
    \/ stream.kind = "Platform" /\ stream.workspace = NoID
    \/ stream.kind = "Workspace" /\ stream.workspace # NoID

ClockStates == {"Synchronized", "Uncertain", "Regressed"}

EventKinds == {"Request", "Authorization", "Operation", "ProviderAttempt",
               "Elevation", "Export", "Retention", "Integrity"}

Sources == {"API", "Worker", "Controller", "ProviderAdapter", "Administration", "System"}

--------------------------------------------------------------------------
(* References. *)

\* An anonymous actor has no pseudonym, every other kind has one.
ValidateActorRef(actor) ==
    /\ actor.kind \in {"Anonymous", "Human", "Workload", "Administrator"}
    /\ (actor.kind = "Anonymous") = (actor.pseudonym = NoID)

ActorFromPrincipal(principal) == [kind |-> principal.kind, pseudonym |-> principal.id]

AdministratorActor(id) == [kind |-> "Administrator", pseudonym |-> id]

validateActorAuthentication(actor, method) ==
    method \in CASE actor.kind = "Anonymous" -> {"None"}
                 [] actor.kind = "Human" -> {"OIDC", "StrongOIDC"}
                 [] actor.kind = "Workload" -> {"WorkloadOIDC", "Internal"}
                 [] actor.kind = "Administrator" -> {"StrongOIDC"}

validateTargetRef(t) ==
    /\ t.objectKind \in {"Resource", "Membership", "Audit", "Operation", "Plan"}
    /\ t.resourceKind \in Kinds
    /\ NoID \notin {t.objectID, t.resourceID, t.workspace}
    /\ t.connection # NoID => t.environment # NoID
    /\ t.resourceKind = "Workspace" => t.resourceID = t.workspace
    /\ (t.environment # NoID) = (t.resourceKind \notin {"Workspace", "Policy"})
    /\ t.objectKind = "Resource" => t.objectID = t.resourceID /\ t.connection = NoID
    /\ t.objectKind \in {"Membership", "Audit"} =>
         t.resourceKind = "Workspace" /\ t.connection = NoID

\* The target authorization resolved for an Operation, with its connection.
TargetRefFromAuthorization(records, op) ==
    LET t == ResolveOperationTarget(records, op.id, op.resource, op.workspace)
    IN  [objectKind |-> t.objectKind, objectID |-> t.objectID,
         resourceKind |-> t.resourceKind, resourceID |-> t.resourceID,
         workspace |-> t.workspace, environment |-> t.environment,
         connection |-> op.connection]

validateDecisionRef(d) == (d.effect = "Allow") = (d.reason = "RoleGranted")

validateOperationRef(op) ==
    /\ NoID \notin {op.id, op.workspace, op.resource}
    /\ (op.environment = NoID) = (op.connection = NoID)
    /\ op.generation >= 1

validateAttemptRef(attempt) == attempt.id # NoID /\ attempt.ordinal >= 1

--------------------------------------------------------------------------
(* Elevations.  A scope is the target of an administration grant: the        *)
(* Platform's audit, one Workspace's audit, or one Operation.                *)

ResolvePlatformAuditExportTarget ==
    [kind |-> "PlatformAudit", object |-> NoID, workspace |-> NoID,
     resource |-> NoID, environment |-> NoID, connection |-> NoID]

ResolveWorkspaceAuditExportTarget(w) ==
    [kind |-> "WorkspaceAudit", object |-> w, workspace |-> w,
     resource |-> w, environment |-> NoID, connection |-> NoID]

\* The binding is the Operation's own, checked against the hierarchy.
ResolvableOperation(records, op) ==
    /\ op.resource \in DOMAIN records
    /\ records[op.resource].workspace = op.workspace
    /\ op.environment # NoID =>
         op.environment = resolveRecordEnvironment(records, op.resource)
    /\ op.connection # NoID =>
         /\ op.connection \in DOMAIN records
         /\ records[op.connection].kind = "ProviderConnection"
         /\ records[op.connection].workspace = op.workspace
         /\ records[op.connection].parent = op.environment

ResolveOperationScope(op) ==
    [kind |-> "Operation", object |-> op.id, workspace |-> op.workspace,
     resource |-> op.resource, environment |-> op.environment,
     connection |-> op.connection]

validElevationTargetShape(scope) ==
    CASE scope.kind = "PlatformAudit" ->
           scope = ResolvePlatformAuditExportTarget
      [] scope.kind = "WorkspaceAudit" ->
           /\ scope.workspace # NoID
           /\ scope = ResolveWorkspaceAuditExportTarget(scope.workspace)
      [] scope.kind = "Operation" ->
           /\ NoID \notin {scope.object, scope.workspace, scope.resource}
           /\ (scope.environment = NoID) = (scope.connection = NoID)

validElevationAction(action, kind) ==
    \/ action = "audit.export" /\ kind \in {"PlatformAudit", "WorkspaceAudit"}
    \/ action \in {"operation.quarantine", "work.redrive"} /\ kind = "Operation"

validElevationPeriod(issued, expires) ==
    issued < expires /\ expires - issued <= MaxElevationDuration

\* When a state may be recorded: on issue, inside the window, or at its end.
validateElevationRef(e) ==
    /\ validElevationAction(e.action, e.scope.kind)
    /\ validElevationTargetShape(e.scope)
    /\ validElevationPeriod(e.issuedAt, e.expiresAt)
    /\ CASE e.state = "Issued" -> e.recordedAt = e.issuedAt
         [] e.state \in {"Consumed", "Revoked"} ->
              e.issuedAt <= e.recordedAt /\ e.recordedAt < e.expiresAt
         [] e.state = "Expired" -> e.recordedAt = e.expiresAt

newElevationRef(g, state, at) ==
    [grant |-> g.id, administrator |-> g.administrator,
     action |-> g.action, scope |-> g.scope, issuedAt |-> g.issuedAt,
     expiresAt |-> g.expiresAt, state |-> state, recordedAt |-> at]

\* From a grant itself only issue and expiry can be recorded.
ElevationRefFromGrant(g, state) ==
    newElevationRef(g, state,
                    IF state = "Issued" THEN g.issuedAt ELSE g.expiresAt)

ElevationRefFromConsumption(g, consumedAt) ==
    newElevationRef(g, "Consumed", consumedAt)

ElevationRefFromRevocation(g, revokedAt) ==
    newElevationRef(g, "Revoked", revokedAt)

--------------------------------------------------------------------------
(* Relationships. *)

SameScope(scope, id, r) ==
    /\ scope.object = id
    /\ scope.workspace = r.workspace
    /\ scope.environment = r.environment
    /\ scope.connection = r.connection

elevationMatchesOperation(e, op) ==
    /\ e.scope.kind = "Operation"
    /\ SameScope(e.scope, op.id, op) /\ e.scope.resource = op.resource

\* A Platform elevation has no authorization target to agree with.
elevationMatchesTarget(e, t) ==
    /\ \/ e.scope.kind = "WorkspaceAudit" /\ t.objectKind = "Audit"
       \/ e.scope.kind = "Operation" /\ t.objectKind = "Operation"
    /\ SameScope(e.scope, t.objectID, t) /\ e.scope.resource = t.resourceID

\* An unbound Operation claims no Environment; its target may still have one.
operationMatchesTarget(op, t) ==
    /\ op.workspace = t.workspace
    /\ op.resource = t.resourceID
    /\ op.environment # NoID =>
         op.environment = t.environment /\ op.connection = t.connection
    /\ t.objectKind = "Operation" => t.objectID = op.id

\* The references each kind of event must carry, and who may record it.
RequiredReferences(event) ==
    CASE event.kind = "Request" -> event.request # NoID
      [] event.kind = "Authorization" -> Present(event.decision)
      [] event.kind = "Operation" -> Present(event.operation)
      [] event.kind = "ProviderAttempt" ->
           /\ Present(event.operation) /\ Present(event.attempt)
           /\ event.source = "ProviderAdapter"
      [] event.kind = "Elevation" ->
           /\ Present(event.elevation) /\ event.source = "Administration"
           /\ event.actor.kind = "Administrator" /\ event.method = "StrongOIDC"
      [] OTHER -> TRUE

InStream_workspace(event) ==
    /\ Present(event.target) => event.stream = WorkspaceStream(event.target.workspace)
    /\ Present(event.operation) => event.stream = WorkspaceStream(event.operation.workspace)
    /\ Present(event.elevation) => event.elevation.scope.workspace \in {NoID, event.stream.workspace}

\* Every reference to a hierarchy belongs to that Workspace's stream; only a
\* Platform elevation has no Workspace.
InStream(event) ==
    /\ Present(event.target) => event.stream = WorkspaceStream(event.target.workspace)
    /\ Present(event.operation) => event.stream = WorkspaceStream(event.operation.workspace)
    /\ Present(event.elevation) =>
         LET w == event.elevation.scope.workspace
         IN  event.stream = IF w = NoID THEN PlatformStream ELSE WorkspaceStream(w)

validateEventRelationships(event) ==
    /\ RequiredReferences(event)
    /\ Present(event.attempt) => event.kind = "ProviderAttempt"
    /\ Present(event.elevation) =>
         /\ event.kind = "Elevation"
         /\ event.elevation.action = event.action
         /\ event.elevation.administrator = event.actor.pseudonym
         /\ event.elevation.recordedAt = event.recordedAt
         /\ Present(event.operation) =>
              elevationMatchesOperation(event.elevation, event.operation)
         /\ Present(event.target) => elevationMatchesTarget(event.elevation, event.target)
    /\ Present(event.operation) /\ Present(event.target) =>
         operationMatchesTarget(event.operation, event.target)
    /\ InStream(event)

validateEventFields(event) ==
    /\ event.id # NoID /\ event.sequence >= 1
    /\ ValidateStream(event.stream)
    /\ event.clock \in ClockStates
    /\ event.kind \in EventKinds
    /\ event.source \in Sources
    /\ ValidateActorRef(event.actor)
    /\ validateActorAuthentication(event.actor, event.method)
    /\ Present(event.target) => validateTargetRef(event.target)
    /\ Present(event.decision) => validateDecisionRef(event.decision)
    /\ Present(event.operation) => validateOperationRef(event.operation)
    /\ Present(event.attempt) => validateAttemptRef(event.attempt)
    /\ Present(event.elevation) => validateElevationRef(event.elevation)
    /\ validateEventRelationships(event)

\* NewEvent keeps its input or refuses it.
NewEvent(input) == validateEventFields(input)

=============================================================================
