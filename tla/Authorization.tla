--------------------------- MODULE Authorization ---------------------------
(* Role-based decisions of internal/core/domain/authorization: the member    *)
(* directory of a Workspace, its Policies and their bindings, the action     *)
(* matrix, the resolution of a target in the hierarchy, and the evaluator.   *)
(* A digest (policy version, input digest) is modelled by the value it is    *)
(* computed from, which is what an equality of digests stands for.           *)
EXTENDS Hierarchy

Roles == {"Viewer", "Developer", "Operator", "WorkspaceAdministrator"}

\* A star: every role includes Viewer, no role includes another.
InheritedRoles(role) == {role, "Viewer"}

--------------------------------------------------------------------------
(* Membership.  A principal is [kind, id]: its kind and logical identity. A  *)
(* directory is a function from member identities to principals.             *)

NewMemberDirectory(d) ==
    \A m, n \in DOMAIN d : d[m] = d[n] => m = n

Match(d, principal) == {m \in DOMAIN d : d[m] = principal}

--------------------------------------------------------------------------
(* Policies.  A binding is [member, role, env]; env = NoID is the Workspace  *)
(* scope.  The specification of a Policy is its set of bindings.             *)

validateRoleBinding(b) ==
    /\ b.role \in Roles
    /\ b.role = "WorkspaceAdministrator" => b.env = NoID

ValidatePolicySpec(bindings) == \A b \in bindings : validateRoleBinding(b)

ValidatePolicyReferences(bindings, records, directory) ==
    /\ ValidatePolicySpec(bindings)
    /\ \A b \in bindings :
         /\ b.member \in DOMAIN directory
         /\ b.role = "WorkspaceAdministrator" => directory[b.member].kind = "Human"
         /\ b.env # NoID =>
              b.env \in DOMAIN records /\ records[b.env].kind = "Environment"

\* The digest covers the directory and every Policy's generation and bindings.
derivePolicyVersion(directory, policies) == <<directory, policies>>

\* By member: the roles bound anywhere, at the Workspace, by Environment.
compilePolicyBindings(policies, directory) ==
    [m \in DOMAIN directory |->
        LET of == UNION {{b \in p.bindings : b.member = m} : p \in policies}
        IN  [all |-> {b.role : b \in of},
             workspace |-> {b.role : b \in {c \in of : c.env = NoID}},
             environments |-> [e \in {b.env : b \in of} \ {NoID} |->
                                  {b.role : b \in {c \in of : c.env = e}}]]]

\* One invalid Policy fails the whole set: the Workspace then has no
\* evaluable policies at all.
NewPolicySet(w, records, directory, policies) ==
    IF \A p \in policies :
          /\ p.id \in DOMAIN records /\ records[p.id].kind = "Policy"
          /\ p.generation >= 1
          /\ ValidatePolicyReferences(p.bindings, records, directory)
    THEN [ok |-> TRUE, workspace |-> w, directory |-> directory,
          bindings |-> compilePolicyBindings(policies, directory),
          version |-> derivePolicyVersion(directory, policies)]
    ELSE [ok |-> FALSE]

--------------------------------------------------------------------------
(* The action matrix. *)

globallyReservedActions ==
    {"resource.status.replace", "operation.quarantine", "audit.export",
     "approval.approve", "approval.reject", "approval.override", "work.publish",
     "work.consume", "work.redrive", "reconcile.plan", "reconcile.execute",
     "operation.transition", "credential.resolve", "provider.discover",
     "provider.apply", "provider.observe", "provider.delete", "audit.append"}

actionReserved(action, target) ==
    \/ action \in globallyReservedActions
    \/ /\ action = "resource.create"
       /\ target.resourceKind = "Workspace"
       /\ target.objectKind = "Resource"

grant(actions, object, kinds) == actions \X {object} \X kinds

viewerResourceKinds == Kinds \ {"Policy"}

workloads == {"Application", "Component"}

foundations == {"Environment", "ProviderConnection"}

administered == {"Policy", "Workspace"}

directRoleGrants(role) ==
    CASE role = "Viewer" ->
           grant({"resource.list", "resource.get"}, "Resource", viewerResourceKinds)
           \cup grant({"plan.list", "plan.get"}, "Plan", viewerResourceKinds)
           \cup grant({"operation.list", "operation.get"}, "Operation", viewerResourceKinds)
           \cup grant({"audit.list"}, "Audit", viewerResourceKinds)
      [] role = "Developer" ->
           grant({"resource.create", "resource.replace", "resource.delete"}, "Resource", workloads)
           \cup grant({"plan.preview"}, "Plan", workloads)
           \cup grant({"operation.cancel"}, "Operation", workloads)
      [] role = "Operator" ->
           grant({"resource.create", "resource.replace", "resource.delete"}, "Resource", foundations)
           \cup grant({"plan.preview"}, "Plan", foundations)
           \cup grant({"operation.cancel", "operation.retry"}, "Operation",
                      workloads \cup foundations)
      [] role = "WorkspaceAdministrator" ->
           grant({"resource.list", "resource.get", "resource.create"}, "Resource", {"Policy"})
           \cup grant({"resource.replace", "resource.delete"}, "Resource", administered)
           \cup grant({"plan.list", "plan.get", "plan.preview"}, "Plan", administered)
           \cup grant({"operation.list", "operation.get", "operation.cancel"},
                      "Operation", administered)
           \cup grant({"membership.list", "membership.get", "membership.create",
                       "membership.replace", "membership.delete"}, "Membership", Kinds)

roleAllows(role, action, target) ==
    \E inherited \in InheritedRoles(role) :
        <<action, target.objectKind, target.resourceKind>> \in directRoleGrants(inherited)

--------------------------------------------------------------------------
(* Targets: resolved from the hierarchy, never taken from the caller. *)

newTarget(object, objectID, records, id, w) ==
    [objectKind |-> object, objectID |-> objectID,
     resourceKind |-> records[id].kind, resourceID |-> id, workspace |-> w,
     environment |-> resolveRecordEnvironment(records, id)]

ResolveResourceTarget(records, id, w) == newTarget("Resource", id, records, id, w)

ResolveOperationTarget(records, op, id, w) == newTarget("Operation", op, records, id, w)

ResolveCreateTarget(records, id, kind, parent, w) ==
    ResolveResourceTarget([x \in DOMAIN records \cup {id} |->
        IF x = id THEN [kind |-> kind, workspace |-> w, parent |-> parent]
                  ELSE records[x]], id, w)

ResolveWorkspaceObjectTarget(object, objectID, records, w) ==
    newTarget(object, objectID, records, w, w)

--------------------------------------------------------------------------
(* The evaluator: default deny, first matching reason wins. *)

deriveInputDigest(principal, action, target) == <<principal, action, target>>

RolesOn_anyScope(compiled, target) == compiled.all

\* The roles a member holds on a target, from the compiled bindings.
RolesOn(compiled, target) ==
    compiled.workspace \cup
    (IF target.environment \in DOMAIN compiled.environments
     THEN compiled.environments[target.environment] ELSE {})

Reason(set, principal, action, target) ==
    LET members == Match(set.directory, principal)
        m == CHOOSE x \in members : TRUE
        compiled == set.bindings[m]
        roles == RolesOn(compiled, target)
    IN  CASE target.workspace # set.workspace -> "CrossWorkspace"
          [] actionReserved(action, target) -> "ReservedAction"
          [] members = {} -> "NoMembership"
          [] /\ action = "membership.get" /\ target.objectKind = "Membership"
             /\ target.objectID = m -> "RoleGranted"
          [] compiled.all = {} -> "NoRoleBinding"
          [] roles = {} -> "ScopeNotGranted"
          [] \E role \in roles : roleAllows(role, action, target) -> "RoleGranted"
          [] OTHER -> "ActionNotGranted"

Evaluate(set, principal, action, target) ==
    LET reason == Reason(set, principal, action, target)
    IN  [effect |-> IF reason = "RoleGranted" THEN "Allow" ELSE "Deny",
         reason |-> reason, policyVersion |-> set.version,
         inputDigest |-> deriveInputDigest(principal, action, target)]

=============================================================================
