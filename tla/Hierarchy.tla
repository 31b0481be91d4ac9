----------------------------- MODULE Hierarchy -----------------------------
(* The ownership tree of one Workspace: six kinds of resource, a fixed       *)
(* parent kind for each, and the checks made before a child is added, moved  *)
(* or removed (internal/core/domain/hierarchy).  A snapshot is a function    *)
(* from identities to records [kind, workspace, parent]; identities are the  *)
(* numbers of the order they were issued in, NoID stands for a nil parent.   *)
EXTENDS Naturals, FiniteSets

NoID == 0

Kinds == {"Workspace", "Environment", "Application", "Component",
          "Policy", "ProviderConnection"}

expectedParentKind(kind) ==
    CASE kind = "Environment" -> "Workspace"
      [] kind = "Application" -> "Environment"
      [] kind = "Component" -> "Application"
      [] kind = "Policy" -> "Workspace"
      [] kind = "ProviderConnection" -> "Environment"
      [] OTHER -> "none"

\* Following parents from any record never comes back to it: no set of
\* records is closed under "has its parent in the set".
checkCycles(records) ==
    ~\E S \in SUBSET {id \in DOMAIN records : records[id].parent # NoID} :
        S # {} /\ \A id \in S : records[id].parent \in S

\* The outcomes of NewSnapshot the callers tell apart: a Workspace whose root
\* is missing is reported as not found, any other defect as an internal error.
\* Ownership is checked before the graph.
NewSnapshot(w, records) ==
    LET Below(id) == records[id].parent # NoID
    IN  CASE \E id \in DOMAIN records :
                \/ records[id].workspace # w
                \/ records[id].kind = "Workspace" /\ id # w -> "Invalid"
          [] w \notin DOMAIN records \/ records[w].kind # "Workspace" -> "RootMissing"
          [] \E id \in DOMAIN records : Below(id) = (records[id].kind = "Workspace")
             -> "Invalid"
          [] \E id \in DOMAIN records :
                Below(id) /\ records[id].parent \notin DOMAIN records -> "Invalid"
          [] ~checkCycles(records) -> "Invalid"
          [] \E id \in DOMAIN records :
                /\ Below(id)
                /\ records[records[id].parent].kind # expectedParentKind(records[id].kind)
             -> "Invalid"
          [] OTHER -> "Valid"

\* A child may be placed below an existing parent of the expected kind.
DeriveChild(records, kind, id, parent) ==
    /\ kind # "Workspace"
    /\ id \notin DOMAIN records
    /\ parent \in DOMAIN records
    /\ records[parent].kind = expectedParentKind(kind)

\* Kind, Workspace and parent of a stored resource never change.
CheckTransition(before, after) ==
    /\ before.kind = after.kind
    /\ before.workspace = after.workspace
    /\ before.parent = after.parent

CheckDelete_unrestricted(records, id) == id \in DOMAIN records

\* RESTRICT: only a resource with no children may be removed.  Nothing else
\* that may refer to it is looked at.
CheckDelete(records, id) ==
    /\ id \in DOMAIN records
    /\ \A other \in DOMAIN records : records[other].parent # id

\* The Environment a resource belongs to, NoID for a Workspace or a Policy.
resolveRecordEnvironment(records, id) ==
    LET r == records[id] IN
    CASE r.kind = "Environment" -> id
      [] r.kind \in {"Application", "ProviderConnection"} -> r.parent
      [] r.kind = "Component" -> records[r.parent].parent
      [] OTHER -> NoID

=============================================================================
