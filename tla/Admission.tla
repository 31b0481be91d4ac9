----------------------------- MODULE Admission -----------------------------
(* Admission of write bodies (internal/core/domain/admission) with the        *)
(* validators of condition, control and model it ends in, as the reference    *)
(* service uses it: a body is normalized, admitted against the retained       *)
(* state, and compared with its normal form before it is stored.              *)
(*                                                                            *)
(* The same requirement is written down several times in this code: the       *)
(* collectors look for the least failure, the decoder rejects again what the *)
(* collectors let through, the semantic stage collects and then calls the     *)
(* authoritative validator, conversion validates once more.  Each of them is  *)
(* an operator here, so that they can be compared.                            *)
(*                                                                            *)
(* A decoded JSON value is a record with its type t: an object has a function *)
(* m from its member names, an array a sequence v, a number its spelling.     *)
(* Texts are members of small sets; Pattern says which texts a regular        *)
(* expression with its length limit accepts (control, condition, resource     *)
(* and admission spell these expressions alike).  A stage that fails yields   *)
(* the codes of all candidates: the code reports the least of them with its   *)
(* path, which nothing here depends on.                                       *)
EXTENDS Authorization, SequencesExt

CONSTANTS
    Document(_),    \* the decoded body of a submitted document
    Pattern,        \* name of an expression -> the texts it accepts
    TextRank,       \* text -> its place in the order of texts
    Identity,       \* opaque identifier -> the resource it names
    DecimalValue,   \* canonical decimal -> its value, scaled to an integer
    MaxInt64, Int64Digits,                  \* 2^63 - 1 and its length, scaled
    MaxRawBytes, MaxJSONDepth, MaxJSONNodes,
    MaxItems        \* MaxConditions, MaxBindingsPerPolicy, ...

VARIABLES
    retained,       \* id -> [kind, workspace, parent, generation, intent, status]
    submitted       \* the last call: its document and its outcome

admissionVars == <<retained, submitted>>

APIVersion == "v1alpha1"

\* Outcomes.  late marks a rejection by a check that repeats an earlier one.
reject(stage, codes, late) == [stage |-> stage, codes |-> codes, late |-> late]

Passed == reject("none", {}, FALSE)

failure(stage, codes) == IF codes = {} THEN Passed ELSE reject(stage, codes, FALSE)

twice(stage, codes) == IF codes = {} THEN Passed ELSE reject(stage, codes, TRUE)

Failed(outcome) == outcome.stage # "none"

\* The next stage is reached only when this one passed.
then(outcome, next) == IF Failed(outcome) THEN outcome ELSE next

add(condition, code) == IF condition THEN {code} ELSE {}

--------------------------------------------------------------------------
(* The raw document. *)

RECURSIVE Nodes(_), Depth(_), Duplicates(_)

Children(v) ==
    CASE v.t = "object" -> {<<n, v.m[n]>> : n \in DOMAIN v.m}
      [] v.t = "array" -> {<<i, v.v[i]>> : i \in DOMAIN v.v}
      [] OTHER -> {}

Nodes(v) == 1 + FoldSet(LAMBDA c, n : n + Nodes(c[2]), 0, Children(v))

Depth(v) == IF Children(v) = {} THEN 0 ELSE 1 + Max({Depth(c[2]) : c \in Children(v)})

Duplicates(v) ==
    \/ v.t = "object" /\ v.repeated
    \/ \E c \in Children(v) : Duplicates(c[2])

\* Crossing a ceiling ends the scan; repeated names are carried along.
scanJSONStructure(v) ==
    [terminal |-> add(Depth(v) > MaxJSONDepth, "json-too-deep")
                  \cup add(Nodes(v) > MaxJSONNodes, "too-many-json-nodes"),
     candidates |-> add(Duplicates(v), "duplicate-field")]

parseRaw(d) ==
    CASE d.bytes > MaxRawBytes -> failure("schema", {"request-too-large"})
      [] ~d.json -> failure("schema", {"invalid-json"})
      [] OTHER -> failure("schema", scanJSONStructure(d.value).terminal)

--------------------------------------------------------------------------
(* Numbers.  A JSON number is [neg, int, frac, exp]: digits before and after  *)
(* the point, and an exponent [neg, digits] (no digits: no exponent).         *)

clampedDecimalExponent_tight(e) ==
    LET limit == Int64Digits + 1
        value == FoldLeft(LAMBDA n, d : IF n > (limit - d) \div 10 THEN limit ELSE n * 10 + d,
                          0, e.digits)
    IN  IF e.neg THEN 0 - value ELSE value

\* An exponent no document is long enough to need is cut to the limit.
clampedDecimalExponent(e) ==
    LET limit == MaxRawBytes + 1
        value == FoldLeft(LAMBDA n, d : IF n > (limit - d) \div 10 THEN limit ELSE n * 10 + d,
                          0, e.digits)
    IN  IF e.neg THEN 0 - value ELSE value

NotInt64 == -1

\* digits followed by scale zeros, unless a step would pass the maximum.
accumulate(digits, scale) ==
    FoldLeft(LAMBDA n, d : IF n = NotInt64 \/ n > (MaxInt64 - d) \div 10 THEN NotInt64
                           ELSE n * 10 + d,
             0, digits \o [i \in 1 .. scale |-> 0])

leadingZeros(digits) == Max({i \in 0 .. Len(digits) : \A j \in 1 .. i : digits[j] = 0})

\* The digits that are left of the point, and the zeros that follow them.
wholeInt64(digits, zeros) ==
    CASE digits = << >> -> 0
      [] Len(digits) + zeros > Int64Digits -> NotInt64
      [] OTHER -> accumulate(digits, zeros)

\* The point stands scale places behind the digits.
scaledInt64(neg, digits, scale) ==
    CASE \A i \in DOMAIN digits : digits[i] = 0 -> 0
      [] neg \/ 0 - scale >= Len(digits) -> NotInt64
      [] \E i \in Len(digits) + scale + 1 .. Len(digits) : digits[i] # 0 -> NotInt64
      [] scale >= 0 -> wholeInt64(SubSeq(digits, leadingZeros(digits) + 1, Len(digits)), scale)
      [] OTHER -> wholeInt64(SubSeq(digits, leadingZeros(digits) + 1, Len(digits) + scale), 0)

nonNegativeInt64(n) ==
    scaledInt64(n.neg, n.int \o n.frac, clampedDecimalExponent(n.exp) - Len(n.frac))

--------------------------------------------------------------------------
(* Schema stage: the collectors. *)

has(o, name) == name \in DOMAIN o.m

isString(o, name) == has(o, name) /\ o.m[name].t = "string"

collectObject(v, required, allowed) ==
    IF v.t # "object" THEN {"invalid-type"}
    ELSE add(\E n \in required : ~has(v, n), "missing-field")
         \cup add(\E n \in required : has(v, n) /\ v.m[n].t = "null", "invalid-type")
         \cup add(~(DOMAIN v.m \subseteq allowed), "unknown-field")

\* A missing or null member was already reported by its object.
collectString(o, name, accepted, code) ==
    IF ~has(o, name) \/ o.m[name].t = "null" THEN {}
    ELSE IF o.m[name].t # "string" THEN {"invalid-type"}
    ELSE add(o.m[name].v \notin accepted, code)

collectPatternString(o, name, pattern) ==
    collectString(o, name, Pattern[pattern], "invalid-value")

collectTimestamp(o, name) == collectString(o, name, Pattern["timestamp"], "invalid-value")

collectNonNegativeInt64(o, name) ==
    IF ~has(o, name) \/ o.m[name].t = "null" THEN {}
    ELSE IF o.m[name].t # "number" THEN {"invalid-type"}
    ELSE add(nonNegativeInt64(o.m[name].v) = NotInt64, "invalid-value")

\* Unlike a string, an optional decimal that is null is a wrong type.
collectOptionalDecimal(o, name) ==
    IF ~has(o, name) THEN {}
    ELSE IF o.m[name].t # "string" THEN {"invalid-type"}
    ELSE add(o.m[name].v \notin Pattern["decimal"], "invalid-value")

\* codes is what the items are rejected for.
collectItems(v, codes) ==
    IF v.t # "array" THEN {"invalid-type"} ELSE add(Len(v.v) > MaxItems, "invalid-value") \cup codes

collectLabelsSchema(labels) ==
    add(Cardinality(DOMAIN labels) > MaxItems, "invalid-value")
    \cup add(~(DOMAIN labels \subseteq Pattern["labelKey"]), "invalid-value")
    \cup add(\E n \in DOMAIN labels : labels[n].t # "string", "invalid-type")
    \cup add(\E n \in DOMAIN labels : labels[n].t = "string"
                 /\ labels[n].v \notin Pattern["labelValue"], "invalid-value")

collectMetadataSchema(v) ==
    collectObject(v, {"displayName"}, {"displayName", "labels"}) \cup
    IF v.t # "object" THEN {}
    ELSE collectPatternString(v, "displayName", "displayName") \cup
         (IF ~has(v, "labels") THEN {}
          ELSE IF v.m["labels"].t # "object" THEN {"invalid-type"}
          ELSE collectLabelsSchema(v.m["labels"].m))

ScopeKinds == {"Workspace", "Environment"}

collectPolicyScopeSchema(v) ==
    collectObject(v, {"kind"}, {"kind", "environmentId"}) \cup
    IF v.t # "object" THEN {}
    ELSE collectString(v, "kind", ScopeKinds, "invalid-value")
         \cup add(has(v, "environmentId") /\ v.m["environmentId"].t = "null", "invalid-type")
         \cup collectPatternString(v, "environmentId", "opaqueID")
         \cup add(isString(v, "kind") /\ v.m["kind"].v = "Workspace" /\ has(v, "environmentId"),
                  "invalid-value")
         \cup add(isString(v, "kind") /\ v.m["kind"].v = "Environment" /\ ~has(v, "environmentId"),
                  "missing-field")

BindingFields == {"memberId", "role", "scope"}

collectBindingSchema(b) ==
    collectObject(b, BindingFields, BindingFields) \cup
    IF b.t # "object" THEN {}
    ELSE collectPatternString(b, "memberId", "opaqueID")
         \cup collectString(b, "role", Roles, "invalid-value")
         \cup (IF ~has(b, "scope") \/ b.m["scope"].t = "null" THEN {}
               ELSE collectPolicyScopeSchema(b.m["scope"]))

collectBindingsSchema(v) == collectItems(v, UNION {collectBindingSchema(v.v[i]) : i \in DOMAIN v.v})

collectPolicySpecSchema(v) ==
    collectObject(v, {"bindings"}, {"bindings"}) \cup
    IF v.t # "object" THEN {}
    ELSE IF ~has(v, "bindings") \/ v.m["bindings"].t = "null" THEN {}
    ELSE collectBindingsSchema(v.m["bindings"])

collectReferenceSchema(reference) ==
    collectObject(reference, {"referenceId", "version"}, {"referenceId", "version"}) \cup
    IF reference.t # "object" THEN {}
    ELSE collectPatternString(reference, "referenceId", "opaqueID")
         \cup collectPatternString(reference, "version", "version")

collectProviderSpecSchema(v) ==
    collectObject(v, {"provider", "credentialRef"}, {"provider", "credentialRef"}) \cup
    IF v.t # "object" THEN {}
    ELSE collectPatternString(v, "provider", "provider") \cup
         (IF ~has(v, "credentialRef") THEN {} ELSE collectReferenceSchema(v.m["credentialRef"]))

collectIntentSpecSchema(kind, v) ==
    CASE kind = "Workspace" ->
           collectObject(v, {}, {"suspendReconciliation"}) \cup
           add(/\ v.t = "object" /\ has(v, "suspendReconciliation")
               /\ v.m["suspendReconciliation"].t # "bool", "invalid-type")
      [] kind = "Policy" -> collectPolicySpecSchema(v)
      [] kind = "ProviderConnection" -> collectProviderSpecSchema(v)
      [] OTHER -> collectObject(v, {}, {})

ConditionFields == {"type", "status", "reason", "message", "observedGeneration", "lastTransitionAt"}

ConditionStatuses == {"True", "False", "Unknown"}

collectConditionSchema(c) ==
    collectObject(c, ConditionFields, ConditionFields) \cup
    IF c.t # "object" THEN {}
    ELSE collectPatternString(c, "type", "condition")
         \cup collectString(c, "status", ConditionStatuses, "invalid-value")
         \cup collectPatternString(c, "reason", "condition")
         \cup collectPatternString(c, "message", "message")
         \cup collectNonNegativeInt64(c, "observedGeneration")
         \cup collectTimestamp(c, "lastTransitionAt")

collectConditionsSchema(v) ==
    collectItems(v, UNION {collectConditionSchema(v.v[i]) : i \in DOMAIN v.v})

ObservationFields == {"name", "state", "source", "observedAt", "reason"}

CapabilityStates == {"Supported", "Unsupported", "Unknown"}

\* The members capabilities and quota checks share.
collectObservation(o, states) ==
    collectPatternString(o, "name", "observation")
    \cup collectString(o, "state", states, "invalid-value")
    \cup collectPatternString(o, "source", "source")
    \cup collectTimestamp(o, "observedAt")
    \cup collectPatternString(o, "reason", "condition")

collectCapabilitySchema(c) ==
    collectObject(c, ObservationFields, ObservationFields) \cup
    IF c.t # "object" THEN {} ELSE collectObservation(c, CapabilityStates)

collectCapabilitiesSchema(v) ==
    collectItems(v, UNION {collectCapabilitySchema(v.v[i]) : i \in DOMAIN v.v})

KnownQuotas == {"WithinLimit", "Exceeded"}

Quantities == {"requested", "available"}

collectQuotaSchema_lax(q) ==
    collectObject(q, ObservationFields, ObservationFields \cup Quantities) \cup
    IF q.t # "object" THEN {}
    ELSE collectObservation(q, KnownQuotas \cup {"Unknown"})
         \cup add(/\ isString(q, "state") /\ q.m["state"].v = "Unknown"
                  /\ \E n \in Quantities : has(q, n), "invalid-value")
         \cup add(/\ isString(q, "state") /\ q.m["state"].v \in KnownQuotas
                  /\ \E n \in Quantities : ~has(q, n), "missing-field")

collectQuotaSchema(q) ==
    collectObject(q, ObservationFields, ObservationFields \cup Quantities) \cup
    IF q.t # "object" THEN {}
    ELSE collectObservation(q, KnownQuotas \cup {"Unknown"})
         \cup UNION {collectOptionalDecimal(q, n) : n \in Quantities}
         \cup add(/\ isString(q, "state") /\ q.m["state"].v = "Unknown"
                  /\ \E n \in Quantities : has(q, n), "invalid-value")
         \cup add(/\ isString(q, "state") /\ q.m["state"].v \in KnownQuotas
                  /\ \E n \in Quantities : ~has(q, n), "missing-field")

collectQuotasSchema(v) == collectItems(v, UNION {collectQuotaSchema(v.v[i]) : i \in DOMAIN v.v})

CommonFields == {"observedGeneration", "conditions"}

ProviderFields == CommonFields \cup {"capabilities", "quotaChecks"}

statusFields(kind) == IF kind = "ProviderConnection" THEN ProviderFields ELSE CommonFields

collectStatusSchema(kind, v) ==
    collectObject(v, statusFields(kind), statusFields(kind)) \cup
    IF v.t # "object" THEN {}
    ELSE collectNonNegativeInt64(v, "observedGeneration")
         \cup (IF has(v, "conditions") THEN collectConditionsSchema(v.m["conditions"]) ELSE {})
         \cup (IF kind = "ProviderConnection" /\ has(v, "capabilities")
               THEN collectCapabilitiesSchema(v.m["capabilities"]) ELSE {})
         \cup (IF kind = "ProviderConnection" /\ has(v, "quotaChecks")
               THEN collectQuotasSchema(v.m["quotaChecks"]) ELSE {})

\* The envelope of both bodies: version and kind, then what the rest is rejected for.
collectEnvelope(v, fields, codes) ==
    collectObject(v, fields, fields) \cup
    IF v.t # "object" THEN {}
    ELSE collectString(v, "apiVersion", {APIVersion}, "unsupported-version")
         \cup collectString(v, "kind", Kinds, "unsupported-kind")
         \cup codes

knownKind(v) == isString(v, "kind") /\ v.m["kind"].v \in Kinds

collectIntent(v) ==
    collectEnvelope(v, {"apiVersion", "kind", "metadata", "spec"},
        (IF has(v, "metadata") THEN collectMetadataSchema(v.m["metadata"]) ELSE {})
        \cup (IF has(v, "spec") /\ knownKind(v)
              THEN collectIntentSpecSchema(v.m["kind"].v, v.m["spec"]) ELSE {}))

validateIntentSchema(d) == scanJSONStructure(d.value).candidates \cup collectIntent(d.value)

collectStatus(v) ==
    collectEnvelope(v, {"apiVersion", "kind", "status"},
        IF has(v, "status") /\ knownKind(v)
        THEN collectStatusSchema(v.m["kind"].v, v.m["status"]) ELSE {})

validateStatusSchema(d) == scanJSONStructure(d.value).candidates \cup collectStatus(d.value)

--------------------------------------------------------------------------
(* Schema stage: the decoder, which stops at the first thing it cannot use.   *)

\* The last argument of these is what the contents are rejected for.
schemaObject(v, codes) == IF v.t # "object" THEN {"invalid-type"} ELSE codes

schemaItems(v, codes) ==
    IF v.t # "array" THEN {"invalid-type"} ELSE add(Len(v.v) > MaxItems, "invalid-value") \cup codes

required(o, name) ==
    IF ~has(o, name) THEN {"missing-field"} ELSE add(o.m[name].t = "null", "invalid-type")

requiredString(o, name) ==
    required(o, name) \cup add(has(o, name) /\ o.m[name].t # "string", "invalid-type")

requiredPatternString(o, name, accepted) ==
    requiredString(o, name)
    \cup add(isString(o, name) /\ o.m[name].v \notin accepted, "invalid-value")

requiredNonNegativeInt64(o, name) ==
    required(o, name) \cup collectNonNegativeInt64(o, name)

optionalDecimal(o, name) ==
    IF ~has(o, name) THEN {}
    ELSE add(o.m[name].t # "string", "invalid-type")
         \cup add(isString(o, name) /\ o.m[name].v \notin Pattern["decimal"], "invalid-value")

rejectUnknown(o, allowed) == add(~(DOMAIN o.m \subseteq allowed), "unknown-field")

\* A required member that is handed to a decoder of its own.
requiredMember(o, name, codes) == IF required(o, name) # {} THEN required(o, name) ELSE codes

schemaLabels(l) ==
    add(Cardinality(DOMAIN l.m) > MaxItems, "invalid-value")
    \cup add(~(DOMAIN l.m \subseteq Pattern["labelKey"]), "invalid-value")
    \cup add(\E n \in DOMAIN l.m : l.m[n].t # "string", "invalid-type")
    \cup add(\E n \in DOMAIN l.m : l.m[n].t = "string" /\ l.m[n].v \notin Pattern["labelValue"],
             "invalid-value")

schemaMetadata(o) ==
    schemaObject(o,
        rejectUnknown(o, {"displayName", "labels"})
        \cup requiredPatternString(o, "displayName", Pattern["displayName"])
        \cup IF has(o, "labels") THEN schemaObject(o.m["labels"], schemaLabels(o.m["labels"])) ELSE {})

schemaWorkspaceSpec(o) ==
    schemaObject(o,
        rejectUnknown(o, {"suspendReconciliation"})
        \cup add(/\ has(o, "suspendReconciliation")
                 /\ o.m["suspendReconciliation"].t # "bool", "invalid-type"))

schemaEmptySpec(o) == schemaObject(o, rejectUnknown(o, {}))

schemaScopeEnvironment(o) ==
    CASE isString(o, "kind") /\ o.m["kind"].v = "Workspace" ->
           IF ~has(o, "environmentId") THEN {}
           ELSE {IF isString(o, "environmentId") THEN "invalid-value" ELSE "invalid-type"}
      [] isString(o, "kind") /\ o.m["kind"].v = "Environment" ->
           requiredPatternString(o, "environmentId", Pattern["opaqueID"])
      [] OTHER -> {}

schemaPolicyScope(o) ==
    schemaObject(o,
        rejectUnknown(o, {"kind", "environmentId"})
        \cup requiredPatternString(o, "kind", ScopeKinds) \cup schemaScopeEnvironment(o))

schemaPolicyBinding(o) ==
    schemaObject(o,
        rejectUnknown(o, {"memberId", "role", "scope"})
        \cup requiredPatternString(o, "memberId", Pattern["opaqueID"])
        \cup requiredPatternString(o, "role", Roles)
        \cup requiredMember(o, "scope", schemaPolicyScope(o.m["scope"])))

schemaBindings(b) == schemaItems(b, UNION {schemaPolicyBinding(b.v[i]) : i \in DOMAIN b.v})

schemaPolicySpec(o) ==
    schemaObject(o,
        rejectUnknown(o, {"bindings"})
        \cup requiredMember(o, "bindings", schemaBindings(o.m["bindings"])))

schemaCredentialReference(o) ==
    schemaObject(o,
        rejectUnknown(o, {"referenceId", "version"})
        \cup requiredPatternString(o, "referenceId", Pattern["opaqueID"])
        \cup requiredPatternString(o, "version", Pattern["version"]))

schemaProviderSpec(o) ==
    schemaObject(o,
        rejectUnknown(o, {"provider", "credentialRef"})
        \cup requiredPatternString(o, "provider", Pattern["provider"])
        \cup requiredMember(o, "credentialRef", schemaCredentialReference(o.m["credentialRef"])))

schemaCondition(o) ==
    schemaObject(o,
        rejectUnknown(o, ConditionFields)
        \cup requiredPatternString(o, "type", Pattern["condition"])
        \cup requiredPatternString(o, "status", ConditionStatuses)
        \cup requiredPatternString(o, "reason", Pattern["condition"])
        \cup requiredPatternString(o, "message", Pattern["message"])
        \cup requiredNonNegativeInt64(o, "observedGeneration")
        \cup requiredString(o, "lastTransitionAt"))

schemaConditions(v) == schemaItems(v, UNION {schemaCondition(v.v[i]) : i \in DOMAIN v.v})

schemaObservation(o, states) ==
    requiredPatternString(o, "name", Pattern["observation"])
    \cup requiredPatternString(o, "state", states)
    \cup requiredPatternString(o, "source", Pattern["source"])
    \cup requiredString(o, "observedAt")
    \cup requiredPatternString(o, "reason", Pattern["condition"])

schemaCapability(o) ==
    schemaObject(o,
        rejectUnknown(o, ObservationFields) \cup schemaObservation(o, CapabilityStates))

schemaCapabilities(v) == schemaItems(v, UNION {schemaCapability(v.v[i]) : i \in DOMAIN v.v})

schemaQuotaCheck(o) ==
    schemaObject(o,
        rejectUnknown(o, ObservationFields \cup Quantities)
        \cup schemaObservation(o, KnownQuotas \cup {"Unknown"})
        \cup UNION {optionalDecimal(o, n) : n \in Quantities})

schemaQuotaChecks(v) == schemaItems(v, UNION {schemaQuotaCheck(v.v[i]) : i \in DOMAIN v.v})

schemaCommonStatusFields(o) ==
    requiredNonNegativeInt64(o, "observedGeneration")
    \cup requiredMember(o, "conditions", schemaConditions(o.m["conditions"]))

schemaCommonStatus(o) ==
    schemaObject(o, rejectUnknown(o, CommonFields) \cup schemaCommonStatusFields(o))

schemaProviderStatus(o) ==
    schemaObject(o,
        rejectUnknown(o, ProviderFields) \cup schemaCommonStatusFields(o)
        \cup requiredMember(o, "capabilities", schemaCapabilities(o.m["capabilities"]))
        \cup requiredMember(o, "quotaChecks", schemaQuotaChecks(o.m["quotaChecks"])))

schemaEnvelope(o, fields, codes) ==
    schemaObject(o,
        rejectUnknown(o, fields)
        \cup requiredPatternString(o, "apiVersion", {APIVersion})
        \cup requiredPatternString(o, "kind", Kinds)
        \cup IF knownKind(o) THEN codes ELSE {})

schemaSpec(v, kind) ==
    CASE kind = "Workspace" -> schemaWorkspaceSpec(v)
      [] kind = "Policy" -> schemaPolicySpec(v)
      [] kind = "ProviderConnection" -> schemaProviderSpec(v)
      [] OTHER -> schemaEmptySpec(v)

decodeIntent(o) ==
    schemaEnvelope(o, {"apiVersion", "kind", "metadata", "spec"},
        requiredMember(o, "metadata", schemaMetadata(o.m["metadata"]))
        \cup requiredMember(o, "spec", schemaSpec(o.m["spec"], o.m["kind"].v)))

schemaIntent(d) ==
    then(failure("schema", validateIntentSchema(d)), twice("schema", decodeIntent(d.value)))

schemaObserved(v, kind) ==
    IF kind = "ProviderConnection" THEN schemaProviderStatus(v) ELSE schemaCommonStatus(v)

decodeStatus(o) ==
    schemaEnvelope(o, {"apiVersion", "kind", "status"},
        requiredMember(o, "status", schemaObserved(o.m["status"], o.m["kind"].v)))

schemaStatus(d) ==
    then(failure("schema", validateStatusSchema(d)), twice("schema", decodeStatus(d.value)))

--------------------------------------------------------------------------
(* What the decoder returns.  All kinds share one record: the fields of the   *)
(* other kinds keep their zero value, as in sourceIntent and sourceStatus.    *)

NoText == ""

text(o, name) == IF has(o, name) THEN o.m[name].v ELSE NoText

noSpec == [suspend |-> "unset", bindings |-> << >>, provider |-> NoText,
           referenceId |-> NoText, version |-> NoText]

bindingOf(o) == [member |-> text(o, "memberId"), role |-> text(o, "role"),
                 scope |-> text(o.m["scope"], "kind"),
                 environment |-> text(o.m["scope"], "environmentId")]

specOf(kind, o) ==
    CASE kind = "Workspace" /\ has(o, "suspendReconciliation") ->
           [noSpec EXCEPT !.suspend = o.m["suspendReconciliation"].v]
      [] kind = "Policy" ->
           [noSpec EXCEPT !.bindings = [i \in DOMAIN o.m["bindings"].v |->
                                           bindingOf(o.m["bindings"].v[i])]]
      [] kind = "ProviderConnection" ->
           [noSpec EXCEPT !.provider = text(o, "provider"),
                          !.referenceId = text(o.m["credentialRef"], "referenceId"),
                          !.version = text(o.m["credentialRef"], "version")]
      [] OTHER -> noSpec

\* Labels that are absent and labels that are empty are different here.
metadataOf(o) ==
    [displayName |-> text(o, "displayName"), labelled |-> has(o, "labels"),
     labels |-> [n \in IF has(o, "labels") THEN DOMAIN o.m["labels"].m ELSE {} |->
                    o.m["labels"].m[n].v]]

sourceIntent(v) ==
    [apiVersion |-> v.m["apiVersion"].v, kind |-> v.m["kind"].v,
     metadata |-> metadataOf(v.m["metadata"]), spec |-> specOf(v.m["kind"].v, v.m["spec"])]

conditionOf(o) ==
    [type |-> text(o, "type"), status |-> text(o, "status"), reason |-> text(o, "reason"),
     message |-> text(o, "message"), at |-> text(o, "lastTransitionAt"),
     observed |-> nonNegativeInt64(o.m["observedGeneration"].v)]

observationOf(o) ==
    [name |-> text(o, "name"), state |-> text(o, "state"), source |-> text(o, "source"),
     at |-> text(o, "observedAt"), reason |-> text(o, "reason"),
     requested |-> text(o, "requested"), available |-> text(o, "available")]

items(o, name) == IF has(o, name) THEN o.m[name].v ELSE << >>

conditionsOf(list) == [i \in DOMAIN list |-> conditionOf(list[i])]

observationsOf(list) == [i \in DOMAIN list |-> observationOf(list[i])]

sourceStatus(v) ==
    LET status == v.m["status"]
    IN  [apiVersion |-> v.m["apiVersion"].v, kind |-> v.m["kind"].v,
         status |-> [observed |-> nonNegativeInt64(status.m["observedGeneration"].v),
                     conditions |-> conditionsOf(items(status, "conditions")),
                     capabilities |-> observationsOf(items(status, "capabilities")),
                     quotas |-> observationsOf(items(status, "quotaChecks"))]]

--------------------------------------------------------------------------
(* The validators of resource, authorization, condition and control. *)

ValidateDisplayName(name) == name \in Pattern["displayName"]

NormalizeLabels(labels) ==
    /\ Cardinality(DOMAIN labels) <= MaxItems
    /\ DOMAIN labels \subseteq Pattern["labelKey"]
    /\ \A n \in DOMAIN labels : labels[n] \in Pattern["labelValue"]

ValidateWriteMetadata(metadata) ==
    ValidateDisplayName(metadata.displayName) /\ NormalizeLabels(metadata.labels)

Sign(n) == IF n < 0 THEN -1 ELSE IF n = 0 THEN 0 ELSE 1

Compare(left, right) == Sign(TextRank[left] - TextRank[right])

CompareRoleBindings(left, right) ==
    LET by == <<Compare(left.member, right.member), Compare(left.scope, right.scope),
                Compare(left.environment, right.environment), Compare(left.role, right.role)>>
        different == {i \in DOMAIN by : by[i] # 0}
    IN  IF different = {} THEN 0 ELSE by[Min(different)]

\* The binding as the authorization modules know it.
resolved(b) == [member |-> b.member, role |-> b.role,
                env |-> IF b.environment = NoText THEN NoID ELSE Identity[b.environment]]

validBindings(bindings) ==
    /\ Len(bindings) <= MaxItems
    /\ \A i \in DOMAIN bindings :
         /\ bindings[i].member \in Pattern["opaqueID"]
         /\ bindings[i].scope = "Workspace" => bindings[i].environment = NoText
         /\ bindings[i].scope = "Environment" => bindings[i].environment \in Pattern["opaqueID"]
         /\ bindings[i].scope \in ScopeKinds
         /\ validateRoleBinding(resolved(bindings[i]))
         /\ i > 1 => CompareRoleBindings(bindings[i - 1], bindings[i]) < 0

ValidateCredentialReference(spec) ==
    spec.referenceId \in Pattern["opaqueID"] /\ spec.version \in Pattern["version"]

ValidateProviderConnectionSpec(spec) ==
    spec.provider \in Pattern["provider"] /\ ValidateCredentialReference(spec)

CheckProviderConnectionSpecTransition(before, after) ==
    /\ ValidateProviderConnectionSpec(before) /\ ValidateProviderConnectionSpec(after)
    /\ before.provider = after.provider /\ before.referenceId = after.referenceId

validateObservedGeneration(observed, generation) ==
    generation >= 1 /\ observed \in 0 .. generation

\* condition.Validate
ValidateCondition(c, generation) ==
    /\ c.type \in Pattern["condition"] /\ c.status \in ConditionStatuses
    /\ c.reason \in Pattern["condition"] /\ c.message \in Pattern["message"]
    /\ validateObservedGeneration(c.observed, generation)
    /\ c.at \in Pattern["timestamp"]

ValidateSet(conditions, generation) ==
    /\ Len(conditions) <= MaxItems
    /\ \A i \in DOMAIN conditions :
         /\ ValidateCondition(conditions[i], generation)
         /\ i > 1 => Compare(conditions[i - 1].type, conditions[i].type) < 0

validateObservationMetadata(o) ==
    /\ o.name \in Pattern["observation"] /\ o.source \in Pattern["source"]
    /\ o.at \in Pattern["timestamp"] /\ o.reason \in Pattern["condition"]

ValidateProviderCapability(c) == validateObservationMetadata(c) /\ c.state \in CapabilityStates

compareCanonicalDecimals(left, right) == Sign(DecimalValue[left] - DecimalValue[right])

ValidateQuotaCheck(q) ==
    /\ validateObservationMetadata(q)
    /\ \/ q.state = "Unknown" /\ q.requested = NoText /\ q.available = NoText
       \/ /\ q.state \in KnownQuotas
          /\ {q.requested, q.available} \subseteq Pattern["decimal"]
          /\ (q.state = "WithinLimit") <=> (compareCanonicalDecimals(q.requested, q.available) <= 0)

validateObservationOrder(list) ==
    \A i \in DOMAIN list : i > 1 => Compare(list[i - 1].name, list[i].name) < 0

\* Also ValidatePolicyStatus, which says the same of a Policy.
ValidateCommonStatus(status, generation) ==
    /\ validateObservedGeneration(status.observed, generation)
    /\ ValidateSet(status.conditions, generation)

ValidateProviderConnectionStatus(status, generation) ==
    /\ ValidateCommonStatus(status, generation)
    /\ Len(status.capabilities) <= MaxItems /\ Len(status.quotas) <= MaxItems
    /\ \A i \in DOMAIN status.capabilities : ValidateProviderCapability(status.capabilities[i])
    /\ \A i \in DOMAIN status.quotas : ValidateQuotaCheck(status.quotas[i])
    /\ validateObservationOrder(status.capabilities) /\ validateObservationOrder(status.quotas)

ValidateIntent(intent) ==
    /\ ValidateWriteMetadata(intent.metadata)
    /\ intent.kind = "Policy" => validBindings(intent.spec.bindings)
    /\ intent.kind = "ProviderConnection" => ValidateProviderConnectionSpec(intent.spec)

ValidateStatusWrite(kind, status, generation) ==
    IF kind = "ProviderConnection" THEN ValidateProviderConnectionStatus(status, generation)
    ELSE ValidateCommonStatus(status, generation)

--------------------------------------------------------------------------
(* Semantic stage. *)

\* Two neighbours in the wrong order, or alike.
orderCodes(list) ==
    add(\E i \in 2 .. Len(list) : CompareRoleBindings(list[i - 1], list[i]) > 0, "invalid-order")
    \cup add(\E i \in 2 .. Len(list) : CompareRoleBindings(list[i - 1], list[i]) = 0,
             "duplicate-item")

collectSemanticPolicySpec(spec) ==
    add(\E i \in DOMAIN spec.bindings : /\ spec.bindings[i].role = "WorkspaceAdministrator"
                                        /\ spec.bindings[i].scope = "Environment", "invalid-spec")
    \cup orderCodes(spec.bindings)

semanticIntent(source) ==
    then(twice("semantic", add(~ValidateWriteMetadata(source.metadata), "invalid-spec")),
    then(failure("semantic", IF source.kind = "Policy" THEN collectSemanticPolicySpec(source.spec)
                             ELSE {}),
         twice("semantic", add(~ValidateIntent(source), "invalid-spec"))))

\* Unlike bindings, items with one name are reported wherever they stand.
namedCodes(names) ==
    add(\E i, j \in DOMAIN names : i < j /\ names[i] = names[j], "duplicate-item")
    \cup add(\E i \in 2 .. Len(names) : Compare(names[i - 1], names[i]) > 0, "invalid-order")

collectSemanticCommonStatus(status, generation) ==
    LET listed == {status.conditions[i] : i \in DOMAIN status.conditions}
    IN  add(status.observed > generation \/ \E c \in listed : c.observed > generation,
            "future-observation")
        \cup add(\E c \in listed : ~ValidateCondition(c, generation), "invalid-status")
        \cup namedCodes([i \in DOMAIN status.conditions |-> status.conditions[i].type])

collectSemanticProviderStatus(status, generation) ==
    collectSemanticCommonStatus(status, generation)
    \cup add(\E i \in DOMAIN status.capabilities :
                ~ValidateProviderCapability(status.capabilities[i]), "invalid-status")
    \cup add(\E i \in DOMAIN status.quotas : ~ValidateQuotaCheck(status.quotas[i]), "invalid-status")
    \cup namedCodes([i \in DOMAIN status.capabilities |-> status.capabilities[i].name])
    \cup namedCodes([i \in DOMAIN status.quotas |-> status.quotas[i].name])

collectSemanticStatus(source, generation) ==
    add(generation < 1, "invalid-status") \cup
    IF source.kind = "ProviderConnection"
    THEN collectSemanticProviderStatus(source.status, generation)
    ELSE collectSemanticCommonStatus(source.status, generation)

semanticStatus(source, generation) ==
    then(failure("semantic", collectSemanticStatus(source, generation)),
         twice("semantic", add(~ValidateStatusWrite(source.kind, source.status, generation),
                               "invalid-status")))

--------------------------------------------------------------------------
(* Immutable and reference stages. *)

immutableCreate(source) == Passed

immutableCurrent(source, current) ==
    failure("immutable", add(current.kind # source.kind, "immutable-field"))

immutableReplace(source, current) ==
    IF Failed(immutableCurrent(source, current)) \/ source.kind # "ProviderConnection"
    THEN immutableCurrent(source, current)
    ELSE failure("immutable",
             add(~CheckProviderConnectionSpecTransition(current.spec, source.spec), "immutable-field"))

collectPolicyReferences(bindings, records, members) ==
    LET human(b) == members[b.member].kind = "Human"
    IN  add(\E b \in bindings : b.member \notin DOMAIN members, "reference-not-found")
        \cup add(\E b \in bindings : /\ b.member \in DOMAIN members
                                     /\ b.role = "WorkspaceAdministrator" /\ ~human(b),
                 "reference-kind-mismatch")
        \cup add(\E b \in bindings : b.env # NoID /\ b.env \notin DOMAIN records,
                 "reference-not-found")
        \cup add(\E b \in bindings : /\ b.env # NoID /\ b.env \in DOMAIN records
                                    /\ records[b.env].kind # "Environment",
                 "reference-kind-mismatch")

bindingSet(spec) == {resolved(spec.bindings[i]) : i \in DOMAIN spec.bindings}

referencePolicy(spec, records, members) ==
    then(failure("reference", collectPolicyReferences(bindingSet(spec), records, members)),
         twice("reference", add(~ValidatePolicyReferences(bindingSet(spec), records, members),
                                "invalid-placement")))

\* Why DeriveChild refused, told apart by mapReferenceError.
mapReferenceError(records, kind, parent) ==
    CASE parent \notin DOMAIN records -> "parent-not-found"
      [] parent \in DOMAIN records /\ records[parent].kind # expectedParentKind(kind) ->
           "parent-kind-mismatch"
      [] OTHER -> "invalid-placement"

referenceCreate(source, id, parent, records, members) ==
    IF source.kind = "Workspace" THEN failure("reference", add(parent # NoID, "invalid-placement"))
    ELSE IF ~DeriveChild(records, source.kind, id, parent)
    THEN failure("reference", {mapReferenceError(records, source.kind, parent)})
    ELSE IF source.kind = "Policy" THEN referencePolicy(source.spec, records, members)
    ELSE Passed

\* The record was taken from the snapshot it is looked up in.
referenceCurrent(id, current, records) ==
    failure("reference", add(id \notin DOMAIN records \/ ~CheckTransition(records[id], current),
                             "invalid-placement"))

referenceReplace(source, id, current, records, members) ==
    IF Failed(referenceCurrent(id, current, records)) \/ source.kind # "Policy"
    THEN referenceCurrent(id, current, records)
    ELSE referencePolicy(source.spec, records, members)

--------------------------------------------------------------------------
(* Default and conversion stages. *)

cloneLabels_verbatim(metadata) == metadata

\* Empty labels become no labels.
cloneLabels(metadata) == [metadata EXCEPT !.labelled = DOMAIN metadata.labels # {}]

DefaultWorkspaceWriteSpec(spec) ==
    IF spec.suspend = "unset" THEN [spec EXCEPT !.suspend = "false"] ELSE spec

DefaultWrite(intent) ==
    [intent EXCEPT !.metadata = cloneLabels(@),
                   !.spec = IF intent.kind = "Workspace" THEN DefaultWorkspaceWriteSpec(@) ELSE @]

\* A defaulted body is explicit, and defaulting it again changes nothing.
checkedDefaultIntent(intent) ==
    twice("default", add(\/ intent.apiVersion # APIVersion \/ intent.kind \notin Kinds
                         \/ intent.kind = "Workspace" /\ intent.spec.suspend = "unset"
                         \/ DefaultWrite(intent) # intent, "default-failed"))

defaultIntent(source) == checkedDefaultIntent(DefaultWrite(source))

validateSourceIdentity(source) == source.apiVersion = APIVersion /\ source.kind \in Kinds

\* ToHub: the identity, a defaulted body, and the constructors of the hub.
convertIntent(intent) ==
    twice("conversion", add(\/ ~validateSourceIdentity(intent)
                            \/ intent.kind = "Workspace" /\ intent.spec.suspend = "unset"
                            \/ ~ValidateIntent(intent), "conversion-failed"))

checkedDefaultStatus(source) ==
    twice("default", add(source.apiVersion # APIVersion \/ source.kind \notin Kinds, "default-failed"))

convertStatus(source, generation) ==
    twice("conversion", add(\/ ~validateSourceIdentity(source)
                            \/ ~ValidateStatusWrite(source.kind, source.status, generation),
                            "conversion-failed"))

--------------------------------------------------------------------------
(* The entry points: the stages in their order, the first failure wins. *)

\* What is stored of an accepted body.
hubIntent(d) == DefaultWrite(sourceIntent(d.value))

hubStatus(d) == sourceStatus(d.value).status

NormalizeIntent(d) ==
    LET source == sourceIntent(d.value)
    IN  then(parseRaw(d), then(schemaIntent(d), then(semanticIntent(source),
        then(defaultIntent(source), convertIntent(hubIntent(d))))))

NormalizeStatus(d) ==
    LET source == sourceStatus(d.value)
    IN  then(parseRaw(d), then(schemaStatus(d), then(semanticStatus(source, MaxInt64),
        then(checkedDefaultStatus(source), convertStatus(source, MaxInt64)))))

AdmitCreate(d, id, parent, records, members) ==
    LET source == sourceIntent(d.value)
    IN  then(parseRaw(d), then(schemaIntent(d), then(semanticIntent(source),
        then(immutableCreate(source), then(referenceCreate(source, id, parent, records, members),
        then(defaultIntent(source), convertIntent(hubIntent(d))))))))

AdmitReplace(d, id, current, records, members) ==
    LET source == sourceIntent(d.value)
    IN  then(parseRaw(d), then(schemaIntent(d), then(semanticIntent(source),
        then(immutableReplace(source, current),
        then(referenceReplace(source, id, current, records, members),
        then(defaultIntent(source), convertIntent(hubIntent(d))))))))

AdmitStatus_anyGeneration(d, id, current, records) ==
    LET source == sourceStatus(d.value)
    IN  then(parseRaw(d), then(schemaStatus(d), then(semanticStatus(source, MaxInt64),
        then(immutableCurrent(source, current), then(referenceCurrent(id, current, records),
        then(checkedDefaultStatus(source), convertStatus(source, MaxInt64)))))))

AdmitStatus(d, id, current, records) ==
    LET source == sourceStatus(d.value)
    IN  then(parseRaw(d), then(schemaStatus(d), then(semanticStatus(source, current.generation),
        then(immutableCurrent(source, current), then(referenceCurrent(id, current, records),
        then(checkedDefaultStatus(source), convertStatus(source, current.generation)))))))

--------------------------------------------------------------------------
(* The calls of the reference service.  Each holds the service's lock from    *)
(* its first look at the body to its commit, so it is one step.  Versions are *)
(* taken to match; ReferenceService has the preconditions and the replays.    *)
(* The drift check of the service compares two results of the same functions  *)
(* on the same body and is left out.                                          *)

R == INSTANCE Resource

emptyStatus == [observed |-> 0, conditions |-> << >>, capabilities |-> << >>, quotas |-> << >>]

InvalidCommand == reject("command", {"invalid-command"}, FALSE)

loadResources(w) ==
    [id \in {x \in DOMAIN retained : retained[x].workspace = w} |-> retained[id]]

\* The kind in the body has to be the kind that was addressed.
addressed(source, kind, next) == IF source.kind # kind THEN InvalidCommand ELSE next

commit(method, id, x, outcome, result) ==
    /\ submitted' = [method |-> method, target |-> id, document |-> x, outcome |-> outcome]
    /\ retained' = IF Failed(outcome) THEN retained ELSE result

storedNew(intent, kind, id, w, parent) ==
    [R!New([kind |-> kind, parent |-> parent, workspace |-> IF kind = "Workspace" THEN id ELSE w],
           intent.metadata, intent.spec, 1, 0) EXCEPT !.status = emptyStatus]

SubmitCreate(x, kind, w, parent, members) ==
    LET d == Document(x)
        id == Cardinality(DOMAIN retained) + 1
    IN  /\ (kind = "Workspace") <=> (parent = NoID)
        /\ commit("create", id, x,
                  then(NormalizeIntent(d), addressed(sourceIntent(d.value), kind,
                       AdmitCreate(d, id, parent, loadResources(w), members))),
                  retained @@ (id :> storedNew(hubIntent(d), kind, id, w, parent)))

storedIntent(current, intent) ==
    R!ReplaceIntent(current, intent.metadata, intent.spec, current.version + 1)

SubmitReplace(x, id, members) ==
    LET d == Document(x)
        current == retained[id]
    IN  commit("replace", id, x,
               then(NormalizeIntent(d), addressed(sourceIntent(d.value), current.kind,
                    AdmitReplace(d, id, current, loadResources(current.workspace), members))),
               [retained EXCEPT ![id] = storedIntent(current, hubIntent(d))])

storedStatus(current, status) == R!ReplaceStatus(current, status, current.version + 1)

SubmitStatus(x, id) ==
    LET d == Document(x)
        current == retained[id]
    IN  commit("status", id, x,
               then(NormalizeStatus(d), addressed(sourceStatus(d.value), current.kind,
                    AdmitStatus(d, id, current, loadResources(current.workspace)))),
               [retained EXCEPT ![id] = storedStatus(current, hubStatus(d))])

--------------------------------------------------------------------------
(* Properties. *)

\* No check that repeats an earlier one ever disagrees with it: the decoder
\* takes what the collectors let through ("the shared oracle"), the domain
\* validators take what the semantic and reference stages collected nothing
\* against, and no body fails in the default or conversion stage, which the
\* transport answers as a fault of the server.
StagesAgree == ~submitted.outcome.late

\* Whatever was accepted, in whatever order of creates, replacements and status
\* writes, the retained resources keep what their readers rely on: no
\* observation of a generation that does not exist yet, one item per name, a
\* quota state that its quantities bear out, bindings once each with
\* administrators of the whole Workspace only, and an explicit suspension flag.
RetainedStateValid ==
    \A id \in DOMAIN retained :
        LET r == retained[id]
            Once(list, Name(_)) == Cardinality({Name(list[i]) : i \in DOMAIN list}) = Len(list)
        IN  /\ r.status.observed <= r.generation
            /\ \A c \in Range(r.status.conditions) : c.observed <= r.generation
            /\ Once(r.status.conditions, LAMBDA c : c.type)
            /\ Once(r.status.capabilities, LAMBDA c : c.name)
            /\ Once(r.status.quotas, LAMBDA q : q.name)
            /\ \A q \in Range(r.status.quotas) :
                 CASE q.state = "Unknown" -> q.requested = NoText /\ q.available = NoText
                   [] q.state = "WithinLimit" -> DecimalValue[q.requested] <= DecimalValue[q.available]
                   [] OTHER -> DecimalValue[q.requested] > DecimalValue[q.available]
            /\ Once(r.spec.bindings, LAMBDA b : b)
            /\ \A b \in Range(r.spec.bindings) :
                 b.role = "WorkspaceAdministrator" => b.environment = NoText
            /\ r.kind = "Workspace" => r.spec.suspend \in {"true", "false"}

\* The number a spelling stands for, by the places of its digits; NotInt64
\* unless it is an integer from 0 to MaxInt64.
ExactValue(n) ==
    LET digits == n.int \o n.frac
        nonzero == {i \in DOMAIN digits : digits[i] # 0}
        decimal(s) == FoldLeft(LAMBDA a, x : 10 * a + x, 0, s)
        exponent == IF n.exp.neg THEN 0 - decimal(n.exp.digits) ELSE decimal(n.exp.digits)
        place(i) == Len(n.int) - i + exponent
        value == decimal(SubSeq(digits, Min(nonzero), Max(nonzero))) * 10 ^ place(Max(nonzero))
    IN  CASE nonzero = {} -> 0
          [] nonzero # {} /\ (n.neg \/ place(Max(nonzero)) < 0) -> NotInt64
          [] nonzero # {} /\ place(Min(nonzero)) >= Int64Digits -> NotInt64
          [] OTHER -> IF value <= MaxInt64 THEN value ELSE NotInt64

\* Every JSON spelling of a generation means its exact mathematical value
\* (nonNegativeInt64): a status that differs from an acceptable one only in how
\* observedGeneration is written is rejected by the schema if and only if that
\* value is no int64, is refused as an observation of the future if and only if
\* it is above the generation, and is stored as that value otherwise.
ObservationsExact ==
    LET spelled == submitted.document.number
        exact == ExactValue(spelled)
        r == retained[submitted.target]
    IN  submitted.document.base = "numbered" =>
        CASE submitted.outcome.codes = {"request-too-large"} ->
               Document(submitted.document).bytes > MaxRawBytes
          [] submitted.outcome.stage = "schema" /\ submitted.outcome.codes # {"request-too-large"} ->
               exact = NotInt64
          [] submitted.outcome.stage = "semantic" -> exact > r.generation
          [] OTHER -> exact # NotInt64 /\ r.status.observed = exact

\* Whether two accepted bodies say the same: labels may be left out when there
\* are none, and the suspension flag when it is false.
SameMeaning(a, b) ==
    LET LabelsOf(v) == IF has(v.m["metadata"], "labels") THEN v.m["metadata"].m["labels"].m
                     ELSE [n \in {} |-> v]
        Suspended(v) == has(v.m["spec"], "suspendReconciliation")
                        /\ v.m["spec"].m["suspendReconciliation"].v = "true"
    IN  /\ a.m["kind"].v = b.m["kind"].v
        /\ a.m["metadata"].m["displayName"].v = b.m["metadata"].m["displayName"].v
        /\ LabelsOf(a) = LabelsOf(b)
        /\ IF a.m["kind"].v = "Workspace" THEN Suspended(a) = Suspended(b)
           ELSE a.m["spec"].m = b.m["spec"].m

\* A body that only spells the stored one differently changes nothing, neither
\* generation nor version, and one that says something else is never taken for
\* a repetition of it.
RepetitionsChangeNothing ==
    [][(/\ submitted.method \in {"create", "replace"} /\ ~Failed(submitted.outcome)
        /\ submitted'.method = "replace" /\ ~Failed(submitted'.outcome)
        /\ submitted'.target = submitted.target)
       => (SameMeaning(Document(submitted.document).value, Document(submitted'.document).value)
           <=> retained' = retained)]_admissionVars

=============================================================================
