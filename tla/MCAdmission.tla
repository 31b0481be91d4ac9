---------------------------- MODULE MCAdmission ----------------------------
(* The write bodies admission is checked on: a few bodies of every kind, each *)
(* edit of them at one place, and spellings of a generation.                  *)
EXTENDS Admission

\* Texts in the order of their bytes.
TextOrder ==
    <<"", "1", "10", "2", "2026", "Developer", "Environment", "Exceeded", "False", "Policy",
      "ProviderConnection", "Ready", "Supported", "Synced", "True", "Unknown", "Viewer",
      "WithinLimit", "Workspace", "WorkspaceAdministrator", "aws", "blue", "conn4", "cpu", "disk",
      "env2", "env9", "gcp", "m1", "m2", "m9", "team", "v1alpha1", "v2", "~">>

MCTextRank == [t \in Range(TextOrder) |-> CHOOSE i \in DOMAIN TextOrder : TextOrder[i] = t]

MCPattern ==
    [displayName |-> Range(TextOrder) \ {"", "~"}, labelKey |-> {"team", "cpu"},
     labelValue |-> Range(TextOrder) \ {"~"}, message |-> Range(TextOrder) \ {"~"},
     opaqueID |-> {"m1", "m2", "m9", "env2", "env9", "conn4"},
     provider |-> {"aws", "gcp"}, version |-> {"v2", "v1alpha1"},
     condition |-> {"Ready", "Synced", "Unknown"}, timestamp |-> {"2026"},
     observation |-> {"cpu", "disk"}, source |-> {"aws", "gcp"}, decimal |-> {"1", "2", "10"}]

MCIdentity == [t \in {"m1", "m2", "m9", "env2", "env9", "conn4"} |->
                 CASE t = "env2" -> 2 [] t = "conn4" -> 4 [] OTHER -> 99]

MCDecimalValue == [t \in {"1", "2", "10"} |-> CASE t = "1" -> 1 [] t = "2" -> 2 [] OTHER -> 10]

--------------------------------------------------------------------------
(* Documents: a base, one edit of it at a path, and a spelled number. *)

Str(t) == [t |-> "string", v |-> t]
Obj(m) == [t |-> "object", m |-> m, repeated |-> FALSE]
Arr(s) == [t |-> "array", v |-> s]
Bool(b) == [t |-> "bool", v |-> b]
Num(n) == [t |-> "number", v |-> n]
Null == [t |-> "null"]
None == Obj([n \in {} |-> Null])

Spelling(neg, int, frac, eneg, edigits) ==
    [neg |-> neg, int |-> int, frac |-> frac, exp |-> [neg |-> eneg, digits |-> edigits]]

One == Spelling(FALSE, <<1>>, << >>, FALSE, << >>)

Length(n) == Len(n.int) + Len(n.frac) + Len(n.exp.digits)

Intent(kind, metadata, spec) ==
    Obj([apiVersion |-> Str("v1alpha1"), kind |-> Str(kind), metadata |-> Obj(metadata), spec |-> spec])

Status(kind, status) ==
    Obj([apiVersion |-> Str("v1alpha1"), kind |-> Str(kind), status |-> Obj(status)])

Named == [displayName |-> Str("blue")]
Labelled(labels) == [displayName |-> Str("blue"), labels |-> labels]
Bind(m, r, scope) == Obj([memberId |-> Str(m), role |-> Str(r), scope |-> Obj(scope)])
Everywhere == [kind |-> Str("Workspace")]
Within(e) == [kind |-> Str("Environment"), environmentId |-> Str(e)]
Connection(p, v) ==
    Obj([provider |-> Str(p), credentialRef |-> Obj([referenceId |-> Str("m9"), version |-> Str(v)])])
Condition(type, n) ==
    Obj([type |-> Str(type), status |-> Str("True"), reason |-> Str("Synced"), message |-> Str(""),
         observedGeneration |-> Num(n), lastTransitionAt |-> Str("2026")])
Seen(name, state) ==
    [name |-> Str(name), state |-> Str(state), source |-> Str("aws"), observedAt |-> Str("2026"),
     reason |-> Str("Ready")]
Quota(name, state, r, a) ==
    Obj([name |-> Str(name), state |-> Str(state), source |-> Str("aws"), observedAt |-> Str("2026"),
         reason |-> Str("Ready"), requested |-> Str(r), available |-> Str(a)])

Base(b, n) ==
    CASE b = "suspended" ->
           Intent("Workspace", Labelled(Obj([team |-> Str("blue")])),
                  Obj([suspendReconciliation |-> Bool("true")]))
      [] b = "workspace" -> Intent("Workspace", Named, None)
      [] b = "explicit" -> Intent("Workspace", Labelled(None),
                                  Obj([suspendReconciliation |-> Bool("false")]))
      [] b = "environment" -> Intent("Environment", Named, None)
      [] b = "relabelled" -> Intent("Environment", Labelled(Obj([team |-> Str("1")])), None)
      [] b = "application" -> Intent("Application", Named, None)
      [] b = "component" -> Intent("Component", Named, None)
      [] b = "policy" ->
           Intent("Policy", Named, Obj([bindings |->
             Arr(<<Bind("m1", "Viewer", Everywhere), Bind("m2", "Developer", Within("env2"))>>)]))
      [] b = "administrators" ->
           Intent("Policy", Named, Obj([bindings |->
             Arr(<<Bind("m1", "WorkspaceAdministrator", Everywhere)>>)]))
      [] b = "connection" -> Intent("ProviderConnection", Named, Connection("aws", "v1alpha1"))
      [] b = "rotated" -> Intent("ProviderConnection", Named, Connection("aws", "v2"))
      [] b = "rebound" -> Intent("ProviderConnection", Named, Connection("gcp", "v2"))
      [] b = "observed" ->
           Status("Environment", [observedGeneration |-> Num(n),
                                  conditions |-> Arr(<<Condition("Ready", n), Condition("Synced", n)>>)])
      [] b = "numbered" -> Status("Environment", [observedGeneration |-> Num(n), conditions |-> Arr(<< >>)])
      [] b = "probed" ->
           Status("ProviderConnection",
             [observedGeneration |-> Num(n), conditions |-> Arr(<<Condition("Ready", n)>>),
              capabilities |-> Arr(<<Obj(Seen("cpu", "Supported")), Obj(Seen("disk", "Unknown"))>>),
              quotaChecks |-> Arr(<<Quota("cpu", "WithinLimit", "2", "10"),
                                    Obj(Seen("disk", "Unknown"))>>)])
      [] b = "exceeded" ->
           Status("ProviderConnection",
             [observedGeneration |-> Num(n), conditions |-> Arr(<< >>), capabilities |-> Arr(<< >>),
              quotaChecks |-> Arr(<<Quota("cpu", "Exceeded", "10", "2")>>)])

StatusBases == {"observed", "probed", "exceeded"}

IntentBases ==
    {"suspended", "workspace", "explicit", "environment", "relabelled", "application", "component",
     "policy", "administrators", "connection", "rotated", "rebound"}

KindOf(b) == Base(b, One).m["kind"].v

RECURSIVE Paths(_), At(_, _), Edited(_, _, _)

Token(v, k) == IF v.t = "array" THEN ToString(k) ELSE k

Paths(v) == {<< >>} \cup UNION {{<<Token(v, c[1])>> \o p : p \in Paths(c[2])} : c \in Children(v)}

At(v, path) ==
    IF path = << >> THEN v
    ELSE At((CHOOSE c \in Children(v) : Token(v, c[1]) = path[1])[2], Tail(path))

Deep == Obj([x |-> Obj([x |-> Obj([x |-> Obj([x |-> None])])])])

Put(v, put) ==
    CASE put = "null" -> Null
      [] put = "number" -> Num(One)
      [] put = "bool" -> Bool("true")
      [] put = "object" -> None
      [] put = "array" -> Arr(<< >>)
      [] put = "deep" -> Deep
      [] put = "many" -> Arr([i \in 1 .. 40 |-> Null])
      [] put = "longer" -> Arr(v.v \o v.v)
      [] put = "swapped" -> Arr(Reverse(v.v))
      [] put = "repeated" -> [v EXCEPT !.repeated = TRUE]
      [] put = "extra" -> Obj([n \in DOMAIN v.m \cup {"extra"} |-> IF n = "extra" THEN Null ELSE v.m[n]])
      [] put = "pair" -> Obj([team |-> Str("1"), cpu |-> Str("2")])
      [] put = "triple" -> Obj([team |-> Str("1"), cpu |-> Str("2"), disk |-> Str("2")])
      [] put = "low" -> Num(Spelling(TRUE, <<1>>, << >>, FALSE, << >>))
      [] put = "future" -> Num(Spelling(FALSE, <<9>>, << >>, FALSE, << >>))
      [] OTHER -> Str(put)

Edited(v, path, put) ==
    IF path = << >> THEN Put(v, put)
    ELSE IF put = "absent" /\ Len(path) = 1 /\ v.t = "object"
    THEN [v EXCEPT !.m = [n \in DOMAIN v.m \ {path[1]} |-> v.m[n]]]
    ELSE IF v.t = "object" THEN [v EXCEPT !.m[path[1]] = Edited(@, Tail(path), put)]
    ELSE [v EXCEPT !.v = [i \in DOMAIN v.v |->
            IF Token(v, i) = path[1] THEN Edited(v.v[i], Tail(path), put) ELSE v.v[i]]]

Overhead == 5

MCDocument(x) ==
    [bytes |-> IF x.put = "oversized" THEN MaxRawBytes + 1 ELSE Overhead + Length(x.number),
     json |-> x.put # "garbage",
     value |-> LET v == Base(x.base, x.number)
               IN  IF x.put \in {"none", "oversized", "garbage"} THEN v ELSE Edited(v, x.path, x.put)]

Unedited(b) == [base |-> b, path |-> << >>, put |-> "none", number |-> One]

\* The members of objects; the items of an array are not left out one by one.
MemberPaths(v) ==
    {p \in Paths(v) : p # << >> /\ At(v, SubSeq(p, 1, Len(p) - 1)).t = "object"}

Puts(v) ==
    {"null", "number", "bool", "object", "array", "deep", "many"} \cup
    CASE v.t = "string" -> Range(TextOrder)
      [] v.t = "array" -> {"longer", "swapped"}
      [] v.t = "object" -> {"repeated", "extra", "pair", "triple"}
      [] v.t = "number" -> {"low", "future"}
      [] OTHER -> {}

EditsOf(b) ==
    UNION {{[Unedited(b) EXCEPT !.path = p, !.put = e] :
               e \in Puts(At(Base(b, One), p))} : p \in Paths(Base(b, One))}
    \cup {[Unedited(b) EXCEPT !.path = p, !.put = "absent"] : p \in MemberPaths(Base(b, One))}
    \cup {[Unedited(b) EXCEPT !.put = e] : e \in {"oversized", "garbage"}}

EditedBases ==
    {"suspended", "environment", "policy", "connection", "observed", "probed", "exceeded"}

Edits == [b \in EditedBases |-> EditsOf(b)]

Spellings ==
    {Spelling(neg, int, frac, eneg, e) :
        neg \in BOOLEAN, int \in {<<0>>, <<1>>, <<2>>, <<1, 0>>, <<2, 7>>, <<2, 8>>, <<3, 0, 0>>},
        frac \in {<< >>, <<0>>, <<5>>, <<0, 1>>, <<0, 0, 0, 2>>, <<0, 0, 0, 0, 0, 0, 3>>},
        eneg \in BOOLEAN, e \in {<< >>, <<0>>, <<1>>, <<2>>, <<4>>, <<0, 7>>, <<9>>, <<9, 9>>}}

Numbered == {[Unedited("numbered") EXCEPT !.number = n] : n \in Spellings}

--------------------------------------------------------------------------
AllMembers == [m1 |-> [kind |-> "Human"], m2 |-> [kind |-> "Workload"]]
MemberSets == {AllMembers, [m1 |-> [kind |-> "Workload"], m2 |-> [kind |-> "Workload"]],
                 [m1 |-> [kind |-> "Human"]]}

Stored(id, b, parent) ==
    LET intent == DefaultWrite(sourceIntent(Base(b, One)))
    IN  [R!New([kind |-> intent.kind, workspace |-> 1, parent |-> parent],
               intent.metadata, intent.spec, 1, 0)
            EXCEPT !.status = emptyStatus, !.generation = IF id = 2 THEN 3 ELSE 1]

Seeded == [id \in 1 .. 5 |->
             CASE id = 1 -> Stored(id, "suspended", NoID)
               [] id = 2 -> Stored(id, "environment", 1)
               [] id = 3 -> Stored(id, "policy", 1)
               [] id = 4 -> Stored(id, "connection", 2)
               [] OTHER -> Stored(id, "application", 2)]

NothingSubmitted ==
    [method |-> "none", target |-> 1, document |-> Unedited("workspace"), outcome |-> Passed]

admissionInit == retained = Seeded /\ submitted = NothingSubmitted

\* With the other concerns of the reference server these bodies are not used.
admissionIdle == retained = [id \in {} |-> 0] /\ submitted = NothingSubmitted

CONSTANT MaxChanges     \* bound: resources created and replaced

Fresh == submitted.method = "none"

\* A refused call leaves everything as it was, so only accepted ones go on.
Again ==
    /\ ~Failed(submitted.outcome) /\ submitted.document.put = "none"
    /\ MapThenSumSet(LAMBDA id : retained[id].version, DOMAIN retained)
         < Cardinality(DOMAIN Seeded) + MaxChanges

Home(kind) == CASE kind = "Workspace" -> NoID
                [] kind \in {"Environment", "Policy"} -> 1
                [] kind = "Component" -> 5
                [] OTHER -> 2

\* Only a Policy refers to members.
MembersFor(b) == IF KindOf(b) = "Policy" THEN MemberSets ELSE {AllMembers}

AdmitNew ==
    \/ /\ Again
       /\ \E b \in IntentBases, parent \in {NoID, 1, 2, 5, 9} : \E m \in MembersFor(b) :
            SubmitCreate(Unedited(b), KindOf(b), 1, parent, m)
    \/ /\ Fresh
       /\ \E b \in EditedBases \ StatusBases : \E x \in Edits[b] :
            SubmitCreate(x, KindOf(b), 1, Home(KindOf(b)), AllMembers)

AdmitReplacement ==
    \/ /\ Again
       /\ \E b \in IntentBases, id \in DOMAIN retained : \E m \in MembersFor(b) :
            SubmitReplace(Unedited(b), id, m)
    \/ /\ Fresh
       /\ \E b \in EditedBases \ StatusBases, id \in 1 .. 4 :
            retained[id].kind = KindOf(b) /\ \E x \in Edits[b] : SubmitReplace(x, id, AllMembers)

AdmitObservation ==
    \/ Again /\ \E b \in StatusBases, id \in DOMAIN retained : SubmitStatus(Unedited(b), id)
    \/ /\ Fresh
       /\ \E b \in EditedBases \cap StatusBases, id \in 1 .. 4 :
            retained[id].kind = KindOf(b) /\ \E x \in Edits[b] : SubmitStatus(x, id)
    \/ Fresh /\ \E x \in Numbered : SubmitStatus(x, 2)

=============================================================================
