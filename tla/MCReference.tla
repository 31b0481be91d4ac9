----------------------------- MODULE MCReference -----------------------------
(* The reference server, one part in each behaviour.  In the "direct" and    *)
(* "paging" behaviours callers use the service itself on a seeded Workspace, *)
(* in the "guarded" ones only the authorizing wrapper, as                    *)
(* cmd/veer-reference-server does; in the "http" ones a request passes       *)
(* through the handler, and in the "admission" ones write bodies are admitted.*)
EXTENDS ReferenceAuthorization, ReferenceHTTP, MCAdmission

VARIABLE mode       \* fixed by Init

Modes == {"direct", "paging", "guarded", "http", "admission"}

Alice == [kind |-> "Human", id |-> "alice"]
Bob == [kind |-> "Human", id |-> "bob"]
Root == [kind |-> "Human", id |-> "root"]

MCPrincipals == {Alice, Bob}

Both == [m \in {"ma", "mb"} |-> IF m = "ma" THEN Alice ELSE Bob]
OnlyAlice == [m \in {"ma"} |-> Alice]
MCDirectories == {Both, OnlyAlice}

Admin == [member |-> "ma", role |-> "WorkspaceAdministrator", env |-> NoID]
Operator(env) == [member |-> "mb", role |-> "Operator", env |-> env]

SpecOf(bytes, bindings, reference) ==
    [bytes |-> bytes, bindings |-> bindings, reference |-> reference]

Plain(bytes) == SpecOf(bytes, {}, "none")
Developer(env) == [member |-> "mb", role |-> "Developer", env |-> env]
Narrow == SpecOf(2, {Admin, Operator(3), Developer(4)}, "none")
Wide == SpecOf(2, {Admin, Operator(NoID)}, "none")

MCSpecs ==
    [kind \in Kinds |->
        CASE kind = "Policy" -> {Narrow, Wide}
          [] kind = "ProviderConnection" -> {SpecOf(b, {}, r) : b \in {2}, r \in {"r1", "r2"}}
          [] OTHER -> {Plain(2), Plain(3)}]

MCMaxCommits == [direct |-> 2, paging |-> 2, guarded |-> 3]

MCLabels == {{}, {"l"}}

\* The seeded store: a Workspace, its Policy and Environments, each created
\* at time 0 by the bootstrap principal; the guarded one has an Application
\* with a Component in its second Environment.
SeedKinds == <<"Workspace", "Policy", "Environment", "Environment", "Application", "Component">>

SeedKind(id) == IF mode = "paging" /\ id > 2 THEN "Environment" ELSE SeedKinds[id]

SeedParent(id) ==
    IF id = 1 THEN NoID ELSE IF mode # "paging" /\ id > 4 THEN id - 1 ELSE 1

Seed(id) ==
    [kind |-> SeedKind(id), workspace |-> 1, parent |-> SeedParent(id),
     labels |-> {}, spec |-> IF id = 2 THEN Narrow ELSE Plain(2), status |-> 0,
     generation |-> 1, version |-> id, createdAt |-> 0]

SeedKey(id) == Key(Root, "create", <<SeedKind(id), Seed(id).parent>>, id)

Seeds == CASE mode = "paging" -> 1 .. 5
           [] mode \in {"direct", "guarded"} -> 1 .. 6
           [] OTHER -> {}

SeedKeys == {SeedKey(id) : id \in Seeds}

SeedOf(key) == key.key

SeedBody(id) == [labels |-> {}, spec |-> Seed(id).spec]

-----------------------------------------------------------------------------
(* The requests: what may carry a credential, the trailers a body may end    *)
(* with, and what the routes tell apart.                                     *)
plain == [authorization |-> "bearer", url |-> "none", uri |-> "none", cookie |-> "none",
          trailer |-> {}, declared |-> {}, sent |-> {}, framing |-> "sized", id |-> "absent",
          route |-> "item", path |-> "plain", method |-> "PUT", key |-> "one",
          match |-> "etag", media |-> "json", length |-> "fits"]

names == {"credential", "checksum"}

carrying ==
    {[plain EXCEPT !.authorization = a, !.url = q, !.uri = u, !.cookie = c, !.trailer = t] :
        a \in {"none", "bearer", "other", "many"}, q \in {"none", "bare", "page", "token"},
        u \in {"unset", "none", "page", "token"}, c \in {"none", "session", "token"},
        t \in {{}, {"credential"}}}

trailing ==
    {[plain EXCEPT !.trailer = t, !.declared = d, !.sent = s, !.framing = f] :
        t \in SUBSET names, d \in SUBSET names, s \in SUBSET names, f \in {"none", "sized", "chunked"}}

routes == {"collection", "item", "status", "operation", "unknown"}

routed ==
    {[plain EXCEPT !.route = r, !.method = m, !.key = k, !.match = h,
                   !.media = c, !.length = l, !.url = q, !.uri = q] :
        r \in routes, m \in {"GET", "PUT", "POST", "DELETE", "PATCH"},
        k \in {"one", "bad"}, h \in {"none", "etag", "bad"}, c \in {"json", "other"},
        l \in {"fits", "declared", "large"}, q \in {"none", "page", "other"}}

misrouted ==
    {[plain EXCEPT !.id = i, !.path = p, !.route = r, !.method = m] :
        i \in {"absent", "bad"}, p \in {"plain", "escaped", "odd"}, r \in routes,
        m \in {"GET", "PUT", "PATCH"}}

MCRequests == carrying \cup trailing \cup routed \cup misrouted

Init ==
    /\ mode \in Modes
    /\ httpInit
    /\ mode # "http" => arrived = plain
    /\ IF mode = "admission" THEN admissionInit ELSE admissionIdle
    /\ clock = 0
    /\ resources = [id \in Seeds |-> Seed(id)]
    /\ operations = [id \in Seeds |-> [workspace |-> 1, resource |-> id, generation |-> 1]]
    /\ nextID = Cardinality(Seeds) + 1
    /\ nextVersion = Cardinality(Seeds) + 1
    /\ ledger = [k \in SeedKeys |->
                   [fp |-> SeedBody(SeedOf(k)), epoch |-> 1, expiresAt |-> Window]]
    /\ replays = [k \in SeedKeys |->
                   [kind |-> "mutation", fp |-> SeedBody(SeedOf(k)), epoch |-> 1,
                    receipt |-> [resource |-> SeedOf(k), operation |-> SeedOf(k),
                                 generation |-> 1, version |-> SeedOf(k)],
                    expiresAt |-> Window]]
    /\ tokens = {}
    /\ commits = << >>
    /\ walk = [phase |-> "idle", query |-> [principal |-> Root], token |-> NoToken, seen |-> << >>, base |-> {}]
    /\ directory = Both
    /\ admissions = << >>
    /\ requests = << >>
    /\ plans = {}
    /\ cancelled = {}
    /\ effects = {}

Environments(labels) ==
    [principal |-> Root, kind |-> "Environment", workspace |-> 1, parent |-> NoID,
     labels |-> labels]

CONSTANT MaxCommits     \* bound: mutations after the seeding, by mode

edgeVars == <<httpVars, admissionVars>>

In(m) == mode = m /\ UNCHANGED <<mode, edgeVars>>

May(m) == In(m) /\ Len(commits) < MaxCommits[m]

\* One key is enough here: it is used again once its window is over.
OneKey == {CHOOSE k \in Keys : TRUE}

Creates(k) ==
    \/ \E s \in Specs["Environment"] : Create(Root, "Environment", 1, k, {}, s, Both)
    \/ Create(Root, "Workspace", NoID, k, {}, Plain(2), Both)
    \/ \E s \in Specs["ProviderConnection"] :
         Create(Root, "ProviderConnection", 3, k, {}, s, Both)

DirectCreate ==
    May("direct") /\ UNCHANGED authVars /\ \E k \in Keys : Creates(k)

DirectReplace ==
    /\ May("direct") /\ UNCHANGED authVars
    /\ \E id \in DOMAIN resources \ {1}, v \in 1 .. nextVersion :
         Precondition(id, v) /\
         \E k \in Keys, l \in Labels, s \in Specs[resources[id].kind] :
            Replace(Root, id, k, v, l, s, Both)

DirectDelete ==
    /\ May("direct") /\ UNCHANGED authVars
    /\ \E id \in DOMAIN resources, v \in 1 .. nextVersion, k \in Keys : Delete(Root, id, k, v)

DirectStatus ==
    /\ May("direct") /\ UNCHANGED authVars
    /\ \E id \in DOMAIN resources \ {1, 2}, v \in 1 .. nextVersion, k \in Keys :
         ReplaceStatus(Root, id, k, v, 1)

\* One client walks through the Environments while another changes them.
PagingMutation ==
    /\ May("paging") /\ UNCHANGED authVars
    /\ \E k \in OneKey :
       \/ \E s \in Specs["Environment"] : Create(Root, "Environment", 1, k, {}, s, Both)
       \/ \E id \in 3 .. MaxID :
            /\ id \in DOMAIN resources
            /\ \/ Delete(Root, id, k, resources[id].version)
               \/ \E l \in Labels :
                    Replace(Root, id, k, resources[id].version, l, resources[id].spec, Both)

PagingFirst ==
    /\ In("paging") /\ UNCHANGED authVars
    /\ \E l \in Labels : FirstPage(Environments(l), DOMAIN resources, DOMAIN resources)

PagingNext ==
    /\ In("paging") /\ UNCHANGED authVars
    /\ walk.query.principal = Root
    /\ NextPage(DOMAIN resources)

PagingAuthorized ==
    In("paging") /\ AuthorizedList(Bob, Environments({}))

PagingAbandon == In("paging") /\ AbandonWalk /\ UNCHANGED authVars

\* Bound: one call loses its context after its commit.
OneCancelled == Cardinality(cancelled') <= 1

GuardedReplace ==
    /\ May("guarded")
    /\ \E p \in Principals, id \in {2, 3} \cap DOMAIN resources, k \in OneKey :
         AuthorizedReplace(p, id, k, {})
    /\ OneCancelled

GuardedDelete ==
    /\ May("guarded")
    /\ \E p \in Principals, id \in {2, 3} \cap DOMAIN resources, k \in OneKey :
         AuthorizedDelete(p, id, k)
    /\ OneCancelled

GuardedMembers == In("guarded") /\ \E d \in Directories : ReplaceMembers(d)

GuardedPlan == In("guarded") /\ \E op \in DOMAIN admissions : NewPlan(op)

GuardedEffect == In("guarded") /\ \E plan \in plans : WithExecutionAuthorization(plan)

AnyTick == mode \in DOMAIN MaxCommits /\ Tick /\ UNCHANGED <<authVars, mode, edgeVars>>

Http == mode = "http" /\ UNCHANGED <<refVars, authVars, mode, admissionVars>>

Handle == Http /\ ServeHTTP
Authenticate == Http /\ authenticate
CallService == Http /\ callService
ExtractOnceMore == Http /\ ExtractAgain
ReadUnguarded == Http /\ readUnguarded
BeginRead == Http /\ \E h \in Holders : Call(h, "Read") \/ enterRead(h)
EndRead == Http /\ \E h \in Holders : bodyRead(h) \/ bodyOver(h) \/ leaveRead(h) \/ settleRead(h)
BeginClose == Http /\ \E h \in Holders : Call(h, "Close") \/ enterClose(h)
EndClose == Http /\ \E h \in Holders : bodyClose(h) \/ leaveClose(h)

Admitting == mode = "admission" /\ UNCHANGED <<refVars, authVars, mode, httpVars>>

AdmitCreation == Admitting /\ AdmitNew
AdmitReplaced == Admitting /\ AdmitReplacement
AdmitObserved == Admitting /\ AdmitObservation

Next ==
    \/ DirectCreate \/ DirectReplace \/ DirectDelete \/ DirectStatus
    \/ PagingMutation \/ PagingFirst \/ PagingNext \/ PagingAuthorized \/ PagingAbandon
    \/ GuardedReplace \/ GuardedDelete \/ GuardedMembers \/ GuardedPlan \/ GuardedEffect
    \/ AnyTick
    \/ Handle \/ Authenticate \/ CallService \/ ExtractOnceMore \/ ReadUnguarded
    \/ BeginRead \/ EndRead \/ BeginClose \/ EndClose
    \/ AdmitCreation \/ AdmitReplaced \/ AdmitObserved

vars == <<refVars, authVars, edgeVars, mode>>

\* A goroutine inside Read or Close of the body goes on.
Spec == Init /\ [][Next]_vars /\ \A h \in Holders : WF_httpVars(guardStep(h))

=============================================================================
