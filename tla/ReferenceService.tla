-------------------------- MODULE ReferenceService --------------------------
(* The reference service (internal/core/service/reference) over the          *)
(* in-memory store (internal/adapters/store/memory): keyed mutations with    *)
(* optimistic versions and replayed receipts, and keyset pagination.         *)
(*                                                                           *)
(* service.mu serialises every mutation and every list, and the store        *)
(* commits a mutation as a whole or not at all, so each call is one action.  *)
(* A call that returns an error or a replayed receipt changes nothing and is *)
(* a stuttering step; what it returns is computed by the operators below.    *)
(* An identity or a version spent on a failed call only leaves a gap in the  *)
(* issuer's counters, which nothing tells apart; the model has no gaps.      *)
EXTENDS Authorization, SequencesExt

CONSTANTS
    Principals,     \* the callers
    Keys,           \* idempotency keys a caller uses
    Specs,          \* kind -> the desired states a caller may ask for:
                    \* [bytes, bindings (of a Policy), reference (of a connection)]
    Labels,         \* label sets a caller may attach
    Window,         \* HTTPIdempotencyWindow
    MaxReplays,     \* capacity of the idempotency ledger
    PageSize, PageTokenLifetime, MaxPageTokens,
    TokenBytes, MaxPageBytes,               \* encoded sizes
    MaxTime, MaxID                          \* bounds of the model

VARIABLES
    clock,
    resources,      \* id -> resource; the Workspace scopes of the store
    operations,     \* operation id -> accepted Pending operation
    nextID, nextVersion,    \* SequentialIssuer
    ledger,         \* IdempotencyLedger: key -> completed reservation
    replays,        \* key -> replayRecord
    tokens,         \* the retained page tokens
    commits,        \* history: the committed mutations, in order
    walk            \* the client that lists page by page

refVars == <<clock, resources, operations, nextID, nextVersion, ledger,
             replays, tokens, commits, walk>>

NoToken == [lastID |-> NoID]

Res == INSTANCE Resource

--------------------------------------------------------------------------
(* Reading the store. *)

Records(w) ==
    [id \in {x \in DOMAIN resources : resources[x].workspace = w} |-> resources[id]]

snapshotFor(w) == NewSnapshot(w, Records(w))

\* Bindings of members who left the directory are inactive; a binding whose
\* Environment was deleted is kept and makes the Policy set invalid.
effectivePolicySpec(bindings, directory) ==
    {b \in bindings : b.member \in DOMAIN directory}

authorizationStateFor(w, directory) ==
    IF snapshotFor(w) # "Valid" THEN [ok |-> FALSE]
    ELSE NewPolicySet(w, Records(w), directory,
            {[id |-> p, generation |-> resources[p].generation,
              bindings |-> effectivePolicySpec(resources[p].spec.bindings, directory)] :
              p \in {x \in DOMAIN Records(w) : resources[x].kind = "Policy"}})

--------------------------------------------------------------------------
(* Idempotency. *)

\* IdempotencyLedger.Reserve for a serial caller with a monotone clock.  Every
\* record it finds is completed: reservation and completion are one call.
Reserve(key, fp) ==
    LET expired == {k \in DOMAIN ledger : clock >= ledger[k].expiresAt}
        kept == IF Cardinality(DOMAIN ledger) < MaxReplays THEN DOMAIN ledger
                ELSE DOMAIN ledger \ expired
        Granted(keys, epoch) ==
            [disposition |-> "Reserved",
             ledger |-> [k \in keys \cup {key} |->
                IF k = key THEN [fp |-> fp, epoch |-> epoch, expiresAt |-> clock + Window]
                           ELSE ledger[k]]]
    IN  CASE key \in DOMAIN ledger /\ key \notin expired ->
               [disposition |-> IF ledger[key].fp = fp THEN "Replay" ELSE "Conflict"]
          [] key \in expired -> Granted(DOMAIN ledger, ledger[key].epoch + 1)
          [] Cardinality(kept) >= MaxReplays -> [disposition |-> "Capacity"]
          [] OTHER -> Granted(kept, 1)

replayExpired_late(record) == clock > record.expiresAt

\* A receipt is used strictly before its expiry, as a ledger record is.
replayExpired(record) == clock >= record.expiresAt

liveReplay(key, fp, kind) ==
    LET current == replays[key]
        reserved == Reserve(key, fp)
    IN  CASE key \notin DOMAIN replays -> "None"
          [] replayExpired(current) -> "None"
          [] current.kind # kind \/ current.fp # fp -> "Conflict"
          [] reserved.disposition = "Conflict" -> "Conflict"
          [] reserved.disposition = "Replay" /\ ledger[key].epoch = current.epoch -> "Replay"
          [] OTHER -> "Unavailable"

\* Expired receipts are swept when a new one is stored.
saveReplay(key, record) ==
    [k \in {x \in DOMAIN replays : ~replayExpired(replays[x])} \cup {key} |->
        IF k = key THEN record ELSE replays[k]]

\* reserveFresh, completeReplay and saveReplay around one store transaction.
Commit(key, fp, kind, receipt, base) ==
    LET reserved == Reserve(key, fp) IN
    /\ liveReplay(key, fp, kind) = "None"
    /\ reserved.disposition = "Reserved"
    /\ ledger' = reserved.ledger
    /\ replays' = saveReplay(key, [kind |-> kind, fp |-> fp, receipt |-> receipt,
                                   epoch |-> ledger'[key].epoch,
                                   expiresAt |-> ledger'[key].expiresAt])
    /\ commits' = Append(commits,
          [key |-> key, at |-> clock, receipt |-> receipt, base |-> base,
           kind |-> IF receipt.resource \in DOMAIN resources
                    THEN resources[receipt.resource].kind ELSE resources'[receipt.resource].kind,
           changed |-> IF receipt.resource \notin DOMAIN resources \cap DOMAIN resources'
                       THEN TRUE
                       ELSE resources[receipt.resource].spec # resources'[receipt.resource].spec])

Key(p, verb, target, k) == [principal |-> p, verb |-> verb, target |-> target, key |-> k]

\* newOperation: a Pending operation bound to the resource and its generation.
newOperation(op, id, generation) ==
    operations' = [o \in DOMAIN operations \cup {op} |->
        IF o = op THEN [workspace |-> resources'[id].workspace, resource |-> id,
                        generation |-> generation]
                  ELSE operations[o]]

NextOperation == Cardinality(DOMAIN operations) + 1

--------------------------------------------------------------------------
(* The listing client: its walk is over a query, base holds the rows that    *)
(* have matched the query ever since the walk began.                         *)

Matches(q, r) ==
    /\ r.kind = q.kind
    /\ q.kind # "Workspace" => r.workspace = q.workspace
    /\ q.parent # NoID => r.parent = q.parent
    /\ q.labels \subseteq r.labels

WalkBase ==
    walk' = IF walk.phase # "open" THEN walk
            ELSE [walk EXCEPT !.base = {id \in @ : id \in DOMAIN resources'
                                           /\ Matches(walk.query, resources'[id])}]

--------------------------------------------------------------------------
(* Mutations. *)

\* The same for every kind, whose typed bodies the code tells apart.
newResource(kind, w, parent, labels, spec) ==
    Res!New([kind |-> kind, workspace |-> w, parent |-> parent], labels, spec,
            nextVersion, clock)

replaceResource(r, labels, spec) == Res!ReplaceIntent(r, labels, spec, nextVersion)

replaceResourceStatus(r, observed) == Res!ReplaceStatus(r, observed, nextVersion)

\* Create: the new resource takes generation 1; its Workspace is its own when
\* it is one.  Reference admission checks the parent and, for a Policy, every
\* binding against the directory the caller supplies.
Create(p, kind, parent, k, labels, spec, members) ==
    LET id == nextID
        w == IF kind = "Workspace" THEN id ELSE resources[parent].workspace
        body == [labels |-> labels, spec |-> spec]
        receipt == [resource |-> id, operation |-> NextOperation, generation |-> 1,
                    version |-> nextVersion]
    IN  /\ id <= MaxID
        /\ kind # "Workspace" =>
             /\ parent \in DOMAIN resources
             /\ snapshotFor(w) = "Valid"
             /\ DeriveChild(Records(w), kind, id, parent)
        /\ kind = "Policy" => ValidatePolicyReferences(spec.bindings, Records(w), members)
        /\ resources' = [x \in DOMAIN resources \cup {id} |->
              IF x = id THEN newResource(kind, w, parent, labels, spec) ELSE resources[x]]
        /\ Commit(Key(p, "create", <<kind, parent>>, k), body, "mutation", receipt, 0)
        /\ newOperation(NextOperation, id, 1)
        /\ nextID' = nextID + 1
        /\ nextVersion' = nextVersion + 1
        /\ WalkBase
        /\ UNCHANGED <<clock, tokens>>

\* The identity of a ProviderConnection's credential is immutable.
connectionKept(kind, before, after) ==
    kind = "ProviderConnection" => before.reference = after.reference

\* The addressed resource exists and still has the version the caller read.
Precondition(id, version) ==
    id \in DOMAIN resources /\ resources[id].version = version

Replace(p, id, k, version, labels, spec, members) ==
    LET r == resources[id]
        replaced == replaceResource(r, labels, spec)
        receipt == [resource |-> id, operation |-> NextOperation,
                    generation |-> replaced.generation, version |-> replaced.version]
    IN  /\ Precondition(id, version)
        /\ spec \in Specs[r.kind]
        /\ snapshotFor(r.workspace) = "Valid"
        /\ connectionKept(r.kind, r.spec, spec)
        /\ r.kind = "Policy" => ValidatePolicyReferences(spec.bindings, Records(r.workspace), members)
        /\ CheckTransition(r, replaced)
        /\ resources' = [resources EXCEPT ![id] = replaced]
        /\ Commit(Key(p, "replace", <<"Resource", id>>, k), [labels |-> labels, spec |-> spec],
                  "mutation", receipt, version)
        /\ newOperation(NextOperation, id, replaced.generation)
        /\ nextVersion' = nextVersion + 1
        /\ WalkBase
        /\ UNCHANGED <<clock, nextID, tokens>>

\* Delete: RESTRICT on children.  The accepted operation outlives the resource.
Delete(p, id, k, version) ==
    LET r == resources[id]
        receipt == [resource |-> id, operation |-> NextOperation,
                    generation |-> r.generation, version |-> nextVersion]
    IN  /\ Precondition(id, version)
        /\ snapshotFor(r.workspace) = "Valid"
        /\ CheckDelete(Records(r.workspace), id)
        /\ resources' = [x \in DOMAIN resources \ {id} |-> resources[x]]
        /\ Commit(Key(p, "delete", <<"Resource", id>>, k), "delete", "mutation", receipt, version)
        /\ operations' = [o \in DOMAIN operations \cup {NextOperation} |->
              IF o = NextOperation
              THEN [workspace |-> r.workspace, resource |-> id, generation |-> r.generation]
              ELSE operations[o]]
        /\ nextVersion' = nextVersion + 1
        /\ WalkBase
        /\ UNCHANGED <<clock, nextID, tokens>>

\* ReplaceStatus: an observation of a generation that exists.  No operation;
\* an unchanged status keeps the version.
ReplaceStatus(p, id, k, version, observed) ==
    LET r == resources[id]
        replaced == replaceResourceStatus(r, observed)
        receipt == [resource |-> id, operation |-> NoID, generation |-> observed,
                    version |-> replaced.version]
    IN  /\ Precondition(id, version)
        /\ snapshotFor(r.workspace) = "Valid"
        /\ Res!validateObservations(observed, r.generation)
        /\ resources' = [resources EXCEPT ![id] = replaced]
        /\ Commit(Key(p, "status", <<"Resource", id>>, k), observed, "status", receipt, version)
        /\ nextVersion' = nextVersion + 1
        /\ WalkBase
        /\ UNCHANGED <<clock, operations, nextID, tokens>>

--------------------------------------------------------------------------
(* Lists. *)

Before(a, b) ==
    \/ resources[a].createdAt < resources[b].createdAt
    \/ resources[a].createdAt = resources[b].createdAt /\ a < b

afterCursor_time(id, cursor) ==
    resources[id].createdAt > cursor.lastCreatedAt

\* Strictly after the last row of the previous page, by (createdAt, id).
afterCursor(id, cursor) ==
    \/ resources[id].createdAt > cursor.lastCreatedAt
    \/ resources[id].createdAt = cursor.lastCreatedAt /\ id > cursor.lastID

encodedPageSize(items, tokenBytes) ==
    FoldSeq(LAMBDA id, n : n + resources[id].spec.bytes, tokenBytes, items)

\* The length of the page: rows are taken while they fit, with room for the
\* token whenever another row follows.
SelectedLength(candidates) ==
    LET Fits(i) == i <= PageSize /\
          encodedPageSize(SubSeq(candidates, 1, i),
                          IF i < Len(candidates) THEN TokenBytes ELSE 0) <= MaxPageBytes
        lengths == {n \in 0 .. Len(candidates) : \A i \in 1 .. n : Fits(i)}
    IN  CHOOSE n \in lengths : \A m \in lengths : m <= n

LiveTokens == {t \in tokens : clock < t.expiresAt}

\* One page of a query for the rows the caller may see, after a cursor.
listWhere(q, visible, cursor) ==
    LET rows == {id \in DOMAIN resources :
                    /\ Matches(q, resources[id])
                    /\ id \in visible
                    /\ cursor # NoToken => afterCursor(id, cursor)}
        candidates == SetToSortSeq(rows, Before)
        n == SelectedLength(candidates)
        last == candidates[n]
        token == [query |-> q, lastCreatedAt |-> resources[last].createdAt,
                  lastID |-> last, expiresAt |-> clock + PageTokenLifetime]
    IN  CASE n = Len(candidates) ->
               [outcome |-> "Page", items |-> candidates, token |-> NoToken, tokens |-> tokens]
          [] n = 0 -> [outcome |-> "PageTooLarge", tokens |-> tokens]
          [] Cardinality(LiveTokens) >= MaxPageTokens ->
               [outcome |-> "Capacity", tokens |-> LiveTokens]
          [] OTHER -> [outcome |-> "Page", items |-> SubSeq(candidates, 1, n),
                       token |-> token, tokens |-> LiveTokens \cup {token}]

\* A page is returned to the walking client; a failed call leaves it where it
\* was (with the tokens that expired reclaimed).
ReturnPage(page, w) ==
    /\ tokens' = page.tokens
    /\ walk' = IF page.outcome # "Page" THEN walk
               ELSE [w EXCEPT !.seen = @ \o page.items, !.token = page.token,
                              !.phase = IF page.token = NoToken THEN "done" ELSE "open"]
    /\ UNCHANGED <<clock, resources, operations, nextID, nextVersion, ledger,
                   replays, commits>>

FirstPage(q, visible, base) ==
    /\ walk.phase # "open"
    /\ ReturnPage(listWhere(q, visible, NoToken),
          [phase |-> "open", query |-> q, token |-> NoToken, seen |-> << >>,
           base |-> {id \in base : Matches(q, resources[id])}])

\* resolvePageToken: the token is retained, unexpired and bound to this query.
NextPage(visible) ==
    /\ walk.phase = "open"
    /\ walk.token \in LiveTokens
    /\ ReturnPage(listWhere(walk.query, visible, walk.token), walk)

\* The token expired or was reclaimed: the client gives the walk up.
AbandonWalk ==
    /\ walk.phase = "open"
    /\ walk.token \notin LiveTokens
    /\ walk' = [walk EXCEPT !.phase = "idle", !.seen = << >>, !.base = {}]
    /\ UNCHANGED <<clock, resources, operations, nextID, nextVersion, ledger,
                   replays, tokens, commits>>

Tick ==
    /\ clock < MaxTime
    /\ clock' = clock + 1
    /\ UNCHANGED <<resources, operations, nextID, nextVersion, ledger, replays,
                   tokens, commits, walk>>

--------------------------------------------------------------------------
(* Properties. *)

\* Calls that are repeated or raced are safe (Create, Replace, Delete and
\* ReplaceStatus with liveReplay, reserveFresh and ExpectedResourceVersion): two
\* mutations committed under one key are at least the idempotency window apart;
\* inside the window the key answers with the receipt of its commit; the ledger
\* and the retained receipts never disagree, so that no retry ends in
\* ErrReplayUnavailable; and no update is lost: a mutation of a resource was
\* computed from the version its predecessor left behind.
RetriesSafe ==
    /\ \A i, j \in 1 .. Len(commits) :
         i < j /\ commits[i].key = commits[j].key => commits[j].at >= commits[i].at + Window
    /\ \A i \in 1 .. Len(commits) :
         LET key == commits[i].key IN
         clock < commits[i].at + Window =>
            /\ key \in DOMAIN replays
            /\ replays[key].receipt = commits[i].receipt
    /\ \A key \in DOMAIN replays :
         liveReplay(key, replays[key].fp, replays[key].kind) # "Unavailable"
    /\ \A key \in DOMAIN ledger :
         clock < ledger[key].expiresAt =>
            key \in DOMAIN replays /\ replays[key].epoch = ledger[key].epoch
    /\ \A i, j \in 1 .. Len(commits) :
         (/\ i < j
          /\ commits[j].receipt.resource = commits[i].receipt.resource
          /\ \A between \in i + 1 .. j - 1 :
               commits[between].receipt.resource # commits[i].receipt.resource)
         => commits[j].base = commits[i].receipt.version

\* Creating and deleting in any order leaves every Workspace a hierarchy that
\* NewSnapshot accepts; otherwise each later mutation in it would fail.
HierarchyIntact ==
    \A w \in {resources[id].workspace : id \in DOMAIN resources} : snapshotFor(w) = "Valid"

\* A walk that follows the page tokens to the end (listWhere, afterCursor) has
\* returned every row that matched its query all the while, and no walk
\* returns a row twice, whatever is created, relabelled or deleted meanwhile.
WalksComplete ==
    /\ IsInjective(walk.seen)
    /\ walk.phase = "done" => walk.base \subseteq ToSet(walk.seen)

=============================================================================
