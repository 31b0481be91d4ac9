---------------------------- MODULE DeliveryLedger ----------------------------
(***************************************************************************)
(* The duplicate-delivery ledger of package reconciliation (model.go).     *)
(* A queue delivers each work item any number of times, to workers that    *)
(* hold lease tokens of any age.  Tokens are those the lease table can     *)
(* have handed out: every grant of a lineage has a fence of its own and is *)
(* made for the binding the lineage's work belongs to at that time.        *)
(***************************************************************************)
EXTENDS Integers, FiniteSets, Sequences

CONSTANTS
    Works,      \* work keys
    Bindings,   \* lease bindings; one lineage
    PlanDigest, \* PlanDigest[x]: the plan digest of a work key or binding
    Owners,
    maximum,    \* NewDeliveryLedger(maximum)
    MaxFence    \* bound on the grants of a run

VARIABLES
    tokens,     \* every token granted so far; the i-th has fence i
    records,    \* deliveryRecord of each work key, or noRecord
    accepted,   \* history: the fences whose deliveries were accepted, in order
    completions \* history: the fences that completed the work

vars == <<tokens, records, accepted, completions>>

LeaseToken == [binding : Bindings, ownerID : Owners, fence : 1..MaxFence]

deliveryRecord ==
    [binding : Bindings, ownerID : Owners, fence : 1..MaxFence,
     state : {"active", "completed"}]

noRecord == [state |-> "absent"]

Exists(work) == records[work] # noRecord

Init ==
    /\ tokens = <<>>
    /\ records = [w \in Works |-> noRecord]
    /\ accepted = [w \in Works |-> <<>>]
    /\ completions = [w \in Works |-> {}]

\* The lease table grants the lineage to a worker (LeaseTable).
Grant(binding, owner) ==
    /\ Len(tokens) < MaxFence
    /\ tokens' = Append(tokens,
          [binding |-> binding, ownerID |-> owner, fence |-> Len(tokens) + 1])
    /\ UNCHANGED <<records, accepted, completions>>

PlanMatches(work, token) == PlanDigest[work] = PlanDigest[token.binding]

HasRoom == Cardinality({w \in Works : Exists(w)}) < maximum

Reclaims(token, current) == token.fence > current.fence

Accept(work, token) ==
    /\ records' = [records EXCEPT ![work] =
          [binding |-> token.binding, ownerID |-> token.ownerID,
           fence |-> token.fence, state |-> "active"]]
    /\ accepted' = [accepted EXCEPT ![work] = Append(@, token.fence)]
    /\ UNCHANGED <<tokens, completions>>

\* The deliveries that are accepted.  Any other delivery (a duplicate of active
\* or completed work, another binding, a full ledger) changes nothing.
Begin(work, token) ==
    /\ PlanMatches(work, token)
    /\ \/ /\ ~Exists(work)
          /\ HasRoom
       \/ /\ Exists(work)
          /\ records[work].state = "active"
          /\ records[work].binding = token.binding
          /\ Reclaims(token, records[work])
    /\ Accept(work, token)

\* Mutated: a superseded owner may still complete the work.
Owns_anyFence(token, current) == current.binding = token.binding
Owns(token, current) ==
    /\ current.binding = token.binding
    /\ current.ownerID = token.ownerID
    /\ current.fence = token.fence

Complete(work, token) ==
    /\ PlanMatches(work, token)
    /\ Exists(work)
    /\ Owns(token, records[work])
    /\ records' = [records EXCEPT ![work].state = "completed"]
    /\ completions' = [completions EXCEPT ![work] = @ \cup {token.fence}]
    /\ UNCHANGED <<tokens, accepted>>

Next ==
    \/ \E b \in Bindings, o \in Owners : Grant(b, o)
    \/ \E w \in Works, i \in DOMAIN tokens :
          Begin(w, tokens[i]) \/ Complete(w, tokens[i])

Spec == Init /\ [][Next]_vars
-----------------------------------------------------------------------------
\* The state has the types of the Go declarations, and the ledger never holds
\* more than maximum records.
TypeOK ==
    /\ tokens \in Seq(LeaseToken)
    /\ records \in [Works -> deliveryRecord \cup {noRecord}]
    /\ accepted \in [Works -> Seq(1..MaxFence)]
    /\ Cardinality({w \in Works : Exists(w)}) <= maximum

\* However often a work item is delivered, and in whatever order old and new
\* tokens arrive, each accepted delivery has a strictly newer fence than the
\* ones accepted before: no grant processes the work twice (Begin).
AcceptedOncePerGrant ==
    \A w \in Works : \A i, j \in DOMAIN accepted[w] :
        i < j => accepted[w][i] < accepted[w][j]

\* Work is completed by one grant only, the one whose delivery was accepted
\* last: a worker that lost the work to a newer fence cannot complete it, and no
\* delivery is accepted once the work is completed (Begin, Complete).
CompletedByNewestGrant ==
    \A w \in Works : \A f \in completions[w] : f = accepted[w][Len(accepted[w])]
=============================================================================
