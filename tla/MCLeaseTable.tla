----------------------------- MODULE MCLeaseTable -----------------------------
(***************************************************************************)
(* Two small instances of LeaseTable, checked in one run.  In both, two    *)
(* workers compete for one lineage.                                        *)
(*   "ownership"  the second generation of the lineage repeats the plan    *)
(*                digest of the first; one attempt, one authority          *)
(*   "dispatch"   one generation and two grants, two attempts and two      *)
(*                authorities, without deadlines of their own              *)
(***************************************************************************)
EXTENDS LeaseTable, TLC

CONSTANTS r1, w1, w2, c1, c2, d1, a1, a2

VARIABLE focus

FirstGeneration ==
    [row |-> r1, generation |-> 1, operationID |-> 1, planRevision |-> 1, planDigest |-> 1]

SecondGeneration ==
    [row |-> r1, generation |-> 2, operationID |-> 2, planRevision |-> 1, planDigest |-> 1]

TwoGenerations == {FirstGeneration, SecondGeneration}

MCSymmetry == Permutations({w1, w2}) \cup Permutations({c1, c2}) \cup Permutations({a1, a2})

Ownership == focus = "ownership"

InUse == IF Ownership THEN TwoGenerations ELSE {FirstGeneration}
Until == IF Ownership THEN Deadlines ELSE {0}
Grantable == Ownership \/ rows[r1].fence < 2
Preparable == Ownership => attempts = {}
Authorizable == Ownership => authorities = {}

MCInit == Init /\ focus \in {"ownership", "dispatch"}

MCNext ==
    /\ UNCHANGED focus
    /\ \E t \in Times :
        \/ \E b \in InUse, o \in Owners : Grantable /\ Acquire(t, b, o)
        \/ \E a \in replacements, o \in Owners : AcquireReplacement(t, a, o)
        \/ \E k \in tokens : Renew(t, k) \/ Surrender(t, k) \/ AuthorizeCommit(t, k)
        \/ \E k \in tokens, u \in Until : Preparable /\ NewPreparedAttempt(t, k, u)
        \/ \E k \in tokens, a \in replacements :
               Preparable /\ PrepareReplacementAttempt(t, a, k)
        \/ \E a \in attempts : Authorizable /\ NewDispatchAuthority(t, a)
        \/ \E k \in tokens, d \in RpcTimeouts, a \in authorities :
               AuthorizeDispatch(t, k, d, a)
        \/ \E p \in permits : MarkAttemptDispatched(t, p)
        \/ \E b, c \in InUse : NewReplacement(b, c)

MCSpec == MCInit /\ [][MCNext]_<<vars, focus>>
=============================================================================
