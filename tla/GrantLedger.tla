----------------------------- MODULE GrantLedger -----------------------------
(***************************************************************************)
(* The elevation ledger of package administration (ledger.go): concurrent  *)
(* Issue calls that verify a proof, take a sequence number, read the       *)
(* configured clock and then compete for the ledger lock; and StateAt,     *)
(* Consume and Revoke calls, each one critical section, with a time of     *)
(* their caller's.                                                         *)
(*                                                                         *)
(* Neither the clock nor the callers' times are ordered.  A grant value    *)
(* resolves by its identifier to the record it was copied from, which is   *)
(* never removed: a grant is named by its identifier.  A call with a value *)
(* the ledger did not issue, like any call refused after its time was      *)
(* accepted, leaves only the time behind.                                  *)
(***************************************************************************)
EXTENDS Integers, FiniteSets

CONSTANTS
    Callers,          \* goroutines that call Issue, any number of times each
    Requests,         \* ElevationRequest values
    Administrators,   \* the configured directory
    GrantIDs, Proofs, Scopes,
                      \* a scope is an action with its target
    MaxTrackedElevations, MaxStrongAuthProofAge, MaxElevationDuration,
    MaxContractTime,  \* the last time normalizeContractTime accepts
    CallerTimes,      \* times the callers of StateAt, Consume and Revoke pass
    MaxClockSamples   \* 2^64 - 1 in the code

Times == 1..MaxContractTime

ElevationRequest ==
    [grantID : GrantIDs, administrator : Administrators \cup {"not configured"},
     scope : Scopes, requestedAt : Times, duration : 1..MaxElevationDuration]

ASSUME ConstantsAssumption ==
    /\ Requests \subseteq ElevationRequest
    /\ MaxTrackedElevations \in Nat
    /\ MaxStrongAuthProofAge \in Nat
    /\ MaxElevationDuration \in Nat
    /\ MaxContractTime \in Nat
    /\ MaxClockSamples \in Nat
    /\ CallerTimes \subseteq Times
    /\ IsFiniteSet(GrantIDs)

VARIABLES
    pc,              \* where each Issue call stands
    challenge,       \* request, proof and authentication time of each call
    sequence,        \* clock sequence of each call
    observed,        \* clock reading of each call; 0: not a contract time
    clockSamples, lastClockSample,
    highWater,       \* 0 is the zero time
    proofs,          \* tombstones of the proofs used
    grants,          \* the grant of each identifier, or noGrant
    state,           \* GrantState of each identifier, "none" when unknown
    terminalAt,
    receipts         \* history: how many receipts each identifier has yielded

callVars == <<pc, challenge, sequence, observed>>
recordVars == <<proofs, grants, state, terminalAt, receipts>>
vars == <<callVars, clockSamples, lastClockSample, highWater, recordVars>>

-----------------------------------------------------------------------------
Challenge == [request : Requests, proofID : Proofs, authenticatedAt : Times]

GrantState == {"none", "Active", "Consumed", "Revoked", "Expired"}

Grant ==
    [administrator : Administrators, proofID : Proofs, scope : Scopes,
     issuedAt : Times, expiresAt : Times]

noGrant == [administrator |-> "none", proofID |-> "none", scope |-> "none",
            issuedAt |-> 0, expiresAt |-> 0]
noRequest == [grantID |-> "none", administrator |-> "none", scope |-> "none",
              requestedAt |-> 0, duration |-> 0]
noChallenge == [request |-> noRequest, proofID |-> "none", authenticatedAt |-> 0]

Tracked == {id \in GrantIDs : state[id] # "none"}

later(a, b) == IF a < b THEN b ELSE a

Init ==
    /\ pc = [c \in Callers |-> "idle"]
    /\ challenge = [c \in Callers |-> noChallenge]
    /\ sequence = [c \in Callers |-> 0]
    /\ observed = [c \in Callers |-> 0]
    /\ clockSamples = 0
    /\ lastClockSample = 0
    /\ highWater = 0
    /\ proofs = {}
    /\ grants = [id \in GrantIDs |-> noGrant]
    /\ state = [id \in GrantIDs |-> "none"]
    /\ terminalAt = [id \in GrantIDs |-> 0]
    /\ receipts = [id \in GrantIDs |-> 0]

-----------------------------------------------------------------------------
(* Issue, up to the lock.                                                  *)

(* The verifier accepts; a call it rejects changes nothing.                *)
VerifyStrongAuthentication(c) ==
    /\ pc[c] = "idle"
    /\ \E r \in Requests, p \in Proofs, t \in Times :
          challenge' = [challenge EXCEPT
              ![c] = [request |-> r, proofID |-> p, authenticatedAt |-> t]]
    /\ pc' = [pc EXCEPT ![c] = "verified"]
    /\ UNCHANGED <<sequence, observed, clockSamples, lastClockSample, highWater,
                   recordVars>>

(* sampleIssuanceClock takes its number, or stops at the last one.         *)
takeSequence(c) ==
    /\ pc[c] = "verified"
    /\ IF clockSamples = MaxClockSamples
       THEN /\ pc' = [pc EXCEPT ![c] = "idle"]
            /\ challenge' = [challenge EXCEPT ![c] = noChallenge]
            /\ UNCHANGED <<clockSamples, sequence>>
       ELSE /\ pc' = [pc EXCEPT ![c] = "sequenced"]
            /\ clockSamples' = clockSamples + 1
            /\ sequence' = [sequence EXCEPT ![c] = clockSamples + 1]
            /\ UNCHANGED challenge
    /\ UNCHANGED <<observed, lastClockSample, highWater, recordVars>>

(* ... and reads the clock afterwards.                                     *)
readClock(c) ==
    /\ pc[c] = "sequenced"
    /\ \E t \in Times \cup {0} :
          observed' = [observed EXCEPT ![c] = t]
    /\ pc' = [pc EXCEPT ![c] = "sampled"]
    /\ UNCHANGED <<challenge, sequence, clockSamples, lastClockSample, highWater,
                   recordVars>>

-----------------------------------------------------------------------------
(* observeIssuanceClockLocked.  An invalid reading (0) is below every      *)
(* high-water mark, so it moves nothing but the sequence fence.            *)
fresh(c) == sequence[c] > lastClockSample

regressed(c) == fresh(c) /\ observed[c] < highWater

\* Mutated: an overlapped call keeps its own, older reading.
normalized_own(c) == observed[c]

(* The time the call goes on with.                                         *)
normalized(c) == IF fresh(c) THEN observed[c] ELSE later(highWater, observed[c])

observeIssuanceClock(c) ==
    /\ lastClockSample' = later(lastClockSample, sequence[c])
    /\ highWater' = later(highWater, observed[c])

room == Cardinality(Tracked) < MaxTrackedElevations

(* normalizeContractTime accepts the time.                                 *)
contractTime(t) == t <= MaxContractTime

(* The checks of Issue under the lock, after the time was accepted.        *)
admitted(c) ==
    LET r == challenge[c].request
        at == normalized(c)
    IN  /\ at >= r.requestedAt
        /\ at >= challenge[c].authenticatedAt
        /\ at - challenge[c].authenticatedAt <= MaxStrongAuthProofAge
        /\ r.administrator \in Administrators
        /\ challenge[c].proofID \notin proofs
        /\ state[r.grantID] = "none"
        /\ room
        /\ contractTime(at + r.duration)

recordProof(p) == proofs' = proofs \cup {p}

issueEnds(c) ==
    /\ pc[c] = "sampled"
    /\ observeIssuanceClock(c)
    /\ pc' = [pc EXCEPT ![c] = "idle"]
    /\ challenge' = [challenge EXCEPT ![c] = noChallenge]
    /\ sequence' = [sequence EXCEPT ![c] = 0]
    /\ observed' = [observed EXCEPT ![c] = 0]
    /\ UNCHANGED clockSamples

(* The caller's context ended after the verification.                      *)
IssueCanceled(c) == issueEnds(c) /\ UNCHANGED recordVars

IssueUnavailable(c) ==
    observed[c] = 0 /\ issueEnds(c) /\ UNCHANGED recordVars

IssueRegressed(c) ==
    /\ observed[c] # 0 /\ regressed(c)
    /\ issueEnds(c)
    /\ UNCHANGED recordVars

IssueRefused(c) ==
    /\ observed[c] # 0 /\ ~regressed(c) /\ ~admitted(c)
    /\ issueEnds(c)
    /\ UNCHANGED recordVars

IssueGranted(c) ==
    LET r == challenge[c].request
    IN  /\ observed[c] # 0 /\ ~regressed(c) /\ admitted(c)
        /\ issueEnds(c)
        /\ recordProof(challenge[c].proofID)
        /\ grants' = [grants EXCEPT ![r.grantID] =
               [administrator |-> r.administrator, proofID |-> challenge[c].proofID,
                scope |-> r.scope, issuedAt |-> normalized(c),
                expiresAt |-> normalized(c) + r.duration]]
        /\ state' = [state EXCEPT ![r.grantID] = "Active"]
        /\ UNCHANGED <<terminalAt, receipts>>

-----------------------------------------------------------------------------
(* StateAt, Consume and Revoke at a caller's time.                         *)

observeClock(now) ==
    /\ now >= highWater
    /\ highWater' = now

(* expireAt: at the expiry instant the grant is already expired.           *)
expired(id, now) == state[id] = "Active" /\ now >= grants[id].expiresAt

\* Mutated: any record may be spent.
live_recorded(id, now) == state[id] # "none"

(* The record is still active once expireAt has looked at it.              *)
live(id, now) == state[id] = "Active" /\ ~expired(id, now)

(* validConsumptionReceipt and validRevocationReceipt.                     *)
validReceipt(id, now) == grants[id].issuedAt <= now /\ now < grants[id].expiresAt

(* The call is refused after its time was accepted and expireAt applied:   *)
(* the record is terminal, or the expected scope is another one.           *)
StateAt(now, id) ==
    /\ state[id] # "none"
    /\ observeClock(now)
    /\ IF expired(id, now)
       THEN /\ state' = [state EXCEPT ![id] = "Expired"]
            /\ terminalAt' = [terminalAt EXCEPT ![id] = grants[id].expiresAt]
       ELSE UNCHANGED <<state, terminalAt>>
    /\ UNCHANGED <<callVars, clockSamples, lastClockSample, proofs, grants, receipts>>

(* The grant is not one of this ledger's records.                          *)
lookupFails(now) ==
    /\ observeClock(now)
    /\ UNCHANGED <<callVars, clockSamples, lastClockSample, recordVars>>

finish(now, id, outcome) ==
    /\ observeClock(now)
    /\ live(id, now)
    /\ validReceipt(id, now)
    /\ state' = [state EXCEPT ![id] = outcome]
    /\ terminalAt' = [terminalAt EXCEPT ![id] = now]
    /\ receipts' = [receipts EXCEPT ![id] = @ + 1]
    /\ UNCHANGED <<callVars, clockSamples, lastClockSample, proofs, grants>>

(* With the scope the grant is bound to; with another it is a StateAt.     *)
Consume(now, id) == finish(now, id, "Consumed")

Revoke(now, id) == finish(now, id, "Revoked")

-----------------------------------------------------------------------------
Issue(c) ==
    \/ VerifyStrongAuthentication(c)
    \/ takeSequence(c)
    \/ readClock(c)
    \/ IssueCanceled(c)
    \/ IssueUnavailable(c)
    \/ IssueRegressed(c)
    \/ IssueRefused(c)
    \/ IssueGranted(c)

Next ==
    \/ \E c \in Callers : Issue(c)
    \/ \E now \in CallerTimes :
          \/ lookupFails(now)
          \/ \E id \in GrantIDs :
                StateAt(now, id) \/ Consume(now, id) \/ Revoke(now, id)

Spec == Init /\ [][Next]_vars

-----------------------------------------------------------------------------
TypeOK ==
    /\ pc \in [Callers -> {"idle", "verified", "sequenced", "sampled"}]
    /\ challenge \in [Callers -> Challenge \cup {noChallenge}]
    /\ sequence \in [Callers -> 0..clockSamples]
    /\ observed \in [Callers -> Times \cup {0}]
    /\ clockSamples \in 0..MaxClockSamples
    /\ lastClockSample \in 0..clockSamples
    /\ highWater \in Times \cup {0}
    /\ proofs \subseteq Proofs
    /\ grants \in [GrantIDs -> Grant \cup {noGrant}]
    /\ state \in [GrantIDs -> GrantState]
    /\ terminalAt \in [GrantIDs -> Times \cup {0}]
    /\ receipts \in [GrantIDs -> Nat]

(* A grant yields at most one receipt, of consumption or of revocation,    *)
(* whatever copies of it race; a record without one is active or expired   *)
(* (Consume, Revoke, terminalGrantError).                                  *)
OneReceiptPerGrant ==
    \A id \in GrantIDs :
        receipts[id] = IF state[id] \in {"Consumed", "Revoked"} THEN 1 ELSE 0

(* No two grants rest on the same proof, and every proof that a grant      *)
(* rests on has its tombstone (Issue, state.proofs).                       *)
ProofsUsedOnce ==
    \A i \in Tracked :
        /\ grants[i].proofID \in proofs
        /\ \A j \in Tracked : grants[i].proofID = grants[j].proofID => i = j

(* A receipt lies in the window its grant was issued for, and no grant was *)
(* issued after a time the ledger has accepted: the receipt checks of      *)
(* Consume and Revoke never refuse a live grant.                           *)
ReceiptsInWindow ==
    \A id \in Tracked :
        /\ grants[id].issuedAt <= highWater
        /\ state[id] \in {"Consumed", "Revoked"} =>
              /\ grants[id].issuedAt <= terminalAt[id]
              /\ terminalAt[id] < grants[id].expiresAt
              /\ terminalAt[id] <= highWater

(* Whatever a call of Issue read from the clock is behind the high-water   *)
(* mark once the call has left the lock, cancelled and refused ones        *)
(* included ("time must be fenced even when cancellation wins",            *)
(* ledger.go:143).                                                         *)
SamplesFenced ==
    [][\A c \in Callers :
          pc[c] = "sampled" /\ pc'[c] # "sampled" => observed[c] <= highWater']_vars

(* Grants and tombstones together never exceed the ledger's capacity.      *)
LedgerBounded == Cardinality(Tracked) <= MaxTrackedElevations

(* A step never lowers the high-water mark, never changes a recorded       *)
(* grant, never leaves a terminal state, and dates a new grant at the      *)
(* highest time accepted so far, so no overlapping or delayed call gains   *)
(* lifetime or makes its proof look younger.                               *)
AuthorityOnlyShrinks ==
    [][/\ highWater' >= highWater
       /\ proofs \subseteq proofs'
       /\ \A id \in GrantIDs :
             IF state[id] = "none"
             THEN state'[id] # "none" => grants'[id].issuedAt = highWater'
             ELSE /\ grants'[id] = grants[id]
                  /\ state[id] # "Active" =>
                        state'[id] = state[id] /\ terminalAt'[id] = terminalAt[id]]_vars
=============================================================================
