-------------------------- MODULE GrantLedgerProofs --------------------------
(***************************************************************************)
(* Proofs about the elevation ledger, for every set of callers, requests,  *)
(* identifiers and times and every capacity.                               *)
(***************************************************************************)
EXTENDS GrantLedger, FiniteSetTheorems, TLAPS

(* What the invariants rest on: a call between verification and return has *)
(* its challenge, and a tracked identifier a proper grant.                 *)
CallsOK == \A c \in Callers : pc[c] # "idle" => challenge[c] \in Challenge

GrantsOK == \A id \in Tracked : grants[id] \in Grant

IInv ==
    /\ TypeOK /\ CallsOK /\ GrantsOK
    /\ OneReceiptPerGrant /\ ProofsUsedOnce /\ ReceiptsInWindow /\ LedgerBounded

-----------------------------------------------------------------------------
(* The kinds of steps, by what they do to the records.                     *)

Quiet == UNCHANGED recordVars /\ highWater <= highWater'

\* A new record id with the given grant.
Recorded(id, g) ==
    /\ state[id] = "none" /\ room
    /\ g.proofID \notin proofs
    /\ g.issuedAt = highWater'
    /\ highWater <= highWater'
    /\ proofs' = proofs \cup {g.proofID}
    /\ grants' = [grants EXCEPT ![id] = g]
    /\ state' = [state EXCEPT ![id] = "Active"]
    /\ UNCHANGED <<terminalAt, receipts>>

Expires(id) ==
    /\ state[id] = "Active"
    /\ highWater <= highWater'
    /\ state' = [state EXCEPT ![id] = "Expired"]
    /\ terminalAt' = [terminalAt EXCEPT ![id] = grants[id].expiresAt]
    /\ UNCHANGED <<proofs, grants, receipts>>

Finishes(id, outcome) ==
    /\ state[id] = "Active"
    /\ highWater <= highWater'
    /\ validReceipt(id, highWater')
    /\ state' = [state EXCEPT ![id] = outcome]
    /\ terminalAt' = [terminalAt EXCEPT ![id] = highWater']
    /\ receipts' = [receipts EXCEPT ![id] = @ + 1]
    /\ UNCHANGED <<proofs, grants>>

Kind ==
    \/ Quiet
    \/ \E id \in GrantIDs, g \in Grant : Recorded(id, g)
    \/ \E id \in GrantIDs : Expires(id)
    \/ \E id \in GrantIDs, outcome \in {"Consumed", "Revoked"} : Finishes(id, outcome)

(* The part of TypeOK that calls of Issue and the clock are about.          *)
CallTypes ==
    /\ pc \in [Callers -> {"idle", "verified", "sequenced", "sampled"}]
    /\ challenge \in [Callers -> Challenge \cup {noChallenge}]
    /\ sequence \in [Callers -> 0..clockSamples]
    /\ observed \in [Callers -> Times \cup {0}]
    /\ clockSamples \in 0..MaxClockSamples
    /\ lastClockSample \in 0..clockSamples
    /\ highWater \in Times \cup {0}

-----------------------------------------------------------------------------
(* Leaving the lock advances the clock and forgets the call.               *)
LEMMA CallEnds ==
    ASSUME TypeOK, CallsOK, NEW c \in Callers, issueEnds(c)
    PROVE  /\ CallTypes' /\ CallsOK'
           /\ highWater <= highWater' /\ observed[c] <= highWater'
           /\ highWater' = later(highWater, observed[c])
  <1>1. /\ sequence[c] \in 0..clockSamples /\ observed[c] \in Times \cup {0}
        /\ highWater \in Times \cup {0} /\ clockSamples \in 0..MaxClockSamples
        /\ lastClockSample \in 0..clockSamples
    BY DEF TypeOK
  <1>2. Times \cup {0} \subseteq Nat
    BY ConstantsAssumption DEF Times
  <1>3. /\ lastClockSample' \in 0..clockSamples
        /\ highWater' \in Times \cup {0}
        /\ highWater <= highWater' /\ observed[c] <= highWater'
        /\ highWater' = later(highWater, observed[c])
    BY <1>1, <1>2, ConstantsAssumption DEF issueEnds, observeIssuanceClock, later
  <1>4. /\ pc' = [pc EXCEPT ![c] = "idle"]
        /\ challenge' = [challenge EXCEPT ![c] = noChallenge]
        /\ sequence' = [sequence EXCEPT ![c] = 0]
        /\ observed' = [observed EXCEPT ![c] = 0]
        /\ clockSamples' = clockSamples
    BY DEF issueEnds
  <1>5. CallsOK'
    <2> SUFFICES ASSUME NEW d \in Callers, pc'[d] # "idle"
                 PROVE  challenge'[d] \in Challenge
      BY DEF CallsOK
    <2>1. d # c
      BY <1>4 DEF TypeOK
    <2> QED
      BY <2>1, <1>4 DEF CallsOK, TypeOK
  <1> QED
    <2>1. sequence' \in [Callers -> 0..clockSamples']
      BY <1>4, <1>1, ConstantsAssumption DEF TypeOK
    <2>2. observed' \in [Callers -> Times \cup {0}]
      BY <1>4 DEF TypeOK
    <2>3. challenge' \in [Callers -> Challenge \cup {noChallenge}]
      BY <1>4 DEF TypeOK
    <2>4. pc' \in [Callers -> {"idle", "verified", "sequenced", "sampled"}]
      BY <1>4 DEF TypeOK
    <2> QED
      BY <1>1, <1>3, <1>4, <1>5, <2>1, <2>2, <2>3, <2>4 DEF TypeOK, CallTypes

(* The five ways a call leaves the lock; four leave the records alone.     *)
LEMMA GrantedKind ==
    ASSUME TypeOK, CallsOK, NEW c \in Callers, IssueGranted(c)
    PROVE  \E id \in GrantIDs, g \in Grant : Recorded(id, g)
  <1> DEFINE r == challenge[c].request
             at == normalized(c)
             g == [administrator |-> r.administrator, proofID |-> challenge[c].proofID,
                   scope |-> r.scope, issuedAt |-> at, expiresAt |-> at + r.duration]
  <1>1. challenge[c] \in Challenge
    BY DEF IssueGranted, issueEnds, CallsOK
  <1>2. /\ r \in ElevationRequest /\ challenge[c].proofID \in Proofs
        /\ challenge[c].authenticatedAt \in Times
    BY <1>1, ConstantsAssumption DEF Challenge
  <1>3. /\ r.grantID \in GrantIDs /\ r.scope \in Scopes /\ r.requestedAt \in Times
        /\ r.duration \in 1..MaxElevationDuration
    BY <1>2 DEF ElevationRequest
  <1>4. /\ highWater' \in Times \cup {0} /\ highWater <= highWater'
        /\ highWater' = later(highWater, observed[c])
    BY CallEnds DEF IssueGranted, CallTypes
  <1>5. at = highWater'
    <2>1. observed[c] \in Nat /\ highWater \in Nat
      BY ConstantsAssumption DEF TypeOK, Times
    <2> QED
      BY <1>4, <2>1 DEF IssueGranted, normalized, regressed, later
  <1>6. at \in Times
    <2>1. observed[c] # 0 /\ observed[c] \in Nat /\ observed[c] <= highWater'
      BY CallEnds, ConstantsAssumption DEF IssueGranted, TypeOK, Times
    <2> QED
      BY <1>4, <1>5, <2>1
  <1>7. /\ r.administrator \in Administrators
        /\ challenge[c].proofID \notin proofs
        /\ state[r.grantID] = "none" /\ room
        /\ at + r.duration <= MaxContractTime
    BY DEF IssueGranted, admitted, contractTime
  <1>8. at + r.duration \in Times
    BY <1>3, <1>6, <1>7, ConstantsAssumption DEF Times
  <1>9. /\ proofs' = proofs \cup {challenge[c].proofID}
        /\ grants' = [grants EXCEPT ![r.grantID] = g]
        /\ state' = [state EXCEPT ![r.grantID] = "Active"]
        /\ UNCHANGED <<terminalAt, receipts>>
    BY DEF IssueGranted, recordProof
  <1>10. g \in Grant /\ g.proofID = challenge[c].proofID /\ g.issuedAt = at
    BY <1>2, <1>3, <1>6, <1>7, <1>8 DEF Grant
  <1>11. Recorded(r.grantID, g)
    <2> HIDE DEF g, r, at
    <2> QED
      BY <1>4, <1>5, <1>7, <1>9, <1>10 DEF Recorded
  <1> QED
    BY <1>3, <1>10, <1>11

LEMMA IssueKind ==
    ASSUME TypeOK, CallsOK, NEW c \in Callers, Issue(c)
    PROVE  Kind /\ CallTypes' /\ CallsOK'
  <1>1. CASE VerifyStrongAuthentication(c)
    <2>1. PICK q \in Challenge : challenge' = [challenge EXCEPT ![c] = q]
      BY <1>1 DEF VerifyStrongAuthentication, Challenge
    <2>2. /\ pc' = [pc EXCEPT ![c] = "verified"]
          /\ UNCHANGED <<sequence, observed, clockSamples, lastClockSample,
                         highWater, recordVars>>
      BY <1>1 DEF VerifyStrongAuthentication
    <2>3. CallTypes'
      BY <2>1, <2>2 DEF TypeOK, CallTypes
    <2>4. CallsOK'
      BY <2>1, <2>2 DEF CallsOK, TypeOK
    <2>5. Quiet
      BY <2>2, ConstantsAssumption DEF Quiet, TypeOK, Times
    <2> QED
      BY <2>3, <2>4, <2>5 DEF Kind
  <1>2. CASE takeSequence(c)
    <2>1. Quiet
      BY <1>2, ConstantsAssumption DEF takeSequence, Quiet, TypeOK, Times
    <2>2. CASE clockSamples = MaxClockSamples
      <3>1. /\ pc' = [pc EXCEPT ![c] = "idle"]
            /\ challenge' = [challenge EXCEPT ![c] = noChallenge]
            /\ UNCHANGED <<clockSamples, sequence, observed, lastClockSample,
                           highWater>>
        BY <1>2, <2>2 DEF takeSequence
      <3> QED
        BY <2>1, <3>1 DEF Kind, CallTypes, CallsOK, TypeOK
    <2>3. CASE clockSamples # MaxClockSamples
      <3>1. /\ pc[c] = "verified" /\ pc' = [pc EXCEPT ![c] = "sequenced"]
            /\ clockSamples' = clockSamples + 1
            /\ sequence' = [sequence EXCEPT ![c] = clockSamples + 1]
            /\ UNCHANGED <<challenge, observed, lastClockSample, highWater>>
        BY <1>2, <2>3 DEF takeSequence
      <3>2. clockSamples' \in 0..MaxClockSamples /\ lastClockSample' \in 0..clockSamples'
        BY <2>3, <3>1, ConstantsAssumption DEF TypeOK
      <3>3. 0..clockSamples \subseteq 0..clockSamples'
            /\ clockSamples + 1 \in 0..clockSamples'
        BY <3>1, ConstantsAssumption DEF TypeOK
      <3>4. sequence' \in [Callers -> 0..clockSamples']
        BY <3>1, <3>3 DEF TypeOK
      <3>5. CallTypes'
        BY <3>1, <3>2, <3>4 DEF CallTypes, TypeOK
      <3>6. CallsOK'
        BY <3>1 DEF CallsOK, TypeOK
      <3> QED
        BY <2>1, <3>5, <3>6 DEF Kind
    <2> QED
      BY <2>2, <2>3
  <1>3. CASE readClock(c)
    <2>1. PICK t \in Times \cup {0} : observed' = [observed EXCEPT ![c] = t]
      BY <1>3 DEF readClock
    <2>2. /\ pc[c] = "sequenced" /\ pc' = [pc EXCEPT ![c] = "sampled"]
          /\ UNCHANGED <<challenge, sequence, clockSamples, lastClockSample, highWater,
                         recordVars>>
      BY <1>3 DEF readClock
    <2>3. CallTypes'
      BY <2>1, <2>2 DEF TypeOK, CallTypes
    <2>4. CallsOK'
      BY <2>2 DEF CallsOK, TypeOK
    <2>5. Quiet
      BY <2>2, ConstantsAssumption DEF Quiet, TypeOK, Times
    <2> QED
      BY <2>3, <2>4, <2>5 DEF Kind
  <1>4. ASSUME issueEnds(c), UNCHANGED recordVars
        PROVE  Kind /\ CallTypes' /\ CallsOK'
    BY <1>4, CallEnds DEF Kind, Quiet, CallTypes
  <1>5. CASE IssueGranted(c)
    BY <1>5, CallEnds, GrantedKind DEF Kind, CallTypes, IssueGranted
  <1> QED
    BY <1>1, <1>2, <1>3, <1>4, <1>5
    DEF Issue, IssueCanceled, IssueUnavailable, IssueRegressed, IssueRefused

LEMMA StepKind ==
    ASSUME TypeOK, CallsOK, [Next]_vars
    PROVE  Kind /\ CallTypes' /\ CallsOK'
  <1>0. highWater \in Nat /\ highWater \in Times \cup {0} /\ CallerTimes \subseteq Times
    BY ConstantsAssumption DEF TypeOK, Times
  <1>1. CASE UNCHANGED vars
    BY <1>0, <1>1 DEF vars, callVars, Kind, Quiet, CallTypes, CallsOK, TypeOK
  <1>2. ASSUME NEW now \in CallerTimes, observeClock(now),
               UNCHANGED <<callVars, clockSamples, lastClockSample>>
        PROVE  CallTypes' /\ CallsOK' /\ highWater <= highWater' /\ highWater' = now
    <2>1. highWater' = now /\ highWater <= highWater' /\ highWater' \in Times \cup {0}
      BY <1>0, <1>2, ConstantsAssumption DEF observeClock, Times
    <2>2. CallTypes'
      BY <1>2, <2>1 DEF callVars, CallTypes, TypeOK
    <2>3. CallsOK'
      BY <1>2 DEF callVars, CallsOK
    <2> QED
      BY <2>1, <2>2, <2>3
  <1>3. ASSUME NEW now \in CallerTimes, lookupFails(now)
        PROVE  Kind /\ CallTypes' /\ CallsOK'
    BY <1>2, <1>3 DEF lookupFails, Kind, Quiet
  <1>4. ASSUME NEW now \in CallerTimes, NEW id \in GrantIDs, StateAt(now, id)
        PROVE  Kind /\ CallTypes' /\ CallsOK'
    <2>1. CallTypes' /\ CallsOK' /\ highWater <= highWater'
      BY <1>2, <1>4 DEF StateAt
    <2>2. CASE expired(id, now)
      BY <1>4, <2>1, <2>2 DEF StateAt, Kind, Expires, expired
    <2>3. CASE ~expired(id, now)
      BY <1>4, <2>1, <2>3 DEF StateAt, Kind, Quiet, recordVars
    <2> QED
      BY <2>2, <2>3
  <1>5. ASSUME NEW now \in CallerTimes, NEW id \in GrantIDs,
               NEW o \in {"Consumed", "Revoked"}, finish(now, id, o)
        PROVE  Kind /\ CallTypes' /\ CallsOK'
    <2>1. CallTypes' /\ CallsOK' /\ highWater <= highWater' /\ highWater' = now
      BY <1>2, <1>5 DEF finish
    <2>2. Finishes(id, o)
      BY <1>5, <2>1 DEF finish, Finishes, live
    <2> QED
      BY <2>1, <2>2 DEF Kind
  <1> QED
    BY <1>1, <1>3, <1>4, <1>5, IssueKind DEF Next, Consume, Revoke

-----------------------------------------------------------------------------
LEMMA RecordTypes ==
    ASSUME TypeOK, GrantsOK, Kind, CallTypes'
    PROVE  TypeOK' /\ GrantsOK'
  <1> DEFINE Records ==
                 /\ proofs \subseteq Proofs
                 /\ grants \in [GrantIDs -> Grant \cup {noGrant}]
                 /\ state \in [GrantIDs -> GrantState]
                 /\ terminalAt \in [GrantIDs -> Times \cup {0}]
                 /\ receipts \in [GrantIDs -> Nat]
  <1>0. Records
    BY DEF TypeOK
  <1>1. ASSUME Quiet
        PROVE  Records' /\ GrantsOK'
    BY <1>0, <1>1 DEF Quiet, recordVars, GrantsOK, Tracked
  <1>2. ASSUME NEW id \in GrantIDs, NEW g \in Grant, Recorded(id, g)
        PROVE  Records' /\ GrantsOK'
    <2>1. g.proofID \in Proofs
      BY DEF Grant
    <2>2. Records'
      BY <1>0, <1>2, <2>1 DEF Recorded, GrantState
    <2>3. GrantsOK'
      BY <1>0, <1>2 DEF Recorded, GrantsOK, Tracked
    <2> QED
      BY <2>2, <2>3
  <1>3. ASSUME NEW id \in GrantIDs, Expires(id)
        PROVE  Records' /\ GrantsOK'
    <2>1. grants[id] \in Grant
      BY <1>3 DEF Expires, GrantsOK, Tracked
    <2>2. grants[id].expiresAt \in Times
      BY <2>1 DEF Grant
    <2> QED
      BY <1>0, <1>3, <2>2 DEF Expires, GrantState, GrantsOK, Tracked
  <1>4. ASSUME NEW id \in GrantIDs, NEW o \in {"Consumed", "Revoked"}, Finishes(id, o)
        PROVE  Records' /\ GrantsOK'
    <2>1. highWater' \in Times \cup {0} /\ receipts[id] + 1 \in Nat
      BY <1>0 DEF CallTypes
    <2>2. Records'
      BY <1>0, <1>4, <2>1 DEF Finishes, GrantState
    <2>3. GrantsOK'
      BY <1>0, <1>4 DEF Finishes, GrantsOK, Tracked
    <2> QED
      BY <2>2, <2>3
  <1>5. Records' /\ GrantsOK'
    BY <1>0, <1>1, <1>2, <1>3, <1>4 DEF Kind
  <1> QED
    BY <1>5 DEF TypeOK, CallTypes

LEMMA ReceiptsKept ==
    ASSUME TypeOK, OneReceiptPerGrant, Kind
    PROVE  OneReceiptPerGrant'
  <1>1. CASE Quiet
    BY <1>1 DEF Quiet, recordVars, OneReceiptPerGrant
  <1>2. ASSUME NEW id \in GrantIDs, NEW g \in Grant, Recorded(id, g)
        PROVE  OneReceiptPerGrant'
    BY <1>2 DEF Recorded, OneReceiptPerGrant, TypeOK
  <1>3. ASSUME NEW id \in GrantIDs, Expires(id)
        PROVE  OneReceiptPerGrant'
    BY <1>3 DEF Expires, OneReceiptPerGrant, TypeOK
  <1>4. ASSUME NEW id \in GrantIDs, NEW o \in {"Consumed", "Revoked"}, Finishes(id, o)
        PROVE  OneReceiptPerGrant'
    BY <1>4 DEF Finishes, OneReceiptPerGrant, TypeOK
  <1> QED
    BY <1>1, <1>2, <1>3, <1>4 DEF Kind

LEMMA ProofsKept ==
    ASSUME TypeOK, ProofsUsedOnce, Kind
    PROVE  ProofsUsedOnce'
  <1>1. CASE Quiet
    BY <1>1 DEF Quiet, recordVars, ProofsUsedOnce, Tracked
  <1>2. ASSUME NEW id \in GrantIDs, NEW g \in Grant, Recorded(id, g)
        PROVE  ProofsUsedOnce'
    <2>1. Tracked' = Tracked \cup {id}
      BY <1>2 DEF Recorded, Tracked, TypeOK
    <2>2. \A i \in GrantIDs : grants'[i] = IF i = id THEN g ELSE grants[i]
      BY <1>2 DEF Recorded, TypeOK
    <2>3. g.proofID \notin proofs /\ proofs' = proofs \cup {g.proofID} /\ id \notin Tracked
      BY <1>2 DEF Recorded, Tracked
    <2>4. Tracked \subseteq GrantIDs
      BY DEF Tracked
    <2> QED
      BY <2>1, <2>2, <2>3, <2>4 DEF ProofsUsedOnce
  <1>3. ASSUME NEW id \in GrantIDs, NEW o \in GrantState \ {"none"}, state[id] = "Active",
               state' = [state EXCEPT ![id] = o], UNCHANGED <<proofs, grants>>
        PROVE  ProofsUsedOnce'
    <2>1. Tracked' = Tracked
      BY <1>3 DEF Tracked, TypeOK
    <2> QED
      BY <1>3, <2>1 DEF ProofsUsedOnce
  <1> QED
    BY <1>1, <1>2, <1>3 DEF Kind, Expires, Finishes, GrantState

LEMMA WindowsKept ==
    ASSUME TypeOK, GrantsOK, ReceiptsInWindow, Kind, CallTypes'
    PROVE  ReceiptsInWindow'
  <1> DEFINE InWindow(id) ==
                 /\ grants[id].issuedAt <= highWater
                 /\ state[id] \in {"Consumed", "Revoked"} =>
                       /\ grants[id].issuedAt <= terminalAt[id]
                       /\ terminalAt[id] < grants[id].expiresAt
                       /\ terminalAt[id] <= highWater
  <1>0. /\ highWater \in Nat /\ highWater' \in Nat
        /\ \A id \in Tracked : /\ id \in GrantIDs /\ terminalAt[id] \in Nat
                              /\ grants[id].issuedAt \in Nat
                              /\ grants[id].expiresAt \in Nat
    BY ConstantsAssumption DEF TypeOK, CallTypes, Times, GrantsOK, Grant, Tracked
  <1> SUFFICES ASSUME NEW i \in GrantIDs, state'[i] # "none"
               PROVE  InWindow(i)'
    BY DEF ReceiptsInWindow, Tracked
  <1>1. \A id \in Tracked : InWindow(id)
    BY DEF ReceiptsInWindow
  <1>2. CASE Quiet
    BY <1>0, <1>1, <1>2 DEF Quiet, recordVars, Tracked
  <1>3. ASSUME NEW id \in GrantIDs, NEW g \in Grant, Recorded(id, g)
        PROVE  InWindow(i)'
    BY <1>0, <1>1, <1>3 DEF Recorded, Tracked, TypeOK
  <1>4. ASSUME NEW id \in GrantIDs, Expires(id)
        PROVE  InWindow(i)'
    BY <1>0, <1>1, <1>4 DEF Expires, Tracked, TypeOK
  <1>5. ASSUME NEW id \in GrantIDs, NEW o \in {"Consumed", "Revoked"}, Finishes(id, o)
        PROVE  InWindow(i)'
    BY <1>0, <1>1, <1>5 DEF Finishes, validReceipt, Tracked, TypeOK
  <1> QED
    BY <1>2, <1>3, <1>4, <1>5 DEF Kind

LEMMA BoundKept ==
    ASSUME TypeOK, LedgerBounded, Kind
    PROVE  LedgerBounded'
  <1>0. IsFiniteSet(Tracked)
    BY ConstantsAssumption, FS_Subset DEF Tracked
  <1>1. CASE \E id \in GrantIDs, g \in Grant : Recorded(id, g)
    <2>1. PICK id \in GrantIDs : Tracked' = Tracked \cup {id} /\ id \notin Tracked /\ room
      BY <1>1 DEF Recorded, Tracked, TypeOK
    <2>2. Cardinality(Tracked') = Cardinality(Tracked) + 1
      BY <1>0, <2>1, FS_AddElement
    <2> QED
      BY <1>0, <2>1, <2>2, FS_CardinalityType, ConstantsAssumption DEF LedgerBounded, room
  <1>2. CASE ~\E id \in GrantIDs, g \in Grant : Recorded(id, g)
    <2>1. Tracked' = Tracked
      BY <1>2 DEF Kind, Quiet, recordVars, Expires, Finishes, Tracked, TypeOK
    <2> QED
      BY <2>1 DEF LedgerBounded
  <1> QED
    BY <1>1, <1>2

-----------------------------------------------------------------------------
LEMMA Initial == Init => IInv
  <1> SUFFICES ASSUME Init PROVE IInv
    OBVIOUS
  <1>1. Tracked = {}
    BY DEF Init, Tracked
  <1>2. TypeOK
    BY ConstantsAssumption DEF Init, TypeOK, GrantState, Times
  <1>3. CallsOK
    BY DEF Init, CallsOK
  <1>4. LedgerBounded
    BY <1>1, FS_EmptySet, ConstantsAssumption DEF LedgerBounded
  <1>5. OneReceiptPerGrant
    BY DEF Init, OneReceiptPerGrant
  <1> QED
    BY <1>1, <1>2, <1>3, <1>4, <1>5 DEF IInv, GrantsOK, ProofsUsedOnce, ReceiptsInWindow

LEMMA Preserved == IInv /\ [Next]_vars => IInv'
  <1> SUFFICES ASSUME IInv, [Next]_vars PROVE IInv'
    OBVIOUS
  <1>1. Kind /\ CallTypes' /\ CallsOK'
    BY StepKind DEF IInv
  <1> QED
    BY <1>1, RecordTypes, ReceiptsKept, ProofsKept, WindowsKept, BoundKept DEF IInv

(* The inductive invariant of the ledger.                                  *)
THEOREM Invariance == Spec => []IInv
  BY Initial, Preserved, PTL DEF Spec

(* Type correctness of the ledger's state, clock and calls (ledger.go).    *)
THEOREM TypeCorrect == Spec => []TypeOK
  <1>1. IInv => TypeOK
    BY DEF IInv
  <1> QED
    BY <1>1, Invariance, PTL

(* However many copies of a grant race, Consume and Revoke together yield  *)
(* one receipt for it.                                                     *)
THEOREM GrantsSpentOnce == Spec => []OneReceiptPerGrant
  <1>1. IInv => OneReceiptPerGrant
    BY DEF IInv
  <1> QED
    BY <1>1, Invariance, PTL

(* Issue never lets two grants rest on one proof.                          *)
THEOREM ProofsNotReplayed == Spec => []ProofsUsedOnce
  <1>1. IInv => ProofsUsedOnce
    BY DEF IInv
  <1> QED
    BY <1>1, Invariance, PTL

(* Receipts lie in the windows of their grants, and no grant is dated past *)
(* the high-water mark (Issue, Consume, Revoke).                           *)
THEOREM ReceiptsLieInWindow == Spec => []ReceiptsInWindow
  <1>1. IInv => ReceiptsInWindow
    BY DEF IInv
  <1> QED
    BY <1>1, Invariance, PTL

(* Active grants and tombstones stay within MaxTrackedElevations.          *)
THEOREM CapacityHolds == Spec => []LedgerBounded
  <1>1. IInv => LedgerBounded
    BY DEF IInv
  <1> QED
    BY <1>1, Invariance, PTL

(* No step of any call lowers the high-water mark, changes a recorded      *)
(* grant, revives a terminal one or dates a new one before a time already  *)
(* accepted.                                                               *)
THEOREM AuthorityShrinks == Spec => AuthorityOnlyShrinks
  <1> DEFINE Keeps(id) ==
                 IF state[id] = "none"
                 THEN state'[id] # "none" => grants'[id].issuedAt = highWater'
                 ELSE /\ grants'[id] = grants[id]
                      /\ state[id] # "Active" =>
                            state'[id] = state[id] /\ terminalAt'[id] = terminalAt[id]
             A == /\ highWater' >= highWater /\ proofs \subseteq proofs'
                  /\ \A id \in GrantIDs : Keeps(id)
  <1>1. IInv /\ [Next]_vars => A
    <2> SUFFICES ASSUME IInv, [Next]_vars PROVE A
      OBVIOUS
    <2>0. Kind /\ highWater \in Nat /\ highWater' \in Nat
      BY StepKind, ConstantsAssumption DEF IInv, TypeOK, CallTypes, Times
    <2>1. highWater' >= highWater /\ proofs \subseteq proofs'
      BY <2>0 DEF Kind, Quiet, recordVars, Recorded, Expires, Finishes
    <2>2. ASSUME NEW i \in GrantIDs PROVE Keeps(i)
      <3>1. CASE Quiet
        BY <3>1 DEF Quiet, recordVars
      <3>2. ASSUME NEW id \in GrantIDs, NEW g \in Grant, Recorded(id, g) PROVE Keeps(i)
        BY <3>2 DEF Recorded, IInv, TypeOK
      <3>3. ASSUME NEW id \in GrantIDs, Expires(id) PROVE Keeps(i)
        BY <3>3 DEF Expires, IInv, TypeOK
      <3>4. ASSUME NEW id \in GrantIDs, NEW o \in {"Consumed", "Revoked"}, Finishes(id, o)
            PROVE  Keeps(i)
        BY <3>4 DEF Finishes, IInv, TypeOK
      <3> QED
        BY <2>0, <3>1, <3>2, <3>3, <3>4 DEF Kind
    <2> QED
      BY <2>1, <2>2
  <1> QED
    BY <1>1, Invariance, PTL DEF Spec, AuthorityOnlyShrinks

(* Every reading a call of Issue took to the lock is behind the high-water *)
(* mark when the call leaves it, whatever the outcome.                     *)
THEOREM ReadingsFenced == Spec => SamplesFenced
  <1> DEFINE A == \A c \in Callers :
                     pc[c] = "sampled" /\ pc'[c] # "sampled" => observed[c] <= highWater'
  <1>1. IInv /\ [Next]_vars => A \/ UNCHANGED vars
    <2> SUFFICES ASSUME IInv, Next, NEW c \in Callers, pc[c] = "sampled", pc'[c] # "sampled"
                 PROVE  observed[c] <= highWater'
      OBVIOUS
    <2>1. PICK d \in Callers : Issue(d)
      BY DEF Next, lookupFails, StateAt, Consume, Revoke, finish, callVars
    <2>2. d = c
      BY <2>1 DEF Issue, VerifyStrongAuthentication, takeSequence, readClock, IssueCanceled,
                  IssueUnavailable, IssueRegressed, IssueRefused, IssueGranted, issueEnds,
                  IInv, TypeOK
    <2>3. issueEnds(c)
      BY <2>1, <2>2 DEF Issue, VerifyStrongAuthentication, takeSequence, readClock,
                  IssueCanceled, IssueUnavailable, IssueRegressed, IssueRefused,
                  IssueGranted
    <2> QED
      BY <2>3, CallEnds DEF IInv
  <1> QED
    BY <1>1, Invariance, PTL DEF Spec, SamplesFenced
=============================================================================
