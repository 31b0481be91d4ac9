--------------------------- MODULE AuditTimeline ---------------------------
(* The tamper-evident history of a stream (internal/core/domain/audit:       *)
(* chain, export, retention) under producers that race, crash before their   *)
(* record is stored, or leave a record behind that lost the race.  The       *)
(* package computes and checks; storing is the caller's: a store that takes  *)
(* a record only when it continues its head, and remembers its heads.        *)
(*                                                                           *)
(* A digest is the sequence of what was hashed into it, which is what an     *)
(* equality of digests stands for; a signature is the descriptor it signs.   *)
EXTENDS AuditEvent, SequencesExt

CONSTANTS
    OnlineRetention, ArchiveRetention,
    MaxTime,        \* bound on true time
    MaxDrafts,      \* bound on the records ever computed
    MaxExports,     \* bound on the exports ever signed
    Snapshot,       \* the resources of the Workspace: identity -> record
    Workspace,      \* its identity
    Operations      \* the Operations of the Workspace

VARIABLES
    now,            \* true time
    elevated,       \* the one elevation grant and its state
    drafts,         \* every record computed by Append, stored or not
    truth,          \* when each event was really recorded
    lost,           \* the last event about an Operation or a grant that was refused
    log,            \* per stream, the records stored, oldest first
    deleted,        \* per stream, how many of them are deleted
    held,           \* whether a hold is active
    evaluated,      \* the time of the last retention decision
    exports         \* the signed exports: [descriptor, body]

vars == <<now, elevated, drafts, truth, lost, log, deleted, held, evaluated, exports>>

Streams == {WorkspaceStream(Workspace), PlatformStream}

--------------------------------------------------------------------------
(* Checkpoints and records. *)

deriveGenesisDigest(stream) == <<stream>>

deriveRecordDigest(previous, event) == Append(previous, event)

GenesisCheckpoint(stream) ==
    [stream |-> stream, sequence |-> 0, digest |-> deriveGenesisDigest(stream)]

ValidateCheckpoint(c) ==
    /\ ValidateStream(c.stream)
    /\ (c.sequence = 0) = (c.digest = deriveGenesisDigest(c.stream))

\* Append: one record, for the next event of the same stream.
Appendable(previous, event) ==
    /\ ValidateCheckpoint(previous)
    /\ validateEventFields(event)
    /\ event.sequence = previous.sequence + 1
    /\ event.stream = previous.stream

NewRecord(previous, event) ==
    [event |-> event, previousDigest |-> previous.digest,
     digest |-> deriveRecordDigest(previous.digest, event)]

\* NewSegment: every event is checked before the first is appended, and the
\* segment is the one that appending them in turn would give.
preflightEvents(previous, events) ==
    \A i \in 1 .. Len(events) :
        /\ validateEventFields(events[i])
        /\ events[i].sequence = previous.sequence + i
        /\ events[i].stream = previous.stream

NewSegment(previous, events) ==
    [i \in 1 .. Len(events) |->
        LET digest(n) == FoldLeft(deriveRecordDigest, previous.digest, SubSeq(events, 1, n))
        IN  [event |-> events[i], previousDigest |-> digest(i - 1), digest |-> digest(i)]]

CheckpointOf(record) ==
    [stream |-> record.event.stream, sequence |-> record.event.sequence,
     digest |-> record.digest]

validateRecord(r) ==
    /\ validateEventFields(r.event)
    /\ r.digest = deriveRecordDigest(r.previousDigest, r.event)

validateSegmentStructure(segment) ==
    \A i \in 1 .. Len(segment) :
        /\ validateRecord(segment[i])
        /\ IF i = 1
           THEN ValidateCheckpoint([stream |-> segment[i].event.stream,
                                    sequence |-> segment[i].event.sequence - 1,
                                    digest |-> segment[i].previousDigest])
           ELSE /\ segment[i].event.sequence = segment[i-1].event.sequence + 1
                /\ segment[i].event.stream = segment[i-1].event.stream
                /\ segment[i].previousDigest = segment[i-1].digest

\* Decoding accepts only what encoding a well-formed segment would give.
UnmarshalCanonicalSegment(body) == body # <<>> /\ validateSegmentStructure(body)

\* The checkpoint a segment ends at, given the one it starts from.
HeadOf(previous, segment) ==
    IF segment = <<>> THEN previous ELSE CheckpointOf(Last(segment))

Chained(previous, segment) ==
    /\ ValidateCheckpoint(previous)
    /\ validateSegmentStructure(segment)
    /\ \A i \in 1 .. Len(segment) :
         LET head == HeadOf(previous, SubSeq(segment, 1, i - 1)) IN
         /\ segment[i].event.sequence = head.sequence + 1
         /\ segment[i].event.stream = head.stream
         /\ segment[i].previousDigest = head.digest
         /\ segment[i].digest = deriveRecordDigest(head.digest, segment[i].event)

\* With a trusted head to end at.  Without one, Chained is all there is.
VerifySegment(previous, segment, expected) ==
    /\ Chained(previous, segment)
    /\ ValidateCheckpoint(expected)
    /\ HeadOf(previous, segment) = expected

--------------------------------------------------------------------------
(* Exports. *)

Describable(previous, segment) == segment # <<>> /\ Chained(previous, segment)

DescribeExport(previous, segment) ==
    [stream |-> previous.stream, first |-> segment[1].event.sequence,
     last |-> Last(segment).event.sequence, count |-> Len(segment),
     previousDigest |-> previous.digest, terminalDigest |-> Last(segment).digest,
     body |-> segment]

PreviousCheckpoint(d) ==
    [stream |-> d.stream, sequence |-> d.first - 1, digest |-> d.previousDigest]

TerminalCheckpoint(d) ==
    [stream |-> d.stream, sequence |-> d.last, digest |-> d.terminalDigest]

ValidateExportDescriptor(d) ==
    /\ d.first >= 1 /\ d.last >= d.first
    /\ d.count = d.last - d.first + 1
    /\ ValidateCheckpoint(PreviousCheckpoint(d))
    /\ ValidateCheckpoint(TerminalCheckpoint(d))

VerifyExport_signedOnly(d, signature, body, expected) ==
    /\ ValidateExportDescriptor(d)
    /\ ValidateCheckpoint(expected)
    /\ body = d.body
    /\ Chained(PreviousCheckpoint(d), body)
    /\ signature = d

\* The body is compared by digest, decoded, walked, and then the signature
\* over the descriptor is verified.
VerifyExport(d, signature, body, expected) ==
    /\ ValidateExportDescriptor(d)
    /\ ValidateCheckpoint(expected)
    /\ TerminalCheckpoint(d) = expected
    /\ body = d.body
    /\ UnmarshalCanonicalSegment(body)
    /\ body[1].event.sequence = d.first /\ Last(body).event.sequence = d.last
    /\ Len(body) = d.count
    /\ VerifySegment(PreviousCheckpoint(d), body, expected)
    /\ signature = d

--------------------------------------------------------------------------
(* Retention. *)

EvaluateRetention_anyClock(input) ==
    IF input.evaluatedAt < input.previousEvaluatedAt \/ input.evaluatedAt < input.recordedAt
    THEN "error"
    ELSE IF input.held THEN "Held"
    ELSE IF input.evaluatedAt < input.recordedAt + OnlineRetention THEN "Online"
    ELSE IF input.evaluatedAt < input.recordedAt + ArchiveRetention THEN "Archive"
    ELSE "Expire"

\* Time that is uncertain, has gone back or lies before the event decides
\* nothing; an active hold wins over age.
EvaluateRetention(input) ==
    CASE input.clock # "Synchronized" -> "error"
      [] input.evaluatedAt < input.previousEvaluatedAt -> "error"
      [] input.evaluatedAt < input.recordedAt -> "error"
      [] OTHER ->
           IF input.held THEN "Held"
           ELSE IF input.evaluatedAt < input.recordedAt + OnlineRetention THEN "Online"
           ELSE IF input.evaluatedAt < input.recordedAt + ArchiveRetention THEN "Archive"
           ELSE "Expire"

--------------------------------------------------------------------------
(* Producers. *)

NoGrant == [id |-> 1, administrator |-> 1, action |-> "audit.export",
            scope |-> ResolvePlatformAuditExportTarget,
            issuedAt |-> 0, expiresAt |-> 0, state |-> "none"]

Init ==
    /\ now = 0 /\ elevated = NoGrant
    /\ drafts = {} /\ truth = <<>> /\ lost = NoRef
    /\ log = [s \in Streams |-> <<>>]
    /\ deleted = [s \in Streams |-> 0]
    /\ held = FALSE /\ evaluated = 0 /\ exports = {}

StoredHead(s) ==
    IF log[s] = <<>> THEN GenesisCheckpoint(s) ELSE CheckpointOf(Last(log[s]))

\* Every checkpoint the store has ever been at.
TrustedCheckpoints(s) ==
    {GenesisCheckpoint(s)} \cup {CheckpointOf(log[s][i]) : i \in 1 .. Len(log[s])}

\* What a clock may show: the true time when it is synchronized.
Readings(clock) == IF clock = "Synchronized" THEN {now} ELSE {now + 1, now + 2}

RequestEvent(s, n, at, clock) ==
    [id |-> Len(truth) + n, stream |-> s, sequence |-> StoredHead(s).sequence + n,
     recordedAt |-> at, clock |-> clock, kind |-> "Request", source |-> "API",
     actor |-> [kind |-> "Anonymous", pseudonym |-> NoID], method |-> "None",
     action |-> "resource.get", request |-> Len(truth) + n, target |-> NoRef,
     decision |-> NoRef, operation |-> NoRef, attempt |-> NoRef, elevation |-> NoRef]

\* One or two requests, appended to the head just read.  The records exist
\* from here on, whether or not the producer lives to store them.
DraftRequests(s, clock) ==
    \E n \in 1 .. 2, at \in Readings(clock) :
        LET events == [i \in 1 .. n |-> RequestEvent(s, i, at, clock)] IN
        /\ Len(truth) + n <= MaxDrafts
        /\ preflightEvents(StoredHead(s), events)
        /\ drafts' = drafts \cup ToSet(NewSegment(StoredHead(s), events))
        /\ truth' = truth \o [i \in 1 .. n |-> now]
        /\ UNCHANGED <<now, elevated, lost, log, deleted, held, evaluated, exports>>

\* A step of the elevation's life, recorded with the Operation it is about
\* and, if withTarget, with the target authorization resolved for it.
ElevationEvent(s, e, withTarget) ==
    LET ops == {op \in Operations : e.scope = ResolveOperationScope(op)}
        op == CHOOSE o \in ops : TRUE
    IN  [RequestEvent(s, 1, e.recordedAt, "Synchronized") EXCEPT
            !.kind = "Elevation", !.source = "Administration",
            !.actor = AdministratorActor(e.administrator), !.method = "StrongOIDC",
            !.action = e.action, !.elevation = e,
            !.operation = IF ops = {} THEN NoRef ELSE op,
            !.target = IF ops # {} /\ withTarget
                       THEN TargetRefFromAuthorization(Snapshot, op) ELSE NoRef]

RecordEvent(s, event) ==
    /\ Len(truth) < MaxDrafts
    /\ IF NewEvent(event) /\ Appendable(StoredHead(s), event)
       THEN /\ drafts' = drafts \cup {NewRecord(StoredHead(s), event)}
            /\ truth' = Append(truth, now)
            /\ UNCHANGED lost
       ELSE /\ lost' = event
            /\ UNCHANGED <<drafts, truth>>
    /\ UNCHANGED <<now, log, deleted, held, evaluated, exports>>

RecordElevation(s, e) ==
    \E withTarget \in BOOLEAN : RecordEvent(s, ElevationEvent(s, e, withTarget))

\* What the control plane and its workers record about an Operation: the
\* decision on it, a transition of it, one attempt at its provider.
WorkEvent(s, op, kind) ==
    [RequestEvent(s, 1, now, "Synchronized") EXCEPT
        !.kind = kind,
        !.source = IF kind = "ProviderAttempt" THEN "ProviderAdapter" ELSE "Controller",
        !.actor = ActorFromPrincipal([kind |-> "Workload", id |-> 1]), !.method = "Internal",
        !.action = "operation.transition", !.operation = op,
        !.target = TargetRefFromAuthorization(Snapshot, op),
        !.decision = IF kind = "Authorization"
                     THEN [effect |-> "Allow", reason |-> "RoleGranted"] ELSE NoRef,
        !.attempt = IF kind = "ProviderAttempt" THEN [id |-> 1, ordinal |-> 1] ELSE NoRef]

RecordWork(s) ==
    \E op \in Operations, kind \in {"Authorization", "Operation", "ProviderAttempt"} :
        /\ ResolvableOperation(Snapshot, op)
        /\ RecordEvent(s, WorkEvent(s, op, kind))
        /\ UNCHANGED elevated

Scopes ==
    {ResolvePlatformAuditExportTarget, ResolveWorkspaceAuditExportTarget(Workspace)}
    \cup {ResolveOperationScope(op) : op \in {o \in Operations : ResolvableOperation(Snapshot, o)}}

\* The ledger issues for 1 .. MaxElevationDuration, and gives a receipt for a
\* grant that is active and has not expired.
Issue(s) ==
    \E scope \in Scopes, d \in 1 .. MaxElevationDuration :
        LET g == [elevated EXCEPT !.scope = scope, !.state = "Active",
                    !.action = IF scope.kind = "Operation" THEN "work.redrive" ELSE "audit.export",
                    !.issuedAt = now, !.expiresAt = now + d] IN
        /\ elevated.state = "none"
        /\ elevated' = g
        /\ RecordElevation(s, ElevationRefFromGrant(g, "Issued"))

Consume(s) ==
    /\ elevated.state = "Active" /\ now < elevated.expiresAt
    /\ elevated' = [elevated EXCEPT !.state = "Consumed"]
    /\ RecordElevation(s, ElevationRefFromConsumption(elevated, now))

Revoke(s) ==
    /\ elevated.state = "Active" /\ now < elevated.expiresAt
    /\ elevated' = [elevated EXCEPT !.state = "Revoked"]
    /\ RecordElevation(s, ElevationRefFromRevocation(elevated, now))

Expire(s) ==
    /\ elevated.state = "Active" /\ now >= elevated.expiresAt
    /\ elevated' = [elevated EXCEPT !.state = "Expired"]
    /\ RecordElevation(s, ElevationRefFromGrant(elevated, "Expired"))

--------------------------------------------------------------------------
(* The caller's store. *)

\* A record is stored only where it continues the stored head.
Store(record) ==
    LET s == record.event.stream IN
    /\ record.event.sequence = StoredHead(s).sequence + 1
    /\ record.previousDigest = StoredHead(s).digest
    /\ log' = [log EXCEPT ![s] = Append(@, record)]
    /\ UNCHANGED <<now, elevated, drafts, truth, lost, deleted, held, evaluated, exports>>

\* What a reader of the store may be handed: records it should hold, left out,
\* repeated, reordered or replaced by one that lost the race, or one of them
\* with the event or the predecessor of another.
Candidates(s) ==
    {<<>>} \cup UNION {[1 .. n -> drafts] : n \in 1 .. 2}
    \cup {[log[s] EXCEPT ![i].event = d.event] : i \in DOMAIN log[s], d \in drafts}
    \cup {[log[s] EXCEPT ![i].previousDigest = d.previousDigest] :
              i \in DOMAIN log[s], d \in drafts}
    \cup {RemoveAt(log[s], i) : i \in DOMAIN log[s]}
    \cup {log[s]}

Export(s) ==
    \E previous \in TrustedCheckpoints(s), body \in Candidates(s) :
        /\ Cardinality(exports) < MaxExports
        /\ Describable(previous, body)
        /\ exports' = exports \cup {DescribeExport(previous, body)}
        /\ UNCHANGED <<now, elevated, drafts, truth, lost, log, deleted, held, evaluated>>

\* One clock quality for the event's time and for the evaluation's.
Combined(recorded, current) ==
    IF recorded = "Synchronized" THEN current ELSE recorded

\* The oldest record kept is deleted once it may be.
Retain(s) ==
    /\ deleted[s] < Len(log[s])
    /\ \E clock \in {"Synchronized", "Uncertain"} : \E at \in Readings(clock) :
         LET event == log[s][deleted[s] + 1].event
             decision == EvaluateRetention(
                 [recordedAt |-> event.recordedAt, evaluatedAt |-> at,
                  previousEvaluatedAt |-> evaluated,
                  clock |-> Combined(event.clock, clock), held |-> held])
         IN  /\ decision # "error"
             /\ evaluated' = at
             /\ deleted' = [deleted EXCEPT ![s] = @ + IF decision = "Expire" THEN 1 ELSE 0]
    /\ UNCHANGED <<now, elevated, drafts, truth, lost, log, held, exports>>

Hold ==
    /\ held' = ~held
    /\ UNCHANGED <<now, elevated, drafts, truth, lost, log, deleted, evaluated, exports>>

Tick ==
    /\ now < MaxTime
    /\ now' = now + 1
    /\ UNCHANGED <<elevated, drafts, truth, lost, log, deleted, held, evaluated, exports>>

Next ==
    \/ \E s \in Streams, clock \in {"Synchronized", "Uncertain"} : DraftRequests(s, clock)
    \/ \E s \in Streams : RecordWork(s)
    \/ \E s \in Streams : Issue(s)
    \/ \E s \in Streams : Consume(s)
    \/ \E s \in Streams : Revoke(s)
    \/ \E s \in Streams : Expire(s)
    \/ \E s \in Streams : Export(s)
    \/ \E s \in Streams : Retain(s)
    \/ \E d \in drafts : Store(d)
    \/ Hold
    \/ Tick

Spec == Init /\ [][Next]_vars

--------------------------------------------------------------------------
(* Properties. *)

(* VerifySegment against two checkpoints of the store accepts exactly the   *)
(* records stored between them: no other arrangement of the records ever    *)
(* computed passes, those of a producer that lost the race included, and no *)
(* tail may be missing.  An export verifies only under its own signature    *)
(* and only as the stored records up to the head it is checked against,     *)
(* even when it was described from records that were never stored           *)
(* (VerifySegment, VerifyExport).                                           *)
VerifiedIsHistory ==
    /\ \A s \in Streams : \A from, to \in TrustedCheckpoints(s) :
         \A segment \in Candidates(s) :
            VerifySegment(from, segment, to)
              <=> from.sequence <= to.sequence
                  /\ segment = SubSeq(log[s], from.sequence + 1, to.sequence)
    /\ \A x, y, z \in exports : \A s \in Streams : \A head \in TrustedCheckpoints(s) :
         VerifyExport(x, y, z.body, head) =>
            /\ x = y
            /\ z.body = SubSeq(log[s], x.first, head.sequence)

(* Retention deletes no record early: whatever clocks stamped the records   *)
(* and whichever evaluation was acted on, a deleted record was truly older  *)
(* than its archive period, and no hold was in force (EvaluateRetention).   *)
DeletionsDue ==
    [][\A s \in Streams : deleted'[s] > deleted[s] =>
          /\ ~held
          /\ now >= truth[log[s][deleted'[s]].event.id] + ArchiveRetention]_vars

(* Every step of a grant's life the ledger can take, and every step of an   *)
(* Operation's, is accepted as an event of its own stream and refused in    *)
(* the other.  The one exception is an elevation recorded with the target   *)
(* of an Operation bound to no Environment: the target may still name one,  *)
(* which an Operation event tolerates and an elevation does not.            *)
LifecyclesRecorded ==
    LET workspaceOf(event) ==
            IF Present(event.elevation) THEN event.elevation.scope.workspace
                                        ELSE event.operation.workspace
        own(event) == IF workspaceOf(event) = NoID THEN PlatformStream
                      ELSE WorkspaceStream(workspaceOf(event))
        overstated(event) ==
            /\ Present(event.elevation) /\ Present(event.target)
            /\ event.target.environment # event.operation.environment
    IN  /\ Present(lost) => lost.stream # own(lost) \/ overstated(lost)
        /\ \A d \in drafts : d.event.kind # "Request" =>
              d.event.stream = own(d.event) /\ ~overstated(d.event)

=============================================================================
