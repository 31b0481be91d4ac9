-------------------------- MODULE MCAuditTimeline --------------------------
(* One Workspace with an Environment, an Application and a connection, and  *)
(* three Operations: bound to the connection, unbound, and on the Workspace. *)
(* A behaviour is about the chain and its exports, about retention, or about *)
(* elevations and Operations: mode says which.                               *)
EXTENDS AuditTimeline

VARIABLE mode

MCWorkspace == 1

Placed(kind, parent) == [kind |-> kind, workspace |-> 1, parent |-> parent]

MCSnapshot ==
    <<Placed("Workspace", NoID), Placed("Environment", 1),
      Placed("Application", 2), Placed("ProviderConnection", 2)>>

Op(id, resource, environment, connection) ==
    [id |-> id, workspace |-> 1, resource |-> resource, environment |-> environment,
     connection |-> connection, generation |-> 1]

MCOperations == {Op(11, 3, 2, 4), Op(12, 3, NoID, NoID), Op(13, 1, NoID, NoID)}

--------------------------------------------------------------------------

In(m) == mode = m /\ UNCHANGED mode

ChainDraft == In("chain") /\ \E s \in Streams : DraftRequests(s, "Synchronized")

ChainStore == In("chain") /\ \E d \in drafts : Store(d)

ChainExport == In("chain") /\ \E s \in Streams : Export(s)

Aging == WorkspaceStream(Workspace)

\* One draft, of one event or two.
RetentionDraft ==
    In("retention") /\ Len(truth) < 1 /\ \E clock \in {"Synchronized", "Uncertain"} : DraftRequests(Aging, clock)

RetentionStore == In("retention") /\ \E d \in drafts : Store(d)

RetentionRetain == In("retention") /\ Retain(Aging)

RetentionHold == In("retention") /\ Hold

\* One Operation's event, or one grant's life.
Fresh == truth = <<>> /\ ~Present(lost)

ElevationWork == In("elevation") /\ Fresh /\ \E s \in Streams : RecordWork(s)

ElevationIssue == In("elevation") /\ Fresh /\ \E s \in Streams : Issue(s)

ElevationConsume == In("elevation") /\ \E s \in Streams : Consume(s)

ElevationRevoke == In("elevation") /\ \E s \in Streams : Revoke(s)

ElevationExpire == In("elevation") /\ \E s \in Streams : Expire(s)

ElevationStore == In("elevation") /\ \E d \in drafts : Store(d)

AnyTick == mode # "chain" /\ Tick /\ UNCHANGED mode

MCInit == Init /\ mode \in {"chain", "retention", "elevation"}

MCNext ==
    \/ ChainDraft \/ ChainStore \/ ChainExport
    \/ RetentionDraft \/ RetentionStore \/ RetentionRetain \/ RetentionHold
    \/ ElevationWork \/ ElevationIssue \/ ElevationConsume \/ ElevationRevoke \/ ElevationExpire
    \/ ElevationStore \/ AnyTick

MCSpec == MCInit /\ [][MCNext]_<<vars, mode>>

=============================================================================
