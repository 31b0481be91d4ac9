-------------------------- MODULE OperationLifecycle --------------------------
(***************************************************************************)
(* One Operation (package operation), a request to cancel it, its forward  *)
(* effect and the separate effect of asking the provider to cancel that    *)
(* (admission.go, attempt.go, lease.go and model.go of package             *)
(* reconciliation).                                                        *)
(*                                                                         *)
(* A commit of the store is one step: it reads the Operation, the request  *)
(* and the attempts, and writes against what it read.  The authority to    *)
(* dispatch is checked against the Operation when it is minted and used    *)
(* later, and a call goes on when its worker is gone.                      *)
(***************************************************************************)
EXTENDS Naturals

CONSTANTS MaxAttempts,   \* bound on the attempts of both effects together
          MaxUpdates     \* bound on the commits that change the Operation

Purposes == {"Forward", "ProviderCancel"}   \* each named by its purpose
Phases == {"Pending", "Waiting", "Running", "Succeeded", "Failed", "Canceled"}

VARIABLES
    operation,    \* [phase, reason]
    updates,      \* commits that changed it; its resource version
    requested,    \* whether cancellation has been requested
    disposed,     \* [cleanup, quarantine]: what is durable of them
    state,        \* the durable projection of each effect
    worker,       \* what the owner of its last attempt is doing
    orphans,      \* calls still running whose owner is gone
    doubtful,     \* whether an attempt ended Indeterminate, which it then stays
    attempts,     \* attempts so far
    ended         \* history: the terminal phases the Operation has had

operationVars == <<operation, updates, ended>>
effectVars == <<state, worker, orphans, doubtful, attempts>>
vars == <<operationVars, requested, disposed, effectVars>>

terminal(phase) == phase \in {"Succeeded", "Failed", "Canceled"}

Init ==
    /\ operation = [phase |-> "Pending", reason |-> ""]
    /\ updates = 0
    /\ requested = FALSE
    /\ disposed = [cleanup |-> FALSE, quarantine |-> FALSE]
    /\ state = [e \in Purposes |-> "none"]
    /\ worker = [e \in Purposes |-> "none"]
    /\ orphans = [e \in Purposes |-> 0]
    /\ doubtful = FALSE
    /\ attempts = 0
    /\ ended = {}
-----------------------------------------------------------------------------
(* The Operation *)

allowedTransition(before, after) ==
    CASE before = "Pending" -> after # "Pending"
      [] before = "Waiting" -> after # "Waiting"
      [] before = "Running" -> after \notin {"Running", "Pending"}
      [] OTHER -> FALSE

CheckTransition(before, after) ==
    /\ ~terminal(before.phase)
    /\ before.phase # after.phase => allowedTransition(before.phase, after.phase)

\* An exact replay changes nothing.
Transition(phase, reason) ==
    LET after == [phase |-> phase, reason |-> reason]
    IN  /\ after # operation
        /\ CheckTransition(operation, after)
        /\ updates < MaxUpdates
        /\ operation' = after
        /\ updates' = updates + 1
        /\ ended' = IF terminal(phase) THEN ended \cup {phase} ELSE ended

Unresolved(e) == state[e] \in {"Prepared", "Dispatched"}

\* Mutated: a prepared attempt counts as one that has not begun.
CancelPending_preparedIgnored ==
    \/ ~disposed.cleanup
    \/ \E e \in Purposes : state[e] = "Dispatched"
    \/ doubtful /\ ~disposed.quarantine
\* An attempt without a result, or an outcome in doubt and not quarantined.
CancelPending ==
    \/ ~disposed.cleanup
    \/ \E e \in Purposes : Unresolved(e)
    \/ doubtful /\ ~disposed.quarantine

CancellationPublicState(ownerActive) ==
    CASE terminal(operation.phase) -> [phase |-> operation.phase, reason |-> ""]
      [] ~terminal(operation.phase) /\ CancelPending ->
            [phase |-> IF ownerActive THEN "Running" ELSE "Waiting", reason |-> "CancelPending"]
      [] OTHER -> [phase |-> "Canceled", reason |-> ""]

\* A worker reports progress; an unknown outcome keeps the Operation waiting.
Report(phase) ==
    /\ phase # "Canceled"
    /\ \/ Transition(phase, "")
       \/ phase = "Waiting" /\ Transition("Waiting", "ProviderOutcomeIndeterminate")
    /\ UNCHANGED <<requested, disposed, effectVars>>

RequestCancellation ==
    /\ ~requested
    /\ requested' = TRUE
    /\ UNCHANGED <<operationVars, disposed, effectVars>>

Cancel(ownerActive) ==
    /\ requested
    /\ LET public == CancellationPublicState(ownerActive)
       IN  Transition(public.phase, public.reason)
    /\ UNCHANGED <<requested, disposed, effectVars>>

\* Cleanup, or the quarantine of an unknown outcome, has become durable.
Dispose(what) ==
    /\ ~disposed[what]
    /\ disposed' = [disposed EXCEPT ![what] = TRUE]
    /\ UNCHANGED <<operationVars, requested, effectVars>>
-----------------------------------------------------------------------------
(* The attempts *)

canPrepareAfterCancellation(e) == e = "ProviderCancel"

\* A cancellation targets the forward effect while its outcome is open.
Targets(e) ==
    e = "ProviderCancel" => requested /\ state["Forward"] \in {"Dispatched", "Indeterminate"}

\* First, after NoEffect, or in doubt with the proof an adapter may have.
Prepare(e) ==
    /\ attempts < MaxAttempts
    /\ requested => canPrepareAfterCancellation(e)
    /\ Targets(e)
    /\ state[e] \in {"none", "NoEffect", "Indeterminate"}
    /\ attempts' = attempts + 1
    /\ state' = [state EXCEPT ![e] = "Prepared"]
    /\ worker' = [worker EXCEPT ![e] = "prepared"]
    /\ UNCHANGED <<operationVars, requested, disposed, orphans, doubtful>>

operationPhaseAllowsPurpose(e) ==
    CASE e = "Forward" -> operation.phase = "Running"
      [] OTHER -> operation.phase \in {"Running", "Waiting"}

\* NewDispatchAuthority and AuthorizeDispatch, at one instant.
AuthorizeDispatch(e) ==
    /\ worker[e] = "prepared"
    /\ operationPhaseAllowsPurpose(e)
    /\ worker' = [worker EXCEPT ![e] = "authorized"]
    /\ UNCHANGED <<operationVars, requested, disposed, state, orphans, doubtful, attempts>>

\* The permit is used; the Operation is not looked at again.  The durable
\* record follows.
MarkAttemptDispatched(e) ==
    /\ worker[e] = "authorized"
    /\ worker' = [worker EXCEPT ![e] = "calling"]
    /\ UNCHANGED <<operationVars, requested, disposed, state, orphans, doubtful, attempts>>

CommitDispatched(e) ==
    /\ worker[e] = "calling" /\ state[e] = "Prepared"
    /\ state' = [state EXCEPT ![e] = "Dispatched"]
    /\ UNCHANGED <<operationVars, requested, disposed, worker, orphans, doubtful, attempts>>

Leave(e) ==
    /\ worker' = [worker EXCEPT ![e] = "none"]
    /\ orphans' = IF worker[e] = "calling" THEN [orphans EXCEPT ![e] = @ + 1] ELSE orphans

\* The call is answered, or its outcome stays unknown and it may go on.
ResolveAttempt(e, outcome) ==
    /\ worker[e] = "calling" /\ state[e] = "Dispatched"
    /\ state' = [state EXCEPT ![e] = outcome]
    /\ doubtful' = (doubtful \/ outcome = "Indeterminate")
    /\ IF outcome = "Indeterminate" THEN Leave(e)
       ELSE worker' = [worker EXCEPT ![e] = "none"] /\ UNCHANGED orphans
    /\ UNCHANGED <<operationVars, requested, disposed, attempts>>

\* RecoverAttempt: the owner itself, which knows that dispatch never began, or
\* whoever finds the attempt unresolved after its owner is lost.
RecoverAttempt(e) ==
    /\ \/ /\ worker[e] \in {"prepared", "authorized"}
          /\ state' = [state EXCEPT ![e] = "NoEffect"]
          /\ UNCHANGED doubtful
       \/ /\ Unresolved(e)
          /\ state' = [state EXCEPT ![e] = "Indeterminate"]
          /\ doubtful' = TRUE
    /\ Leave(e)
    /\ UNCHANGED <<operationVars, requested, disposed, attempts>>

\* An observation, itself an attempt and one step here, settles the projection
\* once no call is running.
Observe(e, outcome) ==
    /\ state[e] = "Indeterminate" /\ orphans[e] = 0
    /\ state' = [state EXCEPT ![e] = outcome]
    /\ UNCHANGED <<operationVars, requested, disposed, worker, orphans, doubtful, attempts>>

OrphanEnds(e) ==
    /\ orphans[e] > 0
    /\ orphans' = [orphans EXCEPT ![e] = @ - 1]
    /\ UNCHANGED <<operationVars, requested, disposed, state, worker, doubtful, attempts>>

Next ==
    \/ \E phase \in Phases : Report(phase)
    \/ RequestCancellation
    \/ \E ownerActive \in BOOLEAN : Cancel(ownerActive)
    \/ \E what \in {"cleanup", "quarantine"} : Dispose(what)
    \/ \E e \in Purposes :
          \/ Prepare(e)
          \/ AuthorizeDispatch(e)
          \/ MarkAttemptDispatched(e)
          \/ CommitDispatched(e)
          \/ \E outcome \in {"Applied", "NoEffect", "Indeterminate"} : ResolveAttempt(e, outcome)
          \/ RecoverAttempt(e)
          \/ \E outcome \in {"Applied", "NoEffect"} : Observe(e, outcome)
          \/ OrphanEnds(e)

Spec == Init /\ [][Next]_vars
-----------------------------------------------------------------------------
\* A canceled Operation is at rest, although permits are used without another
\* look at it: no worker calls the provider for it or holds the means to, a call
\* still running is one whose unknown outcome is quarantined, and like every
\* terminal phase it is never left (CancellationPublicState, NewDispatchAuthority,
\* CheckTransition).
CanceledIsAtRest ==
    /\ operation.phase = "Canceled" =>
          \A e \in Purposes :
              /\ worker[e] \notin {"authorized", "calling"}
              /\ orphans[e] > 0 => disposed.quarantine
    /\ ended \subseteq {operation.phase}
=============================================================================
