------------------------- MODULE ReconciliationProofs -------------------------
(***************************************************************************)
(* What the reconciliation run checks, proved for every value of its       *)
(* constants.  The work ledgers have their inductive invariant here; the   *)
(* other parts have it in proof modules of their own, and what is shown    *)
(* here is that a behaviour of the composition is a behaviour of each      *)
(* part, so that the theorems about the part carry over.                   *)
(***************************************************************************)
EXTENDS MCReconciliation, Sequences, TLAPS

-----------------------------------------------------------------------------
\* The delivery ledger.

\* What relates the record of one work key to the fences accepted for it and the
\* fences that completed it.
DeliveryOK(r, fences, completed) ==
    /\ r = Delivery!noRecord => fences = <<>> /\ completed = {}
    /\ r # Delivery!noRecord =>
          /\ Len(fences) > 0
          /\ fences[Len(fences)] = r.fence
          /\ completed \subseteq {r.fence}
          /\ r.state = "active" => completed = {}
    /\ \A i, j \in 1..Len(fences) : i < j => fences[i] < fences[j]

DeliveryInv ==
    /\ tokens \in Seq(Delivery!LeaseToken)
    /\ deliveries \in [Works -> Delivery!deliveryRecord \cup {Delivery!noRecord}]
    /\ accepted \in [Works -> Seq(1..MaxFence)]
    /\ completions \in [Works -> SUBSET (1..MaxFence)]
    /\ \A w \in Works : DeliveryOK(deliveries[w], accepted[w], completions[w])

LEMMA AppendNewer ==
    ASSUME NEW T \in SUBSET Nat, NEW s \in Seq(T), NEW f \in T,
           \A i, j \in 1..Len(s) : i < j => s[i] < s[j],
           Len(s) > 0 => s[Len(s)] < f
    PROVE  /\ Append(s, f) \in Seq(T)
           /\ Len(Append(s, f)) = Len(s) + 1
           /\ Append(s, f)[Len(s) + 1] = f
           /\ \A i, j \in 1..Len(Append(s, f)) :
                 i < j => Append(s, f)[i] < Append(s, f)[j]
  <1>1. Len(s) \in Nat
    OBVIOUS
  <1>2. /\ Append(s, f) \in Seq(T)
        /\ Len(Append(s, f)) = Len(s) + 1
        /\ Append(s, f)[Len(s) + 1] = f
        /\ \A i \in 1..Len(s) : Append(s, f)[i] = s[i] /\ s[i] \in T
    OBVIOUS
  <1>3. \A i \in 1..Len(s) : s[i] < f
    <2> SUFFICES ASSUME NEW i \in 1..Len(s) PROVE s[i] < f
      OBVIOUS
    <2>1. s[Len(s)] < f /\ Len(s) \in 1..Len(s)
      BY <1>1
    <2>2. i = Len(s) \/ s[i] < s[Len(s)]
      BY <1>1, <2>1
    <2>3. s[i] \in Nat /\ s[Len(s)] \in Nat /\ f \in Nat
      BY <1>2, <2>1
    <2> QED BY <2>1, <2>2, <2>3
  <1>4. ASSUME NEW i \in 1..Len(Append(s, f)), NEW j \in 1..Len(Append(s, f)), i < j
        PROVE  Append(s, f)[i] < Append(s, f)[j]
    <2>1. i \in 1..Len(s)
      BY <1>1, <1>2, <1>4
    <2>2. CASE j = Len(s) + 1
      BY <1>2, <1>3, <2>1, <2>2
    <2>3. CASE j \in 1..Len(s)
      BY <1>2, <1>4, <2>1, <2>3
    <2> QED BY <1>1, <1>2, <2>2, <2>3
  <1> QED BY <1>2, <1>4

LEMMA GrantStep ==
    ASSUME DeliveryInv, NEW b \in Bindings, NEW o \in Owners, Delivery!Grant(b, o)
    PROVE  DeliveryInv'
  <1>1. tokens' \in Seq(Delivery!LeaseToken)
    BY ConstantsAssumption DEF DeliveryInv, Delivery!Grant, Delivery!LeaseToken
  <1> QED BY <1>1 DEF DeliveryInv, Delivery!Grant

LEMMA BeginStep ==
    ASSUME DeliveryInv, NEW w \in Works, NEW t \in Delivery!LeaseToken,
           Delivery!Begin(w, t)
    PROVE  DeliveryInv'
  <1> DEFINE r == [binding |-> t.binding, ownerID |-> t.ownerID,
                   fence |-> t.fence, state |-> "active"]
             fences == Append(accepted[w], t.fence)
  <1>1. /\ deliveries' = [deliveries EXCEPT ![w] = r]
        /\ accepted' = [accepted EXCEPT ![w] = fences]
        /\ tokens' = tokens /\ completions' = completions
    BY DEF Delivery!Begin, Delivery!Accept
  <1>2. /\ r \in Delivery!deliveryRecord /\ r # Delivery!noRecord
        /\ r.fence = t.fence /\ r.state = "active" /\ t.fence \in 1..MaxFence
    BY DEF Delivery!LeaseToken, Delivery!deliveryRecord, Delivery!noRecord
  <1>3. /\ DeliveryOK(deliveries[w], accepted[w], completions[w])
        /\ accepted[w] \in Seq(1..MaxFence)
        /\ deliveries[w] \in Delivery!deliveryRecord \cup {Delivery!noRecord}
    BY DEF DeliveryInv
  <1>4. completions[w] = {} /\ (Len(accepted[w]) > 0 => accepted[w][Len(accepted[w])] < t.fence)
    <2>1. CASE deliveries[w] = Delivery!noRecord
      BY <1>3, <2>1 DEF DeliveryOK
    <2>2. CASE deliveries[w] # Delivery!noRecord
      <3>1. deliveries[w].state = "active" /\ deliveries[w].fence < t.fence
        <4>1. deliveries[w] \in Delivery!deliveryRecord
          BY <1>3, <2>2
        <4>2. deliveries[w].fence \in 1..MaxFence
          BY <4>1 DEF Delivery!deliveryRecord
        <4> QED BY <1>2, <2>2, <4>2, ConstantsAssumption
                DEF Delivery!Begin, Delivery!Exists, Delivery!Reclaims
      <3> QED BY <1>3, <2>2, <3>1 DEF DeliveryOK
    <2> QED BY <2>1, <2>2
  <1>5. /\ \A i, j \in 1..Len(accepted[w]) : i < j => accepted[w][i] < accepted[w][j]
        /\ Len(accepted[w]) \in Nat
    BY <1>3 DEF DeliveryOK
  <1>6. /\ fences \in Seq(1..MaxFence)
        /\ Len(fences) = Len(accepted[w]) + 1
        /\ fences[Len(accepted[w]) + 1] = t.fence
        /\ \A i, j \in 1..Len(fences) : i < j => fences[i] < fences[j]
    <2>1. 1..MaxFence \in SUBSET Nat
      BY ConstantsAssumption
    <2> QED BY <1>2, <1>3, <1>4, <1>5, <2>1, AppendNewer
  <1> HIDE DEF r, fences
  <1>7. DeliveryOK(r, fences, completions[w])
    BY <1>2, <1>4, <1>5, <1>6 DEF DeliveryOK
  <1> QED BY <1>1, <1>2, <1>6, <1>7 DEF DeliveryInv

LEMMA CompleteStep ==
    ASSUME DeliveryInv, NEW w \in Works, NEW t \in Delivery!LeaseToken,
           Delivery!Complete(w, t)
    PROVE  DeliveryInv'
  <1>1. PICK m : m = deliveries[w]
    OBVIOUS
  <1>2. PICK r : r = [m EXCEPT !.state = "completed"]
    OBVIOUS
  <1>3. /\ m \in Delivery!deliveryRecord /\ m # Delivery!noRecord
        /\ m.fence = t.fence /\ DeliveryOK(m, accepted[w], completions[w])
    BY <1>1 DEF DeliveryInv, Delivery!Complete, Delivery!Exists, Delivery!Owns
  <1>4. /\ r \in Delivery!deliveryRecord /\ r # Delivery!noRecord
        /\ r.fence = m.fence /\ r.state = "completed" /\ t.fence \in 1..MaxFence
    BY <1>2, <1>3 DEF Delivery!deliveryRecord, Delivery!noRecord, Delivery!LeaseToken
  <1>5. /\ deliveries' = [deliveries EXCEPT ![w] = r]
        /\ completions' = [completions EXCEPT ![w] = @ \cup {t.fence}]
        /\ tokens' = tokens /\ accepted' = accepted
    BY <1>1, <1>2 DEF Delivery!Complete
  <1>6. DeliveryOK(r, accepted[w], completions[w] \cup {t.fence})
    BY <1>3, <1>4 DEF DeliveryOK
  <1> QED BY <1>4, <1>5, <1>6 DEF DeliveryInv
\* Deliveries of any age are accepted in the order of their fences, and only the
\* one accepted last completes the work (Begin, Complete).
LEMMA DeliveriesAccounted ==
    Delivery!Spec => [](Delivery!AcceptedOncePerGrant /\ Delivery!CompletedByNewestGrant)
  <1>1. Delivery!Init => DeliveryInv
    BY DEF Delivery!Init, DeliveryInv, DeliveryOK
  <1>2. ASSUME DeliveryInv, [Delivery!Next]_(Delivery!vars) PROVE DeliveryInv'
    <2>1. CASE UNCHANGED Delivery!vars
      BY <1>2, <2>1 DEF Delivery!vars, DeliveryInv
    <2>2. ASSUME NEW w \in Works, NEW i \in DOMAIN tokens,
                 Delivery!Begin(w, tokens[i]) \/ Delivery!Complete(w, tokens[i])
          PROVE  DeliveryInv'
      <3>1. tokens[i] \in Delivery!LeaseToken
        BY <1>2, <2>2 DEF DeliveryInv
      <3> QED BY <1>2, <2>2, <3>1, BeginStep, CompleteStep
    <2> QED BY <1>2, <2>1, <2>2, GrantStep DEF Delivery!Next
  <1>3. ASSUME DeliveryInv
        PROVE  Delivery!AcceptedOncePerGrant /\ Delivery!CompletedByNewestGrant
    <2> SUFFICES ASSUME NEW w \in Works
                 PROVE  /\ \A i, j \in DOMAIN accepted[w] :
                              i < j => accepted[w][i] < accepted[w][j]
                        /\ \A f \in completions[w] : f = accepted[w][Len(accepted[w])]
      BY DEF Delivery!AcceptedOncePerGrant, Delivery!CompletedByNewestGrant
    <2>1. /\ DeliveryOK(deliveries[w], accepted[w], completions[w])
          /\ DOMAIN accepted[w] = 1..Len(accepted[w])
      BY <1>3 DEF DeliveryInv
    <2> QED BY <2>1 DEF DeliveryOK
  <1> QED BY <1>1, <1>2, <1>3, PTL DEF Delivery!Spec
-----------------------------------------------------------------------------
\* The cancellation of an Operation.

Terminals == {"Succeeded", "Failed", "Canceled"}

LifecycleTyped ==
    /\ operation \in [phase : Lifecycle!Phases,
                      reason : {"", "CancelPending", "ProviderOutcomeIndeterminate"}]
    /\ disposed \in [cleanup : BOOLEAN, quarantine : BOOLEAN]
    /\ state \in [Lifecycle!Purposes -> {"none", "Prepared", "Dispatched", "Applied",
                                         "NoEffect", "Indeterminate"}]
    /\ caller \in [Lifecycle!Purposes -> {"none", "prepared", "authorized", "calling"}]
    /\ running \in [Lifecycle!Purposes -> Nat]
    /\ doubtful \in BOOLEAN
    /\ ended \subseteq Terminals

\* Whoever holds an attempt holds one that has no durable result, and a call that
\* goes on without its owner has left a doubt behind.
AttemptsOwned ==
    \A e \in Lifecycle!Purposes :
        /\ caller[e] \in {"prepared", "authorized"} => state[e] = "Prepared"
        /\ caller[e] = "calling" => state[e] \in {"Prepared", "Dispatched"}
        /\ running[e] > 0 => doubtful

LifecycleInv == LifecycleTyped /\ AttemptsOwned /\ Lifecycle!CanceledIsAtRest

\* A new Operation has none of this behind it.
LEMMA LifecycleInit == Lifecycle!Init => LifecycleInv
  <1> SUFFICES ASSUME Lifecycle!Init PROVE LifecycleInv
    OBVIOUS
  <1>1. LifecycleTyped
    BY DEF Lifecycle!Init, LifecycleTyped, Lifecycle!Phases, Terminals
  <1>2. \A e \in Lifecycle!Purposes : caller[e] = "none" /\ running[e] = 0
    BY DEF Lifecycle!Init
  <1>3. operation.phase = "Pending" /\ ended = {}
    BY DEF Lifecycle!Init
  <1> QED BY <1>1, <1>2, <1>3 DEF LifecycleInv, AttemptsOwned, Lifecycle!CanceledIsAtRest

\* A commit of the Operation leaves no terminal phase.
LEMMA TransitionStep ==
    ASSUME LifecycleInv, NEW phase \in Lifecycle!Phases,
           NEW reason \in {"", "CancelPending", "ProviderOutcomeIndeterminate"},
           Lifecycle!Transition(phase, reason)
    PROVE  /\ operation' \in [phase : Lifecycle!Phases,
                              reason : {"", "CancelPending", "ProviderOutcomeIndeterminate"}]
           /\ operation'.phase = phase
           /\ ended' \subseteq Terminals
           /\ ended' \subseteq {operation'.phase}
           /\ operation.phase # "Canceled"
  <1>1. operation' = [phase |-> phase, reason |-> reason]
          /\ operation.phase \notin Terminals
    BY DEF Lifecycle!Transition, Lifecycle!CheckTransition, Lifecycle!terminal, Terminals
  <1>2. ended = {}
    <2>1. ended \subseteq {operation.phase} /\ ended \subseteq Terminals
      BY DEF LifecycleInv, Lifecycle!CanceledIsAtRest, LifecycleTyped
    <2> QED BY <1>1, <2>1
  <1>3. ended' = IF phase \in Terminals THEN {phase} ELSE {}
    BY <1>2 DEF Lifecycle!Transition, Lifecycle!terminal, Terminals
  <1> QED BY <1>1, <1>3 DEF Terminals

\* When cancellation is no longer pending, nobody holds an attempt.
LEMMA NotPending ==
    ASSUME LifecycleInv, ~Lifecycle!CancelPending, NEW e \in Lifecycle!Purposes
    PROVE  caller[e] = "none" /\ (running[e] > 0 => disposed.quarantine)
  BY DEF LifecycleInv, LifecycleTyped, AttemptsOwned, Lifecycle!CancelPending,
         Lifecycle!Unresolved

\* Commits of the Operation keep the invariant.
LEMMA OperationStep ==
    ASSUME LifecycleInv,
           \/ \E phase \in Lifecycle!Phases : Lifecycle!Report(phase)
           \/ \E ownerActive \in BOOLEAN : Lifecycle!Cancel(ownerActive)
    PROVE  LifecycleInv'
  <1>1. ASSUME NEW phase \in Lifecycle!Phases, Lifecycle!Report(phase) PROVE LifecycleInv'
    <2>1. PICK reason \in {"", "ProviderOutcomeIndeterminate"} :
             Lifecycle!Transition(phase, reason)
      BY <1>1 DEF Lifecycle!Report
    <2>2. phase # "Canceled" /\ UNCHANGED <<requested, disposed, Lifecycle!effectVars>>
      BY <1>1 DEF Lifecycle!Report
    <2>3. /\ operation' \in [phase : Lifecycle!Phases,
                             reason : {"", "CancelPending", "ProviderOutcomeIndeterminate"}]
          /\ operation'.phase = phase
          /\ ended' \subseteq Terminals
          /\ ended' \subseteq {operation'.phase}
      BY <2>1, TransitionStep
    <2> QED BY <2>2, <2>3 DEF LifecycleInv, LifecycleTyped, AttemptsOwned,
                              Lifecycle!CanceledIsAtRest, Lifecycle!effectVars
  <1>2. ASSUME NEW ownerActive \in BOOLEAN, Lifecycle!Cancel(ownerActive) PROVE LifecycleInv'
    <2> DEFINE public == Lifecycle!CancellationPublicState(ownerActive)
    <2>1. /\ Lifecycle!Transition(public.phase, public.reason)
          /\ UNCHANGED <<requested, disposed, Lifecycle!effectVars>>
      BY <1>2 DEF Lifecycle!Cancel
    <2>2. ~Lifecycle!terminal(operation.phase)
      BY <2>1 DEF Lifecycle!Transition, Lifecycle!CheckTransition
    <2>3. /\ public.phase \in {"Running", "Waiting", "Canceled"}
          /\ public.reason \in {"", "CancelPending"}
          /\ public.phase = "Canceled" => ~Lifecycle!CancelPending
      <3>1. CASE Lifecycle!CancelPending
        BY <2>2, <3>1 DEF Lifecycle!CancellationPublicState
      <3>2. CASE ~Lifecycle!CancelPending
        BY <2>2, <3>2 DEF Lifecycle!CancellationPublicState
      <3> QED BY <3>1, <3>2
    <2> HIDE DEF public
    <2>4. public.phase \in Lifecycle!Phases
      BY <2>3 DEF Lifecycle!Phases
    <2>5. /\ operation' \in [phase : Lifecycle!Phases,
                             reason : {"", "CancelPending", "ProviderOutcomeIndeterminate"}]
          /\ operation'.phase = public.phase
          /\ ended' \subseteq Terminals
          /\ ended' \subseteq {operation'.phase}
      BY <2>1, <2>3, <2>4, TransitionStep
    <2>6. operation'.phase = "Canceled" =>
             \A e \in Lifecycle!Purposes :
                 caller[e] = "none" /\ (running[e] > 0 => disposed.quarantine)
      BY <2>3, <2>5, NotPending
    <2> QED BY <2>1, <2>5, <2>6 DEF LifecycleInv, LifecycleTyped, AttemptsOwned,
                                    Lifecycle!CanceledIsAtRest, Lifecycle!effectVars
  <1> QED BY <1>1, <1>2

\* Counting a call up or down.
LEMMA OrphanCount ==
    ASSUME NEW o \in [Lifecycle!Purposes -> Nat], NEW e \in Lifecycle!Purposes
    PROVE  /\ [o EXCEPT ![e] = @ + 1] \in [Lifecycle!Purposes -> Nat]
           /\ \A f \in Lifecycle!Purposes \ {e} : [o EXCEPT ![e] = @ + 1][f] = o[f]
           /\ o[e] > 0 =>
                 /\ [o EXCEPT ![e] = @ - 1] \in [Lifecycle!Purposes -> Nat]
                 /\ \A f \in Lifecycle!Purposes : [o EXCEPT ![e] = @ - 1][f] > 0 => o[f] > 0
  OBVIOUS

\* A worker that leaves its attempt with an outcome keeps the invariant, if it
\* leaves a doubt whenever it leaves a call.
LEMMA Left ==
    ASSUME LifecycleInv, NEW e \in Lifecycle!Purposes,
           NEW outcome \in {"Applied", "NoEffect", "Indeterminate"},
           state' = [state EXCEPT ![e] = outcome],
           caller' = [caller EXCEPT ![e] = "none"],
           doubtful' = (doubtful \/ outcome = "Indeterminate"),
           \/ running' = running
           \/ /\ caller[e] = "calling"
              /\ outcome = "Indeterminate"
              /\ running' = [running EXCEPT ![e] = @ + 1],
           UNCHANGED <<operation, ended, disposed>>
    PROVE  LifecycleInv'
  <1>0. running \in [Lifecycle!Purposes -> Nat]
    BY DEF LifecycleInv, LifecycleTyped
  <1>1. /\ running' \in [Lifecycle!Purposes -> Nat]
        /\ \A f \in Lifecycle!Purposes : running'[f] > 0 =>
              running[f] > 0 \/ (caller[e] = "calling" /\ outcome = "Indeterminate")
    <2>1. CASE running' = running
      BY <1>0, <2>1
    <2>2. CASE /\ caller[e] = "calling"
               /\ outcome = "Indeterminate"
               /\ running' = [running EXCEPT ![e] = @ + 1]
      BY <1>0, <2>2, OrphanCount
    <2> QED BY <2>1, <2>2
  <1> USE DEF LifecycleInv, LifecycleTyped, AttemptsOwned, Lifecycle!CanceledIsAtRest
  <1>2. LifecycleTyped'
    BY <1>1
  <1>4. doubtful => doubtful'
    OBVIOUS
  <1>5. AttemptsOwned'
    BY <1>1, <1>4
  <1>6. Lifecycle!CanceledIsAtRest'
    BY <1>1
  <1> QED BY <1>2, <1>5, <1>6

\* So do the steps of the attempts: none is dispatched for a canceled Operation.
LEMMA AttemptStep ==
    ASSUME LifecycleInv, NEW e \in Lifecycle!Purposes,
           \/ Lifecycle!Prepare(e) \/ Lifecycle!AuthorizeDispatch(e)
           \/ Lifecycle!MarkAttemptDispatched(e) \/ Lifecycle!CommitDispatched(e)
           \/ \E outcome \in {"Applied", "NoEffect", "Indeterminate"} :
                 Lifecycle!ResolveAttempt(e, outcome)
           \/ Lifecycle!RecoverAttempt(e)
           \/ \E outcome \in {"Applied", "NoEffect"} : Lifecycle!Observe(e, outcome)
           \/ Lifecycle!OrphanEnds(e)
    PROVE  LifecycleInv'
  <1> USE DEF LifecycleInv, LifecycleTyped, AttemptsOwned, Lifecycle!CanceledIsAtRest
  <1>1. CASE Lifecycle!Prepare(e)
    BY <1>1 DEF Lifecycle!Prepare, Lifecycle!operationVars
  <1>2. CASE Lifecycle!AuthorizeDispatch(e)
    <2>1. operation.phase # "Canceled"
      BY <1>2 DEF Lifecycle!AuthorizeDispatch, Lifecycle!operationPhaseAllowsPurpose
    <2> QED BY <1>2, <2>1 DEF Lifecycle!AuthorizeDispatch, Lifecycle!operationVars
  <1>3. CASE Lifecycle!MarkAttemptDispatched(e)
    <2>1. operation.phase # "Canceled"
      BY <1>3 DEF Lifecycle!MarkAttemptDispatched
    <2> QED BY <1>3, <2>1 DEF Lifecycle!MarkAttemptDispatched, Lifecycle!operationVars
  <1>4. CASE Lifecycle!CommitDispatched(e)
    BY <1>4 DEF Lifecycle!CommitDispatched, Lifecycle!operationVars
  <1>5. ASSUME NEW outcome \in {"Applied", "NoEffect", "Indeterminate"},
               Lifecycle!ResolveAttempt(e, outcome)
        PROVE  LifecycleInv'
    <2>1. /\ caller[e] = "calling" /\ operation.phase # "Canceled"
          /\ state' = [state EXCEPT ![e] = outcome]
          /\ caller' = [caller EXCEPT ![e] = "none"]
          /\ doubtful' = (doubtful \/ outcome = "Indeterminate")
          /\ \/ running' = running
             \/ outcome = "Indeterminate" /\ running' = [running EXCEPT ![e] = @ + 1]
          /\ UNCHANGED <<operation, ended, disposed>>
      BY <1>5 DEF Lifecycle!ResolveAttempt, Lifecycle!Leave, Lifecycle!operationVars
    <2> QED BY <1>5, <2>1, Left
  <1>6. CASE Lifecycle!RecoverAttempt(e)
    <2>1. PICK outcome \in {"NoEffect", "Indeterminate"} :
             /\ state' = [state EXCEPT ![e] = outcome]
             /\ doubtful' = (doubtful \/ outcome = "Indeterminate")
             /\ caller[e] = "calling" => outcome = "Indeterminate"
      BY <1>6 DEF Lifecycle!RecoverAttempt
    <2>2. /\ caller' = [caller EXCEPT ![e] = "none"]
          /\ running' = IF caller[e] = "calling" THEN [running EXCEPT ![e] = @ + 1] ELSE running
          /\ UNCHANGED <<operation, ended, disposed>>
      BY <1>6 DEF Lifecycle!RecoverAttempt, Lifecycle!Leave, Lifecycle!operationVars
    <2> QED BY <2>1, <2>2, Left
  <1>7. ASSUME NEW outcome \in {"Applied", "NoEffect"}, Lifecycle!Observe(e, outcome)
        PROVE  LifecycleInv'
    BY <1>7 DEF Lifecycle!Observe, Lifecycle!operationVars
  <1>8. CASE Lifecycle!OrphanEnds(e)
    <2>1. /\ running' \in [Lifecycle!Purposes -> Nat]
          /\ \A f \in Lifecycle!Purposes : running'[f] > 0 => running[f] > 0
      <3>1. running \in [Lifecycle!Purposes -> Nat] /\ running[e] > 0
              /\ running' = [running EXCEPT ![e] = @ - 1]
        BY <1>8 DEF Lifecycle!OrphanEnds
      <3> QED BY <3>1, OrphanCount
    <2>2. UNCHANGED <<operation, ended, disposed, state, caller, doubtful>>
      BY <1>8 DEF Lifecycle!OrphanEnds, Lifecycle!operationVars
    <2> QED BY <2>1, <2>2
  <1> QED BY <1>1, <1>2, <1>3, <1>4, <1>5, <1>6, <1>7, <1>8

\* A canceled Operation is at rest, although permits are used without another look
\* at it, and no terminal phase is left (CancellationPublicState,
\* NewDispatchAuthority, CheckTransition).
LEMMA CanceledOperationsRest == Lifecycle!Spec => []Lifecycle!CanceledIsAtRest
  <1>1. ASSUME LifecycleInv, [Lifecycle!Next]_(Lifecycle!vars) PROVE LifecycleInv'
    <2>1. CASE UNCHANGED Lifecycle!vars
      BY <1>1, <2>1 DEF Lifecycle!vars, Lifecycle!operationVars, Lifecycle!effectVars,
                        LifecycleInv, LifecycleTyped, AttemptsOwned,
                        Lifecycle!CanceledIsAtRest
    <2>2. CASE Lifecycle!RequestCancellation
      BY <1>1, <2>2 DEF Lifecycle!RequestCancellation, Lifecycle!operationVars,
                        Lifecycle!effectVars, LifecycleInv, LifecycleTyped,
                        AttemptsOwned, Lifecycle!CanceledIsAtRest
    <2>3. ASSUME NEW what \in {"cleanup", "quarantine"}, Lifecycle!Dispose(what)
          PROVE  LifecycleInv'
      <3>1. disposed' \in [cleanup : BOOLEAN, quarantine : BOOLEAN]
              /\ (disposed.quarantine => disposed'.quarantine)
        BY <1>1, <2>3 DEF Lifecycle!Dispose, LifecycleInv, LifecycleTyped
      <3>2. UNCHANGED <<operation, ended, state, caller, running, doubtful>>
        BY <2>3 DEF Lifecycle!Dispose, Lifecycle!operationVars, Lifecycle!effectVars
      <3> QED BY <1>1, <3>1, <3>2 DEF LifecycleInv, LifecycleTyped, AttemptsOwned,
                                      Lifecycle!CanceledIsAtRest
    <2> QED BY <1>1, <2>1, <2>2, <2>3, OperationStep, AttemptStep DEF Lifecycle!Next
  <1>2. LifecycleInv => Lifecycle!CanceledIsAtRest
    BY DEF LifecycleInv
  <1> QED BY <1>1, <1>2, LifecycleInit, PTL DEF Lifecycle!Spec
-----------------------------------------------------------------------------
\* The composition.

everything == <<part, vars, observationVars, planVars, operationVars>>

\* Every behaviour of the composition is one of each of its parts.
LEMMA DeliverySpec == MCSpec => Delivery!Spec
  <1>1. MCInit => Delivery!Init
    BY DEF MCInit, Init
  <1>2. [MCNext]_everything => [Delivery!Next]_(Delivery!vars)
    BY DEF MCNext, Next, everything, vars, deliveryVars, queueVars, Delivery!vars
  <1> QED BY <1>1, <1>2, PTL DEF MCSpec, Delivery!Spec, everything

LEMMA QueueSpec == MCSpec => Queue!Spec
  <1>1. MCInit => Queue!Init
    BY DEF MCInit, Init
  <1>2. [MCNext]_everything => [Queue!Next]_(Queue!vars)
    BY DEF MCNext, Next, everything, vars, deliveryVars, queueVars, Queue!vars
  <1> QED BY <1>1, <1>2, PTL DEF MCSpec, Queue!Spec, everything

LEMMA ObservationSpec == MCSpec => Observation!Spec
  <1>1. MCInit => Observation!Init
    BY DEF MCInit
  <1>2. [MCNext]_everything => [Observation!Next]_(Observation!vars)
    BY DEF MCNext, everything, observationVars, Observation!vars
  <1> QED BY <1>1, <1>2, PTL DEF MCSpec, Observation!Spec, everything

LEMMA PlansSpec == MCSpec => Plans!Spec
  <1>1. MCInit => Plans!Init
    BY DEF MCInit
  <1>2. [MCNext]_everything => [Plans!Next]_(Plans!vars)
    BY DEF MCNext, everything, planVars, Plans!vars, Plans!planVars, Plans!providerVars
  <1> QED BY <1>1, <1>2, PTL DEF MCSpec, Plans!Spec, everything

LEMMA LifecycleSpec == MCSpec => Lifecycle!Spec
  <1>1. MCInit => Lifecycle!Init
    BY DEF MCInit
  <1>2. [MCNext]_everything => [Lifecycle!Next]_(Lifecycle!vars)
    BY DEF MCNext, everything, operationVars, Lifecycle!vars, Lifecycle!operationVars,
           Lifecycle!effectVars
  <1> QED BY <1>1, <1>2, PTL DEF MCSpec, Lifecycle!Spec, everything

\* Deliveries are accepted in fence order and completed by the grant accepted last,
\* and the unit counters agree with the reservations and stay below the cap, in
\* every interleaving of the two ledgers' calls (Begin, Complete of model.go;
\* Reserve, Consume, Complete of queue.go).
THEOREM WorkIsAccounted == MCSpec => []WorkAccounted
  <1>1. Queue!Spec => [](Queue!CountersMatchRecords /\ Queue!CapHolds)
    BY QueueConstantsAssumption, Queue!UnitsAccounted
  <1> QED BY <1>1, DeliverySpec, QueueSpec, DeliveriesAccounted, PTL DEF WorkAccounted

\* Stale copies of an observation budget never fork it, and one observation of an
\* effect is out at a time (ReserveObservation and the calls that follow it).
THEOREM ObservationBudgetNeverForks == MCSpec => []ObservationsSerialized
  <1>1. Observation!Spec => []Observation!ObservationsSerialized
    BY ObservationConstantsAssumption, Observation!BudgetNeverForks
  <1> QED BY <1>1, ObservationSpec, PTL DEF ObservationsSerialized

\* A late observation never overwrites the outcome of a newer retry
\* (CompleteObservation).
THEOREM LateObservationsAreRefused == MCSpec => []ObservedTruthIsCurrent
  <1>1. Observation!Spec => []Observation!ObservedTruthIsCurrent
    BY ObservationConstantsAssumption, Observation!ObservationsAreCurrent
  <1> QED BY <1>1, ObservationSpec, PTL DEF ObservedTruthIsCurrent

\* Only a retry under a later plan can leave the observation slot taken for good
\* (ReleaseObservation, CompleteObservation).
THEOREM ObservationSlotsCanBeFreed == MCSpec => []StrandedOnlyByReplan
  <1>1. Observation!Spec => []Observation!StrandedOnlyByReplan
    BY ObservationConstantsAssumption, Observation!SlotsCanBeFreed
  <1> QED BY <1>1, ObservationSpec, PTL DEF StrandedOnlyByReplan

\* An effect that cannot be repeated safely is carried out at most once, whatever
\* crashes, recoveries, retries and plans there are (CheckRetry, RecoverAttempt).
THEOREM EffectsOnce == MCSpec => []EffectsHappenOnce
  <1>1. Plans!Spec => []Plans!EffectsHappenOnce
    BY PlanConstantsAssumption, Plans!EffectsCarriedOutOnce
  <1> QED BY <1>1, PlansSpec, PTL DEF EffectsHappenOnce

\* Compensation undoes confirmed effects in reverse dependency order
\* (ValidateCompensationPlan, NextCompensationStep).
THEOREM CompensationIsOrdered == MCSpec => []InversesInOrder
  <1>1. Plans!Spec => []Plans!InversesInOrder
    BY PlanConstantsAssumption, Plans!CompensationInOrder
  <1> QED BY <1>1, PlansSpec, PTL DEF InversesInOrder

\* Effects of a newer generation start when the older ones are settled or
\* superseded (CheckGenerationDispatch, AuthorizeGenerationReplacement).
THEOREM GenerationsAreOrdered == MCSpec => []GenerationsSerialized
  <1>1. Plans!Spec => []Plans!GenerationsSerialized
    BY PlanConstantsAssumption, Plans!GenerationsInOrder
  <1> QED BY <1>1, PlansSpec, PTL DEF GenerationsSerialized

\* A canceled Operation is at rest, although permits are used without another look
\* at it, and no terminal phase is left (CancellationPublicState,
\* NewDispatchAuthority, CheckTransition).
THEOREM CancellationRests == MCSpec => []CanceledIsAtRest
  BY LifecycleSpec, CanceledOperationsRest, PTL DEF CanceledIsAtRest
=============================================================================
