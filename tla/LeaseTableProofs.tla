--------------------------- MODULE LeaseTableProofs ---------------------------
(***************************************************************************)
(* Safety of the lease table for every set of lineages, workers, bindings, *)
(* times and capabilities, and every lease duration and safety margin.     *)
(***************************************************************************)
EXTENDS LeaseTable, FiniteSetTheorems, TLAPS

-----------------------------------------------------------------------------
(* Types *)

\* A freshly owned row, and its token, are well typed.
LEMMA OwnedRowType ==
    ASSUME NEW b \in Bindings, NEW o \in Owners, NEW f \in 1 .. MaxFence,
           NEW t \in Times
    PROVE  /\ ownedRow(b, o, f, t) \in leaseRow
           /\ ownedRow(b, o, f, t).binding = b
           /\ tokenFromRow(ownedRow(b, o, f, t)) \in LeaseToken
  BY ConstantsAssumption DEF ownedRow, leaseRow, tokenFromRow, LeaseToken

\* The fields of a freshly owned row.
LEMMA OwnedRowFields ==
    ASSUME NEW b, NEW o, NEW f, NEW t
    PROVE  /\ ownedRow(b, o, f, t).binding = b
           /\ ownedRow(b, o, f, t).ownerID = o
           /\ ownedRow(b, o, f, t).fence = f
           /\ ownedRow(b, o, f, t).acquiredAt = t
           /\ ownedRow(b, o, f, t).observedAt = t
           /\ ownedRow(b, o, f, t).expiresAt = t + StoreLeaseDuration
  BY DEF ownedRow

LEMMA RowIsOwned ==
    ASSUME NEW b, NEW o, NEW f, NEW t, NEW r, r = ownedRow(b, o, f, t)
    PROVE  /\ r.binding = b /\ r.ownerID = o /\ r.fence = f
           /\ r.acquiredAt = t /\ r.observedAt = t
  BY DEF ownedRow

\* Bindings name lineages of the table.
LEMMA BindingRow ==
    ASSUME NEW b \in Bindings
    PROVE  b.row \in RowKeys
  BY ConstantsAssumption DEF LeaseBinding

\* Granting a row keeps the rows and the tokens well typed.
LEMMA GrantType ==
    ASSUME TypeOK, NEW b \in Bindings, NEW o \in Owners,
           NEW f \in 1 .. MaxFence, NEW t \in Times, Grant(ownedRow(b, o, f, t))
    PROVE  /\ rows' \in [RowKeys -> leaseRow]
           /\ tokens' \subseteq LeaseToken
           /\ tokens \subseteq tokens'
  BY OwnedRowType, BindingRow DEF TypeOK, Grant

\* Observing a time keeps the rows well typed and changes only the clock.
LEMMA ObservedType ==
    ASSUME TypeOK, NEW k \in RowKeys, NEW t \in Times, rows' = Observed(k, t)
    PROVE  rows' \in [RowKeys -> leaseRow]
  BY ConstantsAssumption DEF TypeOK, Observed, leaseRow

\* The fence after one that is left is a fence.
LEMMA NextFenceType ==
    ASSUME NEW f \in 0 .. MaxFence, FenceLeft(f)
    PROVE  NextFence(f) \in 1 .. MaxFence
  BY ConstantsAssumption DEF FenceLeft, NextFence

\* A new table is well typed.
LEMMA TypeInit == Init => TypeOK
  BY ConstantsAssumption DEF Init, TypeOK, zeroRow, leaseRow

\* Every call keeps the state well typed.
LEMMA TypeStep == TypeOK /\ [Next]_vars => TypeOK'
  <1> SUFFICES ASSUME TypeOK, [Next]_vars PROVE TypeOK'
    OBVIOUS
  <1>1. CASE UNCHANGED vars
    BY <1>1 DEF TypeOK, vars
  <1> SUFFICES ASSUME NEW t \in Times,
                      \/ \E b \in Bindings, o \in Owners : Acquire(t, b, o)
                      \/ \E a \in replacements, o \in Owners : AcquireReplacement(t, a, o)
                      \/ \E k \in tokens : Renew(t, k) \/ Surrender(t, k) \/ AuthorizeCommit(t, k)
                      \/ \E k \in tokens, u \in Deadlines : NewPreparedAttempt(t, k, u)
                      \/ \E k \in tokens, a \in replacements : PrepareReplacementAttempt(t, a, k)
                      \/ \E a \in attempts : NewDispatchAuthority(t, a)
                      \/ \E k \in tokens, d \in RpcTimeouts, a \in authorities :
                             AuthorizeDispatch(t, k, d, a)
                      \/ \E p \in permits : MarkAttemptDispatched(t, p)
                      \/ \E b, c \in Bindings : NewReplacement(b, c)
               PROVE  TypeOK'
    BY <1>1 DEF Next
  <1>t. t \in Nat
    BY ConstantsAssumption
  <1>k. \A u \in tokens : u.binding.row \in RowKeys /\ u.fence \in 1 .. MaxFence
                            /\ u.binding \in Bindings /\ u.ownerID \in Owners
                            /\ u.binding.planDigest \in Nat
    BY ConstantsAssumption DEF TypeOK, LeaseToken, LeaseBinding
  <1>2. ASSUME NEW b \in Bindings, NEW o \in Owners, Acquire(t, b, o) PROVE TypeOK'
    <2>1. CASE AcquireNew(t, b, o)
      <3>1. NextFence(0) \in 1 .. MaxFence
        BY ConstantsAssumption DEF NextFence
      <3> QED BY <2>1, <3>1, GrantType DEF AcquireNew, TypeOK, pipeline
    <2>2. CASE AcquireTakeover(t, b, o)
      <3>1. NextFence(rows[b.row].fence) \in 1 .. MaxFence
        BY <2>2, NextFenceType, BindingRow DEF AcquireTakeover, TypeOK, leaseRow
      <3> QED BY <2>2, <3>1, GrantType DEF AcquireTakeover, TypeOK, pipeline
    <2>3. CASE AcquireRefused(t, b)
      BY <2>3, ObservedType, BindingRow DEF AcquireRefused, TypeOK, pipeline
    <2> QED BY <1>2, <2>1, <2>2, <2>3 DEF Acquire
  <1>3. ASSUME NEW a \in replacements, NEW o \in Owners, AcquireReplacement(t, a, o)
        PROVE TypeOK'
    <2>a. a \in LeaseReplacementAuthority /\ a.expected.row \in RowKeys
      BY BindingRow DEF TypeOK, LeaseReplacementAuthority
    <2>1. CASE ReplacementAdmissible(t, a)
      <3>1. NextFence(rows[a.expected.row].fence) \in 1 .. MaxFence
        BY <2>1, <2>a, NextFenceType DEF ReplacementAdmissible, TypeOK, leaseRow
      <3>2. Grant(ownedRow(a.replacement, o, NextFence(rows[a.expected.row].fence), t))
        BY <1>3, <2>1 DEF AcquireReplacement
      <3>3. rows' \in [RowKeys -> leaseRow] /\ tokens' \subseteq LeaseToken
              /\ tokens \subseteq tokens'
        BY <3>1, <3>2, <2>a, GrantType DEF LeaseReplacementAuthority
      <3> DEFINE tr == IF a.transition = NoTransition THEN a.transition ELSE 1
                 spent == [a EXCEPT !.use = "spent", !.transition = tr]
      <3>5. tr \in 0 .. NoTransition
        BY <2>a DEF LeaseReplacementAuthority, NoTransition
      <3>6. spent \in LeaseReplacementAuthority
        BY <2>a, <3>5 DEF LeaseReplacementAuthority, Use
      <3>4. replacements' \subseteq LeaseReplacementAuthority
        <4>1. replacements' = (replacements \ {a}) \cup {spent}
          BY <1>3, <2>1 DEF AcquireReplacement
        <4> HIDE DEF spent
        <4> QED BY <4>1, <3>6 DEF TypeOK
      <3> QED BY <1>3, <3>3, <3>4 DEF AcquireReplacement, TypeOK, pipeline
    <2>2. CASE ~ReplacementAdmissible(t, a)
      BY <1>3, <2>2, <2>a, ObservedType DEF AcquireReplacement, TypeOK, pipeline
    <2> QED BY <2>1, <2>2
  <1>4. ASSUME NEW k \in tokens, Renew(t, k) PROVE TypeOK'
    <2> DEFINE key == k.binding.row
               row == [rows[key] EXCEPT !.expiresAt = t + StoreLeaseDuration,
                                        !.observedAt = t]
    <2>0. rows[key] \in leaseRow /\ t + StoreLeaseDuration \in Nat
      BY <1>k, <1>t, ConstantsAssumption DEF TypeOK
    <2>1. row \in leaseRow
      BY <2>0, <1>t DEF leaseRow
    <2>2. rows' = [rows EXCEPT ![key] = row] \/ rows' = Observed(key, t)
      BY <1>4 DEF Renew
    <2> HIDE DEF row
    <2>3. rows' \in [RowKeys -> leaseRow]
      BY <2>1, <2>2, <1>k, ObservedType DEF TypeOK
    <2> QED BY <1>4, <2>3 DEF Renew, TypeOK, pipeline
  <1>5. ASSUME NEW k \in tokens, Surrender(t, k) PROVE TypeOK'
    <2>1. rows' \in [RowKeys -> leaseRow]
      <3>1. CASE currentRow(t, k)
        <4> DEFINE key == k.binding.row
                   row == [rows[key] EXCEPT !.ownerID = NoOwner, !.expiresAt = t,
                                            !.observedAt = t]
        <4>1. row \in leaseRow
          BY <1>k, <1>t DEF TypeOK, leaseRow
        <4>2. rows' = [rows EXCEPT ![key] = row]
          BY <1>5, <3>1 DEF Surrender
        <4> HIDE DEF row
        <4> QED BY <4>1, <4>2 DEF TypeOK
      <3>2. CASE ~currentRow(t, k)
        BY <1>5, <3>2, <1>k, ObservedType DEF Surrender
      <3> QED BY <3>1, <3>2
    <2> QED BY <1>5, <2>1 DEF Surrender, TypeOK, pipeline
  <1>6. ASSUME NEW k \in tokens, AuthorizeCommit(t, k) PROVE TypeOK'
    BY <1>6, <1>k, <1>t, ObservedType DEF AuthorizeCommit, TypeOK, pipeline
  <1>7. ASSUME NEW k \in tokens, NEW u \in Deadlines, NewPreparedAttempt(t, k, u)
        PROVE TypeOK'
    BY <1>7, <1>k, <1>t, ConstantsAssumption DEF NewPreparedAttempt, Prepare, TypeOK, Attempt
  <1>8. ASSUME NEW k \in tokens, NEW a \in replacements, PrepareReplacementAttempt(t, a, k)
        PROVE TypeOK'
    <2>1. attempts' \subseteq Attempt
      BY <1>8, <1>k, <1>t DEF PrepareReplacementAttempt, Prepare, TypeOK, Attempt
    <2>2. replacements' \subseteq LeaseReplacementAuthority
      BY <1>8 DEF PrepareReplacementAttempt, TypeOK, LeaseReplacementAuthority, NoTransition, Use
    <2> QED BY <1>8, <2>1, <2>2 DEF PrepareReplacementAttempt, Prepare, TypeOK
  <1>9. ASSUME NEW a \in attempts, NewDispatchAuthority(t, a) PROVE TypeOK'
    BY <1>9, <1>t DEF NewDispatchAuthority, TypeOK, DispatchAuthority, FreshCells, Use
  <1>10. ASSUME NEW k \in tokens, NEW d \in RpcTimeouts, NEW a \in authorities,
                AuthorizeDispatch(t, k, d, a)
         PROVE TypeOK'
    <2>1. rows' \in [RowKeys -> leaseRow]
      BY <1>10, <1>k, ObservedType DEF AuthorizeDispatch
    <2>2. authorities' \subseteq DispatchAuthority
      BY <1>10 DEF AuthorizeDispatch, TypeOK, DispatchAuthority, Use
    <2>3. permits' \subseteq DispatchPermit
      BY <1>10, <1>t, ConstantsAssumption
      DEF AuthorizeDispatch, TypeOK, DispatchAuthority, DispatchPermit, FreshCells, Use
    <2> QED BY <1>10, <2>1, <2>2, <2>3 DEF AuthorizeDispatch, TypeOK
  <1>11. ASSUME NEW p \in permits, MarkAttemptDispatched(t, p) PROVE TypeOK'
    <2>p. p \in DispatchPermit /\ p.token.binding.row \in RowKeys
      BY BindingRow DEF TypeOK, DispatchPermit, LeaseToken
    <2>1. rows' \in [RowKeys -> leaseRow]
      BY <1>11, <2>p, ObservedType DEF MarkAttemptDispatched
    <2>2. permits' \subseteq DispatchPermit
      BY <1>11, <2>p DEF MarkAttemptDispatched, TypeOK, DispatchPermit, Use
    <2>3. dispatches' \subseteq Dispatch
      BY <1>11, <2>p, <1>t DEF MarkAttemptDispatched, TypeOK, DispatchPermit, Dispatch
    <2> QED BY <1>11, <2>1, <2>2, <2>3 DEF MarkAttemptDispatched, TypeOK
  <1>12. ASSUME NEW b \in Bindings, NEW c \in Bindings, NewReplacement(b, c) PROVE TypeOK'
    BY <1>12 DEF NewReplacement, TypeOK, LeaseReplacementAuthority, NoTransition, Use, pipeline
  <1> QED BY <1>2, <1>3, <1>4, <1>5, <1>6, <1>7, <1>8, <1>9, <1>10, <1>11, <1>12

\* Every state of the table is well typed: no call leaves a row, token, authority
\* or permit that the package's validators would reject.
THEOREM TypeCorrect == Spec => []TypeOK
  BY TypeInit, TypeStep, PTL DEF Spec

-----------------------------------------------------------------------------
(* The inductive invariant *)

RowOK(k) ==
    /\ ~Exists(k) => rows[k] = zeroRow
    /\ Exists(k) => /\ rows[k].binding \in Bindings
                    /\ rows[k].binding.row = k
                    /\ rows[k].acquiredAt <= rows[k].observedAt
    /\ rows[k].ownerID # NoOwner =>
          /\ rows[k].acquiredAt + StoreLeaseDuration <= rows[k].expiresAt
          /\ rows[k].expiresAt <= rows[k].observedAt + StoreLeaseDuration

RowsOK == \A k \in RowKeys : RowOK(k)

\* How a token relates to the row of its lineage.
TokenOK(u, row) ==
    /\ u.fence <= row.fence
    /\ u.binding = row.binding \/ Precedes(u.binding, row.binding)
    /\ u.fence = row.fence =>
          /\ u.binding = row.binding
          /\ row.ownerID = u.ownerID \/ (row.ownerID = NoOwner /\ u \in surrendered)

TokensOK == \A u \in tokens : TokenOK(u, rows[u.binding.row])

ReplacementsOK ==
    \A a \in replacements :
        a.expected.row = a.replacement.row /\ Precedes(a.expected, a.replacement)

\* How a call window relates to the row of its lineage: inside the lease while
\* the grant is live, and past once a later grant has the row, unless the grant
\* was surrendered.
WindowOK(token, deadline, row) ==
    /\ token.fence = row.fence /\ row.ownerID # NoOwner =>
          deadline + DispatchSafetyMargin < row.expiresAt
    /\ token.fence < row.fence =>
          token \in surrendered \/ deadline + DispatchSafetyMargin < row.acquiredAt

PermitsOK ==
    \A p \in permits :
        p.token \in tokens /\ WindowOK(p.token, p.deadline, rows[p.token.binding.row])

DispatchesOK ==
    \A d \in dispatches :
        /\ d.token \in tokens
        /\ WindowOK(d.token, d.deadline, rows[d.token.binding.row])
        /\ d.at <= rows[d.token.binding.row].observedAt

IInv ==
    /\ TypeOK /\ RowsOK /\ TokensOK /\ ReplacementsOK /\ PermitsOK /\ DispatchesOK
    /\ FenceIdentifiesGrant /\ BindingsMoveForward /\ DispatchWindowsDisjoint

-----------------------------------------------------------------------------
(* What a step does to the rows: nothing but the clock, a grant, a renewal *)
(* or a surrender.                                                          *)

Quiet ==
    /\ \A k \in RowKeys :
          /\ rows'[k].binding = rows[k].binding /\ rows'[k].ownerID = rows[k].ownerID
          /\ rows'[k].fence = rows[k].fence /\ rows'[k].acquiredAt = rows[k].acquiredAt
          /\ rows'[k].expiresAt = rows[k].expiresAt
          /\ rows'[k].observedAt >= rows[k].observedAt
          /\ rows[k] = zeroRow => rows'[k] = zeroRow
    /\ tokens' = tokens /\ surrendered' = surrendered

Granted(b, o, t) ==
    /\ t >= rows[b.row].observedAt
    /\ ~Held(b.row, t)
    /\ Exists(b.row) => b = rows[b.row].binding \/ Precedes(rows[b.row].binding, b)
    /\ rows[b.row].fence < MaxFence
    /\ rows' = [rows EXCEPT ![b.row] = ownedRow(b, o, rows[b.row].fence + 1, t)]
    /\ tokens' = tokens \cup {[binding |-> b, ownerID |-> o, fence |-> rows[b.row].fence + 1]}
    /\ UNCHANGED <<surrendered, permits, dispatches, commits>>

Renewed(u, t) ==
    /\ t >= rows[u.binding.row].observedAt
    /\ currentRow(t, u)
    /\ rows' = [rows EXCEPT ![u.binding.row] = [@ EXCEPT !.expiresAt = t + StoreLeaseDuration,
                                                         !.observedAt = t]]
    /\ UNCHANGED <<tokens, surrendered, permits, dispatches, commits>>

Surrendered(u, t) ==
    /\ t >= rows[u.binding.row].observedAt
    /\ currentRow(t, u)
    /\ rows' = [rows EXCEPT ![u.binding.row] = [@ EXCEPT !.ownerID = NoOwner,
                                                         !.expiresAt = t,
                                                         !.observedAt = t]]
    /\ surrendered' = surrendered \cup {u}
    /\ UNCHANGED <<tokens, permits, dispatches, commits>>

\* Observing a time is a quiet step.
LEMMA ObservedQuiet ==
    ASSUME TypeOK, NEW k \in RowKeys, NEW t \in Times, CanObserve(k, t),
           rows' = Observed(k, t), UNCHANGED <<tokens, surrendered>>
    PROVE  Quiet
  <1>1. rows[k] \in leaseRow /\ rows[k] # zeroRow
    BY DEF TypeOK, CanObserve, Exists, zeroRow
  <1>2. \A j \in RowKeys \ {k} : rows'[j] = rows[j]
    BY DEF Observed, TypeOK
  <1>3. rows'[k] = [rows[k] EXCEPT !.observedAt = t]
    BY DEF Observed, TypeOK
  <1>4. \A j \in RowKeys : rows[j].observedAt \in Nat
    BY DEF TypeOK, leaseRow
  <1> QED BY <1>1, <1>2, <1>3, <1>4, ConstantsAssumption DEF Quiet, CanObserve, leaseRow

\* A call that leaves rows and tokens alone is a quiet step.
LEMMA UnchangedQuiet ==
    ASSUME TypeOK, UNCHANGED <<rows, tokens, surrendered>>
    PROVE  Quiet
  <1>1. \A j \in RowKeys : rows[j].observedAt \in Nat
    BY DEF TypeOK, leaseRow
  <1> QED BY <1>1 DEF Quiet

\* A binding that moves forward precedes in the lexicographic order.
LEMMA ForwardPrecedes ==
    ASSUME NEW b \in Bindings, NEW c \in Bindings, leaseBindingMovesForward(b, c)
    PROVE  Precedes(b, c)
  BY ConstantsAssumption DEF leaseBindingMovesForward, Precedes, LeaseBinding

\* The order of bindings is transitive.
LEMMA PrecedesTransitive ==
    ASSUME NEW b \in Bindings, NEW c \in Bindings, NEW d \in Bindings,
           Precedes(b, c), Precedes(c, d)
    PROVE  Precedes(b, d)
  BY ConstantsAssumption DEF Precedes, LeaseBinding

Kind ==
    \/ Quiet
    \/ \E b \in Bindings, o \in Owners, t \in Times : Granted(b, o, t)
    \/ \E u \in tokens, t \in Times : Renewed(u, t) \/ Surrendered(u, t)

\* Every call is of one of the four kinds.
LEMMA StepKind ==
    ASSUME TypeOK, RowsOK, ReplacementsOK, [Next]_vars
    PROVE  Kind
  <1>1. CASE UNCHANGED vars
    BY <1>1, UnchangedQuiet DEF vars, Kind
  <1>k. \A u \in tokens : u.binding.row \in RowKeys
    BY BindingRow DEF TypeOK, LeaseToken
  <1>z. \A k \in RowKeys : rows[k].observedAt \in Nat /\ rows[k].fence \in 0 .. MaxFence
    BY DEF TypeOK, leaseRow
  <1>2. ASSUME NEW t \in Times, NEW b \in Bindings, NEW o \in Owners, Acquire(t, b, o)
        PROVE Kind
    <2>b. b.row \in RowKeys
      BY BindingRow
    <2>1. CASE AcquireNew(t, b, o)
      <3>1. rows[b.row] = zeroRow /\ rows[b.row].fence = 0 /\ rows[b.row].observedAt = 0
             /\ rows[b.row].ownerID = NoOwner
        BY <2>1, <2>b DEF AcquireNew, RowsOK, RowOK, zeroRow
      <3>2. Granted(b, o, t)
        BY <2>1, <3>1, <2>b, ConstantsAssumption
        DEF AcquireNew, Granted, Grant, ownedRow, tokenFromRow, NextFence, Exists, Held, pipeline
      <3> QED BY <3>2 DEF Kind
    <2>2. CASE AcquireTakeover(t, b, o)
      <3>2. Granted(b, o, t)
        BY <2>2, <2>b
        DEF AcquireTakeover, Granted, Grant, ownedRow, tokenFromRow, NextFence, FenceLeft,
            CanObserve, pipeline
      <3> QED BY <3>2 DEF Kind
    <2>3. CASE AcquireRefused(t, b)
      BY <2>3, <2>b, ObservedQuiet DEF AcquireRefused, Kind
    <2> QED BY <1>2, <2>1, <2>2, <2>3 DEF Acquire
  <1>3. ASSUME NEW t \in Times, NEW a \in replacements, NEW o \in Owners,
               AcquireReplacement(t, a, o)
        PROVE Kind
    <2>a. /\ a.expected \in Bindings /\ a.replacement \in Bindings
          /\ a.expected.row \in RowKeys /\ a.replacement.row = a.expected.row
          /\ Precedes(a.expected, a.replacement)
      BY BindingRow DEF TypeOK, LeaseReplacementAuthority, ReplacementsOK
    <2>1. CASE ReplacementAdmissible(t, a)
      <3>1. Granted(a.replacement, o, t)
        BY <1>3, <2>1, <2>a
        DEF AcquireReplacement, ReplacementAdmissible, Granted, Grant, ownedRow, tokenFromRow,
            NextFence, FenceLeft, CanObserve, pipeline
      <3> QED BY <3>1, <2>a DEF Kind
    <2>2. CASE ~ReplacementAdmissible(t, a)
      BY <1>3, <2>2, <2>a, ObservedQuiet DEF AcquireReplacement, Kind
    <2> QED BY <2>1, <2>2
  <1>4. ASSUME NEW t \in Times, NEW u \in tokens, Renew(t, u) PROVE Kind
    <2>1. CASE currentRow(t, u)
      BY <1>4, <2>1 DEF Renew, Renewed, Kind, CanObserve, pipeline
    <2>2. CASE ~currentRow(t, u)
      BY <1>4, <2>2, <1>k, ObservedQuiet DEF Renew, Kind
    <2> QED BY <2>1, <2>2
  <1>5. ASSUME NEW t \in Times, NEW u \in tokens, Surrender(t, u) PROVE Kind
    <2>1. CASE currentRow(t, u)
      BY <1>5, <2>1 DEF Surrender, Surrendered, Kind, CanObserve, pipeline
    <2>2. CASE ~currentRow(t, u)
      BY <1>5, <2>2, <1>k, ObservedQuiet DEF Surrender, Kind
    <2> QED BY <2>1, <2>2
  <1>6. ASSUME NEW t \in Times, NEW u \in tokens, AuthorizeCommit(t, u) PROVE Kind
    BY <1>6, <1>k, ObservedQuiet DEF AuthorizeCommit, Kind
  <1>7. ASSUME NEW t \in Times, NEW u \in tokens, NEW d \in Deadlines,
               NewPreparedAttempt(t, u, d)
        PROVE Kind
    BY <1>7, UnchangedQuiet DEF NewPreparedAttempt, Prepare, Kind
  <1>8. ASSUME NEW t \in Times, NEW u \in tokens, NEW a \in replacements,
               PrepareReplacementAttempt(t, a, u)
        PROVE Kind
    BY <1>8, UnchangedQuiet DEF PrepareReplacementAttempt, Prepare, Kind
  <1>9. ASSUME NEW t \in Times, NEW a \in attempts, NewDispatchAuthority(t, a) PROVE Kind
    BY <1>9, UnchangedQuiet DEF NewDispatchAuthority, Kind
  <1>10. ASSUME NEW t \in Times, NEW u \in tokens, NEW d \in RpcTimeouts,
                NEW a \in authorities, AuthorizeDispatch(t, u, d, a)
         PROVE Kind
    BY <1>10, <1>k, ObservedQuiet DEF AuthorizeDispatch, Kind
  <1>11. ASSUME NEW t \in Times, NEW p \in permits, MarkAttemptDispatched(t, p) PROVE Kind
    <2>1. p.token.binding.row \in RowKeys
      BY BindingRow DEF TypeOK, DispatchPermit, LeaseToken
    <2> QED BY <1>11, <2>1, ObservedQuiet DEF MarkAttemptDispatched, Kind
  <1>12. ASSUME NEW b \in Bindings, NEW c \in Bindings, NewReplacement(b, c) PROVE Kind
    BY <1>12, UnchangedQuiet DEF NewReplacement, Kind
  <1> QED
    BY <1>1, <1>2, <1>3, <1>4, <1>5, <1>6, <1>7, <1>8, <1>9, <1>10, <1>11, <1>12 DEF Next

\* Every kind of step keeps the rows in order.
LEMMA RowsStep ==
    ASSUME TypeOK, TypeOK', RowsOK, Kind
    PROVE  RowsOK'
  <1>k. \A u \in tokens : u.binding.row \in RowKeys
    BY BindingRow DEF TypeOK, LeaseToken
  <1>n. \A k \in RowKeys : /\ rows[k].observedAt \in Nat /\ rows[k].acquiredAt \in Nat
                            /\ rows[k].expiresAt \in Nat /\ rows[k] \in leaseRow
    BY DEF TypeOK, leaseRow
  <1>o. NoOwner \notin Owners /\ Times \subseteq Nat /\ StoreLeaseDuration \in Nat
    BY ConstantsAssumption
  <1> SUFFICES ASSUME NEW k \in RowKeys PROVE RowOK(k)'
    BY DEF RowsOK
  <1>n2. /\ rows'[k].observedAt \in Nat /\ rows'[k].acquiredAt \in Nat
         /\ rows'[k].expiresAt \in Nat
    BY DEF TypeOK, leaseRow
  <1>1. CASE Quiet
    BY <1>1, <1>n, <1>n2, <1>o DEF Quiet, RowsOK, RowOK, Exists
  <1>2. ASSUME NEW b \in Bindings, NEW o \in Owners, NEW t \in Times, Granted(b, o, t)
        PROVE  RowOK(k)'
    <2>1. CASE k # b.row
      BY <1>2, <2>1 DEF Granted, RowsOK, RowOK, Exists, TypeOK
    <2>2. CASE k = b.row
      <3>1. rows'[k] = ownedRow(b, o, rows[k].fence + 1, t) /\ rows[k].fence \in Nat
        BY <1>2, <2>2 DEF Granted, TypeOK, leaseRow
      <3> QED BY <3>1, <2>2, <1>o DEF ownedRow, RowOK, Exists
    <2> QED BY <2>1, <2>2
  <1>3. ASSUME NEW u \in tokens, NEW t \in Times, Renewed(u, t)
        PROVE  RowOK(k)'
    <2>1. CASE k # u.binding.row
      BY <1>3, <2>1, <1>k DEF Renewed, RowsOK, RowOK, Exists, TypeOK
    <2>2. CASE k = u.binding.row
      <3>1. rows'[k] = [rows[k] EXCEPT !.expiresAt = t + StoreLeaseDuration, !.observedAt = t]
        BY <1>3, <2>2, <1>k DEF Renewed, TypeOK
      <3>2. rows[k].ownerID # NoOwner /\ t >= rows[k].observedAt
        BY <1>3, <2>2 DEF Renewed, currentRow, Held
      <3>3. Exists(k)
        BY <3>2 DEF RowsOK, RowOK, zeroRow
      <3> QED BY <3>1, <3>2, <3>3, <1>n, <1>o DEF RowsOK, RowOK, Exists, leaseRow
    <2> QED BY <2>1, <2>2
  <1>4. ASSUME NEW u \in tokens, NEW t \in Times, Surrendered(u, t)
        PROVE  RowOK(k)'
    <2>1. CASE k # u.binding.row
      BY <1>4, <2>1, <1>k DEF Surrendered, RowsOK, RowOK, Exists, TypeOK
    <2>2. CASE k = u.binding.row
      <3>1. rows'[k] = [rows[k] EXCEPT !.ownerID = NoOwner, !.expiresAt = t, !.observedAt = t]
        BY <1>4, <2>2, <1>k DEF Surrendered, TypeOK
      <3>2. rows[k].ownerID # NoOwner /\ t >= rows[k].observedAt
        BY <1>4, <2>2 DEF Surrendered, currentRow, Held
      <3>3. Exists(k)
        BY <3>2 DEF RowsOK, RowOK, zeroRow
      <3> QED BY <3>1, <3>2, <3>3, <1>n, <1>o DEF RowsOK, RowOK, Exists, leaseRow
    <2> QED BY <2>1, <2>2
  <1> QED BY <1>1, <1>2, <1>3, <1>4 DEF Kind

\* The token of a live row is the row's own.
LEMMA CurrentRow ==
    ASSUME TypeOK, NEW u \in tokens, NEW t \in Times, currentRow(t, u)
    PROVE  /\ u.binding.row \in RowKeys
           /\ rows[u.binding.row].ownerID = u.ownerID /\ u.ownerID # NoOwner
           /\ rows[u.binding.row].fence = u.fence
           /\ rows[u.binding.row].binding = u.binding
           /\ t < rows[u.binding.row].expiresAt
  BY BindingRow, ConstantsAssumption DEF TypeOK, LeaseToken, currentRow, Held, tokenFromRow

\* What the rows of a grant, a renewal and a surrender look like afterwards.
LEMMA GrantedRow ==
    ASSUME TypeOK, NEW b \in Bindings, NEW o \in Owners, NEW t \in Times, Granted(b, o, t)
    PROVE  /\ b.row \in RowKeys
           /\ rows'[b.row] = ownedRow(b, o, rows[b.row].fence + 1, t)
           /\ \A k \in RowKeys : k # b.row => rows'[k] = rows[k]
  BY BindingRow DEF TypeOK, Granted

\* Every kind of step keeps the tokens in order.
LEMMA TokensStep ==
    ASSUME TypeOK, RowsOK, TokensOK, FenceIdentifiesGrant, BindingsMoveForward, Kind
    PROVE  TokensOK' /\ FenceIdentifiesGrant' /\ BindingsMoveForward'
  <1>k. \A u \in tokens : /\ u.binding.row \in RowKeys /\ u.binding \in Bindings
                           /\ u.ownerID \in Owners /\ u.fence \in Nat /\ u.fence >= 1
    BY BindingRow DEF TypeOK, LeaseToken
  <1>n. \A k \in RowKeys : rows[k].fence \in Nat /\ rows[k].ownerID \in Owners \cup {NoOwner}
    BY DEF TypeOK, leaseRow
  <1>1. CASE Quiet
    <2>1. TokensOK'
      BY <1>1, <1>k DEF Quiet, TokensOK, TokenOK
    <2> QED BY <1>1, <2>1 DEF Quiet, FenceIdentifiesGrant, BindingsMoveForward
  <1>2. ASSUME NEW b \in Bindings, NEW o \in Owners, NEW t \in Times, Granted(b, o, t)
        PROVE  TokensOK' /\ FenceIdentifiesGrant' /\ BindingsMoveForward'
    <2> DEFINE f == rows[b.row].fence + 1
               new == [binding |-> b, ownerID |-> o, fence |-> f]
    <2>1. /\ tokens' = tokens \cup {new} /\ surrendered' = surrendered
          /\ b.row \in RowKeys /\ rows'[b.row] = ownedRow(b, o, f, t)
          /\ \A k \in RowKeys : k # b.row => rows'[k] = rows[k]
          /\ f \in Nat
      <3>1. tokens' = tokens \cup {new} /\ surrendered' = surrendered
        BY <1>2 DEF Granted
      <3>2. /\ b.row \in RowKeys /\ rows'[b.row] = ownedRow(b, o, f, t)
            /\ \A k \in RowKeys : k # b.row => rows'[k] = rows[k]
        BY <1>2, GrantedRow
      <3>3. f \in Nat
        BY <1>n, <3>2
      <3> QED BY <3>1, <3>2, <3>3
    <2>2. \A u \in tokens : u.binding.row = b.row =>
             u.fence < f /\ (u.binding = b \/ Precedes(u.binding, b))
      <3> SUFFICES ASSUME NEW u \in tokens, u.binding.row = b.row
                   PROVE  u.fence < f /\ (u.binding = b \/ Precedes(u.binding, b))
        OBVIOUS
      <3>1. /\ u.fence <= rows[b.row].fence
            /\ u.binding = rows[b.row].binding \/ Precedes(u.binding, rows[b.row].binding)
        BY DEF TokensOK, TokenOK
      <3>2. Exists(b.row)
        BY <3>1, <1>k, <1>n, <2>1 DEF Exists
      <3>3. rows[b.row].binding \in Bindings
        BY <3>2, <2>1 DEF RowsOK, RowOK
      <3>4. b = rows[b.row].binding \/ Precedes(rows[b.row].binding, b)
        BY <1>2, <3>2 DEF Granted
      <3>5. u.fence < f
        <4>1. u.fence \in Nat /\ rows[b.row].fence \in Nat
          BY <1>k, <1>n, <2>1
        <4> QED BY <3>1, <4>1
      <3>6. u.binding = b \/ Precedes(u.binding, b)
        <4>1. PICK x, y : x = u.binding /\ y = rows[b.row].binding
          OBVIOUS
        <4>2. /\ x \in Bindings /\ y \in Bindings
              /\ x = y \/ Precedes(x, y)
              /\ b = y \/ Precedes(y, b)
          BY <3>1, <3>3, <3>4, <1>k, <4>1
        <4>3. x = b \/ Precedes(x, b)
          BY <4>2, PrecedesTransitive
        <4> QED BY <4>1, <4>3
      <3> QED BY <3>5, <3>6
    <2>n. new.binding = b /\ new.ownerID = o /\ new.fence = f
      OBVIOUS
    <2>r. /\ rows'[b.row].binding = b /\ rows'[b.row].ownerID = o
          /\ rows'[b.row].fence = f
      <3>1. PICK r : r = rows'[b.row] /\ r = ownedRow(b, o, f, t)
        BY <2>1
      <3>2. r.binding = b /\ r.ownerID = o /\ r.fence = f
        BY <3>1, RowIsOwned
      <3> QED BY <3>1, <3>2
    <2> HIDE DEF f, new
    <2>3. TokensOK'
      <3> SUFFICES ASSUME NEW u \in tokens' PROVE TokenOK(u, rows[u.binding.row])'
        BY DEF TokensOK
      <3>1. CASE u.binding.row # b.row
        BY <3>1, <2>1, <2>n, <1>k DEF TokensOK, TokenOK
      <3>2. CASE u = new
        BY <3>2, <2>1, <2>n, <2>r DEF TokenOK
      <3>3. CASE u \in tokens /\ u.binding.row = b.row
        BY <3>3, <2>1, <2>2, <2>r, <1>k DEF TokenOK
      <3> QED BY <3>1, <3>2, <3>3, <2>1
    <2>4. FenceIdentifiesGrant'
      BY <2>1, <2>2, <2>n, <1>k DEF FenceIdentifiesGrant, SameRow
    <2>5. BindingsMoveForward'
      BY <2>1, <2>2, <2>n, <1>k DEF BindingsMoveForward, SameRow
    <2> QED BY <2>3, <2>4, <2>5
  <1>3. ASSUME NEW v \in tokens, NEW t \in Times, Renewed(v, t)
        PROVE  TokensOK' /\ FenceIdentifiesGrant' /\ BindingsMoveForward'
    <2>1. \A k \in RowKeys : /\ rows'[k].fence = rows[k].fence
                              /\ rows'[k].binding = rows[k].binding
                              /\ rows'[k].ownerID = rows[k].ownerID
      BY <1>3, <1>k DEF Renewed, TypeOK, leaseRow
    <2> QED BY <1>3, <2>1, <1>k
            DEF Renewed, TokensOK, TokenOK, FenceIdentifiesGrant, BindingsMoveForward
  <1>4. ASSUME NEW v \in tokens, NEW t \in Times, Surrendered(v, t)
        PROVE  TokensOK' /\ FenceIdentifiesGrant' /\ BindingsMoveForward'
    <2>0. currentRow(t, v)
      BY <1>4 DEF Surrendered
    <2>1. \A k \in RowKeys : /\ rows'[k].fence = rows[k].fence
                              /\ rows'[k].binding = rows[k].binding
                              /\ rows'[k].ownerID = IF k = v.binding.row THEN NoOwner
                                                     ELSE rows[k].ownerID
      <3> SUFFICES ASSUME NEW k \in RowKeys
                   PROVE  /\ rows'[k].fence = rows[k].fence
                          /\ rows'[k].binding = rows[k].binding
                          /\ rows'[k].ownerID = IF k = v.binding.row THEN NoOwner
                                                 ELSE rows[k].ownerID
        OBVIOUS
      <3>1. rows[k] \in leaseRow
        BY DEF TypeOK
      <3>2. rows'[k] = IF k = v.binding.row
                       THEN [rows[k] EXCEPT !.ownerID = NoOwner, !.expiresAt = t, !.observedAt = t]
                       ELSE rows[k]
        BY <1>4, <1>k DEF Surrendered, TypeOK
      <3> QED BY <3>1, <3>2 DEF leaseRow
    <2>2. \A u \in tokens : u.binding.row = v.binding.row
                              /\ u.fence = rows[v.binding.row].fence => u = v
      BY <2>0, CurrentRow DEF FenceIdentifiesGrant, SameRow
    <2>3. tokens' = tokens /\ surrendered' = surrendered \cup {v}
      BY <1>4 DEF Surrendered
    <2>4. TokensOK'
      <3> SUFFICES ASSUME NEW u \in tokens PROVE TokenOK(u, rows[u.binding.row])'
        BY <2>3 DEF TokensOK
      <3> QED BY <2>1, <2>2, <2>3, <1>k, SMTT(30) DEF TokensOK, TokenOK
    <2> QED BY <2>3, <2>4 DEF FenceIdentifiesGrant, BindingsMoveForward
  <1> QED BY <1>1, <1>2, <1>3, <1>4 DEF Kind

\* Every kind of step keeps a call window in order.
LEMMA WindowStep ==
    ASSUME TypeOK, RowsOK, TokensOK, FenceIdentifiesGrant, Kind,
           NEW u \in tokens, NEW d \in Nat, WindowOK(u, d, rows[u.binding.row])
    PROVE  WindowOK(u, d, rows[u.binding.row])'
  <1>k. /\ u.binding.row \in RowKeys /\ u.ownerID \in Owners /\ u.fence \in Nat
        /\ TokenOK(u, rows[u.binding.row])
    BY BindingRow DEF TypeOK, LeaseToken, TokensOK
  <1>n. \A k \in RowKeys : /\ rows[k].fence \in Nat /\ rows[k].expiresAt \in Nat
                            /\ rows[k].acquiredAt \in Nat /\ rows[k].observedAt \in Nat
    BY DEF TypeOK, leaseRow
  <1>c. /\ DispatchSafetyMargin \in Nat /\ Times \subseteq Nat /\ StoreLeaseDuration \in Nat
        /\ NoOwner \notin Owners
    BY ConstantsAssumption
  <1> DEFINE k == u.binding.row
  <1>1. CASE Quiet
    BY <1>1, <1>k DEF Quiet, WindowOK
  <1>2. ASSUME NEW b \in Bindings, NEW o \in Owners, NEW t \in Times, Granted(b, o, t)
        PROVE  WindowOK(u, d, rows[k])'
    <2>1. CASE k # b.row
      BY <1>2, <2>1, <1>k, GrantedRow DEF WindowOK, Granted
    <2>2. CASE k = b.row
      <3>1. rows'[k] = ownedRow(b, o, rows[k].fence + 1, t) /\ surrendered' = surrendered
        <4>1. surrendered' = surrendered
          BY <1>2 DEF Granted
        <4> QED BY <4>1, <1>2, <2>2, GrantedRow, SMTT(30)
      <3>2. u.fence < rows[k].fence + 1
        BY <1>k, <1>n, SMTT(30) DEF TokenOK
      <3>3. u \in surrendered \/ d + DispatchSafetyMargin < t
        <4>1. CASE u.fence < rows[k].fence
          <5>1. rows[k].acquiredAt <= rows[k].observedAt
            BY <4>1, <1>k, <1>n DEF RowsOK, RowOK, Exists
          <5>2. rows[k].observedAt <= t
            BY <1>2, <2>2 DEF Granted
          <5> QED BY <4>1, <5>1, <5>2, <1>k, <1>n, <1>c, SMTT(30) DEF WindowOK
        <4>2. CASE u.fence = rows[k].fence
          <5>1. CASE rows[k].ownerID = NoOwner
            BY <5>1, <4>2, <1>k, <1>c DEF TokenOK
          <5>2. CASE rows[k].ownerID # NoOwner
            <6>1. rows[k].expiresAt <= t
              <7>1. ~Held(k, t)
                BY <1>2, <2>2 DEF Granted
              <7>2. rows[k].expiresAt \in Nat /\ t \in Nat
                BY <1>2, <1>k, <1>n, <1>c
              <7> QED BY <5>2, <7>1, <7>2 DEF Held
            <6> QED BY <6>1, <5>2, <4>2, <1>k, <1>n, <1>c DEF WindowOK
          <5> QED BY <5>1, <5>2
        <4> QED BY <4>1, <4>2, <3>2, <1>k, <1>n
      <3>4. rows'[k].fence = rows[k].fence + 1 /\ rows'[k].acquiredAt = t
        <4>1. PICK r : r = rows'[k] /\ r = ownedRow(b, o, rows[k].fence + 1, t)
          BY <3>1
        <4>2. r.fence = rows[k].fence + 1 /\ r.acquiredAt = t
          BY <4>1, RowIsOwned
        <4> QED BY <4>1, <4>2
      <3>5. u.fence # rows'[k].fence
        BY <3>2, <3>4, <1>k, <1>n
      <3> QED BY <3>1, <3>3, <3>4, <3>5 DEF WindowOK
    <2> QED BY <2>1, <2>2
  <1>3. ASSUME NEW v \in tokens, NEW t \in Times, Renewed(v, t)
        PROVE  WindowOK(u, d, rows[k])'
    <2>v. v.binding.row \in RowKeys
      BY BindingRow DEF TypeOK, LeaseToken
    <2>1. CASE k # v.binding.row
      BY <1>3, <2>1, <1>k, <2>v DEF Renewed, WindowOK, TypeOK
    <2>2. CASE k = v.binding.row
      <3>1. /\ rows'[k] = [rows[k] EXCEPT !.expiresAt = t + StoreLeaseDuration, !.observedAt = t]
            /\ surrendered' = surrendered
        BY <1>3, <2>2, <2>v DEF Renewed, TypeOK
      <3>2. /\ rows'[k].fence = rows[k].fence /\ rows'[k].ownerID = rows[k].ownerID
            /\ rows'[k].acquiredAt = rows[k].acquiredAt
            /\ rows'[k].expiresAt = t + StoreLeaseDuration
        BY <3>1, <1>k DEF TypeOK, leaseRow
      <3>3. rows[k].ownerID # NoOwner /\ rows[k].observedAt <= t
        BY <1>3, <2>2, <2>v DEF Renewed, currentRow, Held
      <3>4. rows[k].expiresAt <= t + StoreLeaseDuration
        BY <3>3, <1>k, <1>n, <1>c DEF RowsOK, RowOK
      <3> QED BY <3>1, <3>2, <3>3, <3>4, <1>k, <1>n, <1>c DEF WindowOK
    <2> QED BY <2>1, <2>2
  <1>4. ASSUME NEW v \in tokens, NEW t \in Times, Surrendered(v, t)
        PROVE  WindowOK(u, d, rows[k])'
    <2>v. v.binding.row \in RowKeys
      BY BindingRow DEF TypeOK, LeaseToken
    <2>1. CASE k # v.binding.row
      BY <1>4, <2>1, <1>k, <2>v DEF Surrendered, WindowOK, TypeOK
    <2>2. CASE k = v.binding.row
      <3>1. /\ rows'[k].fence = rows[k].fence /\ rows'[k].ownerID = NoOwner
            /\ rows'[k].acquiredAt = rows[k].acquiredAt
            /\ surrendered \subseteq surrendered'
        <4>1. rows[k] \in leaseRow
          BY <1>k DEF TypeOK
        <4>2. rows'[k] = [rows[k] EXCEPT !.ownerID = NoOwner, !.expiresAt = t, !.observedAt = t]
          BY <1>4, <2>2, <2>v DEF Surrendered, TypeOK
        <4>3. surrendered \subseteq surrendered'
          BY <1>4 DEF Surrendered
        <4> QED BY <4>1, <4>2, <4>3 DEF leaseRow
      <3> QED BY <3>1 DEF WindowOK
    <2> QED BY <2>1, <2>2
  <1> QED BY <1>1, <1>2, <1>3, <1>4 DEF Kind

\* Which actions leave the replacements, permits and dispatches alone.
LEMMA Frames ==
    ASSUME NEW t \in Times
    PROVE  /\ \A b \in Bindings, o \in Owners :
                 Acquire(t, b, o) => UNCHANGED <<replacements, permits, dispatches, commits>>
           /\ \A a \in replacements, o \in Owners :
                 AcquireReplacement(t, a, o) => UNCHANGED <<permits, dispatches, commits>>
           /\ \A u \in tokens :
                 /\ Renew(t, u) \/ Surrender(t, u)
                       => UNCHANGED <<replacements, permits, dispatches, commits>>
                 /\ AuthorizeCommit(t, u) => UNCHANGED <<replacements, permits, dispatches>>
           /\ \A u \in tokens, d \in Deadlines :
                 NewPreparedAttempt(t, u, d) => UNCHANGED <<replacements, permits, dispatches, commits>>
           /\ \A u \in tokens, a \in replacements :
                 PrepareReplacementAttempt(t, a, u) => UNCHANGED <<permits, dispatches, commits>>
           /\ \A a \in attempts :
                 NewDispatchAuthority(t, a) => UNCHANGED <<replacements, permits, dispatches, commits>>
           /\ \A u \in tokens, d \in RpcTimeouts, a \in authorities :
                 AuthorizeDispatch(t, u, d, a) => UNCHANGED <<replacements, dispatches, commits>>
           /\ \A p \in permits : MarkAttemptDispatched(t, p) => UNCHANGED <<replacements, commits>>
           /\ \A b, c \in Bindings : NewReplacement(b, c) => UNCHANGED <<permits, dispatches, commits>>
  <1>1. \A b \in Bindings, o \in Owners :
           Acquire(t, b, o) => UNCHANGED <<replacements, permits, dispatches, commits>>
    BY DEF Acquire, AcquireNew, AcquireTakeover, AcquireRefused, pipeline
  <1>2. \A a \in replacements, o \in Owners :
           AcquireReplacement(t, a, o) => UNCHANGED <<permits, dispatches, commits>>
    BY DEF AcquireReplacement, pipeline
  <1>3. \A u \in tokens :
           /\ Renew(t, u) \/ Surrender(t, u)
                 => UNCHANGED <<replacements, permits, dispatches, commits>>
           /\ AuthorizeCommit(t, u) => UNCHANGED <<replacements, permits, dispatches>>
    BY DEF Renew, Surrender, AuthorizeCommit, pipeline
  <1>4. \A u \in tokens, d \in Deadlines :
           NewPreparedAttempt(t, u, d) => UNCHANGED <<replacements, permits, dispatches, commits>>
    BY DEF NewPreparedAttempt, Prepare
  <1>5. \A u \in tokens, a \in replacements :
           PrepareReplacementAttempt(t, a, u) => UNCHANGED <<permits, dispatches, commits>>
    BY DEF PrepareReplacementAttempt, Prepare
  <1>6. \A a \in attempts :
           NewDispatchAuthority(t, a) => UNCHANGED <<replacements, permits, dispatches, commits>>
    BY DEF NewDispatchAuthority
  <1>7. \A u \in tokens, d \in RpcTimeouts, a \in authorities :
           AuthorizeDispatch(t, u, d, a) => UNCHANGED <<replacements, dispatches, commits>>
    BY DEF AuthorizeDispatch
  <1>8. \A p \in permits : MarkAttemptDispatched(t, p) => UNCHANGED <<replacements, commits>>
    BY DEF MarkAttemptDispatched
  <1>9. \A b, c \in Bindings : NewReplacement(b, c) => UNCHANGED <<permits, dispatches, commits>>
    BY DEF NewReplacement, pipeline
  <1> QED BY <1>1, <1>2, <1>3, <1>4, <1>5, <1>6, <1>7, <1>8, <1>9

\* A replacement authority always moves one lineage forward.
LEMMA ReplacementsStep ==
    ASSUME TypeOK, ReplacementsOK, [Next]_vars
    PROVE  ReplacementsOK'
  <1>1. ASSUME NEW b \in Bindings, NEW c \in Bindings, NewReplacement(b, c)
        PROVE  ReplacementsOK'
    BY <1>1, ForwardPrecedes DEF NewReplacement, ReplacementsOK
  <1>2. ASSUME NEW t \in Times, NEW a \in replacements, NEW o \in Owners,
               AcquireReplacement(t, a, o)
        PROVE  ReplacementsOK'
    <2> DEFINE spent == [a EXCEPT !.use = "spent",
                                  !.transition = IF @ = NoTransition THEN @ ELSE 1]
    <2>1. spent.expected = a.expected /\ spent.replacement = a.replacement
      BY DEF TypeOK, LeaseReplacementAuthority
    <2>2. replacements' \subseteq replacements \cup {spent}
      BY <1>2 DEF AcquireReplacement
    <2> HIDE DEF spent
    <2> QED BY <2>1, <2>2 DEF ReplacementsOK
  <1>3. ASSUME NEW t \in Times, NEW u \in tokens, NEW a \in replacements,
               PrepareReplacementAttempt(t, a, u)
        PROVE  ReplacementsOK'
    <2> DEFINE spent == [a EXCEPT !.transition = 2]
    <2>1. spent.expected = a.expected /\ spent.replacement = a.replacement
      BY DEF TypeOK, LeaseReplacementAuthority
    <2>2. replacements' \subseteq replacements \cup {spent}
      BY <1>3 DEF PrepareReplacementAttempt
    <2> HIDE DEF spent
    <2> QED BY <2>1, <2>2 DEF ReplacementsOK
  <1>4. CASE UNCHANGED replacements
    BY <1>4 DEF ReplacementsOK
  <1> QED
    BY <1>1, <1>2, <1>3, <1>4, Frames DEF Next, vars

\* A permit after a step has the window of an earlier permit, or one that lies
\* inside the live lease it was authorized under.
LEMMA PermitOrigin ==
    ASSUME TypeOK, PermitsOK, [Next]_vars, NEW p \in permits'
    PROVE  /\ p.token \in tokens /\ p.deadline \in Nat
           /\ WindowOK(p.token, p.deadline, rows[p.token.binding.row])
  <1>0. \A q \in permits : q.deadline \in Nat
    BY DEF TypeOK, DispatchPermit
  <1>1. CASE UNCHANGED permits
    BY <1>0, <1>1 DEF PermitsOK
  <1>2. ASSUME NEW t \in Times, NEW u \in tokens, NEW d \in RpcTimeouts,
               NEW a \in authorities, AuthorizeDispatch(t, u, d, a)
        PROVE  /\ p.token \in tokens /\ p.deadline \in Nat
               /\ WindowOK(p.token, p.deadline, rows[p.token.binding.row])
    <2>1. CASE p \in permits
      BY <1>0, <2>1 DEF PermitsOK
    <2>2. CASE p \notin permits
      <3>1. DispatchAuthorized(t, u, d, a) /\ p.token = u /\ p.deadline = t + d
        BY <1>2, <2>2 DEF AuthorizeDispatch
      <3>2. currentRow(t, u) /\ DispatchWindowOpen(t, d, u)
        BY <3>1 DEF DispatchAuthorized
      <3>3. /\ t + d \in Nat /\ rows[u.binding.row].expiresAt \in Nat
            /\ rows[u.binding.row].fence \in Nat /\ DispatchSafetyMargin \in Nat
        BY <3>2, CurrentRow, ConstantsAssumption DEF TypeOK, leaseRow
      <3> QED BY <3>1, <3>2, <3>3, CurrentRow, SMTT(30) DEF WindowOK, DispatchWindowOpen
    <2> QED BY <2>1, <2>2
  <1>3. ASSUME NEW t \in Times, NEW q \in permits, MarkAttemptDispatched(t, q)
        PROVE  /\ p.token \in tokens /\ p.deadline \in Nat
               /\ WindowOK(p.token, p.deadline, rows[p.token.binding.row])
    <2> DEFINE spent == [q EXCEPT !.use = "spent"]
    <2>1. spent.token = q.token /\ spent.deadline = q.deadline
      BY DEF TypeOK, DispatchPermit
    <2>2. permits' \subseteq permits \cup {spent}
      BY <1>3 DEF MarkAttemptDispatched
    <2> HIDE DEF spent
    <2> QED BY <1>0, <2>1, <2>2 DEF PermitsOK
  <1> QED
    BY <1>1, <1>2, <1>3, Frames DEF Next, vars

\* A new dispatch is of the live grant of its lineage, at a time observed in the
\* same step, within the window of a permit.
LEMMA DispatchOrigin ==
    ASSUME TypeOK, PermitsOK, [Next]_vars, NEW d \in dispatches', d \notin dispatches
    PROVE  /\ Quiet
           /\ d.token \in tokens /\ d.deadline \in Nat
           /\ WindowOK(d.token, d.deadline, rows[d.token.binding.row])
           /\ d.at \in Times /\ currentRow(d.at, d.token)
           /\ d.at >= rows[d.token.binding.row].observedAt
           /\ rows'[d.token.binding.row].observedAt = d.at
           /\ dispatches' = dispatches \cup {d}
  <1>1. PICK t \in Times, p \in permits : MarkAttemptDispatched(t, p)
    BY Frames DEF Next, vars
  <1>2. /\ currentRow(t, p.token)
        /\ dispatches' = dispatches \cup
             {[permit |-> p.cell, token |-> p.token, at |-> t, deadline |-> p.deadline]}
        /\ CanObserve(p.token.binding.row, t) /\ rows' = Observed(p.token.binding.row, t)
        /\ UNCHANGED <<tokens, surrendered>>
    BY <1>1 DEF MarkAttemptDispatched
  <1>3. d = [permit |-> p.cell, token |-> p.token, at |-> t, deadline |-> p.deadline]
    BY <1>2
  <1>4. d.token = p.token /\ d.at = t /\ d.deadline = p.deadline
    BY <1>3
  <1>5. p.deadline \in Nat /\ p.token \in tokens /\ p.token.binding.row \in RowKeys
    BY BindingRow DEF TypeOK, DispatchPermit, LeaseToken, PermitsOK
  <1>6. Quiet
    BY <1>2, <1>5, ObservedQuiet
  <1>7. rows'[p.token.binding.row].observedAt = t
    BY <1>2, <1>5 DEF Observed, TypeOK, leaseRow
  <1> QED BY <1>2, <1>3, <1>4, <1>5, <1>6, <1>7 DEF PermitsOK, CanObserve

\* The dispatches stay in order, and the windows of successive grants disjoint.
LEMMA DispatchesStep ==
    ASSUME TypeOK, TypeOK', RowsOK, TokensOK, FenceIdentifiesGrant, PermitsOK,
           DispatchesOK, DispatchWindowsDisjoint, Kind, [Next]_vars
    PROVE  DispatchesOK' /\ DispatchWindowsDisjoint'
  <1>k. \A u \in tokens : u.binding.row \in RowKeys /\ u.fence \in Nat /\ u.fence >= 1
    BY BindingRow DEF TypeOK, LeaseToken
  <1>n. \A k \in RowKeys : /\ rows[k].fence \in Nat /\ rows[k].observedAt \in Nat
                            /\ rows'[k].observedAt \in Nat /\ rows[k].acquiredAt \in Nat
    BY DEF TypeOK, leaseRow
  <1>d. \A d \in dispatches' : d.deadline \in Nat /\ d.at \in Nat
    BY DEF TypeOK, Dispatch
  <1>c. DispatchSafetyMargin \in Nat /\ Times \subseteq Nat
    BY ConstantsAssumption
  <1>t. tokens \subseteq tokens' /\ surrendered \subseteq surrendered'
    BY DEF Kind, Quiet, Granted, Renewed, Surrendered
  <1>o. \A k \in RowKeys : rows[k].observedAt <= rows'[k].observedAt
    <2>1. CASE Quiet
      BY <2>1, <1>n DEF Quiet
    <2>2. ASSUME NEW b \in Bindings, NEW o \in Owners, NEW t \in Times, Granted(b, o, t)
          PROVE  \A k \in RowKeys : rows[k].observedAt <= rows'[k].observedAt
      <3>1. t >= rows[b.row].observedAt
        BY <2>2 DEF Granted
      <3>2. /\ b.row \in RowKeys /\ rows'[b.row] = ownedRow(b, o, rows[b.row].fence + 1, t)
            /\ \A k \in RowKeys : k # b.row => rows'[k] = rows[k]
        BY <2>2, GrantedRow
      <3>3. rows'[b.row].observedAt = t
        BY <3>2, OwnedRowFields
      <3> QED BY <3>1, <3>2, <3>3, <1>n, <1>c
    <2>3. ASSUME NEW u \in tokens, NEW t \in Times, Renewed(u, t)
          PROVE  \A k \in RowKeys : rows[k].observedAt <= rows'[k].observedAt
      BY <2>3, <1>k, <1>n, <1>c DEF Renewed, TypeOK, leaseRow
    <2>4. ASSUME NEW u \in tokens, NEW t \in Times, Surrendered(u, t)
          PROVE  \A k \in RowKeys : rows[k].observedAt <= rows'[k].observedAt
      BY <2>4, <1>k, <1>n, <1>c DEF Surrendered, TypeOK, leaseRow
    <2> QED BY <2>1, <2>2, <2>3, <2>4 DEF Kind
  <1>1. DispatchesOK'
    <2> SUFFICES ASSUME NEW d \in dispatches'
                 PROVE  /\ d.token \in tokens'
                        /\ WindowOK(d.token, d.deadline, rows[d.token.binding.row])'
                        /\ d.at <= rows'[d.token.binding.row].observedAt
      BY DEF DispatchesOK
    <2>1. CASE d \in dispatches
      <3>1. /\ d.token \in tokens /\ d.at <= rows[d.token.binding.row].observedAt
            /\ WindowOK(d.token, d.deadline, rows[d.token.binding.row])
        BY <2>1 DEF DispatchesOK
      <3>2. WindowOK(d.token, d.deadline, rows[d.token.binding.row])'
        BY <3>1, <1>d, WindowStep
      <3>3. PICK k \in RowKeys : k = d.token.binding.row
        BY <1>k, <3>1
      <3>4. d.at <= rows[k].observedAt /\ rows[k].observedAt <= rows'[k].observedAt
        BY <1>o, <3>1, <3>3
      <3>5. d.at \in Nat /\ rows[k].observedAt \in Nat /\ rows'[k].observedAt \in Nat
        BY <1>n, <1>d
      <3>6. d.at <= rows'[k].observedAt
        BY <3>4, <3>5
      <3> QED BY <3>1, <3>2, <3>3, <3>6, <1>t
    <2>2. CASE d \notin dispatches
      <3>1. /\ d.token \in tokens /\ d.at = rows'[d.token.binding.row].observedAt
            /\ WindowOK(d.token, d.deadline, rows[d.token.binding.row])
        BY <2>2, DispatchOrigin
      <3>2. WindowOK(d.token, d.deadline, rows[d.token.binding.row])'
        BY <3>1, <1>d, WindowStep
      <3> QED BY <3>1, <3>2, <1>t, <1>d
    <2> QED BY <2>1, <2>2
  <1>2. DispatchWindowsDisjoint'
    <2> SUFFICES ASSUME NEW d \in dispatches', NEW e \in dispatches',
                        SameRow(d.token, e.token), d.token.fence < e.token.fence
                 PROVE  /\ d.at <= e.at
                        /\ \/ d.token \in surrendered'
                           \/ d.deadline + DispatchSafetyMargin < e.at
      BY DEF DispatchWindowsDisjoint
    <2>1. CASE d \in dispatches /\ e \in dispatches
      BY <2>1, <1>t DEF DispatchWindowsDisjoint
    <2>2. CASE e \notin dispatches
      <3> DEFINE k == e.token.binding.row
      <3>1. /\ e.token \in tokens /\ e.at \in Times /\ currentRow(e.at, e.token)
            /\ e.at >= rows[k].observedAt /\ dispatches' = dispatches \cup {e}
        BY <2>2, DispatchOrigin
      <3>2. k \in RowKeys /\ rows[k].fence = e.token.fence
        BY <3>1, CurrentRow
      <3>3. d \in dispatches
        BY <3>1, <3>2, <1>n, SMTT(30)
      <3>4. /\ d.at <= rows[k].observedAt
            /\ d.token \in surrendered \/ d.deadline + DispatchSafetyMargin < rows[k].acquiredAt
        BY <3>2, <3>3 DEF DispatchesOK, WindowOK, SameRow
      <3>5. rows[k].acquiredAt <= rows[k].observedAt
        <4>1. Exists(k)
          BY <3>1, <3>2, <1>k DEF Exists
        <4> QED BY <4>1, <3>2 DEF RowsOK, RowOK
      <3>6. /\ rows[k].observedAt \in Nat /\ rows[k].acquiredAt \in Nat /\ e.at \in Nat
            /\ d.at \in Nat /\ d.deadline \in Nat /\ DispatchSafetyMargin \in Nat
        BY <3>2, <3>3, <1>n, <1>d, <1>c
      <3>7. d.at <= e.at
        BY <3>1, <3>4, <3>6
      <3>8. d.deadline + DispatchSafetyMargin < rows[k].acquiredAt =>
              d.deadline + DispatchSafetyMargin < e.at
        BY <3>1, <3>5, <3>6
      <3> QED BY <3>4, <3>7, <3>8, <1>t
    <2>3. CASE d \notin dispatches /\ e \in dispatches
      <3>1. d.token \in tokens /\ currentRow(d.at, d.token) /\ d.at \in Times
        BY <2>3, DispatchOrigin
      <3>2. rows[d.token.binding.row].fence = d.token.fence /\ d.token.binding.row \in RowKeys
        BY <3>1, CurrentRow
      <3>3. e.token \in tokens /\ e.token.fence <= rows[e.token.binding.row].fence
        BY <2>3 DEF DispatchesOK, TokensOK, TokenOK
      <3> QED BY <3>1, <3>2, <3>3, <1>k, <1>n, SMTT(30) DEF SameRow
    <2> QED BY <2>1, <2>2, <2>3
  <1> QED BY <1>1, <1>2

\* A new table satisfies the invariant.
LEMMA InvInit == Init => IInv
  <1> SUFFICES ASSUME Init PROVE IInv
    OBVIOUS
  <1>1. TypeOK
    BY TypeInit
  <1>2. RowsOK
    BY DEF Init, RowsOK, RowOK, Exists, zeroRow
  <1> QED
    BY <1>1, <1>2
    DEF Init, IInv, TokensOK, ReplacementsOK, PermitsOK, DispatchesOK,
        FenceIdentifiesGrant, BindingsMoveForward, DispatchWindowsDisjoint

\* Every call preserves the invariant.
LEMMA InvStep == IInv /\ [Next]_vars => IInv'
  <1> SUFFICES ASSUME IInv, [Next]_vars PROVE IInv'
    OBVIOUS
  <1> USE DEF IInv
  <1>1. TypeOK'
    BY TypeStep
  <1>2. Kind
    BY StepKind
  <1>3. RowsOK'
    BY <1>1, <1>2, RowsStep
  <1>4. TokensOK' /\ FenceIdentifiesGrant' /\ BindingsMoveForward'
    BY <1>2, TokensStep
  <1>5. ReplacementsOK'
    BY ReplacementsStep
  <1>6. PermitsOK'
    <2>1. tokens \subseteq tokens'
      BY <1>2 DEF Kind, Quiet, Granted, Renewed, Surrendered
    <2> SUFFICES ASSUME NEW p \in permits'
                 PROVE  /\ p.token \in tokens'
                        /\ WindowOK(p.token, p.deadline, rows[p.token.binding.row])'
      BY DEF PermitsOK
    <2>2. /\ p.token \in tokens /\ p.deadline \in Nat
          /\ WindowOK(p.token, p.deadline, rows[p.token.binding.row])
      BY PermitOrigin
    <2> QED BY <1>2, <2>1, <2>2, WindowStep
  <1>7. DispatchesOK' /\ DispatchWindowsDisjoint'
    BY <1>1, <1>2, DispatchesStep
  <1> QED BY <1>1, <1>3, <1>4, <1>5, <1>6, <1>7

\* The invariant the properties below follow from holds in every state.
THEOREM Invariance == Spec => []IInv
  BY InvInit, InvStep, PTL DEF Spec

-----------------------------------------------------------------------------
(* The properties *)

\* A fence of a lineage names one grant (Acquire, AcquireReplacement, Renew).
THEOREM FencesIdentifyGrants == Spec => []FenceIdentifiesGrant
  BY Invariance, PTL DEF IInv

\* The grants of a lineage never go back to an older generation or plan revision.
THEOREM GrantsMoveForward == Spec => []BindingsMoveForward
  BY Invariance, PTL DEF IInv

\* Provider calls of successive owners do not overlap, whatever renewals happen
\* in between, unless the earlier owner surrendered.
THEOREM WindowsDisjoint == Spec => []DispatchWindowsDisjoint
  BY Invariance, PTL DEF IInv

\* An owner's token, and its permits, stay valid while its row is live.
THEOREM LiveGrantsValid == Spec => []LiveGrantsStayValid
  <1>1. IInv => LiveGrantsStayValid
    <2> SUFFICES ASSUME IInv PROVE LiveGrantsStayValid
      OBVIOUS
    <2>1. ASSUME NEW p \in permits, tokenFromRow(rows[p.token.binding.row]) = p.token
          PROVE  p.deadline + DispatchSafetyMargin < rows[p.token.binding.row].expiresAt
      <3>1. p.token.ownerID \in Owners /\ p.token.binding.row \in RowKeys
        BY BindingRow DEF IInv, TypeOK, DispatchPermit, LeaseToken
      <3>2. /\ rows[p.token.binding.row].ownerID # NoOwner
            /\ rows[p.token.binding.row].fence = p.token.fence
        <4>1. PICK r, u : r = rows[p.token.binding.row] /\ u = p.token /\ tokenFromRow(r) = u
          BY <2>1
        <4>2. u.ownerID = r.ownerID /\ u.fence = r.fence
          BY <4>1 DEF tokenFromRow
        <4> QED BY <3>1, <4>1, <4>2, ConstantsAssumption
      <3> QED BY <3>2 DEF IInv, PermitsOK, WindowOK
    <2> QED BY <2>1 DEF IInv, RowsOK, RowOK, LiveGrantsStayValid
  <1> QED BY <1>1, Invariance, PTL

\* A call never lowers a fence or a clock, and moves a row to another owner or
\* binding only under the next fence.
THEOREM FencesAdvance == Spec => FencesOnlyAdvance
  <1>1. IInv /\ [Next]_vars => [\A k \in RowKeys : RowStep(k)]_vars
    <2> SUFFICES ASSUME IInv, [Next]_vars, NEW k \in RowKeys PROVE RowStep(k)
      OBVIOUS
    <2>1. Kind
      BY StepKind DEF IInv
    <2>2. TypeOK /\ rows[k] \in leaseRow /\ rows[k].fence \in Nat /\ rows[k].observedAt \in Nat
      BY DEF IInv, TypeOK, leaseRow
    <2>k. \A u \in tokens : u.binding.row \in RowKeys
      BY BindingRow DEF IInv, TypeOK, LeaseToken
    <2>c. Times \subseteq Nat
      BY ConstantsAssumption
    <2>3. CASE Quiet
      BY <2>2, <2>3 DEF Quiet, RowStep
    <2>4. ASSUME NEW b \in Bindings, NEW o \in Owners, NEW t \in Times, Granted(b, o, t)
          PROVE  RowStep(k)
      <3>1. t >= rows[b.row].observedAt
        BY <2>4 DEF Granted
      <3>2. /\ b.row \in RowKeys /\ rows'[b.row] = ownedRow(b, o, rows[b.row].fence + 1, t)
            /\ k # b.row => rows'[k] = rows[k]
        BY <2>2, <2>4, GrantedRow
      <3>3. rows'[b.row].observedAt = t /\ rows'[b.row].fence = rows[b.row].fence + 1
        <4>1. PICK r : r = rows'[b.row] /\ r = ownedRow(b, o, rows[b.row].fence + 1, t)
          BY <3>2
        <4>2. r.observedAt = t /\ r.fence = rows[b.row].fence + 1
          BY <4>1, RowIsOwned
        <4> QED BY <4>1, <4>2
      <3>4. CASE k = b.row
        <4>1. rows[k].fence \in Nat /\ rows[k].fence + 1 # rows[k].fence
          BY <2>2
        <4> QED BY <3>1, <3>3, <3>4, <4>1 DEF RowStep
      <3>5. CASE k # b.row
        <4>1. rows'[k] = rows[k] /\ rows[k].observedAt \in Nat
          BY <3>2, <3>5, <2>2
        <4> QED BY <4>1 DEF RowStep
      <3> QED BY <3>4, <3>5
    <2>5. ASSUME NEW u \in tokens, NEW t \in Times, Renewed(u, t)
          PROVE  RowStep(k)
      <3>1. t >= rows[u.binding.row].observedAt
        BY <2>5 DEF Renewed
      <3>2. rows'[k] = IF k = u.binding.row
                       THEN [rows[k] EXCEPT !.expiresAt = t + StoreLeaseDuration, !.observedAt = t]
                       ELSE rows[k]
        BY <2>5, <2>2, <2>k DEF Renewed, TypeOK
      <3> QED BY <3>1, <3>2, <2>2, <2>c DEF RowStep, leaseRow
    <2>6. ASSUME NEW u \in tokens, NEW t \in Times, Surrendered(u, t)
          PROVE  RowStep(k)
      <3>1. t >= rows[u.binding.row].observedAt
        BY <2>6 DEF Surrendered
      <3>2. rows'[k] = IF k = u.binding.row
                       THEN [rows[k] EXCEPT !.ownerID = NoOwner, !.expiresAt = t, !.observedAt = t]
                       ELSE rows[k]
        BY <2>6, <2>2, <2>k DEF Surrendered, TypeOK
      <3> QED BY <3>1, <3>2, <2>2, <2>c DEF RowStep, leaseRow
    <2> QED BY <2>1, <2>3, <2>4, <2>5, <2>6 DEF Kind
  <1> QED BY <1>1, Invariance, PTL DEF Spec, FencesOnlyAdvance

\* Once a later owner has a token no earlier one dispatches or commits.
THEOREM NewestGrantActs == Spec => OnlyNewestGrantActs
  <1> DEFINE A == /\ \A d \in dispatches' \ dispatches :
                        Newest(d.token.binding.row, d.token.fence)
                  /\ \A u \in commits' \ commits : Newest(u.binding.row, u.fence)
  <1>0. ASSUME IInv, NEW t \in Times, NEW u \in tokens, currentRow(t, u)
        PROVE  Newest(u.binding.row, u.fence)
    <2>1. rows[u.binding.row].fence = u.fence
      BY <1>0, CurrentRow DEF IInv
    <2> QED BY <1>0, <2>1 DEF Newest, IInv, TokensOK, TokenOK
  <1>1. IInv /\ [Next]_vars => [A]_vars
    <2> SUFFICES ASSUME IInv, [Next]_vars PROVE A
      OBVIOUS
    <2>1. ASSUME NEW d \in dispatches' \ dispatches
          PROVE  Newest(d.token.binding.row, d.token.fence)
      <3>1. d.token \in tokens /\ d.at \in Times /\ currentRow(d.at, d.token)
        BY DispatchOrigin DEF IInv
      <3> QED BY <3>1, <1>0
    <2>2. ASSUME NEW u \in commits' \ commits
          PROVE  Newest(u.binding.row, u.fence)
      <3>1. PICK t \in Times, v \in tokens : AuthorizeCommit(t, v)
        BY Frames DEF Next, vars
      <3>2. u = v /\ currentRow(t, v)
        BY <3>1 DEF AuthorizeCommit
      <3> QED BY <3>2, <1>0
    <2> QED BY <2>1, <2>2
  <1> QED BY <1>1, Invariance, PTL DEF Spec, OnlyNewestGrantActs

-----------------------------------------------------------------------------
(* Refinement of fenced ownership *)

absFence == [k \in RowKeys |-> rows[k].fence]
absHolder == [k \in RowKeys |-> rows[k].ownerID]

\* A quiet step in which the only new actor, if any, is the current holder.
LEMMA QuietRefines ==
    ASSUME IInv, Quiet, NEW t \in Times,
           \/ acted' = acted
           \/ \E u \in tokens : /\ currentRow(t, u)
                                 /\ acted' = acted \cup {<<u.binding.row, u.fence>>}
    PROVE  [Fenced!Next]_<<absFence, absHolder, acted>>
  <1>1. absFence' = absFence /\ absHolder' = absHolder
    BY DEF Quiet, absFence, absHolder
  <1>2. CASE acted' = acted
    BY <1>1, <1>2
  <1>3. ASSUME NEW u \in tokens, currentRow(t, u),
               acted' = acted \cup {<<u.binding.row, u.fence>>}
        PROVE  Fenced!Next
    <2> DEFINE k == u.binding.row
    <2>1. /\ k \in RowKeys /\ rows[k].ownerID # NoOwner /\ rows[k].fence = u.fence
      BY <1>3, CurrentRow DEF IInv
    <2>2. absHolder[k] # NoOwner /\ absFence[k] = u.fence
      BY <2>1 DEF absHolder, absFence
    <2>3. Fenced!Act(k)
      BY <1>1, <1>3, <2>2 DEF Fenced!Act, absFence, absHolder
    <2> QED BY <2>1, <2>3 DEF Fenced!Next
  <1> QED BY <1>2, <1>3

\* A grant takes the next fence of its lineage.
LEMMA GrantRefines ==
    ASSUME IInv, NEW b \in Bindings, NEW o \in Owners, NEW t \in Times, Granted(b, o, t)
    PROVE  Fenced!Next
  <1>1. /\ b.row \in RowKeys /\ rows'[b.row] = ownedRow(b, o, rows[b.row].fence + 1, t)
        /\ \A k \in RowKeys : k # b.row => rows'[k] = rows[k]
    BY GrantedRow DEF IInv
  <1>2. rows'[b.row].fence = rows[b.row].fence + 1 /\ rows'[b.row].ownerID = o
    <2>1. PICK r : r = rows'[b.row] /\ r = ownedRow(b, o, rows[b.row].fence + 1, t)
      BY <1>1
    <2>2. r.fence = rows[b.row].fence + 1 /\ r.ownerID = o
      BY <2>1, RowIsOwned
    <2> QED BY <2>1, <2>2
  <1>3. acted' = acted /\ rows[b.row].fence < MaxFence
    BY DEF Granted, acted
  <1>4. absFence' = [absFence EXCEPT ![b.row] = @ + 1]
    BY <1>1, <1>2 DEF absFence
  <1>5. absHolder' = [absHolder EXCEPT ![b.row] = o]
    BY <1>1, <1>2 DEF absHolder
  <1>6. Fenced!Grant(b.row, o)
    BY <1>1, <1>3, <1>4, <1>5 DEF Fenced!Grant, absFence, absHolder
  <1> QED BY <1>1, <1>6 DEF Fenced!Next

\* A renewal is invisible.
LEMMA RenewRefines ==
    ASSUME IInv, NEW u \in tokens, NEW t \in Times, Renewed(u, t)
    PROVE  UNCHANGED <<absFence, absHolder, acted>>
  <1>1. u.binding.row \in RowKeys
    BY BindingRow DEF IInv, TypeOK, LeaseToken
  <1>2. \A k \in RowKeys : rows'[k].fence = rows[k].fence /\ rows'[k].ownerID = rows[k].ownerID
    BY <1>1 DEF Renewed, IInv, TypeOK, leaseRow
  <1>3. acted' = acted
    BY DEF Renewed, acted
  <1> QED BY <1>2, <1>3 DEF absFence, absHolder

\* A surrender releases the lineage.
LEMMA SurrenderRefines ==
    ASSUME IInv, NEW u \in tokens, NEW t \in Times, Surrendered(u, t)
    PROVE  Fenced!Next
  <1> DEFINE j == u.binding.row
  <1>1. j \in RowKeys /\ rows[j].ownerID # NoOwner
    BY CurrentRow DEF IInv, Surrendered
  <1>2. /\ \A k \in RowKeys : k # j => rows'[k] = rows[k]
        /\ rows'[j] = [rows[j] EXCEPT !.ownerID = NoOwner, !.expiresAt = t, !.observedAt = t]
        /\ rows[j] \in leaseRow
    BY <1>1 DEF Surrendered, IInv, TypeOK
  <1>3. rows'[j].fence = rows[j].fence /\ rows'[j].ownerID = NoOwner
    BY <1>2 DEF leaseRow
  <1>4. acted' = acted
    BY DEF Surrendered, acted
  <1>5. absFence' = absFence
    BY <1>2, <1>3 DEF absFence
  <1>6. absHolder' = [absHolder EXCEPT ![j] = NoOwner] /\ absHolder[j] # NoOwner
    BY <1>1, <1>2, <1>3 DEF absHolder
  <1>7. Fenced!Release(j)
    BY <1>4, <1>5, <1>6 DEF Fenced!Release, absFence, absHolder
  <1> QED BY <1>1, <1>7 DEF Fenced!Next

\* Every step of the table is a step of fenced ownership or invisible to it.
LEMMA StepRefines ==
    ASSUME IInv, [Next]_vars
    PROVE  [Fenced!Next]_<<absFence, absHolder, acted>>
  <1>1. Kind
    BY StepKind DEF IInv
  <1>2. CASE UNCHANGED <<dispatches, commits>>
    <2>1. acted' = acted
      BY <1>2 DEF acted
    <2>2. CASE Quiet
      <3>1. absFence' = absFence /\ absHolder' = absHolder
        BY <2>2 DEF Quiet, absFence, absHolder
      <3> QED BY <2>1, <3>1
    <2> QED BY <1>1, <2>2, GrantRefines, RenewRefines, SurrenderRefines DEF Kind
  <1>3. ASSUME NEW t \in Times, NEW u \in tokens, AuthorizeCommit(t, u)
        PROVE  [Fenced!Next]_<<absFence, absHolder, acted>>
    <2>1. Quiet
      <3>1. u.binding.row \in RowKeys
        BY BindingRow DEF IInv, TypeOK, LeaseToken
      <3> QED BY <1>3, <3>1, ObservedQuiet DEF AuthorizeCommit, IInv
    <2>2. CASE currentRow(t, u)
      <3>1. acted' = acted \cup {<<u.binding.row, u.fence>>}
        <4>1. commits' = commits \cup {u} /\ dispatches' = dispatches
          BY <1>3, <2>2 DEF AuthorizeCommit, pipeline
        <4> QED BY <4>1 DEF acted
      <3> QED BY <2>1, <2>2, <3>1, QuietRefines
    <2>3. CASE ~currentRow(t, u)
      <3>1. acted' = acted
        <4>1. commits' = commits /\ dispatches' = dispatches
          BY <1>3, <2>3 DEF AuthorizeCommit, pipeline
        <4> QED BY <4>1 DEF acted
      <3> QED BY <2>1, <3>1, QuietRefines
    <2> QED BY <2>2, <2>3
  <1>4. ASSUME NEW t \in Times, NEW p \in permits, MarkAttemptDispatched(t, p)
        PROVE  [Fenced!Next]_<<absFence, absHolder, acted>>
    <2>1. UNCHANGED commits
      BY <1>4 DEF MarkAttemptDispatched
    <2>2. CASE UNCHANGED dispatches
      BY <1>2, <2>1, <2>2
    <2>3. ASSUME NEW d \in dispatches', d \notin dispatches
          PROVE  [Fenced!Next]_<<absFence, absHolder, acted>>
      <3>1. /\ Quiet /\ d.token \in tokens /\ d.at \in Times /\ currentRow(d.at, d.token)
            /\ dispatches' = dispatches \cup {d}
        BY <2>3, DispatchOrigin DEF IInv
      <3>2. acted' = acted \cup {<<d.token.binding.row, d.token.fence>>}
        BY <2>1, <3>1 DEF acted
      <3> QED BY <3>1, <3>2, QuietRefines
    <2>4. dispatches \subseteq dispatches'
      BY <1>4 DEF MarkAttemptDispatched
    <2> QED BY <2>2, <2>3, <2>4
  <1> QED BY <1>2, <1>3, <1>4, Frames DEF Next, vars

\* The lease table implements fenced ownership.
THEOREM Refinement == Spec => FencedOwnershipSpec
  <1>1. Init => Fenced!Init
    <2> SUFFICES ASSUME Init PROVE Fenced!Init
      OBVIOUS
    <2>1. \A k \in RowKeys : rows[k] = zeroRow
      BY DEF Init
    <2>2. zeroRow.fence = 0 /\ zeroRow.ownerID = NoOwner
      BY DEF zeroRow
    <2>3. acted = {}
      BY DEF Init, acted
    <2> QED BY <2>1, <2>2, <2>3 DEF Fenced!Init
  <1>2. IInv /\ [Next]_vars =>
           [Fenced!Next]_<<[k \in RowKeys |-> rows[k].fence],
                           [k \in RowKeys |-> rows[k].ownerID], acted>>
    BY StepRefines DEF absFence, absHolder
  <1> QED BY <1>1, <1>2, Invariance, PTL DEF Spec, FencedOwnershipSpec, Fenced!Spec

-----------------------------------------------------------------------------
(* One-use capabilities *)

\* A use cell belongs to one authority or permit; what an authority or a permit
\* was exchanged for shows in its cell; an admission goes live with its row.
CellsOK ==
    /\ \A a, b \in authorities : a.cell = b.cell => a = b
    /\ \A p, q \in permits : p.cell = q.cell \/ p.authority = q.authority => p = q
    /\ \A p \in permits : \E a \in authorities : a.cell = p.authority /\ a.use = "spent"
    /\ \A d \in dispatches : \E p \in permits : p.cell = d.permit /\ p.use = "spent"
    /\ \A d, e \in dispatches : d.permit = e.permit => d = e

AdmissionsOK ==
    \A a \in replacements :
        a.transition \in {1, 2} =>
            a.use = "spent" /\ \E u \in tokens : u.binding = a.replacement

\* A new authority has a cell of its own.
LEMMA AuthorityCells ==
    ASSUME TypeOK, CellsOK, NEW t \in Times, NEW a \in attempts, NewDispatchAuthority(t, a)
    PROVE  CellsOK'
  <1>1. PICK c \in FreshCells(authorities) :
           authorities' = authorities \cup
             {[cell |-> c, attempt |-> a, observedAt |-> t, use |-> "unused"]}
    BY DEF NewDispatchAuthority
  <1> DEFINE new == [cell |-> c, attempt |-> a, observedAt |-> t, use |-> "unused"]
  <1>2. authorities' = authorities \cup {new} /\ UNCHANGED <<permits, dispatches>>
    BY <1>1 DEF NewDispatchAuthority
  <1>3. \A b \in authorities : b.cell # new.cell
    BY DEF FreshCells
  <1> HIDE DEF new
  <1> QED BY <1>2, <1>3 DEF CellsOK

\* An authority is exchanged while its cell is unused, so no permit names it yet.
LEMMA ExchangeCells ==
    ASSUME TypeOK, CellsOK, NEW t \in Times, NEW u \in tokens, NEW d \in RpcTimeouts,
           NEW a \in authorities, AuthorizeDispatch(t, u, d, a)
    PROVE  CellsOK'
  <1>0. UNCHANGED dispatches
    BY DEF AuthorizeDispatch
  <1>1. CASE DispatchAuthorized(t, u, d, a)
    <2> DEFINE spent == [a EXCEPT !.use = "spent"]
               permit(c) == [cell |-> c, authority |-> a.cell, token |-> u,
                             attempt |-> a.attempt, authorizedAt |-> t,
                             deadline |-> t + d, use |-> "unused"]
    <2>1. PICK c \in FreshCells(permits) : permits' = permits \cup {permit(c)}
      BY <1>1 DEF AuthorizeDispatch
    <2> DEFINE new == permit(c)
    <2>2. authorities' = (authorities \ {a}) \cup {spent} /\ permits' = permits \cup {new}
      BY <1>1, <2>1 DEF AuthorizeDispatch
    <2>3. a.use = "unused" /\ spent.cell = a.cell /\ spent.use = "spent"
      BY <1>1 DEF DispatchAuthorized, TypeOK, DispatchAuthority
    <2>4. new.authority = a.cell /\ new.cell = c /\ \A p \in permits : p.cell # c
      BY DEF FreshCells
    <2> HIDE DEF spent, new
    <2>5. \A p \in permits : p.authority # a.cell
      BY <2>3 DEF CellsOK
    <2>6. \A b, e \in authorities' : b.cell = e.cell => b = e
      <3>1. \A b, e \in authorities : b.cell = e.cell => b = e
        BY DEF CellsOK
      <3>2. \A b \in authorities \ {a} : b.cell # spent.cell
        BY <2>3, <3>1
      <3> QED BY <2>2, <3>1, <3>2
    <2>7. \A p, q \in permits' : p.cell = q.cell \/ p.authority = q.authority => p = q
      BY <2>2, <2>4, <2>5, SMTT(30) DEF CellsOK
    <2>8. \A p \in permits' : \E b \in authorities' : b.cell = p.authority /\ b.use = "spent"
      BY <2>2, <2>3, <2>4 DEF CellsOK
    <2> QED BY <1>0, <2>2, <2>6, <2>7, <2>8 DEF CellsOK
  <1>2. CASE ~DispatchAuthorized(t, u, d, a)
    BY <1>0, <1>2 DEF AuthorizeDispatch, CellsOK
  <1> QED BY <1>1, <1>2

\* A permit is spent by its dispatch.
LEMMA DispatchCells ==
    ASSUME TypeOK, CellsOK, NEW t \in Times, NEW p \in permits, MarkAttemptDispatched(t, p)
    PROVE  CellsOK'
  <1>0. UNCHANGED authorities
    BY DEF MarkAttemptDispatched
  <1>1. CASE UNCHANGED <<permits, dispatches>>
    BY <1>0, <1>1 DEF CellsOK
  <1>2. CASE ~UNCHANGED <<permits, dispatches>>
    <2> DEFINE spent == [p EXCEPT !.use = "spent"]
               new == [permit |-> p.cell, token |-> p.token, at |-> t,
                       deadline |-> p.deadline]
    <2>1. /\ p.use = "unused" /\ permits' = (permits \ {p}) \cup {spent}
          /\ dispatches' = dispatches \cup {new}
      BY <1>2 DEF MarkAttemptDispatched
    <2>2. /\ spent.cell = p.cell /\ spent.authority = p.authority /\ spent.use = "spent"
          /\ new.permit = p.cell
      BY DEF TypeOK, DispatchPermit
    <2> HIDE DEF spent, new
    <2>3. \A d \in dispatches : d.permit # p.cell
      BY <2>1 DEF CellsOK
    <2>4. \A q, r \in permits' : q.cell = r.cell \/ q.authority = r.authority => q = r
      BY <2>1, <2>2 DEF CellsOK
    <2>5. \A q \in permits' : \E a \in authorities' : a.cell = q.authority /\ a.use = "spent"
      <3>1. \A q \in permits : \E a \in authorities : a.cell = q.authority /\ a.use = "spent"
        BY DEF CellsOK
      <3>2. \E a \in authorities : a.cell = spent.authority /\ a.use = "spent"
        BY <2>2, <3>1
      <3> QED BY <1>0, <2>1, <3>1, <3>2
    <2>6. \A d \in dispatches' : \E q \in permits' : q.cell = d.permit /\ q.use = "spent"
      BY <2>1, <2>2 DEF CellsOK
    <2>7. \A d, e \in dispatches' : d.permit = e.permit => d = e
      BY <2>1, <2>2, <2>3, SMTT(30) DEF CellsOK
    <2> QED BY <1>0, <2>4, <2>5, <2>6, <2>7 DEF CellsOK
  <1> QED BY <1>1, <1>2

\* An admission is opened in the step that makes its replacement row live.
LEMMA AdmissionsStep ==
    ASSUME TypeOK, AdmissionsOK, Kind, [Next]_vars
    PROVE  AdmissionsOK'
  <1>0. tokens \subseteq tokens'
    BY DEF Kind, Quiet, Granted, Renewed, Surrendered
  <1>1. ASSUME NEW b \in Bindings, NEW c \in Bindings, NewReplacement(b, c)
        PROVE  AdmissionsOK'
    BY <1>0, <1>1 DEF NewReplacement, AdmissionsOK, NoTransition
  <1>2. ASSUME NEW t \in Times, NEW a \in replacements, NEW o \in Owners,
               AcquireReplacement(t, a, o)
        PROVE  AdmissionsOK'
    <2>1. CASE UNCHANGED replacements
      BY <1>0, <2>1 DEF AdmissionsOK
    <2>2. CASE ~UNCHANGED replacements
      <3> DEFINE spent == [a EXCEPT !.use = "spent",
                                    !.transition = IF @ = NoTransition THEN @ ELSE 1]
                 row == ownedRow(a.replacement, o, NextFence(rows[a.expected.row].fence), t)
      <3>1. replacements' = (replacements \ {a}) \cup {spent} /\ Grant(row)
        BY <1>2, <2>2 DEF AcquireReplacement
      <3>2. spent.use = "spent" /\ spent.replacement = a.replacement
        BY DEF TypeOK, LeaseReplacementAuthority
      <3>3. tokenFromRow(row) \in tokens' /\ tokenFromRow(row).binding = a.replacement
        <4>1. tokenFromRow(row) \in tokens'
          BY <3>1 DEF Grant
        <4>2. row.binding = a.replacement
          <5>1. PICK r : r = row
            OBVIOUS
          <5>2. r.binding = a.replacement
            BY <5>1, RowIsOwned
          <5> QED BY <5>1, <5>2
        <4>3. tokenFromRow(row).binding = row.binding
          BY DEF tokenFromRow
        <4> QED BY <4>1, <4>2, <4>3
      <3> HIDE DEF spent, row
      <3> QED BY <1>0, <3>1, <3>2, <3>3 DEF AdmissionsOK
    <2> QED BY <2>1, <2>2
  <1>3. ASSUME NEW t \in Times, NEW u \in tokens, NEW a \in replacements,
               PrepareReplacementAttempt(t, a, u)
        PROVE  AdmissionsOK'
    <2> DEFINE spent == [a EXCEPT !.transition = 2]
    <2>1. spent.use = a.use /\ spent.replacement = a.replacement
      BY DEF TypeOK, LeaseReplacementAuthority
    <2>2. replacements' = (replacements \ {a}) \cup {spent} /\ a.transition = 1
      BY <1>3 DEF PrepareReplacementAttempt, AdmissionUsable
    <2> HIDE DEF spent
    <2> QED BY <1>0, <2>1, <2>2 DEF AdmissionsOK
  <1>4. CASE UNCHANGED replacements
    BY <1>0, <1>4 DEF AdmissionsOK
  <1> QED BY <1>1, <1>2, <1>3, <1>4, Frames DEF Next, vars

\* An authority yields one permit and a permit one dispatch, whoever copies them,
\* and an admission is usable only once its replacement row was won
\* (AuthorizeDispatch, MarkAttemptDispatched, AcquireReplacement).
THEOREM OneUse == Spec => []CapabilitiesUsedOnce
  <1>1. Init => CellsOK /\ AdmissionsOK
    BY DEF Init, CellsOK, AdmissionsOK
  <1>2. IInv /\ CellsOK /\ AdmissionsOK /\ [Next]_vars => (CellsOK /\ AdmissionsOK)'
    <2> SUFFICES ASSUME IInv, CellsOK, AdmissionsOK, [Next]_vars
                 PROVE  CellsOK' /\ AdmissionsOK'
      OBVIOUS
    <2>1. TypeOK
      BY DEF IInv
    <2>k. Kind
      BY StepKind DEF IInv
    <2>2. AdmissionsOK'
      BY <2>1, <2>k, AdmissionsStep
    <2>3. CASE UNCHANGED <<authorities, permits, dispatches>>
      <3>1. authorities' = authorities /\ permits' = permits /\ dispatches' = dispatches
        BY <2>3
      <3> QED BY <2>2, <3>1, Zenon DEF CellsOK
    <2>4. \/ UNCHANGED <<authorities, permits, dispatches>>
          \/ \E t \in Times :
                \/ \E a \in attempts : NewDispatchAuthority(t, a)
                \/ \E k \in tokens, d \in RpcTimeouts, a \in authorities :
                       AuthorizeDispatch(t, k, d, a)
                \/ \E p \in permits : MarkAttemptDispatched(t, p)
      <3>1. \A t \in Times, b \in Bindings, o \in Owners :
               Acquire(t, b, o) => UNCHANGED authorities
        BY DEF Acquire, AcquireNew, AcquireTakeover, AcquireRefused, pipeline
      <3>2. \A t \in Times, a \in replacements, o \in Owners :
               AcquireReplacement(t, a, o) => UNCHANGED authorities
        BY DEF AcquireReplacement, pipeline
      <3>3. \A t \in Times, u \in tokens :
               Renew(t, u) \/ Surrender(t, u) \/ AuthorizeCommit(t, u)
                 => UNCHANGED authorities
        BY DEF Renew, Surrender, AuthorizeCommit, pipeline
      <3>4. \A t \in Times, u \in tokens, d \in Deadlines :
               NewPreparedAttempt(t, u, d) => UNCHANGED authorities
        BY DEF NewPreparedAttempt, Prepare
      <3>5. \A t \in Times, u \in tokens, a \in replacements :
               PrepareReplacementAttempt(t, a, u) => UNCHANGED authorities
        BY DEF PrepareReplacementAttempt, Prepare
      <3>6. \A b, c \in Bindings : NewReplacement(b, c) => UNCHANGED authorities
        BY DEF NewReplacement, pipeline
      <3> QED BY <3>1, <3>2, <3>3, <3>4, <3>5, <3>6, Frames DEF Next, vars
    <2> QED BY <2>1, <2>2, <2>3, <2>4, AuthorityCells, ExchangeCells, DispatchCells
  <1>3. CellsOK /\ AdmissionsOK => CapabilitiesUsedOnce
    BY DEF CellsOK, AdmissionsOK, CapabilitiesUsedOnce
  <1> QED BY <1>1, <1>2, <1>3, Invariance, PTL DEF Spec

=============================================================================
