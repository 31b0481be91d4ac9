----------------------------- MODULE QueueBudget -----------------------------
(***************************************************************************)
(* The request-unit budget of package reconciliation (queue.go).  Workers  *)
(* call Reserve, Consume and Complete in any order, with any reservation   *)
(* value Reserve ever returned: the receipts are copies, so a late         *)
(* heartbeat can present one after the work has completed.                 *)
(***************************************************************************)
EXTENDS Integers, FiniteSets

CONSTANTS
    Works,        \* work keys
    Units,        \* request units a call may name
    requestCap,
    maximumWork

VARIABLES
    used, reserved,
    records,   \* the reservation of each work key; total 0 when it has none
    receipts   \* every <<work, total>> Reserve has returned

vars == <<used, reserved, records, receipts>>

\* What the constants are; WorkLedgers assumes it.
ConstantsTyped ==
    /\ {requestCap, maximumWork} \subseteq Nat \ {0}
    /\ Units \subseteq Nat \ {0}
    /\ IsFiniteSet(Works)

QueueReservation ==
    [total : Nat, consumed : Nat, state : {"none", "open", "completed"}]

noReservation == [total |-> 0, consumed |-> 0, state |-> "none"]

Exists(work) == records[work] # noReservation

Len == Cardinality({w \in Works : Exists(w)})

Init ==
    /\ used = 0
    /\ reserved = 0
    /\ records = [w \in Works |-> noReservation]
    /\ receipts = {}

HasUnits(units) == units <= requestCap - used - reserved

HasRoom == Len < maximumWork

\* A repeated Reserve of open work for the same units returns the receipt again
\* and, like the refusals, changes nothing.
Reserve(work, units) ==
    /\ ~Exists(work)
    /\ HasRoom
    /\ HasUnits(units)
    /\ records' = [records EXCEPT ![work] =
          [total |-> units, consumed |-> 0, state |-> "open"]]
    /\ reserved' = reserved + units
    /\ receipts' = receipts \cup {<<work, units>>}
    /\ UNCHANGED used

CanConsume(work, total, units) ==
    /\ records[work].state = "open"
    /\ records[work].total = total
    /\ units <= records[work].total - records[work].consumed

Consume(work, total, units) ==
    /\ CanConsume(work, total, units)
    /\ records' = [records EXCEPT ![work].consumed = @ + units]
    /\ reserved' = reserved - units
    /\ used' = used + units
    /\ UNCHANGED receipts

Unconsumed(r) == r.total - r.consumed

Complete(work, total) ==
    /\ records[work].state = "open"
    /\ records[work].total = total
    /\ reserved' = reserved - Unconsumed(records[work])
    /\ records' = [records EXCEPT ![work].state = "completed"]
    /\ UNCHANGED <<used, receipts>>

Next ==
    \/ \E w \in Works, u \in Units : Reserve(w, u)
    \/ \E r \in receipts :
          \/ \E u \in Units : Consume(r[1], r[2], u)
          \/ Complete(r[1], r[2])

Spec == Init /\ [][Next]_vars
-----------------------------------------------------------------------------
\* The state has the types of the Go declarations; a reservation is charged for
\* no more than it reserved.
TypeOK ==
    /\ used \in Nat
    /\ reserved \in Int
    /\ records \in [Works -> QueueReservation]
    /\ receipts \subseteq Works \X Units
    /\ \A w \in Works : records[w].consumed <= records[w].total

\* Single request units, each the i-th of a work key: those the records were
\* charged, and those open records may still be charged.
ChargedUnits ==
    {q \in Works \X (1..requestCap) : q[2] <= records[q[1]].consumed}
OpenUnits ==
    {q \in Works \X (1..requestCap) :
        /\ records[q[1]].state = "open"
        /\ records[q[1]].consumed < q[2] /\ q[2] <= records[q[1]].total}

\* The counters agree with the records at all times, whichever of a heartbeat
\* and a completion comes first: used is what the records were charged, reserved
\* what open records may still be charged (Consume, Complete).
CountersMatchRecords ==
    /\ used = Cardinality(ChargedUnits)
    /\ reserved = Cardinality(OpenUnits)

\* The cap is hard: used and reserved units never add up to more, so every unit
\* an admitted work item may still need is there when it asks (Reserve).
CapHolds ==
    /\ used + reserved <= requestCap
    /\ Len <= maximumWork
=============================================================================
