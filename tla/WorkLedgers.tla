----------------------------- MODULE WorkLedgers -----------------------------
(***************************************************************************)
(* The two ledgers kept per work key, side by side: a worker charges       *)
(* request units to the QueueBudget for the work it begins and completes   *)
(* in the DeliveryLedger.  They share their work keys and nothing else:    *)
(* each has its own mutex, and no call takes both, so every interleaving   *)
(* of their calls is possible.                                             *)
(***************************************************************************)
EXTENDS Integers, FiniteSets

CONSTANTS Works, Bindings, PlanDigest, Owners, maximum, MaxFence,
          Units, requestCap, maximumWork

ASSUME ConstantsAssumption ==
    /\ maximum \in Nat \ {0}
    /\ MaxFence \in Nat
    /\ DOMAIN PlanDigest = Works \cup Bindings

VARIABLES tokens, deliveries, accepted, completions,
          used, reserved, reservations, receipts

Delivery == INSTANCE DeliveryLedger WITH records <- deliveries
Queue == INSTANCE QueueBudgetProofs WITH records <- reservations

ASSUME QueueConstantsAssumption == Queue!ConstantsTyped

deliveryVars == <<tokens, deliveries, accepted, completions>>
queueVars == <<used, reserved, reservations, receipts>>
vars == <<deliveryVars, queueVars>>

Init == Delivery!Init /\ Queue!Init

Next ==
    \/ Delivery!Next /\ UNCHANGED queueVars
    \/ Queue!Next /\ UNCHANGED deliveryVars

Spec == Init /\ [][Next]_vars
-----------------------------------------------------------------------------
\* However often a work item is delivered, and in whatever order old and new
\* tokens arrive, each accepted delivery has a strictly newer fence than the ones
\* before and only the grant accepted last completes it (Begin, Complete).  The
\* unit counters agree with the reservations whichever of a late heartbeat and a
\* completion comes first, and never pass the cap (Reserve, Consume, Complete).
WorkAccounted ==
    /\ Delivery!AcceptedOncePerGrant
    /\ Delivery!CompletedByNewestGrant
    /\ Queue!CountersMatchRecords
    /\ Queue!CapHolds
=============================================================================
