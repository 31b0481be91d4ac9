------------------------- MODULE MCCredentialBroker -------------------------
(***************************************************************************)
(* Small instances of the session half of the credential broker, all of    *)
(* one connection, k.  A scenario says who calls what.                     *)
(*   "sessions"    one operation refreshes, another acquires: three        *)
(*                 flights compete for two session entries                 *)
(*   "revocation"  one operation acquires while the connection is revoked  *)
(*                 and the broker closed, and sessions expire              *)
(*   "rotation"    one operation acquires at the first generation while    *)
(*                 another rotates to the second and either is revoked     *)
(*   "progress"    two operations rotate and terminate, with uses of the   *)
(*                 leases a rotation hands out, under fairness             *)
(***************************************************************************)
EXTENDS CredentialBroker

CONSTANTS p1, Scenarios

VARIABLE scenario

a == [conn |-> "k", op |-> "a", gen |-> 1, source |-> "v1"]
b == [a EXCEPT !.op = "b"]
rotated == [b EXCEPT !.gen = 2, !.source = "v2"]

AllRequests == {a, b, rotated}

Scenario ==
    [sessions   |-> [calls |-> {}, acquires |-> {b}, refreshes |-> {a}, requests |-> {},
                     flights |-> 3, time |-> 0],
     revocation |-> [calls |-> {"Revoke", "Close"}, acquires |-> {a}, refreshes |-> {},
                     requests |-> {a}, flights |-> 2, time |-> 2],
     rotation   |-> [calls |-> {"Rotate", "Revoke"}, acquires |-> {a}, refreshes |-> {},
                     requests |-> {a, rotated}, flights |-> 2, time |-> 0],
     progress   |-> [calls |-> {"Rotate", "Terminate", "Use"}, acquires |-> {},
                     refreshes |-> {}, requests |-> {a, rotated}, flights |-> 2, time |-> 0]]

Makes(call) == call \in Scenario[scenario].calls
Starts(f) == f <= Scenario[scenario].flights
(* In "sessions" the second operation has one flight.                      *)
Spared(r) == scenario = "sessions" => \A f \in Ids : flight[f].req # r

MCInit == Init /\ scenario \in Scenarios

MCNext ==
    /\ UNCHANGED scenario
    /\ \/ now < Scenario[scenario].time /\ observeNowLocked
       \/ SweepExpired
       \/ \E r \in Scenario[scenario].acquires :
            \/ acquireHit(r)
            \/ acquireFlight(r, FALSE) /\ Starts(started') /\ Spared(r)
       \/ \E r \in Scenario[scenario].refreshes : acquireFlight(r, TRUE) /\ Starts(started')
       \/ \E r \in Scenario[scenario].requests :
            \/ Makes("Rotate") /\ Rotate(r) /\ Starts(started')
            \/ \E p \in Callers :
                 \/ Makes("Revoke") /\ (RevokeConnection(p, r) \/ rejoinRevocation(p, r))
                 \/ Makes("Terminate") /\ terminateOperation(p, r)
       \/ \E p \in Callers : (Makes("Close") /\ BrokerClose(p)) \/ returnCleanup(p)
       \/ \E o \in Callers \cup Ids : publishCancellations(o)
       \/ \E c \in Ids :
            \/ destroy(c) \/ LeaseClose(c)
            \/ Makes("Use") /\ (Use(c) \/ finishUse(c))
            \/ waitSessionFlight(c) \/ leaveSessionFlight(c) \/ cancelRotationWaiter(c)
            \/ FlightStep(c) \/ RevocationStep(c)

MCSpec == MCInit /\ [][MCNext]_<<vars, scenario>>

ProgressSpec == MCSpec /\ Fairness
=============================================================================
