---------------------------- MODULE MCGrantLedger ----------------------------
(* Small instances of the elevation ledger.                                *)
EXTENDS GrantLedger, TLC

CONSTANTS c1, c2, g1, g2

request(id, a, t, d) ==
    [grantID |-> id, administrator |-> a, scope |-> "export", requestedAt |-> t,
     duration |-> d]

(* Two identifiers, one asked for twice, and a stranger.                   *)
MCRequests == {request(g1, "adm", 1, 2), request(g2, "adm", 2, 1),
               request(g2, "not configured", 1, 2)}

Symmetry == Permutations({c1, c2})
=============================================================================
