------------------------- MODULE MCIdempotencyLedger -------------------------
(* Instances of IdempotencyLedger for TLC. *)
EXTENDS IdempotencyLedger, TLC

KeysAndCallers ==
    Permutations(Keys) \cup Permutations(Callers) \cup Permutations(Results)
=============================================================================
