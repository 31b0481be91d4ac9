----------------------------- MODULE MCKeyCache -----------------------------
(* Small instances of the verification-key cache.                          *)
EXTENDS KeyCache, TLC

CONSTANTS c1, c2

keySet(v, w) == [r \in {"a", "b"} |-> IF r = "a" THEN v ELSE w]

(* Before and after a rotation that replaces one key and adds another.     *)
Rotation == {keySet(1, 0), keySet(2, 1)}

(* A token of the replaced key, and one whose key the first set lacks.     *)
BothTokens == {[ref |-> "a", version |-> 2], [ref |-> "b", version |-> 1]}

TwoCallers == Permutations({c1, c2})
=============================================================================
