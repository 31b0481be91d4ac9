--------------------------- MODULE FencedOwnership ---------------------------
(***************************************************************************)
(* Fenced ownership, without time: what LeaseTable promises its callers.   *)
(* A lineage has at most one holder, a grant of it takes the next fence,   *)
(* and only the holder of the current fence acts (a provider call or an    *)
(* authoritative write).  A fence below the bound is never reused.         *)
(***************************************************************************)
EXTENDS Naturals

CONSTANTS Lineages, Workers, Nobody, MaxFence

VARIABLES fence, holder, acted

Init ==
    /\ fence = [k \in Lineages |-> 0]
    /\ holder = [k \in Lineages |-> Nobody]
    /\ acted = {}

Grant(k, w) ==
    /\ fence[k] < MaxFence
    /\ fence' = [fence EXCEPT ![k] = @ + 1]
    /\ holder' = [holder EXCEPT ![k] = w]
    /\ UNCHANGED acted

Release(k) ==
    /\ holder[k] # Nobody
    /\ holder' = [holder EXCEPT ![k] = Nobody]
    /\ UNCHANGED <<fence, acted>>

Act(k) ==
    /\ holder[k] # Nobody
    /\ acted' = acted \cup {<<k, fence[k]>>}
    /\ UNCHANGED <<fence, holder>>

Next ==
    \E k \in Lineages : Release(k) \/ Act(k) \/ \E w \in Workers : Grant(k, w)

Spec == Init /\ [][Next]_<<fence, holder, acted>>
=============================================================================
