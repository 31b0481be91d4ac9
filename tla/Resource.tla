------------------------------ MODULE Resource ------------------------------
(* The versioned resource (internal/core/domain/resource): one write makes   *)
(* at most one new version, and a changed desired state one new generation.  *)
(* Labels stand for every caller-owned field outside the desired state, a    *)
(* status for the generation it observed.                                    *)
EXTENDS Naturals

New(placement, labels, spec, version, at) ==
    [kind |-> placement.kind, workspace |-> placement.workspace,
     parent |-> placement.parent, labels |-> labels, spec |-> spec, status |-> 0,
     generation |-> 1, version |-> version, createdAt |-> at]

\* The copy of a changed resource under its next version.
advance(r, version) == [r EXCEPT !.version = version]

\* An unchanged body keeps the version, a changed desired state advances the
\* generation once, changed labels only the version.
ReplaceIntent(r, labels, spec, version) ==
    IF r.labels = labels /\ r.spec = spec THEN r
    ELSE [advance(r, version) EXCEPT
            !.labels = labels, !.spec = spec,
            !.generation = IF r.spec = spec THEN @ ELSE @ + 1]

\* Only generations that exist can have been observed.
validateObservations(observed, generation) == observed \in 0 .. generation

ReplaceStatus(r, observed, version) ==
    IF r.status = observed THEN r
    ELSE [advance(r, version) EXCEPT !.status = observed]

=============================================================================
