----------------------------- MODULE MCLifecycle -----------------------------
(* The instances of ScaleSetLifecycle that TLC checks.                     *)
EXTENDS ScaleSetLifecycle, TLC

Symmetry == Permutations(Process)

\* The runs follow one another, and their calls succeed.
Faultless == Init /\ [][Next /\ CallsSucceed /\ AtMostOneLive']_vars

\* The runs have the same configuration and none is killed; one that panics
\* leaves as much behind.
FairUnkilled ==
    /\ Init /\ \A p, q \in Process : manages[p] = manages[q]
    /\ [][Next /\ ~(\E p \in Process : stage'[p] = "killed")]_vars
    /\ Fairness

=============================================================================
