----------------------------- MODULE MCSuccession -----------------------------
(* The instance of ScaleSetSuccession that TLC checks.                     *)
EXTENDS ScaleSetSuccession, TLC

Symmetry == Permutations(Process)

\* As many runs as there are while nothing is disturbed, two otherwise.
Observed ==
    /\ Init /\ disturbed = FALSE
    /\ [][/\ ObservedNext
          /\ disturbed' =>
                Cardinality({p \in Process : stage'[p] # "off"}) <= 2]_historyVars

=============================================================================
