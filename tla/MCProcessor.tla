----------------------------- MODULE MCProcessor -----------------------------
(* The instances of RunnerMessageProcessor that TLC checks.                *)
EXTENDS RunnerInvariant, TLC

\* The behaviours in which no tick of the tracker falls and the process lives.
BetweenTicks ==
    Init /\ [][Next /\ toCheck' = {} /\ verdict' = "none" /\ process' = "running"]_vars

FairBetweenTicks == BetweenTicks /\ Fairness

Symmetry == Permutations(Job) \union Permutations(VM)

=============================================================================
