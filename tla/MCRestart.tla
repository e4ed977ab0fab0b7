------------------------------ MODULE MCRestart ------------------------------
(* The instances of ProcessorRestart that TLC checks.                      *)
EXTENDS ProcessorRestart, TLC

Symmetry == Permutations(Job) \union Permutations(VM)

=============================================================================
