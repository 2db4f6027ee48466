-------------------------- MODULE MCVerdictChannel ---------------------------
(* Finite instances of VerdictChannel for TLC.                              *)
EXTENDS VerdictChannel, TLC

(* The CPUs are alike, the destinations are only compared, and no slot is   *)
(* preferred.                                                               *)
Symmetry == Permutations(Cpus) \cup Permutations(Dests) \cup Permutations(Slots)
==============================================================================
