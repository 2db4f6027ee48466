------------------------------- MODULE MCAuthz -------------------------------
(* Finite instances of Authz for TLC.                                       *)
EXTENDS Authz, TLC

(* Threads run the same code and requests are only compared.                *)
Symmetry == Permutations(Handlers) \cup Permutations(Request)
==============================================================================
