------------------------------ MODULE ProofOnce ------------------------------
(****************************************************************************)
(* What the ext_authz verifier promises to the gateway behind it, with no   *)
(* clocks, threads, replay table or keys: a proof that the current verifier *)
(* lifetime can honour is honoured at most once, and a restart of the       *)
(* verifier writes off every proof that was still outstanding.              *)
(****************************************************************************)
EXTENDS Naturals

CONSTANT Jti        \* identities of the proofs

VARIABLES
    live,           \* proofs that may still be honoured
    uses            \* how often each proof has been honoured

vars == <<live, uses>>

Init ==
    /\ live = {}
    /\ uses = [j \in Jti |-> 0]

(* A client mints a fresh proof.                                            *)
Issue(j) ==
    /\ j \notin live
    /\ uses[j] = 0
    /\ live' = live \cup {j}
    /\ UNCHANGED uses

(* The verifier honours a live proof, which is thereby spent.               *)
Spend(j) ==
    /\ j \in live
    /\ live' = live \ {j}
    /\ uses' = [uses EXCEPT ![j] = @ + 1]

(* The verifier restarts: nothing issued before will be honoured.           *)
WriteOff ==
    /\ live' = {}
    /\ UNCHANGED uses

Next ==
    \/ \E j \in Jti : Issue(j) \/ Spend(j)
    \/ WriteOff

Spec == Init /\ [][Next]_vars
==============================================================================
