---------------------------- MODULE MCStandalone -----------------------------
(* Finite instances, for TLC, of the programs of the later phases that are  *)
(* run each by itself: the variables are those of all of them, and a        *)
(* behaviour is one of one program, the others being left as they begin.    *)
EXTENDS Pooling, SocketAnchor, CoResident, Attribution, PolicyClasses,
        PolicyEnforce, TLC

CONSTANTS
    a1, a2, a3, k1, k2,         \* principals and their policy classes
    alice, bob, thief,          \* who asks on one socket
    r1, r2, r3,                 \* requests through Envoy
    plain                       \* a socket that connects

VARIABLE program    \* the one that runs

mcVars == <<program, poolingVars, anchorVars, residentVars, attributionVars,
            classVars, enforceVars>>

Init ==
    /\ program \in {"pooling", "anchor", "resident", "attribution", "classes",
                    "enforce"}
    /\ PInit /\ AInit /\ RInit /\ LInit /\ CInit /\ EInit

Next ==
    /\ UNCHANGED program
    /\ \/ /\ program = "pooling" /\ PNext
          /\ UNCHANGED <<anchorVars, residentVars, attributionVars, classVars,
                         enforceVars>>
       \/ /\ program = "anchor" /\ ANext
          /\ UNCHANGED <<poolingVars, residentVars, attributionVars, classVars,
                         enforceVars>>
       \/ /\ program = "resident" /\ RNext
          /\ UNCHANGED <<poolingVars, anchorVars, attributionVars, classVars,
                         enforceVars>>
       \/ /\ program = "attribution" /\ LNext
          /\ UNCHANGED <<poolingVars, anchorVars, residentVars, classVars,
                         enforceVars>>
       \/ /\ program = "classes" /\ CNext
          /\ UNCHANGED <<poolingVars, anchorVars, residentVars, attributionVars,
                         enforceVars>>
       \/ /\ program = "enforce" /\ ENext
          /\ UNCHANGED <<poolingVars, anchorVars, residentVars, attributionVars,
                         classVars>>

Spec == Init /\ [][Next]_mcVars

(* The state of the program that runs keeps its type.                       *)
TypeOK ==
    /\ program = "pooling" => PTypeOK
    /\ program = "anchor" => ATypeOK
    /\ program = "resident" => RTypeOK
    /\ program = "attribution" => LTypeOK
    /\ program = "classes" => CTypeOK
    /\ program = "enforce" => ETypeOK

------------------------------------------------------------------------------
(* The constants.                                                           *)

(* Pooling: two of three principals share a class.                          *)
MCOrder == <<a1, a2, a3>>
MCPolicyOf == (a1 :> k1) @@ (a2 :> k2) @@ (a3 :> k1)
MCSchemes == <<"per_principal", "per_policy_class">>

(* SocketAnchor: F1, F2, F4 and F5, with two principals each.               *)
MCExperiments == <<[how |-> "ask", who |-> <<alice, bob>>],
                   [how |-> "stream", who |-> <<alice, bob>>],
                   [how |-> "hand", who |-> <<thief>>],
                   [how |-> "ask", who |-> <<alice, bob>>]>>

(* CoResident: the two conditions of main().                                *)
MCLabels == <<"A", "B">>
MCConditions == <<TRUE, FALSE>>

(* Attribution: two requests of one principal and one of another.           *)
MCSender == (r1 :> alice) @@ (r2 :> alice) @@ (r3 :> bob)

(* PolicyEnforce: a socket without a mark.                                  *)
MCCgroup == plain :> 1
MCMark == plain :> 0

(* The CPUs are alike, no slot is preferred, and so are the two requests of *)
(* one principal.                                                           *)
Symmetry ==
    Permutations(Cpus) \cup Permutations(Slots) \cup Permutations({r1, r2})
==============================================================================
