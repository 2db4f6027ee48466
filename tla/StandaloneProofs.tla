-------------------------- MODULE StandaloneProofs ---------------------------
(****************************************************************************)
(* The programs run by themselves, side by side as MCStandalone runs them:  *)
(* a behaviour of the joint specification is one of the program it chose,   *)
(* so that what is proved of each program alone holds of its runs there.    *)
(****************************************************************************)
EXTENDS MCStandalone, PolicyProofs, IdentityProofs

LEMMA OneProgram ==
    ASSUME NEW name, program = name, [Next]_mcVars
    PROVE  program' = name
BY DEF Next, mcVars

LEMMA AsPooling == Spec /\ program = "pooling" => PSpec
<1>1. program = "pooling" /\ [Next]_mcVars => [PNext]_poolingVars
  BY DEF Next, mcVars, poolingVars
<1>2. program = "pooling" /\ [Next]_mcVars => (program = "pooling")'
  BY OneProgram
<1>3. Init => PInit
  BY DEF Init
<1> QED BY <1>1, <1>2, <1>3, PTL DEF Spec, PSpec

LEMMA AsAnchor == Spec /\ program = "anchor" => ASpec
<1>1. program = "anchor" /\ [Next]_mcVars => [ANext]_anchorVars
  BY DEF Next, mcVars, anchorVars
<1>2. program = "anchor" /\ [Next]_mcVars => (program = "anchor")'
  BY OneProgram
<1>3. Init => AInit
  BY DEF Init
<1> QED BY <1>1, <1>2, <1>3, PTL DEF Spec, ASpec

LEMMA AsResident == Spec /\ program = "resident" => RSpec
<1>1. program = "resident" /\ [Next]_mcVars => [RNext]_residentVars
  BY DEF Next, mcVars, residentVars
<1>2. program = "resident" /\ [Next]_mcVars => (program = "resident")'
  BY OneProgram
<1>3. Init => RInit
  BY DEF Init
<1> QED BY <1>1, <1>2, <1>3, PTL DEF Spec, RSpec

LEMMA AsAttribution == Spec /\ program = "attribution" => LSpec
<1>1. program = "attribution" /\ [Next]_mcVars => [LNext]_attributionVars
  BY DEF Next, mcVars, attributionVars
<1>2. program = "attribution" /\ [Next]_mcVars => (program = "attribution")'
  BY OneProgram
<1>3. Init => LInit
  BY DEF Init
<1> QED BY <1>1, <1>2, <1>3, PTL DEF Spec, LSpec

LEMMA AsClasses == Spec /\ program = "classes" => CSpec
<1>1. program = "classes" /\ [Next]_mcVars => [CNext]_classVars
  BY DEF Next, mcVars, classVars
<1>2. program = "classes" /\ [Next]_mcVars => (program = "classes")'
  BY OneProgram
<1>3. Init => CInit
  BY DEF Init
<1> QED BY <1>1, <1>2, <1>3, PTL DEF Spec, CSpec

LEMMA AsEnforce == Spec /\ program = "enforce" => ESpec
<1>1. program = "enforce" /\ [Next]_mcVars => [ENext]_enforceVars
  BY DEF Next, mcVars, enforceVars
<1>2. program = "enforce" /\ [Next]_mcVars => (program = "enforce")'
  BY OneProgram
<1>3. Init => EInit
  BY DEF Init
<1> QED BY <1>1, <1>2, <1>3, PTL DEF Spec, ESpec

(* Whichever of the six programs runs, its state keeps its type: the driver *)
(* of the pooling experiment, the socket-anchor experiments, the attestor,  *)
(* the attribution analysis, the class counters or the second connect hook. *)
THEOREM EachTyped == Spec => []TypeOK
<1>1. Spec /\ program = "pooling" => [](program = "pooling" /\ PTypeOK)
  <2>1. program = "pooling" /\ [Next]_mcVars => (program = "pooling")'
    BY OneProgram
  <2> QED BY <2>1, AsPooling, PoolingTyped, PTL DEF Spec
<1>2. Spec /\ program = "anchor" => [](program = "anchor" /\ ATypeOK)
  <2>1. program = "anchor" /\ [Next]_mcVars => (program = "anchor")'
    BY OneProgram
  <2> QED BY <2>1, AsAnchor, AnchorTyped, PTL DEF Spec
<1>3. Spec /\ program = "resident" => [](program = "resident" /\ RTypeOK)
  <2>1. program = "resident" /\ [Next]_mcVars => (program = "resident")'
    BY OneProgram
  <2> QED BY <2>1, AsResident, ResidentTyped, PTL DEF Spec
<1>4. Spec /\ program = "attribution" => [](program = "attribution" /\ LTypeOK)
  <2>1. program = "attribution" /\ [Next]_mcVars => (program = "attribution")'
    BY OneProgram
  <2> QED BY <2>1, AsAttribution, AttributionTyped, PTL DEF Spec
<1>5. Spec /\ program = "classes" => [](program = "classes" /\ CTypeOK)
  <2>1. program = "classes" /\ [Next]_mcVars => (program = "classes")'
    BY OneProgram
  <2> QED BY <2>1, AsClasses, ClassesTyped, PTL DEF Spec
<1>6. Spec /\ program = "enforce" => [](program = "enforce" /\ ETypeOK)
  <2>1. program = "enforce" /\ [Next]_mcVars => (program = "enforce")'
    BY OneProgram
  <2> QED BY <2>1, AsEnforce, EnforceTyped, PTL DEF Spec
<1>7. Init => \/ program = "pooling" \/ program = "anchor" \/ program = "resident"
              \/ program = "attribution" \/ program = "classes" \/ program = "enforce"
  BY DEF Init
<1>8. /\ program = "pooling" /\ PTypeOK => TypeOK
      /\ program = "anchor" /\ ATypeOK => TypeOK
      /\ program = "resident" /\ RTypeOK => TypeOK
      /\ program = "attribution" /\ LTypeOK => TypeOK
      /\ program = "classes" /\ CTypeOK => TypeOK
      /\ program = "enforce" /\ ETypeOK => TypeOK
  BY DEF TypeOK
<1> QED BY <1>1, <1>2, <1>3, <1>4, <1>5, <1>6, <1>7, <1>8, PTL DEF Spec
==============================================================================
