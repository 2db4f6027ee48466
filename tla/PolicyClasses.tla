--------------------------- MODULE PolicyClasses ----------------------------
(****************************************************************************)
(* phase6b_report/policy_class.py: agents are generated with a policy over  *)
(* many dimensions, and the distinct policies are counted, over all the     *)
(* dimensions and over those a network device can enforce.  A random draw   *)
(* is any draw.                                                             *)
(****************************************************************************)
EXTENDS Naturals, FiniteSets

CONSTANTS
    NetDims, OtherDims,     \* network-enforceable dimensions, and the others
    Values,                 \* randrange(card), for every dimension
    Templates,              \* n_templates
    N                       \* agents to generate

Dims == NetDims \cup OtherDims
AllPolicies == [Dims -> Values]

ASSUME ClassesAssumption ==
    /\ IsFiniteSet(Dims) /\ IsFiniteSet(Values)
    /\ NetDims \cap OtherDims = {}
    /\ Templates \in Nat /\ N \in Nat

VARIABLES
    generator,  \* which gen_ function runs
    drawn,      \* templates drawn so far
    templates,  \* the distinct ones
    made,       \* agents generated so far
    agents,     \* their distinct policies
    odd         \* agents whose exception fell on a network dimension

classVars == <<generator, drawn, templates, made, agents, odd>>

CInit ==
    /\ generator = "none"
    /\ drawn = 0 /\ templates = {}
    /\ made = 0 /\ agents = {} /\ odd = 0

(* The part of a policy a network enforcement point can act on.             *)
Net(a) == [d \in NetDims |-> a[d]]

Choose(g) ==
    /\ generator = "none"
    /\ generator' = g
    /\ UNCHANGED <<drawn, templates, made, agents, odd>>

DrawTemplate(t) ==
    /\ generator \in {"structured", "exceptions"} /\ drawn < Templates
    /\ drawn' = drawn + 1
    /\ templates' = templates \cup {t}
    /\ UNCHANGED <<generator, made, agents, odd>>

(* gen_independent(): every dimension is drawn for every agent.             *)
MakeIndependent(a) ==
    /\ generator = "independent" /\ made < N
    /\ made' = made + 1
    /\ agents' = agents \cup {a}
    /\ UNCHANGED <<generator, drawn, templates, odd>>

(* An agent of a template, as it is.                                        *)
Instantiate(t) ==
    /\ generator \in {"structured", "exceptions"}
    /\ drawn = Templates /\ made < N
    /\ made' = made + 1
    /\ agents' = agents \cup {t}
    /\ UNCHANGED <<generator, drawn, templates, odd>>

(* A mutated form of the next definition.                                   *)
WideExceptionDims == Dims

(* Where the exceptions of gen_structured() may fall.                       *)
ExceptionDims == OtherDims

(* One dimension is drawn again.                                            *)
Deviate(t, d, v) ==
    /\ generator \in {"structured", "exceptions"}
    /\ drawn = Templates /\ made < N
    /\ d \in IF generator = "structured" THEN ExceptionDims ELSE Dims
    /\ made' = made + 1
    /\ agents' = agents \cup {[t EXCEPT ![d] = v]}
    /\ odd' = IF generator = "exceptions" /\ d \in NetDims THEN odd + 1 ELSE odd
    /\ UNCHANGED <<generator, drawn, templates>>

CNext ==
    \/ \E g \in {"independent", "structured", "exceptions"} : Choose(g)
    \/ \E a \in AllPolicies : DrawTemplate(a) \/ MakeIndependent(a)
    \/ \E t \in templates : \/ Instantiate(t)
                            \/ \E d \in Dims, v \in Values : Deviate(t, d, v)

CSpec == CInit /\ [][CNext]_classVars

------------------------------------------------------------------------------
(* count().                                                                 *)

Networks == {Net(a) : a \in agents}
PPolicy == Cardinality(agents)
PNetwork == Cardinality(Networks)

------------------------------------------------------------------------------
(* Properties.                                                              *)

CTypeOK ==
    /\ generator \in {"none", "independent", "structured", "exceptions"}
    /\ drawn \in 0..Templates /\ made \in 0..N /\ odd \in 0..made
    /\ templates \subseteq AllPolicies /\ agents \subseteq AllPolicies

(* "P stays small and independent of N": however the draws fall, the pools  *)
(* a network device needs are no more than the policies; exceptions on      *)
(* other dimensions cost none beyond the templates, and an exception on a   *)
(* network dimension costs at most one.                                     *)
NetworkClassesBounded ==
    /\ PNetwork <= PPolicy
    /\ PPolicy <= made
    /\ generator = "structured" => PNetwork <= Templates
    /\ generator = "exceptions" => PNetwork <= Templates + odd
==============================================================================
