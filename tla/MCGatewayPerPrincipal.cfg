\* Two callers in a pool keyed by principal.  Calls are bounded and connections end: the system
\* stops when the calls are used up.
CONSTANTS
    alice = alice
    bob = bob
    carol = carol
    Callers = {a1, a2}
    Principals = {alice, bob, carol}
    Policy <- MCPolicy
    Mode = "per_principal"
    UseMark = TRUE
    Conns = {c1, c2, c3}
    NoCaller = NoCaller
    NoConn = NoConn
    Nobody = Nobody
    MaxCalls = 4
SPECIFICATION Spec
INVARIANTS PerPrincipalSufficient MarkTellsPrincipal
CHECK_DEADLOCK FALSE
