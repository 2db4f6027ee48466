\* Two callers in one shared pool.  Calls are bounded and connections end: the system
\* stops when the calls are used up.
CONSTANTS
    alice = alice
    bob = bob
    carol = carol
    Callers = {a1, a2}
    Principals = {alice, bob, carol}
    Policy <- MCPolicy
    Mode = "shared"
    UseMark = FALSE
    Conns = {c1, c2}
    NoCaller = NoCaller
    NoConn = NoConn
    Nobody = Nobody
    MaxCalls = 3
SPECIFICATION FairSpec
INVARIANTS TypeOK OneConnPerKey AnswersAreEarned
PROPERTY CallReturns
CHECK_DEADLOCK FALSE
