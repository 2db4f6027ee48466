\* Each program with two or three of everything.  They end, and calls, writes
\* and time are bounded: the system stops when they are used up.
CONSTANTS
    a1 = a1
    a2 = a2
    a3 = a3
    k1 = k1
    k2 = k2
    alice = alice
    bob = bob
    thief = thief
    r1 = r1
    r2 = r2
    r3 = r3
    plain = plain
    Order <- MCOrder
    PolicyOf <- MCPolicyOf
    Schemes <- MCSchemes
    Ports = {t1, t2, t3}
    NoPort = NoPort
    Nobody = Nobody
    Experiments <- MCExperiments
    Sources = {o1, o2}
    NoSource = NoSource
    Unnamed = Unnamed
    Labels <- MCLabels
    Conditions <- MCConditions
    Pids = {p1, p2, p3}
    NoPid = NoPid
    Requests = {r1, r2, r3}
    Sender <- MCSender
    Conns = {c1}
    Unknown = Unknown
    LastTime = 2
    NetDims = {n1}
    OtherDims = {m1}
    Values = {0, 1, 2}
    Templates = 2
    N = 3
    Cpus = {u1, u2}
    Dests = {d1}
    Sockets = {plain}
    Cgroup <- MCCgroup
    Mark <- MCMark
    Slots = {x1, x2}
    NoSlot = NoSlot
    NoKey = NoKey
    NoSocket = NoSocket
    MaxConnects = 2
    MaxWrites = 3
SPECIFICATION Spec
INVARIANTS TypeOK ObservationsExact EnforcementKept OwnRequestsRecorded
INVARIANTS StreamsWhole AttestedOwnChild ReportsAreOwn ExactIsAlone
INVARIANTS SerialIsExact NetworkClassesBounded VerdictInForceOrLent
INVARIANTS AdmissionsHaveRules
SYMMETRY Symmetry
CHECK_DEADLOCK FALSE
