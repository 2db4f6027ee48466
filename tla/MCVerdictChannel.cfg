\* Two CPUs, two destinations, a map with room for both and a
\* slot to spare, a ring buffer of one event.  Calls, writes and time are
\* bounded: the system stops when they are used up.
CONSTANTS
    Cpus = {u1, u2}
    Dests = {d1, d2}
    Slots = {s1, s2, s3}
    Expiries = {0, 2}
    NoSlot = NoSlot
    NoDest = NoDest
    MaxEntries = 2
    RingSize = 1
    MaxTime = 2
    MaxConnects = 2
    MaxWrites = 3
SPECIFICATION Spec
INVARIANTS TypeOK SteadyVerdictHolds CountersAgree RefusalsAudited
SYMMETRY Symmetry
CHECK_DEADLOCK FALSE
