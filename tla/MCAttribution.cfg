\* Three requests of two principals on one connection.  The run ends when the
\* log was read and time is up.
CONSTANTS
    r1 = r1
    r2 = r2
    r3 = r3
    alice = alice
    bob = bob
    Requests = {r1, r2, r3}
    Sender <- MCSender
    Conns = {c1}
    Unknown = Unknown
    LastTime = 3
SPECIFICATION LSpec
INVARIANTS ExactMeansOneRequest
CHECK_DEADLOCK FALSE
