\* Two threads, copies of one proof, restarts and a stepped wall clock, with
\* the shortest window that proofs of lifetime 2 allow.
CONSTANTS
    Handlers = {h1, h2}
    Jti = {j1}
    Request = {r1, r2}
    Shapes = {"good"}
    Ttls = {2}
    NoProof = NoProof
    NoToken = NoToken
    WINDOW = 5
    MaxSkew = 1
    MaxStall = 1
    MaxTime = 8
    MaxRequests = 3
    MaxLives = 2
SPECIFICATION Spec
INVARIANTS TypeOK AtMostOnce OkIsGenuine
PROPERTY ImplementsProofOnce
SYMMETRY Symmetry
