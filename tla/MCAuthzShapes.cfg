\* Proofs of every shape on one short stretch of time, under fair threads:
\* what each refusal uses up and how it is counted, when the table forgets a
\* proof that outlives its window, and that some copy of a good one is
\* honoured.  Asks, restarts and time are bounded: the system stops when they
\* are used up.
CONSTANTS
    Handlers = {h1, h2}
    Jti = {j1}
    Request = {r1, r2}
    Shapes = {"good", "malformed", "bad_alg", "unknown_agent", "bad_signature",
              "bad_audience", "principal_mismatch", "delegation_mismatch",
              "bad_act"}
    Ttls = {2}
    NoProof = NoProof
    NoToken = NoToken
    WINDOW = 1
    MaxSkew = 0
    MaxStall = 1
    MaxTime = 3
    MaxRequests = 3
    MaxLives = 2
SPECIFICATION FairSpec
INVARIANTS NoSpuriousReplay StatsBalance
PROPERTY WindowSpacing SomeCopyHonoured
CHECK_DEADLOCK FALSE
