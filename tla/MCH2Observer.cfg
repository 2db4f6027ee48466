\* One connection and a report at any time: it is closed in the end, the report
\* goes on.
CONSTANTS
    s1 = s1
    s2 = s2
    Conns = {k1}
    Sids = {s1, s2}
    Streams <- MCStreams
    PrefaceLen = 2
    HeaderLen = 1
    MaxRecv = 3
SPECIFICATION FairSpec
INVARIANTS TypeOK CutsDoNotMatter SeenBeforeSent FractionAtMostOne
    
PROPERTY BothEnd
