\* Two clients and two answers to each.  The observer stops when its
\* main thread has died.
CONSTANTS
    ia = ia
    ib = ib
    Clients = {c1, c2}
    Ids = {ia, ib}
    NoBytes = NoBytes
    Absent = Absent
    Packets <- MCPackets
    NoPacket = NoPacket
    NoClient = NoClient
    MaxDatagrams = 2
    MaxAnswers = 2
SPECIFICATION Spec
INVARIANTS TypeOK HeadersAccounted AnswersInOrder
SYMMETRY Symmetry
CHECK_DEADLOCK FALSE
