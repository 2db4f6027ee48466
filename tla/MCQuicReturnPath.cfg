\* Two clients: a thread that ended after 30 silent seconds and the socket
\* that stayed.
CONSTANTS
    ia = ia
    ib = ib
    Clients = {c1, c2}
    Ids = {ia, ib}
    NoBytes = NoBytes
    Absent = Absent
    Packets <- MCPackets
    NoPacket = NoPacket
    NoClient = NoClient
    MaxDatagrams = 2
    MaxAnswers = 1
SPECIFICATION Spec
INVARIANT ReturnPath
SYMMETRY Symmetry
CHECK_DEADLOCK FALSE
