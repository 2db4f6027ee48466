\* Ids that are new to the dictionaries while a report is written.
CONSTANTS
    ia = ia
    ib = ib
    Clients = {c1, c2}
    Ids = {ia, ib}
    NoBytes = NoBytes
    Absent = Absent
    Packets <- FewPackets
    NoPacket = NoPacket
    NoClient = NoClient
    MaxDatagrams = 2
    MaxAnswers = 1
SPECIFICATION Spec
INVARIANT KeepsRelaying
SYMMETRY Symmetry
CHECK_DEADLOCK FALSE
