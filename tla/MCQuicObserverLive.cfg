\* Two clients and two answers to each, under fair threads.  The observer stops
\* when its main thread has died.
CONSTANTS
    ia = ia
    ib = ib
    Clients = {c1, c2}
    Ids = {ia}
    NoBytes = NoBytes
    Absent = Absent
    Packets <- LivePackets
    NoPacket = NoPacket
    NoClient = NoClient
    MaxDatagrams = 2
    MaxAnswers = 2
SPECIFICATION FairSpec
PROPERTY AnswersDelivered
CHECK_DEADLOCK FALSE
