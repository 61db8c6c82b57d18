CONSTANTS
    Senders = {m1, m2, m3}
    Receivers = {r1, r2}
    Nobody = Nobody
    Room = 4
SPECIFICATION TcpSpec
INVARIANTS
    TcpTypeOK
    EachDropLosesOne
PROPERTY ImplementsChannel
CHECK_DEADLOCK FALSE
