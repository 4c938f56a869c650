SPECIFICATION FairSpec
CONSTANTS
    a1 = a1
    a2 = a2
    b1 = b1
    f1 = f1
    f2 = f2
    NoEntry = NoEntry
    NoPacket = NoPacket
    CallerPorts = {a1, a2}
    CalleePorts = {b1}
    Forks = {f1, f2}
    Threshold = 1
    Grace = 1
    Floor = 1
    MaxAnswers = 2
INVARIANTS
    ReportedOnce
PROPERTIES
    CallerNeverClears
    MediaClear
    Decided
