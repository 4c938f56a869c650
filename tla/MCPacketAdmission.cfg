CONSTANTS
    if1 = if1
    if2 = if2
    Nobody = Nobody
    Interfaces = {if1, if2}
    Capacity = 2
    MaxRun = 3
    MaxRuns = 1
SPECIFICATION FairSpec
INVARIANTS
    AccountingExact
    SendNeverBlocks
    TicketsHeld
    NoLostWakeup
    ClosedIsEmpty
PROPERTIES
    RTPNeverOvertakesSIP
    ImplementsSipFirstQueue
    ServesFairly
    CloseReturns
