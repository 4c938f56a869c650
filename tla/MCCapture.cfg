SPECIFICATION FairSpec
CONSTANTS
    if1 = if1
    if2 = if2
    Nobody = Nobody
    NoRun = NoRun
    Interfaces = {if1, if2}
    Capacity = 1
    MaxRun = 1
    MaxRuns = 1
    BlockCount = 1
    Wrap = 2
    MaxBlocks <- TwoAndOne
INVARIANTS
    FramesReadable
    EverythingReleased
    UnmappedIsQuiet
PROPERTIES
    BlocksComeBack
    CloseCompletes
