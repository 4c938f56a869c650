CONSTANTS
    if1 = if1
    NoRun = NoRun
    Interfaces = {if1}
    BlockCount = 3
    Wrap = 6
    MaxBlocks <- SevenBlocks
    MaxSplit = 2
SPECIFICATION FairSpec
INVARIANTS
    FillsInOrder
    BorrowedAccounted
PROPERTIES
    BlocksComeBack
