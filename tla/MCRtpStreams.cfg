SPECIFICATION Spec
CONSTANTS
    e1 = e1
    e2 = e2
    s1 = s1
    Elsewhere = Elsewhere
    Endpoints = {e1, e2}
    SSRCs = {s1}
    Half = 5
    MaxGap = 3
    Burst = 2
    TTL = 0
    LossHalf = 2
    FirstSeq = 8
    MaxEvents = 6
SYMMETRY Symmetry
INVARIANTS
    SpanAccounted
    LossesClassified
    CountersComplete
    OwnLoss
