SPECIFICATION FairSpec
CONSTANTS
    c1 = c1
    h1 = h1
    Nobody = Nobody
    Calls = {c1}
    Hosts = {h1}
    Interfaces = {i1, i2}
    MaxPort = 3
    Descriptions <- HeldDescriptions
    SIPPorts = {5060}
    Frames <- MCFrames
INVARIANTS
    MapsFollowRefs
    MediaReachTracker
PROPERTY
    MapsConverge
