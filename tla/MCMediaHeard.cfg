SPECIFICATION Spec
CONSTANTS
    c1 = c1
    c2 = c2
    h1 = h1
    Nobody = Nobody
    Calls = {c1, c2}
    Hosts = {h1}
    Interfaces = {}
    MaxPort = 3
    Descriptions <- MCDescriptions
INVARIANT
    HeardIsObserved
