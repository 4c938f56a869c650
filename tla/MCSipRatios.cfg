SPECIFICATION Spec
CONSTANTS
    caller = caller
    callee = callee
    fork = fork
    NoTag = NoTag
    Tags = {caller, callee, fork}
    Keys <- MCKeys
    MaxInvites = 2
INVARIANT
    SCRBelowSER
