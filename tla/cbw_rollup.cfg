\* Every tree of four cgroups, one of which may be too deep.
CONSTANTS
    N = 4
    MaxRuntime = 1
    Height = 4
SPECIFICATION Spec
INVARIANTS SubtreeExact
