\* A limit is lifted.
CONSTANTS
    outer = outer
    inner = inner
    Root = Root
    Cgrp = {outer, inner}
    Parent <- MCParent
    Pre <- MCPre
    Post <- MCPost
    Burst <- MCBurst
    Quota = {1, 100}
    Period = 2
    Tick = 2
    INF = 100
    MaxRuntime = 3
    MaxDebt = 4
    MaxInputs = 3
    MaxSlack = 0
SPECIFICATION Spec
PROPERTY UnlimitedNotThrottled
