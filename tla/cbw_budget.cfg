\* Tasks bill and quotas change, or are lifted, while both timers walk.
CONSTANTS
    outer = outer
    inner = inner
    Root = Root
    Cgrp = {outer, inner}
    Parent <- MCParent
    Pre <- MCPre
    Post <- MCPost
    Burst <- MCBurst
    Quota = {1, 2, 100}
    Period = 2
    Tick = 2
    INF = 100
    MaxRuntime = 3
    MaxDebt = 4
    MaxInputs = 2
    MaxSlack = 0
SPECIFICATION Spec
INVARIANTS NoOverdraft
PROPERTIES ThrottleReaches ThrottleJustified DebtIsRepaid
