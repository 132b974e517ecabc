\* One CPU allocates at a time, all three free, and retry loops may end early.
CONSTANTS
    p1 = p1
    p2 = p2
    p3 = p3
    o1 = o1
    o2 = o2
    o3 = o3
    NULL = NULL
    Proc = {p1, p2, p3}
    Popper = {p1}
    Obj = {o1, o2, o3}
    Chain <- MCChain
    First = o1
    LoopsExpire = TRUE
SPECIFICATION Spec
INVARIANTS OwnedOnce 
PROPERTY PoolSpec
