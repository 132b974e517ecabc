\* Two CPUs allocate at the same time.
CONSTANTS
    p1 = p1
    p2 = p2
    p3 = p3
    o1 = o1
    o2 = o2
    o3 = o3
    NULL = NULL
    Proc = {p1, p2, p3}
    Popper = {p1, p2}
    Obj = {o1, o2, o3}
    Chain <- MCChain
    First = o1
    LoopsExpire = FALSE
SPECIFICATION Spec
INVARIANT OwnedOnce
