CONSTANTS
    None = None
    t1 = t1
    t2 = t2
    c1 = c1
    l1 = l1
    l2 = l2
    l3 = l3
    o1 = o1
    o2 = o2
    a1 = a1
    a2 = a2
    TokenIds = {t1, t2}
    CredIds = {c1}
    Lookups = {l1, l2, l3}
    Ops = {o1, o2}
    Auths = {a1, a2}
    Kinds = {"mint", "rotate", "revoke", "delete"}
    Expiries = {None, "future"}
    ForeignKeys = {TRUE}
    InitialTokens <- MCInitialTokens
SPECIFICATION Spec
INVARIANT UnexpiredIsAccepted
CHECK_DEADLOCK FALSE
