CONSTANTS
    None = None
    o1 = o1
    o2 = o2
    u0 = u0
    u1 = u1
    k0 = k0
    f1 = f1
    f2 = f2
    Ops = {o1, o2}
    Existing = {u0, u1, k0}
    Emails = {"e1", "e2"}
    Subs = {"s1", "s2"}
    Flows = {f1, f2}
    Codes <- MCCodes
    Calls <- MCCalls
    Seeds <- MCSeeds
    OAuthLabel = "cloudflare-oauth"
    MaxKey = 2
SYMMETRY MCSymmetry
SPECIFICATION Spec
INVARIANTS
    TypeOK
    OneAccountPerPerson
    SessionIsOwn
    LoginEndsOnce
    ConsentStaysWithUser
    LoginIsAllOrNothing
    RotationIsTolerated
    OnlyOwnersAreServed
CHECK_DEADLOCK FALSE
