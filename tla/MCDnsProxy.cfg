CONSTANTS
    None = None
    Free = Free
    Gone = Gone
    q1 = q1
    q2 = q2
    r1 = r1
    r2 = r2
    z1 = z1
    z2 = z2
    ToASCII <- MCToASCII
    Stars <- MCStars
    Requests = {q1, q2}
    RecordIds = {r1, r2}
    Zones = {z1, z2}
    Names <- MCNames
    Types <- MCTypes
    Tokens = {"exact", "wide", "reader", "pinned", "typed"}
    Rules <- MCRules
    Calls <- MCCalls
    Faults = {"authorize"}
    InitialRecords <- MCInitialRecords
SPECIFICATION Spec
INVARIANTS
    TypeOK
    InFlightAuthorized
    AuditedBeforeAnswer
PROPERTIES
    PreImageIsReplaced
    CallsAreAtomic
CHECK_DEADLOCK FALSE
