CONSTANTS
    None = None
    q1 = q1
    q2 = q2
    q3 = q3
    l1 = l1
    f0 = f0
    Requests = {q1, q2, q3}
    Logins = {l1}
    First = f0
    Locking = {TRUE, FALSE}
    Rotates = {TRUE, FALSE}
    ExpiresIn = {TRUE, FALSE}
    Offline = {TRUE}
SPECIFICATION Spec
INVARIANTS
    TypeOK
    StoredTokenIsUsable
PROPERTIES
    StaleWriterIsFenced
    EveryoneEnds
CHECK_DEADLOCK FALSE
