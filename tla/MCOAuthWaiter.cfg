CONSTANTS
    None = None
    q1 = q1
    q2 = q2
    q3 = q3
    l1 = l1
    f0 = f0
    Requests = {q1, q2}
    Logins = {}
    First = f0
    Locking = {TRUE}
    Rotates = {TRUE, FALSE}
    ExpiresIn = {TRUE, FALSE}
    Offline = {TRUE}
SPECIFICATION Spec
INVARIANT RecheckIsCurrent
CHECK_DEADLOCK FALSE
