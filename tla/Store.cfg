\* Two callers that write the rows of two validations, and of their digest, in any order.
SPECIFICATION Spec
CONSTANTS
    w1 = w1
    w2 = w2
    u1 = u1
    u2 = u2
    c1 = c1
    n1 = n1
    n2 = n2
    None = None
    Callers = {w1, w2}
    Uids = {u1, u2}
    Namespaces = {n1, n2}
    NamespaceOf <- OneEach
    Limits = {0, 1}
    Observed = {"Scanning", "Passed"}
    Commits = {c1}
    Severities = {"Critical", "High"}
    MaxClock = 4
INVARIANT AuditReadsAgree
PROPERTY RecordedOnce
CHECK_DEADLOCK FALSE
