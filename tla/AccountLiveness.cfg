CONSTANTS
    u1 = u1
    u2 = u2
    a1 = a1
    a2 = a2
    a3 = a3
    User = {u1}
    Address = {a1, a2}
    Token = {t1}
    Request = {r1, r2}
    Federated = {u1}
    ProviderAddress <- ProviderOfU1
    None = None
SPECIFICATION FairSpec
PROPERTIES RequestsEnd
CHECK_DEADLOCK FALSE
