CONSTANTS
    u1 = u1
    u2 = u2
    a1 = a1
    a2 = a2
    a3 = a3
    User = {u1, u2}
    Address = {a1, a2, a3}
    Token = {t1, t2}
    Request = {r1, r2}
    Federated = {}
    ProviderAddress <- NoProvider
    None = None
SPECIFICATION Spec
SYMMETRY Symmetry
INVARIANTS TypeOK DeletionAtomic
PROPERTIES VerificationProven LinkLossJustified SupersededStaysDead OneTimeTokens
CHECK_DEADLOCK FALSE
