SPECIFICATION Spec
CONSTANTS
    u1 = u1
    u2 = u2
    u3 = u3
    User = {u1, u2}
    Admin = {}
    Federated = {}
    Item = {i1, i2}
    Loan = {}
    Request = {q1, q2}
    Payload <- Plain
    MaxEvents = 2
    None = None
    Absent = Absent
SYMMETRY Symmetry
INVARIANTS TypeOK
PROPERTIES OwnershipLedger MovesAsConfirmed
CHECK_DEADLOCK FALSE
