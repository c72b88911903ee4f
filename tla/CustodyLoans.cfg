SPECIFICATION Spec
CONSTANTS
    u1 = u1
    u2 = u2
    u3 = u3
    User = {u1, u2, u3}
    Admin = {}
    Federated = {u3}
    Item = {i1}
    Loan = {l1}
    Request = {q1, q2}
    Payload <- Plain
    MaxEvents = 2
    None = None
    Absent = Absent
SYMMETRY LoanSymmetry
PROPERTIES NoSelfLoan
CHECK_DEADLOCK FALSE
