SPECIFICATION Spec
CONSTANTS
  Request = {r1, r2}
  Proc = {p1, p2}
  Token = {k1}
  Recovery = {c1}
  Mixes <- MCMixes
  MaxSecret = 2
  MaxFaults = 1
  None = None
SYMMETRY Symmetry
INVARIANTS TypeOK LogoutSticks TotpOnce FactorProven ExchangedOnce
CHECK_DEADLOCK FALSE
