\* Two users; five activities in a calm exchange, two once it is disturbed.
CONSTANTS
  Side = {s1, s2}
  MaxAttempts = 3
  MaxMail = 5
  MaxUncalm = 2
  MaxChanges = 1
SPECIFICATION Spec
SYMMETRY Symmetry
INVARIANTS TypeOK Agreement RequestsAnswerable Grounded Answered
CHECK_DEADLOCK FALSE
