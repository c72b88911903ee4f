CONSTANTS
  Entity = {e1, e2}
  Request = {r1, r2}
  Task = {t1, t2}
  Countdown = 1
  Ttl = 2
  MaxFaults = 1
SPECIFICATION FairSpec
INVARIANTS TypeOK NothingForgotten
PROPERTY QueueDrains
CHECK_DEADLOCK FALSE
