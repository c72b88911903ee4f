CONSTANTS
  MaxEntity = 3
  Initial = 2
  Child = {c1, k1, k2}
  Given = {c1, k1, k2}
  Alike = {{k1, k2}}
  Fact = {f1}
  Request = {r1, r2}
  Similar = {{1, 2}}
  MaxHops = 5
SPECIFICATION Spec
INVARIANTS TypeOK SurvivorFound NoMutualWait MergedIsMerged
PROPERTIES ChildrenSurvive MergeKeepsFacts
SYMMETRY Symmetry
CHECK_DEADLOCK FALSE
