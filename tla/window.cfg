CONSTANTS
 t1 = t1
 t2 = t2
 a1 = a1
 a2 = a2
 None = None
SPECIFICATION Spec
SYMMETRY MCSymmetry
INVARIANTS TypeOK NewsIsNoticed PaneIsTrue SignsHaveACause
CHECK_DEADLOCK FALSE
