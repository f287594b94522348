CONSTANTS
  Processes = {p1, p2, p3}
  Nil = Nil
SYMMETRY MCSymmetry
VIEW MCView
CONSTRAINT MCOverlapOfTwo
SPECIFICATION Spec
INVARIANTS TypeOK StateFileTrue OneManager
PROPERTIES  OnlyForceCutsSessions
\* the commands really end
CHECK_DEADLOCK FALSE
