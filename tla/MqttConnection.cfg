SPECIFICATION Spec
CONSTANTS
  Threads = {t1, t2}
  MaxDisconnects = 3
SYMMETRY Symmetry
INVARIANTS
  AnswersOwn
  StaysDown
CHECK_DEADLOCK FALSE
