SPECIFICATION Spec
CONSTANTS
  p1 = p1
  p2 = p2
  p3 = p3
  Pool = {p1, p2, p3}
  MaxWorkers = 5
INVARIANTS OneReducer
PROPERTIES ImplementsReduction
