SPECIFICATION TokenSpec
CONSTANTS
  a = a
  b = b
  c = c
  NoRun = NoRun
  Runs = {a, b, c}
  MaxLosses = 1
SYMMETRY AnyOrder
INVARIANTS PublishedComplete CreatedSurvives
PROPERTIES ImplementsStore
CHECK_DEADLOCK FALSE
