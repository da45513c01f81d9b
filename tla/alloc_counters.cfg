SPECIFICATION Spec
CONSTANTS
  Handles = {h1, h2, h3}
  MaxSize = 2
  Sizes = {1, 2}
  Threshold = 2
  MaxAllocs = 3
SYMMETRY Symmetry
CHECK_DEADLOCK FALSE
INVARIANTS TypeOK CountersSettle LiveWithinHeld PeakIsPeak
PROPERTIES PeakNeverFalls
