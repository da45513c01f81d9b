SPECIFICATION Spec
CONSTANTS
  Operands = 1
  Numbers <- MCUnits
INVARIANTS SafeLosesNothing
