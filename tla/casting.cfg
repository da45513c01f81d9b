SPECIFICATION MCSpec
CONSTANTS
  Operands = 3
  Numbers <- MCNumbers
  Leaves = {"Internal", "AllocationFailed", "ReadOnly"}
  Labels = {"a", "b"}
  MaxNesting = 4
  MaxRaised = 3
  MaxWraps = 2
  MaxCalls = 2
  Values = {0, 1}
  Unordered = 50
  Infinity = 99
  MaxLen = 4
INVARIANTS TypesOK CommonHoldsAll KindFollows SafeChainKeeps MinimumIsLeast EveryErrorArrives KindIsWorst VerdictsAgree ReductionIsExact
