SPECIFICATION Spec
CONSTANTS
  Ranks = {1, 2, 3}
  Nodes = {{1, 2, 3}}
  MaxRetries = 2
  MaxCalls = 4
INVARIANT CopiesAreFresh
PROPERTIES Implements EveryCallReturns
CHECK_DEADLOCK FALSE
