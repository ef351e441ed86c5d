SPECIFICATION Spec
CONSTANTS
  Node = {1, 2, 3, 4}
  None = None
  Inf = Inf
  NetsOf <- MCNetsOf
  Limits = {1, None}
  Starts = {1, None}
  Ends <- MCEnds
  Estimates <- MCEstimates
  Heights = {0, 1, 2, 3, 4}
INVARIANTS OrderFits BfsDepths DfsOrder Shortest FoundIfAny PathReal PathFits ComponentsAnswer ComponentsShape
PROPERTY Returns
