SPECIFICATION Spec
CONSTANTS
  Node = {1, 2}
  None = None
  Inf = Inf
  NetsOf <- MCTwins
  Limits = {None}
  Starts = {1}
  Ends <- MCEnds
  Estimates <- MCEstimates
  Heights = {0, 1, 2, 3, 4}
INVARIANT DijkstraShortest
