SPECIFICATION Spec
CONSTANTS
  Conn = {c1, c2, c3}
  Contexts = {"bare"}
  RowExists = TRUE
  MaxRetry = 1
  MaxSeq = 3
  None = None
SYMMETRY Symmetry
INVARIANT Unique
CHECK_DEADLOCK FALSE
