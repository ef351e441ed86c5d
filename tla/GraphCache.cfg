SPECIFICATION Spec
CONSTANTS
  Node = {1, 2}
  Edge = {1, 2}
  UserId = {u}
  Hash <- MCHash
  TableMin = 3
  None = None
  Conn = {c1, c2}
  Contexts = {"reader", "txn"}
  RowsFail = FALSE
  Starts <- MCStarts
  MaxChanges = 2
SYMMETRY Symmetry
INVARIANTS LoadedWell OneOwner
