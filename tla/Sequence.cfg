SPECIFICATION FairSpec
CONSTANTS
  Conn = {c1, c2}
  Contexts = {"reader", "txn"}
  RowExists = FALSE
  MaxRetry = 1
  MaxSeq = 3
  None = None
INVARIANTS TypeOK NoneSkipped
PROPERTIES Returns TxnEnds
CHECK_DEADLOCK FALSE
