SPECIFICATION Spec
CONSTANTS
  Conn = {c1, c2}
  Page = {p1, p2}
  MaxTxn = 3
  MaxCrash = 2
  JournalModes = {"delete", "off"}
  None = None
INVARIANTS TypeOK OneWriter FileIsCommitted ViewIsCommitted
PROPERTY StableUnderReaders
CHECK_DEADLOCK FALSE
