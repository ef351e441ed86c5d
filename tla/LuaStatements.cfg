SPECIFICATION Spec
CONSTANTS
  Db = {1, 2}
  Vm = {3, 4}
  Bu = {5}
  None = None
  MaxMade = 4
  Habits = {"keeps", "finishes", "leaves"}
INVARIANTS TypeOK NoMisuse TracksOpen NothingLost ValuesOfRow
PROPERTY Collected
CHECK_DEADLOCK FALSE
