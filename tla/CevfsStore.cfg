SPECIFICATION StoreSpec
CONSTANTS
  PageSize = 3
  EntrySz = 1
  MMMax = 4
  U16 = 16
  OpenPgSz = {1}
  PragmaPgSz = {1}
  CmpSizes = {1, 2}
  Upp = {0, 1, 2, 3}
  Data = {d1, d2}
  Faults = {"page"}
  MaxHole = 1
  MaxPgno = 5
  Blank = Blank
  Absent = Absent
  Hole = Hole
  Garbage = Garbage
  Corrupt = Corrupt
  NoSlot = NoSlot
SYMMETRY Symmetry
PROPERTY ImplementsPageStore
