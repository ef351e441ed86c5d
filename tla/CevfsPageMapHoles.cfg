SPECIFICATION Spec
CONSTANTS
  PageSize = 4
  EntrySz = 2
  MMMax = 4
  U16 = 16
  OpenPgSz = {1}
  PragmaPgSz = {1}
  CmpSizes = {2, 3}
  Upp = {0, 1, 2, 3, 4}
  Data = {d1}
  Faults = {}
  MaxHole = 3
  MaxPgno = 7
  Blank = Blank
INVARIANT MapPagesDistinct
