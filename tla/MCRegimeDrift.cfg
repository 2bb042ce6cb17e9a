SPECIFICATION RegimeSpec
CONSTANTS
  credit = credit
  rotation = rotation
  curve = curve
  spy = spy
  Categories <- MCCategories
  Soft <- MCSoft
  Spy = spy
  RedCount = 3
  OrangeCount = 2
  Window = 2
  LastMarketDay = 3
  MaxRegimeFaults = 0
PROPERTY LiveRowIsBackfillRow
SYMMETRY Symmetry
