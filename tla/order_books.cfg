SPECIFICATION BooksSpec
SYMMETRY IdSymmetry
CONSTANTS
  Ids          = {x, y, z}
  Prices       = {1, 2}
  Quantities   = {0, 1, 2}
  PoolCapacity = 2
  MaxMisuses   = 1
INVARIANTS
  BookInv
  LookupIsAtLevel
  BooksAgree
PROPERTIES
  IsOrderMap
