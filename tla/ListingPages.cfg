SPECIFICATION Spec
CONSTANTS
  Item = {i1, i2, i3, i4}
  PageSize = 2
  MaxClock = 3
SYMMETRY Symmetry
INVARIANT TypeOK
INVARIANT NoneMissed
INVARIANT NoneTwice
INVARIANT TotalPagesRead
