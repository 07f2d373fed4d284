CONSTANTS
  Pages = {p1, p2, p3}
  PageSize = 2
  Requests = {r1, r2}
  Values = {a, b}
  Unset = unset
  MaxLen = 4
  MaxAppend = 3
SPECIFICATION Spec
SYMMETRY MCSymmetry
PROPERTIES
  StoreSpec
INVARIANTS
  TypeOK
  RefcountExact
  LengthCovered
  NeverOutOfPages
