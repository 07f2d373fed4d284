CONSTANTS
  Pages = {p1, p2, p3, p4, p5}
  Owners = {o1, o2, o3}
  MaxTable = 4
SPECIFICATION Spec
SYMMETRY MCSymmetry
INVARIANTS
  TypeOK
  RefcountExact
  FreeExact
  NoPageTwice
CHECK_DEADLOCK FALSE
