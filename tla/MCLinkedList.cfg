CONSTANTS
  Nodes = {n1, n2, n3, n4}
  Ids = {i1, i2, i3, i4}
  NULL = NULL
  Junk = Junk
SPECIFICATION Spec
INVARIANTS NoFault MirrorImage
PROPERTIES ImplementsList
