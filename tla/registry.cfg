SPECIFICATION Spec
CONSTANTS
  parent = parent
  child = child
  o1 = o1
  o2 = o2
  o3 = o3
  Classes = {parent, child}
  Parent <- MCParent
  IsA <- MCIsA
  Objects = {o1, o2, o3}
  Null = Null
  None = None
  MaxTampered = 1
CHECK_DEADLOCK FALSE
SYMMETRY Symmetry
INVARIANTS TypeOK DanglesOnlyUnbound LookupsAreSafe
