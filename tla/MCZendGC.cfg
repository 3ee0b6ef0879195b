CONSTANTS
  Array = {a1, a2}
  Zval = {z1, z2}
  Obj = {o1}
  Var = {x}
  Key = {i}
  Property = {p, q}
  GC_ROOT_BUFFER_MAX_ENTRIES = 2
  Nil = Nil
SPECIFICATION Spec
SYMMETRY Symmetry
INVARIANTS
  TypeOK
  RefcountsExact
  GarbageHasRoot
PROPERTIES
  KeepsHeap
