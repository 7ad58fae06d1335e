\* Two containers, three addresses requested two at a time and one crash: the
\* allocator grants some of what it is asked for, and one address is left over.
SPECIFICATION Spec
CONSTANTS
  Containers = {c1, c2}
  Ids = {i1, i2, i3}
  Allocbuffer = 2
  MaxCrashes = 1
  None = None
SYMMETRY Symmetry
INVARIANTS PoolExclusive HeldIsUsed CollectionComplete
PROPERTY RecreatedOnce
CHECK_DEADLOCK FALSE
