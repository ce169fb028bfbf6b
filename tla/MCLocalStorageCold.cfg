\* A first read of a cold collection overlapping its first writes.
CONSTANTS
  put1 = put1
  put2 = put2
  put3 = put3
  del = del
  get1 = get1
  get2 = get2
  a = a
  b = b
  Ops <- MCOps
  Kind <- MCKind
  Targets <- MCTargets
  Ids = {a, b}
  NoRecord = NoRecord
  Cold = Cold
  Hydrator = Hydrator
  Uses <- FirstRead
SPECIFICATION Spec
INVARIANT
  WritesKept
