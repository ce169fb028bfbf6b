\* A hydrated collection that is written, and cold ones read and written, under fairness.
CONSTANTS
  put1 = put1
  put2 = put2
  put3 = put3
  del = del
  get1 = get1
  get2 = get2
  a = a
  b = b
  Ops <- MCOps
  Kind <- MCKind
  Targets <- MCTargets
  Ids = {a, b}
  NoRecord = NoRecord
  Cold = Cold
  Hydrator = Hydrator
  Uses <- AllUses
SPECIFICATION FairSpec
INVARIANTS
  OnlyLateReadsUndo
  ReadsAreFresh
PROPERTIES
  CallsEnd
  ImplementsStoreSpec
