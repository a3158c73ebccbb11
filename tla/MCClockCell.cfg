CONSTANTS
  a1 = a1
  a2 = a2
  a3 = a3
  ActorId <- MCActorId
  MaxCount = 2
SPECIFICATION Spec
INVARIANTS
  TypeOK
  OrderIsProduct
  ReplayOrderAgrees
  WireFormIsCanonical
PROPERTIES
  MergeIsLeastUpperBound
