\* Walks over four items in pages of up to three.
SPECIFICATION Spec
CONSTANTS
  Items = {1, 2, 3, 4}
  MaxTake = 3
  MaxInserts = 2
  MaxDeletes = 2
INVARIANTS
  MissedForDeletes
  RepeatedForInserts
  WalkIsShort
CHECK_DEADLOCK FALSE
