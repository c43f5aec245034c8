\* Two orders, each called back at most once, and a server that may die.
SPECIFICATION FairSpec
CONSTANTS
  Orders = {o1, o2}
  Callbacks = {c1, c2}
  Usage = 1
  Window = 2
  MaxBlips = 1
  Faults <- ServerFaults
  NoOrder = noOrder
INVARIANTS
  PaidIffCredited
  UsageBalanced
PROPERTIES
  FinalStatusStays
  PaymentsSettle
