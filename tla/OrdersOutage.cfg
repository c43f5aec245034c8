\* One order and a bank that gives transient answers past the window.
SPECIFICATION Spec
CONSTANTS
  Orders = {o1}
  Callbacks = {c1}
  Usage = 1
  Window = 2
  MaxBlips = 0
  Faults <- LongOutage
  NoOrder = noOrder
INVARIANTS
  PaidMeansCredited
