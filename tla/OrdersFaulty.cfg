\* One order, called back twice, and every fault.
SPECIFICATION FairSpec
CONSTANTS
  Orders = {o1}
  Callbacks = {c1, c2}
  Usage = 1
  Window = 3
  MaxBlips = 0
  Faults <- AllFaults
  NoOrder = noOrder
INVARIANTS
  TypeOK
  CreditOnlyVerified
  CreditedStaysPaid
PROPERTIES
  ChainsEnd
