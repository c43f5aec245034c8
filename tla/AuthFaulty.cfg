\* Four overlapping requests for one phone, written in two ways, and every fault.
SPECIFICATION Spec
CONSTANTS
  Numbers = {n1, n2}
  People = {ali}
  Subscriber <- OnePhone
  Codes = {k1, k2}
  Passwords = {w1, w2}
  Requests = {r1, r2, r3, r4}
  Faults <- AllFaults
  None = none
SYMMETRY Symmetry
INVARIANTS
  TypeOK
  CachedWasSent
  AccountsFunded
PROPERTIES
  SignupKeepsOffer
  PasswordNeedsCode
CHECK_DEADLOCK FALSE
