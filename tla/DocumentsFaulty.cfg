\* Two requests, two deliveries at once and every fault.
SPECIFICATION Spec
CONSTANTS
  Documents = {d1, d2}
  Requests = {r1, r2}
  Slots = {h1, h2}
  Pages <- TwoPages
  Credit = 3
  MaxErrors = 2
  Faults <- AllFaults
  NoDocument = noDocument
SYMMETRY Symmetry
INVARIANTS
  TypeOK
  DoneWasProduced
  TasksArePaid
CHECK_DEADLOCK FALSE
