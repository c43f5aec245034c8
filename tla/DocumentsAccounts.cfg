SPECIFICATION FairSpec
CONSTANTS
  Documents = {d1, d2}
  Requests = {r1, r2, r3}
  Slots = {h1, h2}
  Pages <- TwoPages
  Credit = 5
  MaxErrors = 2
  Faults <- SaveFaults
  NoDocument = noDocument
INVARIANTS
  AccountsMatch
  ClientFollows
PROPERTIES
  EditSurvives
  JobsSpec
CHECK_DEADLOCK FALSE
