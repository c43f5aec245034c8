\* Five requests one after the other.
SPECIFICATION Spec
CONSTANTS
  Requests = {r1, r2, r3, r4, r5}
  Jobs <- MixedJobs
  Concurrency = 1
  WalletRow = walletRow
SYMMETRY Symmetry
INVARIANTS
  NothingSpentTwice
  CreditUsedMatchesLedger
  LivePackagesBacked
PROPERTIES
  AccountSpec
