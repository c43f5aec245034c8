\* The same requests, two at a time: is anything spent twice?
SPECIFICATION Spec
CONSTANTS
  Requests = {r1, r2, r3}
  Jobs <- MixedJobs
  Concurrency = 2
  WalletRow = walletRow
SYMMETRY Symmetry
INVARIANTS
  NothingSpentTwice
