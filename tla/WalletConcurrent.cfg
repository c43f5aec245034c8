\* Two tied packages, withdrawals of both and gifts, two requests at a time:
\* stale reads, lock waits and their cycle.
SPECIFICATION OrderedSpec
CONSTANTS
  Requests = {1, 2, 3, 4}
  Jobs <- TiedJobs
  Concurrency = 2
  WalletRow = walletRow
INVARIANTS
  TypeOK
  NeverOverdrawn
  NoMintedCredit
  CreditUsedNeverOverstated
  PackagesAsBought
PROPERTIES
  RequestsEnd
