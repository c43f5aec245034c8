\* Every code of the bank, two callbacks.
SPECIFICATION FairSpec
CONSTANTS
  Answers <- EveryCode
  Window = 2
  MaxCallbacks = 2
INVARIANTS
  TypeOK
  ToldMeansPaid
  MessageBelongsToStatus
PROPERTIES
  CallbacksSettle
CHECK_DEADLOCK FALSE
