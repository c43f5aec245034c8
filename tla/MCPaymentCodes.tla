--------------------------- MODULE MCPaymentCodes ---------------------------
(* Every code of the table and two the table does not know. *)
EXTENDS PaymentCodes

EveryCode == PaidCodes \union CancelledCodes \union ReversedCodes \union FailedCodes
               \union {Unexpected, 99}
=============================================================================
