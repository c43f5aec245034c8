---------------------------- MODULE PaymentCodes ----------------------------
(***************************************************************************)
(* The codes of the bank and what one order makes of them: the table of    *)
(* utils/payment.ts, the columns of the order each answer fills, and what  *)
(* the user is told.  Orders.tla has the same handlers with three kinds of *)
(* answer and everything that runs beside them; here callbacks come one    *)
(* after the other and every code is told apart.                           *)
(***************************************************************************)
EXTENDS Integers

CONSTANTS
  Answers,      \* the numbers the bank may answer
  Window,       \* retries that fit into 20 minutes
  MaxCallbacks  \* bound: callbacks of the bank

ASSUME AnswersAssumption == Answers \subseteq Int
ASSUME WindowAssumption == Window \in Nat \ {0}
ASSUME MaxCallbacksAssumption == MaxCallbacks \in Nat

VARIABLES
  row,       \* the order's columns
  credits,   \* deposits for the order
  stage,     \* "new", "idle" between requests, "asking", "sleeping"
  resCode,   \* data.ResCode of the running callback
  asks,      \* verifications of the running callback so far
  told,      \* response.status in the last answer a user got
  callbacks

vars == <<row, credits, stage, resCode, asks, told, callbacks>>

-----------------------------------------------------------------------------
(* paymentGatewayTransformer *)

PaidCodes == {0, 43, 45}
CardCodes == (11..16) \union {18, 19}
CancelledCodes == {17}
IssuerCodes == 111..114
MerchantCodes == {21, 23, 24, 25}
SystemCodes == 31..35
RequestCodes == {41, 42, 44, 46, 47}
ReversedCodes == {48}
BillCodes == (412..419) \union {421}
TransactionCodes == {51, 54, 55, 61, 62, 98}
FailedCodes == CardCodes \union IssuerCodes \union MerchantCodes \union SystemCodes
                 \union RequestCodes \union BillCodes \union TransactionCodes

OrderStatusOf(c) ==
  CASE c \in PaidCodes -> "paid"
    [] c \in CancelledCodes -> "cancelled"
    [] c \in ReversedCodes -> "reversed"
    [] OTHER -> "failed"

(* The default case, a ResCode that is no number included. *)
Unexpected == -1

(* A text is named by the code it belongs to. *)
PaymentGatewayTransformer(c) ==
  LET code == IF c \in PaidCodes \union CancelledCodes \union ReversedCodes \union FailedCodes
              THEN c ELSE Unexpected
  IN  [status |-> c \in PaidCodes, orderStatus |-> OrderStatusOf(c),
       code |-> code, message |-> code]

(* payRequest: no text, and the order waits to be paid. *)
PageOpened == [status |-> TRUE, orderStatus |-> "pending", code |-> 0, message |-> 0]

-----------------------------------------------------------------------------

Init ==
  /\ row = [status |-> "none", gatewayCode |-> 0, message |-> 0, refId |-> FALSE]
  /\ credits = 0
  /\ stage = "new"
  /\ resCode = PageOpened
  /\ asks = 0 /\ callbacks = 0
  /\ told = FALSE

(* createOrder and getPaymentGatewayUrl.  Only "0,refId" has a reference.    *)
CreateOrder(c) ==
  LET result == IF c = 0 THEN PageOpened ELSE PaymentGatewayTransformer(c) IN
  /\ stage = "new"
  /\ row' = [status |-> IF result.status THEN "pending" ELSE "failed",
             gatewayCode |-> result.code, message |-> result.message,
             refId |-> c = 0]
  /\ stage' = "idle"
  /\ UNCHANGED <<credits, resCode, asks, told, callbacks>>

(* As if a failed answer were taken for an order status of its own. *)
NullStatusMutant(response) ==
  /\ row' = [row EXCEPT !.status = "null", !.message = response.message]
  /\ stage' = "idle"
  /\ UNCHANGED credits

HandleFailedPayment(response) ==
  /\ row' = [row EXCEPT !.status = response.orderStatus, !.message = response.message]
  /\ stage' = "idle"
  /\ UNCHANGED credits

(* As if the text were left as the bank's first answer set it. *)
NoMessageMutant(response) ==
  /\ row' = [row EXCEPT !.status = response.orderStatus, !.gatewayCode = response.code]
  /\ credits' = credits + 1
  /\ stage' = "idle"

HandlePaidPayment(response) ==
  /\ row' = [row EXCEPT !.status = response.orderStatus, !.message = response.message,
                        !.gatewayCode = response.code]
  /\ credits' = credits + 1
  /\ stage' = "idle"

(* getRedirectUrl: only the answer to the callback itself reaches the user.  *)
Tell(response) == told' = IF asks = 0 THEN response.status ELSE told

(* handleGatewayCallback.  An order without refId matches no callback.  The  *)
(* reference of the payment goes to extraDetails and is left out.            *)
HandleGatewayCallback(c) ==
  LET response == PaymentGatewayTransformer(c) IN
  /\ stage = "idle" /\ callbacks < MaxCallbacks
  /\ row.refId
  /\ callbacks' = callbacks + 1
  /\ asks' = 0
  /\ resCode' = response
  /\ IF response.status
     THEN /\ stage' = "asking"
          /\ UNCHANGED <<row, credits, told>>
     ELSE /\ HandleFailedPayment(response)
          /\ told' = FALSE

TellResCodeMutant(c) ==
  LET response == PaymentGatewayTransformer(c) IN
  /\ stage = "asking" /\ asks < Window
  /\ asks' = asks + 1
  /\ Tell(resCode)
  /\ \/ response.orderStatus \in {"cancelled", "reversed"} /\ HandleFailedPayment(response)
     \/ response.status /\ HandlePaidPayment(response)
     \/ /\ response.orderStatus = "failed"
        /\ stage' = "sleeping"
        /\ UNCHANGED <<row, credits>>
  /\ UNCHANGED <<resCode, callbacks>>

(* As if every attempt refreshed the order, as every write to it does. *)
RefreshMutant(c) ==
  LET response == PaymentGatewayTransformer(c) IN
  /\ stage = "asking" /\ asks < Window
  /\ asks' = IF response.orderStatus = "failed" THEN asks ELSE asks + 1
  /\ Tell(response)
  /\ \/ response.orderStatus \in {"cancelled", "reversed"} /\ HandleFailedPayment(response)
     \/ response.status /\ HandlePaidPayment(response)
     \/ /\ response.orderStatus = "failed"
        /\ stage' = "sleeping"
        /\ UNCHANGED <<row, credits>>
  /\ UNCHANGED <<resCode, callbacks>>

(* verifyPaymentAndGetUrl within the window. *)
Verify(c) ==
  LET response == PaymentGatewayTransformer(c) IN
  /\ stage = "asking" /\ asks < Window
  /\ asks' = asks + 1
  /\ Tell(response)
  /\ \/ response.orderStatus \in {"cancelled", "reversed"} /\ HandleFailedPayment(response)
     \/ response.status /\ HandlePaidPayment(response)
     \/ /\ response.orderStatus = "failed"
        /\ stage' = "sleeping"
        /\ UNCHANGED <<row, credits>>
  /\ UNCHANGED <<resCode, callbacks>>

Wake ==
  /\ stage = "sleeping"
  /\ stage' = "asking"
  /\ UNCHANGED <<row, credits, resCode, asks, told, callbacks>>

(* verifyPaymentAndGetUrl past the window: data.ResCode is recorded.         *)
GiveUp ==
  /\ stage = "asking" /\ asks = Window
  /\ HandleFailedPayment(resCode)
  /\ UNCHANGED <<resCode, asks, told, callbacks>>

Next ==
  \/ \E c \in Answers : CreateOrder(c) \/ HandleGatewayCallback(c) \/ Verify(c)
  \/ Wake \/ GiveUp

Spec == Init /\ [][Next]_vars

(* Timers fire and the bank answers, with whatever code. *)
FairSpec == Spec /\ WF_vars(Wake \/ GiveUp \/ \E c \in Answers : Verify(c))

-----------------------------------------------------------------------------

Responses == {PageOpened} \union {PaymentGatewayTransformer(c) : c \in Answers}

TypeOK ==
  /\ row \in [status : {"none", "pending", "failed", "cancelled", "paid", "reversed"},
              gatewayCode : Int, message : Int, refId : BOOLEAN]
  /\ credits \in 0..MaxCallbacks
  /\ stage \in {"new", "idle", "asking", "sleeping"}
  /\ resCode \in Responses
  /\ asks \in 0..Window /\ callbacks \in 0..MaxCallbacks
  /\ told \in BOOLEAN

(* A user who was told that the payment succeeded has a PAID order: what the *)
(* redirect says is what the handler stored before (order.service.ts:229).   *)
ToldMeansPaid == told => row.status = "paid"

(* Whatever the bank answers to whichever question, the text an order shows  *)
(* belongs to its status (order.service.ts:172-176, :200-205).               *)
MessageBelongsToStatus ==
  callbacks > 0 /\ row.status # "pending" => OrderStatusOf(row.message) = row.status

(* Every callback settles, whatever codes the bank answers with.             *)
CallbacksSettle == stage = "asking" ~> stage = "idle"
=============================================================================
