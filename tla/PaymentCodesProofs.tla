------------------------- MODULE PaymentCodesProofs -------------------------
(***************************************************************************)
(* Proofs about PaymentCodes.tla, for whatever numbers the bank answers    *)
(* and any number of retries and callbacks.                                *)
(***************************************************************************)
EXTENDS PaymentCodes, TLAPS

OrderStatus == {"pending", "failed", "cancelled", "paid", "reversed"}

(* What every entry of the table has: one status of the order, "paid" with   *)
(* status TRUE and with nothing else, and a text of its own kind.            *)
Sound(response) ==
  /\ response \in [status : BOOLEAN, orderStatus : OrderStatus \ {"pending"},
                   code : Int, message : Int]
  /\ response.status <=> response.orderStatus = "paid"
  /\ OrderStatusOf(response.message) = response.orderStatus

(* The code comes back as it is, or as -1, which is in no list.              *)
LEMMA TransformerSound ==
  ASSUME NEW c \in Int
  PROVE  Sound(PaymentGatewayTransformer(c))
  <1> DEFINE t == PaymentGatewayTransformer(c)
             kept == c \in PaidCodes \union CancelledCodes \union ReversedCodes
                             \union FailedCodes
  <1>1. OrderStatusOf(c) \in OrderStatus \ {"pending"}
    BY DEF OrderStatusOf, OrderStatus
  <1>2. OrderStatusOf(c) = "paid" <=> c \in PaidCodes
    BY DEF OrderStatusOf, PaidCodes, CancelledCodes, ReversedCodes
  <1>3. OrderStatusOf(Unexpected) = "failed"
    BY DEF OrderStatusOf, Unexpected, PaidCodes, CancelledCodes, ReversedCodes
  <1>4. ~ kept => OrderStatusOf(c) = "failed"
    BY DEF OrderStatusOf
  <1>5. /\ t.status = (c \in PaidCodes) /\ t.orderStatus = OrderStatusOf(c)
        /\ t.message = IF kept THEN c ELSE Unexpected
        /\ t \in [status : BOOLEAN, orderStatus : {OrderStatusOf(c)}, code : Int, message : Int]
    BY DEF PaymentGatewayTransformer, Unexpected
  <1>6. OrderStatusOf(t.message) = t.orderStatus
    <2>1. CASE kept
      BY <1>5, <2>1
    <2>2. CASE ~ kept
      BY <1>3, <1>4, <1>5, <2>2
    <2> QED BY <2>1, <2>2
  <1> HIDE DEF t
  <1>7. t.status <=> t.orderStatus = "paid"
    BY <1>2, <1>5
  <1>8. t \in [status : BOOLEAN, orderStatus : OrderStatus \ {"pending"}, code : Int, message : Int]
    BY <1>1, <1>5
  <1>9. Sound(t)
    BY <1>6, <1>7, <1>8 DEF Sound
  <1> QED BY <1>9 DEF t

LEMMA AnswerSound ==
  ASSUME NEW c \in Answers
  PROVE  Sound(PaymentGatewayTransformer(c)) /\ PaymentGatewayTransformer(c) \in Responses
  BY TransformerSound, AnswersAssumption DEF Responses

-----------------------------------------------------------------------------
(* A callback runs only for an order with a reference, which was PENDING     *)
(* until a callback changed it; it runs on a paid code; its user has heard   *)
(* nothing good of it while it is still asking; each deposit has its own.    *)
CodesInv ==
  /\ TypeOK
  /\ stage = "new" => callbacks = 0 /\ ~ told
  /\ callbacks > 0 => row.refId
  /\ row.refId => row.status = "pending" \/ OrderStatusOf(row.message) = row.status
  /\ stage \in {"asking", "sleeping"} =>
       /\ Sound(resCode) /\ resCode.status
       /\ asks > 0 => ~ told
       /\ credits < callbacks
  /\ credits <= callbacks
  /\ ToldMeansPaid

LEMMA CodesInit == Init => CodesInv
  <1> SUFFICES ASSUME Init PROVE CodesInv
    OBVIOUS
  <1>1. resCode \in Responses
    BY DEF Init, Responses
  <1>2. credits = 0 /\ asks = 0 /\ callbacks = 0 /\ stage = "new" /\ told = FALSE
    BY DEF Init
  <1>3. row.refId = FALSE
    BY DEF Init
  <1>4. row \in [status : {"none", "pending", "failed", "cancelled", "paid", "reversed"},
                gatewayCode : Int, message : Int, refId : BOOLEAN]
    BY DEF Init
  <1>5. 0 \in 0..Window /\ 0 \in 0..MaxCallbacks
    BY WindowAssumption, MaxCallbacksAssumption
  <1>6. TypeOK
    BY <1>1, <1>2, <1>4, <1>5 DEF TypeOK
  <1> QED BY <1>2, <1>3, <1>6 DEF CodesInv, ToldMeansPaid

LEMMA CreateKeeps ==
  ASSUME CodesInv, NEW c \in Answers, CreateOrder(c)
  PROVE  CodesInv'
  <1> DEFINE result == IF c = 0 THEN PageOpened ELSE PaymentGatewayTransformer(c)
  <1>1. result.status \in BOOLEAN /\ result.code \in Int /\ result.message \in Int
    <2>1. CASE c = 0
      BY <2>1 DEF PageOpened
    <2>2. CASE c # 0
      BY <2>2, AnswerSound DEF Sound
    <2> QED BY <2>1, <2>2
  <1>2. c = 0 => result.status
    BY DEF PageOpened
  <1> HIDE DEF result
  <1>3. row' = [status |-> IF result.status THEN "pending" ELSE "failed",
                gatewayCode |-> result.code, message |-> result.message, refId |-> c = 0]
    BY DEF CreateOrder, result
  <1>4. row' \in [status : {"none", "pending", "failed", "cancelled", "paid", "reversed"},
                  gatewayCode : Int, message : Int, refId : BOOLEAN]
    BY <1>1, <1>3
  <1>5. row'.refId => row'.status = "pending"
    BY <1>2, <1>3
  <1>6. stage = "new" /\ stage' = "idle" /\ UNCHANGED <<credits, resCode, asks, told, callbacks>>
    BY DEF CreateOrder
  <1> QED BY <1>4, <1>5, <1>6 DEF CodesInv, TypeOK, Responses, ToldMeansPaid

(* What a sound answer makes of the order.                                   *)
LEMMA RowSound ==
  ASSUME TypeOK, NEW response, Sound(response),
         \/ HandleFailedPayment(response)
         \/ HandlePaidPayment(response)
  PROVE  /\ row' \in [status : {"none", "pending", "failed", "cancelled", "paid", "reversed"},
                      gatewayCode : Int, message : Int, refId : BOOLEAN]
         /\ row'.refId = row.refId
         /\ row'.status = response.orderStatus
         /\ OrderStatusOf(row'.message) = row'.status
         /\ stage' = "idle"
  <1> USE DEF TypeOK, Sound, OrderStatus
  <1>1. CASE HandleFailedPayment(response)
    BY <1>1 DEF HandleFailedPayment
  <1>2. CASE HandlePaidPayment(response)
    BY <1>2 DEF HandlePaidPayment
  <1> QED BY <1>1, <1>2

LEMMA CallbackKeeps ==
  ASSUME CodesInv, NEW c \in Answers, HandleGatewayCallback(c)
  PROVE  CodesInv'
  <1> DEFINE response == PaymentGatewayTransformer(c)
  <1>1. Sound(response) /\ response \in Responses
    BY AnswerSound
  <1> HIDE DEF response
  <1>2. /\ stage = "idle" /\ callbacks < MaxCallbacks /\ row.refId
        /\ callbacks' = callbacks + 1 /\ asks' = 0 /\ resCode' = response
        /\ IF response.status
           THEN stage' = "asking" /\ UNCHANGED <<row, credits, told>>
           ELSE HandleFailedPayment(response) /\ told' = FALSE
    BY DEF HandleGatewayCallback, response
  <1>3. CASE response.status
    BY <1>1, <1>2, <1>3, WindowAssumption, MaxCallbacksAssumption
    DEF CodesInv, TypeOK, Responses, ToldMeansPaid, Sound
  <1>4. CASE ~ response.status
    <2>1. /\ row' \in [status : {"none", "pending", "failed", "cancelled", "paid", "reversed"},
                       gatewayCode : Int, message : Int, refId : BOOLEAN]
          /\ row'.refId = row.refId
          /\ OrderStatusOf(row'.message) = row'.status
          /\ stage' = "idle" /\ credits' = credits /\ told' = FALSE
      BY <1>1, <1>2, <1>4, RowSound DEF CodesInv, HandleFailedPayment
    <2>2. /\ callbacks' \in 0..MaxCallbacks /\ callbacks' > 0 /\ asks' \in 0..Window
          /\ credits' \in 0..MaxCallbacks /\ credits' <= callbacks'
      BY <1>2, <2>1, WindowAssumption, MaxCallbacksAssumption DEF CodesInv, TypeOK
    <2>3. TypeOK'
      BY <1>1, <1>2, <2>1, <2>2 DEF TypeOK, Responses
    <2> QED BY <1>2, <2>1, <2>2, <2>3 DEF CodesInv, ToldMeansPaid
  <1> QED BY <1>3, <1>4

LEMMA VerifyKeeps ==
  ASSUME CodesInv, NEW c \in Answers, Verify(c)
  PROVE  CodesInv'
  <1> DEFINE response == PaymentGatewayTransformer(c)
  <1>1. Sound(response) /\ response \in Responses
    BY AnswerSound
  <1> HIDE DEF response
  <1>2. /\ stage = "asking" /\ asks < Window /\ asks' = asks + 1
        /\ told' = IF asks = 0 THEN response.status ELSE told
        /\ UNCHANGED <<resCode, callbacks>>
    BY DEF Verify, Tell, response
  <1>3. asks \in 0..Window /\ asks' \in 0..Window /\ asks' > 0 /\ told' \in BOOLEAN
    BY <1>1, <1>2, WindowAssumption DEF CodesInv, TypeOK, Sound
  <1>4. CASE HandleFailedPayment(response) \/ HandlePaidPayment(response)
    <2>1. /\ row' \in [status : {"none", "pending", "failed", "cancelled", "paid", "reversed"},
                       gatewayCode : Int, message : Int, refId : BOOLEAN]
          /\ row'.refId = row.refId
          /\ row'.status = response.orderStatus
          /\ OrderStatusOf(row'.message) = row'.status
          /\ stage' = "idle"
      BY <1>1, <1>4, RowSound DEF CodesInv
    <2>2. credits' \in {credits, credits + 1}
      BY <1>4 DEF HandleFailedPayment, HandlePaidPayment
    <2>3. told' => response.status
      <3>1. CASE asks = 0
        BY <1>2, <3>1
      <3>2. CASE asks > 0
        <4>1. ~ told
          BY <1>2, <3>2 DEF CodesInv
        <4>2. told' = told
          BY <1>2, <3>2
        <4> QED BY <4>1, <4>2
      <3>3. asks = 0 \/ asks > 0
        BY <1>3
      <3> QED BY <3>1, <3>2, <3>3
    <2>4. told' => row'.status = "paid"
      BY <1>1, <2>1, <2>3 DEF Sound
    <2>5. credits' \in 0..MaxCallbacks /\ credits' <= callbacks
      BY <1>2, <2>2, MaxCallbacksAssumption DEF CodesInv, TypeOK
    <2> QED BY <1>2, <1>3, <2>1, <2>4, <2>5 DEF CodesInv, TypeOK, Responses, ToldMeansPaid
  <1>5. CASE response.orderStatus = "failed" /\ stage' = "sleeping" /\ UNCHANGED <<row, credits>>
    <2>1. ~ told'
      BY <1>1, <1>2, <1>3, <1>5 DEF Sound, CodesInv
    <2> QED BY <1>2, <1>3, <1>5, <2>1 DEF CodesInv, TypeOK, Responses, ToldMeansPaid, Sound
  <1> QED BY <1>4, <1>5 DEF Verify, response

LEMMA RestKeeps ==
  ASSUME CodesInv, Wake \/ GiveUp
  PROVE  CodesInv'
  <1>1. CASE Wake
    BY <1>1 DEF Wake, CodesInv, TypeOK, Responses, ToldMeansPaid, Sound
  <1>2. CASE GiveUp
    <2>1. HandleFailedPayment(resCode) /\ Sound(resCode) /\ resCode.status
      BY <1>2 DEF GiveUp, CodesInv
    <2>2. /\ row' \in [status : {"none", "pending", "failed", "cancelled", "paid", "reversed"},
                       gatewayCode : Int, message : Int, refId : BOOLEAN]
          /\ row'.refId = row.refId
          /\ row'.status = resCode.orderStatus
          /\ OrderStatusOf(row'.message) = row'.status
          /\ stage' = "idle"
      BY <2>1, RowSound DEF CodesInv
    <2>3. row'.status = "paid" /\ credits' = credits
      BY <2>1, <2>2 DEF Sound, HandleFailedPayment
    <2>4. UNCHANGED <<resCode, asks, told, callbacks>>
      BY <1>2 DEF GiveUp
    <2> QED BY <2>2, <2>3, <2>4 DEF CodesInv, TypeOK, Responses, ToldMeansPaid
  <1> QED BY <1>1, <1>2

(* CodesInv is inductive.                                                    *)
THEOREM Codes == Spec => []CodesInv
  <1>1. CodesInv /\ [Next]_vars => CodesInv'
    <2> SUFFICES ASSUME CodesInv, [Next]_vars PROVE CodesInv'
      OBVIOUS
    <2>1. CASE UNCHANGED vars
      BY <2>1 DEF vars, CodesInv, TypeOK, Responses, ToldMeansPaid, Sound
    <2>2. CASE Next
      BY <2>2, CreateKeeps, CallbackKeeps, VerifyKeeps, RestKeeps DEF Next
    <2> QED BY <2>1, <2>2
  <1> QED BY <1>1, CodesInit, PTL DEF Spec

(* The columns of the order keep their shapes, and no callback of the bank   *)
(* is credited more than once.                                               *)
THEOREM TypeOKHolds == Spec => []TypeOK
  <1>1. CodesInv => TypeOK
    BY DEF CodesInv
  <1> QED BY <1>1, Codes, PTL

(* Whatever numbers the bank answers, only the user of a PAID order was told *)
(* that the payment succeeded.                                               *)
THEOREM ToldMeansPaidHolds == Spec => []ToldMeansPaid
  <1>1. CodesInv => ToldMeansPaid
    BY DEF CodesInv
  <1> QED BY <1>1, Codes, PTL

(* Whatever numbers the bank answers, in whatever order, the text of a       *)
(* settled order and its status belong together.                             *)
THEOREM MessageBelongsToStatusHolds == Spec => []MessageBelongsToStatus
  <1>1. CodesInv => MessageBelongsToStatus
    BY DEF CodesInv, MessageBelongsToStatus
  <1> QED BY <1>1, Codes, PTL
=============================================================================
