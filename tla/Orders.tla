------------------------------- MODULE Orders -------------------------------
(***************************************************************************)
(* Orders paid through the bank's gateway (order.service.ts).              *)
(*                                                                         *)
(* createOrder is one transaction that reads the discount code, saves the  *)
(* order and asks the bank for a payment page.  Each callback is a handler *)
(* of its own, which verifies the payment and sleeps a minute in memory    *)
(* between attempts until 20 minutes after the order's last update.        *)
(* Crediting the wallet (Wallet.tla) is one transaction with the order's   *)
(* update and is counted in credits.                                       *)
(*                                                                         *)
(* One discount code exists; amounts, and the read of the code that only   *)
(* they depend on, are left out.  A tick of the clock is one retry         *)
(* interval.                                                               *)
(***************************************************************************)
EXTENDS Integers, FiniteSets

CONSTANTS
  Orders,     \* orders users may submit
  Callbacks,  \* deliveries of the bank's callback
  Usage,      \* maxUsage of the discount code at first
  Window,     \* ticks an order may be verified after its last update
  MaxBlips,   \* bound: transient answers of the bank per order
  Faults,     \* what may go wrong around the code
  NoOrder     \* a handler that has not matched an order

ASSUME UsageAssumption == Usage \in Nat
ASSUME WindowAssumption == Window \in Nat \ {0}
ASSUME MaxBlipsAssumption == MaxBlips \in Nat

ASSUME NoOrderAssumption == NoOrder \notin Orders

(* overlap: two createOrder at once; late: the decrement that is not awaited *)
(* runs after COMMIT; lapse: the code expires or is deleted; duplicate: the  *)
(* bank calls back again; contradict: the ResCode of a callback is not what  *)
(* the bank says of the order; slow: a step takes over a minute; outage: the *)
(* bank gives transient answers without end; lost: its answer does not       *)
(* arrive; select: the read of shouldVerifyOrder fails; database: any other  *)
(* statement of a handler does; restart: the server dies.                    *)
ASSUME FaultsAssumption ==
  Faults \subseteq {"overlap", "late", "lapse", "duplicate", "contradict", "slow",
                    "outage", "lost", "select", "database", "restart"}

VARIABLES
  \* orders and discount_codes
  status,      \* "none" until createOrder commits
  linked,      \* the order refers to the discount code
  age,         \* ticks since updatedAt
  maxUsage, valid,
  credits,     \* deposits in the transactions table that name the order
  \* createOrder
  stage,
  mistyped,    \* orders submitted with a code that does not exist
  floating,    \* orders whose decrement was started and not awaited
  \* handlers of callbacks
  pc, target,
  resCode,     \* data.ResCode.orderStatus of each
  answer,      \* the response handleFailedPayment gets: its orderStatus
  woken,       \* handlers that run on a timer, not on a request
  \* the bank
  bank, blips

tables   == <<status, linked, age, maxUsage, valid, credits>>
creation == <<stage, mistyped, floating>>
handlers == <<pc, target, resCode, answer, woken>>
gateway  == <<bank, blips>>
vars == <<tables, creation, handlers, gateway>>

OrderStatus == {"pending", "failed", "cancelled", "paid", "reversed"}
Submitting == {"saved", "accepted", "refused"}
Stages == {"new", "committed", "dropped"} \union Submitting
BankStates == {"unknown", "registered", "paid", "cancelled", "failed", "reversed", "verified"}
Ready == {"matched", "checking", "asking", "paying", "failing"}
Over == {"credited", "closed", "lost"}

Init ==
  /\ status = [o \in Orders |-> "none"]
  /\ linked = [o \in Orders |-> FALSE]
  /\ age = [o \in Orders |-> 0]
  /\ maxUsage = Usage /\ valid = TRUE
  /\ credits = [o \in Orders |-> 0]
  /\ stage = [o \in Orders |-> "new"]
  /\ mistyped \in SUBSET Orders
  /\ floating = {}
  /\ pc = [c \in Callbacks |-> "idle"]
  /\ target = [c \in Callbacks |-> NoOrder]
  /\ resCode = [c \in Callbacks |-> "pending"]
  /\ answer = [c \in Callbacks |-> "pending"]
  /\ woken = {}
  /\ bank = [o \in Orders |-> "unknown"]
  /\ blips = [o \in Orders |-> 0]

-----------------------------------------------------------------------------
(* createOrder *)

(* findOneDiscountCode: TypeORM leaves out a condition whose value is        *)
(* undefined, so no code at all finds any usable one.                        *)
FindsDiscount(o) == o \notin mistyped /\ valid /\ maxUsage > 0

(* The read of the code decides which one the order refers to. *)
SaveOrder(o) ==
  /\ stage[o] = "new"
  /\ "overlap" \in Faults \/ \A p \in Orders : stage[p] \notin Submitting
  /\ linked' = [linked EXCEPT ![o] = FindsDiscount(o)]
  /\ stage' = [stage EXCEPT ![o] = "saved"]
  /\ UNCHANGED <<status, age, maxUsage, valid, credits, mistyped, floating,
                 handlers, gateway>>

PayRequest(o) ==
  /\ stage[o] = "saved"
  /\ \/ /\ stage' = [stage EXCEPT ![o] = "accepted"]
        /\ bank' = [bank EXCEPT ![o] = "registered"]
        /\ UNCHANGED blips
     \/ /\ stage' = [stage EXCEPT ![o] = "refused"]
        /\ UNCHANGED gateway
  /\ UNCHANGED <<tables, mistyped, floating, handlers>>

(* An exception rolls the order back; the bank may have opened a page that  *)
(* nobody will be sent to.                                                   *)
CreateFails(o) ==
  /\ \/ "database" \in Faults /\ stage[o] \in Submitting
     \/ "lost" \in Faults /\ stage[o] = "saved"
  /\ stage' = [stage EXCEPT ![o] = "dropped"]
  /\ linked' = [linked EXCEPT ![o] = FALSE]
  /\ UNCHANGED <<status, age, maxUsage, valid, credits, mistyped, floating,
                 handlers, gateway>>

(* updateDiscountCodeUsage(.., 'decrement') is started, also for an order    *)
(* the bank refused, but not awaited: nothing orders it before COMMIT.       *)
CommitOrder(o) ==
  /\ stage[o] \in {"accepted", "refused"}
  /\ status' = [status EXCEPT ![o] = IF stage[o] = "accepted" THEN "pending" ELSE "failed"]
  /\ age' = [age EXCEPT ![o] = 0]
  /\ stage' = [stage EXCEPT ![o] = "committed"]
  /\ \/ /\ linked[o]
        /\ maxUsage' = maxUsage - 1
        /\ UNCHANGED floating
     \/ /\ linked[o] /\ "late" \in Faults
        /\ floating' = floating \union {o}
        /\ UNCHANGED maxUsage
     \/ /\ ~linked[o]
        /\ UNCHANGED <<maxUsage, floating>>
  /\ UNCHANGED <<linked, valid, credits, mistyped, handlers, gateway>>

DecrementUsage(o) ==
  /\ o \in floating
  /\ maxUsage' = maxUsage - 1
  /\ floating' = floating \ {o}
  /\ UNCHANGED <<status, linked, age, valid, credits, stage, mistyped,
                 handlers, gateway>>

Create(o) ==
  SaveOrder(o) \/ PayRequest(o) \/ CreateFails(o) \/ CommitOrder(o) \/ DecrementUsage(o)

-----------------------------------------------------------------------------
(* The bank and the clock *)

(* The user, sent to the bank's page, pays, gives up or has a card that is   *)
(* declined.                                                                 *)
UserPays(o) ==
  /\ stage[o] = "committed" /\ bank[o] = "registered"
  /\ bank' = [bank EXCEPT ![o] = "paid"]
  /\ UNCHANGED <<tables, creation, handlers, blips>>

UserFails(o) ==
  /\ stage[o] = "committed" /\ bank[o] = "registered"
  /\ \E outcome \in {"cancelled", "failed"} : bank' = [bank EXCEPT ![o] = outcome]
  /\ UNCHANGED <<tables, creation, handlers, blips>>

(* The bank gives back a payment that was not verified. *)
BankReverses(o) ==
  /\ bank[o] = "paid"
  /\ bank' = [bank EXCEPT ![o] = "reversed"]
  /\ UNCHANGED <<tables, creation, handlers, blips>>

CodeLapses ==
  /\ "lapse" \in Faults
  /\ valid
  /\ valid' = FALSE
  /\ UNCHANGED <<status, linked, age, maxUsage, credits, creation, handlers, gateway>>

(* A minute passes: updatedAt recedes and the timers fire. *)
Tick ==
  /\ "slow" \in Faults \/ \A c \in Callbacks : pc[c] \notin Ready
  /\ age' = [o \in Orders |->
       IF status[o] # "none" /\ age[o] < Window THEN age[o] + 1 ELSE age[o]]
  /\ pc' = [c \in Callbacks |-> IF pc[c] = "sleeping" THEN "checking" ELSE pc[c]]
  /\ woken' = woken \union {c \in Callbacks : pc[c] = "sleeping"}
  /\ UNCHANGED <<status, linked, maxUsage, valid, credits, creation, target, resCode, answer, gateway>>

-----------------------------------------------------------------------------
(* handleGatewayCallback *)

Step(c, to) == pc' = [pc EXCEPT ![c] = to]

(* As if a code of the bank had no order status. *)
NoStatusMutant(o) == IF bank[o] = "cancelled" THEN {"null"} ELSE {"paid"}

(* Any POST carries its own ResCode; the bank's says what became of the      *)
(* payment.                                                                  *)
ResCode(o) ==
  IF "contradict" \in Faults THEN OrderStatus \ {"pending"}
  ELSE {IF bank[o] \in {"cancelled", "failed"} THEN bank[o] ELSE "paid"}

(* findOne matches refId and id; a refused order has no refId.               *)
Receive(c) ==
  /\ pc[c] = "idle"
  /\ \E o \in Orders :
       /\ status[o] # "none" /\ bank[o] # "unknown"
       /\ "contradict" \in Faults \/ bank[o] # "registered"
       /\ "duplicate" \in Faults \/ \A d \in Callbacks : target[d] # o
       /\ target' = [target EXCEPT ![c] = o]
       /\ \E code \in ResCode(o) : resCode' = [resCode EXCEPT ![c] = code]
  /\ Step(c, "matched")
  /\ UNCHANGED <<tables, creation, answer, woken, gateway>>

(* A transaction of its own, which sets updatedAt.  A ResCode other than     *)
(* success is not verified.                                                  *)
UpdateExtraDetails(c) ==
  /\ pc[c] = "matched"
  /\ age' = [age EXCEPT ![target[c]] = 0]
  /\ answer' = [answer EXCEPT ![c] = resCode[c]]
  /\ Step(c, IF resCode[c] = "paid" THEN "checking" ELSE "failing")
  /\ UNCHANGED <<status, linked, maxUsage, valid, credits, creation,
                 target, resCode, woken, gateway>>

NeverAskMutant(c) ==
  /\ pc[c] = "checking"
  /\ Step(c, "paying")
  /\ UNCHANGED <<tables, creation, target, resCode, answer, woken, gateway>>

EarlyWindowMutant(c) ==
  /\ pc[c] = "checking"
  /\ Step(c, IF age[target[c]] + 1 < Window THEN "asking" ELSE "failing")
  /\ UNCHANGED <<tables, creation, target, resCode, answer, woken, gateway>>

(* shouldVerifyOrder takes a read that fails for one that finds nothing.     *)
(* Then the handler reports data.ResCode, which says PAID.                   *)
ShouldVerify(c) ==
  /\ pc[c] = "checking"
  /\ \/ /\ age[target[c]] < Window
        /\ Step(c, "asking")
        /\ UNCHANGED answer
     \/ /\ age[target[c]] >= Window \/ "select" \in Faults
        /\ answer' = [answer EXCEPT ![c] = resCode[c]]
        /\ Step(c, "failing")
  /\ UNCHANGED <<tables, creation, target, resCode, woken, gateway>>

(* The server dies: timers, handlers, open transactions and the decrements   *)
(* that were not sent are gone.                                              *)
Die ==
  /\ pc' = [c \in Callbacks |-> IF pc[c] \in {"idle"} \union Over THEN pc[c] ELSE "lost"]
  /\ stage' = [o \in Orders |-> IF stage[o] \in Submitting THEN "dropped" ELSE stage[o]]
  /\ linked' = [o \in Orders |-> stage[o] \notin Submitting /\ linked[o]]
  /\ floating' = {}
  /\ woken' = {}
  /\ UNCHANGED <<status, age, maxUsage, valid, credits, mistyped,
                 target, resCode, answer>>

(* An exception in a request is answered 500; in a timer the rejection is    *)
(* unhandled and ends the process, which docker restarts.                    *)
Throw(c) ==
  IF c \in woken THEN Die
  ELSE Step(c, "lost") /\ UNCHANGED <<tables, creation, target, resCode, answer, woken>>

(* verifyPay answers 0 or 43 (already verified) for a payment it has, 48 for *)
(* a reversed one, 17 for a cancelled one.                                   *)
BankAnswers(c) ==
  LET o == target[c] IN
  /\ pc[c] = "asking"
  /\ \/ /\ bank[o] \in {"paid", "verified"}
        /\ bank' = [bank EXCEPT ![o] = "verified"]
        /\ Step(c, "paying")
        /\ UNCHANGED answer
     \/ /\ bank[o] \in {"reversed", "cancelled"}
        /\ answer' = [answer EXCEPT ![c] = bank[o]]
        /\ Step(c, "failing")
        /\ UNCHANGED bank
  /\ UNCHANGED <<tables, creation, target, resCode, woken, blips>>

(* Nothing was paid that the bank could verify: it says so every time.       *)
Unpaid(o) == bank[o] \in {"registered", "cancelled", "failed"}

CountBlip(o) ==
  blips' = IF "outage" \in Faults \/ Unpaid(o) THEN blips ELSE [blips EXCEPT ![o] = @ + 1]

(* As if every attempt were recorded in the order. *)
BlipRefreshesMutant(c) ==
  /\ pc[c] = "asking"
  /\ "outage" \in Faults \/ Unpaid(target[c]) \/ blips[target[c]] < MaxBlips
  /\ CountBlip(target[c])
  /\ age' = [age EXCEPT ![target[c]] = 0]
  /\ Step(c, "sleeping")
  /\ woken' = woken \ {c}
  /\ UNCHANGED <<status, linked, maxUsage, valid, credits, creation, target, resCode, answer, bank>>

BlipFailsMutant(c) ==
  /\ pc[c] = "asking"
  /\ "outage" \in Faults \/ Unpaid(target[c]) \/ blips[target[c]] < MaxBlips
  /\ CountBlip(target[c])
  /\ status' = [status EXCEPT ![target[c]] = "failed"]
  /\ Step(c, "sleeping")
  /\ woken' = woken \ {c}
  /\ UNCHANGED <<linked, age, maxUsage, valid, credits, creation, target, resCode, answer, bank>>

BlipGivesUpMutant(c) ==
  /\ pc[c] = "asking"
  /\ "outage" \in Faults \/ Unpaid(target[c]) \/ blips[target[c]] < MaxBlips
  /\ Step(c, "closed")
  /\ UNCHANGED <<tables, creation, target, resCode, answer, woken, gateway>>

(* Any other code: retry in a minute, on a timer in memory. *)
BankBlips(c) ==
  /\ pc[c] = "asking"
  /\ "outage" \in Faults \/ Unpaid(target[c]) \/ blips[target[c]] < MaxBlips
  /\ CountBlip(target[c])
  /\ Step(c, "sleeping")
  /\ woken' = woken \ {c}
  /\ UNCHANGED <<tables, creation, target, resCode, answer, bank>>

(* verifyPay throws, and the bank may have verified the payment. *)
AnswerLost(c) ==
  LET o == target[c] IN
  /\ "lost" \in Faults
  /\ pc[c] = "asking"
  /\ bank' \in {bank, IF bank[o] = "paid" THEN [bank EXCEPT ![o] = "verified"] ELSE bank}
  /\ Throw(c)
  /\ UNCHANGED blips

(* A transaction that throws leaves no trace.                                *)
HandlerFails(c) ==
  /\ "database" \in Faults
  /\ pc[c] \in {"matched", "paying", "failing"}
  /\ Throw(c)
  /\ UNCHANGED gateway

(* One transaction: order, wallet and package.  The status is not looked at. *)
HandlePaidPayment(c) ==
  LET o == target[c] IN
  /\ pc[c] = "paying"
  /\ status' = [status EXCEPT ![o] = "paid"]
  /\ age' = [age EXCEPT ![o] = 0]
  /\ credits' = [credits EXCEPT ![o] = @ + 1]
  /\ Step(c, "credited")
  /\ UNCHANGED <<linked, maxUsage, valid, creation, target, resCode, answer, woken, gateway>>

FailUnlinkedMutant(c) ==
  LET o == target[c] IN
  /\ pc[c] = "failing"
  /\ maxUsage' = maxUsage + 1
  /\ status' = [status EXCEPT ![o] = answer[c]]
  /\ age' = [age EXCEPT ![o] = 0]
  /\ Step(c, "closed")
  /\ UNCHANGED <<linked, valid, credits, creation, target, resCode, answer, woken, gateway>>

(* As if a failed payment were always recorded as failed. *)
FailAsFailedMutant(c) ==
  LET o == target[c] IN
  /\ pc[c] = "failing"
  /\ maxUsage' = IF linked[o] THEN maxUsage + 1 ELSE maxUsage
  /\ status' = [status EXCEPT ![o] = "failed"]
  /\ age' = [age EXCEPT ![o] = 0]
  /\ Step(c, "closed")
  /\ UNCHANGED <<linked, valid, credits, creation, target, resCode, answer, woken, gateway>>

HandleFailedPayment(c) ==
  LET o == target[c] IN
  /\ pc[c] = "failing"
  /\ maxUsage' = IF linked[o] THEN maxUsage + 1 ELSE maxUsage
  /\ status' = [status EXCEPT ![o] = answer[c]]
  /\ age' = [age EXCEPT ![o] = 0]
  /\ Step(c, "closed")
  /\ UNCHANGED <<linked, valid, credits, creation, target, resCode, answer, woken, gateway>>

Handle(c) ==
  \/ UpdateExtraDetails(c) \/ ShouldVerify(c)
  \/ BankAnswers(c) \/ BankBlips(c) \/ AnswerLost(c) \/ HandlerFails(c)
  \/ HandlePaidPayment(c) \/ HandleFailedPayment(c)

Restart ==
  /\ "restart" \in Faults
  /\ Die
  /\ UNCHANGED gateway

Next ==
  \/ \E o \in Orders : Create(o) \/ UserPays(o) \/ UserFails(o) \/ BankReverses(o)
  \/ \E c \in Callbacks : Receive(c) \/ Handle(c)
  \/ CodeLapses \/ Tick \/ Restart

Spec == Init /\ [][Next]_vars

(* Node runs every handler on, timers fire, the bank delivers its callbacks. *)
Fairness ==
  /\ \A o \in Orders : WF_vars(Create(o))
  /\ \A c \in Callbacks : WF_vars(Handle(c)) /\ WF_vars(Receive(c))
  /\ WF_vars(Tick)
FairSpec == Spec /\ Fairness

-----------------------------------------------------------------------------
(* What holds whatever goes wrong.                                           *)

TypeOK ==
  /\ status \in [Orders -> {"none"} \union OrderStatus]
  /\ linked \in [Orders -> BOOLEAN]
  /\ age \in [Orders -> 0..Window]
  /\ maxUsage \in Int /\ valid \in BOOLEAN
  /\ credits \in [Orders -> Nat]
  /\ stage \in [Orders -> Stages]
  /\ mistyped \subseteq Orders
  /\ floating \subseteq Orders
  /\ pc \in [Callbacks -> {"idle", "sleeping"} \union Ready \union Over]
  /\ target \in [Callbacks -> Orders \union {NoOrder}]
  /\ resCode \in [Callbacks -> OrderStatus]
  /\ answer \in [Callbacks -> OrderStatus]
  /\ woken \subseteq Callbacks
  /\ bank \in [Orders -> BankStates]
  /\ blips \in [Orders -> Nat]

(* Duplicated callbacks, retries, restarts and callbacks that claim a        *)
(* success there was not included, a wallet is credited only for a payment   *)
(* the bank has verified (order.service.ts:235-251).                         *)
CreditOnlyVerified ==
  \A o \in Orders : credits[o] > 0 => bank[o] = "verified"

(* Nothing but a callback whose own ResCode is a failure takes the status    *)
(* PAID from an order whose package the user already has: no late answer to  *)
(* a verification, no expired retry, no repeated success                     *)
(* (order.service.ts:232, 240).                                              *)
CreditedStaysPaid ==
  \A o \in Orders : credits[o] > 0 =>
    \/ status[o] = "paid"
    \/ \E c \in Callbacks : target[c] = o /\ pc[c] = "closed" /\ status[o] = resCode[c]

(* Retries do not touch updatedAt, so every chain of them ends, by an answer *)
(* of the bank or by the 20-minute window, even if the bank never recovers.  *)
ChainsEnd ==
  \A c \in Callbacks : pc[c] \in Ready \union {"sleeping"} ~> pc[c] \in Over

-----------------------------------------------------------------------------
(* What holds as long as the bank calls back once per order and means it,    *)
(* recovers in time, handlers take less than a minute, and the read of       *)
(* shouldVerifyOrder does not fail: one that fails makes the order PAID      *)
(* without a credit.                                                         *)

(* PAID means credited, once, and nothing else does: neither a restart nor a *)
(* lost answer nor a transaction that fails separates the order's row from   *)
(* the wallet.                                                               *)
PaidIffCredited ==
  \A o \in Orders : credits[o] = IF status[o] = "paid" THEN 1 ELSE 0

(* An order that has left PENDING keeps its status.                          *)
FinalStatusStays ==
  [][\A o \in Orders :
       status[o] \notin {"none", "pending"} => status'[o] = status[o]]_vars

(* The code's usages are the ones left, the ones of orders that refer to it  *)
(* and were not given back by a failed payment, unless a decrement is late.  *)
UsageBalanced ==
  maxUsage + Cardinality({o \in Orders :
                /\ stage[o] = "committed" /\ linked[o]
                /\ status[o] \in {"pending", "paid"} \/ bank[o] = "unknown"})
    = Usage

(* What the user did at the bank reaches the order and the wallet, unless    *)
(* the handler of its callback dies: nobody takes a lost verification up.    *)
PaymentsSettle ==
  \A o \in Orders :
    bank[o] \in {"paid", "cancelled", "failed"} ~>
      \/ status[o] = "paid" /\ credits[o] = 1 /\ bank[o] = "verified"
      \/ status[o] = bank[o] /\ bank[o] \in {"cancelled", "failed", "reversed"}
      \/ \E c \in Callbacks : target[c] = o /\ pc[c] = "lost"

(* An order is PAID only if its package was credited: a payment whose        *)
(* verification failed is recorded as failed.                                *)
PaidMeansCredited ==
  \A o \in Orders : status[o] = "paid" => credits[o] > 0
=============================================================================
