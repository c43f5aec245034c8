---------------------------- MODULE OrdersProofs ----------------------------
(***************************************************************************)
(* Proofs about Orders.tla, for any orders, callbacks, window and usages.  *)
(* Whatever goes wrong: types, that only a verified payment is credited,   *)
(* and what may take PAID from a credited order.  In good time             *)
(* (InGoodTime): PAID is credited once, a final status stays, usages are   *)
(* balanced.                                                               *)
(***************************************************************************)
EXTENDS Orders, FiniteSetTheorems, TLAPS

-----------------------------------------------------------------------------
(* Types *)

(* While a handler runs or sleeps it has matched an order, before it none.   *)
Matched ==
  \A c \in Callbacks :
    /\ pc[c] \in Ready \union {"sleeping"} => target[c] \in Orders
    /\ pc[c] = "idle" => target[c] = NoOrder

TypeInv == TypeOK /\ Matched

LEMMA TypeInit == Init => TypeInv
  BY UsageAssumption, WindowAssumption
  DEF Init, TypeInv, TypeOK, Matched, Ready, OrderStatus, Stages, BankStates

LEMMA CreateTyping ==
  ASSUME TypeInv, NEW o \in Orders, Create(o)
  PROVE  TypeInv'
  <1> USE DEF TypeInv, TypeOK, Matched
  <1>1. CASE SaveOrder(o)
    BY <1>1 DEF SaveOrder, Stages, Submitting, handlers, gateway, FindsDiscount
  <1>2. CASE PayRequest(o)
    BY <1>2 DEF PayRequest, Stages, Submitting, BankStates, tables, handlers, gateway
  <1>3. CASE CreateFails(o)
    BY <1>3 DEF CreateFails, Stages, Submitting, handlers, gateway
  <1>4. CASE CommitOrder(o)
    BY <1>4, WindowAssumption DEF CommitOrder, Stages, Submitting, OrderStatus, handlers, gateway
  <1>5. CASE DecrementUsage(o)
    BY <1>5 DEF DecrementUsage, handlers, gateway
  <1> QED BY <1>1, <1>2, <1>3, <1>4, <1>5 DEF Create

LEMMA OutsideTyping ==
  ASSUME TypeInv,
         \/ \E o \in Orders : UserPays(o) \/ UserFails(o) \/ BankReverses(o)
         \/ CodeLapses
         \/ Tick
  PROVE  TypeInv'
  <1> USE DEF TypeInv, TypeOK, Matched
  <1>1. ASSUME NEW o \in Orders, UserPays(o) \/ UserFails(o) \/ BankReverses(o)
        PROVE  TypeInv'
    BY <1>1 DEF UserPays, UserFails, BankReverses, BankStates, tables, creation, handlers
  <1>2. CASE CodeLapses
    BY <1>2 DEF CodeLapses, creation, handlers, gateway
  <1>3. CASE Tick
    BY <1>3, WindowAssumption DEF Tick, creation, gateway, Ready
  <1> QED BY <1>1, <1>2, <1>3

(* A dying server leaves the tables and the bank as they are. *)
LEMMA DieTyping ==
  ASSUME TypeInv, Die, blips' = blips, bank' \in [Orders -> BankStates]
  PROVE  TypeInv'
  <1> USE DEF TypeInv, TypeOK, Matched, Die
  <1>1. pc' \in [Callbacks -> {"idle"} \union Over]
    BY DEF Over
  <1>2. Matched'
    BY <1>1 DEF Ready, Over
  <1>3. stage' \in [Orders -> Stages] /\ linked' \in [Orders -> BOOLEAN]
    BY DEF Stages, Submitting
  <1>4. floating' \subseteq Orders /\ woken' \subseteq Callbacks
    OBVIOUS
  <1> QED BY <1>1, <1>2, <1>3, <1>4

(* So does an exception in a request, which ends its handler alone. *)
LEMMA ThrowTyping ==
  ASSUME TypeInv, NEW c \in Callbacks, Throw(c), blips' = blips,
         bank' \in [Orders -> BankStates]
  PROVE  TypeInv'
  <1>1. CASE c \in woken
    BY <1>1, DieTyping DEF Throw
  <1>2. CASE c \notin woken
    BY <1>2 DEF Throw, Step, TypeInv, TypeOK, Matched, Ready, Over, tables, creation
  <1> QED BY <1>1, <1>2

LEMMA HandlerTyping ==
  ASSUME TypeInv, NEW c \in Callbacks, Receive(c) \/ Handle(c)
  PROVE  TypeInv'
  <1> USE DEF TypeInv, TypeOK, Matched, Ready, Over, Step
  <1>1. CASE Receive(c)
    <2>1. \A o \in Orders : ResCode(o) \subseteq OrderStatus
      BY DEF ResCode, OrderStatus
    <2> QED BY <1>1, <2>1 DEF Receive, tables, creation, gateway
  <1>2. CASE UpdateExtraDetails(c)
    BY <1>2, WindowAssumption DEF UpdateExtraDetails, creation, gateway
  <1>3. CASE ShouldVerify(c)
    BY <1>3 DEF ShouldVerify, tables, creation, gateway
  <1>4. CASE BankAnswers(c)
    BY <1>4 DEF BankAnswers, BankStates, OrderStatus, tables, creation
  <1>5. CASE BankBlips(c)
    BY <1>5 DEF BankBlips, CountBlip, tables, creation
  <1>6. CASE AnswerLost(c)
    <2>1. bank' \in [Orders -> BankStates] /\ blips' = blips
      BY <1>6 DEF AnswerLost, BankStates
    <2> QED BY <1>6, <2>1, ThrowTyping DEF AnswerLost
  <1>7. CASE HandlePaidPayment(c)
    BY <1>7, WindowAssumption DEF HandlePaidPayment, OrderStatus, creation, gateway
  <1>8. CASE HandleFailedPayment(c)
    BY <1>8, WindowAssumption DEF HandleFailedPayment, OrderStatus, creation, gateway
  <1>9. CASE HandlerFails(c)
    <2>1. bank' \in [Orders -> BankStates] /\ blips' = blips
      BY <1>9 DEF HandlerFails, gateway
    <2> QED BY <1>9, <2>1, ThrowTyping DEF HandlerFails
  <1> QED BY <1>1, <1>2, <1>3, <1>4, <1>5, <1>6, <1>7, <1>8, <1>9 DEF Handle

LEMMA RestartTyping ==
  ASSUME TypeInv, Restart
  PROVE  TypeInv'
  BY DieTyping DEF Restart, gateway, TypeInv, TypeOK

(* Every variable keeps its type and a running handler has its order.        *)
THEOREM Typing == Spec => []TypeInv
  <1>1. TypeInv /\ [Next]_vars => TypeInv'
    <2> SUFFICES ASSUME TypeInv, [Next]_vars PROVE TypeInv'
      OBVIOUS
    <2>1. CASE UNCHANGED vars
      BY <2>1 DEF vars, tables, creation, handlers, gateway, TypeInv, TypeOK, Matched
    <2>2. CASE Next
      BY <2>2, CreateTyping, OutsideTyping, HandlerTyping, RestartTyping DEF Next
    <2> QED BY <2>1, <2>2
  <1> QED BY <1>1, TypeInit, PTL DEF Spec

(* Whatever goes wrong around the code, an order's status is one of the      *)
(* enum's (order.entity.ts:17) and no answer of the bank is without one.     *)
THEOREM TypeOKHolds == Spec => []TypeOK
  <1>1. TypeInv => TypeOK
    BY DEF TypeInv
  <1> QED BY <1>1, Typing, PTL

-----------------------------------------------------------------------------
(* Credits *)

(* A credited order is verified, and PAID or what a callback that has ended  *)
(* said itself.  A handler that still runs for it can only say PAID or what  *)
(* its own callback said: any other outcome is what the bank says of that    *)
(* order for good.  Nothing happens at the bank before the order is          *)
(* committed.                                                                *)
CreditSound ==
  \A o \in Orders :
    /\ credits[o] > 0 =>
         /\ bank[o] = "verified"
         /\ \/ status[o] = "paid"
            \/ \E c \in Callbacks : target[c] = o /\ pc[c] = "closed" /\ status[o] = resCode[c]
    /\ stage[o] # "committed" => bank[o] \in {"unknown", "registered"} /\ status[o] = "none"

HandlersSound ==
  \A c \in Callbacks :
    /\ pc[c] = "paying" => bank[target[c]] = "verified"
    /\ pc[c] \in Ready \union {"sleeping"} => stage[target[c]] = "committed"
    /\ pc[c] = "failing" =>
         \/ answer[c] = resCode[c]
         \/ answer[c] \in {"reversed", "cancelled"} /\ bank[target[c]] = answer[c]

CreditInv == CreditSound /\ HandlersSound

LEMMA CreditInit == Init => CreditInv
  BY DEF Init, CreditInv, CreditSound, HandlersSound, Ready

LEMMA CreateCredit ==
  ASSUME TypeInv, CreditInv, NEW o \in Orders, Create(o)
  PROVE  CreditInv'
  <1> USE DEF TypeInv, TypeOK, Matched, CreditInv, CreditSound, HandlersSound
  <1>1. CASE SaveOrder(o)
    BY <1>1 DEF SaveOrder, handlers, gateway
  <1>2. CASE PayRequest(o)
    <2>1. \A c \in Callbacks : pc[c] \in Ready \union {"sleeping"} => target[c] # o
      BY <1>2 DEF PayRequest
    <2>2. UNCHANGED <<status, credits, handlers>>
      BY <1>2 DEF PayRequest, tables
    <2>3. /\ stage[o] # "committed" /\ stage'[o] # "committed"
          /\ bank'[o] \in {bank[o], "registered"}
          /\ \A p \in Orders \ {o} : stage'[p] = stage[p] /\ bank'[p] = bank[p]
      BY <1>2 DEF PayRequest, gateway
    <2>4. credits[o] = 0
      <3>1. bank[o] # "verified"
        BY <2>3
      <3> QED BY <3>1
    <2>5. CreditSound'
      BY <2>2, <2>3, <2>4 DEF handlers
    <2>6. HandlersSound'
      BY <2>1, <2>2, <2>3 DEF handlers, Ready
    <2> QED BY <2>5, <2>6
  <1>3. CASE CreateFails(o)
    BY <1>3 DEF CreateFails, Submitting, Ready, handlers, gateway
  <1>4. CASE CommitOrder(o)
    <2>1. credits[o] = 0
      <3>1. bank[o] # "verified"
        BY <1>4 DEF CommitOrder
      <3> QED BY <3>1
    <2> QED BY <1>4, <2>1 DEF CommitOrder, handlers, gateway
  <1>5. CASE DecrementUsage(o)
    BY <1>5 DEF DecrementUsage, handlers, gateway
  <1> QED BY <1>1, <1>2, <1>3, <1>4, <1>5 DEF Create

LEMMA OutsideCredit ==
  ASSUME TypeInv, CreditInv,
         \/ \E o \in Orders : UserPays(o) \/ UserFails(o) \/ BankReverses(o)
         \/ CodeLapses
         \/ Tick
  PROVE  CreditInv'
  <1> USE DEF TypeInv, TypeOK, Matched, CreditInv, CreditSound, HandlersSound
  <1>1. ASSUME NEW o \in Orders, UserPays(o) \/ UserFails(o) \/ BankReverses(o)
        PROVE  CreditInv'
    <2>1. UNCHANGED <<tables, creation, handlers>>
      BY <1>1 DEF UserPays, UserFails, BankReverses
    <2>2. /\ bank[o] \in {"registered", "paid"} /\ stage[o] = "committed"
          /\ bank'[o] # bank[o]
          /\ \A p \in Orders \ {o} : bank'[p] = bank[p]
      BY <1>1 DEF UserPays, UserFails, BankReverses
    <2>3. CreditSound'
      BY <2>1, <2>2 DEF tables, creation, handlers
    <2>4. HandlersSound'
      BY <2>1, <2>2 DEF tables, creation, handlers, Ready, OrderStatus
    <2> QED BY <2>3, <2>4
  <1>2. CASE CodeLapses
    BY <1>2 DEF CodeLapses, creation, handlers, gateway
  <1>3. CASE Tick
    <2>1. /\ UNCHANGED <<status, credits, stage, target, resCode, answer, bank>>
          /\ \A c \in Callbacks : pc'[c] = IF pc[c] = "sleeping" THEN "checking" ELSE pc[c]
      BY <1>3 DEF Tick, creation, gateway
    <2>2. CreditSound'
      BY <2>1
    <2>3. HandlersSound'
      BY <2>1 DEF Ready
    <2> QED BY <2>2, <2>3
  <1> QED BY <1>1, <1>2, <1>3

(* A dying server ends the handlers and drops the orders being created.      *)
LEMMA DieCredit ==
  ASSUME TypeInv, CreditInv, Die,
         \A o \in Orders : bank'[o] = bank[o]
                             \/ (bank[o] = "paid" /\ bank'[o] = "verified")
  PROVE  CreditInv'
  <1> USE DEF TypeInv, TypeOK, Matched, CreditInv, Die
  <1>1. pc' \in [Callbacks -> {"idle"} \union Over]
    BY DEF Over
  <1>2. HandlersSound'
    BY <1>1 DEF HandlersSound, Ready, Over
  <1>3. \A o \in Orders : stage'[o] # "committed" => stage[o] # "committed"
    BY DEF Submitting
  <1>4. CreditSound'
    <2>1. \A c \in Callbacks : pc[c] = "closed" => pc'[c] = "closed"
      BY DEF Over
    <2> QED BY <1>3, <2>1 DEF CreditSound
  <1> QED BY <1>2, <1>4

(* An exception in a request ends its handler alone.                         *)
LEMMA ThrowCredit ==
  ASSUME TypeInv, CreditInv, NEW c \in Callbacks, Throw(c), pc[c] \in Ready,
         \A o \in Orders : bank'[o] = bank[o]
                             \/ (bank[o] = "paid" /\ bank'[o] = "verified")
  PROVE  CreditInv'
  <1>1. CASE c \in woken
    BY <1>1, DieCredit DEF Throw
  <1>2. CASE c \notin woken
    <2>1. /\ UNCHANGED <<status, credits, stage, target, resCode, answer>>
          /\ pc' = [pc EXCEPT ![c] = "lost"]
      BY <1>2 DEF Throw, Step, tables, creation
    <2>2. CreditSound'
      BY <2>1 DEF TypeInv, TypeOK, CreditInv, CreditSound, Ready
    <2>3. HandlersSound'
      BY <2>1 DEF TypeInv, TypeOK, Matched, CreditInv, HandlersSound, Ready
    <2> QED BY <2>2, <2>3 DEF CreditInv
  <1> QED BY <1>1, <1>2

(* A handler moves on without writing the order's status.                    *)
LEMMA HandlerMoves ==
  ASSUME TypeInv, CreditInv, NEW c \in Callbacks, pc[c] \in Ready,
         NEW to \in Ready \union {"sleeping"}, pc' = [pc EXCEPT ![c] = to],
         UNCHANGED <<status, credits, stage, target, resCode>>,
         answer' = [answer EXCEPT ![c] = answer'[c]],
         \A o \in Orders : bank'[o] = bank[o]
                             \/ (bank[o] = "paid" /\ bank'[o] = "verified"),
         to = "paying" => bank'[target[c]] = "verified",
         to = "failing" => \/ answer'[c] = resCode[c]
                           \/ answer'[c] \in {"reversed", "cancelled"}
                                /\ bank'[target[c]] = answer'[c]
  PROVE  CreditInv'
  <1> USE DEF TypeInv, TypeOK, Matched, CreditInv
  <1>1. pc'[c] = to /\ \A d \in Callbacks \ {c} : pc'[d] = pc[d] /\ answer'[d] = answer[d]
    OBVIOUS
  <1>2. CreditSound'
    BY <1>1 DEF CreditSound, Ready
  <1>3. HandlersSound'
    BY <1>1 DEF HandlersSound, Ready
  <1> QED BY <1>2, <1>3

LEMMA HandlerCredit ==
  ASSUME TypeInv, CreditInv, NEW c \in Callbacks, Receive(c) \/ Handle(c)
  PROVE  CreditInv'
  <1> USE DEF TypeInv, TypeOK, Matched, CreditInv, CreditSound, HandlersSound, Ready, Step
  <1>1. CASE Receive(c)
    <2>1. /\ UNCHANGED <<status, credits, stage, answer, bank>>
          /\ pc[c] = "idle" /\ pc' = [pc EXCEPT ![c] = "matched"]
          /\ \A d \in Callbacks \ {c} : target'[d] = target[d] /\ resCode'[d] = resCode[d]
      BY <1>1 DEF Receive, tables, creation, gateway
    <2>2. CreditSound'
      BY <2>1
    <2>3. target'[c] \in Orders /\ status[target'[c]] # "none"
      BY <1>1 DEF Receive
    <2>4. HandlersSound'
      BY <2>1, <2>3
    <2> QED BY <2>2, <2>4
  <1>2. CASE UpdateExtraDetails(c)
    <2>1. /\ UNCHANGED <<status, credits, stage, target, resCode, bank>>
          /\ pc[c] = "matched"
          /\ pc' = [pc EXCEPT ![c] = IF resCode[c] = "paid" THEN "checking" ELSE "failing"]
          /\ answer' = [answer EXCEPT ![c] = resCode[c]]
      BY <1>2 DEF UpdateExtraDetails, creation, gateway
    <2> QED BY <2>1, HandlerMoves
  <1>3. CASE ShouldVerify(c)
    <2>1. /\ UNCHANGED <<status, credits, stage, target, resCode, bank>>
          /\ pc[c] = "checking"
          /\ \/ pc' = [pc EXCEPT ![c] = "asking"] /\ answer' = answer
             \/ /\ pc' = [pc EXCEPT ![c] = "failing"]
                /\ answer' = [answer EXCEPT ![c] = resCode[c]]
      BY <1>3 DEF ShouldVerify, tables, creation, gateway
    <2>2. answer' = [answer EXCEPT ![c] = answer'[c]]
      BY <2>1
    <2> QED BY <2>1, <2>2, HandlerMoves
  <1>4. CASE BankAnswers(c)
    <2>1. /\ UNCHANGED <<status, credits, stage, target, resCode>>
          /\ pc[c] = "asking"
          /\ \/ /\ bank[target[c]] \in {"paid", "verified"}
                /\ bank' = [bank EXCEPT ![target[c]] = "verified"]
                /\ pc' = [pc EXCEPT ![c] = "paying"] /\ answer' = answer
             \/ /\ bank[target[c]] \in {"reversed", "cancelled"} /\ bank' = bank
                /\ pc' = [pc EXCEPT ![c] = "failing"]
                /\ answer' = [answer EXCEPT ![c] = bank[target[c]]]
      BY <1>4 DEF BankAnswers, tables, creation
    <2>2. answer' = [answer EXCEPT ![c] = answer'[c]]
      BY <2>1
    <2> QED BY <2>1, <2>2, HandlerMoves
  <1>5. CASE BankBlips(c)
    <2>1. /\ UNCHANGED <<status, credits, stage, target, resCode, answer, bank>>
          /\ pc[c] = "asking" /\ pc' = [pc EXCEPT ![c] = "sleeping"]
      BY <1>5 DEF BankBlips, tables, creation
    <2>2. answer' = [answer EXCEPT ![c] = answer'[c]]
      BY <2>1
    <2> QED BY <2>1, <2>2, HandlerMoves
  <1>6. CASE AnswerLost(c)
    <2>1. \A o \in Orders : bank'[o] = bank[o]
                              \/ (bank[o] = "paid" /\ bank'[o] = "verified")
      <3>1. \/ bank' = bank
            \/ bank[target[c]] = "paid" /\ bank' = [bank EXCEPT ![target[c]] = "verified"]
        BY <1>6 DEF AnswerLost
      <3> QED BY <3>1
    <2> QED BY <1>6, <2>1, ThrowCredit DEF AnswerLost
  <1>7. CASE HandlePaidPayment(c)
    <2>1. /\ UNCHANGED <<stage, target, resCode, answer, bank>>
          /\ pc[c] = "paying" /\ pc' = [pc EXCEPT ![c] = "credited"]
          /\ status' = [status EXCEPT ![target[c]] = "paid"]
          /\ credits' = [credits EXCEPT ![target[c]] = @ + 1]
      BY <1>7 DEF HandlePaidPayment, creation, gateway
    <2>2. CreditSound'
      BY <2>1
    <2>3. HandlersSound'
      BY <2>1
    <2> QED BY <2>2, <2>3
  <1>8. CASE HandleFailedPayment(c)
    <2>1. /\ UNCHANGED <<credits, stage, target, resCode, answer, bank>>
          /\ pc[c] = "failing" /\ pc' = [pc EXCEPT ![c] = "closed"]
          /\ status' = [status EXCEPT ![target[c]] = answer[c]]
      BY <1>8 DEF HandleFailedPayment, creation, gateway
    <2>2. CreditSound'
      <3>1. ASSUME NEW o \in Orders \ {target[c]}, credits[o] > 0
            PROVE  \/ status'[o] = "paid"
                   \/ \E d \in Callbacks : target'[d] = o /\ pc'[d] = "closed"
                                             /\ status'[o] = resCode'[d]
        BY <2>1, <3>1
      <3>2. ASSUME credits[target[c]] > 0
            PROVE  target'[c] = target[c] /\ pc'[c] = "closed"
                     /\ status'[target[c]] = resCode'[c]
        BY <2>1, <3>2
      <3> QED BY <2>1, <3>1, <3>2
    <2>3. HandlersSound'
      BY <2>1
    <2> QED BY <2>2, <2>3
  <1>9. CASE HandlerFails(c)
    <2>1. bank' = bank /\ pc[c] \in Ready
      BY <1>9 DEF HandlerFails, gateway
    <2> QED BY <1>9, <2>1, ThrowCredit DEF HandlerFails
  <1> QED BY <1>1, <1>2, <1>3, <1>4, <1>5, <1>6, <1>7, <1>8, <1>9 DEF Handle

(* CreditInv is inductive relative to the types.                             *)
THEOREM Credit == Spec => []CreditInv
  <1>1. TypeInv /\ CreditInv /\ [Next]_vars => CreditInv'
    <2> SUFFICES ASSUME TypeInv, CreditInv, [Next]_vars PROVE CreditInv'
      OBVIOUS
    <2>1. CASE UNCHANGED vars
      BY <2>1 DEF vars, tables, creation, handlers, gateway, CreditInv, CreditSound, HandlersSound
    <2>2. CASE Restart
      <3>1. Die /\ bank' = bank
        BY <2>2 DEF Restart, gateway
      <3> QED BY <3>1, DieCredit
    <2>3. CASE Next
      BY <2>2, <2>3, CreateCredit, OutsideCredit, HandlerCredit DEF Next
    <2> QED BY <2>1, <2>3
  <1> QED BY <1>1, CreditInit, Typing, PTL DEF Spec

(* Whatever the bank repeats, delays or loses and a callback claims, a       *)
(* wallet is credited only for a payment the bank has verified.              *)
THEOREM CreditOnlyVerifiedHolds == Spec => []CreditOnlyVerified
  <1>1. CreditInv => CreditOnlyVerified
    BY DEF CreditInv, CreditSound, CreditOnlyVerified
  <1> QED BY <1>1, Credit, PTL

(* Only a callback whose own ResCode is a failure takes PAID from a credited *)
(* order.                                                                    *)
THEOREM CreditedStaysPaidHolds == Spec => []CreditedStaysPaid
  <1>1. CreditInv => CreditedStaysPaid
    BY DEF CreditInv, CreditSound, CreditedStaysPaid
  <1> QED BY <1>1, Credit, PTL

-----------------------------------------------------------------------------
(* What holds as long as the bank calls back once per order and means it,    *)
(* gives fewer transient answers than the window has minutes, neither a step *)
(* nor the decrement of a usage is late, and the read of shouldVerifyOrder   *)
(* does not fail.  The server may still die, other statements fail, the      *)
(* bank's answers be lost, creations overlap and codes lapse.                *)
InGoodTime ==
  /\ Faults \subseteq {"overlap", "lapse", "lost", "database", "restart"}
  /\ MaxBlips < Window

Live == Ready \union {"sleeping"}

(* A callback keeps the order it has matched, which is no other's.           *)
OneEach ==
  \A c, d \in Callbacks : target[c] = target[d] /\ target[c] # NoOrder => c = d

(* An order is as many minutes old as its handler has slept, and that is     *)
(* less than the window.                                                     *)
InTime ==
  /\ \A o \in Orders : blips[o] <= MaxBlips
  /\ \A c \in Callbacks :
       /\ pc[c] \in {"checking", "asking"} => age[target[c]] <= blips[target[c]]
       /\ pc[c] = "sleeping" => age[target[c]] + 1 <= blips[target[c]]

(* The bank has, or had, the user's payment. *)
Received(o) == bank[o] \in {"paid", "verified", "reversed"}

(* A handler verifies what the bank has received and reports what the bank   *)
(* says for good: only the bank makes a payment fail.                        *)
Truthful ==
  \A c \in Callbacks :
    /\ pc[c] = "matched" =>
         IF resCode[c] = "paid" THEN Received(target[c])
         ELSE resCode[c] \in {"cancelled", "failed"} /\ bank[target[c]] = resCode[c]
    /\ pc[c] \in {"checking", "asking", "sleeping"} => Received(target[c])
    /\ pc[c] = "failing" =>
         /\ answer[c] \in {"cancelled", "failed", "reversed"}
         /\ bank[target[c]] = answer[c]

(* While an order is created its user has not been sent to the bank.         *)
Created ==
  /\ floating = {}
  /\ \A o \in Orders :
       /\ stage[o] \in {"new", "saved", "refused"} => bank[o] = "unknown"
       /\ stage[o] = "accepted" => bank[o] = "registered"
       /\ stage[o] # "committed" => status[o] = "none" /\ credits[o] = 0

Outcome(o) ==
  \/ status[o] = "failed" /\ credits[o] = 0 /\ bank[o] = "unknown"
  \/ status[o] = "pending" /\ credits[o] = 0 /\ bank[o] # "unknown"
  \/ /\ \E c \in Callbacks : target[c] = o
     /\ \/ status[o] = "paid" /\ credits[o] = 1 /\ bank[o] = "verified"
        \/ /\ status[o] = bank[o] /\ credits[o] = 0
           /\ bank[o] \in {"cancelled", "failed", "reversed"}

(* A created order waits, or its one callback has settled it.                *)
Settled ==
  /\ \A o \in Orders : stage[o] = "committed" => Outcome(o)
  /\ \A c \in Callbacks : pc[c] \in Live =>
       status[target[c]] = "pending" /\ bank[target[c]] # "unknown"

TimelyInv == OneEach /\ InTime /\ Truthful /\ Created /\ Settled

(* Orders that hold a usage of the code.                                     *)
Using ==
  {o \in Orders : /\ stage[o] = "committed" /\ linked[o]
                  /\ status[o] \in {"pending", "paid"} \/ bank[o] = "unknown"}

UsageInv == IsFiniteSet(Using) /\ maxUsage + Cardinality(Using) = Usage

LEMMA TimelyInit == Init => TimelyInv
  BY MaxBlipsAssumption DEF Init, TimelyInv, OneEach, InTime, Truthful, Created, Settled, Live, Ready

(* Creating an order concerns no handler.                                    *)
LEMMA CreateTimely ==
  ASSUME InGoodTime, TypeInv, CreditInv, TimelyInv, NEW o \in Orders, Create(o)
  PROVE  TimelyInv'
  <1> USE DEF InGoodTime, TypeInv, TypeOK, Matched, CreditInv, HandlersSound, TimelyInv
  <1>0. /\ \A c \in Callbacks : pc[c] \in Live =>
             target[c] \in Orders /\ stage[target[c]] = "committed"
        /\ handlers' = handlers
    BY DEF Create, SaveOrder, PayRequest, CreateFails, CommitOrder, DecrementUsage, Live
  <1>1. CASE SaveOrder(o)
    <2>1. /\ UNCHANGED <<status, age, credits, floating, handlers, bank, blips>>
          /\ stage[o] = "new" /\ stage'[o] = "saved"
          /\ \A p \in Orders \ {o} : stage'[p] = stage[p]
      BY <1>1 DEF SaveOrder, gateway
    <2>2. OneEach' /\ InTime' /\ Truthful'
      BY <2>1 DEF OneEach, InTime, Truthful, Received, handlers
    <2>3. Created'
      BY <2>1 DEF Created
    <2>4. Settled'
      BY <2>1 DEF Settled, Outcome, handlers
    <2> QED BY <2>2, <2>3, <2>4
  <1>2. CASE PayRequest(o) \/ CreateFails(o)
    <2>1. /\ UNCHANGED <<status, age, credits, floating, handlers, blips>>
          /\ \A p \in Orders \ {o} : stage'[p] = stage[p] /\ bank'[p] = bank[p]
      BY <1>2 DEF PayRequest, CreateFails, tables, gateway
    <2>2. /\ stage[o] \in Submitting
          /\ \/ stage'[o] = "accepted" /\ bank'[o] = "registered"
             \/ stage'[o] = "refused" /\ bank'[o] = bank[o] /\ stage[o] = "saved"
             \/ stage'[o] = "dropped" /\ bank'[o] = bank[o]
      BY <1>2 DEF PayRequest, CreateFails, Submitting, gateway
    <2>3. \A c \in Callbacks : pc[c] \in Live => target[c] \in Orders \ {o}
      BY <1>0, <2>2 DEF Submitting
    <2>4. OneEach' /\ InTime'
      BY <2>1 DEF OneEach, InTime, handlers
    <2>5. Truthful'
      BY <2>1, <2>3 DEF Truthful, Received, Live, Ready, handlers
    <2>6. Created'
      BY <2>1, <2>2 DEF Created, Submitting
    <2>7. Settled'
      BY <1>0, <2>1, <2>2, <2>3 DEF Settled, Outcome, Submitting, handlers
    <2> QED BY <2>4, <2>5, <2>6, <2>7
  <1>3. CASE CommitOrder(o)
    <2>1. /\ UNCHANGED <<credits, target, pc, resCode, answer, bank, blips>>
          /\ floating' = floating
          /\ \A p \in Orders \ {o} :
               stage'[p] = stage[p] /\ status'[p] = status[p] /\ age'[p] = age[p]
      BY <1>3 DEF CommitOrder, handlers, gateway
    <2>2. /\ stage[o] \in {"accepted", "refused"} /\ stage'[o] = "committed"
          /\ status'[o] = IF stage[o] = "accepted" THEN "pending" ELSE "failed"
      BY <1>3 DEF CommitOrder
    <2>3. \A c \in Callbacks : pc[c] \in Live => target[c] \in Orders \ {o}
      BY <1>0, <2>2
    <2>4. OneEach' /\ InTime' /\ Truthful'
      BY <2>1, <2>3 DEF OneEach, InTime, Truthful, Received, Live, Ready
    <2>5. Created'
      BY <2>1, <2>2 DEF Created
    <2>6. Settled'
      BY <2>1, <2>2, <2>3 DEF Settled, Outcome, Created
    <2> QED BY <2>4, <2>5, <2>6
  <1>4. CASE DecrementUsage(o)
    BY <1>4 DEF DecrementUsage, Created
  <1> QED BY <1>1, <1>2, <1>3, <1>4 DEF Create

(* What the user, the bank and the clock do.                                 *)
LEMMA OutsideTimely ==
  ASSUME InGoodTime, TypeInv, CreditInv, TimelyInv,
         \/ \E o \in Orders : UserPays(o) \/ UserFails(o) \/ BankReverses(o)
         \/ CodeLapses
         \/ Tick
  PROVE  TimelyInv'
  <1> USE DEF InGoodTime, TypeInv, TypeOK, Matched, CreditInv, HandlersSound, TimelyInv
  <1>1. ASSUME NEW o \in Orders, UserPays(o) \/ UserFails(o) \/ BankReverses(o)
        PROVE  TimelyInv'
    <2>1. UNCHANGED <<tables, creation, handlers, blips>>
      BY <1>1 DEF UserPays, UserFails, BankReverses
    <2>2. /\ bank[o] \in {"registered", "paid"} /\ stage[o] = "committed"
          /\ bank'[o] \in {"paid", "cancelled", "failed", "reversed"}
          /\ bank[o] = "paid" => bank'[o] = "reversed"
          /\ \A p \in Orders \ {o} : bank'[p] = bank[p]
      BY <1>1 DEF UserPays, UserFails, BankReverses, CreditSound
    <2>3. OneEach' /\ InTime'
      BY <2>1 DEF OneEach, InTime, tables, creation, handlers
    <2>6. Truthful'
      <3>1. \A p \in Orders : /\ Received(p) => Received(p)'
                              /\ bank[p] \in {"cancelled", "failed", "reversed"}
                                   => bank'[p] = bank[p]
        BY <2>2 DEF Received
      <3>2. UNCHANGED <<pc, target, resCode, answer>>
        BY <2>1 DEF handlers
      <3> QED BY <3>1, <3>2 DEF Truthful, Received, Ready
    <2>4. Created'
      BY <2>1, <2>2 DEF Created, tables, creation
    <2>5. Settled'
      BY <2>1, <2>2 DEF Settled, Outcome, Live, Ready, tables, creation, handlers
    <2> QED BY <2>3, <2>4, <2>5, <2>6
  <1>2. CASE CodeLapses
    BY <1>2 DEF CodeLapses, creation, handlers, gateway,
                OneEach, InTime, Truthful, Received, Created, Settled, Outcome
  <1>3. CASE Tick
    <2>1. UNCHANGED <<status, credits, stage, floating, target, resCode, answer, bank, blips>>
      BY <1>3 DEF Tick, creation, gateway
    <2>2. \A c \in Callbacks :
            /\ pc[c] \notin Ready
            /\ pc'[c] = IF pc[c] = "sleeping" THEN "checking" ELSE pc[c]
      BY <1>3 DEF Tick
    <2>3. \A o \in Orders : age'[o] <= age[o] + 1
      <3>1. \A o \in Orders : age[o] \in Int
        BY WindowAssumption
      <3> QED BY <1>3, <3>1 DEF Tick
    <2>4. OneEach' /\ Truthful'
      BY <2>1, <2>2 DEF OneEach, Truthful, Received, Ready
    <2>5. InTime'
      <3>1. \A o \in Orders : age[o] \in Int /\ age'[o] \in Int /\ blips[o] \in Int
        BY <1>3, WindowAssumption DEF Tick
      <3>2. ASSUME NEW c \in Callbacks, pc'[c] \in {"checking", "asking"}
            PROVE  age'[target'[c]] <= blips'[target'[c]]
        <4>1. pc[c] = "sleeping"
          BY <2>2, <3>2 DEF Ready
        <4>2. target[c] \in Orders /\ age[target[c]] + 1 <= blips[target[c]]
          BY <4>1 DEF InTime
        <4> QED BY <2>1, <2>3, <3>1, <4>2
      <3>3. \A c \in Callbacks : pc'[c] # "sleeping"
        BY <2>2 DEF Ready
      <3>4. \A o \in Orders : blips'[o] <= MaxBlips
        BY <2>1 DEF InTime
      <3> QED BY <3>2, <3>3, <3>4 DEF InTime
    <2>6. Created'
      BY <2>1 DEF Created
    <2>7. Settled'
      BY <2>1, <2>2 DEF Settled, Outcome, Live, Ready
    <2> QED BY <2>4, <2>5, <2>6, <2>7
  <1> QED BY <1>1, <1>2, <1>3

(* A dying server leaves the orders as they are, and no handler running.     *)
LEMMA DieTimely ==
  ASSUME InGoodTime, TypeInv, CreditInv, TimelyInv, Die, blips' = blips,
         \A o \in Orders : bank'[o] = bank[o]
                             \/ (bank[o] = "paid" /\ bank'[o] = "verified")
  PROVE  TimelyInv'
  <1> USE DEF InGoodTime, TypeInv, TypeOK, TimelyInv
  <1>1. /\ UNCHANGED <<status, age, credits, target, resCode, answer>>
        /\ floating' = {}
        /\ \A c \in Callbacks : pc'[c] = IF pc[c] = "idle" THEN "idle"
                                   ELSE IF pc[c] \in Over THEN pc[c] ELSE "lost"
        /\ \A o \in Orders : stage'[o] = IF stage[o] \in Submitting THEN "dropped" ELSE stage[o]
    BY DEF Die
  <1>2. OneEach'
    BY <1>1 DEF OneEach
  <1>3. InTime' /\ Truthful'
    BY <1>1 DEF InTime, Truthful, Over
  <1>4. Created'
    BY <1>1 DEF Created, Submitting
  <1>5. Settled'
    <2>1. \A o \in Orders : stage'[o] = "committed" => Outcome(o)
      BY <1>1 DEF Settled, Submitting
    <2>2. \A o \in Orders : stage'[o] = "committed" => Outcome(o)'
      BY <1>1, <2>1 DEF Outcome
    <2>3. \A c \in Callbacks : pc'[c] \notin Live
      BY <1>1 DEF Live, Ready, Over
    <2> QED BY <2>2, <2>3 DEF Settled
  <1> QED BY <1>2, <1>3, <1>4, <1>5

(* What a handler works on waits for it and for no other handler.            *)
LEMMA Waiting ==
  ASSUME TypeInv, CreditInv, TimelyInv, NEW c \in Callbacks, pc[c] \in Live
  PROVE  /\ target[c] \in Orders /\ stage[target[c]] = "committed"
         /\ status[target[c]] = "pending" /\ credits[target[c]] = 0
         /\ bank[target[c]] # "unknown"
         /\ \A d \in Callbacks \ {c} : target[d] # target[c]
  <1>1. target[c] \in Orders /\ stage[target[c]] = "committed"
    BY DEF TypeInv, Matched, CreditInv, HandlersSound, Live
  <1>2. status[target[c]] = "pending" /\ bank[target[c]] # "unknown"
    BY DEF TimelyInv, Settled
  <1>3. credits[target[c]] = 0
    BY <1>1, <1>2 DEF TimelyInv, Settled, Outcome
  <1>4. \A d \in Callbacks \ {c} : target[d] # target[c]
    BY <1>1, NoOrderAssumption DEF TimelyInv, OneEach
  <1> QED BY <1>1, <1>2, <1>3, <1>4

(* A callback is matched with an order that waits and has no other.          *)
LEMMA ReceiveTimely ==
  ASSUME InGoodTime, TypeInv, CreditInv, TimelyInv, NEW c \in Callbacks, Receive(c)
  PROVE  TimelyInv'
  <1> USE DEF InGoodTime, TypeInv, TypeOK, Matched, TimelyInv
  <1>1. PICK o \in Orders :
          /\ status[o] # "none"
          /\ bank[o] \notin {"unknown", "registered"}
          /\ \A d \in Callbacks : target[d] # o
          /\ target' = [target EXCEPT ![c] = o]
          /\ resCode' = [resCode EXCEPT ![c] =
                           IF bank[o] \in {"cancelled", "failed"} THEN bank[o] ELSE "paid"]
    BY DEF Receive, ResCode
  <1>2. /\ pc[c] = "idle" /\ pc' = [pc EXCEPT ![c] = "matched"]
        /\ UNCHANGED <<status, age, credits, stage, floating, answer, bank, blips>>
    BY DEF Receive, Step, tables, creation, gateway
  <1>3. /\ target'[c] = o /\ pc'[c] = "matched"
        /\ \A d \in Callbacks \ {c} :
             target'[d] = target[d] /\ pc'[d] = pc[d] /\ resCode'[d] = resCode[d]
    BY <1>1, <1>2
  <1>4. status[o] = "pending"
    BY <1>1 DEF Settled, Outcome, Created
  <1>5. OneEach'
    BY <1>1, <1>2, <1>3 DEF OneEach
  <1>6. InTime'
    BY <1>2, <1>3 DEF InTime
  <1>7. Created' /\ Truthful'
    <2>1. Truthful'
      BY <1>1, <1>2, <1>3 DEF Truthful, Received, BankStates
    <2> QED BY <1>2, <2>1 DEF Created
  <1>8. Settled'
    <2>1. \A p \in Orders : (\E d \in Callbacks : target[d] = p)
                              => \E d \in Callbacks : target'[d] = p
      <3>1. target[c] \notin Orders
        BY <1>2, NoOrderAssumption
      <3> QED BY <1>3, <3>1
    <2>2. \A p \in Orders : Outcome(p) => Outcome(p)'
      BY <1>2, <2>1 DEF Outcome
    <2> QED BY <1>1, <1>2, <1>3, <1>4, <2>2 DEF Settled, Live, Ready
  <1> QED BY <1>5, <1>6, <1>7, <1>8

(* A step of a handler that settles nothing.                                 *)
LEMMA StillWaiting ==
  ASSUME InGoodTime, TypeInv, CreditInv, TimelyInv, NEW c \in Callbacks, pc[c] \in Live,
         NEW to, to # "idle", pc' = [pc EXCEPT ![c] = to],
         to # "matched",
         UNCHANGED <<status, credits, stage, floating, target, resCode>>,
         bank'[target[c]] # "unknown",
         \A o \in Orders \ {target[c]} : /\ age'[o] = age[o] /\ blips'[o] = blips[o]
                                        /\ bank'[o] = bank[o],
         \A d \in Callbacks \ {c} : answer'[d] = answer[d],
         blips'[target[c]] <= MaxBlips,
         to \in {"checking", "asking"} => age'[target[c]] <= blips'[target[c]],
         to = "sleeping" => age'[target[c]] + 1 <= blips'[target[c]],
         to \in {"checking", "asking", "sleeping"} => Received(target[c])',
         to = "failing" => /\ answer'[c] \in {"cancelled", "failed", "reversed"}
                           /\ bank'[target[c]] = answer'[c]
  PROVE  TimelyInv'
  <1> USE DEF TypeInv, TypeOK, Matched, TimelyInv
  <1>1. pc'[c] = to /\ \A d \in Callbacks \ {c} : pc'[d] = pc[d]
    OBVIOUS
  <1>2. OneEach'
    BY <1>1 DEF OneEach, Live, Ready
  <1>3. InTime'
    <2>1. \A o \in Orders : blips'[o] <= MaxBlips
      BY DEF InTime
    <2>2. ASSUME NEW d \in Callbacks \ {c}, pc[d] \in Live
          PROVE  target[d] \in Orders \ {target[c]}
      BY <2>2, Waiting DEF Live
    <2> QED BY <1>1, <2>1, <2>2 DEF InTime, Live, Ready
  <1>4. Created'
    BY Waiting DEF Created
  <1>5. Settled'
    BY <1>1, Waiting DEF Settled, Outcome
  <1>6. Truthful'
    <2>1. ASSUME NEW d \in Callbacks \ {c}, pc[d] \in Live
          PROVE  target[d] \in Orders \ {target[c]}
      BY <2>1, Waiting DEF Live
    <2>2. Received(target[c])' => bank'[target'[c]] \in {"paid", "verified", "reversed"}
      BY DEF Received
    <2> QED BY <1>1, <2>1, <2>2 DEF Truthful, Received, Live, Ready
  <1> QED BY <1>2, <1>3, <1>4, <1>5, <1>6

(* A step of a handler that records what has become of the payment.          *)
LEMMA NowSettled ==
  ASSUME TypeInv, CreditInv, TimelyInv, NEW c \in Callbacks, pc[c] \in Live,
         NEW to \in Over, pc' = [pc EXCEPT ![c] = to],
         UNCHANGED <<stage, floating, target, resCode, answer, bank, blips>>,
         \A o \in Orders \ {target[c]} : /\ age'[o] = age[o] /\ credits'[o] = credits[o]
                                        /\ status'[o] = status[o],
         Outcome(target[c])'
  PROVE  TimelyInv'
  <1> USE DEF TypeInv, TypeOK, Matched, TimelyInv
  <1>1. pc'[c] = to /\ \A d \in Callbacks \ {c} : pc'[d] = pc[d]
    OBVIOUS
  <1>2. ASSUME NEW d \in Callbacks \ {c}, pc[d] \in Live
        PROVE  target[d] \in Orders \ {target[c]}
    BY <1>2, Waiting DEF Live
  <1>3. OneEach'
    BY <1>1 DEF OneEach, Over
  <1>4. InTime' /\ Truthful'
    BY <1>1, <1>2 DEF InTime, Truthful, Received, Live, Ready, Over
  <1>5. Created'
    BY Waiting DEF Created
  <1>6. Settled'
    <2>1. \A o \in Orders \ {target[c]} : Outcome(o) => Outcome(o)'
      BY DEF Outcome
    <2> QED BY <1>1, <1>2, <2>1 DEF Settled, Live, Ready, Over
  <1> QED BY <1>3, <1>4, <1>5, <1>6

(* A handler that throws leaves its order waiting for ever.                  *)
LEMMA ThrowTimely ==
  ASSUME InGoodTime, TypeInv, CreditInv, TimelyInv, NEW c \in Callbacks, pc[c] \in Live,
         Throw(c), blips' = blips,
         \A o \in Orders : bank'[o] = bank[o]
                             \/ (bank[o] = "paid" /\ bank'[o] = "verified"),
         \A o \in Orders \ {target[c]} : bank'[o] = bank[o]
  PROVE  TimelyInv'
  <1>1. CASE c \in woken
    BY <1>1, DieTimely DEF Throw
  <1>2. CASE c \notin woken
    <2>1. /\ UNCHANGED <<status, age, credits, stage, floating, target, resCode, answer>>
          /\ pc' = [pc EXCEPT ![c] = "lost"]
      BY <1>2 DEF Throw, Step, tables, creation
    <2>2. blips'[target[c]] <= MaxBlips /\ bank'[target[c]] # "unknown"
      BY Waiting DEF TimelyInv, InTime
    <2>3. UNCHANGED <<status, credits, stage, floating, target, resCode>>
      BY <2>1
    <2> QED BY <2>1, <2>2, <2>3, StillWaiting
  <1> QED BY <1>1, <1>2

(* Each step of a handler.                                                   *)
LEMMA HandleTimely ==
  ASSUME InGoodTime, TypeInv, CreditInv, TimelyInv, NEW c \in Callbacks, Handle(c)
  PROVE  TimelyInv'
  <1> DEFINE o == target[c]
  <1> USE DEF TypeInv, TypeOK, Step
  <1>1. pc[c] \in Live
    BY DEF Handle, UpdateExtraDetails, ShouldVerify, BankAnswers, BankBlips, AnswerLost,
           HandlerFails, HandlePaidPayment, HandleFailedPayment, Live, Ready
  <1>2. /\ o \in Orders /\ stage[o] = "committed" /\ status[o] = "pending"
        /\ credits[o] = 0 /\ bank[o] # "unknown"
    BY <1>1, Waiting
  <1>3. /\ age[o] \in Int /\ blips[o] \in Int /\ MaxBlips \in Int /\ Window \in Int
        /\ 0 <= blips[o] /\ blips[o] <= MaxBlips /\ MaxBlips < Window
    BY <1>2, WindowAssumption, MaxBlipsAssumption DEF TimelyInv, InTime, InGoodTime
  <1>4. CASE UpdateExtraDetails(c)
    <2>1. /\ pc[c] = "matched"
          /\ pc' = [pc EXCEPT ![c] = IF resCode[c] = "paid" THEN "checking" ELSE "failing"]
          /\ UNCHANGED <<status, credits, stage, floating, target, resCode, bank, blips>>
          /\ age' = [age EXCEPT ![o] = 0] /\ answer' = [answer EXCEPT ![c] = resCode[c]]
      BY <1>4 DEF UpdateExtraDetails, creation, gateway
    <2>2. /\ resCode[c] = "paid" => Received(o)'
          /\ resCode[c] # "paid" => /\ answer'[c] \in {"cancelled", "failed"}
                                    /\ bank'[o] = answer'[c]
      BY <2>1 DEF TimelyInv, Truthful, Received
    <2> QED BY <1>1, <1>2, <1>3, <2>1, <2>2, StillWaiting
  <1>5. CASE ShouldVerify(c)
    <2>1. /\ pc[c] = "checking"
          /\ UNCHANGED <<status, age, credits, stage, floating, target, resCode, bank, blips>>
          /\ \A d \in Callbacks \ {c} : answer'[d] = answer[d]
      BY <1>5 DEF ShouldVerify, tables, creation, gateway
    <2>2. age[o] <= blips[o] /\ Received(o)'
      BY <2>1 DEF TimelyInv, InTime, Truthful, Received
    <2>3. pc' = [pc EXCEPT ![c] = "asking"]
      <3>1. ~(age[o] >= Window) /\ "select" \notin Faults
        BY <1>3, <2>2 DEF InGoodTime
      <3> QED BY <1>5, <3>1 DEF ShouldVerify
    <2> QED BY <1>1, <1>2, <1>3, <2>1, <2>2, <2>3, StillWaiting
  <1>6. CASE BankAnswers(c)
    <2>1. /\ UNCHANGED <<status, age, credits, stage, floating, target, resCode, blips>>
          /\ \/ /\ bank' = [bank EXCEPT ![o] = "verified"] /\ answer' = answer
                /\ pc' = [pc EXCEPT ![c] = "paying"]
             \/ /\ answer' = [answer EXCEPT ![c] = bank[o]] /\ bank' = bank
                /\ bank[o] \in {"reversed", "cancelled"}
                /\ pc' = [pc EXCEPT ![c] = "failing"]
      BY <1>6 DEF BankAnswers, tables, creation
    <2> QED BY <1>1, <1>2, <1>3, <2>1, StillWaiting
  <1>7. CASE BankBlips(c)
    <2>1. /\ UNCHANGED <<status, age, credits, stage, floating, target, resCode, answer, bank>>
          /\ pc[c] = "asking" /\ pc' = [pc EXCEPT ![c] = "sleeping"]
      BY <1>7 DEF BankBlips, tables, creation
    <2>2. age[o] <= blips[o] /\ Received(o)' /\ ~Unpaid(o)
      BY <2>1 DEF TimelyInv, InTime, Truthful, Received, Unpaid
    <2>3. blips[o] < MaxBlips /\ blips' = [blips EXCEPT ![o] = @ + 1]
      BY <1>7, <2>2 DEF BankBlips, CountBlip, InGoodTime
    <2>4. blips'[o] = blips[o] + 1 /\ \A p \in Orders \ {o} : blips'[p] = blips[p]
      BY <1>2, <2>3
    <2>5. blips'[o] <= MaxBlips /\ age'[o] + 1 <= blips'[o]
      BY <1>3, <2>1, <2>2, <2>3, <2>4
    <2> QED BY <1>1, <1>2, <2>1, <2>2, <2>4, <2>5, StillWaiting
  <1>8. CASE AnswerLost(c)
    <2>1. /\ blips' = blips
          /\ \/ bank' = bank
             \/ bank[o] = "paid" /\ bank' = [bank EXCEPT ![o] = "verified"]
      BY <1>8 DEF AnswerLost
    <2>2. \A p \in Orders : bank'[p] = bank[p] \/ (bank[p] = "paid" /\ bank'[p] = "verified")
      BY <2>1
    <2>3. \A p \in Orders \ {o} : bank'[p] = bank[p]
      BY <2>1
    <2> QED BY <1>1, <1>8, <2>1, <2>2, <2>3, ThrowTimely DEF AnswerLost
  <1>9. CASE HandlePaidPayment(c)
    <2>1. /\ UNCHANGED <<stage, floating, target, resCode, answer, bank, blips>>
          /\ pc[c] = "paying" /\ pc' = [pc EXCEPT ![c] = "credited"]
          /\ age' = [age EXCEPT ![o] = 0] /\ status' = [status EXCEPT ![o] = "paid"]
          /\ credits' = [credits EXCEPT ![o] = @ + 1]
      BY <1>9 DEF HandlePaidPayment, creation, gateway
    <2>2. bank[o] = "verified"
      BY <2>1 DEF CreditInv, HandlersSound
    <2>3. Outcome(o)'
      BY <1>2, <2>1, <2>2 DEF Outcome
    <2> QED BY <1>1, <1>2, <2>1, <2>3, NowSettled DEF Over
  <1>10. CASE HandleFailedPayment(c)
    <2>1. /\ UNCHANGED <<credits, stage, floating, target, resCode, answer, bank, blips>>
          /\ pc[c] = "failing" /\ pc' = [pc EXCEPT ![c] = "closed"]
          /\ age' = [age EXCEPT ![o] = 0] /\ status' = [status EXCEPT ![o] = answer[c]]
      BY <1>10 DEF HandleFailedPayment, creation, gateway
    <2>2. bank[o] = answer[c] /\ answer[c] \in {"cancelled", "failed", "reversed"}
      BY <2>1 DEF TimelyInv, Truthful
    <2>3. Outcome(o)'
      BY <1>2, <2>1, <2>2 DEF Outcome
    <2> QED BY <1>1, <1>2, <2>1, <2>3, NowSettled DEF Over
  <1>11. CASE HandlerFails(c)
    <2>1. bank' = bank /\ blips' = blips
      BY <1>11 DEF HandlerFails, gateway
    <2> QED BY <1>1, <1>11, <2>1, ThrowTimely DEF HandlerFails
  <1> QED BY <1>4, <1>5, <1>6, <1>7, <1>8, <1>9, <1>10, <1>11 DEF Handle

(* TimelyInv is inductive relative to the types and to what is credited.     *)
LEMMA TimelyStep ==
  ASSUME InGoodTime, TypeInv, CreditInv, TimelyInv, [Next]_vars
  PROVE  TimelyInv'
  <1>1. CASE UNCHANGED vars
    BY <1>1 DEF vars, tables, creation, handlers, gateway,
                TimelyInv, OneEach, InTime, Truthful, Received, Created, Settled, Outcome
  <1>2. CASE Restart
    <2>1. Die /\ bank' = bank /\ blips' = blips
      BY <1>2 DEF Restart, gateway
    <2> QED BY <2>1, DieTimely
  <1>3. CASE Next
    BY <1>2, <1>3, CreateTimely, OutsideTimely, ReceiveTimely, HandleTimely DEF Next
  <1> QED BY <1>1, <1>3

(* In good time, an order has one handler, which settles it once.            *)
THEOREM Timely == ASSUME InGoodTime PROVE Spec => []TimelyInv
  <1>1. TypeInv /\ CreditInv /\ TimelyInv /\ [Next]_vars => TimelyInv'
    BY TimelyStep
  <1> QED BY <1>1, TimelyInit, Typing, Credit, PTL DEF Spec

(* Neither a restart nor a lost answer separates an order's row from the     *)
(* wallet: PAID means credited once, and nothing else is credited.           *)
THEOREM PaidIffCreditedHolds == ASSUME InGoodTime PROVE Spec => []PaidIffCredited
  <1>1. TypeInv /\ TimelyInv => PaidIffCredited
    BY DEF TypeInv, TypeOK, TimelyInv, Created, Settled, Outcome, PaidIffCredited
  <1> QED BY <1>1, Typing, Timely, PTL

(* Only the order's one handler writes a status other than the first, and it *)
(* does so once.                                                             *)
LEMMA StatusStep ==
  ASSUME TypeInv, CreditInv, TimelyInv, [Next]_vars,
         NEW o \in Orders, status[o] \notin {"none", "pending"}
  PROVE  status'[o] = status[o]
  <1> USE DEF TypeInv, TypeOK
  <1>1. CASE \E p \in Orders : Create(p)
    BY <1>1 DEF Create, SaveOrder, PayRequest, CreateFails, CommitOrder, DecrementUsage,
                tables, TimelyInv, Created
  <1>2. CASE \E c \in Callbacks : HandlePaidPayment(c) \/ HandleFailedPayment(c)
    <2>1. PICK c \in Callbacks : HandlePaidPayment(c) \/ HandleFailedPayment(c)
      BY <1>2
    <2>2. pc[c] \in Live /\ \A p \in Orders \ {target[c]} : status'[p] = status[p]
      BY <2>1 DEF HandlePaidPayment, HandleFailedPayment, Live, Ready
    <2> QED BY <2>2, Waiting
  <1>3. CASE ~ \E c \in Callbacks : HandlePaidPayment(c) \/ HandleFailedPayment(c)
    <2>1. (\E p \in Orders : Create(p)) \/ status' = status
      BY <1>3 DEF Next, UserPays, UserFails, BankReverses, CodeLapses, Tick, Restart, Die,
                  Receive, Handle, UpdateExtraDetails, ShouldVerify, BankAnswers, BankBlips,
                  AnswerLost, HandlerFails, Throw, vars, tables
    <2> QED BY <1>1, <2>1
  <1> QED BY <1>2, <1>3

(* No step takes an order out of a status it was given after PENDING.        *)
THEOREM FinalStatusStaysHolds == ASSUME InGoodTime PROVE Spec => FinalStatusStays
  <1>1. TypeInv /\ CreditInv /\ TimelyInv /\ [Next]_vars =>
          [\A o \in Orders :
             status[o] \notin {"none", "pending"} => status'[o] = status[o]]_vars
    BY StatusStep
  <1> QED BY <1>1, Typing, Credit, Timely, PTL DEF Spec, FinalStatusStays

-----------------------------------------------------------------------------
(* Usages of the code *)

(* At first every usage is left.                                             *)
LEMMA UsageInit == Init => UsageInv
  <1> SUFFICES ASSUME Init PROVE UsageInv
    OBVIOUS
  <1>1. Using = {}
    BY DEF Init, Using
  <1>2. IsFiniteSet({}) /\ Cardinality({}) = 0
    BY FS_EmptySet
  <1>3. maxUsage = Usage
    BY DEF Init
  <1> HIDE DEF Init
  <1> QED BY <1>1, <1>2, <1>3, UsageAssumption DEF UsageInv

(* The order takes a usage.                                                  *)
LEMMA TakesUsage ==
  ASSUME TypeInv, UsageInv, NEW o \in Orders, o \notin Using, Using' = Using \union {o},
         maxUsage' = maxUsage - 1
  PROVE  UsageInv'
  <1>1. IsFiniteSet(Using') /\ Cardinality(Using') = Cardinality(Using) + 1
    BY FS_AddElement DEF UsageInv
  <1>2. Cardinality(Using) \in Nat /\ maxUsage \in Int /\ Usage \in Nat
    BY FS_CardinalityType, UsageAssumption DEF UsageInv, TypeInv, TypeOK
  <1>3. maxUsage + Cardinality(Using) = Usage
    BY DEF UsageInv
  <1> DEFINE n == Cardinality(Using)
             m == Cardinality(Using')
  <1>4. maxUsage' + m = Usage
    <2> HIDE DEF n, m
    <2> QED BY <1>1, <1>2, <1>3 DEF n, m
  <1> QED BY <1>1, <1>4 DEF UsageInv

(* The order gives its usage back.                                           *)
LEMMA GivesUsage ==
  ASSUME TypeInv, UsageInv, NEW o \in Using, Using' = Using \ {o},
         maxUsage' = maxUsage + 1
  PROVE  UsageInv'
  <1>1. IsFiniteSet(Using') /\ Cardinality(Using') = Cardinality(Using) - 1
    BY FS_RemoveElement DEF UsageInv
  <1>2. Cardinality(Using) \in Nat /\ maxUsage \in Int /\ Usage \in Nat
    BY FS_CardinalityType, UsageAssumption DEF UsageInv, TypeInv, TypeOK
  <1>3. maxUsage + Cardinality(Using) = Usage
    BY DEF UsageInv
  <1> QED BY <1>1, <1>2, <1>3 DEF UsageInv

(* UsageInv is inductive relative to the handlers being in time.             *)
LEMMA UsageStep ==
  ASSUME InGoodTime, TypeInv, CreditInv, TimelyInv, UsageInv, [Next]_vars
  PROVE  UsageInv'
  <1> USE DEF TypeInv, TypeOK
  <1>1. ASSUME Using' = Using, maxUsage' = maxUsage PROVE UsageInv'
    BY <1>1 DEF UsageInv
  <1>2. ASSUME NEW o \in Orders, Create(o) PROVE UsageInv'
    <2>1. CASE SaveOrder(o) \/ PayRequest(o) \/ CreateFails(o)
      <3>1. /\ maxUsage' = maxUsage /\ status' = status
            /\ stage[o] # "committed" /\ stage'[o] # "committed"
            /\ \A p \in Orders \ {o} : /\ stage'[p] = stage[p] /\ linked'[p] = linked[p]
                                      /\ bank'[p] = bank[p]
        BY <2>1 DEF SaveOrder, PayRequest, CreateFails, Submitting, tables, handlers, gateway
      <3>2. Using' = Using
        BY <3>1 DEF Using
      <3> QED BY <1>1, <3>1, <3>2
    <2>2. CASE CommitOrder(o)
      <3>1. /\ stage[o] \in {"accepted", "refused"} /\ stage'[o] = "committed"
            /\ status'[o] = IF stage[o] = "accepted" THEN "pending" ELSE "failed"
            /\ UNCHANGED <<linked, bank>>
            /\ \A p \in Orders \ {o} : stage'[p] = stage[p] /\ status'[p] = status[p]
        BY <2>2 DEF CommitOrder, gateway
      <3>2. maxUsage' = IF linked[o] THEN maxUsage - 1 ELSE maxUsage
        BY <2>2 DEF CommitOrder, InGoodTime
      <3>3. o \notin Using
        BY <3>1 DEF Using
      <3>4. stage[o] = "refused" => bank[o] = "unknown"
        BY DEF TimelyInv, Created
      <3>5. Using' = IF linked[o] THEN Using \union {o} ELSE Using
        BY <3>1, <3>4 DEF Using
      <3> QED BY <1>1, <3>2, <3>3, <3>5, TakesUsage
    <2>3. CASE DecrementUsage(o)
      BY <2>3 DEF DecrementUsage, TimelyInv, Created
    <2> QED BY <1>2, <2>1, <2>2, <2>3 DEF Create
  <1>3. ASSUME NEW o \in Orders, UserPays(o) \/ UserFails(o) \/ BankReverses(o)
        PROVE  UsageInv'
    <2>1. /\ UNCHANGED <<maxUsage, status, stage, linked>>
          /\ bank[o] # "unknown" /\ bank'[o] # "unknown"
          /\ \A p \in Orders \ {o} : bank'[p] = bank[p]
      BY <1>3 DEF UserPays, UserFails, BankReverses, tables, creation
    <2>2. Using' = Using
      BY <2>1 DEF Using
    <2> QED BY <1>1, <2>1, <2>2
  <1>4. ASSUME Die, \A o \in Orders : bank'[o] = bank[o]
                                      \/ (bank[o] = "paid" /\ bank'[o] = "verified")
        PROVE  UsageInv'
    <2>1. maxUsage' = maxUsage /\ status' = status
      BY <1>4 DEF Die
    <2>2. \A o \in Orders :
            IF stage[o] \in Submitting THEN stage'[o] = "dropped"
            ELSE stage'[o] = stage[o] /\ linked'[o] = linked[o]
      BY <1>4 DEF Die
    <2>3. Using' = Using
      BY <1>4, <2>1, <2>2 DEF Using, Submitting
    <2> QED BY <1>1, <2>1, <2>3
  <1>5. ASSUME NEW c \in Callbacks, Handle(c) PROVE UsageInv'
    <2> DEFINE o == target[c]
    <2>1. pc[c] \in Live
      BY <1>5 DEF Handle, UpdateExtraDetails, ShouldVerify, BankAnswers, BankBlips,
                  AnswerLost, HandlerFails, HandlePaidPayment, HandleFailedPayment, Live, Ready
    <2>2. /\ o \in Orders /\ stage[o] = "committed" /\ status[o] = "pending"
          /\ bank[o] # "unknown"
      BY <2>1, Waiting
    <2>3. CASE UpdateExtraDetails(c) \/ ShouldVerify(c) \/ BankBlips(c)
      <3>1. UNCHANGED <<maxUsage, status, stage, linked, bank>>
        BY <2>3 DEF UpdateExtraDetails, ShouldVerify, BankBlips, tables, creation, gateway
      <3> QED BY <1>1, <3>1 DEF Using
    <2>4. CASE BankAnswers(c)
      <3>1. /\ UNCHANGED <<maxUsage, status, stage, linked>>
            /\ bank' = bank \/ bank' = [bank EXCEPT ![o] = "verified"]
        BY <2>4 DEF BankAnswers, tables, creation
      <3>2. Using' = Using
        BY <2>2, <3>1 DEF Using
      <3> QED BY <1>1, <3>1, <3>2
    <2>5. CASE AnswerLost(c) \/ HandlerFails(c)
      <3>1. /\ Throw(c)
            /\ \/ bank' = bank
               \/ bank[o] = "paid" /\ bank' = [bank EXCEPT ![o] = "verified"]
        BY <2>5 DEF AnswerLost, HandlerFails, gateway
      <3>2. \A p \in Orders : bank'[p] = bank[p] \/ (bank[p] = "paid" /\ bank'[p] = "verified")
        BY <3>1
      <3>3. CASE c \in woken
        BY <1>4, <3>1, <3>2, <3>3 DEF Throw
      <3>4. CASE c \notin woken
        <4>1. UNCHANGED <<maxUsage, status, stage, linked>>
          BY <3>1, <3>4 DEF Throw, tables, creation
        <4>2. Using' = Using
          BY <3>2, <4>1 DEF Using
        <4> QED BY <1>1, <4>1, <4>2
      <3> QED BY <3>3, <3>4
    <2>6. CASE HandlePaidPayment(c)
      <3>1. /\ UNCHANGED <<maxUsage, stage, linked, bank>>
            /\ status' = [status EXCEPT ![o] = "paid"]
        BY <2>6 DEF HandlePaidPayment, creation, gateway
      <3>2. Using' = Using
        BY <2>2, <3>1 DEF Using
      <3> QED BY <1>1, <3>1, <3>2
    <2>7. CASE HandleFailedPayment(c)
      <3>1. /\ UNCHANGED <<stage, linked, bank>> /\ pc[c] = "failing"
            /\ status' = [status EXCEPT ![o] = answer[c]]
            /\ maxUsage' = IF linked[o] THEN maxUsage + 1 ELSE maxUsage
        BY <2>7 DEF HandleFailedPayment, creation, gateway
      <3>3. answer[c] \in {"cancelled", "failed", "reversed"}
        BY <3>1 DEF TimelyInv, Truthful
      <3>4. Using' = Using \ {o} /\ (linked[o] <=> o \in Using)
        BY <2>2, <3>1, <3>3 DEF Using
      <3>5. CASE linked[o]
        BY <3>1, <3>4, <3>5, GivesUsage
      <3>6. CASE ~linked[o]
        <4>1. Using' = Using /\ maxUsage' = maxUsage
          BY <3>1, <3>4, <3>6
        <4> QED BY <1>1, <4>1
      <3> QED BY <3>5, <3>6
    <2> QED BY <1>5, <2>3, <2>4, <2>5, <2>6, <2>7 DEF Handle
  <1>6. CASE (\E c \in Callbacks : Receive(c)) \/ CodeLapses \/ Tick \/ UNCHANGED vars
    <2>1. UNCHANGED <<maxUsage, status, stage, linked, bank>>
      BY <1>6 DEF Receive, CodeLapses, Tick, vars, tables, creation, gateway
    <2> QED BY <1>1, <2>1 DEF Using
  <1>7. CASE Restart
    BY <1>4, <1>7 DEF Restart, gateway
  <1> QED BY <1>2, <1>3, <1>5, <1>6, <1>7 DEF Next

(* Creations that overlap may use the code too often, but every usage is     *)
(* accounted for: it is left, or an order that refers to the code and was    *)
(* not given back has it.                                                    *)
THEOREM UsageBalancedHolds == ASSUME InGoodTime PROVE Spec => []UsageBalanced
  <1>1. TypeInv /\ CreditInv /\ TimelyInv /\ UsageInv /\ [Next]_vars => UsageInv'
    BY UsageStep
  <1>2. UsageInv => UsageBalanced
    BY DEF UsageInv, Using, UsageBalanced
  <1> QED BY <1>1, <1>2, UsageInit, Typing, Credit, Timely, PTL DEF Spec
=============================================================================
