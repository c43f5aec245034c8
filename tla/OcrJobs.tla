------------------------------ MODULE OcrJobs ------------------------------
(***************************************************************************)
(* What a user is promised for a document: it is paid for once, and then   *)
(* its text is delivered or its pages are given back.  Documents.tla       *)
(* implements this while requests do not overlap and nothing dies.         *)
(***************************************************************************)
EXTENDS Integers

CONSTANTS Documents, Pages, Credit

VARIABLES job, balance

vars == <<job, balance>>

Init == job = [d \in Documents |-> "unpaid"] /\ balance = Credit

Pay(d) ==
  /\ job[d] = "unpaid" /\ balance >= Pages[d]
  /\ job' = [job EXCEPT ![d] = "paid"]
  /\ balance' = balance - Pages[d]

Deliver(d) ==
  /\ job[d] = "paid"
  /\ job' = [job EXCEPT ![d] = "delivered"]
  /\ UNCHANGED balance

GiveBack(d) ==
  /\ job[d] = "paid"
  /\ job' = [job EXCEPT ![d] = "unpaid"]
  /\ balance' = balance + Pages[d]

Next == \E d \in Documents : Pay(d) \/ Deliver(d) \/ GiveBack(d)

(* Nobody has to pay, but what is paid for is settled.                     *)
Spec == Init /\ [][Next]_vars /\ \A d \in Documents : WF_vars(Deliver(d) \/ GiveBack(d))
=============================================================================
