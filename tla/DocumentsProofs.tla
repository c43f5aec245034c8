-------------------------- MODULE DocumentsProofs --------------------------
(***************************************************************************)
(* Proofs about Documents.tla, for any documents, requests and deliveries. *)
(* Whatever goes wrong: types, DONE documents were charged and produced,   *)
(* every task was paid for.  While only the consumer's saves fail          *)
(* (Undisturbed): accounts match, clients hear the status, edited texts    *)
(* survive, and the steps are those of OcrJobs.tla.                        *)
(***************************************************************************)
EXTENDS Documents, SetSums, FiniteSetTheorems, TLAPS

-----------------------------------------------------------------------------
(* Types *)

(* A request past its guards has a document, and so has a busy delivery.     *)
Matched ==
  /\ \A r \in Requests : pc[r] \in {"found", "charged", "saved"} => doc[r] \in Documents
  /\ \A h \in Slots : at[h] # "idle" => of[h] \in Documents

TypeInv == TypeOK /\ Matched

(* What RabbitMQ takes back of a document is a number.                       *)
LEMMA DeliveriesCount ==
  ASSUME NEW d
  PROVE  Cardinality({h \in Slots : of[h] = d}) \in Nat
  <1>1. {h \in Slots : of[h] = d} \in SUBSET Slots
    OBVIOUS
  <1> QED BY <1>1, FiniteAssumption, FS_Subset, FS_CardinalityType

LEMMA TypeInit == Init => TypeInv
  BY CreditAssumption, MaxErrorsAssumption
  DEF Init, TypeInv, TypeOK, Matched, Nothing, Silence, DocumentStatus, Running, Handling

LEMMA UserTyping ==
  ASSUME TypeInv, NEW d \in Documents,
         Upload(d) \/ WriteFile(d) \/ DeleteDocument(d) \/ EditDocumentText(d) \/ Join(d)
  PROVE  TypeInv'
  <1> USE DEF TypeInv, TypeOK, Matched, DocumentStatus,
              rows, money, files, requests, queues, consumer, client
  <1>1. CASE Upload(d)
    BY <1>1 DEF Upload
  <1>2. CASE WriteFile(d)
    BY <1>2 DEF WriteFile
  <1>3. CASE DeleteDocument(d)
    BY <1>3 DEF DeleteDocument
  <1>4. CASE EditDocumentText(d)
    BY <1>4 DEF EditDocumentText
  <1>5. CASE Join(d)
    BY <1>5 DEF Join
  <1> QED BY <1>1, <1>2, <1>3, <1>4, <1>5

LEMMA WorkerTyping ==
  ASSUME TypeInv, NEW d \in Documents, FinishTask(d) \/ WorkerDies(d) \/ LoseResult(d)
  PROVE  TypeInv'
  <1> USE DEF TypeInv, TypeOK, Matched, rows, money, files, requests, queues, consumer, client
  <1>1. CASE FinishTask(d)
    BY <1>1 DEF FinishTask
  <1>2. CASE WorkerDies(d)
    BY <1>2, MaxErrorsAssumption DEF WorkerDies, Fail
  <1>3. CASE LoseResult(d)
    BY <1>3 DEF LoseResult
  <1> QED BY <1>1, <1>2, <1>3

(* The server's end leaves the tables and the files as they are.             *)
LEMMA DieTyping ==
  ASSUME TypeInv, Die
  PROVE  TypeInv'
  <1> USE DEF TypeInv, TypeOK, Matched, rows, money
  <1>1. pc' \in [Requests -> {"new", "ended"}]
    BY DEF Die
  <1>2. results' \in [Documents -> Nat]
    <2>1. \A d \in Documents : Cardinality({h \in Slots : of[h] = d}) \in Nat
      BY DeliveriesCount
    <2> QED BY <2>1 DEF Die
  <1>3. at' \in [Slots -> {"idle"}] /\ of' \in [Slots -> {NoDocument}]
    BY DEF Die
  <1>4. heard' \in [Documents -> {"none"}]
    BY DEF Die, Silence
  <1> QED BY <1>1, <1>2, <1>3, <1>4 DEF Die

(* What a client may hear is a status.                                       *)
LEMMA HeardTyping ==
  ASSUME TypeInv, NEW d \in Documents, NEW s \in DocumentStatus
  PROVE  HeardAfter(d, s) \in [Documents -> {"none"} \union DocumentStatus]
  BY DEF TypeInv, TypeOK, HeardAfter

LEMMA RequestTyping ==
  ASSUME TypeInv, NEW r \in Requests, FindDocument(r) \/ StartOCR(r)
  PROVE  TypeInv'
  <1> USE DEF TypeInv, TypeOK, Matched, Running, Step,
              rows, money, files, requests, queues, consumer, client
  <1>1. CASE FindDocument(r)
    BY <1>1 DEF FindDocument
  <1>2. CASE Withdraw(r)
    <2>1. doc[r] \in Documents /\ Pages[doc[r]] \in Nat
      BY <1>2, PagesAssumption DEF Withdraw
    <2> QED BY <1>2, <2>1 DEF Withdraw
  <1>3. CASE WithdrawRefused(r)
    BY <1>3 DEF WithdrawRefused
  <1>4. CASE SavePending(r)
    <2>1. heard' \in [Documents -> {"none"} \union DocumentStatus]
      BY <1>4, HeardTyping DEF SavePending, DocumentStatus
    <2> QED BY <1>4, <2>1 DEF SavePending, DocumentStatus
  <1>5. CASE SavePendingFails(r)
    <2>1. heard' \in [Documents -> {"none"} \union DocumentStatus]
      BY <1>5, HeardTyping DEF SavePendingFails, DocumentStatus
    <2> QED BY <1>5, <2>1 DEF SavePendingFails
  <1>6. CASE PublishTask(r)
    BY <1>6 DEF PublishTask
  <1>7. CASE PublishFails(r)
    BY <1>7, DieTyping DEF PublishFails
  <1> QED BY <1>1, <1>2, <1>3, <1>4, <1>5, <1>6, <1>7 DEF StartOCR

LEMMA ConsumerTyping ==
  ASSUME TypeInv, NEW h \in Slots, Handle(h)
  PROVE  TypeInv'
  <1> USE DEF TypeInv, TypeOK, Matched, Becomes, Handling,
              rows, money, files, requests, queues, consumer, client
  <1>1. CASE Receive(h)
    BY <1>1 DEF Receive
  <1>2. CASE SaveResult(h)
    <2>1. heard' \in [Documents -> {"none"} \union DocumentStatus]
      BY <1>2, HeardTyping DEF SaveResult, DocumentStatus
    <2> QED BY <1>2, <2>1 DEF SaveResult, DocumentStatus
  <1>3. CASE SaveFails(h)
    <2>1. heard' \in [Documents -> {"none"} \union DocumentStatus]
      BY <1>3, HeardTyping DEF SaveFails, DocumentStatus
    <2> QED BY <1>3, <2>1, MaxErrorsAssumption DEF SaveFails, Fail
  <1>4. CASE MarkFailed(h)
    BY <1>4 DEF MarkFailed, DocumentStatus
  <1>5. CASE Refund(h)
    <2>1. of[h] \in Documents /\ Pages[of[h]] \in Nat
      BY <1>5, PagesAssumption DEF Refund
    <2> QED BY <1>5, <2>1 DEF Refund
  <1>6. CASE Requeue(h)
    <2>1. of[h] \in Documents /\ errors' \in 0..MaxErrors
      BY <1>6, MaxErrorsAssumption DEF Requeue, Fail
    <2> QED BY <1>6, <2>1 DEF Requeue
  <1>7. CASE Answer(h)
    BY <1>7 DEF Answer
  <1> QED BY <1>1, <1>2, <1>3, <1>4, <1>5, <1>6, <1>7 DEF Handle

(* Types, and the documents of requests and deliveries, are inductive.       *)
THEOREM Typing == Spec => []TypeInv
  <1>1. TypeInv /\ [Next]_vars => TypeInv'
    <2> SUFFICES ASSUME TypeInv, [Next]_vars PROVE TypeInv'
      OBVIOUS
    <2>1. CASE UNCHANGED vars
      BY <2>1 DEF vars, rows, money, files, requests, queues, consumer, client,
                  TypeInv, TypeOK, Matched
    <2>2. CASE Next
      BY <2>2, UserTyping, WorkerTyping, RequestTyping, ConsumerTyping, DieTyping DEF Next, Crash
    <2> QED BY <2>1, <2>2
  <1> QED BY <1>1, TypeInit, PTL DEF Spec

(* Whatever goes wrong, the wallet's balance never becomes negative, and no  *)
(* counter of messages or transactions does.                                 *)
THEOREM TypeOKHolds == Spec => []TypeOK
  <1>1. TypeInv => TypeOK
    BY DEF TypeInv
  <1> QED BY <1>1, Typing, PTL

-----------------------------------------------------------------------------
(* DONE documents were charged and produced                                  *)

Produced(d) == text[d] # "none" /\ charges[d] > 0

(* Whatever may still make a document DONE or PENDING, a message, a delivery *)
(* or a request, belongs to a document that was charged, and a result to one *)
(* that has a text.                                                          *)
WorkInv ==
  /\ \A d \in Documents :
       /\ status[d] = "done" \/ results[d] > 0 => Produced(d)
       /\ status[d] = "pending" \/ tasks[d] > 0 => charges[d] > 0
  /\ \A h \in Slots : of[h] \in Documents => Produced(of[h])
  /\ \A r \in Requests : pc[r] \in {"charged", "saved"} => charges[doc[r]] > 0

LEMMA WorkInit == Init => WorkInv
  BY NoDocumentAssumption DEF Init, WorkInv, Nothing

LEMMA UserWork ==
  ASSUME TypeInv, WorkInv, NEW d \in Documents,
         Upload(d) \/ WriteFile(d) \/ DeleteDocument(d) \/ EditDocumentText(d) \/ Join(d)
  PROVE  WorkInv'
  <1> USE DEF TypeInv, TypeOK, Matched, WorkInv, Produced,
              rows, money, files, requests, queues, consumer, client
  <1>1. CASE Upload(d)
    BY <1>1 DEF Upload
  <1>2. CASE WriteFile(d)
    BY <1>2 DEF WriteFile
  <1>3. CASE DeleteDocument(d)
    BY <1>3 DEF DeleteDocument
  <1>4. CASE EditDocumentText(d)
    BY <1>4 DEF EditDocumentText
  <1>5. CASE Join(d)
    BY <1>5 DEF Join
  <1> QED BY <1>1, <1>2, <1>3, <1>4, <1>5

LEMMA WorkerWork ==
  ASSUME TypeInv, WorkInv, NEW d \in Documents, FinishTask(d) \/ WorkerDies(d) \/ LoseResult(d)
  PROVE  WorkInv'
  <1> USE DEF TypeInv, TypeOK, Matched, WorkInv, Produced,
              rows, money, files, requests, queues, consumer, client
  <1>1. CASE FinishTask(d)
    BY <1>1 DEF FinishTask
  <1>2. CASE WorkerDies(d)
    BY <1>2 DEF WorkerDies, Fail
  <1>3. CASE LoseResult(d)
    BY <1>3 DEF LoseResult
  <1> QED BY <1>1, <1>2, <1>3

(* RabbitMQ takes back only what a delivery held.                            *)
LEMMA DieWork ==
  ASSUME TypeInv, WorkInv, Die
  PROVE  WorkInv'
  <1>1. ASSUME NEW d \in Documents, results'[d] > 0
        PROVE  Produced(d)
    <2>1. CASE \E h \in Slots : of[h] = d
      BY <2>1 DEF WorkInv
    <2>2. CASE ~ \E h \in Slots : of[h] = d
      <3>1. {h \in Slots : of[h] = d} = {}
        BY <2>2
      <3>2. Cardinality({h \in Slots : of[h] = d}) = 0
        BY <3>1, FS_EmptySet
      <3>3. results'[d] = results[d] + Cardinality({h \in Slots : of[h] = d})
        BY DEF Die
      <3>4. results[d] > 0
        BY <1>1, <3>2, <3>3 DEF TypeInv, TypeOK
      <3> QED BY <3>4 DEF WorkInv
    <2> QED BY <2>1, <2>2
  <1>2. UNCHANGED <<status, charges, text, tasks, doc>>
    BY DEF Die, rows, money
  <1>3. \A h \in Slots : of'[h] \notin Documents
    BY NoDocumentAssumption DEF Die
  <1>4. \A r \in Requests : pc'[r] \notin {"charged", "saved"}
    BY DEF Die
  <1> QED BY <1>1, <1>2, <1>3, <1>4 DEF WorkInv, Produced

LEMMA RequestWork ==
  ASSUME TypeInv, WorkInv, NEW r \in Requests, FindDocument(r) \/ StartOCR(r)
  PROVE  WorkInv'
  <1> USE DEF TypeInv, TypeOK, Matched, WorkInv, Produced, Step,
              rows, money, files, requests, queues, consumer, client
  <1>1. CASE FindDocument(r)
    BY <1>1 DEF FindDocument
  <1>2. CASE Withdraw(r)
    <2>1. doc[r] \in Documents
      BY <1>2 DEF Withdraw
    <2>2. charges' = [charges EXCEPT ![doc[r]] = @ + 1]
      BY <1>2 DEF Withdraw
    <2>3. charges'[doc[r]] > 0 /\ \A d \in Documents : charges[d] > 0 => charges'[d] > 0
      BY <2>1, <2>2
    <2> QED BY <1>2, <2>1, <2>3 DEF Withdraw
  <1>3. CASE WithdrawRefused(r)
    BY <1>3 DEF WithdrawRefused
  <1>4. CASE SavePending(r)
    BY <1>4 DEF SavePending
  <1>5. CASE SavePendingFails(r)
    BY <1>5 DEF SavePendingFails
  <1>6. CASE PublishTask(r)
    BY <1>6 DEF PublishTask
  <1>7. CASE PublishFails(r)
    BY <1>7, DieWork DEF PublishFails
  <1> QED BY <1>1, <1>2, <1>3, <1>4, <1>5, <1>6, <1>7 DEF StartOCR

LEMMA ConsumerWork ==
  ASSUME TypeInv, WorkInv, NEW h \in Slots, Handle(h)
  PROVE  WorkInv'
  <1> USE NoDocumentAssumption
      DEF TypeInv, TypeOK, Matched, WorkInv, Produced, Becomes,
          rows, money, files, requests, queues, consumer, client
  <1>1. CASE Receive(h)
    BY <1>1 DEF Receive
  <1>2. CASE SaveResult(h)
    BY <1>2 DEF SaveResult
  <1>3. CASE SaveFails(h)
    BY <1>3 DEF SaveFails
  <1>4. CASE MarkFailed(h)
    BY <1>4 DEF MarkFailed
  <1>5. CASE Refund(h)
    BY <1>5 DEF Refund
  <1>6. CASE Requeue(h)
    <2>1. of[h] \in Documents
      BY <1>6 DEF Requeue
    <2> QED BY <1>6, <2>1 DEF Requeue
  <1>7. CASE Answer(h)
    BY <1>7 DEF Answer
  <1> QED BY <1>1, <1>2, <1>3, <1>4, <1>5, <1>6, <1>7 DEF Handle

(* WorkInv is inductive relative to the types.                               *)
THEOREM Work == Spec => []WorkInv
  <1>1. TypeInv /\ WorkInv /\ [Next]_vars => WorkInv'
    <2> SUFFICES ASSUME TypeInv, WorkInv, [Next]_vars PROVE WorkInv'
      OBVIOUS
    <2>1. CASE UNCHANGED vars
      BY <2>1 DEF vars, rows, money, files, requests, queues, consumer, WorkInv, Produced
    <2>2. CASE Next
      BY <2>2, UserWork, WorkerWork, RequestWork, ConsumerWork, DieWork DEF Next, Crash
    <2> QED BY <2>1, <2>2
  <1> QED BY <1>1, WorkInit, Typing, PTL DEF Spec

(* No order of crashes, late and repeated results, failing saves and         *)
(* overlapping requests makes a document DONE that was never charged or has  *)
(* no text, or PENDING without a charge.                                     *)
THEOREM DoneWasProducedHolds == Spec => []DoneWasProduced
  <1>1. WorkInv => DoneWasProduced
    BY DEF WorkInv, Produced, DoneWasProduced
  <1> QED BY <1>1, Work, PTL
-----------------------------------------------------------------------------
(* Every task was paid for                                                   *)

(* The requests that have charged a document and not published its task yet. *)
Paying(d) == {r \in Requests : pc[r] \in {"charged", "saved"} /\ doc[r] = d}

(* Each charge is still in the hands of its request, is a task in the queue, *)
(* or is used up.                                                            *)
PaidInv == \A d \in Documents : tasks[d] + Cardinality(Paying(d)) <= charges[d]

LEMMA PayingFinite ==
  ASSUME NEW d
  PROVE  IsFiniteSet(Paying(d)) /\ Cardinality(Paying(d)) \in Nat
  <1>1. Paying(d) \in SUBSET Requests
    BY DEF Paying
  <1> QED BY <1>1, FiniteAssumption, FS_Subset, FS_CardinalityType

(* A step after which no further request is paying, and no more tasks and no *)
(* fewer charges are there.                                                  *)
LEMMA PaidStays ==
  ASSUME TypeInv, TypeInv', PaidInv,
         \A d \in Documents : /\ tasks'[d] <= tasks[d]
                              /\ charges[d] <= charges'[d]
                              /\ Paying(d)' \subseteq Paying(d)
  PROVE  PaidInv'
  <1> SUFFICES ASSUME NEW d \in Documents
               PROVE  tasks'[d] + Cardinality(Paying(d)') <= charges'[d]
    BY DEF PaidInv
  <1>1. Paying(d)' \in SUBSET Paying(d)
    OBVIOUS
  <1>2. /\ Cardinality(Paying(d)') <= Cardinality(Paying(d))
        /\ IsFiniteSet(Paying(d)')
    BY <1>1, PayingFinite, FS_Subset
  <1>3. Cardinality(Paying(d)) \in Nat /\ Cardinality(Paying(d)') \in Nat
    BY <1>2, PayingFinite, FS_CardinalityType
  <1>4. tasks[d] \in Nat /\ tasks'[d] \in Nat /\ charges[d] \in Nat /\ charges'[d] \in Nat
    BY DEF TypeInv, TypeOK
  <1>5. tasks[d] + Cardinality(Paying(d)) <= charges[d]
    BY DEF PaidInv
  <1>6. tasks'[d] <= tasks[d] /\ charges[d] <= charges'[d]
    OBVIOUS
  <1> HIDE DEF Paying
  <1> QED BY <1>2, <1>3, <1>4, <1>5, <1>6

LEMMA WithdrawPaid ==
  ASSUME TypeInv, PaidInv, NEW r \in Requests, Withdraw(r)
  PROVE  PaidInv'
  <1> SUFFICES ASSUME NEW d \in Documents
               PROVE  tasks'[d] + Cardinality(Paying(d)') <= charges'[d]
    BY DEF PaidInv
  <1>1. /\ tasks' = tasks /\ doc' = doc /\ pc[r] = "found"
        /\ pc' = [pc EXCEPT ![r] = "charged"]
        /\ charges' = [charges EXCEPT ![doc[r]] = @ + 1]
    BY DEF Withdraw, Step, queues
  <1>2. tasks[d] \in Nat /\ charges[d] \in Nat /\ DOMAIN pc = Requests /\ pc = [q \in Requests |-> pc[q]]
    BY DEF TypeInv, TypeOK, Running
  <1>3. tasks[d] + Cardinality(Paying(d)) <= charges[d]
    BY DEF PaidInv
  <1>4. IsFiniteSet(Paying(d)) /\ Cardinality(Paying(d)) \in Nat
    BY PayingFinite
  <1>5. CASE doc[r] = d
    <2>1. r \notin Paying(d) /\ Paying(d)' = Paying(d) \union {r}
      BY <1>1, <1>2, <1>5 DEF Paying
    <2>2. Cardinality(Paying(d)') = Cardinality(Paying(d)) + 1
      BY <1>4, <2>1, FS_AddElement
    <2>3. charges'[d] = charges[d] + 1
      BY <1>1, <1>5 DEF TypeInv, TypeOK
    <2> QED BY <1>1, <1>2, <1>3, <1>4, <2>2, <2>3
  <1>6. CASE doc[r] # d
    <2>1. Paying(d)' = Paying(d)
      BY <1>1, <1>2, <1>6 DEF Paying
    <2>2. charges'[d] = charges[d]
      BY <1>1, <1>6 DEF TypeInv, TypeOK
    <2> QED BY <1>1, <1>3, <2>1, <2>2
  <1> QED BY <1>5, <1>6

LEMMA PublishPaid ==
  ASSUME TypeInv, PaidInv, NEW r \in Requests, PublishTask(r)
  PROVE  PaidInv'
  <1> SUFFICES ASSUME NEW d \in Documents
               PROVE  tasks'[d] + Cardinality(Paying(d)') <= charges'[d]
    BY DEF PaidInv
  <1>1. /\ charges' = charges /\ doc' = doc /\ pc[r] = "saved"
        /\ pc' = [pc EXCEPT ![r] = "ended"]
        /\ tasks' = [tasks EXCEPT ![doc[r]] = @ + 1]
    BY DEF PublishTask, Step, money
  <1>2. tasks[d] \in Nat /\ charges[d] \in Nat /\ DOMAIN pc = Requests /\ pc = [q \in Requests |-> pc[q]]
    BY DEF TypeInv, TypeOK, Running
  <1>3. tasks[d] + Cardinality(Paying(d)) <= charges[d]
    BY DEF PaidInv
  <1>4. IsFiniteSet(Paying(d)) /\ Cardinality(Paying(d)) \in Nat
    BY PayingFinite
  <1>5. CASE doc[r] = d
    <2>1. r \in Paying(d) /\ Paying(d)' = Paying(d) \ {r}
      BY <1>1, <1>2, <1>5 DEF Paying
    <2>2. Cardinality(Paying(d)') = Cardinality(Paying(d)) - 1
      BY <1>4, <2>1, FS_RemoveElement
    <2>3. tasks'[d] = tasks[d] + 1
      BY <1>1, <1>5 DEF TypeInv, TypeOK
    <2> QED BY <1>1, <1>2, <1>3, <1>4, <2>2, <2>3
  <1>6. CASE doc[r] # d
    <2>1. Paying(d)' = Paying(d)
      BY <1>1, <1>2, <1>6 DEF Paying
    <2>2. tasks'[d] = tasks[d]
      BY <1>1, <1>6 DEF TypeInv, TypeOK
    <2> QED BY <1>1, <1>3, <2>1, <2>2
  <1> QED BY <1>5, <1>6

(* No step but these two makes a request pay or a task appear.               *)
LEMMA OthersPay ==
  ASSUME TypeInv, [Next]_vars, NEW d \in Documents,
         \A r \in Requests : ~ Withdraw(r) /\ ~ PublishTask(r)
  PROVE  /\ tasks'[d] <= tasks[d]
         /\ charges[d] <= charges'[d]
         /\ Paying(d)' \subseteq Paying(d)
  <1> USE DEF Paying, rows, money, files, requests, queues, consumer, client
  <1>0. tasks \in [Documents -> Nat] /\ charges \in [Documents -> Nat]
        /\ pc \in [Requests -> {"new", "saved", "ended", "found", "charged"}]
    BY DEF TypeInv, TypeOK, Running
  <1>1. CASE UNCHANGED vars
    BY <1>0, <1>1 DEF vars
  <1>2. CASE \E e \in Documents :
               \/ Upload(e) \/ WriteFile(e) \/ DeleteDocument(e) \/ EditDocumentText(e)
               \/ Join(e) \/ WorkerDies(e) \/ LoseResult(e)
    BY <1>0, <1>2 DEF Upload, WriteFile, DeleteDocument, EditDocumentText, Join,
                      WorkerDies, LoseResult
  <1>3. ASSUME NEW e \in Documents, FinishTask(e)
        PROVE  tasks'[d] <= tasks[d] /\ charges' = charges /\ Paying(d)' = Paying(d)
    BY <1>0, <1>3 DEF FinishTask
  <1>4. ASSUME NEW r \in Requests,
               \/ FindDocument(r) \/ WithdrawRefused(r) \/ SavePending(r)
               \/ SavePendingFails(r)
        PROVE  tasks' = tasks /\ charges' = charges /\ Paying(d)' \subseteq Paying(d)
    <2>1. CASE FindDocument(r)
      BY <1>0, <2>1 DEF FindDocument, Step
    <2>2. CASE WithdrawRefused(r)
      BY <1>0, <2>2 DEF WithdrawRefused, Step
    <2>3. CASE SavePending(r)
      BY <1>0, <2>3 DEF SavePending, Step
    <2>4. CASE SavePendingFails(r)
      BY <1>0, <2>4 DEF SavePendingFails, Step
    <2> QED BY <1>4, <2>1, <2>2, <2>3, <2>4
  <1>5. CASE Die
    BY <1>0, <1>5 DEF Die
  <1>6. ASSUME NEW r \in Requests, PublishFails(r)
        PROVE  tasks' = tasks /\ charges' = charges /\ Paying(d)' \subseteq Paying(d)
    BY <1>0, <1>6 DEF PublishFails, Die, Step
  <1>7. ASSUME NEW h \in Slots, Handle(h)
        PROVE  tasks' = tasks /\ charges' = charges /\ Paying(d)' = Paying(d)
    BY <1>7 DEF Handle, Receive, SaveResult, SaveFails, MarkFailed, Refund, Requeue, Answer
  <1>8. tasks[d] \in Nat /\ charges[d] \in Nat
    BY <1>0
  <1> HIDE DEF Paying
  <1> QED BY <1>1, <1>2, <1>3, <1>4, <1>5, <1>6, <1>7, <1>8 DEF Next, StartOCR, Crash

(* Every task in the queue, and every one about to be published, has a       *)
(* charge of its own: no order of steps and faults makes the worker do work  *)
(* the user has not paid for.                                                *)
THEOREM TasksArePaidHolds == Spec => []TasksArePaid
  <1>1. Init => PaidInv
    <2> SUFFICES ASSUME Init, NEW d \in Documents
                 PROVE  tasks[d] + Cardinality(Paying(d)) <= charges[d]
      BY DEF PaidInv
    <2>1. Paying(d) = {}
      BY DEF Init, Paying
    <2>2. tasks[d] = 0 /\ charges[d] = 0
      BY DEF Init, Nothing
    <2> QED BY <2>1, <2>2, FS_EmptySet
  <1>2. TypeInv /\ TypeInv' /\ PaidInv /\ [Next]_vars => PaidInv'
    <2> SUFFICES ASSUME TypeInv, TypeInv', PaidInv, [Next]_vars PROVE PaidInv'
      OBVIOUS
    <2>1. CASE \E r \in Requests : Withdraw(r)
      BY <2>1, WithdrawPaid
    <2>2. CASE \E r \in Requests : PublishTask(r)
      BY <2>2, PublishPaid
    <2>3. CASE \A r \in Requests : ~ Withdraw(r) /\ ~ PublishTask(r)
      BY <2>3, OthersPay, PaidStays
    <2> QED BY <2>1, <2>2, <2>3
  <1>3. TypeInv /\ PaidInv => TasksArePaid
    <2> SUFFICES ASSUME TypeInv, PaidInv, NEW d \in Documents
                 PROVE  tasks[d] + Cardinality({r \in Requests : pc[r] = "saved" /\ doc[r] = d})
                          <= charges[d]
      BY DEF TasksArePaid
    <2> DEFINE Saved == {r \in Requests : pc[r] = "saved" /\ doc[r] = d}
    <2>1. Saved \in SUBSET Paying(d)
      BY DEF Paying
    <2>2. Cardinality(Saved) <= Cardinality(Paying(d)) /\ Cardinality(Saved) \in Nat
      BY <2>1, PayingFinite, FS_Subset, FS_CardinalityType
    <2>3. Cardinality(Paying(d)) \in Nat
      BY PayingFinite
    <2>4. tasks[d] + Cardinality(Paying(d)) <= charges[d]
      BY DEF PaidInv
    <2>5. tasks[d] \in Nat /\ charges[d] \in Nat
      BY DEF TypeInv, TypeOK
    <2> QED BY <2>2, <2>3, <2>4, <2>5
  <1> QED BY <1>1, <1>2, <1>3, Typing, PTL DEF Spec

-----------------------------------------------------------------------------
(* What holds as long as only the consumer's save may fail: nothing dies, is *)
(* lost or deleted, and requests do not overlap.                             *)
Undisturbed == Faults \subseteq {"save"}

Publishing(r) == pc[r] = "saved"
Working(h) == at[h] \in {"received", "failing"}

(* One request at a time is about to charge, and only for a document that is *)
(* not being worked on.                                                      *)
OneStarts ==
  /\ deleted = {}
  /\ \A r, q \in Requests : pc[r] \in Running /\ pc[q] \in Running => r = q
  /\ \A r \in Requests : pc[r] \in Running => status[doc[r]] \in {"uploaded", "failed"}

(* The job of a PENDING document is in one place: a request that publishes   *)
(* it, the task queue, the result queue or a delivery that works on it.      *)
InQueues(d) ==
  /\ tasks[d] + results[d] <= 1
  /\ tasks[d] + results[d] > 0 => status[d] = "pending"

AtRequest(r) ==
  Publishing(r) =>
    /\ status[doc[r]] = "pending" /\ tasks[doc[r]] = 0 /\ results[doc[r]] = 0
    /\ \A q \in Requests : Publishing(q) /\ doc[q] = doc[r] => q = r
    /\ \A h \in Slots : Working(h) => of[h] # doc[r]

AtDelivery(h) ==
  Working(h) =>
    /\ status[of[h]] = "pending" /\ tasks[of[h]] = 0 /\ results[of[h]] = 0
    /\ \A g \in Slots : Working(g) /\ of[g] = of[h] => g = h

OnePlace ==
  /\ \A d \in Documents : InQueues(d)
  /\ \A r \in Requests : AtRequest(r)
  /\ \A h \in Slots : AtDelivery(h)

(* Only DONE documents are edited, and only clients in a room hear anything. *)
Quiet ==
  \A d \in Documents :
    /\ text[d] = "edited" => status[d] = "done"
    /\ d \notin room => heard[d] = "none"

JobInv == OneStarts /\ OnePlace /\ Quiet

(* At first nothing is started.                                              *)
LEMMA JobInit == Init => JobInv
  BY DEF Init, JobInv, OneStarts, OnePlace, InQueues, AtRequest, AtDelivery, Quiet,
         Nothing, Silence, Running, Publishing, Working

(* What the queues say of a document.                                        *)
LEMMA QueuesEmpty ==
  ASSUME TypeInv, OnePlace, NEW d \in Documents, status[d] # "pending"
  PROVE  tasks[d] = 0 /\ results[d] = 0
  <1>1. tasks[d] \in Nat /\ results[d] \in Nat
    BY DEF TypeInv, TypeOK
  <1>2. ~ (tasks[d] + results[d] > 0)
    BY DEF OnePlace, InQueues
  <1> QED BY <1>1, <1>2

(* A result is its document's only message.                                  *)
LEMMA ResultAlone ==
  ASSUME TypeInv, OnePlace, NEW d \in Documents, results[d] > 0
  PROVE  tasks[d] = 0 /\ results[d] = 1 /\ status[d] = "pending"
  <1>1. tasks[d] \in Nat /\ results[d] \in Nat
    BY DEF TypeInv, TypeOK
  <1>2. tasks[d] + results[d] <= 1 /\ status[d] = "pending"
    BY <1>1 DEF OnePlace, InQueues
  <1> QED BY <1>1, <1>2

(* What the user does besides starting the OCR.                              *)
LEMMA UserJob ==
  ASSUME Undisturbed, TypeInv, JobInv, NEW d \in Documents,
         Upload(d) \/ WriteFile(d) \/ DeleteDocument(d) \/ EditDocumentText(d) \/ Join(d)
  PROVE  JobInv'
  <1> USE DEF TypeInv, TypeOK, JobInv
  <1>1. UNCHANGED <<deleted, pc, doc, tasks, results, at, of, heard>>
    BY DEF Upload, WriteFile, DeleteDocument, EditDocumentText, Join, Undisturbed,
           rows, requests, queues, consumer, client
  <1>2. CASE Upload(d)
    <2>1. /\ status[d] = "none" /\ UNCHANGED <<text, room>>
          /\ status'[d] = "uploaded"
          /\ \A e \in Documents \ {d} : status'[e] = status[e]
      BY <1>2 DEF Upload, client
    <2>2. OneStarts'
      BY <1>1, <2>1 DEF OneStarts, Running, Matched
    <2>3. OnePlace'
      BY <1>1, <2>1 DEF OnePlace, InQueues, AtRequest, AtDelivery, Publishing, Working, Matched
    <2>4. Quiet'
      BY <1>1, <2>1 DEF Quiet
    <2> QED BY <2>2, <2>3, <2>4
  <1>3. CASE ~ Upload(d)
    <2>1. /\ status' = status /\ room \subseteq room'
          /\ \/ text' = text
             \/ status[d] = "done" /\ text' = [text EXCEPT ![d] = "edited"]
      BY <1>3 DEF WriteFile, DeleteDocument, EditDocumentText, Join, Undisturbed,
                  rows, files, client
    <2>2. OneStarts' /\ OnePlace'
      BY <1>1, <2>1 DEF OneStarts, OnePlace, InQueues, AtRequest, AtDelivery, Publishing, Working
    <2>3. Quiet'
      BY <1>1, <2>1 DEF Quiet
    <2> QED BY <2>2, <2>3
  <1> QED BY <1>2, <1>3

(* The worker turns a task into a result.                                    *)
LEMMA WorkerJob ==
  ASSUME Undisturbed, TypeInv, JobInv, NEW d \in Documents,
         FinishTask(d) \/ WorkerDies(d) \/ LoseResult(d)
  PROVE  JobInv'
  <1> USE DEF TypeInv, TypeOK, JobInv
  <1>1. /\ FinishTask(d)
        /\ UNCHANGED <<status, deleted, pc, doc, at, of, heard, room>>
    BY DEF FinishTask, WorkerDies, LoseResult, Undisturbed,
           rows, requests, consumer, client
  <1>2. tasks[d] > 0 /\ tasks[d] \in Nat /\ results[d] \in Nat
    BY <1>1 DEF FinishTask
  <1>3. /\ tasks'[d] = tasks[d] - 1 /\ results'[d] = results[d] + 1
        /\ \A e \in Documents \ {d} : tasks'[e] = tasks[e] /\ results'[e] = results[e]
    BY <1>1 DEF FinishTask
  <1>4. OneStarts'
    BY <1>1 DEF OneStarts
  <1>5. OnePlace'
    <2>1. \A r \in Requests : Publishing(r) => doc[r] \in Documents \ {d}
      BY <1>2 DEF OnePlace, InQueues, AtRequest, AtDelivery, Publishing, Matched
    <2>2. \A h \in Slots : Working(h) => of[h] \in Documents \ {d}
      BY <1>2 DEF OnePlace, InQueues, AtRequest, AtDelivery, Working, Matched
    <2>3. \A e \in Documents : tasks'[e] + results'[e] = tasks[e] + results[e]
      BY <1>2, <1>3
    <2> QED BY <1>1, <1>2, <1>3, <2>1, <2>2, <2>3 DEF OnePlace, InQueues, AtRequest, AtDelivery, Publishing, Working
  <1>6. Quiet'
    BY <1>1 DEF FinishTask, Quiet
  <1> QED BY <1>4, <1>5, <1>6

(* What a save reports reaches only clients in a room.                       *)
LEMMA HeardOnlyInRoom ==
  ASSUME TypeInv, Quiet, NEW d \in Documents, NEW s \in DocumentStatus
  PROVE  \A e \in Documents : e \notin room => HeardAfter(d, s)[e] = "none"
  BY DEF TypeInv, TypeOK, Quiet, HeardAfter

(* A request starts, charges, marks PENDING and publishes.                   *)
LEMMA RequestJob ==
  ASSUME Undisturbed, TypeInv, JobInv, NEW r \in Requests, FindDocument(r) \/ StartOCR(r)
  PROVE  JobInv'
  <1> USE DEF TypeInv, TypeOK, JobInv, Step
  <1>0. UNCHANGED <<deleted, text, results, at, of, room>>
    BY DEF FindDocument, StartOCR, Withdraw, WithdrawRefused, SavePending, SavePendingFails,
           PublishTask, PublishFails, Undisturbed, rows, files, queues, consumer, client
  <1>1. CASE FindDocument(r)
    <2>1. /\ UNCHANGED <<status, tasks, heard>>
          /\ pc[r] = "new" /\ pc' = [pc EXCEPT ![r] = "found"]
          /\ \A q \in Requests : pc[q] \notin Running
      BY <1>1 DEF FindDocument, Undisturbed, rows, queues, client
    <2>2. PICK d \in Documents : MayStart(d) /\ doc' = [doc EXCEPT ![r] = d]
      BY <1>1 DEF FindDocument
    <2>3. status[d] \in {"uploaded", "failed"}
      BY <2>2 DEF MayStart, Finds, DocumentStatus
    <2>4. /\ pc'[r] = "found" /\ doc'[r] = d
          /\ \A q \in Requests \ {r} : pc'[q] = pc[q] /\ doc'[q] = doc[q]
      BY <2>1, <2>2
    <2>5. OneStarts'
      BY <1>0, <2>1, <2>3, <2>4 DEF OneStarts
    <2>6. OnePlace'
      BY <1>0, <2>1, <2>4 DEF OnePlace, InQueues, AtRequest, AtDelivery, Publishing, Working
    <2>7. Quiet'
      BY <1>0, <2>1 DEF Quiet
    <2> QED BY <2>5, <2>6, <2>7
  <1>2. CASE Withdraw(r) \/ WithdrawRefused(r)
    <2>1. /\ UNCHANGED <<status, doc, tasks, heard>>
          /\ pc[r] \in Running /\ pc'[r] \in {"charged", "ended"}
          /\ \A q \in Requests \ {r} : pc'[q] = pc[q]
      BY <1>2 DEF Withdraw, WithdrawRefused, Running, rows, queues, client
    <2>2. OneStarts'
      BY <1>0, <2>1 DEF OneStarts, Running
    <2>3. OnePlace'
      BY <1>0, <2>1 DEF OnePlace, InQueues, AtRequest, AtDelivery, Publishing, Working
    <2>4. Quiet'
      BY <1>0, <2>1 DEF Quiet
    <2> QED BY <2>2, <2>3, <2>4
  <1>3. CASE SavePending(r)
    <2> DEFINE d == doc[r]
    <2>1. /\ UNCHANGED <<doc, tasks>> /\ d \in Documents
          /\ pc[r] = "charged" /\ pc'[r] = "saved"
          /\ \A q \in Requests \ {r} : pc'[q] = pc[q]
          /\ status'[d] = "pending" /\ heard' = HeardAfter(d, "pending")
          /\ \A e \in Documents \ {d} : status'[e] = status[e]
      BY <1>3 DEF SavePending, Matched, queues
    <2>2. /\ status[d] \in {"uploaded", "failed"}
          /\ \A q \in Requests \ {r} : pc[q] \notin Running
      BY <2>1 DEF OneStarts, Running
    <2>3. tasks[d] = 0 /\ results[d] = 0
      BY <2>1, <2>2, QueuesEmpty
    <2>4. /\ \A q \in Requests : Publishing(q) => doc[q] # d
          /\ \A h \in Slots : Working(h) => of[h] # d
      BY <2>2 DEF OnePlace, AtRequest, AtDelivery
    <2>5. OneStarts'
      BY <1>0, <2>1, <2>2 DEF OneStarts, Running
    <2>6. OnePlace'
      <3>1. \A e \in Documents : status[e] = "pending" => status'[e] = "pending"
        BY <2>1
      <3> QED BY <1>0, <2>1, <2>3, <2>4, <3>1 DEF OnePlace, InQueues, AtRequest, AtDelivery, Publishing, Working, Matched
    <2>7. Quiet'
      <3>1. \A e \in Documents : e \notin room => heard'[e] = "none"
        BY <2>1, HeardOnlyInRoom DEF DocumentStatus
      <3> QED BY <1>0, <2>1, <2>2, <3>1 DEF Quiet
    <2> QED BY <2>5, <2>6, <2>7
  <1>4. CASE PublishTask(r)
    <2> DEFINE d == doc[r]
    <2>1. /\ UNCHANGED <<status, doc, heard>> /\ d \in Documents
          /\ pc[r] = "saved" /\ pc'[r] = "ended"
          /\ \A q \in Requests \ {r} : pc'[q] = pc[q]
          /\ tasks'[d] = tasks[d] + 1
          /\ \A e \in Documents \ {d} : tasks'[e] = tasks[e]
      BY <1>4 DEF PublishTask, Matched, rows, client
    <2>2. /\ status[d] = "pending" /\ tasks[d] = 0 /\ results[d] = 0
          /\ \A q \in Requests \ {r} : Publishing(q) => doc[q] # d
          /\ \A h \in Slots : Working(h) => of[h] # d
      BY <2>1 DEF OnePlace, AtRequest, Publishing
    <2>3. OneStarts'
      BY <1>0, <2>1 DEF OneStarts, Running
    <2>4. OnePlace'
      BY <1>0, <2>1, <2>2 DEF OnePlace, InQueues, AtRequest, AtDelivery, Publishing, Working, Matched
    <2>5. Quiet'
      BY <1>0, <2>1 DEF Quiet
    <2> QED BY <2>3, <2>4, <2>5
  <1>5. ~ SavePendingFails(r) /\ ~ PublishFails(r)
    BY DEF SavePendingFails, PublishFails, Undisturbed
  <1> QED BY <1>1, <1>2, <1>3, <1>4, <1>5 DEF StartOCR

(* A delivery is handled.                                                    *)
LEMMA ConsumerJob ==
  ASSUME Undisturbed, TypeInv, JobInv, NEW h \in Slots, Handle(h)
  PROVE  JobInv'
  <1> USE DEF TypeInv, TypeOK, JobInv
  <1> DEFINE d == of[h]
  <1>0. UNCHANGED <<deleted, text, tasks, pc, doc, room>>
    BY DEF Handle, Receive, SaveResult, SaveFails, MarkFailed, Refund, Requeue, Answer,
           rows, files, queues, requests, client
  <1>1. CASE Receive(h)
    <2>1. PICK e \in Documents : /\ results[e] > 0
                                /\ results' = [results EXCEPT ![e] = @ - 1]
                                /\ of' = [of EXCEPT ![h] = e]
      BY <1>1 DEF Receive
    <2>2. /\ UNCHANGED <<status, heard>>
          /\ at[h] = "idle" /\ at'[h] = "received" /\ of'[h] = e
          /\ \A g \in Slots \ {h} : at'[g] = at[g] /\ of'[g] = of[g]
      BY <1>1, <2>1 DEF Receive, rows, client
    <2>3. /\ results'[e] = results[e] - 1
          /\ \A c \in Documents \ {e} : results'[c] = results[c]
      BY <2>1
    <2>4. /\ status[e] = "pending" /\ tasks[e] = 0 /\ results'[e] = 0
          /\ \A q \in Requests : Publishing(q) => doc[q] # e
          /\ \A g \in Slots : Working(g) => of[g] # e
      <3>1. tasks[e] = 0 /\ results[e] = 1 /\ status[e] = "pending"
        BY <2>1, ResultAlone
      <3> QED BY <2>3, <3>1 DEF OnePlace, AtRequest, AtDelivery
    <2>5. OneStarts'
      BY <1>0, <2>2 DEF OneStarts
    <2>6. OnePlace'
      <3>1. \A c \in Documents : InQueues(c)'
        BY <1>0, <2>2, <2>3, <2>4 DEF OnePlace, InQueues
      <3>2. \A q \in Requests : AtRequest(q)'
        BY <1>0, <2>2, <2>3, <2>4 DEF OnePlace, AtRequest, Publishing, Working, Matched
      <3>3. \A g \in Slots : AtDelivery(g)'
        BY <1>0, <2>2, <2>3, <2>4 DEF OnePlace, AtDelivery, Working, Matched
      <3> QED BY <3>1, <3>2, <3>3 DEF OnePlace
    <2>7. Quiet'
      BY <1>0, <2>2 DEF Quiet
    <2> QED BY <2>5, <2>6, <2>7
  <1>2. CASE SaveResult(h) \/ SaveFails(h) \/ MarkFailed(h)
    <2>1. /\ UNCHANGED results /\ at[h] \in {"received", "failing"} /\ d \in Documents
          /\ at'[h] \in {"saved", "failing", "failed"} /\ of'[h] = d
          /\ \A g \in Slots \ {h} : at'[g] = at[g] /\ of'[g] = of[g]
          /\ \A e \in Documents \ {d} : status'[e] = status[e]
          /\ at'[h] = "failing" => status'[d] = status[d]
      BY <1>2 DEF SaveResult, SaveFails, MarkFailed, Becomes, Matched, rows, queues
    <2>2. /\ status[d] = "pending" /\ tasks[d] = 0 /\ results[d] = 0
          /\ \A q \in Requests : Publishing(q) => doc[q] # d
          /\ \A g \in Slots \ {h} : Working(g) => of[g] # d
      BY <2>1 DEF OnePlace, InQueues, AtRequest, AtDelivery, Working
    <2>3. \A q \in Requests : pc[q] \in Running => doc[q] # d
      BY <2>2 DEF OneStarts
    <2>4. OneStarts'
      BY <1>0, <2>1, <2>3 DEF OneStarts, Running, Matched
    <2>5. OnePlace'
      <3>1. \A e \in Documents : InQueues(e)'
        BY <1>0, <2>1, <2>2 DEF OnePlace, InQueues
      <3>2. \A q \in Requests : AtRequest(q)'
        BY <1>0, <2>1, <2>2 DEF OnePlace, AtRequest, Publishing, Working, Matched
      <3>3. \A g \in Slots : AtDelivery(g)'
        BY <1>0, <2>1, <2>2 DEF OnePlace, AtDelivery, Working, Matched
      <3> QED BY <3>1, <3>2, <3>3 DEF OnePlace
    <2>6. Quiet'
      <3>1. \A e \in Documents : e \notin room => heard'[e] = "none"
        <4>1. heard' \in {heard, HeardAfter(d, "done")}
          BY <1>2 DEF SaveResult, SaveFails, MarkFailed, client
        <4> QED BY <2>1, <4>1, HeardOnlyInRoom DEF DocumentStatus, Quiet
      <3> QED BY <1>0, <2>1, <2>2, <3>1 DEF Quiet
    <2> QED BY <2>4, <2>5, <2>6
  <1>3. CASE Refund(h) \/ Answer(h)
    <2>1. /\ UNCHANGED <<status, heard, results>>
          /\ at'[h] \in {"refunded", "idle"}
          /\ \A g \in Slots \ {h} : at'[g] = at[g] /\ of'[g] = of[g]
      BY <1>3 DEF Refund, Answer, Becomes, rows, queues, client
    <2>2. OneStarts' /\ Quiet'
      BY <1>0, <2>1 DEF OneStarts, Quiet
    <2>3. OnePlace'
      BY <1>0, <2>1 DEF OnePlace, InQueues, AtRequest, AtDelivery, Publishing, Working
    <2> QED BY <2>2, <2>3
  <1>4. ~ Requeue(h)
    BY DEF Requeue, Undisturbed, OneStarts
  <1> QED BY <1>1, <1>2, <1>3, <1>4 DEF Handle

(* JobInv is inductive relative to the types.                                *)
LEMMA JobStep ==
  ASSUME Undisturbed, TypeInv, JobInv, [Next]_vars
  PROVE  JobInv'
  <1>1. CASE UNCHANGED vars
    BY <1>1 DEF vars, rows, money, files, requests, queues, consumer, client,
                JobInv, OneStarts, OnePlace, InQueues, AtRequest, AtDelivery, Quiet,
                Publishing, Working
  <1>2. CASE Next
    BY <1>2, UserJob, WorkerJob, RequestJob, ConsumerJob DEF Next, Crash, Undisturbed
  <1> QED BY <1>1, <1>2

(* Undisturbed, every document has at most one job.                          *)
THEOREM OneJob == ASSUME Undisturbed PROVE Spec => []JobInv
  <1>1. TypeInv /\ JobInv /\ [Next]_vars => JobInv'
    BY JobStep
  <1> QED BY <1>1, JobInit, Typing, PTL DEF Spec

-----------------------------------------------------------------------------
(* Charges and refunds *)

OwedSet(d) == {h \in Slots : at[h] = "failed" /\ of[h] = d}

(* The user has paid for d and not been promised the pages back.             *)
Charged(d) == status[d] \in {"pending", "done"} \/ Paid(d)

(* Refunds that are owed are as many as the deliveries that owe them, before *)
(* and after a step.                                                         *)
LEMMA OwedIs ==
  ASSUME NEW d \in Documents
  PROVE  /\ Owed[d] = Cardinality(OwedSet(d)) /\ Owed'[d] = Cardinality(OwedSet(d)')
         /\ IsFiniteSet(OwedSet(d)) /\ Cardinality(OwedSet(d)) \in Nat
         /\ Cardinality(OwedSet(d)') \in Nat
  <1>1. OwedSet(d) \in SUBSET Slots /\ OwedSet(d)' \in SUBSET Slots
    BY DEF OwedSet
  <1>2. IsFiniteSet(OwedSet(d)) /\ IsFiniteSet(OwedSet(d)')
    BY <1>1, FiniteAssumption, FS_Subset
  <1>3. Owed[d] = Cardinality(OwedSet(d))
    BY DEF Owed, OwedSet
  <1>4. Owed'[d] = Cardinality(OwedSet(d)')
    BY DEF Owed, OwedSet
  <1> QED BY <1>2, <1>3, <1>4, FS_CardinalityType

(* What five steps do to the account of their document: charge it, mark it   *)
(* PENDING, DONE or FAILED, refund it.  Only a document that is not charged  *)
(* is charged.                                                               *)
LEMMA WithdrawAccount ==
  ASSUME TypeInv, JobInv, NEW r \in Requests, Withdraw(r),
         NEW d, d = doc[r]
  PROVE  /\ d \in Documents /\ ~Charged(d) /\ Paid(d)'
         /\ UNCHANGED <<status, refunds, at, of>>
         /\ charges' = [charges EXCEPT ![d] = @ + 1]
         /\ \A e \in Documents \ {d} : Paid(e)' <=> Paid(e)
  <1>1. /\ pc[r] = "found" /\ pc' = [pc EXCEPT ![r] = "charged"] /\ doc' = doc
        /\ UNCHANGED <<status, refunds, at, of>>
        /\ charges' = [charges EXCEPT ![d] = @ + 1]
    BY DEF Withdraw, Step, rows, consumer
  <1>2. d \in Documents
    BY <1>1 DEF TypeInv, Matched
  <1>3. pc'[r] = "charged" /\ \A q \in Requests \ {r} : pc'[q] = pc[q]
    BY <1>1 DEF TypeInv, TypeOK
  <1>4. \A q \in Requests : pc[q] # "charged"
    BY <1>1 DEF JobInv, OneStarts, Running
  <1>5. status[d] \notin {"pending", "done"}
    BY <1>1 DEF JobInv, OneStarts, Running
  <1>6. Paid(d)' /\ \A e \in Documents \ {d} : Paid(e)' <=> Paid(e)
    BY <1>1, <1>3 DEF Paid
  <1> QED BY <1>1, <1>2, <1>4, <1>5, <1>6 DEF Charged, Paid

(* What was paid becomes PENDING.                                            *)
LEMMA SavePendingAccount ==
  ASSUME TypeInv, JobInv, NEW r \in Requests, SavePending(r),
         NEW d, d = doc[r]
  PROVE  /\ d \in Documents /\ Paid(d) /\ ~Paid(d)'
         /\ status[d] \in {"uploaded", "failed"} /\ status'[d] = "pending"
         /\ UNCHANGED <<balance, charges, refunds, at, of>>
         /\ \A e \in Documents \ {d} : status'[e] = status[e] /\ (Paid(e)' <=> Paid(e))
  <1>1. /\ pc[r] = "charged" /\ pc' = [pc EXCEPT ![r] = "saved"] /\ doc' = doc
        /\ status' = [status EXCEPT ![d] = "pending"]
        /\ UNCHANGED <<balance, charges, refunds, at, of>>
    BY DEF SavePending, Step, money, consumer
  <1>2. d \in Documents
    BY <1>1 DEF TypeInv, Matched
  <1>3. pc'[r] = "saved" /\ \A q \in Requests \ {r} : pc'[q] = pc[q]
    BY <1>1 DEF TypeInv, TypeOK
  <1>4. \A q \in Requests \ {r} : pc[q] # "charged"
    BY <1>1 DEF JobInv, OneStarts, Running
  <1>5. status[d] \in {"uploaded", "failed"}
    BY <1>1 DEF JobInv, OneStarts, Running
  <1>6. /\ status'[d] = "pending"
        /\ \A e \in Documents \ {d} : status'[e] = status[e]
    BY <1>1, <1>2 DEF TypeInv, TypeOK
  <1>7. Paid(d) /\ ~Paid(d)' /\ \A e \in Documents \ {d} : Paid(e)' <=> Paid(e)
    BY <1>1, <1>3, <1>4 DEF Paid
  <1> QED BY <1>1, <1>2, <1>5, <1>6, <1>7

(* A delivery settles only a PENDING document.                               *)
LEMMA ConsumerAccount ==
  ASSUME TypeInv, JobInv, NEW h \in Slots, SaveResult(h) \/ MarkFailed(h),
         NEW d, d = of[h]
  PROVE  /\ d \in Documents /\ status[d] = "pending" /\ ~Paid(d)
         /\ UNCHANGED <<balance, charges, refunds, pc, doc>>
         /\ \A e \in Documents \ {d} : status'[e] = status[e]
         /\ \A e \in Documents \ {d} : OwedSet(e)' = OwedSet(e)
         /\ h \notin OwedSet(d)
         /\ SaveResult(h) => status'[d] = "done" /\ OwedSet(d)' = OwedSet(d)
         /\ MarkFailed(h) => status'[d] = "failed" /\ OwedSet(d)' = OwedSet(d) \union {h}
  <1>1. Working(h)
    BY DEF SaveResult, MarkFailed, Working
  <1>2. d \in Documents
    BY <1>1 DEF TypeInv, Matched, Working
  <1>3. status[d] = "pending"
    BY <1>1 DEF JobInv, OnePlace, AtDelivery
  <1>4. ~Paid(d)
    BY <1>3 DEF Paid, JobInv, OneStarts, Running
  <1>5. /\ UNCHANGED <<balance, charges, refunds, pc, doc>>
        /\ of'[h] = d /\ at'[h] \in {"saved", "failed"} /\ at[h] # "failed"
        /\ SaveResult(h) => at'[h] = "saved" /\ status' = [status EXCEPT ![d] = "done"]
        /\ MarkFailed(h) => at'[h] = "failed" /\ status' = [status EXCEPT ![d] = "failed"]
        /\ \A g \in Slots \ {h} : at'[g] = at[g] /\ of'[g] = of[g]
    BY DEF SaveResult, MarkFailed, Becomes, money, requests, TypeInv, TypeOK
  <1>6. /\ \A e \in Documents \ {d} : status'[e] = status[e]
        /\ SaveResult(h) => status'[d] = "done"
        /\ MarkFailed(h) => status'[d] = "failed"
    BY <1>2, <1>5 DEF TypeInv, TypeOK
  <1>7. /\ \A e \in Documents \ {d} : OwedSet(e)' = OwedSet(e)
        /\ h \notin OwedSet(d)
        /\ SaveResult(h) => OwedSet(d)' = OwedSet(d)
        /\ MarkFailed(h) => OwedSet(d)' = OwedSet(d) \union {h}
    BY <1>5 DEF OwedSet
  <1> QED BY <1>2, <1>3, <1>4, <1>5, <1>6, <1>7

(* A refund pays what its delivery owes.                                     *)
LEMMA RefundAccount ==
  ASSUME TypeInv, NEW h \in Slots, Refund(h),
         NEW d, d = of[h]
  PROVE  /\ d \in Documents /\ h \in OwedSet(d) /\ OwedSet(d)' = OwedSet(d) \ {h}
         /\ UNCHANGED <<status, charges, pc, doc>>
         /\ refunds' = [refunds EXCEPT ![d] = @ + 1]
         /\ balance' = balance + Pages[d]
         /\ \A e \in Documents \ {d} : OwedSet(e)' = OwedSet(e)
  <1>1. /\ at[h] = "failed" /\ at'[h] = "refunded" /\ of'[h] = d
        /\ UNCHANGED <<status, charges, pc, doc>>
        /\ refunds' = [refunds EXCEPT ![d] = @ + 1]
        /\ balance' = balance + Pages[d]
        /\ \A g \in Slots \ {h} : at'[g] = at[g] /\ of'[g] = of[g]
    BY DEF Refund, Becomes, rows, requests, TypeInv, TypeOK
  <1>2. d \in Documents
    BY <1>1 DEF TypeInv, Matched
  <1>3. /\ h \in OwedSet(d) /\ OwedSet(d)' = OwedSet(d) \ {h}
        /\ \A e \in Documents \ {d} : OwedSet(e)' = OwedSet(e)
    BY <1>1 DEF OwedSet
  <1> QED BY <1>1, <1>2, <1>3

(* No other step has to do with the account.                                 *)
LEMMA OtherAccount ==
  ASSUME Undisturbed, TypeInv, JobInv, [Next]_vars,
         \A r \in Requests : ~ Withdraw(r) /\ ~ SavePending(r),
         \A h \in Slots : ~ SaveResult(h) /\ ~ MarkFailed(h) /\ ~ Refund(h)
  PROVE  /\ UNCHANGED <<balance, charges, refunds>>
         /\ \A d \in Documents :
              /\ status'[d] = status[d] \/ (status[d] = "none" /\ status'[d] = "uploaded")
              /\ Paid(d)' <=> Paid(d)
              /\ OwedSet(d)' = OwedSet(d)
  <1> USE DEF rows, money, files, requests, queues, consumer, client
  <1>1. CASE UNCHANGED vars
    BY <1>1 DEF vars, Paid, OwedSet
  <1>2. ASSUME NEW d \in Documents,
               \/ Upload(d) \/ WriteFile(d) \/ DeleteDocument(d) \/ EditDocumentText(d)
               \/ Join(d) \/ FinishTask(d) \/ WorkerDies(d) \/ LoseResult(d)
        PROVE  /\ UNCHANGED <<balance, charges, refunds, pc, doc, at, of>>
               /\ \A e \in Documents : status'[e] = status[e]
                                        \/ (status[e] = "none" /\ status'[e] = "uploaded")
    BY <1>2 DEF Upload, WriteFile, DeleteDocument, EditDocumentText, Join, FinishTask,
                WorkerDies, LoseResult, TypeInv, TypeOK
  <1>3. ASSUME NEW r \in Requests, FindDocument(r) \/ WithdrawRefused(r) \/ PublishTask(r)
        PROVE  /\ UNCHANGED <<balance, charges, refunds, status, at, of>>
               /\ \A d \in Documents : Paid(d)' <=> Paid(d)
    <2>1. /\ UNCHANGED <<balance, charges, refunds, status, at, of>>
          /\ pc[r] # "charged" /\ pc'[r] # "charged"
          /\ \A q \in Requests \ {r} : pc'[q] = pc[q] /\ doc'[q] = doc[q]
      BY <1>3 DEF FindDocument, WithdrawRefused, PublishTask, Step, TypeInv, TypeOK
    <2> QED BY <2>1 DEF Paid
  <1>4. ASSUME NEW h \in Slots, Receive(h) \/ SaveFails(h) \/ Answer(h)
        PROVE  /\ UNCHANGED <<balance, charges, refunds, status, pc, doc>>
               /\ \A d \in Documents : OwedSet(d)' = OwedSet(d)
    <2>1. /\ UNCHANGED <<balance, charges, refunds, status, pc, doc>>
          /\ at[h] # "failed" /\ at'[h] # "failed"
          /\ \A g \in Slots \ {h} : at'[g] = at[g] /\ of'[g] = of[g]
      BY <1>4 DEF Receive, SaveFails, Answer, Becomes, TypeInv, TypeOK
    <2> QED BY <2>1 DEF OwedSet
  <1>5. \A r \in Requests : ~ SavePendingFails(r) /\ ~ PublishFails(r)
    BY DEF SavePendingFails, PublishFails, Undisturbed
  <1>6. ~ Crash /\ \A h \in Slots : ~ Requeue(h)
    BY DEF Crash, Requeue, Undisturbed, JobInv, OneStarts
  <1>7. \/ UNCHANGED vars
        \/ \E d \in Documents :
             \/ Upload(d) \/ WriteFile(d) \/ DeleteDocument(d) \/ EditDocumentText(d)
             \/ Join(d) \/ FinishTask(d) \/ WorkerDies(d) \/ LoseResult(d)
        \/ \E r \in Requests : FindDocument(r) \/ WithdrawRefused(r) \/ PublishTask(r)
        \/ \E h \in Slots : Receive(h) \/ SaveFails(h) \/ Answer(h)
    BY <1>5, <1>6 DEF Next, StartOCR, Handle
  <1>8. ASSUME UNCHANGED <<pc, doc>> PROVE \A d \in Documents : Paid(d)' <=> Paid(d)
    BY <1>8 DEF Paid
  <1>9. ASSUME UNCHANGED <<at, of>> PROVE \A d \in Documents : OwedSet(d)' = OwedSet(d)
    BY <1>9 DEF OwedSet
  <1> HIDE DEF rows, money, files, requests, queues, consumer, client
  <1> QED BY <1>1, <1>2, <1>3, <1>4, <1>7, <1>8, <1>9

(* At first nothing is charged or owed.                                      *)
LEMMA AccountsInit == Init => AccountsMatch
  <1> SUFFICES ASSUME Init, NEW d \in Documents
               PROVE  charges[d] - refunds[d] - Owed[d] = IF Charged(d) THEN 1 ELSE 0
    BY DEF AccountsMatch, Charged
  <1>1. OwedSet(d) = {} /\ ~Charged(d) /\ charges[d] = 0 /\ refunds[d] = 0
    BY DEF Init, OwedSet, Charged, Paid, Nothing
  <1>2. Owed[d] = 0
    BY <1>1, OwedIs, FS_EmptySet
  <1> QED BY <1>1, <1>2

(* An account whose deliveries owe as much as before.                        *)
LEMMA OwedStays ==
  ASSUME NEW d \in Documents, OwedSet(d)' = OwedSet(d)
  PROVE  Owed'[d] = Owed[d]
  BY OwedIs

(* AccountsMatch is inductive relative to JobInv.                            *)
LEMMA AccountsStep ==
  ASSUME Undisturbed, TypeInv, JobInv, AccountsMatch, [Next]_vars
  PROVE  AccountsMatch'
  <1> SUFFICES ASSUME NEW d \in Documents
               PROVE  charges'[d] - refunds'[d] - Owed'[d] = IF Charged(d)' THEN 1 ELSE 0
    BY DEF AccountsMatch, Charged
  <1> DEFINE owed == Owed[d]
             then == Owed'[d]
  <1>1. charges[d] - refunds[d] - owed = IF Charged(d) THEN 1 ELSE 0
    BY DEF AccountsMatch, Charged
  <1>2. charges[d] \in Nat /\ refunds[d] \in Nat /\ owed \in Nat
    BY OwedIs DEF TypeInv, TypeOK
  <1> HIDE DEF owed, then
  <1>3. ASSUME charges'[d] = charges[d], refunds'[d] = refunds[d], then = owed,
               Charged(d)' <=> Charged(d)
        PROVE  charges'[d] - refunds'[d] - then = IF Charged(d)' THEN 1 ELSE 0
    BY <1>1, <1>2, <1>3
  <1>4. ASSUME NEW r \in Requests, Withdraw(r)
        PROVE  charges'[d] - refunds'[d] - then = IF Charged(d)' THEN 1 ELSE 0
    <2>0. PICK e : e = doc[r]
      OBVIOUS
    <2>1. then = owed /\ refunds'[d] = refunds[d] /\ status' = status
      BY <1>4, <2>0, WithdrawAccount, OwedStays DEF owed, then, OwedSet
    <2>2. CASE d = e
      <3>1. charges'[d] = charges[d] + 1 /\ ~Charged(d) /\ Charged(d)'
        BY <1>4, <2>0, <2>2, WithdrawAccount DEF TypeInv, TypeOK, Charged
      <3> QED BY <1>1, <1>2, <2>1, <3>1
    <2>3. CASE d # e
      <3>1. charges'[d] = charges[d] /\ (Charged(d)' <=> Charged(d))
        BY <1>4, <2>0, <2>1, <2>3, WithdrawAccount DEF TypeInv, TypeOK, Charged
      <3> QED BY <1>3, <2>1, <3>1
    <2> QED BY <2>2, <2>3
  <1>5. ASSUME NEW r \in Requests, SavePending(r)
        PROVE  charges'[d] - refunds'[d] - then = IF Charged(d)' THEN 1 ELSE 0
    <2>0. PICK e : e = doc[r]
      OBVIOUS
    <2>1. then = owed /\ charges'[d] = charges[d] /\ refunds'[d] = refunds[d]
      BY <1>5, <2>0, SavePendingAccount, OwedStays DEF owed, then, OwedSet
    <2>2. Charged(d)' <=> Charged(d)
      BY <1>5, <2>0, SavePendingAccount DEF Charged
    <2> QED BY <1>3, <2>1, <2>2
  <1>6. ASSUME NEW h \in Slots, SaveResult(h)
        PROVE  charges'[d] - refunds'[d] - then = IF Charged(d)' THEN 1 ELSE 0
    <2>0. PICK e : e = of[h]
      OBVIOUS
    <2>1. charges'[d] = charges[d] /\ refunds'[d] = refunds[d] /\ OwedSet(d)' = OwedSet(d)
      BY <1>6, <2>0, ConsumerAccount
    <2>2. then = owed
      BY <2>1, OwedStays DEF owed, then
    <2>3. Charged(d)' <=> Charged(d)
      BY <1>6, <2>0, ConsumerAccount DEF Charged, Paid
    <2> QED BY <1>3, <2>1, <2>2, <2>3
  <1>7. ASSUME NEW h \in Slots, MarkFailed(h)
        PROVE  charges'[d] - refunds'[d] - then = IF Charged(d)' THEN 1 ELSE 0
    <2>0. PICK e : e = of[h]
      OBVIOUS
    <2>1. charges'[d] = charges[d] /\ refunds'[d] = refunds[d]
      BY <1>7, <2>0, ConsumerAccount
    <2>2. CASE d = e
      <3>1. h \notin OwedSet(d) /\ OwedSet(d)' = OwedSet(d) \union {h}
        BY <1>7, <2>0, <2>2, ConsumerAccount
      <3>2. then = owed + 1
        BY <3>1, OwedIs, FS_AddElement DEF owed, then
      <3>3. Charged(d) /\ ~Charged(d)'
        BY <1>7, <2>0, <2>2, ConsumerAccount DEF Charged, Paid
      <3> QED BY <1>1, <1>2, <2>1, <3>2, <3>3
    <2>3. CASE d # e
      <3>1. then = owed
        BY <1>7, <2>0, <2>3, ConsumerAccount, OwedStays DEF owed, then
      <3>2. Charged(d)' <=> Charged(d)
        BY <1>7, <2>0, <2>3, ConsumerAccount DEF Charged, Paid
      <3> QED BY <1>3, <2>1, <3>1, <3>2
    <2> QED BY <2>2, <2>3
  <1>8. ASSUME NEW h \in Slots, Refund(h)
        PROVE  charges'[d] - refunds'[d] - then = IF Charged(d)' THEN 1 ELSE 0
    <2>0. PICK e : e = of[h]
      OBVIOUS
    <2>1. charges'[d] = charges[d] /\ (Charged(d)' <=> Charged(d))
      BY <1>8, <2>0, RefundAccount DEF Charged, Paid
    <2>2. CASE d = e
      <3>1. then = owed - 1
        <4>1. h \in OwedSet(d) /\ OwedSet(d)' = OwedSet(d) \ {h}
          BY <1>8, <2>0, <2>2, RefundAccount
        <4> QED BY <4>1, OwedIs, FS_RemoveElement DEF owed, then
      <3>2. refunds'[d] = refunds[d] + 1
        BY <1>8, <2>0, <2>2, RefundAccount DEF TypeInv, TypeOK
      <3> QED BY <1>1, <1>2, <2>1, <3>1, <3>2
    <2>3. CASE d # e
      <3>1. then = owed
        BY <1>8, <2>0, <2>3, RefundAccount, OwedStays DEF owed, then
      <3>2. refunds'[d] = refunds[d]
        BY <1>8, <2>0, <2>3, RefundAccount DEF TypeInv, TypeOK
      <3> QED BY <1>3, <2>1, <3>1, <3>2
    <2> QED BY <2>2, <2>3
  <1>9. ASSUME \A r \in Requests : ~ Withdraw(r) /\ ~ SavePending(r),
               \A h \in Slots : ~ SaveResult(h) /\ ~ MarkFailed(h) /\ ~ Refund(h)
        PROVE  charges'[d] - refunds'[d] - then = IF Charged(d)' THEN 1 ELSE 0
    <2>1. /\ charges'[d] = charges[d] /\ refunds'[d] = refunds[d]
          /\ OwedSet(d)' = OwedSet(d) /\ (Charged(d)' <=> Charged(d))
      BY <1>9, OtherAccount DEF Charged
    <2>2. then = owed
      BY <2>1, OwedStays DEF owed, then
    <2> QED BY <1>3, <2>1, <2>2
  <1>10. charges'[d] - refunds'[d] - then = IF Charged(d)' THEN 1 ELSE 0
    BY <1>4, <1>5, <1>6, <1>7, <1>8, <1>9
  <1> QED BY <1>10 DEF then

(* However saves fail, the user has paid for the documents that are PENDING  *)
(* or DONE, once each, and for no other.                                     *)
THEOREM AccountsMatchHolds == ASSUME Undisturbed PROVE Spec => []AccountsMatch
  <1>1. TypeInv /\ JobInv /\ AccountsMatch /\ [Next]_vars => AccountsMatch'
    BY AccountsStep
  <1> QED BY <1>1, AccountsInit, Typing, OneJob, PTL DEF Spec

-----------------------------------------------------------------------------
(* What the user sees: the websocket client and the edited text *)


(* ClientFollows is inductive relative to JobInv: a save reports the status  *)
(* it writes, unless that is the status already.                             *)
LEMMA ClientStep ==
  ASSUME Undisturbed, TypeInv, JobInv, ClientFollows, [Next]_vars
  PROVE  ClientFollows'
  <1> USE DEF rows, money, files, requests, queues, consumer, client
  <1>1. ASSUME heard' = heard, status' = status,
               \A h \in Slots : at[h] = "failing" => at'[h] = "failing" /\ of'[h] = of[h]
        PROVE  ClientFollows'
    BY <1>1 DEF ClientFollows
  <1>2. ASSUME NEW d \in Documents, NEW s \in {"pending", "done"},
               heard' = HeardAfter(d, s), status' = [status EXCEPT ![d] = s],
               \A h \in Slots : at[h] = "failing" => at'[h] = "failing" /\ of'[h] = of[h]
        PROVE  ClientFollows'
    <2>1. status'[d] = s /\ \A e \in Documents \ {d} : status'[e] = status[e]
      BY <1>2 DEF TypeInv, TypeOK
    <2>2. \A e \in Documents \ {d} : heard'[e] = heard[e]
      BY <1>2 DEF HeardAfter, TypeInv, TypeOK
    <2>3. heard'[d] \in {"none", s} \/ (status[d] = s /\ heard'[d] = heard[d])
      BY <1>2 DEF HeardAfter, TypeInv, TypeOK, JobInv, Quiet
    <2> QED BY <1>2, <2>1, <2>2, <2>3 DEF ClientFollows
  <1>3. CASE UNCHANGED vars
    BY <1>1, <1>3 DEF vars
  <1>4. ASSUME NEW d \in Documents, Upload(d) PROVE ClientFollows'
    <2>1. /\ UNCHANGED <<heard, at, of>> /\ status[d] = "none"
          /\ \A e \in Documents \ {d} : status'[e] = status[e]
      BY <1>4 DEF Upload, TypeInv, TypeOK
    <2>2. \A h \in Slots : at[h] = "failing" => of[h] # d
      BY <2>1 DEF JobInv, OnePlace, AtDelivery, Working
    <2>3. heard'[d] = "none"
      BY <2>1, <2>2 DEF ClientFollows
    <2> QED BY <2>1, <2>2, <2>3 DEF ClientFollows
  <1>5. ASSUME NEW d \in Documents,
               \/ WriteFile(d) \/ DeleteDocument(d) \/ EditDocumentText(d)
               \/ Join(d) \/ FinishTask(d) \/ WorkerDies(d) \/ LoseResult(d)
        PROVE  ClientFollows'
    BY <1>1, <1>5 DEF WriteFile, DeleteDocument, EditDocumentText, Join, FinishTask,
                      WorkerDies, LoseResult
  <1>6. ASSUME NEW r \in Requests, FindDocument(r) \/ StartOCR(r) PROVE ClientFollows'
    <2>1. CASE SavePending(r)
      <3>1. doc[r] \in Documents
        BY <2>1 DEF SavePending, TypeInv, Matched
      <3> QED BY <1>2, <2>1, <3>1 DEF SavePending
    <2>2. CASE ~ SavePending(r)
      BY <1>1, <1>6, <2>2 DEF FindDocument, StartOCR, Withdraw, WithdrawRefused,
                              SavePendingFails, PublishTask, PublishFails, Undisturbed
    <2> QED BY <2>1, <2>2
  <1>7. ASSUME NEW h \in Slots, Handle(h) PROVE ClientFollows'
    <2>0. /\ \A g \in Slots \ {h} : at'[g] = at[g] /\ of'[g] = of[g]
          /\ at[h] # "idle" => of[h] \in Documents
      BY <1>7 DEF Handle, Receive, SaveResult, SaveFails, MarkFailed, Refund, Requeue,
                  Answer, Becomes, TypeInv, TypeOK, Matched
    <2>1. CASE SaveResult(h)
      <3>1. /\ heard' = HeardAfter(of[h], "done") /\ status' = [status EXCEPT ![of[h]] = "done"]
            /\ at[h] = "received"
        BY <2>1 DEF SaveResult
      <3> QED BY <1>2, <2>0, <3>1
    <2>2. CASE SaveFails(h)
      <3>1. /\ heard' \in {heard, HeardAfter(of[h], "done")} /\ status' = status
            /\ at[h] = "received" /\ at'[h] = "failing" /\ of'[h] = of[h]
        BY <2>2 DEF SaveFails, Becomes, TypeInv, TypeOK
      <3>2. \A e \in Documents : e = of[h] \/ heard'[e] = heard[e]
        BY <3>1 DEF HeardAfter, TypeInv, TypeOK
      <3> QED BY <2>0, <3>1, <3>2 DEF ClientFollows
    <2>3. CASE MarkFailed(h)
      <3>1. /\ heard' = heard /\ at[h] = "failing"
            /\ status'[of[h]] = "failed"
            /\ \A e \in Documents : e = of[h] \/ status'[e] = status[e]
        BY <2>0, <2>3 DEF MarkFailed, TypeInv, TypeOK
      <3> QED BY <2>0, <3>1 DEF ClientFollows
    <2>4. CASE Receive(h) \/ Refund(h) \/ Answer(h)
      <3>1. heard' = heard /\ status' = status /\ at[h] # "failing"
        BY <2>4 DEF Receive, Refund, Answer
      <3> QED BY <1>1, <2>0, <3>1
    <2>5. ~ Requeue(h)
      BY DEF Requeue, Undisturbed, JobInv, OneStarts
    <2> QED BY <1>7, <2>1, <2>2, <2>3, <2>4, <2>5 DEF Handle
  <1> QED BY <1>3, <1>4, <1>5, <1>6, <1>7 DEF Next, Crash, Undisturbed

(* A client in a document's room has heard its present status, or it is      *)
(* FAILED, which nobody is told.                                             *)
THEOREM ClientFollowsHolds == ASSUME Undisturbed PROVE Spec => []ClientFollows
  <1>1. Init => ClientFollows
    BY DEF Init, ClientFollows, Silence
  <1>2. TypeInv /\ JobInv /\ ClientFollows /\ [Next]_vars => ClientFollows'
    BY ClientStep
  <1> QED BY <1>1, <1>2, Typing, OneJob, PTL DEF Spec

(* An edited document is DONE, so it has no task that could write its text.  *)
LEMMA EditStep ==
  ASSUME TypeInv, JobInv, [Next]_vars, Undisturbed,
         NEW d \in Documents, text[d] = "edited"
  PROVE  text'[d] = "edited"
  <1> USE DEF rows, money, files, requests, queues, consumer, client
  <1>1. tasks[d] = 0
    BY QueuesEmpty DEF JobInv, Quiet
  <1>2. ASSUME NEW e \in Documents, FinishTask(e) PROVE text'[d] = "edited"
    BY <1>1, <1>2 DEF FinishTask, TypeInv, TypeOK
  <1>3. ASSUME NEW e \in Documents, EditDocumentText(e) PROVE text'[d] = "edited"
    BY <1>3 DEF EditDocumentText, TypeInv, TypeOK
  <1>4. ASSUME NEW e \in Documents,
               \/ Upload(e) \/ WriteFile(e) \/ DeleteDocument(e) \/ Join(e)
               \/ WorkerDies(e) \/ LoseResult(e)
        PROVE  text' = text
    BY <1>4 DEF Upload, WriteFile, DeleteDocument, Join, WorkerDies, LoseResult, Undisturbed
  <1>5. ASSUME NEW r \in Requests, FindDocument(r) \/ StartOCR(r) PROVE text' = text
    BY <1>5 DEF FindDocument, StartOCR, Withdraw, WithdrawRefused, SavePending,
                SavePendingFails, PublishTask, PublishFails, Die
  <1>6. ASSUME NEW h \in Slots, Handle(h) PROVE text' = text
    BY <1>6 DEF Handle, Receive, SaveResult, SaveFails, MarkFailed, Refund, Requeue, Answer
  <1>7. CASE UNCHANGED vars
    BY <1>7 DEF vars
  <1> QED BY <1>2, <1>3, <1>4, <1>5, <1>6, <1>7 DEF Next, Crash, Undisturbed

(* No task of a document that was given out before writes over the text its  *)
(* user has edited.                                                          *)
THEOREM EditSurvivesHolds == ASSUME Undisturbed PROVE Spec => EditSurvives
  <1>1. TypeInv /\ JobInv /\ [Next]_vars =>
          [\A d \in Documents : text[d] = "edited" => text'[d] = "edited"]_vars
    BY EditStep
  <1> QED BY <1>1, Typing, OneJob, PTL DEF Spec, EditSurvives

-----------------------------------------------------------------------------
(* The steps of OcrJobs *)

(* What is promised is the balance and a sum.                                *)
PromisedInv == Promised = balance + Total(OwedPages, Documents)

(* It always is.                                                             *)
THEOREM Promising == Spec => []PromisedInv
  <1>1. PromisedInv
    BY Zenon DEF PromisedInv, Promised, Total
  <1> QED BY <1>1, PTL

(* What is owed of one document are the pages of its deliveries.             *)
LEMMA PagesOwed ==
  ASSUME NEW d \in Documents
  PROVE  /\ OwedPages[d] = Cardinality(OwedSet(d)) * Pages[d]
         /\ OwedPages'[d] = Cardinality(OwedSet(d)') * Pages[d]
         /\ OwedPages[d] \in Nat /\ OwedPages'[d] \in Nat
         /\ Pages[d] \in Nat
  <1>1. Pages[d] \in Nat
    BY PagesAssumption
  <1>2. /\ OwedPages[d] = Cardinality(OwedSet(d)) * Pages[d]
        /\ OwedPages'[d] = Cardinality(OwedSet(d)') * Pages[d]
    BY OwedIs DEF OwedPages
  <1>3. Cardinality(OwedSet(d)) \in Nat /\ Cardinality(OwedSet(d)') \in Nat
    BY OwedIs
  <1>4. \A m, n \in Nat : m * n \in Nat
    OBVIOUS
  <1> QED BY <1>1, <1>2, <1>3, <1>4

(* As long as nothing is owed or given back, the promise follows the         *)
(* balance.                                                                  *)
LEMMA PromiseFollows ==
  ASSUME IsFiniteSet(Documents), TypeInv, TypeInv', PromisedInv, PromisedInv',
         \A d \in Documents : OwedSet(d)' = OwedSet(d)
  PROVE  /\ Promised' = Promised + (balance' - balance)
         /\ balance \in Int /\ balance' \in Int
         /\ balance <= Promised /\ Promised \in Int
  <1>1. \A d \in Documents : OwedPages[d] \in Nat /\ OwedPages'[d] = OwedPages[d]
    BY PagesOwed
  <1>2. Total(OwedPages', Documents) = Total(OwedPages, Documents)
    BY <1>1, TotalSame
  <1>3. Total(OwedPages, Documents) \in Nat
    BY <1>1, TotalNatural
  <1>4. balance \in Nat /\ balance' \in Nat
    BY DEF TypeInv, TypeOK
  <1>5. /\ Promised = balance + Total(OwedPages, Documents)
        /\ Promised' = balance' + Total(OwedPages', Documents)
    BY DEF PromisedInv
  <1> HIDE DEF Promised
  <1> QED BY <1>2, <1>3, <1>4, <1>5

(* A delivery that marks its document FAILED promises its pages, and one     *)
(* that refunds them keeps the promise.                                      *)
LEMMA PromiseMade ==
  ASSUME IsFiniteSet(Documents), TypeInv, TypeInv', PromisedInv, PromisedInv',
         NEW h \in Slots, NEW d \in Documents,
         \A e \in Documents \ {d} : OwedSet(e)' = OwedSet(e)
  PROVE  /\ h \notin OwedSet(d) /\ OwedSet(d)' = OwedSet(d) \union {h} /\ balance' = balance
              => Promised' = Promised + Pages[d]
         /\ h \in OwedSet(d) /\ OwedSet(d)' = OwedSet(d) \ {h} /\ balance' = balance + Pages[d]
              => Promised' = Promised
  <1> DEFINE n == Cardinality(OwedSet(d))
             m == Cardinality(OwedSet(d)')
             p == Pages[d]
             old == Total(OwedPages, Documents)
             new == Total(OwedPages', Documents)
  <1>1. \A e \in Documents : OwedPages[e] \in Int /\ OwedPages'[e] \in Int
    BY PagesOwed
  <1>2. \A e \in Documents \ {d} : OwedPages'[e] = OwedPages[e]
    BY PagesOwed
  <1>3. new = old + (OwedPages'[d] - OwedPages[d])
    BY <1>1, <1>2, TotalChanged
  <1>4. OwedPages[d] = n * p /\ OwedPages'[d] = m * p
    BY PagesOwed
  <1>5. n \in Nat /\ m \in Nat /\ p \in Nat /\ old \in Int
    BY <1>1, OwedIs, PagesOwed, TotalProperties
  <1>6. /\ h \notin OwedSet(d) /\ OwedSet(d)' = OwedSet(d) \union {h} => m = n + 1
        /\ h \in OwedSet(d) /\ OwedSet(d)' = OwedSet(d) \ {h} => n = m + 1
    <2>1. IsFiniteSet(OwedSet(d))
      BY OwedIs
    <2>2. h \notin OwedSet(d) => Cardinality(OwedSet(d) \union {h}) = n + 1
      BY <2>1, FS_AddElement
    <2>3. h \in OwedSet(d) => Cardinality(OwedSet(d) \ {h}) = n - 1
      BY <2>1, FS_RemoveElement
    <2>4. n \in Nat
      BY <1>5
    <2> HIDE DEF n
    <2> QED BY <2>2, <2>3, <2>4
  <1>7. Promised = balance + old /\ Promised' = balance' + new
    BY DEF PromisedInv
  <1>8. balance \in Int /\ balance' \in Int
    BY DEF TypeInv, TypeOK
  <1> HIDE DEF n, m, p, old, new
  <1>9. m = n + 1 => m * p = n * p + p
    BY <1>5
  <1>10. n = m + 1 => n * p = m * p + p
    BY <1>5
  <1>11. n * p \in Int /\ m * p \in Int
    BY <1>5
  <1>12. m = n + 1 /\ balance' = balance => Promised' = Promised + p
    BY <1>3, <1>4, <1>5, <1>7, <1>8, <1>9, <1>11
  <1>13. n = m + 1 /\ balance' = balance + p => Promised' = Promised
    BY <1>3, <1>4, <1>5, <1>7, <1>8, <1>10, <1>11
  <1> QED BY <1>6, <1>12, <1>13 DEF p

(* Every step is one of OcrJobs, or leaves jobs and promises as they are.    *)
LEMMA JobsStep ==
  ASSUME IsFiniteSet(Documents), Undisturbed, TypeInv, TypeInv', JobInv,
         PromisedInv, PromisedInv', [Next]_vars
  PROVE  [Jobs!Next]_(Jobs!vars)
  <1>0. /\ \A d \in Documents :
             Job[d] = IF status[d] = "pending" \/ Paid(d) THEN "paid"
                      ELSE IF status[d] = "done" THEN "delivered" ELSE "unpaid"
        /\ \A d \in Documents :
             Job'[d] = IF status'[d] = "pending" \/ Paid(d)' THEN "paid"
                       ELSE IF status'[d] = "done" THEN "delivered" ELSE "unpaid"
        /\ Job = [d \in Documents |-> Job[d]] /\ Job' = [d \in Documents |-> Job'[d]]
    BY DEF Job
  <1> HIDE DEF Promised, Job
  <1>1. ASSUME NEW d \in Documents, NEW to, Job'[d] = to,
               \A e \in Documents \ {d} : Job'[e] = Job[e]
        PROVE  Job' = [Job EXCEPT ![d] = to]
    BY <1>0, <1>1
  <1>2. ASSUME \A e \in Documents : Job'[e] = Job[e], Promised' = Promised
        PROVE  UNCHANGED Jobs!vars
    <2>1. Job' = Job
      BY <1>0, <1>2
    <2> QED BY <1>2, <2>1 DEF Jobs!vars
  <1>3. ASSUME NEW r \in Requests, Withdraw(r) PROVE Jobs!Next
    <2>1. PICK d : d = doc[r]
      OBVIOUS
    <2>2. /\ d \in Documents /\ ~Charged(d) /\ Paid(d)' /\ status' = status
          /\ \A e \in Documents : OwedSet(e)' = OwedSet(e)
          /\ \A e \in Documents \ {d} : Paid(e)' <=> Paid(e)
      BY <1>3, <2>1, WithdrawAccount DEF OwedSet
    <2>3. balance >= Pages[d] /\ balance' = balance - Pages[d] /\ Pages[d] \in Nat
      BY <1>3, <2>1, <2>2, PagesAssumption DEF Withdraw
    <2>4. Job[d] = "unpaid" /\ Job' = [Job EXCEPT ![d] = "paid"]
      BY <1>0, <1>1, <2>2 DEF Charged
    <2>5. Promised >= Pages[d] /\ Promised' = Promised - Pages[d]
      BY <2>2, <2>3, PromiseFollows
    <2>6. Jobs!Pay(d)
      BY <2>4, <2>5 DEF Jobs!Pay
    <2> QED BY <2>2, <2>6 DEF Jobs!Next
  <1>4. ASSUME NEW r \in Requests, SavePending(r) PROVE UNCHANGED Jobs!vars
    <2>1. PICK d : d = doc[r]
      OBVIOUS
    <2>2. /\ d \in Documents /\ Paid(d) /\ status'[d] = "pending" /\ balance' = balance
          /\ \A e \in Documents : OwedSet(e)' = OwedSet(e)
          /\ \A e \in Documents \ {d} : status'[e] = status[e] /\ (Paid(e)' <=> Paid(e))
      BY <1>4, <2>1, SavePendingAccount DEF OwedSet
    <2>3. \A e \in Documents : Job'[e] = Job[e]
      BY <1>0, <2>2
    <2>4. Promised' = Promised
      BY <2>2, PromiseFollows
    <2> QED BY <1>2, <2>3, <2>4
  <1>5. ASSUME NEW h \in Slots, SaveResult(h) PROVE Jobs!Next
    <2>1. PICK d : d = of[h]
      OBVIOUS
    <2>2. /\ d \in Documents /\ status[d] = "pending" /\ status'[d] = "done" /\ ~Paid(d)
          /\ balance' = balance
          /\ \A e \in Documents : (Paid(e)' <=> Paid(e)) /\ OwedSet(e)' = OwedSet(e)
          /\ \A e \in Documents \ {d} : status'[e] = status[e]
      BY <1>5, <2>1, ConsumerAccount DEF Paid
    <2>3. Job[d] = "paid" /\ Job' = [Job EXCEPT ![d] = "delivered"]
      BY <1>0, <1>1, <2>2
    <2>4. Promised' = Promised
      BY <2>2, PromiseFollows
    <2>5. Jobs!Deliver(d)
      BY <2>3, <2>4 DEF Jobs!Deliver
    <2> QED BY <2>2, <2>5 DEF Jobs!Next
  <1>6. ASSUME NEW h \in Slots, MarkFailed(h) PROVE Jobs!Next
    <2>1. PICK d : d = of[h]
      OBVIOUS
    <2>2. /\ d \in Documents /\ status[d] = "pending" /\ status'[d] = "failed" /\ ~Paid(d)
          /\ \A e \in Documents : Paid(e)' <=> Paid(e)
          /\ \A e \in Documents \ {d} : status'[e] = status[e]
      BY <1>6, <2>1, ConsumerAccount DEF Paid
    <2>3. Job[d] = "paid" /\ Job' = [Job EXCEPT ![d] = "unpaid"]
      BY <1>0, <1>1, <2>2
    <2>4. /\ h \notin OwedSet(d) /\ OwedSet(d)' = OwedSet(d) \union {h} /\ balance' = balance
          /\ \A e \in Documents \ {d} : OwedSet(e)' = OwedSet(e)
      BY <1>6, <2>1, ConsumerAccount
    <2>5. Promised' = Promised + Pages[d]
      BY <2>2, <2>4, PromiseMade
    <2>6. Jobs!GiveBack(d)
      BY <2>3, <2>5 DEF Jobs!GiveBack
    <2> QED BY <2>2, <2>6 DEF Jobs!Next
  <1>7. ASSUME NEW h \in Slots, Refund(h) PROVE UNCHANGED Jobs!vars
    <2>1. PICK d : d = of[h]
      OBVIOUS
    <2>2. /\ d \in Documents /\ status' = status
          /\ \A e \in Documents : Paid(e)' <=> Paid(e)
      BY <1>7, <2>1, RefundAccount DEF Paid
    <2>3. /\ h \in OwedSet(d) /\ OwedSet(d)' = OwedSet(d) \ {h} /\ balance' = balance + Pages[d]
          /\ \A e \in Documents \ {d} : OwedSet(e)' = OwedSet(e)
      BY <1>7, <2>1, RefundAccount
    <2>4. Promised' = Promised
      BY <2>2, <2>3, PromiseMade
    <2>5. \A e \in Documents : Job'[e] = Job[e]
      BY <1>0, <2>2
    <2> QED BY <1>2, <2>4, <2>5
  <1>8. ASSUME \A r \in Requests : ~ Withdraw(r) /\ ~ SavePending(r),
               \A h \in Slots : ~ SaveResult(h) /\ ~ MarkFailed(h) /\ ~ Refund(h)
        PROVE  UNCHANGED Jobs!vars
    <2>1. /\ balance' = balance
          /\ \A d \in Documents :
               /\ status'[d] = status[d] \/ (status[d] = "none" /\ status'[d] = "uploaded")
               /\ (Paid(d)' <=> Paid(d)) /\ OwedSet(d)' = OwedSet(d)
      BY <1>8, OtherAccount
    <2>2. \A d \in Documents : Job'[d] = Job[d]
      BY <1>0, <2>1
    <2>3. Promised' = Promised
      BY <2>1, PromiseFollows
    <2> QED BY <1>2, <2>2, <2>3
  <1> QED BY <1>3, <1>4, <1>5, <1>6, <1>7, <1>8

(* However saves fail, handlers, queues and worker take only the steps that  *)
(* OcrJobs allows: a document is paid for once, and then its text is         *)
(* delivered or its pages are given back.                                    *)
THEOREM JobsImplemented ==
  ASSUME Undisturbed, IsFiniteSet(Documents)
  PROVE  Spec => Jobs!Init /\ [][Jobs!Next]_(Jobs!vars)
  <1>1. Init /\ PromisedInv => Jobs!Init
    <2> SUFFICES ASSUME Init, PromisedInv PROVE Jobs!Init
      OBVIOUS
    <2>1. Job = [d \in Documents |-> "unpaid"]
      BY DEF Init, Job, Paid
    <2>2. \A d \in Documents : OwedPages[d] = 0
      <3>1. ASSUME NEW d \in Documents PROVE OwedPages[d] = 0
        <4>1. OwedSet(d) = {}
          BY DEF Init, OwedSet
        <4>2. Cardinality(OwedSet(d)) = 0
          BY <4>1, FS_EmptySet
        <4> QED BY <4>2, PagesOwed
      <3> QED BY <3>1
    <2>3. Total(OwedPages, Documents) = 0
      BY <2>2, TotalZero
    <2>4. balance = Credit /\ Credit \in Nat
      BY CreditAssumption DEF Init
    <2>5. Promised = Credit
      BY <2>3, <2>4 DEF PromisedInv
    <2> HIDE DEF Promised, Job
    <2> QED BY <2>1, <2>5 DEF Jobs!Init
  <1>2. TypeInv /\ TypeInv' /\ JobInv /\ PromisedInv /\ PromisedInv' /\ [Next]_vars
          => [Jobs!Next]_(Jobs!vars)
    BY JobsStep
  <1> QED BY <1>1, <1>2, Typing, OneJob, Promising, PTL DEF Spec
=============================================================================
