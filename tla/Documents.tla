----------------------------- MODULE Documents -----------------------------
(***************************************************************************)
(* The OCR jobs of one user's documents (document.service.ts and           *)
(* document.consumer.ts).                                                  *)
(*                                                                         *)
(* startOCR charges the wallet, saves the document as PENDING and          *)
(* publishes a task, in three commits.  A worker behind RabbitMQ writes    *)
(* the text and publishes a result; the consumer saves it or, when that    *)
(* fails, marks the document FAILED and refunds.  Both queues deliver at   *)
(* least once.  Messages of one document are alike and are counted.  The   *)
(* wallet's handlers are one step each: Wallet.tla looks inside them.      *)
(***************************************************************************)
EXTENDS Integers, FiniteSets, FiniteSetsExt

CONSTANTS
  Documents,  \* documents the user may upload
  Requests,   \* calls of startOCR, each made once
  Slots,      \* deliveries the consumer handles at once (the prefetch count)
  Pages,      \* pageCount of each document
  Credit,     \* pages in the wallet at first
  MaxErrors,  \* bound: how often a statement fails or a worker dies
  Faults,     \* what may go wrong around the code
  NoDocument

ASSUME FiniteAssumption == IsFiniteSet(Requests) /\ IsFiniteSet(Slots)
ASSUME PagesAssumption == Pages \in [Documents -> Nat \ {0}]
ASSUME CreditAssumption == Credit \in Nat
ASSUME MaxErrorsAssumption == MaxErrors \in Nat
ASSUME NoDocumentAssumption == NoDocument \notin Documents

(* overlap: two requests at once; delete: the user deletes documents; save:  *)
(* the consumer's save fails; database: so do the statements of its error    *)
(* path and startOCR's save; worker: a worker dies before its ack; broker: a *)
(* message is lost; crash: the server dies.                                  *)
ASSUME FaultsAssumption ==
  Faults \subseteq {"overlap", "delete", "save", "database", "worker", "broker", "crash"}

VARIABLES
  status, deleted,   \* documents rows; "none" until uploaded
  balance,           \* pages left in the wallet
  charges, refunds,  \* its transactions for each document
  writing,           \* uploads that have saved the row and not the file
  stored, text,      \* the uploaded file and the text file under storage/
  pc, doc,           \* requests
  tasks, results,    \* messages in task_queue and result_queue
  at, of,            \* deliveries in the consumer
  errors,            \* bound: failures so far
  room, heard        \* one websocket client: rooms joined, last status sent

rows     == <<status, deleted>>
money    == <<balance, charges, refunds>>
files    == <<writing, stored, text>>
requests == <<pc, doc>>
queues   == <<tasks, results>>
consumer == <<at, of>>
client   == <<room, heard>>
vars == <<rows, money, files, requests, queues, consumer, errors, client>>

DocumentStatus == {"uploaded", "pending", "failed", "done"}
Running == {"found", "charged"}
Handling == {"received", "saved", "failing", "failed", "refunded"}
Silence == [d \in Documents |-> "none"]
Nothing == [d \in Documents |-> 0]

Init ==
  /\ status = [d \in Documents |-> "none"]
  /\ deleted = {}
  /\ balance = Credit /\ charges = Nothing /\ refunds = Nothing
  /\ writing = {} /\ stored = {}
  /\ text = [d \in Documents |-> "none"]
  /\ pc = [r \in Requests |-> "new"]
  /\ doc = [r \in Requests |-> NoDocument]
  /\ tasks = Nothing /\ results = Nothing
  /\ at = [h \in Slots |-> "idle"]
  /\ of = [h \in Slots |-> NoDocument]
  /\ errors = 0
  /\ room = {} /\ heard = Silence

-----------------------------------------------------------------------------
(* findOneDocument: deleted documents are left out. *)
Finds(d) == status[d] # "none" /\ d \notin deleted

(* afterUpdate: save() reports a status that changes to the document's room. *)
(* update() passes no id, so its report reaches no room.                      *)
HeardAfter(d, new) ==
  IF d \in room /\ status[d] # new THEN [heard EXCEPT ![d] = new] ELSE heard

Fail ==
  /\ errors < MaxErrors
  /\ errors' = errors + 1

-----------------------------------------------------------------------------
(* createDocument, deleteDocument, editDocumentText, join-ocr-status *)

(* The row is saved before its directory and file are made. *)
Upload(d) ==
  /\ status[d] = "none"
  /\ status' = [status EXCEPT ![d] = "uploaded"]
  /\ writing' = writing \union {d}
  /\ UNCHANGED <<deleted, money, stored, text, requests, queues, consumer, errors, client>>

WriteFile(d) ==
  /\ d \in writing
  /\ writing' = writing \ {d}
  /\ stored' = stored \union {d}
  /\ UNCHANGED <<rows, money, text, requests, queues, consumer, errors, client>>

DeleteDocument(d) ==
  /\ "delete" \in Faults
  /\ Finds(d)
  /\ deleted' = deleted \union {d}
  /\ UNCHANGED <<status, money, files, requests, queues, consumer, errors, client>>

(* Only a DONE document has a text; its row is not touched. *)
EditDocumentText(d) ==
  /\ Finds(d) /\ status[d] = "done"
  /\ text' = [text EXCEPT ![d] = "edited"]
  /\ UNCHANGED <<rows, money, writing, stored, requests, queues, consumer, errors, client>>

Join(d) ==
  /\ Finds(d)
  /\ room' = room \union {d}
  /\ UNCHANGED <<rows, money, files, requests, queues, consumer, errors, heard>>

-----------------------------------------------------------------------------
(* startOCR *)

Step(r, to) == pc' = [pc EXCEPT ![r] = to]

(* As if a document that is DONE could be started again. *)
StartDoneMutant(d) == Finds(d) /\ status[d] # "pending"

(* Not DocumentNotFound, WaitException or OcrDoneException. *)
MayStart(d) == Finds(d) /\ status[d] \notin {"pending", "done"}

FindDocument(r) ==
  /\ pc[r] = "new"
  /\ \/ "overlap" \in Faults
     \/ writing = {} /\ \A q \in Requests : pc[q] \notin Running
  /\ \E d \in Documents :
       /\ MayStart(d)
       /\ doc' = [doc EXCEPT ![r] = d]
  /\ Step(r, "found")
  /\ UNCHANGED <<rows, money, files, queues, consumer, errors, client>>

(* As if the pages were taken without looking at the balance. *)
WithdrawUncheckedMutant(r) ==
  LET d == doc[r] IN
  /\ pc[r] = "found"
  /\ balance' = balance - Pages[d]
  /\ charges' = [charges EXCEPT ![d] = @ + 1]
  /\ Step(r, "charged")
  /\ UNCHANGED <<rows, refunds, files, doc, queues, consumer, errors, client>>

(* As if the withdrawal were not awaited, like the publish. *)
NotAwaitedMutant(r) ==
  /\ pc[r] = "found"
  /\ balance < Pages[doc[r]]
  /\ Step(r, "charged")
  /\ UNCHANGED <<rows, money, files, doc, queues, consumer, errors, client>>

(* A transaction of its own: what was read of the document is not read again. *)
Withdraw(r) ==
  LET d == doc[r] IN
  /\ pc[r] = "found"
  /\ balance >= Pages[d]
  /\ balance' = balance - Pages[d]
  /\ charges' = [charges EXCEPT ![d] = @ + 1]
  /\ Step(r, "charged")
  /\ UNCHANGED <<rows, refunds, files, doc, queues, consumer, errors, client>>

WithdrawRefused(r) ==
  /\ pc[r] = "found"
  /\ balance < Pages[doc[r]] \/ "database" \in Faults
  /\ Step(r, "ended")
  /\ UNCHANGED <<rows, money, files, doc, queues, consumer, errors, client>>

SavePending(r) ==
  LET d == doc[r] IN
  /\ pc[r] = "charged"
  /\ status' = [status EXCEPT ![d] = "pending"]
  /\ heard' = HeardAfter(d, "pending")
  /\ Step(r, "saved")
  /\ UNCHANGED <<deleted, money, files, doc, queues, consumer, errors, room>>

(* The save throws, perhaps at COMMIT, after it has been reported. *)
SavePendingFails(r) ==
  /\ "database" \in Faults
  /\ pc[r] = "charged"
  /\ heard' \in {heard, HeardAfter(doc[r], "pending")}
  /\ Step(r, "ended")
  /\ UNCHANGED <<rows, money, files, doc, queues, consumer, errors, room>>

PublishTwiceMutant(r) ==
  /\ pc[r] = "saved"
  /\ tasks' = [tasks EXCEPT ![doc[r]] = @ + 2]
  /\ Step(r, "ended")
  /\ UNCHANGED <<rows, money, files, doc, results, consumer, errors, client>>

(* publishTask is not awaited: the request has been answered. *)
PublishTask(r) ==
  /\ pc[r] = "saved"
  /\ tasks' = [tasks EXCEPT ![doc[r]] = @ + 1]
  /\ Step(r, "ended")
  /\ UNCHANGED <<rows, money, files, doc, results, consumer, errors, client>>

(* The process ends: its handlers and sockets are gone, RabbitMQ takes back  *)
(* what was not acknowledged.                                                *)
Die ==
  /\ writing' = {}
  /\ pc' = [r \in Requests |-> IF pc[r] = "new" THEN "new" ELSE "ended"]
  /\ results' = [d \in Documents |->
       results[d] + Cardinality({h \in Slots : of[h] = d})]
  /\ at' = [h \in Slots |-> "idle"]
  /\ of' = [h \in Slots |-> NoDocument]
  /\ room' = {} /\ heard' = Silence
  /\ UNCHANGED <<rows, money, stored, text, doc, tasks, errors>>

(* assertQueue rejects, which nobody handles, or the frame never leaves the  *)
(* socket's buffer.                                                          *)
PublishFails(r) ==
  /\ "broker" \in Faults
  /\ pc[r] = "saved"
  /\ \/ Die
     \/ /\ Step(r, "ended")
        /\ UNCHANGED <<rows, money, files, doc, queues, consumer, errors, client>>

StartOCR(r) ==
  \/ Withdraw(r) \/ WithdrawRefused(r) \/ SavePending(r) \/ SavePendingFails(r)
  \/ PublishTask(r) \/ PublishFails(r)

-----------------------------------------------------------------------------
(* The worker and the broker *)

(* The worker writes beside the uploaded file, publishes and acknowledges. *)
FinishTask(d) ==
  /\ tasks[d] > 0 /\ d \in stored
  /\ text' = [text EXCEPT ![d] = "ocr"]
  /\ tasks' = [tasks EXCEPT ![d] = @ - 1]
  /\ results' = [results EXCEPT ![d] = @ + 1]
  /\ UNCHANGED <<rows, money, writing, stored, requests, consumer, errors, client>>

(* It dies before its ack: the task is delivered again. *)
WorkerDies(d) ==
  /\ "worker" \in Faults
  /\ tasks[d] > 0 /\ d \in stored
  /\ Fail
  /\ text' = [text EXCEPT ![d] = "ocr"]
  /\ results' \in {results, [results EXCEPT ![d] = @ + 1]}
  /\ UNCHANGED <<rows, money, writing, stored, requests, tasks, consumer, client>>

(* Results are not persistent: a restart of the broker loses them. *)
LoseResult(d) ==
  /\ "broker" \in Faults
  /\ results[d] > 0
  /\ results' = [results EXCEPT ![d] = @ - 1]
  /\ UNCHANGED <<rows, money, files, requests, tasks, consumer, errors, client>>

-----------------------------------------------------------------------------
(* DocumentConsumer.handler *)

Becomes(h, to) ==
  /\ at' = [at EXCEPT ![h] = to]
  /\ of' = [of EXCEPT ![h] = IF to = "idle" THEN NoDocument ELSE @]

Receive(h) ==
  /\ at[h] = "idle"
  /\ \E d \in Documents :
       /\ results[d] > 0
       /\ results' = [results EXCEPT ![d] = @ - 1]
       /\ of' = [of EXCEPT ![h] = d]
  /\ at' = [at EXCEPT ![h] = "received"]
  /\ UNCHANGED <<rows, money, files, requests, tasks, errors, client>>

(* As if the consumer used update(), as its error path does. *)
SaveSilentlyMutant(h) ==
  /\ at[h] = "received"
  /\ status' = [status EXCEPT ![of[h]] = "done"]
  /\ Becomes(h, "saved")
  /\ UNCHANGED <<deleted, money, files, requests, queues, errors, client>>

(* save() loads the row by id, deleted or not, whatever its status. *)
SaveResult(h) ==
  /\ at[h] = "received"
  /\ status' = [status EXCEPT ![of[h]] = "done"]
  /\ heard' = HeardAfter(of[h], "done")
  /\ Becomes(h, "saved")
  /\ UNCHANGED <<deleted, money, files, requests, queues, errors, room>>

SaveFails(h) ==
  /\ "save" \in Faults
  /\ at[h] = "received"
  /\ Fail
  /\ heard' \in {heard, HeardAfter(of[h], "done")}
  /\ Becomes(h, "failing")
  /\ UNCHANGED <<rows, money, files, requests, queues, room>>

MarkFailedMutant(h) ==
  /\ at[h] = "failing"
  /\ status' = [status EXCEPT ![of[h]] = "failed"]
  /\ Becomes(h, "refunded")
  /\ UNCHANGED <<deleted, money, files, requests, queues, errors, client>>

MarkFailed(h) ==
  /\ at[h] = "failing"
  /\ status' = [status EXCEPT ![of[h]] = "failed"]
  /\ Becomes(h, "failed")
  /\ UNCHANGED <<deleted, money, files, requests, queues, errors, client>>

(* As if a fixed page were given back. *)
RefundOnePageMutant(h) ==
  LET d == of[h] IN
  /\ at[h] = "failed"
  /\ d \notin deleted
  /\ balance' = balance + 1
  /\ refunds' = [refunds EXCEPT ![d] = @ + 1]
  /\ Becomes(h, "refunded")
  /\ UNCHANGED <<rows, charges, files, requests, queues, errors, client>>

Refund(h) ==
  LET d == of[h] IN
  /\ at[h] = "failed"
  /\ d \notin deleted
  /\ balance' = balance + Pages[d]
  /\ refunds' = [refunds EXCEPT ![d] = @ + 1]
  /\ Becomes(h, "refunded")
  /\ UNCHANGED <<rows, charges, files, requests, queues, errors, client>>

(* The handler throws and the message is requeued: a statement of the error  *)
(* path fails, or findOne does not see a deleted document and doc is null.   *)
Requeue(h) ==
  /\ \/ "database" \in Faults /\ at[h] \in {"failing", "failed"} /\ Fail
     \/ at[h] = "failed" /\ of[h] \in deleted /\ UNCHANGED errors
  /\ results' = [results EXCEPT ![of[h]] = @ + 1]
  /\ Becomes(h, "idle")
  /\ UNCHANGED <<rows, money, files, requests, tasks, client>>

(* Returning acknowledges; returning a Nack drops the message. *)
Answer(h) ==
  /\ at[h] \in {"saved", "refunded"}
  /\ Becomes(h, "idle")
  /\ UNCHANGED <<rows, money, files, requests, queues, errors, client>>

Handle(h) ==
  \/ Receive(h) \/ SaveResult(h) \/ SaveFails(h) \/ MarkFailed(h)
  \/ Refund(h) \/ Requeue(h) \/ Answer(h)

Crash == "crash" \in Faults /\ Die

Next ==
  \/ \E d \in Documents :
       \/ Upload(d) \/ WriteFile(d) \/ DeleteDocument(d) \/ EditDocumentText(d)
       \/ Join(d) \/ FinishTask(d) \/ WorkerDies(d) \/ LoseResult(d)
  \/ \E r \in Requests : FindDocument(r) \/ StartOCR(r)
  \/ \E h \in Slots : Handle(h)
  \/ Crash

Spec == Init /\ [][Next]_vars

(* Node runs every handler on, workers take tasks, the broker delivers. *)
Fairness ==
  /\ \A d \in Documents : WF_vars(WriteFile(d)) /\ WF_vars(FinishTask(d))
  /\ \A r \in Requests : WF_vars(StartOCR(r))
  /\ \A h \in Slots : WF_vars(Handle(h))
FairSpec == Spec /\ Fairness

-----------------------------------------------------------------------------
(* What holds whatever goes wrong.                                           *)

TypeOK ==
  /\ status \in [Documents -> {"none"} \union DocumentStatus]
  /\ deleted \subseteq Documents
  /\ balance \in Nat
  /\ charges \in [Documents -> Nat] /\ refunds \in [Documents -> Nat]
  /\ writing \subseteq Documents /\ stored \subseteq Documents
  /\ text \in [Documents -> {"none", "ocr", "edited"}]
  /\ pc \in [Requests -> {"new", "saved", "ended"} \union Running]
  /\ doc \in [Requests -> Documents \union {NoDocument}]
  /\ tasks \in [Documents -> Nat] /\ results \in [Documents -> Nat]
  /\ at \in [Slots -> {"idle"} \union Handling]
  /\ of \in [Slots -> Documents \union {NoDocument}]
  /\ errors \in 0..MaxErrors
  /\ room \subseteq Documents
  /\ heard \in [Documents -> {"none"} \union DocumentStatus]

(* A DONE document has a text and was charged at least once, a PENDING one   *)
(* was charged, whatever dies, comes late or is repeated.  Refunds are not   *)
(* counted: a job that was given back is delivered after all if its worker   *)
(* or the broker repeats the result.                                         *)
DoneWasProduced ==
  \A d \in Documents :
    /\ status[d] = "done" => text[d] # "none"
    /\ status[d] \in {"pending", "done"} => charges[d] > 0

(* Every task in the queue was charged, each one by its own request.         *)
TasksArePaid ==
  \A d \in Documents :
    tasks[d] + Cardinality({r \in Requests : pc[r] = "saved" /\ doc[r] = d})
      <= charges[d]

-----------------------------------------------------------------------------
(* What holds as long as nothing dies, is lost or overlaps, even if results  *)
(* cannot be saved.                                                          *)

(* A document marked FAILED whose refund is still to come.                   *)
Owed == [d \in Documents |->
  Cardinality({h \in Slots : at[h] = "failed" /\ of[h] = d})]

Paid(d) == \E r \in Requests : pc[r] = "charged" /\ doc[r] = d

(* The user has paid for the documents that are PENDING or DONE, once each,  *)
(* and for no other: FAILED ones were given back.                            *)
AccountsMatch ==
  \A d \in Documents :
    charges[d] - refunds[d] - Owed[d]
      = IF status[d] \in {"pending", "done"} \/ Paid(d) THEN 1 ELSE 0

(* A client in a document's room has heard its present status, or FAILED,    *)
(* which is never sent (document.consumer.ts:32).                            *)
ClientFollows ==
  \A d \in Documents :
    \/ heard[d] \in {"none", status[d]}
    \/ status[d] = "failed"
    \/ \E h \in Slots : at[h] = "failing" /\ of[h] = d

(* No repeated task overwrites a text the user has edited.                   *)
EditSurvives ==
  [][\A d \in Documents : text[d] = "edited" => text'[d] = "edited"]_vars

(* A refund that is owed counts as given: the user sees FAILED first.        *)
OwedPages == [d \in Documents |-> Owed[d] * Pages[d]]

Promised == balance + MapThenSumSet(LAMBDA d : OwedPages[d], Documents)

Job == [d \in Documents |->
  IF status[d] = "pending" \/ Paid(d) THEN "paid"
  ELSE IF status[d] = "done" THEN "delivered" ELSE "unpaid"]

Jobs == INSTANCE OcrJobs WITH job <- Job, balance <- Promised
JobsSpec == Jobs!Spec
=============================================================================
