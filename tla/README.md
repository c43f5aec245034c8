# A TLA+ model of the Nevise Negar backend

The repository is a NestJS service that turns uploaded images and PDFs into
text (OCR).  A user signs up with a one-time password sent by SMS, buys
packages of pages through a bank gateway, and spends the pages of a wallet
on OCR jobs that a worker behind RabbitMQ carries out.  PostgreSQL (TypeORM,
`typeorm-transactional`) holds all durable state, a cache holds one-time
passwords, and a websocket gateway reports OCR progress.

Paths below are relative to the repository root.

## 1. Inventory

| Component | State | Operations | Talks to |
|---|---|---|---|
| Wallet: `src/wallet/wallet.service.ts` | `wallets` (credit, giftCredit, creditUsed), `wallet_has_packages` (creditLeft, expireAt), `transactions` | createOne, deposit, withdraw (gift first, packages drawn in ascending order), canAfford, createWalletPackage, emptyWallet, findTransactions, findMaxUploadSize | called by Order, Document, User |
| Order and discount: `src/order/` | `orders` (status, refId, updatedAt, extraDetails), `discounts` (maxUsage, expireAt); retry timers in memory | getPaymentInvoice, createOrder, getPaymentGatewayUrl, handleGatewayCallback, verifyPaymentAndGetUrl (60 s retry), handlePaidPayment, handleFailedPayment, updateExtraDetails | Payment, Package, Wallet |
| Payment: `src/payment/`, `src/utils/payment.ts` | none (SOAP client) | payRequest, verifyPay, the table of gateway codes | the bank's gateway (external) |
| Document: `src/document/` | `documents` (status, pageCount, URIs, deletedAt), files under `storage/`, `task_queue` and `result_queue`, websocket rooms | createDocument, startOCR, publishTask, deleteDocument, editDocumentText, the consumer of results, the update subscriber, the websocket gateway | Wallet, RabbitMQ, OCR worker (external) |
| Auth: `src/auth/`, `src/cache/`, `src/sms/` | code and hashed password of a number in Redis (TTL 120 s) | sendAndStoreOTP, signup, resetPassword, validateUser and login | User, SMS provider (external) |
| User: `src/user/` | `users` (unique phone, password hash) | createOne (user, wallet and gift in one transaction), updatePassword, updateUserPassword, updateUserInfo | Wallet |
| Package: `src/package/` | `packages` (price, credit, expirationDuration, upload limits) | findAll, findOne | Order, Wallet |
| Uploads: `src/document/pipe/`, `src/document/validator/`, `src/utils/pdf.ts` | one `pdfinfo` process per PDF | format validation, comparison with the packages' limits, page counting by the events of the process | Wallet, Document, pdfinfo (external) |
| Pagination: `src/pagination/` | none (the client's walk) | skip and take, page meta, the two queries of findAll and findTransactions | Document, Wallet |
| Tokens and cookies: `src/auth/guard/`, `src/auth/strategy/`, `src/utils/` | none | signing, parsing, guards | User |
| Contact, config, dictionaries, migrations, swagger, nginx/Lua | rows or files | CRUD, configuration, wording | |

### How the components interact

* `OrderService.handlePaidPayment` calls `WalletService.deposit` and
  `createWalletPackage` in its own transaction.
* `DocumentService.startOCR` calls `WalletService.withdraw` (a transaction of
  its own), then saves the document, then publishes to RabbitMQ without
  awaiting it: three separate commits.
* The consumer of OCR results saves the document or, when that fails, marks
  it FAILED and refunds through `WalletService.deposit`; RabbitMQ redelivers
  what is not acknowledged.
* `UserService.createOne` creates user, wallet and a gift of 10 pages in one
  transaction.
* Every update of a document emits `ocr.progress` to the websocket gateway.

### Where it is hard

* **Interleaving.** Handlers read, decide in memory and write absolute values;
  transactions run at READ COMMITTED.  Two requests of one user overlap
  whenever the user has two tabs, a callback is delivered twice, or a refund
  meets a purchase.
* **Delivery.** The bank may repeat or delay callbacks; RabbitMQ redelivers.
* **Crashes.** Retry timers live in memory; a charge, a save and a publish are
  not atomic.
* **Timeouts.** One-time passwords, packages, discounts and the 20-minute
  verification window expire by the clock.

### What makes each component correct

* Wallet: no negative balance, nothing spent twice, nothing credited that was
  not deposited, packages match purchases, every request is answered.
* Order: whatever happens, a wallet is credited only for a verified payment, and
  only a callback that itself reports a failure takes PAID from a credited order;
  a pending verification ends.  With one truthful callback per order, a bank that
  recovers in time and a window that can be read, an order is credited exactly when
  it is PAID, and once; a final status stays final; discount usages are taken and
  returned in pairs.
* Payment: whatever number the bank answers, status, text and what the user is
  told agree, and every callback settles.
* Document: no text for a document that was never charged (the charge may have
  been given back since); without lost messages, crashes and overlap a document is
  paid for once and then delivered or given back; a user's edits survive; a client
  hears the status the document has.
* Auth: a code works only if it was sent to the number before; a password is
  set only by someone with a code or the old password; an account and its gift
  exist together and once.
* Uploads: a saved document can be read, was allowed by some limit of the user,
  costs a page at least and no more than it has, unless its metadata says
  otherwise; every upload is answered unless the server dies.
* Pagination: a walk through the pages misses no more than items disappear during
  it and repeats no more than items appear, and ends.

## 2. Plan

| Order | Module | What it states | State |
|---|---|---|---|
| 1 | `WalletAccount` | what a wallet promises: deposits and withdrawals one after the other | written |
| 1 | `Wallet`, `MCWallet` | the handlers of `wallet.service.ts` as overlapping transactions; implements `WalletAccount` while requests do not overlap | written |
| 1 | `WalletProofs` | the wallet's safety invariants for every instance; without overlap, the properties of `wallet_serial` and the refinement | written |
| 2 | `Orders`, `MCOrders` | discount codes, callbacks, verification and its retries | written |
| 3 | `OrdersProofs` | `TypeOK`, `CreditOnlyVerified`, `CreditedStaysPaid` for every instance | written |
| 4 | `OcrJobs` | what a user is promised for a document: paid, then delivered or given back | written |
| 4 | `Documents`, `MCDocuments` | uploads' rows, `startOCR`'s three commits, both queues with redelivery, the worker, the consumer and its refund, soft deletes, crashes, the websocket client; implements `OcrJobs` | written |
| 5 | `Auth`, `MCAuth` | codes with their TTL, sign-up's transaction, password reset and change, overlapping requests for one phone | written |
| 6 | `PaymentCodes`, `MCPaymentCodes` | the table of gateway codes and what one order makes of each | written |
| 6 | `Uploads`, `MCUploads` | the pipes of an upload and the events of `pdfinfo` | written |
| 6 | `Pagination` | a client's walk through the pages while the rows change | written |
| 7 | `DocumentsProofs`, `AuthProofs`, `PaymentCodesProofs`, `UploadsProofs` | the invariants that hold under every fault, for every instance | written |
| 8 | `SetSums` | facts about sums over finite sets, which `WalletProofs` and `DocumentsProofs` use | written |
| 8 | `OrdersProofs`, `DocumentsProofs`, second part | what holds without the faults that break it: `PaidIffCredited`, `FinalStatusStays`, `UsageBalanced`; `AccountsMatch`, `ClientFollows`, `EditSurvives`, the steps of `OcrJobs` | written |
| 8 | `PaginationProofs` | the walk, for any list, page size and number of changes | written |

The wallet is one atomic step in `Orders` and `Documents`.  Their properties
that speak of money count deposits and withdrawals, which `Wallet` shows to be
recorded under every interleaving; a module that interleaves the statements of
both would multiply the states without telling the hazards of either apart
any further, and is not planned.

## 3. The modules and the code

### 3.1 `Wallet.tla`

One user's wallet.  A request is one call of a public handler; it moves
through the points where the code awaits the database, and any other request
may run in between.

| State | Code |
|---|---|
| `wallet`, `creditLeft`, `standing`, `ledger` | committed rows of `wallets`, `wallet_has_packages` (pages left; none, live or expired) and `transactions` (sum per type) |
| `job`, `pc` | the call and the statement its handler has reached |
| `seen`, `seenLeft`, `todo`, `due` | the entities `getWalletQuery` loaded and the loop of `withdrawFromPackage` |
| `written`, `draft`, `draftLeft` | rows the open transaction has updated (hence locked) and their uncommitted versions |

| Action | Code |
|---|---|
| `FindWallet` | `getWalletQuery().getOne()`, the SELECT all handlers start with |
| `EmptyWallet`, `EmptyWalletNow` | `withdraw` on a wallet that has credit but no package, and `canAfford` on one: inside the caller's transaction, or committed on its own |
| `Refuse`, `Affirm` | the exceptions of `withdraw`, the answers of `canAfford` |
| `InsertTransaction` | the new row of `transactions` |
| `UpdatePackage` | one turn of the package loop, ascending by `creditLeft`; packages with equal credit come in any order |
| `UpdateWallet`, `NewVersion` | the UPDATE with the values computed from the entity in memory (`deposit`: gift or credit; `withdraw`: gift first, then credit, and `creditUsed`) |
| `CreateWalletPackage` | the second half of a purchase, in the order's transaction |
| `Commit`, `Abort`, `DeadlockVictim`, `Expire` | COMMIT, loss of the connection or the server, PostgreSQL's deadlock detection, the package's expiry |

An UPDATE waits while another open transaction has written its row
(`RowFree`) and then overwrites it: READ COMMITTED with absolute values.

`WalletAccount.tla` is the account a user expects.  `Account` in `Wallet.tla`
instantiates it with the committed rows; bought credit may be forfeited only
while no package with credit is live.

### 3.2 `Orders.tla`

The orders of users who share one discount code.

| Action | Code |
|---|---|
| `SaveOrder`, `PayRequest`, `CommitOrder` | `createOrder`, cut where it awaits the database and the bank; the read of the code that only the amount depends on is left out |
| `CreateFails` | an exception in it, which rolls the order back |
| `DecrementUsage` | the decrement of the code's usage, started and not awaited (`floating`) |
| `Receive` | `handleGatewayCallback` finds the order; `resCode` is the status of the code the POST carries |
| `UpdateExtraDetails` | the transaction of its own that touches `updatedAt`, and the branch on `ResCode` |
| `ShouldVerify` | the window of 20 minutes; a SELECT that fails counts as a window that is over |
| `BankAnswers`, `BankBlips`, `AnswerLost` | an attempt of `verifyPaymentAndGetUrl`: an answer for good, a transient one, none |
| `HandlePaidPayment`, `HandleFailedPayment` | the transactions that settle the order; neither looks at its status |
| `HandlerFails`, `Throw` | a statement that fails: a request is answered 500, a timer's rejection ends the process |

Each callback is a handler with its own program counter.  One that got a transient
answer sleeps until the next `Tick`, one retry interval; `age` counts ticks since
`updatedAt`.  The wallet's deposit is part of `HandlePaidPayment`'s transaction and
is counted in `credits`.

The users at the bank's page, the reversal of unverified payments, the code's
expiry, the clock and the restart of the container are external and modelled
from how the code uses them.  The bank answers 0 or 43 for a payment it has, 48
for a reversed one, 17 for a cancelled one, and any other code, a declined card's
among them, as a transient answer.

`Faults` names what may go wrong around the code, so that each property is
checked where it is claimed: two `createOrder` at once (`overlap`), a decrement
after COMMIT (`late`), a code that expires (`lapse`), a repeated callback
(`duplicate`), a callback whose `ResCode` is not what the bank says of the order
(`contradict`), a handler slower than a minute (`slow`), transient answers
without end (`outage`), an answer that does not arrive (`lost`), a failing read
in `shouldVerifyOrder` (`select`), any other failing statement of a handler
(`database`) and a restart (`restart`).

### 3.3 `PaymentCodes.tla`

The same handlers as `Orders.tla`, one callback after the other, but with every
number the bank may answer and the columns an answer fills.

| Definition | Code |
|---|---|
| `PaidCodes` .. `TransactionCodes`, `PaymentGatewayTransformer` | the table of `utils/payment.ts`; a text is named by the code it belongs to, `-1` is the default case |
| `CreateOrder` | `createOrder` with the answer of `payRequest`: `"0,refId"`, or a code alone; 43 and 45 count as paid and open a link without a reference |
| `HandleGatewayCallback`, `Verify`, `Wake`, `GiveUp` | `handleGatewayCallback`, one attempt of `verifyPaymentAndGetUrl`, its timer, its end after 20 minutes |
| `HandlePaidPayment`, `HandleFailedPayment` | the columns written; the latter leaves `gatewayCode` as it was |
| `told` | the status of `getRedirectUrl`, which only the first attempt returns to the user |

### 3.4 `Documents.tla` and `OcrJobs.tla`

One user's documents.

| State | Code |
|---|---|
| `status`, `deleted` | rows of `documents`, soft deletion |
| `balance`, `charges`, `refunds` | the wallet, and how often each document was paid for and given back |
| `writing`, `stored`, `text` | uploads between the row and the file, the file, the worker's text file (`ocr` or `edited`) |
| `pc`, `doc` | calls of `startOCR` and the document each has found |
| `tasks`, `results` | messages in `task_queue` and `result_queue`; those of a document are alike and counted |
| `at`, `of` | deliveries the consumer is working on |
| `room`, `heard` | a websocket client: the rooms it joined, the last status it was sent |

| Action | Code |
|---|---|
| `Upload`, `WriteFile` | `createDocument`: the row, then directory and file |
| `FindDocument`, `Withdraw`, `WithdrawRefused`, `SavePending`, `SavePendingFails`, `PublishTask`, `PublishFails` | `startOCR`, cut where it awaits; `publishTask` is not awaited, so a rejection ends the process |
| `FinishTask`, `WorkerDies`, `LoseResult` | the worker (`test/ocr-driver/stub.py` stands in for it) and the broker |
| `Receive`, `SaveResult`, `SaveFails`, `MarkFailed`, `Refund`, `Requeue`, `Answer` | `DocumentConsumer.handler`: an exception requeues the message (the default of golevelup's subscriber), returning acknowledges it, a returned `Nack` drops it |
| `HeardAfter` | `afterUpdate` of the subscriber: `save()` carries the id, `update()` does not |
| `EditDocumentText`, `DeleteDocument`, `Join` | the other handlers |
| `Die`, `Crash` | the end of the process: RabbitMQ takes back what was not acknowledged |

`OcrJobs.tla` says what a user is promised: a document is unpaid, paid or
delivered; pages go out with `Pay`, come back with `GiveBack`, and whatever is
paid is settled.  `Documents` implements it (`JobsSpec`) while requests do not
overlap and nothing but a save fails; a refund that is owed counts as given, as
FAILED is visible first (`Job`, `Promised`).

### 3.5 `Auth.tla`

Codes and accounts, found by the number as it was typed.

| State | Code |
|---|---|
| `account`, `gift` | `users` (password) and `giftCredit` of the wallet |
| `cache` | the entry `otp:<number>` in Redis |
| `inbox` | codes sent to a person's phone |
| `pc`, `number`, `code`, `password` | requests, and what each has sent or read |

| Action | Code |
|---|---|
| `DrawCode`, `SendSms`, `StoreCode` | `sendAndStoreOTP`: look into the cache, send, hash and store |
| `Signup`, `InsertUser`, `CommitUser`, `CreateFails` | `signup` and `createOne`'s transaction; the unique phone makes an INSERT wait for an open one |
| `ResetPassword`, `UpdatePassword` | `resetPassword`; `update()` of no row is no error |
| `UpdateUserPassword`, `ChangePassword`, `Login` | a change by a user who is logged in, `validateUser` |
| `ExpireCode`, `Crash` | the TTL, the end of the process |

### 3.6 `Uploads.tla`

An upload from its pipes to its row: `Validate` (`document.validator.ts`: a PDF's
header must be at its start and nowhere else), `CheckSize` (`findMaxUploadSize`
returns the limit of any one live package, a missing limit compares as 0),
`SpawnPdfInfo`, the events `Stdout`, `Stderr`, `Exit` in whatever order the
process and its pipes deliver them, `RemoveTemp`, `SaveDocument`, and `UploadFails`,
where the disk or the database fails at one of these (fault `storage`; a failing
unlink ends the process instead, as nobody awaits its callback).

`PagesMatched` is what the regular expression of `pdf.ts:6` finds in the output of
`pdfinfo`: the first digit from 1 to 9 after the first "Pages:".  The title, subject
and author are printed before the line of the pages, so a file whose title says
"Pages: 9" costs nine pages (`metadata`).  Otherwise it is the leading digit of the
number of pages (`FirstDigit`), so a file of 12 pages costs one.  If the output is
empty or says 0 pages, reading `[0]` of the missing match throws in a callback and
ends the process (`Die`), and with it every other upload.

### 3.7 `Pagination.tla`

A client that asks for page after page until `hasNextPage` is false.  Each page
is two queries, `FindPage` (rows) and `ReturnPage` (count and meta), and rows
appear and disappear before, between and after them.  An item is named by its
creation time, by which the list is ordered.  The list is filtered by status, so
`Insert` puts an item where its creation time belongs, which need not be the end,
and one that `Delete` took out may come back.  `stayed` are the items that were
listed all the time.  A page that is neither full nor empty may be counted from its
rows, as newer versions of TypeORM do.

## 4. The runs

| Run | Instance | What it shows |
|---|---|---|
| `wallet_concurrent` | 4 requests with tied packages, 2 in flight, fairness | `TypeOK`, `NeverOverdrawn`, `NoMintedCredit`, `CreditUsedNeverOverstated`, `PackagesAsBought` survive every interleaving, crash and expiry; `RequestsEnd`: lock waits, cycles included, end |
| `wallet_serial` | 5 requests, one at a time | `NothingSpentTwice`, `CreditUsedMatchesLedger`, `LivePackagesBacked`, and the handlers implement `WalletAccount` (`AccountSpec`) |
| `wallet_double_spend` | 3 requests, 2 in flight | **violated**: `NothingSpentTwice` |
| `orders_faulty` | 1 order, 2 callbacks, every fault, fairness | `TypeOK`, `CreditOnlyVerified`, `CreditedStaysPaid`, `ChainsEnd` |
| `orders_once` | 2 orders, called back at most once, a bank that recovers; `overlap`, `lapse`, `lost`, `database`, `restart`; fairness | `PaidIffCredited`, `UsageBalanced`, `FinalStatusStays`, `PaymentsSettle` |
| `orders_outage` | 1 order, endless outage | **violated**: `PaidMeansCredited` |
| `payment_codes` | every code of the table, 2 unknown ones, 2 callbacks, fairness | `TypeOK`, `ToldMeansPaid`, `MessageBelongsToStatus`, `CallbacksSettle` |
| `documents_faulty` | 2 documents, 2 requests, 2 deliveries, every fault | `TypeOK`, `DoneWasProduced`, `TasksArePaid` |
| `documents_accounts` | 2 documents, 3 requests one after the other, 2 failing saves, fairness | `AccountsMatch`, `ClientFollows`, `EditSurvives`, and the handlers implement `OcrJobs` (`JobsSpec`, which includes that every paid job is settled) |
| `auth_faulty` | 4 overlapping requests for one phone in 2 spellings, every fault | `TypeOK`, `CachedWasSent`, `AccountsFunded`, `SignupKeepsOffer`, `PasswordNeedsCode` |
| `uploads_faulty` | 2 uploads of 14 kinds of file, 2 packages, every fault, fairness | `PagesWithinFile`, `SavedWasAllowed`, `UploadsEnd` |
| `pagination` | 4 items, pages of 1 to 3, both orders, 2 insertions and 2 deletions | `MissedForDeletes`, `RepeatedForInserts`, `WalkIsShort` |

`CHECK_DEADLOCK FALSE` stands where all requests may be answered and nothing is
left to do: documents, authentication, uploads, payment codes, pagination.

### Bounds and why they are enough

* *Wallet.*  A stale read needs two requests in flight, a refilled package or a
  lost deposit three (purchase, withdrawal, another writer).  `TiedJobs` gives
  two equal packages and two withdrawals that need both, the smallest lock
  cycle.  `MixedJobs` has withdrawals that fit the gift, the package, both or
  neither; serial runs have no interleaving, so a fifth request is affordable.
  Requests are interchangeable: symmetry is used in every run without
  liveness, and `OrderedSpec` starts the concurrent run with one assignment of
  jobs for each bag of jobs.
* *Orders.*  Two callbacks of one order are the smallest duplicate; they
  overlap with each other's retries.  One discount usage is contested by two
  orders.  `Window = 3` (`orders_faulty`) gives an attempt, two retries within the window
  and one past it; `Window = 2` with `MaxBlips = 1` (`orders_once`) a retry the
  bank answers in time.  `MaxBlips` bounds transient answers where the bank is assumed to
  recover, and must stay below `Window`: that is the assumption under which
  payments settle.
* *Payment codes.*  Each list of the table is there in full.  A second callback
  finds the columns the first one left.
* *Documents.*  Two requests race for one document, two deliveries for one
  result; a second document shows that neither mixes them up.  `Credit = 3`
  pays for one document of two pages, `Credit = 5` for two and not for a third
  charge that is not given back.  `MaxErrors = 2` repeats a message after a
  failure and lets its repetition fail.
* *Auth.*  A code needs a request that asks for it and one that uses it; two
  such pairs race, or one pair races with a reset and a change of password.  Two
  codes may coincide in the generator, two spellings belong to one phone.
* *Uploads.*  Files differ in what the code looks at: kind, header, trailer,
  size against each limit, number of digits of the page count, a "Pages:" in the
  metadata, exit code and warnings.  A second upload shows what the end of the process does to the first.
* *Pagination.*  Four items in pages of one to three give full, partly filled and
  empty last pages; two deletions, or two insertions, shift a walk by more than the
  smallest page, and one of each lets an item leave and come back.
* The invariants and action properties of all passing runs are proved for every
  instance (section 5); the bounds matter for liveness only.
* *Cut.*  Each request, callback or upload is made once; the bounds `MaxErrors`,
  `MaxBlips`, `MaxCallbacks`, `MaxInserts` and `MaxDeletes` count what could happen for ever.

### Fairness and why the code justifies it

`Wallet`: `WF(Progress(r))` for a request that has started.  Node resumes an
awaited statement, PostgreSQL answers it or, after `deadlock_timeout`, ends one
transaction of the cycle.  Nothing forces a request to arrive, a package to
expire or a server to die.  `Orders`: weak fairness of every handler's own
steps, of the delivery of the bank's callback (the user's browser posts it) and
of the clock.  Nothing forces a user to pay, the bank to reverse a payment, or
a fault to happen.  `Tick` waits for handlers that are running unless `slow` is
among the faults: a handler of a few statements takes less than a minute.

`PaymentCodes`: the steps of a running callback; the timer fires and the bank
answers with whatever code.  `Documents`: Node runs `startOCR`, the rest of an
upload and the consumer on, the broker delivers, a worker takes a task whose
file is there.  Nobody has to upload or start anything.  `Uploads`: weak fairness
of each upload's own steps: Node goes on and `pdfinfo` ends.

## 5. What is proved

Every invariant and action property of a passing run is proved for all values
of the constants, and of the two refinements the safety part.  A property that a
run claims without some of the faults is proved from the same hypothesis, which is
written in the theorem's `ASSUME`: `Concurrency = 1`, `InGoodTime`,
`Undisturbed`.  Each is a condition the run's own constants satisfy,
and section 6 says what goes wrong without it.

### Wallet

`WalletProofs.tla` proves, for every set of requests, jobs and every
`Concurrency`, from `JobsAssumption` (amounts are naturals) and
`WalletRowAssumption` (the wallet's row is not a package):

| Theorem | Statement |
|---|---|
| `Typing` | `Spec => []TypeOK` |
| `NeverOverdrawnHolds` | `Spec => []NeverOverdrawn` |
| `NoMintedCreditHolds` | `Spec => []NoMintedCredit` |
| `CreditUsedHolds` | `Spec => []CreditUsedNeverOverstated` |
| `PackagesAsBoughtHolds` | `Spec => []PackagesAsBought` |

`Typing` is inductive on its own; naturalness of `creditLeft` and `due` rests on
the lemma about `Excess` (`Math.max(0, ..)`).

`NeverOverdrawn`, `NoMintedCredit` and `CreditUsedNeverOverstated` are not
inductive: a row is overwritten with a draft computed from an older read.
`BalanceInv` (theorem `Balance`) says that the committed row, every entity in a
handler's memory and every draft are *sound* against the transactions table:
not negative, no more credit than was deposited, no more `creditUsed` than was
withdrawn, a draft against the table with its own uncommitted row.  As the
table only grows (`SoundGrows`) a stale row stays sound, which is why lost
updates cannot break these properties although they do break
`NothingSpentTwice`.  The check of the balance is remembered as a fact about
`seen` from the INSERT to the UPDATE.

`PackagesAsBought` needs `PackageInv`: what is in memory, in a draft and in the
loop's set of a package is bounded by what was bought, a row is locked only if
it exists or is being created by its purchase, and a package under construction
belongs to a purchase that has not committed.

For requests that do not overlap (`ASSUME Concurrency = 1`), any number of them:

| Theorem | Statement |
|---|---|
| `NothingSpentTwiceHolds` | `Spec => []NothingSpentTwice` |
| `CreditUsedMatchesHolds` | `Spec => []CreditUsedMatchesLedger` |
| `LivePackagesBackedHolds` | `Spec => []LivePackagesBacked` |
| `AccountImplemented` | `Spec => AccountSpec`, the refinement of `WalletAccount` |

`SerialInv` says that what the open request has read is still what the rows say,
but for a package that expired and a wallet it has emptied in memory; and that a
draft differs from the row by exactly the amount of its uncommitted transaction.
Each commit is then a step of the account.  The hard case of the refinement is the
emptying: `withdraw` empties a wallet in memory because no package is live, and
a package may expire meanwhile but none can appear.  `LivePackagesBacked`
compares a sum over a table with a column of another.  `BackedInv` follows the loop of
`withdrawFromPackage`: at each turn what the packages would have left, plus the
amount, is at most the credit plus what is still due (`DrawsInStep`), so that the
later `UPDATE` of the wallet takes no more than the loop took.

### Orders

`OrdersProofs.tla` proves, for every set of orders and callbacks, every window
and any set of faults, from `UsageAssumption` and `WindowAssumption`:

| Theorem | Statement |
|---|---|
| `TypeOKHolds` | `Spec => []TypeOK` |
| `CreditOnlyVerifiedHolds` | `Spec => []CreditOnlyVerified` |
| `CreditedStaysPaidHolds` | `Spec => []CreditedStaysPaid` |

Types need the fact that a running handler has matched an order
(`Matched`).  `CreditedStaysPaid` allows one way to lose PAID: a callback whose own
`ResCode` is a failure, which the code records without asking the bank or looking
at the status.  It is not inductive, as a handler that is about to record a failure
might take PAID away.  `CreditInv` says what such a handler can record: its own
callback's `ResCode`, or an outcome that is what the bank says of the order for good
(cancelled, reversed), which excludes a credit; and that nothing happens at the bank
before the order is committed.  It is the bank's state that keeps a credited order
PAID when a late verification fails, not a check in `handleFailedPayment`, which has
none.

With at most one callback per order that says what the bank says, and a bank that
answers in time (`ASSUME InGoodTime`: no faults but `overlap`, `lapse`, `lost`,
`database` and `restart`, and `MaxBlips < Window`):

| Theorem | Statement |
|---|---|
| `PaidIffCreditedHolds` | `Spec => []PaidIffCredited` |
| `FinalStatusStaysHolds` | `Spec => FinalStatusStays` |
| `UsageBalancedHolds` | `Spec => []UsageBalanced` |

`TimelyInv` carries them.  No two callbacks have matched one order (`OneEach`), so
an order that a handler works on is PENDING and nothing else settles it
(`Settled`).  An order is never older than its transient answers, `age` at most
`blips`, and these stay below the window (`InTime`); hence a handler reports a
failure only if the bank did (`Truthful`), never because of its own stale `ResCode`.
The hypothesis excludes `select` for this reason: a read that fails in time is such a
stale report.  `Outcome` lists what a created order may look like.  `UsageBalanced`
counts the set of orders that refer to the code (`UsageInv`): a commit adds one
element and takes one usage, a failed payment removes one and returns it, every
other step leaves the set alone.  Usages may become negative, as two orders may have
read the code before either takes its usage.

### Documents

`DocumentsProofs.tla` proves, for any documents, pages, credit and faults, and
any finite sets of requests and deliveries:

| Theorem | Statement |
|---|---|
| `TypeOKHolds` | `Spec => []TypeOK` |
| `DoneWasProducedHolds` | `Spec => []DoneWasProduced` |
| `TasksArePaidHolds` | `Spec => []TasksArePaid` |

Types need `Matched` (a request past its guards and a busy delivery have a
document).  `DoneWasProduced` is not inductive, as a document becomes DONE
because of a message: `WorkInv` says that whatever may still make a document
DONE, a result in the queue or in a delivery, belongs to one that has a text and
a charge, and a task or a request past `withdraw` to one that has a charge.  The
case that matters is `Die`, where RabbitMQ takes back deliveries.
`TasksArePaid` needs to count requests from the charge on (`PaidInv`): a request
that has paid and not published (`Paying`) enters this set with a new charge
and leaves it with a new task, every other step shrinks or keeps it.

While nothing but a save fails and requests do not overlap (`ASSUME Undisturbed`):

| Theorem | Statement |
|---|---|
| `AccountsMatchHolds` | `Spec => []AccountsMatch` |
| `ClientFollowsHolds` | `Spec => []ClientFollows` |
| `EditSurvivesHolds` | `Spec => EditSurvives` |
| `JobsImplemented` | `Spec => Jobs!Init /\ [][Jobs!Next]_(Jobs!vars)`, for finitely many documents |

`JobInv` says that the job of a PENDING document is in one place: a request that
publishes it, the task queue, the result queue, or one delivery; and that a
document that is not PENDING has none (`OnePlace`).  `AccountsMatch` and
`EditSurvives` follow, as neither a second result nor a second task can meet the
document.  `ClientFollows` needs also that clients outside a room have heard
nothing (`Quiet`).  `JobsImplemented` maps each step to a step of `OcrJobs` or to
a stutter.  The abstract balance is the wallet's plus the pages still owed, a sum
over the documents of which each step changes at most one term (`TotalChanged`
of `SetSums`).  The fairness of `JobsSpec` is left to TLC.

### Authentication

`AuthProofs.tla` proves, for any numbers, people, codes, passwords, requests and
faults, from `SubscriberAssumption` and `NoneAssumption`:

| Theorem | Statement |
|---|---|
| `TypeOKHolds` | `Spec => []TypeOK` |
| `CachedWasSentHolds` | `Spec => []CachedWasSent` |
| `AccountsFundedHolds` | `Spec => []AccountsFunded` |
| `SignupKeepsOfferHolds` | `Spec => SignupKeepsOffer` |
| `PasswordNeedsCodeHolds` | `Spec => PasswordNeedsCode` |

One invariant, `AuthInv`, carries them.  Even the types need it: a gift is added,
and stays a single gift because an open INSERT has its number to itself
(`OneInsert`) and no account is there yet.  `RequestInv` remembers what each
check has established: that the code was `Texted` to the number and that the
password came with it (`Offered`).  Both stay true once they are (`KnownStays`),
which is why a cache entry that expires or is overwritten between the check and
the INSERT does no harm: the handler goes on with what it has read.

### Payment codes, uploads, pagination

`PaymentCodesProofs.tla` proves `TypeOKHolds`, `ToldMeansPaidHolds` and
`MessageBelongsToStatusHolds` for any set of numbers the bank may answer, any
window and number of callbacks.  `TransformerSound` is the lemma about the table:
a response is PAID exactly when its status is true, and its text is one of its
own kind.  `CodesInv` adds that a callback runs on a paid code, and that the user
has been told nothing good once an attempt has failed.

`UploadsProofs.tla` proves `SavedWasAllowedHolds` for any files, packages and
uploads: `AllowedInv` says what each stage of an upload has checked, and that
packages only disappear, so that an empty set of them stays empty.
`PagesWithinFileHolds` rests on what the recursive function `FirstDigit`
computes: `FirstDigitBound` says that the first digit of a number is at most the
number, so a file without a "Pages:" in its metadata costs no more than its pages.
`CountedInv` adds that a PDF that was counted matched a digit other than 0.

`PaginationProofs.tla` proves, for any finite set of items, any page size up to 50,
both orders and any number of insertions and deletions:

| Theorem | Statement |
|---|---|
| `MissedForDeletesHolds` | `Spec => []MissedForDeletes` |
| `RepeatedForInsertsHolds` | `Spec => []RepeatedForInserts` |
| `WalkIsShortHolds` | `Spec => []WalkIsShort` |

What is inductive is about the rows within the walk's `Reach`, the places all
pages so far were to cover.  Of the rows that stayed all the time, those within reach
that the client has not seen are at most the deletions (`MissedInv`): a deletion
pulls one row into reach; an insert pushes rows out of it and puts in only one that
did not stay.  Repetitions plus the `Pushed` rows, seen and now beyond the reach,
are at most the inserts (`RepeatedInv`): an insert within reach pushes one row out,
one beyond it may be a row that has been seen and comes back, and a page takes from
one as much as it adds to the other.  Both orders, and every place of the list, are one
case, as inserting and deleting are one relation, `Without`, between two lists
(`InsertIs`, `RemoveIs`), which reversing keeps (`WithoutListed`).

### Sums and recursion without induction

The library's induction theorems take an operator as a parameter, which the
provers cannot instantiate.  `SetSums.tla` and `UploadsProofs.tla` do without: a
set of counterexamples has a smallest element (`WFMin`, `LeastValue`), and from
it a smaller one is derived.  In this way `SumOverSet` shows that the recursive
function inside `MapThenSumSet` exists and obeys its equation on every finite set, and
`TotalMonotone`, `TotalChanged`, `TotalSame` and `TotalNatural` what the sums do
when terms change; `LeadsUpTo` .. `FirstDigitUnfold` do the same for `FirstDigit`.

### Only model-checked

Liveness and `ENABLED` are out of the prover's reach: `RequestsEnd`, `ChainsEnd`,
`PaymentsSettle`, `CallbacksSettle`, `UploadsEnd` and the fairness in `JobsSpec`
(that every paid job is settled) are checked by TLC on the instances of section 4
and not proved.  The two runs that expect a violation show counterexamples and
claim nothing for other instances.

## 6. Findings

1. **Double spending** (`wallet_double_spend`).  `withdraw` compares the amount
   with a wallet it read without a lock and writes absolute values.  Of two
   overlapping withdrawals both are granted.  The test
   `src/wallet/wallet.service.spec.ts:247` says `withdraw` "should throw an error if the
   balance is insufficient".
2. **Paid and not credited** (`orders_outage`).  After the 20-minute window
   `verifyPaymentAndGetUrl` reports the callback's own `ResCode`, whose status is
   PAID, as the failure.  `src/order/order.service.spec.ts:575`: "should update
   order as failed payment if status is not ok".

### What the models do that nobody wrote down

These are behaviours of the modules, translated from the code.  No document, test
or comment says otherwise, or a run of its own would add nothing to them.

* `withdraw` empties a wallet without packages and throws in the same
  transaction: the emptying is rolled back (`Wallet`: `EmptyWallet`, `Refuse`).
* Two orders may use a discount code more often than it allows (`Orders`:
  `SaveOrder`, `CommitOrder`).
* A callback whose `ResCode` is a failure is recorded without asking the bank: after
  a credit it takes PAID away (`Orders`: `UpdateExtraDetails`, `HandleFailedPayment`).
* A read of the order that fails within the window is taken for a window that is
  over, and the order becomes PAID without a credit (`Orders`: `ShouldVerify`).
* Settling an order replaces `extraDetails`, and with it the reference that the
  callback had stored there.
* Two requests for one phone may both send a code; the later one is stored
  (`Auth`: `DrawCode`, `StoreCode`).
* A sign-up that is rolled back for any reason is answered "already signed up",
  and a reset for a number without account is answered as done
  (`Auth`: `CreateFails`, `UpdatePassword`).
* One phone under several spellings gets several accounts, each with its gift.
* The FAILED status of a document is never sent to a websocket client, as
  `update()` reports no id (`Documents`: `MarkFailed`).
* A result of a job that was given back may still be delivered, if the worker
  published it twice and only the first save failed (`Documents`: `WorkerDies`).
* A PDF of 12 pages costs one page, one of a single page titled "Pages: 9" costs
  nine; a `pdfinfo` without output, or a file of
  0 pages, ends the process (`Uploads`: `PagesMatched`, `Exit`).

### What each fault breaks

Some properties are claimed without some of the faults because the code does not
keep them then: with one fault more the same instances have counterexamples.

| Fault | Breaks | Because |
|---|---|---|
| Orders: `duplicate` | `PaidIffCredited`, `UsageBalanced` | `handlePaidPayment` does not look at the status, so a second callback credits again; a usage is given back for each failure report |
| Orders: `slow`, `outage`, `select` | `PaidIffCredited`, `UsageBalanced`, `PaymentsSettle` | past the window, or when it cannot be read, the order becomes PAID without credit and its usage is given back |
| Orders: `contradict` | `PaidIffCredited`, `UsageBalanced`, `PaymentsSettle` | a failing `ResCode` settles an order the bank has received, a successful one asks for a payment that failed until the window is over |
| Orders: `duplicate` with `slow` or `contradict` | `FinalStatusStays` | a second callback that is checked after the window writes its own result, PAID, over REVERSED; one that reports a failure writes it over PAID |
| Orders: `late` | `UsageBalanced` | the decrement is not awaited |
| Documents: `overlap` | `AccountsMatch`, `EditSurvives`, `JobsSpec` | two requests charge one document, and its second task writes over the text |
| Documents: `crash`, `database`, `broker` | `AccountsMatch`, `JobsSpec` | charge, save, publish, FAILED and refund are commits of their own; a lost task or result leaves the document PENDING for good |
| Documents: `crash`, `database` | `EditSurvives` | what is handled again may fail then, and a document started again writes over an edited text |
| Documents: `database` | `ClientFollows` | a save that throws at COMMIT has been reported |
| Documents: `delete` | `AccountsMatch`, `JobsSpec` | the error path marks a deleted document FAILED and throws before the refund |
| Documents: `worker` | `AccountsMatch`, `EditSurvives`, `JobsSpec` | a repeated task writes over the edited text; a repeated result whose save fails takes DONE away and refunds again |

## 7. Not modelled

Tokens and cookies are stateless checks of signatures; the nginx script parses
them.  The package catalogue is read-only, its rows are constants of `Wallet` and
`Uploads`.  Contact messages are single rows that nothing reads.  Configuration,
wording, migrations, swagger and the bootstrap hold no state that changes in more
than one step.  `updateUserInfo` and `findUserInfo` write and read names nobody
else looks at.

Within the components: amounts, taxes and percentages of orders, and with them the
first read of the discount code, which may differ from the second; more
than one discount code or user at a time; the temporary file of a page count; packages bought
while an upload runs; the zip download; items of equal creation time in a
listing.  The bank, RabbitMQ's broker, the OCR worker, `pdfinfo`, the SMS
provider, Redis, PostgreSQL and the docker restart are external; the models state
what they may answer.
