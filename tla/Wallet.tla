------------------------------- MODULE Wallet -------------------------------
(***************************************************************************)
(* One user's wallet under concurrent requests (wallet.service.ts).        *)
(*                                                                         *)
(* A request runs a @Transactional handler: SELECT the wallet with its     *)
(* live packages, decide in memory, then INSERT and UPDATE with values     *)
(* computed from what was read.  PostgreSQL's default READ COMMITTED lets  *)
(* other requests commit in between: an UPDATE waits for the lock of its   *)
(* row and then overwrites it.  A row version written by an open           *)
(* transaction is in the request's draft; COMMIT publishes it.             *)
(*                                                                         *)
(* A bought package is named by the request that buys it.  Amounts are     *)
(* pages.                                                                  *)
(***************************************************************************)
EXTENDS Integers, FiniteSets, FiniteSetsExt

CONSTANTS
  Requests,     \* the requests that touch this wallet, each made once
  Jobs,         \* what a request may ask for
  Concurrency,  \* bound: how many requests are in flight at once
  WalletRow     \* names the row of the wallet; packages are named by Requests

(* gift: signup's bonus; refund: a failed OCR; purchase: a paid order, which *)
(* deposits and creates its package in one transaction; check: canAfford.   *)
DepositKinds == {"gift", "refund", "purchase"}
Kinds == DepositKinds \union {"withdraw", "check"}

ASSUME JobsAssumption == Jobs \subseteq [kind : Kinds, amount : Nat]
ASSUME WalletRowAssumption == WalletRow \notin Requests

VARIABLES
  wallet,      \* the committed wallet row
  creditLeft,  \* the committed package rows: pages left
  standing,    \* and whether the row exists and has expired
  ledger,      \* the transactions table, as its sum per type
  job, pc,     \* what each request asks for, and where its handler is
  seen,        \* wallet entity in the handler's memory
  seenLeft,    \* creditLeft of the packages it selected
  todo,        \* selected packages the loop has not reached
  due,         \* pages the loop still has to take from packages
  written,     \* rows the open transaction has written, so locked
  draft,       \* its version of the wallet row
  draftLeft    \* its versions of package rows

rows  == <<wallet, creditLeft, standing, ledger>>
local == <<seen, seenLeft, todo, due>>
tx    == <<written, draft, draftLeft>>
vars  == <<rows, job, pc, local, tx>>

Rows == Requests \union {WalletRow}
Open == {"found", "recorded", "credited", "written"}
Ended == {"done", "refused", "aborted"}
Standing == {"none", "live", "expired"}

EmptyRow == [credit |-> 0, giftCredit |-> 0, creditUsed |-> 0]
NothingLeft == [p \in Requests |-> 0]

(* Math.max(0, a - b) *)
Excess(a, b) == IF a > b THEN a - b ELSE 0

(* wallet.service.createOne: the row's column defaults. *)
Init ==
  /\ wallet = EmptyRow
  /\ creditLeft = NothingLeft
  /\ standing = [p \in Requests |-> "none"]
  /\ ledger = [deposit |-> 0, withdraw |-> 0]
  /\ job \in [Requests -> Jobs]
  /\ pc = [r \in Requests |-> "new"]
  /\ seen = [r \in Requests |-> EmptyRow]
  /\ seenLeft = [r \in Requests |-> NothingLeft]
  /\ todo = [r \in Requests |-> {}]
  /\ due = [r \in Requests |-> 0]
  /\ written = [r \in Requests |-> {}]
  /\ draft = [r \in Requests |-> EmptyRow]
  /\ draftLeft = [r \in Requests |-> NothingLeft]

-----------------------------------------------------------------------------
Kind(r) == job[r].kind
Amount(r) == job[r].amount
Live(p) == standing[p] = "live" /\ creditLeft[p] > 0

(* No other open transaction has written the row. *)
RowFree(r, row) == \A s \in Requests \ {r} : row \notin written[s]

(* The handler returns or throws: its memory and its locks are gone. *)
End(r, outcome) ==
  /\ pc' = [pc EXCEPT ![r] = outcome]
  /\ seen' = [seen EXCEPT ![r] = EmptyRow]
  /\ seenLeft' = [seenLeft EXCEPT ![r] = NothingLeft]
  /\ todo' = [todo EXCEPT ![r] = {}]
  /\ due' = [due EXCEPT ![r] = 0]
  /\ written' = [written EXCEPT ![r] = {}]
  /\ draft' = [draft EXCEPT ![r] = EmptyRow]
  /\ draftLeft' = [draftLeft EXCEPT ![r] = NothingLeft]
  /\ UNCHANGED job

(* findOneByUserId: one SELECT, the first statement of every handler. *)
FindWallet(r) ==
  /\ pc[r] = "new"
  /\ Cardinality({s \in Requests : pc[s] \in Open}) < Concurrency
  /\ pc' = [pc EXCEPT ![r] = "found"]
  /\ seen' = [seen EXCEPT ![r] = wallet]
  /\ seenLeft' = [seenLeft EXCEPT ![r] = creditLeft]
  /\ todo' = [todo EXCEPT ![r] = {p \in Requests : Live(p)}]
  /\ due' = [due EXCEPT ![r] = Amount(r)]
  /\ UNCHANGED <<rows, job, tx>>

AlwaysEmptyMutant(r) ==
  Kind(r) \in {"withdraw", "check"} /\ seen[r].credit > 0

NeedsEmptying(r) ==
  /\ Kind(r) \in {"withdraw", "check"}
  /\ seen[r].credit > 0
  /\ todo[r] = {}

(* withdraw empties inside its transaction. *)
EmptyWallet(r) ==
  /\ pc[r] = "found" /\ Kind(r) = "withdraw"
  /\ NeedsEmptying(r)
  /\ RowFree(r, WalletRow)
  /\ draft' = [draft EXCEPT ![r] = [wallet EXCEPT !.credit = 0]]
  /\ written' = [written EXCEPT ![r] = @ \union {WalletRow}]
  /\ seen' = [seen EXCEPT ![r].credit = 0]
  /\ UNCHANGED <<rows, job, pc, seenLeft, todo, due, draftLeft>>

(* canAfford is not @Transactional: its UPDATE commits at once. *)
EmptyWalletNow(r) ==
  /\ pc[r] = "found" /\ Kind(r) = "check"
  /\ NeedsEmptying(r)
  /\ RowFree(r, WalletRow)
  /\ wallet' = [wallet EXCEPT !.credit = 0]
  /\ seen' = [seen EXCEPT ![r].credit = 0]
  /\ UNCHANGED <<creditLeft, standing, ledger, job, pc, seenLeft, todo, due, tx>>

NoBalanceCheckMutant(r) == seen[r].giftCredit <= 0 /\ todo[r] = {}

(* NoPackageException or InsufficientBalanceException. *)
CannotAfford(r) ==
  \/ seen[r].giftCredit <= 0 /\ todo[r] = {}
  \/ seen[r].credit + seen[r].giftCredit < Amount(r)

(* The exception rolls the transaction back, an emptying included. *)
Refuse(r) ==
  /\ pc[r] = "found" /\ Kind(r) \in {"withdraw", "check"}
  /\ ~NeedsEmptying(r)
  /\ CannotAfford(r)
  /\ End(r, "refused")
  /\ UNCHANGED rows

Affirm(r) ==
  /\ pc[r] = "found" /\ Kind(r) = "check"
  /\ ~NeedsEmptying(r)
  /\ ~CannotAfford(r)
  /\ End(r, "done")
  /\ UNCHANGED rows

(* transactionRepository.save: an INSERT nobody sees before COMMIT. *)
InsertTransaction(r) ==
  /\ pc[r] = "found" /\ Kind(r) # "check"
  /\ Kind(r) = "withdraw" => ~NeedsEmptying(r) /\ ~CannotAfford(r)
  /\ pc' = [pc EXCEPT ![r] = "recorded"]
  /\ UNCHANGED <<rows, job, local, tx>>

(* withdrawFromPackage takes packages by creditLeft ascending; the ORDER BY *)
(* leaves equal ones in any order.                                          *)
NextPackages(r) ==
  IF pc[r] = "recorded" /\ Kind(r) = "withdraw" /\ due[r] > 0
  THEN {p \in todo[r] : \A q \in todo[r] : seenLeft[r][p] <= seenLeft[r][q]}
  ELSE {}

DrawnBelowZeroMutant(left, amount) == left - amount

Drawn(left, amount) == Excess(left, amount)

UpdatePackage(r) ==
  /\ \E p \in NextPackages(r) :
       /\ RowFree(r, p)
       /\ draftLeft' = [draftLeft EXCEPT ![r][p] = Drawn(seenLeft[r][p], due[r])]
       /\ written' = [written EXCEPT ![r] = @ \union {p}]
       /\ todo' = [todo EXCEPT ![r] = @ \ {p}]
       /\ due' = [due EXCEPT ![r] = Excess(@, seenLeft[r][p])]
  /\ UNCHANGED <<rows, job, pc, seen, seenLeft, draft>>

(* The row version each UPDATE makes: deposit sets both credits and keeps   *)
(* creditUsed of the row it locked, withdraw sets all three columns.        *)
GiftBothMutant(r) ==
  [wallet EXCEPT !.credit = seen[r].credit + Amount(r),
                 !.giftCredit = seen[r].giftCredit + Amount(r)]

GiftVersion(r) ==
  [wallet EXCEPT !.credit = seen[r].credit,
                 !.giftCredit = seen[r].giftCredit + Amount(r)]

CreditVersion(r) ==
  [wallet EXCEPT !.credit = seen[r].credit + Amount(r),
                 !.giftCredit = seen[r].giftCredit]

WithdrawUncountedMutant(r) ==
  [credit     |-> seen[r].credit - Excess(Amount(r), seen[r].giftCredit),
   giftCredit |-> Excess(seen[r].giftCredit, Amount(r)),
   creditUsed |-> seen[r].creditUsed]

WithdrawTwiceCountedMutant(r) ==
  [credit     |-> seen[r].credit - Excess(Amount(r), seen[r].giftCredit),
   giftCredit |-> Excess(seen[r].giftCredit, Amount(r)),
   creditUsed |-> seen[r].creditUsed + Amount(r) + seen[r].giftCredit]

WithdrawElseIfMutant(r) ==
  [credit     |-> IF seen[r].giftCredit > 0 THEN seen[r].credit
                  ELSE seen[r].credit - Amount(r),
   giftCredit |-> Excess(seen[r].giftCredit, Amount(r)),
   creditUsed |-> seen[r].creditUsed + Amount(r)]

WithdrawVersion(r) ==
  [credit     |-> seen[r].credit - Excess(Amount(r), seen[r].giftCredit),
   giftCredit |-> Excess(seen[r].giftCredit, Amount(r)),
   creditUsed |-> seen[r].creditUsed + Amount(r)]

NewVersion(r) ==
  CASE Kind(r) = "gift"                   -> GiftVersion(r)
    [] Kind(r) \in {"refund", "purchase"} -> CreditVersion(r)
    [] OTHER                              -> WithdrawVersion(r)

(* As if the UPDATE ran on a connection of its own: the lock that emptying   *)
(* took in the transaction would never be released.                          *)
UpdateOutsideMutant(r) ==
  /\ pc[r] = "recorded"
  /\ NextPackages(r) = {}
  /\ RowFree(r, WalletRow) /\ WalletRow \notin written[r]
  /\ draft' = [draft EXCEPT ![r] = NewVersion(r)]
  /\ written' = [written EXCEPT ![r] = @ \union {WalletRow}]
  /\ pc' = [pc EXCEPT ![r] = IF Kind(r) = "purchase" THEN "credited" ELSE "written"]
  /\ UNCHANGED <<rows, job, local, draftLeft>>

UpdateWallet(r) ==
  /\ pc[r] = "recorded"
  /\ NextPackages(r) = {}
  /\ RowFree(r, WalletRow)
  /\ draft' = [draft EXCEPT ![r] = NewVersion(r)]
  /\ written' = [written EXCEPT ![r] = @ \union {WalletRow}]
  /\ pc' = [pc EXCEPT ![r] = IF Kind(r) = "purchase" THEN "credited" ELSE "written"]
  /\ UNCHANGED <<rows, job, local, draftLeft>>

(* As if createWalletPackage ran outside the order's transaction. *)
PackageFirstMutant(r) ==
  /\ pc[r] = "credited"
  /\ creditLeft' = [creditLeft EXCEPT ![r] = Amount(r)]
  /\ standing' = [standing EXCEPT ![r] = "live"]
  /\ pc' = [pc EXCEPT ![r] = "written"]
  /\ UNCHANGED <<wallet, ledger, job, local, tx>>

CreateWalletPackage(r) ==
  /\ pc[r] = "credited"
  /\ draftLeft' = [draftLeft EXCEPT ![r][r] = Amount(r)]
  /\ written' = [written EXCEPT ![r] = @ \union {r}]
  /\ pc' = [pc EXCEPT ![r] = "written"]
  /\ UNCHANGED <<rows, job, local, draft>>

Commit(r) ==
  /\ pc[r] = "written"
  /\ wallet' = draft[r]
  /\ creditLeft' = [p \in Requests |->
       IF p \in written[r] THEN draftLeft[r][p] ELSE creditLeft[p]]
  /\ standing' = [standing EXCEPT ![r] = IF r \in written[r] THEN "live" ELSE @]
  /\ ledger' = IF Kind(r) = "withdraw"
               THEN [ledger EXCEPT !.withdraw = @ + Amount(r)]
               ELSE [ledger EXCEPT !.deposit = @ + Amount(r)]
  /\ End(r, "done")

-----------------------------------------------------------------------------
(* Requests whose locks keep r waiting. *)
WaitsFor(r) ==
  IF \E p \in NextPackages(r) : RowFree(r, p) THEN {}
  ELSE {s \in Requests \ {r} : NextPackages(r) \intersect written[s] # {}}

WaitCycle(D) == D # {} /\ \A r \in D : WaitsFor(r) # {} /\ WaitsFor(r) \subseteq D

(* PostgreSQL aborts one transaction of a cycle of waiting ones. *)
DeadlockVictim(r) ==
  /\ \E D \in SUBSET Requests :
       /\ r \in D
       /\ WaitCycle(D)
       /\ \A E \in SUBSET D : WaitCycle(E) => E = D
  /\ End(r, "aborted")
  /\ UNCHANGED rows

(* The server or its connection dies: PostgreSQL rolls back. *)
Abort(r) ==
  /\ pc[r] \in Open
  /\ End(r, "aborted")
  /\ UNCHANGED rows

(* CURRENT_TIMESTAMP passes expireAt; a package without one never does this. *)
Expire(p) ==
  /\ standing[p] = "live"
  /\ standing' = [standing EXCEPT ![p] = "expired"]
  /\ UNCHANGED <<wallet, creditLeft, ledger, job, pc, local, tx>>

Finished ==
  /\ \A r \in Requests : pc[r] \in Ended
  /\ UNCHANGED vars

Progress(r) ==
  \/ EmptyWallet(r) \/ EmptyWalletNow(r) \/ Refuse(r) \/ Affirm(r)
  \/ InsertTransaction(r) \/ UpdatePackage(r) \/ UpdateWallet(r)
  \/ CreateWalletPackage(r) \/ Commit(r) \/ DeadlockVictim(r)

Next ==
  \/ \E r \in Requests : FindWallet(r) \/ Progress(r) \/ Abort(r) \/ Expire(r)
  \/ Finished

Spec == Init /\ [][Next]_vars

(* The database answers every statement and breaks every cycle; nothing     *)
(* forces a request to arrive or a server to die.                           *)
Fairness == \A r \in Requests : WF_vars(Progress(r))
FairSpec == Spec /\ Fairness

-----------------------------------------------------------------------------
(* What holds however requests interleave.                                  *)

Row == [credit : Int, giftCredit : Int, creditUsed : Nat]

TypeOK ==
  /\ wallet \in Row
  /\ creditLeft \in [Requests -> Nat]
  /\ standing \in [Requests -> Standing]
  /\ ledger \in [deposit : Nat, withdraw : Nat]
  /\ job \in [Requests -> Jobs]
  /\ pc \in [Requests -> {"new"} \union Open \union Ended]
  /\ seen \in [Requests -> Row]
  /\ seenLeft \in [Requests -> [Requests -> Nat]]
  /\ todo \in [Requests -> SUBSET Requests]
  /\ due \in [Requests -> Nat]
  /\ written \in [Requests -> SUBSET Rows]
  /\ draft \in [Requests -> Row]
  /\ draftLeft \in [Requests -> [Requests -> Nat]]

(* No interleaving of deposits, withdrawals and emptyings drives a balance  *)
(* below zero: withdraw's check (wallet.service.ts:186) is made on the same *)
(* values its UPDATE is computed from.                                      *)
NeverOverdrawn == wallet.credit >= 0 /\ wallet.giftCredit >= 0

(* A lost update may give spent credit back or swallow a deposit, but the   *)
(* wallet never holds more than the transactions table says was deposited.  *)
NoMintedCredit == wallet.credit + wallet.giftCredit <= ledger.deposit

(* creditUsed may miss a concurrent withdrawal but never counts one that    *)
(* was refused, rolled back or made twice.                                  *)
CreditUsedNeverOverstated == wallet.creditUsed <= ledger.withdraw

(* A stale UPDATE may refill a package, but never above what was bought,    *)
(* and a package exists only if the purchase that pays for it committed.    *)
PackagesAsBought ==
  \A p \in Requests :
    /\ creditLeft[p] <= Amount(p)
    /\ standing[p] # "none" <=> Kind(p) = "purchase" /\ pc[p] = "done"
    /\ standing[p] = "none" => creditLeft[p] = 0

(* Every request that reached the database is answered: lock waits end,     *)
(* because PostgreSQL breaks the cycles that tied packages can cause.       *)
RequestsEnd == \A r \in Requests : pc[r] \in Open ~> pc[r] \in Ended

-----------------------------------------------------------------------------
(* What holds only while requests do not overlap (Concurrency = 1).         *)

(* What is left and what was withdrawn together never exceed what was       *)
(* deposited: nothing is spent twice.                                       *)
NothingSpentTwice ==
  wallet.credit + wallet.giftCredit + ledger.withdraw <= ledger.deposit

(* creditUsed is the sum of the withdrawals in the transactions table.      *)
CreditUsedMatchesLedger == wallet.creditUsed = ledger.withdraw

(* What the live packages still offer is in the wallet: withdraw takes the  *)
(* full amount from packages even when gift credit pays for it.             *)
LivePackagesBacked ==
  MapThenSumSet(LAMBDA p : creditLeft[p], {p \in Requests : Live(p)})
    <= wallet.credit

(* The handlers implement the account of WalletAccount.tla.                 *)
Account == INSTANCE WalletAccount WITH
  credit    <- wallet.credit,
  gift      <- wallet.giftCredit,
  deposited <- ledger.deposit,
  withdrawn <- ledger.withdraw,
  backed    <- \E p \in Requests : Live(p)
AccountSpec == Account!Spec
=============================================================================
