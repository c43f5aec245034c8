---------------------------- MODULE WalletProofs ----------------------------
(***************************************************************************)
(* Proofs about Wallet.tla for every set of requests and every choice of   *)
(* their jobs: first what holds for every bound on concurrency, then what  *)
(* holds while requests do not overlap (Concurrency = 1).                  *)
(***************************************************************************)
EXTENDS Wallet, FiniteSetTheorems, SetSums, TLAPS

-----------------------------------------------------------------------------
(* Whatever overlaps.                                                      *)

(* Math.max(0, a - b) is a natural number no larger than a.                 *)
LEMMA ExcessNat ==
  ASSUME NEW a \in Nat, NEW b \in Int
  PROVE  Excess(a, b) \in Nat /\ (b >= 0 => Excess(a, b) <= a)
  BY DEF Excess

(* Setting a column of a wallet row to an integer gives a wallet row.       *)
LEMMA RowUpdate ==
  ASSUME NEW w \in Row, NEW x \in Int, NEW y \in Int
  PROVE  LET v == [w EXCEPT !.credit = x, !.giftCredit = y]
         IN  v \in Row /\ v.credit = x /\ v.giftCredit = y /\ v.creditUsed = w.creditUsed
  BY DEF Row

(* So does emptying it.                                                     *)
LEMMA RowEmptied ==
  ASSUME NEW w \in Row
  PROVE  LET v == [w EXCEPT !.credit = 0]
         IN  v \in Row /\ v.credit = 0 /\ v.giftCredit = w.giftCredit
                       /\ v.creditUsed = w.creditUsed
  BY DEF Row

(* A request's job is one of the kinds, for a whole number of pages.        *)
LEMMA JobTyping ==
  ASSUME TypeOK, NEW r \in Requests
  PROVE  Kind(r) \in Kinds /\ Amount(r) \in Nat
  BY JobsAssumption DEF TypeOK, Kind, Amount

(* Ending a request keeps its memory well typed.                            *)
LEMMA EndTyping ==
  ASSUME TypeOK, NEW r \in Requests, NEW o \in Ended, End(r, o), UNCHANGED rows
  PROVE  TypeOK'
  BY DEF TypeOK, End, rows, EmptyRow, NothingLeft, Row, Rows, Ended

(* The version an UPDATE of the wallet makes is a row.                      *)
LEMMA NewVersionTyping ==
  ASSUME TypeOK, NEW r \in Requests
  PROVE  NewVersion(r) \in Row
  <1>1. Amount(r) \in Nat
    BY JobTyping
  <1>2. seen[r] \in Row /\ wallet \in Row
    BY DEF TypeOK
  <1>3. /\ seen[r].credit \in Int
        /\ seen[r].giftCredit \in Int
        /\ seen[r].creditUsed \in Nat
    BY <1>2 DEF Row
  <1>4. /\ Excess(Amount(r), seen[r].giftCredit) \in Int
        /\ Excess(seen[r].giftCredit, Amount(r)) \in Int
    BY <1>1, <1>3 DEF Excess
  <1>5. /\ seen[r].giftCredit + Amount(r) \in Int
        /\ seen[r].credit + Amount(r) \in Int
    BY <1>1, <1>3
  <1>6. GiftVersion(r) \in Row
    BY <1>2, <1>3, <1>5, RowUpdate DEF GiftVersion
  <1>7. CreditVersion(r) \in Row
    BY <1>2, <1>3, <1>5, RowUpdate DEF CreditVersion
  <1>8. WithdrawVersion(r) \in Row
    BY <1>1, <1>3, <1>4 DEF WithdrawVersion, Row
  <1>9. QED
    BY <1>6, <1>7, <1>8 DEF NewVersion

(* Type correctness: in particular package credit is never negative and     *)
(* creditUsed never decreases below zero, in any interleaving.              *)
THEOREM Typing == Spec => []TypeOK
  <1>1. Init => TypeOK
    BY DEF Init, TypeOK, EmptyRow, NothingLeft, Row, Rows, Standing
  <1>2. TypeOK /\ [Next]_vars => TypeOK'
    <2> SUFFICES ASSUME TypeOK, [Next]_vars PROVE TypeOK'
      OBVIOUS
    <2>1. ASSUME NEW r \in Requests, FindWallet(r) PROVE TypeOK'
      <3>1. Amount(r) \in Nat
        BY JobTyping
      <3>2. QED
        BY <2>1, <3>1 DEF FindWallet, TypeOK, rows, tx, Open
    <2>2. ASSUME NEW r \in Requests, EmptyWallet(r) PROVE TypeOK'
      <3>1. [wallet EXCEPT !.credit = 0] \in Row /\ [seen[r] EXCEPT !.credit = 0] \in Row
        BY RowEmptied DEF TypeOK
      <3>2. QED
        BY <2>2, <3>1 DEF EmptyWallet, TypeOK, rows, Rows
    <2>3. ASSUME NEW r \in Requests, EmptyWalletNow(r) PROVE TypeOK'
      <3>1. [wallet EXCEPT !.credit = 0] \in Row /\ [seen[r] EXCEPT !.credit = 0] \in Row
        BY RowEmptied DEF TypeOK
      <3>2. QED
        BY <2>3, <3>1 DEF EmptyWalletNow, TypeOK, tx
    <2>4. ASSUME NEW r \in Requests,
                 Refuse(r) \/ Affirm(r) \/ DeadlockVictim(r) \/ Abort(r)
          PROVE  TypeOK'
      BY <2>4, EndTyping DEF Refuse, Affirm, DeadlockVictim, Abort, Ended
    <2>5. ASSUME NEW r \in Requests, InsertTransaction(r) PROVE TypeOK'
      BY <2>5 DEF InsertTransaction, TypeOK, rows, local, tx, Open
    <2>6. ASSUME NEW r \in Requests, UpdatePackage(r) PROVE TypeOK'
      <3>1. PICK p \in NextPackages(r) :
              /\ draftLeft' = [draftLeft EXCEPT ![r][p] = Drawn(seenLeft[r][p], due[r])]
              /\ written' = [written EXCEPT ![r] = @ \union {p}]
              /\ todo' = [todo EXCEPT ![r] = @ \ {p}]
              /\ due' = [due EXCEPT ![r] = Excess(@, seenLeft[r][p])]
        BY <2>6 DEF UpdatePackage
      <3>2. p \in Requests /\ seenLeft[r][p] \in Nat /\ due[r] \in Nat
        BY DEF NextPackages, TypeOK
      <3>3. Drawn(seenLeft[r][p], due[r]) \in Nat /\ Excess(due[r], seenLeft[r][p]) \in Nat
        BY <3>2 DEF Drawn, Excess
      <3>4. QED
        <4>1. draftLeft' \in [Requests -> [Requests -> Nat]]
          BY <3>1, <3>2, <3>3 DEF TypeOK
        <4>2. due' \in [Requests -> Nat]
          BY <3>1, <3>3 DEF TypeOK
        <4>3. written' \in [Requests -> SUBSET Rows] /\ todo' \in [Requests -> SUBSET Requests]
          BY <3>1, <3>2 DEF TypeOK, Rows
        <4>4. QED
          BY <2>6, <4>1, <4>2, <4>3 DEF UpdatePackage, TypeOK, rows
    <2>7. ASSUME NEW r \in Requests, UpdateWallet(r) PROVE TypeOK'
      <3>1. NewVersion(r) \in Row
        BY <2>7, NewVersionTyping
      <3>2. QED
        BY <2>7, <3>1 DEF UpdateWallet, TypeOK, rows, local, Open, Rows
    <2>8. ASSUME NEW r \in Requests, CreateWalletPackage(r) PROVE TypeOK'
      <3>1. Amount(r) \in Nat
        BY JobTyping
      <3>2. QED
        BY <2>8, <3>1 DEF CreateWalletPackage, TypeOK, rows, local, Open, Rows
    <2>9. ASSUME NEW r \in Requests, Commit(r) PROVE TypeOK'
      <3>1. Amount(r) \in Nat
        BY JobTyping
      <3>2. wallet' \in Row /\ creditLeft' \in [Requests -> Nat]
        BY <2>9 DEF Commit, TypeOK
      <3>3. standing' \in [Requests -> Standing]
        BY <2>9 DEF Commit, TypeOK, Standing
      <3>4. ledger' \in [deposit : Nat, withdraw : Nat]
        BY <2>9, <3>1 DEF Commit, TypeOK
      <3>5. QED
        BY <2>9, <3>2, <3>3, <3>4
           DEF Commit, End, TypeOK, EmptyRow, NothingLeft, Row, Rows, Ended
    <2>10. ASSUME NEW r \in Requests, Expire(r) PROVE TypeOK'
      BY <2>10 DEF Expire, TypeOK, local, tx, Standing
    <2>11. CASE Finished \/ UNCHANGED vars
      BY <2>11 DEF Finished, vars, rows, local, tx, TypeOK
    <2>12. QED
      BY <2>1, <2>2, <2>3, <2>4, <2>5, <2>6, <2>7, <2>8, <2>9, <2>10, <2>11
         DEF Next, Progress
  <1>3. QED
    BY <1>1, <1>2, PTL DEF Spec

-----------------------------------------------------------------------------
(* The balances.  A row is sound for d pages deposited and u pages          *)
(* withdrawn if it is not overdrawn, holds no more than d and counts no     *)
(* more than u.                                                             *)
Sound(w, d, u) ==
  /\ w.credit >= 0 /\ w.giftCredit >= 0
  /\ w.credit + w.giftCredit <= d
  /\ w.creditUsed <= u

ToDeposit(r) == IF Kind(r) \in DepositKinds THEN Amount(r) ELSE 0
ToWithdraw(r) == IF Kind(r) = "withdraw" THEN Amount(r) ELSE 0

(* The committed row, what a request has read of it, and what it will make  *)
(* of it are sound; a withdrawal that got past the check can be paid from   *)
(* what was read.                                                           *)
BalanceInv ==
  /\ Sound(wallet, ledger.deposit, ledger.withdraw)
  /\ \A r \in Requests :
       /\ Sound(seen[r], ledger.deposit, ledger.withdraw)
       /\ Sound(draft[r], ledger.deposit + ToDeposit(r), ledger.withdraw + ToWithdraw(r))
       /\ pc[r] = "recorded" /\ Kind(r) = "withdraw"
            => Amount(r) <= seen[r].credit + seen[r].giftCredit
       /\ pc[r] \in {"recorded", "credited", "written"} => Kind(r) # "check"

(* A row stays sound as the transactions table grows.                       *)
LEMMA SoundGrows ==
  ASSUME NEW w \in Row, NEW d \in Int, NEW u \in Int, NEW e \in Int, NEW v \in Int,
         Sound(w, d, u), d <= e, u <= v
  PROVE  Sound(w, e, v)
  BY DEF Sound, Row

(* The row an UPDATE makes is sound once its transaction is counted.        *)
LEMMA NewVersionSound ==
  ASSUME TypeOK, NEW r \in Requests,
         Sound(wallet, ledger.deposit, ledger.withdraw),
         Sound(seen[r], ledger.deposit, ledger.withdraw),
         Kind(r) # "check",
         Kind(r) = "withdraw" => Amount(r) <= seen[r].credit + seen[r].giftCredit
  PROVE  Sound(NewVersion(r), ledger.deposit + ToDeposit(r), ledger.withdraw + ToWithdraw(r))
  <1>1. Amount(r) \in Nat /\ Kind(r) \in Kinds
    BY JobTyping
  <1>2. seen[r] \in Row /\ wallet \in Row /\ ledger.deposit \in Nat /\ ledger.withdraw \in Nat
    BY DEF TypeOK
  <1>7. /\ seen[r].credit \in Int /\ seen[r].giftCredit \in Int
        /\ seen[r].credit + Amount(r) \in Int /\ seen[r].giftCredit + Amount(r) \in Int
    BY <1>1, <1>2 DEF Row
  <1>3. CASE Kind(r) = "gift"
    <2>1. /\ GiftVersion(r).credit = seen[r].credit
          /\ GiftVersion(r).giftCredit = seen[r].giftCredit + Amount(r)
          /\ GiftVersion(r).creditUsed = wallet.creditUsed
      BY <1>2, <1>7 DEF GiftVersion, Row
    <2>2. NewVersion(r) = GiftVersion(r)
      BY <1>3 DEF NewVersion
    <2>3. QED
      BY <1>1, <1>2, <1>3, <2>1, <2>2 DEF Sound, ToDeposit, ToWithdraw, DepositKinds, Row
  <1>4. CASE Kind(r) \in {"refund", "purchase"}
    <2>1. /\ CreditVersion(r).credit = seen[r].credit + Amount(r)
          /\ CreditVersion(r).giftCredit = seen[r].giftCredit
          /\ CreditVersion(r).creditUsed = wallet.creditUsed
      BY <1>2, <1>7 DEF CreditVersion, Row
    <2>2. NewVersion(r) = CreditVersion(r)
      BY <1>4 DEF NewVersion
    <2>3. QED
      BY <1>1, <1>2, <1>4, <2>1, <2>2 DEF Sound, ToDeposit, ToWithdraw, DepositKinds, Row
  <1>5. CASE Kind(r) = "withdraw"
    BY <1>1, <1>2, <1>5
       DEF NewVersion, WithdrawVersion, Excess, Sound, ToDeposit, ToWithdraw, DepositKinds, Row
  <1>6. QED
    BY <1>1, <1>3, <1>4, <1>5 DEF Kinds, DepositKinds

(* The reset of a finished request leaves a sound row.                      *)
LEMMA EmptyRowSound ==
  ASSUME NEW d \in Nat, NEW u \in Nat
  PROVE  Sound(EmptyRow, d, u)
  BY DEF Sound, EmptyRow

(* Steps that only end a request without committing keep the balances.     *)
LEMMA EndBalance ==
  ASSUME TypeOK, BalanceInv, NEW r \in Requests, NEW o \in Ended, End(r, o), UNCHANGED rows
  PROVE  BalanceInv'
  <1>1. ledger' = ledger /\ wallet' = wallet /\ job' = job
    BY DEF End, rows
  <1>2. Sound(wallet', ledger'.deposit, ledger'.withdraw)
    BY <1>1 DEF BalanceInv
  <1>3. ASSUME NEW s \in Requests
        PROVE  /\ Sound(seen'[s], ledger'.deposit, ledger'.withdraw)
               /\ Sound(draft'[s], ledger'.deposit + ToDeposit(s)', ledger'.withdraw + ToWithdraw(s)')
               /\ pc'[s] = "recorded" /\ Kind(s)' = "withdraw"
                    => Amount(s)' <= seen'[s].credit + seen'[s].giftCredit
               /\ pc'[s] \in {"recorded", "credited", "written"} => Kind(s)' # "check"
    <2>1. Kind(s)' = Kind(s) /\ Amount(s)' = Amount(s)
      BY <1>1 DEF Kind, Amount
    <2>2. ToDeposit(s)' = ToDeposit(s) /\ ToWithdraw(s)' = ToWithdraw(s)
      BY <2>1 DEF ToDeposit, ToWithdraw
    <2>3. CASE s = r
      <3>1. seen'[s] = EmptyRow /\ draft'[s] = EmptyRow /\ pc'[s] \in Ended
        BY <2>3 DEF End, TypeOK
      <3>2. ToDeposit(s) \in Nat /\ ToWithdraw(s) \in Nat
        BY JobTyping DEF ToDeposit, ToWithdraw
      <3>3. ledger.deposit \in Nat /\ ledger.withdraw \in Nat
        BY DEF TypeOK
      <3>4. ledger.deposit + ToDeposit(s) \in Nat /\ ledger.withdraw + ToWithdraw(s) \in Nat
        BY <3>2, <3>3
      <3>5. QED
        BY <1>1, <2>2, <3>1, <3>3, <3>4, EmptyRowSound DEF Ended
    <2>4. CASE s # r
      <3>1. seen'[s] = seen[s] /\ draft'[s] = draft[s] /\ pc'[s] = pc[s]
        BY <2>4 DEF End, TypeOK
      <3>2. QED
        BY <1>1, <2>1, <2>2, <3>1 DEF BalanceInv
    <2>5. QED
      BY <2>3, <2>4
  <1>4. QED
    BY <1>2, <1>3 DEF BalanceInv

LEMMA BalanceInit == Init => BalanceInv
  <1> SUFFICES ASSUME Init PROVE BalanceInv
    OBVIOUS
  <1>1. TypeOK
    BY DEF Init, TypeOK, EmptyRow, NothingLeft, Row, Rows, Standing
  <1>2. ASSUME NEW r \in Requests PROVE ToDeposit(r) \in Nat /\ ToWithdraw(r) \in Nat
    BY <1>1, JobTyping DEF ToDeposit, ToWithdraw
  <1>3. QED
    BY <1>2 DEF Init, BalanceInv, Sound, EmptyRow

LEMMA BalanceStep == TypeOK /\ TypeOK' /\ BalanceInv /\ [Next]_vars => BalanceInv'
  <1> SUFFICES ASSUME TypeOK, TypeOK', BalanceInv, [Next]_vars PROVE BalanceInv'
    OBVIOUS
  <1> USE DEF BalanceInv
  <1>a. ASSUME NEW r \in Requests, job' = job
        PROVE  Kind(r)' = Kind(r) /\ ToDeposit(r)' = ToDeposit(r)
               /\ Amount(r)' = Amount(r) /\ ToWithdraw(r)' = ToWithdraw(r)
    BY <1>a DEF Kind, Amount, ToDeposit, ToWithdraw
  <1>b. ledger.deposit \in Nat /\ ledger.withdraw \in Nat /\ wallet \in Row
    BY DEF TypeOK
  <1>c. ASSUME NEW r \in Requests
        PROVE  /\ ToDeposit(r) \in Nat /\ ToWithdraw(r) \in Nat
               /\ seen[r] \in Row /\ draft[r] \in Row
    BY JobTyping DEF ToDeposit, ToWithdraw, TypeOK
  <1>1. ASSUME NEW r \in Requests, FindWallet(r) PROVE BalanceInv'
    <2>1. seen' = [seen EXCEPT ![r] = wallet] /\ pc' = [pc EXCEPT ![r] = "found"]
      BY <1>1 DEF FindWallet
    <2>2. wallet' = wallet /\ ledger' = ledger /\ job' = job /\ draft' = draft
      BY <1>1 DEF FindWallet, rows, tx
    <2>3. QED
      BY <1>a, <2>1, <2>2 DEF TypeOK
  <1>2. ASSUME NEW r \in Requests, EmptyWallet(r) PROVE BalanceInv'
    <2>1. /\ draft' = [draft EXCEPT ![r] = [wallet EXCEPT !.credit = 0]]
          /\ seen' = [seen EXCEPT ![r] = [seen[r] EXCEPT !.credit = 0]]
          /\ wallet' = wallet /\ ledger' = ledger /\ job' = job /\ pc' = pc /\ pc[r] = "found"
      BY <1>2 DEF EmptyWallet, rows
    <2>2. Sound([wallet EXCEPT !.credit = 0], ledger.deposit, ledger.withdraw)
      BY <1>b DEF Sound, Row
    <2>3. Sound([seen[r] EXCEPT !.credit = 0], ledger.deposit, ledger.withdraw)
      BY <1>b, <1>c DEF Sound, Row
    <2>4. Sound([wallet EXCEPT !.credit = 0], ledger.deposit + ToDeposit(r),
                ledger.withdraw + ToWithdraw(r))
      BY <1>b, <1>c DEF Sound, Row
    <2>5. QED
      BY <1>a, <2>1, <2>3, <2>4 DEF TypeOK
  <1>3. ASSUME NEW r \in Requests, EmptyWalletNow(r) PROVE BalanceInv'
    <2>1. /\ wallet' = [wallet EXCEPT !.credit = 0]
          /\ seen' = [seen EXCEPT ![r] = [seen[r] EXCEPT !.credit = 0]]
          /\ draft' = draft /\ ledger' = ledger /\ job' = job /\ pc' = pc /\ pc[r] = "found"
      BY <1>3 DEF EmptyWalletNow, tx
    <2>2. Sound([wallet EXCEPT !.credit = 0], ledger.deposit, ledger.withdraw)
      BY <1>b DEF Sound, Row
    <2>3. Sound([seen[r] EXCEPT !.credit = 0], ledger.deposit, ledger.withdraw)
      BY <1>b, <1>c DEF Sound, Row
    <2>4. QED
      BY <1>a, <2>1, <2>2, <2>3 DEF TypeOK
  <1>4. ASSUME NEW r \in Requests, Refuse(r) \/ Affirm(r) \/ DeadlockVictim(r) \/ Abort(r)
        PROVE  BalanceInv'
    BY <1>4, EndBalance DEF Refuse, Affirm, DeadlockVictim, Abort, Ended
  <1>5. ASSUME NEW r \in Requests, InsertTransaction(r) PROVE BalanceInv'
    <2>1. /\ pc' = [pc EXCEPT ![r] = "recorded"] /\ Kind(r) # "check"
          /\ wallet' = wallet /\ ledger' = ledger /\ job' = job /\ draft' = draft /\ seen' = seen
      BY <1>5 DEF InsertTransaction, rows, local, tx
    <2>2. Kind(r) = "withdraw" => Amount(r) <= seen[r].credit + seen[r].giftCredit
      BY <1>5, <1>c, JobTyping DEF InsertTransaction, CannotAfford, Row
    <2>3. QED
      BY <1>a, <2>1, <2>2 DEF TypeOK
  <1>6. ASSUME NEW r \in Requests, UpdatePackage(r) PROVE BalanceInv'
    <2>1. /\ pc' = pc /\ wallet' = wallet /\ ledger' = ledger /\ job' = job
          /\ draft' = draft /\ seen' = seen
      BY <1>6 DEF UpdatePackage, rows
    <2>2. QED
      BY <1>a, <2>1
  <1>7. ASSUME NEW r \in Requests, UpdateWallet(r) PROVE BalanceInv'
    <2>1. /\ draft' = [draft EXCEPT ![r] = NewVersion(r)] /\ pc[r] = "recorded"
          /\ wallet' = wallet /\ ledger' = ledger /\ job' = job /\ seen' = seen
      BY <1>7 DEF UpdateWallet, rows, local
    <2>2. Sound(NewVersion(r), ledger.deposit + ToDeposit(r), ledger.withdraw + ToWithdraw(r))
      BY <2>1, NewVersionSound
    <2>3. /\ pc'[r] \in {"credited", "written"} /\ Kind(r) # "check"
          /\ \A s \in Requests \ {r} : pc'[s] = pc[s]
      BY <1>7, <2>1 DEF UpdateWallet, TypeOK
    <2>4. QED
      BY <1>a, <2>1, <2>2, <2>3 DEF TypeOK
  <1>8. ASSUME NEW r \in Requests, CreateWalletPackage(r) PROVE BalanceInv'
    <2>1. /\ pc' = [pc EXCEPT ![r] = "written"] /\ pc[r] = "credited"
          /\ wallet' = wallet /\ ledger' = ledger /\ job' = job /\ draft' = draft /\ seen' = seen
      BY <1>8 DEF CreateWalletPackage, rows, local
    <2>2. QED
      BY <1>a, <2>1 DEF TypeOK
  <1>9. ASSUME NEW r \in Requests, Commit(r) PROVE BalanceInv'
    <2>1. /\ ledger'.deposit = ledger.deposit + ToDeposit(r)
          /\ ledger'.withdraw = ledger.withdraw + ToWithdraw(r)
      BY <1>9, <1>b, JobTyping DEF Commit, ToDeposit, ToWithdraw, Kinds, DepositKinds, TypeOK
    <2>2. wallet' = draft[r] /\ job' = job
      BY <1>9 DEF Commit, End
    <2>3. Sound(wallet', ledger'.deposit, ledger'.withdraw)
      BY <2>1, <2>2
    <2>4. /\ ledger.deposit <= ledger'.deposit /\ ledger.withdraw <= ledger'.withdraw
          /\ ledger'.deposit \in Nat /\ ledger'.withdraw \in Nat
      BY <1>b, <1>c, <2>1
    <2>5. ASSUME NEW s \in Requests, s # r
          PROVE  /\ Sound(seen[s], ledger'.deposit, ledger'.withdraw)
                 /\ Sound(draft[s], ledger'.deposit + ToDeposit(s),
                          ledger'.withdraw + ToWithdraw(s))
                 /\ seen'[s] = seen[s] /\ draft'[s] = draft[s] /\ pc'[s] = pc[s]
      <3>1. seen'[s] = seen[s] /\ draft'[s] = draft[s] /\ pc'[s] = pc[s]
        BY <1>9, <2>5 DEF Commit, End, TypeOK
      <3>2. Sound(seen[s], ledger'.deposit, ledger'.withdraw)
        BY <1>b, <1>c, <2>4, SoundGrows
      <3>3. Sound(draft[s], ledger'.deposit + ToDeposit(s), ledger'.withdraw + ToWithdraw(s))
        <4>1. /\ ledger.deposit + ToDeposit(s) <= ledger'.deposit + ToDeposit(s)
              /\ ledger.withdraw + ToWithdraw(s) <= ledger'.withdraw + ToWithdraw(s)
              /\ ledger.deposit + ToDeposit(s) \in Int /\ ledger'.deposit + ToDeposit(s) \in Int
              /\ ledger.withdraw + ToWithdraw(s) \in Int
              /\ ledger'.withdraw + ToWithdraw(s) \in Int
          BY <1>b, <1>c, <2>4
        <4>2. QED
          BY <1>c, <4>1, SoundGrows
      <3>4. QED
        BY <3>1, <3>2, <3>3
    <2>6. seen'[r] = EmptyRow /\ draft'[r] = EmptyRow /\ pc'[r] = "done"
      BY <1>9 DEF Commit, End, TypeOK
    <2>7. /\ Sound(EmptyRow, ledger'.deposit, ledger'.withdraw)
          /\ Sound(EmptyRow, ledger'.deposit + ToDeposit(r), ledger'.withdraw + ToWithdraw(r))
      <3>1. ledger'.deposit + ToDeposit(r) \in Nat /\ ledger'.withdraw + ToWithdraw(r) \in Nat
        BY <1>c, <2>4
      <3>2. QED
        BY <2>4, <3>1, EmptyRowSound
    <2>8. QED
      BY <1>a, <2>2, <2>3, <2>5, <2>6, <2>7
  <1>10. ASSUME NEW r \in Requests, Expire(r) PROVE BalanceInv'
    <2>1. /\ pc' = pc /\ wallet' = wallet /\ ledger' = ledger /\ job' = job
          /\ draft' = draft /\ seen' = seen
      BY <1>10 DEF Expire, local, tx
    <2>2. QED
      BY <1>a, <2>1
  <1>11. CASE Finished \/ UNCHANGED vars
    <2>1. /\ pc' = pc /\ wallet' = wallet /\ ledger' = ledger /\ job' = job
          /\ draft' = draft /\ seen' = seen
      BY <1>11 DEF Finished, vars, rows, local, tx
    <2>2. QED
      BY <1>a, <2>1
  <1>12. QED
    BY <1>1, <1>2, <1>3, <1>4, <1>5, <1>6, <1>7, <1>8, <1>9, <1>10, <1>11
       DEF Next, Progress

(* The rows, and all copies of them, stay sound.                            *)
THEOREM Balance == Spec => []BalanceInv
  BY BalanceInit, BalanceStep, Typing, PTL DEF Spec

(* However deposits, withdrawals and emptyings interleave, no balance is    *)
(* negative (wallet.service.ts:186).                                        *)
THEOREM NeverOverdrawnHolds == Spec => []NeverOverdrawn
  <1>1. BalanceInv => NeverOverdrawn
    BY DEF BalanceInv, Sound, NeverOverdrawn
  <1>2. QED
    BY <1>1, Balance, PTL

(* However they interleave, the wallet never holds more than was deposited. *)
THEOREM NoMintedCreditHolds == Spec => []NoMintedCredit
  <1>1. BalanceInv => NoMintedCredit
    BY DEF BalanceInv, Sound, NoMintedCredit
  <1>2. QED
    BY <1>1, Balance, PTL

(* However they interleave, creditUsed counts no page twice.                *)
THEOREM CreditUsedHolds == Spec => []CreditUsedNeverOverstated
  <1>1. BalanceInv => CreditUsedNeverOverstated
    BY DEF BalanceInv, Sound, CreditUsedNeverOverstated
  <1>2. QED
    BY <1>1, Balance, PTL

-----------------------------------------------------------------------------
(* The packages.  Copies of a package never exceed what was bought, a       *)
(* request writes only packages that exist and, if it buys one, its own.    *)
PackageInv ==
  \A p \in Requests :
    /\ creditLeft[p] <= Amount(p)
    /\ standing[p] # "none" <=> Kind(p) = "purchase" /\ pc[p] = "done"
    /\ standing[p] = "none" => creditLeft[p] = 0
    /\ p \in written[p] <=> Kind(p) = "purchase" /\ pc[p] = "written"
    /\ pc[p] = "credited" => Kind(p) = "purchase"
    /\ \A r \in Requests :
         /\ seenLeft[r][p] <= Amount(p)
         /\ draftLeft[r][p] <= Amount(p)
         /\ p \in todo[r] => standing[p] # "none"
         /\ p \in written[r] /\ p # r => standing[p] # "none"

LEMMA PackageInit == Init => PackageInv
  <1> SUFFICES ASSUME Init PROVE PackageInv
    OBVIOUS
  <1>1. TypeOK
    BY DEF Init, TypeOK, EmptyRow, NothingLeft, Row, Rows, Standing
  <1>2. ASSUME NEW p \in Requests PROVE Amount(p) \in Nat
    BY <1>1, JobTyping
  <1>3. QED
    BY <1>2 DEF Init, PackageInv, NothingLeft

(* Ending a request drops its drafts; a purchase ends with a package only   *)
(* by committing.                                                           *)
LEMMA EndPackages ==
  ASSUME TypeOK, PackageInv, NEW r \in Requests, NEW o \in Ended, End(r, o), UNCHANGED rows,
         pc[r] \in {"new"} \union Open, o = "done" => Kind(r) # "purchase"
  PROVE  PackageInv'
  <1>1. /\ creditLeft' = creditLeft /\ standing' = standing /\ job' = job
        /\ pc' = [pc EXCEPT ![r] = o]
        /\ seenLeft' = [seenLeft EXCEPT ![r] = NothingLeft]
        /\ draftLeft' = [draftLeft EXCEPT ![r] = NothingLeft]
        /\ todo' = [todo EXCEPT ![r] = {}]
        /\ written' = [written EXCEPT ![r] = {}]
    BY DEF End, rows
  <1>2. ASSUME NEW p \in Requests
        PROVE  Kind(p)' = Kind(p) /\ Amount(p)' = Amount(p) /\ Amount(p) \in Nat
    BY <1>1, JobTyping DEF Kind, Amount
  <1>3. pc'[r] = o /\ written'[r] = {} /\ o \notin {"credited", "written"}
    BY <1>1 DEF TypeOK, Ended
  <1>4. ASSUME NEW p \in Requests
        PROVE  /\ standing'[p] # "none" <=> Kind(p)' = "purchase" /\ pc'[p] = "done"
               /\ p \in written'[p] <=> Kind(p)' = "purchase" /\ pc'[p] = "written"
               /\ pc'[p] = "credited" => Kind(p)' = "purchase"
    <2>1. CASE p = r
      <3>1. standing[r] = "none"
        BY DEF PackageInv, Open
      <3>2. QED
        BY <1>1, <1>2, <1>3, <2>1, <3>1
    <2>2. CASE p # r
      BY <1>1, <1>2, <2>2 DEF TypeOK, PackageInv
    <2>3. QED
      BY <2>1, <2>2
  <1>5. ASSUME NEW p \in Requests, NEW s \in Requests
        PROVE  /\ seenLeft'[s][p] <= Amount(p)'
               /\ draftLeft'[s][p] <= Amount(p)'
               /\ p \in todo'[s] => standing'[p] # "none"
               /\ p \in written'[s] /\ p # s => standing'[p] # "none"
    BY <1>1, <1>2 DEF TypeOK, PackageInv, NothingLeft
  <1>6. ASSUME NEW p \in Requests
        PROVE  creditLeft'[p] <= Amount(p)' /\ (standing'[p] = "none" => creditLeft'[p] = 0)
    BY <1>1, <1>2 DEF PackageInv
  <1>7. QED
    BY <1>4, <1>5, <1>6 DEF PackageInv

LEMMA PackageStep == TypeOK /\ TypeOK' /\ PackageInv /\ [Next]_vars => PackageInv'
  <1> SUFFICES ASSUME TypeOK, TypeOK', PackageInv, [Next]_vars PROVE PackageInv'
    OBVIOUS
  <1>a. ASSUME NEW p \in Requests, job' = job
        PROVE  Kind(p)' = Kind(p) /\ Amount(p)' = Amount(p) /\ Amount(p) \in Nat
    BY <1>a, JobTyping DEF Kind, Amount
  <1>1. ASSUME NEW r \in Requests, FindWallet(r) PROVE PackageInv'
    <2>1. /\ pc[r] = "new" /\ pc' = [pc EXCEPT ![r] = "found"]
          /\ seenLeft' = [seenLeft EXCEPT ![r] = creditLeft]
          /\ todo' = [todo EXCEPT ![r] = {p \in Requests : Live(p)}]
          /\ creditLeft' = creditLeft /\ standing' = standing /\ job' = job
          /\ written' = written /\ draftLeft' = draftLeft
      BY <1>1 DEF FindWallet, rows, tx
    <2>2. \A p \in Requests : Live(p) => standing[p] # "none"
      BY DEF Live
    <2>3. ASSUME NEW p \in Requests, NEW s \in Requests
          PROVE  seenLeft'[s][p] <= Amount(p) /\ (p \in todo'[s] => standing[p] # "none")
      BY <2>1, <2>2 DEF PackageInv, TypeOK
    <2>4. QED
      BY <1>a, <2>1, <2>3 DEF PackageInv, TypeOK
  <1>2. ASSUME NEW r \in Requests, EmptyWallet(r) PROVE PackageInv'
    <2>1. /\ creditLeft' = creditLeft /\ standing' = standing /\ job' = job /\ pc' = pc
          /\ seenLeft' = seenLeft /\ todo' = todo /\ draftLeft' = draftLeft
          /\ written' = [written EXCEPT ![r] = @ \union {WalletRow}]
      BY <1>2 DEF EmptyWallet, rows
    <2>2. ASSUME NEW p \in Requests, NEW s \in Requests
          PROVE  p \in written'[s] <=> p \in written[s]
      BY <2>1, WalletRowAssumption DEF TypeOK
    <2>3. QED
      BY <1>a, <2>1, <2>2 DEF PackageInv
  <1>3. ASSUME NEW r \in Requests, EmptyWalletNow(r) PROVE PackageInv'
    BY <1>3, <1>a DEF EmptyWalletNow, tx, PackageInv
  <1>4. ASSUME NEW r \in Requests, Refuse(r) \/ Affirm(r) PROVE PackageInv'
    BY <1>4, EndPackages DEF Refuse, Affirm, Open, Ended
  <1>5. ASSUME NEW r \in Requests, DeadlockVictim(r) PROVE PackageInv'
    <2>1. pc[r] \in Open
      BY <1>5 DEF DeadlockVictim, WaitCycle, WaitsFor, NextPackages, Open
    <2>2. QED
      BY <1>5, <2>1, EndPackages DEF DeadlockVictim, Ended
  <1>6. ASSUME NEW r \in Requests, Abort(r) PROVE PackageInv'
    BY <1>6, EndPackages DEF Abort, Ended
  <1>7. ASSUME NEW r \in Requests, InsertTransaction(r) PROVE PackageInv'
    <2>1. /\ creditLeft' = creditLeft /\ standing' = standing /\ job' = job
          /\ pc[r] = "found" /\ pc' = [pc EXCEPT ![r] = "recorded"]
          /\ seenLeft' = seenLeft /\ todo' = todo /\ draftLeft' = draftLeft /\ written' = written
      BY <1>7 DEF InsertTransaction, rows, local, tx
    <2>2. QED
      BY <1>a, <2>1 DEF PackageInv, TypeOK
  <1>8. ASSUME NEW r \in Requests, UpdatePackage(r) PROVE PackageInv'
    <2>1. PICK q \in NextPackages(r) :
            /\ draftLeft' = [draftLeft EXCEPT ![r][q] = Drawn(seenLeft[r][q], due[r])]
            /\ written' = [written EXCEPT ![r] = @ \union {q}]
            /\ todo' = [todo EXCEPT ![r] = @ \ {q}]
      BY <1>8 DEF UpdatePackage
    <2>2. /\ q \in todo[r] /\ q \in Requests /\ Kind(r) = "withdraw" /\ pc[r] = "recorded"
          /\ seenLeft[r][q] \in Nat /\ due[r] \in Nat
      BY DEF NextPackages, TypeOK
    <2>3. /\ creditLeft' = creditLeft /\ standing' = standing /\ job' = job /\ pc' = pc
          /\ seenLeft' = seenLeft
      BY <1>8 DEF UpdatePackage, rows
    <2>4. standing[q] # "none" /\ q # r
      BY <2>2 DEF PackageInv
    <2>5. Drawn(seenLeft[r][q], due[r]) <= Amount(q)
      <3>1. seenLeft[r][q] <= Amount(q) /\ Amount(q) \in Nat
        BY <2>2, JobTyping DEF PackageInv
      <3>2. QED
        BY <2>2, <3>1 DEF Drawn, Excess
    <2>6. ASSUME NEW p \in Requests, NEW s \in Requests
          PROVE  /\ draftLeft'[s][p] <= Amount(p)
                 /\ p \in todo'[s] => standing[p] # "none"
                 /\ p \in written'[s] /\ p # s => standing[p] # "none"
                 /\ p \in written'[p] <=> p \in written[p]
      BY <2>1, <2>2, <2>4, <2>5 DEF PackageInv, TypeOK
    <2>7. QED
      BY <1>a, <2>3, <2>6 DEF PackageInv
  <1>9. ASSUME NEW r \in Requests, UpdateWallet(r) PROVE PackageInv'
    <2>1. /\ creditLeft' = creditLeft /\ standing' = standing /\ job' = job
          /\ pc[r] = "recorded"
          /\ pc' = [pc EXCEPT ![r] = IF Kind(r) = "purchase" THEN "credited" ELSE "written"]
          /\ seenLeft' = seenLeft /\ todo' = todo /\ draftLeft' = draftLeft
          /\ written' = [written EXCEPT ![r] = @ \union {WalletRow}]
      BY <1>9 DEF UpdateWallet, rows, local
    <2>2. ASSUME NEW p \in Requests, NEW s \in Requests
          PROVE  p \in written'[s] <=> p \in written[s]
      BY <2>1, WalletRowAssumption DEF TypeOK
    <2>3. ASSUME NEW p \in Requests
          PROVE  /\ standing[p] # "none" <=> Kind(p) = "purchase" /\ pc'[p] = "done"
                 /\ p \in written[p] <=> Kind(p) = "purchase" /\ pc'[p] = "written"
                 /\ pc'[p] = "credited" => Kind(p) = "purchase"
      BY <2>1 DEF PackageInv, TypeOK
    <2>4. QED
      BY <1>a, <2>1, <2>2, <2>3 DEF PackageInv
  <1>10. ASSUME NEW r \in Requests, CreateWalletPackage(r) PROVE PackageInv'
    <2>1. /\ creditLeft' = creditLeft /\ standing' = standing /\ job' = job
          /\ pc[r] = "credited" /\ pc' = [pc EXCEPT ![r] = "written"]
          /\ seenLeft' = seenLeft /\ todo' = todo
          /\ draftLeft' = [draftLeft EXCEPT ![r][r] = Amount(r)]
          /\ written' = [written EXCEPT ![r] = @ \union {r}]
      BY <1>10 DEF CreateWalletPackage, rows, local
    <2>2. Kind(r) = "purchase" /\ Amount(r) \in Nat
      BY <2>1, JobTyping DEF PackageInv
    <2>3. ASSUME NEW p \in Requests, NEW s \in Requests
          PROVE  /\ draftLeft'[s][p] <= Amount(p)
                 /\ p \in written'[s] /\ p # s => standing[p] # "none"
      BY <2>1, <2>2 DEF PackageInv, TypeOK
    <2>4. ASSUME NEW p \in Requests
          PROVE  /\ standing[p] # "none" <=> Kind(p) = "purchase" /\ pc'[p] = "done"
                 /\ p \in written'[p] <=> Kind(p) = "purchase" /\ pc'[p] = "written"
                 /\ pc'[p] = "credited" => Kind(p) = "purchase"
      BY <2>1, <2>2 DEF PackageInv, TypeOK
    <2>5. QED
      BY <1>a, <2>1, <2>3, <2>4 DEF PackageInv
  <1>11. ASSUME NEW r \in Requests, Commit(r) PROVE PackageInv'
    <2>1. /\ pc[r] = "written" /\ pc' = [pc EXCEPT ![r] = "done"] /\ job' = job
          /\ seenLeft' = [seenLeft EXCEPT ![r] = NothingLeft]
          /\ draftLeft' = [draftLeft EXCEPT ![r] = NothingLeft]
          /\ todo' = [todo EXCEPT ![r] = {}]
          /\ written' = [written EXCEPT ![r] = {}]
          /\ standing' = [standing EXCEPT ![r] = IF r \in written[r] THEN "live" ELSE @]
      BY <1>11 DEF Commit, End
    <2>2. ASSUME NEW p \in Requests
          PROVE  creditLeft'[p] = IF p \in written[r] THEN draftLeft[r][p] ELSE creditLeft[p]
      BY <1>11 DEF Commit
    <2>3. r \in written[r] <=> Kind(r) = "purchase"
      BY <2>1 DEF PackageInv
    <2>4. standing[r] = "none"
      BY <2>1 DEF PackageInv
    <2>5. ASSUME NEW p \in Requests
          PROVE  /\ standing'[p] # "none" <=> Kind(p) = "purchase" /\ pc'[p] = "done"
                 /\ standing[p] # "none" => standing'[p] # "none"
      BY <2>1, <2>3, <2>4 DEF PackageInv, TypeOK
    <2>6. ASSUME NEW p \in Requests
          PROVE  /\ creditLeft'[p] <= Amount(p)
                 /\ standing'[p] = "none" => creditLeft'[p] = 0
      <3>1. creditLeft'[p] <= Amount(p)
        BY <2>2 DEF PackageInv
      <3>2. ASSUME standing'[p] = "none" PROVE creditLeft'[p] = 0
        <4>1. standing[p] = "none"
          BY <2>5, <3>2
        <4>2. p \notin written[r]
          <5>1. CASE p = r
            BY <2>1, <3>2, <5>1 DEF TypeOK
          <5>2. CASE p # r
            BY <4>1, <5>2 DEF PackageInv
          <5>3. QED
            BY <5>1, <5>2
        <4>3. QED
          BY <2>2, <4>1, <4>2 DEF PackageInv
      <3>3. QED
        BY <3>1, <3>2
    <2>7. ASSUME NEW p \in Requests
          PROVE  /\ p \in written'[p] <=> Kind(p) = "purchase" /\ pc'[p] = "written"
                 /\ pc'[p] = "credited" => Kind(p) = "purchase"
      BY <2>1 DEF PackageInv, TypeOK
    <2>8. ASSUME NEW p \in Requests, NEW s \in Requests
          PROVE  /\ seenLeft'[s][p] <= Amount(p)
                 /\ draftLeft'[s][p] <= Amount(p)
                 /\ p \in todo'[s] => standing'[p] # "none"
                 /\ p \in written'[s] /\ p # s => standing'[p] # "none"
      BY <1>a, <2>1, <2>5 DEF PackageInv, TypeOK, NothingLeft
    <2>9. QED
      BY <1>a, <2>1, <2>5, <2>6, <2>7, <2>8 DEF PackageInv
  <1>12. ASSUME NEW r \in Requests, Expire(r) PROVE PackageInv'
    <2>1. /\ standing[r] = "live" /\ standing' = [standing EXCEPT ![r] = "expired"]
          /\ creditLeft' = creditLeft /\ job' = job /\ pc' = pc /\ seenLeft' = seenLeft
          /\ todo' = todo /\ written' = written /\ draftLeft' = draftLeft
      BY <1>12 DEF Expire, local, tx
    <2>2. \A p \in Requests : standing'[p] = "none" <=> standing[p] = "none"
      BY <2>1 DEF TypeOK
    <2>3. QED
      BY <1>a, <2>1, <2>2 DEF PackageInv
  <1>13. CASE Finished \/ UNCHANGED vars
    <2>1. /\ creditLeft' = creditLeft /\ standing' = standing /\ job' = job /\ pc' = pc
          /\ seenLeft' = seenLeft /\ todo' = todo /\ written' = written
          /\ draftLeft' = draftLeft
      BY <1>13 DEF Finished, vars, rows, local, tx
    <2>2. QED
      BY <1>a, <2>1 DEF PackageInv
  <1>14. QED
    BY <1>1, <1>2, <1>3, <1>4, <1>5, <1>6, <1>7, <1>8, <1>9, <1>10, <1>11, <1>12, <1>13
       DEF Next, Progress

(* However requests interleave, a package exists exactly when the purchase  *)
(* that paid for it committed, and never offers more than was bought.       *)
THEOREM PackagesAsBoughtHolds == Spec => []PackagesAsBought
  <1>1. PackageInv => PackagesAsBought
    BY DEF PackageInv, PackagesAsBought
  <1>2. Spec => []PackageInv
    BY PackageInit, PackageStep, Typing, PTL DEF Spec
  <1>3. QED
    BY <1>1, <1>2, PTL

-----------------------------------------------------------------------------
(* Requests that do not overlap (Concurrency = 1), any number of them with  *)
(* any jobs: nothing is spent twice, creditUsed and the packages agree with *)
(* the wallet, and the handlers implement the account of WalletAccount.tla. *)
(*                                                                         *)
(* Each invariant is relative to the ones before: what an open request has  *)
(* read is still what the rows say (SerialInv), and what it draws from the  *)
(* packages is what it takes from the wallet (BackedInv).                  *)

Backed == \E p \in Requests : Live(p)

AtMostOneOpen ==
  \A r, s \in Requests : pc[r] \in Open /\ pc[s] \in Open => r = s

(* What an open request has read is what the rows still say, except that a  *)
(* withdrawal may have emptied its copy of a wallet that nothing backs.     *)
FreshMemory(r) ==
  /\ pc[r] \in Open =>
       /\ seen[r].giftCredit = wallet.giftCredit
       /\ seen[r].creditUsed = wallet.creditUsed
       /\ \/ seen[r].credit = wallet.credit
          \/ Kind(r) = "withdraw" /\ seen[r].credit = 0 /\ ~Backed
       /\ seenLeft[r] = creditLeft
  /\ pc[r] = "found" => {p \in Requests : Live(p)} \subseteq todo[r]

(* What it has written is what Commit is to publish: the new version of     *)
(* the wallet, its own package, and packages with credit taken off.         *)
FreshDrafts(r) ==
  /\ pc[r] \in {"recorded", "credited", "written"} /\ Kind(r) = "withdraw"
       => Amount(r) <= seen[r].credit + seen[r].giftCredit
  /\ pc[r] \in {"credited", "written"} => draft[r] = NewVersion(r)
  /\ \A p \in Requests : p \in written[r] =>
       /\ pc[r] \in Open
       /\ \/ Kind(r) = "purchase" /\ p = r /\ draftLeft[r][p] = Amount(r)
          \/ Kind(r) = "withdraw" /\ draftLeft[r][p] <= creditLeft[p]

SerialInv ==
  /\ AtMostOneOpen
  /\ \A r \in Requests : FreshMemory(r) /\ FreshDrafts(r)
  /\ NothingSpentTwice
  /\ CreditUsedMatchesLedger

(* The columns of the row an UPDATE makes.                                  *)
LEMMA NewVersionColumns ==
  ASSUME TypeOK, NEW r \in Requests
  PROVE  /\ Kind(r) = "gift" =>
              /\ NewVersion(r).credit = seen[r].credit
              /\ NewVersion(r).giftCredit = seen[r].giftCredit + Amount(r)
              /\ NewVersion(r).creditUsed = wallet.creditUsed
         /\ Kind(r) \in {"refund", "purchase"} =>
              /\ NewVersion(r).credit = seen[r].credit + Amount(r)
              /\ NewVersion(r).giftCredit = seen[r].giftCredit
              /\ NewVersion(r).creditUsed = wallet.creditUsed
         /\ Kind(r) = "withdraw" =>
              /\ NewVersion(r).credit = seen[r].credit - Excess(Amount(r), seen[r].giftCredit)
              /\ NewVersion(r).giftCredit = Excess(seen[r].giftCredit, Amount(r))
              /\ NewVersion(r).creditUsed = seen[r].creditUsed + Amount(r)
  <1>1. Amount(r) \in Nat
    BY JobTyping
  <1>2. seen[r] \in Row /\ wallet \in Row
    BY DEF TypeOK
  <1>3. /\ seen[r].credit \in Int /\ seen[r].giftCredit \in Int
        /\ seen[r].credit + Amount(r) \in Int /\ seen[r].giftCredit + Amount(r) \in Int
    BY <1>1, <1>2 DEF Row
  <1>4. ASSUME Kind(r) = "gift"
        PROVE  /\ NewVersion(r).credit = seen[r].credit
               /\ NewVersion(r).giftCredit = seen[r].giftCredit + Amount(r)
               /\ NewVersion(r).creditUsed = wallet.creditUsed
    <2>1. NewVersion(r) = GiftVersion(r)
      BY <1>4 DEF NewVersion
    <2>2. QED
      BY <1>2, <1>3, <2>1 DEF GiftVersion, Row
  <1>5. ASSUME Kind(r) \in {"refund", "purchase"}
        PROVE  /\ NewVersion(r).credit = seen[r].credit + Amount(r)
               /\ NewVersion(r).giftCredit = seen[r].giftCredit
               /\ NewVersion(r).creditUsed = wallet.creditUsed
    <2>1. NewVersion(r) = CreditVersion(r)
      BY <1>5 DEF NewVersion
    <2>2. QED
      BY <1>2, <1>3, <2>1 DEF CreditVersion, Row
  <1>6. Kind(r) = "withdraw" => NewVersion(r) = WithdrawVersion(r)
    BY DEF NewVersion
  <1>7. QED
    BY <1>4, <1>5, <1>6 DEF WithdrawVersion

(* A step that changes no row and nothing of a request keeps it fresh.      *)
LEMMA StaysFresh ==
  ASSUME NEW s \in Requests, FreshMemory(s), FreshDrafts(s),
         UNCHANGED rows, job' = job,
         pc'[s] = pc[s], seen'[s] = seen[s], seenLeft'[s] = seenLeft[s], todo'[s] = todo[s],
         written'[s] = written[s], draft'[s] = draft[s], draftLeft'[s] = draftLeft[s]
  PROVE  FreshMemory(s)' /\ FreshDrafts(s)'
  <1>1. Kind(s)' = Kind(s) /\ Amount(s)' = Amount(s) /\ NewVersion(s)' = NewVersion(s)
    BY DEF Kind, Amount, NewVersion, GiftVersion, CreditVersion, WithdrawVersion, rows
  <1>2. \A p \in Requests : Live(p)' <=> Live(p)
    BY DEF Live, rows
  <1>3. FreshMemory(s)'
    BY <1>1, <1>2 DEF FreshMemory, Backed, rows
  <1>4. FreshDrafts(s)'
    BY <1>1 DEF FreshDrafts, rows
  <1>5. QED
    BY <1>3, <1>4

(* A request that is not open has nothing to be stale.                      *)
LEMMA IdleIsFresh ==
  ASSUME NEW s \in Requests, pc'[s] \notin Open, written'[s] \intersect Requests = {}
  PROVE  FreshMemory(s)' /\ FreshDrafts(s)'
  BY DEF FreshMemory, FreshDrafts, Open

(* At first nothing is open and nothing has been moved.                     *)
LEMMA SerialInit == Init => SerialInv
  <1> SUFFICES ASSUME Init PROVE SerialInv
    OBVIOUS
  <1>1. ASSUME NEW s \in Requests PROVE pc[s] \notin Open /\ FreshMemory(s) /\ FreshDrafts(s)
    BY DEF Init, Open, FreshMemory, FreshDrafts
  <1>2. NothingSpentTwice /\ CreditUsedMatchesLedger
    BY DEF Init, NothingSpentTwice, CreditUsedMatchesLedger, EmptyRow
  <1>3. QED
    BY <1>1, <1>2 DEF SerialInv, AtMostOneOpen

(* No step of a request touches what another has in memory or has written.  *)
OnlyOf(r) ==
  /\ job' = job
  /\ \A s \in Requests \ {r} :
       /\ pc'[s] = pc[s] /\ seen'[s] = seen[s] /\ seenLeft'[s] = seenLeft[s]
       /\ todo'[s] = todo[s] /\ written'[s] = written[s]
       /\ draft'[s] = draft[s] /\ draftLeft'[s] = draftLeft[s]

(* Each of a request's steps is one of its own.                             *)
LEMMA OwnSteps ==
  ASSUME TypeOK, NEW r \in Requests, FindWallet(r) \/ Progress(r) \/ Abort(r)
  PROVE  OnlyOf(r)
  <1>1. ASSUME NEW o, End(r, o) PROVE OnlyOf(r)
    BY <1>1 DEF End, OnlyOf, TypeOK
  <1>2. CASE FindWallet(r)
    BY <1>2 DEF FindWallet, OnlyOf, TypeOK, tx
  <1>3. CASE EmptyWallet(r)
    BY <1>3 DEF EmptyWallet, OnlyOf, TypeOK
  <1>4. CASE EmptyWalletNow(r)
    BY <1>4 DEF EmptyWalletNow, OnlyOf, TypeOK, tx
  <1>5. CASE InsertTransaction(r)
    BY <1>5 DEF InsertTransaction, OnlyOf, TypeOK, local, tx
  <1>6. CASE UpdatePackage(r)
    BY <1>6 DEF UpdatePackage, OnlyOf, TypeOK
  <1>7. CASE UpdateWallet(r)
    BY <1>7 DEF UpdateWallet, OnlyOf, TypeOK, local
  <1>8. CASE CreateWalletPackage(r)
    BY <1>8 DEF CreateWalletPackage, OnlyOf, TypeOK, local
  <1>9. CASE Refuse(r) \/ Affirm(r) \/ Commit(r) \/ DeadlockVictim(r) \/ Abort(r)
    BY <1>1, <1>9 DEF Refuse, Affirm, Commit, DeadlockVictim, Abort
  <1>10. QED
    BY <1>2, <1>3, <1>4, <1>5, <1>6, <1>7, <1>8, <1>9 DEF Progress

(* A step of r that changes no row keeps the others fresh; it must only keep *)
(* r so, and open at most r.                                                 *)
LEMMA OwnSerial ==
  ASSUME TypeOK, SerialInv, NEW r \in Requests, OnlyOf(r), UNCHANGED rows,
         \A s \in Requests \ {r} : pc'[r] \in Open => pc[s] \notin Open,
         FreshMemory(r)', FreshDrafts(r)'
  PROVE  SerialInv'
  <1>1. ASSUME NEW s \in Requests, s # r PROVE FreshMemory(s)' /\ FreshDrafts(s)'
    BY <1>1, StaysFresh DEF SerialInv, OnlyOf
  <1>2. AtMostOneOpen'
    BY DEF SerialInv, AtMostOneOpen, OnlyOf
  <1>3. NothingSpentTwice' /\ CreditUsedMatchesLedger'
    BY DEF SerialInv, NothingSpentTwice, CreditUsedMatchesLedger, rows
  <1>4. QED
    BY <1>1, <1>2, <1>3 DEF SerialInv

(* The handler ends without a commit.                                       *)
LEMMA EndSerial ==
  ASSUME TypeOK, SerialInv, NEW r \in Requests, NEW o \in Ended, End(r, o), OnlyOf(r),
         UNCHANGED rows
  PROVE  SerialInv'
  <1>1. pc'[r] = o /\ o \notin Open /\ written'[r] = {}
    BY DEF End, TypeOK, Open, Ended
  <1>2. FreshMemory(r)' /\ FreshDrafts(r)'
    BY <1>1, IdleIsFresh
  <1>3. QED
    BY <1>1, <1>2, OwnSerial

(* With Concurrency = 1 a handler begins only when no other is under way.   *)
LEMMA FindAlone ==
  ASSUME Concurrency = 1, SerialInv, NEW r \in Requests, FindWallet(r)
  PROVE  \A s \in Requests : pc[s] \notin Open
  <1> SUFFICES ASSUME NEW s \in Requests, pc[s] \in Open PROVE FALSE
    OBVIOUS
  <1>1. {q \in Requests : pc[q] \in Open} = {s}
    BY DEF SerialInv, AtMostOneOpen
  <1>2. Cardinality({s}) = 1
    BY FS_Singleton
  <1>3. QED
    BY <1>1, <1>2 DEF FindWallet

(* What is read with nobody else at work is fresh.                          *)
LEMMA FindSerial ==
  ASSUME Concurrency = 1, TypeOK, SerialInv, NEW r \in Requests, FindWallet(r), OnlyOf(r)
  PROVE  SerialInv'
  <1>1. /\ pc'[r] = "found" /\ seen'[r] = wallet /\ seenLeft'[r] = creditLeft
        /\ todo'[r] = {p \in Requests : Live(p)}
        /\ UNCHANGED rows /\ written' = written /\ job' = job
    BY DEF FindWallet, TypeOK, tx
  <1>2. \A s \in Requests : pc[s] \notin Open
    BY FindAlone
  <1>3. FreshMemory(r)'
    BY <1>1 DEF FreshMemory, Live, rows
  <1>4. FreshDrafts(r)'
    BY <1>1, <1>2 DEF FreshDrafts, SerialInv
  <1>5. QED
    BY <1>1, <1>2, <1>3, <1>4, OwnSerial

(* An open request is the only one.                                         *)
LEMMA OthersIdle ==
  ASSUME SerialInv, NEW r \in Requests, pc[r] \in Open, NEW s \in Requests, s # r
  PROVE  pc[s] \notin Open /\ written[s] \intersect Requests = {}
  BY DEF SerialInv, AtMostOneOpen, FreshDrafts

(* An emptying in memory happens only to a wallet that nothing backs.       *)
LEMMA EmptySerial ==
  ASSUME TypeOK, SerialInv, NEW r \in Requests, EmptyWallet(r), OnlyOf(r)
  PROVE  SerialInv'
  <1>1. /\ UNCHANGED rows /\ job' = job
        /\ pc[r] = "found" /\ pc'[r] = "found" /\ Kind(r) = "withdraw"
        /\ todo[r] = {} /\ todo'[r] = {} /\ seenLeft'[r] = seenLeft[r]
        /\ seen' = [seen EXCEPT ![r] = [seen[r] EXCEPT !.credit = 0]]
        /\ written'[r] = written[r] \union {WalletRow} /\ draftLeft' = draftLeft
    BY DEF EmptyWallet, NeedsEmptying, TypeOK
  <1>2. seen'[r].credit = 0 /\ seen'[r].giftCredit = seen[r].giftCredit
        /\ seen'[r].creditUsed = seen[r].creditUsed
    BY <1>1 DEF TypeOK, Row
  <1>3. FreshMemory(r) /\ FreshDrafts(r)
    BY DEF SerialInv
  <1>4. ~Backed
    BY <1>1, <1>3 DEF FreshMemory, Backed
  <1>5. Kind(r)' = Kind(r) /\ Amount(r)' = Amount(r) /\ (Backed' <=> Backed)
        /\ \A p \in Requests : Live(p)' <=> Live(p)
    BY <1>1 DEF Kind, Amount, Backed, Live, rows
  <1>6. FreshMemory(r)'
    BY <1>1, <1>2, <1>3, <1>4, <1>5 DEF FreshMemory, Open, rows, Backed
  <1>7. \A p \in Requests : p \in written'[r] => p \in written[r]
    BY <1>1, WalletRowAssumption
  <1>8. FreshDrafts(r)'
    BY <1>1, <1>3, <1>5, <1>7 DEF FreshDrafts, rows
  <1>9. QED
    BY <1>1, <1>6, <1>8, OwnSerial, OthersIdle DEF Open

(* canAfford's emptying forgets credit; it spends none.                     *)
LEMMA EmptyNowSerial ==
  ASSUME TypeOK, BalanceInv, SerialInv, NEW r \in Requests, EmptyWalletNow(r), OnlyOf(r)
  PROVE  SerialInv'
  <1>1. /\ UNCHANGED <<creditLeft, standing, ledger>> /\ job' = job
        /\ pc[r] = "found" /\ pc'[r] = "found" /\ Kind(r) = "check"
        /\ todo' = todo /\ seenLeft' = seenLeft
        /\ wallet' = [wallet EXCEPT !.credit = 0]
        /\ seen' = [seen EXCEPT ![r] = [seen[r] EXCEPT !.credit = 0]]
        /\ written' = written /\ draftLeft' = draftLeft
    BY DEF EmptyWalletNow, TypeOK, tx
  <1>2. seen'[r].credit = 0 /\ seen'[r].giftCredit = seen[r].giftCredit
        /\ seen'[r].creditUsed = seen[r].creditUsed
    BY <1>1 DEF TypeOK, Row
  <1>3. wallet'.credit = 0 /\ wallet'.giftCredit = wallet.giftCredit
        /\ wallet'.creditUsed = wallet.creditUsed
    BY <1>1 DEF TypeOK, Row
  <1>4. FreshMemory(r) /\ FreshDrafts(r)
    BY DEF SerialInv
  <1>5. Kind(r)' = Kind(r) /\ Amount(r)' = Amount(r)
        /\ \A p \in Requests : Live(p)' <=> Live(p)
    BY <1>1 DEF Kind, Amount, Live
  <1>6. FreshMemory(r)'
    BY <1>1, <1>2, <1>3, <1>4, <1>5 DEF FreshMemory, Open
  <1>7. FreshDrafts(r)'
    BY <1>1, <1>4, <1>5 DEF FreshDrafts
  <1>8. ASSUME NEW s \in Requests, s # r
        PROVE  pc'[s] \notin Open /\ FreshMemory(s)' /\ FreshDrafts(s)'
    <2>1. pc[r] \in Open /\ pc'[s] = pc[s]
      BY <1>1, <1>8 DEF OnlyOf, Open
    <2>2. pc[s] \notin Open /\ written[s] \intersect Requests = {}
      BY <1>8, <2>1, OthersIdle
    <2>3. QED
      BY <1>1, <2>1, <2>2, IdleIsFresh
  <1>9. NothingSpentTwice' /\ CreditUsedMatchesLedger'
    BY <1>1, <1>3 DEF SerialInv, NothingSpentTwice, CreditUsedMatchesLedger, BalanceInv,
                      Sound, TypeOK, Row
  <1>10. AtMostOneOpen'
    BY <1>8 DEF AtMostOneOpen
  <1>11. QED
    BY <1>6, <1>7, <1>8, <1>9, <1>10 DEF SerialInv

(* A withdrawal that gets past the check can be paid.                       *)
LEMMA InsertSerial ==
  ASSUME TypeOK, SerialInv, NEW r \in Requests, InsertTransaction(r), OnlyOf(r)
  PROVE  SerialInv'
  <1>1. /\ UNCHANGED rows /\ job' = job
        /\ pc[r] = "found" /\ pc'[r] = "recorded"
        /\ seen' = seen /\ seenLeft' = seenLeft /\ written' = written /\ draftLeft' = draftLeft
    BY DEF InsertTransaction, TypeOK, local, tx
  <1>2. Kind(r) = "withdraw" => Amount(r) <= seen[r].credit + seen[r].giftCredit
    BY JobTyping DEF InsertTransaction, CannotAfford, Row, TypeOK
  <1>3. FreshMemory(r) /\ FreshDrafts(r)
    BY DEF SerialInv
  <1>4. Kind(r)' = Kind(r) /\ Amount(r)' = Amount(r) /\ (Backed' <=> Backed)
    BY <1>1 DEF Kind, Amount, Backed, Live, rows
  <1>5. FreshMemory(r)' /\ FreshDrafts(r)'
    BY <1>1, <1>2, <1>3, <1>4 DEF FreshMemory, FreshDrafts, Open, rows
  <1>6. QED
    BY <1>1, <1>5, OwnSerial, OthersIdle DEF Open

(* The loop only ever takes credit off a package.                           *)
LEMMA UpdatePackageSerial ==
  ASSUME TypeOK, SerialInv, NEW r \in Requests, UpdatePackage(r), OnlyOf(r)
  PROVE  SerialInv'
  <1>1. PICK p \in NextPackages(r) :
          /\ draftLeft' = [draftLeft EXCEPT ![r][p] = Drawn(seenLeft[r][p], due[r])]
          /\ written' = [written EXCEPT ![r] = @ \union {p}]
    BY DEF UpdatePackage
  <1>2. /\ UNCHANGED rows /\ job' = job /\ pc' = pc /\ seen' = seen /\ seenLeft' = seenLeft
        /\ pc[r] = "recorded" /\ Kind(r) = "withdraw" /\ p \in Requests
        /\ seenLeft[r][p] \in Nat /\ due[r] \in Nat
    BY DEF UpdatePackage, NextPackages, TypeOK
  <1>3. FreshMemory(r) /\ FreshDrafts(r)
    BY DEF SerialInv
  <1>4. Kind(r)' = Kind(r) /\ Amount(r)' = Amount(r) /\ (Backed' <=> Backed)
    BY <1>2 DEF Kind, Amount, Backed, Live, rows
  <1>5. FreshMemory(r)'
    BY <1>2, <1>3, <1>4 DEF FreshMemory, rows
  <1>6. Drawn(seenLeft[r][p], due[r]) <= creditLeft[p]
    BY <1>2, <1>3 DEF FreshMemory, Drawn, Excess, Open
  <1>7. ASSUME NEW q \in Requests, q \in written'[r]
        PROVE  draftLeft'[r][q] <= creditLeft[q]
    <2>1. CASE q = p
      BY <1>1, <1>2, <1>6, <2>1 DEF TypeOK
    <2>2. CASE q # p
      BY <1>1, <1>2, <1>3, <1>7, <2>2 DEF TypeOK, FreshDrafts
    <2>3. QED
      BY <2>1, <2>2
  <1>8. FreshDrafts(r)'
    BY <1>2, <1>3, <1>4, <1>7 DEF FreshDrafts, Open, rows
  <1>9. QED
    BY <1>2, <1>5, <1>8, OwnSerial, OthersIdle DEF Open
(* The draft is the version computed from the fresh memory.                 *)
LEMMA UpdateWalletSerial ==
  ASSUME TypeOK, BalanceInv, SerialInv, NEW r \in Requests, UpdateWallet(r), OnlyOf(r)
  PROVE  SerialInv'
  <1>1. /\ UNCHANGED rows /\ job' = job /\ seen' = seen /\ seenLeft' = seenLeft
        /\ pc[r] = "recorded" /\ pc'[r] \in {"credited", "written"}
        /\ draft'[r] = NewVersion(r) /\ draftLeft' = draftLeft
        /\ written'[r] = written[r] \union {WalletRow}
    BY DEF UpdateWallet, TypeOK, local
  <1>2. FreshMemory(r) /\ FreshDrafts(r)
    BY DEF SerialInv
  <1>3. Kind(r)' = Kind(r) /\ Amount(r)' = Amount(r) /\ (Backed' <=> Backed)
        /\ NewVersion(r)' = NewVersion(r)
    BY <1>1 DEF Kind, Amount, Backed, Live, rows,
                NewVersion, GiftVersion, CreditVersion, WithdrawVersion
  <1>4. FreshMemory(r)'
    BY <1>1, <1>2, <1>3 DEF FreshMemory, Open, rows
  <1>5. \A p \in Requests : p \in written'[r] => p \in written[r]
    BY <1>1, WalletRowAssumption
  <1>6. FreshDrafts(r)'
    BY <1>1, <1>2, <1>3, <1>5 DEF FreshDrafts, Open, rows
  <1>7. QED
    BY <1>1, <1>4, <1>6, OwnSerial, OthersIdle DEF Open

(* A purchase drafts its own package and no other.                          *)
LEMMA CreatePackageSerial ==
  ASSUME TypeOK, PackageInv, SerialInv, NEW r \in Requests, CreateWalletPackage(r), OnlyOf(r)
  PROVE  SerialInv'
  <1>1. /\ UNCHANGED rows /\ job' = job /\ seen' = seen /\ seenLeft' = seenLeft
        /\ pc[r] = "credited" /\ pc'[r] = "written" /\ draft' = draft
        /\ draftLeft' = [draftLeft EXCEPT ![r][r] = Amount(r)]
        /\ written'[r] = written[r] \union {r}
    BY DEF CreateWalletPackage, TypeOK, local
  <1>2. FreshMemory(r) /\ FreshDrafts(r) /\ Kind(r) = "purchase"
    BY <1>1 DEF SerialInv, PackageInv
  <1>3. Kind(r)' = Kind(r) /\ Amount(r)' = Amount(r) /\ (Backed' <=> Backed)
        /\ NewVersion(r)' = NewVersion(r)
    BY <1>1 DEF Kind, Amount, Backed, Live, rows,
                NewVersion, GiftVersion, CreditVersion, WithdrawVersion
  <1>4. FreshMemory(r)'
    BY <1>1, <1>2, <1>3 DEF FreshMemory, Open, rows
  <1>5. ASSUME NEW p \in Requests, p \in written'[r]
        PROVE  p = r /\ draftLeft'[r][p] = Amount(r)
    <2>1. p = r
      BY <1>1, <1>2, <1>5 DEF FreshDrafts
    <2>2. QED
      BY <1>1, <2>1 DEF TypeOK
  <1>6. FreshDrafts(r)'
    BY <1>1, <1>2, <1>3, <1>5 DEF FreshDrafts, Open, rows
  <1>7. QED
    BY <1>1, <1>4, <1>6, OwnSerial, OthersIdle DEF Open

(* What a commit publishes, column by column.                               *)
LEMMA CommitColumns ==
  ASSUME TypeOK, BalanceInv, SerialInv, NEW r \in Requests, Commit(r)
  PROVE  /\ Kind(r) \in {"gift", "refund", "purchase", "withdraw"} /\ Amount(r) \in Nat
         /\ Kind(r) = "gift" =>
              /\ wallet'.credit = wallet.credit
              /\ wallet'.giftCredit = wallet.giftCredit + Amount(r)
         /\ Kind(r) \in {"refund", "purchase"} =>
              /\ wallet'.credit = wallet.credit + Amount(r)
              /\ wallet'.giftCredit = wallet.giftCredit
         /\ Kind(r) # "withdraw" =>
              /\ wallet'.creditUsed = wallet.creditUsed
              /\ ledger'.deposit = ledger.deposit + Amount(r)
              /\ ledger'.withdraw = ledger.withdraw
         /\ Kind(r) = "withdraw" =>
              /\ Amount(r) <= seen[r].credit + wallet.giftCredit
              /\ wallet'.credit = seen[r].credit - Excess(Amount(r), wallet.giftCredit)
              /\ wallet'.giftCredit = Excess(wallet.giftCredit, Amount(r))
              /\ wallet'.creditUsed = wallet.creditUsed + Amount(r)
              /\ ledger'.deposit = ledger.deposit
              /\ ledger'.withdraw = ledger.withdraw + Amount(r)
              /\ seen[r].credit = wallet.credit \/ (seen[r].credit = 0 /\ ~Backed)
  <1>1. pc[r] = "written" /\ wallet' = draft[r]
    BY DEF Commit
  <1>2. Kind(r) \in {"gift", "refund", "purchase", "withdraw"} /\ Amount(r) \in Nat
    BY <1>1, JobTyping DEF BalanceInv, Kinds, DepositKinds
  <1>3. wallet' = NewVersion(r)
    BY <1>1 DEF SerialInv, FreshDrafts
  <1>4. /\ seen[r].giftCredit = wallet.giftCredit
        /\ seen[r].creditUsed = wallet.creditUsed
        /\ \/ seen[r].credit = wallet.credit
           \/ Kind(r) = "withdraw" /\ seen[r].credit = 0 /\ ~Backed
    BY <1>1 DEF SerialInv, FreshMemory, Open
  <1>5. Kind(r) = "withdraw" => Amount(r) <= seen[r].credit + seen[r].giftCredit
    BY <1>1 DEF SerialInv, FreshDrafts
  <1>6. IF Kind(r) = "withdraw"
        THEN ledger'.deposit = ledger.deposit /\ ledger'.withdraw = ledger.withdraw + Amount(r)
        ELSE ledger'.deposit = ledger.deposit + Amount(r) /\ ledger'.withdraw = ledger.withdraw
    BY <1>2 DEF Commit, TypeOK
  <1>7. QED
    BY <1>2, <1>3, <1>4, <1>5, <1>6, NewVersionColumns

(* A commit moves as many pages in the wallet as in the transactions table. *)
LEMMA CommitSerial ==
  ASSUME TypeOK, BalanceInv, SerialInv, NEW r \in Requests, Commit(r), OnlyOf(r)
  PROVE  SerialInv'
  <1>1. pc[r] = "written" /\ pc'[r] = "done" /\ written'[r] = {}
    BY DEF Commit, End, TypeOK
  <1>2. ASSUME NEW s \in Requests
        PROVE  pc'[s] \notin Open /\ written'[s] \intersect Requests = {}
    <2>1. CASE s = r
      BY <1>1, <2>1 DEF Open
    <2>2. CASE s # r
      <3>1. pc[r] \in Open
        BY <1>1 DEF Open
      <3>2. QED
        BY <2>2, <3>1, OthersIdle DEF OnlyOf
    <2>3. QED
      BY <2>1, <2>2
  <1>3. \A s \in Requests : FreshMemory(s)' /\ FreshDrafts(s)'
    BY <1>2, IdleIsFresh
  <1>4. /\ wallet.credit \in Int /\ wallet.giftCredit \in Int /\ wallet.creditUsed \in Int
        /\ seen[r].credit \in Int /\ wallet.credit >= 0
        /\ ledger.deposit \in Nat /\ ledger.withdraw \in Nat
    BY DEF TypeOK, Row, BalanceInv, Sound
  <1>5. NothingSpentTwice /\ CreditUsedMatchesLedger
    BY DEF SerialInv
  <1>6. NothingSpentTwice' /\ CreditUsedMatchesLedger'
    <2>1. CASE Kind(r) = "withdraw"
      <3>1. /\ Amount(r) \in Nat
            /\ wallet'.credit = seen[r].credit - Excess(Amount(r), wallet.giftCredit)
            /\ wallet'.giftCredit = Excess(wallet.giftCredit, Amount(r))
            /\ wallet'.creditUsed = wallet.creditUsed + Amount(r)
            /\ ledger'.deposit = ledger.deposit
            /\ ledger'.withdraw = ledger.withdraw + Amount(r)
            /\ seen[r].credit <= wallet.credit
        BY <1>4, <2>1, CommitColumns
      <3>2. wallet'.credit + wallet'.giftCredit = seen[r].credit + wallet.giftCredit - Amount(r)
        BY <1>4, <3>1 DEF Excess
      <3>3. wallet'.credit + wallet'.giftCredit + ledger'.withdraw
              = seen[r].credit + wallet.giftCredit + ledger.withdraw
        BY <1>4, <3>1, <3>2
      <3>4. QED
        BY <1>4, <1>5, <3>1, <3>3 DEF NothingSpentTwice, CreditUsedMatchesLedger
    <2>2. CASE Kind(r) # "withdraw"
      BY <1>4, <1>5, <2>2, CommitColumns DEF NothingSpentTwice, CreditUsedMatchesLedger
    <2>3. QED
      BY <2>1, <2>2
  <1>7. QED
    BY <1>2, <1>3, <1>6 DEF SerialInv, AtMostOneOpen

(* A package that expires under a request takes nothing back that it read.  *)
LEMMA ExpireSerial ==
  ASSUME TypeOK, SerialInv, NEW p \in Requests, Expire(p)
  PROVE  SerialInv'
  <1>1. /\ standing' = [standing EXCEPT ![p] = "expired"]
        /\ UNCHANGED <<wallet, creditLeft, ledger, job, pc, seen, seenLeft, todo, written,
                       draft, draftLeft>>
    BY DEF Expire, local, tx
  <1>2. ASSUME NEW s \in Requests
        PROVE  Kind(s)' = Kind(s) /\ Amount(s)' = Amount(s) /\ NewVersion(s)' = NewVersion(s)
    BY <1>1 DEF Kind, Amount, NewVersion, GiftVersion, CreditVersion, WithdrawVersion
  <1>3. \A q \in Requests : Live(q)' => Live(q)
    BY <1>1 DEF Live, TypeOK
  <1>4. ASSUME NEW s \in Requests PROVE FreshMemory(s)' /\ FreshDrafts(s)'
    <2>1. FreshMemory(s) /\ FreshDrafts(s)
      BY DEF SerialInv
    <2>2. FreshMemory(s)'
      BY <1>1, <1>2, <1>3, <2>1 DEF FreshMemory, Backed
    <2>3. FreshDrafts(s)'
      BY <1>1, <1>2, <2>1 DEF FreshDrafts
    <2>4. QED
      BY <2>2, <2>3
  <1>5. QED
    BY <1>1, <1>4 DEF SerialInv, AtMostOneOpen, NothingSpentTwice, CreditUsedMatchesLedger

(* Every step keeps the invariant.                                          *)
LEMMA SerialStep ==
  ASSUME Concurrency = 1, TypeOK, BalanceInv, PackageInv, SerialInv, [Next]_vars
  PROVE  SerialInv'
  <1>1. ASSUME NEW r \in Requests, Refuse(r) \/ Affirm(r) \/ DeadlockVictim(r) \/ Abort(r)
        PROVE  SerialInv'
    <2>1. OnlyOf(r)
      BY <1>1, OwnSteps DEF Progress
    <2>2. QED
      BY <1>1, <2>1, EndSerial DEF Refuse, Affirm, DeadlockVictim, Abort, Ended
  <1>2. ASSUME NEW r \in Requests, FindWallet(r) PROVE SerialInv'
    BY <1>2, OwnSteps, FindSerial
  <1>3. ASSUME NEW r \in Requests, EmptyWallet(r) PROVE SerialInv'
    BY <1>3, OwnSteps, EmptySerial DEF Progress
  <1>4. ASSUME NEW r \in Requests, EmptyWalletNow(r) PROVE SerialInv'
    BY <1>4, OwnSteps, EmptyNowSerial DEF Progress
  <1>5. ASSUME NEW r \in Requests, InsertTransaction(r) PROVE SerialInv'
    BY <1>5, OwnSteps, InsertSerial DEF Progress
  <1>6. ASSUME NEW r \in Requests, UpdatePackage(r) PROVE SerialInv'
    BY <1>6, OwnSteps, UpdatePackageSerial DEF Progress
  <1>7. ASSUME NEW r \in Requests, UpdateWallet(r) PROVE SerialInv'
    BY <1>7, OwnSteps, UpdateWalletSerial DEF Progress
  <1>8. ASSUME NEW r \in Requests, CreateWalletPackage(r) PROVE SerialInv'
    BY <1>8, OwnSteps, CreatePackageSerial DEF Progress
  <1>9. ASSUME NEW r \in Requests, Commit(r) PROVE SerialInv'
    BY <1>9, OwnSteps, CommitSerial DEF Progress
  <1>10. ASSUME NEW r \in Requests, Expire(r) PROVE SerialInv'
    BY <1>10, ExpireSerial
  <1>11. CASE Finished \/ UNCHANGED vars
    <2>1. UNCHANGED vars
      BY <1>11 DEF Finished
    <2>2. \A s \in Requests : FreshMemory(s)' /\ FreshDrafts(s)'
      BY <2>1, StaysFresh DEF SerialInv, vars, local, tx
    <2>3. QED
      BY <2>1, <2>2 DEF SerialInv, AtMostOneOpen, NothingSpentTwice, CreditUsedMatchesLedger,
                        vars, rows
  <1>12. QED
    BY <1>1, <1>2, <1>3, <1>4, <1>5, <1>6, <1>7, <1>8, <1>9, <1>10, <1>11 DEF Next, Progress

(* PackagesAsBought's invariant.                                            *)
LEMMA Packages == Spec => []PackageInv
  BY PackageInit, PackageStep, Typing, PTL DEF Spec

(* Requests that do not overlap act on what the rows say.                   *)
THEOREM Serial ==
  ASSUME Concurrency = 1
  PROVE  Spec => []SerialInv
  <1>1. TypeOK /\ BalanceInv /\ PackageInv /\ SerialInv /\ [Next]_vars => SerialInv'
    BY SerialStep
  <1>2. QED
    BY <1>1, SerialInit, Typing, Balance, Packages, PTL DEF Spec

(* Requests that do not overlap spend nothing twice.                        *)
THEOREM NothingSpentTwiceHolds ==
  ASSUME Concurrency = 1
  PROVE  Spec => []NothingSpentTwice
  <1>1. SerialInv => NothingSpentTwice
    BY DEF SerialInv
  <1>2. QED
    BY <1>1, Serial, PTL

(* And creditUsed is then what the transactions table says was withdrawn.   *)
THEOREM CreditUsedMatchesHolds ==
  ASSUME Concurrency = 1
  PROVE  Spec => []CreditUsedMatchesLedger
  <1>1. SerialInv => CreditUsedMatchesLedger
    BY DEF SerialInv
  <1>2. QED
    BY <1>1, Serial, PTL

-----------------------------------------------------------------------------
(* The account.  A request's commit, an emptying that commits at once and   *)
(* the expiry of a package are the account's steps; all others leave the    *)
(* account alone.                                                           *)
LEMMA AccountInit == Init => Account!Init
  BY DEF Init, Account!Init, EmptyRow, Live

(* A commit is a deposit, a purchase or a withdrawal of the account.        *)
LEMMA CommitIsAccount ==
  ASSUME TypeOK, BalanceInv, PackageInv, SerialInv, NEW r \in Requests, Commit(r)
  PROVE  Account!Next
  <1>1. /\ pc[r] = "written"
        /\ \A p \in Requests :
             creditLeft'[p] = IF p \in written[r] THEN draftLeft[r][p] ELSE creditLeft[p]
        /\ standing' = [standing EXCEPT ![r] = IF r \in written[r] THEN "live" ELSE @]
    BY DEF Commit
  <1>2. /\ wallet.credit \in Int /\ wallet.giftCredit \in Int
        /\ seen[r].credit \in Int /\ wallet.credit >= 0 /\ wallet.giftCredit >= 0
        /\ ledger.deposit \in Nat /\ ledger.withdraw \in Nat
    BY DEF TypeOK, Row, BalanceInv, Sound
  <1>3. FreshDrafts(r) /\ standing[r] = "none"
    BY <1>1 DEF SerialInv, PackageInv
  <1>4. CASE Kind(r) \in {"gift", "refund"}
    <2>1. \A p \in Requests : p \notin written[r]
      BY <1>3, <1>4 DEF FreshDrafts
    <2>2. (\E p \in Requests : Live(p))' <=> (\E p \in Requests : Live(p))
      BY <1>1, <2>1 DEF Live, TypeOK
    <2>3. CASE Kind(r) = "gift"
      <3>1. Account!DepositGift(ledger'.deposit - ledger.deposit)
        BY <1>2, <2>2, <2>3, CommitColumns DEF Account!DepositGift
      <3>2. QED
        BY <3>1 DEF Account!Next
    <2>4. CASE Kind(r) = "refund"
      <3>1. Account!Refund(ledger'.deposit - ledger.deposit)
        BY <1>2, <2>2, <2>4, CommitColumns DEF Account!Refund
      <3>2. QED
        BY <3>1 DEF Account!Next
    <2>5. QED
      BY <1>4, <2>3, <2>4
  <1>5. CASE Kind(r) = "purchase"
    <2>1. /\ r \in written[r] /\ draftLeft[r][r] = Amount(r)
          /\ \A p \in Requests : p \in written[r] => p = r
      BY <1>1, <1>3, <1>5 DEF FreshDrafts, PackageInv
    <2>2. /\ Live(r)' <=> Amount(r) > 0
          /\ ~Live(r)
          /\ \A p \in Requests \ {r} : Live(p)' <=> Live(p)
      BY <1>1, <1>3, <2>1 DEF Live, TypeOK
    <2>3. (\E p \in Requests : Live(p))' <=> ((\E p \in Requests : Live(p)) \/ Amount(r) > 0)
      BY <2>2
    <2>4. Account!Purchase(ledger'.deposit - ledger.deposit)
      <3>1. ledger'.deposit - ledger.deposit = Amount(r)
        BY <1>2, <1>5, CommitColumns
      <3>2. QED
        BY <1>2, <1>5, <2>3, <3>1, CommitColumns DEF Account!Purchase
    <2>5. QED
      BY <2>4 DEF Account!Next
  <1>6. CASE Kind(r) = "withdraw"
    <2>1. /\ r \notin written[r]
          /\ \A p \in Requests : p \in written[r] => draftLeft[r][p] <= creditLeft[p]
      BY <1>3, <1>6 DEF FreshDrafts, PackageInv
    <2>2. \A p \in Requests : Live(p)' => Live(p)
      <3>1. \A p \in Requests : creditLeft[p] \in Nat /\ draftLeft[r][p] \in Nat
        BY DEF TypeOK
      <3>2. QED
        BY <1>1, <2>1, <3>1 DEF Live, TypeOK
    <2>3. ledger'.withdraw - ledger.withdraw = Amount(r)
      BY <1>2, <1>6, CommitColumns
    <2>4. CASE seen[r].credit = wallet.credit
      <3>1. Account!Withdraw(ledger'.withdraw - ledger.withdraw)
        BY <1>2, <1>6, <2>2, <2>3, <2>4, CommitColumns
           DEF Account!Withdraw, Account!Excess, Excess
      <3>2. QED
        BY <3>1 DEF Account!Next
    <2>5. CASE seen[r].credit = 0 /\ ~Backed
      <3>1. Account!ForfeitAndWithdraw(ledger'.withdraw - ledger.withdraw)
        BY <1>2, <1>6, <2>2, <2>3, <2>5, CommitColumns
           DEF Account!ForfeitAndWithdraw, Excess, Backed
      <3>2. QED
        BY <3>1 DEF Account!Next
    <2>6. QED
      BY <1>6, <2>4, <2>5, CommitColumns
  <1>7. QED
    BY <1>4, <1>5, <1>6, CommitColumns

(* Every step is a step of the account or leaves it alone.                  *)
LEMMA AccountStep ==
  ASSUME TypeOK, BalanceInv, PackageInv, SerialInv, [Next]_vars
  PROVE  [Account!Next]_(Account!vars)
  <1>1. ASSUME UNCHANGED rows PROVE UNCHANGED Account!vars
    BY <1>1 DEF rows, Account!vars, Live
  <1>2. ASSUME NEW r \in Requests, Commit(r) PROVE Account!Next
    BY <1>2, CommitIsAccount
  <1>3. ASSUME NEW r \in Requests, EmptyWalletNow(r) PROVE Account!Next
    <2>1. /\ UNCHANGED <<creditLeft, standing, ledger>>
          /\ wallet' = [wallet EXCEPT !.credit = 0]
          /\ pc[r] = "found" /\ todo[r] = {}
      BY <1>3 DEF EmptyWalletNow, NeedsEmptying
    <2>2. ~ \E p \in Requests : Live(p)
      BY <2>1 DEF SerialInv, FreshMemory
    <2>3. Account!Forfeit
      BY <2>1, <2>2 DEF Account!Forfeit, Live, TypeOK, Row
    <2>4. QED
      BY <2>3 DEF Account!Next
  <1>4. ASSUME NEW r \in Requests, Expire(r) PROVE [Account!Next]_(Account!vars)
    <2>1. /\ UNCHANGED <<wallet, creditLeft, ledger>>
          /\ standing' = [standing EXCEPT ![r] = "expired"]
      BY <1>4 DEF Expire
    <2>2. \A p \in Requests : Live(p)' => Live(p)
      BY <2>1 DEF Live, TypeOK
    <2>3. CASE \E p \in Requests : Live(p)'
      BY <2>1, <2>2, <2>3 DEF Account!vars
    <2>4. CASE ~ \E p \in Requests : Live(p)'
      <3>1. Account!Lapse
        BY <2>1, <2>4 DEF Account!Lapse
      <3>2. QED
        BY <3>1 DEF Account!Next
    <2>5. QED
      BY <2>3, <2>4
  <1>5. ASSUME NEW r \in Requests,
               FindWallet(r) \/ EmptyWallet(r) \/ Refuse(r) \/ Affirm(r) \/ InsertTransaction(r)
               \/ UpdatePackage(r) \/ UpdateWallet(r) \/ CreateWalletPackage(r)
               \/ DeadlockVictim(r) \/ Abort(r)
        PROVE  UNCHANGED rows
    BY <1>5 DEF FindWallet, EmptyWallet, Refuse, Affirm, InsertTransaction, UpdatePackage,
                UpdateWallet, CreateWalletPackage, DeadlockVictim, Abort
  <1>6. CASE Finished \/ UNCHANGED vars
    BY <1>1, <1>6 DEF Finished, vars
  <1>7. QED
    BY <1>1, <1>2, <1>3, <1>4, <1>5, <1>6 DEF Next, Progress

(* While requests do not overlap, the handlers implement the account.       *)
THEOREM AccountImplemented ==
  ASSUME Concurrency = 1
  PROVE  Spec => AccountSpec
  <1>1. TypeOK /\ BalanceInv /\ PackageInv /\ SerialInv /\ [Next]_vars
          => [Account!Next]_(Account!vars)
    BY AccountStep
  <1>2. QED
    BY <1>1, AccountInit, Typing, Balance, Packages, Serial, PTL
       DEF Spec, AccountSpec, Account!Spec

-----------------------------------------------------------------------------
(* Package credit.  What an open withdrawal will leave in the packages it   *)
(* selected.                                                                *)
Selected(r) == todo[r] \union (written[r] \intersect Requests)

Remaining(r) ==
  [p \in Requests |-> IF p \in written[r] THEN draftLeft[r][p] ELSE creditLeft[p]]

(* What is due is what the packages have not given yet; those it has taken  *)
(* from are used up until nothing is due; and once the wallet's new version *)
(* is written, it covers what remains.                                      *)
DrawsInStep(r) ==
  pc[r] \in Open /\ Kind(r) = "withdraw" =>
    /\ todo[r] \intersect written[r] = {}
    /\ pc[r] = "found" => written[r] \intersect Requests = {}
    /\ {p \in Requests : Live(p)} \subseteq Selected(r)
    /\ seen[r].credit # wallet.credit => Selected(r) = {}
    /\ pc[r] \in {"found", "recorded"} =>
         /\ due[r] > 0 => \A p \in written[r] \intersect Requests : draftLeft[r][p] = 0
         /\ Total(Remaining(r), Selected(r)) + Amount(r) <= wallet.credit + due[r]
    /\ pc[r] = "written" => Total(Remaining(r), Selected(r)) <= draft[r].credit

Bought == {p \in Requests : standing[p] # "none"}
LiveSet == {p \in Requests : Live(p)}

BackedInv ==
  /\ IsFiniteSet(Bought)
  /\ \A r \in Requests : DrawsInStep(r)
  /\ Total(creditLeft, LiveSet) <= wallet.credit

(* The packages a withdrawal selects, and the live ones, are bought.        *)
LEMMA SelectedBought ==
  ASSUME TypeOK, PackageInv, BackedInv, NEW r \in Requests
  PROVE  /\ IsFiniteSet(LiveSet) /\ LiveSet \subseteq Bought
         /\ Kind(r) = "withdraw" => IsFiniteSet(Selected(r)) /\ Selected(r) \subseteq Bought
         /\ \A p \in Requests : creditLeft[p] \in Nat /\ draftLeft[r][p] \in Nat
                                /\ Remaining(r)[p] \in Nat
  <1>1. LiveSet \subseteq Bought
    BY DEF LiveSet, Bought, Live
  <1>2. Kind(r) = "withdraw" => Selected(r) \subseteq Bought
    BY DEF Selected, Bought, PackageInv, TypeOK
  <1>3. \A p \in Requests : creditLeft[p] \in Nat /\ draftLeft[r][p] \in Nat
                            /\ Remaining(r)[p] \in Nat
    BY DEF TypeOK, Remaining
  <1>4. QED
    BY <1>1, <1>2, <1>3, FS_Subset DEF BackedInv

(* Nothing drawn changes while neither the rows nor the request do.         *)
LEMMA DrawsStay ==
  ASSUME NEW s \in Requests, DrawsInStep(s), UNCHANGED rows, job' = job,
         pc'[s] = pc[s], seen'[s] = seen[s], todo'[s] = todo[s], due'[s] = due[s],
         written'[s] = written[s], draft'[s] = draft[s], draftLeft'[s] = draftLeft[s]
  PROVE  DrawsInStep(s)'
  <1>1. Kind(s)' = Kind(s) /\ Amount(s)' = Amount(s)
    BY DEF Kind, Amount
  <1>2. Remaining(s)' = Remaining(s) /\ Selected(s)' = Selected(s)
    BY DEF Remaining, Selected, rows
  <1>3. \A p \in Requests : Live(p)' <=> Live(p)
    BY DEF Live, rows
  <1>4. QED
    BY <1>1, <1>2, <1>3 DEF DrawsInStep, rows

(* A step that changes no row leaves the live packages as they are backed.  *)
LEMMA OwnBacked ==
  ASSUME TypeOK, BackedInv, NEW r \in Requests, OnlyOf(r), due' = [due EXCEPT ![r] = due'[r]],
         UNCHANGED rows, DrawsInStep(r)'
  PROVE  BackedInv'
  <1>1. ASSUME NEW s \in Requests, s # r PROVE DrawsInStep(s)'
    BY <1>1, DrawsStay DEF BackedInv, OnlyOf, TypeOK
  <1>2. Bought' = Bought
    BY DEF Bought, rows
  <1>3. LiveSet' = LiveSet
    BY DEF LiveSet, Live, rows
  <1>4. Total(creditLeft', LiveSet') <= wallet'.credit
    BY <1>3 DEF BackedInv, rows
  <1>5. QED
    BY <1>1, <1>2, <1>4 DEF BackedInv

(* Nor does one that publishes what backs them, while nobody else is at it. *)
LEMMA AloneBacked ==
  ASSUME SerialInv, NEW r \in Requests, pc[r] \in Open, OnlyOf(r), DrawsInStep(r)',
         IsFiniteSet(Bought'), Total(creditLeft', LiveSet') <= wallet'.credit
  PROVE  BackedInv'
  <1>1. ASSUME NEW s \in Requests, s # r PROVE DrawsInStep(s)'
    BY <1>1, OthersIdle DEF DrawsInStep, OnlyOf
  <1>2. QED
    BY <1>1 DEF BackedInv

(* At first there is no package.                                            *)
LEMMA BackedInit == Init => BackedInv
  <1> SUFFICES ASSUME Init PROVE BackedInv
    OBVIOUS
  <1>1. Bought = {} /\ LiveSet = {}
    BY DEF Init, Bought, LiveSet, Live
  <1>2. IsFiniteSet(Bought)
    BY <1>1, FS_EmptySet
  <1>3. Total(creditLeft, {}) = 0
    <2>1. IsFiniteSet({}) /\ \A x \in {} : creditLeft[x] \in Int
      BY FS_EmptySet
    <2>2. QED
      BY <2>1, TotalProperties
  <1>4. Total(creditLeft, LiveSet) <= wallet.credit
    BY <1>1, <1>3 DEF Init, EmptyRow
  <1>5. QED
    BY <1>2, <1>4 DEF BackedInv, DrawsInStep, Init, Open

(* A rollback drops the drafts.                                             *)
LEMMA EndBacked ==
  ASSUME TypeOK, BackedInv, NEW r \in Requests, NEW o \in Ended, End(r, o), OnlyOf(r),
         UNCHANGED rows
  PROVE  BackedInv'
  <1>1. pc'[r] \notin Open /\ due' = [due EXCEPT ![r] = due'[r]]
    BY DEF End, TypeOK, Open, Ended
  <1>2. DrawsInStep(r)'
    BY <1>1 DEF DrawsInStep
  <1>3. QED
    BY <1>1, <1>2, OwnBacked

(* The packages selected at first are the live ones.                        *)
LEMMA FindBacked ==
  ASSUME TypeOK, PackageInv, SerialInv, BackedInv, NEW r \in Requests, FindWallet(r), OnlyOf(r)
  PROVE  BackedInv'
  <1>1. /\ pc[r] = "new" /\ pc'[r] = "found" /\ seen'[r] = wallet
        /\ todo'[r] = LiveSet /\ due'[r] = Amount(r) /\ due' = [due EXCEPT ![r] = due'[r]]
        /\ UNCHANGED rows /\ written' = written /\ job' = job /\ draftLeft' = draftLeft
    BY DEF FindWallet, TypeOK, tx, LiveSet
  <1>2. written[r] \intersect Requests = {}
    BY <1>1 DEF SerialInv, FreshDrafts, Open
  <1>3. Selected(r)' = LiveSet /\ LiveSet' = LiveSet /\ Amount(r)' = Amount(r)
    BY <1>1, <1>2 DEF Selected, LiveSet, Live, rows, Amount
  <1>4. \A p \in LiveSet : creditLeft[p] \in Int /\ Remaining(r)'[p] = creditLeft[p]
    BY <1>1, <1>2 DEF Remaining, rows, TypeOK, LiveSet
  <1>5. Total(Remaining(r)', LiveSet) = Total(creditLeft, LiveSet)
    BY <1>4, SelectedBought, TotalSame
  <1>6. Total(creditLeft, LiveSet) \in Int
    BY <1>4, SelectedBought, TotalProperties
  <1>7. Total(Remaining(r), Selected(r))' <= wallet.credit
    BY <1>3, <1>5 DEF BackedInv
  <1>8. Amount(r) \in Nat /\ wallet.credit \in Int /\ Total(Remaining(r), Selected(r))' \in Int
    BY <1>3, <1>5, <1>6, JobTyping DEF TypeOK, Row
  <1>9. DrawsInStep(r)'
    <2>1. todo'[r] \intersect written'[r] = {}
      BY <1>1, <1>2 DEF LiveSet
    <2>2. {p \in Requests : Live(p)'} \subseteq Selected(r)'
      BY <1>3 DEF LiveSet
    <2>3. Total(Remaining(r), Selected(r))' + Amount(r)' <= wallet'.credit + due'[r]
      BY <1>1, <1>3, <1>7, <1>8 DEF rows
    <2>4. QED
      BY <1>1, <1>2, <2>1, <2>2, <2>3 DEF DrawsInStep, rows
  <1>10. QED
    BY <1>1, <1>9, OwnBacked

(* An emptying selects no package.                                          *)
LEMMA EmptyBacked ==
  ASSUME TypeOK, SerialInv, BackedInv, NEW r \in Requests, EmptyWallet(r), OnlyOf(r)
  PROVE  BackedInv'
  <1>1. /\ UNCHANGED rows /\ job' = job /\ due' = due /\ pc' = pc /\ pc[r] = "found"
        /\ Kind(r) = "withdraw" /\ todo[r] = {} /\ todo' = todo
        /\ written'[r] = written[r] \union {WalletRow} /\ draftLeft' = draftLeft
    BY DEF EmptyWallet, NeedsEmptying, TypeOK
  <1>2. DrawsInStep(r)
    BY DEF BackedInv
  <1>3. \A p \in Requests : p \in written'[r] <=> p \in written[r]
    BY <1>1, WalletRowAssumption
  <1>4. Selected(r)' = Selected(r) /\ Remaining(r)' = Remaining(r)
    BY <1>1, <1>3 DEF Selected, Remaining, rows
  <1>5. Selected(r) = {} /\ todo[r] \intersect written'[r] = {}
    BY <1>1, <1>2 DEF DrawsInStep, Selected, Open
  <1>6. Kind(r)' = Kind(r) /\ Amount(r)' = Amount(r) /\ \A p \in Requests : Live(p)' <=> Live(p)
    BY <1>1 DEF Kind, Amount, Live, rows
  <1>7. DrawsInStep(r)'
    BY <1>1, <1>2, <1>3, <1>4, <1>5, <1>6 DEF DrawsInStep, rows
  <1>8. due' = [due EXCEPT ![r] = due'[r]]
    BY <1>1 DEF TypeOK
  <1>9. QED
    BY <1>1, <1>7, <1>8, OwnBacked

(* Nor does the one that commits: there is no live package to cover.        *)
LEMMA EmptyNowBacked ==
  ASSUME TypeOK, SerialInv, BackedInv, NEW r \in Requests, EmptyWalletNow(r), OnlyOf(r)
  PROVE  BackedInv'
  <1>1. /\ UNCHANGED <<creditLeft, standing>> /\ pc[r] = "found" /\ Kind(r) = "check"
        /\ wallet' = [wallet EXCEPT !.credit = 0] /\ job' = job /\ todo[r] = {}
    BY DEF EmptyWalletNow, NeedsEmptying
  <1>2. LiveSet' = {} /\ Bought' = Bought
    BY <1>1 DEF SerialInv, FreshMemory, LiveSet, Live, Bought
  <1>3. Total(creditLeft', LiveSet') = 0
    <2>1. IsFiniteSet({}) /\ \A x \in {} : creditLeft[x] \in Int
      BY FS_EmptySet
    <2>2. QED
      BY <1>1, <1>2, <2>1, TotalProperties
  <1>4. wallet'.credit = 0
    BY <1>1 DEF TypeOK, Row
  <1>5. DrawsInStep(r)'
    BY <1>1 DEF DrawsInStep, Kind
  <1>6. pc[r] \in Open
    BY <1>1 DEF Open
  <1>7. QED
    BY <1>2, <1>3, <1>4, <1>5, <1>6, AloneBacked DEF BackedInv

(* The transaction's INSERT draws nothing.                                  *)
LEMMA InsertBacked ==
  ASSUME TypeOK, SerialInv, BackedInv, NEW r \in Requests, InsertTransaction(r), OnlyOf(r)
  PROVE  BackedInv'
  <1>1. /\ UNCHANGED rows /\ job' = job /\ due' = due /\ pc[r] = "found" /\ pc'[r] = "recorded"
        /\ seen' = seen /\ todo' = todo /\ written' = written /\ draftLeft' = draftLeft
    BY DEF InsertTransaction, TypeOK, local, tx
  <1>2. DrawsInStep(r)
    BY DEF BackedInv
  <1>3. Selected(r)' = Selected(r) /\ Remaining(r)' = Remaining(r)
        /\ Kind(r)' = Kind(r) /\ Amount(r)' = Amount(r)
        /\ \A p \in Requests : Live(p)' <=> Live(p)
    BY <1>1 DEF Selected, Remaining, rows, Kind, Amount, Live
  <1>4. DrawsInStep(r)'
    BY <1>1, <1>2, <1>3 DEF DrawsInStep, Open, rows
  <1>5. due' = [due EXCEPT ![r] = due'[r]]
    BY <1>1 DEF TypeOK
  <1>6. QED
    BY <1>1, <1>4, <1>5, OwnBacked

(* A package gives what is due of it, and as much less is due.              *)
LEMMA DrawnAndDue ==
  ASSUME NEW left \in Nat, NEW d \in Nat
  PROVE  /\ Drawn(left, d) \in Nat /\ Excess(d, left) \in Nat /\ Drawn(left, d) <= left
         /\ Drawn(left, d) - left = Excess(d, left) - d
         /\ Excess(d, left) > 0 => Drawn(left, d) = 0
  BY DEF Drawn, Excess

(* One round of the loop: what the package gives is no longer due.          *)
LEMMA UpdatePackageBacked ==
  ASSUME TypeOK, PackageInv, SerialInv, BackedInv, NEW r \in Requests, UpdatePackage(r), OnlyOf(r)
  PROVE  BackedInv'
  <1>1. PICK p \in NextPackages(r) :
          /\ draftLeft' = [draftLeft EXCEPT ![r][p] = Drawn(seenLeft[r][p], due[r])]
          /\ written' = [written EXCEPT ![r] = @ \union {p}]
          /\ todo' = [todo EXCEPT ![r] = @ \ {p}]
          /\ due' = [due EXCEPT ![r] = Excess(@, seenLeft[r][p])]
    BY DEF UpdatePackage
  <1>2. /\ UNCHANGED rows /\ job' = job /\ pc' = pc /\ seen' = seen
        /\ pc[r] = "recorded" /\ Kind(r) = "withdraw" /\ due[r] > 0 /\ due[r] \in Nat
        /\ p \in todo[r] /\ p \in Requests /\ creditLeft[p] \in Nat
    BY DEF UpdatePackage, NextPackages, TypeOK
  <1>3. seenLeft[r][p] = creditLeft[p]
    BY <1>2 DEF SerialInv, FreshMemory, Open
  <1> DEFINE left == Drawn(creditLeft[p], due[r])
             d == Excess(due[r], creditLeft[p])
  <1>4. left \in Nat /\ d \in Nat /\ left - creditLeft[p] = d - due[r] /\ (d > 0 => left = 0)
    BY <1>2, DrawnAndDue
  <1>5. /\ draftLeft'[r] = [draftLeft[r] EXCEPT ![p] = left]
        /\ written'[r] = written[r] \union {p} /\ todo'[r] = todo[r] \ {p} /\ due'[r] = d
    BY <1>1, <1>2, <1>3 DEF TypeOK
  <1> HIDE DEF left, d
  <1>6. DrawsInStep(r) /\ p \notin written[r]
    BY <1>2 DEF BackedInv, DrawsInStep, Open
  <1>7. Selected(r)' = Selected(r) /\ p \in Selected(r)
    BY <1>2, <1>5 DEF Selected, TypeOK
  <1>8. /\ Remaining(r)'[p] = left /\ Remaining(r)[p] = creditLeft[p]
        /\ \A q \in Requests \ {p} : Remaining(r)'[q] = Remaining(r)[q]
    BY <1>2, <1>5, <1>6 DEF Remaining, rows, TypeOK
  <1>9. /\ IsFiniteSet(Selected(r)) /\ Selected(r) \subseteq Requests
        /\ \A q \in Requests : Remaining(r)[q] \in Int /\ Remaining(r)'[q] \in Int
    <2>1. IsFiniteSet(Selected(r)) /\ Selected(r) \subseteq Requests
      BY <1>2, SelectedBought DEF Bought
    <2>2. \A q \in Requests : Remaining(r)[q] \in Int /\ Remaining(r)'[q] \in Int
      BY <1>4, <1>8, SelectedBought
    <2>3. QED
      BY <2>1, <2>2
  <1> DEFINE rest == Total(Remaining(r), Selected(r) \ {p})
  <1>10. Total(Remaining(r), Selected(r)) = creditLeft[p] + rest /\ rest \in Int
    BY <1>7, <1>8, <1>9, TotalProperties
  <1>11. Total(Remaining(r)', Selected(r)) = left + rest
    <2>1. Total(Remaining(r)', Selected(r)) = left + Total(Remaining(r)', Selected(r) \ {p})
      BY <1>7, <1>8, <1>9, TotalProperties
    <2>2. IsFiniteSet(Selected(r) \ {p})
          /\ \A q \in Selected(r) \ {p} :
               Remaining(r)[q] \in Int /\ Remaining(r)'[q] = Remaining(r)[q]
      BY <1>8, <1>9, FS_Subset
    <2>3. Total(Remaining(r)', Selected(r) \ {p}) = rest
      BY <2>2, TotalSame
    <2>4. QED
      BY <2>1, <2>3
  <1> HIDE DEF rest
  <1>12. Total(Remaining(r), Selected(r))' + Amount(r) <= wallet.credit + d
    <2>1. creditLeft[p] + rest + Amount(r) <= wallet.credit + due[r]
      BY <1>2, <1>6, <1>10 DEF DrawsInStep, Open
    <2>2. Amount(r) \in Nat /\ wallet.credit \in Int
      BY JobTyping DEF TypeOK, Row
    <2>3. left + rest + Amount(r) <= wallet.credit + d
      BY <1>2, <1>4, <1>10, <2>1, <2>2
    <2>4. QED
      BY <1>7, <1>11, <2>3
  <1>13. ASSUME d > 0, NEW q \in written'[r] \intersect Requests
         PROVE  draftLeft'[r][q] = 0
    <2>1. CASE q = p
      BY <1>2, <1>4, <1>5, <1>13, <2>1 DEF TypeOK
    <2>2. CASE q # p
      BY <1>2, <1>5, <1>6, <1>13, <2>2 DEF DrawsInStep, Open, TypeOK
    <2>3. QED
      BY <2>1, <2>2
  <1>14. todo'[r] \intersect written'[r] = {}
    BY <1>2, <1>5, <1>6 DEF DrawsInStep, Open
  <1>15. Kind(r)' = Kind(r) /\ Amount(r)' = Amount(r) /\ \A q \in Requests : Live(q)' <=> Live(q)
    BY <1>2 DEF Kind, Amount, Live, rows
  <1>16. DrawsInStep(r)'
    BY <1>2, <1>5, <1>6, <1>7, <1>12, <1>13, <1>14, <1>15 DEF DrawsInStep, Open, rows
  <1>17. due' = [due EXCEPT ![r] = due'[r]]
    BY <1>1, <1>5 DEF TypeOK
  <1>18. QED
    BY <1>2, <1>16, <1>17, OwnBacked

(* The loop over the packages ends because nothing is due or none is left.  *)
LEMMA LoopEnds ==
  ASSUME TypeOK, NEW r \in Requests, pc[r] = "recorded", Kind(r) = "withdraw",
         NextPackages(r) = {}
  PROVE  due[r] = 0 \/ todo[r] = {}
  <1> SUFFICES ASSUME due[r] # 0, todo[r] # {} PROVE FALSE
    OBVIOUS
  <1>1. due[r] > 0 /\ \A p \in todo[r] : seenLeft[r][p] \in Nat
    BY DEF TypeOK
  <1>2. PICK p \in todo[r] : \A q \in todo[r] : seenLeft[r][p] <= seenLeft[r][q]
    BY <1>1, LeastValue
  <1>3. QED
    BY <1>1, <1>2 DEF NextPackages

(* After the loop the wallet's version covers what remains: all that was    *)
(* asked for was drawn, or everything was.                                  *)
LEMMA UpdateWalletBacked ==
  ASSUME TypeOK, BalanceInv, BalanceInv', TypeOK', PackageInv, SerialInv, BackedInv,
         NEW r \in Requests, UpdateWallet(r), OnlyOf(r)
  PROVE  BackedInv'
  <1>1. /\ UNCHANGED rows /\ job' = job /\ due' = due /\ seen' = seen /\ todo' = todo
        /\ pc[r] = "recorded" /\ NextPackages(r) = {}
        /\ pc'[r] \in {"credited", "written"}
        /\ draft'[r] = NewVersion(r) /\ draftLeft' = draftLeft
        /\ written'[r] = written[r] \union {WalletRow}
    BY DEF UpdateWallet, TypeOK, local
  <1>2. DrawsInStep(r)
    BY DEF BackedInv
  <1>3. \A p \in Requests : p \in written'[r] <=> p \in written[r]
    BY <1>1, WalletRowAssumption
  <1>4. Selected(r)' = Selected(r) /\ Remaining(r)' = Remaining(r)
        /\ Kind(r)' = Kind(r) /\ Amount(r)' = Amount(r)
        /\ (\A p \in Requests : Live(p)' <=> Live(p))
        /\ todo'[r] \intersect written'[r] = todo[r] \intersect written[r]
    BY <1>1, <1>3, WalletRowAssumption DEF Selected, Remaining, rows, Kind, Amount, Live, TypeOK
  <1>5. ASSUME Kind(r) = "withdraw"
        PROVE  Total(Remaining(r), Selected(r)) <= draft'[r].credit
    <2>1. IsFiniteSet(Selected(r)) /\ \A p \in Selected(r) : Remaining(r)[p] \in Int
      <3>1. Selected(r) \subseteq Requests
        BY DEF Selected, TypeOK
      <3>2. QED
        BY <1>5, <3>1, SelectedBought
    <2>2. Total(Remaining(r), Selected(r)) \in Int /\ Total(Remaining(r), {}) = 0
      BY <2>1, TotalProperties
    <2>3. draft'[r].credit >= 0 /\ draft'[r].credit \in Int
      BY DEF BalanceInv, Sound, TypeOK, Row
    <2>4. CASE Selected(r) = {}
      BY <2>2, <2>3, <2>4
    <2>5. CASE Selected(r) # {} /\ due[r] = 0
      <3>1. Total(Remaining(r), Selected(r)) + Amount(r) <= wallet.credit
        <4>1. Total(Remaining(r), Selected(r)) + Amount(r) <= wallet.credit + 0
          BY <1>1, <1>2, <1>5, <2>5 DEF DrawsInStep, Open
        <4>2. wallet.credit \in Int
          BY DEF TypeOK, Row
        <4>3. QED
          BY <4>1, <4>2
      <3>2. seen[r].credit = wallet.credit
        BY <1>1, <1>2, <1>5, <2>5 DEF DrawsInStep, Open
      <3>3. draft'[r].credit = seen[r].credit - Excess(Amount(r), seen[r].giftCredit)
        BY <1>1, <1>5, NewVersionColumns
      <3>4. /\ Amount(r) \in Nat /\ wallet.credit \in Int
            /\ seen[r].giftCredit \in Int /\ seen[r].giftCredit >= 0
        BY JobTyping DEF TypeOK, Row, BalanceInv, Sound
      <3>5. Excess(Amount(r), seen[r].giftCredit) <= Amount(r)
            /\ Excess(Amount(r), seen[r].giftCredit) \in Int
        BY <3>4 DEF Excess
      <3>6. QED
        BY <2>2, <3>1, <3>2, <3>3, <3>4, <3>5
    <2>6. CASE due[r] # 0
      <3>1. todo[r] = {} /\ due[r] > 0
        <4>1. due[r] \in Nat
          BY DEF TypeOK
        <4>2. due[r] = 0 \/ todo[r] = {}
          BY <1>1, <1>5, LoopEnds
        <4>3. QED
          BY <2>6, <4>1, <4>2
      <3>2. \A p \in Selected(r) : Remaining(r)[p] = 0
        BY <1>1, <1>2, <1>5, <3>1 DEF DrawsInStep, Open, Selected, Remaining
      <3>3. Total(Remaining(r), Selected(r)) = 0
        BY <2>1, <3>2, TotalZero
      <3>4. QED
        BY <2>3, <3>3
    <2>7. QED
      BY <2>4, <2>5, <2>6
  <1>6. ASSUME Kind(r) = "withdraw" PROVE pc'[r] = "written"
    BY <1>6 DEF UpdateWallet, TypeOK
  <1>7. DrawsInStep(r)'
    BY <1>1, <1>2, <1>4, <1>5, <1>6 DEF DrawsInStep, Open, rows
  <1>8. due' = [due EXCEPT ![r] = due'[r]]
    BY <1>1 DEF TypeOK
  <1>9. QED
    BY <1>1, <1>7, <1>8, OwnBacked

(* A draft of a new package is not live yet.                                *)
LEMMA CreatePackageBacked ==
  ASSUME TypeOK, PackageInv, SerialInv, BackedInv, NEW r \in Requests, CreateWalletPackage(r),
         OnlyOf(r)
  PROVE  BackedInv'
  <1>1. UNCHANGED rows /\ job' = job /\ due' = due /\ pc[r] = "credited"
    BY DEF CreateWalletPackage, local
  <1>2. Kind(r)' = "purchase"
    BY <1>1 DEF PackageInv, Kind
  <1>3. due' = [due EXCEPT ![r] = due'[r]] /\ pc[r] \in Open
    BY <1>1 DEF TypeOK, Open
  <1>4. DrawsInStep(r)'
    BY <1>2 DEF DrawsInStep
  <1>5. QED
    BY <1>1, <1>3, <1>4, OwnBacked

(* A commit publishes a wallet that covers the packages it publishes.       *)
LEMMA CommitBacked ==
  ASSUME TypeOK, TypeOK', BalanceInv, PackageInv, SerialInv, BackedInv, NEW r \in Requests,
         Commit(r), OnlyOf(r)
  PROVE  BackedInv'
  <1>1. /\ pc[r] = "written" /\ pc[r] \in Open /\ pc'[r] = "done" /\ wallet' = draft[r]
        /\ \A p \in Requests :
             creditLeft'[p] = IF p \in written[r] THEN draftLeft[r][p] ELSE creditLeft[p]
        /\ standing' = [standing EXCEPT ![r] = IF r \in written[r] THEN "live" ELSE @]
    BY DEF Commit, End, Open, TypeOK
  <1>2. creditLeft' = Remaining(r)
    BY DEF Commit, Remaining
  <1>3. FreshDrafts(r) /\ standing[r] = "none"
    BY <1>1 DEF SerialInv, PackageInv
  <1>4. DrawsInStep(r)'
    BY <1>1 DEF DrawsInStep, Open
  <1>5. IsFiniteSet(Bought')
    <2>1. Bought' \subseteq Bought \union {r}
      BY <1>1 DEF Bought, TypeOK
    <2>2. IsFiniteSet(Bought \union {r})
      BY FS_AddElement DEF BackedInv
    <2>3. QED
      BY <2>1, <2>2, FS_Subset
  <1>6. IsFiniteSet(LiveSet) /\ LiveSet \subseteq Bought /\ IsFiniteSet(LiveSet')
        /\ LiveSet \subseteq Requests /\ LiveSet' \subseteq Requests
    <2>1. LiveSet' \subseteq Bought'
      BY DEF LiveSet, Bought, Live
    <2>2. QED
      BY <1>5, <2>1, SelectedBought, FS_Subset DEF LiveSet
  <1>7. \A p \in Requests : creditLeft[p] \in Nat /\ creditLeft'[p] \in Nat
    BY DEF TypeOK
  <1>8. Total(creditLeft, LiveSet) <= wallet.credit /\ Total(creditLeft, LiveSet) \in Int
        /\ wallet.credit \in Int
    BY <1>6, <1>7, TotalProperties DEF BackedInv, TypeOK, Row
  <1>9. Total(creditLeft', LiveSet') \in Int
    BY <1>6, <1>7, TotalProperties
  <1>10. Total(creditLeft', LiveSet') <= wallet'.credit
    <2>1. CASE Kind(r) \in {"gift", "refund"}
      <3>1. \A p \in Requests : p \notin written[r]
        BY <1>3, <2>1 DEF FreshDrafts
      <3>2. LiveSet' = LiveSet /\ \A p \in LiveSet : creditLeft'[p] = creditLeft[p]
        BY <1>1, <3>1 DEF LiveSet, Live, TypeOK
      <3>3. Total(creditLeft', LiveSet') = Total(creditLeft, LiveSet)
        BY <1>6, <1>7, <3>2, TotalSame
      <3>4. wallet.credit <= wallet'.credit
        BY <1>8, <2>1, CommitColumns
      <3>5. wallet'.credit \in Int
        BY DEF TypeOK, Row
      <3>6. QED
        BY <1>8, <3>3, <3>4, <3>5
    <2>2. CASE Kind(r) = "purchase"
      <3>1. r \in written[r] /\ draftLeft[r][r] = Amount(r) /\ Amount(r) \in Nat
            /\ \A p \in Requests : p \in written[r] => p = r
        BY <1>1, <1>3, <2>2, JobTyping DEF FreshDrafts, PackageInv
      <3>2. creditLeft'[r] = Amount(r) /\ \A p \in Requests \ {r} : creditLeft'[p] = creditLeft[p]
        BY <1>1, <3>1
      <3>3. r \notin LiveSet /\ LiveSet' \subseteq LiveSet \union {r}
        BY <1>1, <1>3, <3>2 DEF LiveSet, Live, TypeOK
      <3> DEFINE S == LiveSet \union {r}
      <3>4. IsFiniteSet(S) /\ S \subseteq Requests
        BY <1>6, FS_AddElement
      <3>5. Total(creditLeft', LiveSet') <= Total(creditLeft', S)
        BY <1>7, <3>3, <3>4, TotalMonotone
      <3>6. Total(creditLeft', S) = creditLeft'[r] + Total(creditLeft', S \ {r})
        BY <1>7, <3>4, TotalProperties
      <3>7. S \ {r} = LiveSet
        BY <3>3
      <3>8. Total(creditLeft', LiveSet) = Total(creditLeft, LiveSet)
        BY <1>6, <1>7, <3>2, <3>3, TotalSame
      <3>9. wallet'.credit = wallet.credit + Amount(r)
        BY <2>2, CommitColumns
      <3>10. Total(creditLeft', S) = Amount(r) + Total(creditLeft, LiveSet)
        BY <3>2, <3>6, <3>7, <3>8
      <3> HIDE DEF S
      <3>11. QED
        BY <1>8, <1>9, <3>1, <3>5, <3>9, <3>10
    <2>3. CASE Kind(r) = "withdraw"
      <3>1. /\ LiveSet \subseteq Selected(r)
            /\ Total(Remaining(r), Selected(r)) <= draft[r].credit
        BY <1>1, <2>3 DEF BackedInv, DrawsInStep, LiveSet
      <3>2. r \notin written[r] /\ \A p \in Requests : p \in written[r] => draftLeft[r][p] <= creditLeft[p]
        BY <1>3, <2>3 DEF FreshDrafts, PackageInv
      <3>3. LiveSet' \subseteq LiveSet
        <4>1. \A p \in Requests : creditLeft[p] \in Nat /\ draftLeft[r][p] \in Nat
          BY DEF TypeOK
        <4>2. QED
          <5> SUFFICES ASSUME NEW p \in Requests, Live(p)' PROVE Live(p)
            BY DEF LiveSet
          <5>1. standing'[p] = standing[p]
            BY <1>1, <3>2 DEF TypeOK
          <5>2. creditLeft'[p] <= creditLeft[p]
            BY <1>1, <3>2, <4>1
          <5>3. QED
            BY <4>1, <5>1, <5>2, <1>7 DEF Live
      <3>4. IsFiniteSet(Selected(r)) /\ Selected(r) \subseteq Requests
            /\ \A p \in Requests : Remaining(r)[p] \in Nat
        BY <2>3, SelectedBought DEF Bought
      <3>5. LiveSet' \in SUBSET Selected(r)
            /\ \A p \in LiveSet' : Remaining(r)[p] \in Int /\ Remaining(r)[p] <= Remaining(r)[p]
        BY <3>1, <3>3, <3>4
      <3>6. Total(Remaining(r), LiveSet') <= Total(Remaining(r), Selected(r))
        <4>1. \A p \in Selected(r) : Remaining(r)[p] \in Nat
          BY <3>4
        <4>2. QED
          BY <3>4, <3>5, <4>1, TotalMonotone
      <3>7. Total(Remaining(r), Selected(r)) \in Int /\ draft[r].credit \in Int
        <4>1. \A p \in Selected(r) : Remaining(r)[p] \in Int
          BY <3>4
        <4>2. QED
          BY <3>4, <4>1, TotalProperties DEF TypeOK, Row
      <3>8. QED
        BY <1>1, <1>2, <1>9, <3>1, <3>6, <3>7
    <2>4. QED
      BY <2>1, <2>2, <2>3, CommitColumns
  <1>11. QED
    BY <1>1, <1>4, <1>5, <1>10, AloneBacked

(* An expiry leaves less to cover.                                          *)
LEMMA ExpireBacked ==
  ASSUME TypeOK, TypeOK', PackageInv, BackedInv, NEW p \in Requests, Expire(p)
  PROVE  BackedInv'
  <1>1. /\ standing[p] = "live" /\ standing' = [standing EXCEPT ![p] = "expired"]
        /\ UNCHANGED <<wallet, creditLeft, job, pc, seen, seenLeft, todo, due, written,
                       draft, draftLeft>>
    BY DEF Expire, local, tx
  <1>2. Bought' = Bought
    BY <1>1 DEF Bought, TypeOK
  <1>3. (\A q \in Requests : Live(q)' => Live(q)) /\ LiveSet' \subseteq LiveSet
    BY <1>1 DEF Live, LiveSet, TypeOK
  <1>4. ASSUME NEW s \in Requests PROVE DrawsInStep(s)'
    <2>1. /\ Kind(s)' = Kind(s) /\ Amount(s)' = Amount(s)
          /\ Remaining(s)' = Remaining(s) /\ Selected(s)' = Selected(s)
      BY <1>1 DEF Kind, Amount, Remaining, Selected
    <2>2. DrawsInStep(s)
      BY DEF BackedInv
    <2>3. QED
      BY <1>1, <1>3, <2>1, <2>2 DEF DrawsInStep
  <1>5. Total(creditLeft', LiveSet') <= wallet'.credit
    <2>1. IsFiniteSet(LiveSet) /\ \A q \in LiveSet : creditLeft[q] \in Nat
      BY SelectedBought DEF LiveSet, TypeOK
    <2>2. IsFiniteSet(LiveSet') /\ LiveSet' \in SUBSET LiveSet
          /\ \A q \in LiveSet' : creditLeft[q] \in Int /\ creditLeft[q] <= creditLeft[q]
      BY <1>3, <2>1, FS_Subset
    <2>3. Total(creditLeft, LiveSet') <= Total(creditLeft, LiveSet)
      BY <2>1, <2>2, TotalMonotone
    <2>4. Total(creditLeft, LiveSet') \in Int /\ Total(creditLeft, LiveSet) \in Int
          /\ wallet.credit \in Int
      <3>1. \A q \in LiveSet : creditLeft[q] \in Int
        BY <2>1
      <3>2. Total(creditLeft, LiveSet') \in Int /\ Total(creditLeft, LiveSet) \in Int
        BY <2>1, <2>2, <3>1, TotalProperties
      <3>3. QED
        BY <3>2 DEF TypeOK, Row
    <2>5. QED
      BY <1>1, <2>3, <2>4 DEF BackedInv
  <1>6. QED
    BY <1>2, <1>4, <1>5 DEF BackedInv

(* Every step keeps the packages covered.                                   *)
LEMMA BackedStep ==
  ASSUME TypeOK, TypeOK', BalanceInv, BalanceInv', PackageInv, SerialInv, BackedInv, [Next]_vars
  PROVE  BackedInv'
  <1>1. ASSUME NEW r \in Requests, Refuse(r) \/ Affirm(r) \/ DeadlockVictim(r) \/ Abort(r)
        PROVE  BackedInv'
    <2>1. OnlyOf(r)
      BY <1>1, OwnSteps DEF Progress
    <2>2. QED
      BY <1>1, <2>1, EndBacked DEF Refuse, Affirm, DeadlockVictim, Abort, Ended
  <1>2. ASSUME NEW r \in Requests, FindWallet(r) PROVE BackedInv'
    BY <1>2, OwnSteps, FindBacked
  <1>3. ASSUME NEW r \in Requests, EmptyWallet(r) PROVE BackedInv'
    BY <1>3, OwnSteps, EmptyBacked DEF Progress
  <1>4. ASSUME NEW r \in Requests, EmptyWalletNow(r) PROVE BackedInv'
    BY <1>4, OwnSteps, EmptyNowBacked DEF Progress
  <1>5. ASSUME NEW r \in Requests, InsertTransaction(r) PROVE BackedInv'
    BY <1>5, OwnSteps, InsertBacked DEF Progress
  <1>6. ASSUME NEW r \in Requests, UpdatePackage(r) PROVE BackedInv'
    BY <1>6, OwnSteps, UpdatePackageBacked DEF Progress
  <1>7. ASSUME NEW r \in Requests, UpdateWallet(r) PROVE BackedInv'
    BY <1>7, OwnSteps, UpdateWalletBacked DEF Progress
  <1>8. ASSUME NEW r \in Requests, CreateWalletPackage(r) PROVE BackedInv'
    BY <1>8, OwnSteps, CreatePackageBacked DEF Progress
  <1>9. ASSUME NEW r \in Requests, Commit(r) PROVE BackedInv'
    BY <1>9, OwnSteps, CommitBacked DEF Progress
  <1>10. ASSUME NEW r \in Requests, Expire(r) PROVE BackedInv'
    BY <1>10, ExpireBacked
  <1>11. CASE Finished \/ UNCHANGED vars
    <2>1. UNCHANGED vars
      BY <1>11 DEF Finished
    <2>2. \A s \in Requests : DrawsInStep(s)'
      BY <2>1, DrawsStay DEF BackedInv, vars, local, tx
    <2>3. Bought' = Bought /\ LiveSet' = LiveSet
      BY <2>1 DEF Bought, LiveSet, Live, vars, rows
    <2>4. QED
      BY <2>1, <2>2, <2>3 DEF BackedInv, vars, rows
  <1>12. QED
    BY <1>1, <1>2, <1>3, <1>4, <1>5, <1>6, <1>7, <1>8, <1>9, <1>10, <1>11 DEF Next, Progress

(* While requests do not overlap, the wallet covers what its live packages  *)
(* offer, whatever was drawn from them and in whichever order.              *)
THEOREM LivePackagesBackedHolds ==
  ASSUME Concurrency = 1
  PROVE  Spec => []LivePackagesBacked
  <1>1. BackedInv => LivePackagesBacked
    <2>1. LivePackagesBacked <=> Total(creditLeft, LiveSet) <= wallet.credit
      BY Zenon DEF LivePackagesBacked, Total, LiveSet
    <2>2. QED
      BY <2>1 DEF BackedInv
  <1>2. TypeOK /\ TypeOK' /\ BalanceInv /\ BalanceInv' /\ PackageInv /\ SerialInv /\ BackedInv
          /\ [Next]_vars => BackedInv'
    BY BackedStep
  <1>3. QED
    BY <1>1, <1>2, BackedInit, Typing, Balance, Packages, Serial, PTL DEF Spec
=============================================================================
