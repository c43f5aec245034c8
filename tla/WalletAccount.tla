--------------------------- MODULE WalletAccount ---------------------------
(***************************************************************************)
(* What a wallet promises its user: an account whose deposits and          *)
(* withdrawals happen one after the other, each in one step.  Gift credit  *)
(* is spent before bought credit, nothing is spent that was not deposited, *)
(* and bought credit is forfeited only while no package backs it.          *)
(* Wallet.tla implements this account while requests do not overlap.       *)
(***************************************************************************)
EXTENDS Integers

VARIABLES
  credit,     \* bought credit (pages)
  gift,       \* gift credit (pages)
  deposited,  \* pages ever deposited
  withdrawn,  \* pages ever withdrawn
  backed      \* some package with credit left has not expired

vars == <<credit, gift, deposited, withdrawn, backed>>

Excess(a, b) == IF a > b THEN a - b ELSE 0

Init ==
  /\ credit = 0 /\ gift = 0 /\ deposited = 0 /\ withdrawn = 0
  /\ backed = FALSE

DepositGift(a) ==
  /\ gift' = gift + a
  /\ deposited' = deposited + a
  /\ UNCHANGED <<credit, withdrawn, backed>>

Refund(a) ==
  /\ credit' = credit + a
  /\ deposited' = deposited + a
  /\ UNCHANGED <<gift, withdrawn, backed>>

(* A bought package backs the account as long as it has credit left.       *)
Purchase(a) ==
  /\ credit' = credit + a
  /\ deposited' = deposited + a
  /\ backed' = (backed \/ a > 0)
  /\ UNCHANGED <<gift, withdrawn>>

(* Spending may use up the last package.                                   *)
Withdraw(a) ==
  /\ a <= credit + gift
  /\ gift' = Excess(gift, a)
  /\ credit' = credit - Excess(a, gift)
  /\ withdrawn' = withdrawn + a
  /\ backed' \in {backed, FALSE}
  /\ UNCHANGED deposited

(* Without a package the bought credit is gone and gift credit must do.    *)
Forfeit ==
  /\ ~backed
  /\ credit' = 0
  /\ UNCHANGED <<gift, deposited, withdrawn, backed>>

ForfeitAndWithdraw(a) ==
  /\ ~backed
  /\ a <= gift
  /\ credit' = 0
  /\ gift' = gift - a
  /\ withdrawn' = withdrawn + a
  /\ UNCHANGED <<deposited, backed>>

Lapse ==
  /\ backed' = FALSE
  /\ UNCHANGED <<credit, gift, deposited, withdrawn>>

(* An amount is what a counter of the next state says it was: quantifying  *)
(* over Nat would not be evaluable.                                        *)
Next ==
  \/ DepositGift(deposited' - deposited)
  \/ Refund(deposited' - deposited)
  \/ Purchase(deposited' - deposited)
  \/ Withdraw(withdrawn' - withdrawn)
  \/ ForfeitAndWithdraw(withdrawn' - withdrawn)
  \/ Forfeit
  \/ Lapse

Spec == Init /\ [][Next]_vars
=============================================================================
