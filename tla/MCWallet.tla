------------------------------ MODULE MCWallet ------------------------------
(* Small instances of Wallet.tla for TLC. *)
EXTENDS Wallet, TLC

(* A user with a package and a gift: withdrawals that fit one, both or none. *)
MixedJobs == {[kind |-> "gift", amount |-> 1],
              [kind |-> "refund", amount |-> 1],
              [kind |-> "purchase", amount |-> 2],
              [kind |-> "withdraw", amount |-> 1],
              [kind |-> "withdraw", amount |-> 3],
              [kind |-> "check", amount |-> 1]}

(* Equal packages, withdrawals that need both and a gift that pays for one  *)
(* when the packages have expired.                                           *)
TiedJobs == {[kind |-> "purchase", amount |-> 1],
             [kind |-> "withdraw", amount |-> 2],
             [kind |-> "gift", amount |-> 2]}

Symmetry == Permutations(Requests)

(* Requests are interchangeable, and liveness forbids SYMMETRY: numbered     *)
(* requests start with their jobs in order, one assignment for each bag.     *)
Rank == [purchase |-> 1, withdraw |-> 2, gift |-> 3]
OrderedInit ==
  /\ Init
  /\ \A r, s \in Requests : r < s => Rank[Kind(r)] <= Rank[Kind(s)]
OrderedSpec == OrderedInit /\ [][Next]_vars /\ Fairness
=============================================================================
