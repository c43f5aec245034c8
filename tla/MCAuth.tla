------------------------------- MODULE MCAuth -------------------------------
(* A small instance of Auth.tla for TLC. *)
EXTENDS Auth, TLC

(* Every number is a spelling of the same phone. *)
Ali == CHOOSE p \in People : TRUE
OnePhone == [n \in Numbers |-> Ali]

AllFaults == {"overlap", "sms", "database", "crash"}

Symmetry == Permutations(Numbers) \union Permutations(Codes)
              \union Permutations(Passwords) \union Permutations(Requests)
=============================================================================
