---------------------------- MODULE MCDocuments ----------------------------
(* Small instances of Documents.tla for TLC, by the faults around the code. *)
EXTENDS Documents, TLC

TwoPages == [d \in Documents |-> 2]

SaveFaults == {"save"}
AllFaults == {"overlap", "delete", "save", "database", "worker", "broker", "crash"}

Symmetry == Permutations(Documents) \union Permutations(Requests) \union Permutations(Slots)
=============================================================================
