------------------------------ MODULE MCKeyedDB ------------------------------
(* Small instances of KeyedDB for TLC. *)
EXTENDS KeyedDB, TLC

CONSTANTS c1, c2, k1, v1, g1, g2, g3

OneByte == [x \in {k1, v1, Absent} |-> IF x = Absent THEN 0 ELSE 1]
ValidText == [x \in CommandIDs \cup Keys |-> x]
PutOnly == {[x \in {k1} |-> v1]}
Symmetry == Permutations(CommandIDs) \cup Permutations(Clients)
=============================================================================
