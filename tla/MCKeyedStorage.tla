--------------------------- MODULE MCKeyedStorage ---------------------------
(* Small instances of KeyedStorage for TLC. *)
EXTENDS KeyedStorage, TLC

CONSTANTS c1, c2, c3, k1, k2, v1

Put(k) == [x \in {k} |-> v1]
Delete(k) == [x \in {k} |-> Absent]

\* One byte per key and value: a put has 2, a delete 1.
OneByte == [x \in {k1, k2, v1, Absent} |-> IF x = Absent THEN 0 ELSE 1]

\* Every string is valid UTF-8: encoding/json returns it unchanged.
ValidText == [x \in CommandIDs \cup Keys |-> x]

PutOnly == {Put(k1)}
PutDelete == {Put(k1), Delete(k1)}
Symmetry == Permutations(CommandIDs)
=============================================================================
