----------------------------- MODULE MCCatalog ------------------------------
(* Small instances of Catalog for TLC. *)
EXTENDS Catalog, TLC

CONSTANTS c1, c2, v1

\* Names in byte order: the bucket and a dataset in ASCII, U+FFFD, and a byte that is not
\* valid UTF-8 and that encoding/json replaces by it.
ASCIIBucket == 1
ASCIIName == 2
Replacement == 3
InvalidName == 4
UTF8 == [n \in 1..4 |-> IF n = InvalidName THEN Replacement ELSE n]

\* Two datasets, the second with room for one record.  Opened again, the second is called
\* U+FFFD, and a third one can be made that the file does not tell from it.
Request(name, records) ==
    [name |-> <<ASCIIBucket, name>>,
     options |-> [type |-> ASCIIName, maxRecords |-> records, maxValueBytes |-> 1]]
TwoDatasets == {Request(ASCIIName, 2), Request(InvalidName, 1)}

At(id, key) == [id |-> id, key |-> key]
Put(ks) == [x \in ks |-> v1]
Move(from, to) == [x \in {from, to} |-> IF x = to THEN v1 ELSE Absent]

\* The first write needs a dataset with room for two and inserts before and after a key that
\* is there, the second moves a record to the other dataset; repeated they overwrite.
PlainKeys == {At(id, key) : id \in 1..2, key \in 1..2}
AllWrites == {Put({At(1, 1), At(1, 2)}), Move(At(1, 1), At(2, 1))}

\* A dataset ID beyond the plain ones comes back from encoding/json as the ID that starts
\* with the bytes of U+FFFD.
Replaced == 239
TextKeys == {At(1, 1), At(2, 1), At(Replaced, 1)}
SecondDataset == {Put({At(2, 1)})}

OneByte == [x \in Keys \cup {v1, Absent} |-> IF x = Absent THEN 0 ELSE 1]

\* Every dataset ID is below 128.
PlainText == [x \in CommandIDs \cup Keys |-> x]
\* The second dataset stands for ID 128, the first that is not valid UTF-8.
IDBeyondASCII == [x \in CommandIDs \cup Keys |->
    IF x \in Keys /\ x.id = 2 THEN At(Replaced, x.key) ELSE x]

Symmetry == Permutations(CommandIDs)
=============================================================================
