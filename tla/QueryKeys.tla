----------------------------- MODULE QueryKeys ------------------------------
(***************************************************************************)
(* The sorted key slices behind dataset scans (catalog.go): one slice per  *)
(* dataset, sorted once when a database opens and kept sorted by every     *)
(* put and delete.  A key is a number, for its place among the strings     *)
(* that occur.                                                             *)
(***************************************************************************)
EXTENDS Integers, Sequences, FiniteSetsExt

\* The keys of some records, sorted.
Ordered(ks) ==
    LET keys == {k.key : k \in ks} IN
    [i \in 1..Cardinality(keys) |-> CHOOSE x \in keys : Cardinality({y \in keys : y < x}) = i - 1]

\* The slices applyQueryKeyMutations builds.
insertAt(keys, i, key) == SubSeq(keys, 1, i - 1) \o <<key>> \o SubSeq(keys, i, Len(keys))
removeAt(keys, i) == SubSeq(keys, 1, i - 1) \o SubSeq(keys, i + 1, Len(keys))

\* Altered ApplyKeyMutation: a put does not look whether the key is there already.
InsertAgain(keys, key, isDelete) ==
    LET position == Cardinality({i \in DOMAIN keys : keys[i] < key}) + 1
        exists == position <= Len(keys) /\ keys[position] = key
    IN IF isDelete THEN IF exists THEN removeAt(keys, position) ELSE keys
       ELSE insertAt(keys, position, key)

\* One mutation: sort.SearchStrings, then insert or remove at the position found.
ApplyKeyMutation(keys, key, isDelete) ==
    LET position == Cardinality({i \in DOMAIN keys : keys[i] < key}) + 1
        exists == position <= Len(keys) /\ keys[position] = key
    IN IF isDelete THEN IF exists THEN removeAt(keys, position) ELSE keys
       ELSE IF exists THEN keys ELSE insertAt(keys, position, key)

\* The mutations of one record that are in one dataset; deletes are among them.
ApplyKeyMutations(keys, ks, deletes) ==
    FoldSet(LAMBDA k, slice : ApplyKeyMutation(slice, k.key, k \in deletes), keys, ks)

=============================================================================
