-------------------------- MODULE QueryKeys_proof ---------------------------
(***************************************************************************)
(* The slices that single mutations lead to are the sorted keys.  A sorted *)
(* slice is determined by the set of its keys; a mutation keeps a slice    *)
(* sorted and adds or takes away one key; so the mutations of a command,   *)
(* in whatever order, lead to the slice that sorting would have given.     *)
(***************************************************************************)
EXTENDS QueryKeys, FiniteSetTheorems, TLAPS

\* A leaf is tried with Zenon and then with the SMT solver, unless it names a prover.
USE ZenonT(2), SMTT(20), ZenonT(30)

\* A set of naturals that has 0 and with every number the next has all of them.
LEMMA NaturalInduction ==
    ASSUME NEW D, 0 \in D, \A n \in Nat : n \in D => n + 1 \in D
    PROVE  \A n \in Nat : n \in D
<1> DEFINE bad == Nat \ D
<1> SUFFICES ASSUME bad # {} PROVE FALSE
  OBVIOUS
<1>1. PICK x \in bad : \A y \in bad : ~(<<y, x>> \in OpToRel(<, Nat))
  BY NatLessThanWellFounded, WFMin
<1>2. x - 1 \in Nat
  OBVIOUS
<1>3. <<x - 1, x>> \in OpToRel(<, Nat)
  BY <1>2 DEF OpToRel
<1>4. x - 1 \in D
  BY <1>1, <1>2, <1>3
<1> QED
  BY <1>2, <1>4

\* What holds of a finite set when it holds of all its smaller subsets.
LEMMA SubsetInduction ==
    ASSUME NEW S, IsFiniteSet(S), NEW Q,
           \A T \in SUBSET S : (\A x \in T : T \ {x} \in Q) => T \in Q
    PROVE  \A T \in SUBSET S : T \in Q
<1> DEFINE D == {n \in Nat : \A T \in SUBSET S : Cardinality(T) = n => T \in Q}
<1>1. \A T \in SUBSET S : /\ IsFiniteSet(T) /\ Cardinality(T) \in Nat
                          /\ \A x \in T : Cardinality(T \ {x}) = Cardinality(T) - 1
  BY FS_Subset, FS_CardinalityType, FS_RemoveElement
<1>2. 0 \in D
  <2>1. ASSUME NEW T \in SUBSET S, Cardinality(T) = 0 PROVE T \in Q
    BY <1>1, <2>1, FS_EmptySet
  <2> QED
    BY <2>1
<1>3. ASSUME NEW n \in Nat, n \in D PROVE n + 1 \in D
  <2>1. ASSUME NEW T \in SUBSET S, Cardinality(T) = n + 1 PROVE T \in Q
    <3>1. \A x \in T : T \ {x} \in SUBSET S /\ Cardinality(T \ {x}) = n
      BY <1>1, <2>1
    <3> QED
      BY <1>3, <3>1
  <2> QED
    BY <2>1
<1> HIDE DEF D
<1>4. \A n \in Nat : n \in D
  BY <1>2, <1>3, NaturalInduction
<1> QED
  BY <1>1, <1>4 DEF D


-----------------------------------------------------------------------------
(* Keys in order *)

Rising(s) == s \in Seq(Nat) /\ \A i, j \in 1..Len(s) : i < j => s[i] < s[j]
Entries(s) == {s[i] : i \in 1..Len(s)}

\* The first n keys are n keys.
LEMMA RisingCount ==
    ASSUME NEW s, Rising(s), NEW n \in 0..Len(s)
    PROVE  Cardinality({s[i] : i \in 1..n}) = n
<1> DEFINE T == {s[i] : i \in 1..n}
           f == [i \in 1..n |-> s[i]]
<1>1. n \in Nat /\ \A i \in 1..n : i \in 1..Len(s) /\ s[i] \in Nat
  BY DEF Rising
<1>2. \A i, j \in 1..n : s[i] = s[j] => i = j
  BY <1>1 DEF Rising
<1>3. f \in [1..n -> T] /\ (\A i, j \in 1..n : f[i] = f[j] => i = j) /\ \A t \in T : \E i \in 1..n : f[i] = t
  BY <1>2
<1> HIDE DEF f, T
<1>4. ExistsBijection(1..n, T)
  BY <1>3 DEF ExistsBijection, Bijection, Injection, Surjection, IsInjective
<1> QED
  BY <1>1, <1>4, FS_CountingElements DEF T

\* Keys in rising order are the ordered keys.
LEMMA OrderedIs ==
    ASSUME NEW s, Rising(s), NEW ks, {k.key : k \in ks} = Entries(s)
    PROVE  Ordered(ks) = s
<1> DEFINE K == {k.key : k \in ks}
           Below(x) == {y \in K : y < x}
<1>1. Len(s) \in Nat /\ \A i \in 1..Len(s) : s[i] \in Nat /\ i - 1 \in 0..Len(s)
  BY DEF Rising
<1>2. K = Entries(s)
  OBVIOUS
<1>3. Ordered(ks) = [i \in 1..Cardinality(K) |-> CHOOSE x \in K : Cardinality(Below(x)) = i - 1]
  BY Zenon DEF Ordered
<1> HIDE DEF K
<1>4. Cardinality(K) = Len(s)
  BY <1>1, <1>2, RisingCount DEF Entries
<1>5. ASSUME NEW i \in 1..Len(s) PROVE Cardinality(Below(s[i])) = i - 1
  <2>1. Below(s[i]) = {s[j] : j \in 1..(i - 1)}
    <3>1. \A j \in 1..Len(s) : s[j] < s[i] <=> j <= i - 1
      BY <1>1 DEF Rising
    <3> QED
      BY <1>1, <1>2, <3>1 DEF Entries
  <2> QED
    BY <1>1, <2>1, RisingCount
<1> HIDE DEF Below
<1>6. ASSUME NEW i \in 1..Len(s) PROVE (CHOOSE x \in K : Cardinality(Below(x)) = i - 1) = s[i]
  <2>1. s[i] \in K
    BY <1>2 DEF Entries
  <2>2. \A x \in K : Cardinality(Below(x)) = i - 1 => x = s[i]
    BY <1>1, <1>2, <1>5 DEF Entries
  <2> QED
    BY <1>5, <2>1, <2>2
<1>7. s = [i \in 1..Len(s) |-> s[i]]
  BY DEF Rising
<1> QED
  BY <1>3, <1>4, <1>6, <1>7

\* sort.SearchStrings finds the place of a key.
LEMMA Position ==
    ASSUME NEW s, Rising(s), NEW key \in Nat
    PROVE  \E p \in 0..Len(s) : /\ Cardinality({i \in DOMAIN s : s[i] < key}) = p
                                /\ \A i \in 1..Len(s) : s[i] < key <=> i <= p
<1> DEFINE beyond == {n \in Nat : n \in 1..(Len(s) + 1) /\ (n <= Len(s) => ~(s[n] < key))}
<1>1. Len(s) \in Nat /\ DOMAIN s = 1..Len(s) /\ \A i \in 1..Len(s) : s[i] \in Nat
  BY DEF Rising
<1>2. Len(s) + 1 \in beyond
  BY <1>1
<1>3. PICK m \in beyond : \A n \in beyond : ~(<<n, m>> \in OpToRel(<, Nat))
  BY <1>2, NatLessThanWellFounded, WFMin
<1>4. \A n \in beyond : ~(n < m)
  BY <1>3 DEF OpToRel
<1>5. m - 1 \in 0..Len(s) /\ m - 1 \in Nat /\ m \in Nat
  BY <1>1
<1>6. ASSUME NEW i \in 1..Len(s) PROVE s[i] < key <=> i <= m - 1
  <2>1. CASE i < m
    <3>1. i \notin beyond
      BY <1>4, <2>1
    <3> QED
      BY <1>1, <2>1, <3>1
  <2>2. CASE m <= i
    <3>1. m \in 1..Len(s) /\ ~(s[m] < key)
      BY <1>1, <2>2
    <3>2. s[m] <= s[i]
      BY <1>1, <2>2, <3>1 DEF Rising
    <3> QED
      BY <1>1, <2>2, <3>1, <3>2
  <2> QED
    BY <1>5, <2>1, <2>2
<1>7. {i \in DOMAIN s : s[i] < key} = 1..(m - 1)
  BY <1>1, <1>5, <1>6
<1>8. Cardinality(1..(m - 1)) = m - 1
  BY <1>5, FS_Interval
<1> QED
  BY <1>5, <1>6, <1>7, <1>8

\* What append of two slices holds.
LEMMA Appended ==
    ASSUME NEW a \in Seq(Nat), NEW c \in Seq(Nat)
    PROVE  /\ a \o c \in Seq(Nat) /\ Len(a \o c) = Len(a) + Len(c)
           /\ \A i \in 1..Len(a) : (a \o c)[i] = a[i]
           /\ \A i \in 1..Len(c) : (a \o c)[Len(a) + i] = c[i]
<1>1. Len(a) \in Nat /\ Len(c) \in Nat
  OBVIOUS
<1>2. a \o c \in Seq(Nat) /\ Len(a \o c) = Len(a) + Len(c)
  OBVIOUS
<1>3. \A i \in 1..(Len(a) + Len(c)) : (a \o c)[i] = IF i <= Len(a) THEN a[i] ELSE c[i - Len(a)]
  OBVIOUS
<1>4. \A i \in 1..Len(a) : i \in 1..(Len(a) + Len(c)) /\ i <= Len(a)
  BY <1>1
<1>5. \A i \in 1..Len(c) : /\ Len(a) + i \in 1..(Len(a) + Len(c)) /\ ~(Len(a) + i <= Len(a))
                           /\ (Len(a) + i) - Len(a) = i
  BY <1>1
<1> QED
  BY <1>2, <1>3, <1>4, <1>5, Zenon

\* A slice with a key put in.
LEMMA Inserted ==
    ASSUME NEW s \in Seq(Nat), NEW key \in Nat, NEW p \in 0..Len(s)
    PROVE  LET r == insertAt(s, p + 1, key)
           IN  /\ r \in Seq(Nat) /\ Len(r) = Len(s) + 1
               /\ \A i \in 1..p : r[i] = s[i]
               /\ r[p + 1] = key
               /\ \A i \in (p + 1)..Len(s) : r[i + 1] = s[i]
<1> DEFINE r == insertAt(s, p + 1, key)
           a == SubSeq(s, 1, p)
           c == SubSeq(s, p + 1, Len(s))
<1>1. PICK n \in Nat : n = Len(s) /\ p \in 0..n
  OBVIOUS
<1>2. a \in Seq(Nat) /\ Len(a) = p /\ \A i \in 1..p : a[i] = s[i]
  <2>1. \A i \in 1..p : s[i] \in Nat
    BY <1>1
  <2> QED
    BY <1>1, <2>1
<1>3. c \in Seq(Nat) /\ Len(c) = n - p /\ \A i \in 1..(n - p) : c[i] = s[p + i]
  <2>1. \A i \in (p + 1)..n : s[i] \in Nat
    BY <1>1
  <2>2. /\ SubSeq(s, p + 1, n) \in Seq(Nat)
        /\ Len(SubSeq(s, p + 1, n)) = IF p + 1 <= n THEN n - (p + 1) + 1 ELSE 0
        /\ \A i \in 1..(n - (p + 1) + 1) : SubSeq(s, p + 1, n)[i] = s[p + 1 + i - 1]
    BY <1>1, <2>1
  <2> QED
    BY <1>1, <2>2
<1>4. r = (a \o <<key>>) \o c
  <2>1. (p + 1) - 1 = p
    BY <1>1
  <2> QED
    BY <2>1, Zenon DEF insertAt
<1> HIDE DEF r, a, c
<1> DEFINE d == a \o <<key>>
<1>5. d \in Seq(Nat) /\ Len(d) = p + 1 /\ d[p + 1] = key /\ \A i \in 1..p : d[i] = s[i]
  <2>1. <<key>> \in Seq(Nat) /\ Len(<<key>>) = 1 /\ <<key>>[1] = key
    OBVIOUS
  <2>2. PICK e \in Seq(Nat) : e = <<key>> /\ Len(e) = 1 /\ e[1] = key
    BY <2>1
  <2>3. /\ a \o e \in Seq(Nat) /\ Len(a \o e) = Len(a) + Len(e)
        /\ \A i \in 1..Len(a) : (a \o e)[i] = a[i]
        /\ \A i \in 1..Len(e) : (a \o e)[Len(a) + i] = e[i]
    BY <1>2, <2>2, Appended
  <2>4. d = a \o e
    BY <2>2
  <2> HIDE DEF d
  <2>5. 1 \in 1..1
    OBVIOUS
  <2> QED
    BY <1>2, <2>2, <2>3, <2>4, <2>5, Zenon
<1> HIDE DEF d
<1>6. r = d \o c
  BY <1>4 DEF d
<1>7. /\ r \in Seq(Nat) /\ Len(r) = (p + 1) + (n - p)
      /\ \A i \in 1..(p + 1) : r[i] = d[i]
      /\ \A i \in 1..(n - p) : r[(p + 1) + i] = c[i]
  <2>1. /\ r \in Seq(Nat) /\ Len(r) = Len(d) + Len(c)
        /\ \A i \in 1..Len(d) : r[i] = d[i]
        /\ \A i \in 1..Len(c) : r[Len(d) + i] = c[i]
    <3>1. /\ d \o c \in Seq(Nat) /\ Len(d \o c) = Len(d) + Len(c)
          /\ \A i \in 1..Len(d) : (d \o c)[i] = d[i]
          /\ \A i \in 1..Len(c) : (d \o c)[Len(d) + i] = c[i]
      BY <1>3, <1>5, Appended
    <3> QED
      BY <1>6, <3>1, Zenon
  <2> QED
    BY <1>3, <1>5, <2>1, Zenon
<1>8. (p + 1) + (n - p) = n + 1
  BY <1>1
<1>9. \A i \in 1..p : i \in 1..(p + 1)
  BY <1>1
<1>10. p + 1 \in 1..(p + 1)
  BY <1>1
<1>11. ASSUME NEW i \in (p + 1)..n PROVE r[i + 1] = s[i]
  <2>1. i - p \in 1..(n - p) /\ (p + 1) + (i - p) = i + 1 /\ p + (i - p) = i
    BY <1>1
  <2>2. r[(p + 1) + (i - p)] = c[i - p] /\ c[i - p] = s[p + (i - p)]
    BY <1>3, <1>7, <2>1, Zenon
  <2> QED
    BY <2>1, <2>2, Zenon
<1> QED
  BY <1>1, <1>5, <1>7, <1>8, <1>9, <1>10, <1>11, Zenon DEF r

\* A slice with a key taken out.
LEMMA Removed ==
    ASSUME NEW s \in Seq(Nat), NEW p \in 0..Len(s), p < Len(s)
    PROVE  LET r == removeAt(s, p + 1)
           IN  /\ r \in Seq(Nat) /\ Len(r) = Len(s) - 1
               /\ \A i \in 1..p : r[i] = s[i]
               /\ \A i \in (p + 1)..Len(r) : r[i] = s[i + 1]
<1> DEFINE r == removeAt(s, p + 1)
           a == SubSeq(s, 1, p)
           c == SubSeq(s, p + 2, Len(s))
<1>1. PICK n \in Nat : n = Len(s) /\ p \in 0..n
  OBVIOUS
<1>2. a \in Seq(Nat) /\ Len(a) = p /\ \A i \in 1..p : a[i] = s[i]
  <2>1. \A i \in 1..p : s[i] \in Nat
    BY <1>1
  <2> QED
    BY <1>1, <2>1
<1>3. c \in Seq(Nat) /\ Len(c) = n - p - 1 /\ \A i \in 1..(n - p - 1) : c[i] = s[p + 1 + i]
  <2>1. \A i \in (p + 2)..n : s[i] \in Nat
    BY <1>1
  <2>2. /\ SubSeq(s, p + 2, n) \in Seq(Nat)
        /\ Len(SubSeq(s, p + 2, n)) = IF p + 2 <= n THEN n - (p + 2) + 1 ELSE 0
        /\ \A i \in 1..(n - (p + 2) + 1) : SubSeq(s, p + 2, n)[i] = s[p + 2 + i - 1]
    BY <1>1, <2>1
  <2> QED
    BY <1>1, <2>2
<1>4. r = a \o c
  <2>1. (p + 1) - 1 = p /\ (p + 1) + 1 = p + 2
    BY <1>1
  <2> QED
    BY <2>1, Zenon DEF removeAt
<1> HIDE DEF r, a, c
<1>5. /\ r \in Seq(Nat) /\ Len(r) = p + (n - p - 1)
      /\ \A i \in 1..p : r[i] = a[i]
      /\ \A i \in 1..(n - p - 1) : r[p + i] = c[i]
  <2>1. /\ r \in Seq(Nat) /\ Len(r) = Len(a) + Len(c)
        /\ \A i \in 1..Len(a) : r[i] = a[i]
        /\ \A i \in 1..Len(c) : r[Len(a) + i] = c[i]
    <3>1. /\ a \o c \in Seq(Nat) /\ Len(a \o c) = Len(a) + Len(c)
          /\ \A i \in 1..Len(a) : (a \o c)[i] = a[i]
          /\ \A i \in 1..Len(c) : (a \o c)[Len(a) + i] = c[i]
      BY <1>2, <1>3, Appended
    <3> QED
      BY <1>4, <3>1, Zenon
  <2> QED
    BY <1>2, <1>3, <2>1, Zenon
<1>6. p + (n - p - 1) = n - 1
  BY <1>1
<1>7. \A i \in 1..p : r[i] = s[i]
  BY <1>2, <1>5, Zenon
<1>8. ASSUME NEW i \in (p + 1)..(n - 1) PROVE r[i] = s[i + 1]
  <2>1. i - p \in 1..(n - p - 1) /\ p + (i - p) = i /\ p + 1 + (i - p) = i + 1
    BY <1>1
  <2>2. r[p + (i - p)] = c[i - p] /\ c[i - p] = s[p + 1 + (i - p)]
    BY <1>3, <1>5, <2>1, Zenon
  <2> QED
    BY <2>1, <2>2, Zenon
<1> QED
  BY <1>1, <1>5, <1>6, <1>7, <1>8, Zenon DEF r

\* What a put or a delete of a key leaves of a set of keys.
KeysAfter(ks, key, isDelete) == IF isDelete THEN ks \ {key} ELSE ks \cup {key}

\* One mutation keeps the order, and puts in or takes out its key.
LEMMA MutationOrdered ==
    ASSUME NEW s, Rising(s), NEW key \in Nat, NEW isDelete \in BOOLEAN
    PROVE  /\ Rising(ApplyKeyMutation(s, key, isDelete))
           /\ Entries(ApplyKeyMutation(s, key, isDelete)) = KeysAfter(Entries(s), key, isDelete)
<1> DEFINE r == ApplyKeyMutation(s, key, isDelete)
<1> SUFFICES Rising(r) /\ Entries(r) = IF isDelete THEN Entries(s) \ {key} ELSE Entries(s) \cup {key}
  BY Zenon DEF KeysAfter
<1>1. PICK n \in Nat : n = Len(s)
  BY DEF Rising
<1>2. s \in Seq(Nat) /\ (\A i \in 1..n : s[i] \in Nat) /\ \A i, j \in 1..n : i < j => s[i] < s[j]
  BY <1>1 DEF Rising
<1>3. PICK p \in 0..n : /\ Cardinality({i \in DOMAIN s : s[i] < key}) = p
                        /\ \A i \in 1..n : s[i] < key <=> i <= p
  BY <1>1, Position
<1> DEFINE exists == p + 1 <= n /\ s[p + 1] = key
<1>4. r = IF isDelete THEN IF exists THEN removeAt(s, p + 1) ELSE s
          ELSE IF exists THEN s ELSE insertAt(s, p + 1, key)
  BY <1>1, <1>3 DEF ApplyKeyMutation
<1>5. \A i \in 1..n : s[i] = key => i = p + 1
  <2> SUFFICES ASSUME NEW i \in 1..n, s[i] = key PROVE i = p + 1
    OBVIOUS
  <2>1. p < i
    BY <1>2, <1>3
  <2>2. p + 1 \in 1..n /\ ~(s[p + 1] < key)
    BY <1>2, <1>3, <2>1
  <2> QED
    BY <1>2, <2>1, <2>2
<1>6. exists <=> \E i \in 1..n : s[i] = key
  BY <1>5
<1>7. Entries(s) = {s[i] : i \in 1..n}
  BY <1>1 DEF Entries
<1> HIDE DEF exists, r
<1>8. CASE r = s /\ (isDelete <=> ~exists)
  BY <1>6, <1>7, <1>8
<1>9. CASE isDelete /\ exists /\ r = removeAt(s, p + 1)
  <2>1. p < n /\ p + 1 \in 1..n /\ s[p + 1] = key /\ n - 1 \in Nat
    BY <1>9 DEF exists
  <2>2. /\ r \in Seq(Nat) /\ Len(r) = n - 1 /\ (\A i \in 1..p : r[i] = s[i])
        /\ \A i \in (p + 1)..(n - 1) : r[i] = s[i + 1]
    <3>1. p \in 0..Len(s) /\ p < Len(s)
      BY <1>1, <2>1
    <3>2. /\ r \in Seq(Nat) /\ Len(r) = Len(s) - 1 /\ (\A i \in 1..p : r[i] = s[i])
          /\ \A i \in (p + 1)..Len(r) : r[i] = s[i + 1]
      <4>1. LET q == removeAt(s, p + 1)
            IN  /\ q \in Seq(Nat) /\ Len(q) = Len(s) - 1 /\ (\A i \in 1..p : q[i] = s[i])
                /\ \A i \in (p + 1)..Len(q) : q[i] = s[i + 1]
        BY <1>2, <3>1, Removed
      <4> QED
        BY <1>9, <4>1, Zenon
    <3> QED
      BY <1>1, <3>2, Zenon
  <2>3. \A i \in 1..(n - 1) : i \in 1..n /\ i + 1 \in 1..n /\ (i \in 1..p \/ i \in (p + 1)..(n - 1))
    BY <2>1
  <2>4. ASSUME NEW i \in 1..(n - 1), NEW j \in 1..(n - 1), i < j PROVE r[i] < r[j]
    <3>1. CASE i \in 1..p /\ j \in 1..p
      BY <1>2, <2>2, <2>3, <2>4, <3>1
    <3>2. CASE i \in 1..p /\ j \in (p + 1)..(n - 1)
      <4>1. i < j + 1
        BY <2>4
      <4> QED
        BY <1>2, <2>2, <2>3, <3>2, <4>1
    <3>3. CASE i \in (p + 1)..(n - 1) /\ j \in (p + 1)..(n - 1)
      <4>1. i + 1 < j + 1
        BY <2>4
      <4> QED
        BY <1>2, <2>2, <2>3, <3>3, <4>1
    <3> QED
      BY <2>3, <2>4, <3>1, <3>2, <3>3
  <2>5. ASSUME NEW i \in 1..(n - 1) PROVE r[i] \in Entries(s) \ {key}
    <3>1. CASE i \in 1..p
      <4>1. i # p + 1
        BY <3>1
      <4> QED
        BY <1>5, <1>7, <2>2, <2>3, <3>1, <4>1
    <3>2. CASE i \in (p + 1)..(n - 1)
      <4>1. i + 1 # p + 1
        BY <3>2
      <4> QED
        BY <1>5, <1>7, <2>2, <2>3, <3>2, <4>1
    <3> QED
      BY <2>3, <3>1, <3>2
  <2>6. ASSUME NEW u \in 1..n, s[u] # key PROVE \E i \in 1..(n - 1) : r[i] = s[u]
    <3>1. CASE u <= p
      <4>1. u \in 1..p /\ u \in 1..(n - 1)
        BY <2>1, <3>1
      <4> QED
        BY <2>2, <4>1
    <3>2. CASE u > p
      <4>1. u # p + 1
        BY <2>1, <2>6
      <4>2. u - 1 \in (p + 1)..(n - 1) /\ u - 1 \in 1..(n - 1) /\ (u - 1) + 1 = u
        BY <3>2, <4>1
      <4> QED
        BY <2>2, <4>2
    <3> QED
      BY <3>1, <3>2
  <2>7. Entries(r) = {r[i] : i \in 1..(n - 1)} /\ Rising(r)
    BY <2>2, <2>4 DEF Entries, Rising
  <2>8. Entries(r) \subseteq Entries(s) \ {key}
    BY <2>5, <2>7, Zenon
  <2>9. Entries(s) \ {key} \subseteq Entries(r)
    BY <1>7, <2>6, <2>7
  <2> QED
    BY <1>9, <2>7, <2>8, <2>9
<1>10. CASE ~isDelete /\ ~exists /\ r = insertAt(s, p + 1, key)
  <2>1. /\ r \in Seq(Nat) /\ Len(r) = n + 1 /\ (\A i \in 1..p : r[i] = s[i]) /\ r[p + 1] = key
        /\ \A i \in (p + 1)..n : r[i + 1] = s[i]
    <3>1. p \in 0..Len(s)
      BY <1>1
    <3>2. /\ r \in Seq(Nat) /\ Len(r) = Len(s) + 1 /\ (\A i \in 1..p : r[i] = s[i]) /\ r[p + 1] = key
          /\ \A i \in (p + 1)..Len(s) : r[i + 1] = s[i]
      <4>1. LET q == insertAt(s, p + 1, key)
            IN  /\ q \in Seq(Nat) /\ Len(q) = Len(s) + 1 /\ (\A i \in 1..p : q[i] = s[i])
                /\ q[p + 1] = key /\ \A i \in (p + 1)..Len(s) : q[i + 1] = s[i]
        BY <1>2, <3>1, Inserted
      <4> QED
        BY <1>10, <4>1, Zenon
    <3> QED
      BY <1>1, <3>2, Zenon
  <2>2. \A u \in (p + 1)..n : u \in 1..n /\ key < s[u]
    BY <1>2, <1>3, <1>6, <1>10
  <2>3. \A i \in 1..p : i \in 1..n /\ s[i] < key
    BY <1>3
  <2>4. \A i \in 1..(n + 1) : i \in 1..p \/ i = p + 1 \/ \E u \in (p + 1)..n : i = u + 1
    <3> SUFFICES ASSUME NEW i \in 1..(n + 1), i > p + 1 PROVE \E u \in (p + 1)..n : i = u + 1
      OBVIOUS
    <3>1. i - 1 \in (p + 1)..n /\ i = (i - 1) + 1
      OBVIOUS
    <3> QED
      BY <3>1
  <2>5. ASSUME NEW i \in 1..(n + 1), NEW j \in 1..(n + 1), i < j PROVE r[i] < r[j]
    <3>1. CASE i \in 1..p /\ j \in 1..p
      BY <1>2, <2>1, <2>3, <2>5, <3>1
    <3>2. CASE i \in 1..p /\ j = p + 1
      BY <2>1, <2>3, <3>2
    <3>3. ASSUME NEW v \in (p + 1)..n, j = v + 1 PROVE r[i] < r[j]
      <4>1. r[j] = s[v] /\ v \in 1..n
        BY <2>1, <2>2, <3>3
      <4>2. CASE i \in 1..p
        <5>1. i < v
          BY <4>2
        <5> QED
          BY <1>2, <2>1, <2>3, <4>1, <4>2, <5>1
      <4>3. CASE i = p + 1
        BY <2>1, <2>2, <4>1, <4>3
      <4>4. ASSUME NEW u \in (p + 1)..n, i = u + 1 PROVE r[i] < r[j]
        <5>1. u < v /\ u \in 1..n /\ r[i] = s[u]
          BY <2>1, <2>2, <2>5, <3>3, <4>4
        <5> QED
          BY <1>2, <4>1, <5>1
      <4> QED
        BY <2>4, <4>2, <4>3, <4>4
    <3>4. j \in 1..p => i \in 1..p
      BY <2>5
    <3>5. j = p + 1 => i \in 1..p
      BY <2>5
    <3> QED
      BY <2>4, <3>1, <3>2, <3>3, <3>4, <3>5
  <2>6. ASSUME NEW i \in 1..(n + 1) PROVE r[i] \in Entries(s) \cup {key}
    <3>1. CASE i \in 1..p
      BY <1>7, <2>1, <2>3, <3>1
    <3>2. ASSUME NEW u \in (p + 1)..n, i = u + 1 PROVE r[i] \in Entries(s)
      BY <1>7, <2>1, <2>2, <3>2
    <3> QED
      BY <2>1, <2>4, <3>1, <3>2
  <2>7. ASSUME NEW u \in 1..n PROVE \E i \in 1..(n + 1) : r[i] = s[u]
    <3>1. CASE u \in 1..p
      BY <2>1, <3>1
    <3>2. CASE u \in (p + 1)..n
      <4>1. u + 1 \in 1..(n + 1)
        OBVIOUS
      <4> QED
        BY <2>1, <3>2, <4>1
    <3> QED
      BY <3>1, <3>2
  <2>8. p + 1 \in 1..(n + 1)
    OBVIOUS
  <2>9. Entries(r) = {r[i] : i \in 1..(n + 1)} /\ Rising(r)
    BY <2>1, <2>5 DEF Entries, Rising
  <2>10. Entries(r) \subseteq Entries(s) \cup {key}
    BY <2>6, <2>9, Zenon
  <2>11. Entries(s) \subseteq Entries(r)
    BY <1>7, <2>7, <2>9
  <2>12. key \in Entries(r)
    BY <2>1, <2>8, <2>9
  <2> QED
    BY <1>10, <2>9, <2>10, <2>11, <2>12
<1> QED
  BY <1>4, <1>8, <1>9, <1>10

\* Every finite set of keys has an order, and Ordered is it.
LEMMA OrderedRises ==
    ASSUME NEW ks, NEW S, S = {k.key : k \in ks}, IsFiniteSet(S), S \in SUBSET Nat
    PROVE  Rising(Ordered(ks)) /\ Entries(Ordered(ks)) = S
<1> DEFINE Q == {T \in SUBSET S : \E s : Rising(s) /\ Entries(s) = T}
<1>1. ASSUME NEW T \in SUBSET S, \A x \in T : T \ {x} \in Q PROVE T \in Q
  <2>1. CASE T = {}
    <3>1. Rising(<<>>) /\ Entries(<<>>) = {}
      BY DEF Rising, Entries
    <3> QED
      BY <2>1, <3>1
  <2>2. CASE T # {}
    <3>1. PICK x \in T : TRUE
      BY <2>2
    <3>2. PICK s : Rising(s) /\ Entries(s) = T \ {x}
      BY <1>1, <3>1
    <3>3. PICK r : r = ApplyKeyMutation(s, x, FALSE)
      OBVIOUS
    <3>4. Rising(r) /\ Entries(r) = Entries(s) \cup {x}
      <4>1. x \in Nat /\ FALSE \in BOOLEAN
        OBVIOUS
      <4>2. /\ Rising(ApplyKeyMutation(s, x, FALSE))
            /\ Entries(ApplyKeyMutation(s, x, FALSE)) = KeysAfter(Entries(s), x, FALSE)
        BY <3>2, <4>1, MutationOrdered, Zenon
      <4> QED
        BY <3>3, <4>2, Zenon DEF KeysAfter
    <3> QED
      BY <3>1, <3>2, <3>4
  <2> QED
    BY <2>1, <2>2
<1>2. S \in Q
  <2> HIDE DEF Q
  <2>1. \A T \in SUBSET S : T \in Q
    BY <1>1, SubsetInduction
  <2> QED
    BY <2>1
<1>3. PICK s : Rising(s) /\ Entries(s) = S
  BY <1>2
<1>4. Ordered(ks) = s
  BY <1>3, OrderedIs
<1> QED
  BY <1>3, <1>4

\* The keys of finitely many records have an order.
LEMMA KeysRise ==
    ASSUME NEW ks, IsFiniteSet(ks), \A k \in ks : k.key \in Nat
    PROVE  Rising(Ordered(ks)) /\ Entries(Ordered(ks)) = {k.key : k \in ks}
<1> DEFINE T == {k.key : k \in ks}
           f == [k \in ks |-> k.key]
<1>1. f \in Surjection(ks, T)
  BY DEF Surjection
<1> HIDE DEF f
<1>2. IsFiniteSet(T)
  BY <1>1, FS_Surjection
<1>3. T \in SUBSET Nat
  OBVIOUS
<1> QED
  BY <1>2, <1>3, OrderedRises

-----------------------------------------------------------------------------
(* The mutations of a command *)

\* One unfolding of applyQueryKeyMutations for a dataset: the slice after the mutations of s.
Mutated(deletes, base, g, s) ==
    IF s = {} THEN base ELSE LET x == CHOOSE x \in s : TRUE IN ApplyKeyMutation(g[s \ {x}], x.key, x \in deletes)
Slices(deletes, base, S, g) == g = [s \in SUBSET S |-> Mutated(deletes, base, g, s)]
SliceOf(deletes, base, S) == CHOOSE g : Slices(deletes, base, S, g)

\* The recursion of FoldSet has a solution on the subsets of a finite set.
LEMMA SliceExists ==
    ASSUME NEW deletes, NEW base, NEW S, IsFiniteSet(S)
    PROVE  Slices(deletes, base, S, SliceOf(deletes, base, S))
<1> DEFINE D == {n \in Nat : \E g : \A s \in SUBSET S : Cardinality(s) <= n => g[s] = Mutated(deletes, base, g, s)}
<1>1. \A T \in SUBSET S : /\ IsFiniteSet(T) /\ Cardinality(T) \in Nat /\ Cardinality(T) <= Cardinality(S)
                          /\ \A x \in T : Cardinality(T \ {x}) = Cardinality(T) - 1
  BY FS_Subset, FS_CardinalityType, FS_RemoveElement
<1>2. 0 \in D
  <2> DEFINE g == [s \in SUBSET S |-> base]
  <2>1. ASSUME NEW s \in SUBSET S, Cardinality(s) <= 0 PROVE g[s] = Mutated(deletes, base, g, s)
    <3>1. s = {}
      BY <1>1, <2>1, FS_EmptySet
    <3> QED
      BY <3>1 DEF Mutated
  <2> QED
    BY <2>1
<1>3. ASSUME NEW n \in Nat, n \in D PROVE n + 1 \in D
  <2>1. PICK g : \A s \in SUBSET S : Cardinality(s) <= n => g[s] = Mutated(deletes, base, g, s)
    BY <1>3
  <2> DEFINE h == [s \in SUBSET S |-> Mutated(deletes, base, g, s)]
  <2>2. ASSUME NEW s \in SUBSET S, Cardinality(s) <= n + 1 PROVE h[s] = Mutated(deletes, base, h, s)
    <3>1. CASE s = {}
      BY <3>1 DEF Mutated
    <3>2. CASE s # {}
      <4> DEFINE x == CHOOSE x \in s : TRUE
      <4>1. x \in s
        BY <3>2
      <4> HIDE DEF x
      <4>2. s \ {x} \in SUBSET S /\ Cardinality(s \ {x}) <= n
        BY <1>1, <2>2, <4>1
      <4>3. h[s \ {x}] = g[s \ {x}]
        BY <2>1, <4>2
      <4> HIDE DEF h
      <4>4. /\ Mutated(deletes, base, h, s) = ApplyKeyMutation(h[s \ {x}], x.key, x \in deletes)
            /\ Mutated(deletes, base, g, s) = ApplyKeyMutation(g[s \ {x}], x.key, x \in deletes)
        BY <3>2 DEF Mutated, x
      <4> QED
        BY <4>3, <4>4 DEF h
    <3> QED
      BY <3>1, <3>2
  <2> HIDE DEF h
  <2> QED
    BY <2>2
<1> HIDE DEF D
<1>4. Cardinality(S) \in D
  BY <1>1, <1>2, <1>3, NaturalInduction
<1>5. PICK g : \A s \in SUBSET S : g[s] = Mutated(deletes, base, g, s)
  BY <1>1, <1>4 DEF D
<1> DEFINE k == [s \in SUBSET S |-> g[s]]
<1>6. ASSUME NEW s \in SUBSET S PROVE k[s] = Mutated(deletes, base, k, s)
  <2>1. \A x : s \ {x} \in SUBSET S
    OBVIOUS
  <2>2. Mutated(deletes, base, k, s) = Mutated(deletes, base, g, s)
    BY <2>1 DEF Mutated
  <2> QED
    BY <1>5, <2>2
<1>7. Slices(deletes, base, S, k)
  <2> HIDE DEF k
  <2>1. k = [s \in SUBSET S |-> k[s]]
    BY DEF k
  <2> QED
    BY <1>6, <2>1 DEF Slices
<1> QED
  BY <1>7, Zenon DEF SliceOf

\* The slice of a dataset after a command is the one its mutations, in whatever order, lead to.
LEMMA MutationsOrdered ==
    ASSUME NEW deletes, NEW base, Rising(base), NEW S, IsFiniteSet(S), \A x \in S : x.key \in Nat,
           \A x, y \in S : x.key = y.key => x = y,
           NEW r, r = ApplyKeyMutations(base, S, deletes)
    PROVE  /\ Rising(r)
           /\ Entries(r) = (Entries(base) \ {x.key : x \in S}) \cup {x.key : x \in S \ deletes}
<1> DEFINE g == SliceOf(deletes, base, S)
           Dropped(s) == {x.key : x \in s}
           Put(s) == {x.key : x \in s \ deletes}
           Right(s) == Rising(g[s]) /\ Entries(g[s]) = (Entries(base) \ Dropped(s)) \cup Put(s)
           Q == {s \in SUBSET S : Right(s)}
<1>1. r = g[S]
  BY Zenon DEF ApplyKeyMutations, FoldSet, MapThenFoldSet, SliceOf, Slices, Mutated
<1>2. Slices(deletes, base, S, g)
  BY SliceExists
<1> HIDE DEF g
<1>3. ASSUME NEW s \in SUBSET S, \A x \in s : s \ {x} \in Q PROVE Right(s)
  <2>1. g[s] = Mutated(deletes, base, g, s)
    BY <1>2 DEF Slices
  <2>2. CASE s = {}
    BY <2>1, <2>2 DEF Mutated
  <2>3. CASE s # {}
    <3>1. PICK x \in s : x = CHOOSE y \in s : TRUE
      BY <2>3
    <3>2. g[s] = ApplyKeyMutation(g[s \ {x}], x.key, x \in deletes)
      BY <2>1, <2>3, <3>1 DEF Mutated
    <3>3. Right(s \ {x})
      BY <1>3, <3>1
    <3>4. x.key \in Nat /\ (x \in deletes) \in BOOLEAN
      OBVIOUS
    <3>5. /\ Rising(g[s])
          /\ Entries(g[s]) = IF x \in deletes THEN Entries(g[s \ {x}]) \ {x.key} ELSE Entries(g[s \ {x}]) \cup {x.key}
      <4>1. PICK isDelete \in BOOLEAN : isDelete <=> x \in deletes
        OBVIOUS
      <4>2. g[s] = ApplyKeyMutation(g[s \ {x}], x.key, isDelete)
        BY <3>2, <4>1 DEF ApplyKeyMutation
      <4>3. Rising(g[s \ {x}])
        BY <3>3
      <4>4. /\ Rising(ApplyKeyMutation(g[s \ {x}], x.key, isDelete))
            /\ Entries(ApplyKeyMutation(g[s \ {x}], x.key, isDelete)) = KeysAfter(Entries(g[s \ {x}]), x.key, isDelete)
        BY <3>4, <4>3, MutationOrdered, Zenon
      <4> QED
        BY <4>1, <4>2, <4>4, Zenon DEF KeysAfter
    <3>6. Dropped(s) = Dropped(s \ {x}) \cup {x.key} /\ x.key \notin Dropped(s \ {x})
      OBVIOUS
    <3>7. Put(s) = IF x \in deletes THEN Put(s \ {x}) ELSE Put(s \ {x}) \cup {x.key}
      OBVIOUS
    <3>8. Put(s \ {x}) \subseteq Dropped(s \ {x})
      OBVIOUS
    <3> HIDE DEF Dropped, Put
    <3>9. Entries(g[s]) = (Entries(base) \ Dropped(s)) \cup Put(s)
      BY <3>3, <3>5, <3>6, <3>7, <3>8
    <3> QED
      BY <3>5, <3>9
  <2> QED
    BY <2>2, <2>3
<1>4. S \in Q
  <2> HIDE DEF Right
  <2>1. \A s \in SUBSET S : (\A x \in s : s \ {x} \in Q) => s \in Q
    BY <1>3
  <2> HIDE DEF Q
  <2>2. \A s \in SUBSET S : s \in Q
    BY <2>1, SubsetInduction
  <2> QED
    BY <2>2
<1> QED
  BY <1>1, <1>4

\* The mutations of a command lead a sorted slice of ks to where sorting would.
LEMMA SliceFollows ==
    ASSUME NEW K, IsFiniteSet(K), \A k \in K : k.key \in Nat, \A x, y \in K : x.key = y.key => x = y,
           NEW ks \in SUBSET K, NEW S \in SUBSET K, NEW deletes,
           NEW next, next = (ks \ S) \cup (S \ deletes)
    PROVE  ApplyKeyMutations(Ordered(ks), S, deletes) = Ordered(next)
<1>1. Rising(Ordered(ks)) /\ Entries(Ordered(ks)) = {k.key : k \in ks}
  BY KeysRise, FS_Subset
<1>2. PICK r : r = ApplyKeyMutations(Ordered(ks), S, deletes)
  OBVIOUS
<1>3. IsFiniteSet(S) /\ (\A x \in S : x.key \in Nat) /\ \A x, y \in S : x.key = y.key => x = y
  BY FS_Subset
<1>4. Rising(r) /\ Entries(r) = (Entries(Ordered(ks)) \ {x.key : x \in S}) \cup {x.key : x \in S \ deletes}
  BY <1>1, <1>2, <1>3, MutationsOrdered
<1>5. {k.key : k \in next} = ({k.key : k \in ks} \ {x.key : x \in S}) \cup {x.key : x \in S \ deletes}
  <2>1. ASSUME NEW k \in ks \ S PROVE k.key \notin {x.key : x \in S}
    BY <2>1
  <2> QED
    BY <2>1
<1>6. Ordered(next) = r
  BY <1>1, <1>4, <1>5, OrderedIs
<1> QED
  BY <1>2, <1>6

=============================================================================
