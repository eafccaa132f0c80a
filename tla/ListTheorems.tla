----------------------------- MODULE ListTheorems -----------------------------
(***************************************************************************)
(* Facts about the sorted lists that xdiscovery and libupnpidm keep, and   *)
(* change by g_list_insert_sorted and g_list_remove_link.                  *)
(***************************************************************************)
EXTENDS Integers, Sequences, SequenceTheorems, TLAPS

\* The first k elements of a list.
LEMMA PrefixFact ==
    ASSUME NEW S, NEW s \in Seq(S), NEW k \in Nat, k <= Len(s)
    PROVE  /\ SubSeq(s, 1, k) \in Seq(S)
           /\ Len(SubSeq(s, 1, k)) = k
           /\ \A i \in 1..k : SubSeq(s, 1, k)[i] = s[i]
  <1> DEFINE a == SubSeq(s, 1, k)
  <1>1. \A i \in 1..k : s[i] \in S
    OBVIOUS
  <1> HIDE DEF a
  <1>2. /\ a \in Seq(S)
        /\ Len(a) = IF 1 <= k THEN k - 1 + 1 ELSE 0
        /\ \A i \in 1..(k - 1 + 1) : a[i] = s[1 + i - 1]
    BY <1>1, SubSeqProperties DEF a
  <1>3. k - 1 + 1 = k /\ \A i \in 1..k : 1 + i - 1 = i
    OBVIOUS
  <1>4. (IF 1 <= k THEN k ELSE 0) = k
    OBVIOUS
  <1> QED BY <1>2, <1>3, <1>4 DEF a

\* The elements of a list from the k-th on.
LEMMA SuffixFact ==
    ASSUME NEW S, NEW s \in Seq(S), NEW k \in Nat \ {0}, k <= Len(s) + 1
    PROVE  /\ SubSeq(s, k, Len(s)) \in Seq(S)
           /\ Len(SubSeq(s, k, Len(s))) = Len(s) - k + 1
           /\ \A i \in 1..(Len(s) - k + 1) : SubSeq(s, k, Len(s))[i] = s[k + i - 1]
  <1> DEFINE n == Len(s)
             b == SubSeq(s, k, n)
  <1>1. n \in Nat /\ k <= n + 1 /\ \A i \in 1..n : s[i] \in S
    OBVIOUS
  <1> HIDE DEF b, n
  <1>2. \A i \in k..n : s[i] \in S
    <2>1. \A i \in k..n : i \in 1..n
      BY <1>1
    <2> QED BY <1>1, <2>1
  <1>3. /\ b \in Seq(S)
        /\ Len(b) = IF k <= n THEN n - k + 1 ELSE 0
        /\ \A i \in 1..(n - k + 1) : b[i] = s[k + i - 1]
    BY <1>1, <1>2, SubSeqProperties DEF b
  <1>4. (IF k <= n THEN n - k + 1 ELSE 0) = n - k + 1
    BY <1>1
  <1> QED BY <1>3, <1>4 DEF b, n

\* Taking out the k-th element moves the later ones down.
LEMMA RemovedFact ==
    ASSUME NEW S, NEW s \in Seq(S), NEW k \in DOMAIN s
    PROVE  LET r == SubSeq(s, 1, k - 1) \o SubSeq(s, k + 1, Len(s))
           IN /\ r \in Seq(S)
              /\ Len(r) = Len(s) - 1
              /\ \A i \in 1..(Len(s) - 1) : r[i] = IF i < k THEN s[i] ELSE s[i + 1]
  <1> DEFINE a == SubSeq(s, 1, k - 1)
             b == SubSeq(s, k + 1, Len(s))
  <1>1. Len(s) \in Nat /\ k \in 1..Len(s) /\ \A i \in 1..Len(s) : s[i] \in S
    OBVIOUS
  <1>2. /\ a \in Seq(S)
        /\ Len(a) = k - 1
        /\ \A i \in 1..(k - 1) : a[i] = s[i]
    <2>1. k - 1 \in Nat /\ k - 1 <= Len(s)
      BY <1>1
    <2> QED BY <2>1, PrefixFact
  <1>3. /\ b \in Seq(S)
        /\ Len(b) = Len(s) - k
        /\ \A i \in 1..(Len(s) - k) : b[i] = s[k + i]
    <2> HIDE DEF b
    <2>1. k + 1 \in Nat \ {0} /\ k + 1 <= Len(s) + 1
      BY <1>1
    <2>2. /\ b \in Seq(S)
          /\ Len(b) = Len(s) - (k + 1) + 1
          /\ \A i \in 1..(Len(s) - (k + 1) + 1) : b[i] = s[k + 1 + i - 1]
      BY <2>1, SuffixFact DEF b
    <2>3. /\ Len(s) - (k + 1) + 1 = Len(s) - k
          /\ \A i \in 1..(Len(s) - k) : k + 1 + i - 1 = k + i
      BY <1>1
    <2> QED BY <2>2, <2>3
  <1> DEFINE c == a \o b
             n == Len(s)
  <1> HIDE DEF a, b
  <1>4. /\ c \in Seq(S)
        /\ Len(c) = Len(a) + Len(b)
        /\ \A i \in 1..(Len(a) + Len(b)) :
              c[i] = IF i <= Len(a) THEN a[i] ELSE b[i - Len(a)]
    BY <1>2, <1>3, ConcatProperties
  <1> HIDE DEF c
  <1>5. n \in Nat /\ k \in 1..n
    BY <1>1
  <1>6. Len(c) = n - 1
    BY <1>1, <1>2, <1>3, <1>4
  <1>7. \A i \in 1..(n - 1) :
           c[i] = IF i <= k - 1 THEN a[i] ELSE b[i - (k - 1)]
    <2>1. Len(a) + Len(b) = n - 1 /\ Len(a) = k - 1
      BY <1>1, <1>2, <1>3
    <2> QED BY <1>4, <2>1
  <1>8. \A i \in 1..(n - 1) : c[i] = IF i < k THEN s[i] ELSE s[i + 1]
    <2> SUFFICES ASSUME NEW i \in 1..(n - 1)
                 PROVE  c[i] = IF i < k THEN s[i] ELSE s[i + 1]
      OBVIOUS
    <2> HIDE DEF n
    <2>1. CASE i < k
      <3>1. i \in 1..(k - 1) /\ i <= k - 1
        BY <1>5, <2>1
      <3>2. a[i] = s[i]
        BY <1>2, <3>1
      <3> QED BY <1>7, <2>1, <3>1, <3>2
    <2>2. CASE ~(i < k)
      <3>1. /\ i - (k - 1) \in 1..(n - k)
            /\ k + (i - (k - 1)) = i + 1
            /\ ~(i <= k - 1)
        BY <1>5, <2>2
      <3>2. b[i - (k - 1)] = s[i + 1]
        BY <1>3, <3>1 DEF n
      <3>3. c[i] = b[i - (k - 1)]
        BY <1>7, <3>1
      <3> QED BY <2>2, <3>2, <3>3
    <2> QED BY <2>1, <2>2
  <1> QED BY <1>4, <1>6, <1>8 DEF a, b, c

\* s with e inserted before its k-th element.
WithInserted(s, k, e) == SubSeq(s, 1, k - 1) \o <<e>> \o SubSeq(s, k, Len(s))

\* What stands at the place i then.
Shifted(s, k, e, i) == IF i < k THEN s[i] ELSE IF i = k THEN e ELSE s[i - 1]

\* Inserting before the k-th element moves it and the later ones up.
LEMMA InsertedFact ==
    ASSUME NEW S, NEW s \in Seq(S), NEW e \in S, NEW k \in 1..(Len(s) + 1)
    PROVE  /\ WithInserted(s, k, e) \in Seq(S)
           /\ Len(WithInserted(s, k, e)) = Len(s) + 1
           /\ \A i \in 1..(Len(s) + 1) :
                 WithInserted(s, k, e)[i] = Shifted(s, k, e, i)
  <1> DEFINE n == Len(s)
             a == SubSeq(s, 1, k - 1)
             b == SubSeq(s, k, Len(s))
             o == <<e>>
             p == a \o o
             c == p \o b
  <1>1. n \in Nat /\ k \in 1..(n + 1)
    OBVIOUS
  <1>2. /\ a \in Seq(S)
        /\ Len(a) = k - 1
        /\ \A i \in 1..(k - 1) : a[i] = s[i]
    <2>1. k - 1 \in Nat /\ k - 1 <= Len(s)
      BY <1>1
    <2> QED BY <2>1, PrefixFact
  <1>3. /\ b \in Seq(S)
        /\ Len(b) = n - k + 1
        /\ \A i \in 1..(n - k + 1) : b[i] = s[k + i - 1]
    <2>1. k \in Nat \ {0} /\ k <= Len(s) + 1
      BY <1>1
    <2> QED BY <2>1, SuffixFact
  <1>4. o \in Seq(S) /\ Len(o) = 1 /\ o[1] = e
    OBVIOUS
  <1> HIDE DEF a, b, o
  <1>5. /\ p \in Seq(S)
        /\ Len(p) = k
        /\ \A i \in 1..k : p[i] = IF i <= k - 1 THEN a[i] ELSE o[i - (k - 1)]
    <2>1. /\ p \in Seq(S)
          /\ Len(p) = Len(a) + Len(o)
          /\ \A i \in 1..(Len(a) + Len(o)) :
                p[i] = IF i <= Len(a) THEN a[i] ELSE o[i - Len(a)]
      BY <1>2, <1>4, ConcatProperties
    <2> HIDE DEF p
    <2>2. Len(a) + Len(o) = k
      BY <1>1, <1>2, <1>4
    <2> QED BY <1>2, <2>1, <2>2
  <1> HIDE DEF p
  <1>6. /\ c \in Seq(S)
        /\ Len(c) = n + 1
        /\ \A i \in 1..(n + 1) : c[i] = IF i <= k THEN p[i] ELSE b[i - k]
    <2>1. /\ c \in Seq(S)
          /\ Len(c) = Len(p) + Len(b)
          /\ \A i \in 1..(Len(p) + Len(b)) :
                c[i] = IF i <= Len(p) THEN p[i] ELSE b[i - Len(p)]
      BY <1>3, <1>5, ConcatProperties
    <2> HIDE DEF c
    <2>2. Len(p) + Len(b) = n + 1
      BY <1>1, <1>3, <1>5
    <2> QED BY <1>5, <2>1, <2>2
  <1> HIDE DEF c
  <1>7. \A i \in 1..(n + 1) :
           c[i] = IF i < k THEN s[i] ELSE IF i = k THEN e ELSE s[i - 1]
    <2> SUFFICES ASSUME NEW i \in 1..(n + 1)
                 PROVE  c[i] = IF i < k THEN s[i] ELSE IF i = k THEN e ELSE s[i - 1]
      OBVIOUS
    <2> HIDE DEF n
    <2>1. CASE i < k
      <3>1. i \in 1..k /\ i \in 1..(k - 1) /\ i <= k /\ i <= k - 1
        BY <1>1, <2>1
      <3> QED BY <1>2, <1>5, <1>6, <2>1, <3>1
    <2>2. CASE i = k
      <3>1. i \in 1..k /\ i <= k /\ ~(i <= k - 1) /\ i - (k - 1) = 1 /\ ~(i < k)
        BY <1>1, <2>2
      <3> QED BY <1>4, <1>5, <1>6, <2>2, <3>1
    <2>3. CASE i > k
      <3>1. /\ i - k \in 1..(n - k + 1)
            /\ ~(i <= k) /\ ~(i < k) /\ i # k
            /\ k + (i - k) - 1 = i - 1
        BY <1>1, <2>3
      <3> QED BY <1>3, <1>6, <3>1
    <2> QED BY <1>1, <2>1, <2>2, <2>3
  <1>8. c = WithInserted(s, k, e)
    BY DEF a, b, o, p, c, WithInserted
  <1>9. \A i \in 1..(n + 1) : c[i] = Shifted(s, k, e, i)
    BY <1>7 DEF Shifted
  <1> QED BY <1>6, <1>8, <1>9

-----------------------------------------------------------------------------
(* The elements of a list. *)

Elements(s) == {s[i] : i \in DOMAIN s}

\* No element occurs twice.
Distinct(s) == \A i, j \in DOMAIN s : s[i] = s[j] => i = j

\* Inserting adds the element, and no duplicate if it is new.
LEMMA InsertedElements ==
    ASSUME NEW S, NEW s \in Seq(S), NEW e \in S, NEW k \in 1..(Len(s) + 1)
    PROVE  /\ Elements(WithInserted(s, k, e)) = Elements(s) \cup {e}
           /\ Distinct(s) /\ e \notin Elements(s) => Distinct(WithInserted(s, k, e))
  <1> DEFINE r == WithInserted(s, k, e)
             n == Len(s)
  <1>1. /\ r \in Seq(S) /\ Len(r) = n + 1
        /\ \A i \in 1..(n + 1) : r[i] = Shifted(s, k, e, i)
    BY InsertedFact
  <1>2. DOMAIN s = 1..n /\ n \in Nat /\ k \in 1..(n + 1)
    OBVIOUS
  <1> HIDE DEF r, n
  <1>3. DOMAIN r = 1..(n + 1)
    BY <1>1
  <1>4. \A i \in 1..(n + 1) : r[i] = IF i < k THEN s[i] ELSE IF i = k THEN e ELSE s[i - 1]
    BY <1>1 DEF Shifted
  <1>5. \A i \in 1..(n + 1) : i # k => \E j \in 1..n : r[i] = s[j] /\ j = IF i < k THEN i ELSE i - 1
    BY <1>2, <1>4
  <1>6. \A j \in 1..n : \E i \in 1..(n + 1) : r[i] = s[j]
    <2> SUFFICES ASSUME NEW j \in 1..n PROVE \E i \in 1..(n + 1) : r[i] = s[j]
      OBVIOUS
    <2>1. CASE j < k
      BY <1>2, <1>4, <2>1
    <2>2. CASE ~(j < k)
      <3>1. j + 1 \in 1..(n + 1) /\ ~(j + 1 < k) /\ j + 1 # k /\ (j + 1) - 1 = j
        BY <1>2, <2>2
      <3> QED BY <1>4, <3>1
    <2> QED BY <2>1, <2>2
  <1>7. k \in 1..(n + 1) /\ r[k] = e
    BY <1>2, <1>4
  <1>8. Elements(r) = Elements(s) \cup {e}
    <2>1. \A i \in 1..(n + 1) : r[i] \in Elements(s) \cup {e}
      BY <1>2, <1>5, <1>7 DEF Elements
    <2>2. \A j \in 1..n : s[j] \in Elements(r)
      BY <1>3, <1>6 DEF Elements
    <2>3. e \in Elements(r)
      BY <1>3, <1>7 DEF Elements
    <2> QED BY <1>2, <1>3, <2>1, <2>2, <2>3 DEF Elements
  <1>9. Distinct(s) /\ e \notin Elements(s) => Distinct(r)
    <2> SUFFICES ASSUME Distinct(s), e \notin Elements(s),
                        NEW i \in 1..(n + 1), NEW j \in 1..(n + 1), r[i] = r[j]
                 PROVE  i = j
      BY <1>3 DEF Distinct
    <2>1. \A l \in 1..n : s[l] # e
      BY <1>2 DEF Elements
    <2>2. CASE i = k \/ j = k
      BY <1>5, <1>7, <2>1, <2>2
    <2>3. CASE i # k /\ j # k
      <3>1. PICK a \in 1..n : r[i] = s[a] /\ a = IF i < k THEN i ELSE i - 1
        BY <1>5, <2>3
      <3>2. PICK b \in 1..n : r[j] = s[b] /\ b = IF j < k THEN j ELSE j - 1
        BY <1>5, <2>3
      <3>3. a = b
        BY <1>2, <3>1, <3>2 DEF Distinct
      <3> QED BY <1>2, <2>3, <3>1, <3>2, <3>3
    <2> QED BY <2>2, <2>3
  <1> QED BY <1>8, <1>9 DEF r

\* Taking out an element adds none, and takes it out altogether if there are no
\* duplicates.
LEMMA RemovedElements ==
    ASSUME NEW S, NEW s \in Seq(S), NEW k \in DOMAIN s
    PROVE  LET r == SubSeq(s, 1, k - 1) \o SubSeq(s, k + 1, Len(s))
           IN /\ Elements(r) \subseteq Elements(s)
              /\ Distinct(s) => Distinct(r) /\ Elements(r) = Elements(s) \ {s[k]}
  <1> DEFINE r == SubSeq(s, 1, k - 1) \o SubSeq(s, k + 1, Len(s))
             n == Len(s)
  <1>1. /\ r \in Seq(S) /\ Len(r) = n - 1
        /\ \A i \in 1..(n - 1) : r[i] = IF i < k THEN s[i] ELSE s[i + 1]
    BY RemovedFact
  <1>2. DOMAIN s = 1..n /\ n \in Nat /\ k \in 1..n
    OBVIOUS
  <1> HIDE DEF r, n
  <1>3. DOMAIN r = 1..(n - 1)
    BY <1>1
  <1>4. \A i \in 1..(n - 1) : \E j \in 1..n : r[i] = s[j] /\ j # k /\ j = IF i < k THEN i ELSE i + 1
    BY <1>1, <1>2
  <1>5. \A j \in 1..n : j # k => \E i \in 1..(n - 1) : r[i] = s[j]
    <2> SUFFICES ASSUME NEW j \in 1..n, j # k PROVE \E i \in 1..(n - 1) : r[i] = s[j]
      OBVIOUS
    <2>1. CASE j < k
      <3>1. j \in 1..(n - 1)
        BY <1>2, <2>1
      <3> QED BY <1>1, <2>1, <3>1
    <2>2. CASE ~(j < k)
      <3>1. j - 1 \in 1..(n - 1) /\ ~(j - 1 < k) /\ (j - 1) + 1 = j
        BY <1>2, <2>2
      <3> QED BY <1>1, <3>1
    <2> QED BY <2>1, <2>2
  <1>6. Elements(r) \subseteq Elements(s)
    BY <1>2, <1>3, <1>4 DEF Elements
  <1>7. ASSUME Distinct(s) PROVE Distinct(r)
    <2> SUFFICES ASSUME NEW i \in 1..(n - 1), NEW j \in 1..(n - 1), r[i] = r[j]
                 PROVE  i = j
      BY <1>3 DEF Distinct
    <2>1. PICK a \in 1..n : r[i] = s[a] /\ a # k /\ a = IF i < k THEN i ELSE i + 1
      BY <1>4
    <2>2. PICK b \in 1..n : r[j] = s[b] /\ b # k /\ b = IF j < k THEN j ELSE j + 1
      BY <1>4
    <2>3. a = b
      BY <1>2, <1>7, <2>1, <2>2 DEF Distinct
    <2> QED BY <1>2, <2>1, <2>2, <2>3
  <1>8. ASSUME Distinct(s) PROVE Elements(r) = Elements(s) \ {s[k]}
    <2>1. \A i \in 1..(n - 1) : r[i] \in Elements(s) \ {s[k]}
      <3> SUFFICES ASSUME NEW i \in 1..(n - 1) PROVE r[i] \in Elements(s) \ {s[k]}
        OBVIOUS
      <3>1. PICK j \in 1..n : r[i] = s[j] /\ j # k
        BY <1>4
      <3>2. s[j] # s[k]
        BY <1>2, <1>8, <3>1 DEF Distinct
      <3> QED BY <1>2, <3>1, <3>2 DEF Elements
    <2>2. \A j \in 1..n : s[j] # s[k] => s[j] \in Elements(r)
      BY <1>3, <1>5 DEF Elements
    <2> QED BY <1>2, <1>3, <2>1, <2>2 DEF Elements
  <1> QED BY <1>6, <1>7, <1>8 DEF r
=============================================================================
