-------------------------- MODULE CaddyViewsProofs --------------------------
(***************************************************************************)
(* Proofs about the two parts around Caddy that MCCaddyViews instantiates: *)
(* the log view and the generated configuration.                           *)
(***************************************************************************)
EXTENDS LogTail, ConfigBuilder, SequenceTheorems, FiniteSetTheorems, TLAPS

-----------------------------------------------------------------------------
(* Finite sets in order *)

\* The elements of S with a smaller key than a.
Below(S, key, a) == {b \in S : key[b] < key[a]}

\* In a finite set whose elements have keys of their own, the number of smaller
\* ones grows with the key and takes every value up to the size of the set.
LEMMA Ranks ==
    ASSUME NEW S, IsFiniteSet(S), NEW key \in [S -> Int],
           \A a, b \in S : key[a] = key[b] => a = b
    PROVE  /\ Cardinality(S) \in Nat
           /\ \A a \in S : Cardinality(Below(S, key, a)) \in 0 .. Cardinality(S) - 1
           /\ \A a, b \in S : key[a] < key[b] =>
                 Cardinality(Below(S, key, a)) < Cardinality(Below(S, key, b))
           /\ \A k \in 1 .. Cardinality(S) :
                 \E a \in S : Cardinality(Below(S, key, a)) = k - 1
  <1> DEFINE n == Cardinality(S)
             B(a) == Below(S, key, a)
  <1>1. n \in Nat
    BY FS_CardinalityType
  <1>2. \A a \in S : IsFiniteSet(B(a)) /\ Cardinality(B(a)) \in 0 .. n - 1
    <2> SUFFICES ASSUME NEW a \in S
                 PROVE  IsFiniteSet(B(a)) /\ Cardinality(B(a)) \in 0 .. n - 1
      OBVIOUS
    <2>1. IsFiniteSet(S \ {a}) /\ Cardinality(S \ {a}) = n - 1
      BY FS_RemoveElement
    <2>2. B(a) \in SUBSET (S \ {a})
      BY DEF Below
    <2>3. IsFiniteSet(B(a)) /\ Cardinality(B(a)) <= n - 1
      BY <2>1, <2>2, FS_Subset
    <2> QED
      BY <1>1, <2>3, FS_CardinalityType
  <1>3. \A a, b \in S : key[a] < key[b] => Cardinality(B(a)) < Cardinality(B(b))
    <2> SUFFICES ASSUME NEW a \in S, NEW b \in S, key[a] < key[b]
                 PROVE  Cardinality(B(a)) < Cardinality(B(b))
      OBVIOUS
    <2>1. a \notin B(a) /\ B(a) \cup {a} \in SUBSET B(b)
      BY DEF Below
    <2>2. Cardinality(B(a) \cup {a}) = Cardinality(B(a)) + 1
      BY <1>2, <2>1, FS_AddElement
    <2>3. Cardinality(B(a) \cup {a}) <= Cardinality(B(b))
      BY <1>2, <2>1, FS_Subset
    <2> QED
      BY <1>2, <2>2, <2>3
  <1>4. \A k \in 1 .. n : \E a \in S : Cardinality(B(a)) = k - 1
    <2> DEFINE rank == [a \in S |-> Cardinality(B(a)) + 1]
    <2>1. rank \in [S -> 1 .. n]
      BY <1>1, <1>2
    <2>2. ASSUME NEW a \in S, NEW b \in S, rank[a] = rank[b]
          PROVE  a = b
      <3>1. Cardinality(B(a)) = Cardinality(B(b))
        BY <2>2, <1>2
      <3>2. ~(key[a] < key[b]) /\ ~(key[b] < key[a])
        BY <3>1, <1>2, <1>3
      <3> QED
        BY <3>2
    <2>3. rank \in Injection(S, 1 .. n)
      BY <2>1, <2>2 DEF Injection, IsInjective
    <2>4. IsFiniteSet(1 .. n) /\ Cardinality(1 .. n) = n
      BY <1>1, FS_Interval
    <2>5. rank \in Surjection(S, 1 .. n)
      BY <2>3, <2>4, FS_Injection
    <2>6. \A k \in 1 .. n : \E a \in S : rank[a] = k
      BY <2>5 DEF Surjection
    <2> QED
      BY <2>6, <1>2
  <1> QED
    BY <1>1, <1>2, <1>3, <1>4
-----------------------------------------------------------------------------
(* The log view: what a cut is *)

\* Nth counts through a finite set of numbers in order.
LEMMA NthProperties ==
    ASSUME NEW S \in SUBSET Int, IsFiniteSet(S)
    PROVE  /\ Cardinality(S) \in Nat
           /\ \A k \in 1 .. Cardinality(S) :
                 Nth(S, k) \in S /\ Cardinality({j \in S : j < Nth(S, k)}) = k - 1
           /\ \A k, m \in 1 .. Cardinality(S) : k < m => Nth(S, k) < Nth(S, m)
           /\ \A i \in S : \E k \in 1 .. Cardinality(S) : i = Nth(S, k)
           /\ \A i \in S, k \in Nat : Cardinality({j \in S : j < i}) = k - 1 => i = Nth(S, k)
  <1> DEFINE key == [i \in S |-> i]
             rank(i) == Cardinality({j \in S : j < i})
  <1>1. key \in [S -> Int] /\ \A a, b \in S : key[a] = key[b] => a = b
    OBVIOUS
  <1>2. \A i \in S : Below(S, key, i) = {j \in S : j < i}
    BY DEF Below
  <1> HIDE DEF key
  <1>3. /\ Cardinality(S) \in Nat
        /\ \A i \in S : rank(i) \in 0 .. Cardinality(S) - 1
        /\ \A i, j \in S : key[i] < key[j] => rank(i) < rank(j)
        /\ \A k \in 1 .. Cardinality(S) : \E i \in S : rank(i) = k - 1
    <2>1. /\ Cardinality(S) \in Nat
          /\ \A i \in S : Cardinality(Below(S, key, i)) \in 0 .. Cardinality(S) - 1
          /\ \A i, j \in S : key[i] < key[j] =>
                Cardinality(Below(S, key, i)) < Cardinality(Below(S, key, j))
          /\ \A k \in 1 .. Cardinality(S) :
                \E i \in S : Cardinality(Below(S, key, i)) = k - 1
      BY <1>1, Ranks
    <2>2. \A i \in S : Cardinality(Below(S, key, i)) = rank(i)
      BY <1>2
    <2> HIDE DEF rank
    <2> QED
      BY <2>1, <2>2
  <1>4. \A i, j \in S : i < j => rank(i) < rank(j)
    BY <1>3 DEF key
  <1> HIDE DEF rank
  <1>5. \A i, j \in S : rank(i) = rank(j) => i = j
    <2> SUFFICES ASSUME NEW i \in S, NEW j \in S, rank(i) = rank(j), i # j
                 PROVE  FALSE
      OBVIOUS
    <2>1. i < j \/ j < i
      OBVIOUS
    <2> QED
      BY <2>1, <1>3, <1>4
  <1>6. \A k : Nth(S, k) = CHOOSE i \in S : rank(i) = k - 1
    BY DEF Nth, rank
  <1>7. \A k \in 1 .. Cardinality(S) : Nth(S, k) \in S /\ rank(Nth(S, k)) = k - 1
    BY <1>3, <1>6
  <1>8. \A i \in S, k \in Nat : rank(i) = k - 1 => i = Nth(S, k)
    <2> SUFFICES ASSUME NEW i \in S, NEW k \in Nat, rank(i) = k - 1
                 PROVE  i = Nth(S, k)
      OBVIOUS
    <2>1. Nth(S, k) \in S /\ rank(Nth(S, k)) = k - 1
      BY <1>6
    <2> QED
      BY <2>1, <1>5
  <1>9. \A k, m \in 1 .. Cardinality(S) : k < m => Nth(S, k) < Nth(S, m)
    <2> SUFFICES ASSUME NEW k \in 1 .. Cardinality(S), NEW m \in 1 .. Cardinality(S), k < m
                 PROVE  Nth(S, k) < Nth(S, m)
      OBVIOUS
    <2>1. /\ Nth(S, k) \in S /\ rank(Nth(S, k)) = k - 1
          /\ Nth(S, m) \in S /\ rank(Nth(S, m)) = m - 1
      BY <1>7
    <2>2. Nth(S, k) \in Int /\ Nth(S, m) \in Int
      BY <2>1
    <2>3. ASSUME Nth(S, m) < Nth(S, k) PROVE FALSE
      <3>1. rank(Nth(S, m)) < rank(Nth(S, k))
        BY <2>1, <2>3, <1>4
      <3>2. m - 1 < k - 1
        BY <3>1, <2>1
      <3> QED
        BY <3>2
    <2>4. Nth(S, m) # Nth(S, k)
      BY <2>1
    <2> QED
      BY <2>2, <2>3, <2>4
  <1>10. \A i \in S : \E k \in 1 .. Cardinality(S) : i = Nth(S, k)
    <2> SUFFICES ASSUME NEW i \in S
                 PROVE  \E k \in 1 .. Cardinality(S) : i = Nth(S, k)
      OBVIOUS
    <2>1. rank(i) + 1 \in 1 .. Cardinality(S) /\ rank(i) = (rank(i) + 1) - 1
      BY <1>3
    <2> QED
      BY <2>1, <1>8
  <1> QED
    BY <1>3, <1>7, <1>8, <1>9, <1>10 DEF rank

\* Where the lines of a run of pieces end.
Ends(p) == {i \in DOMAIN p : EndsLine(p[i])}
EndOf(p, k) == IF k = 0 THEN 0 ELSE Nth(Ends(p), k)
Lines(p) == Cardinality(Ends(p))

\* The lines of a cut are stretches of it, one after the other, and the rest is
\* what follows the last.
LEMMA CutShape ==
    ASSUME NEW p \in Seq(Nat)
    PROVE  /\ Lines(p) \in Nat
           /\ \A k \in 0 .. Lines(p) : EndOf(p, k) \in 0 .. Len(p)
           /\ \A k, m \in 0 .. Lines(p) : k < m => EndOf(p, k) < EndOf(p, m)
           /\ Cut(p).lines = [k \in 1 .. Lines(p) |-> SubSeq(p, EndOf(p, k - 1) + 1, EndOf(p, k))]
           /\ Cut(p).rest = SubSeq(p, EndOf(p, Lines(p)) + 1, Len(p))
  <1>1. Ends(p) \in SUBSET (1 .. Len(p)) /\ Len(p) \in Nat
    BY DEF Ends
  <1>2. IsFiniteSet(Ends(p)) /\ Ends(p) \in SUBSET Int
    <2>1. IsFiniteSet(1 .. Len(p))
      BY <1>1, FS_Interval
    <2> QED
      BY <2>1, <1>1, FS_Subset
  <1>3. /\ Lines(p) \in Nat
        /\ \A k \in 1 .. Lines(p) : Nth(Ends(p), k) \in Ends(p)
        /\ \A k, m \in 1 .. Lines(p) : k < m => Nth(Ends(p), k) < Nth(Ends(p), m)
    BY <1>2, NthProperties DEF Lines
  <1>4. \A k \in 0 .. Lines(p) : EndOf(p, k) \in 0 .. Len(p)
    BY <1>1, <1>3 DEF EndOf
  <1>5. \A k, m \in 0 .. Lines(p) : k < m => EndOf(p, k) < EndOf(p, m)
    BY <1>1, <1>3 DEF EndOf
  <1>6. /\ Cut(p).lines = [k \in 1 .. Lines(p) |-> SubSeq(p, EndOf(p, k - 1) + 1, EndOf(p, k))]
        /\ Cut(p).rest = SubSeq(p, EndOf(p, Lines(p)) + 1, Len(p))
    BY DEF Cut, Ends, EndOf, Lines
  <1> QED
    BY <1>3, <1>4, <1>5, <1>6

\* The pieces in a sequence of lines are in order; they end by piece b.
Rising(t) ==
    \A i, j \in DOMAIN t : \A x \in DOMAIN t[i], y \in DOMAIN t[j] :
        i < j \/ (i = j /\ x < y) => t[i][x] < t[j][y]
UpTo(t, b) == \A i \in DOMAIN t : \A x \in DOMAIN t[i] : t[i][x] <= b
Text == Seq(Seq(Nat))
InOrder(p) == \A x, y \in DOMAIN p : x < y => p[x] < p[y]

\* A stretch (a, b] of a sequence.
LEMMA Stretch ==
    ASSUME NEW S, NEW p \in Seq(S), NEW a \in Int, NEW b \in Int,
           0 <= a, a <= b, b <= Len(p)
    PROVE  /\ SubSeq(p, a + 1, b) \in Seq(S)
           /\ Len(SubSeq(p, a + 1, b)) = b - a
           /\ DOMAIN SubSeq(p, a + 1, b) = 1 .. b - a
           /\ \A x \in 1 .. b - a :
                 SubSeq(p, a + 1, b)[x] = p[a + x] /\ a + x \in DOMAIN p
  <1> DEFINE q == SubSeq(p, a + 1, b)
  <1>1. Len(p) \in Nat /\ DOMAIN p = 1 .. Len(p) /\ \A i \in 1 .. Len(p) : p[i] \in S
    OBVIOUS
  <1>2. a + 1 \in Int /\ \A i \in a + 1 .. b : p[i] \in S
    BY <1>1
  <1>3. /\ q \in Seq(S)
        /\ Len(q) = IF a + 1 <= b THEN b - (a + 1) + 1 ELSE 0
        /\ \A x \in 1 .. b - (a + 1) + 1 : q[x] = p[(a + 1) + x - 1]
    BY <1>2, SubSeqProperties
  <1> HIDE DEF q
  <1>4. Len(q) = b - a
    BY <1>3
  <1>5. DOMAIN q = 1 .. b - a
    BY <1>3, <1>4
  <1>6. ASSUME NEW x \in 1 .. b - a PROVE q[x] = p[a + x] /\ a + x \in DOMAIN p
    <2>1. x \in 1 .. b - (a + 1) + 1 /\ (a + 1) + x - 1 = a + x /\ a + x \in 1 .. Len(p)
      BY <1>1
    <2>2. q[x] = p[(a + 1) + x - 1]
      BY <2>1, <1>3
    <2> QED
      BY <2>1, <2>2, <1>1
  <1> QED
    BY <1>3, <1>4, <1>5, <1>6 DEF q

\* Of two stretches the later one has the later places.
LEMMA StretchOrder ==
    ASSUME NEW a \in Int, NEW b \in Int, NEW c \in Int, NEW x \in Int, NEW y \in Int,
           x <= b - a, 1 <= y, b <= c
    PROVE  a + x < c + y
  OBVIOUS

\* The lines and the rest of a cut as stretches of it, between ends e[i - 1] and e[i].
IsCutAt(p, n, e) ==
    /\ \A i \in 1 .. n : e[i - 1] < e[i]
    /\ \A i, j \in 0 .. n + 1 : i < j => e[i] <= e[j]
    /\ Cut(p).lines = [i \in 1 .. n |-> SubSeq(p, e[i - 1] + 1, e[i])]
    /\ Cut(p).rest = SubSeq(p, e[n] + 1, e[n + 1])

LEMMA CutStretches ==
    ASSUME NEW p \in Seq(Nat)
    PROVE  \E n \in Nat : \E e \in [0 .. n + 1 -> 0 .. Len(p)] : IsCutAt(p, n, e)
  <1> DEFINE n == Lines(p)
             e == [k \in 0 .. n + 1 |-> IF k <= n THEN EndOf(p, k) ELSE Len(p)]
  <1>1. /\ n \in Nat /\ Len(p) \in Nat
        /\ \A k \in 0 .. n : EndOf(p, k) \in 0 .. Len(p)
        /\ \A k, m \in 0 .. n : k < m => EndOf(p, k) < EndOf(p, m)
        /\ Cut(p).lines = [k \in 1 .. n |-> SubSeq(p, EndOf(p, k - 1) + 1, EndOf(p, k))]
        /\ Cut(p).rest = SubSeq(p, EndOf(p, n) + 1, Len(p))
    BY CutShape
  <1> HIDE DEF n
  <1>2. (\A k \in 0 .. n : EndOf(p, k) = e[k]) /\ e[n + 1] = Len(p)
    BY <1>1
  <1>3. e \in [0 .. n + 1 -> 0 .. Len(p)]
    BY <1>1
  <1> HIDE DEF e
  <1>4. \A k, m \in 0 .. n : k < m => e[k] < e[m]
    BY <1>1, <1>2
  <1>5. \A i \in 1 .. n : i \in 0 .. n /\ i - 1 \in 0 .. n /\ i - 1 < i
    BY <1>1
  <1>6. \A i \in 1 .. n : e[i - 1] < e[i]
    BY <1>4, <1>5
  <1>7. ASSUME NEW i \in 0 .. n + 1, NEW j \in 0 .. n + 1, i < j PROVE e[i] <= e[j]
    <2>1. i \in 0 .. n
      BY <1>1, <1>7
    <2>2. e[i] \in 0 .. Len(p) /\ e[j] \in 0 .. Len(p)
      BY <1>3
    <2>3. CASE j \in 0 .. n
      <3>1. e[i] < e[j]
        BY <2>1, <2>3, <1>4, <1>7
      <3> QED
        BY <3>1, <2>2
    <2>4. CASE j = n + 1
      BY <2>2, <2>4, <1>1, <1>2
    <2> QED
      BY <2>3, <2>4, <1>1
  <1>8. Cut(p).lines = [i \in 1 .. n |-> SubSeq(p, e[i - 1] + 1, e[i])]
    BY <1>1, <1>2, <1>5
  <1>9. Cut(p).rest = SubSeq(p, e[n] + 1, e[n + 1])
    <2>1. EndOf(p, n) = e[n]
      BY <1>1, <1>2
    <2> QED
      BY <2>1, <1>1, <1>2
  <1>10. IsCutAt(p, n, e)
    BY <1>6, <1>7, <1>8, <1>9 DEF IsCutAt
  <1> QED
    BY <1>1, <1>3, <1>10

\* A cut makes lines, none of them empty, of nothing but the pieces it is given,
\* and keeps their order.
LEMMA CutText ==
    ASSUME NEW p \in Seq(Nat)
    PROVE  LET t == Append(Cut(p).lines, Cut(p).rest)
           IN  /\ Cut(p).lines \in Text /\ Cut(p).rest \in Seq(Nat)
               /\ \A i \in 1 .. Len(Cut(p).lines) : Cut(p).lines[i] # <<>>
               /\ \A i \in DOMAIN t : \A x \in DOMAIN t[i] :
                     \E y \in DOMAIN p : t[i][x] = p[y]
               /\ InOrder(p) => Rising(t)
  <1> DEFINE t == Append(Cut(p).lines, Cut(p).rest)
  <1>1. Len(p) \in Nat
    OBVIOUS
  <1>2. PICK n, e : n \in Nat /\ e \in [0 .. n + 1 -> 0 .. Len(p)] /\ IsCutAt(p, n, e)
    BY CutStretches
  <1>3. n \in Nat /\ IsCutAt(p, n, e)
    BY <1>2
  <1>4. \A i \in 1 .. n + 1 : i \in 0 .. n + 1 /\ i - 1 \in 0 .. n + 1 /\ i - 1 < i
    BY <1>3
  <1>5. \A i \in 0 .. n + 1 : e[i] \in Int /\ 0 <= e[i] /\ e[i] <= Len(p)
    BY <1>1, <1>2
  <1>6. /\ \A i \in 1 .. n : e[i - 1] < e[i]
        /\ \A i, j \in 0 .. n + 1 : i < j => e[i] <= e[j]
    BY <1>3 DEF IsCutAt
  <1> DEFINE s == [i \in 1 .. n + 1 |-> SubSeq(p, e[i - 1] + 1, e[i])]
  <1>7. Cut(p).lines = [i \in 1 .. n |-> s[i]] /\ Cut(p).rest = s[n + 1]
    <2>1. \A i \in 1 .. n + 1 : s[i] = SubSeq(p, e[i - 1] + 1, e[i])
      OBVIOUS
    <2>2. (\A i \in 1 .. n : i \in 1 .. n + 1) /\ n + 1 \in 1 .. n + 1 /\ (n + 1) - 1 = n
      BY <1>3
    <2> HIDE DEF s
    <2>4. s[n + 1] = SubSeq(p, e[n] + 1, e[n + 1])
      BY <2>1, <2>2, Zenon
    <2>3. [i \in 1 .. n |-> s[i]] = [i \in 1 .. n |-> SubSeq(p, e[i - 1] + 1, e[i])]
      BY <2>1, <2>2, Zenon
    <2> QED
      BY <2>3, <2>4, <1>3, Zenon DEF IsCutAt
  <1>8. ASSUME NEW i \in 1 .. n + 1
        PROVE  /\ s[i] \in Seq(Nat) /\ Len(s[i]) = e[i] - e[i - 1]
               /\ DOMAIN s[i] = 1 .. e[i] - e[i - 1]
               /\ \A x \in 1 .. e[i] - e[i - 1] :
                     s[i][x] = p[e[i - 1] + x] /\ e[i - 1] + x \in DOMAIN p
    <2>1. /\ e[i - 1] \in Int /\ e[i] \in Int
          /\ 0 <= e[i - 1] /\ e[i - 1] <= e[i] /\ e[i] <= Len(p)
      BY <1>4, <1>5, <1>6
    <2>2. s[i] = SubSeq(p, e[i - 1] + 1, e[i])
      OBVIOUS
    <2> HIDE DEF s
    <2>3. LET q == SubSeq(p, e[i - 1] + 1, e[i])
          IN  /\ q \in Seq(Nat) /\ Len(q) = e[i] - e[i - 1] /\ DOMAIN q = 1 .. e[i] - e[i - 1]
              /\ \A x \in 1 .. e[i] - e[i - 1] :
                    q[x] = p[e[i - 1] + x] /\ e[i - 1] + x \in DOMAIN p
      <3>1. \A a, b \in Int : 0 <= a /\ a <= b /\ b <= Len(p) =>
               LET q == SubSeq(p, a + 1, b)
               IN  /\ q \in Seq(Nat) /\ Len(q) = b - a /\ DOMAIN q = 1 .. b - a
                   /\ \A x \in 1 .. b - a : q[x] = p[a + x] /\ a + x \in DOMAIN p
        BY Stretch, SMTT(40)
      <3> QED
        BY <2>1, <3>1, Zenon
    <2> QED
      BY <2>2, <2>3, Zenon
  <1> HIDE DEF s
  <1>9. Cut(p).lines \in Text /\ Len(Cut(p).lines) = n /\ Cut(p).rest \in Seq(Nat)
    <2>1. \A i \in 1 .. n + 1 : s[i] \in Seq(Nat)
      BY <1>8
    <2> QED
      BY <2>1, <1>3, <1>7 DEF Text
  <1>10. DOMAIN t = 1 .. n + 1 /\ \A i \in 1 .. n + 1 : t[i] = s[i]
    BY <1>3, <1>7, <1>9 DEF Text
  <1> HIDE DEF t
  <1>11. ASSUME NEW i \in DOMAIN t, NEW x \in DOMAIN t[i]
         PROVE  /\ i \in 1 .. n + 1 /\ x \in 1 .. e[i] - e[i - 1]
                /\ t[i][x] = p[e[i - 1] + x] /\ e[i - 1] + x \in DOMAIN p
    <2>1. i \in 1 .. n + 1 /\ t[i] = s[i]
      BY <1>10
    <2>2. x \in 1 .. e[i] - e[i - 1]
      BY <2>1, <1>8, Zenon
    <2> QED
      BY <2>1, <2>2, <1>8, Zenon
  <1>12. \A i \in 1 .. n : Cut(p).lines[i] # <<>>
    <2> SUFFICES ASSUME NEW i \in 1 .. n PROVE Cut(p).lines[i] # <<>>
      OBVIOUS
    <2>1. Cut(p).lines[i] = s[i] /\ i \in 1 .. n + 1
      BY <1>3, <1>7
    <2>2. e[i - 1] < e[i] /\ e[i] \in Int /\ e[i - 1] \in Int
      BY <2>1, <1>4, <1>5, <1>6
    <2>3. Len(s[i]) > 0
      BY <2>1, <2>2, <1>8
    <2> QED
      BY <2>1, <2>3
  <1>13. ASSUME InOrder(p), NEW i \in DOMAIN t, NEW j \in DOMAIN t,
                NEW x \in DOMAIN t[i], NEW y \in DOMAIN t[j], i < j \/ (i = j /\ x < y)
         PROVE  t[i][x] < t[j][y]
    <2>0. /\ i \in 1 .. n + 1 /\ x \in 1 .. e[i] - e[i - 1]
          /\ j \in 1 .. n + 1 /\ y \in 1 .. e[j] - e[j - 1]
      BY <1>11, Zenon
    <2>1. /\ t[i][x] = p[e[i - 1] + x] /\ e[i - 1] + x \in DOMAIN p
          /\ t[j][y] = p[e[j - 1] + y] /\ e[j - 1] + y \in DOMAIN p
      BY <1>11, Zenon
    <2>2. /\ e[i - 1] \in Int /\ e[i] \in Int /\ e[j - 1] \in Int
          /\ x \in Int /\ y \in Int /\ x <= e[i] - e[i - 1] /\ 1 <= y
      <3>1. i \in 0 .. n + 1 /\ i - 1 \in 0 .. n + 1 /\ j \in 0 .. n + 1 /\ j - 1 \in 0 .. n + 1
        BY <2>0, <1>4, Zenon
      <3>2. e[i - 1] \in Int /\ e[i] \in Int /\ e[j - 1] \in Int /\ e[j] \in Int
        BY <3>1, <1>5, Zenon
      <3> QED
        BY <2>0, <3>2
    <2>3. e[i - 1] + x < e[j - 1] + y
      <3>1. CASE i < j
        <4>1. i \in 0 .. n + 1 /\ j - 1 \in 0 .. n + 1 /\ (i = j - 1 \/ i < j - 1)
          BY <2>0, <3>1, <1>3
        <4>2. e[i] <= e[j - 1]
          BY <4>1, <1>6, <2>2
        <4> QED
          BY <2>2, <4>2, StretchOrder
      <3>2. CASE i = j /\ x < y
        BY <3>2, <2>2
      <3> QED
        BY <3>1, <3>2, <1>13
    <2> QED
      BY <2>1, <2>3, <1>13 DEF InOrder
  <1>14. InOrder(p) => Rising(t)
    BY <1>13 DEF Rising
  <1>15. \A i \in DOMAIN t : \A x \in DOMAIN t[i] : \E y \in DOMAIN p : t[i][x] = p[y]
    BY <1>11
  <1> QED
    BY <1>9, <1>12, <1>14, <1>15 DEF t

LEMMA RisingConcat ==
    ASSUME NEW s \in Text, NEW t \in Text, Rising(s), Rising(t),
           \A i \in DOMAIN s, j \in DOMAIN t : \A x \in DOMAIN s[i], y \in DOMAIN t[j] :
              s[i][x] < t[j][y]
    PROVE  Rising(s \o t)
  <1>1. /\ Len(s) \in Nat /\ Len(t) \in Nat /\ DOMAIN s = 1 .. Len(s) /\ DOMAIN t = 1 .. Len(t)
        /\ DOMAIN (s \o t) = 1 .. Len(s) + Len(t)
        /\ \A i \in 1 .. Len(s) + Len(t) :
              (s \o t)[i] = IF i <= Len(s) THEN s[i] ELSE t[i - Len(s)]
    BY DEF Text
  <1> SUFFICES ASSUME NEW i \in 1 .. Len(s) + Len(t), NEW j \in 1 .. Len(s) + Len(t),
                      NEW x \in DOMAIN (s \o t)[i], NEW y \in DOMAIN (s \o t)[j],
                      i < j \/ (i = j /\ x < y)
               PROVE  (s \o t)[i][x] < (s \o t)[j][y]
    BY <1>1 DEF Rising
  <1>2. CASE j <= Len(s)
    <2>1. i \in DOMAIN s /\ j \in DOMAIN s /\ (s \o t)[i] = s[i] /\ (s \o t)[j] = s[j]
      BY <1>1, <1>2
    <2> QED
      BY <2>1 DEF Rising
  <1>3. CASE i <= Len(s) /\ j > Len(s)
    <2>1. /\ i \in DOMAIN s /\ j - Len(s) \in DOMAIN t
          /\ (s \o t)[i] = s[i] /\ (s \o t)[j] = t[j - Len(s)]
      BY <1>1, <1>3
    <2> QED
      BY <2>1
  <1>4. CASE i > Len(s) /\ j > Len(s)
    <2>1. /\ i - Len(s) \in DOMAIN t /\ j - Len(s) \in DOMAIN t
          /\ (s \o t)[i] = t[i - Len(s)] /\ (s \o t)[j] = t[j - Len(s)]
          /\ i < j => i - Len(s) < j - Len(s)
      BY <1>1, <1>4
    <2> QED
      BY <2>1 DEF Rising
  <1> QED
    BY <1>1, <1>2, <1>3, <1>4

LEMMA RisingSubSeq ==
    ASSUME NEW t \in Text, Rising(t), NEW m \in 1 .. Len(t) + 1, NEW n \in 0 .. Len(t)
    PROVE  SubSeq(t, m, n) \in Text /\ Rising(SubSeq(t, m, n))
  <1> DEFINE s == SubSeq(t, m, n)
  <1>1. /\ Len(t) \in Nat /\ DOMAIN t = 1 .. Len(t)
        /\ s \in Text /\ DOMAIN s = 1 .. n - m + 1
        /\ \A i \in 1 .. n - m + 1 : s[i] = t[m + i - 1] /\ m + i - 1 \in DOMAIN t
    <2>1. /\ Len(t) \in Nat /\ DOMAIN t = 1 .. Len(t)
          /\ \A i \in m .. n : t[i] \in Seq(Nat)
          /\ m \in Int /\ n \in Int
      BY DEF Text
    <2>2. /\ s \in Seq(Seq(Nat))
          /\ Len(s) = IF m <= n THEN n - m + 1 ELSE 0
          /\ \A i \in 1 .. n - m + 1 : s[i] = t[m + i - 1]
      BY <2>1, SubSeqProperties
    <2> HIDE DEF s
    <2>3. DOMAIN s = 1 .. n - m + 1
      BY <2>1, <2>2
    <2>4. \A i \in 1 .. n - m + 1 : m + i - 1 \in DOMAIN t
      BY <2>1
    <2> QED
      BY <2>1, <2>2, <2>3, <2>4 DEF Text
  <1> HIDE DEF s
  <1> SUFFICES ASSUME NEW i \in DOMAIN s, NEW j \in DOMAIN s,
                      NEW x \in DOMAIN s[i], NEW y \in DOMAIN s[j], i < j \/ (i = j /\ x < y)
               PROVE  s[i][x] < s[j][y]
    BY <1>1 DEF Rising, s
  <1>2. /\ s[i] = t[m + i - 1] /\ m + i - 1 \in DOMAIN t
        /\ s[j] = t[m + j - 1] /\ m + j - 1 \in DOMAIN t
        /\ i < j => m + i - 1 < m + j - 1
    BY <1>1
  <1> QED
    BY <1>2 DEF Rising

\* Runs of pieces.
LEMMA RunText ==
    ASSUME NEW a \in Nat, NEW b \in Nat
    PROVE  /\ Pieces(a, b) \in Seq(Nat)
           /\ DOMAIN Pieces(a, b) = 1 .. b - a
           /\ \A i \in 1 .. b - a : Pieces(a, b)[i] = a + i
           /\ a <= b => Len(Pieces(a, b)) = b - a
           /\ b <= a => Pieces(a, b) = <<>>
           /\ InOrder(Pieces(a, b))
  <1>1. DOMAIN Pieces(a, b) = 1 .. b - a /\ \A i \in 1 .. b - a : Pieces(a, b)[i] = a + i
    BY DEF Pieces
  <1>2. CASE b <= a
    <2>1. 1 .. b - a = {}
      BY <1>2
    <2>2. Pieces(a, b) = <<>>
      BY <2>1 DEF Pieces
    <2> QED
      BY <1>1, <1>2, <2>1, <2>2 DEF InOrder
  <1>3. CASE a < b
    <2>1. b - a \in Nat /\ \A i \in 1 .. b - a : a + i \in Nat
      BY <1>3
    <2>2. Pieces(a, b) \in Seq(Nat)
      BY <2>1, IsASeq DEF Pieces
    <2>3. Len(Pieces(a, b)) = b - a
      BY <1>1, <2>1, <2>2
    <2> QED
      BY <1>1, <1>3, <2>2, <2>3 DEF InOrder
  <1> QED
    BY <1>2, <1>3

Evens(a, b) == {i \in 1 .. b - a : (a + i) % 2 = 0}

LEMMA Halves ==
    ASSUME NEW n \in Nat
    PROVE  /\ n \div 2 \in Nat /\ 2 * (n \div 2) <= n /\ n <= 2 * (n \div 2) + 1
           /\ n % 2 = 0 <=> n = 2 * (n \div 2)
           /\ \A k \in Nat : (2 * k) % 2 = 0 /\ (2 * k) \div 2 = k /\ (2 * k + 1) \div 2 = k
  OBVIOUS

LEMMA EvensCount ==
    ASSUME NEW a \in Nat, NEW b \in Nat, a <= b
    PROVE  /\ IsFiniteSet(Evens(a, b)) /\ Evens(a, b) \in SUBSET Int
           /\ Cardinality(Evens(a, b)) = b \div 2 - a \div 2
  <1> DEFINE A == a \div 2
             B == b \div 2
             f == [m \in 1 .. B - A |-> 2 * (A + m) - a]
  <1>1. /\ A \in Nat /\ B \in Nat /\ A <= B
        /\ 2 * A <= a /\ a <= 2 * A + 1 /\ 2 * B <= b /\ b <= 2 * B + 1
    BY Halves
  <1>2. ASSUME NEW m \in 1 .. B - A PROVE 2 * (A + m) - a \in Evens(a, b)
    <2>1. 2 * (A + m) - a \in 1 .. b - a /\ a + (2 * (A + m) - a) = 2 * (A + m) /\ A + m \in Nat
      BY <1>1
    <2>2. (2 * (A + m)) % 2 = 0
      BY <2>1, Halves
    <2> QED
      BY <2>1, <2>2 DEF Evens
  <1>3. ASSUME NEW i \in Evens(a, b) PROVE \E m \in 1 .. B - A : i = 2 * (A + m) - a
    <2>1. i \in 1 .. b - a /\ a + i \in Nat /\ (a + i) % 2 = 0
      BY DEF Evens
    <2>2. (a + i) \div 2 \in Nat /\ a + i = 2 * ((a + i) \div 2)
      BY <2>1, Halves
    <2> DEFINE m == (a + i) \div 2 - A
    <2>3. m \in 1 .. B - A /\ i = 2 * (A + m) - a
      BY <1>1, <2>1, <2>2
    <2> QED
      BY <2>3
  <1> HIDE DEF A, B
  <1>4. f \in [1 .. B - A -> Evens(a, b)]
    BY <1>2
  <1>5. \A m, k \in 1 .. B - A : f[m] = f[k] => m = k
    BY <1>1
  <1>6. f \in Surjection(1 .. B - A, Evens(a, b))
    BY <1>3, <1>4 DEF Surjection
  <1>7. f \in Injection(1 .. B - A, Evens(a, b))
    BY <1>4, <1>5 DEF Injection, IsInjective
  <1>8. IsFiniteSet(1 .. B - A) /\ Cardinality(1 .. B - A) = B - A
    BY <1>1, FS_Interval
  <1>9. IsFiniteSet(Evens(a, b)) /\ Cardinality(Evens(a, b)) = B - A
    BY <1>6, <1>7, <1>8, FS_Surjection
  <1> QED
    BY <1>9 DEF A, B, Evens

\* The k-th line of a run begins where the run or the line does and ends with
\* the k-th newline.
RunBegin(a, k) == IF k = 1 THEN a ELSE 2 * (a \div 2 + k - 1)
RunRest(a, b) == IF b \div 2 = a \div 2 THEN a ELSE 2 * (b \div 2)

LEMMA RunEnds ==
    ASSUME NEW a \in Nat, NEW b \in Nat, a <= b
    PROVE  /\ Lines(Pieces(a, b)) = b \div 2 - a \div 2
           /\ \A k \in 1 .. b \div 2 - a \div 2 :
                 EndOf(Pieces(a, b), k) = 2 * (a \div 2 + k) - a
           /\ EndOf(Pieces(a, b), 0) = 0
  <1> DEFINE A == a \div 2
             B == b \div 2
             S == Evens(a, b)
  <1>1. /\ A \in Nat /\ B \in Nat /\ A <= B
        /\ 2 * A <= a /\ a <= 2 * A + 1 /\ 2 * B <= b /\ b <= 2 * B + 1
    BY Halves
  <1>2. Ends(Pieces(a, b)) = S
    BY RunText DEF Ends, EndsLine, Evens
  <1>3. IsFiniteSet(S) /\ S \in SUBSET Int /\ Cardinality(S) = B - A
    BY EvensCount
  <1>4. ASSUME NEW k \in 1 .. B - A PROVE Nth(S, k) = 2 * (A + k) - a
    <2> DEFINE i == 2 * (A + k) - a
               c == 2 * (A + k - 1) + 1
    <2>1. /\ i \in 1 .. b - a /\ a + i = 2 * (A + k) /\ A + k \in Nat /\ A + k - 1 \in Nat
          /\ c \in Nat /\ a <= c /\ c - a = i - 1
      BY <1>1
    <2>2. i \in S
      BY <2>1, Halves DEF Evens
    <2>3. {j \in S : j < i} = Evens(a, c)
      BY <2>1 DEF Evens
    <2>4. c \div 2 = A + k - 1
      BY <2>1, Halves
    <2>5. Cardinality({j \in S : j < i}) = k - 1
      <3>1. Cardinality(Evens(a, c)) = c \div 2 - A
        BY <2>1, EvensCount
      <3>2. (A + k - 1) - A = k - 1
        BY <1>1
      <3> QED
        BY <3>1, <3>2, <2>3, <2>4
    <2>6. k \in Nat
      BY <1>1
    <2> HIDE DEF i, S
    <2> QED
      BY <2>2, <2>5, <2>6, <1>3, NthProperties DEF i
  <1> HIDE DEF S
  <1>5. Lines(Pieces(a, b)) = B - A
    BY <1>2, <1>3 DEF Lines
  <1>6. \A k \in 1 .. B - A : EndOf(Pieces(a, b), k) = 2 * (A + k) - a
    BY <1>2, <1>4 DEF EndOf
  <1> QED
    BY <1>5, <1>6 DEF EndOf

LEMMA RunSub ==
    ASSUME NEW a \in Nat, NEW b \in Nat, NEW m \in Int, NEW n \in Int,
           a <= b, 0 <= m, m <= n, n <= b - a
    PROVE  SubSeq(Pieces(a, b), m + 1, n) = Pieces(a + m, a + n)
  <1> DEFINE p == Pieces(a, b)
             q == SubSeq(p, m + 1, n)
             r == Pieces(a + m, a + n)
  <1>1. /\ p \in Seq(Nat) /\ Len(p) = b - a
        /\ \A i \in 1 .. b - a : p[i] = a + i
    BY RunText
  <1> HIDE DEF p
  <1>2. /\ q \in Seq(Nat) /\ Len(q) = n - m
        /\ \A x \in 1 .. n - m : q[x] = p[m + x]
    <2>1. p \in Seq(Nat) /\ m \in Int /\ n \in Int /\ 0 <= m /\ m <= n /\ n <= Len(p)
      BY <1>1
    <2> QED
      BY ONLY <2>1, Stretch
  <1>3. a + m \in Nat /\ a + n \in Nat /\ a + m <= a + n /\ (a + n) - (a + m) = n - m
    OBVIOUS
  <1>4. r \in Seq(Nat) /\ Len(r) = n - m /\ \A x \in 1 .. n - m : r[x] = (a + m) + x
    <2>1. PICK c, d : c = a + m /\ d = a + n
      OBVIOUS
    <2>2. c \in Nat /\ d \in Nat /\ c <= d
      BY <1>3, <2>1
    <2>3. /\ Pieces(c, d) \in Seq(Nat) /\ Len(Pieces(c, d)) = d - c
          /\ \A x \in 1 .. d - c : Pieces(c, d)[x] = c + x
      BY ONLY <2>2, RunText
    <2> QED
      BY <1>3, <2>1, <2>3
  <1> HIDE DEF q, r
  <1>5. ASSUME NEW x \in 1 .. n - m PROVE q[x] = r[x]
    <2>1. m + x \in 1 .. b - a /\ a + (m + x) = (a + m) + x
      OBVIOUS
    <2> QED
      BY <2>1, <1>1, <1>2, <1>4
  <1>6. q = r
    BY <1>2, <1>4, <1>5, SeqEqual
  <1> QED
    BY <1>6 DEF p, q, r

LEMMA RunCut ==
    ASSUME NEW a \in Nat, NEW b \in Nat, a <= b
    PROVE  /\ Len(Cut(Pieces(a, b)).lines) = b \div 2 - a \div 2
           /\ Cut(Pieces(a, b)).lines \in Text
           /\ \A k \in 1 .. b \div 2 - a \div 2 :
                 Cut(Pieces(a, b)).lines[k] = Pieces(RunBegin(a, k), 2 * (a \div 2 + k))
           /\ Cut(Pieces(a, b)).rest = Pieces(RunRest(a, b), b)
  <1> DEFINE p == Pieces(a, b)
             A == a \div 2
             B == b \div 2
  <1>1. /\ A \in Nat /\ B \in Nat /\ A <= B
        /\ 2 * A <= a /\ a <= 2 * A + 1 /\ 2 * B <= b /\ b <= 2 * B + 1
    BY Halves
  <1>2. p \in Seq(Nat) /\ Len(p) = b - a
    BY RunText
  <1>3. /\ Lines(p) = B - A
        /\ \A k \in 1 .. B - A : EndOf(p, k) = 2 * (A + k) - a
        /\ EndOf(p, 0) = 0
    BY RunEnds
  <1>4. /\ Cut(p).lines = [k \in 1 .. B - A |-> SubSeq(p, EndOf(p, k - 1) + 1, EndOf(p, k))]
        /\ Cut(p).rest = SubSeq(p, EndOf(p, B - A) + 1, b - a)
    BY <1>2, <1>3, CutShape
  <1>5. Cut(p).lines \in Text
    BY <1>2, CutText
  <1>6. \A m, n \in Int : 0 <= m /\ m <= n /\ n <= b - a =>
           SubSeq(p, m + 1, n) = Pieces(a + m, a + n)
    BY RunSub
  <1> HIDE DEF p, A, B
  <1>7. Len(Cut(p).lines) = B - A
    BY <1>1, <1>4
  <1>8. ASSUME NEW k \in 1 .. B - A
        PROVE  Cut(p).lines[k] = Pieces(IF k = 1 THEN a ELSE 2 * (A + k - 1), 2 * (A + k))
    <2>1. Cut(p).lines[k] = SubSeq(p, EndOf(p, k - 1) + 1, EndOf(p, k))
      BY <1>4
    <2>2. EndOf(p, k) = 2 * (A + k) - a
      BY <1>3
    <2> DEFINE m == IF k = 1 THEN 0 ELSE 2 * (A + k - 1) - a
               n == 2 * (A + k) - a
    <2>3. EndOf(p, k - 1) = m
      <3>1. CASE k = 1
        BY <3>1, <1>3
      <3>2. CASE k # 1
        <4>1. k - 1 \in 1 .. B - A /\ A + (k - 1) = A + k - 1
          BY <3>2, <1>1
        <4>2. EndOf(p, k - 1) = 2 * (A + (k - 1)) - a
          BY <4>1, <1>3
        <4> QED
          BY <4>1, <4>2, <3>2
      <3> QED
        BY <3>1, <3>2
    <2>4. /\ m \in Int /\ n \in Int /\ 0 <= m /\ m <= n /\ n <= b - a
          /\ a + m = IF k = 1 THEN a ELSE 2 * (A + k - 1)
          /\ a + n = 2 * (A + k)
      BY <1>1
    <2> HIDE DEF m, n
    <2>5. SubSeq(p, m + 1, n) = Pieces(a + m, a + n)
      BY <2>4, <1>6
    <2>6. EndOf(p, k) = n
      BY <2>2 DEF n
    <2> QED
      BY <2>1, <2>3, <2>4, <2>5, <2>6
  <1>9. Cut(p).rest = Pieces(IF B = A THEN a ELSE 2 * B, b)
    <2> DEFINE m == IF B = A THEN 0 ELSE 2 * B - a
    <2>1. EndOf(p, B - A) = m
      <3>1. CASE B = A
        BY <3>1, <1>1, <1>3
      <3>2. CASE B # A
        <4>1. B - A \in 1 .. B - A /\ A + (B - A) = B
          BY <3>2, <1>1
        <4>2. EndOf(p, B - A) = 2 * (A + (B - A)) - a
          BY <4>1, <1>3
        <4> QED
          BY <4>1, <4>2, <3>2
      <3> QED
        BY <3>1, <3>2
    <2>2. /\ m \in Int /\ b - a \in Int /\ 0 <= m /\ m <= b - a
          /\ a + m = IF B = A THEN a ELSE 2 * B
          /\ a + (b - a) = b /\ b - a <= b - a
      BY <1>1
    <2> HIDE DEF m
    <2>3. SubSeq(p, m + 1, b - a) = Pieces(a + m, a + (b - a))
      BY <2>2, <1>6, Zenon
    <2> QED
      BY <2>1, <2>2, <2>3, <1>4
  <1> QED
    BY <1>5, <1>7, <1>8, <1>9 DEF p, A, B, RunBegin, RunRest

\* Runs that follow each other.
LEMMA RunConcat ==
    ASSUME NEW a \in Nat, NEW b \in Nat, NEW c \in Nat, a <= b, b <= c
    PROVE  Pieces(a, b) \o Pieces(b, c) = Pieces(a, c)
  <1> DEFINE p == Pieces(a, b)
             q == Pieces(b, c)
             r == Pieces(a, c)
  <1>1. /\ p \in Seq(Nat) /\ Len(p) = b - a /\ \A i \in 1 .. b - a : p[i] = a + i
        /\ q \in Seq(Nat) /\ Len(q) = c - b /\ \A i \in 1 .. c - b : q[i] = b + i
        /\ r \in Seq(Nat) /\ Len(r) = c - a /\ \A i \in 1 .. c - a : r[i] = a + i
    <2>1. \A x, y \in Nat : x <= y =>
             /\ Pieces(x, y) \in Seq(Nat) /\ Len(Pieces(x, y)) = y - x
             /\ \A i \in 1 .. y - x : Pieces(x, y)[i] = x + i
      BY RunText
    <2>2. a <= c
      OBVIOUS
    <2> QED
      BY <2>1, <2>2, Zenon
  <1> HIDE DEF p, q, r
  <1>2. /\ p \o q \in Seq(Nat) /\ Len(p \o q) = Len(p) + Len(q)
        /\ \A i \in 1 .. Len(p) + Len(q) :
              (p \o q)[i] = IF i <= Len(p) THEN p[i] ELSE q[i - Len(p)]
    BY <1>1, ConcatProperties
  <1>3. Len(p) + Len(q) = c - a
    BY <1>1
  <1>4. ASSUME NEW i \in 1 .. c - a PROVE (p \o q)[i] = r[i]
    <2>1. (p \o q)[i] = IF i <= b - a THEN p[i] ELSE q[i - (b - a)]
      BY <1>1, <1>2, <1>3
    <2>2. CASE i <= b - a
      <3>1. i \in 1 .. b - a
        BY <2>2
      <3> QED
        BY <2>1, <2>2, <3>1, <1>1
    <2>3. CASE ~(i <= b - a)
      <3>1. i - (b - a) \in 1 .. c - b /\ b + (i - (b - a)) = a + i
        BY <2>3
      <3> QED
        BY <2>1, <2>3, <3>1, <1>1
    <2> QED
      BY <2>2, <2>3
  <1>5. p \o q = r
    <2>1. Len(p \o q) = Len(r) /\ Len(r) = c - a
      BY <1>1, <1>2, <1>3
    <2> QED
      BY <2>1, <1>1, <1>2, <1>4, SeqEqual
  <1> QED
    BY <1>5 DEF p, q, r

\* Cutting what is new after what was left of the run before gives the lines of
\* the whole run.
LEMMA RunExtend ==
    ASSUME NEW a \in Nat, NEW b \in Nat, NEW c \in Nat, a <= b, b <= c
    PROVE  LET old == Cut(Pieces(a, b))
               new == Cut(old.rest \o Pieces(b, c))
               all == Cut(Pieces(a, c))
           IN  /\ old.lines \in Text /\ new.lines \in Text
               /\ all.lines = old.lines \o new.lines
               /\ all.rest = new.rest
  <1> DEFINE old == Cut(Pieces(a, b))
             all == Cut(Pieces(a, c))
             A == a \div 2
             B == b \div 2
             C == c \div 2
             m == IF B = A THEN a ELSE 2 * B
             M == m \div 2
             new == Cut(Pieces(m, c))
  <1>1. /\ A \in Nat /\ B \in Nat /\ C \in Nat /\ A <= B /\ B <= C
        /\ 2 * A <= a /\ a <= 2 * A + 1 /\ 2 * B <= b /\ b <= 2 * B + 1
        /\ 2 * C <= c /\ c <= 2 * C + 1
    BY Halves
  <1>2. m \in Nat /\ a <= m /\ m <= b /\ M = B
    BY <1>1, Halves
  <1>3. old.rest \o Pieces(b, c) = Pieces(m, c)
    <2>1. old.rest = Pieces(RunRest(a, b), b)
      BY RunCut
    <2>2. RunRest(a, b) = m
      BY DEF RunRest
    <2> HIDE DEF old, m
    <2>3. Pieces(m, b) \o Pieces(b, c) = Pieces(m, c)
      BY <1>2, RunConcat
    <2> QED
      BY <2>1, <2>2, <2>3
  <1>4. /\ Len(old.lines) = B - A /\ old.lines \in Text
        /\ \A k \in 1 .. B - A : old.lines[k] = Pieces(RunBegin(a, k), 2 * (A + k))
    BY RunCut
  <1>5. /\ Len(all.lines) = C - A /\ all.lines \in Text
        /\ \A k \in 1 .. C - A : all.lines[k] = Pieces(RunBegin(a, k), 2 * (A + k))
        /\ all.rest = Pieces(IF C = A THEN a ELSE 2 * C, c)
    <2>1. a <= c
      OBVIOUS
    <2> QED
      BY <2>1, RunCut, Zenon DEF RunRest
  <1>6. /\ Len(new.lines) = C - M /\ new.lines \in Text
        /\ \A k \in 1 .. C - M : new.lines[k] = Pieces(RunBegin(m, k), 2 * (M + k))
        /\ new.rest = Pieces(IF C = M THEN m ELSE 2 * C, c)
    <2>1. m \in Nat /\ m <= c
      BY <1>2
    <2> HIDE DEF m
    <2> QED
      BY <2>1, RunCut, Zenon DEF RunRest
  <1>7. /\ Len(new.lines) = C - B
        /\ \A k \in 1 .. C - B : new.lines[k] = Pieces(IF k = 1 THEN m ELSE 2 * (B + k - 1), 2 * (B + k))
        /\ new.rest = Pieces(IF C = B THEN m ELSE 2 * C, c)
    BY <1>2, <1>6 DEF RunBegin
  <1>8. /\ \A k \in 1 .. B - A : old.lines[k] = Pieces(IF k = 1 THEN a ELSE 2 * (A + k - 1), 2 * (A + k))
        /\ \A k \in 1 .. C - A : all.lines[k] = Pieces(IF k = 1 THEN a ELSE 2 * (A + k - 1), 2 * (A + k))
    BY <1>4, <1>5 DEF RunBegin
  <1> HIDE DEF M, A, B, C, old, all, new
  <1>9. all.rest = new.rest
    BY <1>1, <1>5, <1>7
  <1>10. /\ old.lines \o new.lines \in Text
         /\ Len(old.lines \o new.lines) = C - A
         /\ \A i \in 1 .. C - A : (old.lines \o new.lines)[i] =
               IF i <= B - A THEN old.lines[i] ELSE new.lines[i - (B - A)]
    <2>1. old.lines \in Seq(Seq(Nat)) /\ new.lines \in Seq(Seq(Nat))
      BY <1>4, <1>6 DEF Text
    <2>2. Len(old.lines) = B - A /\ Len(old.lines) + Len(new.lines) = C - A
      BY <1>1, <1>4, <1>7
    <2>3. /\ old.lines \o new.lines \in Seq(Seq(Nat))
          /\ Len(old.lines \o new.lines) = Len(old.lines) + Len(new.lines)
          /\ \A i \in 1 .. Len(old.lines) + Len(new.lines) : (old.lines \o new.lines)[i] =
                IF i <= Len(old.lines) THEN old.lines[i] ELSE new.lines[i - Len(old.lines)]
      BY <2>1, ConcatProperties
    <2> QED
      BY <2>2, <2>3, Zenon DEF Text
  <1>11. ASSUME NEW i \in 1 .. C - A PROVE (old.lines \o new.lines)[i] = all.lines[i]
    <2>1. CASE i <= B - A
      <3>1. i \in 1 .. B - A
        BY <2>1, <1>1
      <3> QED
        BY <2>1, <3>1, <1>8, <1>10
    <2>2. CASE ~(i <= B - A)
      <3> DEFINE k == i - (B - A)
      <3>1. /\ k \in 1 .. C - B /\ B + k = A + i /\ B + k - 1 = A + i - 1
            /\ (k = 1 => (IF i = 1 THEN a ELSE 2 * (A + i - 1)) = m)
            /\ (k # 1 => i # 1)
        BY <2>2, <1>1, <1>2
      <3>2. new.lines[k] = Pieces(IF k = 1 THEN m ELSE 2 * (B + k - 1), 2 * (B + k))
        BY <3>1, <1>7
      <3>3. (IF k = 1 THEN m ELSE 2 * (B + k - 1)) = (IF i = 1 THEN a ELSE 2 * (A + i - 1))
        BY <3>1
      <3>4. all.lines[i] = Pieces(IF i = 1 THEN a ELSE 2 * (A + i - 1), 2 * (A + i))
        BY <1>8
      <3>5. (old.lines \o new.lines)[i] = new.lines[k]
        BY <2>2, <1>10
      <3> QED
        BY <3>1, <3>2, <3>3, <3>4, <3>5
    <2> QED
      BY <2>1, <2>2
  <1>12. all.lines = old.lines \o new.lines
    BY <1>5, <1>10, <1>11, SeqEqual DEF Text
  <1> QED
    BY <1>3, <1>4, <1>6, <1>9, <1>12 DEF old, new, all
-----------------------------------------------------------------------------
(* The log view: the invariant *)

LogTypeOK ==
    /\ written \in Nat /\ fileFrom \in Nat /\ fileFrom <= written
    /\ inPlace \in BOOLEAN /\ rotations \in Nat
    /\ tpc \in TailPoints /\ hpc \in {"serving", "returned"} /\ ctxDone \in BOOLEAN
    /\ offset \in Nat /\ statSize \in Nat /\ carry \in Seq(Nat)
    /\ startAt \in Nat /\ startRot \in Nat /\ startRot <= rotations
    /\ out \in Text /\ channel \in Text /\ shown \in Text

\* What each control point still knows of the ones before it.
TailInv ==
    /\ tpc = "backfill" => shown = <<>> /\ channel = <<>> /\ out = <<>>
    /\ tpc \in {"backfill", "sendBackfill"} => carry = <<>>
    /\ tpc \in {"tick", "read"} => out = <<>>

Reading == tpc \in {"tick", "read", "send"}

\* What was taken is in order and was written; it lies before the offset in the
\* file that is in place, or before that file if it is shorter than the offset.
OrderInv ==
    /\ Rising(Taken) /\ UpTo(Taken, written)
    /\ \A i \in 1 .. Len(Sent) : Sent[i] # <<>>
    /\ Reading /\ inPlace =>
          /\ UpTo(Taken, fileFrom + offset)
          /\ offset > Size => UpTo(Taken, fileFrom)

\* Until the next rotation the offset stays between the start and the end; a
\* rotation under way at the start had nothing written since.
StreamInv ==
    /\ startAt <= written
    /\ inPlace => startAt <= fileFrom + offset /\ fileFrom + offset <= written
    /\ ~inPlace => offset = 0 /\ written = startAt
    /\ LET cut == Cut(Pieces(startAt, fileFrom + offset))
       IN  StreamedOf(Sent, cut.lines) /\ carry = cut.rest

LogInv ==
    /\ LogTypeOK /\ TailInv
    /\ hpc = "serving" => OrderInv
    /\ Following => StreamInv

LEMMA UpToMore ==
    ASSUME NEW t \in Text, NEW a \in Int, NEW b \in Int, a <= b, UpTo(t, a)
    PROVE  UpTo(t, b)
  <1> SUFFICES ASSUME NEW i \in DOMAIN t, NEW x \in DOMAIN t[i] PROVE t[i][x] <= b
    BY DEF UpTo
  <1>1. t[i] \in Seq(Nat)
    BY DEF Text
  <1>2. t[i][x] \in Nat
    BY <1>1
  <1>3. t[i][x] <= a
    BY DEF UpTo
  <1> QED
    BY <1>2, <1>3

\* A line moves from the front of one sequence to the end of the one before.
LEMMA Moves ==
    ASSUME NEW S, NEW s \in Seq(S), NEW t \in Seq(S), t # <<>>
    PROVE  /\ Append(s, Head(t)) \in Seq(S) /\ Tail(t) \in Seq(S)
           /\ Append(s, Head(t)) \o Tail(t) = s \o t
  <1>1. /\ Head(t) \in S /\ Tail(t) \in Seq(S) /\ Len(Tail(t)) = Len(t) - 1
        /\ \A i \in 1 .. Len(Tail(t)) : Tail(t)[i] = t[i + 1]
        /\ Head(t) = t[1]
    BY HeadTailProperties
  <1> DEFINE a == Append(s, Head(t))
             b == Tail(t)
  <1>2. /\ a \in Seq(S) /\ Len(a) = Len(s) + 1
        /\ \A i \in 1 .. Len(s) : a[i] = s[i]
        /\ a[Len(s) + 1] = t[1]
    BY <1>1, AppendProperties
  <1>3. Len(s) \in Nat /\ Len(t) \in Nat /\ Len(t) > 0
    BY EmptySeq
  <1>4. b \in Seq(S) /\ Len(b) = Len(t) - 1 /\ \A i \in 1 .. Len(t) - 1 : b[i] = t[i + 1]
    BY <1>1
  <1> HIDE DEF a, b
  <1>5. /\ a \o b \in Seq(S) /\ Len(a \o b) = Len(a) + Len(b)
        /\ \A i \in 1 .. Len(a) + Len(b) :
              (a \o b)[i] = IF i <= Len(a) THEN a[i] ELSE b[i - Len(a)]
    BY <1>2, <1>4, ConcatProperties
  <1>6. /\ s \o t \in Seq(S) /\ Len(s \o t) = Len(s) + Len(t)
        /\ \A i \in 1 .. Len(s) + Len(t) :
              (s \o t)[i] = IF i <= Len(s) THEN s[i] ELSE t[i - Len(s)]
    BY ConcatProperties
  <1>7. Len(a) + Len(b) = Len(s) + Len(t)
    BY <1>2, <1>3, <1>4
  <1>8. ASSUME NEW i \in 1 .. Len(s) + Len(t) PROVE (a \o b)[i] = (s \o t)[i]
    <2>1. CASE i <= Len(s)
      <3>1. i \in 1 .. Len(s) /\ i <= Len(s) + 1
        BY <2>1, <1>3
      <3> QED
        BY <3>1, <2>1, <1>2, <1>5, <1>6, <1>7
    <2>2. CASE i = Len(s) + 1
      <3>1. ~(i <= Len(s)) /\ i - Len(s) = 1 /\ i <= Len(s) + 1
        BY <2>2, <1>3
      <3> QED
        BY <3>1, <2>2, <1>2, <1>5, <1>6, <1>7
    <2>3. CASE i > Len(s) + 1
      <3>1. /\ ~(i <= Len(s)) /\ ~(i <= Len(s) + 1)
            /\ i - (Len(s) + 1) \in 1 .. Len(t) - 1 /\ (i - (Len(s) + 1)) + 1 = i - Len(s)
        BY <2>3, <1>3
      <3>2. (a \o b)[i] = b[i - (Len(s) + 1)]
        BY <3>1, <1>2, <1>5, <1>7
      <3>3. (s \o t)[i] = t[i - Len(s)]
        BY <3>1, <1>6
      <3> QED
        BY <3>1, <3>2, <3>3, <1>4
    <2>4. i <= Len(s) \/ i = Len(s) + 1 \/ i > Len(s) + 1
      BY <1>3
    <2> QED
      BY <2>1, <2>2, <2>3, <2>4, Zenon
  <1>9. a \o b = s \o t
    BY <1>5, <1>6, <1>7, <1>8, SeqEqual
  <1> QED
    BY <1>2, <1>4, <1>9 DEF a, b

LEMMA SentText ==
    ASSUME LogTypeOK
    PROVE  Sent \in Text /\ Taken \in Text /\ shown \o channel \in Text
  BY DEF LogTypeOK, Sent, Taken, Text

\* The line that SendLine, or ShowLine, moves stays in the sequence of all lines.
LEMMA SentSame ==
    ASSUME NEW u \in Text, NEW v \in Text, NEW w \in Text
    PROVE  /\ w # <<>> => (u \o Append(v, Head(w))) \o Tail(w) = (u \o v) \o w
           /\ v # <<>> => (Append(u, Head(v)) \o Tail(v)) \o w = (u \o v) \o w
  <1>1. u \in Seq(Seq(Nat)) /\ v \in Seq(Seq(Nat)) /\ w \in Seq(Seq(Nat))
    BY DEF Text
  <1>0. \A s, t \in Seq(Seq(Nat)) : t # <<>> =>
           /\ Append(s, Head(t)) \in Seq(Seq(Nat)) /\ Tail(t) \in Seq(Seq(Nat))
           /\ Append(s, Head(t)) \o Tail(t) = s \o t
    BY Moves, Zenon
  <1>2. ASSUME w # <<>>
        PROVE  (u \o Append(v, Head(w))) \o Tail(w) = (u \o v) \o w
    <2>1. /\ Append(v, Head(w)) \in Seq(Seq(Nat)) /\ Tail(w) \in Seq(Seq(Nat))
          /\ Append(v, Head(w)) \o Tail(w) = v \o w
      BY <1>1, <1>2, <1>0, Zenon
    <2>2. (u \o Append(v, Head(w))) \o Tail(w) = u \o (Append(v, Head(w)) \o Tail(w))
      <3>1. \A x, y, z \in Seq(Seq(Nat)) : (x \o y) \o z = x \o (y \o z)
        BY ConcatAssociative, SMTT(40)
      <3> QED
        BY <1>1, <2>1, <3>1
    <2>3. (u \o v) \o w = u \o (v \o w)
      BY <1>1, ConcatAssociative, SMTT(40)
    <2> QED
      BY <2>1, <2>2, <2>3
  <1>3. ASSUME v # <<>>
        PROVE  (Append(u, Head(v)) \o Tail(v)) \o w = (u \o v) \o w
    BY <1>1, <1>3, <1>0, Zenon
  <1> QED
    BY <1>2, <1>3

LEMMA AppendLast ==
    ASSUME NEW u \in Text, NEW v \in Text, NEW e \in Seq(Nat)
    PROVE  Append(u \o v, e) = u \o Append(v, e)
  <1>1. \A S : \A x, y, z \in Seq(S) : (x \o y) \o z = x \o (y \o z)
    BY ConcatAssociative, Zenon
  <1>2. \A x \in Seq(Seq(Nat)) : \A z \in Seq(Nat) : Append(x, z) = x \o <<z>>
    BY AppendIsConcat, Zenon
  <1>3. u \in Seq(Seq(Nat)) /\ v \in Seq(Seq(Nat)) /\ <<e>> \in Seq(Seq(Nat))
    BY DEF Text
  <1>4. u \o v \in Seq(Seq(Nat))
    BY <1>3, ConcatProperties
  <1>5. Append(u \o v, e) = (u \o v) \o <<e>>
    BY <1>2, <1>4, Zenon
  <1>6. Append(v, e) = v \o <<e>>
    BY <1>2, <1>3, Zenon
  <1>7. (u \o v) \o <<e>> = u \o (v \o <<e>>)
    BY <1>1, <1>3, SMTT(40)
  <1> QED
    BY <1>5, <1>6, <1>7

\* Reading on in order keeps what was taken in order.
LEMMA ReadRising ==
    ASSUME NEW s \in Text, NEW c \in Seq(Nat), NEW r \in Seq(Nat),
           NEW b \in Nat, NEW d \in Nat, b <= d,
           Rising(Append(s, c)), UpTo(Append(s, c), b),
           InOrder(r), \A x \in DOMAIN r : b < r[x] /\ r[x] <= d
    PROVE  LET cut == Cut(c \o r)
           IN  /\ cut.lines \in Text /\ cut.rest \in Seq(Nat)
               /\ \A i \in 1 .. Len(cut.lines) : cut.lines[i] # <<>>
               /\ Rising(Append(s \o cut.lines, cut.rest))
               /\ UpTo(Append(s \o cut.lines, cut.rest), d)
  <1> DEFINE a == Append(s, c)
             p == c \o r
             n == Len(s)
             t == Append(Cut(p).lines, Cut(p).rest)
  <1>1. /\ n \in Nat /\ Len(c) \in Nat /\ Len(r) \in Nat
        /\ DOMAIN s = 1 .. n /\ DOMAIN c = 1 .. Len(c) /\ DOMAIN r = 1 .. Len(r)
        /\ DOMAIN a = 1 .. n + 1 /\ a[n + 1] = c /\ \A i \in 1 .. n : a[i] = s[i]
        /\ n + 1 \in DOMAIN a /\ \A i \in 1 .. n : i \in DOMAIN a /\ i < n + 1
    BY DEF Text
  <1>2. /\ \A x \in DOMAIN c : c[x] \in Nat /\ c[x] <= b
        /\ InOrder(c)
        /\ \A i \in DOMAIN s : \A x \in DOMAIN s[i] :
              /\ s[i][x] \in Nat /\ s[i][x] <= b
              /\ \A y \in DOMAIN c : s[i][x] < c[y]
    <2>1. \A x \in DOMAIN c : c[x] \in Nat /\ c[x] <= b
      <3>1. \A x \in DOMAIN a[n + 1] : a[n + 1][x] <= b
        BY <1>1, Zenon DEF UpTo
      <3>2. \A x \in DOMAIN c : c[x] \in Nat
        OBVIOUS
      <3> QED
        BY <3>1, <3>2, <1>1, Zenon
    <2>2. InOrder(c)
      BY <1>1 DEF Rising, InOrder
    <2>3. ASSUME NEW i \in DOMAIN s, NEW x \in DOMAIN s[i]
          PROVE  /\ s[i][x] \in Nat /\ s[i][x] <= b
                 /\ \A y \in DOMAIN c : s[i][x] < c[y]
      <3>1. i \in DOMAIN a /\ a[i] = s[i] /\ i < n + 1
        BY <1>1
      <3>2. s[i][x] <= b
        BY <3>1 DEF UpTo
      <3>3. \A y \in DOMAIN c : s[i][x] < c[y]
        BY <3>1, <1>1 DEF Rising
      <3>4. s[i] \in Seq(Nat)
        BY DEF Text
      <3> QED
        BY <3>2, <3>3, <3>4
    <2> QED
      BY <2>1, <2>2, <2>3
  <1> HIDE DEF a
  <1>3. /\ p \in Seq(Nat) /\ Len(p) = Len(c) + Len(r) /\ DOMAIN p = 1 .. Len(c) + Len(r)
        /\ \A i \in 1 .. Len(c) + Len(r) : p[i] = IF i <= Len(c) THEN c[i] ELSE r[i - Len(c)]
    BY <1>1, ConcatProperties
  <1> HIDE DEF p
  <1>4. \A i \in DOMAIN p :
           \/ i \in DOMAIN c /\ p[i] = c[i]
           \/ i > Len(c) /\ i - Len(c) \in DOMAIN r /\ p[i] = r[i - Len(c)]
    BY <1>1, <1>3, SMTT(40)
  <1>5. \A i \in DOMAIN p : p[i] \in Nat /\ p[i] <= d
    <2>1. \A x \in DOMAIN r : r[x] \in Nat
      OBVIOUS
    <2> QED
      BY <2>1, <1>2, <1>4
  <1>6. ASSUME NEW i \in DOMAIN p, NEW j \in DOMAIN p, i < j PROVE p[i] < p[j]
    <2>1. CASE j \in DOMAIN c /\ p[j] = c[j]
      <3>1. i \in DOMAIN c /\ p[i] = c[i]
        BY <2>1, <1>1, <1>3, <1>4, <1>6
      <3> QED
        BY <2>1, <3>1, <1>2, <1>6 DEF InOrder
    <2>2. CASE j > Len(c) /\ j - Len(c) \in DOMAIN r /\ p[j] = r[j - Len(c)]
      <3>1. CASE i \in DOMAIN c /\ p[i] = c[i]
        <4>1. c[i] \in Nat /\ c[i] <= b /\ b < r[j - Len(c)] /\ r[j - Len(c)] \in Nat
          BY <2>2, <3>1, <1>2
        <4> QED
          BY <4>1, <2>2, <3>1
      <3>2. CASE i > Len(c) /\ i - Len(c) \in DOMAIN r /\ p[i] = r[i - Len(c)]
        <4>1. i - Len(c) < j - Len(c)
          BY <1>1, <1>3, <1>6
        <4> QED
          BY <4>1, <2>2, <3>2 DEF InOrder
      <3> QED
        BY <3>1, <3>2, <1>4
    <2> QED
      BY <2>1, <2>2, <1>4
  <1>7. InOrder(p)
    BY <1>6 DEF InOrder
  <1>8. /\ Cut(p).lines \in Text /\ Cut(p).rest \in Seq(Nat)
        /\ \A i \in 1 .. Len(Cut(p).lines) : Cut(p).lines[i] # <<>>
        /\ \A i \in DOMAIN t : \A x \in DOMAIN t[i] : \E y \in DOMAIN p : t[i][x] = p[y]
        /\ Rising(t)
    BY <1>3, <1>7, CutText
  <1>9. t \in Text
    <2>1. Cut(p).lines \in Seq(Seq(Nat)) /\ Cut(p).rest \in Seq(Nat)
      BY <1>8 DEF Text
    <2>2. Append(Cut(p).lines, Cut(p).rest) \in Seq(Seq(Nat))
      BY <2>1, AppendProperties
    <2> QED
      BY <2>2 DEF Text
  <1>10. Append(s \o Cut(p).lines, Cut(p).rest) = s \o t
    BY <1>8, AppendLast
  <1> HIDE DEF t
  <1>11. Rising(s)
    <2>1. \A i \in DOMAIN s : i \in DOMAIN a /\ a[i] = s[i]
      BY <1>1
    <2> QED
      BY <2>1 DEF Rising, a
  <1>12. \A i \in DOMAIN s, x \in DOMAIN p : \A y \in DOMAIN s[i] : s[i][y] < p[x]
    <2> SUFFICES ASSUME NEW i \in DOMAIN s, NEW x \in DOMAIN p, NEW y \in DOMAIN s[i]
                 PROVE  s[i][y] < p[x]
      OBVIOUS
    <2>1. s[i][y] \in Nat /\ s[i][y] <= b /\ \A z \in DOMAIN c : s[i][y] < c[z]
      BY <1>2
    <2>2. CASE x \in DOMAIN c /\ p[x] = c[x]
      BY <2>1, <2>2
    <2>3. CASE x - Len(c) \in DOMAIN r /\ p[x] = r[x - Len(c)]
      <3>1. b < p[x]
        BY <2>3
      <3> QED
        BY <2>1, <3>1, <1>5
    <2> QED
      BY <2>2, <2>3, <1>4
  <1>13. \A i \in DOMAIN s, j \in DOMAIN t : \A x \in DOMAIN s[i], y \in DOMAIN t[j] :
              s[i][x] < t[j][y]
    BY <1>8, <1>12
  <1>14. Rising(s \o t)
    BY <1>8, <1>9, <1>11, <1>13, RisingConcat
  <1>15. UpTo(s \o t, d)
    <2> SUFFICES ASSUME NEW i \in DOMAIN (s \o t), NEW x \in DOMAIN (s \o t)[i]
                 PROVE  (s \o t)[i][x] <= d
      BY DEF UpTo
    <2>1. \/ i \in DOMAIN s /\ (s \o t)[i] = s[i]
          \/ i - n \in DOMAIN t /\ (s \o t)[i] = t[i - n]
      BY <1>1, <1>9 DEF Text
    <2>2. CASE i \in DOMAIN s /\ (s \o t)[i] = s[i]
      BY <2>2, <1>2
    <2>3. CASE i - n \in DOMAIN t /\ (s \o t)[i] = t[i - n]
      BY <2>3, <1>5, <1>8
    <2> QED
      BY <2>1, <2>2, <2>3
  <1> QED
    BY <1>8, <1>10, <1>14, <1>15 DEF p

\* A line that is taken is not empty, and a text of such lines keeps that in a part.
GoodText(t, b) ==
    /\ t \in Text /\ Rising(t) /\ UpTo(t, b)
    /\ \A i \in 1 .. Len(t) : t[i] # <<>>

LEMMA GoodSub ==
    ASSUME NEW t, NEW b, GoodText(t, b), NEW m \in 1 .. Len(t) + 1, NEW n \in 0 .. Len(t)
    PROVE  GoodText(SubSeq(t, m, n), b)
  <1> DEFINE s == SubSeq(t, m, n)
  <1>1. t \in Text /\ Rising(t) /\ t \in Seq(Seq(Nat)) /\ Len(t) \in Nat
    BY DEF GoodText, Text
  <1>2. s \in Text /\ Rising(s)
    BY <1>1, RisingSubSeq
  <1>3. /\ Len(s) = IF m <= n THEN n - m + 1 ELSE 0
        /\ \A i \in 1 .. n - m + 1 : s[i] = t[m + i - 1]
    <2>1. m \in Int /\ n \in Int /\ \A i \in m .. n : t[i] \in Seq(Nat)
      BY <1>1
    <2> QED
      BY <2>1, SubSeqProperties
  <1>4. DOMAIN t = 1 .. Len(t) /\ DOMAIN s = 1 .. Len(s)
    BY <1>1, <1>2 DEF Text
  <1> HIDE DEF s
  <1>5. \A i \in DOMAIN s : m + i - 1 \in DOMAIN t /\ s[i] = t[m + i - 1]
    <2> SUFFICES ASSUME NEW i \in DOMAIN s PROVE m + i - 1 \in DOMAIN t /\ s[i] = t[m + i - 1]
      OBVIOUS
    <2>1. i \in 1 .. n - m + 1 /\ m + i - 1 \in 1 .. Len(t)
      BY <1>1, <1>3, <1>4, SMTT(40)
    <2> QED
      BY <2>1, <1>3, <1>4
  <1>6. UpTo(s, b) /\ \A i \in 1 .. Len(s) : s[i] # <<>>
    BY <1>4, <1>5 DEF GoodText, UpTo
  <1> QED
    BY <1>2, <1>6 DEF GoodText, s

\* What was sent is in order whatever is kept of the last, partial line.
LEMMA LastDropped ==
    ASSUME NEW s \in Text, NEW b \in Int
    PROVE  /\ Append(s, <<>>) \in Text
           /\ Rising(s) => Rising(Append(s, <<>>))
           /\ UpTo(s, b) => UpTo(Append(s, <<>>), b)
           /\ \A c \in Seq(Nat) : Rising(Append(s, c)) => Rising(s)
           /\ \A c \in Seq(Nat) : UpTo(Append(s, c), b) => UpTo(s, b)
  <1>1. s \in Seq(Seq(Nat)) /\ <<>> \in Seq(Nat) /\ Len(s) \in Nat /\ DOMAIN s = 1 .. Len(s)
    BY DEF Text
  <1>2. \A c \in Seq(Nat) :
           /\ Append(s, c) \in Seq(Seq(Nat)) /\ DOMAIN Append(s, c) = 1 .. Len(s) + 1
           /\ Append(s, c)[Len(s) + 1] = c
           /\ \A i \in 1 .. Len(s) : Append(s, c)[i] = s[i]
    BY <1>1
  <1>3. \A i \in 1 .. Len(s) + 1 : i \in 1 .. Len(s) \/ i = Len(s) + 1
    BY <1>1
  <1>4. \A i \in 1 .. Len(s) : i \in 1 .. Len(s) + 1
    BY <1>1
  <1>5. \A i \in DOMAIN Append(s, <<>>) : \A x \in DOMAIN Append(s, <<>>)[i] :
           i \in DOMAIN s /\ Append(s, <<>>)[i] = s[i]
    <2>1. DOMAIN <<>> = {}
      OBVIOUS
    <2> QED
      BY <2>1, <1>1, <1>2, <1>3
  <1>6. \A c \in Seq(Nat) : \A i \in DOMAIN s : i \in DOMAIN Append(s, c) /\ Append(s, c)[i] = s[i]
    BY <1>1, <1>2, <1>4
  <1>7. Append(s, <<>>) \in Text
    BY <1>1, <1>2 DEF Text
  <1>8. Rising(s) => Rising(Append(s, <<>>))
    BY <1>5, Zenon DEF Rising
  <1>9. UpTo(s, b) => UpTo(Append(s, <<>>), b)
    BY <1>5, Zenon DEF UpTo
  <1>10. \A c \in Seq(Nat) : Rising(Append(s, c)) => Rising(s)
    BY <1>6, Zenon DEF Rising
  <1>11. \A c \in Seq(Nat) : UpTo(Append(s, c), b) => UpTo(s, b)
    BY <1>6, Zenon DEF UpTo
  <1> QED
    BY <1>7, <1>8, <1>9, <1>10, <1>11

\* The backfill is a part of the file.
LEMMA LastLinesText ==
    ASSUME LogTypeOK, NEW n \in Nat \ {0}
    PROVE  GoodText(LastLines(n), written)
  <1> DEFINE p == Pieces(fileFrom, written)
             cut == Cut(p)
             t == Append(cut.lines, cut.rest)
             all == IF cut.rest = <<>> THEN cut.lines ELSE t
  <1>1. fileFrom \in Nat /\ written \in Nat /\ fileFrom <= written
    BY DEF LogTypeOK
  <1>2. /\ p \in Seq(Nat) /\ InOrder(p)
        /\ \A y \in DOMAIN p : p[y] <= written
    <2>1. /\ DOMAIN p = 1 .. written - fileFrom
          /\ \A i \in 1 .. written - fileFrom : p[i] = fileFrom + i
      BY <1>1, RunText
    <2>2. p \in Seq(Nat) /\ InOrder(p)
      BY <1>1, RunText
    <2> HIDE DEF p
    <2> QED
      BY <1>1, <2>1, <2>2
  <1> HIDE DEF p
  <1>3. /\ cut.lines \in Text /\ cut.rest \in Seq(Nat) /\ Rising(t)
        /\ \A i \in 1 .. Len(cut.lines) : cut.lines[i] # <<>>
        /\ \A i \in DOMAIN t : \A x \in DOMAIN t[i] : \E y \in DOMAIN p : t[i][x] = p[y]
    BY <1>2, CutText
  <1>4. UpTo(t, written)
    BY <1>2, <1>3 DEF UpTo
  <1> HIDE DEF cut
  <1>5. /\ t \in Text /\ Len(t) = Len(cut.lines) + 1 /\ t[Len(cut.lines) + 1] = cut.rest
        /\ \A i \in 1 .. Len(cut.lines) : t[i] = cut.lines[i]
        /\ Len(cut.lines) \in Nat
    BY <1>3 DEF Text
  <1>6. Rising(cut.lines) /\ UpTo(cut.lines, written)
    <2>1. written \in Int
      BY <1>1
    <2> QED
      BY <1>3, <1>4, <2>1, LastDropped
  <1> HIDE DEF t
  <1>7. GoodText(all, written)
    <2>1. CASE cut.rest = <<>>
      BY <2>1, <1>3, <1>6 DEF GoodText
    <2>2. CASE cut.rest # <<>>
      <3>1. \A i \in 1 .. Len(t) : t[i] # <<>>
        BY <2>2, <1>3, <1>5
      <3> QED
        BY <2>2, <3>1, <1>3, <1>4, <1>5 DEF GoodText
    <2> QED
      BY <2>1, <2>2
  <1>8. LastLines(n) = IF ~inPlace THEN <<>>
                       ELSE IF Len(all) <= n THEN all ELSE SubSeq(all, Len(all) - n + 1, Len(all))
    BY DEF LastLines, cut, t, p
  <1> HIDE DEF all
  <1>9. Len(all) \in Nat
    BY <1>7 DEF GoodText, Text
  <1>10. CASE ~inPlace
    BY <1>8, <1>10 DEF GoodText, Text, Rising, UpTo
  <1>11. CASE inPlace /\ Len(all) <= n
    BY <1>7, <1>8, <1>11
  <1>12. CASE inPlace /\ ~(Len(all) <= n)
    <2>1. Len(all) - n + 1 \in 1 .. Len(all) + 1 /\ Len(all) \in 0 .. Len(all)
      BY <1>9, <1>12
    <2>2. GoodText(SubSeq(all, Len(all) - n + 1, Len(all)), written)
      BY <1>7, <2>1, GoodSub
    <2> QED
      BY <1>8, <1>12, <2>2
  <1> QED
    BY <1>10, <1>11, <1>12

\* What is streamed after the old lines of the log is streamed as its new ones.
LEMMA StreamedMore ==
    ASSUME NEW s \in Text, NEW old \in Text, NEW new \in Text, StreamedOf(s, old)
    PROVE  StreamedOf(s \o new, old \o new)
  <1> DEFINE k == Len(s) - Len(old)
             all == s \o new
             lines == old \o new
  <1>1. /\ Len(s) \in Nat /\ Len(old) \in Nat /\ Len(new) \in Nat
        /\ s \in Seq(Seq(Nat)) /\ old \in Seq(Seq(Nat)) /\ new \in Seq(Seq(Nat))
    BY DEF Text
  <1>2. /\ k >= 0 /\ \A i \in 1 .. k : s[i][1] <= startAt
        /\ \A i \in 1 .. Len(old) : s[k + i] = old[i]
    BY DEF StreamedOf
  <1>3. /\ Len(all) = Len(s) + Len(new)
        /\ \A i \in 1 .. Len(s) + Len(new) :
              all[i] = IF i <= Len(s) THEN s[i] ELSE new[i - Len(s)]
    BY <1>1, ConcatProperties
  <1>4. /\ Len(lines) = Len(old) + Len(new)
        /\ \A i \in 1 .. Len(old) + Len(new) :
              lines[i] = IF i <= Len(old) THEN old[i] ELSE new[i - Len(old)]
    BY <1>1, ConcatProperties
  <1>5. k \in Nat /\ k + Len(old) = Len(s) /\ Len(all) - Len(lines) = k
    BY <1>1, <1>2, <1>3, <1>4
  <1> HIDE DEF k, all, lines
  <1>6. ASSUME NEW i \in 1 .. k PROVE all[i][1] <= startAt
    <2>1. i \in 1 .. Len(s) + Len(new) /\ i <= Len(s)
      BY <1>1, <1>5
    <2>2. all[i] = s[i]
      BY <1>3, <2>1
    <2> QED
      BY <1>2, <2>2
  <1>7. ASSUME NEW i \in 1 .. Len(lines) PROVE all[k + i] = lines[i]
    <2>1. /\ i \in 1 .. Len(old) + Len(new) /\ k + i \in 1 .. Len(s) + Len(new)
          /\ k + i <= Len(s) <=> i <= Len(old)
          /\ (k + i) - Len(s) = i - Len(old)
          /\ i <= Len(old) => i \in 1 .. Len(old)
      <3>1. /\ i \in Int /\ 1 <= i /\ i <= Len(old) + Len(new)
            /\ k \in Nat /\ k + Len(old) = Len(s)
        BY <1>1, <1>4, <1>5
      <3>2. /\ Len(s) \in Nat /\ Len(old) \in Nat /\ Len(new) \in Nat
        BY <1>1
      <3>3. \A u, v, w, x, y \in Int :
               1 <= y /\ y <= v + w /\ x >= 0 /\ v >= 0 /\ u >= 0 /\ w >= 0 /\ x + v = u =>
               /\ y \in 1 .. v + w /\ x + y \in 1 .. u + w
               /\ x + y <= u <=> y <= v
               /\ (x + y) - u = y - v
               /\ y <= v => y \in 1 .. v
        OBVIOUS
      <3>4. k >= 0 /\ Len(old) >= 0 /\ Len(s) >= 0 /\ Len(new) >= 0 /\ k \in Int
            /\ Len(s) \in Int /\ Len(old) \in Int /\ Len(new) \in Int
        BY <3>1, <3>2
      <3> QED
        BY <3>1, <3>3, <3>4, Zenon
    <2>2. all[k + i] = IF i <= Len(old) THEN s[k + i] ELSE new[i - Len(old)]
      <3>1. PICK j : j = k + i
        OBVIOUS
      <3>2. j \in 1 .. Len(s) + Len(new)
        BY <2>1, <3>1
      <3>3. all[j] = IF j <= Len(s) THEN s[j] ELSE new[j - Len(s)]
        BY <1>3, <3>2, Zenon
      <3>4. j <= Len(s) <=> i <= Len(old)
        BY <2>1, <3>1
      <3>5. j - Len(s) = i - Len(old)
        BY <2>1, <3>1, Zenon
      <3>6. all[j] = IF i <= Len(old) THEN s[j] ELSE new[i - Len(old)]
        BY <3>3, <3>4, <3>5, Zenon
      <3> QED
        BY <3>1, <3>6
    <2>3. lines[i] = IF i <= Len(old) THEN old[i] ELSE new[i - Len(old)]
      BY <1>4, <2>1
    <2>4. i <= Len(old) => s[k + i] = old[i]
      BY <1>2, <2>1
    <2> QED
      BY <2>2, <2>3, <2>4
  <1>8. k >= 0
    BY <1>5
  <1> QED
    BY <1>5, <1>6, <1>7, <1>8 DEF StreamedOf, all, lines

LEMMA CutNothing ==
    Cut(<<>>).lines = <<>> /\ Cut(<<>>).rest = <<>>
  <1>1. /\ Len(Cut(Pieces(0, 0)).lines) = 0 \div 2 - 0 \div 2
        /\ Cut(Pieces(0, 0)).lines \in Text
        /\ Cut(Pieces(0, 0)).rest = Pieces(RunRest(0, 0), 0)
    BY RunCut
  <1>2. RunRest(0, 0) = 0 /\ Pieces(0, 0) = <<>>
    BY RunText DEF RunRest
  <1>3. Len(Cut(<<>>).lines) = 0 /\ Cut(<<>>).lines \in Seq(Seq(Nat))
    BY <1>1, <1>2 DEF Text
  <1> QED
    BY <1>1, <1>2, <1>3, EmptySeq
-----------------------------------------------------------------------------
(* The log view: the steps *)

LEMMA LogInitInv ==
    ASSUME LogAssumption, LogInit
    PROVE  LogInv
  <1>1. LogTypeOK
    <2>1. <<>> \in Text /\ <<>> \in Seq(Nat)
      BY DEF Text
    <2>2. /\ written \in Nat /\ fileFrom \in Nat /\ fileFrom <= written
          /\ rotations \in Nat /\ startRot \in Nat /\ startRot <= rotations
          /\ offset \in Nat /\ statSize \in Nat /\ startAt \in Nat
      BY DEF LogInit
    <2>3. /\ inPlace \in BOOLEAN /\ ctxDone \in BOOLEAN
          /\ tpc \in TailPoints /\ hpc \in {"serving", "returned"}
      BY DEF LogInit, TailPoints
    <2>4. /\ carry \in Seq(Nat) /\ out \in Text /\ channel \in Text /\ shown \in Text
      BY <2>1 DEF LogInit
    <2> QED
      BY <2>2, <2>3, <2>4 DEF LogTypeOK
  <1>0. TailInv /\ ~Following /\ ~Reading
    BY DEF LogInit, TailInv, Following, Reading
  <1>2. Sent = <<>> /\ Taken = <<<<>>>>
    BY DEF LogInit, Sent, Taken
  <1>3. OrderInv
    BY <1>0, <1>2 DEF OrderInv, Rising, UpTo
  <1> QED
    BY <1>0, <1>1, <1>3 DEF LogInv

\* What a step that leaves the taken lines alone has to show.
LEMMA TextFacts ==
    ASSUME LogTypeOK
    PROVE  /\ Sent \in Text /\ Taken \in Text /\ carry \in Seq(Nat)
           /\ written \in Nat /\ fileFrom \in Nat /\ offset \in Nat /\ Size \in Nat
           /\ startAt \in Nat /\ fileFrom <= written /\ fileFrom + offset \in Nat
           /\ Taken = Append(Sent, carry)
  BY SentText DEF LogTypeOK, Taken, Size

LEMMA LogWriteInv ==
    ASSUME LogInv, LogWrite
    PROVE  LogInv'
  <1> USE DEF LogWrite, tailVars, viewVars
  <1>1. LogTypeOK' /\ TailInv'
    BY DEF LogInv, LogTypeOK, TailInv
  <1>2. Sent' = Sent /\ Taken' = Taken
    BY DEF Sent, Taken
  <1>3. ASSUME hpc' = "serving" PROVE OrderInv'
    <2>1. OrderInv /\ LogTypeOK
      BY <1>3 DEF LogInv
    <2>2. UpTo(Taken, written')
      BY <2>1, TextFacts, UpToMore, SMTT(40) DEF OrderInv
    <2>3. offset > Size' => offset > Size
      BY <2>1, TextFacts DEF Size
    <2> QED
      BY <1>2, <2>1, <2>2, <2>3 DEF OrderInv, UpTo, Reading
  <1>4. ASSUME Following' PROVE StreamInv'
    <2>1. StreamInv /\ LogTypeOK
      BY <1>4 DEF LogInv, Following
    <2>2. startAt <= written' /\ fileFrom + offset <= written'
      BY <2>1, TextFacts DEF StreamInv
    <2> QED
      BY <1>2, <2>1, <2>2 DEF StreamInv, StreamedOf
  <1> QED
    BY <1>1, <1>3, <1>4 DEF LogInv

LEMMA LogRotateInv ==
    ASSUME LogInv, LogRotate
    PROVE  LogInv'
  <1> USE DEF LogRotate, tailVars, viewVars
  <1>0. ~Following' /\ rotations' \in Nat /\ startRot' <= rotations'
    <2>1. rotations \in Nat /\ startRot \in Nat /\ startRot <= rotations
      BY DEF LogInv, LogTypeOK
    <2>2. rotations' = rotations + 1 /\ startRot' = startRot
      OBVIOUS
    <2>3. rotations' # startRot' /\ rotations' \in Nat /\ startRot' <= rotations'
      BY <2>1, <2>2
    <2> QED
      BY <2>3 DEF Following
  <1>1. LogTypeOK' /\ TailInv'
    BY <1>0 DEF LogInv, LogTypeOK, TailInv
  <1>2. Sent' = Sent /\ Taken' = Taken
    BY DEF Sent, Taken
  <1>3. ASSUME hpc' = "serving" PROVE OrderInv'
    BY <1>2, <1>3 DEF LogInv, OrderInv, UpTo
  <1> QED
    BY <1>0, <1>1, <1>3 DEF LogInv

LEMMA LogCreateInv ==
    ASSUME LogInv, LogCreate
    PROVE  LogInv'
  <1> USE DEF LogCreate, tailVars, viewVars
  <1>1. LogTypeOK' /\ TailInv'
    BY DEF LogInv, LogTypeOK, TailInv
  <1>2. Sent' = Sent /\ Taken' = Taken
    BY DEF Sent, Taken
  <1>3. LogTypeOK
    BY DEF LogInv
  <1>4. ASSUME hpc' = "serving" PROVE OrderInv'
    <2>1. OrderInv /\ UpTo(Taken, written)
      BY <1>4 DEF LogInv, OrderInv
    <2>2. written <= written + offset
      BY <1>3, TextFacts
    <2>3. UpTo(Taken, written + offset)
      BY <1>3, <2>1, <2>2, TextFacts, UpToMore
    <2> QED
      BY <1>2, <2>1, <2>3 DEF OrderInv, UpTo
  <1>5. ASSUME Following' PROVE StreamInv'
    <2>1. StreamInv
      BY <1>5 DEF LogInv, Following
    <2>2. offset = 0 /\ written = startAt /\ fileFrom' + offset = written /\ fileFrom + offset <= written
      BY <1>3, <2>1, TextFacts DEF StreamInv
    <2>3. Pieces(startAt, fileFrom + offset) = Pieces(startAt, fileFrom' + offset)
      <3>1. startAt \in Nat /\ fileFrom + offset \in Nat /\ fileFrom' + offset \in Nat
            /\ fileFrom + offset <= startAt /\ fileFrom' + offset <= startAt
        BY <1>3, <2>2, TextFacts
      <3> QED
        BY <3>1, RunText
    <2>4. startAt <= written /\ startAt <= fileFrom' + offset /\ fileFrom' + offset <= written
      BY <1>3, <2>2, TextFacts
    <2>5. LET cut == Cut(Pieces(startAt, fileFrom' + offset))
          IN  StreamedOf(Sent, cut.lines) /\ carry = cut.rest
      BY <2>1, <2>3 DEF StreamInv
    <2> QED
      BY <1>2, <2>4, <2>5 DEF StreamInv, StreamedOf
  <1> QED
    BY <1>1, <1>4, <1>5 DEF LogInv

LEMMA ReadBackfillInv ==
    ASSUME LogAssumption, LogInv, ReadBackfill
    PROVE  LogInv'
  <1> USE DEF ReadBackfill, caddyVars, viewVars
  <1>1. /\ LogTypeOK /\ shown = <<>> /\ channel = <<>> /\ out = <<>> /\ carry = <<>>
        /\ written \in Int /\ Backfill \in Nat \ {0}
    BY DEF LogInv, TailInv, LogTypeOK, LogAssumption
  <1>2. ~Following' /\ ~Reading'
    BY DEF Following, Reading
  <1>3. out' \in Text /\ Rising(Append(out', <<>>)) /\ UpTo(Append(out', <<>>), written)
        /\ \A i \in 1 .. Len(out') : out'[i] # <<>>
    <2>1. CASE out' = LastLines(Backfill)
      <3>1. GoodText(out', written)
        BY <1>1, <2>1, LastLinesText
      <3> QED
        BY <1>1, <3>1, LastDropped DEF GoodText
    <2>2. CASE out' = out
      BY <1>1, <2>2 DEF Text, Rising, UpTo
    <2> QED
      BY <2>1, <2>2
  <1>4. LogTypeOK'
    BY <1>1, <1>3 DEF LogTypeOK, TailPoints
  <1>5. TailInv'
    BY <1>1 DEF TailInv
  <1>6. Sent' = out' /\ Taken' = Append(out', <<>>)
    <2>1. \A t \in Seq(Seq(Nat)) : (<<>> \o <<>>) \o t = t
      OBVIOUS
    <2>2. Sent' = out'
      BY <1>1, <1>3, <2>1 DEF Sent, Text
    <2> QED
      BY <1>1, <2>2 DEF Taken
  <1>7. OrderInv'
    BY <1>2, <1>3, <1>6 DEF OrderInv, UpTo
  <1> QED
    BY <1>2, <1>4, <1>5, <1>7 DEF LogInv

\* A step that changes neither the log nor the place of the tailer in it.
LEMMA SameText ==
    ASSUME LogInv, Sent' = Sent, carry' = carry, UNCHANGED caddyVars, offset' = offset,
           startAt' = startAt, startRot' = startRot,
           hpc' = "serving" => hpc = "serving", Reading' => Reading
    PROVE  /\ hpc' = "serving" => OrderInv'
           /\ Following' => StreamInv'
  <1> USE DEF caddyVars
  <1>1. Taken' = Taken
    BY DEF Taken
  <1>2. Following' => Following
    BY DEF Following, Reading
  <1>3. ASSUME hpc' = "serving" PROVE OrderInv'
    BY <1>1, <1>3 DEF LogInv, OrderInv, UpTo, Size
  <1>4. ASSUME Following' PROVE StreamInv'
    <2>1. StreamInv
      BY <1>2, <1>4 DEF LogInv
    <2> QED
      BY <2>1 DEF StreamInv, StreamedOf
  <1> QED
    BY <1>3, <1>4

LEMMA SendLineInv ==
    ASSUME LogInv, SendLine
    PROVE  LogInv'
  <1> USE DEF SendLine, caddyVars, viewVars
  <1>1. channel \in Text /\ out \in Text /\ shown \in Text /\ out # <<>>
    BY DEF LogInv, LogTypeOK
  <1>2. Append(channel, Head(out)) \in Text /\ Tail(out) \in Text
    <2>1. \A s, t \in Seq(Seq(Nat)) : t # <<>> =>
             Append(s, Head(t)) \in Seq(Seq(Nat)) /\ Tail(t) \in Seq(Seq(Nat))
      BY Moves, Zenon
    <2> QED
      BY <1>1, <2>1, Zenon DEF Text
  <1>3. Sent' = Sent
    BY <1>1, SentSame DEF Sent
  <1>4. LogTypeOK' /\ TailInv'
    BY <1>2 DEF LogInv, LogTypeOK, TailInv, Sending
  <1>5. (hpc' = "serving" => OrderInv') /\ (Following' => StreamInv')
    BY <1>3, SameText DEF Reading
  <1> QED
    BY <1>4, <1>5 DEF LogInv

LEMMA TakeOffsetInv ==
    ASSUME LogInv, TakeOffset
    PROVE  LogInv'
  <1> USE DEF TakeOffset, caddyVars, viewVars
  <1>1. /\ LogTypeOK /\ carry = <<>> /\ out = <<>>
    BY DEF LogInv, TailInv
  <1>2. /\ Sent \in Text /\ Sent \in Seq(Seq(Nat)) /\ Len(Sent) \in Nat
        /\ written \in Nat /\ fileFrom \in Nat /\ fileFrom <= written
        /\ Size \in Nat /\ fileFrom + Size = written
    <2>1. /\ Sent \in Text /\ written \in Nat /\ fileFrom \in Nat /\ fileFrom <= written
          /\ Size \in Nat
      BY <1>1, TextFacts
    <2>2. fileFrom + Size = written
      BY <2>1 DEF Size
    <2>3. \A s \in Seq(Seq(Nat)) : Len(s) \in Nat
      OBVIOUS
    <2> QED
      BY <2>1, <2>2, <2>3 DEF Text
  <1>3. Sent' = Sent /\ Taken' = Taken /\ Size' = Size
    BY DEF Sent, Taken, Size
  <1>4. LogTypeOK'
    BY <1>1, <1>2 DEF LogTypeOK, TailPoints
  <1>5. TailInv'
    BY <1>1 DEF TailInv
  <1>6. inPlace => fileFrom' + offset' = written /\ offset' = Size
    BY <1>2
  <1>7. ASSUME hpc' = "serving" PROVE OrderInv'
    <2>1. OrderInv /\ UpTo(Taken, written)
      BY <1>7 DEF LogInv, OrderInv
    <2>2. inPlace => ~(offset' > Size')
      BY <1>2, <1>3, <1>6
    <2> QED
      BY <1>3, <1>6, <2>1, <2>2 DEF OrderInv, UpTo
  <1>8. ASSUME Following' PROVE StreamInv'
    <2>1. OrderInv /\ startAt' = written
      BY <1>8 DEF LogInv, Following
    <2>2. fileFrom + offset' \in Nat /\ fileFrom + offset' <= written
      BY <1>2, <1>6
    <2>3. Pieces(written, fileFrom + offset') = <<>>
      BY <1>2, <2>2, RunText
    <2>4. ASSUME NEW i \in 1 .. Len(Sent) PROVE Sent[i][1] <= written
      <3>1. i \in DOMAIN Taken /\ Taken[i] = Sent[i]
        <4>1. Taken = Append(Sent, carry) /\ carry \in Seq(Nat)
          BY <1>1, TextFacts
        <4>2. \A c \in Seq(Nat) : i \in DOMAIN Append(Sent, c) /\ Append(Sent, c)[i] = Sent[i]
          BY <1>2
        <4> QED
          BY <4>1, <4>2
      <3>2. Sent[i] \in Seq(Nat) /\ Sent[i] # <<>>
        BY <1>2, <2>1 DEF OrderInv
      <3>3. 1 \in DOMAIN Sent[i]
        BY <3>2, EmptySeq
      <3> QED
        BY <2>1, <3>1, <3>3 DEF OrderInv, UpTo
    <2>5. /\ Len(Sent) - Len(<<>>) = Len(Sent) /\ Len(Sent) >= 0
          /\ 1 .. Len(<<>>) = {}
      BY <1>2
    <2>6. LET cut == Cut(Pieces(startAt', fileFrom' + offset'))
          IN  cut.lines = <<>> /\ cut.rest = <<>>
      BY <2>1, <2>3, CutNothing
    <2>7. StreamedOf(Sent, <<>>)'
      BY <1>3, <2>1, <2>4, <2>5 DEF StreamedOf
    <2>8. startAt' <= written' /\ (~inPlace' => offset' = 0 /\ written' = startAt')
      BY <1>2
    <2>9. inPlace' => startAt' <= fileFrom' + offset' /\ fileFrom' + offset' <= written'
      BY <1>2, <1>6
    <2> QED
      BY <1>1, <1>3, <2>6, <2>7, <2>8, <2>9 DEF StreamInv
  <1> QED
    BY <1>4, <1>5, <1>7, <1>8 DEF LogInv

LEMMA TailTickInv ==
    ASSUME LogInv, TailTick
    PROVE  LogInv'
  <1> USE DEF TailTick, caddyVars, viewVars
  <1>1. /\ LogTypeOK /\ out = <<>>
    BY DEF LogInv, TailInv
  <1>2. /\ Sent \in Text /\ Taken = Append(Sent, carry) /\ carry \in Seq(Nat)
        /\ written \in Nat /\ fileFrom \in Nat /\ fileFrom <= written
        /\ Size \in Nat /\ fileFrom + Size = written /\ offset \in Nat
    BY <1>1, TextFacts DEF Size
  <1>3. Sent' = Sent /\ Size' = Size /\ Taken' = Append(Sent, carry')
    BY DEF Sent, Taken, Size
  <1>4. LogTypeOK'
    BY <1>1, <1>2 DEF LogTypeOK, TailPoints
  <1>5. TailInv'
    BY <1>1 DEF TailInv
  <1>6. CASE Size < offset
    <2>1. offset' = 0 /\ carry' = <<>> /\ offset > Size
      BY <1>2, <1>6
    <2>2. ~Following
      <3>1. Following => fileFrom + offset <= written
        BY DEF LogInv, StreamInv
      <3> QED
        BY <1>2, <1>6, <3>1
    <2>3. ~Following'
      BY <2>2 DEF Following
    <2>4. ASSUME hpc' = "serving" PROVE OrderInv'
      <3>1. OrderInv
        BY <2>4 DEF LogInv
      <3>2. Rising(Taken) /\ UpTo(Taken, fileFrom)
        BY <3>1, <2>1 DEF OrderInv, Reading
      <3>3. Rising(Taken') /\ UpTo(Taken', fileFrom) /\ Taken' \in Text
        BY <1>2, <1>3, <2>1, <3>2, LastDropped
      <3>4. UpTo(Taken', written)
        BY <1>2, <3>3, UpToMore
      <3>5. fileFrom' + offset' = fileFrom /\ ~(offset' > Size')
        BY <1>2, <1>3, <2>1
      <3> QED
        BY <1>3, <3>1, <3>3, <3>4, <3>5 DEF OrderInv, UpTo
    <2> QED
      BY <1>4, <1>5, <2>3, <2>4 DEF LogInv
  <1>7. CASE ~(Size < offset)
    <2>1. (hpc' = "serving" => OrderInv') /\ (Following' => StreamInv')
      BY <1>3, <1>7, SameText DEF Reading
    <2> QED
      BY <1>4, <1>5, <2>1 DEF LogInv
  <1> QED
    BY <1>6, <1>7

\* What TailRead takes from the file, as a run of the log from the offset on.
WillRead == IF fileFrom + offset < written THEN ReadNow ELSE <<>>

LEMMA ReadIsRun ==
    ASSUME LogTypeOK
    PROVE  /\ WillRead \in Seq(Nat) /\ InOrder(WillRead) /\ Len(WillRead) \in Nat
           /\ WillRead = Pieces(fileFrom + offset, fileFrom + offset + Len(WillRead))
           /\ \A x \in DOMAIN WillRead :
                 /\ fileFrom + offset < WillRead[x]
                 /\ WillRead[x] <= fileFrom + offset + Len(WillRead)
           /\ offset <= Size => fileFrom + offset + Len(WillRead) <= written
           /\ offset > Size => WillRead = <<>>
  <1> DEFINE from == fileFrom + offset
             to == LesserOf(fileFrom + statSize, written)
  <1>1. /\ from \in Nat /\ to \in Nat /\ to <= written
        /\ offset <= Size => from <= written
        /\ offset > Size => ~(from < written)
    BY DEF LogTypeOK, LesserOf, Size
  <1> HIDE DEF from, to
  <1>2. WillRead = IF from < written THEN Pieces(from, to) ELSE <<>>
    BY DEF WillRead, ReadNow, from, to
  <1>3. written \in Nat
    BY DEF LogTypeOK
  <1>4. /\ DOMAIN Pieces(from, to) = 1 .. to - from
        /\ \A i \in 1 .. to - from : Pieces(from, to)[i] = from + i
        /\ Pieces(from, to) \in Seq(Nat) /\ InOrder(Pieces(from, to))
        /\ from <= to => Len(Pieces(from, to)) = to - from
        /\ to <= from => Pieces(from, to) = <<>>
    BY <1>1, RunText
  <1>5. Pieces(from, from) = <<>>
    BY <1>1, RunText
  <1>6. CASE from < written /\ from < to
    <2>1. WillRead = Pieces(from, to) /\ Len(WillRead) = to - from
      BY <1>1, <1>2, <1>4, <1>6
    <2>2. from + Len(WillRead) = to /\ Len(WillRead) \in Nat
      BY <1>1, <1>6, <2>1
    <2>3. \A x \in 1 .. to - from : from < from + x /\ from + x <= to
      BY <1>1
    <2>4. WillRead \in Seq(Nat) /\ InOrder(WillRead) /\ WillRead = Pieces(from, from + Len(WillRead))
      BY <1>4, <2>1, <2>2
    <2>5. \A x \in DOMAIN WillRead : from < WillRead[x] /\ WillRead[x] <= from + Len(WillRead)
      BY <1>4, <2>1, <2>2, <2>3
    <2>6. ~(offset > Size)
      BY <1>1, <1>6
    <2> QED
      BY <1>1, <2>2, <2>4, <2>5, <2>6 DEF from
  <1>7. CASE ~(from < written /\ from < to)
    <2>1. WillRead = <<>>
      BY <1>1, <1>2, <1>4, <1>7
    <2>2. <<>> \in Seq(Nat) /\ Len(<<>>) = 0 /\ DOMAIN <<>> = {} /\ InOrder(<<>>)
      BY DEF InOrder
    <2>3. from + 0 = from
      BY <1>1
    <2> QED
      BY <1>1, <1>5, <2>1, <2>2, <2>3 DEF from
  <1> QED
    BY <1>6, <1>7

LEMMA GoodConcat ==
    ASSUME NEW s \in Text, NEW t \in Text,
           \A i \in 1 .. Len(s) : s[i] # <<>>, \A i \in 1 .. Len(t) : t[i] # <<>>
    PROVE  \A i \in 1 .. Len(s \o t) : (s \o t)[i] # <<>>
  <1>1. Len(s) \in Nat /\ Len(t) \in Nat /\ Len(s \o t) = Len(s) + Len(t)
    BY DEF Text
  <1>2. \A i \in 1 .. Len(s) + Len(t) :
           (s \o t)[i] = IF i <= Len(s) THEN s[i] ELSE t[i - Len(s)]
    BY DEF Text
  <1>3. \A i \in 1 .. Len(s) + Len(t) :
           i \in 1 .. Len(s) \/ (~(i <= Len(s)) /\ i - Len(s) \in 1 .. Len(t))
    BY <1>1
  <1>4. \A i \in 1 .. Len(s) : i <= Len(s)
    BY <1>1
  <1> QED
    BY <1>1, <1>2, <1>3, <1>4

LEMMA TailReadInv ==
    ASSUME LogInv, TailRead
    PROVE  LogInv'
  <1> USE DEF caddyVars, viewVars
  <1> DEFINE r == WillRead
             new == Cut(carry \o r)
             from == fileFrom + offset
             to == from + Len(r)
  <1>1. LogTypeOK /\ out = <<>> /\ tpc = "read"
    BY DEF LogInv, TailInv, TailRead
  <1>2. /\ Sent \in Text /\ Taken = Append(Sent, carry) /\ carry \in Seq(Nat)
        /\ written \in Nat /\ fileFrom \in Nat /\ fileFrom <= written
        /\ offset \in Nat /\ startAt \in Nat
        /\ shown \in Text /\ channel \in Text
    BY <1>1, TextFacts DEF LogTypeOK
  <1>3. /\ r \in Seq(Nat) /\ InOrder(r) /\ Len(r) \in Nat
        /\ r = Pieces(from, to)
        /\ \A x \in DOMAIN r : from < r[x] /\ r[x] <= to
        /\ offset <= Size => to <= written
        /\ offset > Size => r = <<>>
    BY <1>1, ReadIsRun
  <1>4. carry \o r \in Seq(Nat)
    BY <1>2, <1>3, ConcatProperties
  <1> HIDE DEF r
  <1>5. /\ new.lines \in Text /\ new.rest \in Seq(Nat)
        /\ \A i \in 1 .. Len(new.lines) : new.lines[i] # <<>>
    BY <1>4, CutText
  <1>6. from \in Nat /\ to \in Nat /\ from <= to /\ fileFrom + (offset + Len(r)) = to
    BY <1>2, <1>3
  <1>7. CASE inPlace /\ tpc' = "send"
    <2> USE <1>7
    <2>1. /\ offset' = offset + Len(r) /\ out' = new.lines /\ carry' = new.rest
          /\ statSize' = statSize /\ startAt' = startAt /\ startRot' = startRot
          /\ UNCHANGED <<caddyVars, channel, viewVars>>
      BY DEF TailRead, r, WillRead, AfterRead
    <2> HIDE DEF new
    <2>2. LogTypeOK'
      <3>1. offset' \in Nat
        BY <1>2, <1>3, <2>1
      <3> QED
        BY <1>1, <1>5, <2>1, <3>1 DEF LogTypeOK, TailPoints
    <2>3. TailInv'
      BY DEF TailInv
    <2>4. Sent' = Sent \o new.lines /\ Taken' = Append(Sent \o new.lines, new.rest)
      <3>1. Sent = shown \o channel
        <4>1. \A x, y \in Seq(Seq(Nat)) : (x \o y) \o <<>> = x \o y
          OBVIOUS
        <4> QED
          BY <1>1, <1>2, <4>1 DEF Sent, Text
      <3>2. Sent' = (shown \o channel) \o new.lines
        BY <2>1 DEF Sent
      <3> QED
        BY <2>1, <3>1, <3>2 DEF Taken
    <2>5. ASSUME hpc' = "serving" PROVE OrderInv'
      <3>1. OrderInv /\ Reading
        BY <1>1, <2>1, <2>5 DEF LogInv, Reading
      <3>2. \A i \in 1 .. Len(Sent') : Sent'[i] # <<>>
        <4>1. \A i \in 1 .. Len(Sent) : Sent[i] # <<>>
          BY <3>1 DEF OrderInv
        <4> QED
          BY <1>2, <1>5, <2>4, <4>1, GoodConcat
      <3>3. \E b, d \in Nat :
              /\ b <= d /\ UpTo(Taken, b) /\ \A x \in DOMAIN r : b < r[x] /\ r[x] <= d
              /\ d <= written /\ d <= to /\ (offset' > Size' => d = fileFrom)
        <4>1. CASE offset <= Size
          <5>1. to <= written /\ UpTo(Taken, from) /\ Size' = Size /\ ~(offset' > Size')
            <6>1. UpTo(Taken, from)
              BY <3>1 DEF OrderInv
            <6>2. to <= written
              BY <1>3, <4>1
            <6>3. Size' = written - fileFrom /\ offset' = offset + Len(r)
              BY <2>1 DEF Size
            <6>4. ~(offset' > Size')
              BY <1>2, <1>3, <6>2, <6>3
            <6> QED
              BY <2>1, <6>1, <6>2, <6>4 DEF Size
          <5> HIDE DEF from, to
          <5> QED
            BY <1>3, <1>6, <5>1
        <4>2. CASE offset > Size
          <5>1. r = <<>> /\ UpTo(Taken, fileFrom)
            BY <1>3, <3>1, <4>2 DEF OrderInv
          <5>2. DOMAIN r = {}
            BY <5>1
          <5>3. fileFrom <= to
            BY <1>2, <1>3
          <5> QED
            BY <1>2, <5>1, <5>2, <5>3
        <4> QED
          BY <1>2, <4>1, <4>2 DEF Size
      <3>4. PICK b, d : /\ b \in Nat /\ d \in Nat
                        /\ b <= d /\ UpTo(Taken, b) /\ \A x \in DOMAIN r : b < r[x] /\ r[x] <= d
                        /\ d <= written /\ d <= to /\ (offset' > Size' => d = fileFrom)
        BY <3>3
      <3>5. Rising(Taken') /\ UpTo(Taken', d) /\ Taken' \in Text
        <4>1. Rising(Append(Sent, carry)) /\ UpTo(Append(Sent, carry), b)
          BY <1>2, <3>1, <3>4 DEF OrderInv
        <4>2. /\ Rising(Append(Sent \o new.lines, new.rest))
              /\ UpTo(Append(Sent \o new.lines, new.rest), d)
          BY <1>2, <1>3, <3>4, <4>1, ReadRising DEF new
        <4>3. Append(Sent \o new.lines, new.rest) \in Text
          BY <1>2, <1>5 DEF Text
        <4> QED
          BY <2>4, <4>2, <4>3
      <3>6. UpTo(Taken', written) /\ UpTo(Taken', to)
        BY <1>2, <1>6, <3>4, <3>5, UpToMore
      <3>7. offset' > Size' => UpTo(Taken', fileFrom)
        BY <3>4, <3>5
      <3>8. fileFrom' + offset' = to /\ written' = written /\ fileFrom' = fileFrom
        BY <1>6, <2>1
      <3> QED
        BY <3>2, <3>5, <3>6, <3>7, <3>8 DEF OrderInv
    <2>6. ASSUME Following' PROVE StreamInv'
      <3> DEFINE old == Cut(Pieces(startAt, from))
      <3>1. StreamInv
        BY <1>1, <2>1, <2>6 DEF LogInv, Following
      <3>2. /\ startAt <= from /\ from <= written /\ startAt <= written
            /\ StreamedOf(Sent, old.lines) /\ carry = old.rest
        BY <3>1 DEF StreamInv
      <3>3. to <= written /\ startAt <= to
        <4>1. offset <= Size
          <5>1. from <= written
            BY <3>2
          <5> QED
            BY <1>2, <5>1 DEF Size
        <4>2. startAt <= from
          BY <3>2
        <4>3. to <= written
          BY <1>3, <4>1
        <4> HIDE DEF from, to
        <4> QED
          BY <1>2, <1>6, <4>2, <4>3
      <3> HIDE DEF from, to
      <3>4. /\ old.lines \in Text
            /\ Cut(Pieces(startAt, to)).lines = old.lines \o new.lines
            /\ Cut(Pieces(startAt, to)).rest = new.rest
        <4>1. \A a, b, c \in Nat : a <= b /\ b <= c =>
                 /\ Cut(Pieces(a, b)).lines \in Text
                 /\ Cut(Pieces(a, c)).lines = Cut(Pieces(a, b)).lines
                       \o Cut(Cut(Pieces(a, b)).rest \o Pieces(b, c)).lines
                 /\ Cut(Pieces(a, c)).rest = Cut(Cut(Pieces(a, b)).rest \o Pieces(b, c)).rest
          BY RunExtend, Zenon
        <4>2. /\ old.lines \in Text
              /\ Cut(Pieces(startAt, to)).lines
                    = old.lines \o Cut(old.rest \o Pieces(from, to)).lines
              /\ Cut(Pieces(startAt, to)).rest = Cut(old.rest \o Pieces(from, to)).rest
          <5>1. /\ startAt \in Nat /\ from \in Nat /\ to \in Nat
                /\ startAt <= from /\ from <= to
            BY <1>2, <1>6, <3>2, Zenon
          <5> QED
            BY <4>1, <5>1
        <4>3. carry = old.rest /\ r = Pieces(from, to)
          BY <1>3, <3>2
        <4> QED
          BY <4>2, <4>3, Zenon DEF new
      <3> HIDE DEF old
      <3>5. StreamedOf(Sent \o new.lines, old.lines \o new.lines)
        BY <1>2, <1>5, <3>2, <3>4, StreamedMore
      <3>6. fileFrom' + offset' = to /\ written' = written /\ startAt' = startAt /\ inPlace'
        BY <1>6, <2>1
      <3>7. StreamedOf(Sent', Cut(Pieces(startAt', fileFrom' + offset')).lines)
        BY <2>4, <3>4, <3>5, <3>6
      <3> QED
        BY <2>1, <3>2, <3>3, <3>4, <3>6, <3>7 DEF StreamInv, StreamedOf
    <2> QED
      BY <2>2, <2>3, <2>5, <2>6 DEF LogInv
  <1>8. CASE ~inPlace /\ tpc' = "tick"
    <2>1. UNCHANGED <<offset, out, carry, statSize, startAt, startRot, caddyVars, channel, viewVars>>
      BY <1>8 DEF TailRead
    <2>2. LogTypeOK' /\ TailInv'
      BY <1>1, <1>8, <2>1 DEF LogTypeOK, TailInv, TailPoints
    <2>3. Sent' = Sent
      BY <2>1 DEF Sent
    <2>4. (hpc' = "serving" => OrderInv') /\ (Following' => StreamInv')
      BY <1>1, <2>1, <2>3, SameText DEF Reading
    <2> QED
      BY <2>2, <2>4 DEF LogInv
  <1> QED
    BY <1>7, <1>8 DEF TailRead

LEMMA TailSentInv ==
    ASSUME LogInv, TailSent
    PROVE  LogInv'
  <1> USE DEF TailSent, caddyVars, viewVars
  <1>1. LogTypeOK' /\ TailInv'
    BY DEF LogInv, LogTypeOK, TailInv, TailPoints
  <1>2. Sent' = Sent
    BY DEF Sent
  <1>3. (hpc' = "serving" => OrderInv') /\ (Following' => StreamInv')
    BY <1>2, SameText DEF Reading
  <1> QED
    BY <1>1, <1>3 DEF LogInv

LEMMA TailStopsInv ==
    ASSUME LogInv, TailStops
    PROVE  LogInv'
  <1> USE DEF TailStops, caddyVars, viewVars
  <1>1. LogTypeOK' /\ TailInv'
    BY DEF LogInv, LogTypeOK, TailInv, TailPoints
  <1>2. Sent' = Sent
    BY DEF Sent
  <1>3. (hpc' = "serving" => OrderInv') /\ (Following' => StreamInv')
    BY <1>2, SameText DEF Reading
  <1> QED
    BY <1>1, <1>3 DEF LogInv

LEMMA ShowLineInv ==
    ASSUME LogInv, ShowLine
    PROVE  LogInv'
  <1> USE DEF ShowLine, caddyVars, tailVars
  <1>1. channel \in Text /\ out \in Text /\ shown \in Text /\ channel # <<>>
    BY DEF LogInv, LogTypeOK
  <1>2. Append(shown, Head(channel)) \in Text /\ Tail(channel) \in Text
    <2>1. \A s, t \in Seq(Seq(Nat)) : t # <<>> =>
             Append(s, Head(t)) \in Seq(Seq(Nat)) /\ Tail(t) \in Seq(Seq(Nat))
      BY Moves, Zenon
    <2> QED
      BY <1>1, <2>1, Zenon DEF Text
  <1>3. tpc # "backfill"
    BY <1>1 DEF LogInv, TailInv
  <1>4. LogTypeOK' /\ TailInv'
    BY <1>2, <1>3 DEF LogInv, LogTypeOK, TailInv
  <1>5. CASE shown' = Append(shown, Head(channel)) /\ UNCHANGED <<hpc, ctxDone>>
    <2>1. Sent' = Sent
      BY <1>1, <1>5, SentSame DEF Sent
    <2>2. (hpc' = "serving" => OrderInv') /\ (Following' => StreamInv')
      BY <1>5, <2>1, SameText DEF Reading
    <2> QED
      BY <1>4, <2>2 DEF LogInv
  <1>6. CASE hpc' = "returned"
    BY <1>4, <1>6 DEF LogInv, Following
  <1> QED
    BY <1>5, <1>6

LEMMA ViewStopsInv ==
    ASSUME LogInv, Disconnect \/ HandlerStops
    PROVE  LogInv'
  <1> USE DEF Disconnect, HandlerStops, caddyVars, tailVars
  <1>1. LogTypeOK' /\ TailInv'
    BY DEF LogInv, LogTypeOK, TailInv
  <1>2. Sent' = Sent
    BY DEF Sent
  <1>3. (hpc' = "serving" => OrderInv') /\ (Following' => StreamInv')
    BY <1>2, SameText DEF Reading
  <1> QED
    BY <1>1, <1>3 DEF LogInv

LEMMA LogStutterInv ==
    ASSUME LogInv, UNCHANGED logVars
    PROVE  LogInv'
  <1> USE DEF logVars, caddyVars
  <1>1. LogTypeOK' /\ TailInv'
    BY DEF LogInv, LogTypeOK, TailInv
  <1>2. Sent' = Sent
    BY DEF Sent
  <1>3. (hpc' = "serving" => OrderInv') /\ (Following' => StreamInv')
    BY <1>2, SameText DEF Reading
  <1> QED
    BY <1>1, <1>3 DEF LogInv

LEMMA LogStepInv ==
    ASSUME LogAssumption, LogInv, [LogNext]_logVars
    PROVE  LogInv'
  BY LogWriteInv, LogRotateInv, LogCreateInv, ReadBackfillInv, SendLineInv, TakeOffsetInv,
     TailTickInv, TailReadInv, TailSentInv, TailStopsInv, ShowLineInv, ViewStopsInv,
     LogStutterInv DEF LogNext, TailStep

\* The invariant holds in every behaviour of Caddy, the tailer and the handler.
LEMMA LogInvariant == LogSpec => []LogInv
  <1>1. LogInit => LogInv
    BY LogAssumption, LogInitInv
  <1>2. LogInv /\ [LogNext]_logVars => LogInv'
    BY LogAssumption, LogStepInv
  <1> QED
    BY <1>1, <1>2, PTL DEF LogSpec

\* However Caddy writes and rotates between the backfill, the Stat and the reads of
\* Tailer.Stream, the browser's lines, the channel, the lines still to be sent and
\* the partial line together hold no piece of the log twice and none before an
\* earlier one.
THEOREM SentInOrderHolds == LogSpec => []SentInOrder
  <1>1. LogInv => SentInOrder
    BY DEF LogInv, OrderInv, Rising, SentInOrder
  <1> QED
    BY <1>1, LogInvariant, PTL

\* Until the file is rotated, what Tailer.Stream took after its Stat is the log from
\* there on, line by line with the partial line in carry, whatever the reads found.
THEOREM StreamIsLogHolds == LogSpec => []StreamIsLog
  <1>1. LogInv => StreamIsLog
    BY DEF LogInv, StreamInv, StreamIsLog
  <1> QED
    BY <1>1, LogInvariant, PTL
-----------------------------------------------------------------------------
(* The generated routes: least elements, lists *)

LEMMA LeastIs ==
    ASSUME NEW S \in SUBSET Int, NEW k \in S, \A m \in S : k <= m
    PROVE  LeastOf(S) = k
  <1>1. \A m \in S : (\A n \in S : m <= n) => m = k
    OBVIOUS
  <1> QED
    BY <1>1 DEF LeastOf

LEMMA SomeFirst ==
    ASSUME NEW S, IsFiniteSet(S), S # {}, NEW key \in [S -> Int],
           \A a, b \in S : key[a] = key[b] => a = b
    PROVE  \E a \in S : \A b \in S : key[a] <= key[b]
  <1>1. Cardinality(S) \in Nat /\ Cardinality(S) # 0
    BY FS_CardinalityType, FS_EmptySet
  <1>2. PICK a \in S : Cardinality(Below(S, key, a)) = 0
    <2>1. 1 \in 1 .. Cardinality(S) /\ 1 - 1 = 0
      BY <1>1
    <2> QED
      BY <2>1, Ranks
  <1>3. IsFiniteSet(Below(S, key, a))
    BY FS_Subset DEF Below
  <1>4. Below(S, key, a) = {}
    BY <1>2, <1>3, FS_EmptySet
  <1> QED
    BY <1>4 DEF Below

\* Induction over 1 .. n, for a set.
LEMMA CountUp ==
    ASSUME NEW n \in Nat, NEW S, 1 \in S, \A i \in 1 .. n - 1 : i \in S => i + 1 \in S
    PROVE  1 .. n \subseteq S
  <1> SUFFICES ASSUME (1 .. n) \ S # {} PROVE FALSE
    OBVIOUS
  <1> DEFINE T == (1 .. n) \ S
             key == [i \in T |-> i]
  <1>1. IsFiniteSet(T)
    BY FS_Interval, FS_Subset
  <1>2. key \in [T -> Int] /\ \A a, b \in T : key[a] = key[b] => a = b
    OBVIOUS
  <1> HIDE DEF key
  <1>3. PICK a \in T : \A b \in T : key[a] <= key[b]
    BY <1>1, <1>2, SomeFirst
  <1>4. \A b \in T : a <= b
    BY <1>3 DEF key
  <1>5. a \in 1 .. n /\ a # 1 /\ a - 1 \notin T
    BY <1>4
  <1>6. a - 1 \in 1 .. n - 1 /\ a - 1 \in S /\ (a - 1) + 1 = a
    BY <1>5
  <1> QED
    BY <1>6

\* The sequences that FlattenSeq and SetToSeq build.
LEMMA FlattenSteps ==
    ASSUME NEW S, NEW ss \in Seq(Seq(S)), ss # <<>>
    PROVE  \E f \in [1 .. Len(ss) -> Seq(S)] :
              /\ FlattenSeq(ss) = f[Len(ss)]
              /\ f[1] = ss[1]
              /\ \A i \in 1 .. Len(ss) - 1 : f[i + 1] = f[i] \o ss[i + 1]
  <1> DEFINE n == Len(ss)
             IsFlat(g, m) == /\ g \in [1 .. m -> Seq(S)]
                             /\ \A i \in 1 .. m : g[i] = IF i = 1 THEN ss[i] ELSE g[i - 1] \o ss[i]
             T == {m \in 1 .. n : \E g : IsFlat(g, m)}
  <1>1. n \in Nat /\ n >= 1 /\ \A i \in 1 .. n : ss[i] \in Seq(S)
    BY EmptySeq
  <1>2. 1 \in T
    <2> DEFINE g == [i \in 1 .. 1 |-> ss[i]]
    <2>1. IsFlat(g, 1)
      BY <1>1
    <2>2. 1 \in 1 .. n
      BY <1>1
    <2> HIDE DEF IsFlat, g
    <2> QED
      BY <2>1, <2>2, Zenon
  <1>3. ASSUME NEW m \in 1 .. n - 1, m \in T PROVE m + 1 \in T
    <2>1. PICK g : IsFlat(g, m)
      BY <1>3
    <2> DEFINE h == [i \in 1 .. m + 1 |-> IF i = m + 1 THEN g[m] \o ss[m + 1] ELSE g[i]]
    <2>2. g[m] \o ss[m + 1] \in Seq(S)
      <3>1. g[m] \in Seq(S) /\ ss[m + 1] \in Seq(S)
        BY <1>1, <2>1
      <3> QED
        BY <3>1, ConcatProperties
    <2>3. h \in [1 .. m + 1 -> Seq(S)]
      <3> SUFFICES ASSUME NEW i \in 1 .. m + 1 PROVE h[i] \in Seq(S)
        OBVIOUS
      <3>1. CASE i = m + 1
        BY <2>2, <3>1
      <3>2. CASE i # m + 1
        <4>1. i \in 1 .. m
          BY <3>2
        <4> QED
          BY <4>1, <3>2, <2>1
      <3> QED
        BY <3>1, <3>2
    <2>4. ASSUME NEW i \in 1 .. m + 1 PROVE h[i] = IF i = 1 THEN ss[i] ELSE h[i - 1] \o ss[i]
      <3>1. CASE i = m + 1
        <4>1. i # 1 /\ i - 1 = m /\ m \in 1 .. m + 1 /\ m # m + 1
          BY <3>1
        <4>2. h[m] = g[m] /\ h[i] = g[m] \o ss[m + 1]
          BY <3>1, <4>1
        <4> QED
          BY <3>1, <4>1, <4>2
      <3>2. CASE i # m + 1
        <4>1. i \in 1 .. m /\ (i # 1 => i - 1 \in 1 .. m + 1 /\ i - 1 # m + 1)
          BY <3>2
        <4>2. h[i] = g[i] /\ (i # 1 => h[i - 1] = g[i - 1])
          BY <3>2, <4>1
        <4>3. g[i] = IF i = 1 THEN ss[i] ELSE g[i - 1] \o ss[i]
          BY <2>1, <4>1
        <4> QED
          BY <4>2, <4>3
      <3> QED
        BY <3>1, <3>2
    <2> HIDE DEF h
    <2>5. IsFlat(h, m + 1)
      BY <2>3, <2>4
    <2>6. m + 1 \in 1 .. n
      BY <1>1
    <2> HIDE DEF IsFlat
    <2> QED
      BY <2>5, <2>6, Zenon
  <1>4. n \in T
    <2> HIDE DEF T
    <2>1. 1 .. n \subseteq T
      BY <1>1, <1>2, <1>3, CountUp
    <2>2. n \in 1 .. n
      BY <1>1
    <2> QED
      BY <2>1, <2>2, Zenon
  <1>5. PICK g : IsFlat(g, n)
    BY <1>4
  <1> DEFINE fl == CHOOSE f : f = [i \in 1 .. n |-> IF i = 1 THEN ss[i] ELSE f[i - 1] \o ss[i]]
  <1>6. g = [i \in 1 .. n |-> IF i = 1 THEN ss[i] ELSE g[i - 1] \o ss[i]]
    BY <1>5
  <1>7. fl = [i \in 1 .. n |-> IF i = 1 THEN ss[i] ELSE fl[i - 1] \o ss[i]]
    BY <1>6, Zenon
  <1>8. FlattenSeq(ss) = fl[n]
    <2>1. Len(ss) # 0
      BY <1>1
    <2> QED
      BY <2>1, Zenon DEF FlattenSeq
  <1> HIDE DEF fl
  <1>9. \A i \in 1 .. n : fl[i] = IF i = 1 THEN ss[i] ELSE fl[i - 1] \o ss[i]
    BY <1>7
  <1>10. fl[1] = ss[1] /\ \A i \in 1 .. n - 1 : fl[i + 1] = fl[i] \o ss[i + 1]
    <2>1. 1 \in 1 .. n /\ \A i \in 1 .. n - 1 : i + 1 \in 1 .. n /\ i + 1 # 1 /\ (i + 1) - 1 = i
      BY <1>1
    <2> QED
      BY <1>9, <2>1
  <1>11. 1 .. n \subseteq {i \in 1 .. n : fl[i] \in Seq(S)}
    <2> DEFINE U == {i \in 1 .. n : fl[i] \in Seq(S)}
    <2>1. 1 \in U
      BY <1>1, <1>10
    <2>2. ASSUME NEW i \in 1 .. n - 1, i \in U PROVE i + 1 \in U
      <3>1. i + 1 \in 1 .. n /\ fl[i] \in Seq(S) /\ ss[i + 1] \in Seq(S)
        BY <1>1, <2>2
      <3>2. fl[i] \o ss[i + 1] \in Seq(S)
        BY <3>1, ConcatProperties
      <3> QED
        BY <1>10, <3>1, <3>2
    <2> HIDE DEF U
    <2> QED
      BY <1>1, <2>1, <2>2, CountUp DEF U
  <1>12. fl \in [1 .. n -> Seq(S)]
    BY <1>7, <1>11
  <1> QED
    BY <1>8, <1>10, <1>12

\* One member of the list that is flattened, in what it becomes.
LEMMA FlattenParts ==
    ASSUME NEW S, NEW P \in SUBSET S, NEW ss \in Seq(Seq(S))
    PROVE  /\ FlattenSeq(ss) \in Seq(S)
           /\ (\A j \in 1 .. Len(ss) : ss[j] \in Seq(P)) => FlattenSeq(ss) \in Seq(P)
           /\ \A k \in 1 .. Len(ss) : (\A j \in 1 .. k - 1 : ss[j] \in Seq(P)) =>
                 \E p \in Seq(P), q \in Seq(S) : FlattenSeq(ss) = p \o (ss[k] \o q)
  <1>1. CASE ss = <<>>
    BY <1>1 DEF FlattenSeq
  <1>2. CASE ss # <<>>
    <2> DEFINE n == Len(ss)
    <2>1. PICK f \in [1 .. n -> Seq(S)] :
             /\ FlattenSeq(ss) = f[n]
             /\ f[1] = ss[1]
             /\ \A i \in 1 .. n - 1 : f[i + 1] = f[i] \o ss[i + 1]
      BY <1>2, FlattenSteps
    <2>2. n \in Nat /\ n >= 1 /\ \A i \in 1 .. n : ss[i] \in Seq(S) /\ f[i] \in Seq(S)
      <3>1. n \in Nat /\ n # 0 /\ \A i \in 1 .. n : ss[i] \in Seq(S)
        BY <1>2, EmptySeq
      <3>2. \A i \in 1 .. n : f[i] \in Seq(S)
        OBVIOUS
      <3> HIDE DEF n
      <3> QED
        BY <3>1, <3>2
    <2> HIDE DEF n
    <2>3. \A i \in 1 .. n - 1 : i \in 1 .. n /\ i + 1 \in 1 .. n
      BY <2>2
    <2>4. ASSUME NEW m \in 0 .. n, \A j \in 1 .. m : ss[j] \in Seq(P)
          PROVE  \A i \in 1 .. m : f[i] \in Seq(P)
      <3> DEFINE U == {i \in 1 .. m : f[i] \in Seq(P)}
      <3>1. CASE m = 0
        BY <3>1
      <3>2. CASE m # 0
        <4>1. m \in Nat /\ 1 \in 1 .. m
          BY <3>2
        <4>2. 1 \in U
          BY <2>1, <2>4, <4>1
        <4>3. ASSUME NEW i \in 1 .. m - 1, i \in U PROVE i + 1 \in U
          <5>1. i \in 1 .. n - 1 /\ i + 1 \in 1 .. m
            BY <2>2
          <5>2. f[i] \in Seq(P) /\ ss[i + 1] \in Seq(P)
            BY <2>4, <4>3, <5>1
          <5>3. f[i] \o ss[i + 1] \in Seq(P)
            BY <5>2, ConcatProperties
          <5> QED
            BY <2>1, <5>1, <5>3
        <4> HIDE DEF U
        <4>4. 1 .. m \subseteq U
          BY <4>1, <4>2, <4>3, CountUp
        <4> QED
          BY <4>4 DEF U
      <3> QED
        BY <3>1, <3>2
    <2>5. FlattenSeq(ss) \in Seq(S)
      BY <2>1, <2>2
    <2>6. ASSUME \A j \in 1 .. n : ss[j] \in Seq(P) PROVE FlattenSeq(ss) \in Seq(P)
      <3>1. n \in 0 .. n /\ n \in 1 .. n
        BY <2>2
      <3> QED
        BY <2>1, <2>4, <2>6, <3>1
    <2>7. ASSUME NEW k \in 1 .. n, \A j \in 1 .. k - 1 : ss[j] \in Seq(P)
          PROVE  \E p \in Seq(P), q \in Seq(S) : FlattenSeq(ss) = p \o (ss[k] \o q)
      <3> DEFINE W(i) == \E p \in Seq(P), q \in Seq(S) : f[i] = p \o (ss[k] \o q)
      <3>1. W(k)
        <4>1. CASE k = 1
          <5>1. <<>> \o (ss[k] \o <<>>) = ss[k]
            BY <2>2
          <5>2. <<>> \in Seq(P) /\ <<>> \in Seq(S)
            OBVIOUS
          <5>3. f[k] = <<>> \o (ss[k] \o <<>>)
            BY <2>1, <4>1, <5>1
          <5> QED
            BY <5>2, <5>3
        <4>2. CASE k # 1
          <5>1. k - 1 \in 1 .. n - 1 /\ k - 1 \in 0 .. n /\ k - 1 \in 1 .. k - 1 /\ (k - 1) + 1 = k
            BY <2>2, <4>2
          <5>2. f[k - 1] \in Seq(P)
            BY <2>4, <2>7, <5>1
          <5>3. f[k] = f[k - 1] \o ss[k]
            BY <2>1, <5>1
          <5>4. ss[k] \o <<>> = ss[k] /\ <<>> \in Seq(S)
            BY <2>2
          <5>5. f[k] = f[k - 1] \o (ss[k] \o <<>>)
            BY <5>3, <5>4
          <5> QED
            BY <5>2, <5>4, <5>5
        <4> QED
          BY <4>1, <4>2
      <3>2. ASSUME NEW i \in 1 .. n - 1, W(i) PROVE W(i + 1)
        <4>1. PICK p, q : p \in Seq(P) /\ q \in Seq(S) /\ f[i] = p \o (ss[k] \o q)
          BY <3>2
        <4>2. f[i + 1] = f[i] \o ss[i + 1] /\ ss[i + 1] \in Seq(S) /\ ss[k] \in Seq(S)
          BY <2>1, <2>2, <2>3
        <4>3. p \in Seq(S)
          BY <4>1, SeqMonotonic
        <4>4. \A a, b \in Seq(S) : a \o b \in Seq(S)
          BY ConcatProperties
        <4>7. \A a, b, c \in Seq(S) : (a \o b) \o c = a \o (b \o c)
          BY ConcatAssociative, SMTT(40)
        <4>5. /\ (p \o (ss[k] \o q)) \o ss[i + 1] = p \o (ss[k] \o (q \o ss[i + 1]))
              /\ q \o ss[i + 1] \in Seq(S)
          <5>1. PICK x, y, z : x = ss[k] /\ y = ss[i + 1] /\ z = x \o q
            OBVIOUS
          <5>2. /\ p \in Seq(S) /\ x \in Seq(S) /\ q \in Seq(S) /\ y \in Seq(S)
                /\ z \in Seq(S) /\ q \o y \in Seq(S)
            BY <4>1, <4>2, <4>3, <4>4, <5>1, Zenon
          <5>3. (p \o z) \o y = p \o (z \o y)
            <6>1. p \in Seq(S) /\ z \in Seq(S) /\ y \in Seq(S)
              BY <5>2
            <6> QED
              BY <4>7, <6>1, Zenon
          <5>4. (x \o q) \o y = x \o (q \o y)
            <6>1. x \in Seq(S) /\ q \in Seq(S) /\ y \in Seq(S)
              BY <5>2
            <6> QED
              BY <4>7, <6>1, Zenon
          <5> QED
            BY <5>1, <5>2, <5>3, <5>4
        <4>6. f[i + 1] = p \o (ss[k] \o (q \o ss[i + 1]))
          BY <4>1, <4>2, <4>5, Zenon
        <4> QED
          BY <4>1, <4>5, <4>6
      <3> DEFINE U == {i \in Nat : k - 1 + i > n \/ W(k - 1 + i)}
                 m == n - k + 1
      <3>3. k \in Nat /\ m \in Nat /\ 1 <= m /\ (k - 1) + 1 = k /\ (k - 1) + m = n
        BY <2>2
      <3>4. 1 \in U
        <4>1. k - 1 + 1 = k
          OBVIOUS
        <4> HIDE DEF W
        <4> QED
          BY <3>1, <4>1
      <3>5. ASSUME NEW i \in 1 .. m - 1, i \in U PROVE i + 1 \in U
        <4>1. k - 1 + i \in 1 .. n - 1 /\ (k - 1) + (i + 1) = (k - 1 + i) + 1
          <5>1. \A x, y, z \in Int : 1 <= x /\ x <= z /\ 1 <= y /\ y <= (z - x + 1) - 1 =>
                   x - 1 + y \in 1 .. z - 1
            OBVIOUS
          <5>3. \A x, y \in Int : (x - 1) + (y + 1) = (x - 1 + y) + 1
            OBVIOUS
          <5>2. /\ k \in Int /\ 1 <= k /\ k <= n /\ n \in Int
                /\ i \in Int /\ 1 <= i /\ i <= (n - k + 1) - 1
            BY <2>2
          <5> HIDE DEF m
          <5>4. k - 1 + i \in 1 .. n - 1
            BY <5>1, <5>2, Zenon
          <5>5. (k - 1) + (i + 1) = (k - 1 + i) + 1
            BY <5>2, <5>3, Zenon
          <5> QED
            BY <5>4, <5>5
        <4>2. ~(k - 1 + i > n)
          <5>1. PICK j : j = k - 1 + i
            OBVIOUS
          <5>2. j \in 1 .. n - 1 /\ n \in Nat
            BY <2>2, <4>1, <5>1
          <5>3. ~(j > n)
            BY <5>2
          <5> QED
            BY <5>1, <5>3
        <4> HIDE DEF W
        <4>3. W(k - 1 + i)
          BY <3>5, <4>2
        <4>4. W((k - 1 + i) + 1)
          BY <3>2, <4>1, <4>3, Zenon
        <4> QED
          BY <4>1, <4>4
      <3> HIDE DEF U, W
      <3>6. 1 .. m \subseteq U
        BY <3>3, <3>4, <3>5, CountUp
      <3>7. m \in U /\ ~(k - 1 + m > n) /\ k - 1 + m = n
        BY <2>2, <3>3, <3>6
      <3>8. W(n)
        <4>1. W(k - 1 + m)
          BY <3>7 DEF U
        <4> QED
          BY <3>7, <4>1, Zenon
      <3> QED
        BY <2>1, <3>8 DEF W
    <2> QED
      BY <2>5, <2>6, <2>7 DEF n
  <1> QED
    BY <1>1, <1>2

LEMMA SetToSeqProperties ==
    ASSUME NEW S, IsFiniteSet(S)
    PROVE  /\ SetToSeq(S) \in Seq(S) /\ DOMAIN SetToSeq(S) = 1 .. Len(SetToSeq(S))
           /\ \A i, j \in DOMAIN SetToSeq(S) : SetToSeq(S)[i] = SetToSeq(S)[j] => i = j
           /\ \A a \in S : \E i \in DOMAIN SetToSeq(S) : SetToSeq(S)[i] = a
  <1> DEFINE n == Cardinality(S)
             f == SetToSeq(S)
  <1>1. n \in Nat /\ IsFiniteSet(1 .. n) /\ Cardinality(1 .. n) = n
    <2>1. n \in Nat
      BY FS_CardinalityType
    <2> HIDE DEF n
    <2>2. IsFiniteSet(1 .. n) /\ Cardinality(1 .. n) = n
      BY <2>1, FS_Interval
    <2> QED
      BY <2>1, <2>2
  <1>2. \E g : g \in [1 .. n -> S] /\ IsInjective(g)
    <2>1. ExistsBijection(1 .. n, S)
      BY FS_CardinalityType
    <2> QED
      BY <2>1 DEF ExistsBijection, Bijection, Injection
  <1>3. f \in [1 .. n -> S] /\ IsInjective(f)
    BY <1>2, Zenon DEF SetToSeq
  <1> HIDE DEF f
  <1>4. f \in Injection(1 .. n, S)
    BY <1>3 DEF Injection
  <1>5. f \in Surjection(1 .. n, S)
    BY <1>1, <1>4, FS_Injection
  <1>6. \A a \in S : \E i \in 1 .. n : f[i] = a
    BY <1>5 DEF Surjection
  <1>7. f \in Seq(S) /\ Len(f) = n /\ DOMAIN f = 1 .. n
    BY <1>1, <1>3
  <1> QED
    BY <1>3, <1>6, <1>7 DEF f, IsInjective

\* The numbers of the elements ByPriority sorts are their own.
Sortable(S) ==
    /\ IsFiniteSet(S) /\ \A a \in S : a.priority \in Int
    /\ \A a, b \in S : a.priority = b.priority => a = b

LEMMA ByPriorityProperties ==
    ASSUME NEW S, Sortable(S)
    PROVE  /\ ByPriority(S) \in Seq(S) /\ DOMAIN ByPriority(S) = 1 .. Len(ByPriority(S))
           /\ \A i, j \in DOMAIN ByPriority(S) :
                 i < j => ByPriority(S)[i].priority < ByPriority(S)[j].priority
           /\ \A a \in S : \E i \in DOMAIN ByPriority(S) : ByPriority(S)[i] = a
  <1> DEFINE n == Cardinality(S)
             f == ByPriority(S)
             key == [a \in S |-> a.priority]
             B(a) == {b \in S : b.priority < a.priority}
  <1>1. key \in [S -> Int] /\ \A a, b \in S : key[a] = key[b] => a = b
    BY DEF Sortable
  <1>2. \A a \in S : Below(S, key, a) = B(a)
    BY DEF Below
  <1>3. key \in [S -> Int] /\ IsFiniteSet(S)
    BY <1>1 DEF Sortable
  <1>4. \A a, b \in S : key[a] < key[b] <=> a.priority < b.priority
    OBVIOUS
  <1> HIDE DEF key
  <1>5. /\ n \in Nat
        /\ \A a \in S : Cardinality(Below(S, key, a)) \in 0 .. n - 1
        /\ \A a, b \in S : key[a] < key[b] =>
              Cardinality(Below(S, key, a)) < Cardinality(Below(S, key, b))
        /\ \A k \in 1 .. n : \E a \in S : Cardinality(Below(S, key, a)) = k - 1
    BY <1>1, <1>3, Ranks
  <1>6. /\ \A a \in S : Cardinality(B(a)) \in 0 .. n - 1
        /\ \A a, b \in S : a.priority < b.priority => Cardinality(B(a)) < Cardinality(B(b))
        /\ \A k \in 1 .. n : \E a \in S : Cardinality(B(a)) = k - 1
    BY <1>2, <1>4, <1>5
  <1>7. f = [i \in 1 .. n |-> CHOOSE a \in S : Cardinality(B(a)) = i - 1]
    BY DEF ByPriority
  <1>8. \A a \in S : a.priority \in Int
    BY DEF Sortable
  <1>9. \A a, b \in S : a.priority = b.priority => a = b
    BY DEF Sortable
  <1> HIDE DEF B, f, n
  <1>10. \A a, b \in S : Cardinality(B(a)) = Cardinality(B(b)) => a = b
    <2> SUFFICES ASSUME NEW a \in S, NEW b \in S, Cardinality(B(a)) = Cardinality(B(b))
                 PROVE  a = b
      OBVIOUS
    <2>1. Cardinality(B(a)) \in Int /\ Cardinality(B(b)) \in Int
      BY <1>5, <1>6
    <2>2. ~(a.priority < b.priority) /\ ~(b.priority < a.priority)
      BY <1>6, <2>1
    <2>3. a.priority = b.priority
      BY <1>8, <2>2
    <2> QED
      BY <1>9, <2>3
  <1>11. \A i \in 1 .. n : f[i] \in S /\ Cardinality(B(f[i])) = i - 1
    <2> TAKE i \in 1 .. n
    <2>1. \E a \in S : Cardinality(B(a)) = i - 1
      BY <1>6
    <2>2. f[i] = CHOOSE a \in S : Cardinality(B(a)) = i - 1
      BY <1>7
    <2> QED
      BY <2>1, <2>2, Zenon
  <1>12. f \in [1 .. n -> S] /\ DOMAIN f = 1 .. n
    BY <1>7, <1>11
  <1>13. f \in Seq(S) /\ Len(f) = n
    BY <1>5, <1>12
  <1>14. \A i, j \in 1 .. n : i < j => f[i].priority < f[j].priority
    <2> SUFFICES ASSUME NEW i \in 1 .. n, NEW j \in 1 .. n, i < j
                 PROVE  f[i].priority < f[j].priority
      OBVIOUS
    <2>1. f[i] \in S /\ f[j] \in S /\ Cardinality(B(f[i])) = i - 1 /\ Cardinality(B(f[j])) = j - 1
      BY <1>11
    <2>2. ~(f[j].priority < f[i].priority)
      <3>1. f[j].priority < f[i].priority => j - 1 < i - 1
        BY <1>6, <2>1
      <3> QED
        BY <3>1
    <2>3. f[i] # f[j]
      <3>1. i - 1 # j - 1
        OBVIOUS
      <3> QED
        BY <2>1, <3>1
    <2>4. f[i].priority # f[j].priority
      BY <1>9, <2>1, <2>3
    <2> QED
      BY <1>8, <2>1, <2>2, <2>4
  <1>15. \A a \in S : \E i \in 1 .. n : f[i] = a
    <2> TAKE a \in S
    <2>1. Cardinality(B(a)) \in 0 .. n - 1
      BY <1>6
    <2>2. Cardinality(B(a)) + 1 \in 1 .. n /\ (Cardinality(B(a)) + 1) - 1 = Cardinality(B(a))
      BY <1>5, <2>1
    <2>3. f[Cardinality(B(a)) + 1] = a
      BY <1>10, <1>11, <2>2
    <2> QED
      BY <2>2, <2>3
  <1> QED
    BY <1>12, <1>13, <1>14, <1>15 DEF f
-----------------------------------------------------------------------------
(* The generated routes: what a list of routes answers *)

Handlers ==
    {"upstream", "external", "basic", "unavailable", "forward", "forwardOnly", "denied",
     "redirect", "rewrite", "files", "blocked", "l4page", "goElsewhere", "notFound", "metrics"}
Route == [hosts : SUBSET Hosts, paths : SUBSET Paths, ips : SUBSET Ips, exploit : BOOLEAN,
          handle : Seq(Handlers), terminal : BOOLEAN]

\* Routes that leave a request to the next one, and routes that answer it.
Passing(req) ==
    {r \in Route : RouteMatches(r, req) => ~r.terminal /\ Answer(r.handle, req) = "next"}
Answering(req, a) ==
    {r \in Route : RouteMatches(r, req) /\ Answer(r.handle, req) = a /\ a # "next"}
Answered(s, req, a) ==
    \E p \in Seq(Passing(req)), r \in Answering(req, a), q \in Seq(Route) : s = p \o (<<r>> \o q)

LEMMA Associative ==
    ASSUME NEW S
    PROVE  \A a, b, c \in Seq(S) : (a \o b) \o c = a \o (b \o c)
  BY ConcatAssociative

LEMMA PassingRoutes ==
    ASSUME NEW req
    PROVE  /\ Passing(req) \in SUBSET Route
           /\ \A a : Answering(req, a) \in SUBSET Route
           /\ \A p \in Seq(Passing(req)) : p \in Seq(Route)
  <1>1. Passing(req) \in SUBSET Route /\ \A a : Answering(req, a) \in SUBSET Route
    BY DEF Passing, Answering
  <1> QED
    BY <1>1, SeqMonotonic

LEMMA AnsweredThen ==
    ASSUME NEW req, NEW a, NEW s, NEW t \in Seq(Route), Answered(s, req, a)
    PROVE  Answered(s \o t, req, a)
  <1>1. PICK p, r, q : /\ p \in Seq(Passing(req)) /\ r \in Answering(req, a) /\ q \in Seq(Route)
                       /\ s = p \o (<<r>> \o q)
    BY DEF Answered
  <1>2. p \in Seq(Route) /\ <<r>> \in Seq(Route) /\ q \in Seq(Route) /\ t \in Seq(Route)
    BY <1>1, PassingRoutes
  <1>3. \A x, y \in Seq(Route) : x \o y \in Seq(Route)
    BY ONLY ConcatProperties
  <1>4. \A x, y, z \in Seq(Route) : (x \o y) \o z = x \o (y \o z)
    BY ONLY Associative, SMTT(40)
  <1>5. PICK o, u : o = <<r>> /\ u = o \o q
    OBVIOUS
  <1>6. o \in Seq(Route) /\ u \in Seq(Route) /\ q \o t \in Seq(Route)
    BY <1>2, <1>3, <1>5, Zenon
  <1>7. (p \o u) \o t = p \o (u \o t)
    <2>1. p \in Seq(Route) /\ u \in Seq(Route) /\ t \in Seq(Route)
      BY <1>2, <1>6
    <2> QED
      BY <1>4, <2>1
  <1>8. (o \o q) \o t = o \o (q \o t)
    <2>1. o \in Seq(Route) /\ q \in Seq(Route) /\ t \in Seq(Route)
      BY <1>2, <1>6
    <2> QED
      BY <1>4, <2>1
  <1>9. s \o t = p \o (<<r>> \o (q \o t))
    BY <1>1, <1>5, <1>7, <1>8, Zenon
  <1> QED
    BY <1>1, <1>6, <1>9 DEF Answered

LEMMA AnsweredFirst ==
    ASSUME NEW req, NEW a, NEW s \in Seq(Passing(req)), NEW t, Answered(t, req, a)
    PROVE  Answered(s \o t, req, a)
  <1>1. PICK p, r, q : /\ p \in Seq(Passing(req)) /\ r \in Answering(req, a) /\ q \in Seq(Route)
                       /\ t = p \o (<<r>> \o q)
    BY DEF Answered
  <1>2. /\ s \in Seq(Route) /\ p \in Seq(Route) /\ <<r>> \in Seq(Route)
        /\ <<r>> \o q \in Seq(Route) /\ s \o p \in Seq(Passing(req))
    <2>1. s \in Seq(Route) /\ p \in Seq(Route) /\ <<r>> \in Seq(Route)
      BY <1>1, PassingRoutes
    <2>2. <<r>> \o q \in Seq(Route) /\ s \o p \in Seq(Passing(req))
      BY <1>1, <2>1, ConcatProperties
    <2> QED
      BY <2>1, <2>2
  <1>3. (s \o p) \o (<<r>> \o q) = s \o (p \o (<<r>> \o q))
    <2>1. \A x, y, z \in Seq(Route) : (x \o y) \o z = x \o (y \o z)
      BY ConcatAssociative, SMTT(40)
    <2>2. PICK z : z = <<r>> \o q
      OBVIOUS
    <2>3. s \in Seq(Route) /\ p \in Seq(Route) /\ z \in Seq(Route)
      BY <1>2, <2>2
    <2>4. (s \o p) \o z = s \o (p \o z)
      BY <2>1, <2>3
    <2> QED
      BY <2>2, <2>4
  <1> QED
    BY <1>1, <1>2, <1>3 DEF Answered

LEMMA AnsweredOne ==
    ASSUME NEW req, NEW a, NEW r \in Answering(req, a)
    PROVE  Answered(<<r>>, req, a)
  <1>1. r \in Route
    BY PassingRoutes
  <1>2. <<>> \o (<<r>> \o <<>>) = <<r>> /\ <<>> \in Seq(Route) /\ <<>> \in Seq(Passing(req))
    BY <1>1
  <1> QED
    BY <1>2 DEF Answered

\* The first route that answers, after routes that pass the request on, decides.
LEMMA ServedAnswer ==
    ASSUME NEW req, NEW a, NEW s, Answered(s, req, a)
    PROVE  Served(s, req) = a
  <1>1. PICK p, r, q : /\ p \in Seq(Passing(req)) /\ r \in Answering(req, a) /\ q \in Seq(Route)
                       /\ s = p \o (<<r>> \o q)
    BY DEF Answered
  <1>2. p \in Seq(Route) /\ r \in Route /\ Len(p) \in Nat /\ Len(q) \in Nat
        /\ DOMAIN p = 1 .. Len(p)
    BY <1>1, PassingRoutes
  <1>3. /\ DOMAIN s = 1 .. Len(p) + 1 + Len(q)
        /\ s[Len(p) + 1] = r /\ \A i \in 1 .. Len(p) : s[i] = p[i]
    <2>1. PICK x : x = <<r>> \o q
      OBVIOUS
    <2>2. <<r>> \in Seq(Route) /\ Len(<<r>>) = 1 /\ <<r>>[1] = r
      BY <1>2
    <2>3. x \in Seq(Route) /\ Len(x) = 1 + Len(q) /\ x[1] = r
      <3>1. /\ <<r>> \o q \in Seq(Route) /\ Len(<<r>> \o q) = Len(<<r>>) + Len(q)
            /\ \A i \in 1 .. Len(<<r>>) + Len(q) : (<<r>> \o q)[i] =
                  IF i <= Len(<<r>>) THEN <<r>>[i] ELSE q[i - Len(<<r>>)]
        BY <1>1, <2>2, ConcatProperties
      <3>2. 1 \in 1 .. 1 + Len(q) /\ 1 <= 1
        BY <1>2
      <3> QED
        BY <2>1, <2>2, <3>1, <3>2
    <2>4. s = p \o x
      BY <1>1, <2>1
    <2>5. /\ p \o x \in Seq(Route) /\ Len(p \o x) = Len(p) + Len(x)
          /\ \A i \in 1 .. Len(p) + Len(x) : (p \o x)[i] =
                IF i <= Len(p) THEN p[i] ELSE x[i - Len(p)]
      <3>1. p \in Seq(Route) /\ x \in Seq(Route)
        BY <1>2, <2>3
      <3> QED
        BY ONLY <3>1, ConcatProperties, Zenon
    <2>6. DOMAIN s = 1 .. Len(p) + 1 + Len(q)
      BY <1>2, <2>3, <2>4, <2>5
    <2>7. \A i \in 1 .. Len(p) : i \in 1 .. Len(p) + Len(x) /\ i <= Len(p)
      BY <1>2, <2>3
    <2>8. /\ Len(p) + 1 \in 1 .. Len(p) + Len(x) /\ ~(Len(p) + 1 <= Len(p))
          /\ (Len(p) + 1) - Len(p) = 1
      BY <1>2, <2>3
    <2> QED
      BY <2>3, <2>4, <2>5, <2>6, <2>7, <2>8
  <1> DEFINE n == Len(p) + 1
             hit == {i \in DOMAIN s : RouteMatches(s[i], req)}
             reached == {i \in hit : \A j \in hit : s[j].terminal => i <= j}
             answers == {i \in reached : Answer(s[i].handle, req) # "next"}
  <1>4. n \in DOMAIN s /\ s[n] = r /\ \A i \in DOMAIN s : i \in Int /\ (i < n => i \in 1 .. Len(p))
    BY <1>2, <1>3
  <1>5. \A i \in 1 .. Len(p) : s[i] \in Passing(req)
    BY <1>1, <1>2, <1>3
  <1> HIDE DEF n
  <1>6. RouteMatches(s[n], req) /\ Answer(s[n].handle, req) = a /\ a # "next"
    BY <1>1, <1>4 DEF Answering
  <1>7. \A i \in hit : i < n => ~s[i].terminal /\ Answer(s[i].handle, req) = "next"
    BY <1>4, <1>5 DEF Passing
  <1>8. n \in Int
    BY <1>4
  <1>9. n \in answers
    BY <1>4, <1>6, <1>7, <1>8
  <1>10. \A i \in answers : n <= i
    BY <1>4, <1>7, <1>8
  <1>11. answers \in SUBSET Int
    BY <1>4
  <1>12. LeastOf(answers) = n
    BY <1>9, <1>10, <1>11, LeastIs
  <1>13. answers # {}
    BY <1>9
  <1>14. Served(s, req) = IF answers = {} THEN "empty"
                          ELSE Answer(s[LeastOf(answers)].handle, req)
    BY DEF Served
  <1> QED
    BY <1>6, <1>12, <1>13, <1>14

LEMMA FlattenAnswered ==
    ASSUME NEW req, NEW a, NEW ss \in Seq(Seq(Route)), NEW k \in 1 .. Len(ss),
           Answered(ss[k], req, a), \A j \in 1 .. k - 1 : ss[j] \in Seq(Passing(req))
    PROVE  Answered(FlattenSeq(ss), req, a)
  <1>1. PICK p, q : /\ p \in Seq(Passing(req)) /\ q \in Seq(Route)
                    /\ FlattenSeq(ss) = p \o (ss[k] \o q)
    <2>1. Passing(req) \in SUBSET Route
      BY PassingRoutes
    <2>2. \A m \in 1 .. Len(ss) : (\A j \in 1 .. m - 1 : ss[j] \in Seq(Passing(req))) =>
             \E p \in Seq(Passing(req)), q \in Seq(Route) : FlattenSeq(ss) = p \o (ss[m] \o q)
      BY ONLY <2>1, ss \in Seq(Seq(Route)), FlattenParts
    <2> QED
      BY <2>2
  <1>2. Answered(ss[k] \o q, req, a)
    BY <1>1, AnsweredThen
  <1>3. Answered(p \o (ss[k] \o q), req, a)
    BY <1>1, <1>2, AnsweredFirst
  <1> QED
    BY <1>1, <1>3

\* What one or two handlers answer.
LEMMA AnswerLists ==
    ASSUME NEW f, NEW g, NEW req
    PROVE  /\ Answer(<<f>>, req) = Respond(f, req)
           /\ Answer(<<f, g>>, req) =
                 IF Respond(f, req) # "next" THEN Respond(f, req) ELSE Respond(g, req)
  <1> DEFINE one == {k \in DOMAIN <<f>> : Respond(<<f>>[k], req) # "next"}
             two == {k \in DOMAIN <<f, g>> : Respond(<<f, g>>[k], req) # "next"}
  <1>0. /\ DOMAIN <<f>> = {1} /\ DOMAIN <<f, g>> = {1, 2}
        /\ <<f>>[1] = f /\ <<f, g>>[1] = f /\ <<f, g>>[2] = g
    OBVIOUS
  <1>1. one = IF Respond(f, req) # "next" THEN {1} ELSE {}
    BY <1>0
  <1>2. two = {k \in {1, 2} : IF k = 1 THEN Respond(f, req) # "next" ELSE Respond(g, req) # "next"}
    BY <1>0
  <1>3. LeastOf({1}) = 1 /\ LeastOf({2}) = 2 /\ LeastOf({1, 2}) = 1
    BY LeastIs
  <1> QED
    BY <1>1, <1>2, <1>3 DEF Answer

\* A list of routes that answers a request with a if c, and passes it on otherwise.
Decides(s, req, c, a) ==
    /\ s \in Seq(Route)
    /\ c => Answered(s, req, a)
    /\ ~c => s \in Seq(Passing(req))

LEMMA RouteDecides ==
    ASSUME NEW req, NEW r \in Route, NEW c, RouteMatches(r, req) <=> c,
           NEW a, c => Answer(r.handle, req) = a /\ a # "next"
    PROVE  Decides(<<r>>, req, c, a)
  <1>1. <<r>> \in Seq(Route)
    OBVIOUS
  <1>2. c => Answered(<<r>>, req, a)
    <2> SUFFICES ASSUME c PROVE Answered(<<r>>, req, a)
      OBVIOUS
    <2>1. r \in Answering(req, a)
      BY DEF Answering
    <2> QED
      BY <2>1, AnsweredOne
  <1>3. ~c => <<r>> \in Seq(Passing(req))
    <2> SUFFICES ASSUME ~c PROVE <<r>> \in Seq(Passing(req))
      OBVIOUS
    <2>1. r \in Passing(req)
      BY DEF Passing
    <2> QED
      BY <2>1
  <1> QED
    BY <1>1, <1>2, <1>3, Zenon DEF Decides

LEMMA WhenDecides ==
    ASSUME NEW req, NEW a, NEW c, NEW condition \in BOOLEAN, NEW r,
           condition => Decides(<<r>>, req, c, a)
    PROVE  Decides(When(condition, r), req, condition /\ c, a)
  <1>1. CASE condition
    BY <1>1 DEF When, Decides
  <1>2. CASE ~condition
    <2>1. When(condition, r) = <<>>
      BY <1>2 DEF When
    <2>2. <<>> \in Seq(Route) /\ <<>> \in Seq(Passing(req))
      OBVIOUS
    <2> QED
      BY <1>2, <2>1, <2>2 DEF Decides
  <1> QED
    BY <1>1, <1>2

LEMMA JoinDecides ==
    ASSUME NEW req, NEW s, NEW c, NEW a, Decides(s, req, c, a),
           NEW t, NEW d, NEW b, Decides(t, req, d, b)
    PROVE  Decides(s \o t, req, c \/ d, IF c THEN a ELSE b)
  <1>1. s \in Seq(Route) /\ t \in Seq(Route)
    BY DEF Decides
  <1>2. s \o t \in Seq(Route)
    BY <1>1, ConcatProperties
  <1>3. CASE c
    <2>1. Answered(s, req, a)
      BY <1>3 DEF Decides
    <2>2. Answered(s \o t, req, a)
      BY <1>1, <2>1, AnsweredThen
    <2> QED
      BY <1>2, <1>3, <2>2 DEF Decides
  <1>4. CASE ~c /\ d
    <2>1. s \in Seq(Passing(req)) /\ Answered(t, req, b)
      BY <1>4 DEF Decides
    <2>2. Answered(s \o t, req, b)
      BY <2>1, AnsweredFirst
    <2> QED
      BY <1>2, <1>4, <2>2 DEF Decides
  <1>5. CASE ~c /\ ~d
    <2>1. s \in Seq(Passing(req)) /\ t \in Seq(Passing(req))
      BY <1>5 DEF Decides
    <2>2. s \o t \in Seq(Passing(req))
      BY <2>1, ConcatProperties
    <2> QED
      BY <1>2, <1>5, <2>2 DEF Decides
  <1> QED
    BY <1>3, <1>4, <1>5

\* The first list that decides, decides for all of them together.
LEMMA FlattenDecides ==
    ASSUME NEW req, NEW ss, NEW n \in Nat, ss = [i \in 1 .. n |-> ss[i]],
           NEW C, NEW A, \A i \in 1 .. n : Decides(ss[i], req, C[i], A[i])
    PROVE  /\ FlattenSeq(ss) \in Seq(Route)
           /\ (\A i \in 1 .. n : ~C[i]) => FlattenSeq(ss) \in Seq(Passing(req))
           /\ \A k \in 1 .. n :
                 C[k] /\ (\A i \in 1 .. k - 1 : ~C[i]) => Answered(FlattenSeq(ss), req, A[k])
  <1>1. \A i \in 1 .. n : ss[i] \in Seq(Route)
    BY DEF Decides
  <1>2. ss \in Seq(Seq(Route)) /\ Len(ss) = n
    BY <1>1
  <1>3. \A i \in 1 .. n : (~C[i] => ss[i] \in Seq(Passing(req))) /\ (C[i] => Answered(ss[i], req, A[i]))
    BY DEF Decides
  <1>4. Passing(req) \in SUBSET Route
    BY PassingRoutes
  <1>5. /\ FlattenSeq(ss) \in Seq(Route)
        /\ (\A i \in 1 .. Len(ss) : ss[i] \in Seq(Passing(req))) => FlattenSeq(ss) \in Seq(Passing(req))
    BY ONLY <1>2, <1>4, FlattenParts
  <1>6. ASSUME NEW k \in 1 .. n, C[k], \A i \in 1 .. k - 1 : ~C[i]
        PROVE  Answered(FlattenSeq(ss), req, A[k])
    <2>1. \A i \in 1 .. k - 1 : i \in 1 .. n
      OBVIOUS
    <2>2. \A i \in 1 .. k - 1 : ss[i] \in Seq(Passing(req))
      BY <1>3, <1>6, <2>1
    <2>3. Answered(ss[k], req, A[k])
      BY <1>3, <1>6
    <2> QED
      BY <1>2, <2>2, <2>3, FlattenAnswered
  <1> QED
    BY <1>2, <1>3, <1>5, <1>6
-----------------------------------------------------------------------------
(* The generated routes: the groups of a proxy *)

LEMMA Lists ==
    ASSUME NEW S, NEW x \in S, NEW y \in S
    PROVE  <<x>> \in Seq(S) /\ <<x, y>> \in Seq(S) /\ <<x>> \o <<y>> = <<x, y>>
  <1>1. /\ <<x>> \in Seq(S) /\ <<y>> \in Seq(S) /\ Len(<<x>>) = 1 /\ Len(<<y>>) = 1
        /\ <<x>>[1] = x /\ <<y>>[1] = y
    OBVIOUS
  <1>2. /\ <<x>> \o <<y>> \in Seq(S) /\ Len(<<x>> \o <<y>>) = Len(<<x>>) + Len(<<y>>)
        /\ \A i \in 1 .. Len(<<x>>) + Len(<<y>>) : (<<x>> \o <<y>>)[i] =
              IF i <= Len(<<x>>) THEN <<x>>[i] ELSE <<y>>[i - Len(<<x>>)]
    BY <1>1, ConcatProperties
  <1>3. PICK z : z = <<x>> \o <<y>>
    OBVIOUS
  <1>4. z \in Seq(S) /\ Len(z) = 2 /\ z[1] = x /\ z[2] = y
    BY <1>1, <1>2, <1>3
  <1>5. <<x, y>> \in Seq(S) /\ Len(<<x, y>>) = 2 /\ <<x, y>>[1] = x /\ <<x, y>>[2] = y
    OBVIOUS
  <1>6. \A i \in 1 .. 2 : z[i] = <<x, y>>[i]
    BY <1>4, <1>5
  <1>7. z = <<x, y>>
    BY <1>4, <1>5, <1>6, SeqEqual
  <1> QED
    BY <1>1, <1>3, <1>5, <1>7

\* A route of one host, by its fields.
Fits(r, h, paths, ips, exploit, handle, terminal) ==
    /\ r \in Route
    /\ r.hosts = {h} /\ r.paths = paths /\ r.ips = ips /\ r.exploit = exploit
    /\ r.handle = handle /\ r.terminal = terminal

LEMMA FitsMatch ==
    ASSUME NEW h, NEW paths, NEW ips, NEW exploit, NEW handle, NEW terminal, NEW r, NEW req,
           Fits(r, h, paths, ips, exploit, handle, terminal)
    PROVE  /\ r \in Route /\ r.handle = handle /\ r.terminal = terminal /\ r.hosts = {h}
           /\ RouteMatches(r, req) <=>
                 /\ req.host = h /\ req.path \in paths /\ req.ip \in ips
                 /\ exploit => req.exploit
  BY DEF Fits, RouteMatches

LEMMA HostRouteFits ==
    ASSUME NEW h \in Hosts, NEW handle \in Seq(Handlers), NEW paths \in SUBSET Paths,
           NEW ips \in SUBSET Ips
    PROVE  /\ Fits(HostRoute(h, handle), h, Paths, Ips, FALSE, handle, TRUE)
           /\ Fits([HostRoute(h, handle) EXCEPT !.paths = paths], h, paths, Ips, FALSE, handle, TRUE)
           /\ Fits([HostRoute(h, handle) EXCEPT !.paths = paths, !.ips = ips],
                   h, paths, ips, FALSE, handle, TRUE)
           /\ Fits([HostRoute(h, handle) EXCEPT !.exploit = TRUE], h, Paths, Ips, TRUE, handle, TRUE)
           /\ Fits([HostRoute(h, handle) EXCEPT !.terminal = FALSE],
                   h, Paths, Ips, FALSE, handle, FALSE)
  <1>1. Fits(HostRoute(h, handle), h, Paths, Ips, FALSE, handle, TRUE)
    BY DEF HostRoute, Route, Fits
  <1>2. PICK r : r = HostRoute(h, handle)
    OBVIOUS
  <1>3. Fits(r, h, Paths, Ips, FALSE, handle, TRUE)
    BY <1>1, <1>2
  <1>4. /\ Fits([r EXCEPT !.paths = paths], h, paths, Ips, FALSE, handle, TRUE)
        /\ Fits([r EXCEPT !.paths = paths, !.ips = ips], h, paths, ips, FALSE, handle, TRUE)
        /\ Fits([r EXCEPT !.exploit = TRUE], h, Paths, Ips, TRUE, handle, TRUE)
        /\ Fits([r EXCEPT !.terminal = FALSE], h, Paths, Ips, FALSE, handle, FALSE)
    BY <1>3 DEF Route, Fits
  <1> QED
    BY <1>1, <1>2, <1>4

LEMMA GroupRoutesFit ==
    ASSUME NEW h \in Hosts, NEW paths \in SUBSET Paths, NEW ips \in SUBSET Ips,
           NEW g \in Group, NEW s, AuthHandlers(g, s) \o <<"upstream">> \in Seq(Handlers)
    PROVE  LET auth == AuthHandlers(g, s) \o <<"upstream">>
           IN  /\ Fits(IPDenyRoute(h, paths, ips), h, paths, ips, FALSE, <<"denied">>, TRUE)
               /\ Fits(IPPassRoute(h, paths, ips), h, paths, ips, FALSE, <<"upstream">>, TRUE)
               /\ Fits(AssetsRoute(h), h, Assets, Ips, FALSE, <<"upstream">>, TRUE)
               /\ Fits(AuthRoute(h, paths, g, s), h, paths, Ips \ Granted(g), FALSE, auth, TRUE)
               /\ Fits(AuthRouteRestricted(h, paths, g, s), h, paths,
                       IF Granted(g) = {} THEN Ips ELSE Granted(g), FALSE, auth, TRUE)
  <1> DEFINE auth == AuthHandlers(g, s) \o <<"upstream">>
             some == IF Granted(g) = {} THEN Ips ELSE Granted(g)
  <1>1. "denied" \in Handlers /\ "upstream" \in Handlers
    BY DEF Handlers
  <1>2. \A x \in Handlers : <<x>> \in Seq(Handlers)
    OBVIOUS
  <1>3. <<"denied">> \in Seq(Handlers) /\ <<"upstream">> \in Seq(Handlers) /\ auth \in Seq(Handlers)
    BY <1>1, <1>2
  <1>4. Assets \in SUBSET Paths
    BY ConfigAssumption
  <1>5. some \in SUBSET Ips /\ Ips \ Granted(g) \in SUBSET Ips
    BY DEF Granted, Group
  <1>6. Fits(IPDenyRoute(h, paths, ips), h, paths, ips, FALSE, <<"denied">>, TRUE)
    BY <1>3, HostRouteFits DEF IPDenyRoute
  <1>7. Fits(IPPassRoute(h, paths, ips), h, paths, ips, FALSE, <<"upstream">>, TRUE)
    BY <1>3, HostRouteFits DEF IPPassRoute, Upstream
  <1>8. Fits(AssetsRoute(h), h, Assets, Ips, FALSE, <<"upstream">>, TRUE)
    BY <1>3, <1>4, HostRouteFits DEF AssetsRoute, AssetMatcher, Upstream
  <1>9. Fits(AuthRoute(h, paths, g, s), h, paths, Ips \ Granted(g), FALSE, auth, TRUE)
    BY <1>3, <1>5, HostRouteFits DEF AuthRoute, Upstream
  <1>10. Fits(AuthRouteRestricted(h, paths, g, s), h, paths, some, FALSE, auth, TRUE)
    BY <1>3, <1>5, HostRouteFits DEF AuthRouteRestricted, Upstream
  <1> QED
    BY <1>6, <1>7, <1>8, <1>9, <1>10

LEMMA PlainAnswers ==
    ASSUME NEW req
    PROVE  /\ \A f \in {"denied", "upstream", "redirect", "files", "blocked", "l4page",
                        "goElsewhere", "notFound", "metrics", "unavailable"} :
                 Respond(f, req) = f /\ f # "next" /\ Answer(<<f>>, req) = f
           /\ Answer(<<"rewrite">>, req) = "next"
           /\ Answer(<<"basic", "metrics">>, req) =
                 IF req.basic THEN "metrics" ELSE "unauthorized"
  <1>1. \A f \in {"denied", "upstream", "redirect", "files", "blocked", "l4page",
                  "goElsewhere", "notFound", "metrics", "unavailable"} :
           Respond(f, req) = f /\ f # "next"
    BY DEF Respond
  <1>2. /\ Respond("rewrite", req) = "next"
        /\ Respond("basic", req) = IF req.basic THEN "next" ELSE "unauthorized"
    BY DEF Respond
  <1>3. \A f, g : /\ Answer(<<f>>, req) = Respond(f, req)
                  /\ Answer(<<f, g>>, req) =
                       IF Respond(f, req) # "next" THEN Respond(f, req) ELSE Respond(g, req)
    BY AnswerLists
  <1>4. Answer(<<"rewrite">>, req) = "next"
    BY <1>2, <1>3
  <1>5. Answer(<<"basic", "metrics">>, req) = IF req.basic THEN "metrics" ELSE "unauthorized"
    BY <1>1, <1>2, <1>3
  <1> QED
    BY <1>1, <1>3, <1>4, <1>5

\* The handlers of a group before the upstreams ask for what Login says.
LEMMA LoginAnswers ==
    ASSUME NEW g, NEW s, NEW req
    PROVE  /\ AuthHandlers(g, s) \o <<"upstream">> \in Seq(Handlers)
           /\ Answer(AuthHandlers(g, s) \o <<"upstream">>, req) = Login(g, s, req)
           /\ Login(g, s, req) # "next"
  <1> DEFINE f == ForwardAuth(g, s)
  <1>1. f \in {"external", "unavailable", "forward", "forwardOnly"}
    BY DEF ForwardAuth, ExternalProvider, WaygatesForwardAuth
  <1>2. /\ \A x \in Handlers : /\ <<x>> \in Seq(Handlers)
                               /\ <<x>> \o <<"upstream">> = <<x, "upstream">>
                               /\ <<x, "upstream">> \in Seq(Handlers)
        /\ f \in Handlers /\ "basic" \in Handlers /\ "upstream" \in Handlers
    <2>1. f \in Handlers /\ "basic" \in Handlers /\ "upstream" \in Handlers
      BY <1>1 DEF Handlers
    <2> QED
      BY <2>1, Lists
  <1>3. /\ \A x : Answer(<<x, "upstream">>, req) =
                    IF Respond(x, req) # "next" THEN Respond(x, req) ELSE "upstream"
        /\ Answer(<<"upstream">>, req) = "upstream"
    <2>1. \A x, y : /\ Answer(<<x>>, req) = Respond(x, req)
                    /\ Answer(<<x, y>>, req) =
                         IF Respond(x, req) # "next" THEN Respond(x, req) ELSE Respond(y, req)
      BY ONLY AnswerLists
    <2>2. Respond("upstream", req) = "upstream" /\ Answer(<<"upstream">>, req) = "upstream"
      BY PlainAnswers
    <2> QED
      BY <2>1, <2>2
  <1>4. CASE HasSecureAuth(g)
    <2>1. AuthHandlers(g, s) \o <<"upstream">> = <<f, "upstream">>
      BY <1>1, <1>2, <1>4 DEF AuthHandlers
    <2>2. Respond(f, req) = "next" <=> req.verify = 200 /\ (g.external \/ s.verifyURL)
      BY DEF Respond, ForwardAuth, ExternalProvider, WaygatesForwardAuth
    <2> HIDE DEF f
    <2>3. Login(g, s, req) = IF Respond(f, req) # "next" THEN Respond(f, req) ELSE "upstream"
      BY <1>4, <2>2 DEF Login, f
    <2> QED
      BY <1>1, <1>2, <1>3, <2>1, <2>3
  <1>5. CASE ~HasSecureAuth(g) /\ g.basic
    <2>1. AuthHandlers(g, s) \o <<"upstream">> = <<"basic", "upstream">>
      BY <1>2, <1>5 DEF AuthHandlers, BasicAuth
    <2>2. Respond("basic", req) = IF req.basic THEN "next" ELSE "unauthorized"
      BY DEF Respond
    <2> QED
      BY <1>2, <1>3, <1>5, <2>1, <2>2 DEF Login
  <1>6. CASE ~HasSecureAuth(g) /\ ~g.basic
    <2>1. AuthHandlers(g, s) \o <<"upstream">> = <<"upstream">>
      BY <1>6 DEF AuthHandlers
    <2>2. <<"upstream">> \in Seq(Handlers)
      BY <1>2
    <2>3. Login(g, s, req) = "upstream"
      BY <1>6 DEF Login
    <2> QED
      BY <1>3, <2>1, <2>2, <2>3
  <1> QED
    BY <1>4, <1>5, <1>6

LEMMA SameDecides ==
    ASSUME NEW s, NEW req, NEW c, NEW a, Decides(s, req, c, a), NEW d, NEW b, c <=> d, c => a = b
    PROVE  Decides(s, req, d, b)
  BY DEF Decides

LEMMA FitsDecides ==
    ASSUME NEW h, NEW paths, NEW ips, NEW handle, NEW r, NEW req,
           NEW exploit \in BOOLEAN, Fits(r, h, paths, ips, exploit, handle, TRUE),
           NEW a, Answer(handle, req) = a, a # "next"
    PROVE  Decides(<<r>>, req, /\ req.host = h /\ req.path \in paths /\ req.ip \in ips
                               /\ exploit => req.exploit, a)
  <1>1. /\ r \in Route /\ r.handle = handle
        /\ RouteMatches(r, req) <=>
              /\ req.host = h /\ req.path \in paths /\ req.ip \in ips
              /\ exploit => req.exploit
    BY DEF Fits, RouteMatches
  <1> QED
    BY <1>1, RouteDecides

\* The routes of a group answer what it says, to requests it says something about.
LEMMA GroupDecides ==
    ASSUME NEW h \in Hosts, NEW paths \in SUBSET Paths, NEW g \in Group, NEW s,
           NEW req, req.path \in Paths, req.ip \in Ips
    PROVE  Decides(ACLRoutes(h, paths, g, s), req,
                   req.host = h /\ HasMethods(g) /\ req.path \in paths \cup Assets,
                   Verdict(g, s, req.path \in paths, req))
  <1> DEFINE covered == req.path \in paths
             login == Login(g, s, req)
             restricted == IF Granted(g) = {} THEN Ips ELSE Granted(g)
             On(where, ips) == req.host = h /\ req.path \in where /\ req.ip \in ips
             deny == When(g.deny # {}, IPDenyRoute(h, paths, g.deny))
             bypass == When(g.bypass # {}, IPPassRoute(h, paths, g.bypass))
             allow == When(g.allow # {}, IPPassRoute(h, paths, g.allow))
             others == When(Granted(g) # {}, IPDenyRoute(h, paths, Ips \ Granted(g)))
             anyEnd == <<AssetsRoute(h), AuthRoute(h, paths, g, s)>>
             allEnd == <<AssetsRoute(h), AuthRouteRestricted(h, paths, g, s)>>
  <1>1. /\ AuthHandlers(g, s) \o <<"upstream">> \in Seq(Handlers)
        /\ Answer(AuthHandlers(g, s) \o <<"upstream">>, req) = login
        /\ login # "next"
    BY LoginAnswers
  <1>2. /\ g.deny \in SUBSET Ips /\ g.bypass \in SUBSET Ips /\ g.allow \in SUBSET Ips
        /\ Ips \ Granted(g) \in SUBSET Ips /\ g.mode \in {"any", "all"}
    BY DEF Group
  <1>3. /\ Answer(<<"denied">>, req) = "denied" /\ Answer(<<"upstream">>, req) = "upstream"
        /\ "denied" # "next" /\ "upstream" # "next"
    BY PlainAnswers
  <1>4. \A ips \in SUBSET Ips :
           /\ Decides(<<IPDenyRoute(h, paths, ips)>>, req, On(paths, ips), "denied")
           /\ Decides(<<IPPassRoute(h, paths, ips)>>, req, On(paths, ips), "upstream")
    <2> TAKE ips \in SUBSET Ips
    <2>1. /\ Fits(IPDenyRoute(h, paths, ips), h, paths, ips, FALSE, <<"denied">>, TRUE)
          /\ Fits(IPPassRoute(h, paths, ips), h, paths, ips, FALSE, <<"upstream">>, TRUE)
      BY <1>1, GroupRoutesFit
    <2>2. Decides(<<IPDenyRoute(h, paths, ips)>>, req,
                  On(paths, ips) /\ (FALSE => req.exploit), "denied")
      BY <1>3, <2>1, FitsDecides
    <2>3. Decides(<<IPPassRoute(h, paths, ips)>>, req,
                  On(paths, ips) /\ (FALSE => req.exploit), "upstream")
      BY <1>3, <2>1, FitsDecides
    <2> QED
      BY <2>2, <2>3, SameDecides
  <1>5. /\ Decides(<<AssetsRoute(h)>>, req, On(Assets, Ips), "upstream")
        /\ Decides(<<AuthRoute(h, paths, g, s)>>, req, On(paths, Ips \ Granted(g)), login)
        /\ Decides(<<AuthRouteRestricted(h, paths, g, s)>>, req, On(paths, restricted), login)
    <2>1. LET auth == AuthHandlers(g, s) \o <<"upstream">>
          IN  /\ Fits(AssetsRoute(h), h, Assets, Ips, FALSE, <<"upstream">>, TRUE)
              /\ Fits(AuthRoute(h, paths, g, s), h, paths, Ips \ Granted(g), FALSE, auth, TRUE)
              /\ Fits(AuthRouteRestricted(h, paths, g, s), h, paths, restricted, FALSE, auth, TRUE)
      BY <1>1, <1>2, GroupRoutesFit
    <2> HIDE DEF restricted, login
    <2>5. PICK auth, rest, last :
             /\ Fits(AuthRoute(h, paths, g, s), h, paths, rest, FALSE, auth, TRUE)
             /\ Fits(AuthRouteRestricted(h, paths, g, s), h, paths, last, FALSE, auth, TRUE)
             /\ Answer(auth, req) = login /\ login # "next"
             /\ rest = Ips \ Granted(g) /\ last = restricted
      BY <1>1, <2>1
    <2>6. Answer(auth, req) = login /\ login # "next"
      BY <2>5
    <2>7. Fits(AuthRoute(h, paths, g, s), h, paths, rest, FALSE, auth, TRUE)
      BY <2>5
    <2>8. Fits(AuthRouteRestricted(h, paths, g, s), h, paths, last, FALSE, auth, TRUE)
      BY <2>5
    <2>2. Decides(<<AssetsRoute(h)>>, req, On(Assets, Ips) /\ (FALSE => req.exploit), "upstream")
      BY <1>3, <2>1, FitsDecides
    <2>3. Decides(<<AuthRoute(h, paths, g, s)>>, req,
                  On(paths, rest) /\ (FALSE => req.exploit), login)
      BY ONLY <2>6, <2>7, FitsDecides
    <2>4. Decides(<<AuthRouteRestricted(h, paths, g, s)>>, req,
                  On(paths, last) /\ (FALSE => req.exploit), login)
      BY ONLY <2>6, <2>8, FitsDecides
    <2> QED
      BY <2>2, <2>3, <2>4, <2>5, SameDecides
  <1> HIDE DEF On, restricted, login
  <1>6. /\ Decides(deny, req, g.deny # {} /\ On(paths, g.deny), "denied")
        /\ Decides(bypass, req, g.bypass # {} /\ On(paths, g.bypass), "upstream")
        /\ Decides(allow, req, g.allow # {} /\ On(paths, g.allow), "upstream")
        /\ Decides(others, req, Granted(g) # {} /\ On(paths, Ips \ Granted(g)), "denied")
    BY <1>2, <1>4, WhenDecides
  <1>7. /\ Decides(anyEnd, req, On(Assets, Ips) \/ On(paths, Ips \ Granted(g)),
                   IF On(Assets, Ips) THEN "upstream" ELSE login)
        /\ Decides(allEnd, req, On(Assets, Ips) \/ On(paths, restricted),
                   IF On(Assets, Ips) THEN "upstream" ELSE login)
    <2>1. /\ AssetsRoute(h) \in Route /\ AuthRoute(h, paths, g, s) \in Route
          /\ AuthRouteRestricted(h, paths, g, s) \in Route
      BY <1>1, <1>2, GroupRoutesFit DEF Fits
    <2>2. /\ anyEnd = <<AssetsRoute(h)>> \o <<AuthRoute(h, paths, g, s)>>
          /\ allEnd = <<AssetsRoute(h)>> \o <<AuthRouteRestricted(h, paths, g, s)>>
      BY <2>1, Lists
    <2>3. Decides(<<AssetsRoute(h)>> \o <<AuthRoute(h, paths, g, s)>>, req,
                  On(Assets, Ips) \/ On(paths, Ips \ Granted(g)),
                  IF On(Assets, Ips) THEN "upstream" ELSE login)
      BY <1>5, JoinDecides
    <2>4. Decides(<<AssetsRoute(h)>> \o <<AuthRouteRestricted(h, paths, g, s)>>, req,
                  On(Assets, Ips) \/ On(paths, restricted),
                  IF On(Assets, Ips) THEN "upstream" ELSE login)
      BY <1>5, JoinDecides
    <2> QED
      BY <2>2, <2>3, <2>4
  <1> HIDE DEF deny, bypass, allow, others, anyEnd, allEnd, login
  <1>8. CASE ~HasMethods(g)
    <2>1. ACLRoutes(h, paths, g, s) = <<>>
      BY <1>8 DEF ACLRoutes
    <2>2. <<>> \in Seq(Route) /\ <<>> \in Seq(Passing(req))
      OBVIOUS
    <2> QED
      BY <1>8, <2>1, <2>2 DEF Decides
  <1>9. CASE HasMethods(g) /\ g.mode = "any"
    <2> DEFINE D == g.deny # {} /\ On(paths, g.deny)
               B == g.bypass # {} /\ On(paths, g.bypass)
               A == g.allow # {} /\ On(paths, g.allow)
               E == On(Assets, Ips)
               L == On(paths, Ips \ Granted(g))
    <2>1. ACLRoutes(h, paths, g, s) = ((deny \o bypass) \o allow) \o anyEnd
      BY <1>9 DEF ACLRoutes, AnyModeRoutes, deny, bypass, allow, anyEnd
    <2>2. Decides(deny \o bypass, req, D \/ B, IF D THEN "denied" ELSE "upstream")
      BY <1>6, JoinDecides
    <2>3. Decides((deny \o bypass) \o allow, req, (D \/ B) \/ A,
                  IF D \/ B THEN (IF D THEN "denied" ELSE "upstream") ELSE "upstream")
      BY <1>6, <2>2, JoinDecides
    <2>4. Decides(((deny \o bypass) \o allow) \o anyEnd, req, ((D \/ B) \/ A) \/ (E \/ L),
                  IF (D \/ B) \/ A
                  THEN (IF D \/ B THEN (IF D THEN "denied" ELSE "upstream") ELSE "upstream")
                  ELSE (IF E THEN "upstream" ELSE login))
      BY <1>7, <2>3, JoinDecides
    <2>5. /\ D <=> req.host = h /\ covered /\ req.ip \in g.deny
          /\ B \/ A <=> req.host = h /\ covered /\ req.ip \in Granted(g)
          /\ E <=> req.host = h /\ req.path \in Assets
          /\ L <=> req.host = h /\ covered /\ req.ip \notin Granted(g)
      BY DEF On, Granted
    <2> HIDE DEF D, B, A, E, L
    <2>6. ((D \/ B) \/ A) \/ (E \/ L) <=>
             req.host = h /\ HasMethods(g) /\ req.path \in paths \cup Assets
      BY <1>9, <2>5
    <2>7. ((D \/ B) \/ A) \/ (E \/ L) =>
             Verdict(g, s, req.path \in paths, req) =
                 IF (D \/ B) \/ A
                 THEN (IF D \/ B THEN (IF D THEN "denied" ELSE "upstream") ELSE "upstream")
                 ELSE (IF E THEN "upstream" ELSE login)
      BY <1>9, <2>5 DEF Verdict, login
    <2> QED
      BY <2>1, <2>4, <2>6, <2>7, SameDecides
  <1>10. CASE HasMethods(g) /\ g.mode = "all"
    <2> DEFINE D == g.deny # {} /\ On(paths, g.deny)
               O == Granted(g) # {} /\ On(paths, Ips \ Granted(g))
               E == On(Assets, Ips)
               L == On(paths, restricted)
    <2>1. ACLRoutes(h, paths, g, s) = (deny \o others) \o allEnd
      BY <1>10 DEF ACLRoutes, AllModeRoutes, deny, others, allEnd
    <2>2. Decides(deny \o others, req, D \/ O, IF D THEN "denied" ELSE "denied")
      BY <1>6, JoinDecides
    <2>3. Decides((deny \o others) \o allEnd, req, (D \/ O) \/ (E \/ L),
                  IF D \/ O THEN (IF D THEN "denied" ELSE "denied")
                  ELSE (IF E THEN "upstream" ELSE login))
      BY <1>7, <2>2, JoinDecides
    <2>4. /\ D <=> req.host = h /\ covered /\ req.ip \in g.deny
          /\ O <=> req.host = h /\ covered /\ Granted(g) # {} /\ req.ip \notin Granted(g)
          /\ E <=> req.host = h /\ req.path \in Assets
          /\ L <=> req.host = h /\ covered /\ (Granted(g) = {} \/ req.ip \in Granted(g))
      BY DEF On, restricted
    <2> HIDE DEF D, O, E, L
    <2>5. (D \/ O) \/ (E \/ L) <=>
             req.host = h /\ HasMethods(g) /\ req.path \in paths \cup Assets
      BY <1>10, <2>4
    <2>6. (D \/ O) \/ (E \/ L) =>
             Verdict(g, s, req.path \in paths, req) =
                 IF D \/ O THEN (IF D THEN "denied" ELSE "denied")
                 ELSE (IF E THEN "upstream" ELSE login)
      BY <1>10, <2>4 DEF Verdict, login
    <2> QED
      BY <2>1, <2>3, <2>5, <2>6, SameDecides
  <1> QED
    BY <1>2, <1>8, <1>9, <1>10
-----------------------------------------------------------------------------
(* The generated routes: a whole configuration *)

\* A database, or what could be read of it.
Readable(db) ==
    /\ DOMAIN db.rows \subseteq ProxyHosts /\ \A h \in DOMAIN db.rows : db.rows[h] \in ProxyRow
    /\ \A g \in DOMAIN db.groups : db.groups[g] \in Group
    /\ db.assigns \subseteq Assignment /\ IsFiniteSet(db.assigns)
    /\ \A a, b \in db.assigns : (a.host = b.host /\ a.priority = b.priority) => a = b
    /\ \A port \in DOMAIN db.l4table : db.l4table[port] \in L4ProxyRow
    /\ db.settings \in Settings

LEMMA HeardProperties ==
    ASSUME NEW db, Readable(db), NEW h, NEW req
    PROVE  /\ Sortable(Enabled(db.assigns, h)) /\ Enabled(db.assigns, h) \in SUBSET Assignment
           /\ Heard(db, req) \in SUBSET Enabled(db.assigns, req.host)
           /\ Heard(db, req) # {} =>
                 \E a \in Heard(db, req) : \A b \in Heard(db, req) : a.priority <= b.priority
  <1> DEFINE S == Enabled(db.assigns, h)
             H == Heard(db, req)
             key == [a \in H |-> a.priority]
  <1>1. \A host : /\ Enabled(db.assigns, host) \in SUBSET db.assigns
                  /\ Enabled(db.assigns, host) \in SUBSET Assignment
                  /\ \A a \in Enabled(db.assigns, host) : a.host = host
    BY DEF Enabled, Readable
  <1>2. H \in SUBSET db.assigns /\ H \in SUBSET Enabled(db.assigns, req.host)
    BY DEF Heard, Enabled
  <1>3. IsFiniteSet(S) /\ IsFiniteSet(H)
    BY <1>1, <1>2, FS_Subset DEF Readable
  <1>4. \A a \in Assignment : a.priority \in Int
    BY DEF Assignment
  <1>5. \A a, b \in db.assigns : (a.host = b.host /\ a.priority = b.priority) => a = b
    BY DEF Readable
  <1> HIDE DEF S, H
  <1>6. Sortable(S)
    BY <1>1, <1>3, <1>4, <1>5 DEF Sortable, S
  <1>7. \A a \in H : a \in db.assigns /\ a.host = req.host /\ a.priority \in Int
    BY <1>1, <1>2, <1>4
  <1>8. \A a, b \in H : key[a] = key[b] => a = b
    BY <1>5, <1>7
  <1>9. key \in [H -> Int]
    BY <1>7
  <1>10. ASSUME H # {} PROVE \E a \in H : \A b \in H : a.priority <= b.priority
    <2>1. \A a \in H : key[a] = a.priority
      OBVIOUS
    <2> HIDE DEF key
    <2>2. \E a \in H : \A b \in H : key[a] <= key[b]
      BY <1>3, <1>8, <1>9, <1>10, SomeFirst
    <2> QED
      BY <2>1, <2>2
  <1> QED
    BY <1>1, <1>2, <1>6, <1>10 DEF S, H

LEMMA OwnRoute ==
    ASSUME NEW h \in Hosts, NEW req, req.path \in Paths, req.ip \in Ips,
           NEW f \in {"upstream", "redirect", "files"}
    PROVE  Decides(<<HostRoute(h, <<f>>)>>, req, req.host = h, f)
  <1>1. f \in Handlers
    BY DEF Handlers
  <1>2. <<f>> \in Seq(Handlers)
    BY <1>1, Lists
  <1>3. Fits(HostRoute(h, <<f>>), h, Paths, Ips, FALSE, <<f>>, TRUE)
    BY <1>2, HostRouteFits
  <1>4. Answer(<<f>>, req) = f /\ f # "next"
    BY PlainAnswers
  <1>5. Decides(<<HostRoute(h, <<f>>)>>, req,
                /\ req.host = h /\ req.path \in Paths /\ req.ip \in Ips
                /\ FALSE => req.exploit, f)
    BY ONLY <1>3, <1>4, FitsDecides
  <1> QED
    BY <1>5, SameDecides

\* The routes of a proxy with groups answer what the groups say.
LEMMA ReverseProxyDecides ==
    ASSUME NEW db, Readable(db), NEW h \in Hosts, NEW req, req.path \in Paths, req.ip \in Ips
    PROVE  /\ Decides(ReverseProxyRoutes(h, db), req, req.host = h, GroupsSay(db, req))
           /\ \E s \in Seq(Route) : ReverseProxyRoutes(h, db) = s \o <<HostRoute(h, <<"upstream">>)>>
  <1> DEFINE S == Enabled(db.assigns, h)
             sorted == ByPriority(S)
             n == Len(sorted)
             Of(a) == IF a.group \in DOMAIN db.groups
                      THEN ACLRoutes(h, a.paths, db.groups[a.group], db.settings) ELSE <<>>
             ss == [i \in 1 .. n |-> Of(sorted[i])]
             Hears(a) == /\ req.host = h /\ a.group \in DOMAIN db.groups
                         /\ HasMethods(db.groups[a.group]) /\ req.path \in a.paths \cup Assets
             Says(a) == Verdict(db.groups[a.group], db.settings, req.path \in a.paths, req)
             C == [i \in 1 .. n |-> Hears(sorted[i])]
             A == [i \in 1 .. n |-> Says(sorted[i])]
             own == <<HostRoute(h, <<"upstream">>)>>
  <1>1. Sortable(S) /\ S \in SUBSET Assignment
    BY HeardProperties
  <1>2. /\ sorted \in Seq(S) /\ DOMAIN sorted = 1 .. n
        /\ \A i, j \in DOMAIN sorted : i < j => sorted[i].priority < sorted[j].priority
        /\ \A a \in S : \E i \in DOMAIN sorted : sorted[i] = a
    BY <1>1, ByPriorityProperties
  <1>3. ReverseProxyRoutes(h, db) = FlattenSeq(ss) \o own
    BY <1>2 DEF ReverseProxyRoutes, Upstream
  <1> HIDE DEF sorted, S
  <1>4. n \in Nat /\ \A i \in 1 .. n : sorted[i] \in S
    BY <1>2
  <1>5. Decides(own, req, req.host = h, "upstream")
    BY OwnRoute
  <1>6. \A a \in S : Decides(Of(a), req, Hears(a), Says(a))
    <2> TAKE a \in S
    <2>1. CASE a.group \in DOMAIN db.groups
      <3>1. a.paths \in SUBSET Paths /\ db.groups[a.group] \in Group
        BY <1>1, <2>1 DEF Assignment, Readable
      <3>2. Decides(ACLRoutes(h, a.paths, db.groups[a.group], db.settings), req,
                    req.host = h /\ HasMethods(db.groups[a.group]) /\ req.path \in a.paths \cup Assets,
                    Verdict(db.groups[a.group], db.settings, req.path \in a.paths, req))
        BY <3>1, GroupDecides
      <3> QED
        BY <2>1, <3>2, SameDecides
    <2>2. CASE a.group \notin DOMAIN db.groups
      <3>1. <<>> \in Seq(Route) /\ <<>> \in Seq(Passing(req))
        OBVIOUS
      <3> QED
        BY <2>2, <3>1 DEF Decides
    <2> QED
      BY <2>1, <2>2
  <1>7. \A i \in 1 .. n : ss[i] = Of(sorted[i]) /\ C[i] = Hears(sorted[i]) /\ A[i] = Says(sorted[i])
    OBVIOUS
  <1>8. ss = [i \in 1 .. n |-> ss[i]]
    OBVIOUS
  <1> HIDE DEF own, Of, Hears, Says, ss, C, A, n
  <1>9. \A i \in 1 .. n : Decides(ss[i], req, C[i], A[i])
    BY <1>4, <1>6, <1>7
  <1>10. /\ FlattenSeq(ss) \in Seq(Route)
         /\ (\A i \in 1 .. n : ~C[i]) => FlattenSeq(ss) \in Seq(Passing(req))
         /\ \A k \in 1 .. n :
               C[k] /\ (\A i \in 1 .. k - 1 : ~C[i]) => Answered(FlattenSeq(ss), req, A[k])
    BY ONLY <1>4, <1>8, <1>9, FlattenDecides
  <1>13. \E s \in Seq(Route) : ReverseProxyRoutes(h, db) = s \o <<HostRoute(h, <<"upstream">>)>>
    BY <1>3, <1>10 DEF own
  <1>11. CASE req.host # h
    <2>1. \A i \in 1 .. n : ~C[i]
      BY <1>7, <1>11 DEF Hears
    <2>2. Decides(FlattenSeq(ss), req, FALSE, "upstream")
      BY <1>10, <2>1 DEF Decides
    <2>3. Decides(FlattenSeq(ss) \o own, req, FALSE \/ req.host = h,
                  IF FALSE THEN "upstream" ELSE "upstream")
      BY <1>5, <2>2, JoinDecides
    <2>4. Decides(ReverseProxyRoutes(h, db), req, req.host = h, GroupsSay(db, req))
      BY <1>3, <1>11, <2>3, SameDecides
    <2> QED
      BY <1>13, <2>4
  <1>12. CASE req.host = h
    <2>1. Heard(db, req) = {a \in S : Hears(a)}
      BY <1>12 DEF Heard, S, Enabled, Hears
    <2>2. CASE Heard(db, req) = {}
      <3>1. \A i \in 1 .. n : ~C[i]
        BY <1>4, <1>7, <2>1, <2>2
      <3>2. Decides(FlattenSeq(ss), req, FALSE, "upstream")
        BY <1>10, <3>1 DEF Decides
      <3>3. Decides(FlattenSeq(ss) \o own, req, FALSE \/ req.host = h,
                    IF FALSE THEN "upstream" ELSE "upstream")
        BY <1>5, <3>2, JoinDecides
      <3>4. GroupsSay(db, req) = "upstream"
        BY <2>2 DEF GroupsSay
      <3>5. Decides(ReverseProxyRoutes(h, db), req, req.host = h, GroupsSay(db, req))
        BY <1>3, <3>3, <3>4, SameDecides
      <3> QED
        BY <1>13, <3>5
    <2>3. CASE Heard(db, req) # {}
      <3>1. PICK first : first = CHOOSE a \in Heard(db, req) :
                                    \A b \in Heard(db, req) : a.priority <= b.priority
        OBVIOUS
      <3>2. first \in Heard(db, req) /\ \A b \in Heard(db, req) : first.priority <= b.priority
        <4>1. \E a \in Heard(db, req) : \A b \in Heard(db, req) : a.priority <= b.priority
          BY <2>3, HeardProperties
        <4> QED
          BY <3>1, <4>1, Zenon
      <3>3. GroupsSay(db, req) = Says(first)
        BY <2>3, <3>1 DEF GroupsSay, Says
      <3>4. PICK k \in 1 .. n : sorted[k] = first
        BY <1>2, <2>1, <3>2
      <3>5. C[k] /\ A[k] = Says(first)
        BY <1>7, <2>1, <3>2, <3>4
      <3>6. \A i \in 1 .. k - 1 : ~C[i]
        <4> SUFFICES ASSUME NEW i \in 1 .. k - 1, C[i] PROVE FALSE
          OBVIOUS
        <4>1. i \in 1 .. n /\ i < k
          BY <1>4
        <4>2. sorted[i] \in Heard(db, req)
          BY <1>4, <1>7, <2>1, <4>1
        <4>3. first.priority <= sorted[i].priority
          BY <3>2, <4>2
        <4>4. sorted[i].priority < sorted[k].priority
          BY <1>2, <4>1
        <4>5. first.priority \in Int /\ sorted[i].priority \in Int
          BY <1>1, <2>1, <3>2, <4>2 DEF Assignment
        <4> QED
          BY <3>4, <4>3, <4>4, <4>5
      <3>7. Answered(FlattenSeq(ss), req, Says(first))
        BY <1>10, <3>5, <3>6
      <3>8. Decides(FlattenSeq(ss), req, TRUE, Says(first))
        BY <1>10, <3>7 DEF Decides
      <3>9. Decides(FlattenSeq(ss) \o own, req, TRUE \/ req.host = h,
                    IF TRUE THEN Says(first) ELSE "upstream")
        BY <1>5, <3>8, JoinDecides
      <3>10. Decides(ReverseProxyRoutes(h, db), req, req.host = h, GroupsSay(db, req))
        BY <1>3, <1>12, <3>3, <3>9, SameDecides
      <3> QED
        BY <1>13, <3>10
    <2> QED
      BY <2>2, <2>3
  <1> QED
    BY <1>11, <1>12

\* A route that does not end the search, or one of a single host that does.
LEMMA OneDecides ==
    ASSUME NEW h \in Hosts, NEW handle \in Seq(Handlers), NEW a, NEW req,
           req.path \in Paths, req.ip \in Ips, req.exploit \in BOOLEAN, Answer(handle, req) = a
    PROVE  /\ a # "next" => Decides(<<[HostRoute(h, handle) EXCEPT !.exploit = TRUE]>>, req,
                                    req.host = h /\ req.exploit, a)
           /\ a # "next" => Decides(<<[HostRoute(h, handle) EXCEPT !.terminal = FALSE]>>, req,
                                    req.host = h, a)
           /\ a = "next" => \A b : Decides(<<[HostRoute(h, handle) EXCEPT !.terminal = FALSE]>>,
                                           req, FALSE, b)
  <1>1. PICK r1, r2 : /\ r1 = [HostRoute(h, handle) EXCEPT !.exploit = TRUE]
                      /\ r2 = [HostRoute(h, handle) EXCEPT !.terminal = FALSE]
    OBVIOUS
  <1>2. /\ Fits(r1, h, Paths, Ips, TRUE, handle, TRUE)
        /\ Fits(r2, h, Paths, Ips, FALSE, handle, FALSE)
    BY <1>1, HostRouteFits
  <1>3. /\ r1 \in Route /\ r1.handle = handle
        /\ RouteMatches(r1, req) <=> req.host = h /\ req.exploit
    BY <1>2 DEF Fits, RouteMatches
  <1>4. /\ r2 \in Route /\ r2.handle = handle /\ ~r2.terminal
        /\ RouteMatches(r2, req) <=> req.host = h
    BY <1>2 DEF Fits, RouteMatches
  <1>5. ASSUME a # "next" PROVE Decides(<<r1>>, req, req.host = h /\ req.exploit, a)
    BY <1>3, <1>5, RouteDecides
  <1>6. ASSUME a # "next" PROVE Decides(<<r2>>, req, req.host = h, a)
    BY <1>4, <1>6, RouteDecides
  <1>7. ASSUME a = "next", NEW b PROVE Decides(<<r2>>, req, FALSE, b)
    <2>1. r2 \in Passing(req)
      BY <1>4, <1>7 DEF Passing
    <2>2. <<r2>> \in Seq(Route) /\ <<r2>> \in Seq(Passing(req))
      BY <1>4, <2>1
    <2> QED
      BY <2>2 DEF Decides
  <1> QED
    BY <1>1, <1>5, <1>6, <1>7

LEMMA ProxyDecides ==
    ASSUME NEW db, Readable(db), NEW h \in Hosts, NEW row \in ProxyRow, NEW req,
           req.path \in Paths, req.ip \in Ips, req.exploit \in BOOLEAN
    PROVE  Decides(ProxyRoutes(h, row, db), req, row.active /\ row.complete /\ req.host = h,
                   IF row.blockExploits /\ req.exploit THEN "blocked"
                   ELSE CASE row.type = "reverse_proxy" -> GroupsSay(db, req)
                          [] row.type = "redirect" -> "redirect"
                          [] row.type = "static" -> "files")
  <1> DEFINE guard == IF row.blockExploits THEN SecurityRoutes(h) ELSE <<>>
             routes == CASE row.type = "reverse_proxy" -> ReverseProxyRoutes(h, db)
                         [] row.type = "redirect" -> RedirectRoutes(h)
                         [] row.type = "static" -> StaticRoutes(h, row)
             says == CASE row.type = "reverse_proxy" -> GroupsSay(db, req)
                       [] row.type = "redirect" -> "redirect"
                       [] row.type = "static" -> "files"
             C == row.blockExploits /\ (req.host = h /\ req.exploit)
  <1>1. row.active \in BOOLEAN /\ row.complete \in BOOLEAN /\ row.blockExploits \in BOOLEAN
        /\ row.tryFiles \in BOOLEAN /\ row.type \in {"reverse_proxy", "redirect", "static"}
    BY DEF ProxyRow
  <1>2. <<"blocked">> \in Seq(Handlers) /\ <<"rewrite">> \in Seq(Handlers)
    <2>1. "blocked" \in Handlers /\ "rewrite" \in Handlers
      BY DEF Handlers
    <2> QED
      BY <2>1, Lists
  <1>3. /\ Answer(<<"blocked">>, req) = "blocked" /\ "blocked" # "next"
        /\ Answer(<<"rewrite">>, req) = "next"
    BY PlainAnswers
  <1>4. Decides(guard, req, C, "blocked")
    <2>1. guard = When(row.blockExploits, [HostRoute(h, <<"blocked">>) EXCEPT !.exploit = TRUE])
      BY DEF When, SecurityRoutes
    <2>2. Decides(<<[HostRoute(h, <<"blocked">>) EXCEPT !.exploit = TRUE]>>, req,
                  req.host = h /\ req.exploit, "blocked")
      BY <1>2, <1>3, OneDecides
    <2> QED
      BY <1>1, <2>1, <2>2, WhenDecides
  <1>5. CASE ~row.active \/ ~row.complete
    <2>1. ProxyRoutes(h, row, db) = <<>>
      BY <1>5 DEF ProxyRoutes, Buildable
    <2>2. <<>> \in Seq(Route) /\ <<>> \in Seq(Passing(req))
      OBVIOUS
    <2> QED
      BY <1>5, <2>1, <2>2 DEF Decides
  <1>6. CASE row.active /\ row.complete
    <2>1. ProxyRoutes(h, row, db) = guard \o routes
      BY <1>6, Zenon DEF ProxyRoutes, Buildable
    <2>2. Decides(routes, req, req.host = h, says)
      <3>1. CASE row.type = "reverse_proxy"
        <4>1. Decides(ReverseProxyRoutes(h, db), req, req.host = h, GroupsSay(db, req))
          BY ReverseProxyDecides
        <4> QED
          BY <3>1, <4>1
      <3>2. CASE row.type = "redirect"
        <4>1. Decides(<<HostRoute(h, <<"redirect">>)>>, req, req.host = h, "redirect")
          BY OwnRoute
        <4> QED
          BY <3>2, <4>1 DEF RedirectRoutes
      <3>3. CASE row.type = "static"
        <4> DEFINE rewrite == When(row.tryFiles,
                                   [HostRoute(h, <<"rewrite">>) EXCEPT !.terminal = FALSE])
        <4>1. Decides(<<HostRoute(h, <<"files">>)>>, req, req.host = h, "files")
          BY OwnRoute
        <4>2. Decides(<<[HostRoute(h, <<"rewrite">>) EXCEPT !.terminal = FALSE]>>, req, FALSE, "files")
          BY <1>2, <1>3, OneDecides
        <4>3. Decides(rewrite, req, row.tryFiles /\ FALSE, "files")
          BY <1>1, <4>2, WhenDecides
        <4> HIDE DEF rewrite
        <4>4. Decides(rewrite \o <<HostRoute(h, <<"files">>)>>, req,
                      (row.tryFiles /\ FALSE) \/ req.host = h,
                      IF row.tryFiles /\ FALSE THEN "files" ELSE "files")
          BY <4>1, <4>3, JoinDecides
        <4>5. Decides(rewrite \o <<HostRoute(h, <<"files">>)>>, req, req.host = h, "files")
          BY <4>4, SameDecides
        <4>6. routes = rewrite \o <<HostRoute(h, <<"files">>)>> /\ says = "files"
          BY <3>3 DEF StaticRoutes, rewrite
        <4> QED
          BY <4>5, <4>6
      <3> QED
        BY <1>1, <3>1, <3>2, <3>3
    <2> HIDE DEF guard, routes, C, says
    <2>3. Decides(guard \o routes, req, C \/ req.host = h, IF C THEN "blocked" ELSE says)
      BY <1>4, <2>2, JoinDecides DEF C
    <2>4. /\ C \/ req.host = h <=> row.active /\ row.complete /\ req.host = h
          /\ C \/ req.host = h => (IF C THEN "blocked" ELSE says) =
                                   (IF row.blockExploits /\ req.exploit THEN "blocked" ELSE says)
      BY <1>6 DEF C
    <2>5. Decides(guard \o routes, req, row.active /\ row.complete /\ req.host = h,
                  IF row.blockExploits /\ req.exploit THEN "blocked" ELSE says)
      BY <2>3, <2>4, SameDecides
    <2> QED
      BY <2>1, <2>5 DEF says
  <1> QED
    BY <1>5, <1>6

\* A list around one of its members.
LEMMA Split ==
    ASSUME NEW S, NEW s \in Seq(S), NEW k \in 1 .. Len(s)
    PROVE  \E p, q : /\ s = p \o (<<s[k]>> \o q) /\ q \in Seq(S)
                     /\ Len(p) = k - 1 /\ p \in Seq(S) /\ \A i \in 1 .. k - 1 : p[i] = s[i]
  <1>1. PICK n, r : n = Len(s) /\ r = s[k]
    OBVIOUS
  <1>2. /\ n \in Nat /\ k \in Nat /\ 1 <= k /\ k <= n /\ r \in S
        /\ \A i \in 1 .. n : s[i] \in S
    BY <1>1
  <1>3. PICK p, q : p = SubSeq(s, 1, k - 1) /\ q = SubSeq(s, k + 1, n)
    OBVIOUS
  <1>4. p \in Seq(S) /\ Len(p) = k - 1 /\ \A i \in 1 .. k - 1 : p[i] = s[i]
    <2>1. \A i \in 1 .. k - 1 : s[i] \in S
      BY <1>2
    <2>2. 1 \in Int /\ k - 1 \in Int
      BY <1>2
    <2>3. /\ p \in Seq(S) /\ Len(p) = (IF 1 <= k - 1 THEN (k - 1) - 1 + 1 ELSE 0)
          /\ \A i \in 1 .. (k - 1) - 1 + 1 : p[i] = s[1 + i - 1]
      BY <1>3, <2>1, <2>2, SubSeqProperties
    <2> QED
      BY <1>2, <2>3
  <1>5. q \in Seq(S) /\ Len(q) = n - k /\ \A i \in 1 .. n - k : q[i] = s[k + i]
    <2>1. \A i \in k + 1 .. n : s[i] \in S
      BY <1>2
    <2>2. k + 1 \in Int /\ n \in Int
      BY <1>2
    <2>3. /\ q \in Seq(S) /\ Len(q) = (IF k + 1 <= n THEN n - (k + 1) + 1 ELSE 0)
          /\ \A i \in 1 .. n - (k + 1) + 1 : q[i] = s[k + 1 + i - 1]
      BY <1>3, <2>1, <2>2, SubSeqProperties
    <2> QED
      BY <1>2, <2>3
  <1>6. PICK z : z = <<r>> \o q
    OBVIOUS
  <1>7. z \in Seq(S) /\ Len(z) = 1 + (n - k) /\ z[1] = r /\ \A i \in 2 .. 1 + (n - k) : z[i] = q[i - 1]
    <2>1. <<r>> \in Seq(S) /\ Len(<<r>>) = 1 /\ <<r>>[1] = r
      BY <1>2
    <2>2. /\ <<r>> \o q \in Seq(S) /\ Len(<<r>> \o q) = Len(<<r>>) + Len(q)
          /\ \A i \in 1 .. Len(<<r>>) + Len(q) : (<<r>> \o q)[i] =
                IF i <= Len(<<r>>) THEN <<r>>[i] ELSE q[i - Len(<<r>>)]
      BY <1>5, <2>1, ConcatProperties
    <2> QED
      BY <1>2, <1>5, <1>6, <2>1, <2>2
  <1>8. PICK w : w = p \o z
    OBVIOUS
  <1>9. /\ w \in Seq(S) /\ Len(w) = n
        /\ \A i \in 1 .. n : w[i] = IF i <= k - 1 THEN p[i] ELSE z[i - (k - 1)]
    <2>1. /\ p \o z \in Seq(S) /\ Len(p \o z) = Len(p) + Len(z)
          /\ \A i \in 1 .. Len(p) + Len(z) : (p \o z)[i] =
                IF i <= Len(p) THEN p[i] ELSE z[i - Len(p)]
      BY <1>4, <1>7, ConcatProperties
    <2>2. Len(p) = k - 1 /\ Len(z) = 1 + (n - k) /\ Len(p) + Len(z) = n
      BY <1>2, <1>4, <1>7
    <2> QED
      BY <1>8, <2>1, <2>2
  <1>10. \A i \in 1 .. n : w[i] = s[i]
    <2> TAKE i \in 1 .. n
    <2>1. CASE i <= k - 1
      BY <1>2, <1>4, <1>9, <2>1
    <2>2. CASE i = k
      <3>1. ~(k <= k - 1) /\ k - (k - 1) = 1
        BY <1>2
      <3> QED
        BY <1>1, <1>7, <1>9, <2>2, <3>1
    <2>3. CASE i > k
      <3>1. /\ ~(i <= k - 1) /\ i - (k - 1) \in 2 .. 1 + (n - k)
            /\ (i - (k - 1)) - 1 = i - k /\ i - k \in 1 .. n - k /\ k + (i - k) = i
        BY <1>2, <2>3
      <3>2. w[i] = z[i - (k - 1)] /\ z[i - (k - 1)] = q[i - k] /\ q[i - k] = s[i]
        BY <1>5, <1>7, <1>9, <3>1
      <3> QED
        BY <3>2
    <2> QED
      BY <1>2, <2>1, <2>2, <2>3
  <1>11. w = s
    BY <1>1, <1>9, <1>10, SeqEqual
  <1> QED
    BY <1>1, <1>4, <1>5, <1>6, <1>8, <1>11

\* Routes that, where they match, all answer the same.
LEMMA ListDecides ==
    ASSUME NEW req, NEW a, a # "next", NEW s \in Seq(Route),
           \A i \in 1 .. Len(s) : RouteMatches(s[i], req) => Answer(s[i].handle, req) = a
    PROVE  Decides(s, req, \E i \in 1 .. Len(s) : RouteMatches(s[i], req), a)
  <1> DEFINE T == {i \in 1 .. Len(s) : RouteMatches(s[i], req)}
  <1>1. Len(s) \in Nat /\ \A i \in 1 .. Len(s) : s[i] \in Route
    OBVIOUS
  <1>2. \A i \in 1 .. Len(s) : i \notin T => s[i] \in Passing(req)
    BY <1>1 DEF Passing
  <1>3. \A i \in T : s[i] \in Answering(req, a)
    BY <1>1 DEF Answering
  <1>4. CASE T = {}
    <2>1. \A i \in 1 .. Len(s) : s[i] \in Passing(req)
      BY <1>2, <1>4
    <2>2. s \in Seq(Passing(req))
      BY <1>1, <2>1
    <2> QED
      BY <1>4, <2>2 DEF Decides
  <1>5. CASE T # {}
    <2> DEFINE key == [i \in T |-> i]
    <2>1. IsFiniteSet(T)
      <3>1. PICK n : n = Len(s)
        OBVIOUS
      <3>2. IsFiniteSet(1 .. n) /\ T \in SUBSET (1 .. n)
        BY <1>1, <3>1, FS_Interval
      <3> QED
        BY <3>2, FS_Subset
    <2>2. key \in [T -> Int] /\ \A i, j \in T : key[i] = key[j] => i = j
      BY <1>1
    <2> HIDE DEF key, T
    <2>3. PICK k \in T : \A j \in T : key[k] <= key[j]
      BY <1>5, <2>1, <2>2, SomeFirst
    <2>4. \A j \in T : k <= j
      BY <2>3 DEF key
    <2>5. k \in 1 .. Len(s)
      BY DEF T
    <2>6. PICK p, q : /\ s = p \o (<<s[k]>> \o q) /\ q \in Seq(Route)
                      /\ Len(p) = k - 1 /\ p \in Seq(Route) /\ \A i \in 1 .. k - 1 : p[i] = s[i]
      BY <2>5, Split
    <2>7. \A i \in 1 .. k - 1 : i \in 1 .. Len(s) /\ i \notin T
      BY <1>1, <2>4, <2>5
    <2>8. \A i \in 1 .. Len(p) : p[i] \in Passing(req)
      BY <1>2, <2>6, <2>7
    <2>9. p \in Seq(Passing(req))
      BY <2>6, <2>8, SMTT(40)
    <2>10. Answered(s, req, a)
      BY <1>3, <2>6, <2>9 DEF Answered
    <2>11. \E i \in 1 .. Len(s) : RouteMatches(s[i], req)
      BY <1>5 DEF T
    <2> QED
      BY <2>10, <2>11 DEF Decides
  <1> QED
    BY <1>4, <1>5

LEMMA HTTPDecides ==
    ASSUME NEW db, Readable(db), NEW req,
           req.path \in Paths, req.ip \in Ips, req.exploit \in BOOLEAN
    PROVE  LET hosts == SetToSeq(DOMAIN db.rows)
               routes == FlattenSeq([i \in DOMAIN hosts |->
                             ProxyRoutes(hosts[i], db.rows[hosts[i]], db)])
           IN  /\ Decides(routes, req, req.host \in ActiveHosts(db) /\ db.rows[req.host].complete,
                          ProxySays(db, req))
               /\ \A h \in DOMAIN db.rows : \E p, q \in Seq(Route) :
                     routes = p \o (ProxyRoutes(h, db.rows[h], db) \o q)
  <1> DEFINE hosts == SetToSeq(DOMAIN db.rows)
             n == Len(hosts)
             row(i) == db.rows[hosts[i]]
             ss == [i \in 1 .. n |-> ProxyRoutes(hosts[i], row(i), db)]
             Says(r) == IF r.blockExploits /\ req.exploit THEN "blocked"
                        ELSE CASE r.type = "reverse_proxy" -> GroupsSay(db, req)
                               [] r.type = "redirect" -> "redirect"
                               [] r.type = "static" -> "files"
             C == [i \in 1 .. n |-> row(i).active /\ row(i).complete /\ req.host = hosts[i]]
             A == [i \in 1 .. n |-> Says(row(i))]
             answered == req.host \in ActiveHosts(db) /\ db.rows[req.host].complete
  <1>1. DOMAIN db.rows \in SUBSET Hosts /\ IsFiniteSet(DOMAIN db.rows)
    <2>1. DOMAIN db.rows \in SUBSET Hosts /\ IsFiniteSet(Hosts)
      BY ConfigAssumption DEF Readable
    <2> QED
      BY <2>1, FS_Subset
  <1>2. /\ hosts \in Seq(DOMAIN db.rows) /\ DOMAIN hosts = 1 .. n
        /\ \A i, j \in DOMAIN hosts : hosts[i] = hosts[j] => i = j
        /\ \A h \in DOMAIN db.rows : \E i \in DOMAIN hosts : hosts[i] = h
    BY <1>1, SetToSeqProperties
  <1>3. [i \in DOMAIN hosts |-> ProxyRoutes(hosts[i], db.rows[hosts[i]], db)] = ss
    BY <1>2
  <1> HIDE DEF hosts
  <1>4. n \in Nat /\ \A i \in 1 .. n : hosts[i] \in DOMAIN db.rows
    BY <1>2
  <1>5. req.path \in Paths /\ req.ip \in Ips /\ req.exploit \in BOOLEAN
    OBVIOUS
  <1>6. \A i \in 1 .. n : ss[i] = ProxyRoutes(hosts[i], row(i), db) /\ A[i] = Says(row(i))
    OBVIOUS
  <1>7. \A i \in 1 .. n : C[i] = (row(i).active /\ row(i).complete /\ req.host = hosts[i])
    OBVIOUS
  <1>8. ss = [i \in 1 .. n |-> ss[i]]
    OBVIOUS
  <1>9. \A i \in 1 .. n : Decides(ss[i], req, C[i], A[i])
    <2> TAKE i \in 1 .. n
    <2>1. PICK h, r : h = hosts[i] /\ r = row(i)
      OBVIOUS
    <2>2. h \in Hosts /\ r \in ProxyRow
      BY <1>1, <1>4, <2>1 DEF Readable
    <2>3. Decides(ProxyRoutes(h, r, db), req, r.active /\ r.complete /\ req.host = h, Says(r))
      BY <1>5, <2>2, ProxyDecides
    <2> QED
      BY <1>6, <1>7, <2>1, <2>3, SameDecides
  <1> HIDE DEF ss, C, A, n
  <1>10. /\ FlattenSeq(ss) \in Seq(Route)
         /\ (\A i \in 1 .. n : ~C[i]) => FlattenSeq(ss) \in Seq(Passing(req))
         /\ \A k \in 1 .. n :
               C[k] /\ (\A i \in 1 .. k - 1 : ~C[i]) => Answered(FlattenSeq(ss), req, A[k])
    BY ONLY <1>4, <1>8, <1>9, FlattenDecides
  <1>13. \A h \in DOMAIN db.rows : \E p, q \in Seq(Route) :
            FlattenSeq(ss) = p \o (ProxyRoutes(h, db.rows[h], db) \o q)
    <2> TAKE h \in DOMAIN db.rows
    <2>1. PICK k \in 1 .. n : hosts[k] = h
      BY <1>2
    <2>2. ss[k] = ProxyRoutes(h, db.rows[h], db)
      BY <1>6, <2>1
    <2>3. \A i \in 1 .. n : ss[i] \in Seq(Route)
      BY <1>9 DEF Decides
    <2>4. ss \in Seq(Seq(Route)) /\ Len(ss) = n
      BY <1>4, <1>8, <2>3
    <2>5. Route \in SUBSET Route
      OBVIOUS
    <2>6. \A m \in 1 .. Len(ss) : (\A j \in 1 .. m - 1 : ss[j] \in Seq(Route)) =>
             \E p \in Seq(Route), q \in Seq(Route) : FlattenSeq(ss) = p \o (ss[m] \o q)
      BY ONLY <2>4, <2>5, FlattenParts
    <2>7. \A j \in 1 .. k - 1 : ss[j] \in Seq(Route)
      BY <1>4, <2>3
    <2> QED
      BY <2>2, <2>4, <2>6, <2>7
  <1>11. Decides(FlattenSeq(ss), req, answered, ProxySays(db, req))
    <2>1. CASE answered
      <3>1. PICK k \in 1 .. n : hosts[k] = req.host
        BY <1>2, <2>1 DEF ActiveHosts
      <3>2. C[k] /\ row(k) = db.rows[req.host]
        BY <1>7, <2>1, <3>1 DEF ActiveHosts
      <3>3. \A i \in 1 .. k - 1 : i \in 1 .. n /\ i # k
        BY <1>4
      <3>4. \A i \in 1 .. k - 1 : ~C[i]
        BY <1>2, <1>7, <3>1, <3>3
      <3>5. Answered(FlattenSeq(ss), req, A[k])
        BY <1>10, <3>2, <3>4
      <3>6. A[k] = ProxySays(db, req)
        BY <1>6, <3>2 DEF ProxySays
      <3> QED
        BY <1>10, <2>1, <3>5, <3>6 DEF Decides
    <2>2. CASE ~answered
      <3>1. \A i \in 1 .. n : ~C[i]
        BY <1>4, <1>7, <2>2 DEF ActiveHosts
      <3> QED
        BY <1>10, <2>2, <3>1 DEF Decides
    <2> QED
      BY <2>1, <2>2
  <1> QED
    BY <1>3, <1>11, <1>13 DEF hosts

LEMMA L4Hosts ==
    ASSUME NEW table, \A port \in DOMAIN table : table[port] \in L4ProxyRow
    PROVE  L4TLSHostnames(table) \in SUBSET Hosts
  BY DEF L4TLSHostnames, L4ProxyRow, L4RouteRow

LEMMA L4TLSDecides ==
    ASSUME NEW db, Readable(db), NEW req, req.path \in Paths, req.ip \in Ips
    PROVE  /\ Decides(L4TLSRoutes(db), req,
                      req.host \in L4TLSHostnames(db.l4table) \ ActiveHosts(db), "l4page")
           /\ \A h \in L4TLSHostnames(db.l4table) \ ActiveHosts(db) :
                 \E i \in DOMAIN L4TLSRoutes(db) : L4TLSRoutes(db)[i].hosts = {h}
  <1> DEFINE rest == L4TLSHostnames(db.l4table) \ ActiveHosts(db)
             hosts == SetToSeq(rest)
             n == Len(hosts)
             page(h) == [HostRoute(h, <<"l4page">>) EXCEPT !.terminal = FALSE]
             s == [i \in 1 .. n |-> page(hosts[i])]
  <1>1. rest \in SUBSET Hosts /\ IsFiniteSet(rest)
    <2>1. rest \in SUBSET Hosts /\ IsFiniteSet(Hosts)
      BY L4Hosts, ConfigAssumption DEF Readable
    <2> QED
      BY <2>1, FS_Subset
  <1> HIDE DEF rest
  <1>2. /\ hosts \in Seq(rest) /\ DOMAIN hosts = 1 .. n
        /\ \A h \in rest : \E i \in DOMAIN hosts : hosts[i] = h
    BY <1>1, SetToSeqProperties
  <1>3. L4TLSRoutes(db) = s
    BY <1>2 DEF L4TLSRoutes, rest
  <1> HIDE DEF hosts
  <1>4. n \in Nat /\ \A i \in 1 .. n : hosts[i] \in rest
    BY <1>2
  <1> HIDE DEF n
  <1>5. req.path \in Paths /\ req.ip \in Ips
    OBVIOUS
  <1>6. <<"l4page">> \in Seq(Handlers) /\ Answer(<<"l4page">>, req) = "l4page" /\ "l4page" # "next"
    <2>1. "l4page" \in Handlers
      BY DEF Handlers
    <2> QED
      BY <2>1, Lists, PlainAnswers
  <1>7. \A h \in rest : /\ page(h) \in Route /\ page(h).hosts = {h}
                        /\ Answer(page(h).handle, req) = "l4page"
                        /\ RouteMatches(page(h), req) <=> req.host = h
    <2> TAKE h \in rest
    <2>1. Fits(page(h), h, Paths, Ips, FALSE, <<"l4page">>, FALSE)
      BY <1>1, <1>6, HostRouteFits
    <2> QED
      BY <1>5, <1>6, <2>1 DEF Fits, RouteMatches
  <1> HIDE DEF page
  <1>8. \A i \in 1 .. n : s[i] = page(hosts[i])
    OBVIOUS
  <1>9. s \in Seq(Route) /\ Len(s) = n /\ DOMAIN s = 1 .. n
    BY <1>4, <1>7
  <1> HIDE DEF s
  <1>10. Decides(s, req, \E i \in 1 .. Len(s) : RouteMatches(s[i], req), "l4page")
    <2>1. \A i \in 1 .. Len(s) : RouteMatches(s[i], req) => Answer(s[i].handle, req) = "l4page"
      BY <1>4, <1>7, <1>8, <1>9
    <2> QED
      BY <1>6, <1>9, <2>1, ListDecides
  <1>11. (\E i \in 1 .. Len(s) : RouteMatches(s[i], req)) <=> req.host \in rest
    BY <1>2, <1>4, <1>7, <1>8, <1>9
  <1>12. Decides(s, req, req.host \in rest, "l4page")
    BY <1>10, <1>11, SameDecides
  <1>13. \A h \in rest : \E i \in DOMAIN s : s[i].hosts = {h}
    BY <1>2, <1>7, <1>8, <1>9, SMTT(40)
  <1> QED
    BY <1>3, <1>12, <1>13 DEF rest

\* Whatever the database holds, the routes built from it answer what it means.
LEMMA BuildAnswers ==
    ASSUME NEW db, Readable(db), NEW req,
           req.host \in Hosts, req.path \in Paths, req.ip \in Ips, req.exploit \in BOOLEAN
    PROVE  /\ Served(BuildRoutes(db), req) = Expected(db, req)
           /\ MetricsRoute(db.settings) \in Seq(Route) /\ HTTPRoutes(db) \in Seq(Route)
           /\ <<CatchAllRoute(db.settings)>> \in Seq(Route)
  <1> DEFINE hosts == SetToSeq(DOMAIN db.rows)
             proxies == FlattenSeq([i \in DOMAIN hosts |->
                            ProxyRoutes(hosts[i], db.rows[hosts[i]], db)])
             named == L4TLSRoutes(db)
             metrics == MetricsRoute(db.settings)
             rest == <<CatchAllRoute(db.settings)>>
             P == req.host \in ActiveHosts(db) /\ db.rows[req.host].complete
             L == req.host \in L4TLSHostnames(db.l4table) \ ActiveHosts(db)
             M == IsMetrics(db.settings, req)
             page == IF req.basic THEN "metrics" ELSE "unauthorized"
             else == IF db.settings.redirect THEN "goElsewhere" ELSE "notFound"
  <1>1. /\ req.path \in Paths /\ req.ip \in Ips /\ req.host \in Hosts /\ req.exploit \in BOOLEAN
    OBVIOUS
  <1>2. /\ db.settings.publish \in BOOLEAN /\ db.settings.account \in BOOLEAN
        /\ db.settings.metricsHost \in Hosts /\ db.settings.metricsPath \in Paths
        /\ db.settings.cidrs \in SUBSET Ips /\ db.settings.redirect \in BOOLEAN
    BY DEF Readable, Settings
  <1>3. /\ \A x \in {"goElsewhere", "notFound"} : /\ <<x>> \in Seq(Handlers) /\ x # "next"
                                                  /\ Answer(<<x>>, req) = x
        /\ <<"basic", "metrics">> \in Seq(Handlers)
        /\ Answer(<<"basic", "metrics">>, req) = page /\ page # "next"
    <2>1. {"goElsewhere", "notFound", "basic", "metrics"} \subseteq Handlers
      BY DEF Handlers
    <2>2. <<"basic", "metrics">> \in Seq(Handlers) /\ \A x \in Handlers : <<x>> \in Seq(Handlers)
      BY <2>1, Lists
    <2> QED
      BY <2>1, <2>2, PlainAnswers
  <1>4. Decides(metrics, req, M, page)
    <2> DEFINE ips == IF db.settings.cidrs = {} THEN Ips ELSE db.settings.cidrs
               r == [HostRoute(db.settings.metricsHost, <<"basic", "metrics">>) EXCEPT
                        !.paths = {db.settings.metricsPath}, !.ips = ips]
    <2>1. {db.settings.metricsPath} \in SUBSET Paths /\ ips \in SUBSET Ips
      BY <1>2
    <2>2. metrics = When(db.settings.publish /\ db.settings.account, r)
      BY DEF MetricsRoute
    <2> HIDE DEF ips
    <2>3. Fits(r, db.settings.metricsHost, {db.settings.metricsPath}, ips, FALSE,
               <<"basic", "metrics">>, TRUE)
      BY <1>2, <1>3, <2>1, HostRouteFits
    <2>4. PICK z, h, where : z = r /\ h = db.settings.metricsHost /\ where = {db.settings.metricsPath}
      OBVIOUS
    <2> HIDE DEF r
    <2>5. /\ Fits(z, h, where, ips, FALSE, <<"basic", "metrics">>, TRUE)
          /\ Answer(<<"basic", "metrics">>, req) = page /\ page # "next"
      BY <1>3, <2>3, <2>4
    <2>6. Decides(<<z>>, req, /\ req.host = h /\ req.path \in where /\ req.ip \in ips
                              /\ FALSE => req.exploit, page)
      BY ONLY <2>5, FitsDecides
    <2>7. PICK listed : listed = (db.settings.publish /\ db.settings.account) /\ listed \in BOOLEAN
      BY <1>2
    <2>8. Decides(When(listed, z), req,
                  listed /\ (/\ req.host = h /\ req.path \in where /\ req.ip \in ips
                             /\ FALSE => req.exploit), page)
      <3>1. listed \in BOOLEAN
        BY <2>7
      <3> QED
        BY ONLY <2>6, <3>1, WhenDecides
    <2>9. (listed /\ (/\ req.host = h /\ req.path \in where /\ req.ip \in ips
                      /\ FALSE => req.exploit)) <=> M
      <3>1. listed <=> (db.settings.publish /\ db.settings.account)
        BY <2>7
      <3>2. req.path \in where <=> req.path = db.settings.metricsPath
        BY <2>4
      <3>3. req.ip \in ips <=> (db.settings.cidrs = {} \/ req.ip \in db.settings.cidrs)
        BY <1>1 DEF ips
      <3> QED
        BY <2>4, <3>1, <3>2, <3>3 DEF IsMetrics
    <2>10. Decides(When(listed, z), req, M, page)
      BY <2>8, <2>9, SameDecides
    <2> QED
      BY <2>2, <2>4, <2>7, <2>10
  <1>5. Decides(proxies, req, P, ProxySays(db, req))
    BY HTTPDecides
  <1>6. Decides(named, req, L, "l4page")
    BY L4TLSDecides
  <1>7. Decides(rest, req, TRUE, else)
    <2>1. /\ CatchAllRoute(db.settings) \in Route
          /\ CatchAllRoute(db.settings).handle = <<else>>
          /\ RouteMatches(CatchAllRoute(db.settings), req)
      BY <1>1, <1>3 DEF CatchAllRoute, Route, RouteMatches
    <2>2. Answer(<<else>>, req) = else /\ else # "next"
      BY <1>3
    <2> QED
      BY <2>1, <2>2, RouteDecides
  <1>8. BuildRoutes(db) = (metrics \o (proxies \o named)) \o rest
    BY DEF BuildRoutes, HTTPRoutes
  <1>16. HTTPRoutes(db) = proxies \o named
    BY DEF HTTPRoutes
  <1>17. /\ metrics \in Seq(Route) /\ rest \in Seq(Route)
         /\ proxies \in Seq(Route) /\ named \in Seq(Route)
    BY <1>4, <1>5, <1>6, <1>7 DEF Decides
  <1>18. HTTPRoutes(db) \in Seq(Route)
    BY <1>16, <1>17, ConcatProperties
  <1> HIDE DEF proxies, named, page, else
  <1>9. Decides(proxies \o named, req, P \/ L, IF P THEN ProxySays(db, req) ELSE "l4page")
    <2>1. PICK s, t, b : s = proxies /\ t = named /\ b = ProxySays(db, req)
      OBVIOUS
    <2>2. PICK c, d : (c <=> P) /\ (d <=> L)
      OBVIOUS
    <2>3. Decides(s, req, c, b) /\ Decides(t, req, d, "l4page")
      <3>1. Decides(s, req, P, b)
        BY <1>5, <2>1
      <3>2. Decides(t, req, L, "l4page")
        BY <1>6, <2>1
      <3>3. Decides(s, req, c, b)
        BY <2>2, <3>1 DEF Decides
      <3>4. Decides(t, req, d, "l4page")
        BY <2>2, <3>2 DEF Decides
      <3> QED
        BY <3>3, <3>4
    <2>4. Decides(s \o t, req, c \/ d, IF c THEN b ELSE "l4page")
      BY ONLY <2>3, JoinDecides
    <2>5. Decides(s \o t, req, P \/ L, IF P THEN b ELSE "l4page")
      BY <2>2, <2>4, SameDecides
    <2> QED
      BY <2>1, <2>5
  <1>10. PICK a1, a2, a3 : /\ a1 = ProxySays(db, req)
                           /\ a2 = IF P THEN a1 ELSE "l4page"
                           /\ a3 = IF M THEN page ELSE a2
    OBVIOUS
  <1>11. Decides(proxies \o named, req, P \/ L, a2)
    BY <1>9, <1>10
  <1>12. Decides(metrics \o (proxies \o named), req, M \/ (P \/ L), a3)
    <2>1. PICK s, t, b : s = metrics /\ t = proxies \o named /\ b = page
      OBVIOUS
    <2>2. PICK c, d : (c <=> M) /\ (d <=> P \/ L)
      OBVIOUS
    <2>3. Decides(s, req, c, b) /\ Decides(t, req, d, a2)
      <3>1. Decides(s, req, M, b)
        BY <1>4, <2>1
      <3>2. Decides(t, req, P \/ L, a2)
        BY <1>11, <2>1
      <3>3. Decides(s, req, c, b)
        BY <2>2, <3>1 DEF Decides
      <3>4. Decides(t, req, d, a2)
        BY <2>2, <3>2 DEF Decides
      <3> QED
        BY <3>3, <3>4
    <2>4. Decides(s \o t, req, c \/ d, IF c THEN b ELSE a2)
      BY ONLY <2>3, JoinDecides
    <2>5. Decides(s \o t, req, M \/ (P \/ L), a3)
      <3>1. c \/ d => (IF c THEN b ELSE a2) = a3
        BY <1>10, <2>1, <2>2
      <3> QED
        BY <2>2, <2>4, <3>1, SameDecides
    <2> QED
      BY <2>1, <2>5
  <1>13. Decides((metrics \o (proxies \o named)) \o rest, req, (M \/ (P \/ L)) \/ TRUE,
                 IF M \/ (P \/ L) THEN a3 ELSE else)
    BY <1>7, <1>12, JoinDecides
  <1>14. Expected(db, req) = IF M \/ (P \/ L) THEN a3 ELSE else
    BY <1>10 DEF Expected, page, else
  <1> HIDE DEF metrics, rest
  <1>15. Answered(BuildRoutes(db), req, Expected(db, req))
    BY <1>8, <1>13, <1>14 DEF Decides
  <1> QED
    BY <1>15, <1>17, <1>18, ServedAnswer DEF metrics, rest

\* Some route of a list is the route of a host.
Has(s, h) == \E i \in DOMAIN s : s[i].hosts = {h}

LEMMA HasJoin ==
    ASSUME NEW s \in Seq(Route), NEW t \in Seq(Route), NEW h, Has(s, h) \/ Has(t, h)
    PROVE  Has(s \o t, h)
  <1>1. PICK z, m, n : z = s \o t /\ m = Len(s) /\ n = Len(t)
    OBVIOUS
  <1>2. m \in Nat /\ n \in Nat /\ DOMAIN s = 1 .. m /\ DOMAIN t = 1 .. n
    BY <1>1
  <1>3. /\ z \in Seq(Route) /\ Len(z) = m + n
        /\ \A i \in 1 .. m + n : z[i] = IF i <= m THEN s[i] ELSE t[i - m]
    BY <1>1, ConcatProperties
  <1>4. DOMAIN z = 1 .. m + n
    BY <1>3
  <1>5. CASE Has(s, h)
    <2>1. PICK i \in 1 .. m : s[i].hosts = {h}
      BY <1>2, <1>5 DEF Has
    <2>2. i \in 1 .. m + n /\ i <= m
      BY <1>2
    <2>3. z[i].hosts = {h}
      BY <1>3, <2>1, <2>2
    <2> QED
      BY <1>1, <1>4, <2>2, <2>3 DEF Has
  <1>6. CASE Has(t, h)
    <2>1. PICK i \in 1 .. n : t[i].hosts = {h}
      BY <1>2, <1>6 DEF Has
    <2>2. i + m \in 1 .. m + n /\ ~(i + m <= m) /\ (i + m) - m = i
      BY <1>2
    <2>3. z[i + m].hosts = {h}
      BY <1>3, <2>1, <2>2
    <2> QED
      BY <1>1, <1>4, <2>2, <2>3 DEF Has
  <1> QED
    BY <1>5, <1>6

LEMMA HasOne ==
    ASSUME NEW h \in Hosts, NEW f \in {"upstream", "redirect", "files"}
    PROVE  <<HostRoute(h, <<f>>)>> \in Seq(Route) /\ Has(<<HostRoute(h, <<f>>)>>, h)
  <1>1. f \in Handlers
    BY DEF Handlers
  <1>2. <<f>> \in Seq(Handlers)
    BY <1>1, Lists
  <1>3. PICK r : r = HostRoute(h, <<f>>)
    OBVIOUS
  <1>4. Fits(HostRoute(h, <<f>>), h, Paths, Ips, FALSE, <<f>>, TRUE)
    BY <1>2, HostRouteFits
  <1>5. r \in Route /\ r.hosts = {h}
    BY <1>3, <1>4 DEF Fits
  <1>6. DOMAIN <<r>> = {1} /\ <<r>>[1] = r /\ <<r>> \in Seq(Route)
    BY <1>5
  <1> QED
    BY <1>3, <1>5, <1>6 DEF Has

LEMMA ProxyHas ==
    ASSUME NEW db, Readable(db), NEW h \in Hosts, NEW row \in ProxyRow, row.active, row.complete,
           NEW req, req.path \in Paths, req.ip \in Ips, req.exploit \in BOOLEAN
    PROVE  ProxyRoutes(h, row, db) \in Seq(Route) /\ Has(ProxyRoutes(h, row, db), h)
  <1> DEFINE guard == IF row.blockExploits THEN SecurityRoutes(h) ELSE <<>>
             routes == CASE row.type = "reverse_proxy" -> ReverseProxyRoutes(h, db)
                         [] row.type = "redirect" -> RedirectRoutes(h)
                         [] row.type = "static" -> StaticRoutes(h, row)
  <1>1. row.type \in {"reverse_proxy", "redirect", "static"}
    BY DEF ProxyRow
  <1>2. /\ <<>> \in Seq(Route)
        /\ <<[HostRoute(h, <<"blocked">>) EXCEPT !.exploit = TRUE]>> \in Seq(Route)
        /\ <<[HostRoute(h, <<"rewrite">>) EXCEPT !.terminal = FALSE]>> \in Seq(Route)
    <2>1. "blocked" \in Handlers /\ "rewrite" \in Handlers
      BY DEF Handlers
    <2>2. <<"blocked">> \in Seq(Handlers) /\ <<"rewrite">> \in Seq(Handlers)
      BY <2>1, Lists
    <2>3. PICK r1, r2 : /\ r1 = [HostRoute(h, <<"blocked">>) EXCEPT !.exploit = TRUE]
                        /\ r2 = [HostRoute(h, <<"rewrite">>) EXCEPT !.terminal = FALSE]
      OBVIOUS
    <2>4. r1 \in Route /\ r2 \in Route
      BY <2>2, <2>3, HostRouteFits, Zenon DEF Fits
    <2>5. <<r1>> \in Seq(Route) /\ <<r2>> \in Seq(Route) /\ <<>> \in Seq(Route)
      BY <2>4
    <2> QED
      BY <2>3, <2>5
  <1>3. guard \in Seq(Route)
    BY <1>2 DEF SecurityRoutes
  <1>4. routes \in Seq(Route) /\ Has(routes, h)
    <2>1. CASE row.type = "reverse_proxy"
      <3>1. PICK s \in Seq(Route) : ReverseProxyRoutes(h, db) = s \o <<HostRoute(h, <<"upstream">>)>>
        BY ReverseProxyDecides
      <3>2. PICK t : t = <<HostRoute(h, <<"upstream">>)>>
        OBVIOUS
      <3>3. t \in Seq(Route) /\ Has(t, h)
        BY <3>2, HasOne
      <3>4. s \o t \in Seq(Route) /\ Has(s \o t, h)
        BY <3>3, HasJoin, ConcatProperties
      <3> QED
        BY <2>1, <3>1, <3>2, <3>4
    <2>2. CASE row.type = "redirect"
      <3>1. <<HostRoute(h, <<"redirect">>)>> \in Seq(Route) /\ Has(<<HostRoute(h, <<"redirect">>)>>, h)
        BY HasOne
      <3> QED
        BY <2>2, <3>1 DEF RedirectRoutes
    <2>3. CASE row.type = "static"
      <3>1. PICK s, t : /\ t = <<HostRoute(h, <<"files">>)>>
                        /\ s = When(row.tryFiles,
                                    [HostRoute(h, <<"rewrite">>) EXCEPT !.terminal = FALSE])
        OBVIOUS
      <3>2. t \in Seq(Route) /\ Has(t, h)
        BY <3>1, HasOne
      <3>3. s \in Seq(Route)
        BY <1>2, <3>1 DEF When
      <3>4. s \o t \in Seq(Route) /\ Has(s \o t, h)
        BY <3>2, <3>3, HasJoin, ConcatProperties
      <3>5. routes = s \o t
        BY <2>3, <3>1 DEF StaticRoutes
      <3> QED
        BY <3>4, <3>5
    <2> QED
      BY <1>1, <2>1, <2>2, <2>3
  <1>5. ProxyRoutes(h, row, db) = guard \o routes
    BY Zenon DEF ProxyRoutes, Buildable
  <1> HIDE DEF guard, routes
  <1>6. guard \o routes \in Seq(Route) /\ Has(guard \o routes, h)
    BY <1>3, <1>4, HasJoin, ConcatProperties
  <1> QED
    BY <1>5, <1>6

\* A name that layer 4 terminates, or of an active proxy that can be built, has a
\* route of its own.
LEMMA BuildHas ==
    ASSUME NEW db, Readable(db), NEW req, req.host \in Hosts, req.path \in Paths,
           req.ip \in Ips, req.exploit \in BOOLEAN, NEW h,
           \/ h \in L4TLSHostnames(db.l4table) \ ActiveHosts(db)
           \/ h \in ActiveHosts(db) /\ db.rows[h].complete
    PROVE  Has(BuildRoutes(db), h)
  <1>1. PICK proxies : proxies = LET hosts == SetToSeq(DOMAIN db.rows)
                                 IN  FlattenSeq([i \in DOMAIN hosts |->
                                         ProxyRoutes(hosts[i], db.rows[hosts[i]], db)])
    OBVIOUS
  <1>2. PICK named, metrics, rest :
           /\ named = L4TLSRoutes(db) /\ metrics = MetricsRoute(db.settings)
           /\ rest = <<CatchAllRoute(db.settings)>>
    OBVIOUS
  <1>3. /\ proxies \in Seq(Route)
        /\ \A x \in DOMAIN db.rows : \E p, q \in Seq(Route) :
              proxies = p \o (ProxyRoutes(x, db.rows[x], db) \o q)
    BY <1>1, HTTPDecides DEF Decides
  <1>4. /\ named \in Seq(Route)
        /\ h \in L4TLSHostnames(db.l4table) \ ActiveHosts(db) => Has(named, h)
    BY <1>2, L4TLSDecides DEF Decides, Has
  <1>5. metrics \in Seq(Route) /\ rest \in Seq(Route)
    BY <1>2, BuildAnswers
  <1>6. BuildRoutes(db) = (metrics \o (proxies \o named)) \o rest
    BY <1>1, <1>2 DEF BuildRoutes, HTTPRoutes
  <1>7. ASSUME h \in ActiveHosts(db), db.rows[h].complete PROVE Has(proxies, h)
    <2>1. h \in DOMAIN db.rows /\ db.rows[h].active /\ h \in Hosts /\ db.rows[h] \in ProxyRow
      BY <1>7, ConfigAssumption DEF ActiveHosts, Readable
    <2>2. PICK r : r = ProxyRoutes(h, db.rows[h], db)
      OBVIOUS
    <2>3. r \in Seq(Route) /\ Has(r, h)
      BY <1>7, <2>1, <2>2, ProxyHas
    <2>4. PICK p, q : p \in Seq(Route) /\ q \in Seq(Route) /\ proxies = p \o (r \o q)
      BY <1>3, <2>1, <2>2
    <2>5. PICK z : z = r \o q
      OBVIOUS
    <2>6. z \in Seq(Route) /\ Has(z, h)
      BY <2>3, <2>4, <2>5, HasJoin, ConcatProperties
    <2> QED
      BY <2>4, <2>5, <2>6, HasJoin
  <1>8. PICK both, all : both = proxies \o named /\ all = metrics \o both
    OBVIOUS
  <1>9. both \in Seq(Route) /\ Has(both, h)
    BY <1>3, <1>4, <1>7, <1>8, HasJoin, ConcatProperties
  <1>10. all \in Seq(Route) /\ Has(all, h)
    BY <1>5, <1>8, <1>9, HasJoin, ConcatProperties
  <1>11. Has(all \o rest, h)
    BY <1>5, <1>10, HasJoin
  <1> QED
    BY <1>6, <1>8, <1>11
-----------------------------------------------------------------------------
(* The generated routes: the theorems *)

\* What is stored has its shape, and a configuration is what the routes of the
\* unchanged database, as far as it could be read, were built from.
ConfigInv ==
    /\ rows \in [ProxyHosts -> ProxyRow] /\ groups \in [GroupIds -> Group]
    /\ assigns \in AssignSets /\ l4table \in L4Tables /\ settings \in Settings
    /\ config # Unbuilt => /\ config.lost \in Losses
                           /\ config = Built(Read(config.lost), config.lost)

LEMMA ConfigInvariant == ConfigSpec => []ConfigInv
  <1>1. ConfigInit => ConfigInv
    BY ConfigAssumption DEF ConfigInit, ConfigInv
  <1>2. ConfigInv /\ [ConfigNext]_configVars => ConfigInv'
    <2> SUFFICES ASSUME ConfigInv, [ConfigNext]_configVars
                 PROVE  ConfigInv'
      OBVIOUS
    <2>1. ASSUME NEW lost \in Losses, Sync(lost)
          PROVE  ConfigInv'
      <3>1. config' = Built(Read(lost), lost) /\ UNCHANGED <<rows, groups, assigns, l4table, settings>>
        BY <2>1 DEF Sync
      <3>2. config'.lost = lost /\ lost \in Losses'
        BY <3>1 DEF Built, Losses
      <3>3. (Built(Read(config.lost), config.lost))' = Built(Read(lost), lost)
        BY <3>1, <3>2 DEF Built, Read, Database
      <3> QED
        BY <3>1, <3>2, <3>3 DEF ConfigInv
    <2>2. CASE Edit
      BY <2>2, ConfigAssumption DEF ConfigInv, Edit
    <2>3. CASE UNCHANGED configVars
      BY <2>3 DEF ConfigInv, configVars, Built, Read, Database, Losses
    <2> QED
      BY <2>1, <2>2, <2>3 DEF ConfigNext
  <1> QED
    BY <1>1, <1>2, PTL DEF ConfigSpec

LEMMA ReadFields ==
    ASSUME NEW lost, ConfigInv
    PROVE  LET db == Read(lost)
           IN  /\ db.rows = rows
               /\ db.groups = IF "groups" \in lost THEN <<>> ELSE groups
               /\ db.assigns = {a \in assigns : a.host \notin lost}
               /\ db.l4table = IF "l4" \in lost THEN <<>> ELSE l4table
               /\ db.settings = IF "settings" \in lost
                                THEN [settings EXCEPT !.redirect = FALSE, !.publish = FALSE]
                                ELSE settings
  BY DEF Read, Database

LEMMA ReadReadable ==
    ASSUME NEW lost, ConfigInv
    PROVE  /\ Readable(Read(lost)) /\ DOMAIN Read(lost).rows = ProxyHosts
           /\ \A db : /\ DOMAIN db.rows \subseteq ProxyHosts
                      /\ \A h \in DOMAIN db.rows : db.rows[h] \in ProxyRow
                      /\ db.groups = Read(lost).groups /\ db.assigns \subseteq Read(lost).assigns
                      /\ db.l4table = Read(lost).l4table /\ db.settings = Read(lost).settings
                      => Readable(db)
  <1> DEFINE r == Read(lost)
  <1>1. /\ r.rows = rows
        /\ r.groups = IF "groups" \in lost THEN <<>> ELSE groups
        /\ r.assigns = {a \in assigns : a.host \notin lost}
        /\ r.l4table = IF "l4" \in lost THEN <<>> ELSE l4table
        /\ r.settings = IF "settings" \in lost
                        THEN [settings EXCEPT !.redirect = FALSE, !.publish = FALSE]
                        ELSE settings
    BY ReadFields
  <1> HIDE DEF r
  <1>2. DOMAIN r.rows = ProxyHosts /\ \A h \in DOMAIN r.rows : r.rows[h] \in ProxyRow
    BY <1>1 DEF ConfigInv
  <1>3. DOMAIN <<>> = {}
    OBVIOUS
  <1>4. \A g \in DOMAIN r.groups : r.groups[g] \in Group
    BY <1>1, <1>3 DEF ConfigInv
  <1>5. /\ assigns \subseteq Assignment /\ IsFiniteSet(assigns)
        /\ \A a, b \in assigns : (a.host = b.host /\ a.priority = b.priority) => a = b
    BY ConfigAssumption DEF ConfigInv
  <1>6. \A set : set \subseteq r.assigns =>
           /\ set \subseteq Assignment /\ IsFiniteSet(set)
           /\ \A a, b \in set : (a.host = b.host /\ a.priority = b.priority) => a = b
    <2> TAKE set
    <2> HAVE set \subseteq r.assigns
    <2>1. set \in SUBSET assigns
      BY <1>1
    <2>2. IsFiniteSet(set)
      BY <1>5, <2>1, FS_Subset
    <2> QED
      BY <1>5, <2>1, <2>2
  <1>7. \A port \in DOMAIN r.l4table : r.l4table[port] \in L4ProxyRow
    <2>1. l4table \in [L4Ports -> L4ProxyRow]
      BY ConfigAssumption DEF ConfigInv
    <2> QED
      BY <1>1, <1>3, <2>1
  <1>8. r.settings \in Settings
    BY <1>1, Zenon DEF ConfigInv, Settings
  <1>9. Readable(r)
    BY <1>2, <1>4, <1>6, <1>7, <1>8 DEF Readable
  <1>10. \A db : /\ DOMAIN db.rows \subseteq ProxyHosts
                 /\ \A h \in DOMAIN db.rows : db.rows[h] \in ProxyRow
                 /\ db.groups = r.groups /\ db.assigns \subseteq r.assigns
                 /\ db.l4table = r.l4table /\ db.settings = r.settings
                 => Readable(db)
    BY <1>4, <1>6, <1>7, <1>8 DEF Readable
  <1> QED
    BY <1>2, <1>9, <1>10 DEF r

\* Whatever is stored and whatever could be read of it, the generated routes
\* answer every request as the settings, the proxies and their groups mean it
\* (builder.go, http_builder.go, acl_builder.go: every list, first match first).
THEOREM RoutesMeanSettingsHolds == ConfigSpec => []RoutesMeanSettings
  <1>1. ConfigInv => RoutesMeanSettings
    <2> SUFFICES ASSUME ConfigInv, config # Unbuilt, NEW req \in Requests
                 PROVE  Served(config.routes, req) = Expected(Read(config.lost), req)
      BY DEF RoutesMeanSettings
    <2>1. PICK db : db = Read(config.lost)
      OBVIOUS
    <2>2. Readable(db)
      BY <2>1, ReadReadable
    <2>3. config.routes = BuildRoutes(db)
      BY <2>1 DEF ConfigInv, Built
    <2>4. /\ req.host \in Hosts /\ req.path \in Paths /\ req.ip \in Ips
          /\ req.exploit \in BOOLEAN
      BY ConfigAssumption DEF Requests
    <2> QED
      BY <2>1, <2>2, <2>3, <2>4, BuildAnswers
  <1> QED
    BY <1>1, ConfigInvariant, PTL

\* What is meant for a host reads only what concerns it.
LEMMA ExpectedAlone ==
    ASSUME NEW db, NEW alone, NEW req,
           alone.groups = db.groups, alone.l4table = db.l4table, alone.settings = db.settings,
           DOMAIN alone.rows = DOMAIN db.rows \cap {req.host},
           \A h \in DOMAIN alone.rows : alone.rows[h] = db.rows[h],
           alone.assigns = {a \in db.assigns : a.host = req.host}
    PROVE  Expected(alone, req) = Expected(db, req)
  <1>1. Heard(alone, req) = Heard(db, req)
    BY DEF Heard
  <1>2. GroupsSay(alone, req) = GroupsSay(db, req)
    BY <1>1 DEF GroupsSay
  <1>3. req.host \in ActiveHosts(alone) <=> req.host \in ActiveHosts(db)
    BY DEF ActiveHosts
  <1>4. req.host \in ActiveHosts(db) => alone.rows[req.host] = db.rows[req.host]
    BY DEF ActiveHosts
  <1>5. req.host \in ActiveHosts(db) => ProxySays(alone, req) = ProxySays(db, req)
    <2> SUFFICES ASSUME req.host \in ActiveHosts(db)
                 PROVE  ProxySays(alone, req) = ProxySays(db, req)
      OBVIOUS
    <2>1. alone.rows[req.host] = db.rows[req.host]
      BY <1>4
    <2>2. PICK row, said : row = db.rows[req.host] /\ said = GroupsSay(db, req)
      OBVIOUS
    <2> DEFINE says == IF row.blockExploits /\ req.exploit THEN "blocked"
                       ELSE CASE row.type = "reverse_proxy" -> said
                              [] row.type = "redirect" -> "redirect"
                              [] row.type = "static" -> "files"
    <2>3. ProxySays(db, req) = says
      BY <2>2 DEF ProxySays
    <2>4. ProxySays(alone, req) = says
      BY <1>2, <2>1, <2>2 DEF ProxySays
    <2> QED
      BY <2>3, <2>4
  <1>6. req.host \in L4TLSHostnames(alone.l4table) \ ActiveHosts(alone)
           <=> req.host \in L4TLSHostnames(db.l4table) \ ActiveHosts(db)
    BY <1>3
  <1> QED
    BY <1>3, <1>4, <1>5, <1>6 DEF Expected

\* A host's answers do not depend on other proxies or on what is attached to them
\* (buildHTTPRoutes puts the routes of all proxies into one list).
THEOREM HostsIsolatedHolds == ConfigSpec => []HostsIsolated
  <1>1. ConfigInv => HostsIsolated
    <2> SUFFICES ASSUME ConfigInv, config # Unbuilt, NEW h \in Hosts, NEW req \in Requests,
                        req.host = h
                 PROVE  Served(config.routes, req) = Served(BuildRoutes(OnlyHost(h)), req)
      BY DEF HostsIsolated
    <2>1. PICK db, alone : db = Read(config.lost) /\ alone = OnlyHost(h)
      OBVIOUS
    <2>2. Readable(db) /\ DOMAIN db.rows = ProxyHosts /\ db.rows = rows
      BY <2>1, ReadReadable, ReadFields
    <2>3. /\ alone.rows = [x \in ProxyHosts \cap {h} |-> rows[x]]
          /\ alone.assigns = {a \in db.assigns : a.host = h}
          /\ alone.groups = db.groups /\ alone.l4table = db.l4table
          /\ alone.settings = db.settings
      BY <2>1 DEF OnlyHost, Read, Database
    <2>4. Readable(alone)
      <3>1. DOMAIN alone.rows \subseteq ProxyHosts
        BY <2>3
      <3>2. \A x \in DOMAIN alone.rows : alone.rows[x] \in ProxyRow
        BY <2>3 DEF ConfigInv
      <3>3. alone.assigns \subseteq db.assigns
        BY <2>3
      <3> QED
        BY <2>1, <2>3, <3>1, <3>2, <3>3, ReadReadable
    <2>5. /\ req.host \in Hosts /\ req.path \in Paths /\ req.ip \in Ips
          /\ req.exploit \in BOOLEAN
      BY ConfigAssumption DEF Requests
    <2>6. config.routes = BuildRoutes(db)
      BY <2>1 DEF ConfigInv, Built
    <2>7. /\ Served(BuildRoutes(db), req) = Expected(db, req)
          /\ Served(BuildRoutes(alone), req) = Expected(alone, req)
      BY <2>2, <2>4, <2>5, BuildAnswers
    <2>8. /\ DOMAIN alone.rows = DOMAIN db.rows \cap {req.host}
          /\ \A x \in DOMAIN alone.rows : alone.rows[x] = db.rows[x]
          /\ alone.assigns = {a \in db.assigns : a.host = req.host}
      BY <2>2, <2>3
    <2>9. Expected(alone, req) = Expected(db, req)
      BY <2>3, <2>8, ExpectedAlone
    <2> QED
      BY <2>1, <2>6, <2>7, <2>9
  <1> QED
    BY <1>1, ConfigInvariant, PTL

\* When a layer-4 route lets a connection through.
Applies(x, c) ==
    /\ x.matcher \in {"any", "remote_ip", c.proto}
    /\ x.matcher = "tls" => (x.sni = {} \/ c.sni \in x.sni)
    /\ x.ips = {} \/ c.ip \in x.ips
    /\ x.matcher = "remote_ip" => x.ips # {}

LEMMA MatcherApplies ==
    ASSUME NEW x \in L4RouteRow, NEW c \in L4Connections
    PROVE  (/\ c.proto \in L4Matcher(x).protos /\ c.ip \in L4Matcher(x).ips
            /\ c.proto = "tls" => c.sni \in L4Matcher(x).sni) <=> Applies(x, c)
  <1>1. /\ x.matcher \in {"any", "tls", "ssh", "remote_ip"} /\ c.proto \in {"tls", "ssh"}
        /\ c.sni \in Hosts /\ c.ip \in Ips
    BY DEF L4RouteRow, L4Connections
  <1>2. /\ L4Matcher(x).protos = IF x.matcher \in {"tls", "ssh"} THEN {x.matcher} ELSE {"tls", "ssh"}
        /\ L4Matcher(x).sni = IF x.matcher = "tls" /\ x.sni # {} THEN x.sni ELSE Hosts
        /\ L4Matcher(x).ips = IF x.ips = {} /\ x.matcher # "remote_ip" THEN Ips ELSE x.ips
    BY DEF L4Matcher
  <1>3. CASE x.matcher = "tls"
    BY <1>1, <1>2, <1>3 DEF Applies
  <1>4. CASE x.matcher = "ssh"
    BY <1>1, <1>2, <1>4 DEF Applies
  <1>5. CASE x.matcher = "any"
    BY <1>1, <1>2, <1>5 DEF Applies
  <1>6. CASE x.matcher = "remote_ip"
    BY <1>1, <1>2, <1>6 DEF Applies
  <1> QED
    BY <1>1, <1>3, <1>4, <1>5, <1>6

\* The route that takes a connection is the first in order of priority that applies.
LEMMA TakenRoutes ==
    ASSUME NEW table, NEW c \in L4Connections,
           \A port \in DOMAIN table :
              /\ table[port] \in L4ProxyRow /\ IsFiniteSet(table[port].routes)
              /\ \A a, b \in table[port].routes : a.priority = b.priority => a = b,
           NEW r \in L4Taken(L4Config(table), c)
    PROVE  LET mine == {x \in table[c.port].routes : x.upstreams}
           IN  /\ c.port \in DOMAIN table /\ table[c.port].active
               /\ \E x \in mine :
                     /\ Applies(x, c) /\ x.priority = r.to /\ x.terminate = r.terminate
                     /\ \A y \in mine : Applies(y, c) => x.priority <= y.priority
  <1> DEFINE layer4 == L4Config(table)
             mine == {x \in table[c.port].routes : x.upstreams}
             sorted == ByPriority(mine)
             n == Len(sorted)
             routes == layer4[c.port]
             takes(i) == /\ c.proto \in routes[i].match.protos /\ c.ip \in routes[i].match.ips
                         /\ c.proto = "tls" => c.sni \in routes[i].match.sni
  <1>1. c.port \in DOMAIN layer4
    BY DEF L4Taken
  <1>2. c.port \in DOMAIN table /\ table[c.port].active
    BY <1>1 DEF L4Config
  <1>3. routes = L4Server(table[c.port])
    BY <1>1 DEF L4Config
  <1>4. mine \in SUBSET L4RouteRow /\ Sortable(mine)
    <2>1. mine \in SUBSET L4RouteRow
      BY <1>2 DEF L4ProxyRow
    <2>2. IsFiniteSet(mine)
      <3>1. mine \in SUBSET table[c.port].routes /\ IsFiniteSet(table[c.port].routes)
        BY <1>2
      <3> QED
        BY <3>1, FS_Subset
    <2>3. \A a \in mine : a.priority \in Int
      BY <2>1 DEF L4RouteRow
    <2>4. \A a, b \in mine : a.priority = b.priority => a = b
      BY <1>2
    <2> HIDE DEF mine
    <2> QED
      BY <2>1, <2>2, <2>3, <2>4 DEF Sortable
  <1>5. /\ sorted \in Seq(mine) /\ DOMAIN sorted = 1 .. n
        /\ \A i, j \in DOMAIN sorted : i < j => sorted[i].priority < sorted[j].priority
        /\ \A a \in mine : \E i \in DOMAIN sorted : sorted[i] = a
    BY <1>4, ByPriorityProperties
  <1>6. routes = [i \in DOMAIN sorted |->
                     [match |-> L4Matcher(sorted[i]), handle |-> L4Handle(sorted[i])]]
    BY <1>3 DEF L4Server
  <1> HIDE DEF sorted, mine
  <1>7. n \in Nat /\ \A i \in 1 .. n : sorted[i] \in mine
    BY <1>5
  <1>8. DOMAIN routes = 1 .. n
    BY <1>5, <1>6
  <1>9. \A i \in 1 .. n : /\ routes[i].match = L4Matcher(sorted[i])
                          /\ routes[i].handle = L4Handle(sorted[i])
    BY <1>5, <1>6
  <1>10. PICK i \in DOMAIN routes : takes(i) /\ (\A k \in 1 .. i - 1 : ~takes(k)) /\ r = routes[i].handle
    BY <1>1 DEF L4Taken
  <1> HIDE DEF routes, n
  <1>11. \A k \in 1 .. n : takes(k) <=> Applies(sorted[k], c)
    <2> TAKE k \in 1 .. n
    <2>1. sorted[k] \in L4RouteRow
      BY <1>4, <1>7
    <2> QED
      BY <1>9, <2>1, MatcherApplies
  <1> HIDE DEF takes
  <1>12. i \in 1 .. n /\ sorted[i] \in mine /\ Applies(sorted[i], c)
    BY <1>7, <1>8, <1>10, <1>11
  <1>13. sorted[i].priority = r.to /\ sorted[i].terminate = r.terminate
    <2>1. r = L4Handle(sorted[i])
      BY <1>9, <1>10, <1>12
    <2> QED
      BY <2>1 DEF L4Handle
  <1>14. \A y \in mine : Applies(y, c) => sorted[i].priority <= y.priority
    <2> TAKE y \in mine
    <2> HAVE Applies(y, c)
    <2>1. PICK j \in 1 .. n : sorted[j] = y
      BY <1>5 DEF n
    <2>2. ~(j < i)
      <3>1. takes(j)
        BY <1>11, <2>1
      <3>2. j < i => j \in 1 .. i - 1
        BY <1>7, <1>12
      <3> QED
        BY <1>10, <3>1, <3>2
    <2>3. sorted[i].priority \in Int /\ y.priority \in Int
      BY <1>4, <1>12 DEF Sortable
    <2>4. i < j => sorted[i].priority < sorted[j].priority
      BY <1>5, <1>12 DEF n
    <2>5. i = j \/ i < j
      BY <1>7, <1>12, <2>2
    <2> QED
      BY <2>1, <2>3, <2>4, <2>5
  <1> QED
    BY <1>2, <1>12, <1>13, <1>14 DEF mine

\* A terminated connection finds a certificate ordered for its name and somebody
\* answering for it over HTTP, and goes to the first route that applies
\* (layer4_builder.go, tls_builder.go, extractL4TLSHostnames, buildL4TLSRoutes).
THEOREM TerminatedHasCertificateHolds == ConfigSpec => []TerminatedHasCertificate
  <1>1. ConfigInv => TerminatedHasCertificate
    <2> SUFFICES ASSUME ConfigInv, config # Unbuilt, NEW c \in L4Connections,
                        NEW r \in L4Taken(config.layer4, c)
                 PROVE  LET mine == {x \in l4table[c.port].routes : x.upstreams}
                        IN  /\ l4table[c.port].active
                            /\ \E x \in mine :
                                  /\ Applies(x, c) /\ x.priority = r.to /\ x.terminate = r.terminate
                                  /\ \A y \in mine : Applies(y, c) => x.priority <= y.priority
                                  /\ (r.terminate /\ x.matcher = "tls" /\ x.sni # {}) =>
                                        /\ c.sni \in config.domains
                                        /\ \/ Has(config.routes, c.sni)
                                           \/ c.sni \in ProxyHosts /\ ~rows[c.sni].complete
      BY DEF TerminatedHasCertificate, Applies, Has
    <2> DEFINE mine == {x \in l4table[c.port].routes : x.upstreams}
    <2>1. PICK db : db = Read(config.lost)
      OBVIOUS
    <2>2. Readable(db)
      BY <2>1, ReadReadable
    <2>3. /\ config.routes = BuildRoutes(db) /\ config.domains = TLSDomains(db)
          /\ config.layer4 = L4Config(db.l4table)
      BY <2>1 DEF ConfigInv, Built
    <2>4. db.rows = rows /\ db.l4table \in {<<>>, l4table}
      BY <2>1, ReadFields
    <2>5. \A port \in DOMAIN db.l4table :
             /\ db.l4table[port] \in L4ProxyRow /\ IsFiniteSet(db.l4table[port].routes)
             /\ \A a, b \in db.l4table[port].routes : a.priority = b.priority => a = b
      <3>1. DOMAIN <<>> = {}
        OBVIOUS
      <3>2. l4table \in [L4Ports -> L4ProxyRow]
        BY ConfigAssumption DEF ConfigInv
      <3>3. \A port \in L4Ports :
               /\ IsFiniteSet(l4table[port].routes)
               /\ \A a, b \in l4table[port].routes : a.priority = b.priority => a = b
        BY ConfigAssumption DEF ConfigInv
      <3> QED
        BY <2>4, <3>1, <3>2, <3>3
    <2>6. /\ c.port \in DOMAIN db.l4table /\ db.l4table[c.port].active
          /\ \E x \in {x \in db.l4table[c.port].routes : x.upstreams} :
                /\ Applies(x, c) /\ x.priority = r.to /\ x.terminate = r.terminate
                /\ \A y \in {y \in db.l4table[c.port].routes : y.upstreams} :
                      Applies(y, c) => x.priority <= y.priority
      <3>1. PICK table : table = db.l4table
        OBVIOUS
      <3>2. r \in L4Taken(L4Config(table), c)
        BY <2>3, <3>1
      <3>3. LET ups == {x \in table[c.port].routes : x.upstreams}
            IN  /\ c.port \in DOMAIN table /\ table[c.port].active
                /\ \E x \in ups :
                      /\ Applies(x, c) /\ x.priority = r.to /\ x.terminate = r.terminate
                      /\ \A y \in ups : Applies(y, c) => x.priority <= y.priority
        BY <2>5, <3>1, <3>2, TakenRoutes
      <3> QED
        BY <3>1, <3>3
    <2>7. db.l4table = l4table
      BY <2>4, <2>6
    <2>8. l4table[c.port].active /\ c.port \in DOMAIN l4table
      BY <2>6, <2>7
    <2>9. PICK x \in mine :
             /\ Applies(x, c) /\ x.priority = r.to /\ x.terminate = r.terminate
             /\ \A y \in mine : Applies(y, c) => x.priority <= y.priority
      BY <2>6, <2>7
    <2>10. ASSUME r.terminate, x.matcher = "tls", x.sni # {}
           PROVE  /\ c.sni \in config.domains
                  /\ Has(config.routes, c.sni) \/ (c.sni \in ProxyHosts /\ ~rows[c.sni].complete)
      <3>1. c.sni \in x.sni /\ x.terminate
        BY <2>9, <2>10 DEF Applies
      <3>2. c.sni \in L4TLSHostnames(l4table)
        <4>1. c.port \in {q \in DOMAIN l4table : l4table[q].active}
          BY <2>8
        <4>2. x \in {z \in l4table[c.port].routes : z.terminate /\ z.matcher = "tls"}
          BY <2>10, <3>1
        <4> QED
          BY <3>1, <4>1, <4>2 DEF L4TLSHostnames
      <3>3. c.sni \in config.domains
        BY <2>3, <2>7, <3>2 DEF TLSDomains
      <3>4. CASE c.sni \in ActiveHosts(db) /\ ~db.rows[c.sni].complete
        <4>1. c.sni \in ProxyHosts
          BY <2>2, <3>4 DEF ActiveHosts, Readable
        <4> QED
          BY <2>4, <3>3, <3>4, <4>1
      <3>5. CASE ~(c.sni \in ActiveHosts(db) /\ ~db.rows[c.sni].complete)
        <4>1. \/ c.sni \in L4TLSHostnames(db.l4table) \ ActiveHosts(db)
              \/ c.sni \in ActiveHosts(db) /\ db.rows[c.sni].complete
          BY <2>7, <3>2, <3>5
        <4> DEFINE req == [host |-> c.sni, path |-> settings.metricsPath, ip |-> c.ip,
                           exploit |-> FALSE]
        <4>2. /\ req.host \in Hosts /\ req.path \in Paths /\ req.ip \in Ips
              /\ req.exploit \in BOOLEAN
          BY DEF L4Connections, ConfigInv, Settings
        <4> HIDE DEF req
        <4>3. Has(BuildRoutes(db), c.sni)
          BY <2>2, <4>1, <4>2, BuildHas
        <4> QED
          BY <2>3, <3>3, <4>3
      <3> QED
        BY <3>4, <3>5
    <2> QED
      BY <2>8, <2>9, <2>10
  <1> QED
    BY <1>1, ConfigInvariant, PTL
=============================================================================
