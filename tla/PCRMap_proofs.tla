--------------------------- MODULE PCRMap_proofs ---------------------------
(***************************************************************************)
(* Theorems about PCRMap, for any PCRs, values, algorithms and inputs:     *)
(* IInv is inductive, and BoundToNamedPCRs, UsableMeansAllHashed and       *)
(* NothingPartial follow from it.                                          *)
(***************************************************************************)
EXTENDS PCRMap, FiniteSetTheorems, TLAPS

-----------------------------------------------------------------------------
(* The order of a set of PCRs. *)

\* s lists numbers in increasing order.
IncreasingTo(n, s) == \A i, j \in 1..n : i < j => s[i] < s[j]

\* A list of as many of a set's numbers as it has, in order, has all of them.
LEMMA ListsAll ==
  ASSUME NEW S \in SUBSET Nat, IsFiniteSet(S), NEW n \in Nat, n = Cardinality(S),
         NEW s \in [1..n -> S], IncreasingTo(n, s)
  PROVE  s \in Bijection(1..n, S) /\ \A x \in S : \E i \in 1..n : s[i] = x
<1>1. \A i, j \in 1..n : s[i] = s[j] => i = j
  <2> SUFFICES ASSUME NEW i \in 1..n, NEW j \in 1..n, s[i] = s[j], i # j PROVE FALSE
    OBVIOUS
  <2>1. s[i] \in Nat /\ s[j] \in Nat
    OBVIOUS
  <2>2. i < j \/ j < i
    OBVIOUS
  <2> QED BY <2>1, <2>2 DEF IncreasingTo
<1>2. s \in Injection(1..n, S)
  BY <1>1 DEF Injection, IsInjective
<1>3. Cardinality(1..n) = Cardinality(S)
  BY FS_Interval
<1>4. s \in Surjection(1..n, S)
  BY <1>2, <1>3, FS_Injection
<1> QED BY <1>2, <1>4 DEF Bijection, Surjection

\* The place of a number in the order of a set.
Rank(S, x) == Cardinality({y \in S : y <= x})

\* A larger number has a later place.
LEMMA RankGrows ==
  ASSUME NEW S \in SUBSET Nat, IsFiniteSet(S)
  PROVE  /\ Cardinality(S) \in Nat
         /\ \A x \in S : Rank(S, x) \in 1..Cardinality(S)
         /\ \A x, y \in S : x < y => Rank(S, x) < Rank(S, y)
         /\ \A x, y \in S : Rank(S, x) = Rank(S, y) => x = y
<1> DEFINE n == Cardinality(S)
           B(x) == {y \in S : y <= x}
<1>1. n \in Nat
  BY FS_CardinalityType
<1>2. ASSUME NEW x \in S PROVE Rank(S, x) \in 1..n
  <2>1. IsFiniteSet(B(x)) /\ Cardinality(B(x)) <= n
    BY FS_Subset
  <2>2. x \in B(x)
    BY <1>2
  <2>3. Cardinality(B(x)) # 0
    BY <2>1, <2>2, FS_EmptySet
  <2>4. Cardinality(B(x)) \in Nat
    BY <2>1, FS_CardinalityType
  <2> QED BY <1>1, <2>1, <2>3, <2>4 DEF Rank
<1>3. ASSUME NEW x \in S, NEW y \in S, x < y PROVE Rank(S, x) < Rank(S, y)
  <2>1. IsFiniteSet(B(y))
    BY FS_Subset
  <2>2. B(x) \subseteq B(y)
    <3> SUFFICES ASSUME NEW z \in S, z <= x PROVE z <= y
      OBVIOUS
    <3> QED BY <1>3
  <2>3. y \in B(y) /\ y \notin B(x)
    BY <1>3
  <2> DEFINE C == B(x)
             D == B(y)
  <2>4. C \in SUBSET D /\ C # D /\ IsFiniteSet(D)
    BY <2>1, <2>2, <2>3
  <2>5. Rank(S, x) = Cardinality(C) /\ Rank(S, y) = Cardinality(D)
    BY DEF Rank
  <2> HIDE DEF C, D
  <2>6. Cardinality(C) <= Cardinality(D) /\ Cardinality(C) # Cardinality(D)
    BY <2>4, FS_Subset
  <2>7. Rank(S, x) \in Nat /\ Rank(S, y) \in Nat
    BY <1>1, <1>2
  <2> QED BY <2>5, <2>6, <2>7
<1>4. ASSUME NEW x \in S, NEW y \in S, Rank(S, x) = Rank(S, y), x # y PROVE FALSE
  <2>1. x < y \/ y < x
    BY <1>4
  <2>2. Rank(S, x) \in Nat /\ Rank(S, y) \in Nat
    BY <1>1, <1>2
  <2> QED BY <1>3, <1>4, <2>1, <2>2
<1> QED BY <1>1, <1>2, <1>3, <1>4

\* In a list of all of a set in increasing order, the places are the ranks.
LEMMA RankInList ==
  ASSUME NEW S \in SUBSET Nat, IsFiniteSet(S), NEW n \in Nat, n = Cardinality(S),
         NEW s \in [1..n -> S], IncreasingTo(n, s), NEW i \in 1..n
  PROVE  Rank(S, s[i]) = i
<1> DEFINE B == {y \in S : y <= s[i]}
           f == [j \in 1..i |-> s[j]]
<1>1. s \in Bijection(1..n, S) /\ \A x \in S : \E j \in 1..n : s[j] = x
  BY ListsAll
<1>2. \A j, k \in 1..n : s[j] = s[k] => j = k
  BY <1>1 DEF Bijection, Injection, IsInjective
<1>3. \A j \in 1..n : s[j] \in Nat
  OBVIOUS
<1>4. ASSUME NEW j \in 1..i PROVE f[j] \in B
  <2>1. j \in 1..n /\ f[j] = s[j] /\ (j < i \/ j = i)
    OBVIOUS
  <2>2. s[j] <= s[i]
    BY <1>3, <2>1 DEF IncreasingTo
  <2> QED BY <2>1, <2>2
<1>5. ASSUME NEW y \in B PROVE \E j \in 1..i : f[j] = y
  <2>1. PICK j \in 1..n : s[j] = y
    BY <1>1
  <2>2. ~ i < j
    <3> SUFFICES ASSUME i < j PROVE FALSE
      OBVIOUS
    <3>1. s[i] < s[j]
      BY DEF IncreasingTo
    <3>2. s[j] <= s[i]
      BY <2>1
    <3> QED BY <1>3, <3>1, <3>2
  <2> QED BY <2>1, <2>2
<1>6. f \in [1..i -> B]
  BY <1>4
<1>7. f \in Bijection(1..i, B)
  <2>1. \A j, k \in 1..i : f[j] = f[k] => j = k
    BY <1>2
  <2> HIDE DEF f, B
  <2> QED BY <1>5, <1>6, <2>1 DEF Bijection, Injection, Surjection, IsInjective
<1>8. IsFiniteSet(1..i) /\ Cardinality(1..i) = i
  BY FS_Interval
<1> HIDE DEF f
<1>9. Cardinality(B) = i
  BY <1>7, <1>8, FS_Bijection DEF ExistsBijection
<1> QED BY <1>9 DEF Rank

\* There is one such list only ...
LEMMA ListedOnce ==
  ASSUME NEW S \in SUBSET Nat, IsFiniteSet(S), NEW n \in Nat, n = Cardinality(S),
         NEW s \in [1..n -> S], IncreasingTo(n, s),
         NEW t \in [1..n -> S], IncreasingTo(n, t)
  PROVE  s = t
<1> SUFFICES ASSUME NEW i \in 1..n PROVE s[i] = t[i]
  OBVIOUS
<1>1. Rank(S, s[i]) = i /\ Rank(S, t[i]) = i
  BY RankInList
<1>2. s[i] \in S /\ t[i] \in S
  OBVIOUS
<1>3. \A x, y \in S : Rank(S, x) = Rank(S, y) => x = y
  BY RankGrows
<1> QED BY <1>1, <1>2, <1>3

\* ... and InOrder is it.
LEMMA InOrderLists ==
  ASSUME NEW S \in SUBSET Nat, IsFiniteSet(S)
  PROVE  /\ InOrder(S) \in [1..Cardinality(S) -> S]
         /\ IncreasingTo(Cardinality(S), InOrder(S))
<1> DEFINE n == Cardinality(S)
           r == [x \in S |-> Rank(S, x)]
<1>1. /\ n \in Nat /\ r \in [S -> 1..n]
      /\ \A x, y \in S : (x < y => r[x] < r[y]) /\ (r[x] = r[y] => x = y)
  BY RankGrows
<1> HIDE DEF r
<1>2. r \in Injection(S, 1..n)
  BY <1>1 DEF Injection, IsInjective
<1>3. IsFiniteSet(1..n) /\ Cardinality(1..n) = n
  BY <1>1, FS_Interval
<1>4. r \in Surjection(S, 1..n)
  BY <1>2, <1>3, FS_Injection
<1>5. \A i \in 1..n : \E x \in S : r[x] = i
  BY <1>4 DEF Surjection
<1> DEFINE s == [i \in 1..n |-> CHOOSE x \in S : r[x] = i]
<1>6. \A i \in 1..n : s[i] \in S /\ r[s[i]] = i
  BY <1>5
<1>7. s \in [1..n -> S]
  BY <1>6
<1> HIDE DEF s
<1>8. ASSUME NEW i \in 1..n, NEW j \in 1..n, i < j PROVE s[i] < s[j]
  <2> DEFINE x == s[i]
             y == s[j]
  <2>1. x \in S /\ y \in S /\ r[x] = i /\ r[y] = j
    BY <1>6
  <2> HIDE DEF x, y
  <2>2. x \in Nat /\ y \in Nat /\ i \in Nat /\ j \in Nat
    BY <2>1
  <2>3. x # y /\ ~ y < x
    BY <1>1, <1>8, <2>1, <2>2
  <2>4. x < y
    BY <2>2, <2>3
  <2> QED BY <2>4 DEF x, y
<1>9. DOMAIN s = 1..n
  BY <1>7
<1>10. \E u \in [1..n -> S] : \A i, j \in DOMAIN u : i < j => u[i] < u[j]
  BY <1>7, <1>8, <1>9
<1>11. /\ InOrder(S) \in [1..n -> S]
       /\ \A i, j \in DOMAIN InOrder(S) : i < j => InOrder(S)[i] < InOrder(S)[j]
  BY <1>10, Zenon DEF InOrder
<1> QED BY <1>11 DEF IncreasingTo

-----------------------------------------------------------------------------
(* The inductive invariant. *)

\* An input is a sequence of entries, and a well-formed entry has both parts.
LEMMA EntryParts ==
  ASSUME TypeOK
  PROVE  /\ input \in Seq(Entry) /\ rest \in Seq(Entry)
         /\ \A e \in Entry \ Malformed : e.index \in Index /\ e.index \in Nat /\ e.value \in Seq(Byte)
  BY IndexAssumption, InputAssumption DEF TypeOK, Entry

\* The bytes of a value at the end of others.
LEMMA Appended ==
  ASSUME NEW S, NEW s \in Seq(S), NEW v \in Seq(S)
  PROVE  /\ s \o v \in Seq(S) /\ Len(s \o v) = Len(s) + Len(v)
         /\ \A j \in 1..Len(s) : (s \o v)[j] = s[j]
         /\ \A j \in 1..Len(v) : (s \o v)[Len(s) + j] = v[j]
OBVIOUS

\* One more value at the end, and one more cut.
LEMMA SpellOneMore ==
  ASSUME NEW k \in Nat, NEW w \in Seq(Byte), Spell(k, w),
         \A n \in 1..(k + 1) : input[n].value \in Seq(Byte)
  PROVE  Spell(k + 1, w \o input[k + 1].value)
<1> DEFINE v == input[k + 1].value
           u == w \o v
<1>1. /\ v \in Seq(Byte) /\ Len(v) \in Nat /\ Len(w) \in Nat
      /\ Len(u) = Len(w) + Len(v)
      /\ \A j \in 1..Len(w) : u[j] = w[j]
      /\ \A j \in 1..Len(v) : u[Len(w) + j] = v[j]
  BY Appended
<1> HIDE DEF u
<1>2. PICK cut \in [0..k -> 0..Len(w)] :
        /\ cut[0] = 0 /\ cut[k] = Len(w)
        /\ \A n \in 1..k :
             /\ cut[n] = cut[n - 1] + Len(input[n].value)
             /\ \A j \in 1..Len(input[n].value) : w[cut[n - 1] + j] = input[n].value[j]
  BY DEF Spell
<1> DEFINE new == [n \in 0..(k + 1) |-> IF n = k + 1 THEN Len(u) ELSE cut[n]]
<1>3. \A n \in 0..k : n \in 0..(k + 1) /\ n # k + 1 /\ cut[n] \in 0..Len(w)
  BY <1>2
<1>4. /\ \A n \in 0..k : new[n] = cut[n]
      /\ new[k + 1] = Len(u)
  BY <1>3
<1>5. new \in [0..(k + 1) -> 0..Len(u)]
  <2> SUFFICES ASSUME NEW n \in 0..(k + 1) PROVE new[n] \in 0..Len(u)
    OBVIOUS
  <2>1. n \in 0..k \/ n = k + 1
    OBVIOUS
  <2> QED BY <1>1, <1>3, <2>1
<1> HIDE DEF new
<1>6. new[0] = 0 /\ 0 \in 0..k /\ k \in 0..k
  BY <1>2, <1>4
<1>7. ASSUME NEW n \in 1..(k + 1)
      PROVE  /\ new[n] = new[n - 1] + Len(input[n].value)
             /\ \A j \in 1..Len(input[n].value) : u[new[n - 1] + j] = input[n].value[j]
  <2>1. CASE n = k + 1
    <3>1. new[n - 1] = Len(w) /\ new[n] = Len(u) /\ input[n].value = v
      BY <1>2, <1>4, <1>6, <2>1
    <3> QED BY <1>1, <3>1
  <2>2. CASE n \in 1..k
    <3>1. n \in 0..k /\ n - 1 \in 0..k
      BY <2>2
    <3>2. new[n] = cut[n] /\ new[n - 1] = cut[n - 1]
      BY <1>4, <3>1
    <3>3. cut[n] = cut[n - 1] + Len(input[n].value)
      BY <1>2, <2>2
    <3>4. ASSUME NEW j \in 1..Len(input[n].value) PROVE u[cut[n - 1] + j] = input[n].value[j]
      <4>1. w[cut[n - 1] + j] = input[n].value[j]
        BY <1>2, <2>2
      <4> DEFINE a == cut[n - 1]
                 l == Len(input[n].value)
                 z == Len(w)
      <4>2. l \in Nat /\ z \in Nat /\ a \in 0..z /\ a + l \in 0..z /\ j \in 1..l
        BY <1>1, <1>3, <1>7, <3>1, <3>3
      <4> HIDE DEF a, l, z
      <4>3. a + j \in 1..z
        BY <4>2
      <4> USE DEF a, l, z
      <4> QED BY <1>1, <4>1, <4>3
    <3> QED BY <3>2, <3>3, <3>4
  <2> QED BY <2>1, <2>2
<1> QED BY <1>4, <1>5, <1>6, <1>7 DEF Spell, u

-----------------------------------------------------------------------------
(* The bytes of the selected PCRs. *)

\* More pieces are longer.
LEMMA PiecesGrow ==
  ASSUME NEW a \in Nat, NEW b \in Nat, NEW c \in Nat, a <= b
  PROVE  a * c <= b * c /\ a * c \in Nat
OBVIOUS

\* A place in pieces of equal length has one piece, and one place in it.
LEMMA PlaceInPiece ==
  ASSUME NEW q \in Nat, NEW r \in Nat, NEW p \in Nat, NEW t \in Nat, NEW c \in Nat \ {0},
         r < c, t < c, q * c + r = p * c + t
  PROVE  q = p /\ r = t
<1>1. CASE q = p
  <2>1. q * c = p * c /\ q * c \in Nat
    BY <1>1
  <2> QED BY <1>1, <2>1
<1>2. ASSUME NEW x \in Nat, NEW y \in Nat, NEW u \in Nat, NEW v \in Nat, x < y, u < c, v < c,
             x * c + u = y * c + v
      PROVE FALSE
  <2>1. (x + 1) * c <= y * c /\ y * c \in Nat /\ x * c \in Nat
    BY <1>2, PiecesGrow
  <2>2. (x + 1) * c = x * c + c
    OBVIOUS
  <2> QED BY <1>2, <2>1, <2>2
<1> QED BY <1>1, <1>2

\* The piece and the place are the quotient and the remainder.
LEMMA Divided ==
  ASSUME NEW m \in Nat, NEW c \in Nat \ {0}
  PROVE  /\ m \div c \in Nat /\ m % c \in 0..(c - 1)
         /\ m = ((m \div c) * c) + (m % c)
OBVIOUS

\* Place k of piece i, and its quotient and remainder.
LEMMA PieceToPlace ==
  ASSUME NEW n \in Nat, NEW c \in Nat \ {0}, NEW i \in 1..n, NEW k \in 1..c
  PROVE  /\ (i - 1) * c + k \in 1..(n * c)
         /\ ((((i - 1) * c + k) - 1) \div c) + 1 = i
         /\ ((((i - 1) * c + k) - 1) % c) + 1 = k
<1> DEFINE q == i - 1
           r == k - 1
           m == q * c + r
<1>1. q \in Nat /\ r \in Nat /\ r < c /\ q * c \in Nat /\ q + 1 <= n
  BY PiecesGrow
<1>2. (q + 1) * c <= n * c /\ n * c \in Nat
  BY <1>1, PiecesGrow
<1>3. (q + 1) * c = q * c + c
  OBVIOUS
<1>4. m \in Nat /\ q * c + k = m + 1 /\ (q * c + k) - 1 = m
  BY <1>1
<1>5. m \div c \in Nat /\ m % c \in 0..(c - 1) /\ m = ((m \div c) * c) + (m % c)
  BY <1>4, Divided
<1> DEFINE p == m \div c
           t == m % c
<1>6. p \in Nat /\ t \in Nat /\ t < c /\ q * c + r = p * c + t
  BY <1>5
<1> HIDE DEF p, t
<1>7. q = p /\ r = t
  BY <1>1, <1>6, PlaceInPiece
<1> QED BY <1>1, <1>2, <1>3, <1>4, <1>7 DEF p, t

\* Every place is a place of a piece.
LEMMA PlaceToPiece ==
  ASSUME NEW n \in Nat, NEW c \in Nat \ {0}, NEW m \in 1..(n * c)
  PROVE  \E i \in 1..n, k \in 1..c : m = (i - 1) * c + k
<1> DEFINE q == (m - 1) \div c
           r == (m - 1) % c
<1>1. n * c \in Nat
  BY PiecesGrow
<1>2. m - 1 \in Nat /\ m <= n * c
  BY <1>1
<1>3. q \in Nat /\ r \in 0..(c - 1) /\ m - 1 = q * c + r
  BY <1>2, Divided
<1> HIDE DEF q, r
<1>4. q * c \in Nat
  BY <1>3, PiecesGrow
<1>5. ~ n <= q
  <2> SUFFICES ASSUME n <= q PROVE FALSE
    OBVIOUS
  <2>1. n * c <= q * c
    BY <1>3, PiecesGrow
  <2> QED BY <1>1, <1>2, <1>3, <1>4, <2>1
<1>6. q + 1 \in 1..n /\ r + 1 \in 1..c /\ (q + 1) - 1 = q
  BY <1>3, <1>5
<1>7. m = ((q + 1) - 1) * c + (r + 1)
  BY <1>2, <1>3, <1>4, <1>6
<1> DEFINE i == q + 1
           k == r + 1
<1>8. i \in 1..n /\ k \in 1..c /\ m = (i - 1) * c + k
  BY <1>6, <1>7
<1> HIDE DEF i, k
<1> QED BY <1>8

\* Strings with the same pieces are the same.
LEMMA SamePieces ==
  ASSUME NEW s \in Seq(Byte), NEW t \in Seq(Byte), NEW n \in Nat,
         Len(s) = n * Size, Len(t) = n * Size,
         \A i \in 1..n, k \in 1..Size : s[(i - 1) * Size + k] = t[(i - 1) * Size + k]
  PROVE  s = t
<1>1. ASSUME NEW m \in 1..Len(s) PROVE s[m] = t[m]
  <2>1. Size \in Nat \ {0} /\ m \in 1..(n * Size)
    BY ValueAssumption
  <2>2. PICK i \in 1..n, k \in 1..Size : m = (i - 1) * Size + k
    BY <2>1, PlaceToPiece
  <2> QED BY <2>2
<1>2. Len(s) = Len(t)
  OBVIOUS
<1> QED BY <1>1, <1>2

\* What the TPM hashes: PCR by PCR, in order.
LEMMA PCRsInOrder ==
  ASSUME TypeOK, NEW S \in SUBSET Index, IsFiniteSet(S)
  PROVE  /\ Cardinality(S) \in Nat
         /\ PCRBytes(S) \in Seq(Byte) /\ Len(PCRBytes(S)) = Cardinality(S) * Size
         /\ \A i \in 1..Cardinality(S), k \in 1..Size :
              PCRBytes(S)[(i - 1) * Size + k] = bank[InOrder(S)[i]][k]
<1> DEFINE n == Cardinality(S)
           s == InOrder(S)
<1>1. n \in Nat /\ s \in [1..n -> S]
  BY FS_CardinalityType, InOrderLists, IndexAssumption
<1>2. Size \in Nat \ {0} /\ \A i \in S, k \in 1..Size : bank[i][k] \in Byte
  <2>1. \A i \in S : bank[i] \in [1..Size -> Byte]
    BY ValueAssumption DEF TypeOK
  <2> QED BY <2>1, ValueAssumption
<1>3. PCRBytes(S) = [m \in 1..(n * Size) |-> bank[s[((m - 1) \div Size) + 1]][((m - 1) % Size) + 1]]
  BY DEF PCRBytes
<1> HIDE DEF n, s
<1>4. n * Size \in Nat
  BY <1>1, <1>2, PiecesGrow
<1>5. ASSUME NEW i \in 1..n, NEW k \in 1..Size
      PROVE  (i - 1) * Size + k \in 1..(n * Size) /\ PCRBytes(S)[(i - 1) * Size + k] = bank[s[i]][k]
  <2> DEFINE m == (i - 1) * Size + k
  <2>1. m \in 1..(n * Size) /\ ((m - 1) \div Size) + 1 = i /\ ((m - 1) % Size) + 1 = k
    BY <1>1, <1>2, PieceToPlace
  <2> HIDE DEF m
  <2> QED BY <1>3, <2>1 DEF m
<1>6. ASSUME NEW m \in 1..(n * Size) PROVE PCRBytes(S)[m] \in Byte
  <2>1. PICK i \in 1..n, k \in 1..Size : m = (i - 1) * Size + k
    BY <1>1, <1>2, PlaceToPiece
  <2>2. PCRBytes(S)[m] = bank[s[i]][k] /\ s[i] \in S
    BY <1>1, <1>5, <2>1
  <2> QED BY <1>2, <2>2
<1> DEFINE b == PCRBytes(S)
<1>7. b = [m \in 1..(n * Size) |-> b[m]] /\ \A m \in 1..(n * Size) : b[m] \in Byte
  BY <1>3, <1>6
<1> HIDE DEF b
<1>8. b \in Seq(Byte) /\ Len(b) = n * Size
  BY <1>4, <1>7
<1> QED BY <1>1, <1>5, <1>8 DEF n, s, b

\* The value of a PCR is as long as a PCR.
LEMMA PCRValue ==
  ASSUME NEW v \in Value
  PROVE  v \in Seq(Byte) /\ Len(v) = Size
BY ValueAssumption

-----------------------------------------------------------------------------
(* IInv is inductive. *)

\* Nothing is read at first.
LEMMA InitInvariant == Init => IInv
<1> SUFFICES ASSUME Init PROVE IInv
  OBVIOUS
<1>1. input \in Seq(Entry)
  BY InputAssumption DEF Init
<1>2. TypeOK
  BY <1>1 DEF Init, TypeOK
<1>3. Read = 0 /\ Len(rest) = Len(input) /\ rest = input
  BY <1>1 DEF Init, Read
<1>4. ReadOK
  <2>1. Read \in Nat /\ \A i \in 1..Len(rest) : rest[i] = input[Read + i]
    BY <1>1, <1>3
  <2>2. 1..Read = {}
    BY <1>3
  <2>3. hashed = <<>> /\ Len(hashed) = 0 /\ Selection = {} /\ result # "ok"
    BY <2>2 DEF Init, Selection
  <2>4. Spell(Read, hashed)
    <3> DEFINE cut == [n \in 0..0 |-> 0]
    <3>1. cut \in [0..0 -> 0..0] /\ cut[0] = 0 /\ Len(<<>>) = 0 /\ 1..0 = {}
      OBVIOUS
    <3> HIDE DEF cut
    <3>2. Spell(0, <<>>)
      BY <3>1 DEF Spell
    <3> QED BY <1>3, <2>3, <3>2
  <2>5. Len(hashed) = Read * Size
    BY <1>3, <2>3, ValueAssumption
  <2> QED BY <2>1, <2>2, <2>3, <2>4, <2>5 DEF ReadOK
<1>5. KeyOK /\ UsedOK
  BY DEF Init, KeyOK, UsedOK
<1> QED BY <1>2, <1>4, <1>5 DEF IInv

\* One more entry in the map and in the hash.
LEMMA ReadEntryInvariant ==
  ASSUME IInv, ReadEntry
  PROVE  IInv'
<1> DEFINE e == Head(rest)
           k == Read
<1>1. /\ result = "none" /\ rest # <<>> /\ e \notin Malformed
      /\ pcrMap' = [i \in Selection \union {e.index} |-> IF i = e.index THEN e.value ELSE pcrMap[i]]
      /\ hashed' = hashed \o e.value /\ rest' = Tail(rest)
      /\ UNCHANGED <<algo, input, key, bank, used, result>>
  BY DEF ReadEntry, Reading, unread, Selection
<1>2. TypeOK /\ ReadOK /\ KeyOK /\ UsedOK
  BY DEF IInv
<1>3. input \in Seq(Entry) /\ rest \in Seq(Entry)
  BY <1>2, EntryParts
<1>4. e \in Entry /\ Len(rest) \in Nat \ {0} /\ e = rest[1]
  BY <1>1, <1>3
<1>5. e.index \in Index /\ e.value \in Seq(Byte)
  BY <1>1, <1>2, <1>4, EntryParts
<1>6. k \in Nat /\ Len(input) \in Nat /\ k = Len(input) - Len(rest)
  BY <1>2, <1>3 DEF ReadOK, Read
<1>7. Len(rest') = Len(rest) - 1 /\ Read' = k + 1 /\ \A i \in 1..Len(rest') : rest'[i] = rest[i + 1]
  <2>1. Len(rest') = Len(rest) - 1 /\ \A i \in 1..Len(rest') : rest'[i] = rest[i + 1]
    BY <1>1, <1>3, <1>4
  <2> QED BY <1>1, <1>4, <1>6, <2>1 DEF Read
<1>8. e = input[k + 1]
  BY <1>2, <1>4 DEF ReadOK
<1> HIDE DEF e, k
<1>9. Selection' = Selection \union {e.index}
  BY <1>1 DEF Selection
<1>10. \A n \in 1..(k + 1) : n \in 1..k \/ n = k + 1
  BY <1>6
<1>11. 1..k \subseteq 1..(k + 1) /\ k + 1 \in 1..(k + 1) /\ \A n \in 1..k : k + 1 > n
  BY <1>6
<1>12. TypeOK'
  <2>1. rest' \in Seq(Entry)
    BY <1>1, <1>3
  <2>2. hashed' \in Seq(Byte)
    BY <1>1, <1>2, <1>5 DEF TypeOK
  <2>3. DOMAIN pcrMap' \subseteq Index /\ \A i \in DOMAIN pcrMap' : pcrMap'[i] \in Seq(Byte)
    BY <1>1, <1>2, <1>5 DEF TypeOK, Selection
  <2> QED BY <1>1, <1>2, <2>1, <2>2, <2>3 DEF TypeOK
<1>13. ReadOK'
  <2>1. Read' \in Nat /\ \A i \in 1..Len(rest') : rest'[i] = input'[Read' + i]
    <3> SUFFICES ASSUME NEW i \in 1..Len(rest') PROVE rest'[i] = input[k + 1 + i]
      BY <1>1, <1>6, <1>7
    <3>1. i + 1 \in 1..Len(rest) /\ k + 1 + i = k + (i + 1)
      BY <1>4, <1>6, <1>7
    <3>2. rest[i + 1] = input[k + (i + 1)]
      BY <1>2, <3>1 DEF ReadOK, k
    <3> QED BY <1>7, <3>1, <3>2
  <2>2. \A n \in 1..(k + 1) : input[n] \notin Malformed
    BY <1>1, <1>2, <1>8, <1>10 DEF ReadOK, k
  <2>3. \A n \in 1..(k + 1) : input[n].value \in Seq(Byte)
    <3>1. k + 1 <= Len(input)
      BY <1>4, <1>6
    <3>2. \A n \in 1..(k + 1) : input[n] \in Entry
      BY <1>3, <1>6, <3>1
    <3> QED BY <1>2, <2>2, <3>2, EntryParts
  <2>10. Spell(k + 1, hashed')
    <3>1. hashed \in Seq(Byte) /\ Spell(k, hashed)
      BY <1>2 DEF TypeOK, ReadOK, k
    <3> QED BY <1>1, <1>6, <1>8, <2>3, <3>1, SpellOneMore
  <2>11. ASSUME Sized(k + 1)
         PROVE  /\ Len(hashed') = (k + 1) * Size
                /\ \A n \in 1..(k + 1), j \in 1..Size : hashed'[(n - 1) * Size + j] = input[n].value[j]
    <3>1. /\ hashed \in Seq(Byte) /\ Len(hashed) = k * Size
          /\ \A n \in 1..k, j \in 1..Size : hashed[(n - 1) * Size + j] = input[n].value[j]
      BY <1>2, <1>11, <2>11 DEF TypeOK, ReadOK, Sized, k
    <3>2. Len(e.value) = Size /\ Size \in Nat \ {0}
      BY <1>8, <1>11, <2>11, ValueAssumption DEF Sized
    <3>3. /\ Len(hashed') = Len(hashed) + Size
          /\ \A j \in 1..Len(hashed) : hashed'[j] = hashed[j]
          /\ \A j \in 1..Size : hashed'[Len(hashed) + j] = e.value[j]
      <4> DEFINE v == e.value
      <4>1. hashed' = hashed \o v /\ Len(v) = Size
        BY <1>1, <3>2
      <4>4. hashed \in Seq(Byte) /\ v \in Seq(Byte)
        BY <1>5, <3>1
      <4> HIDE DEF v
      <4>2. /\ Len(hashed \o v) = Len(hashed) + Len(v)
            /\ \A j \in 1..Len(hashed) : (hashed \o v)[j] = hashed[j]
            /\ \A j \in 1..Len(v) : (hashed \o v)[Len(hashed) + j] = v[j]
        BY <4>4, Appended
      <4>3. /\ Len(hashed') = Len(hashed) + Size
            /\ \A j \in 1..Len(hashed) : hashed'[j] = hashed[j]
            /\ \A j \in 1..Size : hashed'[Len(hashed) + j] = v[j]
        BY <4>1, <4>2
      <4> QED BY <4>3 DEF v
    <3>4. (k + 1) * Size = k * Size + Size /\ (k + 1) - 1 = k
      BY <1>6, <3>2
    <3>5. ASSUME NEW n \in 1..(k + 1), NEW j \in 1..Size
          PROVE  hashed'[(n - 1) * Size + j] = input[n].value[j]
      <4>1. CASE n = k + 1
        <5>1. (n - 1) * Size + j = Len(hashed) + j
          BY <3>1, <3>4, <4>1
        <5> QED BY <1>8, <3>3, <4>1, <5>1
      <4>2. CASE n \in 1..k
        <5>1. (n - 1) * Size + j \in 1..Len(hashed)
          BY <1>6, <3>1, <3>2, <4>2, PieceToPlace
        <5> QED BY <3>1, <3>3, <4>2, <5>1
      <4> QED BY <1>10, <4>1, <4>2
    <3> QED BY <3>1, <3>3, <3>4, <3>5
  <2>4. Selection' = {input[n].index : n \in 1..(k + 1)}
    <3>1. Selection = {input[n].index : n \in 1..k}
      BY <1>2 DEF ReadOK, k
    <3> QED BY <1>8, <1>9, <1>10, <1>11, <3>1
  <2>5. ASSUME NEW n \in 1..(k + 1),
               \A m \in 1..(k + 1) : m > n => input[m].index # input[n].index
        PROVE  pcrMap'[input[n].index] = input[n].value
    <3>1. CASE n = k + 1
      BY <1>1, <1>8, <3>1
    <3>2. CASE n \in 1..k
      <4>1. input[n].index # e.index
        BY <1>8, <1>11, <2>5, <3>2
      <4>2. pcrMap[input[n].index] = input[n].value
        BY <1>2, <1>11, <2>5, <3>2 DEF ReadOK, k
      <4>3. input[n].index \in Selection
        BY <1>2, <3>2 DEF ReadOK, k
      <4> QED BY <1>1, <4>1, <4>2, <4>3
    <3> QED BY <1>10, <3>1, <3>2
  <2>6. result' # "ok"
    BY <1>1
  <2>7. Read' = k + 1 /\ input' = input
    BY <1>1, <1>7
  <2> HIDE DEF Read
  <2>8. /\ \A n \in 1..Read' : input'[n] \notin Malformed
        /\ Selection' = {input'[n].index : n \in 1..Read'}
    BY <2>2, <2>4, <2>7
  <2>9. \A n \in 1..Read' :
          (\A m \in 1..Read' : m > n => input'[m].index # input'[n].index) =>
            pcrMap'[input'[n].index] = input'[n].value
    BY <2>5, <2>7
  <2>12. Spell(Read, hashed)'
    BY <2>7, <2>10 DEF Spell
  <2>13. Sized(Read)' =>
           /\ Len(hashed') = Read' * Size
           /\ \A n \in 1..Read', j \in 1..Size :
                hashed'[(n - 1) * Size + j] = input'[n].value[j]
    BY <2>7, <2>11 DEF Sized
  <2> QED BY <2>1, <2>6, <2>8, <2>9, <2>12, <2>13 DEF ReadOK
<1>14. KeyOK' /\ UsedOK'
  BY <1>1, <1>2 DEF KeyOK, UsedOK
<1> QED BY <1>12, <1>13, <1>14 DEF IInv

\* The digest the TPM has for a selection of no PCR is that of nothing.
LEMMA NoPCR ==
  PCRBytes({}) = <<>> /\ CurrentDigest({}) = [alg |-> "SHA256", bytes |-> <<>>]
<1>1. Cardinality({}) = 0
  BY FS_EmptySet
<1>2. Cardinality({}) * Size = 0 /\ 1..0 = {}
  BY <1>1, ValueAssumption
<1>3. PCRBytes({}) = <<>>
  BY <1>2 DEF PCRBytes
<1> QED BY <1>3 DEF CurrentDigest

\* What a session over the whole map asserts.
LEMMA AssertedMap ==
  ASSUME IInv, result = "ok"
  PROVE  /\ Digest = NoDigest <=> Empty
         /\ Asserted(Selection, Digest) =
              [sel |-> Selection,
               digest |-> IF Empty THEN [alg |-> "SHA256", bytes |-> <<>>] ELSE Digest]
<1>1. Digest = NoDigest <=> Empty
  BY DEF Digest, NoDigest, HashOf
<1>2. Empty => Selection = {}
  <2> SUFFICES ASSUME Empty PROVE Selection = {}
    OBVIOUS
  <2>1. rest = <<>> /\ Selection = {input[n].index : n \in 1..Read} /\ input = <<>>
    BY DEF IInv, ReadOK, Empty
  <2>2. Read = 0
    BY <2>1 DEF Read
  <2> QED BY <2>1, <2>2
<1> QED BY <1>1, <1>2, NoPCR DEF Asserted

\* Steps that leave the map alone.
LEMMA MapKept ==
  ASSUME IInv, UNCHANGED <<algo, input, rest, pcrMap, hashed>>, result' = result
  PROVE  /\ ReadOK'
         /\ Selection' = Selection /\ Digest' = Digest /\ (Empty' <=> Empty)
         /\ bank' = bank => CurrentDigest(Selection)' = CurrentDigest(Selection)
<1>1. Read' = Read /\ Selection' = Selection /\ Digest' = Digest /\ (Empty' <=> Empty)
  BY DEF Read, Selection, Digest, Empty
<1>2. ReadOK'
  <2>1. Spell(Read, hashed)' <=> Spell(Read, hashed)
    BY <1>1 DEF Spell
  <2>2. Sized(Read)' <=> Sized(Read)
    BY <1>1 DEF Sized
  <2> HIDE DEF Read
  <2> QED BY <1>1, <2>1, <2>2 DEF IInv, ReadOK
<1>3. bank' = bank => CurrentDigest(Selection)' = CurrentDigest(Selection)
  BY <1>1 DEF CurrentDigest, PCRBytes
<1> QED BY <1>1, <1>2, <1>3

\* GetPCRMap ends.
LEMMA ResultInvariant ==
  ASSUME IInv, RefuseAlgorithm \/ RefuseEntry \/ Return
  PROVE  IInv'
<1>1. /\ result = "none" /\ UNCHANGED <<algo, input, rest, pcrMap, hashed, key, bank, used>>
      /\ \/ result' = "error"
         \/ result' = "ok" /\ rest = <<>> /\ (Empty \/ algo \in Supported)
  BY DEF RefuseAlgorithm, RefuseEntry, Return, Reading, unread
<1>2. TypeOK'
  BY <1>1 DEF IInv, TypeOK
<1>3. key = NoKey /\ used = "none"
  BY <1>1 DEF IInv, KeyOK, UsedOK
<1>4. Read' = Read /\ Selection' = Selection /\ (Empty' <=> Empty)
  BY <1>1 DEF Read, Selection, Empty
<1>5. ReadOK'
  <2>1. Spell(Read, hashed)' <=> Spell(Read, hashed)
    BY <1>1, <1>4 DEF Spell
  <2>2. Sized(Read)' <=> Sized(Read)
    BY <1>1, <1>4 DEF Sized
  <2> QED BY <1>1, <1>4, <2>1, <2>2 DEF IInv, ReadOK
<1>6. KeyOK' /\ UsedOK'
  BY <1>1, <1>3 DEF KeyOK, UsedOK
<1> QED BY <1>2, <1>5, <1>6 DEF IInv

\* A key is bound.
LEMMA TrialInvariant ==
  ASSUME IInv, GetTrialSession
  PROVE  IInv'
<1>1. /\ result = "ok" /\ key = NoKey /\ key' = Asserted(Selection, Digest)
      /\ UNCHANGED <<algo, input, rest, pcrMap, hashed, result, bank, used>>
  BY DEF GetTrialSession
<1>2. ReadOK' /\ Selection' = Selection /\ Digest' = Digest /\ (Empty' <=> Empty)
  BY <1>1, MapKept
<1>3. TypeOK'
  BY <1>1 DEF IInv, TypeOK
<1>4. KeyOK'
  BY <1>1, <1>2, AssertedMap DEF KeyOK
<1>5. UsedOK'
  BY <1>1 DEF IInv, UsedOK
<1> QED BY <1>2, <1>3, <1>4, <1>5 DEF IInv

\* A key is used.
LEMMA SessionInvariant ==
  ASSUME IInv, GetSession
  PROVE  IInv'
<1>1. /\ key # NoKey /\ UNCHANGED <<algo, input, rest, pcrMap, hashed, result, key, bank>>
      /\ used' = IF Digest \in {NoDigest, CurrentDigest(Selection)} /\ Asserted(Selection, Digest) = key
                   THEN "accepted" ELSE "refused"
  BY DEF GetSession
<1>2. /\ ReadOK' /\ Selection' = Selection /\ Digest' = Digest /\ (Empty' <=> Empty)
      /\ CurrentDigest(Selection)' = CurrentDigest(Selection)
  BY <1>1, MapKept
<1>3. TypeOK'
  BY <1>1 DEF IInv, TypeOK
<1>4. KeyOK'
  BY <1>1, <1>2 DEF IInv, KeyOK
<1>5. Asserted(Selection, Digest) = key /\ (Digest = NoDigest <=> Empty)
  BY <1>1, AssertedMap DEF IInv, KeyOK
<1>6. used' = IF Empty \/ Digest = CurrentDigest(Selection) THEN "accepted" ELSE "refused"
  BY <1>1, <1>5
<1>7. UsedOK'
  BY <1>1, <1>2, <1>6 DEF UsedOK
<1> QED BY <1>2, <1>3, <1>4, <1>7 DEF IInv

\* The PCRs change, and how the key was used last says nothing any more.
LEMMA ExtendInvariant ==
  ASSUME IInv, ExtendPCR
  PROVE  IInv'
<1>1. /\ used' = "none" /\ UNCHANGED <<algo, input, rest, pcrMap, hashed, result, key>>
      /\ bank' \in [Index -> Value]
  BY DEF ExtendPCR, IInv, TypeOK
<1>2. ReadOK' /\ Selection' = Selection /\ Digest' = Digest /\ (Empty' <=> Empty)
  BY <1>1, MapKept
<1>3. TypeOK'
  BY <1>1 DEF IInv, TypeOK
<1>4. KeyOK' /\ UsedOK'
  BY <1>1, <1>2 DEF IInv, KeyOK, UsedOK
<1> QED BY <1>2, <1>3, <1>4 DEF IInv

\* Map, hash, key and its uses stay as IInv has them.
THEOREM Invariant == Spec => []IInv
<1>1. ASSUME IInv, [Next]_vars PROVE IInv'
  <2>1. CASE UNCHANGED vars
    <3>1. /\ ReadOK' /\ Selection' = Selection /\ Digest' = Digest /\ (Empty' <=> Empty)
          /\ CurrentDigest(Selection)' = CurrentDigest(Selection)
      BY <1>1, <2>1, MapKept DEF vars
    <3>2. TypeOK'
      BY <1>1, <2>1 DEF vars, IInv, TypeOK
    <3>3. KeyOK' /\ UsedOK'
      BY <1>1, <2>1, <3>1 DEF vars, IInv, KeyOK, UsedOK
    <3> QED BY <3>1, <3>2, <3>3 DEF IInv
  <2> QED
    BY <1>1, <2>1, ReadEntryInvariant, ResultInvariant, TrialInvariant, SessionInvariant,
       ExtendInvariant DEF Next
<1> QED BY <1>1, InitInvariant, PTL DEF Spec

-----------------------------------------------------------------------------
(* What follows from it. *)

\* All of the input has been read.
LEMMA AllRead ==
  ASSUME IInv, result = "ok"
  PROVE  /\ input \in Seq(Entry) /\ Len(input) \in Nat /\ Read = Len(input) /\ WellFormed
         /\ \A n \in 1..Len(input) : input[n].index \in Index /\ input[n].value \in Seq(Byte)
         /\ Selection = {input[n].index : n \in 1..Len(input)}
         /\ IsFiniteSet(Selection) /\ Selection \in SUBSET Nat /\ Selection \in SUBSET Index
<1> DEFINE N == Len(input)
<1>1. input \in Seq(Entry) /\ N \in Nat /\ DOMAIN input = 1..N
  BY EntryParts DEF IInv
<1>2. Read = N
  BY <1>1 DEF IInv, ReadOK, Read
<1>3. WellFormed
  BY <1>1, <1>2 DEF IInv, ReadOK, WellFormed
<1>4. \A n \in 1..N : input[n].index \in Index /\ input[n].index \in Nat /\ input[n].value \in Seq(Byte)
  BY <1>1, <1>3, EntryParts DEF IInv, WellFormed
<1>5. Selection = {input[n].index : n \in 1..N}
  BY <1>2 DEF IInv, ReadOK
<1>6. Selection \in SUBSET Nat /\ Selection \in SUBSET Index
  BY <1>4, <1>5
<1> DEFINE f == [n \in 1..N |-> input[n].index]
<1>7. f \in Surjection(1..N, Selection)
  BY <1>5 DEF Surjection
<1> HIDE DEF f
<1>8. IsFiniteSet(Selection)
  BY <1>1, <1>7, FS_Interval, FS_Surjection
<1> QED BY <1>1, <1>2, <1>3, <1>4, <1>5, <1>6, <1>8

\* A key that is usable: what was hashed is what the PCRs hold.
LEMMA HashedIsHeld ==
  ASSUME IInv, used = "accepted"
  PROVE  hashed = PCRBytes(Selection)
<1>1. result = "ok" /\ (Empty \/ Digest = CurrentDigest(Selection))
  BY DEF IInv, KeyOK, UsedOK
<1>2. CASE Empty
  <2>1. Len(input) = 0 /\ Read = 0 /\ 1..0 = {}
    BY <1>1, <1>2, AllRead DEF Empty
  <2>2. Selection = {}
    BY <1>1, <2>1, AllRead
  <2>3. Spell(0, hashed) /\ hashed \in Seq(Byte)
    BY <2>1 DEF IInv, ReadOK, TypeOK
  <2>4. Len(hashed) = 0
    BY <2>3 DEF Spell
  <2> QED BY <2>2, <2>3, <2>4, NoPCR
<1>3. CASE ~Empty /\ Digest = CurrentDigest(Selection)
  <2>1. Digest.bytes = hashed
    BY <1>3 DEF Digest
  <2>2. CurrentDigest(Selection).bytes = PCRBytes(Selection)
    BY DEF CurrentDigest
  <2> QED BY <1>3, <2>1, <2>2
<1> QED BY <1>1, <1>2, <1>3

\* A map is of a whole input, with the last value of every index.
THEOREM MapsAll == Spec => []NothingPartial
<1>1. ASSUME IInv PROVE NothingPartial
  <2> SUFFICES ASSUME result = "ok"
               PROVE  /\ WellFormed
                      /\ Selection = {input[n].index : n \in DOMAIN input}
                      /\ \A n \in DOMAIN input :
                           (\A m \in DOMAIN input : m > n => input[m].index # input[n].index) =>
                             pcrMap[input[n].index] = input[n].value
    BY DEF NothingPartial
  <2>1. DOMAIN input = 1..Len(input) /\ Read = Len(input) /\ WellFormed
        /\ Selection = {input[n].index : n \in 1..Len(input)}
    BY <1>1, AllRead
  <2> QED BY <1>1, <2>1 DEF IInv, ReadOK
<1> QED BY <1>1, Invariant, PTL

\* A key bound to a list in order is usable while the PCRs hold its values, and
\* if the values are as long as PCRs then only while they do.
THEOREM BindsNamedPCRs == Spec => []BoundToNamedPCRs
<1>1. ASSUME IInv PROVE BoundToNamedPCRs
  <2> SUFFICES ASSUME key # NoKey, Increasing, algo # "SHA1"
               PROVE  /\ used = "accepted" /\ Sized(Len(input)) => BankMatches
                      /\ used = "refused" => ~BankMatches
    BY DEF BoundToNamedPCRs
  <2> DEFINE N == Len(input)
             g == [n \in 1..N |-> input[n].index]
  <2>1. result = "ok"
    BY <1>1 DEF IInv, KeyOK
  <2>2. /\ N \in Nat /\ DOMAIN input = 1..N
        /\ \A n \in 1..N : input[n].index \in Index /\ input[n].value \in Seq(Byte)
        /\ Selection = {input[n].index : n \in 1..N} /\ Read = N
        /\ IsFiniteSet(Selection) /\ Selection \in SUBSET Nat /\ Selection \in SUBSET Index
    BY <1>1, <2>1, AllRead
  <2>3. \A i, j \in 1..N : i < j => g[i] < g[j]
    BY <2>2 DEF Increasing
  <2>4. IncreasingTo(N, g) /\ g \in [1..N -> Selection] /\ \A x \in Selection : \E n \in 1..N : g[n] = x
    BY <2>2, <2>3 DEF IncreasingTo
  <2>5. \A n \in 1..N : g[n] = input[n].index
    OBVIOUS
  <2> HIDE DEF g
  <2>6. \A i, j \in 1..N : g[i] = g[j] => i = j
    <3> SUFFICES ASSUME NEW i \in 1..N, NEW j \in 1..N, g[i] = g[j], i # j PROVE FALSE
      OBVIOUS
    <3>1. g[i] \in Nat /\ g[j] \in Nat /\ (i < j \/ j < i)
      BY <2>2, <2>4
    <3> QED BY <2>3, <3>1
  <2>7. g \in Bijection(1..N, Selection)
    BY <2>4, <2>6 DEF Bijection, Injection, Surjection, IsInjective
  <2> HIDE DEF N
  <2>8. Cardinality(Selection) = N
    <3>1. IsFiniteSet(1..N) /\ Cardinality(1..N) = N
      BY <2>2, FS_Interval
    <3>2. ExistsBijection(1..N, Selection)
      BY <2>7 DEF ExistsBijection
    <3> QED BY <3>1, <3>2, FS_Bijection
  <2>9. InOrder(Selection) = g
    <3> DEFINE S == Selection
               s == InOrder(S)
    <3>1. IsFiniteSet(S) /\ S \in SUBSET Nat /\ g \in [1..N -> S] /\ N = Cardinality(S) /\ N \in Nat
      BY <2>2, <2>4, <2>8
    <3> HIDE DEF S
    <3>2. s \in [1..Cardinality(S) -> S] /\ IncreasingTo(Cardinality(S), s)
      BY <3>1, InOrderLists
    <3>3. s \in [1..N -> S]
      BY <3>1, <3>2
    <3>4. IncreasingTo(N, s)
      BY <3>1, <3>2
    <3>5. IncreasingTo(N, g)
      BY <2>4
    <3> HIDE DEF s
    <3>6. s = g
      BY <3>1, <3>3, <3>4, <3>5, ListedOnce
    <3> QED BY <3>6 DEF s, S
  <2> DEFINE now == PCRBytes(Selection)
  <2>10. /\ now \in Seq(Byte) /\ Len(now) = N * Size
         /\ \A n \in 1..N, j \in 1..Size : now[(n - 1) * Size + j] = bank[input[n].index][j]
    <3>1. /\ now \in Seq(Byte) /\ Len(now) = Cardinality(Selection) * Size
          /\ \A i \in 1..Cardinality(Selection), k \in 1..Size :
               now[(i - 1) * Size + k] = bank[InOrder(Selection)[i]][k]
      BY <1>1, <2>2, PCRsInOrder DEF IInv
    <3> HIDE DEF now
    <3>2. \A n \in 1..N : InOrder(Selection)[n] = input[n].index
      BY <2>5, <2>9
    <3> QED BY <2>8, <3>1, <3>2
  <2>11. Sized(N) =>
           /\ hashed \in Seq(Byte) /\ Len(hashed) = N * Size
           /\ \A n \in 1..N, j \in 1..Size : hashed[(n - 1) * Size + j] = input[n].value[j]
    BY <1>1, <2>2 DEF IInv, TypeOK, ReadOK
  <2>12. \A n \in 1..N : bank[input[n].index] \in Seq(Byte) /\ Len(bank[input[n].index]) = Size
    BY <1>1, <2>2, PCRValue DEF IInv, TypeOK
  <2>13. ASSUME used = "accepted", Sized(N) PROVE BankMatches
    <3>1. hashed = now
      BY <1>1, <2>13, HashedIsHeld
    <3> HIDE DEF now
    <3>2. ASSUME NEW n \in 1..N PROVE bank[input[n].index] = input[n].value
      <4>1. Len(input[n].value) = Size
        BY <2>13 DEF Sized
      <4>2. \A j \in 1..Size : bank[input[n].index][j] = input[n].value[j]
        BY <2>10, <2>11, <2>13, <3>1
      <4> DEFINE x == bank[input[n].index]
                 y == input[n].value
      <4>3. x \in Seq(Byte) /\ y \in Seq(Byte) /\ Len(x) = Len(y) /\ \A j \in 1..Len(x) : x[j] = y[j]
        BY <2>2, <2>12, <4>1, <4>2
      <4> HIDE DEF x, y
      <4>4. x = y
        BY <4>3
      <4> QED BY <4>4 DEF x, y
    <3> QED BY <2>2, <3>2 DEF BankMatches
  <2>14. ASSUME used = "refused", BankMatches PROVE FALSE
    <3>1. \A n \in 1..N : bank[input[n].index] = input[n].value
      BY <2>2, <2>14 DEF BankMatches
    <3>2. Sized(N)
      BY <2>12, <3>1 DEF Sized
    <3>3. hashed = now
      <4> HIDE DEF now
      <4>1. \A n \in 1..N, j \in 1..Size : hashed[(n - 1) * Size + j] = now[(n - 1) * Size + j]
        BY <2>10, <2>11, <3>1, <3>2
      <4> QED BY <2>2, <2>10, <2>11, <3>2, <4>1, SamePieces
    <3>4. ~Empty /\ Digest # CurrentDigest(Selection)
      BY <1>1, <2>14 DEF IInv, UsedOK
    <3>5. Digest = [alg |-> "SHA256", bytes |-> hashed]
      BY <3>4 DEF Digest, HashOf
    <3> QED BY <3>3, <3>4, <3>5 DEF CurrentDigest
  <2> QED BY <2>13, <2>14 DEF N
<1> QED BY <1>1, Invariant, PTL

\* Whatever the order and the lengths, the PCRs of a usable key hold the values
\* given, one behind the other; if those are as long as PCRs, each in a PCR.
THEOREM UsableHashesAll == Spec => []UsableMeansAllHashed
<1>1. ASSUME IInv PROVE UsableMeansAllHashed
  <2> SUFFICES ASSUME used = "accepted"
               PROVE  /\ Spell(Len(input), PCRBytes(Selection))
                      /\ Sized(Len(input)) =>
                           /\ Cardinality(Selection) = Len(input)
                           /\ \A v \in Value : Cardinality({i \in Selection : bank[i] = v})
                                                 = Cardinality({n \in DOMAIN input : input[n].value = v})
    BY DEF UsableMeansAllHashed
  <2> DEFINE N == Len(input)
             S == Selection
             s == InOrder(S)
  <2>1. result = "ok" /\ hashed = PCRBytes(S)
    BY <1>1, HashedIsHeld DEF IInv, KeyOK, UsedOK
  <2>2. /\ N \in Nat /\ DOMAIN input = 1..N /\ Read = N
        /\ \A n \in 1..N : input[n].value \in Seq(Byte)
        /\ IsFiniteSet(S) /\ S \in SUBSET Nat /\ S \in SUBSET Index
    BY <1>1, <2>1, AllRead
  <2>6. Spell(Len(input), PCRBytes(Selection))
    BY <1>1, <2>1, <2>2 DEF IInv, ReadOK
  <2> SUFFICES ASSUME Sized(N)
               PROVE  /\ Cardinality(S) = N
                      /\ \A v \in Value : Cardinality({i \in S : bank[i] = v})
                                            = Cardinality({n \in DOMAIN input : input[n].value = v})
    BY <2>6
  <2>3. Cardinality(S) = N /\ \A n \in 1..N : bank[s[n]] = input[n].value
    <3>1. /\ Cardinality(S) \in Nat /\ Len(hashed) = Cardinality(S) * Size
          /\ \A i \in 1..Cardinality(S), j \in 1..Size : hashed[(i - 1) * Size + j] = bank[s[i]][j]
      BY <1>1, <2>1, <2>2, PCRsInOrder DEF IInv
    <3>2. /\ Len(hashed) = N * Size
          /\ \A n \in 1..N, j \in 1..Size : hashed[(n - 1) * Size + j] = input[n].value[j]
      BY <1>1, <2>2 DEF IInv, ReadOK
    <3>3. N = Cardinality(S)
      <4>1. N * Size + 0 = Cardinality(S) * Size + 0 /\ Size \in Nat \ {0}
        BY <2>2, <3>1, <3>2, ValueAssumption
      <4> DEFINE p == Cardinality(S)
      <4>2. p \in Nat /\ N * Size + 0 = p * Size + 0 /\ 0 < Size /\ 0 \in Nat
        BY <3>1, <4>1
      <4> HIDE DEF p, N
      <4>3. N = p
        BY <2>2, <4>1, <4>2, PlaceInPiece
      <4> QED BY <4>3 DEF p
    <3>4. ASSUME NEW n \in 1..N PROVE bank[s[n]] = input[n].value
      <4> DEFINE x == bank[s[n]]
                 y == input[n].value
      <4>1. s[n] \in S
        BY <2>2, <3>3, InOrderLists
      <4>2. x \in Seq(Byte) /\ Len(x) = Size
        BY <1>1, <2>2, <4>1, PCRValue DEF IInv, TypeOK
      <4>3. y \in Seq(Byte) /\ Len(y) = Size
        BY <2>2 DEF Sized
      <4>4. \A j \in 1..Size : x[j] = y[j]
        BY <3>1, <3>2, <3>3
      <4> HIDE DEF x, y
      <4>5. x = y
        BY <4>2, <4>3, <4>4
      <4> QED BY <4>5 DEF x, y
    <3> QED BY <3>3, <3>4
  <2>4. s \in Bijection(1..N, S)
    BY <2>2, <2>3, InOrderLists, ListsAll
  <2> HIDE DEF S, s, N
  <2>5. ASSUME NEW v \in Value
        PROVE  Cardinality({i \in S : bank[i] = v}) = Cardinality({n \in 1..N : input[n].value = v})
    <3> DEFINE A == {n \in 1..N : input[n].value = v}
               B == {i \in S : bank[i] = v}
               f == [n \in A |-> s[n]]
    <3>1. IsFiniteSet(A)
      <4>1. IsFiniteSet(1..N) /\ A \in SUBSET (1..N)
        BY <2>2, FS_Interval
      <4> QED BY <4>1, FS_Subset
    <3>2. \A n \in A : f[n] = s[n] /\ f[n] \in B
      BY <2>3, <2>4 DEF Bijection, Injection
    <3>3. \A i \in B : \E n \in A : f[n] = i
      <4> SUFFICES ASSUME NEW i \in B PROVE \E n \in A : f[n] = i
        OBVIOUS
      <4>1. PICK n \in 1..N : s[n] = i
        BY <2>4 DEF Bijection, Surjection
      <4> QED BY <2>3, <4>1
    <3>4. \A m, n \in A : f[m] = f[n] => m = n
      BY <2>4 DEF Bijection, Injection, IsInjective
    <3>5. f \in [A -> B]
      BY <3>2
    <3> HIDE DEF A, B, f
    <3>6. f \in Bijection(A, B)
      BY <3>3, <3>4, <3>5 DEF Bijection, Injection, Surjection, IsInjective
    <3>7. Cardinality(B) = Cardinality(A)
      BY <3>1, <3>6, FS_Bijection DEF ExistsBijection
    <3> QED BY <3>7 DEF A, B
  <2> QED BY <2>2, <2>3, <2>5 DEF S, N
<1> QED BY <1>1, Invariant, PTL
=============================================================================
