------------------------ MODULE MacEncoding_proofs -------------------------
(* Theorems about MacEncoding, for messages of any length.                 *)
EXTENDS MacEncoding, SequenceTheorems, TLAPS

\* What MessageAssumption says of every message.
IsMessage(m) ==
  /\ m \in [nonce : Seq(Byte), aad : Seq(Byte), ct : Seq(Byte)]
  /\ Len(m.nonce) = nonceSize
  /\ FitsUint64(Len(m.aad)) /\ FitsUint64(Len(m.ct))

\* Nine numbers, each the one before without its last byte.
IsChain(s) == s \in [1..9 -> Nat] /\ \A i \in 1..8 : s[i + 1] = s[i] \div 256

SameBytes(s, t) == \A i \in 1..8 : s[i] % 256 = t[i] % 256

\* The shifts of a natural number are such a chain.
LEMMA ShiftsChain ==
  ASSUME NEW n \in Nat
  PROVE  IsChain(Shifts(n)) /\ Shifts(n)[1] = n
PROOF
<1>1. \A k \in Nat : k \div 256 \in Nat
  OBVIOUS
<1>2. ASSUME NEW i \in 1..8
      PROVE  i = 1 \/ i = 2 \/ i = 3 \/ i = 4 \/ i = 5 \/ i = 6 \/ i = 7 \/ i = 8
  OBVIOUS
<1>3. ASSUME NEW i \in 1..9
      PROVE  Shifts(n)[i] \in Nat
  <2> DEFINE n1 == n \div 256
             n2 == n1 \div 256
             n3 == n2 \div 256
             n4 == n3 \div 256
             n5 == n4 \div 256
             n6 == n5 \div 256
             n7 == n6 \div 256
             n8 == n7 \div 256
  <2>1. Shifts(n) = <<n, n1, n2, n3, n4, n5, n6, n7, n8>>
    BY DEF Shifts
  <2>2. n1 \in Nat /\ n2 \in Nat /\ n3 \in Nat /\ n4 \in Nat
    BY <1>1
  <2>3. n5 \in Nat /\ n6 \in Nat /\ n7 \in Nat /\ n8 \in Nat
    BY <1>1, <2>2
  <2> HIDE DEF n1, n2, n3, n4, n5, n6, n7, n8
  <2> QED
    BY <2>1, <2>2, <2>3
<1>4. Shifts(n) \in [1..9 -> Nat]
  <2>1. \E k1, k2, k3, k4, k5, k6, k7, k8 :
          Shifts(n) = <<n, k1, k2, k3, k4, k5, k6, k7, k8>>
    BY DEF Shifts
  <2>2. DOMAIN Shifts(n) = 1..9 /\ Shifts(n) = [i \in 1..9 |-> Shifts(n)[i]]
    BY <2>1
  <2> QED
    BY <1>3, <2>2
<1>5. ASSUME NEW i \in 1..8
      PROVE  Shifts(n)[i + 1] = Shifts(n)[i] \div 256
  BY <1>2 DEF Shifts
<1>6. Shifts(n)[1] = n
  BY DEF Shifts
<1> QED
  BY <1>4, <1>5, <1>6 DEF IsChain

\* A number is its last byte and the rest.
LEMMA ByteAndRest ==
  ASSUME NEW a \in Nat, NEW b \in Nat, a % 256 = b % 256, a \div 256 = b \div 256
  PROVE  a = b
OBVIOUS

\* The numbers before equal ones are equal if their last bytes are.
LEMMA StepDown ==
  ASSUME NEW s, NEW t, IsChain(s), IsChain(t), SameBytes(s, t),
         NEW i \in 1..8, NEW j \in 2..9, j = i + 1, s[j] = t[j]
  PROVE  s[i] = t[i]
PROOF
<1>2. s[i] \in Nat /\ t[i] \in Nat
  BY DEF IsChain
<1>3. s[i] \div 256 = t[i] \div 256
  BY DEF IsChain
<1>4. s[i] % 256 = t[i] % 256
  BY DEF SameBytes
<1> QED
  BY <1>2, <1>3, <1>4, ByteAndRest

\* A length that fits eight bytes is determined by them.
LEMMA PutUint64Injective ==
  ASSUME NEW a \in Nat, NEW b \in Nat, FitsUint64(a), FitsUint64(b),
         PutUint64(a) = PutUint64(b)
  PROVE  a = b
PROOF
<1> DEFINE s == Shifts(a)
           t == Shifts(b)
<1>1. IsChain(s) /\ IsChain(t) /\ s[1] = a /\ t[1] = b
  BY ShiftsChain
<1>2. s[9] = t[9]
  BY DEF FitsUint64
<1>3. SameBytes(s, t)
  <2>1. ASSUME NEW i \in 1..8
        PROVE  s[i] % 256 = t[i] % 256
    <3>1. PutUint64(a)[i] = s[i] % 256 /\ PutUint64(b)[i] = t[i] % 256
      BY DEF PutUint64
    <3> QED
      BY <3>1
  <2> QED
    BY <2>1 DEF SameBytes
<1> HIDE DEF s, t
<1>4. ASSUME NEW i \in 1..8, NEW j \in 2..9, j = i + 1, s[j] = t[j]
      PROVE  s[i] = t[i]
  BY <1>1, <1>3, <1>4, StepDown
<1>5. s[8] = t[8]
  <2>1. 8 \in 1..8 /\ 9 \in 2..9 /\ 9 = 8 + 1
    OBVIOUS
  <2> QED
    BY <2>1, <1>2, <1>1, <1>3, StepDown
<1>6. s[7] = t[7]
  BY <1>5, <1>4
<1>7. s[6] = t[6]
  BY <1>6, <1>4
<1>8. s[5] = t[5]
  BY <1>7, <1>4
<1>9. s[4] = t[4]
  BY <1>8, <1>4
<1>10. s[3] = t[3]
  BY <1>9, <1>4
<1>11. s[2] = t[2]
  BY <1>10, <1>4
<1>12. s[1] = t[1]
  BY <1>11, <1>4
<1> QED
  BY <1>1, <1>12

\* Byte strings and their concatenation, to be expanded in the next lemmas only.
Bytes == Seq(Byte)
Join(a, b) == a \o b

\* Joined byte strings are a byte string, as long as the two together.
LEMMA JoinType ==
  ASSUME NEW s \in Bytes, NEW t \in Bytes
  PROVE  Join(s, t) \in Bytes /\ Len(Join(s, t)) = Len(s) + Len(t)
BY ConcatProperties DEF Bytes, Join

\* Lengths are natural numbers.
LEMMA LenType ==
  ASSUME NEW s \in Bytes
  PROVE  Len(s) \in Nat
BY DEF Bytes

\* Joining is associative.
LEMMA JoinAssociative ==
  ASSUME NEW x \in Bytes, NEW y \in Bytes, NEW z \in Bytes
  PROVE  Join(Join(x, y), z) = Join(x, Join(y, z))
BY ConcatAssociative DEF Bytes, Join

\* Equal concatenations whose first parts are equally long have equal parts.
LEMMA SplitConcat ==
  ASSUME NEW a \in Seq(Byte), NEW b \in Seq(Byte), NEW c \in Seq(Byte), NEW d \in Seq(Byte),
         Len(a) = Len(b), a \o c = b \o d
  PROVE  a = b /\ c = d
PROOF
<1>1. Len(a) \in Nat /\ Len(c) \in Nat /\ Len(d) \in Nat
  OBVIOUS
<1>2. Len(c) = Len(d)
  <2>1. Len(a \o c) = Len(a) + Len(c) /\ Len(b \o d) = Len(b) + Len(d)
    BY ConcatProperties
  <2> QED
    BY <1>1, <2>1
<1>3. ASSUME NEW x \in Seq(Byte), NEW y \in Seq(Byte)
      PROVE  /\ \A i \in 1..Len(x) : (x \o y)[i] = x[i]
             /\ \A i \in 1..Len(y) : (x \o y)[Len(x) + i] = y[i]
  OBVIOUS
<1>4. \A i \in 1..Len(a) : a[i] = b[i]
  BY <1>3
<1>5. ASSUME NEW i \in 1..Len(c)
      PROVE  c[i] = d[i]
  <2>1. (a \o c)[Len(a) + i] = c[i]
    BY <1>3
  <2>2. i \in 1..Len(d)
    BY <1>2
  <2>3. (b \o d)[Len(b) + i] = d[i]
    BY <1>3, <2>2
  <2> QED
    BY <2>1, <2>3
<1> QED
  BY <1>2, <1>4, <1>5, SeqEqual

\* The same of joined byte strings.
LEMMA SplitJoin ==
  ASSUME NEW a \in Bytes, NEW b \in Bytes, NEW c \in Bytes, NEW d \in Bytes,
         Len(a) = Len(b), Join(a, c) = Join(b, d)
  PROVE  a = b /\ c = d
BY SplitConcat DEF Bytes, Join

\* Padding is between none and a block less one, and fills the block.
LEMMA PaddingFills ==
  ASSUME NEW n \in Nat, NEW a \in Nat
  PROVE  /\ PaddingLength(n, a) \in Nat
         /\ PaddingLength(n, a) \in 0..(blockSize - 1)
         /\ (16 + n + a + PaddingLength(n, a)) % blockSize = 0
BY DEF PaddingLength, blockSize

\* The parts of an encoding: the lengths of the additional data and of the
\* ciphertext, and the padding.
AADLength(m) == PutUint64(Len(m.aad))
CTLength(m) == PutUint64(Len(m.ct))
PadLength(m) == PaddingLength(Len(m.nonce), Len(m.aad))
Padding(m) == Zeros(PadLength(m))

\* The parts are byte strings of these lengths.
LEMMA Parts ==
  ASSUME NEW m, IsMessage(m)
  PROVE  /\ AADLength(m) \in Bytes /\ Len(AADLength(m)) = 8
         /\ CTLength(m) \in Bytes /\ Len(CTLength(m)) = 8
         /\ m.nonce \in Bytes /\ Len(m.nonce) = nonceSize /\ nonceSize \in Nat
         /\ m.aad \in Bytes /\ Len(m.aad) \in Nat /\ FitsUint64(Len(m.aad))
         /\ Padding(m) \in Bytes /\ Len(Padding(m)) = PadLength(m) /\ PadLength(m) \in Nat
         /\ m.ct \in Bytes /\ Len(m.ct) \in Nat /\ FitsUint64(Len(m.ct))
PROOF
<1>1. m.nonce \in Bytes /\ m.aad \in Bytes /\ m.ct \in Bytes
  BY DEF IsMessage, Bytes
<1>2. Len(m.nonce) \in Nat /\ Len(m.aad) \in Nat /\ Len(m.ct) \in Nat
  BY <1>1, LenType
<1>3. ASSUME NEW n \in Nat
      PROVE  PutUint64(n) \in Bytes /\ Len(PutUint64(n)) = 8
  <2>1. \A i \in 1..8 : Shifts(n)[i] \in Nat
    BY ShiftsChain DEF IsChain
  <2>2. \A i \in 1..8 : Shifts(n)[i] % 256 \in Byte
    BY <2>1 DEF Byte
  <2> QED
    BY <2>2 DEF PutUint64, Bytes
<1>4. PadLength(m) \in Nat
  BY <1>2, PaddingFills DEF PadLength
<1>5. ASSUME NEW n \in Nat
      PROVE  Zeros(n) \in Bytes /\ Len(Zeros(n)) = n
  BY DEF Zeros, Byte, Bytes
<1>6. AADLength(m) \in Bytes /\ Len(AADLength(m)) = 8
  BY <1>2, <1>3 DEF AADLength
<1>7. CTLength(m) \in Bytes /\ Len(CTLength(m)) = 8
  BY <1>2, <1>3 DEF CTLength
<1>8. Padding(m) \in Bytes /\ Len(Padding(m)) = PadLength(m)
  BY <1>4, <1>5 DEF Padding
<1>9. /\ Len(m.nonce) = nonceSize /\ nonceSize \in Nat
      /\ FitsUint64(Len(m.aad)) /\ FitsUint64(Len(m.ct))
  BY DEF IsMessage, nonceSize
<1> QED
  BY <1>1, <1>2, <1>4, <1>6, <1>7, <1>8, <1>9

\* What follows the additional data, the nonce, the lengths, and the first length.
AfterAAD(m) == Join(Padding(m), m.ct)
AfterNonce(m) == Join(m.aad, AfterAAD(m))
AfterLengths(m) == Join(m.nonce, AfterNonce(m))
AfterAADLength(m) == Join(CTLength(m), AfterLengths(m))

\* They are byte strings of these lengths.
LEMMA Tails ==
  ASSUME NEW m, IsMessage(m)
  PROVE  /\ AfterAAD(m) \in Bytes /\ Len(AfterAAD(m)) = PadLength(m) + Len(m.ct)
         /\ AfterNonce(m) \in Bytes /\ Len(AfterNonce(m)) = Len(m.aad) + Len(AfterAAD(m))
         /\ AfterLengths(m) \in Bytes /\ Len(AfterLengths(m)) = Len(m.nonce) + Len(AfterNonce(m))
         /\ AfterAADLength(m) \in Bytes /\ Len(AfterAADLength(m)) = 8 + Len(AfterLengths(m))
PROOF
<1>1. AfterAAD(m) \in Bytes /\ Len(AfterAAD(m)) = PadLength(m) + Len(m.ct)
  <2>1. Padding(m) \in Bytes /\ Len(Padding(m)) = PadLength(m) /\ m.ct \in Bytes
    BY Parts
  <2> QED BY <2>1, JoinType DEF AfterAAD
<1>2. AfterNonce(m) \in Bytes /\ Len(AfterNonce(m)) = Len(m.aad) + Len(AfterAAD(m))
  BY <1>1, Parts, JoinType DEF AfterNonce
<1>3. AfterLengths(m) \in Bytes /\ Len(AfterLengths(m)) = Len(m.nonce) + Len(AfterNonce(m))
  BY <1>2, Parts, JoinType DEF AfterLengths
<1>4. AfterAADLength(m) \in Bytes /\ Len(AfterAADLength(m)) = 8 + Len(AfterLengths(m))
  <2>1. CTLength(m) \in Bytes /\ Len(CTLength(m)) = 8
    BY Parts
  <2> QED
    BY <1>3, <2>1, JoinType DEF AfterAADLength
<1> QED
  BY <1>1, <1>2, <1>3, <1>4

\* An encoding is the length of the additional data and what follows it.
LEMMA EncodingBracketed ==
  ASSUME NEW m, IsMessage(m)
  PROVE  Encode(m) = Join(AADLength(m), AfterAADLength(m))
PROOF
<1> DEFINE lengths == Join(AADLength(m), CTLength(m))
           toNonce == Join(lengths, m.nonce)
           toAAD == Join(toNonce, m.aad)
<1>1. Encode(m) = Join(Join(toAAD, Padding(m)), m.ct)
  BY DEF Encode, Lengths, AADLength, CTLength, Padding, PadLength, Join
<1>2. toNonce = Join(lengths, m.nonce) /\ toAAD = Join(toNonce, m.aad)
  OBVIOUS
<1>3. m.nonce \in Bytes /\ m.aad \in Bytes /\ m.ct \in Bytes
  BY Parts
<1>4. AADLength(m) \in Bytes /\ CTLength(m) \in Bytes /\ Padding(m) \in Bytes
  BY Parts
<1>5. AfterAAD(m) \in Bytes /\ AfterNonce(m) \in Bytes /\ AfterLengths(m) \in Bytes
  BY Tails
<1>6. lengths \in Bytes
  BY <1>4, JoinType
<1>7. lengths = Join(AADLength(m), CTLength(m))
  OBVIOUS
<1> HIDE DEF lengths, toNonce, toAAD
<1>8. toNonce \in Bytes
  BY <1>2, <1>3, <1>6, JoinType
<1>9. toAAD \in Bytes
  BY <1>2, <1>3, <1>8, JoinType
<1>10. Join(Join(toAAD, Padding(m)), m.ct) = Join(toAAD, AfterAAD(m))
  BY <1>3, <1>4, <1>9, JoinAssociative DEF AfterAAD
<1>11. Join(toAAD, AfterAAD(m)) = Join(toNonce, AfterNonce(m))
  BY <1>2, <1>3, <1>5, <1>8, JoinAssociative DEF AfterNonce
<1>12. Join(toNonce, AfterNonce(m)) = Join(lengths, AfterLengths(m))
  BY <1>2, <1>3, <1>5, <1>6, JoinAssociative DEF AfterLengths
<1>13. Join(lengths, AfterLengths(m)) = Join(AADLength(m), AfterAADLength(m))
  BY <1>4, <1>5, <1>7, JoinAssociative DEF AfterAADLength
<1> QED
  BY <1>1, <1>10, <1>11, <1>12, <1>13

\* No two messages have the same encoding.
THEOREM Injective ==
  ASSUME NEW m1, NEW m2, IsMessage(m1), IsMessage(m2), Encode(m1) = Encode(m2)
  PROVE  m1 = m2
PROOF
<1>1. AADLength(m1) = AADLength(m2) /\ AfterAADLength(m1) = AfterAADLength(m2)
  BY EncodingBracketed, Parts, Tails, SplitJoin
<1>2. CTLength(m1) = CTLength(m2) /\ AfterLengths(m1) = AfterLengths(m2)
  BY <1>1, Parts, Tails, SplitJoin DEF AfterAADLength
<1>3. Len(m1.aad) = Len(m2.aad)
  BY <1>1, Parts, PutUint64Injective DEF AADLength
<1>4. m1.nonce = m2.nonce /\ AfterNonce(m1) = AfterNonce(m2)
  <2>1. /\ m1.nonce \in Bytes /\ m2.nonce \in Bytes /\ Len(m1.nonce) = Len(m2.nonce)
        /\ AfterNonce(m1) \in Bytes /\ AfterNonce(m2) \in Bytes
    BY Parts, Tails
  <2> QED
    BY <1>2, <2>1, SplitJoin DEF AfterLengths
<1>5. m1.aad = m2.aad /\ AfterAAD(m1) = AfterAAD(m2)
  <2>1. m1.aad \in Bytes /\ m2.aad \in Bytes /\ AfterAAD(m1) \in Bytes /\ AfterAAD(m2) \in Bytes
    BY Parts, Tails
  <2> QED
    BY <1>3, <1>4, <2>1, SplitJoin DEF AfterNonce
<1>6. Len(Padding(m1)) = Len(Padding(m2))
  BY <1>4, <1>5, Parts DEF PadLength
<1>7. m1.ct = m2.ct
  BY <1>5, <1>6, Parts, SplitJoin DEF AfterAAD
<1> QED
  BY <1>4, <1>5, <1>7 DEF IsMessage

\* Where the ciphertext begins in an encoding, and the length of the whole.
LEMMA EncodingLength ==
  ASSUME NEW m, IsMessage(m)
  PROVE  /\ Len(Encode(m)) = 16 + Len(m.nonce) + Len(m.aad) + PadLength(m) + Len(m.ct)
         /\ Len(Encode(m)) - Len(m.ct) = 16 + Len(m.nonce) + Len(m.aad) + PadLength(m)
         /\ Len(Encode(m)) - Len(m.ct) - (16 + Len(m.nonce) + Len(m.aad)) = PadLength(m)
PROOF
<1>1. AADLength(m) \in Bytes /\ Len(AADLength(m)) = 8 /\ AfterAADLength(m) \in Bytes
  BY Parts, Tails
<1>2. Len(Join(AADLength(m), AfterAADLength(m))) = 8 + Len(AfterAADLength(m))
  BY <1>1, JoinType
<1>3. Len(Encode(m)) = 8 + Len(AfterAADLength(m))
  BY <1>2, EncodingBracketed
<1>4. /\ Len(AfterAADLength(m)) = 8 + Len(AfterLengths(m))
      /\ Len(AfterLengths(m)) = Len(m.nonce) + Len(AfterNonce(m))
      /\ Len(AfterNonce(m)) = Len(m.aad) + Len(AfterAAD(m))
      /\ Len(AfterAAD(m)) = PadLength(m) + Len(m.ct)
  BY Tails
<1> DEFINE n == Len(m.nonce)
           a == Len(m.aad)
           c == Len(m.ct)
           p == PadLength(m)
           e == Len(Encode(m))
<1>5. n \in Nat /\ a \in Nat /\ c \in Nat /\ p \in Nat
  BY Parts
<1>6. e = 8 + (8 + (n + (a + (p + c))))
  BY <1>3, <1>4, Zenon
<1> HIDE DEF n, a, c, p, e
<1>7. e = 16 + n + a + p + c /\ e - c = 16 + n + a + p
  BY <1>5, <1>6
<1>8. e - c - (16 + n + a) = p
  BY <1>5, <1>7
<1> QED
  BY <1>7, <1>8, Zenon DEF n, a, c, p, e

\* The messages of the model are messages.
LEMMA Messages ==
  ASSUME NEW m \in Message
  PROVE  IsMessage(m)
BY MessageAssumption DEF IsMessage

\* In every state sent and received are messages.
LEMMA SentAndReceived == Spec => [](sent \in Message /\ received \in Message)
PROOF
<1> DEFINE I == sent \in Message /\ received \in Message
<1>1. Init => I
  BY DEF Init
<1>2. I /\ [Next]_vars => I'
  BY DEF Next, Open, vars
<1> QED
  BY <1>1, <1>2, PTL DEF Spec

\* Open computes the HMAC of the bytes that were sealed only for the message that
\* was sealed (EncodingInjective), for any set of messages.
THEOREM TagsOneMessage == Spec => []EncodingInjective
PROOF
<1>1. sent \in Message /\ received \in Message => EncodingInjective
  BY Messages, Injective DEF EncodingInjective
<1> QED
  BY <1>1, SentAndReceived, PTL

\* The ciphertext is aligned and the length as in Programs (CiphertextAligned).
THEOREM Aligned == Spec => []CiphertextAligned
PROOF
<1>1. sent \in Message /\ received \in Message => CiphertextAligned
  <2> SUFFICES ASSUME received \in Message
               PROVE  CiphertextAligned
    OBVIOUS
  <2>1. IsMessage(received)
    BY Messages
  <2>2. /\ Len(received.nonce) \in Nat /\ Len(received.aad) \in Nat
        /\ Len(received.ct) \in Nat /\ PadLength(received) \in Nat
    BY <2>1, Parts
  <2>3. /\ PadLength(received) \in 0..(blockSize - 1)
        /\ (16 + Len(received.nonce) + Len(received.aad) + PadLength(received)) % blockSize = 0
    BY <2>2, PaddingFills DEF PadLength
  <2>4. /\ Len(Encode(received)) =
             16 + Len(received.nonce) + Len(received.aad) + PadLength(received) + Len(received.ct)
        /\ Len(Encode(received)) - Len(received.ct) =
             16 + Len(received.nonce) + Len(received.aad) + PadLength(received)
        /\ Len(Encode(received)) - Len(received.ct)
             - (16 + Len(received.nonce) + Len(received.aad)) = PadLength(received)
    BY <2>1, EncodingLength
  <2>5. Len(Encode(received)) =
          MacLength(Len(received.nonce), Len(received.aad), Len(received.ct))
    BY <2>4 DEF MacLength, PadLength
  <2> QED
    BY <2>3, <2>4, <2>5 DEF CiphertextAligned
<1> QED
  BY <1>1, SentAndReceived, PTL
=============================================================================
