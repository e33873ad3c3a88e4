------------------------ MODULE CommandLoops_proofs ------------------------
(***************************************************************************)
(* Theorems about the loops of CommandLoops, for nonces and data of any    *)
(* number and length: IInv and StreamInv are inductive, and OnePass,       *)
(* RoundTrip, HashesAll, TurnsAsProgrammed and KeyStreamFresh follow.      *)
(***************************************************************************)
EXTENDS CommandLoops, FiniteSetTheorems, TLAPS

-----------------------------------------------------------------------------
(* Sequences. *)

\* Two sequences with the same elements are equal.
LEMMA SequencesEqual ==
  ASSUME NEW S, NEW s \in Seq(S), NEW t \in Seq(S), Len(s) = Len(t),
         \A i \in 1..Len(s) : s[i] = t[i]
  PROVE  s = t
OBVIOUS

\* The next n elements after the first m.
LEMMA Piece ==
  ASSUME NEW S, NEW s \in Seq(S), NEW m \in Nat, NEW n \in Nat, m + n <= Len(s)
  PROVE  /\ SubSeq(s, m + 1, m + n) \in Seq(S)
         /\ Len(SubSeq(s, m + 1, m + n)) = n
         /\ \A i \in 1..n : SubSeq(s, m + 1, m + n)[i] = s[m + i]
OBVIOUS

\* An element of a concatenation is in the first part or in the second.
LEMMA InEither ==
  ASSUME NEW m \in Nat, NEW n \in Nat, NEW i \in 1..(m + n)
  PROVE  i \in 1..m \/ \E j \in 1..n : i = m + j
<1>1. CASE i <= m
  BY <1>1
<1>2. CASE i > m
  <2>1. i - m \in 1..n /\ i = m + (i - m)
    BY <1>2
  <2> QED BY <2>1
<1> QED BY <1>1, <1>2

\* A sequence that begins with a and goes on with b is their concatenation.
LEMMA Assembled ==
  ASSUME NEW S, NEW a \in Seq(S), NEW b \in Seq(S), NEW c \in Seq(S),
         Len(c) = Len(a) + Len(b),
         \A i \in 1..Len(a) : c[i] = a[i],
         \A i \in 1..Len(b) : c[Len(a) + i] = b[i]
  PROVE  a \o b = c
<1>1. a \o b \in Seq(S) /\ Len(a \o b) = Len(a) + Len(b)
  OBVIOUS
<1>2. ASSUME NEW i \in 1..(Len(a) + Len(b)) PROVE (a \o b)[i] = c[i]
  <2>1. CASE i \in 1..Len(a)
    BY <2>1
  <2>2. ASSUME NEW j \in 1..Len(b), i = Len(a) + j PROVE (a \o b)[i] = c[i]
    <3>1. (a \o b)[Len(a) + j] = b[j]
      OBVIOUS
    <3> QED BY <3>1, <2>2
  <2>3. Len(a) \in Nat /\ Len(b) \in Nat
    OBVIOUS
  <2> QED BY <2>1, <2>2, <2>3, InEither
<1> QED BY <1>1, <1>2, SequencesEqual

\* The first m elements and the next n are the first m + n.
LEMMA PrefixGrows ==
  ASSUME NEW S, NEW s \in Seq(S), NEW m \in Nat, NEW n \in Nat, m + n <= Len(s)
  PROVE  SubSeq(s, 1, m) \o SubSeq(s, m + 1, m + n) = SubSeq(s, 1, m + n)
<1> DEFINE a == SubSeq(s, 1, m)
           b == SubSeq(s, m + 1, m + n)
           c == SubSeq(s, 1, m + n)
<1>1. a \in Seq(S) /\ Len(a) = m /\ \A i \in 1..m : a[i] = s[i]
  OBVIOUS
<1>2. b \in Seq(S) /\ Len(b) = n /\ \A i \in 1..n : b[i] = s[m + i]
  BY Piece
<1>3. c \in Seq(S) /\ Len(c) = m + n /\ \A i \in 1..(m + n) : c[i] = s[i]
  OBVIOUS
<1> HIDE DEF a, b, c
<1>4. a \in Seq(S) /\ b \in Seq(S) /\ c \in Seq(S) /\ Len(c) = Len(a) + Len(b)
  BY <1>1, <1>2, <1>3
<1>5. \A i \in 1..Len(a) : c[i] = a[i]
  BY <1>1, <1>3
<1>6. \A i \in 1..Len(b) : c[Len(a) + i] = b[i]
  <2>1. ASSUME NEW i \in 1..n PROVE c[m + i] = b[i]
    <3>1. m + i \in 1..(m + n)
      OBVIOUS
    <3> QED BY <3>1, <1>2, <1>3
  <2> QED BY <2>1, <1>1, <1>2
<1>7. a \o b = c
  BY <1>4, <1>5, <1>6, Assembled
<1> QED BY <1>7 DEF a, b, c

-----------------------------------------------------------------------------
(* Bytes and counter blocks. *)

\* The counter block made from a nonce is a number.
LEMMA FirstIVType == ASSUME NEW n \in Nat PROVE FirstIV(n) \in Nat
BY CounterAssumption DEF FirstIV

\* m bytes are the blocks from ctr to next.
Fills(m, ctr, next) == m + aesBlock * ctr = aesBlock * next

\* After them the key stream goes on with next.
LEMMA StreamGoesOn ==
  ASSUME NEW ctr \in Nat, NEW next \in Nat, NEW m \in Nat, NEW i \in Nat \ {0},
         Fills(m, ctr, next)
  PROVE  KeyStream(next, i) = KeyStream(ctr, m + i)
<1>0. m + 16 * ctr = 16 * next
  BY DEF Fills, aesBlock
<1>1. (m + i - 1) \div 16 = (next - ctr) + (i - 1) \div 16
  BY <1>0
<1>2. (m + i - 1) % 16 = (i - 1) % 16
  BY <1>0
<1>3. (i - 1) \div 16 \in Nat
  OBVIOUS
<1>4. next + (i - 1) \div 16 = ctr + ((next - ctr) + (i - 1) \div 16)
  BY <1>3
<1> QED BY <1>1, <1>2, <1>4 DEF KeyStream, aesBlock

\* A byte of key stream is named by the key, the block and its place in it.
LEMMA KeyStreamType ==
  ASSUME NEW ctr \in Nat, NEW i \in Nat \ {0}
  PROVE  KeyStream(ctr, i) \in {"key"} \X Nat \X Nat
<1>1. (i - 1) \div aesBlock \in Nat /\ (i - 1) % aesBlock \in Nat
  BY DEF aesBlock
<1>2. ctr + (i - 1) \div aesBlock \in Nat
  BY <1>1
<1> QED BY <1>1, <1>2 DEF KeyStream

\* One byte of AES-CTR is a byte.
LEMMA CTRByteType ==
  ASSUME NEW ctr \in Nat, NEW s \in Seq(ByteSet), NEW i \in 1..Len(s)
  PROVE  CTRByte(ctr, s, i) \in ByteSet
<1> DEFINE k == KeyStream(ctr, i)
           b == s[i]
<1>1. k \in {"key"} \X Nat \X Nat /\ b \in ByteSet
  <2>1. i \in Nat \ {0} /\ b \in ByteSet
    OBVIOUS
  <2> QED BY <2>1, KeyStreamType
<1> HIDE DEF k, b
<1>2. Xor(b, k) \in ByteSet
  BY <1>1, Zenon DEF Xor, ByteSet
<1> QED BY <1>2 DEF CTRByte, k, b

\* The first n bytes of AES-CTR.
LEMMA CTRPartType ==
  ASSUME NEW ctr \in Nat, NEW s \in Seq(ByteSet), NEW n \in 0..Len(s)
  PROVE  /\ CTRPart(ctr, s, n) \in Seq(ByteSet)
         /\ Len(CTRPart(ctr, s, n)) = n
         /\ \A i \in 1..n : CTRPart(ctr, s, n)[i] = CTRByte(ctr, s, i)
<1>1. \A i \in 1..n : CTRByte(ctr, s, i) \in ByteSet
  BY CTRByteType
<1> QED BY <1>1 DEF CTRPart

\* What the TPM returns in one command is the whole text treated in CTR mode.
LEMMA CTRIsPart ==
  ASSUME NEW ctr, NEW s PROVE CTR(ctr, s) = CTRPart(ctr, s, Len(s))
BY DEF CTR, CTRPart

\* CTR mode returns as many bytes as it is given, each under its own byte of
\* key stream.
LEMMA CTRType ==
  ASSUME NEW ctr \in Nat, NEW s \in Seq(ByteSet)
  PROVE  /\ CTR(ctr, s) \in Seq(ByteSet)
         /\ Len(CTR(ctr, s)) = Len(s)
         /\ \A i \in 1..Len(s) : CTR(ctr, s)[i] = CTRByte(ctr, s, i)
<1>1. Len(s) \in 0..Len(s)
  OBVIOUS
<1> QED BY <1>1, CTRPartType, CTRIsPart

\* The n bytes after the first m are encrypted from next as in one pass from ctr.
PieceFollows(ctr, next, s, m, n) ==
  CTRPart(ctr, s, m) \o CTR(next, SubSeq(s, m + 1, m + n)) = CTRPart(ctr, s, m + n)

\* A piece encrypted with the chained counter block is the piece of one pass.
LEMMA PartGrows ==
  ASSUME NEW ctr \in Nat, NEW next \in Nat, NEW s \in Seq(ByteSet),
         NEW m \in Nat, NEW n \in Nat, m + n <= Len(s), Fills(m, ctr, next)
  PROVE  PieceFollows(ctr, next, s, m, n)
<1> DEFINE p == SubSeq(s, m + 1, m + n)
           a == CTRPart(ctr, s, m)
           b == CTR(next, p)
           c == CTRPart(ctr, s, m + n)
<1>1. m \in Nat /\ m + n <= Len(s) /\ m \in 0..Len(s) /\ m + n \in 0..Len(s)
  OBVIOUS
<1>2. p \in Seq(ByteSet) /\ Len(p) = n /\ \A i \in 1..n : p[i] = s[m + i]
  <2> QED BY <1>1, Piece
<1>3. a \in Seq(ByteSet) /\ Len(a) = m /\ \A i \in 1..m : a[i] = CTRByte(ctr, s, i)
  <2> QED BY <1>1, CTRPartType
<1>4. c \in Seq(ByteSet) /\ Len(c) = m + n /\ \A i \in 1..(m + n) : c[i] = CTRByte(ctr, s, i)
  <2> QED BY <1>1, CTRPartType
<1>5. b \in Seq(ByteSet) /\ Len(b) = n /\ \A i \in 1..n : b[i] = CTRByte(next, p, i)
  <2> HIDE DEF p
  <2> QED BY <1>2, CTRType
<1>6. ASSUME NEW i \in 1..n
      PROVE  CTRByte(next, p, i) = CTRByte(ctr, s, m + i)
  <2>1. p[i] = s[m + i]
    BY <1>2
  <2>2. KeyStream(next, i) = KeyStream(ctr, m + i)
    <3>1. i \in Nat \ {0}
      OBVIOUS
    <3> QED BY <3>1, StreamGoesOn
  <2> HIDE DEF p
  <2> QED BY <2>1, <2>2, Zenon DEF CTRByte
<1> HIDE DEF p, a, b, c
<1>7. a \in Seq(ByteSet) /\ b \in Seq(ByteSet) /\ c \in Seq(ByteSet) /\ Len(c) = Len(a) + Len(b)
  BY <1>3, <1>4, <1>5
<1>8. \A i \in 1..Len(a) : c[i] = a[i]
  BY <1>1, <1>3, <1>4
<1>9. \A i \in 1..Len(b) : c[Len(a) + i] = b[i]
  <2>1. ASSUME NEW i \in 1..n PROVE c[m + i] = b[i]
    <3>1. m + i \in 1..(m + n)
      BY <1>1
    <3> QED BY <3>1, <1>4, <1>5, <1>6
  <2> QED BY <2>1, <1>3, <1>5
<1>10. a \o b = c
  BY <1>7, <1>8, <1>9, Assembled
<1> QED BY <1>10 DEF a, b, c, p, PieceFollows

\* Decryption undoes encryption.
LEMMA CTRInvolution ==
  ASSUME NEW ctr \in Nat, NEW s \in Seq(ByteSet)
  PROVE  CTR(ctr, CTR(ctr, s)) = s
<1> DEFINE t == CTR(ctr, s)
           u == CTR(ctr, t)
<1>1. t \in Seq(ByteSet) /\ Len(t) = Len(s) /\ \A i \in 1..Len(s) : t[i] = CTRByte(ctr, s, i)
  BY CTRType
<1> HIDE DEF t
<1>2. u \in Seq(ByteSet) /\ Len(u) = Len(s) /\ \A i \in 1..Len(s) : u[i] = CTRByte(ctr, t, i)
  BY <1>1, CTRType
<1> HIDE DEF u
<1>3. ASSUME NEW i \in 1..Len(s) PROVE u[i] = s[i]
  <2> DEFINE k == KeyStream(ctr, i)
  <2>1. t[i] = Xor(s[i], k) /\ u[i] = Xor(t[i], k)
    BY <1>1, <1>2 DEF CTRByte
  <2> HIDE DEF k
  <2>2. ASSUME NEW b PROVE Xor(Xor(b, k), k) = b
    BY DEF Xor
  <2> QED BY <2>1, <2>2
<1>4. u = s
  BY <1>2, <1>3, SequencesEqual
<1> QED BY <1>4 DEF u, t
-----------------------------------------------------------------------------
(* The invariant is inductive. *)

\* The plaintexts are sequences of bytes.
LEMMA PlainType ==
  ASSUME NEW n \in Nonce, NEW len \in Length
  PROVE  Plain(n, len) \in Seq(ByteSet)
<1>1. n \in Nat /\ len \in Nat
  BY NonceAssumption, LengthAssumption
<1>2. \A i \in 1..len : {<<"data", n, i>>} \in ByteSet
  BY <1>1 DEF ByteSet
<1> QED BY <1>1, <1>2 DEF Plain

\* The inductive invariant holds at the start.
THEOREM Initially == Init => IInv
<1> SUFFICES ASSUME Init PROVE IInv
  OBVIOUS
<1>1. nonce \in Nat /\ iv \in Nat
  BY NonceAssumption, FirstIVType DEF Init
<1> QED BY <1>1 DEF Init, IInv, TypeOK, Result, Encrypting, Hashing, Hashed, Encrypted

\* ... and when a call begins.
LEMMA BeginInvariant ==
  ASSUME IInv, NEW o \in {"encrypt", "decrypt", "hmac"}, NEW n \in Nat, NEW bytes \in Seq(ByteSet),
         Begin(o, n, bytes),
         o = "decrypt" => \E r \in results : r.nonce = n /\ r.ct = bytes
  PROVE  IInv'
<1>1. TypeOK'
  <2>1. FirstIV(n) \in Nat
    BY FirstIVType
  <2> QED BY <2>1 DEF IInv, TypeOK, Begin
<1>2. Encrypting'
  <2>1. CTRPart(FirstIV(n), bytes, 0) = <<>>
    BY DEF CTRPart
  <2>2. EncryptTurns(0) = 0
    BY DEF EncryptTurns, maxDigestBuffer
  <2>3. FirstIV(n) = FirstIV(n) + (maxDigestBuffer \div aesBlock) * 0
    BY FirstIVType DEF maxDigestBuffer, aesBlock
  <2>4. maxDigestBuffer * 0 = 0
    BY DEF maxDigestBuffer
  <2> QED BY <2>1, <2>2, <2>3, <2>4 DEF Begin, Encrypting
<1>3. Hashing'
  BY DEF Begin, Hashing, maxInputBuffer
<1>4. Hashed'
  BY DEF Begin, Hashed
<1>5. Encrypted'
  BY DEF Begin, IInv, Encrypted
<1> QED BY <1>1, <1>2, <1>3, <1>4, <1>5 DEF IInv

\* A turn of encryptDecryptSymmetric, a whole piece or the rest.
LEMMA TurnInvariant ==
  ASSUME IInv, NEW n \in Nat \ {0}, EncryptDecrypt2(n), n <= Rest,
         n = maxDigestBuffer \/ (n = Rest /\ n < maxDigestBuffer)
  PROVE  IInv'
<1>1. /\ op \in {"encrypt", "decrypt"} /\ op' = op /\ nonce' = nonce /\ data' = data
      /\ results' = results /\ taken' = taken + n /\ turns' = turns + 1
      /\ iv' = iv + Blocks(n)
      /\ out' = out \o CTR(iv, SubSeq(data, taken + 1, taken + n))
  BY DEF EncryptDecrypt2, Hand, NextIV
<1>2. /\ nonce \in Nat /\ data \in Seq(ByteSet) /\ out \in Seq(ByteSet) /\ Len(data) \in Nat
      /\ taken \in Nat /\ iv \in Nat /\ turns \in Nat /\ taken + n <= Len(data)
  BY DEF IInv, TypeOK, Rest
<1>3. /\ out = CTRPart(FirstIV(nonce), data, taken)
      /\ taken = 1024 * turns /\ iv = FirstIV(nonce) + 64 * turns
  <2>1. taken < Len(data)
    BY <1>2
  <2> QED BY <1>1, <2>1 DEF IInv, Encrypting, maxDigestBuffer, aesBlock
<1>4. out' = CTRPart(FirstIV(nonce), data, taken + n)
  <2> DEFINE ctr == FirstIV(nonce)
  <2>1. ctr \in Nat
    BY <1>2, FirstIVType
  <2> HIDE DEF ctr
  <2>2. Fills(taken, ctr, iv)
    BY <2>1, <1>2, <1>3 DEF ctr, Fills, aesBlock
  <2>3. CTRPart(ctr, data, taken) \o CTR(iv, SubSeq(data, taken + 1, taken + n))
          = CTRPart(ctr, data, taken + n)
    <3>1. n \in Nat /\ data \in Seq(ByteSet) /\ taken \in Nat /\ iv \in Nat /\ taken + n <= Len(data)
      BY <1>2
    <3>2. PieceFollows(ctr, iv, data, taken, n)
      BY <3>1, <2>1, <2>2, PartGrows
    <3> QED BY <3>2 DEF PieceFollows
  <2>4. out = CTRPart(ctr, data, taken)
    BY <1>3 DEF ctr
  <2>5. out \o CTR(iv, SubSeq(data, taken + 1, taken + n)) = CTRPart(ctr, data, taken + n)
    BY <2>3, <2>4
  <2> QED BY <1>1, <2>5 DEF ctr
<1>5. TypeOK'
  <2>1. out' \in Seq(ByteSet)
    <3>1. taken + n \in 0..Len(data)
      BY <1>2
    <3>2. FirstIV(nonce) \in Nat
      BY <1>2, FirstIVType
    <3> QED BY <1>2, <1>4, <3>1, <3>2, CTRPartType
  <2>2. iv' \in Nat
    BY <1>1, <1>2 DEF Blocks, aesBlock
  <2> QED BY <1>1, <1>2, <2>1, <2>2 DEF IInv, TypeOK
<1>6. Encrypting'
  <2>1. taken + n < Len(data) =>
          /\ taken + n = maxDigestBuffer * (turns + 1)
          /\ iv + Blocks(n) = FirstIV(nonce) + (maxDigestBuffer \div aesBlock) * (turns + 1)
    <3> SUFFICES ASSUME taken + n < Len(data)
                 PROVE  /\ taken + n = 1024 * (turns + 1)
                        /\ iv + Blocks(n) = FirstIV(nonce) + 64 * (turns + 1)
      BY DEF maxDigestBuffer, aesBlock
    <3>1. n = 1024
      BY <1>2 DEF Rest, maxDigestBuffer
    <3>2. Blocks(n) = 64
      BY <3>1 DEF Blocks, aesBlock
    <3>3. FirstIV(nonce) \in Nat
      BY <1>2, FirstIVType
    <3> QED BY <1>2, <1>3, <3>1, <3>2, <3>3
  <2>2. taken + n = Len(data) => turns + 1 = EncryptTurns(Len(data))
    <3> SUFFICES ASSUME taken + n = Len(data) PROVE turns + 1 = EncryptTurns(Len(data))
      OBVIOUS
    <3>1. n \in 1..1024 /\ Len(data) = 1024 * turns + n
      BY <1>2, <1>3 DEF maxDigestBuffer
    <3>2. (1024 * turns + n + 1024 - 1) \div 1024 = turns + 1
      BY <3>1, <1>2
    <3> QED BY <3>1, <3>2 DEF EncryptTurns, maxDigestBuffer
  <2> QED BY <1>1, <1>4, <2>1, <2>2 DEF Encrypting
<1>7. Hashing' /\ Hashed'
  BY <1>1 DEF Hashing, Hashed
<1>8. Encrypted'
  BY <1>1 DEF IInv, Encrypted
<1> QED BY <1>5, <1>6, <1>7, <1>8 DEF IInv

\* A turn of tpmhmac's loop.
LEMMA UpdateInvariant == ASSUME IInv, SequenceUpdate PROVE IInv'
<1> DEFINE n == maxInputBuffer
<1>0. n \in Nat
  BY DEF maxInputBuffer
<1>1. /\ op = "hmac" /\ op' = op /\ nonce' = nonce /\ data' = data /\ iv' = iv
      /\ results' = results /\ taken' = taken + n /\ turns' = turns + 1
      /\ out' = out \o SubSeq(data, taken + 1, taken + n)
  BY DEF SequenceUpdate, Hand
<1>2. /\ n \in Nat
      /\ data \in Seq(ByteSet) /\ Len(data) \in Nat /\ taken \in Nat /\ turns \in Nat
      /\ taken + n < Len(data)
      /\ out = SubSeq(data, 1, taken) /\ taken = n * turns
  BY <1>0, <1>1 DEF SequenceUpdate, IInv, TypeOK, Hashing, Rest
<1> HIDE DEF n
<1>3. out' = SubSeq(data, 1, taken + n)
  <2>1. taken + n <= Len(data)
    BY <1>2
  <2>2. SubSeq(data, 1, taken) \o SubSeq(data, taken + 1, taken + n)
          = SubSeq(data, 1, taken + n)
    BY <1>2, <2>1, PrefixGrows
  <2>3. out \o SubSeq(data, taken + 1, taken + n) = SubSeq(data, 1, taken + n)
    BY <1>2, <2>2
  <2> QED BY <1>1, <2>3
<1>4. TypeOK'
  <2>1. taken' \in 0..Len(data) /\ turns' \in Nat
    BY <1>1, <1>2
  <2>2. out' \in Seq(ByteSet)
    BY <1>2, <1>3
  <2> QED BY <1>1, <2>1, <2>2 DEF IInv, TypeOK
<1>5. Hashing'
  <2>1. taken + n = n * (turns + 1)
    BY <1>2 DEF n, maxInputBuffer
  <2>2. /\ out' = SubSeq(data', 1, taken')
        /\ taken' = n * turns'
        /\ taken' < Len(data')
    BY <1>1, <1>2, <1>3, <2>1
  <2> QED BY <1>1, <2>2 DEF Hashing, n
<1>6. Encrypting' /\ Hashed'
  BY <1>1 DEF Encrypting, Hashed
<1>7. Encrypted'
  BY <1>1 DEF IInv, Encrypted
<1> QED BY <1>4, <1>5, <1>6, <1>7 DEF IInv

\* The last piece goes to SequenceComplete.
LEMMA CompleteInvariant == ASSUME IInv, SequenceComplete PROVE IInv'
<1>1. /\ op = "hmac" /\ op' = "hashed" /\ nonce' = nonce /\ data' = data /\ iv' = iv
      /\ results' = results /\ taken' = taken + Rest /\ turns' = turns
      /\ out' = out \o SubSeq(data, taken + 1, taken + Rest)
  BY DEF SequenceComplete, Hand
<1>2. /\ data \in Seq(ByteSet) /\ Len(data) \in Nat /\ taken \in Nat /\ turns \in Nat
      /\ Rest \in Nat /\ Rest <= 1024 /\ taken + Rest = Len(data)
      /\ out = SubSeq(data, 1, taken) /\ taken = 1024 * turns
      /\ turns = 0 \/ taken < Len(data)
  BY <1>1 DEF SequenceComplete, IInv, TypeOK, Hashing, Rest, maxInputBuffer
<1>3. out' = data
  <2>1. out \o SubSeq(data, taken + 1, taken + Rest) = SubSeq(data, 1, taken + Rest)
    <3>1. taken + Rest <= Len(data)
      BY <1>2
    <3> QED BY <1>2, <3>1, PrefixGrows
  <2>2. SubSeq(data, 1, Len(data)) = data
    BY <1>2
  <2>3. taken + Rest = Len(data)
    BY <1>2
  <2>4. out' = SubSeq(data, 1, Len(data))
    BY <1>1, <2>1, <2>3
  <2> QED BY <2>2, <2>4
<1>4. turns = UpdateTurns(Len(data))
  <2>1. CASE Len(data) = 0
    BY <2>1, <1>2 DEF UpdateTurns
  <2>2. CASE Len(data) > 0
    <3>1. Len(data) - 1 - 1024 * turns \in 0..1023
      BY <2>2, <1>2
    <3>2. (Len(data) - 1) \div 1024 = turns
      BY <3>1, <1>2
    <3> QED BY <2>2, <3>2 DEF UpdateTurns, maxInputBuffer
  <2> QED BY <2>1, <2>2, <1>2
<1>5. TypeOK'
  <2>1. taken' \in 0..Len(data)
    BY <1>1, <1>2
  <2> QED BY <1>1, <1>2, <1>3, <2>1 DEF IInv, TypeOK
<1>6. Encrypting' /\ Hashing'
  BY <1>1 DEF Encrypting, Hashing
<1>7. Hashed'
  BY <1>1, <1>3, <1>4 DEF Hashed
<1>8. Encrypted'
  BY <1>1 DEF IInv, Encrypted
<1> QED BY <1>5, <1>6, <1>7, <1>8 DEF IInv

\* When a loop of encryptDecryptSymmetric ends, its output is one pass over its data.
LEMMA WholePass ==
  ASSUME IInv, op \in {"encrypt", "decrypt"}, Done
  PROVE  out = CTR(FirstIV(nonce), data) /\ turns = EncryptTurns(Len(data))
<1>1. taken = Len(data)
  BY DEF IInv, TypeOK, Done, Rest
<1>2. out = CTRPart(FirstIV(nonce), data, Len(data)) /\ turns = EncryptTurns(Len(data))
  BY <1>1 DEF IInv, Encrypting
<1> QED BY <1>2, CTRIsPart

\* The results go back to Seal and Open.
LEMMA ReturnInvariant == ASSUME IInv, Return PROVE IInv'
<1> DEFINE r == [nonce |-> nonce, pt |-> data, ct |-> out]
<1>1. /\ op' = "idle"
      /\ results' = results \/ (op = "encrypt" /\ results' = results \union {r})
      /\ UNCHANGED <<nonce, data, taken, iv, out, turns>>
  BY DEF Return
<1>2. r \in Result
  BY DEF IInv, TypeOK, Result
<1>3. op = "encrypt" => r.ct = CTR(FirstIV(r.nonce), r.pt)
  BY WholePass DEF Return
<1> HIDE DEF r
<1>4. TypeOK'
  BY <1>1, <1>2 DEF IInv, TypeOK
<1>5. Encrypting' /\ Hashing' /\ Hashed'
  BY <1>1 DEF Encrypting, Hashing, Hashed
<1>6. Encrypted'
  BY <1>1, <1>3 DEF IInv, Encrypted
<1> QED BY <1>4, <1>5, <1>6 DEF IInv

\* ... and after every step: of the loops, and of the goroutines that begin
\* and return.
THEOREM NextInvariant == IInv /\ [Next]_vars => IInv'
<1> SUFFICES ASSUME IInv, [Next]_vars PROVE IInv'
  OBVIOUS
<1>1. ASSUME NEW n \in Nonce, NEW len \in Length, BeginEncrypt(n, len) \/ BeginHmac(n, len)
      PROVE  IInv'
  <2>1. n \in Nat /\ Plain(n, len) \in Seq(ByteSet)
    BY NonceAssumption, PlainType
  <2>2. CASE BeginEncrypt(n, len)
    BY <2>1, <2>2, BeginInvariant DEF BeginEncrypt
  <2>3. CASE BeginHmac(n, len)
    BY <2>1, <2>3, BeginInvariant DEF BeginHmac
  <2> QED BY <1>1, <2>2, <2>3
<1>2. ASSUME NEW r \in results, BeginDecrypt(r) PROVE IInv'
  <2>1. r.nonce \in Nat /\ r.ct \in Seq(ByteSet)
    BY DEF IInv, TypeOK, Result
  <2> QED BY <1>2, <2>1, BeginInvariant DEF BeginDecrypt
<1>3. CASE FullTurn
  <2>1. 1024 \in Nat \ {0} /\ 1024 <= Rest /\ EncryptDecrypt2(1024)
    BY <1>3 DEF FullTurn, maxDigestBuffer, Rest, IInv, TypeOK
  <2> QED BY <2>1, TurnInvariant DEF maxDigestBuffer
<1>4. CASE LastTurn
  <2>1. Rest \in Nat \ {0} /\ Rest <= Rest /\ (Rest = 1024 \/ Rest < 1024)
    BY <1>4 DEF LastTurn, maxDigestBuffer
  <2>2. EncryptDecrypt2(Rest)
    BY <1>4 DEF LastTurn
  <2> QED BY <2>1, <2>2, TurnInvariant DEF maxDigestBuffer
<1>5. CASE SequenceUpdate
  BY <1>5, UpdateInvariant
<1>6. CASE SequenceComplete
  BY <1>6, CompleteInvariant
<1>7. CASE Return
  BY <1>7, ReturnInvariant
<1>8. CASE ReturnError
  BY <1>8 DEF ReturnError, IInv, TypeOK, Encrypting, Hashing, Hashed, Encrypted
<1>9. CASE UNCHANGED vars
  BY <1>9 DEF vars, IInv, TypeOK, Encrypting, Hashing, Hashed, Encrypted, Rest
<1> QED
  BY <1>1, <1>2, <1>3, <1>4, <1>5, <1>6, <1>7, <1>8, <1>9 DEF Next

\* The inductive invariant of the command loops (encryptDecryptSymmetric and
\* tpmhmac).
THEOREM Invariant == Spec => []IInv
BY Initially, NextInvariant, PTL DEF Spec

-----------------------------------------------------------------------------
(* What follows from it. *)

\* However the data was cut, the output is that of one pass.
THEOREM ChainedAsOnePass == Spec => []OnePass
<1>1. IInv => OnePass
  BY WholePass DEF OnePass
<1> QED BY <1>1, Invariant, PTL

\* Open's loop gives back what Seal's loop was given.
THEOREM DecryptsEncrypted == Spec => []RoundTrip
<1>1. IInv => RoundTrip
  <2> SUFFICES ASSUME IInv, op = "decrypt", Done
               PROVE  \E r \in results : r.nonce = nonce /\ r.ct = data /\ r.pt = out
    BY DEF RoundTrip
  <2>1. PICK r \in results : r.nonce = nonce /\ r.ct = data
    BY DEF IInv, Encrypted
  <2>2. data = CTR(FirstIV(nonce), r.pt)
    BY <2>1 DEF IInv, Encrypted
  <2>3. out = CTR(FirstIV(nonce), data)
    BY WholePass
  <2>4. nonce \in Nat /\ r.pt \in Seq(ByteSet)
    BY <2>1 DEF IInv, TypeOK, Result
  <2>5. r.pt = out
    BY <2>2, <2>3, <2>4, FirstIVType, CTRInvolution
  <2> QED BY <2>1, <2>5
<1> QED BY <1>1, Invariant, PTL

\* tpmhmac hashes all of its input, in order.
THEOREM HashesTheInput == Spec => []HashesAll
<1>1. IInv => HashesAll
  BY DEF IInv, Hashed, HashesAll
<1> QED BY <1>1, Invariant, PTL

\* The numbers of commands that Programs computes are those of the loops.
THEOREM CountsCommands == Spec => []TurnsAsProgrammed
<1>1. IInv => TurnsAsProgrammed
  BY WholePass DEF IInv, Hashed, TurnsAsProgrammed
<1> QED BY <1>1, Invariant, PTL

-----------------------------------------------------------------------------
(* The key stream. *)

\* Plaintexts of running and finished encryptions stay what Seal was given,
\* each under a nonce of its own.
LEMMA FreshNoncesKept ==
  ASSUME FreshNonces, [Next]_vars
  PROVE  FreshNonces'
<1>1. ASSUME NEW n \in Nonce, NEW len \in Length, BeginEncrypt(n, len) PROVE FreshNonces'
  BY <1>1 DEF BeginEncrypt, Begin, FreshNonces
<1>2. ASSUME NEW n \in Nonce, NEW len \in Length, BeginHmac(n, len) PROVE FreshNonces'
  BY <1>2 DEF BeginHmac, Begin, FreshNonces
<1>3. ASSUME NEW r \in results, BeginDecrypt(r) PROVE FreshNonces'
  BY <1>3 DEF BeginDecrypt, Begin, FreshNonces
<1>4. CASE FullTurn \/ LastTurn
  BY <1>4 DEF FullTurn, LastTurn, EncryptDecrypt2, Hand, FreshNonces
<1>5. CASE SequenceUpdate \/ SequenceComplete
  BY <1>5 DEF SequenceUpdate, SequenceComplete, Hand, FreshNonces
<1>6. CASE Return
  <2>1. op' = "idle"
    BY <1>6 DEF Return
  <2>2. CASE op = "encrypt"
    <3> DEFINE new == [nonce |-> nonce, pt |-> data, ct |-> out]
    <3>1. results' = results \union {new} /\ new.nonce = nonce /\ new.pt = data
      BY <1>6, <2>2 DEF Return
    <3> HIDE DEF new
    <3>2. \A r \in results : r.nonce # new.nonce
      BY <2>2, <3>1 DEF FreshNonces
    <3>3. \A r \in results' : \E len \in Length : r.pt = Plain(r.nonce, len)
      BY <2>2, <3>1 DEF FreshNonces
    <3>4. \A r, s \in results' : r.nonce = s.nonce => r = s
      BY <3>1, <3>2 DEF FreshNonces
    <3> QED BY <2>1, <3>3, <3>4 DEF FreshNonces
  <2>3. CASE op # "encrypt"
    BY <1>6, <2>1, <2>3 DEF Return, FreshNonces
  <2> QED BY <2>2, <2>3
<1>7. CASE ReturnError
  BY <1>7 DEF ReturnError, FreshNonces
<1>8. CASE UNCHANGED vars
  BY <1>8 DEF vars, FreshNonces
<1> QED BY <1>1, <1>2, <1>3, <1>4, <1>5, <1>6, <1>7, <1>8 DEF Next

\* The invariants above hold together.
THEOREM StreamInvariant == Spec => []StreamInv
<1>1. Init => FreshNonces
  BY DEF Init, FreshNonces
<1>2. FreshNonces /\ [Next]_vars => FreshNonces'
  BY FreshNoncesKept
<1>3. IInv /\ FreshNonces => StreamInv
  BY DEF StreamInv
<1> QED BY <1>1, <1>2, <1>3, Invariant, PTL DEF Spec

\* The bytes of the key stream in a ciphertext are those of its places.
LEMMA SymbolsOf ==
  ASSUME StreamInv, NEW r \in results
  PROVE  /\ Len(r.pt) \in Nat /\ Len(r.pt) <= aesBlock * CounterBlocks
         /\ KeySymbols(r) = {KeyStream(FirstIV(r.nonce), i) : i \in 1..Len(r.pt)}
<1>1. PICK len \in Length : r.pt = Plain(r.nonce, len)
  BY DEF StreamInv, FreshNonces
<1>2. len \in Nat /\ len <= aesBlock * CounterBlocks
  BY LengthAssumption
<1>3. Len(r.pt) = len /\ \A i \in 1..len : r.pt[i] = {<<"data", r.nonce, i>>}
  BY <1>1, <1>2 DEF Plain
<1>4. r.ct = CTR(FirstIV(r.nonce), r.pt)
  BY DEF StreamInv, IInv, Encrypted
<1>5. \A i \in 1..len : r.ct[i] = CTRByte(FirstIV(r.nonce), r.pt, i)
  BY <1>3, <1>4 DEF CTR
<1>6. ASSUME NEW i \in 1..len PROVE r.ct[i] \ r.pt[i] = {KeyStream(FirstIV(r.nonce), i)}
  <2> DEFINE k == KeyStream(FirstIV(r.nonce), i)
             d == <<"data", r.nonce, i>>
  <2>1. k # d
    BY DEF KeyStream
  <2>2. r.pt[i] = {d} /\ r.ct[i] = Xor(r.pt[i], k)
    BY <1>3, <1>5 DEF CTRByte
  <2> HIDE DEF k, d
  <2>3. r.ct[i] = {d} \union {k}
    BY <2>1, <2>2 DEF Xor
  <2>4. r.ct[i] \ r.pt[i] = {k}
    BY <2>1, <2>2, <2>3
  <2> QED BY <2>4 DEF k
<1>7. KeySymbols(r) = {KeyStream(FirstIV(r.nonce), i) : i \in 1..len}
  BY <1>3, <1>6 DEF KeySymbols
<1> QED BY <1>2, <1>3, <1>7

\* Different places of one message have different bytes of key stream.
LEMMA StreamApart ==
  ASSUME NEW ctr \in Nat, NEW i \in Nat \ {0}, NEW j \in Nat \ {0},
         KeyStream(ctr, i) = KeyStream(ctr, j)
  PROVE  i = j
<1>1. ctr + (i - 1) \div 16 = ctr + (j - 1) \div 16 /\ (i - 1) % 16 = (j - 1) % 16
  BY DEF KeyStream, aesBlock
<1> QED BY <1>1

\* Messages under different nonces take different blocks of it.
LEMMA BlocksApart ==
  ASSUME NEW m \in Nat, NEW n \in Nat, m < n, NEW p \in Nat, NEW q \in Nat,
         p < CounterBlocks
  PROVE  FirstIV(m) + p # FirstIV(n) + q
<1>1. PICK k \in Nat : n = m + 1 + k
  <2>1. n - m - 1 \in Nat /\ n = m + 1 + (n - m - 1)
    OBVIOUS
  <2> QED BY <2>1
<1>2. FirstIV(n) = m * CounterBlocks + CounterBlocks + k * CounterBlocks
  BY <1>1, CounterAssumption DEF FirstIV
<1>3. m * CounterBlocks \in Nat /\ k * CounterBlocks \in Nat /\ CounterBlocks \in Nat
  BY CounterAssumption
<1>4. FirstIV(m) = m * CounterBlocks
  BY DEF FirstIV
<1> QED BY <1>2, <1>3, <1>4

\* No byte of the key stream is used twice.
THEOREM NeverReusesKeyStream == Spec => []KeyStreamFresh
<1>1. ASSUME StreamInv PROVE KeyStreamFresh
  <2>1. \A r \in results : r.nonce \in Nat /\ FirstIV(r.nonce) \in Nat
    BY <1>1, FirstIVType DEF StreamInv, IInv, TypeOK, Result
  <2>2. ASSUME NEW r \in results PROVE Cardinality(KeySymbols(r)) = Len(r.pt)
    <3> DEFINE n == Len(r.pt)
               ctr == FirstIV(r.nonce)
               f == [i \in 1..n |-> KeyStream(ctr, i)]
    <3>1. n \in Nat /\ KeySymbols(r) = {KeyStream(ctr, i) : i \in 1..n}
      BY <1>1, <2>2, SymbolsOf
    <3>2. ctr \in Nat
      BY <2>1
    <3> HIDE DEF n, ctr
    <3>3. \A i, j \in 1..n : f[i] = f[j] => i = j
      BY <3>1, <3>2, StreamApart
    <3>4. f \in Bijection(1..n, KeySymbols(r))
      BY <3>1, <3>3 DEF Bijection, Injection, Surjection, IsInjective
    <3>5. Cardinality(KeySymbols(r)) = Cardinality(1..n)
      BY <3>1, <3>4, FS_Interval, FS_Bijection DEF ExistsBijection
    <3>6. Cardinality(1..n) = n
      BY <3>1, FS_Interval
    <3> QED BY <3>5, <3>6 DEF n
  <2>3. ASSUME NEW r \in results, NEW s \in results, NEW x \in KeySymbols(r), x \in KeySymbols(s),
               r.nonce < s.nonce
        PROVE  FALSE
    <3>1. PICK i \in 1..Len(r.pt) : x = KeyStream(FirstIV(r.nonce), i)
      BY <1>1, <2>3, SymbolsOf
    <3>2. PICK j \in 1..Len(s.pt) : x = KeyStream(FirstIV(s.nonce), j)
      BY <1>1, <2>3, SymbolsOf
    <3> DEFINE p == (i - 1) \div 16
               q == (j - 1) \div 16
    <3>3. FirstIV(r.nonce) + p = FirstIV(s.nonce) + q
      BY <3>1, <3>2 DEF KeyStream, aesBlock
    <3>4. Len(r.pt) \in Nat /\ Len(s.pt) \in Nat /\ Len(r.pt) <= 16 * CounterBlocks
      BY <1>1, SymbolsOf DEF aesBlock
    <3>5. p \in Nat /\ q \in Nat /\ p < CounterBlocks
      BY <3>4, CounterAssumption
    <3> HIDE DEF p, q
    <3> QED BY <2>1, <2>3, <3>3, <3>5, BlocksApart
  <2>4. ASSUME NEW r \in results, NEW s \in results, r # s
        PROVE  KeySymbols(r) \intersect KeySymbols(s) = {}
    <3>1. r.nonce # s.nonce
      BY <1>1, <2>4 DEF StreamInv, FreshNonces
    <3>2. r.nonce < s.nonce \/ s.nonce < r.nonce
      BY <2>1, <3>1
    <3> QED BY <2>3, <3>2
  <2> QED BY <2>2, <2>4 DEF KeyStreamFresh
<1> QED BY <1>1, StreamInvariant, PTL
=============================================================================
