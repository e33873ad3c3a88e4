---------------------------- MODULE CommandLoops ----------------------------
(***************************************************************************)
(* The two loops that cut long data into the pieces a TPM command takes:   *)
(* encryptDecryptSymmetric, which hands the counter block each command     *)
(* returns to the next one, and tpmhmac, which keeps the last piece for    *)
(* SequenceComplete.  A byte is the set of the symbols it is the exclusive *)
(* or of: one symbol per byte of a plaintext and one per byte of AES-CTR's *)
(* key stream, so that equal bytes are equal whatever the key.             *)
(***************************************************************************)
EXTENDS Programs, FiniteSets

CONSTANTS
  Nonce,           \* nonces, numbered
  Length,          \* lengths of the plaintexts
  CounterBlocks    \* blocks before the counter runs into the next nonce: 2^32

VARIABLES
  op,              \* the loop that is running
  nonce, data,     \* its arguments
  taken,           \* bytes of data handed to the TPM so far
  iv,              \* the counter block for the next command
  out,             \* what came back, or what the TPM has hashed
  turns,           \* TPM commands so far
  results          \* what encryption returned: [nonce, pt, ct]
vars == <<op, nonce, data, taken, iv, out, turns, results>>

aesBlock == 16

ASSUME NonceAssumption == Nonce \subseteq Nat
ASSUME CounterAssumption == CounterBlocks \in Nat

\* Nothing in the code stops a longer message; 2^32 blocks are 64 gigabytes.
ASSUME LengthAssumption == \A len \in Length : len \in Nat /\ len <= aesBlock * CounterBlocks

-----------------------------------------------------------------------------
(* Bytes. *)

Plain(n, len) == [i \in 1..len |-> {<<"data", n, i>>}]
Xor(byte, symbol) == IF symbol \in byte THEN byte \ {symbol} ELSE byte \union {symbol}

\* The nonce and four zero bytes, as a number of blocks.
FirstIV(n) == n * CounterBlocks

\* Blocks that n bytes begin.
Blocks(n) == (n + aesBlock - 1) \div aesBlock

\* Byte i of the key stream from counter block ctr on: its block and its place.
KeyStream(ctr, i) == <<"key", ctr + (i - 1) \div aesBlock, (i - 1) % aesBlock>>

CTRByte(ctr, bytes, i) == Xor(bytes[i], KeyStream(ctr, i))

\* EncryptDecrypt2 in CTR mode: encryption and decryption are the same.
CTR(ctr, bytes) == [i \in 1..Len(bytes) |-> CTRByte(ctr, bytes, i)]

\* Mutant: the command's IV does not come back.
NextIVUnchanged(ctr, n) == ctr

\* The counter block EncryptDecrypt2 returns after n bytes.
NextIV(ctr, n) == ctr + Blocks(n)

-----------------------------------------------------------------------------
(* The loops. *)

Rest == Len(data) - taken

\* Mutant: the second loop starts where the first one ended.
BeginWithoutReset(o, n, bytes) ==
  /\ op = "idle"
  /\ op' = o /\ nonce' = n /\ data' = bytes
  /\ iv' = FirstIV(n) /\ out' = <<>> /\ turns' = 0
  /\ UNCHANGED <<taken, results>>

Begin(o, n, bytes) ==
  /\ op = "idle"
  /\ op' = o /\ nonce' = n /\ data' = bytes
  /\ taken' = 0 /\ iv' = FirstIV(n) /\ out' = <<>> /\ turns' = 0
  /\ UNCHANGED results

\* A caller never encrypts twice under one nonce.
BeginEncrypt(n, len) ==
  /\ \A r \in results : r.nonce # n
  /\ Begin("encrypt", n, Plain(n, len))

BeginDecrypt(r) == Begin("decrypt", r.nonce, r.ct)

\* tpmhmac's HmacStart.
BeginHmac(n, len) == Begin("hmac", n, Plain(n, len))

\* The next n bytes go to the TPM.
Hand(n) == taken' = taken + n /\ UNCHANGED <<nonce, data, results>>

\* Mutant: what the earlier commands returned is dropped.
EncryptDecrypt2KeepsLast(n) ==
  /\ op \in {"encrypt", "decrypt"} /\ Hand(n)
  /\ out' = CTR(iv, SubSeq(data, taken + 1, taken + n))
  /\ iv' = NextIV(iv, n)
  /\ turns' = turns + 1
  /\ UNCHANGED op

\* One turn of encryptDecryptSymmetric's loop, with n bytes.
EncryptDecrypt2(n) ==
  /\ op \in {"encrypt", "decrypt"} /\ Hand(n)
  /\ out' = out \o CTR(iv, SubSeq(data, taken + 1, taken + n))
  /\ iv' = NextIV(iv, n)
  /\ turns' = turns + 1
  /\ UNCHANGED op

FullTurn == Rest > maxDigestBuffer /\ EncryptDecrypt2(maxDigestBuffer)
LastTurn == Rest \in 1..maxDigestBuffer /\ EncryptDecrypt2(Rest)

\* Mutant: the last piece is not always left for SequenceComplete.
SequenceUpdateOfAll ==
  /\ op = "hmac" /\ Rest >= maxInputBuffer
  /\ Hand(maxInputBuffer)
  /\ out' = out \o SubSeq(data, taken + 1, taken + maxInputBuffer)
  /\ turns' = turns + 1
  /\ UNCHANGED <<op, iv>>

SequenceUpdate ==
  /\ op = "hmac" /\ Rest > maxInputBuffer
  /\ Hand(maxInputBuffer)
  /\ out' = out \o SubSeq(data, taken + 1, taken + maxInputBuffer)
  /\ turns' = turns + 1
  /\ UNCHANGED <<op, iv>>

\* Mutant: nothing is left for SequenceComplete.
SequenceCompleteOfNothing ==
  /\ op = "hmac" /\ Rest <= maxInputBuffer
  /\ Hand(0)
  /\ op' = "hashed"
  /\ UNCHANGED <<iv, out, turns>>

SequenceComplete ==
  /\ op = "hmac" /\ Rest <= maxInputBuffer
  /\ Hand(Rest)
  /\ out' = out \o SubSeq(data, taken + 1, taken + Rest)
  /\ op' = "hashed"
  /\ UNCHANGED <<iv, turns>>

\* The loop ends: ciphertext goes back to Seal, plaintext to Open, and the tag
\* to either.
Done == op = "hashed" \/ (op \in {"encrypt", "decrypt"} /\ Rest = 0)

Return ==
  /\ Done
  /\ op' = "idle"
  /\ results' = IF op = "encrypt"
                  THEN results \union {[nonce |-> nonce, pt |-> data, ct |-> out]} ELSE results
  /\ UNCHANGED <<nonce, data, taken, iv, out, turns>>

\* A command fails: nothing of what came back so far is returned.
ReturnError ==
  /\ op # "idle" /\ ~Done
  /\ op' = "idle"
  /\ UNCHANGED <<nonce, data, taken, iv, out, turns, results>>

-----------------------------------------------------------------------------

Init ==
  /\ op = "idle" /\ nonce \in Nonce /\ data = <<>> /\ taken = 0
  /\ iv = FirstIV(nonce) /\ out = <<>> /\ turns = 0 /\ results = {}

Next ==
  \/ \E n \in Nonce, len \in Length : BeginEncrypt(n, len) \/ BeginHmac(n, len)
  \/ \E r \in results : BeginDecrypt(r)
  \/ FullTurn \/ LastTurn \/ SequenceUpdate \/ SequenceComplete
  \/ Return \/ ReturnError

Spec == Init /\ [][Next]_vars

-----------------------------------------------------------------------------
(* Properties. *)

ByteSet == SUBSET (({"data"} \X Nat \X Nat) \union ({"key"} \X Nat \X Nat))
Result == [nonce : Nat, pt : Seq(ByteSet), ct : Seq(ByteSet)]

TypeOK ==
  /\ op \in {"idle", "encrypt", "decrypt", "hmac", "hashed"}
  /\ nonce \in Nat /\ data \in Seq(ByteSet) /\ out \in Seq(ByteSet)
  /\ taken \in 0..Len(data) /\ iv \in Nat /\ turns \in Nat
  /\ results \subseteq Result

\* Data in pieces is encrypted as in one piece: the chained counter blocks are
\* those of one pass from the nonce on, however the data was cut.
OnePass == op \in {"encrypt", "decrypt"} /\ Done => out = CTR(FirstIV(nonce), data)

\* What Open decrypts is what Seal encrypted.
RoundTrip ==
  op = "decrypt" /\ Done => \E r \in results : r.nonce = nonce /\ r.ct = data /\ r.pt = out

\* No two bytes ever encrypted share their byte of key stream, within a message
\* or across messages, up to the last byte before the counter reaches the next
\* nonce.
KeySymbols(r) == UNION {r.ct[i] \ r.pt[i] : i \in 1..Len(r.pt)}
KeyStreamFresh ==
  /\ \A r \in results : Cardinality(KeySymbols(r)) = Len(r.pt)
  /\ \A r, s \in results : r # s => KeySymbols(r) \intersect KeySymbols(s) = {}

\* The TPM hashes the whole input, in order and once.
HashesAll == op = "hashed" => out = data

\* Programs counts the commands of both loops right.
TurnsAsProgrammed ==
  /\ op \in {"encrypt", "decrypt"} /\ Done => turns = EncryptTurns(Len(data))
  /\ op = "hashed" => turns = UpdateTurns(Len(data))

-----------------------------------------------------------------------------
(* The inductive invariant. *)

CTRPart(ctr, bytes, n) == [i \in 1..n |-> CTRByte(ctr, bytes, i)]

\* Before the last turn of encryption, whole pieces are behind, and so whole
\* blocks; then the turns are those of the length.
Encrypting ==
  op \in {"encrypt", "decrypt"} =>
    /\ out = CTRPart(FirstIV(nonce), data, taken)
    /\ taken < Len(data) =>
         /\ taken = maxDigestBuffer * turns
         /\ iv = FirstIV(nonce) + (maxDigestBuffer \div aesBlock) * turns
    /\ taken = Len(data) => turns = EncryptTurns(Len(data))

\* The loop of tpmhmac never takes the last byte.
Hashing ==
  op = "hmac" =>
    /\ out = SubSeq(data, 1, taken)
    /\ taken = maxInputBuffer * turns
    /\ turns = 0 \/ taken < Len(data)

Hashed == op = "hashed" => out = data /\ turns = UpdateTurns(Len(data))

\* Every ciphertext is its plaintext's, and only these are decrypted.
Encrypted ==
  /\ \A r \in results : r.ct = CTR(FirstIV(r.nonce), r.pt)
  /\ op = "decrypt" => \E r \in results : r.nonce = nonce /\ r.ct = data

\* What holds after every step; the properties above but KeyStreamFresh follow.
IInv == TypeOK /\ Encrypting /\ Hashing /\ Hashed /\ Encrypted

\* What Seal is given has one nonce per message and no byte of a key stream.
FreshNonces ==
  /\ op = "encrypt" =>
       /\ \E len \in Length : data = Plain(nonce, len)
       /\ \A r \in results : r.nonce # nonce
  /\ \A r \in results : \E len \in Length : r.pt = Plain(r.nonce, len)
  /\ \A r, s \in results : r.nonce = s.nonce => r = s

\* ... from which KeyStreamFresh follows.
StreamInv == IInv /\ FreshNonces
=============================================================================
