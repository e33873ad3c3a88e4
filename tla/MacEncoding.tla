---------------------------- MODULE MacEncoding ----------------------------
(***************************************************************************)
(* What Seal and Open authenticate: the bytes they write to the buffer     *)
(* they hand to tpmhmac.  TPMAEAD takes it for granted that equal tags     *)
(* mean equal nonce, additional data and ciphertext; that holds only if    *)
(* different messages are never written as the same bytes.                 *)
(***************************************************************************)
EXTENDS Programs

CONSTANT Message         \* what is authenticated: [nonce, aad, ct]

VARIABLES
  sent,                  \* the message Seal authenticated
  received               \* the message Open is given with its tag
vars == <<sent, received>>

Byte == 0..255

-----------------------------------------------------------------------------
(* The encoding. *)

\* n shifted right by 0, 1, ..., 8 bytes.
Shifts(n) ==
  LET n1 == n \div 256
      n2 == n1 \div 256
      n3 == n2 \div 256
      n4 == n3 \div 256
      n5 == n4 \div 256
      n6 == n5 \div 256
      n7 == n6 \div 256
  IN <<n, n1, n2, n3, n4, n5, n6, n7, n7 \div 256>>

FitsUint64(n) == Shifts(n)[9] = 0

\* binary.Write of a uint64, the lowest byte first.
PutUint64(n) == [i \in 1..8 |-> Shifts(n)[i] % 256]

Zeros(n) == [i \in 1..n |-> 0]

Lengths(m) == PutUint64(Len(m.aad)) \o PutUint64(Len(m.ct))

\* Mutant: only the length of the ciphertext is written, where zeros at the end
\* of the additional data look like padding.
EncodeWithoutAADLength(m) ==
  PutUint64(0) \o PutUint64(Len(m.ct)) \o m.nonce \o m.aad
    \o Zeros(PaddingLength(Len(m.nonce), Len(m.aad))) \o m.ct

Encode(m) ==
  Lengths(m) \o m.nonce \o m.aad
    \o Zeros(PaddingLength(Len(m.nonce), Len(m.aad))) \o m.ct

\* Go's slices are shorter than 2^63 bytes; the nonce's length was checked.
ASSUME MessageAssumption ==
  \A m \in Message :
    /\ m \in [nonce : Seq(Byte), aad : Seq(Byte), ct : Seq(Byte)]
    /\ Len(m.nonce) = nonceSize
    /\ FitsUint64(Len(m.aad)) /\ FitsUint64(Len(m.ct))

-----------------------------------------------------------------------------
(* A message is sealed; Open is called with any message at all.            *)

Init == sent \in Message /\ received = sent

Open ==
  /\ received' \in Message
  /\ UNCHANGED sent

Next == Open
Spec == Init /\ [][Next]_vars

-----------------------------------------------------------------------------
(* Properties. *)

\* The tag of one message is the tag of no other: Open computes the HMAC of the
\* very bytes Seal did only for the same nonce, additional data and ciphertext.
EncodingInjective == Encode(sent) = Encode(received) => sent = received

\* The ciphertext begins at the first whole block of SHA-256 that the header
\* leaves free, and the length is the one the number of HMAC commands is
\* computed from in Programs.
CiphertextAligned ==
  LET m == received
      begin == Len(Encode(m)) - Len(m.ct)
      header == 16 + Len(m.nonce) + Len(m.aad)
  IN /\ Len(Encode(m)) = MacLength(Len(m.nonce), Len(m.aad), Len(m.ct))
     /\ begin % blockSize = 0
     /\ begin - header \in 0..(blockSize - 1)
=============================================================================
