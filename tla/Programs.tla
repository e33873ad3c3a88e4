------------------------------ MODULE Programs ------------------------------
(***************************************************************************)
(* What one call of the library does, as the sequence of its steps: the    *)
(* TPM commands it issues and the local decisions between them, in program *)
(* order.  A step is a pair of a command and the variable of the Go        *)
(* function it is about.  How a step succeeds or fails, and what failing   *)
(* runs, is in TPMAEAD.                                                    *)
(***************************************************************************)
EXTENDS Naturals, Sequences

nonceSize == 12
tagSize == 32
blockSize == 64           \* sha256.BlockSize
maxDigestBuffer == 1024
maxInputBuffer == 1024

\* The Go variables that hold a handle.
ObjectVariable == {"primary", "aes", "hmac", "sequence"}
SessionVariable == {"trial", "aesSession", "hmacSession"}
Variable == ObjectVariable \union SessionVariable

\* Steps decided by the library alone; every other step is a TPM command.
LocalCommand == {"CheckLengths", "Dial", "CheckKeys", "Defer", "CheckTag"}
Command == LocalCommand \union
  {"StartAuthSession", "PolicyPCR", "PolicyAuthValue", "PolicyGetDigest",
   "CreatePrimary", "Create", "Load", "EncryptDecrypt2", "ReadPublic",
   "HmacStart", "SequenceUpdate", "SequenceComplete", "FlushContext"}
Step == Command \X (Variable \union {"none"})

Repeat(step, n) == [i \in 1..n |-> step]

\* The loop of encryptDecryptSymmetric takes at most maxDigestBuffer bytes a
\* turn and takes no turn for empty data.
EncryptTurns(len) == (len + maxDigestBuffer - 1) \div maxDigestBuffer

\* Mutant: no remainder after the subtraction, so a full block of padding where
\* none is needed.
PaddingOfFullBlock(nonceLen, aadLen) == blockSize - ((16 + nonceLen + aadLen) % blockSize)

\* Zeros after the header of what is authenticated, up to a whole block.
PaddingLength(nonceLen, aadLen) ==
  (blockSize - ((16 + nonceLen + aadLen) % blockSize)) % blockSize

\* Length of what is authenticated: two lengths, nonce, additional data,
\* padding, ciphertext.
MacLength(nonceLen, aadLen, ctLen) ==
  16 + nonceLen + aadLen + PaddingLength(nonceLen, aadLen) + ctLen

\* The loop of tpmhmac keeps the last piece, maxInputBuffer bytes at most, for
\* SequenceComplete.
UpdateTurns(len) == IF len = 0 THEN 0 ELSE (len - 1) \div maxInputBuffer

\* Mutant: the caller does not defer the closer.
GetSessionWithoutDefer(kind, v) ==
  << <<"StartAuthSession", v>> >>
  \o (IF kind \in {"pcr", "pcr_authvalue"} THEN << <<"PolicyPCR", v>> >> ELSE <<>>)
  \o (IF kind \in {"authvalue", "pcr_authvalue"} THEN << <<"PolicyAuthValue", v>> >> ELSE <<>>)

\* GetSession of the four implementations of Session, and the caller's defer of
\* the closer it returned.
GetSession(kind, v) ==
  << <<"StartAuthSession", v>> >>
  \o (IF kind \in {"pcr", "pcr_authvalue"} THEN << <<"PolicyPCR", v>> >> ELSE <<>>)
  \o (IF kind \in {"authvalue", "pcr_authvalue"} THEN << <<"PolicyAuthValue", v>> >> ELSE <<>>)
  \o << <<"Defer", v>> >>

\* ReadPublic of the loaded key, then tpmhmac.
Hmac(len) ==
  << <<"ReadPublic", "hmac">>, <<"HmacStart", "hmac">> >>
  \o Repeat(<<"SequenceUpdate", "sequence">>, UpdateTurns(len))
  \o << <<"SequenceComplete", "sequence">> >>

Encrypt(len) == Repeat(<<"EncryptDecrypt2", "aes">>, EncryptTurns(len))

NewKeyProgram(kind) ==
  << <<"Dial", "none">> >>
  \o GetSession(kind, "trial")
  \o << <<"PolicyGetDigest", "trial">>, <<"CreatePrimary", "primary">>,
        <<"Create", "aes">>, <<"Create", "hmac">> >>

NewAESCTRHMACProgram == << <<"Dial", "none">>, <<"CheckKeys", "none">> >>

\* Seal in three parts: up to the AES key's session, up to the HMAC key's
\* session, and the tag.
SealHead(kind) ==
  << <<"CheckLengths", "none">>, <<"Dial", "none">>,
     <<"CreatePrimary", "primary">>, <<"Load", "aes">> >>
  \o GetSession(kind, "aesSession")

SealTail(kind, nonceLen, aadLen, len) ==
  << <<"Load", "hmac">> >>
  \o GetSession(kind, "hmacSession")
  \o Hmac(MacLength(nonceLen, aadLen, len))
  \o << <<"Defer", "hmac">> >>

\* Mutants of Seal: the AES key stays loaded to the end; the primary is flushed
\* in its place; the tag is computed before the data is encrypted.
SealKeepingAES(kind, nonceLen, aadLen, len) ==
  SealHead(kind) \o Encrypt(len) \o << <<"FlushContext", "aesSession">> >>
  \o SealTail(kind, nonceLen, aadLen, len)

SealFlushingPrimary(kind, nonceLen, aadLen, len) ==
  SealHead(kind) \o Encrypt(len)
  \o << <<"FlushContext", "primary">>, <<"FlushContext", "aesSession">> >>
  \o SealTail(kind, nonceLen, aadLen, len)

SealTagFirst(kind, nonceLen, aadLen, len) ==
  << <<"CheckLengths", "none">>, <<"Dial", "none">>, <<"CreatePrimary", "primary">> >>
  \o SealTail(kind, nonceLen, aadLen, len)
  \o << <<"FlushContext", "hmac">>, <<"FlushContext", "hmacSession">>, <<"Load", "aes">> >>
  \o GetSession(kind, "aesSession") \o Encrypt(len)

\* Encrypt, then authenticate.  The AES key and its session are released
\* before the HMAC key is loaded, and the HMAC key's flush is deferred twice.
SealProgram(kind, nonceLen, aadLen, len) ==
  SealHead(kind)
  \o Encrypt(len)
  \o << <<"FlushContext", "aes">>, <<"FlushContext", "aesSession">> >>
  \o SealTail(kind, nonceLen, aadLen, len)

\* Authenticate, then decrypt.
OpenProgram(kind, nonceLen, aadLen, len) ==
  << <<"CheckLengths", "none">>, <<"Dial", "none">>,
     <<"CreatePrimary", "primary">>, <<"Load", "hmac">> >>
  \o GetSession(kind, "hmacSession")
  \o Hmac(MacLength(nonceLen, aadLen, len))
  \o << <<"FlushContext", "hmacSession">>, <<"FlushContext", "hmac">>,
        <<"CheckTag", "none">>, <<"Load", "aes">> >>
  \o GetSession(kind, "aesSession")
  \o Encrypt(len)
=============================================================================
